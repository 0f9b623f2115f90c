---------------------------- MODULE DbProxy_proofs ----------------------------
(***************************************************************************)
(* Theorems about the sessions of CDbProxy: for every number of clients,    *)
(* sessions and timeouts, and for callbacks that open sessions and destroy  *)
(* clients in the middle of onTimer(), the two maps agree and every session *)
(* ends once; m_listTimeout holds what it should, in order, and onTimer()   *)
(* skips nothing.                                                           *)
(*                                                                          *)
(* The maps do not depend on the list: every way a session ends looks it up *)
(* in m_mapPendingResponseInfo first.  The list depends on the maps.        *)
(***************************************************************************)
EXTENDS DbProxy, SequenceTheorems, WellFoundedInduction, TLAPS

-----------------------------------------------------------------------------
(* The inductive invariant.                                                 *)

SessionType == [client : Client, kind : {"read", "write"}, deadline : Nat \cup {NoTimeout}]

Answered == {delivered[k].s : k \in DOMAIN delivered}

SessionsOK ==
  /\ now \in Nat
  /\ alive \subseteq Client
  /\ session \in Seq(SessionType)
  /\ m_mapPendingResponseInfo \subseteq Session
  /\ m_mapPendingResponseInfoByDbClient \in [Client -> SUBSET Session]
  /\ DOMAIN delivered = 1 .. Len(delivered) /\ Len(delivered) \in Nat

OnceInv ==
  /\ \A j, k \in DOMAIN delivered : j # k => delivered[j].s # delivered[k].s
  /\ Answered \cup cancelled \cup m_mapPendingResponseInfo = Session
  /\ Answered \cap cancelled = {}
  /\ m_mapPendingResponseInfo \cap (Answered \cup cancelled) = {}

SessionInv == SessionsOK /\ ClientIndexExact /\ OnceInv

-----------------------------------------------------------------------------
(* What the actions do to the sessions.                                     *)

\* A request: a new session, pending, and in the index of its client, which exists.
OpenStep(c, n) ==
  /\ c \in alive /\ n \notin Session
  /\ session' \in Seq(SessionType) /\ Session' = Session \cup {n}
  /\ \A s \in Session : session'[s] = session[s]
  /\ session'[n].client = c
  /\ m_mapPendingResponseInfo' = m_mapPendingResponseInfo \cup {n}
  /\ m_mapPendingResponseInfoByDbClient' =
       [m_mapPendingResponseInfoByDbClient EXCEPT ![c] = @ \cup {n}]
  /\ UNCHANGED <<alive, delivered, cancelled>>

\* A callback: a pending session leaves both maps.
FinishStep(s) ==
  /\ s \in m_mapPendingResponseInfo
  /\ \E code, sent : Finish(s, code, sent)
  /\ UNCHANGED <<alive, session, cancelled>>

\* ~CDbClient: the sessions of its index are cancelled.
DestroyStep(c) ==
  LET own == m_mapPendingResponseInfoByDbClient[c]
  IN  /\ alive' = alive \ {c}
      /\ m_mapPendingResponseInfo' = m_mapPendingResponseInfo \ own
      /\ m_mapPendingResponseInfoByDbClient' =
           [m_mapPendingResponseInfoByDbClient EXCEPT ![c] = {}]
      /\ cancelled' = cancelled \cup own
      /\ UNCHANGED <<session, delivered>>

QuietStep ==
  /\ alive \subseteq alive' /\ alive' \subseteq Client
  /\ UNCHANGED <<session, mapVars, delivered, cancelled>>

\* Every step is one of these: the timer's iterator, its list and the clock have no
\* part in it.
LEMMA StepKinds ==
  ASSUME SessionsOK, [Next]_vars
  PROVE  \/ QuietStep
         \/ \E c \in Client, n \in Nat : OpenStep(c, n)
         \/ \E s : FinishStep(s)
         \/ \E c \in Client : DestroyStep(c)
<1>1. CASE UNCHANGED vars \/ EnterTimer \/ CallbackReturns \/ LeaveTimer \/ UseDangling \/ Tick
  <2>1. QuietStep
    BY <1>1 DEF SessionsOK, QuietStep, vars, mapVars, EnterTimer, CallbackReturns, LeaveTimer,
                UseDangling, Tick
  <2> QED
    BY <2>1
<1>2. ASSUME NEW c \in Client, Create(c) PROVE QuietStep
  BY <1>2 DEF SessionsOK, QuietStep, Create, mapVars
<1>3. ASSUME NEW c \in Client, NEW kind \in {"read", "write"},
             NEW deadline \in Nat \cup {NoTimeout}, Open(c, kind, deadline)
      PROVE  \E n \in Nat : OpenStep(c, n)
  <2> DEFINE new == [client |-> c, kind |-> kind, deadline |-> deadline]
             n == Len(session) + 1
  <2>1. new \in SessionType /\ new.client = c
    BY DEF SessionType
  <2>2. session \in Seq(SessionType) /\ session' = Append(session, new)
    BY <1>3 DEF SessionsOK, Open
  <2> HIDE DEF new
  <2>3. /\ session' \in Seq(SessionType) /\ Len(session') = n /\ n \in Nat
        /\ \A s \in 1 .. Len(session) : session'[s] = session[s]
        /\ session'[n] = new
    BY <2>1, <2>2
  <2>4. Session = 1 .. Len(session) /\ Session' = 1 .. n
    BY <2>2, <2>3 DEF Session
  <2>5. n \notin Session /\ Session' = Session \cup {n}
    BY <2>2, <2>4
  <2>6. OpenStep(c, n)
    BY <1>3, <2>1, <2>3, <2>4, <2>5 DEF Open, OpenStep
  <2> QED
    BY <2>3, <2>6
<1>4. ASSUME NEW c \in Client, NEW kind \in Kind, NEW timeout \in Timeout,
             Request(c, kind, timeout)
      PROVE  \E n \in Nat : OpenStep(c, n)
  <2>1. kind \in {"read", "write"} /\ now + timeout \in Nat
    BY KindAssumption, TimeoutAssumption DEF SessionsOK
  <2> QED
    BY <1>3, <1>4, <2>1 DEF Request
<1>5. ASSUME NEW c \in Client, nop(c)
      PROVE  \E n \in Nat : OpenStep(c, n)
  BY <1>3, <1>5 DEF nop
<1>6. ASSUME NEW c \in Client, Destroy(c) PROVE DestroyStep(c)
  BY <1>6 DEF Destroy, DestroyStep
<1>7. ASSUME NEW s \in Session, NEW err_code \in ResponseCode, onMessage(s, err_code)
      PROVE  FinishStep(s)
  BY <1>7 DEF onMessage, FinishStep
<1>8. ASSUME Expire PROVE QuietStep \/ FinishStep(iter)
  <2>1. CASE iter \in m_mapPendingResponseInfo
    BY <1>8, <2>1 DEF Expire, FinishStep
  <2>2. CASE iter \notin m_mapPendingResponseInfo
    BY <1>8, <2>2 DEF Expire, QuietStep, SessionsOK, mapVars
  <2> QED
    BY <2>1, <2>2
<1> QED
  BY <1>1, <1>2, <1>4, <1>5, <1>6, <1>7, <1>8 DEF Next, onTimer

\* The clock, by which requests get their deadlines.
LEMMA ClockStep ==
  ASSUME now \in Nat, [Next]_vars
  PROVE  now' \in Nat
<1>1. now' = now \/ now' = now + 1
  BY DEF Next, vars, Create, Destroy, nop, Request, Passing, Open, onMessage, onTimer, EnterTimer,
         Expire, CallbackReturns, LeaveTimer, UseDangling, Tick
<1> QED
  BY <1>1

-----------------------------------------------------------------------------
(* Each kind of step keeps the invariant.                                   *)

\* Steps of the clock and of the timer's loop, and new clients, change no session.
LEMMA QuietKeeps ==
  ASSUME SessionInv, now' \in Nat, QuietStep
  PROVE  SessionInv'
BY DEF SessionInv, SessionsOK, ClientIndexExact, OnceInv, Answered, QuietStep, mapVars, Session

\* A new session is in both maps and in no history.
LEMMA OpenKeeps ==
  ASSUME SessionInv, now' \in Nat, NEW c \in Client, NEW n \in Nat, OpenStep(c, n)
  PROVE  SessionInv'
<1>1. SessionsOK' /\ m_mapPendingResponseInfoByDbClient'[c]
        = m_mapPendingResponseInfoByDbClient[c] \cup {n}
  BY DEF SessionInv, SessionsOK, OpenStep
<1>2. \A d \in Client : d # c =>
        m_mapPendingResponseInfoByDbClient'[d] = m_mapPendingResponseInfoByDbClient[d]
  BY DEF SessionInv, SessionsOK, OpenStep
<1>3. m_mapPendingResponseInfo \subseteq Session
  BY DEF SessionInv, SessionsOK
<1>4. ClientIndexExact'
  <2> SUFFICES ASSUME NEW d \in Client PROVE ClientIndexExact!(d)'
    BY DEF ClientIndexExact
  <2>1. {s \in m_mapPendingResponseInfo' : session'[s].client = d}
          = {s \in m_mapPendingResponseInfo : session[s].client = d}
              \cup (IF d = c THEN {n} ELSE {})
    BY <1>3 DEF OpenStep
  <2>2. /\ m_mapPendingResponseInfoByDbClient[d]
             = {s \in m_mapPendingResponseInfo : session[s].client = d}
        /\ d \notin alive => m_mapPendingResponseInfoByDbClient[d] = {}
    BY DEF SessionInv, ClientIndexExact
  <2>3. alive' = alive /\ c \in alive
    BY DEF OpenStep
  <2> QED
    BY <1>1, <1>2, <2>1, <2>2, <2>3
<1>5. OnceInv'
  BY <1>3 DEF SessionInv, OnceInv, Answered, OpenStep
<1> QED
  BY <1>1, <1>4, <1>5 DEF SessionInv

\* A session that is called back leaves both maps and enters one history.
LEMMA FinishKeeps ==
  ASSUME SessionInv, now' \in Nat, NEW s, FinishStep(s)
  PROVE  SessionInv'
<1> DEFINE c == session[s].client
<1>0. /\ s \in m_mapPendingResponseInfo /\ s \in Session
      /\ m_mapPendingResponseInfo \subseteq Session
  BY DEF SessionInv, SessionsOK, FinishStep
<1>1. c \in Client
  <2>1. session \in Seq(SessionType) /\ session[s] \in SessionType
    BY <1>0 DEF SessionInv, SessionsOK, Session
  <2> QED
    BY <2>1 DEF SessionType
<1>2. /\ m_mapPendingResponseInfo' = m_mapPendingResponseInfo \ {s}
      /\ alive' = alive /\ session' = session /\ cancelled' = cancelled
      /\ m_mapPendingResponseInfoByDbClient' =
           [m_mapPendingResponseInfoByDbClient EXCEPT ![c] = @ \ {s}]
  BY DEF FinishStep, Finish
<1>3. PICK last : delivered' = Append(delivered, last) /\ last.s = s
  BY DEF FinishStep, Finish
<1>4. Len(delivered) \in Nat /\ DOMAIN delivered = 1 .. Len(delivered)
  BY DEF SessionInv, SessionsOK
<1>5. /\ DOMAIN delivered' = 1 .. Len(delivered) + 1 /\ Len(delivered') = Len(delivered) + 1
      /\ \A k \in DOMAIN delivered : delivered'[k] = delivered[k]
      /\ delivered'[Len(delivered) + 1] = last
  BY <1>3, <1>4
<1>6. Answered' = Answered \cup {s}
  <2>1. DOMAIN delivered' = DOMAIN delivered \cup {Len(delivered) + 1}
    BY <1>4, <1>5
  <2> QED
    BY <1>3, <1>5, <2>1 DEF Answered
<1> HIDE DEF c
<1>7. SessionsOK'
  BY <1>1, <1>2, <1>4, <1>5 DEF SessionInv, SessionsOK, Session
<1>8. ClientIndexExact'
  <2> SUFFICES ASSUME NEW d \in Client PROVE ClientIndexExact!(d)'
    BY DEF ClientIndexExact
  <2>1. /\ m_mapPendingResponseInfoByDbClient[d]
             = {t \in m_mapPendingResponseInfo : session[t].client = d}
        /\ d \notin alive => m_mapPendingResponseInfoByDbClient[d] = {}
    BY DEF SessionInv, ClientIndexExact
  <2>2. m_mapPendingResponseInfoByDbClient'[d] =
          IF d = c THEN m_mapPendingResponseInfoByDbClient[d] \ {s}
                   ELSE m_mapPendingResponseInfoByDbClient[d]
    BY <1>1, <1>2 DEF SessionInv, SessionsOK
  <2> QED
    BY <1>2, <2>1, <2>2 DEF c
<1>9. OnceInv'
  <2>1. s \notin Answered /\ s \notin cancelled
    BY <1>0 DEF SessionInv, OnceInv
  <2>2. \A k \in DOMAIN delivered : delivered[k].s # s
    BY <2>1 DEF Answered
  <2>3. \A j, k \in DOMAIN delivered' : j # k => delivered'[j].s # delivered'[k].s
    <3>1. \A j, k \in DOMAIN delivered : j # k => delivered[j].s # delivered[k].s
      BY DEF SessionInv, OnceInv
    <3>2. \A k \in DOMAIN delivered' : k \in DOMAIN delivered \/ k = Len(delivered) + 1
      BY <1>4, <1>5
    <3> QED
      BY <1>3, <1>5, <2>2, <3>1, <3>2
  <2>4. Answered' \cup cancelled' \cup m_mapPendingResponseInfo' = Session'
    BY <1>0, <1>2, <1>6 DEF SessionInv, OnceInv, Session
  <2> QED
    BY <1>2, <1>6, <2>1, <2>3, <2>4 DEF SessionInv, OnceInv
<1> QED
  BY <1>7, <1>8, <1>9 DEF SessionInv

\* The sessions of a destroyed client leave both maps and enter the other history.
LEMMA DestroyKeeps ==
  ASSUME SessionInv, now' \in Nat, NEW c \in Client, DestroyStep(c)
  PROVE  SessionInv'
<1> DEFINE own == m_mapPendingResponseInfoByDbClient[c]
<1>1. own = {s \in m_mapPendingResponseInfo : session[s].client = c}
  BY DEF SessionInv, ClientIndexExact
<1>2. /\ alive' = alive \ {c} /\ session' = session /\ delivered' = delivered
      /\ m_mapPendingResponseInfo' = m_mapPendingResponseInfo \ own
      /\ m_mapPendingResponseInfoByDbClient' =
           [m_mapPendingResponseInfoByDbClient EXCEPT ![c] = {}]
      /\ cancelled' = cancelled \cup own
  BY DEF DestroyStep
<1> HIDE DEF own
<1>3. SessionsOK'
  BY <1>2 DEF SessionInv, SessionsOK, Session
<1>4. ClientIndexExact'
  <2> SUFFICES ASSUME NEW d \in Client PROVE ClientIndexExact!(d)'
    BY DEF ClientIndexExact
  <2>1. /\ m_mapPendingResponseInfoByDbClient[d]
             = {s \in m_mapPendingResponseInfo : session[s].client = d}
        /\ d \notin alive => m_mapPendingResponseInfoByDbClient[d] = {}
    BY DEF SessionInv, ClientIndexExact
  <2>2. m_mapPendingResponseInfoByDbClient'[d] =
          IF d = c THEN {} ELSE m_mapPendingResponseInfoByDbClient[d]
    BY <1>2 DEF SessionInv, SessionsOK
  <2> QED
    BY <1>1, <1>2, <2>1, <2>2
<1>5. OnceInv'
  <2>1. own \subseteq m_mapPendingResponseInfo
    BY <1>1
  <2>2. Answered' = Answered /\ Session' = Session
    BY <1>2 DEF Answered, Session
  <2>3. OnceInv
    BY DEF SessionInv
  <2>4. Answered' \cap cancelled' = {}
        /\ m_mapPendingResponseInfo' \cap (Answered' \cup cancelled') = {}
    BY <1>2, <2>1, <2>2, <2>3 DEF OnceInv
  <2>5. Answered' \cup cancelled' \cup m_mapPendingResponseInfo' = Session'
    BY <1>2, <2>1, <2>2, <2>3 DEF OnceInv
  <2> QED
    BY <1>2, <2>3, <2>4, <2>5 DEF OnceInv
<1> QED
  BY <1>3, <1>4, <1>5 DEF SessionInv

-----------------------------------------------------------------------------
(* The theorems.                                                            *)

\* At the start there are no sessions.
LEMMA InitSessions == Init => SessionInv
<1> SUFFICES ASSUME Init PROVE SessionInv
  OBVIOUS
<1>1. Session = {} /\ session \in Seq(SessionType) /\ Answered = {}
      /\ DOMAIN delivered = 1 .. Len(delivered) /\ Len(delivered) \in Nat
  BY DEF Init, Session, Answered
<1> QED
  BY <1>1 DEF Init, SessionInv, SessionsOK, ClientIndexExact, OnceInv

\* The invariant is inductive.
LEMMA SessionStep == SessionInv /\ [Next]_vars => SessionInv'
<1> SUFFICES ASSUME SessionInv, [Next]_vars PROVE SessionInv'
  OBVIOUS
<1>1. now' \in Nat /\ SessionsOK
  BY ClockStep DEF SessionInv, SessionsOK
<1> QED
  BY <1>1, StepKinds, QuietKeeps, OpenKeeps, FinishKeeps, DestroyKeeps

\* The maps, the index and the histories agree in every state of the client side.
THEOREM SessionsCorrect == Spec => []SessionInv
  BY InitSessions, SessionStep, PTL DEF Spec

\* ~CDbClient cancels exactly the pending sessions of the object that goes, however
\* sessions of other objects at the same address ended (db_proxy.cpp:128-142).
THEOREM IndexCorrect == Spec => []ClientIndexExact
<1>1. SessionInv => ClientIndexExact
  BY DEF SessionInv
<1> QED
  BY <1>1, SessionsCorrect, PTL

\* A session has one callback, or none because its client was destroyed before, for
\* late and repeated responses, and for timeouts that race them.
THEOREM EndsOnceCorrect == Spec => []EndsOnce
<1>1. SessionInv => EndsOnce
  BY DEF SessionInv, OnceInv, Answered, EndsOnce
<1> QED
  BY <1>1, SessionsCorrect, PTL

-----------------------------------------------------------------------------
(* Erasing from a list.                                                     *)

\* Induction over the natural numbers, as it is used below: a set of counterexamples
\* has a least one.
LEMMA NatMin ==
  ASSUME NEW T, T \subseteq Nat, T # {}
  PROVE  \E x \in T : \A y \in T : x <= y
<1> DEFINE R == OpToRel(<, Nat)
<1>1. IsWellFoundedOn(R, Nat)
  BY NatLessThanWellFounded
<1>2. ASSUME NEW x \in Nat, NEW y \in Nat, y < x PROVE <<y, x>> \in R
  BY <1>2 DEF OpToRel
<1>3. \E x \in T : \A y \in T : <<y, x>> \notin R
  <2> HIDE DEF R
  <2> QED
    BY <1>1, WFMin
<1> HIDE DEF R
<1>4. PICK x \in T : \A y \in T : <<y, x>> \notin R
  BY <1>3
<1>5. ASSUME NEW y \in T PROVE x <= y
  <2>1. x \in Nat /\ y \in Nat /\ ~(y < x)
    BY <1>2, <1>4
  <2> QED
    BY <2>1
<1> QED
  BY <1>4, <1>5

\* The function Without is defined with, on the first n elements of the list.
Kept(list, S, n, f) == f = [k \in 0 .. n |->
        IF k = 0 THEN << >>
        ELSE IF list[k] \in S THEN f[k - 1] ELSE Append(f[k - 1], list[k])]

\* It exists: the recursion goes down to 0.
LEMMA KeptExists ==
  ASSUME NEW list, NEW S, NEW n \in Nat
  PROVE  \E f : Kept(list, S, n, f)
<1> DEFINE T == {m \in Nat : ~ \E f : Kept(list, S, m, f)}
<1>1. SUFFICES ASSUME T # {} PROVE FALSE
  OBVIOUS
<1>2. PICK m \in T : \A y \in T : m <= y
  BY <1>1, NatMin
<1>3. CASE m = 0
  <2>1. Kept(list, S, 0, [k \in 0 .. 0 |-> << >>])
    BY DEF Kept
  <2> QED
    BY <2>1, <1>3
<1>4. CASE m # 0
  <2>1. m - 1 \in Nat /\ m - 1 \notin T
    BY <1>2, <1>4
  <2>2. PICK f : Kept(list, S, m - 1, f)
    BY <2>1
  <2> DEFINE g == [k \in 0 .. m |-> IF k <= m - 1 THEN f[k] ELSE
        IF list[m] \in S THEN f[m - 1] ELSE Append(f[m - 1], list[m])]
  <2>3. ASSUME NEW k \in 0 .. m
        PROVE g[k] = IF k = 0 THEN << >>
        ELSE IF list[k] \in S THEN g[k - 1] ELSE Append(g[k - 1], list[k])
    <3>1. CASE k <= m - 1
      <4>0. f = [i \in 0 .. m - 1 |-> IF i = 0 THEN << >>
        ELSE IF list[i] \in S THEN f[i - 1] ELSE Append(f[i - 1], list[i])]
        BY <2>2, Zenon DEF Kept
      <4>1. k \in 0 .. m - 1
        BY <3>1, <2>1
      <4>2. f[k] = IF k = 0 THEN << >>
              ELSE IF list[k] \in S THEN f[k - 1] ELSE Append(f[k - 1], list[k])
        BY <4>0, <4>1, Zenon
      <4> QED
        BY <4>2, <3>1, <2>1, SMTT(30)
    <3>2. CASE k = m
      BY <3>2, <2>1, <1>4, SMTT(30)
    <3> QED
      BY <3>1, <3>2, <2>1
  <2>4. Kept(list, S, m, g)
     BY <2>3, Zenon DEF Kept
  <2> QED
    BY <2>4
<1> QED
  BY <1>3, <1>4

\* Without is the value of that function at the end of the list.
LEMMA WithoutStep ==
  ASSUME NEW list, NEW S, Len(list) \in Nat
  PROVE \E f : Kept(list, S, Len(list), f) /\ Without(list, S) = f[Len(list)]
<1> DEFINE kept == CHOOSE f : Kept(list, S, Len(list), f)
<1>1. Kept(list, S, Len(list), kept)
  BY KeptExists, Zenon
<1>2. Without(list, S) = kept[Len(list)]
  BY Zenon DEF Without, Kept
<1> QED
  BY <1>1, <1>2

\* res is what is left of the first n elements of list without those of S, in the
\* order they had.
Filtered(list, S, n, res, E) ==
  /\ res \in Seq(E)
  /\ {res[j] : j \in 1 .. Len(res)} = {list[k] : k \in 1 .. n} \ S
  /\ \E e \in [1 .. Len(res) -> 1 .. n] :
       /\ \A j \in 1 .. Len(res) : res[j] = list[e[j]]
       /\ \A j, k \in 1 .. Len(res) : j < k => e[j] < e[k]

\* One more element is looked at.
LEMMA FilterOne ==
  ASSUME NEW E, NEW list \in Seq(E), NEW S, NEW m \in 1 .. Len(list), NEW old,
         Filtered(list, S, m - 1, old, E)
  PROVE  Filtered(list, S, m, IF list[m] \in S THEN old ELSE Append(old, list[m]), E)
<1>1. PICK e \in [1 .. Len(old) -> 1 .. m - 1] :
       /\ \A j \in 1 .. Len(old) : old[j] = list[e[j]]
       /\ \A j, k \in 1 .. Len(old) : j < k => e[j] < e[k]
  BY DEF Filtered
<1>2. old \in Seq(E) /\ Len(old) \in Nat /\ list[m] \in E /\ m \in Nat
  BY DEF Filtered
<1>3. {list[k] : k \in 1 .. m} = {list[k] : k \in 1 .. m - 1} \cup {list[m]}
  <2>1. 1 .. m = (1 .. m - 1) \cup {m}
    BY <1>2
  <2> QED
    BY <2>1
<1>4. {old[j] : j \in 1 .. Len(old)} = {list[k] : k \in 1 .. m - 1} \ S
  BY DEF Filtered
<1>5. CASE list[m] \in S
  <2>1. {old[j] : j \in 1 .. Len(old)} = {list[k] : k \in 1 .. m} \ S
    BY <1>3, <1>4, <1>5
  <2>2. e \in [1 .. Len(old) -> 1 .. m]
    BY <1>2
  <2>3. Filtered(list, S, m, old, E)
    BY <1>1, <1>2, <2>1, <2>2, Zenon DEF Filtered
  <2> QED
    BY <1>5, <2>3
<1>6. CASE list[m] \notin S
  <2> DEFINE new == Append(old, list[m])
             n == Len(old) + 1
             f == [j \in 1 .. n |-> IF j = n THEN m ELSE e[j]]
  <2>1. /\ new \in Seq(E) /\ Len(new) = n /\ n \in Nat /\ new[n] = list[m]
        /\ \A j \in 1 .. Len(old) : new[j] = old[j]
    BY <1>2
  <2>2. 1 .. n = (1 .. Len(old)) \cup {n} /\ n \notin 1 .. Len(old)
    BY <1>2
  <2> HIDE DEF new, n
  <2>3. {new[j] : j \in 1 .. n} = {old[j] : j \in 1 .. Len(old)} \cup {list[m]}
    <3>1. {new[j] : j \in 1 .. n} = {new[j] : j \in 1 .. Len(old)} \cup {new[n]}
      BY <2>2
    <3>2. {new[j] : j \in 1 .. Len(old)} = {old[j] : j \in 1 .. Len(old)}
      BY <2>1, Zenon
    <3> QED
      BY <2>1, <3>1, <3>2, Zenon
  <2>4. {new[j] : j \in 1 .. Len(new)} = {list[k] : k \in 1 .. m} \ S
    BY <1>3, <1>4, <1>6, <2>1, <2>3
  <2>5. \A j \in 1 .. Len(old) : f[j] = e[j] /\ f[j] \in 1 .. m /\ f[j] < m
    BY <1>2, <2>2
  <2>6. f[n] = m /\ DOMAIN f = 1 .. n /\ f = [j \in 1 .. n |-> f[j]]
    BY <2>2
  <2> HIDE DEF f
  <2>7. f \in [1 .. Len(new) -> 1 .. m]
    <3>1. m \in 1 .. m
      BY <1>2
    <3>2. \A j \in 1 .. n : f[j] \in 1 .. m
      BY <2>2, <2>5, <2>6, <3>1, Zenon
    <3> QED
      BY <2>1, <2>6, <3>2
  <2>8. \A j \in 1 .. Len(new) : new[j] = list[f[j]]
    BY <1>1, <2>1, <2>2, <2>5, <2>6
  <2>9. \A j, k \in 1 .. Len(new) : j < k => f[j] < f[k]
    <3> SUFFICES ASSUME NEW j \in 1 .. n, NEW k \in 1 .. n, j < k PROVE f[j] < f[k]
      BY <2>1
    <3>1. j \in 1 .. Len(old)
      BY <1>2, <2>2 DEF n
    <3> QED
      BY <1>1, <2>2, <2>5, <2>6, <3>1
  <2>10. Filtered(list, S, m, new, E)
    BY <2>1, <2>4, <2>7, <2>8, <2>9 DEF Filtered
  <2> QED
    BY <2>10, <1>6 DEF new
<1> QED
  BY <1>5, <1>6

\* What erasing a set of sessions from the list leaves, for every list.
LEMMA WithoutFilters ==
  ASSUME NEW E, NEW list \in Seq(E), NEW S
  PROVE  Filtered(list, S, Len(list), Without(list, S), E)
<1>0. Len(list) \in Nat
  OBVIOUS
<1>1. PICK f : Kept(list, S, Len(list), f) /\ Without(list, S) = f[Len(list)]
  BY <1>0, WithoutStep
<1>2. f = [k \in 0 .. Len(list) |->
        IF k = 0 THEN << >>
        ELSE IF list[k] \in S THEN f[k - 1] ELSE Append(f[k - 1], list[k])]
  BY <1>1, Zenon DEF Kept
<1> DEFINE T == {m \in 0 .. Len(list) : ~Filtered(list, S, m, f[m], E)}
<1>3. ASSUME T # {} PROVE FALSE
  <2>1. PICK m \in T : \A y \in T : m <= y
    <3>1. T \subseteq Nat
      OBVIOUS
    <3> QED
      BY <1>3, <3>1, NatMin
  <2>2. CASE m = 0
    <3>1. f[0] = << >>
      BY <1>0, <1>2
    <3>2. Filtered(list, S, 0, << >>, E)
      <4>1. 1 .. 0 = {} /\ << >> \in Seq(E) /\ Len(<< >>) = 0
        OBVIOUS
      <4>2. {<< >>[j] : j \in 1 .. 0} = {} /\ {list[k] : k \in 1 .. 0} = {}
        BY <4>1
      <4>3. [j \in 1 .. 0 |-> 0] \in [1 .. 0 -> 1 .. 0]
        BY <4>1
      <4> QED
        BY <4>1, <4>2, <4>3 DEF Filtered
    <3> QED
      BY <2>2, <3>1, <3>2
  <2>3. CASE m # 0
    <3>1. /\ m \in 1 .. Len(list) /\ m - 1 \in 0 .. Len(list) /\ m \in 0 .. Len(list)
          /\ m - 1 < m /\ ~Filtered(list, S, m, f[m], E)
      BY <2>3
    <3>2. Filtered(list, S, m - 1, f[m - 1], E)
      <4>1. ~(m <= m - 1)
        BY <3>1
      <4>2. m - 1 \notin T
        BY <2>1, <4>1
      <4> QED
        BY <3>1, <4>2
    <3>3. f[m] = IF list[m] \in S THEN f[m - 1] ELSE Append(f[m - 1], list[m])
      BY <1>2, <2>3, <3>1
    <3> QED
      BY <3>1, <3>2, <3>3, FilterOne
  <2> QED
    BY <2>2, <2>3
<1>4. Filtered(list, S, Len(list), f[Len(list)], E)
  <2>1. Len(list) \in 0 .. Len(list)
    BY <1>0
  <2> QED
    BY <1>3, <2>1
<1> QED
  BY <1>1, <1>4

-----------------------------------------------------------------------------
(* The inductive invariant of m_listTimeout and of onTimer().               *)

\* The order of the list: lower_bound puts a session before those with its deadline.
Before(s, t) ==
  \/ Deadline(s) < Deadline(t)
  \/ Deadline(s) = Deadline(t) /\ t < s

Timed == {s \in m_mapPendingResponseInfo : Deadline(s) # NoTimeout}

ListInv ==
  /\ m_listTimeout \in Seq(Session)
  /\ InList = Timed
  /\ \A j, k \in DOMAIN m_listTimeout : j < k => Before(m_listTimeout[j], m_listTimeout[k])

\* onTimer() is past the sessions before its iterator: those that are still on the
\* list were opened by a callback.
PassedInv ==
  timer # "idle" =>
    /\ iter = End => \A s \in InList : s > entered
    /\ iter \in InList => \A s \in InList : Before(s, iter) => s > entered

\* The iterator is a session that exists, also when its node is gone.
TimerType ==
  /\ timer \in {"idle", "loop", "callback"}
  /\ nCurTime \in Nat
  /\ iter \in Session \cup {End}
  /\ entered \in Nat /\ entered <= Len(session)

TimerInv == SessionInv /\ ListInv /\ TimerType /\ PassedInv

\* What SessionInv says of the sessions on the list.
LEMMA ListFacts ==
  ASSUME SessionInv, ListInv
  PROVE  /\ Len(session) \in Nat /\ Session = 1 .. Len(session)
         /\ Len(m_listTimeout) \in Nat
         /\ DOMAIN m_listTimeout = 1 .. Len(m_listTimeout)
         /\ InList \subseteq Session
         /\ End \notin Session
         /\ \A s \in InList : s \in m_mapPendingResponseInfo /\ s \in Nat /\ Deadline(s) \in Nat
         /\ \A k \in 1 .. Len(m_listTimeout) : m_listTimeout[k] \in InList
<1>1. session \in Seq(SessionType) /\ m_mapPendingResponseInfo \subseteq Session
  BY DEF SessionInv, SessionsOK
<1>2. Len(session) \in Nat /\ Session = 1 .. Len(session)
  BY <1>1 DEF Session
<1>3. Len(m_listTimeout) \in Nat /\ DOMAIN m_listTimeout = 1 .. Len(m_listTimeout)
  BY DEF ListInv
<1>4. \A s \in Session : s \in Nat /\ session[s] \in SessionType
  BY <1>1, <1>2
<1>5. \A s \in Session : Deadline(s) \in Nat \cup {NoTimeout}
  BY <1>4 DEF SessionType, Deadline
<1>6. InList = Timed
  BY DEF ListInv
<1>7. \A s \in InList : s \in m_mapPendingResponseInfo /\ s \in Nat /\ Deadline(s) \in Nat
  BY <1>1, <1>4, <1>5, <1>6 DEF Timed
<1>8. \A k \in 1 .. Len(m_listTimeout) : m_listTimeout[k] \in InList
  BY <1>3 DEF InList
<1>9. End \notin Session
  BY <1>2, EndAssumption
<1> QED
  BY <1>1, <1>2, <1>3, <1>7, <1>8, <1>9

\* The order is strict, so a session stands on one place of the list.
LEMMA StrictOrder ==
  ASSUME SessionInv, ListInv,
         NEW j \in 1 .. Len(m_listTimeout), NEW k \in 1 .. Len(m_listTimeout)
  PROVE  /\ Before(m_listTimeout[j], m_listTimeout[k]) => j < k
         /\ m_listTimeout[j] = m_listTimeout[k] => j = k
<1>1. /\ m_listTimeout[j] \in Nat /\ Deadline(m_listTimeout[j]) \in Nat
      /\ m_listTimeout[k] \in Nat /\ Deadline(m_listTimeout[k]) \in Nat
      /\ Len(m_listTimeout) \in Nat
      /\ DOMAIN m_listTimeout = 1 .. Len(m_listTimeout)
  BY ListFacts
<1>2. \A i, l \in 1 .. Len(m_listTimeout) :
        i < l => Before(m_listTimeout[i], m_listTimeout[l])
  BY <1>1 DEF ListInv
<1>3. j < k => Before(m_listTimeout[j], m_listTimeout[k])
  BY <1>2
<1>4. k < j => Before(m_listTimeout[k], m_listTimeout[j])
  BY <1>2
<1> QED
  BY <1>1, <1>3, <1>4 DEF Before

-----------------------------------------------------------------------------
(* Sessions leave the list.                                                 *)

\* Erasing a set of sessions keeps the others and their order.
LEMMA ErasureKeeps ==
  ASSUME SessionInv, ListInv, NEW S,
         session' = session, m_listTimeout' = Without(m_listTimeout, S),
         Timed' = Timed \ S
  PROVE  ListInv' /\ InList' = InList \ S
<1> DEFINE old == m_listTimeout
           new == m_listTimeout'
<1>1. Filtered(old, S, Len(old), new, Session)
  BY WithoutFilters DEF ListInv
<1>2. /\ new \in Seq(Session)
      /\ {new[j] : j \in 1 .. Len(new)} = {old[k] : k \in 1 .. Len(old)} \ S
  BY <1>1, Zenon DEF Filtered
<1>3. PICK e \in [1 .. Len(new) -> 1 .. Len(old)] :
       /\ \A j \in 1 .. Len(new) : new[j] = old[e[j]]
       /\ \A j, k \in 1 .. Len(new) : j < k => e[j] < e[k]
  BY <1>1, Zenon DEF Filtered
<1>4. DOMAIN old = 1 .. Len(old) /\ DOMAIN new = 1 .. Len(new)
  BY <1>2 DEF ListInv
<1>5. InList' = InList \ S
  BY <1>2, <1>4, Zenon DEF InList
<1>6. Session' = Session /\ \A s : Deadline(s)' = Deadline(s)
  BY DEF Session, Deadline
<1>7. ASSUME NEW j \in 1 .. Len(new), NEW k \in 1 .. Len(new), j < k
      PROVE  Before(new[j], new[k])
  <2>1. e[j] \in DOMAIN old /\ e[k] \in DOMAIN old /\ e[j] < e[k]
    BY <1>3, <1>4, <1>7
  <2>2. Before(old[e[j]], old[e[k]])
    BY <2>1 DEF ListInv
  <2> QED
    BY <1>3, <2>2
<1>8. (\A j, k \in DOMAIN m_listTimeout : j < k => Before(m_listTimeout[j], m_listTimeout[k]))'
  BY <1>4, <1>7 DEF Before, Deadline
<1>9. (InList = Timed)'
  BY <1>5 DEF ListInv
<1> QED
  BY <1>2, <1>5, <1>6, <1>8, <1>9 DEF ListInv

\* The iterator of onTimer() does not care about what is erased elsewhere.
LEMMA ErasureKeepsTimer ==
  ASSUME TimerInv, NEW S, session' = session, InList' = InList \ S,
         UNCHANGED timerVars
  PROVE  TimerType' /\ PassedInv'
<1>1. TimerType'
  BY DEF TimerInv, TimerType, timerVars, Session
<1>2. \A s, t : Before(s, t)' = Before(s, t)
  BY DEF Before, Deadline
<1>3. PassedInv'
  BY <1>2 DEF TimerInv, PassedInv, timerVars
<1> QED
  BY <1>1, <1>3

-----------------------------------------------------------------------------
(* Sessions enter the list.                                                 *)

\* lower_bound finds the place: the sessions before it are due earlier, and those from
\* it on are not.
LEMMA LowerBoundSplits ==
  ASSUME SessionInv, ListInv, NEW d \in Nat
  PROVE  /\ LowerBound(d) \in 0 .. Len(m_listTimeout)
         /\ \A k \in 1 .. LowerBound(d) : Deadline(m_listTimeout[k]) < d
         /\ \A k \in LowerBound(d) + 1 .. Len(m_listTimeout) : d <= Deadline(m_listTimeout[k])
<1> DEFINE n == Len(m_listTimeout)
           due(k) == Deadline(m_listTimeout[k])
           Splits(p) == /\ p > 0 => due(p) < d
                        /\ p < n => due(p + 1) >= d
           T == {k \in 1 .. n + 1 : k = n + 1 \/ due(k) >= d}
<1>1. n \in Nat /\ DOMAIN m_listTimeout = 1 .. n /\ \A k \in 1 .. n : due(k) \in Nat
  BY ListFacts
<1>2. \A j, k \in 1 .. n : j < k => due(j) <= due(k)
  BY <1>1 DEF ListInv, Before
<1>3. LowerBound(d) = CHOOSE p \in 0 .. n : Splits(p)
  BY DEF LowerBound
<1> HIDE DEF n, due
<1>4. PICK m \in T : \A k \in T : m <= k
  <2>1. n + 1 \in T /\ T \subseteq Nat
    BY <1>1
  <2> HIDE DEF T
  <2> QED
    BY <2>1, NatMin
<1>5. m - 1 \in 0 .. n /\ Splits(m - 1)
  <2>1. m \in 1 .. n + 1 /\ (m = n + 1 \/ due(m) >= d)
    BY <1>4
  <2>2. ASSUME m - 1 > 0 PROVE due(m - 1) < d
    <3>1. m - 1 \in 1 .. n + 1 /\ m - 1 \in 1 .. n /\ ~(m <= m - 1)
      BY <1>1, <2>1, <2>2
    <3>2. m - 1 \notin T
      BY <1>4, <3>1
    <3> QED
      BY <1>1, <3>1, <3>2
  <2> QED
    BY <1>1, <2>1, <2>2
<1> DEFINE p == LowerBound(d)
<1>6. p \in 0 .. n /\ Splits(p)
  <2> HIDE DEF Splits
  <2> QED
    BY <1>3, <1>5
<1> HIDE DEF p
<1>7. ASSUME NEW k \in 1 .. p PROVE due(k) < d
  <2>1. k = p \/ k < p
    BY <1>1, <1>6
  <2>2. k \in 1 .. n /\ p \in 1 .. n
    BY <1>1, <1>6
  <2>3. due(k) <= due(p) /\ due(k) \in Nat /\ due(p) \in Nat
    BY <1>1, <1>2, <2>1, <2>2
  <2> QED
    BY <1>6, <2>2, <2>3
<1>8. ASSUME NEW k \in p + 1 .. n PROVE d <= due(k)
  <2>1. k \in 1 .. n /\ p + 1 \in 1 .. n /\ (k = p + 1 \/ p + 1 < k)
    BY <1>1, <1>6
  <2>2. due(p + 1) <= due(k) /\ due(k) \in Nat /\ due(p + 1) \in Nat
    BY <1>1, <1>2, <2>1
  <2> QED
    BY <1>1, <1>6, <2>1, <2>2
<1> QED
  BY <1>6, <1>7, <1>8 DEF p, n, due

\* What a list is once an element is put into it.
LEMMA InsertAfterIs ==
  ASSUME NEW E, NEW list, NEW p, NEW s, NEW new,
         list \in Seq(E), p \in 0 .. Len(list), s \in E, new = InsertAfter(list, p, s)
  PROVE  /\ new \in Seq(E) /\ Len(new) = Len(list) + 1
         /\ \A k \in 1 .. p : new[k] = list[k]
         /\ new[p + 1] = s
         /\ \A k \in p + 2 .. Len(list) + 1 : new[k] = list[k - 1]
<1> DEFINE front == SubSeq(list, 1, p)
           back == SubSeq(list, p + 1, Len(list))
           n == Len(list)
<1>1. n \in Nat /\ p \in Nat /\ p <= n
  OBVIOUS
<1>2. front \in Seq(E) /\ Len(front) = p /\ \A k \in 1 .. p : front[k] = list[k]
  BY <1>1
<1>3. back \in Seq(E) /\ Len(back) = n - p /\ \A k \in 1 .. n - p : back[k] = list[p + k]
  BY <1>1
<1> HIDE DEF front, back, n
<1>4. /\ front \o <<s>> \in Seq(E) /\ Len(front \o <<s>>) = p + 1
      /\ \A k \in 1 .. p : (front \o <<s>>)[k] = front[k]
      /\ (front \o <<s>>)[p + 1] = s
  BY <1>1, <1>2
<1> DEFINE left == front \o <<s>>
<1> HIDE DEF left
<1>5. /\ left \in Seq(E) /\ Len(left) = p + 1
      /\ \A k \in 1 .. p : left[k] = list[k]
      /\ left[p + 1] = s
  BY <1>2, <1>4 DEF left
<1>6. /\ left \o back \in Seq(E) /\ Len(left \o back) = n + 1
      /\ \A k \in 1 .. p + 1 : (left \o back)[k] = left[k]
      /\ \A k \in p + 2 .. n + 1 : (left \o back)[k] = back[k - (p + 1)]
  <2>1. /\ left \o back \in Seq(E) /\ Len(left \o back) = Len(left) + Len(back)
        /\ \A i \in 1 .. Len(left) + Len(back) :
             (left \o back)[i] = IF i <= Len(left) THEN left[i] ELSE back[i - Len(left)]
    BY <1>3, <1>5, ConcatProperties, Zenon
  <2>2. Len(left) = p + 1 /\ Len(left) + Len(back) = n + 1
    BY <1>1, <1>3, <1>5
  <2>3. \A i \in 1 .. n + 1 :
          (left \o back)[i] = IF i <= p + 1 THEN left[i] ELSE back[i - (p + 1)]
    BY <2>1, <2>2
  <2>4. \A k \in 1 .. p + 1 : k \in 1 .. n + 1 /\ k <= p + 1
    BY <1>1
  <2>5. \A k \in p + 2 .. n + 1 : k \in 1 .. n + 1 /\ ~(k <= p + 1)
    BY <1>1
  <2> QED
    BY <2>1, <2>2, <2>3, <2>4, <2>5, Zenon
<1>7. \A k \in p + 2 .. n + 1 : back[k - (p + 1)] = list[k - 1]
  <2> TAKE k \in p + 2 .. n + 1
  <2>1. k - (p + 1) \in 1 .. n - p /\ p + (k - (p + 1)) = k - 1
    BY <1>1
  <2> QED
    BY <1>3, <2>1
<1>8. new = left \o back
  BY DEF InsertAfter, left, front, back
<1>9. 1 .. p \subseteq 1 .. p + 1 /\ p + 1 \in 1 .. p + 1
  BY <1>1
<1> QED
  BY <1>5, <1>6, <1>7, <1>8, <1>9 DEF n

\* A new session is behind those that are due before it, and before the others.
LEMMA InsertionKeeps ==
  ASSUME SessionInv, ListInv, NEW n, NEW d \in Nat,
         n \notin Session, Session' = Session \cup {n}, n = Len(session) + 1,
         \A s \in Session : session'[s] = session[s], session'[n].deadline = d,
         m_mapPendingResponseInfo' = m_mapPendingResponseInfo \cup {n},
         m_listTimeout' = InsertAfter(m_listTimeout, LowerBound(d), n)
  PROVE  ListInv' /\ InList' = InList \cup {n}
<1> DEFINE old == m_listTimeout
           new == m_listTimeout'
           p == LowerBound(d)
           len == Len(old)
<1>1. /\ Session = 1 .. Len(session) /\ Len(session) \in Nat
      /\ len \in Nat /\ DOMAIN old = 1 .. len
      /\ InList \subseteq Session
      /\ \A s \in InList : s \in Nat /\ Deadline(s) \in Nat
      /\ \A k \in 1 .. len : old[k] \in InList
  BY ListFacts
<1>2. /\ p \in 0 .. len
      /\ \A k \in 1 .. p : Deadline(old[k]) < d
      /\ \A k \in p + 1 .. len : d <= Deadline(old[k])
  BY LowerBoundSplits
<1>3. old \in Seq(Session') /\ n \in Session'
  <2>1. old \in Seq(Session)
    BY DEF ListInv
  <2> QED
    BY <2>1
<1>4. /\ new \in Seq(Session') /\ Len(new) = len + 1
      /\ \A k \in 1 .. p : new[k] = old[k]
      /\ new[p + 1] = n
      /\ \A k \in p + 2 .. len + 1 : new[k] = old[k - 1]
  <2>1. /\ old \in Seq(Session') /\ p \in 0 .. Len(old) /\ n \in Session'
        /\ new = InsertAfter(old, p, n)
    BY <1>2, <1>3
  <2> QED
    BY <2>1, InsertAfterIs
<1>5. DOMAIN new = 1 .. len + 1
  BY <1>1, <1>4
<1>6. \A s \in InList : Deadline(s)' = Deadline(s)
  BY <1>1 DEF Deadline
<1>7. InList = {old[k] : k \in 1 .. len}
  BY <1>1 DEF InList
<1>8. \A i, j \in 1 .. len : i < j => Before(old[i], old[j])
  BY <1>1 DEF ListInv
<1> HIDE DEF old, p, len
<1>9. InList' = InList \cup {n}
  <2>1. InList' = {new[k] : k \in 1 .. len + 1}
    BY <1>5 DEF InList
  <2>2. ASSUME NEW k \in 1 .. len + 1 PROVE new[k] \in InList \cup {n}
    <3>1. k \in 1 .. p \/ k = p + 1 \/ (k \in p + 2 .. len + 1 /\ k - 1 \in 1 .. len)
      BY <1>1, <1>2
    <3>2. 1 .. p \subseteq 1 .. len
      BY <1>1, <1>2
    <3> QED
      BY <1>1, <1>4, <3>1, <3>2
  <2>3. ASSUME NEW k \in 1 .. len PROVE \E j \in 1 .. len + 1 : new[j] = old[k]
    <3>1. CASE k <= p
      <4>1. k \in 1 .. p /\ k \in 1 .. len + 1
        BY <1>1, <1>2, <3>1
      <4> QED
        BY <1>4, <4>1
    <3>2. CASE p < k
      <4>1. k + 1 \in p + 2 .. len + 1 /\ k + 1 \in 1 .. len + 1 /\ (k + 1) - 1 = k
        BY <1>1, <1>2, <3>2
      <4> QED
        BY <1>4, <4>1
    <3> QED
      BY <1>1, <1>2, <3>1, <3>2
  <2>4. p + 1 \in 1 .. len + 1
    BY <1>1, <1>2
  <2> QED
    BY <1>4, <1>7, <2>1, <2>2, <2>3, <2>4
<1>10. InList' = Timed'
  <2>1. m_mapPendingResponseInfo \subseteq Session
    BY DEF SessionInv, SessionsOK
  <2>2. \A s \in m_mapPendingResponseInfo : Deadline(s)' = Deadline(s)
    BY <2>1 DEF Deadline
  <2>3. Deadline(n)' = d /\ d # NoTimeout
    BY TimeoutAssumption DEF Deadline
  <2>4. InList = Timed
    BY DEF ListInv
  <2> QED
    BY <1>9, <2>2, <2>3, <2>4 DEF Timed
<1>11. ASSUME NEW j \in 1 .. len + 1, NEW k \in 1 .. len + 1, j < k
       PROVE  \/ session'[new[j]].deadline < session'[new[k]].deadline
              \/ session'[new[j]].deadline = session'[new[k]].deadline /\ new[k] < new[j]
  <2>1. \A i \in 1 .. len : old[i] \in Nat /\ old[i] < n /\ Deadline(old[i]) \in Nat
                            /\ session'[old[i]].deadline = Deadline(old[i])
    BY <1>1, <1>6 DEF Deadline
  <2>2. CASE k <= p
    <3>1. j \in 1 .. p /\ k \in 1 .. p /\ j \in 1 .. len /\ k \in 1 .. len
      BY <1>1, <1>2, <1>11, <2>2
    <3> QED
      BY <1>4, <1>8, <1>11, <2>1, <3>1 DEF Before
  <2>3. CASE k = p + 1
    <3>1. j \in 1 .. p /\ j \in 1 .. len
      BY <1>1, <1>2, <1>11, <2>3
    <3>2. session'[new[j]].deadline < d /\ session'[new[k]].deadline = d
      BY <1>2, <1>4, <2>1, <2>3, <3>1
    <3> QED
      BY <3>2
  <2>4. CASE p + 1 < k
    <3>1. k \in p + 2 .. len + 1 /\ k - 1 \in 1 .. len /\ k - 1 \in p + 1 .. len
          /\ new[k] = old[k - 1]
      <4>1. k \in p + 2 .. len + 1 /\ k - 1 \in 1 .. len /\ k - 1 \in p + 1 .. len
        BY <1>1, <1>2, <2>4
      <4> QED
        BY <1>4, <4>1
    <3>2. CASE j <= p
      <4>1. j \in 1 .. p /\ j \in 1 .. len /\ j < k - 1
        BY <1>1, <1>2, <2>4, <3>2
      <4> QED
        BY <1>4, <1>8, <2>1, <3>1, <4>1 DEF Before
    <3>3. CASE j = p + 1
      <4>1. new[j] = n /\ session'[new[j]].deadline = d
            /\ d <= session'[new[k]].deadline /\ session'[new[k]].deadline \in Nat
            /\ new[k] < new[j]
        BY <1>2, <1>4, <2>1, <3>1, <3>3
      <4> QED
        BY <4>1
    <3>4. CASE p + 1 < j
      <4>1. j \in p + 2 .. len + 1 /\ j - 1 \in 1 .. len /\ j - 1 < k - 1
        BY <1>1, <1>2, <1>11, <3>4
      <4>2. new[j] = old[j - 1]
        BY <1>4, <4>1
      <4> QED
        BY <1>8, <2>1, <3>1, <4>1, <4>2 DEF Before
    <3> QED
      BY <1>1, <1>2, <3>2, <3>3, <3>4
  <2> QED
    BY <1>1, <1>2, <2>2, <2>3, <2>4
<1>12. \A j, k \in DOMAIN m_listTimeout' :
         j < k => Before(m_listTimeout[j], m_listTimeout[k])'
  BY <1>4, <1>11 DEF Before, Deadline
<1> QED
  BY <1>4, <1>5, <1>9, <1>10, <1>12 DEF ListInv

-----------------------------------------------------------------------------
(* Each action keeps the invariant of the list and of the timer.            *)

\* The iterator moves on: what it has not passed yet is what was behind it.
LEMMA IteratorMovesOn ==
  ASSUME TimerInv, timer # "idle", iter \in InList
  PROVE  /\ NextOf(iter) \in (InList \ {iter}) \cup {End}
         /\ NextOf(iter) = End => \A s \in InList \ {iter} : s > entered
         /\ NextOf(iter) \in InList =>
              \A s \in InList \ {iter} : Before(s, NextOf(iter)) => s > entered
<1> DEFINE list == m_listTimeout
           n == Len(list)
           p == Position(iter)
<1>1. /\ SessionInv /\ ListInv /\ n \in Nat /\ DOMAIN list = 1 .. n
      /\ End \notin InList
      /\ InList = {list[k] : k \in 1 .. n}
  BY ListFacts DEF TimerInv, InList
<1>2. p \in 1 .. n /\ list[p] = iter
  BY <1>1 DEF Position
<1>3. \A s \in InList : Before(s, iter) => s > entered
  BY DEF TimerInv, PassedInv
<1>4. \A i, k \in 1 .. n : i < k => Before(list[i], list[k])
  BY <1>1 DEF ListInv
<1>5. \A i, k \in 1 .. n : Before(list[i], list[k]) => i < k
  BY <1>1, StrictOrder
<1>6. \A i, k \in 1 .. n : list[i] = list[k] => i = k
  BY <1>1, StrictOrder
<1>7. NextOf(iter) = IF p = n THEN End ELSE list[p + 1]
  BY DEF NextOf
<1> HIDE DEF list, n, p
<1>8. CASE p = n
  <2>1. ASSUME NEW s \in InList \ {iter} PROVE s > entered
    <3>1. PICK k \in 1 .. n : list[k] = s
      BY <1>1
    <3>2. k < p
      BY <1>1, <1>2, <1>8, <2>1, <3>1
    <3> QED
      BY <1>2, <1>3, <1>4, <3>1, <3>2
  <2> QED
    BY <1>1, <1>7, <1>8, <2>1
<1>9. CASE p # n
  <2>1. p + 1 \in 1 .. n /\ p + 1 # p
    BY <1>1, <1>2, <1>9
  <2>2. NextOf(iter) = list[p + 1] /\ list[p + 1] \in InList /\ list[p + 1] # iter
    BY <1>1, <1>2, <1>6, <1>7, <1>9, <2>1
  <2>3. ASSUME NEW s \in InList \ {iter}, Before(s, list[p + 1]) PROVE s > entered
    <3>1. PICK k \in 1 .. n : list[k] = s
      BY <1>1
    <3>2. k < p + 1
      BY <1>5, <2>1, <2>3, <3>1
    <3>3. k < p
      BY <1>1, <1>2, <2>3, <3>1, <3>2
    <3> QED
      BY <1>2, <1>3, <1>4, <3>1, <3>3
  <2> QED
    BY <1>1, <2>2, <2>3
<1> QED
  BY <1>8, <1>9

\* A request: the new session is behind, or before, nothing that matters to the timer.
LEMMA RequestKeepsTimer ==
  ASSUME TimerInv, NEW n \in Nat, n \notin Session, n = Len(session) + 1,
         Len(session') = n, Session' = Session \cup {n},
         \A s \in Session : session'[s] = session[s],
         InList' = InList \cup {n} \/ InList' = InList,
         UNCHANGED timerVars
  PROVE  TimerType' /\ PassedInv'
<1>1. /\ Session = 1 .. Len(session) /\ Len(session) \in Nat
      /\ InList \subseteq Session /\ End \notin Session
  BY ListFacts DEF TimerInv
<1>2. timer' = timer /\ nCurTime' = nCurTime /\ iter' = iter /\ entered' = entered
  BY DEF timerVars
<1>3. TimerType
  BY DEF TimerInv
<1>4. entered \in Nat /\ entered <= Len(session) /\ n > entered
  BY <1>1, <1>3 DEF TimerType
<1>5. TimerType'
  BY <1>1, <1>2, <1>3, <1>4 DEF TimerType
<1>6. End # n /\ iter # n
  BY <1>3, EndAssumption DEF TimerType
<1>7. \A s, t \in Session : Before(s, t)' = Before(s, t)
  BY DEF Before, Deadline
<1>8. PassedInv'
  <2> SUFFICES ASSUME timer # "idle"
               PROVE  /\ iter = End => \A s \in InList' : s > entered
                      /\ iter \in InList' => \A s \in InList' : Before(s, iter)' => s > entered
    BY <1>2 DEF PassedInv
  <2>1. /\ iter = End => \A s \in InList : s > entered
        /\ iter \in InList => \A s \in InList : Before(s, iter) => s > entered
    BY DEF TimerInv, PassedInv
  <2>2. \A s \in InList' : s = n \/ s \in InList
    OBVIOUS
  <2>3. iter \in InList' => iter \in InList
    BY <1>6, <2>2
  <2>4. ASSUME iter = End, NEW s \in InList' PROVE s > entered
    BY <1>4, <2>1, <2>2, <2>4
  <2>5. ASSUME iter \in InList', NEW s \in InList', Before(s, iter)' PROVE s > entered
    <3>1. CASE s = n
      BY <1>4, <3>1
    <3>2. CASE s # n
      <4>1. s \in InList /\ iter \in InList /\ s \in Session /\ iter \in Session
        BY <1>1, <2>2, <2>3, <2>5, <3>2
      <4>2. iter' = iter
        BY <1>2
      <4>3. Before(s, iter)
        BY <2>5, <4>1, <4>2 DEF Before, Deadline
      <4> QED
        BY <2>1, <4>1, <4>3
    <3> QED
      BY <3>1, <3>2
  <2> QED
    BY <2>4, <2>5
<1> QED
  BY <1>5, <1>8

\* The session a request opens.
LEMMA OpenAppends ==
  ASSUME SessionInv, NEW c \in Client, NEW kind, NEW d, Open(c, kind, d)
  PROVE  /\ Len(session') = Len(session) + 1
         /\ Session' = Session \cup {Len(session')}
         /\ Len(session') \notin Session /\ Len(session') \in Nat
         /\ \A s \in Session : session'[s] = session[s]
         /\ session'[Len(session')].deadline = d
         /\ m_mapPendingResponseInfo' = m_mapPendingResponseInfo \cup {Len(session')}
         /\ UNCHANGED timerVars
<1> DEFINE new == [client |-> c, kind |-> kind, deadline |-> d]
<1>1. session' = Append(session, new) /\ new.deadline = d
  BY DEF Open
<1> HIDE DEF new
<1>2. session \in Seq(SessionType) /\ Len(session) \in Nat /\ Session = 1 .. Len(session)
  BY DEF SessionInv, SessionsOK, Session
<1>3. /\ Len(session') = Len(session) + 1 /\ session'[Len(session) + 1] = new
      /\ DOMAIN session' = 1 .. Len(session) + 1
      /\ \A s \in 1 .. Len(session) : session'[s] = session[s]
  BY <1>1, <1>2
<1>4. Session' = Session \cup {Len(session) + 1} /\ Len(session) + 1 \notin Session
  BY <1>2, <1>3 DEF Session
<1> QED
  BY <1>1, <1>2, <1>3, <1>4 DEF Open

\* A request with a timeout puts its session into the list.
LEMMA RequestInserts ==
  ASSUME SessionInv, ListInv, NEW c \in Client, NEW kind \in Kind, NEW timeout \in Timeout,
         Request(c, kind, timeout)
  PROVE  ListInv' /\ InList' = InList \cup {Len(session')}
<1> DEFINE n == Len(session')
           d == now + timeout
<1>1. Open(c, kind, d) /\ m_listTimeout' = InsertAfter(m_listTimeout, LowerBound(d), n)
  BY DEF Request
<1>2. d \in Nat
  BY TimeoutAssumption DEF SessionInv, SessionsOK
<1> HIDE DEF d
<1>3. /\ n = Len(session) + 1 /\ Session' = Session \cup {n} /\ n \notin Session /\ n \in Nat
      /\ \A s \in Session : session'[s] = session[s]
      /\ session'[n].deadline = d
      /\ m_mapPendingResponseInfo' = m_mapPendingResponseInfo \cup {n}
  BY <1>1, OpenAppends
<1> QED
  BY <1>1, <1>2, <1>3, InsertionKeeps

\* The list and the timer keep their invariant in every step.
LEMMA TimerInvStep ==
  ASSUME TimerInv, [Next]_vars
  PROVE  ListInv' /\ TimerType' /\ PassedInv'
<1>1. SessionInv /\ ListInv /\ TimerType /\ PassedInv
  BY DEF TimerInv
<1>2. /\ session \in Seq(SessionType)
      /\ Len(session) \in Nat /\ Session = 1 .. Len(session)
      /\ now \in Nat /\ m_mapPendingResponseInfo \subseteq Session
      /\ InList \subseteq Session /\ End \notin Session
      /\ InList = Timed
      /\ m_mapPendingResponseInfoByDbClient \in [Client -> SUBSET Session]
  BY <1>1, ListFacts DEF SessionInv, SessionsOK, ListInv
\* Steps that leave the list and the sessions alone.
<1>3. ASSUME UNCHANGED <<session, m_mapPendingResponseInfo, m_listTimeout>>
      PROVE  /\ ListInv' /\ InList' = InList
             /\ Session' = Session /\ Len(session') = Len(session)
             /\ \A s, t : Before(s, t)' = Before(s, t)
  BY <1>1, <1>3 DEF ListInv, InList, Timed, Session, Before, Deadline
<1>4. CASE UNCHANGED <<session, m_mapPendingResponseInfo, m_listTimeout, timerVars>>
  <2>1. TimerType'
    BY <1>1, <1>3, <1>4 DEF TimerType, timerVars
  <2>2. PassedInv'
    BY <1>1, <1>3, <1>4 DEF PassedInv, timerVars
  <2> QED
    BY <1>3, <1>4, <2>1, <2>2
<1>5. CASE UNCHANGED vars \/ UseDangling \/ Tick \/ \E c \in Client : Create(c)
  BY <1>4, <1>5 DEF vars, mapVars, timerVars, UseDangling, Tick, Create
<1>6. CASE CallbackReturns \/ LeaveTimer
  <2>1. /\ UNCHANGED <<session, m_mapPendingResponseInfo, m_listTimeout, nCurTime, iter, entered>>
        /\ timer' \in {"idle", "loop"} /\ timer # "idle"
    BY <1>6 DEF CallbackReturns, LeaveTimer, InLoop, mapVars
  <2>2. TimerType'
    BY <1>1, <1>3, <2>1 DEF TimerType
  <2>3. PassedInv'
    BY <1>1, <1>3, <2>1 DEF PassedInv
  <2> QED
    BY <1>3, <2>1, <2>2, <2>3
<1>7. CASE EnterTimer
  <2>1. /\ UNCHANGED <<session, m_mapPendingResponseInfo, m_listTimeout>>
        /\ timer' = "loop" /\ nCurTime' = now /\ entered' = Len(session)
        /\ iter' = IF m_listTimeout = << >> THEN End ELSE Head(m_listTimeout)
    BY <1>7 DEF EnterTimer, mapVars
  <2>2. CASE m_listTimeout = << >>
    <3>1. InList = {}
      BY <2>2 DEF InList
    <3>2. TimerType' /\ PassedInv'
      BY <1>2, <1>3, <2>1, <2>2, <3>1 DEF TimerType, PassedInv
    <3> QED
      BY <1>3, <2>1, <3>2
  <2>3. CASE m_listTimeout # << >>
    <3>1. m_listTimeout \in Seq(Session)
      BY <1>1 DEF ListInv
    <3>2. /\ 1 \in 1 .. Len(m_listTimeout) /\ Len(m_listTimeout) \in Nat
          /\ iter' = m_listTimeout[1]
          /\ InList = {m_listTimeout[k] : k \in 1 .. Len(m_listTimeout)}
      BY <2>1, <2>3, <3>1 DEF InList
    <3>3. \A s \in InList : ~Before(s, iter')
      <4> TAKE s \in InList
      <4>1. PICK k \in 1 .. Len(m_listTimeout) : m_listTimeout[k] = s
        BY <3>2
      <4> QED
        BY <1>1, <3>2, <4>1, StrictOrder
    <3>4. iter' \in InList
      BY <3>2
    <3>5. TimerType'
      BY <1>2, <1>3, <2>1, <3>4 DEF TimerType
    <3>6. PassedInv'
      <4>1. \A s \in InList : ~(Before(s, iter)')
        BY <2>1, <3>3 DEF Before, Deadline
      <4> QED
        BY <1>2, <1>3, <2>1, <3>4, <4>1 DEF PassedInv
    <3> QED
      BY <1>3, <2>1, <3>5, <3>6
  <2> QED
    BY <2>2, <2>3
<1>8. CASE Expire
  <2>1. /\ iter \in InList /\ timer = "loop" /\ session' = session
        /\ iter' = NextOf(iter) /\ nCurTime' = nCurTime /\ entered' = entered
        /\ timer' \in {"loop", "callback"}
        /\ m_listTimeout' = Without(m_listTimeout, {iter})
        /\ m_mapPendingResponseInfo' = m_mapPendingResponseInfo \ {iter}
    <3>1. iter \in m_mapPendingResponseInfo
      BY <1>2, <1>8 DEF Expire, IterValid, Timed
    <3> QED
      BY <1>8, <3>1 DEF Expire, InLoop, IterValid, Finish
  <2>2. Timed' = Timed \ {iter}
    BY <2>1 DEF Timed, Deadline
  <2>3. ListInv' /\ InList' = InList \ {iter}
    BY <1>1, <2>1, <2>2, ErasureKeeps
  <2>4. /\ iter' \in InList' \cup {End}
        /\ iter' = End => \A s \in InList' : s > entered
        /\ iter' \in InList' => \A s \in InList' : Before(s, iter') => s > entered
    BY <2>1, <2>3, IteratorMovesOn
  <2>5. Session' = Session /\ Len(session') = Len(session)
    BY <2>1 DEF Session
  <2>6. TimerType'
    BY <1>1, <1>2, <2>1, <2>3, <2>4, <2>5 DEF TimerType
  <2>7. PassedInv'
    BY <2>1, <2>4 DEF PassedInv, Before, Deadline
  <2> QED
    BY <2>3, <2>6, <2>7
<1>9. ASSUME NEW s \in Session, NEW err_code \in ResponseCode, onMessage(s, err_code)
      PROVE  ListInv' /\ TimerType' /\ PassedInv'
  <2>1. /\ session' = session /\ UNCHANGED timerVars
        /\ m_listTimeout' = Without(m_listTimeout, {s})
        /\ m_mapPendingResponseInfo' = m_mapPendingResponseInfo \ {s}
    BY <1>9 DEF onMessage, Finish
  <2>2. Timed' = Timed \ {s}
    BY <2>1 DEF Timed, Deadline
  <2> QED
    BY <1>1, <2>1, <2>2, ErasureKeeps, ErasureKeepsTimer
<1>10. ASSUME NEW c \in Client, Destroy(c)
       PROVE  ListInv' /\ TimerType' /\ PassedInv'
  <2> DEFINE own == m_mapPendingResponseInfoByDbClient[c]
  <2>1. /\ session' = session /\ UNCHANGED timerVars
        /\ m_listTimeout' = Without(m_listTimeout, own)
        /\ m_mapPendingResponseInfo' = m_mapPendingResponseInfo \ own
    BY <1>10 DEF Destroy
  <2> HIDE DEF own
  <2>2. Timed' = Timed \ own
    BY <2>1 DEF Timed, Deadline
  <2> QED
    BY <1>1, <2>1, <2>2, ErasureKeeps, ErasureKeepsTimer
<1>11. ASSUME NEW c \in Client, nop(c)
       PROVE  ListInv' /\ TimerType' /\ PassedInv'
  <2>1. Open(c, "write", NoTimeout) /\ m_listTimeout' = m_listTimeout
    BY <1>11 DEF nop
  <2> DEFINE n == Len(session')
  <2>2. /\ n = Len(session) + 1 /\ Session' = Session \cup {n} /\ n \notin Session /\ n \in Nat
        /\ \A s \in Session : session'[s] = session[s]
        /\ session'[n].deadline = NoTimeout
        /\ m_mapPendingResponseInfo' = m_mapPendingResponseInfo \cup {n}
        /\ UNCHANGED timerVars
    BY <1>1, <2>1, OpenAppends
  <2>3. InList' = InList
    BY <2>1 DEF InList
  <2>4. Timed' = Timed
    BY <1>2, <2>2 DEF Timed, Deadline
  <2>5. ListInv'
    <3>1. m_listTimeout \in Seq(Session')
      <4>1. m_listTimeout \in Seq(Session)
        BY <1>1 DEF ListInv
      <4> QED
        BY <2>2, <4>1
    <3>2. \A j, k \in DOMAIN m_listTimeout : j < k =>
            Before(m_listTimeout[j], m_listTimeout[k])'
      <4>1. \A j \in DOMAIN m_listTimeout : m_listTimeout[j] \in Session
        BY <1>2 DEF InList
      <4> QED
        BY <1>1, <2>1, <2>2, <4>1 DEF ListInv, Before, Deadline
    <3> QED
      BY <1>2, <2>1, <2>3, <2>4, <3>1, <3>2 DEF ListInv
  <2> QED
    BY <2>2, <2>3, <2>5, RequestKeepsTimer
<1>12. ASSUME NEW c \in Client, NEW kind \in Kind, NEW timeout \in Timeout,
              Request(c, kind, timeout)
       PROVE  ListInv' /\ TimerType' /\ PassedInv'
  <2>1. Open(c, kind, now + timeout)
    BY <1>12 DEF Request
  <2>2. ListInv' /\ InList' = InList \cup {Len(session')}
    BY <1>1, <1>12, RequestInserts
  <2> QED
    BY <1>1, <2>1, <2>2, OpenAppends, RequestKeepsTimer
<1> QED
  BY <1>5, <1>6, <1>7, <1>8, <1>9, <1>10, <1>11, <1>12 DEF Next, onTimer

-----------------------------------------------------------------------------
(* The theorems about the list and the timer.                               *)

\* At the start nothing is on the list and onTimer() does not run.
LEMMA InitTimer == Init => TimerInv
<1> SUFFICES ASSUME Init PROVE TimerInv
  OBVIOUS
<1>1. SessionInv
  BY InitSessions
<1>2. InList = {} /\ Timed = {} /\ Session = {} /\ Len(session) = 0
  BY DEF Init, InList, Timed, Session
<1>3. ListInv
  BY <1>2 DEF Init, ListInv
<1> QED
  BY <1>1, <1>2, <1>3 DEF Init, TimerInv, TimerType, PassedInv

\* The invariant of the maps, the list and the iterator is inductive.
LEMMA TimerStep == TimerInv /\ [Next]_vars => TimerInv'
BY TimerInvStep, SessionStep DEF TimerInv

\* onTimer(), the list and the sessions agree in every state of the client side, for
\* every timeout, and whatever the callbacks open and destroy.
THEOREM TimerCorrect == Spec => []TimerInv
BY InitTimer, TimerStep, PTL DEF Spec

\* What the early break of onTimer() and the erase in onMessage() rely on
\* (db_proxy.cpp:466-500): the list is exact, sorted, and without repetitions.
THEOREM ListCorrect == Spec => []TimeoutListExact
<1>1. TimerInv => TimeoutListExact
  <2> SUFFICES ASSUME TimerInv PROVE TimeoutListExact
    OBVIOUS
  <2>1. SessionInv /\ ListInv
    BY DEF TimerInv
  <2>2. InList = Timed
    BY <2>1 DEF ListInv
  <2>3. ASSUME NEW j \in DOMAIN m_listTimeout, NEW k \in DOMAIN m_listTimeout, j < k
        PROVE  /\ m_listTimeout[j] # m_listTimeout[k]
               /\ Deadline(m_listTimeout[j]) <= Deadline(m_listTimeout[k])
    <3>1. /\ Before(m_listTimeout[j], m_listTimeout[k])
          /\ Deadline(m_listTimeout[j]) \in Nat /\ Deadline(m_listTimeout[k]) \in Nat
          /\ m_listTimeout[j] \in Nat
      BY <2>1, <2>3, ListFacts DEF ListInv
    <3> QED
      BY <3>1 DEF Before
  <2> QED
    BY <2>2, <2>3 DEF TimeoutListExact, Timed
<1> QED
  BY <1>1, TimerCorrect, PTL

\* When onTimer() returns it has ended every session that was due when it was entered:
\* the early break and the sessions its callbacks insert make it skip none.
THEOREM TimerCompleteCorrect == Spec => TimerComplete
<1>1. TimerInv /\ [Next]_vars =>
        [LeaveTimer => \A s \in m_mapPendingResponseInfo :
           (s <= entered /\ Deadline(s) # NoTimeout) => Deadline(s) > nCurTime]_vars
  <2> SUFFICES ASSUME TimerInv, LeaveTimer, NEW s \in m_mapPendingResponseInfo,
                      s <= entered, Deadline(s) # NoTimeout
               PROVE  Deadline(s) > nCurTime
    OBVIOUS
  <2>1. SessionInv /\ ListInv /\ TimerType /\ PassedInv
    BY DEF TimerInv
  <2>2. s \in InList /\ s \in Nat /\ Deadline(s) \in Nat /\ End \notin InList
    BY <2>1, ListFacts DEF ListInv, Timed
  <2>3. ~(s > entered)
    BY <2>1, <2>2 DEF TimerType
  <2>4. timer # "idle" /\ (iter = End \/ (iter \in InList /\ nCurTime < Deadline(iter)))
    BY DEF LeaveTimer, InLoop, IterValid
  <2>5. iter \in InList /\ nCurTime < Deadline(iter) /\ ~Before(s, iter)
    BY <2>1, <2>2, <2>3, <2>4 DEF PassedInv
  <2>6. iter \in Nat /\ Deadline(iter) \in Nat /\ nCurTime \in Nat
    BY <2>1, <2>5, ListFacts DEF TimerType
  <2> QED
    BY <2>2, <2>5, <2>6 DEF Before
<1> QED
  BY <1>1, TimerCorrect, PTL DEF Spec, TimerComplete

\* If the callbacks destroy no client, the iterator onTimer() keeps across them stays on
\* the list: what a callback opens does not move it.
THEOREM IteratorCorrect ==
  ASSUME DestroyInCallback = FALSE
  PROVE  Spec => []IteratorStaysValid
<1>1. Init => IteratorStaysValid
  BY DEF Init, IteratorStaysValid
<1>2. TimerInv /\ TimerInv' /\ IteratorStaysValid /\ [Next]_vars => IteratorStaysValid'
  <2> SUFFICES ASSUME TimerInv, TimerInv', IteratorStaysValid, [Next]_vars, timer' # "idle"
               PROVE  IterValid'
    BY DEF IteratorStaysValid
  <2>1. CASE Expire
    <3>1. /\ session' = session /\ iter \in InList /\ timer # "idle" /\ iter' = NextOf(iter)
          /\ m_listTimeout' = Without(m_listTimeout, {iter})
      BY <2>1 DEF Expire, IterValid, InLoop
    <3>2. iter \in m_mapPendingResponseInfo /\ SessionInv /\ ListInv
      BY <3>1, ListFacts DEF TimerInv
    <3>3. m_mapPendingResponseInfo' = m_mapPendingResponseInfo \ {iter}
      BY <2>1, <3>2 DEF Expire, Finish
    <3>4. InList' = InList \ {iter}
      <4>1. Timed' = Timed \ {iter}
        BY <3>1, <3>3 DEF Timed, Deadline
      <4> QED
        BY <3>1, <3>2, <4>1, ErasureKeeps
    <3> QED
      BY <3>1, <3>4, IteratorMovesOn DEF IterValid
  <2>2. CASE EnterTimer
    <3>1. CASE m_listTimeout = << >>
      BY <2>2, <3>1 DEF EnterTimer, IterValid
    <3>2. CASE m_listTimeout # << >>
      <4>1. m_listTimeout \in Seq(Session)
        BY DEF TimerInv, ListInv
      <4>2. 1 \in DOMAIN m_listTimeout /\ Head(m_listTimeout) = m_listTimeout[1]
        BY <3>2, <4>1
      <4>3. iter' = m_listTimeout[1] /\ m_listTimeout' = m_listTimeout
        BY <2>2, <3>2, <4>2 DEF EnterTimer
      <4> QED
        BY <4>2, <4>3 DEF IterValid, InList
    <3> QED
      BY <3>1, <3>2
  <2>3. CASE UNCHANGED <<timer, iter, m_listTimeout>>
    BY <2>3 DEF IteratorStaysValid, IterValid, InList
  <2>4. CASE UNCHANGED vars \/ UseDangling \/ Tick \/ \E c \in Client : Create(c) \/ nop(c)
    BY <2>3, <2>4 DEF vars, timerVars, UseDangling, Tick, Create, nop, Open
  <2>5. CASE CallbackReturns
    BY <2>5 DEF CallbackReturns, IteratorStaysValid, IterValid, InList
  <2>6. CASE LeaveTimer
    BY <2>6 DEF LeaveTimer
  <2>7. ASSUME NEW s \in Session, NEW err_code \in ResponseCode, onMessage(s, err_code)
        PROVE  FALSE
    BY <2>7 DEF onMessage, timerVars
  <2>8. ASSUME NEW c \in Client, Destroy(c) PROVE FALSE
    BY <2>8 DEF Destroy, CallerRuns, timerVars, TimerInv, TimerType
  <2>9. ASSUME NEW c \in Client, NEW kind \in Kind, NEW timeout \in Timeout,
               Request(c, kind, timeout)
        PROVE  IterValid'
    <3>1. timer # "idle" /\ iter' = iter
      BY <2>9 DEF Request, Open, timerVars
    <3>2. InList \subseteq InList'
      BY <2>9, RequestInserts DEF TimerInv
    <3> QED
      BY <3>1, <3>2 DEF IteratorStaysValid, IterValid
  <2> QED
    BY <2>1, <2>2, <2>4, <2>5, <2>6, <2>7, <2>8, <2>9 DEF Next, onTimer
<1> QED
  BY <1>1, <1>2, TimerCorrect, PTL DEF Spec

-----------------------------------------------------------------------------
(* Types.                                                                   *)

Code == ResponseCode \cup {"kRC_TIME_OUT", "kRC_PROTO_ERROR"}

Delivery == [s : Session, code : Code, sent : ResponseCode \cup {"none"}]

HistoryType ==
  /\ delivered \in Seq(Delivery)
  /\ broken \in BOOLEAN

\* Every callback is made with a code of the protocol and for a session that was opened.
LEMMA HistoryStep ==
  ASSUME TimerInv, TimerInv', HistoryType, [Next]_vars
  PROVE  HistoryType'
<1>1. SessionInv /\ m_mapPendingResponseInfo \subseteq Session
  BY DEF TimerInv, SessionInv, SessionsOK
<1>2. ASSUME Session \subseteq Session', UNCHANGED delivered
      PROVE  (delivered \in Seq(Delivery))'
  <2>1. Delivery \subseteq Delivery'
    BY <1>2 DEF Delivery, Code
  <2>2. delivered \in Seq(Delivery)
    BY DEF HistoryType
  <2> QED
    BY <1>2, <2>1, <2>2
<1>3. ASSUME NEW s \in Session, NEW code \in Code, NEW sent \in ResponseCode \cup {"none"},
             Finish(s, code, sent), session' = session
      PROVE  (delivered \in Seq(Delivery))'
  <2>1. Delivery' = Delivery
    BY <1>3 DEF Delivery, Session, Code
  <2>2. [s |-> s, code |-> code, sent |-> sent] \in Delivery
    BY <1>3 DEF Delivery
  <2>3. delivered \in Seq(Delivery) /\ delivered' = Append(delivered, [s |-> s, code |-> code, sent |-> sent])
    BY <1>3 DEF HistoryType, Finish
  <2>4. delivered' \in Seq(Delivery)
    BY <2>2, <2>3
  <2> QED
    BY <2>1, <2>4
<1>4. CASE UNCHANGED <<session, delivered, broken>>
  BY <1>2, <1>4 DEF HistoryType, Session
<1>5. CASE \/ UNCHANGED vars \/ EnterTimer \/ CallbackReturns \/ LeaveTimer \/ Tick
           \/ \E c \in Client : Create(c)
  BY <1>4, <1>5 DEF vars, EnterTimer, CallbackReturns, LeaveTimer, Tick, Create
<1>6. CASE UseDangling \/ \E c \in Client : Destroy(c)
  <2>1. session' = session /\ delivered' = delivered /\ broken' \in BOOLEAN
    BY <1>6 DEF UseDangling, Destroy
  <2> QED
    BY <1>2, <2>1 DEF HistoryType, Session
<1>7. ASSUME NEW c \in Client, NEW kind, NEW d, Open(c, kind, d) PROVE HistoryType'
  <2>1. Session \subseteq Session' /\ delivered' = delivered /\ broken' = broken
    BY <1>1, <1>7, OpenAppends DEF Open
  <2> QED
    BY <1>2, <2>1 DEF HistoryType
<1>8. CASE \E c \in Client : nop(c) \/ \E kind \in Kind, timeout \in Timeout : Request(c, kind, timeout)
  BY <1>7, <1>8 DEF nop, Request
<1>9. ASSUME NEW s \in Session, NEW err_code \in ResponseCode, onMessage(s, err_code)
      PROVE  HistoryType'
  <2>1. CodeOf(s, err_code) \in Code
    BY DEF CodeOf, Code
  <2>2. Finish(s, CodeOf(s, err_code), err_code) /\ session' = session /\ broken' = broken
    BY <1>9 DEF onMessage
  <2>3. (delivered \in Seq(Delivery))'
    BY <1>3, <2>1, <2>2
  <2> QED
    BY <2>2, <2>3 DEF HistoryType
<1>10. CASE Expire
  <2>1. session' = session /\ broken' = broken
    BY <1>10 DEF Expire
  <2>2. CASE iter \in m_mapPendingResponseInfo
    <3>1. Finish(iter, "kRC_TIME_OUT", "none") /\ iter \in Session
      BY <1>1, <1>10, <2>2 DEF Expire
    <3>2. (delivered \in Seq(Delivery))'
      BY <1>3, <2>1, <3>1 DEF Code
    <3> QED
      BY <2>1, <3>2 DEF HistoryType
  <2>3. CASE iter \notin m_mapPendingResponseInfo
    BY <1>4, <1>10, <2>1, <2>3 DEF Expire
  <2> QED
    BY <2>2, <2>3
<1> QED
  BY <1>5, <1>6, <1>8, <1>9, <1>10 DEF Next, onTimer

\* Types, among them that every handle the component keeps, in its maps, its list, its
\* iterator and its callbacks, is a session that was opened.
THEOREM TypeCorrect == Spec => []TypeOK
<1>1. Init => HistoryType
  <2>1. << >> \in Seq(Delivery)
    OBVIOUS
  <2> QED
    BY <2>1 DEF Init, HistoryType
<1>2. TimerInv /\ TimerInv' /\ HistoryType /\ [Next]_vars => HistoryType'
  BY HistoryStep
<1>3. TimerInv /\ HistoryType => TypeOK
  BY DEF TimerInv, SessionInv, SessionsOK, SessionType, OnceInv, ListInv, TimerType,
         HistoryType, Delivery, Code, TypeOK
<1> QED
  BY <1>1, <1>2, <1>3, TimerCorrect, PTL DEF Spec
=============================================================================
