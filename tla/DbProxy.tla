------------------------------- MODULE DbProxy -------------------------------
(***************************************************************************)
(* The client side: CDbProxy (db_proxy.cpp) and the lifetime of CDbClient   *)
(* (db_client.cpp).  Requests that want an answer open a session; the       *)
(* session ends with a response, with its timeout, or with its client.      *)
(*                                                                          *)
(* All of it runs on the caller's thread, but not in one piece: onTimer()   *)
(* calls back into the caller for every session that timed out, while it    *)
(* holds an iterator into m_listTimeout, and the callback may open sessions *)
(* and destroy clients.  Responses come from the outside: late, out of      *)
(* order, twice or never.                                                   *)
(***************************************************************************)
EXTENDS Integers, Sequences

CONSTANTS
  Client,              \* addresses CDbClient objects can live at
  Timeout,             \* the timeouts of requests, in seconds
  NoTimeout,           \* iterTimeout == m_listTimeout.end(): a nop request
  End,                 \* the iterator m_listTimeout.end()
  Kind,                \* "read": select, query, call_r; "write": update_r, insert_r, remove_r
  ResponseCode,        \* the err_code of responses
  DestroyInCallback,   \* clients may be destroyed while onTimer() calls back
  DestroyWithNop,      \* clients may be destroyed while a nop is pending
  MaxSession,          \* bound: sessions in one behaviour
  MaxTime              \* bound: the clock stops there

ASSUME TimeoutAssumption == Timeout \subseteq Nat /\ NoTimeout \notin Nat
ASSUME EndAssumption     == End \notin Nat
ASSUME KindAssumption    == Kind \subseteq {"read", "write"}
ASSUME BoundAssumption   == MaxSession \in Nat /\ MaxTime \in Nat

VARIABLES
  now,                                 \* time(nullptr)
  alive,                               \* the clients that exist
  session,                             \* session[s]: what session s was opened with
  m_mapPendingResponseInfo,            \* the sessions that wait for their end
  m_mapPendingResponseInfoByDbClient,  \* per client, the sessions it waits for
  m_listTimeout,                       \* sessions by deadline
  timer,                               \* onTimer(): "idle", "loop" or "callback"
  nCurTime,                            \* the time onTimer() read when it was entered
  iter,                                \* its iterator: a session, or End
  broken,                              \* an invalid iterator was used: undefined behaviour
  delivered,                           \* history: callbacks made, [s, code, sent]
  cancelled,                           \* history: sessions that ended with their client
  entered                              \* history: sessions opened when onTimer() was entered

timerVars == <<timer, nCurTime, iter, entered>>
mapVars   == <<m_mapPendingResponseInfo, m_mapPendingResponseInfoByDbClient>>
vars == <<now, alive, session, mapVars, m_listTimeout, timerVars, broken,
          delivered, cancelled>>

Session == DOMAIN session
Init ==
  /\ now = 1
  /\ alive = {}
  /\ session = << >>
  /\ m_mapPendingResponseInfo = {}
  /\ m_mapPendingResponseInfoByDbClient = [c \in Client |-> {}]
  /\ m_listTimeout = << >>
  /\ timer = "idle"
  /\ nCurTime = 0
  /\ iter = End
  /\ entered = 0
  /\ broken = FALSE
  /\ delivered = << >>
  /\ cancelled = {}

-----------------------------------------------------------------------------
(* m_listTimeout, sorted by deadline.                                       *)

Deadline(s) == session[s].deadline

\* Mutant: push_back in place of the sorted insertion.
AtTheBack(deadline) == Len(m_listTimeout)

\* lower_bound: how many sessions of the list expire before deadline.
LowerBound(deadline) ==
  CHOOSE p \in 0 .. Len(m_listTimeout) :
    /\ p > 0 => Deadline(m_listTimeout[p]) < deadline
    /\ p < Len(m_listTimeout) => Deadline(m_listTimeout[p + 1]) >= deadline

InsertAfter(list, p, s) == SubSeq(list, 1, p) \o <<s>> \o SubSeq(list, p + 1, Len(list))

\* The list once every session of S is erased from it.
Without(list, S) ==
  LET kept[k \in 0 .. Len(list)] ==
        IF k = 0 THEN << >>
        ELSE IF list[k] \in S THEN kept[k - 1] ELSE Append(kept[k - 1], list[k])
  IN  kept[Len(list)]

InList == {m_listTimeout[k] : k \in DOMAIN m_listTimeout}

\* The list iterator after, or at, session s.
Position(s) == CHOOSE k \in DOMAIN m_listTimeout : m_listTimeout[k] = s
NextOf(s) ==
  IF Position(s) = Len(m_listTimeout) THEN End ELSE m_listTimeout[Position(s) + 1]

-----------------------------------------------------------------------------
(* What the caller does, from its own loop or from a timeout callback.      *)

\* Only while neither the loop of onTimer() nor undefined behaviour is in the way.
CallerRuns == timer # "loop" /\ ~broken

Create(c) ==
  /\ CallerRuns
  /\ alive' = alive \cup {c}
  /\ c \notin alive
  /\ UNCHANGED <<now, session, mapVars, m_listTimeout, timerVars, broken,
                 delivered, cancelled>>

\* Mutant: genSessionID increments before it returns.
OpenPreIncrement(c, kind, deadline) ==
  /\ CallerRuns
  /\ c \in alive
  /\ Len(session) < MaxSession
  /\ session' = Append(session, [client |-> c, kind |-> kind, deadline |-> deadline])
  /\ m_mapPendingResponseInfo' = m_mapPendingResponseInfo \cup {Len(session') + 1}
  /\ m_mapPendingResponseInfoByDbClient' =
       [m_mapPendingResponseInfoByDbClient EXCEPT ![c] = @ \cup {Len(session') + 1}]
  /\ UNCHANGED <<alive, timerVars, broken, delivered, cancelled>>

\* genSessionID and the entries in the two maps.
Open(c, kind, deadline) ==
  /\ CallerRuns
  /\ c \in alive
  /\ Len(session) < MaxSession
  /\ session' = Append(session, [client |-> c, kind |-> kind, deadline |-> deadline])
  /\ m_mapPendingResponseInfo' = m_mapPendingResponseInfo \cup {Len(session')}
  /\ m_mapPendingResponseInfoByDbClient' =
       [m_mapPendingResponseInfoByDbClient EXCEPT ![c] = @ \cup {Len(session')}]
  /\ UNCHANGED <<alive, timerVars, broken, delivered, cancelled>>

\* The clock may turn to the next second while a request is handed to the pool.
\* Bound: it does so once at most.
Passing == now' \in {now, now + 1} /\ now' <= MaxTime

\* select, query and call_r; update_r, insert_r and remove_r.  The clock is read
\* before sendRequest() is called.
Request(c, kind, timeout) ==
  /\ Passing
  /\ now + timeout <= MaxTime
  /\ Open(c, kind, now + timeout)
  /\ m_listTimeout' =
       InsertAfter(m_listTimeout, LowerBound(now + timeout), Len(session'))

nop(c) ==
  /\ Open(c, "write", NoTimeout)
  /\ UNCHANGED <<now, m_listTimeout>>

\* Mutant: the entry of the client in m_mapPendingResponseInfoByDbClient stays.
DestroyKeepsIndex(c) ==
  LET own == m_mapPendingResponseInfoByDbClient[c]
      nops == {s \in own : Deadline(s) = NoTimeout}
  IN  /\ CallerRuns
      /\ c \in alive
      /\ timer = "callback" => DestroyInCallback
      /\ nops # {} => DestroyWithNop
      /\ alive' = alive \ {c}
      /\ m_listTimeout' = Without(m_listTimeout, own)
      /\ m_mapPendingResponseInfo' = m_mapPendingResponseInfo \ own
      /\ cancelled' = cancelled \cup own
      /\ broken' = (nops # {})
      /\ UNCHANGED <<now, session, m_mapPendingResponseInfoByDbClient, timerVars, delivered>>

\* ~CDbClient: removePendingResponseInfo() erases the list entry of every session
\* of the client, also of a nop, which has none.
Destroy(c) ==
  LET own == m_mapPendingResponseInfoByDbClient[c]
      nops == {s \in own : Deadline(s) = NoTimeout}
  IN  /\ CallerRuns
      /\ c \in alive
      /\ timer = "callback" => DestroyInCallback
      /\ nops # {} => DestroyWithNop
      /\ alive' = alive \ {c}
      /\ m_listTimeout' = Without(m_listTimeout, own)
      /\ m_mapPendingResponseInfo' = m_mapPendingResponseInfo \ own
      /\ m_mapPendingResponseInfoByDbClient' =
           [m_mapPendingResponseInfoByDbClient EXCEPT ![c] = {}]
      /\ cancelled' = cancelled \cup own
      /\ broken' = (nops # {})
      /\ UNCHANGED <<now, session, timerVars, delivered>>

-----------------------------------------------------------------------------
(* How sessions end.                                                        *)

\* Mutant: m_mapPendingResponseInfo still knows the session.
FinishWithoutErase(s, code, sent) ==
  /\ m_mapPendingResponseInfoByDbClient' =
       [m_mapPendingResponseInfoByDbClient EXCEPT ![session[s].client] = @ \ {s}]
  /\ delivered' = Append(delivered, [s |-> s, code |-> code, sent |-> sent])
  /\ UNCHANGED m_mapPendingResponseInfo

\* Both maps forget the session; its callback is called.
Finish(s, code, sent) ==
  /\ m_mapPendingResponseInfo' = m_mapPendingResponseInfo \ {s}
  /\ m_mapPendingResponseInfoByDbClient' =
       [m_mapPendingResponseInfoByDbClient EXCEPT ![session[s].client] = @ \ {s}]
  /\ delivered' = Append(delivered, [s |-> s, code |-> code, sent |-> sent])

\* Only a successful read is answered with a message (db_thread.cpp:156).  A
\* response without one has no type name, and createMessage("") is a null pointer.
CodeOf(s, err_code) ==
  IF session[s].kind = "read" /\ err_code = "kRC_OK" THEN err_code ELSE "kRC_PROTO_ERROR"

onMessage(s, err_code) ==
  /\ timer = "idle" /\ ~broken
  /\ s \in m_mapPendingResponseInfo
  /\ Finish(s, CodeOf(s, err_code), err_code)
  /\ m_listTimeout' = Without(m_listTimeout, {s})
  /\ UNCHANGED <<now, alive, session, timerVars, broken, cancelled>>

\* onTimer() is entered.
EnterTimer ==
  /\ timer = "idle" /\ ~broken
  /\ timer' = "loop"
  /\ nCurTime' = now
  /\ entered' = Len(session)
  /\ iter' = IF m_listTimeout = << >> THEN End ELSE Head(m_listTimeout)
  /\ UNCHANGED <<now, alive, session, mapVars, m_listTimeout, broken, delivered, cancelled>>

\* The iterator still stands on a node of the list.
IterValid == iter = End \/ iter \in InList

InLoop == timer = "loop" /\ ~broken

\* Mutant: the iterator erase() returns is dropped.
ExpireKeepsIterator ==
  /\ InLoop /\ iter # End /\ IterValid
  /\ Deadline(iter) <= nCurTime
  /\ iter' = iter
  /\ m_listTimeout' = Without(m_listTimeout, {iter})
  /\ IF iter \in m_mapPendingResponseInfo
     THEN Finish(iter, "kRC_TIME_OUT", "none") /\ timer' = "callback"
     ELSE UNCHANGED <<mapVars, delivered, timer>>
  /\ UNCHANGED <<now, alive, session, nCurTime, entered, broken, cancelled>>

\* The iterator's node is due: erase it, end its session and call back.
Expire ==
  /\ InLoop /\ iter # End /\ IterValid
  /\ Deadline(iter) <= nCurTime
  /\ iter' = NextOf(iter)
  /\ m_listTimeout' = Without(m_listTimeout, {iter})
  /\ IF iter \in m_mapPendingResponseInfo
     THEN Finish(iter, "kRC_TIME_OUT", "none") /\ timer' = "callback"
     ELSE UNCHANGED <<mapVars, delivered, timer>>
  /\ UNCHANGED <<now, alive, session, nCurTime, entered, broken, cancelled>>

CallbackReturns ==
  /\ timer = "callback" /\ ~broken
  /\ timer' = "loop"
  /\ UNCHANGED <<now, alive, session, mapVars, m_listTimeout, nCurTime, iter,
                 entered, broken, delivered, cancelled>>

\* Mutant: a session that is due this very second stops the loop.
LeaveTimerTooEarly ==
  /\ InLoop
  /\ iter # End => IterValid /\ nCurTime <= Deadline(iter)
  /\ timer' = "idle"
  /\ UNCHANGED <<now, alive, session, mapVars, m_listTimeout, nCurTime, iter,
                 entered, broken, delivered, cancelled>>

LeaveTimer ==
  /\ InLoop
  /\ iter # End => IterValid /\ nCurTime < Deadline(iter)
  /\ timer' = "idle"
  /\ UNCHANGED <<now, alive, session, mapVars, m_listTimeout, nCurTime, iter,
                 entered, broken, delivered, cancelled>>

\* The node under the iterator was erased by a callback.
UseDangling ==
  /\ InLoop
  /\ ~IterValid
  /\ broken' = TRUE
  /\ UNCHANGED <<now, alive, session, mapVars, m_listTimeout, timerVars, delivered, cancelled>>

Tick ==
  /\ now < MaxTime
  /\ now' = now + 1
  /\ UNCHANGED <<alive, session, mapVars, m_listTimeout, timerVars, broken,
                 delivered, cancelled>>

onTimer == EnterTimer \/ Expire \/ CallbackReturns \/ LeaveTimer \/ UseDangling

Next ==
  \/ \E c \in Client :
       \/ Create(c) \/ Destroy(c) \/ nop(c)
       \/ \E kind \in Kind, timeout \in Timeout : Request(c, kind, timeout)
  \/ \E s \in Session, err_code \in ResponseCode : onMessage(s, err_code)
  \/ onTimer
  \/ Tick

Spec == Init /\ [][Next]_vars

\* The caller's loop calls onTimer() again and again and its callbacks return.
Fairness == WF_vars(onTimer) /\ WF_vars(Tick)

FairSpec == Spec /\ Fairness

-----------------------------------------------------------------------------
(* Properties.                                                              *)

TypeOK ==
  /\ now \in Nat
  /\ alive \subseteq Client
  /\ session \in Seq([client : Client, kind : {"read", "write"}, deadline : Nat \cup {NoTimeout}])
  /\ m_mapPendingResponseInfo \subseteq Session
  /\ m_mapPendingResponseInfoByDbClient \in [Client -> SUBSET Session]
  /\ m_listTimeout \in Seq(Session)
  /\ timer \in {"idle", "loop", "callback"}
  /\ nCurTime \in Nat
  /\ iter \in Session \cup {End}
  /\ broken \in BOOLEAN
  /\ delivered \in Seq([s : Session, code : ResponseCode \cup {"kRC_TIME_OUT", "kRC_PROTO_ERROR"},
                        sent : ResponseCode \cup {"none"}])
  /\ cancelled \subseteq Session
  /\ entered \in Nat

\* m_listTimeout holds every pending session that can time out, once, and nothing
\* else, and its deadlines never decrease: what the early break of onTimer() and
\* the erase in onMessage() rely on.
TimeoutListExact ==
  /\ InList = {s \in m_mapPendingResponseInfo : Deadline(s) # NoTimeout}
  /\ \A j, k \in DOMAIN m_listTimeout : j < k =>
       /\ m_listTimeout[j] # m_listTimeout[k]
       /\ Deadline(m_listTimeout[j]) <= Deadline(m_listTimeout[k])

\* The index ~CDbClient works from lists exactly the pending sessions of a client,
\* and a client that is gone, its address perhaps used again, owns none of them.
ClientIndexExact ==
  \A c \in Client :
    /\ m_mapPendingResponseInfoByDbClient[c] =
         {s \in m_mapPendingResponseInfo : session[s].client = c}
    /\ c \notin alive => m_mapPendingResponseInfoByDbClient[c] = {}

\* Every session ends at most once and in one way: one callback, or none because
\* its client was destroyed before; until then it is pending.  Late and repeated
\* responses and a timeout racing an answer change nothing about that.
EndsOnce ==
  LET answered == {delivered[k].s : k \in DOMAIN delivered}
  IN  /\ \A j, k \in DOMAIN delivered : j # k => delivered[j].s # delivered[k].s
      /\ answered \cup cancelled \cup m_mapPendingResponseInfo = Session
      /\ answered \cap cancelled = {}
      /\ m_mapPendingResponseInfo \cap (answered \cup cancelled) = {}

\* The iterator onTimer() keeps across a callback stays on the list: the sessions
\* the callback opens do not move it.
IteratorStaysValid == timer # "idle" => IterValid

\* When onTimer() returns, no session that existed when it was entered and was due
\* by then is still pending: neither the early break nor what the callbacks insert
\* makes it skip one.
TimerComplete ==
  [][LeaveTimer => \A s \in m_mapPendingResponseInfo :
       (s <= entered /\ Deadline(s) # NoTimeout) => Deadline(s) > nCurTime]_vars

\* Every request with a timeout ends, even when nothing ever answers (README.md:6).
TimedSessionsEnd ==
  \A s \in 1 .. MaxSession :
    (s \in m_mapPendingResponseInfo /\ Deadline(s) # NoTimeout)
      ~> (s \notin m_mapPendingResponseInfo)

\* "update_r ... operations that need a response" (README.md:6): whoever is
\* answered is told the error code of the response.
CodeReachesCaller ==
  \A k \in DOMAIN delivered :
    delivered[k].sent # "none" => delivered[k].code = delivered[k].sent
=============================================================================
