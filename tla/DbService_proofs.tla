-------------------------- MODULE DbService_proofs --------------------------
(***************************************************************************)
(* Theorems about the client proxy and the thread pool in one process.      *)
(*                                                                          *)
(* The composition implements both components, so that what is proved of    *)
(* each of them alone (DbProxy_proofs, DbThreadMgr_proofs) holds of it too. *)
(* What is left is what relates the two: which session waits for which      *)
(* command, and what the main loop has handed over so far.                  *)
(***************************************************************************)
EXTENDS DbService, SequenceTheorems, TLAPS

PoolThm == INSTANCE DbThreadMgr_proofs WITH
  DeadLinkErrno <- 2006, Caching <- FALSE, Timeout <- Timeout \cup {0}
ProxyThm == INSTANCE DbProxy_proofs WITH
  Kind <- {"read"}, ResponseCode <- {"kRC_OK"},
  DestroyInCallback <- FALSE, DestroyWithNop <- FALSE

-----------------------------------------------------------------------------
(* The two instances of each component are the same, and their assumptions  *)
(* hold.                                                                    *)

\* What the pool assumes of its constants holds of those it is given here.
LEMMA PoolAssumptions ==
  /\ PoolThm!ThreadCountAssumption /\ PoolThm!AssociateIdAssumption
  /\ PoolThm!TimeoutAssumption /\ PoolThm!CachingAssumption /\ PoolThm!BoundAssumption
BY ThreadCountAssumption, RequestAssumption, BoundAssumption
DEF PoolThm!ThreadCountAssumption, PoolThm!AssociateIdAssumption, PoolThm!TimeoutAssumption,
    PoolThm!CachingAssumption, PoolThm!BoundAssumption

\* So does what the proxy assumes.
LEMMA ProxyAssumptions ==
  /\ ProxyThm!TimeoutAssumption /\ ProxyThm!EndAssumption
  /\ ProxyThm!KindAssumption /\ ProxyThm!BoundAssumption
BY RequestAssumption, EndAssumption, BoundAssumption
DEF ProxyThm!TimeoutAssumption, ProxyThm!EndAssumption, ProxyThm!KindAssumption,
    ProxyThm!BoundAssumption

\* The pool of the composition is the one the theorems are about.
LEMMA SamePool ==
  /\ Pool!Init <=> PoolThm!Init
  /\ Pool!Next <=> PoolThm!Next
  /\ Pool!vars = PoolThm!vars
  /\ UNCHANGED Pool!vars <=> UNCHANGED PoolThm!vars
BY
  DEF Pool!Worker, PoolThm!Worker, Pool!clientVars, PoolThm!clientVars, Pool!exitVars,
      PoolThm!exitVars, Pool!resultVars, PoolThm!resultVars, Pool!linkVars,
      PoolThm!linkVars, Pool!vars, PoolThm!vars, Pool!Init, PoolThm!Init, Pool!Route,
      PoolThm!Route, Pool!Push, PoolThm!Push, Pool!Passing, PoolThm!Passing, Pool!Query, PoolThm!Query,
      Pool!FlushCommand, PoolThm!FlushCommand, Pool!QueryFlush, PoolThm!QueryFlush,
      Pool!BroadcastFlush, PoolThm!BroadcastFlush, Pool!GetResultInfo,
      PoolThm!GetResultInfo, Pool!At, PoolThm!At, Pool!Goto, PoolThm!Goto,
      Pool!EnterProcess, PoolThm!EnterProcess, Pool!Sleep, PoolThm!Sleep,
      Pool!WaitTimeout, PoolThm!WaitTimeout, Pool!TakeBatch, PoolThm!TakeBatch,
      Pool!Current, PoolThm!Current, Pool!Handling, PoolThm!Handling, Pool!Advance,
      PoolThm!Advance, Pool!HandleFlush, PoolThm!HandleFlush, Pool!Expired,
      PoolThm!Expired, Pool!Discard, PoolThm!Discard, Pool!Answer, PoolThm!Answer,
      Pool!PickUp, PoolThm!PickUp, Pool!Executing, PoolThm!Executing, Pool!ServeFromCache, PoolThm!ServeFromCache,
      Pool!ServeFromDatabase, PoolThm!ServeFromDatabase, Pool!LostConnection,
      PoolThm!LostConnection, Pool!FinishBatch, PoolThm!FinishBatch, Pool!Exit,
      PoolThm!Exit, Pool!Loop, PoolThm!Loop, Pool!Thread, PoolThm!Thread,
      Pool!Release, PoolThm!Release, Pool!SetQuit, PoolThm!SetQuit, Pool!Join,
      PoolThm!Join, Pool!LinkDown, PoolThm!LinkDown, Pool!Tick, PoolThm!Tick,
      Pool!Next, PoolThm!Next, Pool!kMET_LostConnection, PoolThm!kMET_LostConnection

\* The same for the proxy.
LEMMA SameProxy ==
  /\ Proxy!Init <=> ProxyThm!Init
  /\ Proxy!Next <=> ProxyThm!Next
  /\ Proxy!vars = ProxyThm!vars
  /\ UNCHANGED Proxy!vars <=> UNCHANGED ProxyThm!vars
BY
  DEF Proxy!timerVars, ProxyThm!timerVars, Proxy!mapVars, ProxyThm!mapVars,
      Proxy!vars, ProxyThm!vars, Proxy!Session, ProxyThm!Session, Proxy!Init,
      ProxyThm!Init, Proxy!Deadline, ProxyThm!Deadline, Proxy!LowerBound,
      ProxyThm!LowerBound, Proxy!InsertAfter, ProxyThm!InsertAfter, Proxy!Without,
      ProxyThm!Without, Proxy!InList, ProxyThm!InList, Proxy!Position,
      ProxyThm!Position, Proxy!NextOf, ProxyThm!NextOf, Proxy!CallerRuns,
      ProxyThm!CallerRuns, Proxy!Create, ProxyThm!Create, Proxy!Open, ProxyThm!Open,
      Proxy!Passing, ProxyThm!Passing, Proxy!Request, ProxyThm!Request, Proxy!nop, ProxyThm!nop, Proxy!Destroy,
      ProxyThm!Destroy, Proxy!Finish, ProxyThm!Finish, Proxy!CodeOf, ProxyThm!CodeOf,
      Proxy!onMessage, ProxyThm!onMessage, Proxy!EnterTimer, ProxyThm!EnterTimer,
      Proxy!IterValid, ProxyThm!IterValid, Proxy!InLoop, ProxyThm!InLoop,
      Proxy!Expire, ProxyThm!Expire, Proxy!CallbackReturns, ProxyThm!CallbackReturns,
      Proxy!LeaveTimer, ProxyThm!LeaveTimer, Proxy!UseDangling, ProxyThm!UseDangling,
      Proxy!Tick, ProxyThm!Tick, Proxy!onTimer, ProxyThm!onTimer, Proxy!Next,
      ProxyThm!Next

-----------------------------------------------------------------------------
(* Every step of the composition is a step of each component.               *)

\* The pool's threads and release() leave the clock alone.
LEMMA PoolKeepsClock ==
  ASSUME NEW w \in Worker, Pool!Thread(w) \/ Pool!SetQuit(w) \/ Pool!Join(w)
  PROVE  now' = now
<1>1. ASSUME Pool!Thread(w)
      PROVE  now' = now
  <2>1. CASE Pool!EnterProcess(w) \/ Pool!Sleep(w) \/ Pool!WaitTimeout(w) \/ Pool!TakeBatch(w)
    BY <2>1 DEF Pool!EnterProcess, Pool!Sleep, Pool!WaitTimeout, Pool!TakeBatch
  <2>2. CASE Pool!HandleFlush(w) \/ Pool!Discard(w)
    BY <2>2 DEF Pool!HandleFlush, Pool!Discard, Pool!Advance
  <2>3. CASE Pool!ServeFromCache(w) \/ Pool!ServeFromDatabase(w)
    BY <2>3 DEF Pool!ServeFromCache, Pool!ServeFromDatabase, Pool!Answer, Pool!Advance
  <2>4. CASE Pool!PickUp(w) \/ Pool!LostConnection(w)
    <3>1. CASE Pool!PickUp(w)
      BY <3>1 DEF Pool!PickUp
    <3>2. CASE Pool!LostConnection(w)
      BY <3>2 DEF Pool!LostConnection
    <3> QED
      BY <2>4, <3>1, <3>2
  <2>5. CASE Pool!FinishBatch(w) \/ Pool!Exit(w) \/ Pool!Loop(w)
    BY <2>5 DEF Pool!FinishBatch, Pool!Exit, Pool!Loop
  <2> QED
    BY <1>1, <2>1, <2>2, <2>3, <2>4, <2>5 DEF Pool!Thread
<1>2. ASSUME Pool!SetQuit(w) \/ Pool!Join(w)
      PROVE  now' = now
  BY <1>2 DEF Pool!SetQuit, Pool!Join
<1> QED
  BY <1>1, <1>2

\* What the caller does to the proxy is a step of the proxy; the rest leaves it alone.
LEMMA StepOfProxy ==
  ASSUME m_mapPendingResponseInfo \subseteq Session, [Next]_vars
  PROVE  [Proxy!Next]_(Proxy!vars)
<1> USE DEF Proxy!Session, Session
<1>1. ASSUME now' = now, UNCHANGED proxyVars
      PROVE  UNCHANGED Proxy!vars
  BY <1>1 DEF proxyVars, Proxy!vars, Proxy!mapVars, Proxy!timerVars
<1>2. ASSUME NEW c \in Client, Create(c) \/ Destroy(c)
      PROVE  Proxy!Next
  BY <1>2 DEF Create, Destroy, Proxy!Next
<1>3. ASSUME NEW c \in Client, NEW key \in AssociateId, nop(c, key)
      PROVE  Proxy!Next
  BY <1>3 DEF nop, Proxy!Next
<1>4. ASSUME NEW c \in Client, NEW key \in AssociateId, NEW timeout \in Timeout,
             Request(c, key, timeout)
      PROVE  Proxy!Next
  BY <1>4 DEF Request, Proxy!Next
<1>5. ASSUME NEW c \in Client, NEW key \in AssociateId, Write(c, key)
      PROVE  UNCHANGED Proxy!vars
  BY <1>1, <1>5 DEF Write
<1>6. CASE Fetch
  BY <1>1, <1>6 DEF Fetch, Pool!GetResultInfo
<1>7. CASE Deliver
  <2> DEFINE s == SessionOf(received[handled + 1])
  <2>1. CASE Proxy!onMessage(s, "kRC_OK")
    <3>1. s \in Session
      BY <2>1 DEF Proxy!onMessage
    <3> QED
      BY <2>1, <3>1 DEF Proxy!Next
  <2>2. CASE UNCHANGED <<now, proxyVars>>
    BY <1>1, <2>2
  <2> QED
    BY <1>7, <2>1, <2>2 DEF Deliver
<1>8. CASE EnterTimer \/ Timer
  BY <1>8 DEF EnterTimer, Timer, Proxy!Next, Proxy!onTimer
<1>9. CASE Release
  BY <1>1, <1>9 DEF Release, Pool!Release
<1>10. ASSUME NEW w \in Worker, Thread(w) \/ JoinThread(w)
       PROVE  UNCHANGED Proxy!vars
  BY <1>1, <1>10, PoolKeepsClock DEF Thread, JoinThread
<1>11. CASE Tick
  BY <1>11 DEF Tick, Proxy!Next
<1>12. CASE UNCHANGED vars
  BY <1>1, <1>12 DEF vars
<1> QED
  BY <1>2, <1>3, <1>4, <1>5, <1>6, <1>7, <1>8, <1>9, <1>10, <1>11, <1>12
  DEF Next, UpdateStep

\* The proxy leaves the clock alone, but for its tick.
LEMMA StepOfPool ==
  ASSUME [Next]_vars
  PROVE  [Pool!Next]_(Pool!vars)
<1> USE DEF Pool!Worker, Worker
<1>1. ASSUME now' = now, UNCHANGED poolVars
      PROVE  UNCHANGED Pool!vars
  BY <1>1 DEF poolVars, Pool!vars, Pool!clientVars, Pool!linkVars, Pool!resultVars, Pool!exitVars
<1>2. ASSUME NEW c \in Client, Create(c) \/ Destroy(c)
      PROVE  UNCHANGED Pool!vars
  BY <1>1, <1>2 DEF Create, Destroy, Proxy!Create, Proxy!Destroy
<1>3. ASSUME NEW c \in Client, NEW key \in AssociateId, nop(c, key) \/ Write(c, key)
      PROVE  Pool!Next
  BY <1>3 DEF nop, Write, Pool!Next
<1>4. ASSUME NEW c \in Client, NEW key \in AssociateId, NEW timeout \in Timeout,
             Request(c, key, timeout)
      PROVE  Pool!Next
  BY <1>4 DEF Request, Pool!Next
<1>5. CASE Fetch
  BY <1>1, <1>5 DEF Fetch, Pool!Next
<1>6. CASE Deliver
  BY <1>1, <1>6 DEF Deliver, Proxy!onMessage
<1>7. CASE EnterTimer \/ Timer
  BY <1>1, <1>7 DEF EnterTimer, Timer, Proxy!EnterTimer, Proxy!Expire, Proxy!CallbackReturns,
                    Proxy!LeaveTimer
<1>8. CASE Release
  BY <1>8 DEF Release, Pool!Next
<1>9. ASSUME NEW w \in Worker, Thread(w) \/ JoinThread(w)
      PROVE  Pool!Next
  BY <1>9 DEF Thread, JoinThread, Pool!Next
<1>10. CASE Tick
  BY <1>10 DEF Tick, Pool!Next, Pool!Tick, Proxy!Tick, poolVars, Pool!clientVars,
               Pool!linkVars, Pool!resultVars, Pool!exitVars
<1>11. CASE UNCHANGED vars
  BY <1>1, <1>11 DEF vars
<1> QED
  BY <1>2, <1>3, <1>4, <1>5, <1>6, <1>7, <1>8, <1>9, <1>10, <1>11 DEF Next, UpdateStep

\* The invariants of the components.
ProxyInv == ProxyThm!TimerInv /\ ProxyThm!HistoryType
PoolInv  == PoolThm!TypeOK /\ PoolThm!OrderInv

\* The pending sessions were opened.
LEMMA PendingExist ==
  ASSUME ProxyInv
  PROVE  m_mapPendingResponseInfo \subseteq Session
BY DEF ProxyInv, ProxyThm!TimerInv, ProxyThm!SessionInv, ProxyThm!SessionsOK,
       ProxyThm!Session, Session

\* What is proved of the proxy alone is kept by every step of the composition ...
LEMMA ProxyStep == ProxyInv /\ [Next]_vars => ProxyInv'
<1> SUFFICES ASSUME ProxyInv, [Next]_vars PROVE ProxyInv'
  OBVIOUS
<1>1. [ProxyThm!Next]_(ProxyThm!vars)
  <2>1. Proxy!Next \/ UNCHANGED Proxy!vars
    BY StepOfProxy, PendingExist
  <2> QED
    BY <2>1, SameProxy
<1>2. ProxyThm!TimerInv /\ [ProxyThm!Next]_(ProxyThm!vars) => ProxyThm!TimerInv'
  BY ProxyThm!TimerStep, ProxyAssumptions DEF ProxyThm!TimerStep
<1>3. ASSUME ProxyThm!TimerInv, ProxyThm!TimerInv', ProxyThm!HistoryType
      PROVE  ProxyThm!HistoryType'
  BY <1>1, <1>3, ProxyThm!HistoryStep, ProxyAssumptions DEF ProxyThm!HistoryStep
<1> QED
  BY <1>1, <1>2, <1>3 DEF ProxyInv

\* ... and so is what is proved of the pool.
LEMMA PoolStep == PoolInv /\ [Next]_vars => PoolInv'
<1> SUFFICES ASSUME PoolInv, [Next]_vars PROVE PoolInv'
  OBVIOUS
<1>1. [PoolThm!Next]_(PoolThm!vars)
  <2>1. Pool!Next \/ UNCHANGED Pool!vars
    BY StepOfPool
  <2> QED
    BY <2>1, SamePool
<1>2. PoolThm!TypeOK /\ [PoolThm!Next]_(PoolThm!vars) => PoolThm!TypeOK'
  BY PoolThm!NextType, PoolAssumptions DEF PoolThm!NextType
<1>3. ASSUME PoolThm!TypeOK, PoolThm!OrderInv PROVE PoolThm!OrderInv'
  BY <1>1, <1>3, PoolThm!OrderStep, PoolAssumptions DEF PoolThm!OrderStep
<1> QED
  BY <1>1, <1>2, <1>3 DEF PoolInv

\* At the start both hold.
LEMMA InitComponents == Init => ProxyInv /\ PoolInv
<1> SUFFICES ASSUME Init PROVE ProxyInv /\ PoolInv
  OBVIOUS
<1>1. ProxyThm!Init /\ PoolThm!Init
  BY SameProxy, SamePool DEF Init
<1>2. ProxyThm!TimerInv
  BY <1>1, ProxyThm!InitTimer, ProxyAssumptions DEF ProxyThm!InitTimer
<1>3. ProxyThm!HistoryType
  <2>1. delivered = << >> /\ broken = FALSE
    BY <1>1 DEF ProxyThm!Init
  <2>2. << >> \in Seq(ProxyThm!Delivery)
    OBVIOUS
  <2> QED
    BY <2>1, <2>2, Zenon DEF ProxyThm!HistoryType
<1>4. PoolThm!TypeOK
  BY <1>1, PoolThm!InitType, PoolAssumptions DEF PoolThm!InitType
<1>5. PoolThm!OrderInv
  BY <1>1, PoolThm!InitOrder, PoolAssumptions DEF PoolThm!InitOrder
<1> QED
  BY <1>2, <1>3, <1>4, <1>5 DEF ProxyInv, PoolInv

\* What the two say of the state they share with the main loop.
Facts ==
  /\ now \in Nat
  /\ session \in Seq(ProxyThm!SessionType) /\ m_mapPendingResponseInfo \subseteq Session
  /\ delivered \in Seq(ProxyThm!Delivery) /\ \A k \in DOMAIN delivered : delivered[k].s \in Session
  /\ command \in Seq(PoolThm!Command) /\ received \in Seq(Nat) /\ m_listResultInfo \in Seq(Nat)
  /\ \A i \in DOMAIN received : received[i] \in DOMAIN command /\ command[received[i]].session

\* They follow from the invariants.
LEMMA ComponentFacts ==
  ASSUME ProxyInv, PoolInv
  PROVE  Facts
<1>1. now \in Nat /\ session \in Seq(ProxyThm!SessionType) /\ m_mapPendingResponseInfo \subseteq Session
  BY DEF ProxyInv, ProxyThm!TimerInv, ProxyThm!SessionInv, ProxyThm!SessionsOK,
         ProxyThm!Session, Session
<1>2. delivered \in Seq(ProxyThm!Delivery)
  BY DEF ProxyInv, ProxyThm!HistoryType
<1>3. \A k \in DOMAIN delivered : delivered[k].s \in Session
  <2>1. \A k \in DOMAIN delivered : delivered[k] \in ProxyThm!Delivery
    BY <1>2, ElementOfSeq, LenProperties
  <2> QED
    BY <2>1 DEF ProxyThm!Delivery, ProxyThm!Session, Session
<1>4. command \in Seq(PoolThm!Command) /\ received \in Seq(Nat) /\ m_listResultInfo \in Seq(Nat)
  BY DEF PoolInv, PoolThm!TypeOK
<1>5. ASSUME NEW i \in DOMAIN received
      PROVE  received[i] \in DOMAIN command /\ command[received[i]].session
  <2>1. i \in DOMAIN PoolThm!Answers /\ PoolThm!Answers[i] = received[i]
    BY <1>4 DEF PoolThm!Answers
  <2> QED
    BY <2>1 DEF PoolInv, PoolThm!OrderInv, PoolThm!AnswerInv
<1> QED
  BY <1>1, <1>2, <1>3, <1>4, <1>5 DEF Facts

-----------------------------------------------------------------------------
(* What relates the two sides.                                              *)

\* update() is inside onTimer() exactly when the proxy is, and it gets there only
\* after the last answer it fetched.
LoopInv ==
  /\ update \in {"idle", "messages", "timer"}
  /\ handled \in 0 .. Len(received)
  /\ timer # "idle" <=> update = "timer"
  /\ update # "messages" => handled = Len(received)

\* Who waits has its own command, and the commands are in the order of the sessions.
CommandOfInv ==
  /\ commandOf \in Seq(Nat) /\ Len(commandOf) = Len(session)
  /\ \A s \in Session : commandOf[s] \in DOMAIN command /\ command[commandOf[s]].session
  /\ \A s, t \in Session : s < t => commandOf[s] < commandOf[t]
  /\ \A n \in DOMAIN command :
       /\ command[n].worker = Pool!Route(command[n].key)
       /\ command[n].session => \E s \in Session : commandOf[s] = n

\* The pool gives up no later than the caller is told.
DeadlineInv ==
  \A s \in Session :
    Proxy!Deadline(s) # NoTimeout => command[commandOf[s]].nTimeout <= Proxy!Deadline(s)

\* An answer that was handed over ended its session, and whoever was answered was
\* answered by one of those.
HandledInv ==
  /\ \A i \in 1 .. handled : \A s \in Session :
       commandOf[s] = received[i] => s \notin m_mapPendingResponseInfo
  /\ \A k \in DOMAIN delivered : Answered(k) =>
       \E i \in 1 .. handled : received[i] = commandOf[delivered[k].s]

\* A caller is told kRC_TIME_OUT when its deadline has passed.
ToldInv ==
  /\ nCurTime <= now
  /\ \A k \in DOMAIN delivered : ~Answered(k) =>
       /\ Proxy!Deadline(delivered[k].s) # NoTimeout
       /\ Proxy!Deadline(delivered[k].s) <= now

-----------------------------------------------------------------------------
(* What the steps do to the sessions, the commands and the answers.         *)

\* Nothing, or ~CDbClient cancels sessions.
QuietStep ==
  /\ m_mapPendingResponseInfo' \subseteq m_mapPendingResponseInfo
  /\ UNCHANGED <<session, command, commandOf, received, handled, delivered>>

\* A request without a session.
WriteStep ==
  /\ \E c : /\ command' = Append(command, c)
            /\ c.worker = Pool!Route(c.key) /\ ~c.session
  /\ UNCHANGED <<session, m_mapPendingResponseInfo, commandOf, received, handled, delivered>>

\* A request with a session.
AskStep ==
  /\ \E r : /\ session' = Append(session, r)
            /\ \E c : /\ command' = Append(command, c)
                      /\ c.worker = Pool!Route(c.key) /\ c.session
                      /\ r.deadline # NoTimeout => c.nTimeout <= r.deadline
  /\ commandOf' = Append(commandOf, Len(command'))
  /\ m_mapPendingResponseInfo' = m_mapPendingResponseInfo \cup {Len(session')}
  /\ UNCHANGED <<received, handled, delivered>>

\* More answers are fetched.
FetchStep ==
  /\ received' = received \o m_listResultInfo
  /\ UNCHANGED <<session, m_mapPendingResponseInfo, command, commandOf, handled, delivered>>

\* One answer is handed over.
DeliverStep ==
  LET s == SessionOf(received[handled + 1])
  IN  /\ handled < Len(received) /\ handled' = handled + 1
      /\ m_mapPendingResponseInfo' = m_mapPendingResponseInfo \ {s}
      /\ \/ delivered' = delivered
         \/ \E code : delivered' = Append(delivered, [s |-> s, code |-> code, sent |-> "kRC_OK"])
      /\ UNCHANGED <<session, command, commandOf, received>>

\* A session that is due times out.
ExpireStep ==
  /\ \E s \in Session :
       /\ Proxy!Deadline(s) # NoTimeout /\ Proxy!Deadline(s) <= nCurTime
       /\ \E code : delivered' = Append(delivered, [s |-> s, code |-> code, sent |-> "none"])
  /\ m_mapPendingResponseInfo' \subseteq m_mapPendingResponseInfo
  /\ UNCHANGED <<session, command, commandOf, received, handled>>

\* What a request pushes: a command for the worker of its key.
LEMMA QueryPushes ==
  ASSUME NEW key, NEW withSession, NEW timeout, Pool!Query(key, withSession, timeout)
  PROVE  \E c : /\ command' = Append(command, c)
                /\ c.worker = Pool!Route(c.key) /\ c.session = withSession
                /\ UNCHANGED received
BY DEF Pool!Query, Pool!Push, Pool!resultVars

\* The threads and release() push nothing and fetch nothing.
LEMMA ThreadsPushNothing ==
  ASSUME NEW w \in Worker, Pool!Thread(w) \/ Pool!SetQuit(w) \/ Pool!Join(w)
  PROVE  command' = command /\ received' = received
<1> USE DEF Pool!clientVars, Pool!resultVars
<1>1. ASSUME Pool!Thread(w)
      PROVE  command' = command /\ received' = received
  <2>1. CASE Pool!EnterProcess(w) \/ Pool!Sleep(w) \/ Pool!WaitTimeout(w) \/ Pool!TakeBatch(w)
    BY <2>1 DEF Pool!EnterProcess, Pool!Sleep, Pool!WaitTimeout, Pool!TakeBatch
  <2>2. CASE Pool!HandleFlush(w) \/ Pool!Discard(w)
    BY <2>2 DEF Pool!HandleFlush, Pool!Discard, Pool!Advance
  <2>3. CASE Pool!ServeFromCache(w) \/ Pool!ServeFromDatabase(w)
    BY <2>3 DEF Pool!ServeFromCache, Pool!ServeFromDatabase, Pool!Answer, Pool!Advance
  <2>4. CASE Pool!PickUp(w) \/ Pool!LostConnection(w)
    <3>1. CASE Pool!PickUp(w)
      BY <3>1 DEF Pool!PickUp
    <3>2. CASE Pool!LostConnection(w)
      BY <3>2 DEF Pool!LostConnection
    <3> QED
      BY <2>4, <3>1, <3>2
  <2>5. CASE Pool!FinishBatch(w) \/ Pool!Exit(w) \/ Pool!Loop(w)
    BY <2>5 DEF Pool!FinishBatch, Pool!Exit, Pool!Loop
  <2> QED
    BY <1>1, <2>1, <2>2, <2>3, <2>4, <2>5 DEF Pool!Thread
<1>2. ASSUME Pool!SetQuit(w) \/ Pool!Join(w)
      PROVE  command' = command /\ received' = received
  BY <1>2 DEF Pool!SetQuit, Pool!Join
<1> QED
  BY <1>1, <1>2

\* Half a timeout, counted from the next second at the latest, ends within it.
LEMMA HalfBelow ==
  \A t, n \in Nat : \A m \in {n, n + 1} : (IF t = 0 THEN 0 ELSE t \div 2 + m) <= n + t
OBVIOUS

\* Every step of the composition is one of these.
LEMMA StepKinds ==
  ASSUME ProxyInv, Facts, [Next]_vars
  PROVE  \/ QuietStep \/ WriteStep \/ AskStep \/ FetchStep \/ DeliverStep \/ ExpireStep
<1> USE DEF proxyVars, poolVars, loopVars
<1>1. ASSUME NEW c \in Client, Create(c)
      PROVE  QuietStep
  BY <1>1 DEF Create, Proxy!Create, QuietStep, Proxy!mapVars
<1>2. ASSUME NEW c \in Client, Destroy(c)
      PROVE  QuietStep
  BY <1>2 DEF Destroy, Proxy!Destroy, QuietStep
<1>3. ASSUME NEW c \in Client, NEW key \in AssociateId, nop(c, key)
      PROVE  AskStep
  <2>1. UNCHANGED <<handled, delivered>> /\ commandOf' = Append(commandOf, Len(command'))
    BY <1>3 DEF nop, Proxy!nop, Proxy!Open
  <2>2. /\ session' = Append(session, [client |-> c, kind |-> "write", deadline |-> NoTimeout])
        /\ m_mapPendingResponseInfo' = m_mapPendingResponseInfo \cup {Len(session')}
    BY <1>3 DEF nop, Proxy!nop, Proxy!Open
  <2>3. Pool!Query(key, TRUE, 0)
    BY <1>3 DEF nop
  <2>4. PICK d : /\ command' = Append(command, d)
                 /\ d.worker = Pool!Route(d.key) /\ d.session /\ UNCHANGED received
    BY <2>3, QueryPushes
  <2> QED
    BY <2>1, <2>2, <2>4 DEF AskStep
<1>4. ASSUME NEW c \in Client, NEW key \in AssociateId, NEW timeout \in Timeout,
             Request(c, key, timeout)
      PROVE  AskStep
  <2>1. UNCHANGED <<handled, delivered>> /\ commandOf' = Append(commandOf, Len(command'))
    BY <1>4 DEF Request, Proxy!Request, Proxy!Open
  <2>2. /\ session' = Append(session, [client |-> c, kind |-> "read", deadline |-> now + timeout])
        /\ m_mapPendingResponseInfo' = m_mapPendingResponseInfo \cup {Len(session')}
    BY <1>4 DEF Request, Proxy!Request, Proxy!Open
  <2>3. Pool!Query(key, TRUE, timeout)
    BY <1>4 DEF Request
  <2>4. PICK d : /\ command' = Append(command, d)
                 /\ d.worker = Pool!Route(d.key) /\ d.session = TRUE
                 /\ d.nTimeout = IF timeout = 0 THEN 0 ELSE timeout \div 2 + now'
                 /\ UNCHANGED received
    BY <2>3 DEF Pool!Query, Pool!Push, Pool!resultVars
  <2>5. d.nTimeout <= now + timeout
    <3>1. timeout \in Nat /\ now \in Nat /\ now' \in {now, now + 1}
      BY <1>4, RequestAssumption DEF Facts, Request, Proxy!Request, Proxy!Passing
    <3>2. (IF timeout = 0 THEN 0 ELSE timeout \div 2 + now') <= now + timeout
      BY <3>1, HalfBelow
    <3> QED
      BY <2>4, <3>2
  <2> QED
    BY <2>1, <2>2, <2>4, <2>5 DEF AskStep
<1>5. ASSUME NEW c \in Client, NEW key \in AssociateId, Write(c, key)
      PROVE  WriteStep
  <2>1. UNCHANGED <<session, m_mapPendingResponseInfo, commandOf, handled, delivered>>
    BY <1>5 DEF Write
  <2>2. Pool!Query(key, FALSE, 0)
    BY <1>5 DEF Write
  <2>3. PICK d : /\ command' = Append(command, d)
                 /\ d.worker = Pool!Route(d.key) /\ d.session = FALSE /\ UNCHANGED received
    BY <2>2, QueryPushes
  <2> QED
    BY <2>1, <2>3 DEF WriteStep
<1>6. CASE Fetch
  <2>1. UNCHANGED <<session, m_mapPendingResponseInfo, commandOf, handled, delivered>>
    BY <1>6 DEF Fetch
  <2>2. CASE Pool!GetResultInfo
    BY <2>1, <2>2 DEF Pool!GetResultInfo, FetchStep, Pool!clientVars
  <2>3. CASE m_listResultInfo = << >> /\ UNCHANGED <<now, poolVars>>
    BY <2>1, <2>3 DEF QuietStep
  <2> QED
    BY <1>6, <2>2, <2>3 DEF Fetch, QuietStep
<1>7. CASE Deliver
  <2> DEFINE s == SessionOf(received[handled + 1])
  <2>1. /\ handled < Len(received) /\ handled' = handled + 1
        /\ UNCHANGED <<command, commandOf, received>>
    BY <1>7 DEF Deliver
  <2>2. CASE Proxy!onMessage(s, "kRC_OK")
    BY <2>1, <2>2 DEF DeliverStep, Proxy!onMessage, Proxy!Finish
  <2>3. CASE s \notin m_mapPendingResponseInfo /\ UNCHANGED <<now, proxyVars>>
    BY <2>1, <2>3 DEF DeliverStep
  <2> QED
    BY <1>7, <2>2, <2>3 DEF Deliver
<1>8. CASE EnterTimer
  BY <1>8 DEF EnterTimer, Proxy!EnterTimer, QuietStep, Proxy!mapVars
<1>9. CASE Timer
  <2>1. UNCHANGED <<command, commandOf, received, handled>>
    BY <1>9 DEF Timer
  <2>2. CASE Proxy!CallbackReturns \/ Proxy!LeaveTimer
    BY <2>1, <2>2 DEF Proxy!CallbackReturns, Proxy!LeaveTimer, QuietStep, Proxy!mapVars
  <2>3. CASE Proxy!Expire
    <3>1. session' = session /\ Proxy!Deadline(iter) <= nCurTime
      BY <2>3 DEF Proxy!Expire
    <3>2. iter \in Session /\ Proxy!Deadline(iter) # NoTimeout
      <4>1. iter \in ProxyThm!InList
        BY <2>3 DEF Proxy!Expire, Proxy!IterValid, Proxy!InList, ProxyThm!InList
      <4>2. iter \in m_mapPendingResponseInfo /\ ProxyThm!Deadline(iter) # NoTimeout
        BY <4>1 DEF ProxyInv, ProxyThm!TimerInv, ProxyThm!ListInv, ProxyThm!Timed
      <4> QED
        BY <4>2 DEF Facts, Proxy!Deadline, ProxyThm!Deadline
    <3>3. CASE iter \in m_mapPendingResponseInfo
      <4>1. /\ delivered' = Append(delivered, [s |-> iter, code |-> "kRC_TIME_OUT", sent |-> "none"])
            /\ m_mapPendingResponseInfo' \subseteq m_mapPendingResponseInfo
        BY <2>3, <3>3 DEF Proxy!Expire, Proxy!Finish
      <4> QED
        BY <2>1, <3>1, <3>2, <4>1 DEF ExpireStep
    <3>4. CASE iter \notin m_mapPendingResponseInfo
      BY <2>1, <2>3, <3>4 DEF Proxy!Expire, QuietStep, Proxy!mapVars
    <3> QED
      BY <3>3, <3>4
  <2> QED
    BY <1>9, <2>2, <2>3 DEF Timer
<1>10. CASE Release
  BY <1>10 DEF Release, Pool!Release, QuietStep, Pool!clientVars, Pool!resultVars
<1>11. ASSUME NEW w \in Worker, Thread(w) \/ JoinThread(w)
       PROVE  QuietStep
  BY <1>11, ThreadsPushNothing DEF Thread, JoinThread, QuietStep
<1>12. CASE Tick \/ UNCHANGED vars
  BY <1>12 DEF Tick, Proxy!Tick, vars, QuietStep, Proxy!mapVars
<1> QED
  BY <1>1, <1>2, <1>3, <1>4, <1>5, <1>6, <1>7, <1>8, <1>9, <1>10, <1>11, <1>12
  DEF Next, UpdateStep

-----------------------------------------------------------------------------
(* The invariants are inductive.                                            *)

\* Of the loop: what the steps do to update and to timer.
LEMMA LoopStep ==
  ASSUME LoopInv, Facts, [Next]_vars
  PROVE  LoopInv'
<1> USE DEF LoopInv
<1> USE DEF proxyVars, poolVars, loopVars
<1>1. ASSUME UNCHANGED <<update, handled, received, timer>>
      PROVE  LoopInv'
  BY <1>1
<1>2. ASSUME NEW c \in Client, Create(c) \/ Destroy(c)
      PROVE  LoopInv'
  BY <1>1, <1>2 DEF Create, Destroy, Proxy!Create, Proxy!Destroy, Proxy!timerVars
<1>3. ASSUME NEW c \in Client, NEW key \in AssociateId, nop(c, key) \/ Write(c, key)
      PROVE  LoopInv'
  BY <1>1, <1>3 DEF nop, Write, Proxy!nop, Proxy!Open, Proxy!timerVars, Pool!Query, Pool!Push,
                    Pool!resultVars
<1>4. ASSUME NEW c \in Client, NEW key \in AssociateId, NEW timeout \in Timeout,
             Request(c, key, timeout)
      PROVE  LoopInv'
  BY <1>1, <1>4 DEF Request, Proxy!Request, Proxy!Open, Proxy!timerVars, Pool!Query, Pool!Push,
                    Pool!resultVars
<1>5. CASE Fetch
  <2>1. update = "idle" /\ update' = "messages" /\ handled' = handled /\ timer' = timer
    BY <1>5 DEF Fetch
  <2>2. received' = received \/ received' = received \o m_listResultInfo
    BY <1>5 DEF Fetch, Pool!GetResultInfo
  <2>3. Len(received) \in Nat /\ Len(received') \in Nat /\ Len(received) <= Len(received')
    BY <2>2 DEF Facts
  <2> QED
    BY <2>1, <2>3
<1>6. CASE Deliver
  <2>1. /\ update = "messages" /\ update' = update /\ received' = received
        /\ handled < Len(received) /\ handled' = handled + 1
    BY <1>6 DEF Deliver
  <2>2. timer' = timer
    BY <1>6 DEF Deliver, Proxy!onMessage, Proxy!timerVars
  <2>3. Len(received) \in Nat
    BY DEF Facts
  <2> QED
    BY <2>1, <2>2, <2>3
<1>7. CASE EnterTimer
  BY <1>7 DEF EnterTimer, Proxy!EnterTimer
<1>8. CASE Timer
  <2>1. update = "timer" /\ UNCHANGED <<received, handled>>
    BY <1>8 DEF Timer
  <2>2. CASE Proxy!Expire \/ Proxy!CallbackReturns
    <3>1. update' = update
      BY <1>8, <2>2 DEF Timer, Proxy!Expire, Proxy!CallbackReturns, Proxy!LeaveTimer
    <3> QED
      BY <2>1, <2>2, <3>1 DEF Proxy!Expire, Proxy!CallbackReturns, Proxy!InLoop
  <2>3. CASE Proxy!LeaveTimer /\ update' = "idle"
    BY <2>1, <2>3 DEF Proxy!LeaveTimer
  <2> QED
    BY <1>8, <2>2, <2>3 DEF Timer
<1>9. CASE Release
  BY <1>1, <1>9 DEF Release, Pool!Release, Pool!resultVars
<1>10. ASSUME NEW w \in Worker, Thread(w) \/ JoinThread(w)
       PROVE  LoopInv'
  BY <1>1, <1>10, ThreadsPushNothing DEF Thread, JoinThread
<1>11. CASE Tick \/ UNCHANGED vars
  BY <1>1, <1>11 DEF Tick, Proxy!Tick, vars, Proxy!timerVars
<1> QED
  BY <1>2, <1>3, <1>4, <1>5, <1>6, <1>7, <1>8, <1>9, <1>10, <1>11 DEF Next, UpdateStep

\* What a new session and its command add.
LEMMA AskFacts ==
  ASSUME Facts, CommandOfInv, AskStep
  PROVE  /\ Session' = Session \cup {Len(session) + 1} /\ Len(session) + 1 \notin Session
         /\ Session = 1 .. Len(session) /\ Len(session) \in Nat
         /\ DOMAIN command' = DOMAIN command \cup {Len(command) + 1}
         /\ DOMAIN command = 1 .. Len(command) /\ Len(command) \in Nat
         /\ \A s \in Session : session'[s] = session[s] /\ commandOf'[s] = commandOf[s]
         /\ commandOf'[Len(session) + 1] = Len(command) + 1
         /\ commandOf' \in Seq(Nat) /\ Len(commandOf') = Len(session')
         /\ \A n \in DOMAIN command : command'[n] = command[n]
         /\ \E r : /\ session'[Len(session) + 1] = r
                   /\ \E c : /\ command'[Len(command) + 1] = c
                             /\ c.worker = Pool!Route(c.key) /\ c.session
                             /\ r.deadline # NoTimeout => c.nTimeout <= r.deadline
         /\ m_mapPendingResponseInfo' = m_mapPendingResponseInfo \cup {Len(session) + 1}
<1>1. /\ Session = 1 .. Len(session) /\ Len(session) \in Nat
      /\ DOMAIN command = 1 .. Len(command) /\ Len(command) \in Nat
      /\ commandOf \in Seq(Nat) /\ Len(commandOf) = Len(session)
  BY DEF Facts, Session, CommandOfInv
<1>2. PICK r : /\ session' = Append(session, r)
               /\ \E c : /\ command' = Append(command, c)
                         /\ c.worker = Pool!Route(c.key) /\ c.session
                         /\ r.deadline # NoTimeout => c.nTimeout <= r.deadline
  BY DEF AskStep
<1>3. PICK c : /\ command' = Append(command, c)
               /\ c.worker = Pool!Route(c.key) /\ c.session
               /\ r.deadline # NoTimeout => c.nTimeout <= r.deadline
  BY <1>2
<1>4. /\ Session' = 1 .. Len(session) + 1 /\ Len(session') = Len(session) + 1
      /\ \A s \in Session : session'[s] = session[s]
      /\ session'[Len(session) + 1] = r
  BY <1>1, <1>2 DEF Facts, Session
<1>5. /\ DOMAIN command' = 1 .. Len(command) + 1 /\ Len(command') = Len(command) + 1
      /\ \A n \in DOMAIN command : command'[n] = command[n]
      /\ command'[Len(command) + 1] = c
  BY <1>1, <1>3 DEF Facts
<1>6. commandOf' = Append(commandOf, Len(command) + 1)
  BY <1>5 DEF AskStep
<1>7. /\ commandOf' \in Seq(Nat) /\ Len(commandOf') = Len(session')
      /\ \A s \in Session : commandOf'[s] = commandOf[s]
      /\ commandOf'[Len(session) + 1] = Len(command) + 1
  BY <1>1, <1>4, <1>6
<1>8. m_mapPendingResponseInfo' = m_mapPendingResponseInfo \cup {Len(session) + 1}
  BY <1>4 DEF AskStep
<1>9. Session' = Session \cup {Len(session) + 1} /\ Len(session) + 1 \notin Session
  BY <1>1, <1>4
<1>10. DOMAIN command' = DOMAIN command \cup {Len(command) + 1}
  BY <1>1, <1>5
<1> QED
  BY <1>1, <1>3, <1>4, <1>5, <1>7, <1>8, <1>9, <1>10

\* What a command without a session adds.
LEMMA WriteFacts ==
  ASSUME Facts, WriteStep
  PROVE  /\ DOMAIN command' = DOMAIN command \cup {Len(command) + 1}
         /\ \A n \in DOMAIN command : command'[n] = command[n]
         /\ \E c : /\ command'[Len(command) + 1] = c
                   /\ c.worker = Pool!Route(c.key) /\ ~c.session
         /\ UNCHANGED <<session, m_mapPendingResponseInfo, commandOf>>
<1>1. DOMAIN command = 1 .. Len(command) /\ Len(command) \in Nat
  BY DEF Facts
<1>2. PICK c : command' = Append(command, c) /\ c.worker = Pool!Route(c.key) /\ ~c.session
  BY DEF WriteStep
<1>3. /\ DOMAIN command' = 1 .. Len(command) + 1 /\ command'[Len(command) + 1] = c
      /\ \A n \in DOMAIN command : command'[n] = command[n]
  BY <1>1, <1>2 DEF Facts
<1>4. DOMAIN command' = DOMAIN command \cup {Len(command) + 1}
  BY <1>1, <1>3
<1> QED
  BY <1>2, <1>3, <1>4 DEF WriteStep

\* Of the commands: a new one is younger than all before it.
LEMMA CommandOfStep ==
  ASSUME CommandOfInv, Facts,
         QuietStep \/ WriteStep \/ AskStep \/ FetchStep \/ DeliverStep \/ ExpireStep
  PROVE  CommandOfInv'
<1>1. CASE UNCHANGED <<session, command, commandOf>>
  BY <1>1 DEF CommandOfInv, Session, Pool!Route
<1>2. CASE WriteStep
  <2> PICK c : /\ command'[Len(command) + 1] = c
               /\ c.worker = Pool!Route(c.key) /\ ~c.session
    BY <1>2, WriteFacts
  <2>1. /\ DOMAIN command' = DOMAIN command \cup {Len(command) + 1}
        /\ \A n \in DOMAIN command : command'[n] = command[n]
        /\ UNCHANGED <<session, commandOf>>
    BY <1>2, WriteFacts
  <2>2. /\ commandOf' \in Seq(Nat) /\ Len(commandOf') = Len(session')
        /\ \A s \in Session' :
             commandOf'[s] \in DOMAIN command' /\ command'[commandOf'[s]].session
        /\ \A s, t \in Session' : s < t => commandOf'[s] < commandOf'[t]
    BY <2>1 DEF CommandOfInv, Session
  <2>3. ASSUME NEW n \in DOMAIN command'
        PROVE  /\ command'[n].worker = Pool!Route(command'[n].key)
               /\ command'[n].session => \E s \in Session' : commandOf'[s] = n
    BY <2>1, <2>3 DEF CommandOfInv, Session
  <2> QED
    BY <2>2, <2>3 DEF CommandOfInv, Pool!Route
<1>3. CASE AskStep
  <2>1. /\ Session' = Session \cup {Len(session) + 1} /\ Session = 1 .. Len(session)
        /\ Len(session) \in Nat
        /\ DOMAIN command' = DOMAIN command \cup {Len(command) + 1}
        /\ DOMAIN command = 1 .. Len(command) /\ Len(command) \in Nat
        /\ \A s \in Session : commandOf'[s] = commandOf[s]
        /\ commandOf'[Len(session) + 1] = Len(command) + 1
        /\ commandOf' \in Seq(Nat) /\ Len(commandOf') = Len(session')
        /\ \A n \in DOMAIN command : command'[n] = command[n]
    BY <1>3, AskFacts
  <2>2. ASSUME NEW s \in Session'
        PROVE  commandOf'[s] \in DOMAIN command' /\ command'[commandOf'[s]].session
    <3>1. CASE s \in Session
      <4>1. commandOf[s] \in DOMAIN command /\ command[commandOf[s]].session
        BY <3>1 DEF CommandOfInv
      <4> QED
        BY <2>1, <3>1, <4>1
    <3>2. CASE s = Len(session) + 1
      <4>1. command'[Len(command) + 1].session
        BY <1>3, AskFacts
      <4> QED
        BY <2>1, <3>2, <4>1
    <3> QED
      BY <2>1, <3>1, <3>2
  <2>3. ASSUME NEW s \in Session', NEW t \in Session', s < t
        PROVE  commandOf'[s] < commandOf'[t]
    <3>1. s \in Session
      BY <2>1, <2>3
    <3>2. CASE t \in Session
      BY <2>1, <2>3, <3>1, <3>2 DEF CommandOfInv
    <3>3. CASE t = Len(session) + 1
      BY <2>1, <3>1, <3>3 DEF CommandOfInv
    <3> QED
      BY <2>1, <3>2, <3>3
  <2>4. ASSUME NEW n \in DOMAIN command'
        PROVE  /\ command'[n].worker = Pool!Route(command'[n].key)
               /\ command'[n].session => \E s \in Session' : commandOf'[s] = n
    <3>1. CASE n \in DOMAIN command
      <4>1. /\ command[n].worker = Pool!Route(command[n].key)
            /\ command[n].session => \E s \in Session : commandOf[s] = n
        BY <3>1 DEF CommandOfInv
      <4>2. command'[n] = command[n]
        BY <2>1, <3>1
      <4>3. ASSUME NEW s \in Session, commandOf[s] = n
            PROVE  s \in Session' /\ commandOf'[s] = n
        BY <2>1, <4>3
      <4> QED
        BY <4>1, <4>2, <4>3
    <3>2. CASE n = Len(command) + 1
      BY <1>3, <2>1, <3>2, AskFacts
    <3> QED
      BY <2>1, <3>1, <3>2
  <2> QED
    BY <2>1, <2>2, <2>3, <2>4 DEF CommandOfInv, Pool!Route
<1> QED
  BY <1>1, <1>2, <1>3 DEF QuietStep, FetchStep, DeliverStep, ExpireStep

\* Of the deadlines: they are set together.
LEMMA DeadlineStep ==
  ASSUME DeadlineInv, CommandOfInv, Facts,
         QuietStep \/ WriteStep \/ AskStep \/ FetchStep \/ DeliverStep \/ ExpireStep
  PROVE  DeadlineInv'
<1>1. CASE UNCHANGED <<session, command, commandOf>>
  BY <1>1 DEF DeadlineInv, Session, Proxy!Deadline
<1>2. CASE WriteStep
  <2>1. /\ \A n \in DOMAIN command : command'[n] = command[n]
        /\ UNCHANGED <<session, commandOf>>
    BY <1>2, WriteFacts
  <2> QED
    BY <2>1 DEF DeadlineInv, CommandOfInv, Session, Proxy!Deadline
<1>3. CASE AskStep
  <2>1. /\ Session' = Session \cup {Len(session) + 1}
        /\ \A s \in Session : session'[s] = session[s] /\ commandOf'[s] = commandOf[s]
        /\ commandOf'[Len(session) + 1] = Len(command) + 1
        /\ \A n \in DOMAIN command : command'[n] = command[n]
    BY <1>3, AskFacts
  <2>2. session'[Len(session) + 1].deadline # NoTimeout
          => command'[Len(command) + 1].nTimeout <= session'[Len(session) + 1].deadline
    BY <1>3, AskFacts
  <2>3. ASSUME NEW s \in Session', session'[s].deadline # NoTimeout
        PROVE  command'[commandOf'[s]].nTimeout <= session'[s].deadline
    <3>1. CASE s \in Session
      BY <2>1, <2>3, <3>1 DEF DeadlineInv, CommandOfInv, Proxy!Deadline
    <3>2. CASE s = Len(session) + 1
      BY <2>1, <2>2, <2>3, <3>2
    <3> QED
      BY <2>1, <3>1, <3>2
  <2> QED
    BY <2>3 DEF DeadlineInv, Proxy!Deadline
<1> QED
  BY <1>1, <1>2, <1>3 DEF QuietStep, FetchStep, DeliverStep, ExpireStep

\* Two sessions never share a command.
LEMMA SessionsDiffer ==
  ASSUME CommandOfInv, Facts, NEW s \in Session, NEW t \in Session, commandOf[s] = commandOf[t]
  PROVE  s = t
<1>1. s \in Nat /\ t \in Nat
  BY DEF Facts, Session
<1>2. commandOf[s] \in Nat /\ commandOf[t] \in Nat
  BY DEF CommandOfInv, Facts
<1>3. ~(s < t) /\ ~(t < s)
  BY <1>2 DEF CommandOfInv
<1> QED
  BY <1>1, <1>3

\* The session an answer names is the one that sent its command.
LEMMA SessionOfAnswer ==
  ASSUME CommandOfInv, Facts, NEW i \in DOMAIN received
  PROVE  SessionOf(received[i]) \in Session /\ commandOf[SessionOf(received[i])] = received[i]
<1>1. \E s \in Session : commandOf[s] = received[i]
  BY DEF Facts, CommandOfInv
<1> QED
  BY <1>1 DEF SessionOf

\* An answer fetched earlier stays where it is, and its command is never a new one.
LEMMA AnsweredBefore ==
  ASSUME Facts, NEW i \in DOMAIN received
  PROVE  received[i] \in Nat /\ received[i] # Len(command) + 1
BY DEF Facts

\* Of the answers handed over.
LEMMA HandledStep ==
  ASSUME HandledInv, CommandOfInv, LoopInv, Facts,
         QuietStep \/ WriteStep \/ AskStep \/ FetchStep \/ DeliverStep \/ ExpireStep
  PROVE  HandledInv'
<1>0. handled \in Nat /\ Len(received) \in Nat /\ handled <= Len(received)
      /\ DOMAIN received = 1 .. Len(received)
  BY DEF LoopInv, Facts
<1>1. CASE QuietStep
  BY <1>1 DEF QuietStep, HandledInv, Session, Answered
<1>2. CASE WriteStep
  BY <1>2 DEF WriteStep, HandledInv, Session, Answered
<1>3. CASE AskStep
  <2>1. /\ Session' = Session \cup {Len(session) + 1}
        /\ \A s \in Session : commandOf'[s] = commandOf[s]
        /\ commandOf'[Len(session) + 1] = Len(command) + 1
        /\ m_mapPendingResponseInfo' = m_mapPendingResponseInfo \cup {Len(session) + 1}
        /\ Len(session) + 1 \notin Session
    BY <1>3, AskFacts
  <2>2. UNCHANGED <<received, handled, delivered>>
    BY <1>3 DEF AskStep
  <2>3. ASSUME NEW i \in 1 .. handled, NEW s \in Session', commandOf'[s] = received[i]
        PROVE  s \notin m_mapPendingResponseInfo'
    <3>1. i \in DOMAIN received
      BY <1>0
    <3>2. s \in Session
      BY <2>1, <2>3, <3>1, AnsweredBefore
    <3> QED
      BY <2>1, <2>3, <3>2 DEF HandledInv
  <2>4. ASSUME NEW k \in DOMAIN delivered, Answered(k)
        PROVE  \E i \in 1 .. handled : received[i] = commandOf'[delivered[k].s]
    BY <2>1, <2>4 DEF HandledInv, Facts
  <2>5. \A k \in DOMAIN delivered : Answered(k)' <=> Answered(k)
    BY <2>2 DEF Answered
  <2> QED
    BY <2>2, <2>3, <2>4, <2>5 DEF HandledInv
<1>4. CASE FetchStep
  <2>1. \A i \in 1 .. handled : received'[i] = received[i]
    BY <1>0, <1>4 DEF FetchStep, Facts
  <2>2. UNCHANGED <<session, m_mapPendingResponseInfo, commandOf, handled, delivered>>
    BY <1>4 DEF FetchStep
  <2> QED
    BY <2>1, <2>2 DEF HandledInv, Session, Answered
<1>5. CASE DeliverStep
  <2> DEFINE s == SessionOf(received[handled + 1])
  <2>1. /\ handled + 1 \in DOMAIN received /\ handled' = handled + 1
        /\ m_mapPendingResponseInfo' = m_mapPendingResponseInfo \ {s}
        /\ UNCHANGED <<session, command, commandOf, received>>
    BY <1>0, <1>5 DEF DeliverStep
  <2>2. s \in Session /\ commandOf[s] = received[handled + 1]
    BY <2>1, SessionOfAnswer
  <2>3. ASSUME NEW i \in 1 .. handled + 1, NEW t \in Session, commandOf[t] = received[i]
        PROVE  t \notin m_mapPendingResponseInfo'
    <3>1. CASE i \in 1 .. handled
      BY <2>1, <2>3, <3>1 DEF HandledInv
    <3>2. CASE i = handled + 1
      <4>1. t = s
        BY <2>2, <2>3, <3>2, SessionsDiffer
      <4> QED
        BY <2>1, <4>1
    <3> QED
      BY <1>0, <3>1, <3>2
  <2>4. ASSUME NEW k \in DOMAIN delivered', Answered(k)'
        PROVE  \E i \in 1 .. handled + 1 : received[i] = commandOf[delivered'[k].s]
    <3>1. CASE k \in DOMAIN delivered /\ delivered'[k] = delivered[k]
      BY <1>0, <2>4, <3>1 DEF HandledInv, Answered
    <3>2. CASE delivered'[k].s = s
      BY <1>0, <2>2, <3>2
    <3>3. \/ delivered' = delivered
          \/ \E e : e.s = s /\ delivered' = Append(delivered, e)
      BY <1>5 DEF DeliverStep
    <3>4. CASE delivered' = delivered
      BY <3>1, <3>4
    <3>5. ASSUME NEW e, e.s = s, delivered' = Append(delivered, e)
          PROVE  \/ k \in DOMAIN delivered /\ delivered'[k] = delivered[k]
                 \/ delivered'[k] = e
      BY <3>5 DEF Facts
    <3> QED
      BY <3>1, <3>2, <3>3, <3>4, <3>5
  <2> QED
    BY <2>1, <2>3, <2>4 DEF HandledInv, Session
<1>6. CASE ExpireStep
  <2>1. /\ UNCHANGED <<session, commandOf, received, handled>>
        /\ m_mapPendingResponseInfo' \subseteq m_mapPendingResponseInfo
    BY <1>6 DEF ExpireStep
  <2>2. PICK e : e.sent = "none" /\ delivered' = Append(delivered, e)
    BY <1>6 DEF ExpireStep
  <2>3. ASSUME NEW k \in DOMAIN delivered', Answered(k)'
        PROVE  k \in DOMAIN delivered /\ delivered'[k] = delivered[k]
    BY <2>2, <2>3 DEF Facts, Answered
  <2> QED
    BY <2>1, <2>3 DEF HandledInv, Session, Answered
<1> QED
  BY <1>1, <1>2, <1>3, <1>4, <1>5, <1>6

\* The clock never goes back, and onTimer() reads it.
LEMMA ClockStep ==
  ASSUME Facts, [Next]_vars
  PROVE  now <= now' /\ (nCurTime' = nCurTime \/ nCurTime' = now)
<1> USE DEF proxyVars, poolVars
<1>0. now \in Nat
  BY DEF Facts
<1>1. ASSUME UNCHANGED <<now, nCurTime>>
      PROVE  now <= now' /\ (nCurTime' = nCurTime \/ nCurTime' = now)
  BY <1>0, <1>1
<1>2. ASSUME NEW c \in Client, Create(c) \/ Destroy(c)
      PROVE  UNCHANGED <<now, nCurTime>>
  BY <1>2 DEF Create, Destroy, Proxy!Create, Proxy!Destroy, Proxy!timerVars
<1>3. ASSUME NEW c \in Client, NEW key \in AssociateId, nop(c, key) \/ Write(c, key)
      PROVE  UNCHANGED <<now, nCurTime>>
  BY <1>3 DEF nop, Write, Proxy!nop, Proxy!Open, Proxy!timerVars
<1>4. ASSUME NEW c \in Client, NEW key \in AssociateId, NEW timeout \in Timeout,
             Request(c, key, timeout)
      PROVE  now' \in {now, now + 1} /\ UNCHANGED nCurTime
  BY <1>4 DEF Request, Proxy!Request, Proxy!Passing, Proxy!Open, Proxy!timerVars
<1>5. CASE Fetch
  BY <1>1, <1>5 DEF Fetch, Pool!GetResultInfo
<1>6. CASE Deliver
  BY <1>1, <1>6 DEF Deliver, Proxy!onMessage, Proxy!timerVars
<1>7. CASE EnterTimer
  BY <1>0, <1>7 DEF EnterTimer, Proxy!EnterTimer
<1>8. CASE Timer
  BY <1>1, <1>8 DEF Timer, Proxy!Expire, Proxy!CallbackReturns, Proxy!LeaveTimer
<1>9. CASE Release
  BY <1>1, <1>9 DEF Release, Pool!Release
<1>10. ASSUME NEW w \in Worker, Thread(w) \/ JoinThread(w)
       PROVE  UNCHANGED <<now, nCurTime>>
  BY <1>10, PoolKeepsClock DEF Thread, JoinThread
<1>11. CASE Tick \/ UNCHANGED vars
  BY <1>0, <1>11 DEF Tick, Proxy!Tick, vars, Proxy!timerVars
<1> QED
  BY <1>0, <1>1, <1>2, <1>3, <1>4, <1>5, <1>6, <1>7, <1>8, <1>9, <1>10, <1>11
  DEF Next, UpdateStep

\* Deadlines are times.
LEMMA DeadlineType ==
  ASSUME Facts, NEW s \in Session
  PROVE  Proxy!Deadline(s) \in Nat \cup {NoTimeout}
<1>1. session[s] \in ProxyThm!SessionType
  BY DEF Facts, Session
<1> QED
  BY <1>1 DEF ProxyThm!SessionType, Proxy!Deadline

\* Of what callers are told: deadlines do not change, and the clock only advances.
LEMMA ToldStep ==
  ASSUME ToldInv, CommandOfInv, Facts, now' \in Nat, nCurTime \in Nat, [Next]_vars,
         QuietStep \/ WriteStep \/ AskStep \/ FetchStep \/ DeliverStep \/ ExpireStep
  PROVE  ToldInv'
<1>1. now \in Nat /\ now <= now' /\ nCurTime' <= now'
  BY ClockStep DEF ToldInv, Facts
<1>2. ASSUME NEW s \in Session, NEW d, d = Proxy!Deadline(s), d # NoTimeout, d <= now
      PROVE  d <= now'
  BY <1>1, <1>2, DeadlineType
<1>3. CASE UNCHANGED <<session, delivered>>
  BY <1>1, <1>2, <1>3 DEF ToldInv, Facts, Answered, Proxy!Deadline
<1>4. CASE AskStep
  <2>1. (\A s \in Session : session'[s] = session[s]) /\ delivered' = delivered
    BY <1>4, AskFacts DEF AskStep
  <2> QED
    BY <1>1, <1>2, <2>1 DEF ToldInv, Facts, Answered, Proxy!Deadline
<1>5. ASSUME session' = session, NEW e, delivered' = Append(delivered, e),
             \/ e.sent # "none"
             \/ e.s \in Session /\ Proxy!Deadline(e.s) # NoTimeout /\ Proxy!Deadline(e.s) <= nCurTime
      PROVE  ToldInv'
  <2>1. ASSUME NEW k \in DOMAIN delivered', delivered'[k].sent = "none"
        PROVE  /\ session[delivered'[k].s].deadline # NoTimeout
               /\ session[delivered'[k].s].deadline <= now'
    <3>1. CASE k \in DOMAIN delivered /\ delivered'[k] = delivered[k]
      BY <1>2, <2>1, <3>1 DEF ToldInv, Facts, Answered, Proxy!Deadline
    <3>2. CASE delivered'[k] = e
      <4>1. e.s \in Session /\ Proxy!Deadline(e.s) # NoTimeout /\ Proxy!Deadline(e.s) <= nCurTime
        BY <1>5, <2>1, <3>2
      <4>2. Proxy!Deadline(e.s) \in Nat /\ nCurTime <= now
        BY <4>1, DeadlineType DEF ToldInv
      <4> QED
        BY <1>1, <3>2, <4>1, <4>2 DEF Proxy!Deadline
    <3> QED
      BY <1>5, <3>1, <3>2 DEF Facts
  <2> QED
    BY <1>1, <1>5, <2>1 DEF ToldInv, Answered, Proxy!Deadline
<1>6. CASE DeliverStep
  BY <1>3, <1>5, <1>6 DEF DeliverStep
<1>7. CASE ExpireStep
  BY <1>5, <1>7 DEF ExpireStep
<1> QED
  BY <1>3, <1>4, <1>6, <1>7 DEF QuietStep, WriteStep, FetchStep

\* Requests of one key go to one worker, whose answers are in order.
LEMMA SameKeyInOrder ==
  ASSUME PoolInv, Facts, CommandOfInv,
         NEW i \in DOMAIN received, NEW j \in DOMAIN received, i < j,
         command[received[i]].key = command[received[j]].key
  PROVE  received[i] < received[j]
<1>1. /\ i \in DOMAIN PoolThm!Answers /\ PoolThm!Answers[i] = received[i]
      /\ j \in DOMAIN PoolThm!Answers /\ PoolThm!Answers[j] = received[j]
  BY DEF PoolThm!Answers, Facts
<1>2. command[received[i]].worker = command[received[j]].worker
  BY DEF Facts, CommandOfInv
<1> QED
  BY <1>1, <1>2 DEF PoolInv, PoolThm!OrderInv, PoolThm!AnswersSorted

\* Of the callbacks: the one that is made now answers a later request than those made
\* before for the same key.
LEMMA CallbacksStep ==
  ASSUME CallbacksInOrder, HandledInv, CommandOfInv, LoopInv, PoolInv, Facts,
         QuietStep \/ WriteStep \/ AskStep \/ FetchStep \/ DeliverStep \/ ExpireStep
  PROVE  CallbacksInOrder'
<1>0. handled \in Nat /\ Len(received) \in Nat /\ handled <= Len(received)
      /\ DOMAIN received = 1 .. Len(received)
      /\ DOMAIN delivered = 1 .. Len(delivered) /\ Len(delivered) \in Nat
  BY DEF LoopInv, Facts
<1>1. CASE UNCHANGED <<delivered, command, commandOf>>
  BY <1>1 DEF CallbacksInOrder, Answered, KeyOf
<1>2. ASSUME delivered' = delivered,
             \A n \in DOMAIN command : command'[n] = command[n],
             \A s \in Session : commandOf'[s] = commandOf[s]
      PROVE  CallbacksInOrder'
  <2>1. \A k \in DOMAIN delivered : KeyOf(delivered[k].s)' = KeyOf(delivered[k].s)
    BY <1>2 DEF KeyOf, Facts, CommandOfInv
  <2> QED
    BY <1>2, <2>1 DEF CallbacksInOrder, Answered
<1>3. CASE WriteStep
  BY <1>2, <1>3, WriteFacts DEF WriteStep
<1>4. CASE AskStep
  BY <1>2, <1>4, AskFacts DEF AskStep
<1>5. ASSUME UNCHANGED <<command, commandOf>>,
             NEW e, delivered' = Append(delivered, e), e.sent = "none"
      PROVE  CallbacksInOrder'
  <2>1. \A k \in DOMAIN delivered' :
          delivered'[k].sent # "none" => k \in DOMAIN delivered /\ delivered'[k] = delivered[k]
    BY <1>0, <1>5 DEF Facts
  <2> QED
    BY <1>5, <2>1 DEF CallbacksInOrder, Answered, KeyOf
<1>6. ASSUME DeliverStep, NEW e, e.s = SessionOf(received[handled + 1]),
             delivered' = Append(delivered, e)
      PROVE  CallbacksInOrder'
  <2>0. handled < Len(received) /\ UNCHANGED <<command, commandOf>>
    BY <1>6 DEF DeliverStep
  <2>1. UNCHANGED <<command, commandOf>> /\ handled + 1 \in DOMAIN received
    BY <1>0, <2>0
  <2>2. e.s \in Session /\ commandOf[e.s] = received[handled + 1]
    BY <1>6, <2>1, SessionOfAnswer
  <2>3. /\ DOMAIN delivered' = 1 .. Len(delivered) + 1
        /\ \A k \in DOMAIN delivered : delivered'[k] = delivered[k]
        /\ delivered'[Len(delivered) + 1] = e
    BY <1>0, <1>6 DEF Facts
  <2>4. ASSUME NEW j \in DOMAIN delivered, Answered(j), KeyOf(delivered[j].s) = KeyOf(e.s)
        PROVE  delivered[j].s < e.s
    <3>1. PICK i \in 1 .. handled : received[i] = commandOf[delivered[j].s]
      BY <2>4 DEF HandledInv
    <3>2. i \in DOMAIN received /\ i < handled + 1
      BY <1>0
    <3>3. received[i] < received[handled + 1]
      BY <2>1, <2>2, <2>4, <3>1, <3>2, SameKeyInOrder DEF KeyOf
    <3>4. delivered[j].s \in Session
      BY DEF Facts
    <3>5. commandOf[delivered[j].s] < commandOf[e.s] /\ commandOf[delivered[j].s] \in Nat
      BY <2>2, <3>1, <3>3, <3>2, AnsweredBefore
    <3>6. ~(e.s < delivered[j].s) /\ e.s # delivered[j].s
      <4>1. commandOf[e.s] \in Nat
        BY <2>1, <2>2, AnsweredBefore
      <4>2. e.s < delivered[j].s => commandOf[e.s] < commandOf[delivered[j].s]
        BY <2>2, <3>4 DEF CommandOfInv
      <4> QED
        BY <3>5, <4>1, <4>2
    <3>7. e.s \in Nat /\ delivered[j].s \in Nat
      BY <2>2, <3>4 DEF Facts, Session
    <3> QED
      BY <3>6, <3>7
  <2>5. ASSUME NEW j \in DOMAIN delivered', NEW k \in DOMAIN delivered', j < k,
               delivered'[j].sent # "none", delivered'[k].sent # "none",
               command[commandOf[delivered'[j].s]].key = command[commandOf[delivered'[k].s]].key
        PROVE  delivered'[j].s < delivered'[k].s
    <3>1. j \in DOMAIN delivered /\ delivered'[j] = delivered[j] /\ Answered(j)
      BY <1>0, <2>3, <2>5 DEF Answered
    <3>2. CASE k \in DOMAIN delivered
      BY <2>3, <2>5, <3>1, <3>2 DEF CallbacksInOrder, Answered, KeyOf
    <3>3. CASE k = Len(delivered) + 1
      BY <2>3, <2>4, <2>5, <3>1, <3>3 DEF KeyOf
    <3> QED
      BY <1>0, <2>3, <3>2, <3>3
  <2> QED
    BY <2>1, <2>5 DEF CallbacksInOrder, Answered, KeyOf
<1>7. CASE DeliverStep
  BY <1>1, <1>6, <1>7 DEF DeliverStep
<1>8. CASE ExpireStep
  BY <1>5, <1>8 DEF ExpireStep
<1> QED
  BY <1>1, <1>3, <1>4, <1>7, <1>8 DEF QuietStep, FetchStep

-----------------------------------------------------------------------------
(* The theorems.                                                            *)

ServiceInv ==
  /\ ProxyInv /\ PoolInv
  /\ LoopInv /\ CommandOfInv /\ DeadlineInv /\ HandledInv /\ ToldInv
  /\ CallbacksInOrder

\* At the start nobody has asked for anything.
LEMMA InitService == Init => ServiceInv
<1> SUFFICES ASSUME Init PROVE ServiceInv
  OBVIOUS
<1>1. ProxyInv /\ PoolInv
  BY InitComponents
<1>2. /\ session = << >> /\ delivered = << >> /\ timer = "idle" /\ nCurTime = 0 /\ now = 1
      /\ command = << >> /\ received = << >>
      /\ update = "idle" /\ handled = 0 /\ commandOf = << >>
  BY DEF Init, Proxy!Init, Pool!Init
<1>3. LoopInv
  BY <1>2 DEF LoopInv
<1>4. CommandOfInv /\ DeadlineInv
  BY <1>2 DEF CommandOfInv, DeadlineInv, Session
<1>5. HandledInv /\ ToldInv /\ CallbacksInOrder
  BY <1>2 DEF HandledInv, ToldInv, CallbacksInOrder
<1> QED
  BY <1>1, <1>3, <1>4, <1>5 DEF ServiceInv

\* The invariant of the composition is inductive.
LEMMA ServiceStep == ServiceInv /\ [Next]_vars => ServiceInv'
<1> SUFFICES ASSUME ServiceInv, [Next]_vars PROVE ServiceInv'
  OBVIOUS
<1>1. /\ ProxyInv /\ PoolInv /\ Facts /\ ProxyInv' /\ PoolInv'
      /\ LoopInv /\ CommandOfInv /\ DeadlineInv /\ HandledInv /\ ToldInv /\ CallbacksInOrder
  BY ProxyStep, PoolStep, ComponentFacts DEF ServiceInv
<1>2. now' \in Nat /\ nCurTime \in Nat
  BY <1>1 DEF ProxyInv, ProxyThm!TimerInv, ProxyThm!SessionInv, ProxyThm!SessionsOK,
              ProxyThm!TimerType
<1>3. QuietStep \/ WriteStep \/ AskStep \/ FetchStep \/ DeliverStep \/ ExpireStep
  BY <1>1, StepKinds
<1>4. LoopInv' /\ CommandOfInv' /\ DeadlineInv'
  BY <1>1, <1>3, LoopStep, CommandOfStep, DeadlineStep
<1>5. HandledInv' /\ ToldInv' /\ CallbacksInOrder'
  BY <1>1, <1>2, <1>3, HandledStep, ToldStep, CallbacksStep
<1> QED
  BY <1>1, <1>4, <1>5 DEF ServiceInv

\* In every state of the caller's loop, the threads and the clock, what the two sides
\* know of a request agrees.
THEOREM ServiceCorrect == Spec => []ServiceInv
BY InitService, ServiceStep, PTL DEF Spec

\* The callbacks of one associate_id come in the order of the requests, for any number
\* of threads, clients, keys and timeouts.
THEOREM CallbacksCorrect == Spec => []CallbacksInOrder
<1>1. ServiceInv => CallbacksInOrder
  BY DEF ServiceInv
<1> QED
  BY <1>1, ServiceCorrect, PTL

\* Who is answered sees its own writes.
THEOREM ReadsCorrect == Spec => []ReadsFollowWrites
<1>1. ServiceInv => ReadsFollowWrites
  <2> SUFFICES ASSUME ServiceInv, NEW k \in DOMAIN delivered, Answered(k),
                      NEW n \in 1 .. commandOf[delivered[k].s] - 1,
                      command[n].key = KeyOf(delivered[k].s)
               PROVE  n \notin Pool!SetOf(Pool!Backlog(command[n].worker))
    BY DEF ReadsFollowWrites
  <2>1. Facts /\ PoolInv /\ CommandOfInv /\ LoopInv /\ HandledInv
    BY ComponentFacts DEF ServiceInv
  <2> DEFINE m == commandOf[delivered[k].s]
  <2>2. PICK i \in 1 .. handled : received[i] = m
    BY <2>1 DEF HandledInv
  <2>3. i \in DOMAIN received
    BY <2>1 DEF LoopInv, Facts
  <2>4. i \in DOMAIN PoolThm!Answers /\ PoolThm!Answers[i] = m
    BY <2>1, <2>2, <2>3 DEF PoolThm!Answers, Facts
  <2>5. m \in DOMAIN command /\ n \in DOMAIN command /\ n < m
    BY <2>1, <2>2, <2>3 DEF Facts
  <2>6. command[n].worker = command[m].worker
    BY <2>1, <2>5 DEF CommandOfInv, KeyOf
  <2>7. command[m].worker \in PoolThm!Worker
    BY <2>1, <2>5, PoolThm!CommandRecord, PoolAssumptions
    DEF PoolInv, PoolThm!CommandRecord
  <2>8. \A j \in DOMAIN PoolThm!Backlog(command[m].worker) :
          m < PoolThm!Backlog(command[m].worker)[j]
    BY <2>1, <2>4, <2>7 DEF PoolInv, PoolThm!OrderInv, PoolThm!AnswerInv
  <2>9. PoolThm!Backlog(command[m].worker) = Pool!Backlog(command[n].worker)
    BY <2>6 DEF PoolThm!Backlog, Pool!Backlog
  <2>10. n \in Nat /\ m \in Nat
    BY <2>1, <2>5 DEF Facts
  <2> QED
    BY <2>5, <2>8, <2>9, <2>10 DEF Pool!SetOf
<1> QED
  BY <1>1, ServiceCorrect, PTL

\* The type invariant, among it that every session has a command.
THEOREM TypeCorrect == Spec => []TypeOK
<1>1. ServiceInv => TypeOK
  <2> SUFFICES ASSUME ServiceInv PROVE TypeOK
    OBVIOUS
  <2>1. Proxy!TypeOK
    BY DEF ServiceInv, ProxyInv, ProxyThm!TimerInv, ProxyThm!SessionInv, ProxyThm!SessionsOK,
           ProxyThm!SessionType, ProxyThm!OnceInv, ProxyThm!ListInv, ProxyThm!TimerType,
           ProxyThm!HistoryType, ProxyThm!Delivery, ProxyThm!Code, ProxyThm!Session,
           ProxyThm!Answered, Proxy!TypeOK, Proxy!Session
  <2>2. Pool!TypeOK
    BY DEF ServiceInv, PoolInv, PoolThm!TypeOK, Pool!TypeOK, PoolThm!Command, Pool!Command,
           PoolThm!Worker, Pool!Worker, PoolThm!Executing, Pool!Executing, PoolThm!At, Pool!At
  <2>3. commandOf \in [Session -> DOMAIN command]
    <3>1. DOMAIN commandOf = Session /\ commandOf = [s \in DOMAIN commandOf |-> commandOf[s]]
      BY DEF ServiceInv, CommandOfInv, Session, ProxyInv, ProxyThm!TimerInv,
             ProxyThm!SessionInv, ProxyThm!SessionsOK
    <3>2. \A s \in Session : commandOf[s] \in DOMAIN command
      BY DEF ServiceInv, CommandOfInv
    <3> QED
      BY <3>1, <3>2
  <2> QED
    BY <2>1, <2>2, <2>3 DEF TypeOK, ServiceInv, LoopInv
<1> QED
  BY <1>1, ServiceCorrect, PTL

\* Seen from the client alone, the composition is a client side with some responses.
THEOREM ProxyRefinement == Spec => Proxy!Spec
<1>1. Init => Proxy!Init
  BY DEF Init
<1>2. ServiceInv /\ [Next]_vars => [Proxy!Next]_(Proxy!vars)
  BY StepOfProxy, PendingExist DEF ServiceInv
<1> QED
  BY <1>1, <1>2, ServiceCorrect, PTL DEF Spec, Proxy!Spec

\* Seen from the threads alone, it is a pool with some callers.
THEOREM PoolRefinement == Spec => Pool!Spec
<1>1. Init => Pool!Init
  BY DEF Init
<1>2. [Next]_vars => [Pool!Next]_(Pool!vars)
  BY StepOfPool
<1> QED
  BY <1>1, <1>2, PTL DEF Spec, Pool!Spec

\* The composition inherits what is proved of its parts; of the iterator because
\* its callbacks destroy no client.
THEOREM IteratorCorrect == Spec => []IteratorStaysValid
<1>1. Spec => ProxyThm!Spec
  <2>1. Init => ProxyThm!Init
    BY SameProxy DEF Init
  <2>2. ServiceInv /\ [Next]_vars => [ProxyThm!Next]_(ProxyThm!vars)
    <3> SUFFICES ASSUME ServiceInv, [Next]_vars
                 PROVE  ProxyThm!Next \/ UNCHANGED ProxyThm!vars
      OBVIOUS
    <3>1. Proxy!Next \/ UNCHANGED Proxy!vars
      BY StepOfProxy, PendingExist DEF ServiceInv
    <3> QED
      BY <3>1, SameProxy
  <2> QED
    BY <2>1, <2>2, ServiceCorrect, PTL DEF Spec, ProxyThm!Spec
<1>2. ProxyThm!Spec => []ProxyThm!IteratorStaysValid
  BY ProxyThm!IteratorCorrect, ProxyAssumptions DEF ProxyThm!IteratorCorrect
<1>3. ProxyThm!IteratorStaysValid => IteratorStaysValid
  BY DEF IteratorStaysValid, Proxy!IteratorStaysValid, ProxyThm!IteratorStaysValid,
         Proxy!IterValid, ProxyThm!IterValid, Proxy!InList, ProxyThm!InList
<1> QED
  BY <1>1, <1>2, <1>3, PTL

\* The caller, the clock and release() move no thread.
LEMMA OthersKeepThreads ==
  ASSUME [Next]_vars, \A w \in Worker : ~Thread(w)
  PROVE  pc' = pc
<1> USE DEF poolVars
<1>1. ASSUME NEW c \in Client, Create(c) \/ Destroy(c)
      PROVE  pc' = pc
  BY <1>1 DEF Create, Destroy
<1>2. ASSUME NEW c \in Client, NEW key \in AssociateId, nop(c, key) \/ Write(c, key)
      PROVE  pc' = pc
  BY <1>2 DEF nop, Write, Pool!Query, Pool!Push
<1>3. ASSUME NEW c \in Client, NEW key \in AssociateId, NEW timeout \in Timeout,
             Request(c, key, timeout)
      PROVE  pc' = pc
  BY <1>3 DEF Request, Pool!Query, Pool!Push
<1>4. CASE UpdateStep
  BY <1>4 DEF UpdateStep, Fetch, Pool!GetResultInfo, Deliver, EnterTimer, Timer
<1>5. CASE Release \/ Tick \/ UNCHANGED vars
  BY <1>5 DEF Release, Pool!Release, Tick, vars
<1>6. ASSUME NEW w \in Worker, JoinThread(w)
      PROVE  pc' = pc
  BY <1>6 DEF JoinThread, Pool!SetQuit, Pool!Join
<1> QED
  BY <1>1, <1>2, <1>3, <1>4, <1>5, <1>6 DEF Next

\* A thread moves nobody but itself, and gets from "batch" to "execute" by PickUp alone.
LEMMA OnlyPickUp ==
  ASSUME PoolThm!TypeOK, NEW v \in Worker, Pool!Thread(v), NEW w \in Worker,
         pc[w] = "batch", pc'[w] = "execute"
  PROVE  Pool!PickUp(w)
<1> USE DEF Pool!Goto, Pool!At
<1>1. pc \in [Worker -> {"top", "wait", "sleep", "batch", "execute", "check", "exited"}]
  BY DEF PoolThm!TypeOK, PoolThm!Worker, Worker
<1>2. ASSUME NEW l, Pool!Goto(v, l), l # "execute"
      PROVE  FALSE
  BY <1>1, <1>2
<1>3. ~Pool!EnterProcess(v) /\ ~Pool!Sleep(v) /\ ~Pool!WaitTimeout(v) /\ ~Pool!TakeBatch(v)
  BY <1>2 DEF Pool!EnterProcess, Pool!Sleep, Pool!WaitTimeout, Pool!TakeBatch
<1>4. ~Pool!HandleFlush(v) /\ ~Pool!Discard(v)
  BY <1>2 DEF Pool!HandleFlush, Pool!Discard, Pool!Advance
<1>5. ~Pool!ServeFromCache(v) /\ ~Pool!ServeFromDatabase(v) /\ ~Pool!LostConnection(v)
  <2>1. ~Pool!Answer(v)
    BY <1>2 DEF Pool!Answer, Pool!Advance
  <2>2. ~Pool!LostConnection(v)
    <3>1. Pool!LostConnection(v) => Pool!Goto(v, "check")
      BY DEF Pool!LostConnection
    <3> QED
      BY <1>2, <3>1
  <2> QED
    BY <2>1, <2>2 DEF Pool!ServeFromCache, Pool!ServeFromDatabase
<1>6. ~Pool!FinishBatch(v) /\ ~Pool!Exit(v) /\ ~Pool!Loop(v)
  BY <1>2 DEF Pool!FinishBatch, Pool!Exit, Pool!Loop
<1>7. Pool!PickUp(v)
  BY <1>3, <1>4, <1>5, <1>6 DEF Pool!Thread
<1>8. v = w
  BY <1>1, <1>7 DEF Pool!PickUp
<1> QED
  BY <1>7, <1>8

\* Whoever picks a command up has just looked at its deadline.
LEMMA PickedUpInTime ==
  ASSUME PoolInv, Facts, [Next]_vars, NEW n, PickedUp(n)
  PROVE  /\ n \in DOMAIN command
         /\ command[n].session => command[n].nTimeout = 0 \/ ~(command[n].nTimeout <= now)
<1>1. PICK w \in Worker : pc[w] = "batch" /\ pc'[w] = "execute" /\ n = Head(listCommand[w])
  BY DEF PickedUp
<1>2. PICK v \in Worker : Pool!Thread(v)
  BY <1>1, OthersKeepThreads DEF Thread
<1>3. Pool!PickUp(w)
  BY <1>1, <1>2, OnlyPickUp DEF PoolInv
<1>4. command[n].session => command[n].nTimeout = 0 \/ ~(command[n].nTimeout <= now)
  BY <1>1, <1>3 DEF Pool!PickUp, Pool!Expired, Pool!Current
<1>5. n \in DOMAIN command
  <2>1. listCommand[w] # << >> /\ w \in PoolThm!Worker
    BY <1>3 DEF Pool!PickUp, Pool!Handling, PoolThm!Worker, Worker
  <2> QED
    BY <1>1, <2>1, PoolThm!HeadOwn, PoolAssumptions DEF PoolInv, PoolThm!OrderInv, PoolThm!HeadOwn
<1> QED
  BY <1>4, <1>5

\* No command is picked up for a caller that was told it timed out: the pool's deadline
\* is not after the caller's, although the pool may read the clock in the next second.
\* What was picked up before may still be running then.
THEOREM NoLateCorrect == Spec => NoLateExecution
<1>1. ServiceInv /\ [Next]_vars =>
        [\A s \in Session :
           (command[commandOf[s]].nTimeout # 0 /\ PickedUp(commandOf[s]))
             => ~Told(s, "kRC_TIME_OUT")]_vars
  <2> SUFFICES ASSUME ServiceInv, [Next]_vars, NEW s \in Session,
                      command[commandOf[s]].nTimeout # 0, PickedUp(commandOf[s]),
                      Told(s, "kRC_TIME_OUT")
               PROVE  FALSE
    OBVIOUS
  <2>1. Facts /\ PoolInv /\ ToldInv /\ DeadlineInv /\ CommandOfInv
    BY ComponentFacts DEF ServiceInv
  <2> DEFINE m == commandOf[s]
  <2>2. m \in DOMAIN command /\ command[m].session
    BY <2>1 DEF CommandOfInv
  <2>3. ~(command[m].nTimeout <= now)
    BY <2>1, <2>2, PickedUpInTime
  <2>4. PICK k \in DOMAIN delivered :
          delivered[k] = [s |-> s, code |-> "kRC_TIME_OUT", sent |-> "none"]
    BY DEF Told
  <2>5. Proxy!Deadline(s) # NoTimeout /\ Proxy!Deadline(s) <= now
    BY <2>1, <2>4 DEF ToldInv, Answered
  <2>6. command[m].nTimeout <= Proxy!Deadline(s)
    BY <2>1, <2>5 DEF DeadlineInv
  <2>7. Proxy!Deadline(s) \in Nat /\ now \in Nat
    BY <2>1, <2>5, DeadlineType DEF Facts
  <2>8. command[m].nTimeout \in Nat
    BY <2>1, <2>2, PoolThm!CommandRecord, PoolAssumptions
    DEF PoolInv, PoolThm!CommandRecord
  <2> QED
    BY <2>3, <2>5, <2>6, <2>7, <2>8
<1> QED
  BY <1>1, ServiceCorrect, PTL DEF Spec, NoLateExecution

\* A session times out only when its answer was not among those fetched: onTimer()
\* comes after the last of them.
THEOREM AnswerBeatsCorrect == Spec => AnswerBeatsTimeout
<1>1. ServiceInv /\ [Next]_vars =>
        [\A s \in m_mapPendingResponseInfo :
           (timer = "loop" /\ timer' = "callback" /\ s \notin m_mapPendingResponseInfo')
             => \A i \in DOMAIN received : received[i] # commandOf[s]]_vars
  <2> SUFFICES ASSUME ServiceInv, NEW s \in m_mapPendingResponseInfo, timer = "loop",
                      NEW i \in DOMAIN received, received[i] = commandOf[s]
               PROVE  FALSE
    OBVIOUS
  <2>1. Facts /\ LoopInv /\ HandledInv
    BY ComponentFacts DEF ServiceInv
  <2>2. i \in 1 .. handled /\ s \in Session
    BY <2>1 DEF Facts, LoopInv
  <2> QED
    BY <2>1, <2>2 DEF HandledInv
<1> QED
  BY <1>1, ServiceCorrect, PTL DEF Spec, AnswerBeatsTimeout
=============================================================================
