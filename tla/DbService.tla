------------------------------ MODULE DbService ------------------------------
(***************************************************************************)
(* The client proxy and the thread pool in one process, put together as the *)
(* repository's own program does (CMyDbProxy of test.cpp): sendRequest() is *)
(* db::query(), and update(), called again and again by the main loop,      *)
(* fetches the answers, hands each to onMessage() and ends with onTimer().  *)
(*                                                                          *)
(* The pool's threads, update() and the clock interleave.  The deadlines of *)
(* the two sides are taken from one request: the caller is told kRC_TIME_OUT*)
(* after its timeout, the pool drops the command after half of it.          *)
(***************************************************************************)
EXTENDS Integers, Sequences

CONSTANTS
  Client,              \* addresses CDbClient objects can live at
  Timeout,             \* the timeouts of requests, in seconds
  AssociateId,         \* the associate_id of the requests
  ThreadCount,         \* nDbThreadCount
  NoTimeout, End,      \* model values of DbProxy
  MaxSession,          \* bound: sessions in one behaviour
  MaxCommand,          \* bound: commands in one behaviour
  MaxTime              \* bound: the clock stops there

ASSUME ThreadCountAssumption == ThreadCount \in Nat \ {0}
ASSUME RequestAssumption     == AssociateId \subseteq Nat /\ Timeout \subseteq Nat
ASSUME EndAssumption         == NoTimeout \notin Nat /\ End \notin Nat
ASSUME BoundAssumption       ==
  MaxSession \in Nat /\ MaxCommand \in Nat /\ MaxTime \in Nat \ {0}

VARIABLES
  now,
  \* CDbProxy
  alive, session, m_mapPendingResponseInfo, m_mapPendingResponseInfoByDbClient,
  m_listTimeout, timer, nCurTime, iter, broken, delivered, cancelled, entered,
  \* CDbThreadMgr
  command, broadcast, m_listCommand, listCommand, pc, m_quit, isConnect, link,
  m_listResultInfo, received, joining, quitMark,
  \* CMyDbProxy
  update,              \* update(): "idle", "messages" or "timer"
  handled,             \* how many of the answers fetched were given to onMessage()
  commandOf            \* per session, the command that carries its session_id

proxyVars == <<alive, session, m_mapPendingResponseInfo, m_mapPendingResponseInfoByDbClient,
               m_listTimeout, timer, nCurTime, iter, broken, delivered, cancelled, entered>>
poolVars  == <<command, broadcast, m_listCommand, listCommand, pc, m_quit, isConnect, link,
               m_listResultInfo, received, joining, quitMark>>
loopVars  == <<update, handled>>
vars == <<now, proxyVars, poolVars, loopVars, commandOf>>

Proxy == INSTANCE DbProxy WITH
  Kind <- {"read"}, ResponseCode <- {"kRC_OK"},
  DestroyInCallback <- FALSE, DestroyWithNop <- FALSE
\* A nop and a write have no timeout: 0.
Pool == INSTANCE DbThreadMgr WITH
  DeadLinkErrno <- 2006, Caching <- FALSE, Timeout <- Timeout \cup {0}

Session == DOMAIN session
Worker == 0 .. ThreadCount - 1

Init ==
  /\ Proxy!Init
  /\ Pool!Init
  /\ update = "idle"
  /\ handled = 0
  /\ commandOf = << >>

-----------------------------------------------------------------------------
(* The main loop, and the callbacks it gets into.                           *)

\* The destructor of CMyDbProxy has not been entered.
Running == joining = -1

Create(c) ==
  /\ Running
  /\ Proxy!Create(c)
  /\ UNCHANGED <<poolVars, loopVars, commandOf>>

Destroy(c) ==
  /\ Running
  /\ Proxy!Destroy(c)
  /\ UNCHANGED <<poolVars, loopVars, commandOf>>

\* select, query or call_r: a session of the proxy and a command of the pool, with
\* the same timeout, counted from the second in which each of the two reads the clock.
Request(c, key, timeout) ==
  /\ Running
  /\ Proxy!Request(c, "read", timeout)
  /\ Pool!Query(key, TRUE, timeout)
  /\ commandOf' = Append(commandOf, Len(command'))
  /\ UNCHANGED loopVars

nop(c, key) ==
  /\ Running
  /\ Proxy!nop(c)
  /\ Pool!Query(key, TRUE, 0)
  /\ commandOf' = Append(commandOf, Len(command'))
  /\ UNCHANGED loopVars

\* remove, update, insert or call: nobody waits for the answer.
Write(c, key) ==
  /\ Running
  /\ Proxy!CallerRuns
  /\ c \in alive
  /\ Pool!Query(key, FALSE, 0)
  /\ UNCHANGED <<now, proxyVars, loopVars, commandOf>>

\* update() is entered: db::getResultInfo.
Fetch ==
  /\ Running
  /\ update = "idle"
  /\ update' = "messages"
  /\ \/ Pool!GetResultInfo
     \/ m_listResultInfo = << >> /\ UNCHANGED <<now, poolVars>>
  /\ UNCHANGED <<proxyVars, handled, commandOf>>

\* The session an answer names in its session_id.
SessionOf(n) == CHOOSE s \in Session : commandOf[s] = n

\* Mutant: onMessage() is given the last answer again and again.
DeliverLast ==
  /\ update = "messages"
  /\ handled < Len(received)
  /\ handled' = handled + 1
  /\ LET s == SessionOf(received[Len(received)])
     IN  \/ Proxy!onMessage(s, "kRC_OK")
         \/ s \notin m_mapPendingResponseInfo /\ UNCHANGED <<now, proxyVars>>
  /\ UNCHANGED <<poolVars, update, commandOf>>

\* The next answer of the list goes to onMessage(), which ignores it when its
\* session has ended.
Deliver ==
  /\ update = "messages"
  /\ handled < Len(received)
  /\ handled' = handled + 1
  /\ LET s == SessionOf(received[handled + 1])
     IN  \/ Proxy!onMessage(s, "kRC_OK")
         \/ s \notin m_mapPendingResponseInfo /\ UNCHANGED <<now, proxyVars>>
  /\ UNCHANGED <<poolVars, update, commandOf>>

\* Mutant: the loop over the answers may be left early.
EnterTimerEarly ==
  /\ update = "messages"
  /\ update' = "timer"
  /\ Proxy!EnterTimer
  /\ UNCHANGED <<poolVars, handled, commandOf>>

\* Every answer was handled: onTimer() is called.
EnterTimer ==
  /\ update = "messages"
  /\ handled = Len(received)
  /\ update' = "timer"
  /\ Proxy!EnterTimer
  /\ UNCHANGED <<poolVars, handled, commandOf>>

\* onTimer() runs, and update() returns when it does.
Timer ==
  /\ update = "timer"
  /\ \/ (Proxy!Expire \/ Proxy!CallbackReturns) /\ UNCHANGED update
     \/ Proxy!LeaveTimer /\ update' = "idle"
  /\ UNCHANGED <<poolVars, handled, commandOf>>

UpdateStep == Fetch \/ Deliver \/ EnterTimer \/ Timer

\* ~CMyDbProxy: db::release, after the clients are gone.
Release ==
  /\ update = "idle"
  /\ alive = {}
  /\ Pool!Release
  /\ UNCHANGED <<proxyVars, loopVars, commandOf>>

-----------------------------------------------------------------------------
(* The threads and the clock.                                               *)

Thread(w) == Pool!Thread(w) /\ UNCHANGED <<proxyVars, loopVars, commandOf>>

JoinThread(w) ==
  /\ Pool!SetQuit(w) \/ Pool!Join(w)
  /\ UNCHANGED <<proxyVars, loopVars, commandOf>>

Tick == Proxy!Tick /\ UNCHANGED <<poolVars, loopVars, commandOf>>

Next ==
  \/ \E c \in Client :
       \/ Create(c) \/ Destroy(c)
       \/ \E key \in AssociateId :
            \/ nop(c, key) \/ Write(c, key)
            \/ \E timeout \in Timeout : Request(c, key, timeout)
  \/ UpdateStep
  \/ Release
  \/ \E w \in Worker : Thread(w) \/ JoinThread(w)
  \/ Tick

Spec == Init /\ [][Next]_vars

\* The main loop keeps calling update(), its callbacks return, and time passes.
LoopFairness == WF_vars(UpdateStep) /\ WF_vars(Tick)

\* The threads keep running, every statement returns, and so does the thread inside
\* release().
PoolFairness == \A w \in Worker : WF_vars(Thread(w)) /\ WF_vars(JoinThread(w))

\* Only the caller's own loop is taken for granted.
FairSpec == Spec /\ LoopFairness

-----------------------------------------------------------------------------
(* Properties.                                                              *)

TypeOK ==
  /\ Proxy!TypeOK
  /\ Pool!TypeOK
  /\ update \in {"idle", "messages", "timer"}
  /\ handled \in 0 .. Len(received)
  /\ commandOf \in [Session -> DOMAIN command]

Told(s, code) == \E k \in DOMAIN delivered : delivered[k] = [s |-> s, code |-> code, sent |-> "none"]

\* A thread takes command n, having checked its deadline, and goes on to execute it.
PickedUp(n) ==
  \E w \in Worker :
    /\ pc[w] = "batch" /\ pc'[w] = "execute"
    /\ n = Head(listCommand[w])

\* A command whose caller was told kRC_TIME_OUT, and may ask again, is not picked up
\* any more (db_thread.cpp:132 drops it, at half the timeout).  One that was picked
\* up before may still run, and commit, after its caller has given up.  A timeout of
\* 0 is none for the pool and is left out: there the caller gives up at once.
NoLateExecution ==
  [][\A s \in Session :
       (command[commandOf[s]].nTimeout # 0 /\ PickedUp(commandOf[s]))
         => ~Told(s, "kRC_TIME_OUT")]_vars

\* A caller is told kRC_TIME_OUT only if its answer was not there when update()
\* fetched the answers: update() is messages first, timer last (test.cpp:51-61).
AnswerBeatsTimeout ==
  [][\A s \in m_mapPendingResponseInfo :
       (timer = "loop" /\ timer' = "callback" /\ s \notin m_mapPendingResponseInfo')
         => \A i \in DOMAIN received : received[i] # commandOf[s]]_vars

Answered(k) == delivered[k].sent # "none"

KeyOf(s) == command[commandOf[s]].key

\* The callbacks of the answers for one associate_id come in the order of the
\* requests, whatever timed out in between.
CallbacksInOrder ==
  \A j, k \in DOMAIN delivered :
    (j < k /\ Answered(j) /\ Answered(k) /\ KeyOf(delivered[j].s) = KeyOf(delivered[k].s))
      => delivered[j].s < delivered[k].s

\* Who is answered sees its own writes: when a request is answered, no command that
\* was sent before it for the same associate_id is still to be executed.
ReadsFollowWrites ==
  \A k \in DOMAIN delivered : Answered(k) =>
    \A n \in 1 .. commandOf[delivered[k].s] - 1 :
      command[n].key = KeyOf(delivered[k].s)
        => n \notin Pool!SetOf(Pool!Backlog(command[n].worker))

\* The iterator onTimer() keeps across a callback stays on the list: the sessions
\* the callback opens do not move it.
IteratorStaysValid == Proxy!IteratorStaysValid

Pending(s) == s \in m_mapPendingResponseInfo
Timed(s)   == Proxy!Deadline(s) # NoTimeout

\* Every request with a timeout ends while the caller's loop runs, even when the
\* threads are stuck and nothing ever answers (README.md:6).
TimedSessionsEnd ==
  \A s \in 1 .. MaxSession : (Pending(s) /\ Timed(s)) ~> ~Pending(s)

\* A nop has no timeout and waits for its answer alone: it gets it, behind whatever
\* is queued, as long as the threads run and every statement returns.
NopsEnd ==
  PoolFairness =>
    \A s \in 1 .. MaxSession : (Pending(s) /\ ~Timed(s)) ~> ~Pending(s)
=============================================================================
