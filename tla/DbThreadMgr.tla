----------------------------- MODULE DbThreadMgr -----------------------------
(***************************************************************************)
(* The pool of database threads: CDbThreadMgr (db_thread_mgr.cpp), the loop *)
(* of every CDbThread (db_thread.cpp) and the way db::query and db::release *)
(* (db_service.cpp) drive them.                                             *)
(*                                                                          *)
(* A command is a number, its submission order; command[n] is the SDbCommand*)
(* itself.  What a command does to the cache and to the table is the        *)
(* business of DbCache: here a command is served by the cache or by MySQL,  *)
(* and an answer is known by the number of its command.                     *)
(***************************************************************************)
EXTENDS Integers, Sequences

CONSTANTS
  ThreadCount,     \* nDbThreadCount
  AssociateId,     \* the associate_id of the requests
  Timeout,         \* the timeout of the requests, in seconds; 0 is none
  DeadLinkErrno,   \* what mysql_errno() returns for a statement on a dead session
  Caching,         \* nMaxCacheSize > 0: a command may be served from the cache
  MaxCommand,      \* bound: commands pushed in one behaviour
  MaxTime          \* bound: the clock stops there

ASSUME ThreadCountAssumption == ThreadCount \in Nat \ {0}
ASSUME AssociateIdAssumption == AssociateId \subseteq Nat
ASSUME TimeoutAssumption     == Timeout \subseteq Nat
ASSUME CachingAssumption     == Caching \in BOOLEAN
ASSUME BoundAssumption       == MaxCommand \in Nat /\ MaxTime \in Nat \ {0}

Worker == 0 .. ThreadCount - 1

kMET_LostConnection == 1

VARIABLES
  now,               \* time(nullptr)
  command,           \* command[n]: the n-th SDbCommand pushed to a worker
  broadcast,         \* next worker of a running kOT_FLUSH broadcast; ThreadCount: none runs
  m_listCommand,     \* per worker: pushed, not picked up
  listCommand,       \* per worker: the rest of the batch onProcess() walks through
  pc,                \* per worker: where its thread is
  m_quit,            \* per worker: set by join()
  isConnect,         \* per worker: m_pMysql is not null
  link,              \* per worker: the MySQL session behind m_pMysql is alive
  m_listResultInfo,  \* answers not fetched yet
  received,          \* answers fetched by db::getResultInfo, in order
  joining,           \* next worker exit() has to join; -1: release() not called
  quitMark           \* history: commands pushed so far when m_quit was set

clientVars == <<command, broadcast>>
exitVars   == <<m_quit, joining, quitMark>>
resultVars == <<m_listResultInfo, received>>
linkVars   == <<isConnect, link>>
vars == <<now, clientVars, m_listCommand, listCommand, pc, linkVars,
          resultVars, exitVars>>

Command ==
  [type : {"flush", "db"}, worker : Worker, key : AssociateId \cup {0},
   session : BOOLEAN, nTimeout : Nat]

Init ==
  /\ now = 1
  /\ command = << >>
  /\ broadcast = ThreadCount
  /\ m_listCommand = [w \in Worker |-> << >>]
  /\ listCommand = [w \in Worker |-> << >>]
  /\ pc = [w \in Worker |-> "top"]
  /\ m_quit = [w \in Worker |-> FALSE]
  /\ isConnect = [w \in Worker |-> TRUE]
  /\ link = [w \in Worker |-> TRUE]
  /\ m_listResultInfo = << >>
  /\ received = << >>
  /\ joining = -1
  /\ quitMark = [w \in Worker |-> 0]

-----------------------------------------------------------------------------
(* The callers of db::query.                                               *)

\* The connection of a command: vecDbThread index modulo the pool's size.
Route(key) == key % ThreadCount

\* Mutant: push_front.
PushFront(w, c) ==
  /\ Len(command) < MaxCommand
  /\ joining <= w
  /\ command' = Append(command, c)
  /\ m_listCommand' = [m_listCommand EXCEPT ![w] = <<Len(command')>> \o @]
  /\ UNCHANGED <<listCommand, pc, linkVars, resultVars, exitVars>>

\* CDbThread::query: one more command at the tail of a worker's list.  A worker
\* exit() has joined is deleted; a caller that looked the manager up before
\* release() unregistered it may still push to the others.
Push(w, c) ==
  /\ Len(command) < MaxCommand
  /\ joining <= w
  /\ command' = Append(command, c)
  /\ m_listCommand' = [m_listCommand EXCEPT ![w] = Append(@, Len(command'))]
  /\ UNCHANGED <<listCommand, pc, linkVars, resultVars, exitVars>>

\* The clock may turn to the next second on the way from the caller to the pool.
\* Bound: it does so once at most.
Passing == now' \in {now, now + 1} /\ now' <= MaxTime

\* A select, update, remove, insert, query, call or nop request.  db::query reads
\* the clock when the request reaches it.
Query(key, session, timeout) ==
  /\ Passing
  /\ Push(Route(key),
          [type |-> "db", worker |-> Route(key), key |-> key, session |-> session,
           nTimeout |-> IF timeout = 0 THEN 0 ELSE timeout \div 2 + now'])
  /\ UNCHANGED broadcast

FlushCommand(key, w) ==
  [type |-> "flush", worker |-> w, key |-> key, session |-> FALSE, nTimeout |-> 0]

\* A flush of one key goes to the worker of that key ...
QueryFlush(key) ==
  /\ key # 0
  /\ Push(Route(key), FlushCommand(key, Route(key)))
  /\ UNCHANGED <<now, broadcast>>

\* Mutant: the loop over the workers runs one index too far.
BroadcastFlushPastTheEnd ==
  /\ Push(broadcast, FlushCommand(0, broadcast))
  /\ broadcast' = broadcast + 1
  /\ UNCHANGED now

\* ... and a flush of key 0 to every worker, one lock after the other.
BroadcastFlush ==
  /\ LET w == broadcast % ThreadCount
     IN  /\ Push(w, FlushCommand(0, w))
         /\ broadcast' = w + 1
  /\ UNCHANGED now

GetResultInfo ==
  /\ m_listResultInfo # << >>
  /\ joining # ThreadCount
  /\ received' = received \o m_listResultInfo
  /\ m_listResultInfo' = << >>
  /\ UNCHANGED <<now, clientVars, m_listCommand, listCommand, pc, linkVars, exitVars>>

-----------------------------------------------------------------------------
(* The thread of worker w: onProcess() and the loop around it.             *)

At(w, label) == pc[w] = label
Goto(w, label) == pc' = [pc EXCEPT ![w] = label]

\* Entry of onProcess(): reconnect when there is no connection object.
EnterProcess(w) ==
  /\ At(w, "top")
  /\ link' = [link EXCEPT ![w] = @ \/ ~isConnect[w]]
  /\ isConnect' = [isConnect EXCEPT ![w] = TRUE]
  /\ Goto(w, "wait")
  /\ UNCHANGED <<now, clientVars, m_listCommand, listCommand, resultVars, exitVars>>

\* Nothing to do: release the lock and sleep in wait_for.
Sleep(w) ==
  /\ At(w, "wait")
  /\ m_listCommand[w] = << >>
  /\ Goto(w, "sleep")
  /\ UNCHANGED <<now, clientVars, m_listCommand, listCommand, linkVars, resultVars, exitVars>>

\* Mutant: wait() in place of wait_for().
WaitWithoutTimeout(w) ==
  /\ At(w, "sleep") /\ m_listCommand[w] # << >>
  /\ Goto(w, "check")
  /\ UNCHANGED <<now, clientVars, m_listCommand, listCommand, linkVars, resultVars, exitVars>>

\* wait_for gave up after a second; it may do so just as a command arrives.
WaitTimeout(w) ==
  /\ At(w, "sleep")
  /\ Goto(w, "check")
  /\ UNCHANGED <<now, clientVars, m_listCommand, listCommand, linkVars, resultVars, exitVars>>

\* Mutant: the list is copied, not spliced.
CopyBatch(w) ==
  /\ At(w, "wait") \/ At(w, "sleep")
  /\ m_listCommand[w] # << >>
  /\ listCommand' = [listCommand EXCEPT ![w] = @ \o m_listCommand[w]]
  /\ Goto(w, "batch")
  /\ UNCHANGED <<now, clientVars, m_listCommand, linkVars, resultVars, exitVars>>

\* The whole list becomes the batch.
TakeBatch(w) ==
  /\ At(w, "wait") \/ At(w, "sleep")
  /\ m_listCommand[w] # << >>
  /\ listCommand' = [listCommand EXCEPT ![w] = @ \o m_listCommand[w]]
  /\ m_listCommand' = [m_listCommand EXCEPT ![w] = << >>]
  /\ Goto(w, "batch")
  /\ UNCHANGED <<now, clientVars, linkVars, resultVars, exitVars>>

\* The command the iterator stands on.
Current(w) == command[Head(listCommand[w])]

Handling(w) == At(w, "batch") /\ listCommand[w] # << >>

\* ++iter: the command is settled.
Advance(w) ==
  /\ listCommand' = [listCommand EXCEPT ![w] = Tail(@)]
  /\ Goto(w, "batch")
  /\ UNCHANGED <<now, clientVars, m_listCommand, linkVars, exitVars>>

HandleFlush(w) ==
  /\ Handling(w)
  /\ Current(w).type = "flush"
  /\ Advance(w)
  /\ UNCHANGED resultVars

\* Overload protection: somebody waits for an answer, but no longer.
Expired(c) == c.nTimeout # 0 /\ c.nTimeout <= now /\ c.session

\* Mutant: discarded a second before its deadline.
DiscardEarly(w) ==
  /\ Handling(w)
  /\ Current(w).type # "flush"
  /\ Current(w).nTimeout # 0 /\ Current(w).nTimeout <= now + 1 /\ Current(w).session
  /\ Advance(w)
  /\ UNCHANGED resultVars

Discard(w) ==
  /\ Handling(w)
  /\ Current(w).type # "flush"
  /\ Expired(Current(w))
  /\ Advance(w)
  /\ UNCHANGED resultVars

\* Mutant: no overload protection.
PickUpOverdue(w) ==
  /\ Handling(w)
  /\ Current(w).type # "flush"
  /\ Goto(w, "execute")
  /\ UNCHANGED <<now, clientVars, m_listCommand, listCommand, linkVars, resultVars, exitVars>>

\* In time: the command goes to onPreCache() and onDbCommand().  What they do takes
\* as long as it takes: nothing looks at the deadline again.
PickUp(w) ==
  /\ Handling(w)
  /\ Current(w).type # "flush"
  /\ ~Expired(Current(w))
  /\ Goto(w, "execute")
  /\ UNCHANGED <<now, clientVars, m_listCommand, listCommand, linkVars, resultVars, exitVars>>

Executing(w) == At(w, "execute")

\* Mutant: addResultInfo() puts the answer first.
AnswerFirst(w) ==
  /\ Advance(w)
  /\ m_listResultInfo' =
       IF Current(w).session
       THEN <<Head(listCommand[w])>> \o m_listResultInfo
       ELSE m_listResultInfo
  /\ UNCHANGED received

\* Answer the current command, if its session asks for an answer, and go on.
Answer(w) ==
  /\ Advance(w)
  /\ m_listResultInfo' =
       IF Current(w).session
       THEN Append(m_listResultInfo, Head(listCommand[w]))
       ELSE m_listResultInfo
  /\ UNCHANGED received

\* onPreCache() has the answer: the database is not needed.
ServeFromCache(w) == Executing(w) /\ Caching /\ Answer(w)

\* The handler ran the statement: MySQL accepted or refused it (kRC_OK or
\* kRC_MYSQL_ERROR), or could not be reached and the error, then kRC_MYSQL_ERROR
\* too, is not the one the handlers take for a lost connection.
ServeFromDatabase(w) ==
  /\ Executing(w)
  /\ link[w] \/ DeadLinkErrno # kMET_LostConnection
  /\ Answer(w)

\* Mutant: the batch goes back to the end of the list.
LostConnectionToBack(w) ==
  /\ Executing(w)
  /\ ~link[w]
  /\ DeadLinkErrno = kMET_LostConnection
  /\ m_listCommand' = [m_listCommand EXCEPT ![w] = @ \o listCommand[w]]
  /\ listCommand' = [listCommand EXCEPT ![w] = << >>]
  /\ Goto(w, "check")
  /\ UNCHANGED <<now, clientVars, linkVars, resultVars, exitVars>>

\* kRC_LOST_CONNECTION: this command and the rest of the batch go back to the
\* front of the list, ahead of what was pushed in the meantime.
LostConnection(w) ==
  /\ Executing(w)
  /\ ~link[w]
  /\ DeadLinkErrno = kMET_LostConnection
  /\ m_listCommand' = [m_listCommand EXCEPT ![w] = listCommand[w] \o @]
  /\ listCommand' = [listCommand EXCEPT ![w] = << >>]
  /\ Goto(w, "check")
  /\ UNCHANGED <<now, clientVars, linkVars, resultVars, exitVars>>

FinishBatch(w) ==
  /\ At(w, "batch")
  /\ listCommand[w] = << >>
  /\ Goto(w, "check")
  /\ UNCHANGED <<now, clientVars, m_listCommand, listCommand, linkVars, resultVars, exitVars>>

\* Mutant: the loop ends on m_quit alone.
ExitAtOnce(w) ==
  /\ At(w, "check")
  /\ m_quit[w]
  /\ isConnect' = [isConnect EXCEPT ![w] = FALSE]
  /\ Goto(w, "exited")
  /\ UNCHANGED <<now, clientVars, m_listCommand, listCommand, link, resultVars, exitVars>>

\* The loop ends once m_quit is set and nothing is left; the connection is closed.
Exit(w) ==
  /\ At(w, "check")
  /\ m_quit[w]
  /\ m_listCommand[w] = << >>
  /\ isConnect' = [isConnect EXCEPT ![w] = FALSE]
  /\ Goto(w, "exited")
  /\ UNCHANGED <<now, clientVars, m_listCommand, listCommand, link, resultVars, exitVars>>

Loop(w) ==
  /\ At(w, "check")
  /\ ~m_quit[w] \/ m_listCommand[w] # << >>
  /\ Goto(w, "top")
  /\ UNCHANGED <<now, clientVars, m_listCommand, listCommand, linkVars, resultVars, exitVars>>

Thread(w) ==
  \/ EnterProcess(w) \/ Sleep(w) \/ WaitTimeout(w) \/ TakeBatch(w)
  \/ HandleFlush(w) \/ Discard(w) \/ PickUp(w) \/ ServeFromCache(w)
  \/ ServeFromDatabase(w) \/ LostConnection(w) \/ FinishBatch(w) \/ Exit(w) \/ Loop(w)

-----------------------------------------------------------------------------
(* db::release: exit() sets m_quit of a worker, joins it and deletes it,    *)
(* one worker after the other.                                              *)

Release ==
  /\ joining = -1
  /\ joining' = 0
  /\ UNCHANGED <<now, clientVars, m_listCommand, listCommand, pc, linkVars,
                 resultVars, m_quit, quitMark>>

SetQuit(w) ==
  /\ joining = w
  /\ ~m_quit[w]
  /\ m_quit' = [m_quit EXCEPT ![w] = TRUE]
  /\ quitMark' = [quitMark EXCEPT ![w] = Len(command)]
  /\ UNCHANGED <<now, clientVars, m_listCommand, listCommand, pc, linkVars,
                 resultVars, joining>>

Join(w) ==
  /\ joining = w
  /\ m_quit[w]
  /\ At(w, "exited")
  /\ joining' = w + 1
  /\ UNCHANGED <<now, clientVars, m_listCommand, listCommand, pc, linkVars,
                 resultVars, m_quit, quitMark>>

-----------------------------------------------------------------------------
(* The world.                                                               *)

\* The server drops the session (restart, wait_timeout, network).
LinkDown(w) ==
  /\ isConnect[w] /\ link[w]
  /\ link' = [link EXCEPT ![w] = FALSE]
  /\ UNCHANGED <<now, clientVars, m_listCommand, listCommand, pc, isConnect,
                 resultVars, exitVars>>

Tick ==
  /\ now < MaxTime
  /\ now' = now + 1
  /\ UNCHANGED <<clientVars, m_listCommand, listCommand, pc, linkVars,
                 resultVars, exitVars>>

Next ==
  \/ \E key \in AssociateId, session \in BOOLEAN, timeout \in Timeout :
       Query(key, session, timeout)
  \/ \E key \in AssociateId : QueryFlush(key)
  \/ BroadcastFlush
  \/ GetResultInfo
  \/ \E w \in Worker : Thread(w) \/ SetQuit(w) \/ Join(w) \/ LinkDown(w)
  \/ Release
  \/ Tick

Spec == Init /\ [][Next]_vars

\* Every thread keeps running, and the thread inside release() does too: a statement
\* MySQL was given returns, with a result or an error.  Nothing forces a request, an
\* answer to be fetched, the clock or a fault.
Fairness ==
  /\ \A w \in Worker : WF_vars(Thread(w))
  /\ \A w \in Worker : WF_vars(SetQuit(w) \/ Join(w))

FairSpec == Spec /\ Fairness

-----------------------------------------------------------------------------
(* Properties.                                                              *)

\* The types, and that a thread executes nothing but a command of its batch.
TypeOK ==
  /\ now \in Nat
  /\ command \in Seq(Command)
  /\ broadcast \in 0 .. ThreadCount
  /\ m_listCommand \in [Worker -> Seq(Nat)]
  /\ listCommand \in [Worker -> Seq(Nat)]
  /\ pc \in [Worker -> {"top", "wait", "sleep", "batch", "execute", "check", "exited"}]
  /\ m_quit \in [Worker -> BOOLEAN]
  /\ isConnect \in [Worker -> BOOLEAN]
  /\ link \in [Worker -> BOOLEAN]
  /\ m_listResultInfo \in Seq(Nat)
  /\ received \in Seq(Nat)
  /\ joining \in -1 .. ThreadCount
  /\ quitMark \in [Worker -> Nat]
  /\ \A w \in Worker : Executing(w) => listCommand[w] # << >>

\* The unsettled commands of a worker, oldest first.
Backlog(w) == listCommand[w] \o m_listCommand[w]

\* Every answer so far, fetched or not, oldest first.
Answers == received \o m_listResultInfo

SetOf(s) == {s[i] : i \in DOMAIN s}

\* Requests of one associate_id are answered in the order they were submitted,
\* and none twice: the "no timing problem" the routing by primary key is for
\* (README.md:5), through batches, lost connections and interleaved fetches.
RepliesInOrder ==
  \A i, j \in DOMAIN Answers :
    (i < j /\ command[Answers[i]].key = command[Answers[j]].key)
      => Answers[i] < Answers[j]

\* A request somebody waits for never just disappears: it is still queued, it has
\* been answered, or the deadline db::query gave it has passed (db_thread.cpp:132).
AnsweredOrExpired ==
  \A n \in DOMAIN command :
    command[n].session =>
      \/ n \in SetOf(Backlog(command[n].worker))
      \/ n \in SetOf(Answers)
      \/ Expired(command[n])

\* release() loses nothing: when a thread has ended, whatever is left in its list
\* was pushed after join() had told it to quit (db_thread.cpp:74).
QuitDrains ==
  \A w \in Worker : At(w, "exited") =>
    \A n \in SetOf(Backlog(w)) : n > quitMark[w]

Abstract == INSTANCE OrderedExecution WITH
  Connection <- Worker,
  issued     <- Len(command),
  queue      <- [w \in Worker |-> Backlog(w)],
  answered   <- Answers

\* The pool implements one FIFO queue per connection.
ImplementsOrderedExecution == Abstract!Spec

Unsettled(n) == n \in DOMAIN command /\ n \in SetOf(Backlog(command[n].worker))

\* A command that is pushed before its worker is told to quit is settled once the
\* thread is scheduled fairly, whether it was sleeping, walking through an earlier
\* batch or about to leave its loop: a wait_for() that gives up, a session that dies
\* and a release() that starts in between only delay it.
CommandsSettled ==
  \A n \in 1 .. MaxCommand :
    (Unsettled(n) /\ ~m_quit[command[n].worker]) ~> ~Unsettled(n)

\* release() returns: every thread notices m_quit although join() does not
\* notify the condition variable it may be sleeping on.
ReleaseReturns == (joining # -1) ~> (joining = ThreadCount)

\* "kMET_LostConnection = 1, // connection lost" (db_connection.h:18): a command
\* the cache has no part in and whose session is gone is kept for a retry, and not
\* settled with an error.
KeptOnLostConnection ==
  [][\A w \in Worker :
       (~link[w] /\ Executing(w) /\ ~Caching)
         => SetOf(Backlog(w)) \subseteq SetOf(Backlog(w)')]_vars
=============================================================================
