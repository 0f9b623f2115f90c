------------------------- MODULE DbThreadMgr_proofs -------------------------
(***************************************************************************)
(* What holds of the thread pool for every number of threads, every set of  *)
(* keys and timeouts and every bound.                                       *)
(***************************************************************************)
EXTENDS DbThreadMgr, SequenceTheorems, TLAPS

-----------------------------------------------------------------------------
(* Sequences.                                                               *)

\* Appending to the second part of a concatenation appends to the whole.
LEMMA ConcatAppend ==
  ASSUME NEW S, NEW s \in Seq(S), NEW t \in Seq(S), NEW e \in S
  PROVE  s \o Append(t, e) = Append(s \o t, e)
PROOF OBVIOUS

\* The same, quantified, for the lists of command numbers.
LEMMA ConcatAppendNat ==
  \A s, t \in Seq(Nat), e \in Nat : s \o Append(t, e) = Append(s \o t, e)
BY ConcatAppend

\* The head and the tail of a concatenation are those of its first part.
LEMMA ConcatTail ==
  ASSUME NEW S, NEW s \in Seq(S), NEW t \in Seq(S), s # << >>
  PROVE  /\ s \o t # << >>
         /\ Head(s \o t) = Head(s)
         /\ Tail(s \o t) = Tail(s) \o t
PROOF OBVIOUS

\* The empty sequence is neutral for concatenation.
LEMMA ConcatEmpty ==
  ASSUME NEW S, NEW s \in Seq(S)
  PROVE  << >> \o s = s /\ s \o << >> = s
PROOF OBVIOUS

-----------------------------------------------------------------------------
(* Types.                                                                   *)

\* The modulo of CDbThreadMgr::query picks an existing worker.
LEMMA RouteType == \A key \in Nat : Route(key) \in Worker
BY ThreadCountAssumption DEF Route, Worker

\* Half a timeout from now is a time.
LEMMA HalfType == \A t, n \in Nat : (IF t = 0 THEN 0 ELSE t \div 2 + n) \in Nat
OBVIOUS

\* A push keeps the types.
LEMMA PushType ==
  ASSUME TypeOK, NEW w \in Worker, NEW c \in Command, Push(w, c), broadcast' \in 0 .. ThreadCount,
         now' \in Nat
  PROVE  TypeOK'
BY DEF TypeOK, Push, linkVars, resultVars, exitVars, Executing, At

\* The flush commands of a broadcast are commands.
LEMMA FlushCommandType ==
  \A key \in AssociateId \cup {0}, w \in Worker : FlushCommand(key, w) \in Command
BY DEF FlushCommand, Command

\* Settling the current command without an answer keeps the types.
LEMMA AdvanceType ==
  ASSUME TypeOK, NEW w \in Worker, listCommand[w] # << >>, Advance(w),
         m_listResultInfo' \in Seq(Nat), received' \in Seq(Nat)
  PROVE  TypeOK' /\ Head(listCommand[w]) \in Nat
BY HeadTailProperties
DEF TypeOK, Advance, Goto, Executing, At, clientVars, linkVars, exitVars

\* Answering the current command keeps the types.
LEMMA AnswerType ==
  ASSUME TypeOK, NEW w \in Worker, listCommand[w] # << >>, Answer(w)
  PROVE  TypeOK'
<1>1. Head(listCommand[w]) \in Nat
  BY HeadTailProperties DEF TypeOK
<1>2. m_listResultInfo' \in Seq(Nat) /\ received' \in Seq(Nat)
  BY <1>1 DEF TypeOK, Answer
<1> QED
  BY <1>2, AdvanceType DEF Answer

\* A step of a thread keeps the types.
LEMMA ThreadType ==
  ASSUME TypeOK, NEW w \in Worker, Thread(w)
  PROVE  TypeOK'
<1> USE DEF TypeOK, At, Goto, Executing, clientVars, linkVars, resultVars, exitVars
<1>1. CASE EnterProcess(w)
  BY <1>1 DEF EnterProcess
<1>2. CASE Sleep(w)
  BY <1>2 DEF Sleep
<1>3. CASE WaitTimeout(w)
  BY <1>3 DEF WaitTimeout
<1>4. CASE TakeBatch(w)
  BY <1>4 DEF TakeBatch
<1>5. CASE HandleFlush(w)
  BY <1>5, AdvanceType DEF HandleFlush, Handling
<1>6. CASE Discard(w)
  BY <1>6, AdvanceType DEF Discard, Handling
<1>7. CASE ServeFromCache(w)
  BY <1>7, AnswerType DEF ServeFromCache
<1>8. CASE ServeFromDatabase(w)
  BY <1>8, AnswerType DEF ServeFromDatabase
<1>9. CASE LostConnection(w)
  BY <1>9 DEF LostConnection
<1>10. CASE FinishBatch(w)
  BY <1>10 DEF FinishBatch
<1>11. CASE Exit(w)
  BY <1>11 DEF Exit
<1>12. CASE Loop(w)
  BY <1>12 DEF Loop
<1>13. CASE PickUp(w)
  BY <1>13 DEF PickUp, Handling
<1> QED
  BY <1>1, <1>2, <1>3, <1>4, <1>5, <1>6, <1>7, <1>8, <1>9, <1>10, <1>11, <1>12, <1>13
  DEF Thread

\* The types are inductive.
LEMMA NextType == TypeOK /\ [Next]_vars => TypeOK'
<1> SUFFICES ASSUME TypeOK, [Next]_vars PROVE TypeOK'
  OBVIOUS
<1> USE DEF clientVars, linkVars, resultVars, exitVars
<1>1. ASSUME NEW key \in AssociateId, NEW session \in BOOLEAN, NEW timeout \in Timeout,
             Query(key, session, timeout)
      PROVE  TypeOK'
  <2>1. PICK c \in Command : Push(Route(key), c)
    <3>1. key \in Nat /\ timeout \in Nat /\ now' \in Nat
      BY <1>1, AssociateIdAssumption, TimeoutAssumption DEF Query, Passing, TypeOK
    <3>2. (IF timeout = 0 THEN 0 ELSE timeout \div 2 + now') \in Nat
      BY <3>1, HalfType
    <3> QED
      BY <1>1, <3>1, <3>2, RouteType DEF Query, Command
  <2>2. now' \in Nat /\ broadcast' \in 0 .. ThreadCount
    BY <1>1 DEF Query, Passing, TypeOK
  <2> QED
    BY <2>1, <2>2, PushType, RouteType, AssociateIdAssumption
<1>2. ASSUME NEW key \in AssociateId, QueryFlush(key)
      PROVE  TypeOK'
  BY <1>2, FlushCommandType, PushType, RouteType, AssociateIdAssumption
  DEF QueryFlush, TypeOK
<1>3. CASE BroadcastFlush
  <2> DEFINE w == broadcast % ThreadCount
  <2>1. w \in Worker /\ w + 1 \in 0 .. ThreadCount
    BY ThreadCountAssumption DEF TypeOK, Worker
  <2>2. FlushCommand(0, w) \in Command
    BY <2>1, FlushCommandType
  <2>3. now' \in Nat
    BY <1>3 DEF BroadcastFlush, TypeOK
  <2> QED
    BY <1>3, <2>1, <2>2, <2>3, PushType DEF BroadcastFlush
<1>4. CASE GetResultInfo
  BY <1>4 DEF GetResultInfo, TypeOK, Executing, At
<1>5. ASSUME NEW w \in Worker, Thread(w)
      PROVE  TypeOK'
  BY <1>5, ThreadType
<1>6. ASSUME NEW w \in Worker, SetQuit(w)
      PROVE  TypeOK'
  BY <1>6 DEF SetQuit, TypeOK, Executing, At
<1>7. ASSUME NEW w \in Worker, Join(w)
      PROVE  TypeOK'
  BY <1>7, ThreadCountAssumption DEF Join, TypeOK, Executing, At, Worker
<1>8. ASSUME NEW w \in Worker, LinkDown(w)
      PROVE  TypeOK'
  BY <1>8 DEF LinkDown, TypeOK, Executing, At
<1>9. CASE Release
  BY <1>9, ThreadCountAssumption DEF Release, TypeOK, Executing, At
<1>10. CASE Tick
  BY <1>10 DEF Tick, TypeOK, Executing, At
<1>11. CASE UNCHANGED vars
  BY <1>11 DEF vars, TypeOK, Executing, At
<1> QED
  BY <1>1, <1>2, <1>3, <1>4, <1>5, <1>6, <1>7, <1>8, <1>9, <1>10, <1>11 DEF Next

\* The types hold initially.
LEMMA InitType == Init => TypeOK
BY ThreadCountAssumption DEF Init, TypeOK, Executing, At, Worker

\* In every state of every pool the variables have their types: every list holds
\* numbers of commands, and the broadcast and the join stay within the workers.
THEOREM TypeCorrect == Spec => []TypeOK
BY InitType, NextType, PTL DEF Spec
-----------------------------------------------------------------------------
(* What a step does to the backlogs and to the answers.                     *)

\* The backlog of a worker and the answers are sequences of command numbers.
LEMMA BacklogType ==
  ASSUME TypeOK
  PROVE  Answers \in Seq(Nat) /\ \A w \in Worker : Backlog(w) \in Seq(Nat)
BY ConcatProperties DEF TypeOK, Answers, Backlog

\* The elements of the tail of a list, by their position in the list, and back.
LEMMA TailElements ==
  ASSUME NEW s \in Seq(Nat), s # << >>
  PROVE  /\ Tail(s) \in Seq(Nat)
         /\ 1 \in DOMAIN s /\ Head(s) = s[1]
         /\ \A i \in DOMAIN Tail(s) : i \in Nat \ {0} /\ i + 1 \in DOMAIN s /\ Tail(s)[i] = s[i + 1]
         /\ \A i \in DOMAIN s : i = 1 \/ (i - 1 \in DOMAIN Tail(s) /\ Tail(s)[i - 1] = s[i])
OBVIOUS

\* The elements of a list with one more at its end.
LEMMA AppendElements ==
  ASSUME NEW S, NEW s \in Seq(S), NEW e \in S
  PROVE  /\ Append(s, e) \in Seq(S)
         /\ \A i \in DOMAIN Append(s, e) :
              i \in 1 .. Len(s) + 1 /\ Append(s, e)[i] = IF i = Len(s) + 1 THEN e ELSE s[i]
         /\ DOMAIN s = 1 .. Len(s) /\ DOMAIN Append(s, e) = 1 .. Len(s) + 1
BY AppendProperties

\* Only a thread inside its for loop holds a batch.
BatchInv == \A w \in Worker : ~At(w, "batch") /\ ~Executing(w) => listCommand[w] = << >>

\* A command that wants an answer is no flush, and its worker is the one its key
\* is routed to.
CommandInv ==
  \A n \in DOMAIN command :
    command[n].session =>
      command[n].type = "db" /\ command[n].worker = Route(command[n].key)

\* What is in a worker's lists was pushed to this worker.
OwnInv ==
  \A w \in Worker : \A i \in DOMAIN Backlog(w) :
    Backlog(w)[i] \in DOMAIN command /\ command[Backlog(w)[i]].worker = w

OthersUnchanged(w) == \A v \in Worker \ {w} : Backlog(v)' = Backlog(v)

PushStep(w) ==
  \E c \in Command :
    /\ c.worker = w
    /\ c.session => (c.type = "db" /\ w = Route(c.key))
    /\ command' = Append(command, c)
    /\ Backlog(w)' = Append(Backlog(w), Len(command) + 1)
    /\ OthersUnchanged(w)
    /\ Answers' = Answers

SettleStep(w) ==
  /\ command' = command
  /\ Backlog(w) # << >>
  /\ Backlog(w)' = Tail(Backlog(w))
  /\ OthersUnchanged(w)
  /\ LET c == command[Head(Backlog(w))]
     IN  \/ c.session /\ Answers' = Append(Answers, Head(Backlog(w)))
         \/ (c.session => Expired(c)) /\ Answers' = Answers

QuietStep ==
  /\ command' = command
  /\ \A v \in Worker : Backlog(v)' = Backlog(v)
  /\ Answers' = Answers

\* CDbThread::query is a PushStep.
LEMMA PushKind ==
  ASSUME TypeOK, NEW w \in Worker, NEW c \in Command, Push(w, c), c.worker = w,
         c.session => (c.type = "db" /\ w = Route(c.key))
  PROVE  PushStep(w)
<1>1. command' = Append(command, c)
  BY DEF Push
<1>2. Len(command') = Len(command) + 1 /\ Len(command) \in Nat
  BY <1>1 DEF TypeOK
<1>3. Backlog(w)' = Append(Backlog(w), Len(command) + 1)
  <2> DEFINE n == Len(command) + 1
  <2>1. m_listCommand'[w] = Append(m_listCommand[w], n) /\ listCommand'[w] = listCommand[w]
    BY <1>2 DEF Push, TypeOK
  <2>2. listCommand[w] \in Seq(Nat) /\ m_listCommand[w] \in Seq(Nat) /\ n \in Nat
    BY <1>2 DEF TypeOK
  <2> HIDE DEF n
  <2>3. listCommand[w] \o Append(m_listCommand[w], n)
          = Append(listCommand[w] \o m_listCommand[w], n)
    BY <2>2, ConcatAppendNat, Zenon
  <2>4. Backlog(w)' = Append(Backlog(w), n)
    BY <2>1, <2>3 DEF Backlog
  <2> QED
    BY <2>4 DEF n
<1>4. OthersUnchanged(w)
  BY DEF Push, TypeOK, Backlog, OthersUnchanged
<1>5. Answers' = Answers
  BY DEF Push, Answers, resultVars
<1> QED
  BY <1>1, <1>3, <1>4, <1>5 DEF PushStep

\* The command the thread works on is the head of its backlog.
LEMMA HeadOwn ==
  ASSUME TypeOK, OwnInv, NEW w \in Worker, listCommand[w] # << >>
  PROVE  /\ Head(Backlog(w)) = Head(listCommand[w])
         /\ Head(listCommand[w]) \in DOMAIN command
         /\ Backlog(w) # << >>
<1>1. /\ Backlog(w) # << >>
      /\ Head(Backlog(w)) = Head(listCommand[w])
  BY ConcatTail DEF TypeOK, Backlog
<1>2. Head(Backlog(w)) = Backlog(w)[1] /\ 1 \in DOMAIN Backlog(w)
  BY <1>1, BacklogType, TailElements
<1> QED
  BY <1>1, <1>2 DEF OwnInv

\* Settling the current command is a SettleStep.
LEMMA AdvanceKind ==
  ASSUME TypeOK, OwnInv, NEW w \in Worker, listCommand[w] # << >>, Advance(w),
         \/ Current(w).session /\ Answers' = Append(Answers, Head(listCommand[w]))
         \/ (Current(w).session => Expired(Current(w))) /\ Answers' = Answers
  PROVE  SettleStep(w)
<1>1. Backlog(w)' = Tail(Backlog(w))
  <2>1. listCommand'[w] = Tail(listCommand[w]) /\ m_listCommand'[w] = m_listCommand[w]
    BY DEF Advance, TypeOK
  <2>2. listCommand[w] \in Seq(Nat) /\ m_listCommand[w] \in Seq(Nat) /\ listCommand[w] # << >>
    BY DEF TypeOK
  <2> QED
    BY <2>1, <2>2, ConcatTail DEF Backlog
<1>2. OthersUnchanged(w)
  BY DEF Advance, TypeOK, Backlog, OthersUnchanged
<1>3. command' = command
  BY DEF Advance, clientVars
<1> QED
  BY <1>1, <1>2, <1>3, HeadOwn DEF SettleStep, Current

\* Answering the current command is a SettleStep.
LEMMA AnswerKind ==
  ASSUME TypeOK, OwnInv, NEW w \in Worker, listCommand[w] # << >>, Answer(w)
  PROVE  SettleStep(w)
<1>1. Head(listCommand[w]) \in Nat
  BY HeadTailProperties DEF TypeOK
<1>2. CASE Current(w).session
  <2>1. Answers' = Append(Answers, Head(listCommand[w]))
    <3>1. /\ m_listResultInfo' = Append(m_listResultInfo, Head(listCommand[w]))
          /\ received' = received
      BY <1>2 DEF Answer
    <3>2. received \in Seq(Nat) /\ m_listResultInfo \in Seq(Nat)
      BY DEF TypeOK
    <3> QED
      BY <1>1, <3>1, <3>2, ConcatAppend DEF Answers
  <2> QED
    BY <1>2, <2>1, AdvanceKind DEF Answer
<1>3. CASE ~Current(w).session
  BY <1>3, AdvanceKind DEF Answer, Answers
<1> QED
  BY <1>2, <1>3

\* A thread either settles the head of its own backlog or changes no backlog.
LEMMA ThreadKind ==
  ASSUME TypeOK, BatchInv, CommandInv, OwnInv, NEW w \in Worker, Thread(w)
  PROVE  QuietStep \/ SettleStep(w)
<1> USE DEF clientVars, resultVars, exitVars, linkVars
<1>1. ASSUME UNCHANGED <<command, m_listCommand, listCommand, resultVars>>
      PROVE  QuietStep
  BY <1>1 DEF QuietStep, Backlog, Answers
<1>2. CASE EnterProcess(w)
  BY <1>1, <1>2 DEF EnterProcess
<1>3. CASE Sleep(w) \/ WaitTimeout(w) \/ PickUp(w) \/ FinishBatch(w) \/ Exit(w) \/ Loop(w)
  BY <1>1, <1>3 DEF Sleep, WaitTimeout, PickUp, FinishBatch, Exit, Loop
<1>4. CASE TakeBatch(w)
  <2>1. listCommand[w] = << >>
    BY <1>4 DEF TakeBatch, BatchInv, Executing, At
  <2>2. Backlog(w)' = Backlog(w)
    BY <1>4, <2>1, ConcatEmpty DEF TakeBatch, TypeOK, Backlog
  <2> QED
    BY <1>4, <2>2 DEF TakeBatch, TypeOK, Backlog, Answers, QuietStep
<1>5. CASE LostConnection(w)
  <2>1. Backlog(w)' = Backlog(w)
    <3>1. /\ listCommand'[w] = << >>
          /\ m_listCommand'[w] = listCommand[w] \o m_listCommand[w]
      BY <1>5 DEF LostConnection, TypeOK
    <3>2. listCommand[w] \o m_listCommand[w] \in Seq(Nat)
      BY ConcatProperties DEF TypeOK
    <3> QED
      BY <3>1, <3>2, ConcatEmpty DEF Backlog
  <2> QED
    BY <1>5, <2>1 DEF LostConnection, TypeOK, Backlog, Answers, QuietStep
<1>6. CASE HandleFlush(w)
  <2>1. ~Current(w).session
    BY <1>6, HeadOwn DEF HandleFlush, Handling, CommandInv, Current
  <2> QED
    BY <1>6, <2>1, AdvanceKind DEF HandleFlush, Handling, Answers
<1>7. CASE Discard(w)
  BY <1>7, AdvanceKind DEF Discard, Handling, Answers
<1>8. CASE ServeFromCache(w) \/ ServeFromDatabase(w)
  BY <1>8, AnswerKind DEF ServeFromCache, ServeFromDatabase, TypeOK
<1> QED
  BY <1>2, <1>3, <1>4, <1>5, <1>6, <1>7, <1>8 DEF Thread

\* A step pushes one command to one worker, settles the oldest unsettled command
\* of one worker, or leaves every backlog and the answers alone.
LEMMA StepKinds ==
  ASSUME TypeOK, BatchInv, CommandInv, OwnInv, [Next]_vars
  PROVE  QuietStep \/ \E w \in Worker : PushStep(w) \/ SettleStep(w)
<1> USE DEF clientVars, resultVars, exitVars, linkVars
<1>1. ASSUME UNCHANGED <<command, m_listCommand, listCommand, resultVars>>
      PROVE  QuietStep
  BY <1>1 DEF QuietStep, Backlog, Answers
<1>2. ASSUME NEW key \in AssociateId, NEW session \in BOOLEAN, NEW timeout \in Timeout,
             Query(key, session, timeout)
      PROVE  PushStep(Route(key)) /\ Route(key) \in Worker
  <2> DEFINE c == [type |-> "db", worker |-> Route(key), key |-> key, session |-> session,
                   nTimeout |-> IF timeout = 0 THEN 0 ELSE timeout \div 2 + now']
  <2>1. Route(key) \in Worker
    BY RouteType, AssociateIdAssumption
  <2>2. key \in Nat /\ timeout \in Nat /\ now' \in Nat
    BY <1>2, AssociateIdAssumption, TimeoutAssumption DEF Query, Passing, TypeOK
  <2>3. (IF timeout = 0 THEN 0 ELSE timeout \div 2 + now') \in Nat
    BY <2>2, HalfType
  <2>4. c \in Command
    BY <2>1, <2>3 DEF Command
  <2>5. c.worker = Route(key) /\ c.type = "db" /\ c.key = key
    OBVIOUS
  <2>6. Push(Route(key), c)
    BY <1>2 DEF Query
  <2> HIDE DEF c
  <2> QED
    BY <2>1, <2>4, <2>5, <2>6, PushKind
<1>3. ASSUME NEW key \in AssociateId, QueryFlush(key)
      PROVE  PushStep(Route(key)) /\ Route(key) \in Worker
  <2>1. Route(key) \in Worker
    BY RouteType, AssociateIdAssumption
  <2> QED
    BY <1>3, <2>1, FlushCommandType, PushKind DEF QueryFlush, FlushCommand
<1>4. CASE BroadcastFlush
  <2>1. broadcast % ThreadCount \in Worker
    BY ThreadCountAssumption DEF TypeOK, Worker
  <2> QED
    BY <1>4, <2>1, FlushCommandType, PushKind DEF BroadcastFlush, FlushCommand
<1>5. CASE GetResultInfo
  <2>1. Answers' = Answers
    BY <1>5, ConcatEmpty, ConcatProperties DEF GetResultInfo, TypeOK, Answers
  <2> QED
    BY <1>5, <2>1 DEF GetResultInfo, QuietStep, Backlog
<1>6. ASSUME NEW w \in Worker, Thread(w)
      PROVE  QuietStep \/ SettleStep(w)
  BY <1>6, ThreadKind
<1>7. ASSUME NEW w \in Worker, SetQuit(w) \/ Join(w) \/ LinkDown(w)
      PROVE  QuietStep
  BY <1>1, <1>7 DEF SetQuit, Join, LinkDown
<1>8. CASE Release \/ Tick \/ UNCHANGED vars
  BY <1>1, <1>8 DEF Release, Tick, vars
<1> QED
  BY <1>2, <1>3, <1>4, <1>5, <1>6, <1>7, <1>8 DEF Next
-----------------------------------------------------------------------------
(* The order of the backlogs and of the answers.                            *)

SortedInv ==
  \A w \in Worker : \A i, j \in DOMAIN Backlog(w) :
    i < j => Backlog(w)[i] < Backlog(w)[j]

\* An answer is the answer to a command, and all that its worker has still to
\* settle was pushed later.
AnswerInv ==
  \A i \in DOMAIN Answers :
    /\ Answers[i] \in DOMAIN command
    /\ command[Answers[i]].session
    /\ \A w \in Worker : command[Answers[i]].worker = w =>
         \A k \in DOMAIN Backlog(w) : Answers[i] < Backlog(w)[k]

AnswersSorted ==
  \A i, j \in DOMAIN Answers :
    (i < j /\ command[Answers[i]].worker = command[Answers[j]].worker)
      => Answers[i] < Answers[j]

OrderInv ==
  /\ BatchInv
  /\ CommandInv
  /\ OwnInv
  /\ SortedInv
  /\ AnswerInv
  /\ AnswersSorted

\* BatchInv is inductive.
LEMMA BatchStep ==
  ASSUME TypeOK, BatchInv, [Next]_vars
  PROVE  BatchInv'
<1> USE DEF BatchInv, Executing, At, Goto, clientVars, resultVars, exitVars, linkVars
<1>1. ASSUME UNCHANGED <<listCommand, pc>>
      PROVE  BatchInv'
  BY <1>1
<1>2. ASSUME NEW w \in Worker, Thread(w)
      PROVE  BatchInv'
  <2> USE DEF TypeOK
  <2>1. CASE EnterProcess(w) \/ Sleep(w) \/ WaitTimeout(w) \/ Exit(w) \/ Loop(w)
    BY <2>1 DEF EnterProcess, Sleep, WaitTimeout, Exit, Loop
  <2>2. CASE TakeBatch(w)
    BY <2>2 DEF TakeBatch
  <2>3. CASE LostConnection(w) \/ FinishBatch(w)
    BY <2>3 DEF LostConnection, FinishBatch
  <2>4. ASSUME Advance(w)
        PROVE  BatchInv'
    BY <2>4 DEF Advance
  <2>5. CASE PickUp(w)
    BY <2>5 DEF PickUp, Handling
  <2> QED
    BY <1>2, <2>1, <2>2, <2>3, <2>4, <2>5
    DEF Thread, HandleFlush, Discard, ServeFromCache, ServeFromDatabase, Answer
<1>3. ASSUME NEW w \in Worker, SetQuit(w) \/ Join(w) \/ LinkDown(w)
      PROVE  BatchInv'
  BY <1>1, <1>3 DEF SetQuit, Join, LinkDown
<1>4. CASE BroadcastFlush \/ GetResultInfo \/ Release \/ Tick \/ UNCHANGED vars
  BY <1>1, <1>4 DEF BroadcastFlush, GetResultInfo, Release, Tick, vars, Push
<1>5. ASSUME NEW key \in AssociateId, NEW session \in BOOLEAN, NEW timeout \in Timeout,
             Query(key, session, timeout) \/ QueryFlush(key)
      PROVE  BatchInv'
  BY <1>1, <1>5 DEF Query, QueryFlush, Push
<1>6. ASSUME NEW key \in AssociateId, QueryFlush(key)
      PROVE  BatchInv'
  BY <1>1, <1>6 DEF QueryFlush, Push
<1> QED
  BY <1>2, <1>3, <1>4, <1>5, <1>6 DEF Next

\* A quiet step keeps everything OrderInv says of commands, backlogs and answers.
LEMMA QuietKeeps ==
  ASSUME TypeOK, OrderInv, QuietStep
  PROVE  CommandInv' /\ OwnInv' /\ SortedInv' /\ AnswerInv' /\ AnswersSorted'
<1> USE DEF OrderInv, QuietStep
<1>1. CommandInv'
  BY DEF CommandInv
<1>2. OwnInv' /\ SortedInv'
  BY DEF OwnInv, SortedInv
<1>3. AnswerInv' /\ AnswersSorted'
  BY DEF AnswerInv, AnswersSorted
<1> QED
  BY <1>1, <1>2, <1>3

\* So does a push: the new command is younger than all others.
LEMMA PushKeeps ==
  ASSUME TypeOK, OrderInv, NEW w \in Worker, PushStep(w)
  PROVE  CommandInv' /\ OwnInv' /\ SortedInv' /\ AnswerInv' /\ AnswersSorted'
<1> USE DEF OrderInv
<1>1. PICK c \in Command :
        /\ c.worker = w
        /\ c.session => (c.type = "db" /\ w = Route(c.key))
        /\ command' = Append(command, c)
        /\ Backlog(w)' = Append(Backlog(w), Len(command) + 1)
        /\ OthersUnchanged(w)
        /\ Answers' = Answers
  BY DEF PushStep
<1> DEFINE last == Len(command) + 1
<1>2. /\ last \in Nat
      /\ last \in DOMAIN command' /\ command'[last] = c
      /\ DOMAIN command = 1 .. Len(command) /\ DOMAIN command' = 1 .. last
      /\ \A n \in DOMAIN command :
           n \in DOMAIN command' /\ command'[n] = command[n] /\ n < last
  BY <1>1, AppendElements DEF TypeOK
<1>3. /\ DOMAIN Backlog(w)' = 1 .. Len(Backlog(w)) + 1
      /\ DOMAIN Backlog(w) = 1 .. Len(Backlog(w)) /\ Len(Backlog(w)) \in Nat
      /\ \A i \in DOMAIN Backlog(w)' :
           Backlog(w)'[i] = IF i = Len(Backlog(w)) + 1 THEN last ELSE Backlog(w)[i]
  <2> HIDE DEF last
  <2>1. Backlog(w) \in Seq(Nat) /\ last \in Nat
    BY <1>2, BacklogType
  <2>2. Backlog(w)' = Append(Backlog(w), last)
    BY <1>1 DEF last
  <2> QED
    BY <2>1, <2>2, AppendElements, LenProperties
<1> HIDE DEF last
<1>4. CommandInv'
  BY <1>1, <1>2 DEF CommandInv
<1>5. OwnInv'
  <2> SUFFICES ASSUME NEW v \in Worker, NEW i \in DOMAIN Backlog(v)'
               PROVE  Backlog(v)'[i] \in DOMAIN command' /\ command'[Backlog(v)'[i]].worker = v
    BY DEF OwnInv
  <2>1. CASE v # w
    BY <1>1, <1>2, <2>1 DEF OwnInv, OthersUnchanged
  <2>2. CASE v = w
    BY <1>1, <1>2, <1>3, <2>2 DEF OwnInv
  <2> QED
    BY <2>1, <2>2
<1>6. SortedInv'
  <2> SUFFICES ASSUME NEW v \in Worker, NEW i \in DOMAIN Backlog(v)',
                      NEW j \in DOMAIN Backlog(v)', i < j
               PROVE  Backlog(v)'[i] < Backlog(v)'[j]
    BY DEF SortedInv
  <2>1. CASE v # w
    BY <1>1, <2>1 DEF SortedInv, OthersUnchanged
  <2>2. CASE v = w
    <3>1. i \in DOMAIN Backlog(w) /\ Backlog(w)'[i] = Backlog(w)[i]
      BY <1>3, <2>2
    <3>2. CASE j = Len(Backlog(w)) + 1
      BY <1>2, <1>3, <2>2, <3>1, <3>2 DEF OwnInv
    <3>3. CASE j # Len(Backlog(w)) + 1
      BY <1>3, <2>2, <3>1, <3>3 DEF SortedInv
    <3> QED
      BY <3>2, <3>3
  <2> QED
    BY <2>1, <2>2
<1>7. AnswerInv'
  <2> SUFFICES ASSUME NEW i \in DOMAIN Answers, NEW v \in Worker
               PROVE  /\ Answers[i] \in DOMAIN command'
                      /\ command'[Answers[i]].session
                      /\ command'[Answers[i]].worker = v =>
                           \A k \in DOMAIN Backlog(v)' : Answers[i] < Backlog(v)'[k]
    BY <1>1, ThreadCountAssumption DEF AnswerInv, Worker
  <2>1. /\ Answers[i] \in DOMAIN command
        /\ command[Answers[i]].session
        /\ command'[Answers[i]] = command[Answers[i]]
        /\ Answers[i] < last
    BY <1>2 DEF AnswerInv
  <2>2. CASE v # w
    <3>1. Backlog(v)' = Backlog(v)
      BY <1>1, <2>2 DEF OthersUnchanged
    <3>2. command[Answers[i]].worker = v => \A k \in DOMAIN Backlog(v) : Answers[i] < Backlog(v)[k]
      BY DEF AnswerInv
    <3> QED
      BY <1>2, <2>1, <3>1, <3>2
  <2>3. CASE v = w
    <3>1. \A k \in DOMAIN Backlog(w) : command[Answers[i]].worker = w => Answers[i] < Backlog(w)[k]
      BY DEF AnswerInv
    <3>2. ASSUME NEW k \in DOMAIN Backlog(w)', command[Answers[i]].worker = w
          PROVE  Answers[i] < Backlog(w)'[k]
      <4>1. CASE k = Len(Backlog(w)) + 1
        BY <1>3, <2>1, <4>1
      <4>2. CASE k # Len(Backlog(w)) + 1
        BY <1>3, <3>1, <3>2, <4>2
      <4> QED
        BY <4>1, <4>2
    <3> QED
      BY <1>2, <2>1, <2>3, <3>2
  <2> QED
    BY <2>2, <2>3
<1>8. AnswersSorted'
  <2>1. \A i \in DOMAIN Answers : command'[Answers[i]] = command[Answers[i]]
    BY <1>2 DEF AnswerInv
  <2> QED
    <3> SUFFICES ASSUME NEW i \in DOMAIN Answers, NEW j \in DOMAIN Answers, i < j,
                        command'[Answers[i]].worker = command'[Answers[j]].worker
                 PROVE  Answers[i] < Answers[j]
      BY <1>1 DEF AnswersSorted
    <3> QED
      BY <2>1 DEF AnswersSorted
<1> QED
  BY <1>4, <1>5, <1>6, <1>7, <1>8

\* So does the settling of a head: it was older than the rest of its backlog.
LEMMA SettleKeeps ==
  ASSUME TypeOK, OrderInv, NEW w \in Worker, SettleStep(w)
  PROVE  CommandInv' /\ OwnInv' /\ SortedInv' /\ AnswerInv' /\ AnswersSorted'
<1> USE DEF OrderInv
<1> DEFINE first == Head(Backlog(w))
<1>1. /\ command' = command
      /\ Backlog(w) # << >>
      /\ Backlog(w)' = Tail(Backlog(w))
      /\ OthersUnchanged(w)
      /\ Answers' = Answers \/ (command[first].session /\ Answers' = Append(Answers, first))
  BY DEF SettleStep
<1>2. /\ 1 \in DOMAIN Backlog(w) /\ first = Backlog(w)[1]
      /\ \A i \in DOMAIN Backlog(w)' :
           /\ i \in Nat \ {0} /\ i + 1 \in DOMAIN Backlog(w)
           /\ Backlog(w)'[i] = Backlog(w)[i + 1]
  BY <1>1, BacklogType, TailElements
<1>3. first \in DOMAIN command /\ command[first].worker = w
  BY <1>2 DEF OwnInv
<1> HIDE DEF first
<1>4. CommandInv'
  BY <1>1 DEF CommandInv
<1>5. OwnInv'
  <2> SUFFICES ASSUME NEW v \in Worker, NEW i \in DOMAIN Backlog(v)'
               PROVE  Backlog(v)'[i] \in DOMAIN command /\ command[Backlog(v)'[i]].worker = v
    BY <1>1 DEF OwnInv
  <2>1. CASE v # w
    BY <1>1, <2>1 DEF OwnInv, OthersUnchanged
  <2>2. CASE v = w
    BY <1>2, <2>2 DEF OwnInv
  <2> QED
    BY <2>1, <2>2
<1>6. SortedInv'
  <2> SUFFICES ASSUME NEW v \in Worker, NEW i \in DOMAIN Backlog(v)',
                      NEW j \in DOMAIN Backlog(v)', i < j
               PROVE  Backlog(v)'[i] < Backlog(v)'[j]
    BY DEF SortedInv
  <2>1. CASE v # w
    BY <1>1, <2>1 DEF SortedInv, OthersUnchanged
  <2>2. CASE v = w
    BY <1>2, <2>2 DEF SortedInv
  <2> QED
    BY <2>1, <2>2
\* What is left of a backlog is what was in it, minus the oldest of w.
<1>7. \A v \in Worker : \A k \in DOMAIN Backlog(v)' :
        /\ \E m \in DOMAIN Backlog(v) : Backlog(v)'[k] = Backlog(v)[m]
        /\ v = w => first < Backlog(v)'[k]
  <2> SUFFICES ASSUME NEW v \in Worker, NEW k \in DOMAIN Backlog(v)'
               PROVE  /\ \E m \in DOMAIN Backlog(v) : Backlog(v)'[k] = Backlog(v)[m]
                      /\ v = w => first < Backlog(v)'[k]
    OBVIOUS
  <2>1. CASE v # w
    BY <1>1, <2>1 DEF OthersUnchanged
  <2>2. CASE v = w
    <3>1. k + 1 \in DOMAIN Backlog(w) /\ Backlog(w)'[k] = Backlog(w)[k + 1] /\ 1 < k + 1
      BY <1>2, <2>2
    <3> QED
      BY <1>2, <2>2, <3>1 DEF SortedInv
  <2> QED
    BY <2>1, <2>2
<1>8. ASSUME Answers' = Answers
      PROVE  AnswerInv' /\ AnswersSorted'
  <2>1. AnswersSorted'
    BY <1>1, <1>8 DEF AnswersSorted
  <2>2. AnswerInv'
    <3> SUFFICES ASSUME NEW i \in DOMAIN Answers, NEW v \in Worker
                 PROVE  /\ Answers[i] \in DOMAIN command
                        /\ command[Answers[i]].session
                        /\ command[Answers[i]].worker = v =>
                             \A k \in DOMAIN Backlog(v)' : Answers[i] < Backlog(v)'[k]
      BY <1>1, <1>8, ThreadCountAssumption DEF AnswerInv, Worker
    <3>1. /\ Answers[i] \in DOMAIN command
          /\ command[Answers[i]].session
          /\ command[Answers[i]].worker = v =>
               \A m \in DOMAIN Backlog(v) : Answers[i] < Backlog(v)[m]
      BY DEF AnswerInv
    <3> QED
      BY <1>7, <3>1
  <2> QED
    BY <2>1, <2>2
<1>9. ASSUME Answers' = Append(Answers, first), command[first].session
      PROVE  AnswerInv' /\ AnswersSorted'
  <2>1. /\ DOMAIN Answers' = 1 .. Len(Answers) + 1
        /\ DOMAIN Answers = 1 .. Len(Answers) /\ Len(Answers) \in Nat
        /\ \A i \in DOMAIN Answers' :
             Answers'[i] = IF i = Len(Answers) + 1 THEN first ELSE Answers[i]
    <3>1. Answers \in Seq(Nat) /\ first \in Nat
      BY <1>3, BacklogType DEF TypeOK
    <3> QED
      BY <1>9, <3>1, AppendElements, LenProperties
  <2>2. AnswerInv'
    <3> SUFFICES ASSUME NEW i \in DOMAIN Answers', NEW v \in Worker
                 PROVE  /\ Answers'[i] \in DOMAIN command
                        /\ command[Answers'[i]].session
                        /\ command[Answers'[i]].worker = v =>
                             \A k \in DOMAIN Backlog(v)' : Answers'[i] < Backlog(v)'[k]
      BY <1>1, ThreadCountAssumption DEF AnswerInv, Worker
    <3>1. CASE i = Len(Answers) + 1
      BY <1>3, <1>7, <1>9, <2>1, <3>1
    <3>2. CASE i # Len(Answers) + 1
      <4>1. i \in DOMAIN Answers /\ Answers'[i] = Answers[i]
        BY <2>1, <3>2
      <4>2. /\ Answers[i] \in DOMAIN command
            /\ command[Answers[i]].session
            /\ command[Answers[i]].worker = v =>
                 \A m \in DOMAIN Backlog(v) : Answers[i] < Backlog(v)[m]
        BY <4>1 DEF AnswerInv
      <4> QED
        BY <1>7, <4>1, <4>2
    <3> QED
      BY <3>1, <3>2
  <2>3. AnswersSorted'
    <3> SUFFICES ASSUME NEW i \in DOMAIN Answers', NEW j \in DOMAIN Answers', i < j,
                        command[Answers'[i]].worker = command[Answers'[j]].worker
                 PROVE  Answers'[i] < Answers'[j]
      BY <1>1 DEF AnswersSorted
    <3>1. i \in DOMAIN Answers /\ Answers'[i] = Answers[i]
      BY <2>1
    <3>2. CASE j = Len(Answers) + 1
      BY <1>2, <1>3, <2>1, <3>1, <3>2 DEF AnswerInv
    <3>3. CASE j # Len(Answers) + 1
      BY <2>1, <3>1, <3>3 DEF AnswersSorted
    <3> QED
      BY <3>2, <3>3
  <2> QED
    BY <2>2, <2>3
<1> QED
  BY <1>1, <1>4, <1>5, <1>6, <1>8, <1>9

\* OrderInv is inductive.
LEMMA OrderStep ==
  ASSUME TypeOK, OrderInv, [Next]_vars
  PROVE  OrderInv'
<1>1. QuietStep \/ \E w \in Worker : PushStep(w) \/ SettleStep(w)
  BY StepKinds DEF OrderInv
<1>2. CommandInv' /\ OwnInv' /\ SortedInv' /\ AnswerInv' /\ AnswersSorted'
  BY <1>1, QuietKeeps, PushKeeps, SettleKeeps
<1>3. BatchInv'
  BY BatchStep DEF OrderInv
<1> QED
  BY <1>2, <1>3 DEF OrderInv

\* Nothing is pending and nothing answered initially.
LEMMA InitEmpty == Init => Answers = << >> /\ \A w \in Worker : Backlog(w) = << >>
BY ConcatEmpty DEF Init, Answers, Backlog

\* OrderInv holds initially.
LEMMA InitOrder == Init => OrderInv
<1> SUFFICES ASSUME Init PROVE OrderInv
  OBVIOUS
<1>1. BatchInv /\ CommandInv
  BY DEF Init, BatchInv, CommandInv
<1>2. OwnInv /\ SortedInv /\ AnswerInv /\ AnswersSorted
  BY InitEmpty DEF OwnInv, SortedInv, AnswerInv, AnswersSorted
<1> QED
  BY <1>1, <1>2 DEF OrderInv

\* The inductive invariant of the pool holds in every state.
THEOREM OrderCorrect == Spec => [](TypeOK /\ OrderInv)
<1>1. Init => TypeOK /\ OrderInv
  BY InitType, InitOrder
<1>2. TypeOK /\ OrderInv /\ [Next]_vars => (TypeOK /\ OrderInv)'
  BY NextType, OrderStep
<1> QED
  BY <1>1, <1>2, PTL DEF Spec

\* Requests of one associate_id are answered in the order they were submitted, and
\* none twice, for every number of threads and commands: the routing of requests by
\* primary key together with the batches and requeues of db_thread.cpp.
THEOREM RepliesCorrect == Spec => []RepliesInOrder
<1>1. TypeOK /\ OrderInv => RepliesInOrder
  <2> SUFFICES ASSUME OrderInv, NEW i \in DOMAIN Answers, NEW j \in DOMAIN Answers, i < j,
                      command[Answers[i]].key = command[Answers[j]].key
               PROVE  Answers[i] < Answers[j]
    BY DEF RepliesInOrder
  <2>1. command[Answers[i]].worker = command[Answers[j]].worker
    BY DEF OrderInv, AnswerInv, CommandInv
  <2> QED
    BY <2>1 DEF OrderInv, AnswersSorted
<1> QED
  BY <1>1, OrderCorrect, PTL

-----------------------------------------------------------------------------
(* The pool implements one FIFO queue per connection.                       *)

\* The initial states of the pool are initial states of OrderedExecution.
LEMMA InitRefines == Init => Abstract!Init
<1> SUFFICES ASSUME Init PROVE Abstract!Init
  OBVIOUS
<1>1. Len(command) = 0
  BY DEF Init
<1> QED
  BY <1>1, InitEmpty DEF Abstract!Init

\* A push is a Submit, a settlement a Settle, a quiet step a stutter.
LEMMA StepRefines ==
  ASSUME TypeOK, OrderInv, [Next]_vars
  PROVE  [Abstract!Next]_(Abstract!vars)
<1> DEFINE queue == [w \in Worker |-> Backlog(w)]
<1>1. CASE QuietStep
  BY <1>1 DEF QuietStep, Abstract!vars
<1>2. ASSUME NEW w \in Worker, PushStep(w)
      PROVE  Abstract!Submit(w)
  <2>1. PICK c \in Command :
          /\ command' = Append(command, c)
          /\ Backlog(w)' = Append(Backlog(w), Len(command) + 1)
          /\ OthersUnchanged(w)
          /\ Answers' = Answers
    BY <1>2 DEF PushStep
  <2>2. Len(command') = Len(command) + 1
    BY <2>1 DEF TypeOK
  <2>3. queue' = [queue EXCEPT ![w] = Append(@, Len(command'))]
    BY <2>1, <2>2 DEF OthersUnchanged
  <2> QED
    BY <2>1, <2>2, <2>3 DEF Abstract!Submit
<1>3. ASSUME NEW w \in Worker, SettleStep(w)
      PROVE  Abstract!Settle(w)
  <2>1. queue' = [queue EXCEPT ![w] = Tail(@)]
    BY <1>3 DEF SettleStep, OthersUnchanged
  <2>2. queue[w] = Backlog(w)
    OBVIOUS
  <2> QED
    BY <1>3, <2>1, <2>2 DEF SettleStep, Abstract!Settle
<1> QED
  BY <1>1, <1>2, <1>3, StepKinds DEF OrderInv, Abstract!Next

\* Seen from outside, threads, batches, locks and lost connections are one FIFO
\* queue per connection, whose commands are answered at most once, when they leave it.
THEOREM Refinement == Spec => ImplementsOrderedExecution
<1>1. TypeOK /\ OrderInv /\ [Next]_vars => [Abstract!Next]_(Abstract!vars)
  BY StepRefines
<1> QED
  BY <1>1, InitRefines, OrderCorrect, PTL DEF Spec, ImplementsOrderedExecution, Abstract!Spec

-----------------------------------------------------------------------------
(* Nothing disappears.                                                      *)

\* The clock never goes back.
LEMMA ClockStep ==
  ASSUME TypeOK, [Next]_vars
  PROVE  now' \in Nat /\ now <= now'
<1> USE DEF clientVars, resultVars, exitVars, linkVars
<1>1. ASSUME now' = now
      PROVE  now' \in Nat /\ now <= now'
  BY <1>1 DEF TypeOK
<1>2. ASSUME NEW w \in Worker, Thread(w)
      PROVE  now' = now
  BY <1>2 DEF Thread, EnterProcess, Sleep, WaitTimeout, TakeBatch, HandleFlush, Discard,
              PickUp, ServeFromCache, ServeFromDatabase, LostConnection, FinishBatch, Exit, Loop,
              Answer, Advance
<1>3. ASSUME NEW w \in Worker, SetQuit(w) \/ Join(w) \/ LinkDown(w)
      PROVE  now' = now
  BY <1>3 DEF SetQuit, Join, LinkDown
<1>4. CASE BroadcastFlush \/ GetResultInfo \/ Release \/ UNCHANGED vars
  BY <1>1, <1>4 DEF BroadcastFlush, GetResultInfo, Release, vars
<1>5. ASSUME NEW key \in AssociateId, NEW session \in BOOLEAN, NEW timeout \in Timeout,
             Query(key, session, timeout)
      PROVE  now' \in Nat /\ now <= now'
  BY <1>5 DEF Query, Passing, TypeOK
<1>6. ASSUME NEW key \in AssociateId, QueryFlush(key)
      PROVE  now' = now
  BY <1>6 DEF QueryFlush
<1>7. CASE Tick
  BY <1>7 DEF Tick, TypeOK
<1> QED
  BY <1>1, <1>2, <1>3, <1>4, <1>5, <1>6, <1>7 DEF Next

\* What a command number stands for is a command.
LEMMA CommandRecord ==
  ASSUME TypeOK, NEW n \in DOMAIN command
  PROVE  /\ command[n] \in Command
         /\ command[n].worker \in Worker /\ command[n].nTimeout \in Nat
<1>1. command[n] \in Command
  <2>1. command \in Seq(Command)
    BY DEF TypeOK
  <2> QED
    BY <2>1, ElementOfSeq, LenProperties
<1> QED
  BY <1>1 DEF Command

\* An expired command stays expired.
LEMMA ExpiredStays ==
  ASSUME TypeOK, [Next]_vars, NEW n \in DOMAIN command, Expired(command[n])
  PROVE  command[n].nTimeout # 0 /\ command[n].nTimeout <= now' /\ command[n].session
<1>1. command[n].nTimeout \in Nat
  BY CommandRecord
<1>2. now \in Nat /\ now' \in Nat /\ now <= now'
  BY ClockStep DEF TypeOK
<1>3. command[n].nTimeout # 0 /\ command[n].nTimeout <= now /\ command[n].session
  BY DEF Expired
<1> QED
  BY <1>1, <1>2, <1>3

\* The members of a list with one more at its end.
LEMMA SetOfAppend ==
  \A s \in Seq(Nat), e \in Nat : SetOf(Append(s, e)) = SetOf(s) \cup {e}
<1> SUFFICES ASSUME NEW s \in Seq(Nat), NEW e \in Nat
             PROVE  SetOf(Append(s, e)) = SetOf(s) \cup {e}
  OBVIOUS
<1>1. Len(s) \in Nat /\ DOMAIN s = 1 .. Len(s)
  BY LenProperties
<1>2. /\ DOMAIN Append(s, e) = 1 .. Len(s) + 1
      /\ \A i \in 1 .. Len(s) + 1 : Append(s, e)[i] = IF i = Len(s) + 1 THEN e ELSE s[i]
  BY AppendElements
<1>3. ASSUME NEW x \in SetOf(Append(s, e))
      PROVE  x \in SetOf(s) \cup {e}
  BY <1>1, <1>2, <1>3 DEF SetOf
<1>4. ASSUME NEW i \in DOMAIN s
      PROVE  s[i] \in SetOf(Append(s, e))
  <2>1. i \in DOMAIN Append(s, e) /\ Append(s, e)[i] = s[i]
    BY <1>1, <1>2
  <2> QED
    BY <2>1 DEF SetOf
<1>5. e \in SetOf(Append(s, e))
  <2>1. Len(s) + 1 \in DOMAIN Append(s, e) /\ Append(s, e)[Len(s) + 1] = e
    BY <1>1, <1>2
  <2> QED
    BY <2>1 DEF SetOf
<1> QED
  BY <1>3, <1>4, <1>5 DEF SetOf

\* The members of a list are its head and the members of its tail.
LEMMA SetOfTail ==
  \A s \in Seq(Nat) : s # << >> => SetOf(s) = {Head(s)} \cup SetOf(Tail(s))
<1> SUFFICES ASSUME NEW s \in Seq(Nat), s # << >>
             PROVE  SetOf(s) = {Head(s)} \cup SetOf(Tail(s))
  OBVIOUS
<1>1. ASSUME NEW x \in SetOf(s)
      PROVE  x \in {Head(s)} \cup SetOf(Tail(s))
  <2>1. PICK i \in DOMAIN s : x = s[i]
    BY <1>1 DEF SetOf
  <2>2. i = 1 \/ (i - 1 \in DOMAIN Tail(s) /\ Tail(s)[i - 1] = s[i])
    BY TailElements
  <2>3. Head(s) = s[1]
    BY TailElements
  <2> QED
    BY <2>1, <2>2, <2>3 DEF SetOf
<1>2. ASSUME NEW i \in DOMAIN Tail(s)
      PROVE  Tail(s)[i] \in SetOf(s)
  BY TailElements DEF SetOf
<1>3. Head(s) \in SetOf(s)
  BY TailElements DEF SetOf
<1> QED
  BY <1>1, <1>2, <1>3 DEF SetOf

\* What is unsettled after a step, and what is answered.
LEMMA SettleSets ==
  ASSUME TypeOK, OrderInv, NEW w \in Worker, SettleStep(w)
  PROVE  /\ SetOf(Backlog(w)) = {Head(Backlog(w))} \cup SetOf(Backlog(w)')
         /\ \/ SetOf(Answers') = SetOf(Answers) \cup {Head(Backlog(w))}
            \/ /\ SetOf(Answers') = SetOf(Answers)
               /\ command[Head(Backlog(w))].session => Expired(command[Head(Backlog(w))])
<1>1. Backlog(w) \in Seq(Nat) /\ Answers \in Seq(Nat)
  BY BacklogType
<1>2. Head(Backlog(w)) \in Nat
  BY <1>1, HeadTailProperties DEF SettleStep
<1> QED
  BY <1>1, <1>2, SetOfAppend, SetOfTail DEF SettleStep

\* AnsweredOrExpired is preserved: by a push, the backlog grows; by a settlement, the
\* head is answered or has expired, and stays so.
LEMMA AnsweredStep ==
  ASSUME TypeOK, OrderInv, AnsweredOrExpired, [Next]_vars
  PROVE  AnsweredOrExpired'
<1> DEFINE Kept(n) == \/ n \in SetOf(Backlog(command[n].worker))
                      \/ n \in SetOf(Answers)
                      \/ Expired(command[n])
<1>1. \A n \in DOMAIN command : command[n].session => command[n].worker \in Worker /\ Kept(n)
  BY CommandRecord DEF AnsweredOrExpired
<1>2. CASE QuietStep
  <2> SUFFICES ASSUME NEW n \in DOMAIN command, command[n].session
               PROVE  Kept(n)'
    BY <1>2 DEF AnsweredOrExpired, QuietStep
  <2>1. Expired(command[n]) => Expired(command[n])'
    BY <1>2, ExpiredStays DEF Expired, QuietStep
  <2> QED
    BY <1>1, <1>2, <2>1 DEF QuietStep
<1>3. ASSUME NEW w \in Worker, PushStep(w)
      PROVE  AnsweredOrExpired'
  <2>1. PICK c \in Command :
          /\ c.worker = w
          /\ command' = Append(command, c)
          /\ Backlog(w)' = Append(Backlog(w), Len(command) + 1)
          /\ OthersUnchanged(w)
          /\ Answers' = Answers
    BY <1>3 DEF PushStep
  <2> DEFINE last == Len(command) + 1
  <2>2. /\ last \in Nat /\ command'[last] = c
        /\ \A n \in DOMAIN command' :
             n # last => n \in DOMAIN command /\ command'[n] = command[n]
    <3>1. command \in Seq(Command) /\ Len(command) \in Nat
      BY DEF TypeOK
    <3> QED
      BY <2>1, <3>1, AppendElements
  <2>3. SetOf(Backlog(w)') = SetOf(Backlog(w)) \cup {last}
    <3> HIDE DEF last
    <3> QED
      BY <2>1, <2>2, SetOfAppend, BacklogType DEF last
  <2> HIDE DEF last
  <2> SUFFICES ASSUME NEW n \in DOMAIN command', command'[n].session
               PROVE  Kept(n)'
    BY DEF AnsweredOrExpired
  <2>4. CASE n = last
    BY <2>1, <2>2, <2>3, <2>4
  <2>5. CASE n # last
    <3>1. n \in DOMAIN command /\ command'[n] = command[n]
      BY <2>2, <2>5
    <3>2. command[n].worker \in Worker /\ Kept(n)
      BY <1>1, <3>1
    <3>3. \A v \in Worker : SetOf(Backlog(v)) \subseteq SetOf(Backlog(v)')
      BY <2>1, <2>3 DEF OthersUnchanged
    <3>4. Expired(command[n]) => Expired(command[n])'
      BY <3>1, ExpiredStays DEF Expired
    <3>5. CASE n \in SetOf(Backlog(command[n].worker))
      BY <3>1, <3>2, <3>3, <3>5
    <3>6. CASE n \in SetOf(Answers)
      BY <2>1, <3>6
    <3>7. CASE Expired(command[n])
      BY <3>4, <3>7
    <3> QED
      BY <3>2, <3>5, <3>6, <3>7
  <2> QED
    BY <2>4, <2>5
<1>4. ASSUME NEW w \in Worker, SettleStep(w)
      PROVE  AnsweredOrExpired'
  <2>1. command' = command /\ OthersUnchanged(w)
    BY <1>4 DEF SettleStep
  <2> SUFFICES ASSUME NEW n \in DOMAIN command, command[n].session
               PROVE  Kept(n)'
    BY <2>1 DEF AnsweredOrExpired
  <2>2. command[n].worker \in Worker /\ Kept(n)
    BY <1>1
  <2>3. Expired(command[n]) => Expired(command[n])'
    BY <2>1, ExpiredStays DEF Expired
  <2>4. SetOf(Answers) \subseteq SetOf(Answers')
    BY <1>4, SettleSets
  <2>5. CASE n \in SetOf(Backlog(command[n].worker))
    <3>1. CASE command[n].worker # w
      BY <2>1, <2>2, <2>5, <3>1 DEF OthersUnchanged
    <3>2. CASE command[n].worker = w /\ n # Head(Backlog(w))
      BY <1>4, <2>1, <2>5, <3>2, SettleSets
    <3>3. CASE command[n].worker = w /\ n = Head(Backlog(w))
      BY <1>4, <2>1, <2>3, <3>3, SettleSets
    <3> QED
      BY <3>1, <3>2, <3>3
  <2> QED
    BY <2>1, <2>2, <2>3, <2>4, <2>5
<1> QED
  BY <1>2, <1>3, <1>4, StepKinds DEF OrderInv

\* A request somebody waits for is queued, or answered, or its deadline has passed:
\* db_thread.cpp discards no command before its time, whatever batches are requeued.
THEOREM AnsweredCorrect == Spec => []AnsweredOrExpired
<1>1. Init => AnsweredOrExpired
  BY DEF Init, AnsweredOrExpired
<1>2. TypeOK /\ OrderInv /\ AnsweredOrExpired /\ [Next]_vars => AnsweredOrExpired'
  BY AnsweredStep
<1> QED
  BY <1>1, <1>2, OrderCorrect, PTL DEF Spec

-----------------------------------------------------------------------------
(* release() drains every worker.                                           *)

\* A thread ends only after it was told to, and no mark lies ahead of the commands.
QuitInv ==
  \A w \in Worker :
    /\ quitMark[w] <= Len(command)
    /\ At(w, "exited") => m_quit[w]

\* A step submits one more command or none.
LEMMA PushLength ==
  ASSUME TypeOK, NEW w \in Worker, PushStep(w)
  PROVE  Len(command) <= Len(command')
BY DEF PushStep, TypeOK

\* A thread that has ended had ended before the step, with the same mark, or ends
\* in this step with nothing left.
LEMMA ExitStep ==
  ASSUME TypeOK, OrderInv, QuitInv, [Next]_vars, NEW v \in Worker
  PROVE  /\ quitMark'[v] <= Len(command')
         /\ At(v, "exited")' =>
              /\ m_quit'[v]
              /\ Backlog(v)' = << >> \/ (At(v, "exited") /\ quitMark'[v] = quitMark[v])
<1> DEFINE Goal == /\ quitMark'[v] <= Len(command')
                   /\ At(v, "exited")' =>
                        /\ m_quit'[v]
                        /\ \/ Backlog(v)' = << >>
                           \/ At(v, "exited") /\ quitMark'[v] = quitMark[v]
<1> SUFFICES Goal
  OBVIOUS
<1> USE DEF QuitInv, At, Goto, clientVars, resultVars, exitVars, linkVars
<1>1. Len(command) <= Len(command') /\ Len(command) \in Nat /\ Len(command') \in Nat
  <2>1. command' \in Seq(Command) /\ command \in Seq(Command)
    BY NextType DEF TypeOK
  <2>2. command' = command \/ \E w \in Worker : PushStep(w)
    BY StepKinds DEF OrderInv, QuietStep, SettleStep
  <2> QED
    BY <2>1, <2>2, PushLength
<1>2. quitMark[v] \in Nat /\ quitMark[v] <= Len(command')
  BY <1>1 DEF TypeOK
<1>3. ASSUME UNCHANGED <<pc, m_quit, quitMark>>
      PROVE  Goal
  BY <1>2, <1>3
<1>4. ASSUME NEW w \in Worker, Thread(w)
      PROVE  Goal
  <2>1. CASE Exit(w)
    <3>1. CASE v = w
      <4>1. listCommand[w] = << >>
        BY <2>1 DEF Exit, OrderInv, BatchInv, Executing
      <4>2. Backlog(w)' = << >>
        BY <2>1, <4>1, ConcatEmpty DEF Exit, Backlog, TypeOK
      <4> QED
        BY <1>2, <2>1, <3>1, <4>2 DEF Exit
    <3>2. CASE v # w
      BY <1>2, <2>1, <3>2 DEF Exit, TypeOK
    <3> QED
      BY <3>1, <3>2
  <2>2. CASE UNCHANGED <<m_quit, quitMark>> /\ (pc' = pc \/ \E l : l # "exited" /\ Goto(w, l))
    BY <1>2, <2>2 DEF TypeOK
  <2>3. CASE EnterProcess(w) \/ Sleep(w) \/ WaitTimeout(w) \/ TakeBatch(w) \/ LostConnection(w)
    BY <2>2, <2>3 DEF EnterProcess, Sleep, WaitTimeout, TakeBatch, LostConnection
  <2>4. CASE PickUp(w) \/ FinishBatch(w) \/ Loop(w)
    BY <2>2, <2>4 DEF PickUp, FinishBatch, Loop
  <2>5. CASE HandleFlush(w) \/ Discard(w) \/ ServeFromCache(w) \/ ServeFromDatabase(w)
    BY <2>2, <2>5 DEF HandleFlush, Discard, ServeFromCache, ServeFromDatabase, Answer, Advance
  <2> QED
    BY <1>4, <2>1, <2>3, <2>4, <2>5 DEF Thread
<1>5. ASSUME NEW w \in Worker, SetQuit(w)
      PROVE  Goal
  BY <1>1, <1>2, <1>5 DEF SetQuit, TypeOK
<1>6. ASSUME NEW w \in Worker, Join(w) \/ LinkDown(w)
      PROVE  Goal
  BY <1>3, <1>6 DEF Join, LinkDown
<1>7. CASE BroadcastFlush \/ GetResultInfo \/ Release \/ Tick \/ UNCHANGED vars
  BY <1>3, <1>7 DEF BroadcastFlush, GetResultInfo, Release, Tick, vars, Push
<1>8. ASSUME NEW key \in AssociateId, NEW session \in BOOLEAN, NEW timeout \in Timeout,
             Query(key, session, timeout)
      PROVE  Goal
  BY <1>3, <1>8 DEF Query, Push
<1>9. ASSUME NEW key \in AssociateId, QueryFlush(key)
      PROVE  Goal
  BY <1>3, <1>9 DEF QueryFlush, Push
<1> HIDE DEF Goal
<1> QED
  BY <1>4, <1>5, <1>6, <1>7, <1>8, <1>9 DEF Next

\* Only what is pushed in a step is new in a backlog.
LEMMA BacklogGrows ==
  ASSUME TypeOK, OrderInv, [Next]_vars, NEW v \in Worker
  PROVE  \A n \in SetOf(Backlog(v)') : n \in SetOf(Backlog(v)) \/ n = Len(command) + 1
<1>1. CASE QuietStep
  BY <1>1 DEF QuietStep
<1>2. ASSUME NEW w \in Worker, PushStep(w)
      PROVE  SetOf(Backlog(v)') \subseteq SetOf(Backlog(v)) \cup {Len(command) + 1}
  <2> DEFINE last == Len(command) + 1
  <2>1. last \in Nat /\ Backlog(w) \in Seq(Nat)
    BY BacklogType DEF TypeOK
  <2>2. Backlog(w)' = Append(Backlog(w), last)
    BY <1>2 DEF PushStep
  <2> HIDE DEF last
  <2>3. SetOf(Backlog(w)') = SetOf(Backlog(w)) \cup {last}
    BY <2>1, <2>2, SetOfAppend
  <2> QED
    BY <1>2, <2>3 DEF PushStep, OthersUnchanged, last
<1>3. ASSUME NEW w \in Worker, SettleStep(w)
      PROVE  SetOf(Backlog(v)') \subseteq SetOf(Backlog(v))
  BY <1>3, SettleSets DEF SettleStep, OthersUnchanged
<1> QED
  BY <1>1, <1>2, <1>3, StepKinds DEF OrderInv

\* QuitDrains is inductive together with QuitInv.
LEMMA QuitStep ==
  ASSUME TypeOK, OrderInv, QuitInv, QuitDrains, [Next]_vars
  PROVE  QuitInv' /\ QuitDrains'
<1>1. QuitInv'
  BY ExitStep DEF QuitInv
<1>2. ASSUME NEW v \in Worker, At(v, "exited")', NEW n \in SetOf(Backlog(v)')
      PROVE  n > quitMark'[v]
  <2>1. CASE Backlog(v)' = << >>
    BY <1>2, <2>1 DEF SetOf
  <2>2. CASE At(v, "exited") /\ quitMark'[v] = quitMark[v]
    <3>1. CASE n \in SetOf(Backlog(v))
      BY <2>2, <3>1 DEF QuitDrains
    <3>2. CASE n = Len(command) + 1
      <4>1. quitMark[v] \in Nat /\ Len(command) \in Nat /\ quitMark[v] <= Len(command)
        BY DEF QuitInv, TypeOK
      <4> QED
        BY <2>2, <3>2, <4>1
    <3> QED
      BY <1>2, <3>1, <3>2, BacklogGrows
  <2> QED
    BY <1>2, <2>1, <2>2, ExitStep
<1> QED
  BY <1>1, <1>2 DEF QuitDrains

\* release() loses nothing: when a thread has ended, whatever its list still holds
\* was pushed after join() had set its m_quit.
THEOREM QuitCorrect == Spec => []QuitDrains
<1>1. Init => QuitInv /\ QuitDrains
  BY DEF Init, QuitInv, QuitDrains, At
<1>2. TypeOK /\ OrderInv /\ QuitInv /\ QuitDrains /\ [Next]_vars => (QuitInv /\ QuitDrains)'
  BY QuitStep
<1> QED
  BY <1>1, <1>2, OrderCorrect, PTL DEF Spec
=============================================================================
