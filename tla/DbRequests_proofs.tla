-------------------------- MODULE DbRequests_proofs --------------------------
(***************************************************************************)
(* Theorems about the transaction of call, for every number of commands and *)
(* attempts, any texts and arguments, lock waits and errors at any place,   *)
(* and sessions that die between any two statements: other sessions see a   *)
(* call entirely, once, or not at all, and the handlers leave the session   *)
(* as they found it.                                                        *)
(***************************************************************************)
EXTENDS DbRequests, TLAPS

-----------------------------------------------------------------------------
(* The inductive invariant.                                                 *)

IsView(v) == v = [row |-> v.row, writes |-> v.writes]

Writes == [1 .. MaxCommand -> 0 .. 2]

Label == {"idle", "autocommit off", "begin", "execute", "rollback, retry",
          "rollback, fail", "commit", "autocommit on"}

Views ==
  /\ IsView(table) /\ IsView(work)
  /\ table.writes \in Writes /\ work.writes \in Writes

Counted == commands \in 0 .. MaxCommand /\ (pc # "idle" => commands # 0)

CommandTypes ==
  /\ Views /\ Counted
  /\ open \in BOOLEAN /\ autocommit \in BOOLEAN /\ link \in BOOLEAN
  /\ pc \in Label

\* Where a call may have written what the others do not see.
InTransaction == pc \in {"rollback, retry", "rollback, fail", "commit"}

\* Only the writes of the call that runs differ.
OthersAgree ==
  \A n \in 1 .. MaxCommand : n # commands => work.writes[n] = table.writes[n]

\* A call that has not committed is not seen, nor is one that has not begun.
Unseen ==
  \A n \in 1 .. MaxCommand :
    (n > commands \/ (n = commands /\ pc \notin {"idle", "autocommit on"}))
      => table.writes[n] = 0

\* The session, statement by statement.
SessionAt ==
  /\ ~InTransaction => work = table
  /\ (~InTransaction /\ pc # "execute") => ~open
  /\ InTransaction => OthersAgree
  /\ pc = "commit" => work.writes[commands] \in {0, 2}
  /\ link => (autocommit <=> pc \in {"idle", "autocommit off"})

CallInv == CommandTypes /\ AllOrNothing /\ Unseen /\ SessionAt

-----------------------------------------------------------------------------
(* Views of the table.                                                      *)

\* A row is written, and no call is counted.
LEMMA WrittenView ==
  ASSUME NEW v, IsView(v), NEW id, NEW name
  PROVE  IsView(Cmd!Written(v, id, name)) /\ Cmd!Written(v, id, name).writes = v.writes
<1> DEFINE r == v.row
           s == v.writes
<1>1. v = [row |-> r, writes |-> s]
  BY DEF IsView
<1> HIDE DEF r, s
<1>2. Cmd!Written(v, id, name) = [row |-> [r EXCEPT ![id] = name], writes |-> s]
  BY <1>1 DEF Cmd!Written
<1>3. v.writes = s
  BY <1>1
<1> QED
  BY <1>2, <1>3 DEF IsView

\* The procedure adds its writes to those of the call that runs.
LEMMA ProgressView ==
  ASSUME CallInv, pc = "execute", NEW k \in 0 .. 2
  PROVE  /\ IsView(Cmd!Progress(k))
         /\ Cmd!Progress(k).writes = [table.writes EXCEPT ![commands] = k]
<1> DEFINE counted == [work EXCEPT !.writes[commands] = @ + k]
           r == work.row
           s == work.writes
<1>1. work = [row |-> r, writes |-> s] /\ work = table
  BY DEF CallInv, CommandTypes, Views, IsView, SessionAt, InTransaction
<1>2. commands \in 1 .. MaxCommand /\ s \in Writes /\ s[commands] = 0
  BY <1>1, BoundAssumption DEF CallInv, CommandTypes, Views, Counted, Unseen
<1> HIDE DEF r, s
<1>3. counted = [row |-> r, writes |-> [s EXCEPT ![commands] = s[commands] + k]]
  BY <1>1
<1>4. [s EXCEPT ![commands] = s[commands] + k] = [s EXCEPT ![commands] = k]
  BY <1>2 DEF Writes
<1>5. IsView(counted) /\ counted.writes = [s EXCEPT ![commands] = k] /\ table.writes = s
  BY <1>1, <1>3, <1>4 DEF IsView
<1> HIDE DEF counted
<1>6. Cmd!Progress(k) = IF k = 2
                        THEN Cmd!Written(counted, CHOOSE id \in Cmd!ColumnOf(stmt.id) : TRUE, stmt.name)
                        ELSE counted
  BY DEF Cmd!Progress, counted
<1> QED
  BY <1>5, <1>6, WrittenView

-----------------------------------------------------------------------------
(* The statements of a call.                                                *)

\* set autocommit = 0, begin: nothing is open yet that they could commit.
LEMMA OpeningStep ==
  ASSUME CallInv, Cmd!autoCommitOff \/ Cmd!begin
  PROVE  CallInv'
<1>1. UNCHANGED <<table, work, link, commands>>
  <2>1. pc \in {"autocommit off", "begin"} /\ ~open /\ work = table
    BY DEF CallInv, SessionAt, InTransaction, Cmd!autoCommitOff, Cmd!begin
  <2> QED
    BY <2>1 DEF Cmd!autoCommitOff, Cmd!begin, Cmd!ImplicitCommit, Cmd!callVars
<1>2. /\ pc \in {"autocommit off", "begin"} /\ pc' \in {"begin", "execute"}
      /\ open' = IF pc = "begin" /\ link THEN TRUE ELSE open
      /\ autocommit' = IF pc = "autocommit off" /\ link THEN FALSE ELSE autocommit
      /\ pc' = IF pc = "begin" THEN "execute" ELSE "begin"
  BY DEF Cmd!autoCommitOff, Cmd!begin
<1>3. CommandTypes'
  BY <1>1, <1>2 DEF CallInv, CommandTypes, Views, Counted, Label
<1>4. AllOrNothing' /\ Unseen'
  BY <1>1, <1>2 DEF CallInv, AllOrNothing, Unseen
<1>5. SessionAt'
  BY <1>1, <1>2 DEF CallInv, CommandTypes, SessionAt, InTransaction
<1> QED
  BY <1>3, <1>4, <1>5 DEF CallInv

\* The procedure: both writes, or as far as it came.
LEMMA ExecuteStep ==
  ASSUME CallInv, Cmd!ExecuteOK \/ Cmd!ExecuteDeadloop \/ Cmd!ExecuteFails
  PROVE  CallInv'
<1>0. /\ pc = "execute" /\ work = table
      /\ UNCHANGED <<table, open, autocommit, link, commands>>
  BY DEF CallInv, SessionAt, InTransaction, Cmd!ExecuteOK, Cmd!ExecuteDeadloop,
         Cmd!ExecuteFails, Cmd!callVars
<1>1. PICK k \in 0 .. 2 : /\ work' = Cmd!Progress(k)
                          /\ pc' = IF k = 2 THEN "commit" ELSE pc'
                          /\ pc' \in {"commit", "rollback, retry", "rollback, fail"}
                          /\ pc' = "commit" => k = 2
  <2>1. CASE Cmd!ExecuteOK
    <3>1. work' = Cmd!Progress(2) /\ pc' = "commit"
      BY <2>1 DEF Cmd!ExecuteOK
    <3> QED
      BY <3>1
  <2>2. CASE Cmd!ExecuteDeadloop
    <3>1. PICK k \in 0 .. 1 : work' = Cmd!Progress(k)
      BY <2>2 DEF Cmd!ExecuteDeadloop
    <3>2. pc' = "rollback, retry"
      BY <2>2 DEF Cmd!ExecuteDeadloop
    <3>3. k \in 0 .. 2 /\ k # 2
      OBVIOUS
    <3> QED
      BY <3>1, <3>2, <3>3
  <2>3. CASE Cmd!ExecuteFails
    <3>1. PICK k \in (IF Cmd!Accepted THEN 0 .. 1 ELSE {0}) : work' = Cmd!Progress(k)
      BY <2>3 DEF Cmd!ExecuteFails
    <3>2. pc' = "rollback, fail"
      BY <2>3 DEF Cmd!ExecuteFails
    <3>3. k \in 0 .. 2 /\ k # 2
      OBVIOUS
    <3> QED
      BY <3>1, <3>2, <3>3
  <2> QED
    BY <2>1, <2>2, <2>3
<1>2. IsView(work') /\ work'.writes = [table.writes EXCEPT ![commands] = k]
  BY <1>0, <1>1, ProgressView
<1>3. commands \in 1 .. MaxCommand
  BY <1>0 DEF CallInv, CommandTypes, Counted
<1>4. CommandTypes'
  <2>1. [table.writes EXCEPT ![commands] = k] \in Writes
    BY DEF CallInv, CommandTypes, Views, Writes
  <2>2. Views'
    BY <1>0, <1>2, <2>1 DEF CallInv, CommandTypes, Views, IsView
  <2> QED
    BY <1>0, <1>1, <2>2 DEF CallInv, CommandTypes, Counted, Label
<1>5. AllOrNothing' /\ Unseen'
  BY <1>0, <1>1 DEF CallInv, AllOrNothing, Unseen
<1>6. OthersAgree' /\ (pc' = "commit" => work'.writes[commands] = 2)
  BY <1>0, <1>1, <1>2, <1>3 DEF OthersAgree, CallInv, CommandTypes, Views, Writes
<1>7. SessionAt'
  BY <1>0, <1>1, <1>6 DEF CallInv, SessionAt, InTransaction
<1> QED
  BY <1>4, <1>5, <1>7 DEF CallInv

\* rollback: the session sees what the others see.
LEMMA RollbackStep ==
  ASSUME CallInv, Cmd!Retry \/ Cmd!Fail
  PROVE  CallInv'
<1>1. /\ pc \in {"rollback, retry", "rollback, fail"} /\ work' = table /\ open' = FALSE
      /\ pc' \in {"begin", "autocommit on"}
      /\ UNCHANGED <<table, autocommit, link, commands>>
  BY DEF Cmd!Retry, Cmd!Fail, Cmd!Rollback, Cmd!callVars
<1>2. CommandTypes'
  BY <1>1 DEF CallInv, CommandTypes, Views, Counted, Label
<1>3. AllOrNothing' /\ Unseen'
  BY <1>1 DEF CallInv, AllOrNothing, Unseen
<1>4. SessionAt'
  BY <1>1 DEF CallInv, SessionAt, InTransaction
<1> QED
  BY <1>2, <1>3, <1>4 DEF CallInv

\* commit, and set autocommit = 1, which finds nothing left to commit.
LEMMA ClosingStep ==
  ASSUME CallInv, Cmd!commit \/ Cmd!autoCommitOn
  PROVE  CallInv'
<1>1. CASE Cmd!commit
  <2>1. /\ pc = "commit" /\ table' = work /\ work' = work /\ open' = FALSE
        /\ pc' = "autocommit on" /\ UNCHANGED <<autocommit, link, commands>>
    BY <1>1 DEF Cmd!commit, Cmd!callVars
  <2>2. CommandTypes'
    BY <2>1 DEF CallInv, CommandTypes, Views, Counted, Label
  <2>3. AllOrNothing'
    BY <2>1 DEF CallInv, AllOrNothing, SessionAt, InTransaction, OthersAgree
  <2>4. Unseen'
    <3> SUFFICES ASSUME NEW n \in 1 .. MaxCommand, n > commands PROVE table'.writes[n] = 0
      BY <2>1 DEF Unseen
    <3>1. n # commands /\ commands \in Nat
      BY DEF CallInv, CommandTypes, Counted
    <3> QED
      BY <2>1, <3>1 DEF CallInv, Unseen, SessionAt, InTransaction, OthersAgree
  <2>5. SessionAt'
    BY <2>1 DEF CallInv, SessionAt, InTransaction
  <2> QED
    BY <2>2, <2>3, <2>4, <2>5 DEF CallInv
<1>2. CASE Cmd!autoCommitOn
  <2>1. pc = "autocommit on" /\ ~open /\ work = table
    BY <1>2 DEF CallInv, SessionAt, InTransaction, Cmd!autoCommitOn
  <2>2. /\ UNCHANGED <<table, work, open, link, commands>> /\ pc' = "idle"
        /\ autocommit' = IF link THEN TRUE ELSE autocommit
    BY <1>2, <2>1 DEF Cmd!autoCommitOn, Cmd!ImplicitCommit, Cmd!Return, CallInv, CommandTypes
  <2>3. CommandTypes'
    <3>1. Views' /\ Counted'
      BY <2>1, <2>2 DEF CallInv, CommandTypes, Views, Counted
    <3>2. autocommit' \in BOOLEAN /\ open' \in BOOLEAN /\ link' \in BOOLEAN
      BY <2>2 DEF CallInv, CommandTypes
    <3> QED
      BY <2>2, <3>1, <3>2 DEF CommandTypes, Label
  <2>4. AllOrNothing' /\ Unseen'
    BY <2>1, <2>2 DEF CallInv, AllOrNothing, Unseen
  <2>5. SessionAt'
    BY <2>1, <2>2 DEF CallInv, CommandTypes, SessionAt, InTransaction
  <2> QED
    BY <2>3, <2>4, <2>5 DEF CallInv
<1> QED
  BY <1>1, <1>2

-----------------------------------------------------------------------------
(* The other commands, and the server.                                      *)

\* The next command: it has written nothing, and neither has any after it.
LEMMA NextCommandStep ==
  ASSUME CallInv, Cmd!NextCommand
  PROVE  /\ pc = "idle" /\ commands' = commands + 1 /\ commands' \in 1 .. MaxCommand
         /\ Counted'
         /\ table'.writes = table.writes => Unseen'
<1>1. pc = "idle" /\ commands < MaxCommand /\ commands' = commands + 1
  BY DEF Cmd!NextCommand
<1>2. commands \in 0 .. MaxCommand
  BY <1>1 DEF CallInv, CommandTypes, Counted
<1>3. commands' \in 1 .. MaxCommand
  BY <1>1, <1>2, BoundAssumption
<1>4. ASSUME table'.writes = table.writes PROVE Unseen'
  <2> SUFFICES ASSUME NEW n \in 1 .. MaxCommand, n > commands' \/ n = commands'
               PROVE  table'.writes[n] = 0
    BY DEF Unseen
  <2>1. n > commands
    BY <1>1, <1>2, <1>3
  <2> QED
    BY <1>4, <2>1 DEF CallInv, Unseen
<1>5. Counted'
  BY <1>3 DEF Counted
<1> QED
  BY <1>1, <1>3, <1>4, <1>5

\* A command that is counted and leaves the server alone, or a call that begins.
LEMMA CountStep ==
  ASSUME CallInv, Cmd!NextCommand, UNCHANGED <<table, work, open, autocommit, link>>,
         pc' \in {"idle", "autocommit off"}
  PROVE  CallInv'
<1>1. pc = "idle" /\ commands' \in 1 .. MaxCommand
  BY NextCommandStep
<1>2. CommandTypes'
  <2>1. Views'
    BY DEF CallInv, CommandTypes, Views
  <2>2. Counted'
    BY NextCommandStep
  <2> QED
    BY <2>1, <2>2 DEF CallInv, CommandTypes, Label
<1>3. AllOrNothing'
  BY DEF CallInv, AllOrNothing
<1>4. Unseen'
  BY NextCommandStep
<1>5. SessionAt'
  BY <1>1 DEF CallInv, SessionAt, InTransaction
<1> QED
  BY <1>2, <1>3, <1>4, <1>5 DEF CallInv

\* A row command commits at once, if it reaches the server, and counts no call.
LEMMA RowCommandStep ==
  ASSUME CallInv, NEW views, NEW id, NEW name, Cmd!RowCommand(views, id, name),
         \A v \in views : IsView(v) /\ v.writes = work.writes
  PROVE  CallInv'
<1>0. Cmd!NextCommand /\ UNCHANGED <<open, autocommit, pc>>
  BY DEF Cmd!RowCommand, Cmd!rowUnchanged
<1>1. /\ pc = "idle" /\ pc' = "idle" /\ commands' \in 1 .. MaxCommand
      /\ work = table /\ ~open /\ (link => autocommit)
  BY <1>0, NextCommandStep DEF CallInv, SessionAt, InTransaction
<1>2. table' \in {table} \cup views /\ work' = table'
  BY <1>1 DEF Cmd!RowCommand
<1>2a. link' \in {link, FALSE}
  BY DEF Cmd!RowCommand
<1>3. IsView(table') /\ table'.writes = table.writes
  BY <1>1, <1>2 DEF CallInv, CommandTypes, Views
<1>4. CommandTypes'
  <2>1. Views'
    BY <1>2, <1>3 DEF CallInv, CommandTypes, Views, IsView
  <2> QED
    <3>1. Counted'
      BY <1>0, NextCommandStep
    <3>2. link' \in BOOLEAN /\ autocommit' \in BOOLEAN /\ open' \in BOOLEAN /\ pc' \in Label
      BY <1>0, <1>2a DEF CallInv, CommandTypes
    <3> QED
      BY <2>1, <3>1, <3>2 DEF CommandTypes
<1>5. AllOrNothing'
  BY <1>3 DEF CallInv, AllOrNothing
<1>6. Unseen'
  BY <1>0, <1>3, NextCommandStep
<1>7. SessionAt'
  <2>1. link' => (autocommit' <=> pc' \in {"idle", "autocommit off"})
    BY <1>0, <1>2a DEF CallInv, CommandTypes, SessionAt
  <2> QED
    BY <1>0, <1>1, <1>2, <2>1 DEF SessionAt, InTransaction
<1> QED
  BY <1>4, <1>5, <1>6, <1>7 DEF CallInv

\* insert, update, delete and select.
LEMMA RowStep ==
  ASSUME CallInv, RowCommand
  PROVE  CallInv'
<1>0. IsView(work)
  BY DEF CallInv, CommandTypes, Views
<1>1. ASSUME NEW m \in Message, Cmd!Insert(m) PROVE CallInv'
  <2> DEFINE views == {Cmd!Written(work, id, m.name) :
                         id \in {i \in Cmd!Column \cap {m.id} : work.row[i] = NoRow}}
  <2>1. Cmd!RowCommand(views, m.id, m.name)
    BY <1>1 DEF Cmd!Insert
  <2>2. \A v \in views : IsView(v) /\ v.writes = work.writes
    BY <1>0, WrittenView
  <2> HIDE DEF views
  <2> QED
    BY <2>1, <2>2, RowCommandStep
<1>2. ASSUME NEW m \in Message, Cmd!Update(m) PROVE CallInv'
  <2> DEFINE views == {Cmd!Written(work, id, m.name) : id \in Cmd!Column \cap {m.id}}
  <2>1. Cmd!RowCommand(views, m.id, m.name)
    BY <1>2 DEF Cmd!Update
  <2>2. \A v \in views : IsView(v) /\ v.writes = work.writes
    BY <1>0, WrittenView
  <2> HIDE DEF views
  <2> QED
    BY <2>1, <2>2, RowCommandStep
<1>3. ASSUME NEW k \in Key, Cmd!Delete(k) PROVE CallInv'
  <2> DEFINE views == {IF k \in Cmd!Column THEN Cmd!Written(work, k, NoRow) ELSE work}
  <2>1. Cmd!RowCommand(views, k, NoRow)
    BY <1>3 DEF Cmd!Delete
  <2>2. \A v \in views : IsView(v) /\ v.writes = work.writes
    BY <1>0, WrittenView
  <2> HIDE DEF views
  <2> QED
    BY <2>1, <2>2, RowCommandStep
<1>4. ASSUME NEW k \in Key, Cmd!Select(k) PROVE CallInv'
  <2>1. /\ Cmd!NextCommand /\ UNCHANGED <<table, work, open, autocommit, link>> /\ pc' = "idle"
    BY <1>4 DEF Cmd!Select, Cmd!Read, Cmd!server, Cmd!rowUnchanged, Cmd!NextCommand
  <2> QED
    BY <2>1, CountStep
<1> QED
  BY <1>1, <1>2, <1>3, <1>4 DEF RowCommand

\* call is accepted or refused before MySQL hears of it; query only reads.
LEMMA FreeStep ==
  ASSUME CallInv, NEW text, NEW vec, call(text, vec) \/ query(text, vec)
  PROVE  CallInv'
<1>1. /\ Cmd!NextCommand /\ UNCHANGED <<table, work, open, autocommit, link>>
      /\ pc' \in {"idle", "autocommit off"}
  <2>1. CASE call(text, vec)
    <3>1. Cmd!Call(text, Texts(vec), Meant(vec))
      BY <2>1 DEF call
    <3>2. Cmd!NextCommand /\ UNCHANGED <<table, work, open, autocommit, link>>
      BY <3>1 DEF Cmd!Call, Cmd!server
    <3>3. pc' \in {pc, "autocommit off"}
      BY <3>1 DEF Cmd!Call
    <3> QED
      BY <3>2, <3>3 DEF Cmd!NextCommand
  <2>2. CASE query(text, vec)
    <3>1. Cmd!Query(text, Texts(vec), Meant(vec))
      BY <2>2 DEF query
    <3> QED
      BY <3>1 DEF Cmd!Query, Cmd!Read, Cmd!server, Cmd!rowUnchanged, Cmd!NextCommand
  <2> QED
    BY <2>1, <2>2
<1> QED
  BY <1>1, CountStep

\* The server ends the session and rolls back.
LEMMA LinkDownStep ==
  ASSUME CallInv, Cmd!LinkDown
  PROVE  CallInv'
<1>1. /\ link' = FALSE /\ work' = table /\ open' = FALSE
      /\ UNCHANGED <<table, autocommit, pc, commands>>
  BY DEF Cmd!LinkDown
<1>2. CommandTypes'
  BY <1>1 DEF CallInv, CommandTypes, Views, Counted
<1>3. AllOrNothing' /\ Unseen'
  BY <1>1 DEF CallInv, AllOrNothing, Unseen
<1>4. pc = "commit" => table.writes[commands] \in {0, 2}
  BY DEF CallInv, AllOrNothing, CommandTypes, Counted
<1>5. SessionAt'
  BY <1>1, <1>4 DEF CallInv, SessionAt, InTransaction, OthersAgree
<1> QED
  BY <1>2, <1>3, <1>5 DEF CallInv

-----------------------------------------------------------------------------
(* The theorems.                                                            *)

\* Every step keeps the invariant.
LEMMA CallInvStep ==
  ASSUME CallInv, [Next]_vars
  PROVE  CallInv'
<1>1. CASE UNCHANGED sessionVars
  BY <1>1 DEF sessionVars, CallInv, CommandTypes, Views, Counted, AllOrNothing, Unseen, SessionAt,
              InTransaction, OthersAgree
<1>2. CASE Prepare \/ UNCHANGED vars
  BY <1>1, <1>2 DEF Prepare, vars
<1>3. CASE Thread
  BY <1>3, OpeningStep, ExecuteStep, RollbackStep, ClosingStep DEF Thread, Cmd!CallStep
<1>4. CASE LinkDown
  BY <1>4, LinkDownStep DEF LinkDown
<1>5. CASE RowCommand
  BY <1>5, RowStep
<1>6. ASSUME NEW vec, NEW text, call(text, vec) \/ query(text, vec)
      PROVE  CallInv'
  BY <1>6, FreeStep
<1> QED
  BY <1>2, <1>3, <1>4, <1>5, <1>6 DEF Next

\* The session and the table at every statement of a call.
THEOREM CallCorrect == Spec => []CallInv
<1>1. Init => CallInv
  <2> SUFFICES ASSUME Init PROVE CallInv
    OBVIOUS
  <2>1. /\ table = [row |-> [id \in Cmd!Column |-> NoRow], writes |-> [n \in 1 .. MaxCommand |-> 0]]
        /\ work = table /\ open = FALSE /\ autocommit = TRUE /\ link = TRUE /\ pc = "idle"
        /\ commands = 0
    BY DEF Init, Cmd!Init
  <2>2. IsView(table) /\ table.writes = [n \in 1 .. MaxCommand |-> 0]
    BY <2>1 DEF IsView
  <2>3. CommandTypes
    <3>1. Views
      BY <2>1, <2>2 DEF Views, Writes
    <3>2. Counted
      BY <2>1, BoundAssumption DEF Counted
    <3> QED
      BY <2>1, <3>1, <3>2 DEF CommandTypes, Label
  <2>4. AllOrNothing /\ Unseen
    BY <2>2 DEF AllOrNothing, Unseen
  <2>5. SessionAt
    BY <2>1 DEF SessionAt, InTransaction
  <2> QED
    BY <2>3, <2>4, <2>5 DEF CallInv
<1>2. CallInv /\ [Next]_vars => CallInv'
  BY CallInvStep
<1> QED
  BY <1>1, <1>2, PTL DEF Spec

\* Other sessions see both writes of a call or neither, and see them once, for every
\* number of attempts and whatever fails in between (db_command_call_handler.cpp:57).
THEOREM AllOrNothingCorrect == Spec => []AllOrNothing
<1>1. CallInv => AllOrNothing
  BY DEF CallInv
<1> QED
  BY <1>1, CallCorrect, PTL

\* Between two commands a living session is as the handlers expect it: autocommit on
\* and no transaction open, on every path through call.
THEOREM SessionCleanCorrect == Spec => []SessionClean
<1>1. CallInv => SessionClean
  BY DEF CallInv, SessionClean, SessionAt, InTransaction
<1> QED
  BY <1>1, CallCorrect, PTL
=============================================================================
