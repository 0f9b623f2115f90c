----------------------------- MODULE DbCommands -----------------------------
(***************************************************************************)
(* The handlers of one connection (db_command_*_handler.cpp), the MySQL     *)
(* session they talk to, and the conversions between the fields of a        *)
(* message, the text of a statement and a column (db_protobuf.cpp,          *)
(* db_record_set.cpp).  The handlers run in the thread of the connection,   *)
(* one after the other.                                                     *)
(*                                                                          *)
(* The table is player_base of test.sql: id, an unsigned integer and the    *)
(* primary key, and name, a blob.  A call runs a procedure of two writes,   *)
(* the second of which replaces a row.  MySQL is external: a session with   *)
(* transactions, in strict mode, that other sessions see the commits of.    *)
(*                                                                          *)
(* A text is a sequence of words; what escape() keeps apart is one word.    *)
(* The words of arguments name no column.                                   *)
(***************************************************************************)
EXTENDS Integers, FiniteSets, SequencesExt

CONSTANTS
  Sql,                  \* the sql of call commands: a number, ",", a name
  Where,                \* the where clauses of queries: "id=" and a number, a number, or none
  Message,              \* the messages of insert and update commands
  Key,                  \* the id of select and delete commands
  ColumnWrap,           \* 2^32: id is unsigned; a field of type sfixed32 is signed
  Wrap,                 \* 2^64: a number in a text is a signed or an unsigned of 64 bits
  Nul,                  \* the word of one zero byte
  NoText,               \* what becomes of a text when a placeholder is missing
  NoRow, NoReply,
  DeadLinkErrno,        \* what mysql_errno() returns for a dead session
  TRY_DEAD_LOOP_COUNT,  \* _TRY_DEAD_LOOP_COUNT
  MaxCommand            \* bound: commands in one behaviour

VARIABLES
  table,       \* external: the rows the other sessions see, and the writes of each call
  work,        \* external: the same in the transaction of this session
  open,        \* external: a transaction is open
  autocommit,  \* external: the variable of the session
  link,        \* external: the session is alive
  pc,          \* "idle", or the statement a call is at
  try,         \* i, the number of attempts behind it
  stmt,        \* szSQL, the arguments of the procedure: [id, name]
  code,        \* the result code of the last command
  reply,       \* the last answer, or NoReply: its rows, and the ids that were asked for
  commands,    \* history: the commands so far
  intended,    \* history: the rows, if every command did what it reported
  wish,        \* history: what the call that runs is meant to write
  plain        \* history: every call had Plain arguments

server  == <<table, work, open, autocommit, link>>
history == <<intended, plain>>
vars == <<server, pc, try, stmt, code, reply, commands, wish, history>>

\* EMysqlErrorType.
kMET_OK             == 0
kMET_LostConnection == 1
kMET_Deadloop       == 1205
kMET_Other          == 1264

Column == 0 .. ColumnWrap - 1
Field  == -(ColumnWrap \div 2) .. ColumnWrap \div 2 - 1

NoStatement == [id |-> << >>, name |-> << >>]

Init ==
  /\ table = [row |-> [id \in Column |-> NoRow], writes |-> [n \in 1 .. MaxCommand |-> 0]]
  /\ work = table
  /\ open = FALSE
  /\ autocommit = TRUE
  /\ link = TRUE
  /\ pc = "idle"
  /\ try = 0
  /\ stmt = NoStatement
  /\ code = "kRC_OK"
  /\ reply = NoReply
  /\ commands = 0
  /\ intended = table.row
  /\ wish = NoStatement
  /\ plain = TRUE

-----------------------------------------------------------------------------
(* Texts.                                                                   *)

\* A number that is printed, and the columns a text denotes: one, or none at all.
Printed(n) == <<ToString(n)>>
ColumnOf(text) == {id \in Column : Printed(id) = text}

\* getData(): the column as a C string.
getData(text) ==
  IF Contains(text, Nul) THEN SubSeq(text, 1, SelectInSeq(text, LAMBDA w : w = Nul) - 1)
  ELSE text

\* setBasicTypeFieldValue(): a number too large for an sfixed32 becomes the largest.
setIdField(id) == IF id \in Field THEN id ELSE ColumnWrap \div 2 - 1

\* fillNormalMessage(): a row as a message.
Filled(id, name) == [id |-> setIdField(id), name |-> getData(name)]

Placeholder(i) == "{" \o ToString(i) \o "}"

\* Mutant: the next placeholder is replaced, whatever its number.
ReplaceNext(sql, i, text) ==
  LET at == SelectInSeq(sql, LAMBDA w : \E j \in 0 .. Len(sql) : w = Placeholder(j))
  IN  SubSeq(sql, 1, at - 1) \o text \o SubSeq(sql, at + 1, Len(sql))

\* szSQL.replace(pos, ...) at the first place find() finds.
Replace(sql, i, text) ==
  LET at == SelectInSeq(sql, LAMBDA w : w = Placeholder(i))
  IN  SubSeq(sql, 1, at - 1) \o text \o SubSeq(sql, at + 1, Len(sql))

\* The arguments are put in one after the other; NoText when a placeholder is missing.
Substituted(sql, args) ==
  LET text[i \in 0 .. Len(args)] ==
        IF i = 0 THEN sql
        ELSE IF text[i - 1] # NoText /\ Contains(text[i - 1], Placeholder(i - 1))
        THEN Replace(text[i - 1], i - 1, args[i])
        ELSE NoText
  IN  text[Len(args)]

\* What the caller means: every placeholder stands for its argument.
Stands(w, args) ==
  IF \E i \in 1 .. Len(args) : w = Placeholder(i - 1)
  THEN args[CHOOSE i \in 1 .. Len(args) : w = Placeholder(i - 1)]
  ELSE <<w>>

Meaning(sql, args) ==
  LET text[k \in 0 .. Len(sql)] ==
        IF k = 0 THEN << >> ELSE text[k - 1] \o Stands(sql[k], args)
  IN  text[Len(sql)]

\* The arguments of the procedure, once the text is parsed.
Parsed(sql) ==
  LET comma == SelectInSeq(sql, LAMBDA w : w = ",")
  IN  [id |-> SubSeq(sql, 1, comma - 1), name |-> SubSeq(sql, comma + 1, Len(sql))]

\* What a caller has to keep to: the arguments are printed as they are meant, no
\* placeholder occurs twice, and no argument contains the placeholder of a later one.
Plain(sql, args, meant) ==
  /\ args = meant
  /\ \A i \in 0 .. Len(args) - 1 :
       /\ \A k, l \in 1 .. Len(sql) :
            (sql[k] = Placeholder(i) /\ sql[l] = Placeholder(i)) => k = l
       /\ \A j \in 0 .. i - 1 : ~Contains(args[j + 1], Placeholder(i))

-----------------------------------------------------------------------------
(* The session.                                                             *)

Written(view, id, name) == [view EXCEPT !.row[id] = name]

\* A statement that needs an open transaction to end commits it: begin, set autocommit.
ImplicitCommit == IF open THEN table' = work ELSE UNCHANGED table

\* The server ends the session, and rolls back what is open.
LinkDown ==
  /\ link
  /\ link' = FALSE
  /\ work' = table
  /\ open' = FALSE
  /\ UNCHANGED <<table, autocommit, pc, try, stmt, code, reply, commands, wish, history>>

\* What a handler makes of an error.
ErrorCode(errno) ==
  IF errno = kMET_LostConnection THEN "kRC_LOST_CONNECTION" ELSE "kRC_MYSQL_ERROR"

-----------------------------------------------------------------------------
(* call: CDbCommandCallHandler::onDbCommand.                                *)

NextCommand ==
  /\ pc = "idle"
  /\ commands < MaxCommand
  /\ commands' = commands + 1

\* The arguments are substituted, or the command refused before it reaches MySQL.
Call(sql, args, meant) ==
  /\ NextCommand
  /\ reply' = NoReply
  /\ LET text == Substituted(sql, args)
     IN  IF text = NoText
         THEN /\ code' = "kRC_SQLPARM_ERROR"
              /\ UNCHANGED <<pc, stmt, wish, plain>>
         ELSE /\ pc' = "autocommit off"
              /\ stmt' = Parsed(text)
              /\ wish' = Parsed(Meaning(sql, meant))
              /\ plain' = (plain /\ Plain(sql, args, meant))
              /\ UNCHANGED code
  /\ UNCHANGED <<server, try, intended>>

callVars == <<stmt, reply, commands, wish, plain>>

autoCommitOff ==
  /\ pc = "autocommit off"
  /\ IF link THEN autocommit' = FALSE ELSE UNCHANGED autocommit
  /\ pc' = "begin"
  /\ UNCHANGED <<table, work, open, link, try, code, intended, callVars>>

begin ==
  /\ pc = "begin"
  /\ IF link
     THEN ImplicitCommit /\ work' = table' /\ open' = TRUE
     ELSE UNCHANGED <<table, work, open>>
  /\ pc' = "execute"
  /\ UNCHANGED <<autocommit, link, try, code, intended, callVars>>

\* The two writes of the procedure; k of them were made when it stopped.
Progress(k) ==
  LET counted == [work EXCEPT !.writes[commands] = @ + k]
  IN  IF k = 2 THEN Written(counted, CHOOSE id \in ColumnOf(stmt.id) : TRUE, stmt.name)
      ELSE counted

Accepted == link /\ ColumnOf(stmt.id) # {}

ExecuteOK ==
  /\ pc = "execute"
  /\ Accepted
  /\ work' = Progress(2)
  /\ pc' = "commit"
  /\ UNCHANGED <<table, open, autocommit, link, try, code, intended, callVars>>

\* A lock wait timeout, kMET_Deadloop, undoes the statement of the procedure that
\* waited and no other.
ExecuteDeadloop ==
  /\ pc = "execute"
  /\ Accepted
  /\ \E k \in 0 .. 1 : work' = Progress(k)
  /\ pc' = "rollback, retry"
  /\ UNCHANGED <<table, open, autocommit, link, try, code, intended, callVars>>

\* Any other error: of a statement of the procedure, of its arguments or of the session.
ExecuteFails ==
  /\ pc = "execute"
  /\ \E k \in (IF Accepted THEN 0 .. 1 ELSE {0}) : work' = Progress(k)
  /\ code' = ErrorCode(IF link THEN kMET_Other ELSE DeadLinkErrno)
  /\ pc' = "rollback, fail"
  /\ UNCHANGED <<table, open, autocommit, link, try, intended, callVars>>

Rollback == work' = table /\ open' = FALSE

\* Mutant: the loop goes on without a rollback.
RetryWithoutRollback ==
  /\ pc = "rollback, retry"
  /\ try' = try + 1
  /\ pc' = IF try' < TRY_DEAD_LOOP_COUNT THEN "begin" ELSE "autocommit on"
  /\ code' = IF try' < TRY_DEAD_LOOP_COUNT THEN code ELSE "kRC_MYSQL_ERROR"
  /\ UNCHANGED <<server, intended, callVars>>

\* Mutant: a retry is not counted.
RetryForEver ==
  /\ pc = "rollback, retry"
  /\ Rollback
  /\ pc' = "begin"
  /\ UNCHANGED <<table, autocommit, link, try, code, intended, callVars>>

\* Mutant: one attempt too many.
RetryOnceMore ==
  /\ pc = "rollback, retry"
  /\ Rollback
  /\ try' = try + 1
  /\ IF try' <= TRY_DEAD_LOOP_COUNT
     THEN pc' = "begin" /\ UNCHANGED code
     ELSE pc' = "autocommit on" /\ code' = "kRC_MYSQL_ERROR"
  /\ UNCHANGED <<table, autocommit, link, intended, callVars>>

\* rollback, and the next attempt if there is one.
Retry ==
  /\ pc = "rollback, retry"
  /\ Rollback
  /\ try' = try + 1
  /\ IF try' < TRY_DEAD_LOOP_COUNT
     THEN pc' = "begin" /\ UNCHANGED code
     ELSE pc' = "autocommit on" /\ code' = "kRC_MYSQL_ERROR"
  /\ UNCHANGED <<table, autocommit, link, intended, callVars>>

Fail ==
  /\ pc = "rollback, fail"
  /\ Rollback
  /\ pc' = "autocommit on"
  /\ UNCHANGED <<table, autocommit, link, try, code, intended, callVars>>

\* commit returns nothing, and the call succeeds whatever became of it.
commit ==
  /\ pc = "commit"
  /\ table' = work
  /\ open' = FALSE
  /\ code' = "kRC_OK"
  /\ intended' = [id \in Column |-> IF id \in ColumnOf(wish.id) THEN wish.name ELSE intended[id]]
  /\ pc' = "autocommit on"
  /\ UNCHANGED <<work, autocommit, link, try, callVars>>

\* The handler returns, and its local variables are gone.
Return ==
  /\ pc' = "idle"
  /\ try' = 0
  /\ stmt' = NoStatement
  /\ wish' = NoStatement

\* Mutant: the handler returns without the deferred statement.
ReturnEarly ==
  /\ pc = "autocommit on"
  /\ Return
  /\ UNCHANGED <<server, code, reply, commands, history>>

\* The deferred statement, and the end of the call.
autoCommitOn ==
  /\ pc = "autocommit on"
  /\ IF link
     THEN autocommit' = TRUE /\ ImplicitCommit /\ work' = table' /\ open' = FALSE
     ELSE UNCHANGED <<autocommit, table, work, open>>
  /\ Return
  /\ UNCHANGED <<link, code, reply, commands, history>>

CallStep ==
  \/ autoCommitOff \/ begin \/ ExecuteOK \/ ExecuteDeadloop \/ ExecuteFails
  \/ Retry \/ Fail \/ commit \/ autoCommitOn

-----------------------------------------------------------------------------
(* The row commands: one statement each, which commits at once.             *)

rowUnchanged == <<open, autocommit, pc, try, stmt, wish>>

\* The statement brings the server to one of views, none if it has to be refused; name
\* is what becomes of row id then.  When the session dies the handler does not know
\* whether the server had executed the statement.
RowCommand(views, id, name) ==
  /\ NextCommand
  /\ reply' = NoReply
  /\ \/ /\ link
        /\ work' \in views
        /\ IF autocommit THEN table' = work' ELSE UNCHANGED table
        /\ code' = "kRC_OK"
        /\ intended' = [i \in Column |-> IF i = id THEN name ELSE intended[i]]
        /\ UNCHANGED link
     \/ /\ link
        /\ code' = ErrorCode(kMET_Other)
        /\ UNCHANGED <<table, work, link, intended>>
     \/ /\ code' = ErrorCode(DeadLinkErrno)
        /\ table' \in {table} \cup (IF link /\ autocommit THEN views ELSE {})
        /\ work' = table'
        /\ link' = FALSE
        /\ UNCHANGED intended
  /\ UNCHANGED <<plain, rowUnchanged>>

\* insert into ... values ...: a message has its id in a signed field.
Insert(m) ==
  RowCommand({Written(work, id, m.name) : id \in {i \in Column \cap {m.id} : work.row[i] = NoRow}},
             m.id, m.name)

\* insert into ... on duplicate key update ...
Update(m) == RowCommand({Written(work, id, m.name) : id \in Column \cap {m.id}}, m.id, m.name)

\* delete from ... where id = ... limit 1: it need not find a row.
Delete(k) ==
  RowCommand({IF k \in Column THEN Written(work, k, NoRow) ELSE work}, k, NoRow)

EmptyMessage == [id |-> 0, name |-> << >>]

\* The rows of view with an id in ids, in the order of the primary key.
Found(view, ids) ==
  LET found == {id \in ids : view[id] # NoRow}
  IN  [i \in 1 .. Cardinality(found) |->
         CHOOSE id \in found : Cardinality({j \in found : j < id}) = i - 1]

\* Mutant: the first row is skipped.
RowsButFirst(ids) ==
  LET found == Found(work.row, ids)
  IN  [i \in 1 .. Len(found) - 1 |-> Filled(found[i + 1], work.row[found[i + 1]])]

Rows(ids) ==
  LET found == Found(work.row, ids)
  IN  [i \in 1 .. Len(found) |-> Filled(found[i], work.row[found[i]])]

Read ==
  /\ NextCommand
  /\ UNCHANGED <<server, intended, rowUnchanged>>

Refuse(errorCode) == code' = errorCode /\ reply' = NoReply

\* MySQL refuses the statement, or the session is dead.
ReadFails == Refuse(ErrorCode(IF link THEN kMET_Other ELSE DeadLinkErrno))

\* The answer to a caller that asked for the rows of these ids.
Answer(rows, asked) ==
  \/ link /\ code' = "kRC_OK" /\ reply' = [rows |-> rows, asked |-> asked]
  \/ ReadFails

\* select * from ... where id = ... limit 1: no row is an empty message.
Select(k) ==
  /\ Read
  /\ LET ids == {k} \cap Column
     IN  Answer(IF Rows(ids) = << >> THEN <<EmptyMessage>> ELSE Rows(ids), ids)
  /\ UNCHANGED plain

IsNumber(text) == \E n \in -(Wrap \div 2) .. Wrap - 1 : text = Printed(n)
HasId(text) == text # << >> /\ text[1] = "id="

\* The where clauses MySQL accepts, and the rows they stand for: a clause that is empty
\* once its arguments are put in is left out; a number alone is true unless it is zero.
Accepts(text) == text = << >> \/ IsNumber(text) \/ (HasId(text) /\ IsNumber(Tail(text)))
Denoted(text) ==
  IF HasId(text) THEN ColumnOf(Tail(text)) ELSE IF text = Printed(0) THEN {} ELSE Column

\* select * from ..., with a where clause or without.
Query(where, args, meant) ==
  /\ Read
  /\ LET text == Substituted(where, args)
     IN  IF text = NoText THEN Refuse("kRC_SQLPARM_ERROR")
         ELSE \/ Accepts(text) /\ Answer(Rows(Denoted(text)), Denoted(Meaning(where, meant)))
              \/ ReadFails
  /\ plain' = (plain /\ Plain(where, args, meant))
=============================================================================
