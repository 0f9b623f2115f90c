----------------------------- MODULE DbRequests -----------------------------
(***************************************************************************)
(* From the values of a program to a row and back: the arguments of call    *)
(* and query are CDbVariant objects (DbVariant), which CDbProxy::call turns *)
(* into text and the handlers of a connection into SQL (DbCommands).  The   *)
(* program changes its objects between two commands.                        *)
(***************************************************************************)
EXTENDS Integers, Sequences, FiniteSets

CONSTANTS
  Slot, Signed, Unsigned, Text, Wrap,                     \* DbVariant
  Sql, Where, Message, Key, ColumnWrap, Nul, NoText, NoRow, NoReply,
  DeadLinkErrno, TRY_DEAD_LOOP_COUNT, MaxCommand          \* DbCommands

ASSUME ValueAssumption ==
  /\ Wrap \in Nat \ {0}
  /\ Signed \subseteq -(Wrap \div 2) .. Wrap \div 2 - 1
  /\ Unsigned \subseteq 0 .. Wrap - 1

ASSUME SlotAssumption   == IsFiniteSet(Slot)
ASSUME TryAssumption    == TRY_DEAD_LOOP_COUNT \in Nat \ {0}
ASSUME BoundAssumption  == MaxCommand \in Nat
ASSUME ColumnAssumption == ColumnWrap \in Nat \ {0} /\ ColumnWrap % 2 = 0
ASSUME TextAssumption   ==
  /\ Sql \cup Where \cup Text \subseteq Seq(STRING)
  /\ NoText \notin Seq(STRING)

VARIABLES
  object, block, meant, broken,
  table, work, open, autocommit, link, pc, try, stmt, code, reply, commands, wish,
  intended, plain

argVars     == <<object, block, meant, broken>>
sessionVars == <<table, work, open, autocommit, link, pc, try, stmt, code, commands,
                 wish, intended, plain>>
vars == <<argVars, reply, sessionVars>>

Args == INSTANCE DbVariant
Cmd  == INSTANCE DbCommands

\* Different numbers are printed differently, and so are the placeholders of a vector.
ASSUME PrintedAssumption ==
  /\ \A m, n \in Cmd!Column : Cmd!Printed(m) = Cmd!Printed(n) => m = n
  /\ Cmd!Placeholder(0) # Cmd!Placeholder(1)

Init == Args!Init /\ Cmd!Init

\* The program works on its objects; it has read the last answer.
Prepare ==
  /\ pc = "idle"
  /\ commands < MaxCommand
  /\ Args!Operation
  /\ reply' = NoReply
  /\ UNCHANGED sessionVars

\* vecArg[i].toString() of the elements of a vector, which goes out of scope afterwards.
Vector == {<< >>} \cup {<<v>> : v \in Slot} \cup {<<v, w>> : v, w \in Slot}
Distinct(vec) == \A i, j \in DOMAIN vec : i # j => vec[i] # vec[j]
Alive(vec) == \A i \in DOMAIN vec : Args!Alive(vec[i])
Texts(vec) == [i \in DOMAIN vec |-> Args!toString(vec[i])]
Meant(vec) == [i \in DOMAIN vec |-> meant[vec[i]]]

\* CDbProxy::call, call_r
call(sql, vec) ==
  /\ ~broken
  /\ Cmd!Call(sql, Texts(vec), Meant(vec))
  /\ Args!DestroyAll

\* CDbProxy::query
query(where, vec) ==
  /\ ~broken
  /\ Cmd!Query(where, Texts(vec), Meant(vec))
  /\ Args!DestroyAll

RowCommand ==
  /\ \/ \E m \in Message : Cmd!Insert(m) \/ Cmd!Update(m)
     \/ \E k \in Key : Cmd!Delete(k) \/ Cmd!Select(k)
  /\ ~broken
  /\ UNCHANGED argVars

Thread   == Cmd!CallStep /\ UNCHANGED argVars
LinkDown == Cmd!LinkDown /\ UNCHANGED argVars

Next ==
  \/ Prepare
  \/ \E vec \in Vector :
       /\ Distinct(vec) /\ Alive(vec)
       /\ \/ \E sql \in Sql : call(sql, vec)
          \/ \E where \in Where : query(where, vec)
  \/ RowCommand
  \/ Thread
  \/ LinkDown

\* The thread does not stop in the middle of a command.
Spec == Init /\ [][Next]_vars /\ WF_vars(Thread)

-----------------------------------------------------------------------------
(* Properties.                                                              *)

TypeOK ==
  /\ Args!TypeOK
  /\ pc \in {"idle", "autocommit off", "begin", "execute", "rollback, retry",
             "rollback, fail", "commit", "autocommit on"}
  /\ try \in 0 .. TRY_DEAD_LOOP_COUNT
  /\ code \in {"kRC_OK", "kRC_MYSQL_ERROR", "kRC_LOST_CONNECTION", "kRC_SQLPARM_ERROR"}
  /\ commands \in 0 .. MaxCommand
  /\ open \in BOOLEAN /\ autocommit \in BOOLEAN /\ link \in BOOLEAN /\ plain \in BOOLEAN

\* Nothing leaks, nothing is deleted twice and no pointer dangles, through any
\* sequence of constructions, copies, moves, assignments and destructions of
\* arguments; only the move constructor is undefined behaviour (db_variant.cpp:89).
HeapExact == Args!HeapExact

\* The text an argument is sent as is the value the program gave to the object, by
\* whatever way it got there.
ValuesKept == Args!ValuesKept

\* Other sessions see both writes of a call or neither, and see them once, through
\* lock waits, retries, errors at any place, and the death of the session.  The
\* procedure returns no rows: those of one that does are never fetched to their end.
AllOrNothing == \A n \in 1 .. MaxCommand : table.writes[n] \in {0, 2}

\* Between two commands the session is as it was handed to the handlers: autocommit on,
\* no transaction open, nothing that only this session sees.
SessionClean == (pc = "idle" /\ link) => autocommit /\ ~open /\ work = table

\* While the session lives the table is what the answers say: a command that reported
\* an error changed nothing, one that reported kRC_OK did what its arguments mean.
\* The values of arguments that Cmd!Plain excludes may end up anywhere in the text.
TableAsTold == (pc = "idle" /\ link /\ plain) => table.row = intended

\* A name as it comes back: all of it, or what is before its first zero byte.
UpToZero(name, whole) ==
  \/ name = whole /\ ~Cmd!Contains(whole, Nul)
  \/ \E k \in 1 .. Len(whole) :
       /\ whole[k] = Nul
       /\ \A j \in 1 .. k - 1 : whole[j] # Nul
       /\ name = SubSeq(whole, 1, k - 1)

\* The rows of an answer, against the ids that were found in view.
AsWritten(rows, found, view) ==
  IF found = << >> THEN rows \in {<< >>, <<Cmd!EmptyMessage>>}
  ELSE /\ Len(rows) = Len(found)
       /\ \A i \in DOMAIN found :
            /\ rows[i].id = IF found[i] \in Cmd!Field THEN found[i] ELSE ColumnWrap \div 2 - 1
            /\ UpToZero(rows[i].name, view[found[i]])

\* select and query return the rows the program asked for, all of them and no other, as
\* it wrote them, but for two values db_protobuf.cpp changes: of a name with a zero byte
\* exactly the part before the first one comes back, and an id too large for its field
\* comes back as the largest of that field.  A query has all rows when its clause is
\* empty once its arguments are put in, and a clause that lacks a placeholder has none.
ReadBack ==
  (reply # NoReply /\ link /\ plain)
    => AsWritten(reply.rows, Cmd!Found(intended, reply.asked), intended)

\* A call ends: lock waits are retried a bounded number of times.
CallEnds == (pc # "idle") ~> (pc = "idle")
=============================================================================
