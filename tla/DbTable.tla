------------------------------- MODULE DbTable -------------------------------
(***************************************************************************)
(* What a caller of select, update, insert and delete may expect of a set   *)
(* of tables, whatever caches stand in front of them: a row holds what was  *)
(* written to it last, and a select answers it.  Rows change when a request *)
(* says so and at no other time.                                            *)
(***************************************************************************)
EXTENDS Naturals

CONSTANTS Table, Id, Name, NoRow, NoAnswer

VARIABLES
  request,  \* the last request: its number, its operation and its arguments
  row,      \* row[t][i]: the name column of row i of table t, or NoRow
  answer    \* the answer to the last request, if it was a select

vars == <<request, row, answer>>

Init ==
  /\ request = <<0, "none", << >>>>
  /\ row \in [Table -> [Id -> Name \cup {NoRow}]]
  /\ answer = NoAnswer

Request(op, args) == request' = <<request[1] + 1, op, args>>

Select(t, i) ==
  /\ Request("select", <<t, i>>)
  /\ row[t][i] # NoRow
  /\ answer' = [table |-> t, id |-> i, name |-> row[t][i]]
  /\ UNCHANGED row

Store(t, i, name) ==
  /\ row' = [row EXCEPT ![t][i] = name]
  /\ answer' = NoAnswer

Update(t, i, name) ==
  /\ Request("update", <<t, i, name>>)
  /\ row[t][i] # NoRow
  /\ Store(t, i, name)

Insert(t, i, name) ==
  /\ Request("insert", <<t, i, name>>)
  /\ row[t][i] = NoRow
  /\ Store(t, i, name)

Delete(t, i) ==
  /\ Request("delete", <<t, i>>)
  /\ Store(t, i, NoRow)

Flush(op, args) ==
  /\ Request(op, args)
  /\ answer' = NoAnswer
  /\ UNCHANGED row

Next ==
  \/ \E t \in Table, i \in Id :
       \/ Select(t, i)
       \/ Delete(t, i)
       \/ \E name \in Name : Update(t, i, name) \/ Insert(t, i, name)
  \/ \E i \in Id : Flush("flush_key", <<i>>)
  \/ Flush("flush_all", << >>)

Spec == Init /\ [][Next]_vars
=============================================================================
