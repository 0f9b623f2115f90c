-------------------------- MODULE OrderedExecution --------------------------
(***************************************************************************)
(* What the connection pool promises its caller: every connection is one   *)
(* FIFO queue of commands, a command leaves the queue when it has been      *)
(* dealt with and never before the commands submitted ahead of it, and it   *)
(* is answered at most once, at that moment.  Threads, batches, locks and   *)
(* database connections are the business of DbThreadMgr.                    *)
(***************************************************************************)
EXTENDS Naturals, Sequences

CONSTANT Connection

VARIABLES
  issued,    \* how many commands have been submitted; they are numbered from 1
  queue,     \* queue[c]: the commands of connection c that are not settled yet
  answered   \* the commands that have been answered, in the order of the answers

vars == <<issued, queue, answered>>

Init ==
  /\ issued = 0
  /\ queue = [c \in Connection |-> << >>]
  /\ answered = << >>

Submit(c) ==
  /\ issued' = issued + 1
  /\ queue' = [queue EXCEPT ![c] = Append(@, issued')]
  /\ UNCHANGED answered

Settle(c) ==
  /\ queue[c] # << >>
  /\ queue' = [queue EXCEPT ![c] = Tail(@)]
  /\ answered' \in {answered, Append(answered, Head(queue[c]))}
  /\ UNCHANGED issued

Next == \E c \in Connection : Submit(c) \/ Settle(c)

Spec == Init /\ [][Next]_vars
=============================================================================
