----------------------------- MODULE DbRegistry -----------------------------
(***************************************************************************)
(* The registry of db_service.cpp: create() starts a manager with its       *)
(* threads and enters it into s_mapDbThreadMgr under a new identifier,      *)
(* release() takes it out and ends it, every other call looks it up.  The   *)
(* threads of the application may be in these calls at the same time.       *)
(*                                                                          *)
(* s_lock protects the lookup and the erasure.  It protects neither the     *)
(* insertion in create() nor the use of the pointer a lookup returned: both *)
(* are left to the discipline of the application, which the model records.  *)
(* What a manager does with its commands is the business of DbThreadMgr.    *)
(***************************************************************************)
EXTENDS Integers, Sequences, Functions, TLC

CONSTANTS
  Caller,       \* the threads of the application
  ThreadCount,  \* nDbThreadCount
  None,         \* the null pointer
  MaxManager    \* bound: managers in one behaviour

ASSUME ThreadCountAssumption == ThreadCount \in Nat \ {0}
ASSUME BoundAssumption       == MaxManager \in Nat
ASSUME NoneAssumption        == None \notin Nat

Worker == 0 .. ThreadCount - 1

VARIABLES
  s_mapDbThreadMgr,  \* identifier -> manager
  nID,               \* the next identifier
  manager,           \* manager[p]: the state of its memory, and of each of its threads
  pc,                \* per caller: "idle", or where it is in create, release or another call
  pDbThreadMgr,      \* per caller: the manager it works on
  index,             \* per caller: the thread init() or exit() works on
  returned,          \* history: what create() returned for a manager, 0 before
  released,          \* history: the identifiers release() was called with
  disciplined,       \* history: the application kept to Discipline
  broken,            \* undefined behaviour has happened
  terminated         \* std::terminate: an exception left a destructor

localVars == <<pc, pDbThreadMgr, index>>
mapVars   == <<s_mapDbThreadMgr, nID>>
history   == <<returned, released, disciplined>>
vars == <<mapVars, manager, localVars, history, broken, terminated>>

Id == DOMAIN s_mapDbThreadMgr

Init ==
  /\ s_mapDbThreadMgr = << >>
  /\ nID = 1
  /\ manager = << >>
  /\ pc = [c \in Caller |-> "idle"]
  /\ pDbThreadMgr = [c \in Caller |-> None]
  /\ index = [c \in Caller |-> 0]
  /\ returned = << >>
  /\ released = {}
  /\ disciplined = TRUE
  /\ broken = FALSE
  /\ terminated = FALSE

-----------------------------------------------------------------------------
Running == ~broken /\ ~terminated
At(c, label) == Running /\ pc[c] = label
Goto(c, label) == pc' = [pc EXCEPT ![c] = label]

\* What the registry relies on: create() runs alone, and no call on a manager is in
\* progress when its release() begins.  Calls that come later are allowed.
Creating(c) == pc[c] \in {"init", "insert", "return"}
Idle(c)     == pc[c] = "idle"
CreateIsAlone(c) == \A d \in Caller \ {c} : Idle(d)
NobodyUses(p)    == \A d \in Caller : pc[d] = "call" => pDbThreadMgr[d] # p
NobodyCreates    == \A d \in Caller : ~Creating(d)

-----------------------------------------------------------------------------
(* create()                                                                 *)

\* new CDbThreadMgr(); init() makes room for its threads.
Create(c) ==
  /\ At(c, "idle")
  /\ Len(manager) < MaxManager
  /\ manager' = Append(manager, [memory |-> "valid", thread |-> [w \in Worker |-> "none"]])
  /\ pDbThreadMgr' = [pDbThreadMgr EXCEPT ![c] = Len(manager')]
  /\ index' = [index EXCEPT ![c] = 0]
  /\ Goto(c, "init")
  /\ returned' = Append(returned, 0)
  /\ disciplined' = (disciplined /\ CreateIsAlone(c))
  /\ UNCHANGED <<mapVars, released, broken, terminated>>

SetThread(p, w, state) == manager' = [manager EXCEPT ![p].thread[w] = state]

\* Mutant: init() starts one thread too many.
StartThreadPastTheEnd(c) ==
  /\ At(c, "init")
  /\ manager' = [manager EXCEPT ![pDbThreadMgr[c]].thread = (index[c] :> "running") @@ @]
  /\ index' = [index EXCEPT ![c] = @ + 1]
  /\ Goto(c, IF index'[c] > ThreadCount THEN "insert" ELSE "init")
  /\ UNCHANGED <<mapVars, pDbThreadMgr, history, broken, terminated>>

\* CDbThread::init: connected, and the thread runs.
StartThread(c) ==
  /\ At(c, "init")
  /\ SetThread(pDbThreadMgr[c], index[c], "running")
  /\ index' = [index EXCEPT ![c] = @ + 1]
  /\ Goto(c, IF index'[c] = ThreadCount THEN "insert" ELSE "init")
  /\ UNCHANGED <<mapVars, pDbThreadMgr, history, broken, terminated>>

\* Mutant: create() returns without deleting the manager.
ConnectFailsWithoutDelete(c) ==
  /\ At(c, "init")
  /\ SetThread(pDbThreadMgr[c], index[c], "unstarted")
  /\ Goto(c, "idle")
  /\ UNCHANGED <<mapVars, pDbThreadMgr, index, history, broken, terminated>>

\* No connection: init() returns false, and the manager is deleted, which begins
\* with exit().
ConnectFails(c) ==
  /\ At(c, "init")
  /\ SetThread(pDbThreadMgr[c], index[c], "unstarted")
  /\ index' = [index EXCEPT ![c] = 0]
  /\ Goto(c, "exit")
  /\ UNCHANGED <<mapVars, pDbThreadMgr, history, broken, terminated>>

\* s_mapDbThreadMgr[nID] = pDbThreadMgr, without the lock.
Insert(c) ==
  /\ At(c, "insert")
  /\ s_mapDbThreadMgr' =
       [i \in Id \cup {nID} |-> IF i = nID THEN pDbThreadMgr[c] ELSE s_mapDbThreadMgr[i]]
  /\ Goto(c, "return")
  /\ UNCHANGED <<nID, manager, pDbThreadMgr, index, history, broken, terminated>>

\* Mutant: return ++nID.
ReturnNext(c) ==
  /\ At(c, "return")
  /\ nID' = nID + 1
  /\ returned' = [returned EXCEPT ![pDbThreadMgr[c]] = nID']
  /\ Goto(c, "idle")
  /\ UNCHANGED <<s_mapDbThreadMgr, manager, pDbThreadMgr, index, released, disciplined,
                 broken, terminated>>

\* return nID++
Return(c) ==
  /\ At(c, "return")
  /\ nID' = nID + 1
  /\ returned' = [returned EXCEPT ![pDbThreadMgr[c]] = nID]
  /\ Goto(c, "idle")
  /\ UNCHANGED <<s_mapDbThreadMgr, manager, pDbThreadMgr, index, released, disciplined,
                 broken, terminated>>

-----------------------------------------------------------------------------
(* query, getResultInfo, getQPS, getQueueSize, setMaxCacheSize, flushCache  *)

\* An identifier create() has returned to the application, released or not.
Known(id) == id # 0 /\ \E p \in DOMAIN returned : returned[p] = id

\* getDbThreadMgr(): a call on an unknown manager ends here.
LookUp(c, id) ==
  /\ At(c, "idle")
  /\ Known(id)
  /\ id \in Id
  /\ pDbThreadMgr' = [pDbThreadMgr EXCEPT ![c] = s_mapDbThreadMgr[id]]
  /\ Goto(c, "call")
  /\ disciplined' = (disciplined /\ NobodyCreates)
  /\ UNCHANGED <<mapVars, manager, index, returned, released, broken, terminated>>

\* The manager, or the thread of it the call needs, was deleted meanwhile.
Gone(p, w) == manager[p].memory # "valid" \/ manager[p].thread[w] = "deleted"

\* The call does its work on thread w (one after the other for a call on all).
Use(c, w) ==
  /\ At(c, "call")
  /\ broken' = Gone(pDbThreadMgr[c], w)
  /\ UNCHANGED <<mapVars, manager, localVars, history, terminated>>

CallReturns(c) ==
  /\ At(c, "call")
  /\ Goto(c, "idle")
  /\ UNCHANGED <<mapVars, manager, pDbThreadMgr, index, history, broken, terminated>>

-----------------------------------------------------------------------------
(* release()                                                                *)

\* Mutant: the manager is looked up and stays in the map.
ReleaseKeepsEntry(c, id) ==
  /\ At(c, "idle")
  /\ Known(id)
  /\ id \in Id
  /\ pDbThreadMgr' = [pDbThreadMgr EXCEPT ![c] = s_mapDbThreadMgr[id]]
  /\ index' = [index EXCEPT ![c] = 0]
  /\ Goto(c, "exit")
  /\ released' = released \cup {id}
  /\ disciplined' = (disciplined /\ NobodyCreates /\ NobodyUses(s_mapDbThreadMgr[id]))
  /\ UNCHANGED <<mapVars, manager, returned, broken, terminated>>

\* The manager is found and erased from the map under the lock.
Release(c, id) ==
  /\ At(c, "idle")
  /\ Known(id)
  /\ id \in Id
  /\ s_mapDbThreadMgr' = Restrict(s_mapDbThreadMgr, Id \ {id})
  /\ pDbThreadMgr' = [pDbThreadMgr EXCEPT ![c] = s_mapDbThreadMgr[id]]
  /\ index' = [index EXCEPT ![c] = 0]
  /\ Goto(c, "exit")
  /\ released' = released \cup {id}
  /\ disciplined' = (disciplined /\ NobodyCreates /\ NobodyUses(s_mapDbThreadMgr[id]))
  /\ UNCHANGED <<nID, manager, returned, broken, terminated>>

\* exit(): join and delete one thread after the other.  A thread that was never
\* started cannot be joined: std::thread::join throws, out of a destructor.
Join(c) ==
  /\ At(c, "exit")
  /\ index[c] < ThreadCount
  /\ SetThread(pDbThreadMgr[c], index[c], "deleted")
  /\ index' = [index EXCEPT ![c] = @ + 1]
  /\ terminated' = (manager[pDbThreadMgr[c]].thread[index[c]] = "unstarted")
  /\ UNCHANGED <<mapVars, pc, pDbThreadMgr, history, broken>>

\* delete pDbThreadMgr: deleting it twice is undefined.
Delete(c) ==
  /\ At(c, "exit")
  /\ index[c] = ThreadCount
  /\ broken' = (manager[pDbThreadMgr[c]].memory # "valid")
  /\ manager' = [manager EXCEPT ![pDbThreadMgr[c]].memory = "deleted"]
  /\ Goto(c, "idle")
  /\ UNCHANGED <<mapVars, pDbThreadMgr, index, history, terminated>>

Next ==
  \E c \in Caller :
    \/ Create(c) \/ StartThread(c) \/ ConnectFails(c) \/ Insert(c) \/ Return(c)
    \/ \E id \in 1 .. MaxManager : LookUp(c, id) \/ Release(c, id)
    \/ \E w \in Worker : Use(c, w)
    \/ CallReturns(c)
    \/ Join(c) \/ Delete(c)

Spec == Init /\ [][Next]_vars

-----------------------------------------------------------------------------
(* Properties.                                                              *)

Manager == DOMAIN manager

ManagerState ==
  [memory : {"valid", "deleted"},
   thread : [Worker -> {"none", "unstarted", "running", "deleted"}]]

TypeOK ==
  /\ Id \subseteq Nat \ {0}
  /\ s_mapDbThreadMgr \in [Id -> Manager]
  /\ nID \in Nat \ {0}
  /\ manager \in Seq(ManagerState)
  /\ pc \in [Caller -> {"idle", "init", "insert", "return", "call", "exit"}]
  /\ pDbThreadMgr \in [Caller -> Manager \cup {None}]
  /\ index \in [Caller -> 0 .. ThreadCount]
  /\ returned \in [Manager -> Nat]
  /\ released \subseteq Nat
  /\ disciplined \in BOOLEAN /\ broken \in BOOLEAN /\ terminated \in BOOLEAN

Live(p) ==
  manager[p].memory = "valid" /\ \A w \in Worker : manager[p].thread[w] = "running"

\* A disciplined application causes no undefined behaviour: a manager that a call has
\* found keeps all its threads until the call returns.  Calls that begin while another
\* thread is inside release() are allowed: release() erases first and ends afterwards.
CallsUseLiveManagers ==
  disciplined =>
    /\ ~broken
    /\ \A c \in Caller : pc[c] = "call" => Live(pDbThreadMgr[c])

\* An identifier create() has returned means the manager made for it, and no other,
\* until it is given to release(); it never means anything again.
IdsResolve ==
  disciplined =>
    /\ \A p \in Manager : Known(returned[p]) =>
         IF returned[p] \in released
         THEN returned[p] \notin Id
         ELSE returned[p] \in Id /\ s_mapDbThreadMgr[returned[p]] = p
    /\ \A p, q \in Manager : (p # q /\ returned[p] # 0) => returned[p] # returned[q]

\* Whoever has to delete manager p: the caller that creates or releases it.
Owners(p) ==
  {c \in Caller : pDbThreadMgr[c] = p /\ pc[c] \in {"init", "insert", "exit"}}

\* No manager is leaked and none is deleted twice: a valid one is in the map once or
\* in the hands of one caller, and a deleted one is nowhere, its threads joined.
OwnedOnce ==
  disciplined =>
    \A p \in Manager :
      LET entries == {id \in Id : s_mapDbThreadMgr[id] = p}
      IN  IF manager[p].memory = "valid"
          THEN \/ entries = {} /\ \E c \in Caller : Owners(p) = {c}
               \/ Owners(p) = {} /\ \E id \in Id : entries = {id}
          ELSE /\ entries = {} /\ Owners(p) = {}
               /\ \A w \in Worker : manager[p].thread[w] = "deleted"
=============================================================================
