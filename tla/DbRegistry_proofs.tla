-------------------------- MODULE DbRegistry_proofs --------------------------
(***************************************************************************)
(* Theorems about the registry of managers: for every number of callers,    *)
(* threads and managers, an application that keeps to the discipline of     *)
(* DbRegistry never touches a deleted manager, leaks none, deletes none      *)
(* twice, and finds under every identifier the manager made for it.          *)
(*                                                                          *)
(* Base holds of every application; the parts of Order hold of a            *)
(* disciplined one, and say where each manager is: in the map once, or in    *)
(* the hands of one caller, with its threads as far as that caller has come. *)
(***************************************************************************)
EXTENDS DbRegistry, TLAPS

-----------------------------------------------------------------------------
(* The inductive invariant.                                                 *)

Base ==
  \A c \in Caller :
    /\ pc[c] # "idle" => pDbThreadMgr[c] \in Manager
    /\ pc[c] = "init" => index[c] \in Worker

Holds(c) == pc[c] \in {"init", "insert", "exit"}

Listed(p) == \E i \in Id : s_mapDbThreadMgr[i] = p

\* A caller inside create() is the only one that is in a call.
Alone == \A c, d \in Caller : (Creating(c) /\ c # d) => Idle(d)

MapLive == \A i \in Id : Live(s_mapDbThreadMgr[i])

MapInjective ==
  \A i, j \in Id : s_mapDbThreadMgr[i] = s_mapDbThreadMgr[j] => i = j

\* What a caller holds exists, is in nobody else's hands, and is not in the map.
HeldOnce ==
  \A c \in Caller : Holds(c) =>
    /\ manager[pDbThreadMgr[c]].memory = "valid"
    /\ ~Listed(pDbThreadMgr[c])
    /\ \A d \in Caller : (Holds(d) /\ pDbThreadMgr[c] = pDbThreadMgr[d]) => c = d

\* An existing manager is somewhere; of a deleted one every thread was joined.
Placed ==
  \A p \in Manager :
    IF manager[p].memory = "valid"
    THEN Listed(p) \/ \E c \in Caller : Holds(c) /\ pDbThreadMgr[c] = p
    ELSE \A w \in Worker : manager[p].thread[w] = "deleted"

\* How far init() and exit() have come with the threads.
Stages ==
  \A c \in Caller : \A w \in Worker :
    LET state == manager[pDbThreadMgr[c]].thread[w]
    IN  /\ pc[c] = "init" /\ w < index[c] => state = "running"
        /\ pc[c] = "insert" => state = "running"
        /\ pc[c] = "exit" /\ w < index[c] => state = "deleted"

\* The manager a call works on, and the one create() is about to return, are listed.
Found ==
  \A c \in Caller :
    /\ pc[c] = "call" => Listed(pDbThreadMgr[c])
    /\ pc[c] = "return" => nID \in Id /\ s_mapDbThreadMgr[nID] = pDbThreadMgr[c]

\* Identifiers are handed out in order; the next one is in the map only while
\* create() is between the insertion and its return.
IdsInOrder ==
  /\ \A i \in Id : i <= nID
  /\ \A i \in released : i < nID /\ i \notin Id
  /\ nID \in Id => \E c \in Caller : pc[c] = "return"

Resolved ==
  \A p \in Manager : returned[p] # 0 =>
    /\ returned[p] < nID
    /\ returned[p] \notin released =>
         returned[p] \in Id /\ s_mapDbThreadMgr[returned[p]] = p
    /\ \A q \in Manager : returned[p] = returned[q] => p = q

Order ==
  /\ Alone /\ MapLive /\ MapInjective /\ HeldOnce /\ Placed /\ Stages /\ Found
  /\ IdsInOrder /\ Resolved /\ ~broken

RegistryInv == TypeOK /\ Base /\ (disciplined => Order)

-----------------------------------------------------------------------------
(* What the actions do to the managers, and the types.                      *)

\* What a manager may be, for a sequence of them.
LEMMA ManagerType ==
  ASSUME TypeOK
  PROVE  /\ Manager = 1 .. Len(manager) /\ Len(manager) \in Nat
         /\ \A p \in Manager : manager[p] \in ManagerState
<1> QED BY DEF TypeOK, Manager

\* One thread of one manager changes its state.
LEMMA ThreadSet ==
  ASSUME TypeOK, NEW p \in Manager, NEW w \in Worker,
         NEW state \in {"none", "unstarted", "running", "deleted"}, SetThread(p, w, state)
  PROVE  /\ manager' \in Seq(ManagerState) /\ Manager' = Manager
         /\ \A q \in Manager : manager'[q].memory = manager[q].memory
         /\ \A q \in Manager, v \in Worker :
              manager'[q].thread[v] =
                IF q = p /\ v = w THEN state ELSE manager[q].thread[v]
<1>1. manager \in Seq(ManagerState)
  BY DEF TypeOK
<1>2. manager[p] \in ManagerState
  BY ManagerType
<1> DEFINE after == [manager[p] EXCEPT !.thread[w] = state]
<1>3. after \in ManagerState
  BY <1>2 DEF ManagerState
<1>4. manager' = [manager EXCEPT ![p] = after]
  BY <1>2 DEF SetThread, ManagerState
<1>5. manager' \in Seq(ManagerState) /\ Manager' = Manager
  BY <1>1, <1>3, <1>4 DEF Manager
<1>6. /\ after.memory = manager[p].memory
      /\ \A v \in Worker :
           after.thread[v] = IF v = w THEN state ELSE manager[p].thread[v]
  BY <1>2 DEF ManagerState
<1> HIDE DEF after
<1>7. /\ manager'[p] = after
      /\ \A q \in Manager : q # p => manager'[q] = manager[q]
  BY <1>1, <1>4 DEF Manager
<1> QED
  BY <1>5, <1>6, <1>7

\* create() makes one more manager.
LEMMA ManagerAdded ==
  ASSUME TypeOK, NEW c \in Caller, Create(c)
  PROVE  /\ manager' \in Seq(ManagerState)
         /\ Len(manager') \notin Manager /\ Manager' = Manager \cup {Len(manager')}
         /\ \A q \in Manager : manager'[q] = manager[q] /\ returned'[q] = returned[q]
         /\ manager'[Len(manager')].memory = "valid"
         /\ returned' \in [Manager' -> Nat] /\ returned'[Len(manager')] = 0
<1>1. manager \in Seq(ManagerState) /\ returned \in Seq(Nat) /\ Len(returned) = Len(manager)
  BY ManagerType DEF TypeOK, Manager
<1> DEFINE new == [memory |-> "valid", thread |-> [w \in Worker |-> "none"]]
<1>2. new \in ManagerState /\ new.memory = "valid"
  BY DEF ManagerState
<1>3. manager' = Append(manager, new) /\ returned' = Append(returned, 0)
  BY DEF Create
<1> HIDE DEF new
<1> DEFINE n == Len(manager) + 1
<1>4. /\ manager' \in Seq(ManagerState) /\ Len(manager') = n
      /\ \A q \in 1 .. Len(manager) : manager'[q] = manager[q]
      /\ manager'[n] = new
  BY <1>1, <1>2, <1>3
<1>5. /\ returned' \in Seq(Nat) /\ Len(returned') = n
      /\ \A q \in 1 .. Len(manager) : returned'[q] = returned[q]
      /\ returned'[n] = 0
  BY <1>1, <1>3
<1>6. Manager = 1 .. Len(manager) /\ Manager' = 1 .. n /\ n \notin Manager
  BY <1>1, <1>4 DEF Manager
<1>7. Manager' = Manager \cup {n}
  BY <1>1, <1>6
<1>8. returned' \in [Manager' -> Nat]
  BY <1>5, <1>6
<1> HIDE DEF n
<1> QED
  BY <1>2, <1>4, <1>5, <1>6, <1>7, <1>8

\* A manager is deleted.
LEMMA ManagerDeleted ==
  ASSUME TypeOK, NEW p \in Manager, manager' = [manager EXCEPT ![p].memory = "deleted"]
  PROVE  /\ manager' \in Seq(ManagerState) /\ Manager' = Manager
         /\ manager'[p].memory = "deleted"
         /\ \A q \in Manager : q # p => manager'[q].memory = manager[q].memory
         /\ \A q \in Manager : manager'[q].thread = manager[q].thread
<1>1. manager \in Seq(ManagerState)
  BY DEF TypeOK
<1>2. manager[p] \in ManagerState
  BY ManagerType
<1> DEFINE after == [manager[p] EXCEPT !.memory = "deleted"]
<1>3. after \in ManagerState /\ after.memory = "deleted" /\ after.thread = manager[p].thread
  BY <1>2 DEF ManagerState
<1>4. manager' = [manager EXCEPT ![p] = after]
  BY <1>2
<1> HIDE DEF after
<1> QED
  BY <1>1, <1>3, <1>4 DEF Manager

\* The parts of TypeOK that do not change with the managers.
CallersOK ==
  /\ pc \in [Caller -> {"idle", "init", "insert", "return", "call", "exit"}]
  /\ index \in [Caller -> 0 .. ThreadCount]
  /\ disciplined \in BOOLEAN /\ broken \in BOOLEAN /\ terminated \in BOOLEAN

\* What a caller may do with a manager: one step of one caller changes nothing of the
\* others, and keeps the types and Base.
LEMMA TypeStep ==
  ASSUME TypeOK, Base, [Next]_vars
  PROVE  TypeOK' /\ Base'
<1> USE ThreadCountAssumption
<1>m. manager \in Seq(ManagerState) /\ Manager = DOMAIN manager
  BY DEF TypeOK, Manager
<1>0. CASE UNCHANGED vars
  BY <1>0 DEF TypeOK, Base, vars, mapVars, localVars, history, Id, Manager
<1>1. ASSUME NEW c \in Caller, Create(c)
      PROVE  TypeOK' /\ Base'
  <2>1. /\ manager' \in Seq(ManagerState) /\ Manager' = Manager \cup {Len(manager')}
        /\ returned' \in [Manager' -> Nat]
    BY <1>1, ManagerAdded
  <2>2. s_mapDbThreadMgr' = s_mapDbThreadMgr /\ nID' = nID /\ released' = released
    BY <1>1 DEF Create, mapVars
  <2>3. s_mapDbThreadMgr' \in [Id' -> Manager'] /\ Id' \subseteq Nat \ {0}
    BY <2>1, <2>2 DEF TypeOK, Id
  <2>4. pDbThreadMgr' \in [Caller -> Manager' \cup {None}]
    BY <1>1, <2>1 DEF TypeOK, Create
  <2>5. CallersOK'
    BY <1>1 DEF TypeOK, CallersOK, Create, Goto
  <2>6. TypeOK'
    BY <2>1, <2>2, <2>3, <2>4, <2>5 DEF TypeOK, CallersOK
  <2>7. Base'
    BY <1>1, <2>1 DEF TypeOK, Base, Create, Goto, Worker
  <2> QED
    BY <2>6, <2>7
<1>2. ASSUME NEW c \in Caller, pc[c] # "idle", NEW w \in Worker,
             NEW state \in {"none", "unstarted", "running", "deleted"},
             SetThread(pDbThreadMgr[c], w, state), UNCHANGED mapVars,
             UNCHANGED <<pDbThreadMgr, history>>, CallersOK',
             \A d \in Caller : pc'[d] # "idle" => pc[d] # "idle",
             \A d \in Caller : pc'[d] = "init" => index'[d] \in Worker
      PROVE  TypeOK' /\ Base'
  <2>1. pDbThreadMgr[c] \in Manager
    BY <1>2 DEF Base
  <2>2. manager' \in Seq(ManagerState) /\ Manager' = Manager
    BY <1>2, <2>1, ThreadSet
  <2>3. TypeOK'
    BY <1>2, <2>2 DEF TypeOK, CallersOK, mapVars, history, Id
  <2>4. Base'
    BY <1>2, <2>2 DEF Base
  <2> QED
    BY <2>3, <2>4
<1>3. ASSUME NEW c \in Caller, StartThread(c) \/ ConnectFails(c)
      PROVE  TypeOK' /\ Base'
  <2>1. pc[c] = "init" /\ index[c] \in Worker
    BY <1>3 DEF StartThread, ConnectFails, At, Base
  <2>2. CallersOK'
    <3>1. CallersOK /\ ThreadCount \in Nat
      BY DEF TypeOK, CallersOK
    <3>2. CASE StartThread(c)
      BY <2>1, <3>1, <3>2 DEF CallersOK, StartThread, Goto, Worker, history
    <3>3. CASE ConnectFails(c)
      BY <2>1, <3>1, <3>3 DEF CallersOK, ConnectFails, Goto, Worker, history
    <3> QED
      BY <1>3, <3>2, <3>3
  <2>3. /\ \A d \in Caller : pc'[d] # "idle" => pc[d] # "idle"
        /\ \A d \in Caller : pc'[d] = "init" => index'[d] \in Worker
    BY <1>3, <2>1 DEF TypeOK, Base, StartThread, ConnectFails, Goto, Worker
  <2>4. CASE StartThread(c)
    BY <1>2, <2>1, <2>2, <2>3, <2>4 DEF StartThread
  <2>5. CASE ConnectFails(c)
    BY <1>2, <2>1, <2>2, <2>3, <2>5 DEF ConnectFails
  <2> QED
    BY <1>3, <2>4, <2>5
<1>4. ASSUME NEW c \in Caller, Join(c)
      PROVE  TypeOK' /\ Base'
  <2>1. pc[c] = "exit" /\ index[c] \in Worker
    BY <1>4 DEF Join, At, TypeOK, Worker
  <2>2. CallersOK'
    BY <1>4, <2>1 DEF TypeOK, CallersOK, Join, Worker, history
  <2>3. /\ \A d \in Caller : pc'[d] # "idle" => pc[d] # "idle"
        /\ \A d \in Caller : pc'[d] = "init" => index'[d] \in Worker
    BY <1>4, <2>1 DEF TypeOK, Base, Join
  <2> QED
    BY <1>2, <1>4, <2>1, <2>2, <2>3 DEF Join
<1>5. ASSUME NEW c \in Caller, Insert(c)
      PROVE  TypeOK' /\ Base'
  <2>1. pDbThreadMgr[c] \in Manager
    BY <1>5 DEF Insert, At, Base
  <2>2. s_mapDbThreadMgr' \in [Id' -> Manager] /\ Id' \subseteq Nat \ {0}
    BY <1>5, <2>1 DEF TypeOK, Insert, Id
  <2>3. CallersOK'
    BY <1>5 DEF TypeOK, CallersOK, Insert, Goto, history
  <2>4. TypeOK'
    BY <1>5, <2>2, <2>3 DEF TypeOK, CallersOK, Insert, Manager, history
  <2>5. Base'
    BY <1>5, <2>1 DEF TypeOK, Base, Insert, Goto, Manager
  <2> QED
    BY <2>4, <2>5
<1>6. ASSUME NEW c \in Caller, Return(c)
      PROVE  TypeOK' /\ Base'
  <2>1. CallersOK'
    BY <1>6 DEF TypeOK, CallersOK, Return, Goto
  <2>2. nID' \in Nat \ {0}
    BY <1>6 DEF TypeOK, Return
  <2>2a. returned' \in [Manager -> Nat]
    <3>1. returned \in [Manager -> Nat] /\ nID \in Nat
      BY DEF TypeOK
    <3> QED
      BY <1>6, <3>1 DEF Return
  <2>3. TypeOK'
    BY <1>6, <2>1, <2>2, <2>2a DEF TypeOK, CallersOK, Return, Manager, Id
  <2>4. Base'
    BY <1>6 DEF TypeOK, Base, Return, Goto, Manager
  <2> QED
    BY <2>3, <2>4
<1>7. ASSUME NEW c \in Caller, NEW id \in 1 .. MaxManager, LookUp(c, id)
      PROVE  TypeOK' /\ Base'
  <2>1. s_mapDbThreadMgr[id] \in Manager
    BY <1>7 DEF TypeOK, LookUp
  <2>2. CallersOK'
    BY <1>7 DEF TypeOK, CallersOK, LookUp, Goto
  <2>3. TypeOK'
    BY <1>7, <2>1, <2>2 DEF TypeOK, CallersOK, LookUp, mapVars, Manager, Id
  <2>4. Base'
    BY <1>7, <2>1 DEF TypeOK, Base, LookUp, Goto, Manager
  <2> QED
    BY <2>3, <2>4
<1>8. ASSUME NEW c \in Caller, NEW id \in 1 .. MaxManager, Release(c, id)
      PROVE  TypeOK' /\ Base'
  <2>1. s_mapDbThreadMgr[id] \in Manager
    BY <1>8 DEF TypeOK, Release
  <2>2. CallersOK'
    BY <1>8 DEF TypeOK, CallersOK, Release, Goto
  <2>3. s_mapDbThreadMgr' \in [Id' -> Manager] /\ Id' \subseteq Nat \ {0}
    BY <1>8 DEF TypeOK, Release, Restrict, Id
  <2>4. released' \subseteq Nat /\ pDbThreadMgr' \in [Caller -> Manager \cup {None}]
    BY <1>8, <2>1, BoundAssumption DEF TypeOK, Release
  <2>5. TypeOK'
    BY <1>8, <2>2, <2>3, <2>4 DEF TypeOK, CallersOK, Release, Manager
  <2>6. Base'
    BY <1>8, <2>1 DEF TypeOK, Base, Release, Goto, Manager
  <2> QED
    BY <2>5, <2>6
<1>9. ASSUME NEW c \in Caller, NEW w \in Worker, Use(c, w)
      PROVE  TypeOK' /\ Base'
  <2>1. CallersOK'
    BY <1>9 DEF TypeOK, CallersOK, Use, localVars, history, Gone
  <2> QED
    BY <1>9, <2>1 DEF TypeOK, CallersOK, Base, Use, mapVars, localVars, history, Id, Manager
<1>10. ASSUME NEW c \in Caller, CallReturns(c)
       PROVE  TypeOK' /\ Base'
  BY <1>10 DEF TypeOK, Base, CallReturns, Goto, mapVars, history, Id, Manager
<1>11. ASSUME NEW c \in Caller, Delete(c)
       PROVE  TypeOK' /\ Base'
  <2>1. pDbThreadMgr[c] \in Manager
    BY <1>11 DEF Delete, At, Base
  <2>2. manager' \in Seq(ManagerState) /\ Manager' = Manager
    BY <1>11, <2>1, ManagerDeleted DEF Delete
  <2>3. CallersOK'
    BY <1>11 DEF TypeOK, CallersOK, Delete, Goto, history
  <2>4. TypeOK'
    BY <1>11, <2>2, <2>3 DEF TypeOK, CallersOK, Delete, mapVars, history, Id
  <2>5. Base'
    BY <1>11, <2>2 DEF TypeOK, Base, Delete, Goto
  <2> QED
    BY <2>4, <2>5
<1> QED
  BY <1>0, <1>1, <1>3, <1>4, <1>5, <1>6, <1>7, <1>8, <1>9, <1>10, <1>11 DEF Next

\* Init has all of it.
LEMMA TypeInit ==
  ASSUME Init
  PROVE  TypeOK /\ Base
<1>1. manager \in Seq(ManagerState) /\ Manager = {} /\ Id = {}
  BY DEF Init, Manager, Id
<1>2. s_mapDbThreadMgr \in [Id -> Manager] /\ returned \in [Manager -> Nat]
  BY <1>1 DEF Init
<1>3. CallersOK
  <2>1. 0 \in 0 .. ThreadCount
    BY ThreadCountAssumption
  <2>2. /\ pc \in [Caller -> {"idle", "init", "insert", "return", "call", "exit"}]
        /\ index \in [Caller -> 0 .. ThreadCount]
    BY <2>1 DEF Init
  <2>3. disciplined \in BOOLEAN /\ broken \in BOOLEAN /\ terminated \in BOOLEAN
    BY DEF Init
  <2> QED
    BY <2>2, <2>3 DEF CallersOK
<1>4. Base
  BY DEF Init, Base
<1> QED
  BY <1>1, <1>2, <1>3, <1>4 DEF Init, TypeOK, CallersOK

\* Whatever the application does, all variables have their types: init() and exit()
\* stay within the threads of a manager, a call works on a manager that was created
\* (db_service.cpp:92-189).
THEOREM TypeCorrect == Spec => [](TypeOK /\ Base)
<1>1. Init => TypeOK /\ Base
  BY TypeInit
<1>2. (TypeOK /\ Base) /\ [Next]_vars => (TypeOK /\ Base)'
  BY TypeStep
<1> QED
  BY <1>1, <1>2, PTL DEF Spec

-----------------------------------------------------------------------------
(* The order a disciplined application keeps.                               *)

\* Only the position of one caller changes.
Moves(c, label) ==
  /\ pc' = [pc EXCEPT ![c] = label]
  /\ \A d \in Caller \ {c} :
       pDbThreadMgr'[d] = pDbThreadMgr[d] /\ index'[d] = index[d]

\* A caller that holds a manager works on one of its threads: init() and exit().
LEMMA HeldStep ==
  ASSUME TypeOK, Base, Order,
         NEW c \in Caller, Holds(c), NEW label \in {"init", "insert", "exit"},
         Moves(c, label), label # "exit" => Creating(c),
         NEW w \in Worker, NEW state \in {"none", "unstarted", "running", "deleted"},
         SetThread(pDbThreadMgr[c], w, state),
         UNCHANGED <<mapVars, pDbThreadMgr, returned, released, broken>>,
         \A v \in Worker :
           LET after == manager'[pDbThreadMgr[c]].thread[v]
           IN  /\ label = "init" /\ v < index'[c] => after = "running"
               /\ label = "insert" => after = "running"
               /\ label = "exit" /\ v < index'[c] => after = "deleted"
  PROVE  Order'
<1> DEFINE p == pDbThreadMgr[c]
<1>1. p \in Manager
  BY DEF Base, Holds
<1>2. /\ Manager' = Manager
      /\ \A q \in Manager : manager'[q].memory = manager[q].memory
      /\ \A q \in Manager, v \in Worker :
           manager'[q].thread[v] = IF q = p /\ v = w THEN state ELSE manager[q].thread[v]
  BY <1>1, ThreadSet
<1>3. /\ s_mapDbThreadMgr' = s_mapDbThreadMgr /\ nID' = nID
      /\ pDbThreadMgr' = pDbThreadMgr /\ returned' = returned /\ released' = released
      /\ broken' = broken /\ Id' = Id /\ (\A q : Listed(q)' = Listed(q))
  BY DEF mapVars, Id, Listed
<1>4. /\ manager[p].memory = "valid" /\ ~Listed(p)
      /\ \A d \in Caller : (Holds(d) /\ p = pDbThreadMgr[d]) => c = d
  BY DEF Order, HeldOnce
<1>5. /\ pc'[c] = label /\ Holds(c)'
      /\ \A d \in Caller : d # c => pc'[d] = pc[d] /\ Holds(d)' = Holds(d)
  BY DEF TypeOK, Moves, Holds
<1>6. \A d \in Caller : Holds(d)' = Holds(d)
  BY <1>5 DEF Holds
<1> HIDE DEF p
<1>7. Alone'
  BY <1>5 DEF Order, Alone, Creating, Idle, Holds, p
<1>8. MapLive'
  <2> SUFFICES ASSUME NEW i \in Id PROVE Live(s_mapDbThreadMgr[i])'
    BY <1>3 DEF MapLive
  <2>1. s_mapDbThreadMgr[i] \in Manager /\ s_mapDbThreadMgr[i] # p
    BY <1>4 DEF TypeOK, Listed, p
  <2> QED
    BY <1>2, <1>3, <2>1 DEF Order, MapLive, Live
<1>9. MapInjective'
  BY <1>3 DEF Order, MapInjective
<1>10. HeldOnce'
  BY <1>2, <1>3, <1>6 DEF Order, HeldOnce, Base, Holds
<1>11. Placed'
  <2> SUFFICES ASSUME NEW q \in Manager PROVE Placed!(q)'
    BY <1>2 DEF Placed
  <2> QED
    BY <1>2, <1>3, <1>4, <1>6 DEF Order, Placed
<1>12. Stages'
  <2> SUFFICES ASSUME NEW d \in Caller, NEW v \in Worker PROVE Stages!(d)!(v)'
    BY DEF Stages
  <2>1. CASE d = c
    BY <1>3, <1>5, <2>1
  <2>2. CASE d # c
    BY <1>2, <1>3, <1>4, <1>5, <2>2 DEF Order, Stages, Moves, Base, Holds, p
  <2> QED
    BY <2>1, <2>2
<1>13. Found'
  BY <1>3, <1>5 DEF Order, Found
<1>14. IdsInOrder'
  BY <1>3, <1>5 DEF Order, IdsInOrder, Holds
<1>15. Resolved'
  BY <1>2, <1>3 DEF Order, Resolved
<1> QED
  BY <1>3, <1>7, <1>8, <1>9, <1>10, <1>11, <1>12, <1>13, <1>14, <1>15 DEF Order

\* init() and exit() go on with the next thread.
LEMMA ThreadSteps ==
  ASSUME TypeOK, Base, Order, NEW c \in Caller,
         StartThread(c) \/ ConnectFails(c) \/ Join(c)
  PROVE  Order'
<1>0. /\ Holds(c) /\ pDbThreadMgr[c] \in Manager /\ ThreadCount \in Nat
      /\ index[c] \in Worker
  BY ThreadCountAssumption
  DEF TypeOK, Base, Holds, At, StartThread, ConnectFails, Join, Worker
<1> DEFINE p == pDbThreadMgr[c]
<1>1. CASE StartThread(c)
  <2> DEFINE label == IF index'[c] = ThreadCount THEN "insert" ELSE "init"
  <2>1. Moves(c, label) /\ index'[c] = index[c] + 1 /\ pc[c] = "init"
    BY <1>1 DEF TypeOK, StartThread, Moves, Goto, At
  <2>2. \A v \in Worker : v < index'[c] => manager'[p].thread[v] = "running"
    <3>1. \A v \in Worker :
            manager'[p].thread[v] =
              IF v = index[c] THEN "running" ELSE manager[p].thread[v]
      BY <1>0, <1>1, ThreadSet DEF StartThread
    <3>2. \A v \in Worker : v < index[c] => manager[p].thread[v] = "running"
      BY <2>1 DEF Order, Stages
    <3> QED
      BY <1>0, <2>1, <3>1, <3>2 DEF Worker
  <2>3. label = "insert" => \A v \in Worker : v < index'[c]
    BY <1>0 DEF Worker
  <2>4. Creating(c) /\ label \in {"init", "insert"}
    BY <2>1 DEF Creating
  <2>5. SetThread(p, index[c], "running")
        /\ UNCHANGED <<mapVars, pDbThreadMgr, returned, released, broken>>
    BY <1>1 DEF StartThread, history
  <2> HIDE DEF label, p
  <2> QED
    BY <1>0, <2>1, <2>2, <2>3, <2>4, <2>5, HeldStep DEF p
<1>2. CASE ConnectFails(c)
  <2>1. Moves(c, "exit") /\ index'[c] = 0
    BY <1>2 DEF TypeOK, ConnectFails, Moves, Goto
  <2>2. \A v \in Worker : ~(v < index'[c])
    BY <2>1 DEF Worker
  <2>3. SetThread(p, index[c], "unstarted")
        /\ UNCHANGED <<mapVars, pDbThreadMgr, returned, released, broken>>
    BY <1>2 DEF ConnectFails, history
  <2> QED
    BY <1>0, <2>1, <2>2, <2>3, HeldStep
<1>3. CASE Join(c)
  <2>1. Moves(c, "exit") /\ index'[c] = index[c] + 1 /\ pc[c] = "exit"
    BY <1>3 DEF TypeOK, Join, Moves, At
  <2>2. \A v \in Worker : v < index'[c] => manager'[p].thread[v] = "deleted"
    <3>1. \A v \in Worker :
            manager'[p].thread[v] =
              IF v = index[c] THEN "deleted" ELSE manager[p].thread[v]
      BY <1>0, <1>3, ThreadSet DEF Join
    <3>2. \A v \in Worker : v < index[c] => manager[p].thread[v] = "deleted"
      BY <2>1 DEF Order, Stages
    <3> QED
      BY <1>0, <2>1, <3>1, <3>2 DEF Worker
  <2>3. SetThread(p, index[c], "deleted")
        /\ UNCHANGED <<mapVars, pDbThreadMgr, returned, released, broken>>
    BY <1>3 DEF Join, history
  <2> QED
    BY <1>0, <2>1, <2>2, <2>3, HeldStep
<1> QED
  BY <1>1, <1>2, <1>3

\* create() begins: nobody else is in a call, the new manager is in its hands.
LEMMA CreateStep ==
  ASSUME TypeOK, Base, Order, NEW c \in Caller, Create(c), disciplined'
  PROVE  Order'
<1> DEFINE p == Len(manager')
<1>1. /\ Manager' = Manager \cup {p} /\ p \notin Manager
      /\ \A q \in Manager : manager'[q] = manager[q] /\ returned'[q] = returned[q]
      /\ manager'[p].memory = "valid" /\ returned'[p] = 0
  BY ManagerAdded
<1>2. /\ \A d \in Caller : d # c => pc[d] = "idle"
      /\ pc[c] = "idle"
  BY DEF Create, At, CreateIsAlone, Idle
<1>3. /\ s_mapDbThreadMgr' = s_mapDbThreadMgr /\ nID' = nID /\ released' = released
      /\ broken' = broken /\ Id' = Id /\ (\A q : Listed(q)' = Listed(q))
  BY DEF Create, mapVars, Id, Listed
<1>4. /\ pc' = [pc EXCEPT ![c] = "init"] /\ pDbThreadMgr'[c] = p /\ index'[c] = 0
      /\ \A d \in Caller : d # c => pDbThreadMgr'[d] = pDbThreadMgr[d]
  BY DEF TypeOK, Create, Goto
<1>5. pc'[c] = "init" /\ \A d \in Caller : d # c => pc'[d] = "idle"
  BY <1>2, <1>4 DEF TypeOK
<1>6. \A i \in Id : s_mapDbThreadMgr[i] \in Manager
  BY DEF TypeOK
<1> HIDE DEF p
<1>7. Alone'
  BY <1>5 DEF Alone, Creating, Idle
<1>8. MapLive'
  BY <1>1, <1>3, <1>6 DEF Order, MapLive, Live
<1>9. MapInjective'
  BY <1>3 DEF Order, MapInjective
<1>10. HeldOnce'
  <2>1. ~Listed(p)
    BY <1>1, <1>6 DEF Listed
  <2> QED
    BY <1>1, <1>3, <1>4, <1>5, <2>1 DEF HeldOnce, Holds
<1>11. Placed'
  <2> SUFFICES ASSUME NEW q \in Manager' PROVE Placed!(q)'
    BY DEF Placed
  <2>1. CASE q = p
    BY <1>1, <1>4, <1>5, <2>1 DEF Holds
  <2>2. CASE q \in Manager
    <3>1. ~\E d \in Caller : Holds(d)
      BY <1>2 DEF Holds
    <3> QED
      BY <1>1, <1>3, <2>2, <3>1 DEF Order, Placed
  <2> QED
    BY <1>1, <2>1, <2>2
<1>12. Stages'
  BY <1>4, <1>5 DEF Stages, Worker
<1>13. Found'
  BY <1>5 DEF Found
<1>14. IdsInOrder'
  BY <1>2, <1>3 DEF Order, IdsInOrder
<1>15. Resolved'
  BY <1>1, <1>3 DEF Order, Resolved
<1> QED
  BY <1>3, <1>7, <1>8, <1>9, <1>10, <1>11, <1>12, <1>13, <1>14, <1>15 DEF Order

\* The new manager enters the map: its identifier is not in use, and nobody looks.
LEMMA InsertStep ==
  ASSUME TypeOK, Base, Order, NEW c \in Caller, Insert(c)
  PROVE  Order'
<1> DEFINE p == pDbThreadMgr[c]
<1>1. /\ pc[c] = "insert" /\ p \in Manager
      /\ \A d \in Caller : d # c => pc[d] = "idle"
  BY DEF Insert, At, Base, Order, Alone, Creating, Idle
<1>2. pc'[c] = "return" /\ \A d \in Caller : d # c => pc'[d] = "idle"
  BY <1>1 DEF TypeOK, Insert, Goto
<1>3. nID \notin Id /\ nID \in Nat
  BY <1>1 DEF TypeOK, Order, IdsInOrder
<1>4. /\ manager' = manager /\ Manager' = Manager /\ nID' = nID
      /\ pDbThreadMgr' = pDbThreadMgr /\ returned' = returned /\ released' = released
      /\ broken' = broken
  BY DEF Insert, Manager, history
<1>5. /\ Id' = Id \cup {nID} /\ s_mapDbThreadMgr'[nID] = p
      /\ \A i \in Id : s_mapDbThreadMgr'[i] = s_mapDbThreadMgr[i]
  BY <1>3 DEF Insert, Id
<1>6. Live(p) /\ ~Listed(p)
  BY <1>1 DEF Order, HeldOnce, Holds, Stages, Live
<1> HIDE DEF p
<1>7. Alone'
  BY <1>2 DEF Alone, Creating, Idle
<1>8. MapLive'
  BY <1>4, <1>5, <1>6 DEF Order, MapLive, Live
<1>9. MapInjective'
  BY <1>5, <1>6 DEF Order, MapInjective, Listed
<1>10. HeldOnce'
  BY <1>2 DEF HeldOnce, Holds
<1>11. Placed'
  <2> SUFFICES ASSUME NEW q \in Manager PROVE Placed!(q)'
    BY <1>4 DEF Placed
  <2>1. CASE q = p
    BY <1>4, <1>5, <1>6, <2>1 DEF Live, Listed
  <2>2. CASE q # p
    <3>1. ~\E d \in Caller : Holds(d) /\ pDbThreadMgr[d] = q
      BY <1>1, <2>2 DEF Holds, p
    <3>2. Listed(q) => Listed(q)'
      BY <1>5 DEF Listed
    <3> QED
      BY <1>4, <3>1, <3>2 DEF Order, Placed
  <2> QED
    BY <2>1, <2>2
<1>12. Stages'
  BY <1>2 DEF Stages
<1>13. Found'
  BY <1>2, <1>4, <1>5 DEF Found, p
<1>14. IdsInOrder'
  BY <1>2, <1>3, <1>4, <1>5 DEF TypeOK, Order, IdsInOrder
<1>15. Resolved'
  BY <1>4, <1>5 DEF Order, Resolved
<1> QED
  BY <1>4, <1>7, <1>8, <1>9, <1>10, <1>11, <1>12, <1>13, <1>14, <1>15 DEF Order

\* create() returns the identifier it has inserted, and the next one is greater.
LEMMA ReturnStep ==
  ASSUME TypeOK, Base, Order, NEW c \in Caller, Return(c)
  PROVE  Order'
<1> DEFINE p == pDbThreadMgr[c]
<1>1. /\ pc[c] = "return" /\ p \in Manager
      /\ \A d \in Caller : d # c => pc[d] = "idle"
  BY DEF Return, At, Base, Order, Alone, Creating, Idle
<1>2. \A d \in Caller : pc'[d] = "idle"
  BY <1>1 DEF TypeOK, Return, Goto
<1>3. nID \in Id /\ s_mapDbThreadMgr[nID] = p /\ nID \in Nat
  BY <1>1 DEF TypeOK, Order, Found
<1>4. /\ manager' = manager /\ Manager' = Manager /\ nID' = nID + 1
      /\ s_mapDbThreadMgr' = s_mapDbThreadMgr /\ Id' = Id
      /\ pDbThreadMgr' = pDbThreadMgr /\ released' = released /\ broken' = broken
      /\ (\A q : Listed(q)' = Listed(q))
  BY DEF Return, Manager, Id, Listed
<1>5. /\ returned'[p] = nID
      /\ \A q \in Manager : q # p => returned'[q] = returned[q]
  BY <1>1 DEF TypeOK, Return
<1>6. Id \subseteq Nat /\ released \subseteq Nat /\ returned \in [Manager -> Nat]
  BY DEF TypeOK
<1> HIDE DEF p
<1>7. Alone'
  BY <1>2 DEF Alone, Creating, Idle
<1>8. MapLive'
  BY <1>4 DEF Order, MapLive, Live
<1>9. MapInjective'
  BY <1>4 DEF Order, MapInjective
<1>10. HeldOnce'
  BY <1>2 DEF HeldOnce, Holds
<1>11. Placed'
  <2>1. ~\E d \in Caller : Holds(d)
    BY <1>1 DEF Holds
  <2> QED
    BY <1>4, <2>1 DEF Order, Placed
<1>12. Stages'
  BY <1>2 DEF Stages
<1>13. Found'
  BY <1>2 DEF Found
<1>14. IdsInOrder'
  <2>1. \A i \in Id : i <= nID /\ i \in Nat
    BY <1>6 DEF Order, IdsInOrder
  <2>2. \A i \in released : i < nID /\ i \notin Id /\ i \in Nat
    BY <1>6 DEF Order, IdsInOrder
  <2>3. nID + 1 \notin Id /\ \A i \in Id : i <= nID + 1
    BY <1>3, <2>1
  <2>4. \A i \in released : i < nID + 1 /\ i \notin Id
    BY <1>3, <2>2
  <2> QED
    BY <1>4, <2>3, <2>4 DEF IdsInOrder
<1>15. Resolved'
  <2>1. \A q \in Manager : returned[q] # 0 => returned[q] < nID
    BY DEF Order, Resolved
  <2> QED
    BY <1>3, <1>4, <1>5, <1>6, <2>1 DEF Order, Resolved
<1> QED
  BY <1>4, <1>7, <1>8, <1>9, <1>10, <1>11, <1>12, <1>13, <1>14, <1>15 DEF Order

\* A call that finds its manager, uses it, or returns changes nothing of where the
\* managers are; a thread of a listed manager is not deleted.
LEMMA CallSteps ==
  ASSUME TypeOK, Base, Order, NEW c \in Caller, disciplined',
         \/ \E id \in 1 .. MaxManager : LookUp(c, id)
         \/ \E w \in Worker : Use(c, w)
         \/ CallReturns(c)
  PROVE  Order'
<1>1. /\ manager' = manager /\ Manager' = Manager /\ nID' = nID
      /\ s_mapDbThreadMgr' = s_mapDbThreadMgr /\ Id' = Id
      /\ index' = index /\ returned' = returned /\ released' = released
      /\ (\A q : Listed(q)' = Listed(q)) /\ (\A q : Live(q)' = Live(q))
  BY DEF LookUp, Use, CallReturns, mapVars, localVars, history, Manager, Id, Listed, Live
<1>2. /\ ~Holds(c) /\ ~Holds(c)' /\ ~Creating(c)'
      /\ pc[c] # "return" /\ pc'[c] \in {"idle", "call"}
  BY DEF TypeOK, LookUp, Use, CallReturns, At, Goto, localVars, Holds, Creating
<1>3. \A d \in Caller : d # c => pc'[d] = pc[d] /\ pDbThreadMgr'[d] = pDbThreadMgr[d]
  BY DEF TypeOK, LookUp, Use, CallReturns, Goto, localVars
<1>4. pc'[c] = "call" =>
        /\ Listed(pDbThreadMgr'[c])
        /\ pc[c] # "call" => \A d \in Caller : ~Creating(d)
  <2>1. ASSUME NEW id \in 1 .. MaxManager, LookUp(c, id)
        PROVE  /\ Listed(pDbThreadMgr'[c])
               /\ \A d \in Caller : ~Creating(d)
    BY <2>1 DEF TypeOK, LookUp, Listed, NobodyCreates
  <2>2. ASSUME NEW w \in Worker, Use(c, w)
        PROVE  Listed(pDbThreadMgr'[c]) /\ pc[c] = "call"
    BY <2>2 DEF Use, At, localVars, Order, Found
  <2>3. CallReturns(c) => pc'[c] = "idle"
    BY DEF TypeOK, CallReturns, Goto
  <2> QED
    BY <2>1, <2>2, <2>3
<1>5. ~broken'
  <2>1. ASSUME NEW w \in Worker, Use(c, w) PROVE ~broken'
    <3>1. Listed(pDbThreadMgr[c])
      BY <2>1 DEF Use, At, Order, Found
    <3>2. Live(pDbThreadMgr[c])
      BY <3>1 DEF Order, MapLive, Listed
    <3> QED
      BY <2>1, <3>2 DEF Use, Gone, Live
  <2>2. ~broken
    BY DEF Order
  <2> QED
    BY <2>1, <2>2 DEF LookUp, CallReturns
<1>6. \A d \in Caller : Holds(d) = Holds(d)' /\ (Holds(d) => d # c)
  BY <1>2, <1>3 DEF Holds
<1>7. Alone'
  <2> SUFFICES ASSUME NEW d \in Caller, NEW e \in Caller, Creating(d)', d # e
               PROVE  Idle(e)'
    BY DEF Alone
  <2>1. Creating(d) /\ d # c
    BY <1>2, <1>3 DEF Creating
  <2>2. Idle(e)
    BY <2>1 DEF Order, Alone
  <2>3. CASE e = c
    <3>1. pc'[c] # "call"
      BY <1>4, <2>1, <2>2, <2>3 DEF Idle
    <3> QED
      BY <1>2, <2>3, <3>1 DEF Idle
  <2> QED
    BY <1>3, <2>2, <2>3 DEF Idle
<1>8. MapLive'
  BY <1>1 DEF Order, MapLive
<1>9. MapInjective'
  BY <1>1 DEF Order, MapInjective
<1>10. HeldOnce'
  BY <1>1, <1>3, <1>6 DEF Order, HeldOnce
<1>11. Placed'
  BY <1>1, <1>3, <1>6 DEF Order, Placed
<1>12. Stages'
  BY <1>1, <1>2, <1>3 DEF Order, Stages
<1>13. Found'
  BY <1>1, <1>2, <1>3, <1>4 DEF Order, Found
<1>14. IdsInOrder'
  BY <1>1, <1>2, <1>3 DEF Order, IdsInOrder
<1>15. Resolved'
  BY <1>1 DEF Order, Resolved
<1> QED
  BY <1>5, <1>7, <1>8, <1>9, <1>10, <1>11, <1>12, <1>13, <1>14, <1>15 DEF Order

\* release() takes the manager out of the map into its own hands, and nobody uses it.
LEMMA ReleaseStep ==
  ASSUME TypeOK, Base, Order, NEW c \in Caller, NEW id \in 1 .. MaxManager,
         Release(c, id), disciplined'
  PROVE  Order'
<1> DEFINE p == s_mapDbThreadMgr[id]
<1>1. /\ pc[c] = "idle" /\ id \in Id /\ p \in Manager /\ Listed(p) /\ Live(p)
      /\ \A d \in Caller : ~Creating(d)
      /\ \A d \in Caller : pc[d] = "call" => pDbThreadMgr[d] # p
  BY DEF TypeOK, Release, At, NobodyCreates, NobodyUses, Order, MapLive, Listed
<1>2. /\ pc'[c] = "exit" /\ pDbThreadMgr'[c] = p /\ index'[c] = 0
      /\ \A d \in Caller : d # c =>
           pc'[d] = pc[d] /\ pDbThreadMgr'[d] = pDbThreadMgr[d] /\ index'[d] = index[d]
  BY DEF TypeOK, Release, Goto
<1>3. /\ manager' = manager /\ Manager' = Manager /\ nID' = nID
      /\ returned' = returned /\ broken' = broken /\ released' = released \cup {id}
  BY DEF Release, Manager
<1>4. /\ Id' = Id \ {id}
      /\ \A i \in Id \ {id} : s_mapDbThreadMgr'[i] = s_mapDbThreadMgr[i]
  BY DEF Release, Restrict, Id
<1>5. \A i \in Id \ {id} : s_mapDbThreadMgr[i] # p
  BY <1>1 DEF Order, MapInjective
<1>6. \A q \in Manager : Listed(q)' <=> Listed(q) /\ q # p
  BY <1>1, <1>4, <1>5 DEF Listed
<1>7. id < nID /\ id \in Nat
  <2>1. PICK q \in Manager : returned[q] = id /\ id # 0
    BY DEF TypeOK, Release, Known
  <2> QED
    BY <2>1 DEF Order, Resolved
<1> HIDE DEF p
<1>8. \A d \in Caller : Holds(d)' <=> (d = c \/ Holds(d))
  BY <1>2 DEF Holds
<1>9. \A d \in Caller : Holds(d) => d # c /\ pDbThreadMgr[d] # p
  BY <1>1 DEF Order, HeldOnce, Holds
<1>10. Alone'
  BY <1>1, <1>2 DEF Alone, Creating
<1>11. MapLive'
  BY <1>3, <1>4 DEF Order, MapLive, Live
<1>12. MapInjective'
  BY <1>4 DEF Order, MapInjective
<1>13. HeldOnce'
  <2> SUFFICES ASSUME NEW d \in Caller, Holds(d)' PROVE HeldOnce!(d)'
    BY DEF HeldOnce
  <2>1. CASE d = c
    BY <1>1, <1>2, <1>3, <1>6, <1>8, <1>9, <2>1 DEF Live
  <2>2. CASE d # c
    BY <1>2, <1>3, <1>6, <1>8, <1>9, <2>2 DEF Order, HeldOnce, Base, Holds
  <2> QED
    BY <2>1, <2>2
<1>14. Placed'
  <2> SUFFICES ASSUME NEW q \in Manager PROVE Placed!(q)'
    BY <1>3 DEF Placed
  <2>1. CASE q = p
    BY <1>1, <1>2, <1>3, <1>8, <2>1 DEF Live
  <2>2. CASE q # p
    BY <1>2, <1>3, <1>6, <1>8, <1>9, <2>2 DEF Order, Placed
  <2> QED
    BY <2>1, <2>2
<1>15. Stages'
  <2> SUFFICES ASSUME NEW d \in Caller, NEW v \in Worker PROVE Stages!(d)!(v)'
    BY DEF Stages
  <2>1. CASE d = c
    BY <1>2, <2>1 DEF Worker
  <2>2. CASE d # c
    BY <1>2, <1>3, <2>2 DEF Order, Stages
  <2> QED
    BY <2>1, <2>2
<1>16. Found'
  BY <1>1, <1>2, <1>6 DEF Order, Found, Base, Creating
<1>17. IdsInOrder'
  BY <1>1, <1>3, <1>4, <1>7 DEF Order, IdsInOrder, Creating
<1>18. Resolved'
  BY <1>3, <1>4 DEF Order, Resolved
<1> QED
  BY <1>3, <1>10, <1>11, <1>12, <1>13, <1>14, <1>15, <1>16, <1>17, <1>18 DEF Order

\* exit() has joined the last thread, and the manager goes.
LEMMA DeleteStep ==
  ASSUME TypeOK, Base, Order, NEW c \in Caller, Delete(c)
  PROVE  Order'
<1> DEFINE p == pDbThreadMgr[c]
<1>1. /\ pc[c] = "exit" /\ p \in Manager /\ index[c] = ThreadCount /\ Holds(c)
  BY DEF Delete, At, Base, Holds
<1>2. /\ manager[p].memory = "valid" /\ ~Listed(p)
      /\ \A d \in Caller : (Holds(d) /\ pDbThreadMgr[d] = p) => c = d
      /\ \A v \in Worker : manager[p].thread[v] = "deleted"
  BY <1>1, ThreadCountAssumption DEF Order, HeldOnce, Stages, Worker
<1>3. /\ Manager' = Manager /\ manager'[p].memory = "deleted"
      /\ \A q \in Manager : q # p => manager'[q].memory = manager[q].memory
      /\ \A q \in Manager : manager'[q].thread = manager[q].thread
  BY <1>1, ManagerDeleted DEF Delete
<1>4. /\ pc'[c] = "idle" /\ \A d \in Caller : d # c => pc'[d] = pc[d]
      /\ pDbThreadMgr' = pDbThreadMgr /\ index' = index
  BY DEF TypeOK, Delete, Goto
<1>5. /\ s_mapDbThreadMgr' = s_mapDbThreadMgr /\ nID' = nID /\ Id' = Id
      /\ returned' = returned /\ released' = released
      /\ (\A q : Listed(q)' = Listed(q))
  BY DEF Delete, mapVars, history, Id, Listed
<1>6. ~broken'
  BY <1>2 DEF Delete
<1>7. \A d \in Caller : Holds(d)' <=> (Holds(d) /\ d # c)
  BY <1>4 DEF Holds
<1>8. \A i \in Id : s_mapDbThreadMgr[i] # p /\ s_mapDbThreadMgr[i] \in Manager
  BY <1>2 DEF TypeOK, Listed
<1> HIDE DEF p
<1>9. \A d \in Caller : Holds(d) /\ d # c => pDbThreadMgr[d] # p /\ pDbThreadMgr[d] \in Manager
  BY <1>2 DEF Base, Holds
<1>10. Alone'
  BY <1>1, <1>4 DEF Order, Alone, Creating, Idle
<1>11. MapLive'
  BY <1>3, <1>5, <1>8 DEF Order, MapLive, Live
<1>12. MapInjective'
  BY <1>5 DEF Order, MapInjective
<1>13. HeldOnce'
  BY <1>3, <1>4, <1>5, <1>7, <1>9 DEF Order, HeldOnce
<1>14. Placed'
  <2> SUFFICES ASSUME NEW q \in Manager PROVE Placed!(q)'
    BY <1>3 DEF Placed
  <2>1. CASE q = p
    BY <1>2, <1>3, <2>1
  <2>2. CASE q # p
    BY <1>3, <1>4, <1>5, <1>7, <2>2 DEF Order, Placed, p
  <2> QED
    BY <2>1, <2>2
<1>15. Stages'
  <2> SUFFICES ASSUME NEW d \in Caller, NEW v \in Worker PROVE Stages!(d)!(v)'
    BY DEF Stages
  <2>1. CASE d = c
    BY <1>4, <2>1
  <2>2. CASE d # c
    BY <1>3, <1>4, <2>2 DEF Order, Stages, Base
  <2> QED
    BY <2>1, <2>2
<1>16. Found'
  BY <1>4, <1>5 DEF Order, Found
<1>17. IdsInOrder'
  BY <1>1, <1>4, <1>5 DEF Order, IdsInOrder
<1>18. Resolved'
  BY <1>3, <1>5 DEF Order, Resolved
<1> QED
  BY <1>6, <1>10, <1>11, <1>12, <1>13, <1>14, <1>15, <1>16, <1>17, <1>18 DEF Order

\* The order survives every step that keeps to the discipline.
LEMMA OrderStep ==
  ASSUME TypeOK, Base, disciplined => Order, [Next]_vars
  PROVE  (disciplined => Order)'
<1> SUFFICES ASSUME disciplined' PROVE Order'
  OBVIOUS
<1>0. CASE UNCHANGED vars
  <2>1. Order
    BY <1>0 DEF vars, history
  <2> QED
    BY <1>0, <2>1
    DEF vars, mapVars, localVars, history, Order, Alone, MapLive, MapInjective, HeldOnce,
        Placed, Stages, Found, IdsInOrder, Resolved, Creating, Idle, Holds, Listed, Live,
        Id, Manager
<1>1. CASE Next
  <2>1. disciplined
    BY <1>1 DEF Next, Create, StartThread, ConnectFails, Insert, Return, LookUp, Release,
                Use, CallReturns, Join, Delete, history
  <2> QED
    BY <1>1, <2>1, CreateStep, ThreadSteps, InsertStep, ReturnStep, CallSteps,
       ReleaseStep, DeleteStep DEF Next
<1> QED
  BY <1>0, <1>1

\* In every state of a disciplined application each manager is in the map once or in
\* the hands of one caller, and create(), release() and exit() know how far they are.
THEOREM RegistryCorrect == Spec => []RegistryInv
<1>1. Init => RegistryInv
  <2> SUFFICES ASSUME Init PROVE TypeOK /\ Base /\ Order
    BY DEF RegistryInv
  <2>1. Manager = {} /\ Id = {}
    BY DEF Init, Manager, Id
  <2>2. \A c \in Caller : pc[c] = "idle"
    BY DEF Init
  <2>3. TypeOK /\ Base
    BY TypeInit
  <2>4. Alone /\ MapLive /\ MapInjective /\ HeldOnce /\ Placed
    BY <2>1, <2>2
    DEF Alone, Creating, Idle, MapLive, MapInjective, HeldOnce, Holds, Placed
  <2>5. Stages /\ Found /\ IdsInOrder /\ Resolved /\ ~broken
    BY <2>1, <2>2 DEF Init, Stages, Found, IdsInOrder, Resolved
  <2> QED
    BY <2>3, <2>4, <2>5 DEF Order
<1>2. RegistryInv /\ [Next]_vars => RegistryInv'
  BY TypeStep, OrderStep DEF RegistryInv
<1> QED
  BY <1>1, <1>2, PTL DEF Spec

-----------------------------------------------------------------------------
(* What the properties of DbRegistry need of it.                            *)

\* A disciplined application never touches a manager, or a thread of one, that
\* release() has deleted, although the pointer is used without s_lock
\* (db_service.cpp:135-143).
THEOREM CallsCorrect == Spec => []CallsUseLiveManagers
<1>1. RegistryInv => CallsUseLiveManagers
  BY DEF RegistryInv, Order, MapLive, Found, Listed, CallsUseLiveManagers
<1> QED
  BY <1>1, RegistryCorrect, PTL

\* The identifier create() returned means its manager until it is released, and
\* nothing afterwards (db_service.cpp:108-123).
THEOREM IdsCorrect == Spec => []IdsResolve
<1>1. RegistryInv => IdsResolve
  <2> SUFFICES ASSUME RegistryInv, disciplined PROVE IdsResolve
    BY DEF IdsResolve
  <2>1. Resolved /\ IdsInOrder
    BY DEF RegistryInv, Order
  <2>2. ASSUME NEW p \in Manager, Known(returned[p])
        PROVE  IF returned[p] \in released
               THEN returned[p] \notin Id
               ELSE returned[p] \in Id /\ s_mapDbThreadMgr[returned[p]] = p
    BY <2>1, <2>2 DEF Known, Resolved, IdsInOrder
  <2>3. ASSUME NEW p \in Manager, NEW q \in Manager, p # q, returned[p] # 0
        PROVE  returned[p] # returned[q]
    BY <2>1, <2>3 DEF Resolved
  <2> QED
    BY <2>2, <2>3 DEF IdsResolve
<1> QED
  BY <1>1, RegistryCorrect, PTL

\* No manager is leaked, none is deleted twice, and none before its threads were
\* joined, even when the start of a thread fails (db_service.cpp:92-131).
THEOREM OwnershipCorrect == Spec => []OwnedOnce
<1>1. RegistryInv => OwnedOnce
  <2> SUFFICES ASSUME RegistryInv, disciplined, NEW p \in Manager
               PROVE  OwnedOnce!2!(p)
    BY DEF OwnedOnce
  <2>1. MapInjective /\ HeldOnce /\ Placed /\ MapLive
    BY DEF RegistryInv, Order
  <2> DEFINE entries == {id \in Id : s_mapDbThreadMgr[id] = p}
  <2>2. \A c \in Owners(p) : c \in Caller /\ Holds(c) /\ pDbThreadMgr[c] = p
    BY DEF Owners, Holds
  <2>3. \A c \in Caller : Holds(c) /\ pDbThreadMgr[c] = p => c \in Owners(p)
    BY DEF Owners, Holds
  <2>4. Listed(p) <=> entries # {}
    BY DEF Listed
  <2>5. CASE manager[p].memory = "valid"
    <3>1. CASE Listed(p)
      <4>1. PICK i \in Id : s_mapDbThreadMgr[i] = p
        BY <3>1 DEF Listed
      <4>2. entries = {i}
        BY <2>1, <4>1 DEF MapInjective
      <4>3. Owners(p) = {}
        BY <2>1, <2>2, <3>1 DEF HeldOnce
      <4> QED
        BY <2>5, <4>2, <4>3
    <3>2. CASE ~Listed(p)
      <4>1. PICK c \in Caller : Holds(c) /\ pDbThreadMgr[c] = p
        BY <2>1, <2>5, <3>2 DEF Placed
      <4>2. Owners(p) = {c}
        BY <2>1, <2>2, <2>3, <4>1 DEF HeldOnce
      <4> QED
        BY <2>4, <2>5, <3>2, <4>2
    <3> QED
      BY <3>1, <3>2
  <2>6. CASE manager[p].memory # "valid"
    <3>1. ~Listed(p)
      BY <2>1, <2>6 DEF MapLive, Live, Listed
    <3>2. Owners(p) = {}
      BY <2>1, <2>2, <2>6 DEF HeldOnce
    <3>3. \A w \in Worker : manager[p].thread[w] = "deleted"
      BY <2>1, <2>6 DEF Placed
    <3> QED
      BY <2>4, <2>6, <3>1, <3>2, <3>3
  <2> QED
    BY <2>5, <2>6
<1> QED
  BY <1>1, RegistryCorrect, PTL
=============================================================================
