------------------------- MODULE DbCacheTable_proofs -------------------------
(***************************************************************************)
(* The cache is invisible: a disciplined caller, whose statements MySQL      *)
(* accepts, sees the tables of DbTable, for every number of tables, ids,    *)
(* names and requests, whatever is evicted and written back in between.     *)
(* Setting says what is assumed of the constants; each part excludes one     *)
(* departure the runs of DbCache exhibit.                                   *)
(***************************************************************************)
EXTENDS DbCache_proofs

Setting ==
  /\ Disciplined /\ ~DbFails
  /\ Resize = {} /\ MaxCacheSize \div ThreadCount > 0
  /\ Operation \subseteq {"select", "update", "insert", "delete", "flush_all"}
  /\ RequestName \subseteq Name

-----------------------------------------------------------------------------
(* The inductive invariant.                                                 *)

\* An entry is a row of the table under its own key, the same or newer.
EntryInv ==
  \A t \in Table, i \in Id : HasEntry(t, i) =>
    /\ m_mapCache[i][t].id = i
    /\ m_mapCache[i][t].name \in Name
    /\ row[t][i] # NoRow
    /\ m_mapCache[i][t].name # row[t][i] => <<t, i>> \in owed

\* Without flushCache(key) every dirty object is the one m_mapCache holds.
DirtyInv == \A i \in Id : m_mapDirtyCache[i] \in {Shared, NotDirty}

\* No resize, so none that tears a step.
Intact == CacheInv /\ ~torn

TableInv ==
  Intact /\ EntryInv /\ DirtyInv /\ Enabled /\ NothingOwedAtEnd

SameView == \A t \in Table, i \in Id : View(t, i)' = View(t, i)

\* One row of the view changes.
ViewSet(t, i, name) ==
  \A u \in Table, j \in Id :
    View(u, j)' = IF u = t /\ j = i THEN name ELSE View(u, j)

\* Every read of the limit sees what the first one saw, and no step is torn.
Limit == m_nMaxCacheSize' = m_nMaxCacheSize /\ StillEnabled /\ CacheOn /\ Intact'

LEMMA LimitFixed ==
  ASSUME Setting, Intact, Enabled, [Next]_vars
  PROVE  Limit
<1>1. \A limit : Later(limit) = {limit}
  BY DEF Later, Setting
<1>2. m_nMaxCacheSize' = m_nMaxCacheSize
  <2>1. ASSUME NEW op, NEW args, Request(op, args) PROVE m_nMaxCacheSize' = m_nMaxCacheSize
    BY <1>1, <2>1 DEF Request
  <2>2. ASSUME NEW t \in Table, NEW i \in Id,
               \/ SelectHit(t, i) \/ SelectMiss(t, i) \/ SelectFails(t, i) \/ Delete(t, i)
               \/ \E name \in RequestName : UpdateCached(t, i, name) \/ UpdateUncached(t, i, name)
               \/ \E name \in RequestName \ {Unset} : Insert(t, i, name)
        PROVE  m_nMaxCacheSize' = m_nMaxCacheSize
    BY <2>1, <2>2 DEF SelectHit, SelectMiss, SelectFails, Delete, UpdateCached, UpdateUncached,
       Insert
  <2>3. ASSUME (\E i \in Id : FlushKey(i)) \/ FlushAllRequest
        PROVE  m_nMaxCacheSize' = m_nMaxCacheSize
    BY <2>1, <2>3 DEF FlushKey, FlushAllRequest
  <2>4. CASE update
    BY <1>1, <2>4 DEF update
  <2>5. CASE End \/ Tick \/ UNCHANGED vars
    BY <1>1, <2>5 DEF End, Tick, vars, sizeVars
  <2>6. Resize = {}
    BY DEF Setting
  <2> QED
    BY <2>2, <2>3, <2>4, <2>5, <2>6 DEF Next
<1>3. StillEnabled /\ CacheOn
  BY <1>2 DEF StillEnabled, CacheOn, Enabled
<1>4. ASSUME NEW t \in Table, NEW i \in Id,
             \/ SelectHit(t, i) \/ SelectFails(t, i) \/ Delete(t, i)
             \/ \E name \in RequestName : UpdateCached(t, i, name) \/ UpdateUncached(t, i, name)
             \/ \E name \in RequestName \ {Unset} : Insert(t, i, name)
      PROVE  torn' = torn
  BY <1>4 DEF SelectHit, SelectFails, Delete, UpdateCached, UpdateUncached, Insert, Unchanged
<1>5. ASSUME NEW t \in Table, NEW i \in Id, SelectMiss(t, i) PROVE ~torn'
  BY <1>5 DEF SelectMiss, Intact
<1>6. ASSUME FlushAll PROVE torn' = torn
  BY <1>3, <1>6 DEF FlushAll, Overtaken
<1>7. ASSUME FlushAllRequest \/ End PROVE torn' = torn
  BY <1>6, <1>7 DEF FlushAllRequest, End
<1>8. ASSUME \/ \E i \in Id : FlushKey(i)
             \/ update \/ Tick \/ UNCHANGED vars
             \/ \E nSize \in Resize : setMaxCacheSize(nSize)
      PROVE  torn' = torn
  BY <1>8 DEF FlushKey, Unchanged, update, Tick, vars, setMaxCacheSize
<1>9. ~torn'
  BY <1>4, <1>5, <1>7, <1>8 DEF Next, Intact
<1>10. CacheInv'
  BY CacheStep DEF Intact
<1> QED
  BY <1>2, <1>3, <1>9, <1>10 DEF Limit, Intact

-----------------------------------------------------------------------------
(* Write-back.                                                              *)

\* MySQL takes what it is sent, if the messages for a row agree.
LEMMA SendExact ==
  ASSUME Setting, CacheTypes, NEW W, Send(W), NEW t \in Table, NEW i \in Id,
         NEW name \in Name, \A w \in W : (w[1] = t /\ w[2].id = i) => w[2].name = name
  PROVE  row'[t][i] = IF \E w \in W : w[1] = t /\ w[2].id = i THEN name ELSE row[t][i]
<1>1. row' = Upserted(W)
  BY DEF Send, Setting
<1>2. i \in Key /\ name # Unset
  BY NameAssumption DEF Key
<1>3. CASE \E w \in W : w[1] = t /\ w[2].id = i
  <2> DEFINE v == CHOOSE w \in W : w[1] = t /\ w[2].id = i
  <2>1. v \in W /\ v[1] = t /\ v[2].id = i
    BY <1>3
  <2>2. v[2].name = name
    BY <2>1
  <2>3. row'[t][i] = IF v[2].name # Unset THEN v[2].name
                     ELSE IF row[t][i] = NoRow THEN Default ELSE row[t][i]
    BY <1>1, <1>2, <1>3 DEF Upserted
  <2> HIDE DEF v
  <2> QED
    BY <1>2, <1>3, <2>2, <2>3
<1>4. CASE ~\E w \in W : w[1] = t /\ w[2].id = i
  BY <1>1, <1>2, <1>4 DEF Upserted
<1> QED
  BY <1>3, <1>4

\* writeback() writes entries to their own rows and to no others; what is not owed any
\* more was written.
LEMMA WritebackRows ==
  ASSUME Setting, TableInv, NEW dirty, NEW evicted, NEW nTime,
         Writeback(dirty, evicted, nTime),
         \A j \in Id : dirty[j] # NotDirty => m_mapDirtyCache[j] # NotDirty,
         \A e \in evicted : \E u \in Table, j \in Id :
           HasEntry(u, j) /\ e = <<u, m_mapCache[j][u]>>,
         NEW t \in Table, NEW i \in Id
  PROVE  /\ ~HasEntry(t, i) => row'[t][i] = row[t][i]
         /\ HasEntry(t, i) =>
              /\ row'[t][i] \in {row[t][i], m_mapCache[i][t].name}
              /\ (<<t, i>> \in owed /\ <<t, i>> \notin owed') =>
                   row'[t][i] = m_mapCache[i][t].name
<1> DEFINE ready == StillEnabled /\ WritebackReady(nTime)
           D     == {j \in Id : dirty[j] # NotDirty}
           due(j) == IF ready THEN Due(DirtyObject(j), nTime) ELSE {}
           W     == evicted \cup UNION {Entries(DirtyObject(j), due(j)) : j \in D}
<1>1. /\ Send(W)
      /\ owed' = owed \ ((UNION {due(j) \X {j} : j \in D})
                         \cup {<<e[1], e[2].id>> : e \in evicted})
  BY DEF Writeback
<1>2. \A j \in D : DirtyObject(j) = m_mapCache[j] /\ j \in Cached
  BY NullAssumption DEF TableInv, DirtyInv, DirtyObject, Intact, CacheInv, CacheTypes, Cached
<1>3. \A w \in W : \E u \in Table, j \in Id : HasEntry(u, j) /\ w = <<u, m_mapCache[j][u]>>
  <2>1. ASSUME NEW j \in D, NEW w \in Entries(DirtyObject(j), due(j))
        PROVE  \E u \in Table : HasEntry(u, j) /\ w = <<u, m_mapCache[j][u]>>
    <3>1. PICK u \in due(j) : w = <<u, DirtyObject(j)[u]>>
      BY <2>1 DEF Entries
    <3>2. u \in Table /\ DirtyObject(j)[u] # NoEntry
      BY <3>1 DEF Due
    <3> QED
      BY <1>2, <3>1, <3>2 DEF HasEntry
  <2> HIDE DEF due
  <2> QED
    BY <2>1
<1>4. ASSUME NEW w \in W, w[1] = t, w[2].id = i
      PROVE  HasEntry(t, i) /\ w[2] = m_mapCache[i][t]
  <2>1. PICK u \in Table, j \in Id : HasEntry(u, j) /\ w = <<u, m_mapCache[j][u]>>
    BY <1>3
  <2>2. m_mapCache[j][u].id = j
    BY <2>1 DEF TableInv, EntryInv
  <2> QED
    BY <1>4, <2>1, <2>2
<1>5. HasEntry(t, i) /\ <<t, i>> \in owed /\ <<t, i>> \notin owed' =>
        \E w \in W : w[1] = t /\ w[2].id = i
  <2> SUFFICES ASSUME HasEntry(t, i), <<t, i>> \in owed, <<t, i>> \notin owed'
               PROVE  \E w \in W : w[1] = t /\ w[2].id = i
    OBVIOUS
  <2>1. CASE \E e \in evicted : <<e[1], e[2].id>> = <<t, i>>
    BY <2>1
  <2>2. CASE \E j \in D : <<t, i>> \in due(j) \X {j}
    <3>1. i \in D /\ t \in due(i)
      BY <2>2
    <3>2. <<t, DirtyObject(i)[t]>> \in Entries(DirtyObject(i), due(i))
      BY <3>1 DEF Entries
    <3>3. DirtyObject(i)[t].id = i
      BY <1>2, <3>1 DEF TableInv, EntryInv
    <3> HIDE DEF due, D
    <3>4. <<t, DirtyObject(i)[t]>> \in W
      BY <3>1, <3>2
    <3> HIDE DEF W
    <3> QED
      BY <3>3, <3>4
  <2> HIDE DEF due, D, W
  <2> QED
    BY <1>1, <2>1, <2>2
<1> HIDE DEF W
<1>6. CASE HasEntry(t, i)
  <2> DEFINE name == m_mapCache[i][t].name
  <2>1. name \in Name
    BY <1>6 DEF TableInv, EntryInv
  <2>2. \A w \in W : (w[1] = t /\ w[2].id = i) => w[2].name = name
    BY <1>4
  <2>3. row'[t][i] = IF \E w \in W : w[1] = t /\ w[2].id = i THEN name ELSE row[t][i]
    BY <1>1, <2>1, <2>2, SendExact DEF TableInv, Intact, CacheInv
  <2> QED
    BY <1>5, <1>6, <2>3
<1>7. CASE ~HasEntry(t, i)
  <2>1. ~\E w \in W : w[1] = t /\ w[2].id = i
    BY <1>4, <1>7
  <2>2. row'[t][i] = IF \E w \in W : w[1] = t /\ w[2].id = i THEN Default ELSE row[t][i]
    BY <1>1, <2>1, NameAssumption, SendExact DEF TableInv, Intact, CacheInv
  <2> QED
    BY <1>7, <2>1, <2>2
<1> QED
  BY <1>6, <1>7

\* Write-back and eviction change neither the view nor the invariant: only an entry
\* that is not owed leaves the cache, and it equals its row.
LEMMA WritebackKeeps ==
  ASSUME Setting, TableInv, Intact', NEW dirty, NEW evicted, NEW nTime,
         Writeback(dirty, evicted, nTime),
         \A j \in Id : dirty[j] \in {m_mapDirtyCache[j], NotDirty},
         \A e \in evicted : \E u \in Table, j \in Id :
           HasEntry(u, j) /\ e = <<u, m_mapCache[j][u]>>,
         \A j \in Id : m_mapCache'[j] \in {m_mapCache[j], NoObject}
  PROVE  SameView /\ EntryInv' /\ DirtyInv'
<1>1. ASSUME NEW t \in Table, NEW i \in Id
      PROVE  /\ HasEntry(t, i)' => /\ HasEntry(t, i)
                                   /\ m_mapCache'[i][t] = m_mapCache[i][t]
             /\ <<t, i>> \in owed' => HasEntry(t, i)'
    BY DEF HasEntry, Cached, Intact, CacheInv, OwedInv, Owing
<1>2. ASSUME NEW t \in Table, NEW i \in Id
      PROVE  /\ ~HasEntry(t, i) => row'[t][i] = row[t][i]
             /\ HasEntry(t, i) =>
                  /\ row'[t][i] \in {row[t][i], m_mapCache[i][t].name}
                  /\ (<<t, i>> \in owed /\ <<t, i>> \notin owed') =>
                       row'[t][i] = m_mapCache[i][t].name
  BY WritebackRows
<1>3. ASSUME NEW t \in Table, NEW i \in Id, HasEntry(t, i), <<t, i>> \notin owed'
      PROVE  row'[t][i] = m_mapCache[i][t].name
  BY <1>2, <1>3 DEF TableInv, EntryInv
<1>4. SameView
  <2> SUFFICES ASSUME NEW t \in Table, NEW i \in Id PROVE View(t, i)' = View(t, i)
    BY DEF SameView
  <2>1. CASE HasEntry(t, i)'
    BY <1>1, <2>1 DEF View
  <2>2. CASE ~HasEntry(t, i)'
    BY <1>1, <1>2, <1>3, <2>2 DEF View
  <2> QED
    BY <2>1, <2>2
<1>5. EntryInv'
  <2> SUFFICES ASSUME NEW t \in Table, NEW i \in Id, HasEntry(t, i)' PROVE EntryInv!(t, i)!2'
    BY DEF EntryInv
  <2>1. HasEntry(t, i) /\ m_mapCache'[i][t] = m_mapCache[i][t]
    BY <1>1
  <2>2. /\ m_mapCache[i][t].id = i /\ m_mapCache[i][t].name \in Name
        /\ row[t][i] # NoRow /\ m_mapCache[i][t].name # NoRow
    BY <2>1, NameAssumption DEF TableInv, EntryInv
  <2> QED
    BY <1>2, <1>3, <2>1, <2>2
<1>6. DirtyInv'
  BY DEF Writeback, TableInv, DirtyInv
<1> QED
  BY <1>4, <1>5, <1>6

\* The thread's own steps are invisible.
LEMMA UpdateInvisible ==
  ASSUME Setting, TableInv, update
  PROVE  TableInv' /\ SameView /\ UNCHANGED <<request, answer>>
<1> PICK limit \in Later(m_nMaxCacheSize) : \E victim \in Victims(limit) :
        /\ Evict(victim, limit)
        /\ IF victim = NoVictim
           THEN Writeback(m_mapDirtyCache, {}, now)
           ELSE Writeback([m_mapDirtyCache EXCEPT ![victim] = NotDirty],
                          Entries(m_mapCache[victim], Due(m_mapCache[victim], 0)), now)
  BY DEF update
<1>0. PICK victim \in Victims(limit) :
        /\ Evict(victim, limit)
        /\ IF victim = NoVictim
           THEN Writeback(m_mapDirtyCache, {}, now)
           ELSE Writeback([m_mapDirtyCache EXCEPT ![victim] = NotDirty],
                          Entries(m_mapCache[victim], Due(m_mapCache[victim], 0)), now)
  OBVIOUS
<1>1. Intact' /\ m_nMaxCacheSize' = m_nMaxCacheSize
  BY LimitFixed DEF TableInv, Limit, Next
<1>2. CASE victim = NoVictim
  <2>1. m_mapCache' = m_mapCache /\ Writeback(m_mapDirtyCache, {}, now)
    BY <1>0, <1>2 DEF Evict
  <2> QED
    BY <1>1, <2>1, WritebackKeeps DEF update, TableInv, Enabled, NothingOwedAtEnd
<1>3. CASE victim # NoVictim
  <2> DEFINE o == m_mapCache[victim]
             dirty == [m_mapDirtyCache EXCEPT ![victim] = NotDirty]
             evicted == Entries(o, Due(o, 0))
  <2>1. victim \in Cached /\ victim \in Id
    BY <1>3 DEF Victims, Cached
  <2>2. Writeback(dirty, evicted, now) /\ m_mapCache' = [m_mapCache EXCEPT ![victim] = NoObject]
    BY <1>0, <1>3 DEF Evict
  <2>3. \A j \in Id : /\ m_mapCache'[j] \in {m_mapCache[j], NoObject}
                      /\ dirty[j] \in {m_mapDirtyCache[j], NotDirty}
    BY <2>2 DEF TableInv, Intact, CacheInv, CacheTypes
  <2>4. \A e \in evicted : \E u \in Table, j \in Id :
          HasEntry(u, j) /\ e = <<u, m_mapCache[j][u]>>
    BY <2>1, DueOnFlush DEF Entries, HasEntry
  <2> HIDE DEF dirty, evicted
  <2> QED
    BY <1>1, <2>2, <2>3, <2>4, WritebackKeeps DEF update, TableInv, Enabled, NothingOwedAtEnd
<1> QED
  BY <1>2, <1>3

\* Neither is flushCache(0), which leaves nothing owed.
LEMMA FlushInvisible ==
  ASSUME Setting, TableInv, FlushAll, now' = now, UNCHANGED m_nMaxCacheSize, Intact'
  PROVE  TableInv' /\ SameView
<1>1. owed' = {}
  BY FlushAllStep DEF TableInv, Intact, CacheInv
<1>2. Writeback(m_mapDirtyCache, {}, 0) /\ m_mapCache' = [i \in Id |-> NoObject]
  BY DEF FlushAll, Overtaken, Intact
<1>3. SameView /\ EntryInv' /\ DirtyInv'
  BY <1>1, <1>2, WritebackKeeps
<1> QED
  BY <1>1, <1>3 DEF TableInv, Enabled, NothingOwedAtEnd

-----------------------------------------------------------------------------
(* Requests.  Each does to the view what DbTable says.                      *)

\* A message is stored: the entry of its row holds its name, the others are as before.
LEMMA StoreView ==
  ASSUME Setting, TableInv, Intact', NEW t \in Table, NEW i \in Id, NEW m,
         Field(m), m.id = i, m.name \in Name, setData(t, i, m), row' = row,
         row[t][i] # NoRow,
         owed' = owed \/ owed' = owed \cup {<<t, i>>},
         m.name # View(t, i) => <<t, i>> \in owed',
         UNCHANGED <<m_nMaxCacheSize, thread>>, thread = "running"
  PROVE  TableInv' /\ ViewSet(t, i, m.name)
<1>1. CacheTypes
  BY DEF TableInv, Intact, CacheInv
<1>2. m.name # Unset /\ i # Unset
  BY NameAssumption, NullAssumption DEF Key
<1>3. /\ Merged(m).id = i /\ Clean(m).id = i
      /\ Merged(m).name = m.name /\ Clean(m).name = m.name
  BY <1>2 DEF Merged, Clean
<1>4. ASSUME NEW u \in Table, NEW j \in Id
      PROVE  IF u = t /\ j = i
             THEN /\ HasEntry(u, j)'
                  /\ m_mapCache'[j][u].id = i /\ m_mapCache'[j][u].name = m.name
             ELSE /\ HasEntry(u, j)' <=> HasEntry(u, j)
                  /\ HasEntry(u, j) => m_mapCache'[j][u] = m_mapCache[j][u]
  <2>1. CASE j # i
    BY <1>1, <2>1, SetDataStep DEF HasEntry, Cached
  <2>2. CASE j = i /\ u # t
    BY <1>1, <2>2, SetDataStep DEF HasEntry, Cached
  <2>3. CASE j = i /\ u = t
    BY <1>1, <1>3, <2>3, SetDataStep, EntryType DEF HasEntry, Cached
  <2> QED
    BY <2>1, <2>2, <2>3
<1>5. ViewSet(t, i, m.name)
  BY <1>4 DEF ViewSet, View
<1>6. EntryInv'
  <2> SUFFICES ASSUME NEW u \in Table, NEW j \in Id, HasEntry(u, j)' PROVE EntryInv!(u, j)!2'
    BY DEF EntryInv
  <2>1. CASE u = t /\ j = i
    <3>1. m.name # row[t][i] => <<t, i>> \in owed'
      BY DEF View, TableInv, EntryInv
    <3> QED
      BY <1>4, <2>1, <3>1
  <2>2. CASE ~(u = t /\ j = i)
    BY <1>4, <2>2 DEF TableInv, EntryInv
  <2> QED
    BY <2>1, <2>2
<1>7. DirtyInv'
  <2>1. \A j \in Id : m_mapDirtyCache'[j] \in {Shared, m_mapDirtyCache[j]}
    BY <1>1, SetDataStep
  <2> QED
    BY <2>1 DEF TableInv, DirtyInv
<1> QED
  BY <1>5, <1>6, <1>7 DEF TableInv, Enabled, NothingOwedAtEnd

\* A name in the view is a name of the cache, or of the table.
LEMMA ViewType ==
  ASSUME TableInv, NEW t \in Table, NEW i \in Id
  PROVE  View(t, i) \in Name \cup {NoRow} /\ (HasEntry(t, i) => View(t, i) # NoRow)
<1>1. i \in Key /\ NoRow \notin Name
  BY NameAssumption DEF Key
<1>2. CASE HasEntry(t, i)
  BY <1>1, <1>2 DEF View, TableInv, EntryInv
<1>3. CASE ~HasEntry(t, i)
  BY <1>1, <1>3 DEF View, TableInv, Intact, CacheInv, CacheTypes
<1> QED
  BY <1>2, <1>3

\* select answers what the caller may expect, and changes nothing it can tell.
LEMMA SelectRefines ==
  ASSUME Setting, TableInv, Limit, NEW t \in Table, NEW i \in Id,
         SelectHit(t, i) \/ SelectMiss(t, i)
  PROVE  /\ TableInv' /\ SameView /\ View(t, i) # NoRow
         /\ answer' = [table |-> t, id |-> i, name |-> View(t, i)]
<1>0. /\ row' = row /\ owed' = owed /\ UNCHANGED <<m_nMaxCacheSize, thread>>
      /\ thread = "running" /\ View(t, i) # NoRow
  BY DEF SelectHit, SelectMiss, Unchanged, TimesUnchanged, Limit, Request, Setting
<1>1. View(t, i) \in Name
  BY <1>0, ViewType
<1>2. ASSUME NEW m, Field(m), m.id = i, m.name = View(t, i), setData(t, i, m),
             answer' = [table |-> t, id |-> i, name |-> m.name]
      PROVE  /\ TableInv' /\ SameView
             /\ answer' = [table |-> t, id |-> i, name |-> View(t, i)]
  <2>1. row[t][i] # NoRow
    BY <1>0 DEF View, TableInv, EntryInv
  <2>2. TableInv' /\ ViewSet(t, i, View(t, i))
    BY <1>0, <1>1, <1>2, <2>1, StoreView DEF Limit
  <2> QED
    BY <1>2, <2>2 DEF ViewSet, SameView
<1>3. CASE SelectHit(t, i)
  <2> DEFINE m == m_mapCache[i][t]
  <2>1. HasEntry(t, i) /\ setData(t, i, m) /\ answer' = [table |-> t, id |-> i, name |-> m.name]
    BY <1>3 DEF SelectHit, Reply, Limit
  <2>2. m.id = i /\ m.name = View(t, i)
    BY <2>1 DEF View, TableInv, EntryInv
  <2>3. Field(m)
    BY <1>1, <2>2 DEF Field, Key
  <2> HIDE DEF m
  <2> QED
    BY <1>0, <1>2, <2>1, <2>2, <2>3
<1>4. CASE SelectMiss(t, i)
  <2> DEFINE m == Message(i, row[t][i])
  <2>1. Enabled /\ ~HasEntry(t, i) /\ row[t][i] = View(t, i)
    BY <1>4 DEF SelectMiss, TableInv, View
  <2>2. setData(t, i, m) /\ answer' = [table |-> t, id |-> i, name |-> m.name]
    BY <1>0, <1>4, <2>1 DEF SelectMiss, Reply, Limit
  <2>3. m.id = i /\ m.name = View(t, i) /\ Field(m)
    BY <1>1, <2>1 DEF Message, Field, Key
  <2> HIDE DEF m
  <2> QED
    BY <1>0, <1>2, <2>2, <2>3
<1> QED
  BY <1>0, <1>3, <1>4

\* update: the view of the row is the name, from now on.
LEMMA UpdateRefines ==
  ASSUME Setting, TableInv, Limit, NEW t \in Table, NEW i \in Id, NEW name \in RequestName,
         UpdateCached(t, i, name)
  PROVE  /\ TableInv' /\ ViewSet(t, i, name) /\ View(t, i) # NoRow
         /\ answer' = NoAnswer /\ name \in Name
<1> DEFINE m == Message(i, name)
<1>1. /\ HasEntry(t, i) /\ setData(t, i, m) /\ row' = row /\ owed' = owed \cup {<<t, i>>}
      /\ UNCHANGED <<m_nMaxCacheSize, thread>> /\ thread = "running" /\ answer' = NoAnswer
  BY DEF UpdateCached, Request, Setting, Limit, NoReply
<1>2. name \in Name /\ m.id = i /\ m.name = name /\ Field(m)
  BY DEF Setting, Message, Field, Key
<1>3. View(t, i) # NoRow /\ row[t][i] # NoRow
  BY <1>1, ViewType DEF TableInv, EntryInv
<1> HIDE DEF m
<1>4. TableInv' /\ ViewSet(t, i, m.name)
  BY <1>1, <1>2, <1>3, StoreView DEF Limit
<1> QED
  BY <1>1, <1>2, <1>3, <1>4

\* insert: MySQL takes the row, and so does the cache if it has no object for the id.
LEMMA InsertRefines ==
  ASSUME Setting, TableInv, Limit, NEW t \in Table, NEW i \in Id,
         NEW name \in RequestName \ {Unset}, Insert(t, i, name)
  PROVE  /\ TableInv' /\ ViewSet(t, i, name) /\ View(t, i) = NoRow
         /\ answer' = NoAnswer /\ name \in Name
<1> DEFINE m == Message(i, name)
           o == [EmptyObject EXCEPT ![t] = Clean(m)]
<1>1. /\ addData(t, i, m) /\ owed' = owed /\ m_mapDirtyCache' = m_mapDirtyCache
      /\ UNCHANGED <<m_nMaxCacheSize, thread>> /\ thread = "running" /\ answer' = NoAnswer
      /\ View(t, i) = NoRow
  BY DEF Insert, Request, Setting, Limit, NoReply
<1>2. name \in Name /\ name # NoRow /\ i \in Key /\ Clean(m).id = i /\ Clean(m).name = name
      /\ Field(m)
  BY NameAssumption DEF Setting, Message, Field, Key, Clean
<1>3. ~HasEntry(t, i) /\ row[t][i] = NoRow
  BY <1>1, ViewType DEF View
<1>4. row' = [row EXCEPT ![t][i] = name]
  <2>1. PICK refused \in Refused :
          row' = IF refused \/ row[t][i] # NoRow THEN row ELSE [row EXCEPT ![t][i] = name]
    BY DEF Insert
  <2>2. refused = FALSE
    BY <2>1 DEF Refused, Setting
  <2> QED
    BY <1>3, <2>1, <2>2
<1>5. \A u \in Table, j \in Id :
        row'[u][j] = IF u = t /\ j = i THEN name ELSE row[u][j]
  BY <1>2, <1>4 DEF TableInv, Intact, CacheInv, CacheTypes, Key
<1>6. /\ Clean(m) # NoEntry /\ o # NoObject
      /\ \A u \in Table : o[u] = IF u = t THEN Clean(m) ELSE NoEntry
  <2>1. Clean(m) \in Entry /\ Clean(m) # NoEntry
    BY <1>2, EntryType DEF TableInv, Intact, CacheInv
  <2>2. o \in Object
    BY <2>1 DEF EmptyObject, Object
  <2> QED
    BY <2>1, <2>2, NullAssumption DEF EmptyObject
<1>7. ASSUME NEW u \in Table, NEW j \in Id
      PROVE  IF u = t /\ j = i
             THEN HasEntry(u, j)' =>
                    m_mapCache'[j][u].id = i /\ m_mapCache'[j][u].name = name
             ELSE /\ HasEntry(u, j)' <=> HasEntry(u, j)
                  /\ HasEntry(u, j) => m_mapCache'[j][u] = m_mapCache[j][u]
  <2>1. CASE i \in Cached
    <3>1. m_mapCache' = m_mapCache
      BY <1>1, <2>1 DEF addData
    <3> QED
      BY <1>3, <3>1 DEF HasEntry, Cached
  <2>2. CASE i \notin Cached
    <3>1. m_mapCache' = [m_mapCache EXCEPT ![i] = o]
      BY <1>1, <2>2 DEF addData
    <3> HIDE DEF o
    <3>2. m_mapCache'[j] = IF j = i THEN o ELSE m_mapCache[j]
      BY <3>1 DEF TableInv, Intact, CacheInv, CacheTypes
    <3> QED
      BY <1>2, <1>6, <2>2, <3>2 DEF HasEntry, Cached
  <2> QED
    BY <2>1, <2>2
<1> HIDE DEF m, o
<1>8. ViewSet(t, i, name)
  BY <1>5, <1>7 DEF ViewSet, View
<1>9. EntryInv'
  BY <1>1, <1>2, <1>5, <1>7 DEF TableInv, EntryInv
<1> QED
  BY <1>1, <1>2, <1>8, <1>9 DEF TableInv, DirtyInv, Enabled, NothingOwedAtEnd, Limit

\* delete: the row is gone from the cache and from the table.
LEMMA DeleteRefines ==
  ASSUME Setting, TableInv, Limit, NEW t \in Table, NEW i \in Id, Delete(t, i)
  PROVE  TableInv' /\ ViewSet(t, i, NoRow) /\ answer' = NoAnswer
<1>1. /\ delData(t, i) /\ owed' = owed \ {<<t, i>>} /\ m_mapDirtyCache' = m_mapDirtyCache
      /\ UNCHANGED <<m_nMaxCacheSize, thread>> /\ thread = "running" /\ answer' = NoAnswer
  BY DEF Delete, Request, Limit, NoReply
<1>2. row' = [row EXCEPT ![t][i] = NoRow]
  <2>1. PICK refused \in Refused : row' = IF refused THEN row ELSE [row EXCEPT ![t][i] = NoRow]
    BY DEF Delete
  <2>2. refused = FALSE
    BY <2>1 DEF Refused, Setting
  <2> QED
    BY <2>1, <2>2
<1>3. \A u \in Table, j \in Id :
        row'[u][j] = IF u = t /\ j = i THEN NoRow ELSE row[u][j]
  BY <1>2 DEF TableInv, Intact, CacheInv, CacheTypes, Key
<1>4. ASSUME NEW u \in Table, NEW j \in Id
      PROVE  IF u = t /\ j = i THEN ~HasEntry(u, j)'
             ELSE /\ HasEntry(u, j)' <=> HasEntry(u, j)
                  /\ HasEntry(u, j) => m_mapCache'[j][u] = m_mapCache[j][u]
  BY <1>1, DelDataStep DEF TableInv, Intact, CacheInv, HasEntry, Cached
<1>5. ViewSet(t, i, NoRow)
  BY <1>3, <1>4 DEF ViewSet, View
<1>6. EntryInv'
  BY <1>1, <1>3, <1>4 DEF TableInv, EntryInv
<1> QED
  BY <1>1, <1>5, <1>6 DEF TableInv, DirtyInv, Enabled, NothingOwedAtEnd, Limit

-----------------------------------------------------------------------------
(* The steps of the cache, as steps of the table.                            *)

\* The table DbTable is about.
Seen == [t \in Table |-> [i \in Id |-> View(t, i)]]

\* One row of it changes, or none.
LEMMA SeenSet ==
  ASSUME NEW t \in Table, NEW i \in Id, NEW name
  PROVE  /\ ViewSet(t, i, name) => Seen' = [Seen EXCEPT ![t][i] = name]
         /\ SameView => Seen' = Seen
<1>1. ASSUME ViewSet(t, i, name) PROVE Seen' = [Seen EXCEPT ![t][i] = name]
  <2>1. \A u \in Table, j \in Id :
          View(u, j)' = IF u = t /\ j = i THEN name ELSE View(u, j)
    BY <1>1 DEF ViewSet
  <2>2. Seen' = [u \in Table |-> [j \in Id |-> IF u = t /\ j = i THEN name ELSE View(u, j)]]
    BY <2>1 DEF Seen
  <2>3. [Seen EXCEPT ![t][i] = name]
          = [u \in Table |-> [j \in Id |-> IF u = t /\ j = i THEN name ELSE View(u, j)]]
    BY DEF Seen
  <2> QED
    BY <2>2, <2>3
<1>2. ASSUME SameView PROVE Seen' = Seen
  BY <1>2 DEF SameView, Seen
<1> QED
  BY <1>1, <1>2

\* What no caller asked for changes nothing it can tell.
LEMMA StutterRefines ==
  ASSUME SameView, UNCHANGED <<request, answer>>
  PROVE  [DbTable!Next]_(DbTable!vars)
<1>1. Seen' = Seen
  BY DEF SameView, Seen
<1> QED
  BY <1>1 DEF DbTable!vars, Seen

\* Every step keeps the invariant and is a step of the table, or invisible.
LEMMA TableStep ==
  ASSUME Setting, TableInv, [Next]_vars
  PROVE  TableInv' /\ [DbTable!Next]_(DbTable!vars)
<1>1. Limit
  BY LimitFixed DEF TableInv
<1>2. ASSUME UNCHANGED <<row, m_mapCache, m_mapDirtyCache, m_nMaxCacheSize, thread, owed,
                         answer, request>>
      PROVE  TableInv' /\ [DbTable!Next]_(DbTable!vars)
  <2>1. SameView
    BY <1>2 DEF SameView, View, HasEntry, Cached
  <2>2. TableInv'
    BY <1>1, <1>2 DEF Limit, TableInv, EntryInv, DirtyInv, Enabled, NothingOwedAtEnd, HasEntry,
       Cached
  <2> QED
    BY <1>2, <2>1, <2>2, StutterRefines
<1>3. CASE UNCHANGED vars \/ Tick
  BY <1>2, <1>3 DEF vars, sizeVars, Tick
<1>4. ASSUME NEW t \in Table, NEW i \in Id, SelectHit(t, i) \/ SelectMiss(t, i)
      PROVE  TableInv' /\ [DbTable!Next]_(DbTable!vars)
  <2>1. /\ TableInv' /\ SameView /\ View(t, i) # NoRow
        /\ answer' = [table |-> t, id |-> i, name |-> View(t, i)]
        /\ request' = <<request[1] + 1, "select", <<t, i>>>>
    BY <1>1, <1>4, SelectRefines DEF SelectHit, SelectMiss, Request
  <2>2. Seen' = Seen /\ Seen[t][i] = View(t, i)
    BY <2>1, SeenSet DEF Seen
  <2>3. DbTable!Select(t, i)
    BY <2>1, <2>2 DEF DbTable!Select, DbTable!Request, Seen
  <2> QED
    BY <2>1, <2>3 DEF DbTable!Next
<1>5. ASSUME NEW t \in Table, NEW i \in Id, NEW name \in RequestName, UpdateCached(t, i, name)
      PROVE  TableInv' /\ [DbTable!Next]_(DbTable!vars)
  <2>1. /\ TableInv' /\ ViewSet(t, i, name) /\ View(t, i) # NoRow
        /\ answer' = NoAnswer /\ name \in Name
        /\ request' = <<request[1] + 1, "update", <<t, i, name>>>>
    BY <1>1, <1>5, UpdateRefines DEF UpdateCached, Request
  <2>2. Seen' = [Seen EXCEPT ![t][i] = name] /\ Seen[t][i] = View(t, i)
    BY <2>1, SeenSet DEF Seen
  <2>3. DbTable!Update(t, i, name)
    BY <2>1, <2>2 DEF DbTable!Update, DbTable!Request, DbTable!Store, Seen
  <2> QED
    BY <2>1, <2>3 DEF DbTable!Next
<1>6. ASSUME NEW t \in Table, NEW i \in Id, NEW name \in RequestName \ {Unset},
             Insert(t, i, name)
      PROVE  TableInv' /\ [DbTable!Next]_(DbTable!vars)
  <2>1. /\ TableInv' /\ ViewSet(t, i, name) /\ View(t, i) = NoRow
        /\ answer' = NoAnswer /\ name \in Name
        /\ request' = <<request[1] + 1, "insert", <<t, i, name>>>>
    BY <1>1, <1>6, InsertRefines DEF Insert, Request
  <2>2. Seen' = [Seen EXCEPT ![t][i] = name] /\ Seen[t][i] = View(t, i)
    BY <2>1, SeenSet DEF Seen
  <2>3. DbTable!Insert(t, i, name)
    BY <2>1, <2>2 DEF DbTable!Insert, DbTable!Request, DbTable!Store, Seen
  <2> QED
    BY <2>1, <2>3 DEF DbTable!Next
<1>7. ASSUME NEW t \in Table, NEW i \in Id, Delete(t, i)
      PROVE  TableInv' /\ [DbTable!Next]_(DbTable!vars)
  <2>1. /\ TableInv' /\ ViewSet(t, i, NoRow) /\ answer' = NoAnswer
        /\ request' = <<request[1] + 1, "delete", <<t, i>>>>
    BY <1>1, <1>7, DeleteRefines DEF Delete, Request
  <2>2. Seen' = [Seen EXCEPT ![t][i] = NoRow]
    BY <2>1, SeenSet
  <2>3. DbTable!Delete(t, i)
    BY <2>1, <2>2 DEF DbTable!Delete, DbTable!Request, DbTable!Store, Seen
  <2> QED
    BY <2>1, <2>3 DEF DbTable!Next
<1>8. CASE FlushAllRequest
  <2>1. /\ TableInv' /\ SameView /\ answer' = NoAnswer
        /\ request' = <<request[1] + 1, "flush_all", << >>>>
    BY <1>1, <1>8, FlushInvisible DEF FlushAllRequest, Request, NoReply, Limit
  <2>2. Seen' = Seen
    BY <2>1 DEF SameView, Seen
  <2>3. DbTable!Flush("flush_all", << >>)
    BY <2>1, <2>2 DEF DbTable!Flush, DbTable!Request, Seen
  <2> QED
    BY <2>1, <2>3 DEF DbTable!Next
<1>9. CASE update
  BY <1>9, UpdateInvisible, StutterRefines
<1>10. CASE End
  <2>1. TableInv' /\ SameView
    BY <1>1, <1>10, FlushInvisible DEF End, TableInv, Limit
  <2> QED
    BY <1>10, <2>1, StutterRefines DEF End
<1>11. ASSUME NEW t \in Table, NEW i \in Id
       PROVE  ~SelectFails(t, i) /\ \A name \in RequestName : ~UpdateUncached(t, i, name)
  BY <1>1 DEF SelectFails, UpdateUncached, Setting, Limit
<1>12. (\A i \in Id : ~FlushKey(i)) /\ (\A nSize \in Resize : ~setMaxCacheSize(nSize))
  BY DEF FlushKey, Request, Setting
<1>13. ASSUME NEW t \in Table, NEW i \in Id,
              \/ SelectHit(t, i) \/ SelectMiss(t, i) \/ SelectFails(t, i) \/ Delete(t, i)
              \/ \E name \in RequestName : UpdateCached(t, i, name) \/ UpdateUncached(t, i, name)
              \/ \E name \in RequestName \ {Unset} : Insert(t, i, name)
       PROVE  TableInv' /\ [DbTable!Next]_(DbTable!vars)
  BY <1>4, <1>5, <1>6, <1>7, <1>11, <1>13
<1> QED
  BY <1>3, <1>8, <1>9, <1>10, <1>12, <1>13 DEF Next

\* The first state: nothing cached, nothing owed, the tables as MySQL has them.
LEMMA TableInit ==
  ASSUME Setting, Init
  PROVE  TableInv /\ DbTable!Init
<1>1. row \in [Table -> [Key -> Name \cup {NoRow}]]
  BY NameAssumption DEF Init
<1>2. Epoch \in Epoch .. MaxTime
  BY TimeAssumption
<1>3. Intact
  BY <1>1, <1>2, NullAssumption DEF Init, Intact, CacheInv, CacheTypes, OwedInv
<1>4. \A t \in Table, i \in Id : ~HasEntry(t, i)
  BY DEF Init, HasEntry, Cached
<1>5. TableInv
  BY <1>3, <1>4 DEF TableInv, EntryInv, DirtyInv, Enabled, NothingOwedAtEnd, Setting, Init
<1>6. \A t \in Table, i \in Id : View(t, i) \in Name \cup {NoRow}
  BY <1>5, ViewType
<1>7. [t \in Table |-> [i \in Id |-> View(t, i)]] \in [Table -> [Id -> Name \cup {NoRow}]]
  BY <1>6
<1> QED
  BY <1>5, <1>7 DEF Init, DbTable!Init

-----------------------------------------------------------------------------
(* The theorems.                                                            *)

\* What the cache and the tables have to do with each other, in every reachable state.
THEOREM TableCorrect == ASSUME Setting PROVE Spec => []TableInv
<1>1. Init => TableInv
  BY TableInit
<1>2. TableInv /\ [Next]_vars => TableInv'
  BY TableStep
<1> QED
  BY <1>1, <1>2, PTL DEF Spec

\* A cached value that differs from the table is owed to it: what the caller reads from
\* the cache is in MySQL or on its way (README.md:3).
THEOREM CoherentCorrect == ASSUME Setting PROVE Spec => []CacheCoherent
<1>1. TableInv => CacheCoherent
  BY DEF TableInv, EntryInv, CacheCoherent
<1> QED
  BY <1>1, TableCorrect, PTL

\* A thread that has ended has nothing left to write (db_thread.cpp:83).
THEOREM NothingOwedCorrect == ASSUME Setting PROVE Spec => []NothingOwedAtEnd
<1>1. TableInv => NothingOwedAtEnd
  BY DEF TableInv
<1> QED
  BY <1>1, TableCorrect, PTL

\* Through the cache a disciplined caller sees plain tables: every request does to the
\* view what DbTable says, and eviction, write-back and flushing stutter.
THEOREM TableRefinement == ASSUME Setting PROVE Spec => ImplementsDbTable
<1>1. Init => DbTable!Init
  BY TableInit
<1>2. TableInv /\ [Next]_vars => [DbTable!Next]_(DbTable!vars)
  BY TableStep
<1> QED
  BY <1>1, <1>2, TableCorrect, PTL DEF Spec, ImplementsDbTable, DbTable!Spec
=============================================================================
