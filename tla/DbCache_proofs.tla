---------------------------- MODULE DbCache_proofs ----------------------------
(***************************************************************************)
(* Theorems about the cache of one database thread, for every number of     *)
(* tables, keys and names, every limit, clock and number of requests: an    *)
(* update the cache merged into an entry is not forgotten, through          *)
(* evictions, flushes, statements MySQL refuses and every resize that tears *)
(* no flush or select, and the size the evictions are decided by never      *)
(* falls below the size of the cache, through any resize.                   *)
(***************************************************************************)
EXTENDS DbCache, FiniteSetTheorems, TLAPS

-----------------------------------------------------------------------------
(* The inductive invariant.                                                 *)

CacheTypes ==
  /\ row \in [Table -> [Key -> Name \cup {NoRow}]]
  /\ m_mapCache \in [Id -> Object \cup {NoObject}]
  /\ m_mapDirtyCache \in [Id -> Object \cup {NotDirty, Shared}]
  /\ now \in Epoch .. MaxTime
  /\ m_nLastWritebackTime \in {0} \cup Epoch .. MaxTime
  /\ owed \subseteq Table \X Id
  /\ \A i \in Id : m_mapDirtyCache[i] = Shared => m_mapCache[i] # NoObject

\* What an accepted update leads to: its entry, stamped, under its own key, in the
\* object the dirty map refers to.  The key is what an eviction is sent under.
Owing(t, i) ==
  /\ HasEntry(t, i)
  /\ m_mapCache[i][t].nTime # 0
  /\ m_mapCache[i][t].id = i
  /\ m_mapDirtyCache[i] = Shared

OwedInv == \A t \in Table, i \in Id : <<t, i>> \in owed => Owing(t, i)

CacheInv == CacheTypes /\ (~torn => OwedInv)

-----------------------------------------------------------------------------
(* Entries and objects.                                                     *)

Field(m) == m.id \in Key \cup {Unset} /\ m.name \in Name \cup {Unset}

\* The clock and the time stamp of the last write-back.
LEMMA Times ==
  ASSUME CacheTypes
  PROVE  /\ now \in Nat /\ now # 0 /\ Epoch \in Nat /\ MaxTime \in Nat
         /\ m_nLastWritebackTime \in Nat
BY TimeAssumption DEF CacheTypes

\* A message becomes an entry, clean or stamped with the present.
LEMMA EntryType ==
  ASSUME CacheTypes, NEW m, Field(m)
  PROVE  /\ Clean(m) \in Entry /\ Clean(m) # NoEntry
         /\ Merged(m) \in Entry /\ Merged(m) # NoEntry
         /\ Merged(m).nTime = now
         /\ m.id \in Id => Merged(m).id = m.id
<1>1. now \in Nat /\ Default \in Name /\ 0 \in Key /\ Unset \notin Key /\ Id \subseteq Key
  BY Times, NameAssumption, NullAssumption DEF Key
<1>2. Clean(m) \in Entry /\ Merged(m) \in Entry
  BY <1>1 DEF Clean, Merged, Entry, Field
<1>3. Merged(m).nTime = now /\ (m.id \in Id => Merged(m).id = m.id)
  BY <1>1 DEF Merged
<1> QED
  BY <1>2, <1>3, NullAssumption

\* setData() changes one entry of one object, which is dirty if it existed before.
LEMMA SetDataStep ==
  ASSUME CacheTypes, NEW t \in Table, NEW i \in Id, NEW m, Field(m), setData(t, i, m)
  PROVE  /\ m_mapCache' \in [Id -> Object \cup {NoObject}]
         /\ m_mapDirtyCache' \in [Id -> Object \cup {NotDirty, Shared}]
         /\ \A j \in Id : j # i => /\ m_mapCache'[j] = m_mapCache[j]
                                   /\ m_mapDirtyCache'[j] = m_mapDirtyCache[j]
         /\ i \in Cached => m_mapDirtyCache'[i] = Shared
         /\ i \notin Cached => m_mapDirtyCache'[i] = m_mapDirtyCache[i]
         /\ m_mapCache'[i] \in Object /\ m_mapCache'[i] # NoObject
         /\ \A u \in Table : m_mapCache'[i][u] =
              IF u # t THEN IF i \in Cached THEN m_mapCache[i][u] ELSE NoEntry
              ELSE IF HasEntry(t, i) THEN Merged(m) ELSE Clean(m)
<1> DEFINE o == IF i \in Cached THEN SetEntry(m_mapCache[i], t, m)
                ELSE [EmptyObject EXCEPT ![t] = Clean(m)]
<1>1. Clean(m) \in Entry /\ Merged(m) \in Entry
  BY EntryType
<1>2. i \in Cached => m_mapCache[i] \in Object
  BY DEF CacheTypes, Cached
<1>3. o \in Object
  BY <1>1, <1>2 DEF Object, SetEntry, EmptyObject
<1>4. \A u \in Table : o[u] =
        IF u # t THEN IF i \in Cached THEN m_mapCache[i][u] ELSE NoEntry
        ELSE IF HasEntry(t, i) THEN Merged(m) ELSE Clean(m)
  BY <1>2 DEF Object, SetEntry, EmptyObject, HasEntry
<1>5. /\ m_mapCache' = [m_mapCache EXCEPT ![i] = o]
      /\ m_mapDirtyCache' = IF i \in Cached THEN [m_mapDirtyCache EXCEPT ![i] = Shared]
                            ELSE m_mapDirtyCache
  BY DEF setData
<1> HIDE DEF o
<1> QED
  BY <1>3, <1>4, <1>5, NullAssumption DEF CacheTypes

\* addData() at most makes a new object with one clean entry.
LEMMA AddDataStep ==
  ASSUME CacheTypes, NEW t \in Table, NEW i \in Id, NEW m, Field(m), addData(t, i, m)
  PROVE  /\ m_mapCache' \in [Id -> Object \cup {NoObject}]
         /\ \A j \in Cached : m_mapCache'[j] = m_mapCache[j]
<1>1. [EmptyObject EXCEPT ![t] = Clean(m)] \in Object
  BY EntryType DEF Object, EmptyObject
<1> QED
  BY <1>1 DEF addData, CacheTypes, Cached

\* delData() clears one entry of one object.
LEMMA DelDataStep ==
  ASSUME CacheTypes, NEW t \in Table, NEW i \in Id, delData(t, i)
  PROVE  /\ m_mapCache' \in [Id -> Object \cup {NoObject}]
         /\ \A j \in Id : m_mapCache'[j] # NoObject <=> m_mapCache[j] # NoObject
         /\ \A j \in Cached, u \in Table :
              (j # i \/ u # t) => m_mapCache'[j][u] = m_mapCache[j][u]
         /\ i \in Cached => m_mapCache'[i][t] = NoEntry
<1>1. CASE HasEntry(t, i)
  <2> DEFINE o == [m_mapCache[i] EXCEPT ![t] = NoEntry]
  <2>1. m_mapCache[i] \in Object
    BY <1>1 DEF HasEntry, Cached, CacheTypes
  <2>2. /\ o \in Object /\ o # NoObject /\ o[t] = NoEntry
        /\ \A u \in Table : u # t => o[u] = m_mapCache[i][u]
    BY <2>1, NullAssumption DEF Object
  <2>3. m_mapCache' = [m_mapCache EXCEPT ![i] = o]
    BY <1>1 DEF delData
  <2> HIDE DEF o
  <2> QED
    BY <1>1, <2>2, <2>3 DEF CacheTypes, Cached, HasEntry
<1>2. CASE ~HasEntry(t, i)
  BY <1>2 DEF delData, CacheTypes, Cached, HasEntry
<1> QED
  BY <1>1, <1>2

\* What is sent to MySQL leaves the tables tables.
LEMMA SendType ==
  ASSUME CacheTypes, NEW W, \A w \in W : w[2].name \in Name \cup {Unset}, Send(W)
  PROVE  row' \in [Table -> [Key -> Name \cup {NoRow}]]
<1>1. PICK A \in SUBSET W : row' = Upserted(A)
  <2>1. PICK A \in (IF DbFails THEN SUBSET W ELSE {W}) : row' = Upserted(A)
    BY DEF Send
  <2> QED
    BY <2>1
<1>2. Default \in Name
  BY NameAssumption
<1>3. ASSUME NEW t \in Table, NEW k \in Key
      PROVE  (IF \E w \in A : w[1] = t /\ w[2].id = k
              THEN LET m == (CHOOSE w \in A : w[1] = t /\ w[2].id = k)[2]
                   IN  IF m.name # Unset THEN m.name
                       ELSE IF row[t][k] = NoRow THEN Default ELSE row[t][k]
              ELSE row[t][k]) \in Name \cup {NoRow}
  <2>1. row[t][k] \in Name \cup {NoRow}
    BY DEF CacheTypes
  <2>2. ASSUME \E w \in A : w[1] = t /\ w[2].id = k
        PROVE  (CHOOSE w \in A : w[1] = t /\ w[2].id = k) \in A
    BY <2>2
  <2> QED
    BY <1>2, <2>1, <2>2
<1> QED
  BY <1>1, <1>3 DEF Upserted

\* One row is written, or none.
LEMMA RowSet ==
  ASSUME CacheTypes, NEW t \in Table, NEW i \in Id, NEW value \in Name \cup {NoRow},
         row' = row \/ row' = [row EXCEPT ![t][i] = value]
  PROVE  row' \in [Table -> [Key -> Name \cup {NoRow}]]
<1> DEFINE after == [row[t] EXCEPT ![i] = value]
<1>1. after \in [Key -> Name \cup {NoRow}]
  BY DEF CacheTypes, Key
<1>2. row' = row \/ row' = [row EXCEPT ![t] = after]
  OBVIOUS
<1> HIDE DEF after
<1> QED
  BY <1>1, <1>2 DEF CacheTypes

\* The name of an entry is one, or unset.
LEMMA NamesOfEntries ==
  ASSUME NEW o \in Object, NEW S \in SUBSET {t \in Table : o[t] # NoEntry}
  PROVE  \A w \in Entries(o, S) : w[2].name \in Name \cup {Unset}
BY DEF Entries, Object, Entry

\* What a flush sends: every stamped entry of an object.
LEMMA DueOnFlush ==
  ASSUME NEW o
  PROVE  Due(o, 0) = {t \in Table : o[t] # NoEntry /\ o[t].nTime # 0}
BY DEF Due

-----------------------------------------------------------------------------
(* The actions.  A step may change owed, cache and dirty map of one object,  *)
(* or of all of them (update, flushCache(0)).                               *)

\* Steps on one id, i, leave what the other ids are owed alone.
LEMMA OneId ==
  ASSUME OwedInv, NEW i \in Id,
         \A j \in Id \ {i} : /\ m_mapCache'[j] = m_mapCache[j]
                             /\ m_mapDirtyCache'[j] = m_mapDirtyCache[j],
         \A t \in Table, j \in Id \ {i} : <<t, j>> \in owed' => <<t, j>> \in owed,
         \A t \in Table : <<t, i>> \in owed' => Owing(t, i)'
  PROVE  OwedInv'
<1> SUFFICES ASSUME NEW t \in Table, NEW j \in Id, <<t, j>> \in owed', j # i
             PROVE  Owing(t, j)'
  BY DEF OwedInv
<1>1. Owing(t, j)
  BY DEF OwedInv
<1> QED
  BY <1>1 DEF Owing, HasEntry, Cached

\* A message is stored: what was owed keeps its entry and its stamp, and an update of
\* an entry adds itself.
LEMMA StoreStep ==
  ASSUME CacheTypes, OwedInv, NEW t \in Table, NEW i \in Id, NEW m, Field(m), setData(t, i, m),
         \/ owed' = owed
         \/ HasEntry(t, i) /\ m.id = i /\ owed' = owed \cup {<<t, i>>},
         <<t, i>> \in owed => m.id = i
  PROVE  OwedInv'
<1>1. ASSUME NEW u \in Table, <<u, i>> \in owed' PROVE Owing(u, i)'
  <2>1. HasEntry(u, i) /\ i \in Cached /\ (u = t => m.id = i)
        /\ (u # t => Owing(u, i))
    BY <1>1 DEF OwedInv, Owing, HasEntry
  <2>2. Merged(m) # NoEntry /\ Merged(m).nTime # 0 /\ (m.id = i => Merged(m).id = i)
    BY EntryType, Times
  <2>3. m_mapCache'[i][u] = (IF u = t THEN Merged(m) ELSE m_mapCache[i][u])
        /\ m_mapDirtyCache'[i] = Shared /\ m_mapCache'[i] # NoObject
    BY <2>1, SetDataStep
  <2> QED
    BY <2>1, <2>2, <2>3 DEF Owing, HasEntry, Cached
<1>2. \A j \in Id \ {i} : /\ m_mapCache'[j] = m_mapCache[j]
                          /\ m_mapDirtyCache'[j] = m_mapDirtyCache[j]
  BY SetDataStep
<1>3. \A u \in Table, j \in Id \ {i} : <<u, j>> \in owed' => <<u, j>> \in owed
  OBVIOUS
<1> QED
  BY <1>1, <1>2, <1>3, OneId

\* What an action lemma shows: the types hold, and nothing owed is lost by a step that
\* is not torn.
Kept == CacheTypes' /\ (OwedInv /\ ~torn' => OwedInv')

\* A step that leaves the cache and what is owed alone.
LEMMA NothingOwedChanges ==
  ASSUME UNCHANGED <<m_mapCache, m_mapDirtyCache, owed>>
  PROVE  OwedInv => OwedInv'
BY DEF OwedInv, Owing, HasEntry, Cached

\* select, served by the cache or by MySQL.
LEMMA SelectKeeps ==
  ASSUME CacheTypes, NEW t \in Table, NEW i \in Id,
         SelectHit(t, i) \/ SelectMiss(t, i) \/ SelectFails(t, i)
  PROVE  Kept
<1>0. /\ now' = now /\ m_nLastWritebackTime' = m_nLastWritebackTime
      /\ owed' = owed /\ row' = row
  BY DEF SelectHit, SelectMiss, SelectFails, Unchanged, TimesUnchanged
<1>1. CASE CacheUnchanged
  BY <1>0, <1>1, NothingOwedChanges DEF CacheUnchanged, Kept, CacheTypes
<1>2. ASSUME NEW m, Field(m), setData(t, i, m),
             OwedInv /\ ~torn' /\ <<t, i>> \in owed => m.id = i
      PROVE  Kept
  <2>1. OwedInv /\ ~torn' => OwedInv'
    BY <1>0, <1>2, StoreStep
  <2>2. CacheTypes'
    BY <1>0, <1>2, SetDataStep DEF CacheTypes
  <2> QED
    BY <2>1, <2>2 DEF Kept
<1>3. CASE SelectHit(t, i)
  <2> DEFINE m == m_mapCache[i][t]
  <2>1. HasEntry(t, i) /\ (setData(t, i, m) \/ CacheUnchanged)
    BY <1>3 DEF SelectHit
  <2>2. m \in Entry
    BY <2>1 DEF CacheTypes, HasEntry, Cached, Object
  <2>3. Field(m)
    BY <2>2 DEF Entry, Field
  <2>4. OwedInv /\ <<t, i>> \in owed => m.id = i
    BY DEF OwedInv, Owing
  <2> HIDE DEF m
  <2> QED
    BY <1>1, <1>2, <2>1, <2>3, <2>4
<1>4. CASE SelectMiss(t, i)
  <2> DEFINE m == IF row[t][i] = NoRow THEN Message(Unset, Unset) ELSE Message(i, row[t][i])
  <2>1. CASE StillEnabled
    <3>1. setData(t, i, m) /\ torn' = (torn \/ HasEntry(t, i))
      BY <1>4, <2>1 DEF SelectMiss
    <3>2. row[t][i] \in Name \cup {NoRow} /\ i \in Key
      BY DEF CacheTypes, Key
    <3>3. Field(m)
      BY <3>2 DEF Field, Message
    <3>4. OwedInv /\ ~torn' => <<t, i>> \notin owed
      BY <3>1 DEF OwedInv, Owing
    <3> HIDE DEF m
    <3> QED
      BY <1>2, <3>1, <3>3, <3>4
  <2>2. CASE ~StillEnabled
    BY <1>1, <1>4, <2>2 DEF SelectMiss
  <2> QED
    BY <2>1, <2>2
<1>5. CASE SelectFails(t, i)
  BY <1>1, <1>5 DEF SelectFails
<1> QED
  BY <1>3, <1>4, <1>5

\* update, taken by the cache or sent to MySQL.
LEMMA UpdateKeeps ==
  ASSUME CacheTypes, NEW t \in Table, NEW i \in Id, NEW name \in RequestName,
         UpdateCached(t, i, name) \/ UpdateUncached(t, i, name)
  PROVE  Kept
<1>0. now' = now /\ m_nLastWritebackTime' = m_nLastWritebackTime
  BY DEF UpdateCached, UpdateUncached, Unchanged, TimesUnchanged
<1> DEFINE m == Message(i, name)
<1>1. Field(m) /\ m.id = i
  BY NameAssumption DEF Field, Message, Key
<1> HIDE DEF m
<1>2. CASE UpdateCached(t, i, name)
  <2>1. /\ setData(t, i, m) /\ row' = row
        /\ owed' = IF HasEntry(t, i) THEN owed \cup {<<t, i>>} ELSE owed
    BY <1>2 DEF UpdateCached, m
  <2>2. OwedInv => OwedInv'
    BY <1>1, <2>1, StoreStep
  <2>3. CacheTypes'
    BY <1>0, <1>1, <2>1, SetDataStep DEF CacheTypes
  <2> QED
    BY <2>2, <2>3 DEF Kept
<1>3. CASE UpdateUncached(t, i, name)
  <2>1. Send({<<t, m>>}) /\ UNCHANGED <<m_mapCache, m_mapDirtyCache, owed>>
    BY <1>3 DEF UpdateUncached, CacheUnchanged, m
  <2>2. row' \in [Table -> [Key -> Name \cup {NoRow}]]
    <3>1. \A w \in {<<t, m>>} : w[2].name \in Name \cup {Unset}
      BY <1>1 DEF Field
    <3> QED
      BY <2>1, <3>1, SendType
  <2> QED
    BY <1>0, <2>1, <2>2, NothingOwedChanges DEF Kept, CacheTypes
<1> QED
  BY <1>2, <1>3

\* insert fills the cache for an id it does not know.
LEMMA InsertKeeps ==
  ASSUME CacheTypes, NEW t \in Table, NEW i \in Id, NEW name \in RequestName \ {Unset},
         Insert(t, i, name)
  PROVE  Kept
<1>0. /\ now' = now /\ m_nLastWritebackTime' = m_nLastWritebackTime
      /\ owed' = owed /\ m_mapDirtyCache' = m_mapDirtyCache
  BY DEF Insert, Unchanged, TimesUnchanged
<1>1. name \in Name /\ Field(Message(i, name))
  BY NameAssumption DEF Field, Message, Key
<1>2. row' \in [Table -> [Key -> Name \cup {NoRow}]]
  <2>1. row' = row \/ row' = [row EXCEPT ![t][i] = name]
    BY DEF Insert
  <2> QED
    BY <1>1, <2>1, RowSet
<1>3. /\ m_mapCache' \in [Id -> Object \cup {NoObject}]
      /\ \A j \in Cached : m_mapCache'[j] = m_mapCache[j]
  <2>1. CASE CacheOn
    BY <1>1, <2>1, AddDataStep DEF Insert
  <2>2. CASE ~CacheOn
    BY <2>2 DEF Insert, CacheTypes
  <2> QED
    BY <2>1, <2>2
<1>4. CacheTypes'
  BY <1>0, <1>2, <1>3 DEF CacheTypes, Cached
<1>5. OwedInv => OwedInv'
  BY <1>0, <1>3 DEF OwedInv, Owing, HasEntry, Cached
<1> QED
  BY <1>4, <1>5 DEF Kept

\* delete clears the entry and owes it nothing any more.
LEMMA DeleteKeeps ==
  ASSUME CacheTypes, NEW t \in Table, NEW i \in Id, Delete(t, i)
  PROVE  Kept
<1>0. /\ now' = now /\ m_nLastWritebackTime' = m_nLastWritebackTime
      /\ m_mapDirtyCache' = m_mapDirtyCache
      /\ owed' = IF CacheOn THEN owed \ {<<t, i>>} ELSE owed
  BY DEF Delete, Unchanged, TimesUnchanged
<1>1. row' \in [Table -> [Key -> Name \cup {NoRow}]]
  <2>1. row' = row \/ row' = [row EXCEPT ![t][i] = NoRow]
    BY DEF Delete
  <2> QED
    BY <2>1, RowSet
<1>2. CASE CacheOn
  <2>1. delData(t, i)
    BY <1>2 DEF Delete
  <2>2. /\ m_mapCache' \in [Id -> Object \cup {NoObject}]
        /\ \A j \in Id : m_mapCache'[j] # NoObject <=> m_mapCache[j] # NoObject
        /\ \A j \in Cached, u \in Table :
             (j # i \/ u # t) => m_mapCache'[j][u] = m_mapCache[j][u]
    BY <2>1, DelDataStep
  <2>3. ASSUME OwedInv PROVE OwedInv'
    <3> SUFFICES ASSUME NEW u \in Table, NEW j \in Id, <<u, j>> \in owed'
                 PROVE  Owing(u, j)'
      BY DEF OwedInv
    <3>1. Owing(u, j) /\ (j # i \/ u # t)
      BY <1>0, <1>2, <2>3 DEF OwedInv
    <3> QED
      BY <1>0, <2>2, <3>1 DEF Owing, HasEntry, Cached
  <2>4. CacheTypes'
    BY <1>0, <1>1, <2>2 DEF CacheTypes
  <2> QED
    BY <2>3, <2>4 DEF Kept
<1>3. CASE ~CacheOn
  <2>1. m_mapCache' = m_mapCache /\ owed' = owed
    BY <1>0, <1>3 DEF Delete
  <2> QED
    BY <1>0, <1>1, <2>1, NothingOwedChanges DEF Kept, CacheTypes
<1> QED
  BY <1>2, <1>3

\* flushCache(key) sends every stamped entry of the object before it goes.
LEMMA FlushKeyKeeps ==
  ASSUME CacheTypes, NEW i \in Id, FlushKey(i)
  PROVE  Kept
<1> DEFINE o == m_mapCache[i]
<1>0. /\ now' = now /\ m_nLastWritebackTime' = m_nLastWritebackTime /\ o \in Object
      /\ Send(Entries(o, Due(o, 0)))
      /\ m_mapCache' = [m_mapCache EXCEPT ![i] = NoObject]
      /\ m_mapDirtyCache' = [m_mapDirtyCache EXCEPT ![i] = IF @ = Shared THEN o ELSE @]
      /\ owed' = owed \ (Due(o, 0) \X {i})
  BY DEF FlushKey, Unchanged, TimesUnchanged, CacheTypes, Cached
<1>1. Due(o, 0) = {t \in Table : o[t] # NoEntry /\ o[t].nTime # 0}
  BY DueOnFlush
<1>2. row' \in [Table -> [Key -> Name \cup {NoRow}]]
  <2>1. \A w \in Entries(o, Due(o, 0)) : w[2].name \in Name \cup {Unset}
    BY <1>0, <1>1, NamesOfEntries
  <2> QED
    BY <1>0, <2>1, SendType
<1>3. ASSUME OwedInv PROVE OwedInv'
  <2>1. \A t \in Table : <<t, i>> \notin owed'
    <3> SUFFICES ASSUME NEW t \in Table, <<t, i>> \in owed PROVE t \in Due(o, 0)
      BY <1>0
    <3> QED
      BY <1>1, <1>3 DEF OwedInv, Owing, HasEntry
  <2>2. \A j \in Id \ {i} : /\ m_mapCache'[j] = m_mapCache[j]
                            /\ m_mapDirtyCache'[j] = m_mapDirtyCache[j]
    BY <1>0 DEF CacheTypes
  <2>3. \A t \in Table, j \in Id \ {i} : <<t, j>> \in owed' => <<t, j>> \in owed
    BY <1>0
  <2> HIDE DEF o
  <2> QED
    BY <1>3, <2>1, <2>2, <2>3, OneId
<1>4. CacheTypes'
  <2>1. /\ m_mapCache' \in [Id -> Object \cup {NoObject}]
        /\ m_mapDirtyCache' \in [Id -> Object \cup {NotDirty, Shared}]
    BY <1>0 DEF CacheTypes
  <2>2. o # Shared
    BY <1>0, NullAssumption
  <2>3. \A j \in Id : m_mapDirtyCache'[j] = Shared => m_mapCache'[j] # NoObject
    BY <1>0, <2>2 DEF CacheTypes
  <2> HIDE DEF o
  <2> QED
    BY <1>0, <1>2, <2>1, <2>3 DEF CacheTypes
<1> QED
  BY <1>3, <1>4 DEF Kept

\* What writeback() and an eviction send are entries of objects.
LEMMA WritebackType ==
  ASSUME CacheTypes, NEW dirty, NEW evicted, NEW nTime,
         \A w \in evicted : w[2].name \in Name \cup {Unset},
         \A i \in Id : dirty[i] # NotDirty => DirtyObject(i) \in Object,
         Writeback(dirty, evicted, nTime)
  PROVE  row' \in [Table -> [Key -> Name \cup {NoRow}]]
<1> DEFINE ready == StillEnabled /\ WritebackReady(nTime)
           D     == {i \in Id : dirty[i] # NotDirty}
           due(i) == IF ready THEN Due(DirtyObject(i), nTime) ELSE {}
           W     == evicted \cup UNION {Entries(DirtyObject(i), due(i)) : i \in D}
<1>1. Send(W)
  BY DEF Writeback
<1>2. \A i \in D : \A w \in Entries(DirtyObject(i), due(i)) : w[2].name \in Name \cup {Unset}
  <2> SUFFICES ASSUME NEW i \in D
               PROVE  \A w \in Entries(DirtyObject(i), due(i)) : w[2].name \in Name \cup {Unset}
    OBVIOUS
  <2>1. DirtyObject(i) \in Object
    OBVIOUS
  <2>2. due(i) \in SUBSET {t \in Table : DirtyObject(i)[t] # NoEntry}
    BY DEF Due
  <2> HIDE DEF due
  <2> QED
    BY <2>1, <2>2, NamesOfEntries
<1>3. \A w \in W : w[2].name \in Name \cup {Unset}
  <2> HIDE DEF due
  <2> QED
    BY <1>2
<1> HIDE DEF W
<1> QED
  BY <1>1, <1>3, SendType

\* The object the dirty map leads to is one.
LEMMA DirtyObjectType ==
  ASSUME CacheTypes, NEW i \in Id, m_mapDirtyCache[i] # NotDirty
  PROVE  DirtyObject(i) \in Object
BY DEF CacheTypes, DirtyObject

\* writeback() drops an object from the dirty map only after the last stamped entry of
\* it was sent: what is still owed afterwards is as it was before.
LEMMA WritebackOwed ==
  ASSUME OwedInv, NEW dirty, NEW evicted, NEW nTime, Writeback(dirty, evicted, nTime),
         NEW t \in Table, NEW i \in Id, <<t, i>> \in owed', dirty[i] = m_mapDirtyCache[i]
  PROVE  Owing(t, i) /\ m_mapDirtyCache'[i] = Shared
<1> DEFINE ready == StillEnabled /\ WritebackReady(nTime)
           D     == {j \in Id : dirty[j] # NotDirty}
           due(j) == IF ready THEN Due(DirtyObject(j), nTime) ELSE {}
<1>1. /\ owed' = owed \ ((UNION {due(j) \X {j} : j \in D})
                         \cup {<<e[1], e[2].id>> : e \in evicted})
      /\ m_mapDirtyCache' =
           [j \in Id |-> IF ready /\ j \in D /\ ~StaysDirty(DirtyObject(j), nTime)
                         THEN NotDirty ELSE dirty[j]]
  BY DEF Writeback
<1>2. Owing(t, i)
  BY <1>1 DEF OwedInv
<1>3. i \in D /\ DirtyObject(i) = m_mapCache[i]
  BY <1>2, NullAssumption DEF Owing, DirtyObject
<1>4. t \notin due(i)
  <2> SUFFICES ASSUME t \in due(i) PROVE FALSE
    OBVIOUS
  <2>1. <<t, i>> \in due(i) \X {i}
    OBVIOUS
  <2> HIDE DEF due, D
  <2> QED
    BY <1>1, <1>3, <2>1
<1>5. ready => StaysDirty(DirtyObject(i), nTime)
  BY <1>2, <1>3, <1>4 DEF StaysDirty, Owing, HasEntry
<1> QED
  BY <1>1, <1>2, <1>5 DEF Owing

\* The types of what writeback() leaves.
LEMMA WritebackDirty ==
  ASSUME CacheTypes, NEW dirty \in [Id -> Object \cup {NotDirty, Shared}],
         NEW evicted, NEW nTime, Writeback(dirty, evicted, nTime)
  PROVE  /\ m_mapDirtyCache' \in [Id -> Object \cup {NotDirty, Shared}]
         /\ \A i \in Id : m_mapDirtyCache'[i] = Shared => dirty[i] = Shared
         /\ owed' \subseteq Table \X Id
         /\ m_nLastWritebackTime' \in {m_nLastWritebackTime, nTime}
BY NullAssumption DEF Writeback, CacheTypes

\* update(): a victim is sent with every stamped entry under its own key.
LEMMA UpdateStep ==
  ASSUME CacheTypes, update
  PROVE  Kept
<1> PICK limit \in Later(m_nMaxCacheSize) : \E victim \in Victims(limit) :
        /\ Evict(victim, limit)
        /\ IF victim = NoVictim
           THEN Writeback(m_mapDirtyCache, {}, now)
           ELSE Writeback([m_mapDirtyCache EXCEPT ![victim] = NotDirty],
                          Entries(m_mapCache[victim], Due(m_mapCache[victim], 0)), now)
  BY DEF update
<1>0. PICK victim \in Victims(limit) :
        /\ Evict(victim, limit)
        /\ IF victim = NoVictim
           THEN Writeback(m_mapDirtyCache, {}, now)
           ELSE Writeback([m_mapDirtyCache EXCEPT ![victim] = NotDirty],
                          Entries(m_mapCache[victim], Due(m_mapCache[victim], 0)), now)
  OBVIOUS
<1>1. now' = now /\ now \in Epoch .. MaxTime
  BY DEF update, CacheTypes
<1>2. CASE victim = NoVictim
  <2>1. m_mapCache' = m_mapCache /\ Writeback(m_mapDirtyCache, {}, now)
    BY <1>0, <1>2 DEF Evict
  <2>2. row' \in [Table -> [Key -> Name \cup {NoRow}]]
    BY <2>1, WritebackType, DirtyObjectType
  <2>3. CacheTypes'
    BY <1>1, <2>1, <2>2, WritebackDirty DEF CacheTypes
  <2>4. OwedInv => OwedInv'
    BY <2>1, WritebackOwed DEF OwedInv, Owing, HasEntry, Cached
  <2> QED
    BY <2>3, <2>4 DEF Kept
<1>3. CASE victim # NoVictim
  <2> DEFINE o == m_mapCache[victim]
             dirty == [m_mapDirtyCache EXCEPT ![victim] = NotDirty]
             evicted == Entries(o, Due(o, 0))
  <2>1. victim \in Cached
    BY <1>3 DEF Victims
  <2>2. victim \in Id /\ o \in Object /\ m_mapCache' = [m_mapCache EXCEPT ![victim] = NoObject]
    BY <1>0, <1>3, <2>1 DEF Evict, CacheTypes, Cached
  <2>3. Writeback(dirty, evicted, now)
    BY <1>0, <1>3
  <2>4. /\ dirty \in [Id -> Object \cup {NotDirty, Shared}] /\ dirty[victim] = NotDirty
        /\ \A i \in Id : i # victim => dirty[i] = m_mapDirtyCache[i]
    BY <2>2 DEF CacheTypes
  <2>5. Due(o, 0) = {t \in Table : o[t] # NoEntry /\ o[t].nTime # 0}
    BY DueOnFlush
  <2>6. \A w \in evicted : w[2].name \in Name \cup {Unset}
    BY <2>2, <2>5, NamesOfEntries
  <2>7. ASSUME OwedInv, NEW t \in Table, <<t, victim>> \in owed' PROVE FALSE
    <3>1. <<t, victim>> \in owed /\ <<t, victim>> \notin {<<e[1], e[2].id>> : e \in evicted}
      BY <2>3, <2>7 DEF Writeback
    <3>2. t \in Due(o, 0) /\ o[t].id = victim
      BY <2>2, <2>5, <2>7, <3>1 DEF OwedInv, Owing, HasEntry
    <3>3. <<t, o[t]>> \in evicted
      BY <3>2 DEF Entries
    <3> QED
      BY <3>1, <3>2, <3>3
  <2> HIDE DEF o, dirty, evicted
  <2>8. row' \in [Table -> [Key -> Name \cup {NoRow}]]
    <3>1. \A i \in Id : dirty[i] # NotDirty => DirtyObject(i) \in Object
      BY <2>4, DirtyObjectType
    <3> QED
      BY <2>3, <2>6, <3>1, WritebackType
  <2>9. CacheTypes'
    <3>1. /\ m_mapDirtyCache' \in [Id -> Object \cup {NotDirty, Shared}]
          /\ \A i \in Id : m_mapDirtyCache'[i] = Shared => dirty[i] = Shared
          /\ owed' \subseteq Table \X Id
          /\ m_nLastWritebackTime' \in {m_nLastWritebackTime, now}
      BY <2>3, <2>4, WritebackDirty
    <3>2. /\ m_mapCache' \in [Id -> Object \cup {NoObject}]
          /\ \A i \in Id : i # victim => m_mapCache'[i] = m_mapCache[i]
      BY <2>2 DEF CacheTypes
    <3>3. \A i \in Id : m_mapDirtyCache'[i] = Shared => m_mapCache'[i] # NoObject
      BY <2>4, <3>1, <3>2, NullAssumption DEF CacheTypes
    <3> QED
      BY <1>1, <2>8, <3>1, <3>2, <3>3 DEF CacheTypes
  <2>10. ASSUME OwedInv PROVE OwedInv'
    <3> SUFFICES ASSUME NEW t \in Table, NEW i \in Id, <<t, i>> \in owed'
                 PROVE  Owing(t, i)'
      BY DEF OwedInv
    <3>1. i # victim
      BY <2>7, <2>10
    <3>2. Owing(t, i) /\ m_mapDirtyCache'[i] = Shared
      BY <2>3, <2>4, <2>10, <3>1, WritebackOwed
    <3> QED
      BY <2>2, <3>1, <3>2 DEF Owing, HasEntry, Cached, CacheTypes
  <2> QED
    BY <2>9, <2>10 DEF Kept
<1> QED
  BY <1>2, <1>3

\* flushCache(0) is never put off: the stamp of the last write-back is zero or so old
\* that the unsigned difference to zero exceeds nWritebackTime.
LEMMA FlushIsReady ==
  ASSUME CacheTypes
  PROVE  WritebackReady(0)
<1>1. \A a, b \in Nat : a < b => a % b = a
  BY SMT
<1>2. CASE m_nLastWritebackTime # 0
  <2>1. m_nLastWritebackTime \in Epoch .. MaxTime /\ m_nLastWritebackTime \in Nat
    BY <1>2, Times DEF CacheTypes
  <2>2. m_nLastWritebackTime < Wrap /\ m_nLastWritebackTime >= WritebackTime
    BY <2>1, TimeAssumption
  <2>3. (m_nLastWritebackTime - 0) % Wrap = m_nLastWritebackTime
    BY <1>1, <2>1, <2>2, TimeAssumption
  <2> QED
    BY <2>2, <2>3 DEF WritebackReady
<1> QED
  BY <1>2 DEF WritebackReady

\* flushCache(0) sends all that is owed and forgets everything, unless it is overtaken
\* by a resize: then it forgets without sending.
LEMMA FlushAllStep ==
  ASSUME CacheTypes, FlushAll, now' = now
  PROVE  Kept /\ (OwedInv /\ ~torn' => owed' = {})
<1>0. m_mapCache' = [i \in Id |-> NoObject]
  BY DEF FlushAll
<1>1. CASE Overtaken
  <2>1. \A i \in Id : m_mapDirtyCache'[i] \in Object \cup {NotDirty}
    BY <1>1, NullAssumption DEF Overtaken, CacheTypes
  <2>2. m_mapDirtyCache' \in [Id -> Object \cup {NotDirty, Shared}]
    BY <1>1, <2>1 DEF Overtaken
  <2>3. CacheTypes'
    BY <1>0, <1>1, <2>1, <2>2, NullAssumption DEF Overtaken, CacheTypes
  <2> QED
    BY <1>1, <2>3 DEF Overtaken, Kept
<1>2. CASE StillEnabled /\ Writeback(m_mapDirtyCache, {}, 0)
  <2>1. WritebackReady(0)
    BY FlushIsReady
  <2>2. \A i \in Id : ~StaysDirty(DirtyObject(i), 0)
    BY DueOnFlush DEF StaysDirty
  <2>3. m_mapDirtyCache' = [i \in Id |-> NotDirty]
    BY <1>2, <2>1, <2>2 DEF Writeback, CacheTypes
  <2>4. owed' \subseteq Table \X Id /\ m_nLastWritebackTime' \in {m_nLastWritebackTime, 0}
    BY <1>2, WritebackDirty DEF CacheTypes
  <2>5. ASSUME OwedInv PROVE owed' = {}
    <3> SUFFICES ASSUME NEW t \in Table, NEW i \in Id, <<t, i>> \in owed' PROVE FALSE
      BY <2>4
    <3>1. m_mapDirtyCache'[i] = Shared
      BY <1>2, <2>5, WritebackOwed
    <3> QED
      BY <2>3, <3>1, NullAssumption
  <2>6. row' \in [Table -> [Key -> Name \cup {NoRow}]]
    BY <1>2, WritebackType, DirtyObjectType
  <2>7. CacheTypes'
    BY <1>0, <2>3, <2>4, <2>6, NullAssumption DEF CacheTypes
  <2> QED
    BY <2>5, <2>7 DEF Kept, OwedInv
<1> QED
  BY <1>1, <1>2 DEF FlushAll

-----------------------------------------------------------------------------
(* The theorems.                                                            *)

\* Once torn, always torn.
TornStays == torn' = torn \/ (torn' \in BOOLEAN /\ (torn => torn'))

LEMMA TornStep ==
  ASSUME [Next]_vars
  PROVE  TornStays
<1>1. ASSUME NEW t \in Table, NEW i \in Id,
             \/ SelectHit(t, i) \/ SelectFails(t, i) \/ Delete(t, i)
             \/ \E name \in RequestName : UpdateCached(t, i, name) \/ UpdateUncached(t, i, name)
             \/ \E name \in RequestName \ {Unset} : Insert(t, i, name)
      PROVE  torn' = torn
  BY <1>1 DEF SelectHit, SelectFails, Delete, UpdateCached, UpdateUncached, Insert, Unchanged
<1>2. ASSUME NEW t \in Table, NEW i \in Id, SelectMiss(t, i) PROVE TornStays
  <2>1. torn' = (torn \/ (HasEntry(t, i) /\ StillEnabled))
    BY <1>2 DEF SelectMiss
  <2> QED
    BY <2>1 DEF TornStays
<1>3. ASSUME FlushAll PROVE TornStays
  BY <1>3, Zenon DEF FlushAll, Overtaken, TornStays
<1>4. CASE FlushAllRequest
  BY <1>3, <1>4 DEF FlushAllRequest
<1>5. CASE End
  BY <1>3, <1>5 DEF End, TornStays
<1>6. ASSUME \/ \E i \in Id : FlushKey(i)
             \/ update \/ Tick \/ UNCHANGED vars
             \/ \E nSize \in Resize : setMaxCacheSize(nSize)
      PROVE  torn' = torn
  BY <1>6 DEF FlushKey, Unchanged, update, Tick, vars, setMaxCacheSize
<1> QED
  BY <1>1, <1>2, <1>4, <1>5, <1>6, Zenon DEF Next, TornStays

\* Every step keeps the types, and what is owed unless it is torn.
LEMMA StepKeeps ==
  ASSUME CacheTypes, [Next]_vars
  PROVE  Kept
<1>1. ASSUME UNCHANGED <<row, m_mapCache, m_mapDirtyCache, m_nLastWritebackTime, owed>>,
             now' \in Epoch .. MaxTime
      PROVE  Kept
  BY <1>1, NothingOwedChanges DEF Kept, CacheTypes
<1>2. CASE UNCHANGED vars
  BY <1>1, <1>2 DEF vars, CacheTypes
<1>3. CASE FlushAllRequest
  BY <1>3, FlushAllStep DEF FlushAllRequest
<1>4. CASE End
  <2>1. now' = now /\ now \in Epoch .. MaxTime
    BY <1>4 DEF End, CacheTypes
  <2>2. CASE Enabled
    BY <1>4, <2>1, <2>2, FlushAllStep DEF End
  <2>3. CASE ~Enabled
    BY <1>1, <1>4, <2>1, <2>3 DEF End
  <2> QED
    BY <2>2, <2>3
<1>5. ASSUME NEW nSize \in Resize, setMaxCacheSize(nSize) PROVE Kept
  BY <1>1, <1>5 DEF setMaxCacheSize, CacheTypes
<1>6. CASE Tick
  <2>1. now' \in Epoch .. MaxTime
    BY <1>6, TimeAssumption DEF Tick, CacheTypes
  <2> QED
    BY <1>1, <1>6, <2>1 DEF Tick
<1> QED
  BY <1>2, <1>3, <1>4, <1>5, <1>6, SelectKeeps, UpdateKeeps, InsertKeeps, DeleteKeeps,
     FlushKeyKeeps, UpdateStep DEF Next

\* Every step keeps the invariant.
LEMMA CacheStep ==
  ASSUME CacheInv, [Next]_vars
  PROVE  CacheInv'
BY StepKeeps, TornStep DEF CacheInv, Kept, TornStays

\* What the cache, the dirty map and the history of accepted updates have to do with
\* each other, in every reachable state; what is owed, until a resize tears a step.
THEOREM OwedCorrect == Spec => []CacheInv
<1>1. Init => CacheInv
  <2> SUFFICES ASSUME Init PROVE CacheInv
    OBVIOUS
  <2>1. row \in [Table -> [Key -> Name \cup {NoRow}]]
    BY NameAssumption DEF Init
  <2>2. Epoch \in Epoch .. MaxTime
    BY TimeAssumption
  <2> QED
    BY <2>1, <2>2, NullAssumption DEF Init, CacheInv, CacheTypes, OwedInv
<1>2. CacheInv /\ [Next]_vars => CacheInv'
  BY CacheStep
<1> QED
  BY <1>1, <1>2, PTL DEF Spec

\* An update the cache merged into an entry is not forgotten: for any number of tables
\* and ids, any requests, evictions and refused statements it keeps its entry and its
\* stamp until it is sent or its row deleted (db_cache_mgr.cpp:103), whatever resizes
\* fall between the reads of the limit, as long as none switches the cache off inside a
\* flush of everything (db_cache_mgr.cpp:214, 195) or on inside a select that finds an
\* entry (db_thread.cpp:170, 234).
THEOREM NoForgottenWriteCorrect == Spec => []NoForgottenWrite
<1>1. CacheInv => NoForgottenWrite
  <2> SUFFICES ASSUME CacheInv, ~torn, NEW w \in owed
               PROVE  /\ HasEntry(w[1], w[2])
                      /\ m_mapCache[w[2]][w[1]].nTime # 0
                      /\ m_mapDirtyCache[w[2]] = Shared
    BY DEF NoForgottenWrite
  <2>1. PICK t \in Table, i \in Id : w = <<t, i>>
    BY DEF CacheInv, CacheTypes
  <2> QED
    BY <2>1 DEF CacheInv, OwedInv, Owing
<1> QED
  BY <1>1, OwedCorrect, PTL

-----------------------------------------------------------------------------
(* The size of the cache.                                                   *)

\* A finite set and one disjoint from it.
LEMMA DisjointUnion ==
  ASSUME NEW S, IsFiniteSet(S), NEW T, IsFiniteSet(T), S \cap T = {}
  PROVE  /\ IsFiniteSet(S \cup T)
         /\ Cardinality(S) \in Nat /\ Cardinality(T) \in Nat
         /\ Cardinality(S \cup T) = Cardinality(S) + Cardinality(T)
<1>1. Cardinality(S) \in Nat /\ Cardinality(T) \in Nat
  BY FS_CardinalityType
<1>2. /\ IsFiniteSet(S \cup T)
      /\ Cardinality(S \cup T) = Cardinality(S) + Cardinality(T) - Cardinality(S \cap T)
  BY FS_Union
<1>3. Cardinality(S \cap T) = 0
  BY FS_EmptySet
<1> QED
  BY <1>1, <1>2, <1>3

\* As many elements, each next to one and the same.
LEMMA OneFactor ==
  ASSUME NEW x, NEW S, IsFiniteSet(S)
  PROVE  IsFiniteSet({x} \X S) /\ Cardinality({x} \X S) = Cardinality(S)
<1>1. IsFiniteSet({x}) /\ Cardinality({x}) = 1 /\ Cardinality(S) \in Nat
  BY FS_Singleton, FS_CardinalityType
<1>2. IsFiniteSet({x} \X S) /\ Cardinality({x} \X S) = Cardinality({x}) * Cardinality(S)
  BY <1>1, FS_Product
<1> QED
  BY <1>1, <1>2

\* There are finitely many places for a field.
LEMMA UniverseFinite ==
  IsFiniteSet(Column) /\ IsFiniteSet(Table \X Column) /\ IsFiniteSet(Id \X (Table \X Column))
<1>1. IsFiniteSet(Column)
  <2>1. Column = {"id"} \cup {"name"}
    BY DEF Column
  <2> QED
    BY <2>1, FS_Singleton, FS_Union
<1>2. IsFiniteSet(Table \X Column)
  BY <1>1, IdAssumption, FS_Product
<1> QED
  BY <1>1, <1>2, IdAssumption, FS_Product

\* Messages and objects are finite.
LEMMA ContentsFinite ==
  /\ \A e : IsFiniteSet(Present(e)) /\ EntrySize(e) \in Nat
  /\ \A o : IsFiniteSet(Contents(o)) /\ getDataSize(o) \in Nat
<1>1. IsFiniteSet(Column) /\ IsFiniteSet(Table \X Column)
  BY UniverseFinite
<1>2. ASSUME NEW e PROVE IsFiniteSet(Present(e)) /\ EntrySize(e) \in Nat
  <2>1. Present(e) \in SUBSET Column
    BY DEF Present
  <2>2. IsFiniteSet(Present(e))
    BY <1>1, <2>1, FS_Subset
  <2> QED
    BY <2>2, FS_CardinalityType DEF EntrySize
<1>3. ASSUME NEW o PROVE IsFiniteSet(Contents(o)) /\ getDataSize(o) \in Nat
  <2>2. Contents(o) \in SUBSET (Table \X Column)
    BY DEF Contents
  <2>3. IsFiniteSet(Contents(o))
    BY <1>1, <2>2, FS_Subset
  <2> QED
    BY <2>3, FS_CardinalityType DEF getDataSize
<1> QED
  BY <1>2, <1>3

\* What m_mapCache holds under one id, and its size.
Slice(i) == IF i \in Cached THEN {i} \X Contents(m_mapCache[i]) ELSE {}
SliceSize(i) == IF i \in Cached THEN getDataSize(m_mapCache[i]) ELSE 0

Others(i) == UNION {Slice(j) : j \in Id \ {i}}

\* A slice is finite and of that size.
LEMMA SliceFinite ==
  ASSUME NEW i
  PROVE  /\ IsFiniteSet(Slice(i)) /\ Cardinality(Slice(i)) = SliceSize(i)
         /\ SliceSize(i) \in Nat
BY ContentsFinite, OneFactor, FS_EmptySet DEF Slice, SliceSize, getDataSize

\* The cache holds the slice of one id, and those of the others.
SlicesAdd ==
  \A i \in Id :
    /\ Cardinality(Others(i)) \in Nat /\ SliceSize(i) \in Nat
    /\ Cardinality(Held) = Cardinality(Others(i)) + SliceSize(i)

\* The sizes of the slices add up, in every state.
LEMMA HeldSplits == SlicesAdd
<1> SUFFICES ASSUME NEW i \in Id
             PROVE  /\ Cardinality(Others(i)) \in Nat /\ SliceSize(i) \in Nat
                    /\ Cardinality(Held) = Cardinality(Others(i)) + SliceSize(i)
  BY DEF SlicesAdd
<1>1. Held = Others(i) \cup Slice(i)
  BY DEF Held, Others, Slice, Cached
<1>2. Others(i) \cap Slice(i) = {}
  BY DEF Others, Slice
<1>3. IsFiniteSet(Others(i))
  <2>1. Others(i) \in SUBSET (Id \X (Table \X Column))
    BY DEF Others, Slice, Contents
  <2> QED
    BY <2>1, UniverseFinite, FS_Subset
<1> QED
  BY <1>1, <1>2, <1>3, SliceFinite, DisjointUnion

\* Clearing an entry takes its fields off the object.
LEMMA ClearedContents ==
  ASSUME NEW o, NEW p, NEW t \in Table, p[t] = NoEntry,
         \A u \in Table : u # t => p[u] = o[u]
  PROVE  getDataSize(o) = getDataSize(p) + EntrySize(o[t])
<1>1. Contents(o) = Contents(p) \cup ({t} \X Present(o[t]))
  BY DEF Contents, Present
<1>2. Contents(p) \cap ({t} \X Present(o[t])) = {}
  BY DEF Contents, Present
<1>3. IsFiniteSet(Contents(p)) /\ IsFiniteSet(Present(o[t]))
  BY ContentsFinite
<1>4. /\ IsFiniteSet({t} \X Present(o[t]))
      /\ Cardinality({t} \X Present(o[t])) = Cardinality(Present(o[t]))
  BY <1>3, OneFactor
<1> QED
  BY <1>1, <1>2, <1>3, <1>4, DisjointUnion DEF getDataSize, EntrySize

\* No unsigned subtraction wraps: what is subtracted was counted.
SizeInv == m_nDataSize \in Nat /\ SizeNeverUndercounted

\* A step that changes the object of one id and counts the difference.
LEMMA CountedKeeps ==
  ASSUME SizeInv, NEW i \in Id, \A j \in Id \ {i} : m_mapCache'[j] = m_mapCache[j],
         m_nDataSize' = m_nDataSize + SliceSize(i)' - SliceSize(i)
  PROVE  SizeInv'
<1>1. Others(i)' = Others(i)
  BY DEF Others, Slice, Cached
<1>2. SlicesAdd /\ SlicesAdd'
  BY HeldSplits, PTL
<1>3. /\ Cardinality(Others(i)) \in Nat /\ SliceSize(i) \in Nat /\ SliceSize(i)' \in Nat
      /\ Cardinality(Held) = Cardinality(Others(i)) + SliceSize(i)
      /\ Cardinality(Held') = Cardinality(Others(i)') + SliceSize(i)'
  BY <1>2 DEF SlicesAdd
<1> QED
  BY <1>1, <1>3 DEF SizeInv, SizeNeverUndercounted

\* A step that forgets objects and counts nothing.
LEMMA ForgettingKeeps ==
  ASSUME SizeInv, m_nDataSize' = m_nDataSize,
         \A i \in Id : m_mapCache'[i] = m_mapCache[i] \/ m_mapCache'[i] = NoObject
  PROVE  SizeInv'
<1>1. Held' \subseteq Held
  BY DEF Held, Cached
<1>2. IsFiniteSet(Held)
  <2>1. Held \in SUBSET (Id \X (Table \X Column))
    BY DEF Held, Cached, Contents
  <2> QED
    BY <2>1, UniverseFinite, FS_Subset
<1>3. /\ Cardinality(Held) \in Nat /\ Cardinality(Held') \in Nat
      /\ Cardinality(Held') <= Cardinality(Held)
  BY <1>1, <1>2, FS_Subset, FS_CardinalityType
<1> QED
  BY <1>3 DEF SizeInv, SizeNeverUndercounted

\* CDbCacheMgr::setData counts the growth of the object.
LEMMA SetDataCounts ==
  ASSUME CacheTypes, SizeInv, NEW t \in Table, NEW i \in Id, NEW m, Field(m), setData(t, i, m)
  PROVE  SizeInv'
<1> DEFINE o == IF i \in Cached THEN SetEntry(m_mapCache[i], t, m)
                ELSE [EmptyObject EXCEPT ![t] = Clean(m)]
<1>1. /\ m_mapCache' = [m_mapCache EXCEPT ![i] = o]
      /\ m_nDataSize' = m_nDataSize + getDataSize(o)
                          - (IF i \in Cached THEN getDataSize(m_mapCache[i]) ELSE 0)
  BY DEF setData
<1> HIDE DEF o
<1>2. /\ m_mapCache'[i] = o /\ \A j \in Id \ {i} : m_mapCache'[j] = m_mapCache[j]
  BY <1>1 DEF CacheTypes
<1>3. m_mapCache'[i] # NoObject
  BY SetDataStep
<1>4. SliceSize(i)' = getDataSize(o)
  BY <1>2, <1>3 DEF SliceSize, Cached, getDataSize, Contents, Present
<1>5. m_nDataSize' = m_nDataSize + SliceSize(i)' - SliceSize(i)
  BY <1>1, <1>4 DEF SliceSize
<1> QED
  BY <1>2, <1>5, CountedKeeps

\* CDbCacheMgr::addData counts a new object.
LEMMA AddDataCounts ==
  ASSUME CacheTypes, SizeInv, NEW t \in Table, NEW i \in Id, NEW m, Field(m), addData(t, i, m)
  PROVE  SizeInv'
<1>1. CASE i \in Cached
  BY <1>1, ForgettingKeeps DEF addData
<1>2. CASE i \notin Cached
  <2> DEFINE o == [EmptyObject EXCEPT ![t] = Clean(m)]
  <2>1. m_mapCache' = [m_mapCache EXCEPT ![i] = o] /\ m_nDataSize' = m_nDataSize + getDataSize(o)
    BY <1>2 DEF addData
  <2>2. o \in Object
    BY EntryType DEF Object, EmptyObject
  <2> HIDE DEF o
  <2>3. /\ m_mapCache'[i] = o /\ o # NoObject
        /\ \A j \in Id \ {i} : m_mapCache'[j] = m_mapCache[j]
    BY <2>1, <2>2, NullAssumption DEF CacheTypes
  <2>4. SliceSize(i)' = getDataSize(o) /\ SliceSize(i) = 0
    BY <1>2, <2>3 DEF SliceSize, Cached, getDataSize, Contents, Present
  <2>5. m_nDataSize' = m_nDataSize + SliceSize(i)' - SliceSize(i)
    BY <2>1, <2>4, ContentsFinite DEF SizeInv
  <2> QED
    BY <2>3, <2>5, CountedKeeps
<1> QED
  BY <1>1, <1>2

\* CDbCacheMgr::delData takes off what the entry counted.
LEMMA DelDataCounts ==
  ASSUME CacheTypes, SizeInv, NEW t \in Table, NEW i \in Id, delData(t, i)
  PROVE  SizeInv'
<1>1. CASE HasEntry(t, i)
  <2> DEFINE o == m_mapCache[i]
             p == [m_mapCache[i] EXCEPT ![t] = NoEntry]
  <2>1. o \in Object /\ i \in Cached
    BY <1>1 DEF CacheTypes, HasEntry, Cached
  <2>2. p \in Object /\ p[t] = NoEntry /\ \A u \in Table : u # t => p[u] = o[u]
    BY <2>1 DEF Object
  <2>3. /\ m_mapCache' = [m_mapCache EXCEPT ![i] = p]
        /\ m_nDataSize' = m_nDataSize - EntrySize(o[t])
    BY <1>1 DEF delData
  <2>4. SliceSize(i) = getDataSize(o)
    BY <2>1 DEF SliceSize
  <2> HIDE DEF o, p
  <2>5. /\ m_mapCache'[i] = p /\ p # NoObject
        /\ \A j \in Id \ {i} : m_mapCache'[j] = m_mapCache[j]
    BY <2>2, <2>3, NullAssumption DEF CacheTypes
  <2>6. SliceSize(i)' = getDataSize(p)
    BY <2>5 DEF SliceSize, Cached, getDataSize, Contents, Present
  <2>7. getDataSize(o) = getDataSize(p) + EntrySize(o[t])
    BY <2>2, ClearedContents
  <2>8. getDataSize(o) \in Nat /\ getDataSize(p) \in Nat /\ EntrySize(o[t]) \in Nat
    BY ContentsFinite
  <2>9. m_nDataSize' = m_nDataSize + SliceSize(i)' - SliceSize(i)
    BY <2>3, <2>4, <2>6, <2>7, <2>8 DEF SizeInv
  <2> QED
    BY <2>5, <2>9, CountedKeeps
<1>2. CASE ~HasEntry(t, i)
  BY <1>2, ForgettingKeeps DEF delData
<1> QED
  BY <1>1, <1>2

\* cleanCache() takes off what the object it evicts counted.
LEMMA EvictCounts ==
  ASSUME CacheTypes, SizeInv, NEW limit, NEW victim \in Victims(limit), Evict(victim, limit)
  PROVE  SizeInv'
<1>1. CASE victim = NoVictim
  BY <1>1, ForgettingKeeps DEF Evict
<1>2. CASE victim # NoVictim
  <2>1. victim \in Cached /\ victim \in Id
    BY <1>2 DEF Victims, Cached
  <2>2. /\ m_mapCache' = [m_mapCache EXCEPT ![victim] = NoObject]
        /\ m_nDataSize' = m_nDataSize - getDataSize(m_mapCache[victim])
    BY <1>2 DEF Evict
  <2>3. /\ m_mapCache'[victim] = NoObject
        /\ \A j \in Id \ {victim} : m_mapCache'[j] = m_mapCache[j]
    BY <2>1, <2>2 DEF CacheTypes
  <2>4. SliceSize(victim)' = 0 /\ SliceSize(victim) = getDataSize(m_mapCache[victim])
    BY <2>1, <2>3 DEF SliceSize, Cached
  <2>5. m_nDataSize' = m_nDataSize + SliceSize(victim)' - SliceSize(victim)
    BY <2>2, <2>4, ContentsFinite DEF SizeInv
  <2> QED
    BY <2>1, <2>3, <2>5, CountedKeeps
<1> QED
  BY <1>1, <1>2

\* The requests that name a row.
LEMMA RequestCounts ==
  ASSUME CacheInv, SizeInv, NEW t \in Table, NEW i \in Id,
         \/ SelectHit(t, i) \/ SelectMiss(t, i) \/ SelectFails(t, i) \/ Delete(t, i)
         \/ \E name \in RequestName : UpdateCached(t, i, name) \/ UpdateUncached(t, i, name)
         \/ \E name \in RequestName \ {Unset} : Insert(t, i, name)
  PROVE  SizeInv'
<1>0. CacheTypes
  BY DEF CacheInv
<1>1. CASE UNCHANGED <<m_mapCache, m_nDataSize>>
  BY <1>1, ForgettingKeeps
<1>2. CASE SelectHit(t, i)
  <2> DEFINE m == m_mapCache[i][t]
  <2>1. HasEntry(t, i) /\ (setData(t, i, m) \/ UNCHANGED <<m_mapCache, m_nDataSize>>)
    BY <1>2 DEF SelectHit, CacheUnchanged
  <2>2. m \in Entry
    BY <1>0, <2>1 DEF CacheTypes, HasEntry, Cached, Object
  <2>3. Field(m)
    BY <2>2 DEF Entry, Field
  <2> QED
    BY <1>0, <1>1, <2>1, <2>3, SetDataCounts
<1>3. CASE SelectMiss(t, i)
  <2> DEFINE m == IF row[t][i] = NoRow THEN Message(Unset, Unset) ELSE Message(i, row[t][i])
  <2>1. row[t][i] \in Name \cup {NoRow} /\ i \in Key
    BY <1>0 DEF CacheTypes, Key
  <2>2. Field(m)
    BY <2>1 DEF Field, Message
  <2>3. setData(t, i, m) \/ UNCHANGED <<m_mapCache, m_nDataSize>>
    BY <1>3 DEF SelectMiss, CacheUnchanged
  <2> QED
    BY <1>0, <1>1, <2>2, <2>3, SetDataCounts
<1>4. CASE SelectFails(t, i)
  BY <1>1, <1>4 DEF SelectFails, CacheUnchanged
<1>5. CASE Delete(t, i)
  <2>1. delData(t, i) \/ UNCHANGED <<m_mapCache, m_nDataSize>>
    BY <1>5 DEF Delete
  <2> QED
    BY <1>0, <1>1, <2>1, DelDataCounts
<1>6. ASSUME NEW name \in RequestName, UpdateCached(t, i, name) PROVE SizeInv'
  <2>1. Field(Message(i, name))
    BY NameAssumption DEF Field, Message, Key
  <2> QED
    BY <1>0, <1>6, <2>1, SetDataCounts DEF UpdateCached
<1>7. ASSUME NEW name \in RequestName, UpdateUncached(t, i, name) PROVE SizeInv'
  BY <1>1, <1>7 DEF UpdateUncached, CacheUnchanged
<1>8. ASSUME NEW name \in RequestName \ {Unset}, Insert(t, i, name) PROVE SizeInv'
  <2>1. Field(Message(i, name))
    BY NameAssumption DEF Field, Message, Key
  <2>2. addData(t, i, Message(i, name)) \/ UNCHANGED <<m_mapCache, m_nDataSize>>
    BY <1>8 DEF Insert
  <2> QED
    BY <1>0, <1>1, <2>1, <2>2, AddDataCounts
<1> QED
  BY <1>2, <1>3, <1>4, <1>5, <1>6, <1>7, <1>8

\* Every step counts at least what the cache holds.
LEMMA SizeStep ==
  ASSUME CacheInv, SizeInv, [Next]_vars
  PROVE  SizeInv'
<1>1. CASE UNCHANGED <<m_mapCache, m_nDataSize>>
  BY <1>1, ForgettingKeeps
<1>2. ASSUME NEW i \in Id, FlushKey(i) PROVE SizeInv'
  <2>1. /\ m_mapCache' = [m_mapCache EXCEPT ![i] = NoObject]
        /\ m_nDataSize' = m_nDataSize
    BY <1>2 DEF FlushKey
  <2>2. \A j \in Id : m_mapCache'[j] = m_mapCache[j] \/ m_mapCache'[j] = NoObject
    BY <2>1 DEF CacheInv, CacheTypes
  <2> QED
    BY <2>1, <2>2, ForgettingKeeps
<1>3. ASSUME FlushAll, m_nDataSize' = m_nDataSize PROVE SizeInv'
  BY <1>3, ForgettingKeeps DEF FlushAll
<1>4. CASE FlushAllRequest
  BY <1>3, <1>4 DEF FlushAllRequest
<1>5. CASE update
  BY <1>5, EvictCounts DEF update, CacheInv
<1>6. CASE End
  BY <1>1, <1>3, <1>6 DEF End
<1>7. ASSUME NEW nSize \in Resize, setMaxCacheSize(nSize) PROVE SizeInv'
  BY <1>1, <1>7 DEF setMaxCacheSize
<1>8. CASE Tick
  BY <1>1, <1>8 DEF Tick
<1>9. CASE UNCHANGED vars
  BY <1>1, <1>9 DEF vars
<1> QED
  BY <1>2, <1>4, <1>5, <1>6, <1>7, <1>8, <1>9, RequestCounts DEF Next

\* Every unsigned subtraction takes off what was counted before, so none wraps.
LEMMA SizeAlways == Spec => []SizeInv
<1>1. Init => SizeInv
  <2> SUFFICES ASSUME Init PROVE SizeInv
    OBVIOUS
  <2>1. Held = {} /\ m_nDataSize = 0
    BY DEF Init, Held, Cached
  <2> QED
    BY <2>1, FS_EmptySet DEF SizeInv, SizeNeverUndercounted
<1>2. CacheInv /\ SizeInv /\ [Next]_vars => SizeInv'
  BY SizeStep
<1> QED
  BY <1>1, <1>2, OwedCorrect, PTL DEF Spec

\* The size cleanCache() compares with its limit never falls below the size of what
\* m_mapCache holds, for any number of tables, ids, requests and evictions
\* (db_cache_mgr.cpp:96).
THEOREM SizeCorrect == Spec => []SizeNeverUndercounted
<1>1. SizeInv => SizeNeverUndercounted
  BY DEF SizeInv
<1> QED
  BY <1>1, SizeAlways, PTL

-----------------------------------------------------------------------------
(* Types.                                                                   *)

\* The types CacheInv and SizeInv do not give.
OtherTypes ==
  /\ m_nMaxCacheSize \in Nat
  /\ m_nLastCleanCacheTime \in Nat
  /\ thread \in {"running", "ended", "aborted"}
  /\ answer \in [table : Table, id : Id, name : Name \cup {Unset}] \cup {NoAnswer}
  /\ torn \in BOOLEAN
  /\ request[1] \in 0 .. MaxRequest /\ request[2] \in Operation \cup {"none"}

\* An integer quotient is a number.
LEMMA Quotient ==
  ASSUME NEW a \in Nat, NEW b \in Nat \ {0}
  PROVE  a \div b \in Nat
BY SMT

\* What a later read of the limit sees is a number.
LEMMA LaterType ==
  ASSUME NEW limit \in Nat
  PROVE  Later(limit) \subseteq Nat
BY SizeAssumption, Quotient DEF Later

\* A request is counted, and within the bound.
LEMMA RequestType ==
  ASSUME OtherTypes, NEW op, NEW args, Request(op, args)
  PROVE  /\ request'[1] \in 0 .. MaxRequest /\ request'[2] \in Operation \cup {"none"}
         /\ m_nMaxCacheSize' \in Nat
BY BoundAssumption, LaterType DEF OtherTypes, Request

\* An answer is the name of an entry, or of a row of MySQL.
LEMMA ReplyType ==
  ASSUME NEW t \in Table, NEW i \in Id, NEW name \in Name \cup {Unset}, Reply(t, i, name)
  PROVE  answer' \in [table : Table, id : Id, name : Name \cup {Unset}] \cup {NoAnswer}
BY DEF Reply

\* Every step keeps them.
LEMMA OtherTypesStep ==
  ASSUME CacheInv, OtherTypes, [Next]_vars
  PROVE  OtherTypes'
<1>0. /\ m_nMaxCacheSize \in Nat /\ m_nLastCleanCacheTime \in Nat
      /\ thread \in {"running", "ended", "aborted"}
      /\ answer \in [table : Table, id : Id, name : Name \cup {Unset}] \cup {NoAnswer}
      /\ torn' \in BOOLEAN
      /\ request[1] \in 0 .. MaxRequest /\ request[2] \in Operation \cup {"none"}
  BY TornStep DEF OtherTypes, TornStays
<1>1. ASSUME NEW op, NEW args, Request(op, args), UNCHANGED m_nLastCleanCacheTime,
             thread' \in {"running", "ended", "aborted"},
             answer' \in [table : Table, id : Id, name : Name \cup {Unset}] \cup {NoAnswer}
      PROVE  OtherTypes'
  BY <1>0, <1>1, RequestType DEF OtherTypes
<1>2. ASSUME NEW op, NEW args, Request(op, args), UNCHANGED m_nLastCleanCacheTime,
             UNCHANGED thread, NoReply
      PROVE  OtherTypes'
  BY <1>0, <1>1, <1>2 DEF NoReply
<1>3. ASSUME NEW t \in Table, NEW i \in Id, SelectHit(t, i) PROVE OtherTypes'
  <2>1. /\ Request("select", <<t, i>>) /\ UNCHANGED <<m_nLastCleanCacheTime, thread>>
        /\ HasEntry(t, i) /\ Reply(t, i, m_mapCache[i][t].name)
    BY <1>3 DEF SelectHit, Unchanged, TimesUnchanged
  <2>2. m_mapCache[i][t] \in Entry
    BY <2>1 DEF CacheInv, CacheTypes, HasEntry, Cached, Object
  <2>3. m_mapCache[i][t].name \in Name \cup {Unset}
    BY <2>2 DEF Entry
  <2> QED
    BY <1>0, <1>1, <2>1, <2>3, ReplyType
<1>4. ASSUME NEW t \in Table, NEW i \in Id, SelectMiss(t, i) PROVE OtherTypes'
  <2> DEFINE m == IF row[t][i] = NoRow THEN Message(Unset, Unset) ELSE Message(i, row[t][i])
  <2>1. /\ Request("select", <<t, i>>) /\ UNCHANGED <<m_nLastCleanCacheTime, thread>>
        /\ Reply(t, i, m.name)
    BY <1>4 DEF SelectMiss, TimesUnchanged
  <2>2. row[t][i] \in Name \cup {NoRow}
    BY DEF CacheInv, CacheTypes, Key
  <2>3. m.name \in Name \cup {Unset}
    BY <2>2 DEF Message
  <2> QED
    BY <1>0, <1>1, <2>1, <2>3, ReplyType
<1>5. ASSUME NEW t \in Table, NEW i \in Id, SelectFails(t, i) PROVE OtherTypes'
  BY <1>0, <1>1, <1>5 DEF SelectFails, Unchanged, TimesUnchanged, NoReply
<1>6. ASSUME NEW t \in Table, NEW i \in Id, Delete(t, i) PROVE OtherTypes'
  BY <1>2, <1>6 DEF Delete, Unchanged, TimesUnchanged
<1>7. ASSUME NEW t \in Table, NEW i \in Id, NEW name \in RequestName,
             UpdateCached(t, i, name) \/ UpdateUncached(t, i, name)
      PROVE  OtherTypes'
  BY <1>2, <1>7 DEF UpdateCached, UpdateUncached, Unchanged, TimesUnchanged
<1>8. ASSUME NEW t \in Table, NEW i \in Id, NEW name \in RequestName \ {Unset},
             Insert(t, i, name)
      PROVE  OtherTypes'
  BY <1>2, <1>8 DEF Insert, Unchanged, TimesUnchanged
<1>9. ASSUME NEW i \in Id, FlushKey(i) PROVE OtherTypes'
  BY <1>2, <1>9 DEF FlushKey, Unchanged, TimesUnchanged
<1>10. CASE FlushAllRequest
  BY <1>2, <1>10 DEF FlushAllRequest
<1>11. CASE update
  <2>1. PICK limit \in Later(m_nMaxCacheSize) :
          /\ m_nMaxCacheSize' \in Later(limit)
          /\ m_nLastCleanCacheTime' \in {m_nLastCleanCacheTime, now}
    BY <1>11 DEF update, Evict
  <2>2. m_nMaxCacheSize' \in Nat
    BY <1>0, <2>1, LaterType
  <2>3. m_nLastCleanCacheTime' \in Nat
    BY <1>0, <2>1, Times DEF CacheInv
  <2> QED
    BY <1>0, <1>11, <2>2, <2>3 DEF update, OtherTypes
<1>12. CASE End
  <2>1. m_nMaxCacheSize' \in Nat
    BY <1>0, <1>12, LaterType DEF End
  <2> QED
    BY <1>0, <1>12, <2>1 DEF End, OtherTypes
<1>13. ASSUME NEW nSize \in Resize, setMaxCacheSize(nSize) PROVE OtherTypes'
  <2>1. ThreadCount \div nSize \in Nat
    BY SizeAssumption, Quotient
  <2> QED
    BY <1>0, <1>13, <2>1 DEF setMaxCacheSize, OtherTypes
<1>14. CASE Tick
  BY <1>0, <1>14 DEF Tick, OtherTypes, sizeVars
<1>15. CASE UNCHANGED vars
  BY <1>0, <1>15 DEF vars, OtherTypes, sizeVars
<1> QED
  BY <1>3, <1>4, <1>5, <1>6, <1>7, <1>8, <1>9, <1>10, <1>11, <1>12, <1>13, <1>14, <1>15 DEF Next

\* Types; in particular the size of the cache, an unsigned number, never wraps.
THEOREM TypeCorrect == Spec => []TypeOK
<1>1. Init => OtherTypes
  <2>1. MaxCacheSize \div ThreadCount \in Nat
    BY SizeAssumption, Quotient
  <2>2. Init => torn \in BOOLEAN
    BY Zenon DEF Init
  <2> QED
    BY <2>1, <2>2, BoundAssumption DEF Init, OtherTypes
<1>2. CacheInv /\ OtherTypes /\ [Next]_vars => OtherTypes'
  BY OtherTypesStep
<1>3. CacheInv /\ SizeInv /\ OtherTypes => TypeOK
  BY Times DEF CacheInv, CacheTypes, SizeInv, OtherTypes, TypeOK
<1> QED
  BY <1>1, <1>2, <1>3, OwedCorrect, SizeAlways, PTL DEF Spec
=============================================================================
