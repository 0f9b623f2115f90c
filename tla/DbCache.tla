------------------------------- MODULE DbCache -------------------------------
(***************************************************************************)
(* The cache of one database thread: CDbCacheMgr and CDbCache, and the way  *)
(* CDbThread uses them around every command (onPreCache, the handler,       *)
(* onPostCache), at the top of its loop (update) and when it ends.  The     *)
(* MySQL tables the handlers work on are an external variable.              *)
(*                                                                          *)
(* A step is a command, an update() or the end of the thread.  Another      *)
(* thread may set m_nMaxCacheSize, the one variable that is shared, at any  *)
(* time: each read of it in a step is a read of its own, and what the last  *)
(* one saw is the value the step leaves.                                    *)
(*                                                                          *)
(* One object per id (CDbCache, m_mapCache) holds one entry per table.  A   *)
(* message is its primary key and one other column, name; Unset is a field  *)
(* without presence and Default the value such a field is read as.  A       *)
(* dirty object is either the one m_mapCache holds (Shared) or, after a     *)
(* flush of its key, one that only m_mapDirtyCache still refers to.  Nobody *)
(* modifies such an object any more, so m_mapDirtyCache holds its value.    *)
(***************************************************************************)
EXTENDS Integers, FiniteSets

CONSTANTS
  Table, Id,          \* the tables and the primary keys in use; 0 is no key
  Name, Default,      \* the values of the name column; the default value
  Unset,              \* a field that is not set in a message
  NoRow, NoEntry, NoObject, NotDirty, Shared, NoVictim, NoAnswer,
  WritebackTime,      \* nWritebackTime
  ThreadCount,        \* nDbThreadCount: the threads that share the cache size
  MaxCacheSize,       \* nMaxCacheSize
  Resize,             \* the sizes db::setMaxCacheSize() is called with
  Operation,          \* the requests the callers make
  RequestName,        \* the name fields of update requests, Unset included or not
  DbFails,            \* MySQL may refuse any statement
  Disciplined,        \* callers select rows that exist, update rows they hold
                      \* in the cache and insert rows that do not exist
  Epoch, MaxTime,     \* bound: the clock runs from Epoch to MaxTime
  Wrap,               \* bound: stands for 2^64
  MaxRequest          \* bound: requests in one behaviour

ASSUME IdAssumption   == Id \subseteq Nat \ {0} /\ IsFiniteSet(Id) /\ IsFiniteSet(Table)
ASSUME NameAssumption ==
  /\ Default \in Name /\ Unset \notin Name /\ NoRow \notin Name /\ NoRow # Unset
  /\ RequestName \subseteq Name \cup {Unset}
ASSUME TimeAssumption ==
  /\ WritebackTime \in Nat \ {0} /\ Epoch \in Nat /\ MaxTime \in Nat /\ Wrap \in Nat
  /\ WritebackTime < Epoch /\ Epoch <= MaxTime /\ MaxTime + WritebackTime < Wrap
ASSUME SizeAssumption ==
  ThreadCount \in Nat \ {0} /\ MaxCacheSize \in Nat /\ Resize \subseteq Nat \ {0}
ASSUME BoundAssumption == MaxRequest \in Nat

Key == Id \cup {0}
Column == {"id", "name"}
Entry == [id : Key \cup {Unset}, name : Name \cup {Unset}, nTime : Nat]
Object == [Table -> Entry \cup {NoEntry}]

ASSUME NullAssumption ==
  /\ NotDirty # Shared /\ Unset \notin Key
  /\ NoEntry \notin Entry /\ {NoObject, NotDirty, Shared} \cap Object = {}

VARIABLES
  row,                    \* external: row[t][k], name column of row k of MySQL table t
  m_mapCache,             \* id -> object, or NoObject
  m_mapDirtyCache,        \* id -> Shared, an object, or NotDirty
  m_nDataSize,
  m_nMaxCacheSize,
  m_nLastCleanCacheTime,
  m_nLastWritebackTime,
  now,                    \* time(nullptr)
  thread,                 \* "running", "ended" or "aborted" (a failed assertion)
  answer,                 \* what the last request was answered, if it was a select
  owed,                   \* history: <<t, i>> of accepted updates not sent to MySQL yet
  torn,                   \* history: a resize tore a step that relies on two equal reads
  request                 \* the last request: its number, operation and arguments

sizeVars == <<m_nMaxCacheSize, m_nLastCleanCacheTime>>
vars == <<row, m_mapCache, m_mapDirtyCache, m_nDataSize, sizeVars,
          m_nLastWritebackTime, now, thread, answer, owed, torn, request>>

Init ==
  /\ row \in [Table -> [Key -> {Default, NoRow}]]
  /\ \A t \in Table : row[t][0] = NoRow
  /\ m_mapCache = [i \in Id |-> NoObject]
  /\ m_mapDirtyCache = [i \in Id |-> NotDirty]
  /\ m_nDataSize = 0
  /\ m_nMaxCacheSize = MaxCacheSize \div ThreadCount
  /\ m_nLastCleanCacheTime = 0
  /\ m_nLastWritebackTime = 0
  /\ now = Epoch
  /\ thread = "running"
  /\ answer = NoAnswer
  /\ owed = {}
  /\ torn = FALSE
  /\ request = <<0, "none", << >>>>

-----------------------------------------------------------------------------
(* CDbCache: one object.                                                    *)

EmptyObject == [t \in Table |-> NoEntry]

\* Serialized size of a message: one unit per field that is present.
Present(e) == IF e = NoEntry THEN {} ELSE {f \in Column : e[f] # Unset}
EntrySize(e) == Cardinality(Present(e))

Contents(o) == {x \in Table \X Column : x[2] \in Present(o[x[1]])}
getDataSize(o) == Cardinality(Contents(o))

\* addData: the message becomes a clean entry, unless the table has one already.
Clean(m) == [id |-> m.id, name |-> m.name, nTime |-> 0]

\* setData: every field of the message, set or not, is assigned to the entry,
\* which is dirty as of now.
Merged(m) ==
  [id    |-> IF m.id = Unset THEN 0 ELSE m.id,
   name  |-> IF m.name = Unset THEN Default ELSE m.name,
   nTime |-> now]

SetEntry(o, t, m) ==
  [o EXCEPT ![t] = IF @ = NoEntry THEN Clean(m) ELSE Merged(m)]

\* Mutant: nTime = 0 does not force old and new entries alike.
DueByAgeOnly(o, nTime) ==
  {t \in Table : /\ o[t] # NoEntry
                 /\ o[t].nTime # 0
                 /\ nTime - o[t].nTime >= 1}

\* writeback: the tables whose entries are sent to MySQL at nTime ...
Due(o, nTime) ==
  {t \in Table : /\ o[t] # NoEntry
                 /\ o[t].nTime # 0
                 /\ nTime - o[t].nTime >= 1 \/ nTime = 0}

\* Mutant: bDirty is overwritten by every entry, not set by any.
StaysDirtyIfAllYoung(o, nTime) ==
  /\ \E t \in Table : o[t] # NoEntry /\ o[t].nTime # 0
  /\ Due(o, nTime) = {}

\* ... and whether the object stays dirty because some entry is too young.
StaysDirty(o, nTime) ==
  \E t \in Table \ Due(o, nTime) : o[t] # NoEntry /\ o[t].nTime # 0

-----------------------------------------------------------------------------
(* MySQL (external).  The update handler runs an "insert ... on duplicate   *)
(* key update" of the fields that are set.                                  *)

Refused == IF DbFails THEN BOOLEAN ELSE {FALSE}

Message(i, name) == [id |-> i, name |-> name]

\* The tables after the messages W, pairs <<t, m>>, were written.
Upserted(W) ==
  [t \in Table |-> [k \in Key |->
     IF \E w \in W : w[1] = t /\ w[2].id = k
     THEN LET m == (CHOOSE w \in W : w[1] = t /\ w[2].id = k)[2]
          IN  IF m.name # Unset THEN m.name
              ELSE IF row[t][k] = NoRow THEN Default ELSE row[t][k]
     ELSE row[t][k]]]

\* Send the entries W; a statement MySQL refuses is only logged.
Send(W) ==
  \E accepted \in (IF DbFails THEN SUBSET W ELSE {W}) : row' = Upserted(accepted)

Entries(o, tables) == {<<t, o[t]>> : t \in tables}

-----------------------------------------------------------------------------
(* CDbCacheMgr.                                                             *)

\* What the next read of the limit may see after one that saw limit: the manager
\* divides its number of threads by the size, not the size by the number of threads.
Later(limit) == {limit} \cup {ThreadCount \div nSize : nSize \in Resize}

Enabled == m_nMaxCacheSize > 0       \* at the first read of a step
StillEnabled == m_nMaxCacheSize' > 0 \* at the later ones

Cached == {i \in Id : m_mapCache[i] # NoObject}
HasEntry(t, i) == i \in Cached /\ m_mapCache[i][t] # NoEntry

\* setData: add the message to the cache, or merge it into the object of its id.
setData(t, i, m) ==
  LET o == IF i \in Cached THEN SetEntry(m_mapCache[i], t, m)
           ELSE [EmptyObject EXCEPT ![t] = Clean(m)]
  IN  /\ m_mapCache' = [m_mapCache EXCEPT ![i] = o]
      /\ m_mapDirtyCache' =
           IF i \in Cached THEN [m_mapDirtyCache EXCEPT ![i] = Shared] ELSE m_mapDirtyCache
      /\ m_nDataSize' =
           m_nDataSize + getDataSize(o)
             - (IF i \in Cached THEN getDataSize(m_mapCache[i]) ELSE 0)

\* addData: only an id the cache does not know yet gets an object.
addData(t, i, m) ==
  IF i \in Cached
  THEN UNCHANGED <<m_mapCache, m_nDataSize>>
  ELSE LET o == [EmptyObject EXCEPT ![t] = Clean(m)]
       IN  /\ m_mapCache' = [m_mapCache EXCEPT ![i] = o]
           /\ m_nDataSize' = m_nDataSize + getDataSize(o)

\* Mutant: a delete leaves the cache alone.
KeepData(t, i) == UNCHANGED <<m_mapCache, m_nDataSize>>

\* Mutant: a delete subtracts the size of the whole object.
DelDataWrongSize(t, i) ==
  IF HasEntry(t, i)
  THEN /\ m_mapCache' = [m_mapCache EXCEPT ![i][t] = NoEntry]
       /\ m_nDataSize' = m_nDataSize - getDataSize(m_mapCache[i])
  ELSE UNCHANGED <<m_mapCache, m_nDataSize>>

delData(t, i) ==
  IF HasEntry(t, i)
  THEN /\ m_mapCache' = [m_mapCache EXCEPT ![i][t] = NoEntry]
       /\ m_nDataSize' = m_nDataSize - EntrySize(m_mapCache[i][t])
  ELSE UNCHANGED <<m_mapCache, m_nDataSize>>

\* The object m_mapDirtyCache refers to.
DirtyObject(i) ==
  IF m_mapDirtyCache[i] = Shared THEN m_mapCache[i] ELSE m_mapDirtyCache[i]

\* Mutant: the difference is taken as a signed number.
WritebackReadySigned(nTime) ==
  \/ m_nLastWritebackTime = 0
  \/ m_nLastWritebackTime - nTime >= WritebackTime

\* The early return of writeback(); the difference is taken in 64 unsigned bits.
WritebackReady(nTime) ==
  \/ m_nLastWritebackTime = 0
  \/ (m_nLastWritebackTime - nTime) % Wrap >= WritebackTime

\* The early returns of cleanCache(), which reads the limit twice.
CleanReady(limit) ==
  /\ Enabled
  /\ m_nLastCleanCacheTime = 0 \/ m_nLastCleanCacheTime - now >= 1
  /\ m_nDataSize >= limit

-----------------------------------------------------------------------------
(* Commands, each from onPreCache to onPostCache.                           *)

\* What the last answer or request was to a caller that knows only the library.
View(t, i) == IF HasEntry(t, i) THEN m_mapCache[i][t].name ELSE row[t][i]

Request(op, args) ==
  /\ op \in Operation
  /\ thread = "running"
  /\ request[1] < MaxRequest
  /\ now < MaxTime
  /\ request' = <<request[1] + 1, op, args>>
  /\ m_nMaxCacheSize' \in Later(m_nMaxCacheSize)

TimesUnchanged == UNCHANGED <<m_nLastCleanCacheTime, m_nLastWritebackTime, now>>
Unchanged == TimesUnchanged /\ UNCHANGED torn

\* The cache takes part in a command whose two reads of the limit agree that it is on.
CacheOn == Enabled /\ StillEnabled

Reply(t, i, name) == answer' = [table |-> t, id |-> i, name |-> name]
NoReply == answer' = NoAnswer

CacheUnchanged == UNCHANGED <<m_mapCache, m_mapDirtyCache, m_nDataSize>>

\* A hit is answered from the cache, and stored back into it by onPostCache().
SelectHit(t, i) ==
  /\ Request("select", <<t, i>>)
  /\ Disciplined => View(t, i) # NoRow
  /\ Enabled /\ HasEntry(t, i)
  /\ IF StillEnabled THEN setData(t, i, m_mapCache[i][t]) ELSE CacheUnchanged
  /\ Reply(t, i, m_mapCache[i][t].name)
  /\ Unchanged /\ UNCHANGED <<row, thread, owed>>

\* A miss is read from MySQL and cached; without a row the message is empty.  It is a
\* miss, too, if the cache is off before the statement: if it is on after it, what was
\* read is merged over the entry.
SelectMiss(t, i) ==
  /\ Request("select", <<t, i>>)
  /\ Disciplined => View(t, i) # NoRow
  /\ ~(Enabled /\ HasEntry(t, i))
  /\ LET m == IF row[t][i] = NoRow THEN Message(Unset, Unset) ELSE Message(i, row[t][i])
     IN  /\ IF StillEnabled THEN setData(t, i, m) ELSE CacheUnchanged
         /\ Reply(t, i, m.name)
  /\ torn' = (torn \/ (HasEntry(t, i) /\ StillEnabled))
  /\ TimesUnchanged /\ UNCHANGED <<row, thread, owed>>

\* MySQL refused the select: there is no message, which onPostCache() asserts.
SelectFails(t, i) ==
  /\ Request("select", <<t, i>>)
  /\ DbFails
  /\ ~(Enabled /\ HasEntry(t, i))
  /\ thread' = IF StillEnabled THEN "aborted" ELSE thread
  /\ NoReply
  /\ Unchanged /\ CacheUnchanged /\ UNCHANGED <<row, owed>>

\* The cache takes an update, hit or miss, and MySQL is not asked.
UpdateCached(t, i, name) ==
  /\ Request("update", <<t, i, name>>)
  /\ Disciplined => HasEntry(t, i)
  /\ CacheOn
  /\ setData(t, i, Message(i, name))
  /\ owed' = IF HasEntry(t, i) THEN owed \cup {<<t, i>>} ELSE owed
  /\ NoReply
  /\ Unchanged /\ UNCHANGED <<row, thread>>

UpdateUncached(t, i, name) ==
  /\ Request("update", <<t, i, name>>)
  /\ Disciplined => row[t][i] # NoRow
  /\ ~CacheOn
  /\ Send({<<t, Message(i, name)>>})
  /\ NoReply
  /\ Unchanged /\ CacheUnchanged /\ UNCHANGED <<thread, owed>>

\* The cache is filled before MySQL is asked.
Insert(t, i, name) ==
  /\ Request("insert", <<t, i, name>>)
  /\ Disciplined => View(t, i) = NoRow
  /\ IF CacheOn THEN addData(t, i, Message(i, name))
     ELSE UNCHANGED <<m_mapCache, m_nDataSize>>
  /\ \E refused \in Refused :
       row' = IF refused \/ row[t][i] # NoRow THEN row
              ELSE [row EXCEPT ![t][i] = name]
  /\ NoReply
  /\ Unchanged /\ UNCHANGED <<m_mapDirtyCache, thread, owed>>

Delete(t, i) ==
  /\ Request("delete", <<t, i>>)
  /\ IF CacheOn THEN delData(t, i) ELSE UNCHANGED <<m_mapCache, m_nDataSize>>
  /\ \E refused \in Refused : row' = IF refused THEN row ELSE [row EXCEPT ![t][i] = NoRow]
  /\ owed' = IF CacheOn THEN owed \ {<<t, i>>} ELSE owed
  /\ NoReply
  /\ Unchanged /\ UNCHANGED <<m_mapDirtyCache, thread>>

\* flushCache(key): write the object back and forget it -- in m_mapCache only.
FlushKey(i) ==
  /\ Request("flush_key", <<i>>)
  /\ Enabled /\ i \in Cached
  /\ LET o == m_mapCache[i]
     IN  /\ Send(Entries(o, Due(o, 0)))
         /\ m_mapCache' = [m_mapCache EXCEPT ![i] = NoObject]
         /\ m_mapDirtyCache' = [m_mapDirtyCache EXCEPT ![i] = IF @ = Shared THEN o ELSE @]
         /\ owed' = owed \ (Due(o, 0) \X {i})
  /\ NoReply
  /\ Unchanged /\ UNCHANGED <<m_nDataSize, thread>>

\* writeback(nTime) of what dirty refers to, an eviction taken into account.
Writeback(dirty, evicted, nTime) ==
  LET ready == StillEnabled /\ WritebackReady(nTime)
      D     == {i \in Id : dirty[i] # NotDirty}
      due(i) == IF ready THEN Due(DirtyObject(i), nTime) ELSE {}
  IN  /\ Send(evicted \cup UNION {Entries(DirtyObject(i), due(i)) : i \in D})
      /\ m_mapDirtyCache' =
           [i \in Id |-> IF ready /\ i \in D /\ ~StaysDirty(DirtyObject(i), nTime)
                         THEN NotDirty ELSE dirty[i]]
      /\ m_nLastWritebackTime' = IF ready THEN nTime ELSE m_nLastWritebackTime
      /\ owed' = owed \ ((UNION {due(i) \X {i} : i \in D})
                         \cup {<<e[1], e[2].id>> : e \in evicted})

\* Mutant: flushCache(0) forgets first.
ForgetAll ==
  /\ Enabled
  /\ m_mapCache' = [i \in Id |-> NoObject]
  /\ m_mapDirtyCache' = [i \in Id |-> NotDirty]
  /\ m_nLastWritebackTime' = 0
  /\ UNCHANGED <<row, owed, torn>>

\* The cache is switched off between the test of flushCache() and that of writeback():
\* nothing is written, and only m_mapDirtyCache still refers to the dirty objects.
Overtaken ==
  /\ ~StillEnabled
  /\ m_mapDirtyCache' = [i \in Id |-> IF m_mapDirtyCache[i] = Shared THEN m_mapCache[i]
                                      ELSE m_mapDirtyCache[i]]
  /\ torn' = TRUE
  /\ UNCHANGED <<row, m_nLastWritebackTime, owed>>

\* flushCache(0): write everything back and forget it.
FlushAll ==
  /\ Enabled
  /\ \/ StillEnabled /\ Writeback(m_mapDirtyCache, {}, 0) /\ UNCHANGED torn
     \/ Overtaken
  /\ m_mapCache' = [i \in Id |-> NoObject]

FlushAllRequest ==
  /\ Request("flush_all", << >>)
  /\ FlushAll
  /\ NoReply
  /\ UNCHANGED <<m_nLastCleanCacheTime, now, m_nDataSize, thread>>

-----------------------------------------------------------------------------
(* The thread's own steps.                                                  *)

\* cleanCache(): evict an object if the cache is too large; the random picks
\* may all hit empty buckets.
Victims(limit) == IF CleanReady(limit) THEN Cached \cup {NoVictim} ELSE {NoVictim}

\* Mutant: the object is accounted for as gone but stays in m_mapCache.
EvictWithoutErase(victim, limit) ==
  /\ m_mapCache' = m_mapCache
  /\ m_nDataSize' = IF victim = NoVictim THEN m_nDataSize
                    ELSE m_nDataSize - getDataSize(m_mapCache[victim])
  /\ m_nLastCleanCacheTime' = IF CleanReady(limit) THEN now ELSE m_nLastCleanCacheTime

Evict(victim, limit) ==
  /\ m_mapCache' = IF victim = NoVictim THEN m_mapCache
                   ELSE [m_mapCache EXCEPT ![victim] = NoObject]
  /\ m_nDataSize' = IF victim = NoVictim THEN m_nDataSize
                    ELSE m_nDataSize - getDataSize(m_mapCache[victim])
  /\ m_nLastCleanCacheTime' = IF CleanReady(limit) THEN now ELSE m_nLastCleanCacheTime

update ==
  /\ thread = "running"
  /\ \E limit \in Later(m_nMaxCacheSize) :
       /\ m_nMaxCacheSize' \in Later(limit)
       /\ \E victim \in Victims(limit) :
            /\ Evict(victim, limit)
            /\ IF victim = NoVictim
               THEN Writeback(m_mapDirtyCache, {}, now)
               ELSE Writeback([m_mapDirtyCache EXCEPT ![victim] = NotDirty],
                              Entries(m_mapCache[victim], Due(m_mapCache[victim], 0)), now)
  /\ UNCHANGED <<now, thread, answer, torn, request>>

\* The thread ends, flushing its cache.
End ==
  /\ thread = "running"
  /\ thread' = "ended"
  /\ m_nMaxCacheSize' \in Later(m_nMaxCacheSize)
  /\ IF Enabled THEN FlushAll
     ELSE UNCHANGED <<row, m_mapCache, m_mapDirtyCache, m_nLastWritebackTime, owed, torn>>
  /\ UNCHANGED <<m_nLastCleanCacheTime, now, m_nDataSize, answer, request>>

\* db::setMaxCacheSize(), called by another thread between two steps of this one.
setMaxCacheSize(nSize) ==
  /\ thread = "running"
  /\ m_nMaxCacheSize' = ThreadCount \div nSize
  /\ UNCHANGED <<row, m_mapCache, m_mapDirtyCache, m_nDataSize, m_nLastCleanCacheTime,
                 m_nLastWritebackTime, now, thread, answer, owed, torn, request>>

Tick ==
  /\ now < MaxTime
  /\ now' = now + 1
  /\ UNCHANGED <<row, m_mapCache, m_mapDirtyCache, m_nDataSize, sizeVars,
                 m_nLastWritebackTime, thread, answer, owed, torn, request>>

Next ==
  \/ \E t \in Table, i \in Id :
       \/ SelectHit(t, i) \/ SelectMiss(t, i) \/ SelectFails(t, i) \/ Delete(t, i)
       \/ \E name \in RequestName : UpdateCached(t, i, name) \/ UpdateUncached(t, i, name)
       \/ \E name \in RequestName \ {Unset} : Insert(t, i, name)
  \/ \E i \in Id : FlushKey(i)
  \/ FlushAllRequest
  \/ update
  \/ End
  \/ \E nSize \in Resize : setMaxCacheSize(nSize)
  \/ Tick

Spec == Init /\ [][Next]_vars

\* onProcess() calls update() at least once a second, and time passes.
Fairness == WF_vars(update) /\ WF_vars(Tick)

FairSpec == Spec /\ Fairness

-----------------------------------------------------------------------------
(* Properties.                                                              *)

TypeOK ==
  /\ row \in [Table -> [Key -> Name \cup {NoRow}]]
  /\ m_mapCache \in [Id -> Object \cup {NoObject}]
  /\ m_mapDirtyCache \in [Id -> Object \cup {NotDirty, Shared}]
  /\ m_nDataSize \in Nat
  /\ m_nMaxCacheSize \in Nat
  /\ m_nLastCleanCacheTime \in Nat
  /\ m_nLastWritebackTime \in Nat
  /\ now \in Epoch .. MaxTime
  /\ thread \in {"running", "ended", "aborted"}
  /\ answer \in [table : Table, id : Id, name : Name \cup {Unset}] \cup {NoAnswer}
  /\ owed \subseteq Table \X Id
  /\ torn \in BOOLEAN
  /\ request[1] \in 0 .. MaxRequest /\ request[2] \in Operation \cup {"none"}

\* An update the cache merged into an entry is not forgotten: until it has been sent
\* to MySQL or its row is deleted the entry keeps its dirty stamp, and the object
\* m_mapDirtyCache leads to is the object that holds it (db_cache_mgr.cpp:103).  It
\* holds through evictions, refused statements, flushes, and resizes by another thread
\* between any two reads of the limit but two pairs, after which nothing is claimed: a
\* cache switched off between the reads of a flush of everything (db_cache_mgr.cpp:214,
\* 195) is cleared with updates owed, and one switched on between the reads of a select
\* (db_thread.cpp:170, 234) merges the older row over an entry.
NoForgottenWrite ==
  ~torn => \A w \in owed :
    /\ HasEntry(w[1], w[2])
    /\ m_mapCache[w[2]][w[1]].nTime # 0
    /\ m_mapDirtyCache[w[2]] = Shared

Held == UNION {{i} \X Contents(m_mapCache[i]) : i \in Cached}

\* The size cleanCache() compares with the limit never falls below the size of
\* what m_mapCache holds, through merges, deletes, evictions and flushes.
SizeNeverUndercounted == m_nDataSize >= Cardinality(Held)

\* A cached value that differs from the table is scheduled to be written: the write
\* cache "is implemented by writeback" (README.md:3).
CacheCoherent ==
  \A t \in Table, i \in Id :
    (HasEntry(t, i) /\ m_mapCache[i][t].name \notin {Unset, row[t][i]})
      => <<t, i>> \in owed

\* When the thread has ended nothing is left to write (db_thread.cpp:83, README.md:3).
NothingOwedAtEnd == thread = "ended" => owed = {}

DbTable == INSTANCE DbTable WITH
  row <- [t \in Table |-> [i \in Id |-> View(t, i)]]

\* Through the cache a disciplined caller sees a plain table: evictions, write-back
\* and flushes change nothing it can tell.
ImplementsDbTable == DbTable!Spec

\* Every update the cache accepted is sent to MySQL in the end.
UpdatesReachMySQL ==
  \A t \in Table, i \in Id : (<<t, i>> \in owed) ~> (<<t, i>> \notin owed)
=============================================================================
