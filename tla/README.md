# Verification of db_service

`src/` is a C++ library that game servers use to run their database work: a
*client side* (`db_common`: `CDbProxy`, `CDbClient`, `CDbVariant`) that turns
calls into request messages and dispatches responses and timeouts, and a
*service side* (`db_service`) that executes the requests on a pool of threads,
each with its own MySQL connection and its own write-back cache.  This directory
holds TLA+ models of both sides and of their composition, the TLC runs that
check them, and proofs that TLAPS checks: every safety property that a passing
run checks is also a theorem, of the components and of their compositions.
Line references are to `src/`; "README.md" in
the module comments is `src/README.md`.

## 1. Inventory

| Component | State | Operations | What makes it correct |
|---|---|---|---|
| Client proxy: `CDbProxy`, `CDbClient` (`db_common/db_proxy.cpp`, `db_client.cpp`) | `m_mapPendingResponseInfo` (by session), `m_mapPendingResponseInfoByDbClient` (by client address), `m_listTimeout` (by deadline), `m_nNextSessionID` | the requests (`select`, `update_r`, ..., `nop`), `onMessage`, `onTimer`, client construction and destruction | the three tables agree; every session ends once and in one way; the timer ends all and only the sessions that are due |
| Service API (`db_service/src/db_service.cpp`) | `s_mapDbThreadMgr`, `nID` | `create`, `release`, and the calls that look a manager up: `query`, `getResultInfo`, `setMaxCacheSize`, `flushCache`, statistics | no manager is used after its deletion, none is leaked or deleted twice; an identifier leads to its own manager |
| Thread pool: `CDbThreadMgr`, `CDbThread` (`db_thread_mgr.cpp`, `db_thread.cpp`) | per thread `m_listCommand`, the batch of `onProcess()`, `m_quit`, the connection; one `m_listResultInfo` | `query`, `onProcess`, `addResultInfo`, `getResultInfo`, `init`, `join`, `exit` | order per primary key, no request lost or answered twice, `release()` drains and returns |
| Cache: `CDbCacheMgr`, `CDbCache` (`db_cache_mgr.cpp`, `db_cache.cpp`) | `m_mapCache`, `m_mapDirtyCache`, `m_nDataSize`, two time stamps, the size limit; per id one object with one entry per table | `getData`, `setData`, `addData`, `delData`, `update` (evict, write back), `flushCache`, `setMaxCacheSize` | accepted writes reach MySQL; the cache is invisible to its callers; the size is not underestimated |
| Row commands (`db_command_{select,update,insert,delete}_handler.cpp`) | none | one statement each | the table is what the answers say |
| Free commands (`db_command_{query,call,nop}_handler.cpp`) | none of their own; a transaction of the session | placeholder substitution; `call` as a transaction with retries | a call takes effect entirely, once, or not at all; every argument ends up in its place |
| MySQL connection (`db_connection.cpp`) | `m_pMysql`, the session behind it | `connect`, `execute`, `begin`, `commit`, `rollback`, `autoCommit`, `disconnect` | the session is clean between commands; a lost session is recognised |
| Argument values (`db_common/db_variant.cpp`) | type, union, one heap block per string | construction, copy, move, assignment, destruction, `toString` | blocks have one owner; a value survives the way it travels |
| Field codec (`db_protobuf.cpp`, `db_record_set.cpp`) | none | field to SQL text, column to field, row to message | what was written is what is read |
| Command dispatch (`db_command_handler_proxy.cpp`) | a fixed table | `onDbCommand`, `onConnect` | every type has its handler |
| Test program (`test/test.cpp`) | | `CMyDbProxy`: `sendRequest`, `update` | the two sides put together: answers first, timeouts last |

Enumerations, message definitions, generated code, the vendored libraries and
the varint helpers are listed in PROJECT.json as not modelled.

**Interaction.** The application calls `CDbProxy`, whose `sendRequest` hands a
message to a transport the application provides; at the other end `db::query`
looks the manager up in the registry and puts the message into the list of the
thread `associate_id % nDbThreadCount`.  The thread asks its cache
(`onPreCache`), runs the handler on MySQL if needed, informs the cache
(`onPostCache`) and appends a result to the list of the manager, which the
application fetches with `getResultInfo` and transports back to
`CDbProxy::onMessage`.

**What is hard here.** Callers push while threads splice, requeue and quit; a
condition variable without a notification in `join()`; a batch that returns to
the list after a lost connection; a registry whose lock covers the lookup and
not the use; deadlines on both sides, taken from one timeout; two maps that
share cache objects and are kept in step by hand, with evictions, flushes,
merges and deletes in between; unsigned time differences; a transaction that is
retried after an error that undoes only part of it; text that is substituted
into text; a timer that holds an iterator across callbacks that re-enter the
proxy; clients that reuse addresses; responses that come late, twice or never.
PROJECT.json lists every such place with its line under "hazards", and the
properties that cover it.

## 2. Modules

| Module | Models | Proofs |
|---|---|---|
| `OrderedExecution` | abstract: one FIFO queue of commands per connection, each answered at most once, when it leaves the queue | |
| `DbThreadMgr` | the thread pool with its callers and `release()` | `DbThreadMgr_proofs` |
| `DbRegistry` | the registry of `db_service.cpp`, the life of managers and of their threads | `DbRegistry_proofs` |
| `DbTable` | abstract: what a caller may expect of tables, whatever cache stands in front of them | |
| `DbCache`, `MCDbCache` | the cache of one thread, with the row handlers and the MySQL tables; the symmetry of tables for TLC | `DbCache_proofs`, `DbCacheTable_proofs` |
| `DbProxy`, `MCDbProxy` | the client side; the symmetry of clients for TLC | `DbProxy_proofs` |
| `DbService` | composition: `DbProxy` and `DbThreadMgr` in the loop of `CMyDbProxy` | `DbService_proofs` |
| `DbVariant` | argument values and their heap blocks | |
| `DbCommands` | the handlers of one connection, the MySQL session, the codec | |
| `DbRequests`, `MCDbRequests` | composition: a program, its `DbVariant` objects and `DbCommands`; values for TLC | `DbRequests_proofs`, `DbArguments_proofs` |

Names of variables and actions are those of the code where possible.

### DbThreadMgr

A command is a number (its submission order); `command[n]` is the `SDbCommand`.
`m_listCommand[w]` is the list under the lock, `listCommand[w]` the batch
`onProcess()` has spliced out.  `pc[w]` is the thread's position:

| `pc` | place in the code | actions that leave it |
|---|---|---|
| `top` | entry of `onProcess()` | `EnterProcess` (reconnect if there is no connection) |
| `wait` | lock taken, list tested | `Sleep`, `TakeBatch` |
| `sleep` | inside `wait_for` | `WaitTimeout`, `TakeBatch` |
| `batch` | the `for` loop, before the expiry check | `HandleFlush`, `Discard`, `PickUp`, `FinishBatch` |
| `execute` | `onPreCache()`, the handler, `onPostCache()` | `ServeFromCache`, `ServeFromDatabase`, `LostConnection` |
| `check` | the condition of the thread's own loop | `Loop`, `Exit` |

The expiry check and the execution it guards are two steps: a statement may wait
for a lock, and a `call` is tried five times, so the clock, the callers,
`onTimer()` and `getResultInfo` all run between `PickUp` and the answer, and
nothing looks at the deadline again.

Callers: `Query`, `QueryFlush`, `BroadcastFlush` (one step per thread, since
each list has its own lock), `GetResultInfo`.  `Release`, `SetQuit(w)` and
`Join(w)` are `db::release` with `exit()`, which ends one thread after the other;
callers that looked the manager up before may still push to threads that are not
joined.  `LinkDown` is the server ending a session, `Tick` the clock.  `db::query`
reads the clock when the request reaches it, which may be a second later than
the caller sent it (`Passing`; bound: one second at most).

Abstractions: what a command does to cache and table is left to `DbCache` and
`DbCommands` (here: served or not, by which of the two); an answer is the number
of its command; `connectDb(false)`, which tries until it succeeds, is one step;
`m_quit` is read once per round of the loop, as in the code.  Whoever has commands
waiting may be woken at any time, by `notify_one` or by the end of its second:
notifications are not a state of the model, and no property is about them.  The constant
`DeadLinkErrno` is what `mysql_errno()` returns for a dead session: 2006 with
the client library this repository ships; the value 1 (`kMET_LostConnection`)
exercises the requeue path, which the code was written for.

### DbRegistry

`manager[p]` is the state of the memory of manager `p` and of each of its
threads (`none`, `unstarted`, `running`, `deleted`).  Every thread of the
application is somewhere in `create` (`Create`, `StartThread` or `ConnectFails`,
`Insert`, `Return`), in `release` (`Release`, `Join`, `Delete`) or in a call on
a manager (`LookUp`, `Use`, `CallReturns`); the steps are cut where the code
takes or leaves `s_lock`.  A call that touches a deleted manager or thread sets
`broken`; joining a thread that was never started throws out of a destructor and
sets `terminated`.

`disciplined` records whether the application kept to what the code needs:
`create()` runs alone, and `release()` of a manager starts when no call on that
manager is in progress.  Calls that start *during* `release()`, several releases
at once and any number of concurrent calls are allowed.  Without the discipline
every property fails, which follows from the missing lock and is stated nowhere
otherwise; with it they are not obvious, since `release()` erases the manager
under the lock and works on it for a long time afterwards.

### DbCache

An object of the code is a function from tables to entries, an entry is a
message (id, name) with its dirty stamp `nTime`; fields may be `Unset`.  The
actions are whole commands, from `onPreCache()` through the handler to
`onPostCache()` (`SelectHit`, `SelectMiss`, `SelectFails`, `UpdateCached`,
`UpdateUncached`, `Insert`, `Delete`, `FlushKey`, `FlushAllRequest`), and the
thread's own `update` (evict, then write back), `End` (the flush when the thread
ends) and `setMaxCacheSize`.  `m_mapDirtyCache[i]` is `Shared` while it refers
to the object `m_mapCache` holds, or the value of an object that only it still
refers to.  MySQL is the variable `row`, changed by the handlers' statements,
any of which it may refuse if `DbFails`.  `owed` is a history variable: the
updates that were merged into an entry and not sent since.

Time differences are taken as in the code, `WritebackReady` in unsigned
arithmetic (modulo `Wrap`, which stands for 2^64) and `CleanReady` in signed.

`m_nMaxCacheSize` is the one variable another thread writes, without a lock
(`db_thread_mgr.cpp:117-124`), and every read of it in an action is a read of its
own: the first one of a command (`Enabled`) and a later one (`StillEnabled`, for
a flush of everything that of `writeback()`), the two of `cleanCache()` and the
one of `writeback()` after them.  `Later` is what the next read may see.
`setMaxCacheSize` is the resize that falls between two steps.  Two pairs of reads
that disagree break what follows, and the history variable `torn` records them:
a cache switched off between `db_cache_mgr.cpp:214` and `:195` is cleared without
having been written (`Overtaken`), and one switched on between
`db_thread.cpp:170` and `:234` has an older row merged over an entry
(`SelectMiss`).

Abstractions: sizes count fields instead of bytes; the five random picks of
`cleanCache()` are "some object or none".

### DbProxy

Sessions are numbered as `genSessionID` does.  The list iterator of `onTimer()`
is the variable `iter`: the session whose node it stands on, or `End`.
`onTimer()` is not atomic: `EnterTimer`, `Expire` (one node, ending with the
callback into the application), `CallbackReturns`, `LeaveTimer`; between
`Expire` and `CallbackReturns` the application runs and may open sessions and
destroy clients.  `broken` becomes true where the code has undefined behaviour
(`UseDangling`: the iterator's node was erased by the callback; `Destroy` with a
pending nop: `list::erase(end())`), and nothing is claimed of what follows.

Abstractions: requests that want no answer change no state; session numbers do
not wrap; the transport is the set of responses `onMessage` may be given at any
time, for any session, any number of times.

### DbService

The two sides in one process, as `CMyDbProxy` of `test.cpp` runs them: `Request`
is a step of `DbProxy` and a step of `DbThreadMgr` at once (`sendRequest` is
`db::query`), with the same timeout, from which each side takes its own
deadline.  Each side reads the clock itself (`db_proxy.cpp:133`,
`db_service.cpp:170`), the second one at most a second later than the first.  `update()` is `Fetch` (`getResultInfo`), one `Deliver` per answer,
`EnterTimer` and the steps of `onTimer()`; the threads of the pool and the clock
interleave with all of them.  `commandOf` is the `session_id` a command carries.
Answers here carry no error codes (those are
`DbProxy`'s business), callbacks open sessions and do not destroy clients, and
`release()` is called when the clients are gone, as the destructor does.

### DbVariant, DbCommands, DbRequests

`DbVariant`: per slot of memory an object or raw memory, `block` the live heap
blocks with what they hold.  Integers of 64 bits wrap as `m_nValue` does.
`meant` is a history variable: the value the program gave to the object.

`DbCommands`: a session of the server is external: `table` is what other
sessions see, `work` what the transaction of this session sees, `open` and
`autocommit` its state, `link` whether it lives.  `call` is one action per
statement (`autoCommitOff`, `begin`, `Execute...`, `Retry`, `Fail`, `commit`,
`autoCommitOn`), and the session may die between any two.  The procedure it
runs makes two writes, so that a lock wait timeout, which undoes one statement
and not the transaction, can leave one behind.  The row commands and `query`
are one statement each: executed, refused, or answered by the death of the
session, executed or not.  `intended` is the table if every command did what it
reported.

The table is `player_base` of the repository's `test.sql`: an unsigned id, the
primary key, which the message holds in a signed field, and a blob.  Text is a
sequence of words; what `escape()` keeps apart is one word.  `Substituted`
replaces placeholders one after the other in the text so far, as the handlers
do, and is `NoText` when one is missing, which is not the same as a text that has
become empty: the first is `kRC_SQLPARM_ERROR`, the second is sent.  A query
whose clause is empty, as given or after the substitution, has no clause
(`db_command_query_handler.cpp:45`), and one that brings arguments to an empty
clause is refused.  MySQL `Accepts` a clause that compares the id with a number or
is a number, and refuses every other; `Meaning` is what a caller means by them, every word of the text replaced by
what it `Stands` for, and `Plain` the condition under which the two agree: no
placeholder occurs twice and no argument contains the placeholder of a later
one.  Both are recursive functions, of the number of arguments and of the number
of words.  `Found` lists the rows of an answer by primary key: row `i` is the one
with `i - 1` smaller ones.  Abstraction: no word of an argument is the name of a
column, a function or an operator.

`DbRequests`: a program builds, copies, moves and destroys its argument objects,
sends some of them with a call or a query, and reads the answer.

## 3. Runs

| Run | Configuration | Distinct states | Question |
|---|---|---|---|
| `pool_order` | 2 threads, 2 keys, 3 commands, requeue path on | 2.8 million | order, drain, types, `OrderedExecution` |
| `pool_live` | 2 threads, 2 commands with and without timeout, clock of 2, error 2006 | 358 thousand | no early discard; every command is settled; `release()` returns |
| `registry` | 3 callers, up to 3 managers of 2 threads, failing connects | 516 thousand | calls find living managers, identifiers resolve, every manager has one owner |
| `cache_faults` | 2 tables of one id, 4 requests of any kind, partial messages, refusals, resizes | 2.5 million (tables interchangeable) | an accepted update is not forgotten, short of the two torn reads; size; types |
| `cache_table` | 2 tables of one id, 5 requests of a disciplined caller, no refusals, fair `update` | 36 thousand | cache is invisible (`DbTable`), coherent, writes everything, owes nothing at the end |
| `proxy_table` | 2 clients, 3 sessions, timeouts 0 and 1, clock of 3, callbacks of every kind | 730 thousand (clients interchangeable) | tables agree, sessions end once, the timer is complete |
| `service` | 1 client, 2 sessions with timeouts 1, 2 or none, 2 commands, 1 thread, clock of 3 | 159 thousand | order and freshness of answers end to end, timeouts against late answers, every session ends |
| `commands` | 2 argument objects, 2 commands out of 5 call templates, 3 where clauses and the row commands, 5 attempts, sessions that die | 280 thousand | heap, values, all-or-nothing, clean session, table as told, read back, calls end |

Four more runs end in a violation, section 4.  Every property of a passing run
has a mutant in PROJECT.json: a definition changed the way a plausible bug would
change the code (operators marked "Mutant:" in the modules), under which the
same run finds the property violated.

**Why the bounds are enough.** Order in the pool can only be lost between
commands of one key, so two commands and one that is pushed in between (three)
exhibit every requeue against every push; two threads distinguish own from
foreign work.  In the registry the races are between a call, a `release()` and a
third party; a manager of two threads can be half joined and half started.  The
theorems of section 5 lift these bounds altogether.  In the cache the
interaction that matters is between the *tables of one object* (dirty stamps,
size, deletes), so the large runs have two tables of one id; ids share nothing
but the size limit and the time stamps.  Four requests of any kind fill two
tables of an object and make both dirty, at different times, or fill and dirty
one and disturb it twice, with any number of `update` steps between; five
requests let a disciplined caller fill, dirty and delete and write again.  The
clock has room for one and two seconds of age (the dirty rule compares with
one).  In the proxy the iterator argument needs the node it stands on, its
successor and one more; a client address is reused in every way with two
sessions.  A session that must time out is opened early enough to do so within
`MaxTime` (guard of `Request`).  In the composition two sessions suffice for one
that is late and one that is asked behind it, and the timeout of 2 is the first
whose half is not now; order among more commands is the pool's own theorem.  A
second command finds whatever a call left behind in the session or in the
table; the argument values include an unsigned number that wraps, an id above
the signed field, a name with a zero byte and a text that looks like a
placeholder; `{1}` before `{0}`, once, twice and missing are the templates with
placeholders, and one has none.  A query has no clause, one that compares the id
with its argument, or one that is its argument: a number, a
word MySQL refuses, or nothing.

**Fairness.** `pool_live`: weak fairness of each thread (`WF(Thread(w))`; the
operating system schedules threads, `wait_for` returns after a second, and a
statement MySQL was given returns with a result or an error) and of the thread inside `release()`.  Callers, clock and faults are not fair.
`cache_table`: weak fairness of `update`, which `onProcess()` reaches at least
once a second, and of `Tick`.  `service`: weak fairness of the steps of
`update()`, which the main loop calls again and again and whose callbacks
return, and of `Tick`.  That is all `TimedSessionsEnd` needs: the threads of the
pool may be stuck.  A nop has no timeout; `NopsEnd` has the fairness of the
threads as its hypothesis.  `commands`: weak fairness of the thread inside a
`call`.  Deadlock is not checked: after `release()`, at the end of a thread and
at the bounds the systems really stop.

## 4. Where the code departs from what is written about it

Each is a run that TLC answers with a violation; details and quotations are in
PROJECT.json under "findings".

- `pool_lost_connection`: `kMET_LostConnection` is 1, but a dead session is
  reported as 2006 or 2013: the requeue and reconnect path is never taken and
  the command is settled with an error.
- `cache_update_miss`: an update of a row the cache does not hold is accepted,
  cached as clean, and never written.
- `cache_flush_key`: the object of a flushed key stays in `m_mapDirtyCache` and
  may later write a deleted row back.
- `proxy_error_code`: a successful `update_r`, `remove_r`, `insert_r` or `nop`
  is reported to its callback as `kRC_PROTO_ERROR`.

Other behaviour one may not expect is modelled as it is, or left aside, without a
run, because the repository says nothing against it:

- a select MySQL refuses reaches the assertion of `onPostCache()` on its null
  response (`db_thread.cpp:239`; `SelectFails`);
- `setMaxCacheSize` divides the number of threads by the size
  (`db_thread_mgr.cpp:119`): sizes above it switch the cache off, with accepted
  updates inside that are never written;
- when a pool fails to connect, `exit()` joins a thread that was never started
  and the process ends: the `return 0` of `db_service.cpp:103-104` is not
  reached (`ConnectFails`, `Join`);
- a flush of everything during which another thread switches the cache off
  forgets what was owed (`db_cache_mgr.cpp:214` and `:195`; `Overtaken`), and a
  select during which it is switched on merges an old row over an update
  (`SelectMiss`);
- a command that was picked up in time runs and commits however long it takes,
  also after its caller was told `kRC_TIME_OUT` (`PickUp`; `service`);
- `db::flushCache` sends a command without a message, which the thread skips
  (`db_service.cpp:210`);
- a timeout of one second gives the pool a deadline of now, and the request is
  dropped (`db_service.cpp:170`; visible in `service`);
- an unsigned argument of 2^63 or more is printed as a negative number
  (`db_variant.cpp:438`; `Wrapped`), a blob is read up to its first zero byte
  (`Binary`), an id above the range of its field becomes the largest of it;
- `call` reports success whatever became of `commit`
  (`db_command_call_handler.cpp:80`): after the session died in between, the
  call had no effect;
- the move constructor of `CDbVariant` assigns to an object whose type was never
  set (`db_variant.cpp:89`; `MoveConstruct`);
- `fillNormalMessage` deletes a message its caller owns (`db_protobuf.cpp:645`).

The passing cache properties are stated with these in mind: `NoForgottenWrite`
is about updates that were *merged into an entry*, as long as no resize has torn
a step; `cache_table` is about a
caller that selects rows that exist, updates rows it has in the cache, inserts
rows that do not exist, and flushes everything rather than one key.

## 5. Proofs

All theorems hold for every value of the constants their module's ASSUMEs admit;
TLC evaluates those ASSUMEs in the runs.

| Module | Theorem | Statement |
|---|---|---|
| `DbThreadMgr_proofs` | `TypeCorrect` | `Spec => []TypeOK` |
| | `OrderCorrect` | `Spec => [](TypeOK /\ OrderInv)`, the inductive invariant |
| | `RepliesCorrect` | `Spec => []RepliesInOrder` |
| | `Refinement` | `Spec => ImplementsOrderedExecution` |
| | `AnsweredCorrect` | `Spec => []AnsweredOrExpired` |
| | `QuitCorrect` | `Spec => []QuitDrains` |
| `DbRegistry_proofs` | `TypeCorrect` | `Spec => [](TypeOK /\ Base)` |
| | `RegistryCorrect` | `Spec => []RegistryInv`, the inductive invariant |
| | `CallsCorrect` | `Spec => []CallsUseLiveManagers` |
| | `IdsCorrect` | `Spec => []IdsResolve` |
| | `OwnershipCorrect` | `Spec => []OwnedOnce` |
| `DbProxy_proofs` | `SessionsCorrect` | `Spec => []SessionInv`, the inductive invariant |
| | `IndexCorrect` | `Spec => []ClientIndexExact` |
| | `EndsOnceCorrect` | `Spec => []EndsOnce` |
| | `TimerCorrect` | `Spec => []TimerInv`, the inductive invariant of list and iterator |
| | `ListCorrect` | `Spec => []TimeoutListExact` |
| | `TimerCompleteCorrect` | `Spec => TimerComplete` |
| | `IteratorCorrect` | the iterator stays on the list, if callbacks destroy no client |
| | `TypeCorrect` | `Spec => []TypeOK` |
| `DbCache_proofs` | `OwedCorrect` | `Spec => []CacheInv`, the inductive invariant |
| | `NoForgottenWriteCorrect` | `Spec => []NoForgottenWrite` |
| | `SizeCorrect` | `Spec => []SizeNeverUndercounted` |
| | `TypeCorrect` | `Spec => []TypeOK` |
| `DbCacheTable_proofs` | `TableCorrect` | `Setting => (Spec => []TableInv)`, the inductive invariant |
| | `CoherentCorrect` | `Setting => (Spec => []CacheCoherent)` |
| | `NothingOwedCorrect` | `Setting => (Spec => []NothingOwedAtEnd)` |
| | `TableRefinement` | `Setting => (Spec => ImplementsDbTable)` |
| `DbRequests_proofs` | `CallCorrect` | `Spec => []CallInv`, the inductive invariant |
| | `AllOrNothingCorrect` | `Spec => []AllOrNothing` |
| | `SessionCleanCorrect` | `Spec => []SessionClean` |
| `DbArguments_proofs` | `ArgsCorrect` | `Spec => []ArgsInv`, the inductive invariant of the objects |
| | `HeapCorrect` | `Spec => []HeapExact` |
| | `ValuesCorrect` | `Spec => []ValuesKept` |
| | `ReportsCorrect` | `Spec => []Reports`, the codes and the number of attempts |
| | `TypeCorrect` | `Spec => []TypeOK` |
| | `SubstitutedAsMeant` | a plain text is substituted as it is meant, or refused |
| | `RowsCorrect` | `Spec => []RowsInv`, the inductive invariant of the table |
| | `TableCorrect` | `Spec => []TableAsTold` |
| | `ReadBackCorrect` | `Spec => []ReadBack` |
| `DbService_proofs` | `ServiceCorrect` | `Spec => []ServiceInv`, the inductive invariant |
| | `ProxyRefinement` | `Spec => Proxy!Spec` |
| | `PoolRefinement` | `Spec => Pool!Spec` |
| | `TypeCorrect` | `Spec => []TypeOK` |
| | `CallbacksCorrect` | `Spec => []CallbacksInOrder` |
| | `ReadsCorrect` | `Spec => []ReadsFollowWrites` |
| | `IteratorCorrect` | `Spec => []IteratorStaysValid` |
| | `NoLateCorrect` | `Spec => NoLateExecution` |
| | `AnswerBeatsCorrect` | `Spec => AnswerBeatsTimeout` |

### The pool

Assumptions: there is a thread; keys and timeouts are natural numbers.

`RepliesInOrder` speaks of answers only and is not inductive: that the next
answer is the youngest of its key depends on where the unanswered commands are.
`OrderInv` adds this:

- `BatchInv`: a batch exists only while its thread is in the `for` loop (so the
  splice of a new batch and the requeue of an old one meet empty lists);
- `CommandInv`, `OwnInv`: a command that wants an answer stands in the lists of
  the worker its key is routed to, and in no other;
- `SortedInv`: batch followed by list (`Backlog(w)`) is sorted by submission;
- `AnswerInv`, `AnswersSorted`: what a worker has answered is older than
  everything in its backlog, and sorted.

All of it depends on the actions only through what they do to backlogs
and answers, so the central lemma `StepKinds` sorts every step into three kinds:
`PushStep(w)` (a new command at the end of one backlog), `SettleStep(w)` (the
head of one backlog leaves, answered, or unanswered for a reason) and
`QuietStep`.  Requeueing is quiet: it moves commands within a backlog.  The
three kinds are the two actions and the stutter of `OrderedExecution`
(`StepRefines`), and the invariance of each part is proved once per kind.
`QuitDrains` needs in addition `QuitInv`: the mark taken when `m_quit` is set
never exceeds the number of commands, and only a worker told to quit has ended;
what is in the backlog of an ended worker can only have been pushed later.

### The registry

Assumptions: a manager has a thread; `None` is no manager.

`CallsUseLiveManagers` holds only because of where everything is: a manager that
a call has found stays in the map until `release()` erases it, `release()` does
not begin under the call, and the threads of a manager in the map all run.
`RegistryInv` is `TypeOK`, `Base` (of any application: a caller inside a call
has a manager) and, as long as the application is disciplined, `Order`: a
creating caller is alone (`Alone`); listed managers live (`MapLive`) and are
listed once; what a caller holds between `new` and the insertion, or between the
erasure and `delete`, is valid, unlisted and held by it alone (`HeldOnce`);
every valid manager is in one of these places (`Placed`); threads are started
and joined in order (`Stages`); a manager in use is listed (`Found`); and
identifiers are handed out in order (`IdsInOrder`, `Resolved`).  The proof has
a lemma per action and under it a step per part.

### The client side

Assumptions: timeouts are natural numbers, `NoTimeout` and `End` are not; the
kinds of requests are two.

Every way a session ends looks it up in `m_mapPendingResponseInfo` first, and
every opening takes a new number, so neither `ClientIndexExact` nor `EndsOnce`
depends on the timeout list, its iterator or the clock, even where `broken` is
set.  `StepKinds` sorts the steps into `OpenStep`, `FinishStep`, `DestroyStep`
and `QuietStep`; `SessionInv`, the two properties and the types they need, is
shown for each.

The list and `onTimer()` need more.  `ListInv` says that the list holds the
pending sessions with a timeout and is ordered by `Before`: by deadline, and
among equal deadlines the younger first, since `lower_bound` stops at the first
node that is not earlier (`db_proxy.cpp:134`).  `PassedInv` says what `onTimer()` may rely on
after a callback: whatever still stands before its iterator was opened after it
was entered (`s > entered`), so that nothing that was due then has been skipped.
This does not hold where the iterator dangles, and is claimed only while it is
`End` or on the list.  That the code's two loops over the list do what this
ordering needs (insertion keeps it, erasing takes out one node and moves no
other) is shown without induction over sequences: the recursive function behind
`SelectSeq` is unfolded at the least index for which the claim fails (`NatMin`,
from the well-foundedness of the naturals).

### The cache

Assumptions: the keys are positive and finite in number, the null values are
none of what they stand for, and the clock is later than `nWritebackTime`
seconds after its zero and does not wrap.

`NoForgottenWrite` says that an accepted update has its entry, its stamp, and a
dirty map that leads to it.  It is not inductive: an eviction sends the entries
of its victim under the id *in the entry*, and what is settled by that is the
update of the victim only if the two agree.  `CacheInv` adds that the entry has
its own key as id, that a shared dirty object exists, and that the stamp of the
last write-back is 0 or not before `Epoch`, so that the unsigned difference lets
the final flush through (`FlushIsReady`).  It holds for any requests, refusals and
evictions, and for resizes by another thread between any two reads of the limit
except the two pairs that set `torn`: `CacheInv` is `CacheTypes`, which always
holds, and `~torn => OwedInv`.  `StepKeeps` shows that a step keeps the types,
and keeps `OwedInv` unless it is torn itself; `TornStep`, that what is torn stays
torn.

The refinement of `DbTable` holds in a `Setting` that excludes, one condition
each, the departures of section 4: the caller is disciplined, MySQL accepts its
statements, the cache is on and never resized, no single key is flushed, every
update sets its field.  `TableInv` says then that an entry is a row of the table
under its own key, equal to it or newer and owed to it (`EntryInv`), that a dirty object
is always the shared one (`DirtyInv`), and that nothing is owed at the end.  The
view of the caller is the entry where there is one and the row where there is
not.  `WritebackRows` shows that what is written goes to its own row, and that
what is settled was written; hence write-back, eviction, the final flush leave
the view alone (`WritebackKeeps`), and every request does to it what `DbTable`
says (`SelectRefines` to `DeleteRefines`, put together in `TableStep`).
`Setting` is true of the constants of the run `cache_table`.

`SizeNeverUndercounted` compares `m_nDataSize`, which `setData`, `update` and the
eviction change by differences, with the size of what `m_mapCache` holds.  The
size is the cardinality of `Held`, the set of fields held, and so splits into
the part of one object and the rest (`HeldSplits`): every action touches one
object, and the lemma for it compares the two parts.  Since the size of an object
is never more than what is counted, subtracting it does not take the unsigned
number below zero, which is the part of the type invariant that is not obvious.

### The transaction

Assumption: the number of commands is a natural number.

`AllOrNothing` speaks of what other sessions see (`table`) and is not inductive:
what `commit` publishes depends on what the session wrote before.  `CallInv`
follows the session statement by statement.  Outside a transaction it sees the
table (`work = table`); inside one it differs from the table in the writes of
the call that runs and no other (`OthersAgree`), and before `commit` it has both
of them or none; a call that has not committed is not seen (`Unseen`); while the
session lives, autocommit is on exactly between calls; and a session that has
died has rolled back, since MySQL does.  Every statement has a lemma, and the
commands that are not calls write whole rows outside any transaction
(`WrittenView`).

### Arguments, table and answers

Assumptions: there are finitely many objects (`SlotAssumption`), texts are
sequences of words (`TextAssumption`), different numbers of the id column are
printed differently, the placeholders `{0}` and `{1}` are different words
(`PrintedAssumption`; `std::to_string` and the `{i}` of the handlers), and `NoText`
is no text.

*Objects.*  `HeapInv` is `TypeOK` and `HeapExact` of `DbVariant`: the blocks are
what the strings own, one each.  `clear()` takes the block of its object and no
other (`ClearedHeap`); `new` finds an unused address because there are more
addresses than objects (`FreshAddress`).  `ArgsInv` adds that an object has the
value the program meant.  A move construction that finds a string in raw memory is only recorded
(`broken`): what is freed then is undefined, and the model ends there.

*Substitution.*  `SubstitutedAsMeant` is about any number of arguments and texts
of any length: if the placeholders differ and the arguments are `Plain`, the text that `Substituted`
produces is the one `Meaning` gives, or a placeholder is missing and the command
is refused.  `NextArgument` compares the meanings of one text with `k` and
`k + 1` arguments: they differ at one place, where the first has the placeholder of the new
argument and the second the argument.  `PutStep` concludes that replacing the
placeholder does just that, since no earlier argument brought another one in.
Where a proof would go by induction on the
length of a text or the number of arguments, it takes the least counterexample.

*Table.*  `RowsInv`: while the session lives and every text was plain, the table
is `intended`, a call that runs executes what was meant (`stmt = wish`), and
before `commit` the session sees `intended` with the row of the call in it
(`Committed`).  `CallInv` and `Reports` supply the rest: that an error leaves no
write behind, and that the last attempt is followed by no other.

*Answers.*  `ReadInv` adds to `ReadBack` that no answer is kept while a call
runs, so no answer outlives a change of the table; `AnswerAsWritten` compares
the rows a handler returns with the rows written, one by one.  What
`db_protobuf.cpp` changes of a row is in the property itself: of a name with a
zero byte comes back exactly the part before the first one (`UpToZero`,
`NameUpToZero`), and an id too large for its field as the largest of it
(`FilledRow`).

### The composition

Assumptions: those of the two components; the pool has the timeouts of the
clients and 0, for requests without one.

`DbService` implements both of its components: every step is a step of `DbProxy`
or a stutter (`StepOfProxy`), and a step of `DbThreadMgr` or a stutter
(`StepOfPool`).  The theorems of the parts are therefore theorems of the whole;
`DbService_proofs` instantiates the two proof modules and shows the assumptions
they make of their constants.  `ServiceInv` is the two inductive invariants and
what relates the two sides:

- `CommandOfInv`: every session has its own command, and sessions and commands
  have the same order;
- `DeadlineInv`: the deadline of a command is not after the deadline of its
  session, for half of a timeout of a second or more, rounded down, and the second
  the clock may turn meanwhile are not more than the whole;
- `LoopInv`, `HandledInv`: `onTimer()` starts when every answer fetched has been
  handed over, an answer that was handed over has ended its session, and who was
  answered was answered by one of those;
- `ToldInv`: who was told of a timeout had reached its deadline.

`CallbacksInOrder` is inductive with these: the pool answers the commands of one
key in order (`RepliesInOrder`, from `OrderInv`), `getResultInfo` and the loop
keep that order.  `NoLateExecution` combines `DeadlineInv` with `ToldInv`: a
command whose caller was told has expired for the thread, too, which does not
pick it up any more.  It says nothing of commands picked up before: those may
finish late.  `AnswerBeatsTimeout` is `HandledInv` at the moment a session expires.  Of
the iterator, `DbProxy` claims only that it stays valid if callbacks destroy no
client; here they do not.

### Model-checked only

Liveness under fairness: `CommandsSettled`, `ReleaseReturns`,
`UpdatesReachMySQL`, `TimedSessionsEnd`, `NopsEnd` and `CallEnds`, which the
prover does not reach.  All other properties of the passing runs are theorems.
The four disagreements of section 4 are counterexamples and need no proof.

## 6. Not modelled

- *Values*: floating point (printed with six digits; the codec sets a `float`
  field through `SetDouble`), sub-messages (JSON, binary), the loading of
  `.proto` files, the conversions of `CDbVariant` back to C++ types, which no
  library code calls on arguments.
- *SQL text*: quoting and escaping; a word that was escaped stays one word.
- *Rows of a call* (`result_set`): the procedure here returns none.  A procedure
  that does leaves its final status unread, and the `commit` after it fails as
  out of sync on a living session (`db_connection.cpp:75`); `AllOrNothing` and
  `SessionClean` are claimed of procedures without rows only.
- *Notifications*: `notify_one` only shortens a wait that `wait_for` ends anyway.
- *Memory*: the record set of `select` is freed through a copy of the pointer
  that `DEFER` took while it was null (`db_command_select_handler.cpp:44`), so
  every result leaks.
- *Statistics* (`getQPS`, `getQueueSize`), logging: nothing depends on them.
- *A command type without a handler*: no client sends one.
- `encodeVarint`, `decodeVarint`: called by nothing.  Enumerations and
  `.proto` definitions have no behaviour of their own.
- *Generated and vendored code*: the MySQL and protobuf headers under `src/3rd`
  and the generated `*.pb.h` are fifteen times as long as the library itself
  (some 4900 lines of its own) and hold nothing of its logic; they are external,
  modelled where they are called.
- `main()` of the test program, a manual session against a live server.

## 7. What is left

1. The composition of pool and cache: what `OrderedExecution` says of commands
   and `DbTable` of rows, in one module with more than one thread, where rows
   are partitioned by `associate_id` and the manager's flush goes to all.
2. The rows of a call and sub-messages in the codec.
