# SpinaJS in TLA+

SpinaJS is a TypeScript framework for node.js: a monorepo of about sixty packages (dependency
injection, configuration, logging, an ORM with drivers, queues, HTTP, users and sessions, files,
templates). This directory specifies the parts whose correctness depends on the order in which
things happen. Paths below are relative to `src/packages`.

JavaScript runs one job to completion. Throughout, an action is everything a call or callback does
up to its next `await`; what happens between two awaits is the interleaving the models explore.

## Inventory

| part | state it keeps | operations | what is hard | what makes it correct |
|---|---|---|---|---|
| di: container (`di/src/container.ts`, `container-cache.ts`) | cache, `resolutionPromises`, `creatingKeys` per container; tree of containers | resolve, clearCache, dispose, child | asynchronous services, re-entrant resolves, failing dependencies, clear or dispose while a creation runs | one creation per key at a time, everyone gets the cached instance, nothing stale stays behind, every resolve settles |
| di: PerInstanceCheck | the cached instance and the pending one | resolve with options | several option sets, cached or pending | who asks later gets what was asked for |
| di: registry, `Array.ofType` | registered types per container, lists of instances | register, unregister, resolve, uncache | the registry changes after a list was cached | one answer per class, nothing listed twice |
| threading (`threading/src/index.ts`) | promise per section name | criticalSection, rateLimit, delay | the promise is read before an await and replaced after it | callbacks do not overlap, an error does not block the section |
| orm-threading | row per mutex in `__mutex__` | acquire, release, delete, create, wait | read, judge and update are separate queries of several processes | one tenant holds a mutex; a locked row has a holder |
| tasks | task row, mutex, history row | the `@Task` decorated method | runs in several processes; a failing finally block | applications do not run a task together; every run ends |
| queue, queue-stomp-transport | job rows, subscriptions; the broker's messages | emit, consume, subscribe, ack, nack | crashes, lost connections, redelivery, failing queries | row before message, result before acknowledgement |
| log: FileTarget, Loki target | two buffers, status, timers; the archive directory | write, flush, archive, dispose | timers against running writes, failures; numbers computed from the files that are there | nothing lost, repeated or reordered; archives are deleted for the limit only |
| orm: migrations (`orm/src/orm.ts`) | the migration table, what has been executed in this start | migrateUp, migrateDown | failure or death between `up()` and the row that records it; several processes | applied exactly once, recorded when applied |
| orm: transactions of the drivers | one connection, a pool, or a field that names the transaction | transaction | other queries meet a transaction; a COMMIT fails | all or nothing |
| orm: models, relation lists | dirty flags, primary key; the list and the dirty flags of its items | insert, update, archive, destroy; push, union, set, remove, sync | queries that fail; assignments and edits while one is under way | what is not stored is still dirty; sync leaves the list in the table |
| orm: query builders and compilers | the parts of a query; the relation queries and middlewares it was given | where, join, groupBy, populate, clone, then, ... | text and values are listed separately; building again what has been built | placeholders meet their values; a query compiled or awaited again is the same query |
| orm: schema builders | what has been asked of a table | create, alter, clone, drop, truncate | one call is several statements, sent at once | a resolved call has done what was asked |
| rbac: users | the user row and its metadata | ban, activate, grant, change password, authenticate, ... | each loads, changes and stores a copy | a change that was answered stands |
| rbac: sessions, login controllers | sessions with expiry in three stores | login, logout, extend, restore, save, cleanup | save, touch and restore against delete and expiry | no session after logout or expiry |
| templates-pdf | browser, server and timer per call | renderToFile | the timeout races the page, a browser dies | every resource is released once, every call ends |
| http: a route | policies, middlewares, arguments, the response | one request | anything of it fails, or fails while it reports a failure | success only after all that stands before it; every request is answered |
| fs, fs-s3, fs-ftp, http-lazy-file-uploader | files in three stores, temporary files, the job that uploads later | move, copy, append, upload, cleanup | a step of several fails, or is done and its answer is lost | nothing is lost |
| internal-logger, log | a buffer, proxies, the rules of the targets | log, bootstrap, write out | the event comes before the configuration is there | what is logged at startup is written, or still waits |
| http: server (`http/src/server.ts`) | the server of node, its connections, two timers per dispose | start, stop, dispose | connections that never end; timers of the last life | every dispose ends, with no connection left |
| configuration, configuration-db-source | the merged tree, the table of exposed values, a timer | load, set, merge, expose, poll | a load and the polls read, wait and write the same tree | a watched value follows its row |
| the rest | - | - | formatting, pure I/O, declarative metadata | - |

How they interact: everything is resolved through the di container, and connections, log targets
and file systems through PerInstanceCheck. Tasks use the mutex of orm-threading, which is a model
of the ORM; queue jobs, users and the sessions of session-provider-db are ORM rows too. Models,
relations and migrations build queries, queries are compiled and sent by a driver. The http
controllers restore sessions, call user actions and answer through templates. Loggers are resolved
by almost every class.

`PROJECT.json` lists every package under "components" with the reason where one is not modelled.

## Modules

| module | models | state and actions in the code |
|---|---|---|
| `DiContainer` | resolution in a tree of containers | `cache`, `promise` (= `resolutionPromises`), `creatingKeys` are the maps of `ContainerCache`. `Resolve` is a `resolve()` call: the synchronous walk over missing dependencies starts them all (`Launch`, whose `Started` is the least set closed under missing dependencies). `Construct`, `ResolveLate`, `Finish`, `Reject` are the continuations of a creation; `ClearCache`, `BeginDispose`, `DisposeService`, `EndDispose` the rest. |
| `SingletonStore` | abstract: per container and type a cell that is filled once and answers itself until it is cleared | what `DiContainer` implements |
| `DiContainerProofs` | theorems about `DiContainer` | |
| `DiInstanceCheck` | a PerInstanceCheck service in one container | the branches of `getOrCreate` with a resolver |
| `DiRegistry` | registering and resolving classes under a base | synchronous services, so each call is a step |
| `DiServicesProofs` | theorems about `DiInstanceCheck` and `DiRegistry` | |
| `Filters` | `Array.prototype.filter` | used by `DiRegistry`, `OrmSelect`, `OrmWrite` and `OrmSchema` |
| `FilterProofs` | lemmas about flattening and filtering a sequence, and about sets of numbers | |
| `CriticalSection` | `criticalSection` | `Call` up to the await, `Enter`/`Refused` after it, `Leave`/`LeaveFailing` |
| `OrmMutex` | the mutex in the database | one action per query; `seen` is the row the operation has read |
| `Tasks` | the `@Task` decorator; composes `OrmMutex` (EXTENDS) | `Lock` performs the acquire of `OrmMutex`, query by query |
| `JobQueue` | jobs over STOMP with an external broker | producer: `InsertRow`, `Publish`; consumer: `Load`, `Mark`, `Record`, `Ack`, ...; broker: `Deliver`, `Bury`, `Returned` |
| `LogFile` | `FileTarget` | `Write`, the two timers, `Flush`, `AppendEnds`, `DisposeFile`, the archive |
| `LogLoki` | the Loki target | `WriteEntry`, `PushTimer`, `FlushEntries`, `PushSucceeds`, `PushFails`, `DisposeLoki` |
| `LogArchive` | `FileTarget.archive()` | `ArchiveLog` computes the numbers, from the archives of a log whose extension is `.txt` (`counted`) and from none of another; the renames, compressions and deletions it starts end one by one and may fail |
| `OrmTransactions` | `transaction()` of sqlite, mysql and mssql | `Begin`, `Query` (a transaction has two), `Commit`, `Rollback` and their failures; `begun` is what the database knows, `request` the field of the mssql driver |
| `OrmMigrations` | migrateUp and migrateDown of several processes | one action per query or callback; `Dies` at any point; `holds` says whether `transaction()` of the driver holds its queries together, which that of mysql does not |
| `OrmModel` | one `ModelBase` | `Assign` through the proxy, `AttachOne` by a relation, which writes the foreign key; each call captures values when it is sent and touches the flags again when it is answered. `Insert` is called on new and on stored models (`reinsert`); `Ignored` and `TakeKey` are what becomes of an ignored one |
| `OrmRelation` | a `OneToManyRelationList` | edits of the list; update and sync query by query |
| `OrmSelect` | a select builder and its compiler | one action per method; `ToDB` yields the placeholders' values in the order of the text, and in the order they are listed; `Cloned` is what `clone()` makes of a builder, `Recursion` what a tree compiles to |
| `OrmPopulate` | a query with a relation of each kind, awaited several times | `Await` compiles, `ModelsRead` starts the relation's query, `Related` distributes its rows; the query of a tree is refused |
| `OrmQueryProofs` | theorems about `OrmRelation`, `OrmSelect`, `OrmWrite` and `OrmPopulate` | |
| `OrmInsert` | insert of a model or an array, in each `InsertBehaviour` | the statement as it is compiled; `RunInsert`, `UpdateInstead` and `IgnoreInsert` are what the database may do with it; the keys counted back from what it reports |
| `OrmWrite` | builders of INSERT, upsert, UPDATE and DELETE and their compilers in three dialects | one action per method; `WriteToDB` yields the columns, the cells of each row, the placeholders and the values listed |
| `OrmSchema` | the builders a migration uses | `Statements` is what a builder compiles to; `RunOwn` and `RunStray` run one of them, in any order, `Refused` is the first refusal; `due` is what the call asks for, computed when it is made |
| `OrmSchemaProofs` | theorems about `OrmSchema` | |
| `Sessions` | rbac sessions, three stores, the controllers that use them | one action per query of restore, save, touch, delete, logsOut, cleanup |
| `UserActions` | the actions on one user | load, change, store, metadata, emit |
| `StorageProofs` | theorems about `OrmTransactions`, `OrmMigrations`, `OrmModel`, `OrmInsert`, `Sessions` and `UserActions` | |
| `PdfRender` | `renderToFile` | one action per await; the timer and the browser are actors of their own |
| `FileStore` | copy, move, append and the upload job on a disk, S3 and FTP | `StepsOf` is the sequence of steps a call makes on the stores; `Proceeds`, `Fails`, `AnswerLost`, `Crash`, `Redelivered` are what can become of one |
| `StartupLog` | logging until the configuration is there | `ResolveLogger` is the factory of `Log`, `MakeProxy` the one `InternalLoggerProxy` that the container makes for all early loggers, `LogEntry` a call of a level method; `Bootstrap`, the event and the cache in the order of the container |
| `HttpRoute` | a request on a route of `BaseController` | one action per handler and per promise it waits for |
| `ServicesProofs` | theorems about `JobQueue`, `HttpRoute`, `LogFile`, `LogArchive` and `StartupLog` | |
| `OverlapProofs` | theorems about `CriticalSection`, `OrmMutex`, `Tasks` and `FileStore` | |
| `HttpServer` | starting and stopping the web server | `StartServer`, `StopServer`, `DisposeServer` are the calls, `GraceEnds` and `DeadlineEnds` the timers of five and ten seconds, `ServerClosed` the close event of node |
| `Configuration` | `FrameworkConfiguration` with its database source | `LoadBegins` to `LoadEnds` are `load()`, await by await; `Declare` is `@Config`, `Poll`, `PollRead`, `PollAnswered` the timer; `Config[p]` is the value of a property at its own path and under its group |
| `MC...` | instances for TLC | modules without shared state are joined by a variable `focus` that never changes: the run explores the union of their state spaces, not the product |

History variables (their comments say "history") record what happened for the properties; no guard
of a code action reads them, except the counters that carry a bound. Most modules state their types
in a definition (`TypeOK`, `ModelTypeOK`, ...); TLC checked them while the modules were written, the
runs spend their time on the other properties, and the modules with theorems prove theirs.

Definitions with "Mutant" in their comment are plausible bugs; each is used in place of the
definition that follows it to see that the property named in `PROJECT.json` notices.

## Runs

Passing runs:

- `DiSafe`: a parent and a child, a per-child service `a` built from an asynchronous shared `b`, two
  callers, one clear or dispose per container. `PromiseIsLive`: promises and marks are exactly the
  running creations. `OneCreationAtATime`, `HandedOutIsCached`,
  and `ImplementsStore`, the refinement of `SingletonStore`. Three
  constructions per type and container are enough for: the creation before a clear, the one after
  it, and the one that starts when the first has deleted the entry of the second.
- `DiLive`: one container, `a` needs `b`, whose `resolve()` asks for `d`; `EveryCallSettles`:
  every resolve settles and every dispose ends.
- `Platform`: six components, one per behaviour. Two option sets, three callers (`CacheFilledOnce`,
  `LateCallersGetTheirs`); three classes (shared, per-child, `@NewInstance`) in a parent and a child,
  three instances (`LookupsAgree`); two overlapping calls on one file name and a second one in three
  stores, with failures, lost answers, a death and a redelivered job (`NothingLost`: the content that
  was there when a call began is somewhere, unless somebody else has touched the place since). Two
  entries of two loggers, which share one proxy, while the application starts, two targets and two
  rules (`EveryEntryIsSomewhere`). The archive directory of a `.txt` or another log, with a limit of two
  and four log files: below, at and above the limit, and once more after a number was reused
  (`ArchivesKept`: what is gone was deleted for the limit; of a log that is no `.txt`, the last file is kept). Two
  requests, two session ids, a time of two lifetimes, in each store (`EndedStaysAway`).
- `LocksSafe`: four calls of a section; four processes of two tenants; four runs of a task in two
  applications, one stacking. Four processes give two of each tenant: the same-tenant and the
  cross-tenant races.
- `LocksLive`: the waits end. One callback throws synchronously here, and one task has no options.
- `Jobs`: two jobs of two classes on one channel, two consumers of the first class, two deliveries,
  one crash or lost connection. Two deliveries make the redelivery to the other consumer, one loss
  the redelivery of a message that was already handled.
- `Services`: six components, one per behaviour. A file target with three entries, buffers of two
  and two flushes or writes at a time: an entry before, in and after a flush, and the smallest
  overlap (`InOrderUnlessOverlapped`, `BufferIsFlushed`); dispose adds one flush above the bound. A
  Loki target (`ReceivedInTheEnd`). Two renderings that share one port (`EveryRenderEnds`: nothing of
  a rendering is left running). A request on a route with two policies, one middleware and three
  parameters: a form, a query parameter and a form again (`OkIsEarned`, `EveryRequestAnswered`). A
  server with two connections, two calls of dispose, any of stop and two of start
  (`ServerGoesDown`). A configuration with one exposed property, a value for its group in files, in
  a module, in both or in none, two loads, two polls that overlap and one edit of the row or one
  `set()` (`WatchedFollows`): two polls suffice for answers out of order, two loads for one that is
  under way when the timer runs.
- `Storage`: ten components, one per behaviour. Two transactions and two other queries on each driver
  (`AtomicUnlessShared`). Two processes, two migrations, three starts: a process that dies and is started
  again beside another, with transactions, with those of mysql and without (`RecordMatchesSchema`). A
  model of two columns, one a foreign key, two calls, any of them an insert of what is stored, and two
  assignments (`SavedOrDirty`; it starts with one of the values, which are alike). A relation list of two
  items, two update or sync calls (`SyncLeavesTheList`). Every program of five calls over a select
  builder, which may be of a tree (`StatementFits`, `RecompilesTheSame`). Two rows with a relation of each
  of five kinds, queried by two awaits of one query while another writes (`PopulatedExactly`; a tree only
  up to its refused query). Three inserts of one or two of two models, two at a time, in each behaviour,
  with and without keys; an ignored one is answered the key of the first row or of the third
  (`KeyNamesOwnRow`). Every program of four calls over an insert of up to two rows, an update or a delete,
  in three dialects (`WriteFits`). A schema call of up to two parts, sent twice, with one statement left
  over from the refused call (`ResolvedAsAsked`, unless three statements name one column or two modify
  it). Two of three actions on a user overlap (`EveryChangeStands`).

Violation runs (each a disagreement of the code with what the repository says of it, quoted in
"findings"):

- `SectionExclusive`: two calls that await the same promise enter together (`threading/src/index.ts:45`).
- `MutexGranted`: `acquire` updates without looking whether the row is still free
  (`orm-threading/src/index.ts:44`).
- `LogWritesAlone`: the guard of the flush timer says `&&` where its comment needs `||`
  (`FileTarget.ts:79`). `Services` also shows, by the mutant of `BufferIsFlushed`, that `||` alone
  would be worse: an archive that fails leaves `ArchiveStatus` pending, and the buffer would never
  be flushed again.
- `MigrateDown`: `migrateDown` runs `down()` of the migrations that have no row, and of no other
  (`orm/src/orm.ts:428`).

Where the code breaks the plain form of a property, the property says when it holds ("unless
shared", "unless raced", "unless overlapped"), and the exception is listed here. Disagreements seen
with these models, or while reading for them, that are not kept as runs:

di, threading, tasks, queue
- After a clear, the continuation of the old creation deletes the entry of the newer one
  (`container-cache.ts:193`), and a third creation may start beside it (against L95).
- A child and its parent each create a singleton that `decorators.ts:281` calls global
  (`container-cache.ts:109`: the walk over parents looks at caches, not at running creations).
- A service that resolves, inside its asynchronous `resolve()`, something waiting for it waits for
  itself: the look at `resolutionPromises` (L139) precedes the one at `creatingKeys` (L145). The
  instances exclude it by the choice of `Late`; `DiAssumption` only requires `Deps` to be acyclic.
- PerInstanceCheck: once one option set is cached every request with another makes one more
  instance (L125, against `enums.ts:32`); while one is pending everyone gets it, whatever the
  options (L140, against `decorators.ts:269`).
- `Array.ofType` answers its first list for ever (`container.ts:282`) and keeps instances of its own
  beside those of the classes (`container-cache.ts:168`).
- A callback of `criticalSection` that throws synchronously leaves the section rejected
  (`threading/src/index.ts:54,62`): `NeverPoisoned` needs `SyncThrow = {}`.
- `OrmMutex.delete` deletes a locked row of its tenant (L106, against `mutex.ts:85`).
- The finally block of a task names an undefined variable (`tasks/src/decorators.ts:87,94`): the
  mutex is never released, the task row stays `running` (against `__task.ts:20`) and no history is
  written (against `task.test.ts:108`). Two runs of one application overlap, since they share the
  tenant (L50, against `task.test.ts:121`).
- A job is executed again after a lost connection, and its result is overwritten
  (`queue/src/index.ts:121,127`, against `interfaces.ts:169,172`).

orm
- Transactions: sqlite refuses a BEGIN inside an open transaction while every other query joins it;
  mysql begins one connection and sends the queries, and no COMMIT, to others (`orm-mysql/src/index.ts:225`),
  and never releases the one it began; mssql keeps one `_transactionRequest` for all callers.
- Migrations: on mysql a process that dies between `up()` and its row leaves a migration applied and not
  recorded, also in the mode `PerMigration`; the `data()` functions of a migration are lost if the process
  dies between the two.
- Builders: `where(c, '!=', null)` asks for NULL; one `_boolean` per builder lets the last `orWhere`
  decide for all; an EXISTS condition is added again at each compilation and in a clone names the
  original's alias; the values of raw columns and of `groupBy` are not listed; `setAlias` gives
  the joins the alias as that of their own tables; `count()` on a clone keeps the OFFSET. The clone of a join
  shifts its arguments (`orm-sql/src/statements.ts:176-187`): that of a raw join, or of one without an
  alias, throws, any other joins the table that is called like the alias of the query. So the statement of every
  `withRecursive()`, which joins a clone with the recursion, joins `$recursive_cte$` as a table of an
  undefined name and is refused by databases (against `orm-sql/test/queryBuilder.test.ts:776`); each
  compilation joins it once more (`statements.ts:56`).
- Relations: a query awaited twice gives each relation the keys and callbacks of both awaits; `many to
  many` loses its keys (`middlewares.ts:180-195`); a tree never resolves, since its query is refused, and
  the middleware behind it would reject for a model that is no root (L129); a relation named as its target
  model is skipped (L52); `remove` of a list compares identity where its doc says primary key;
  `SingleRelation.remove` detaches its model and then calls `destroy()` of null
  (`relation-objects.ts:222`); a detached relation is written by no query, since `toSql` leaves an empty
  one out (`converters.ts:102`).
- Inserts: the answer of an insert on mysql has no key (`orm-mysql/src/index.ts:58`), so a model gets
  none, and those of an array get `NaN`;
  an ignored `InsertOrIgnore` is answered with the key sqlite gave out last, in any table
  (`orm-sqlite/src/index.ts:133`), and the model takes it (`model.ts:995`); `insert()` of a stored model
  clears its flags before the query, so what is refused or ignored is forgotten (`model.ts:618`);
  an array that mixes models with and without keys is refused; `values()` twice misplaces the rows.
- Writes: an array given to `update()` is spread over the values (`orm-sql/src/compilers.ts:369`); the
  values of a raw update stay a list within the list outside sqlite (L451); an upsert of several rows
  sets the values of the first (L449); `orReplace` says nothing outside sqlite; an UPDATE without a
  condition ends in WHERE; a column of sqlite knows no DEFAULT in VALUES; a MERGE of mssql takes its
  source from the table, so it inserts nothing.
- Schema: the statements of one call run side by side (`orm-sql/src/index.ts:19`), so of two changes of
  one column the one that runs last stands; an ALTER that
  renames the table and changes columns uses the old name; `deepClone` returns a builder that runs
  its statements once more; `trackHistory` sends `DELIMITER`, which no server accepts, and rejects
  after it has made the table; `dropTable` leaves the history table; events are written with
  minutes for months.
- Model: the delete trigger of the history reads NEW; `getOrCreate` looks and then inserts.

rbac, http, log, files
- `unban` always throws and its key matches no metadata; overlapping grants lose one
  (`actions.ts:124`), since all roles are one column.
- Sessions: the table store keeps the expiry of an existing row and counts minutes where `extend`
  counts seconds; touching a DynamoDB item that is gone makes one without data; `logsOut` of that
  store finds nothing; `UserController.refresh` changes a restored session it does not save.
- Controllers: if every policy of a route is disabled neither `next()` nor an error follows
  (`controllers.ts:238`); an error thrown there rejects a promise nobody handles (L247); the last page
  reads `this.HttpConfig`, which is not there (L143); a text response never sends an empty model
  (`responses.ts:80`); a query parameter between two form parameters makes the second wait for a
  body that was consumed (`FromQuery.ts:27`).
- FileTarget: the numbers are looked for in names that end in `.txt` (`FileTarget.ts:227-237`): an archive
  of a log with another extension is always number 1 and overwrites the one before; a compressed archive
  takes the number of archives plus one and overwrites an older one after a deletion
  (`FileTarget.ts:248`); with the archives in the log directory they are archived again.
- fs: an S3 append whose temporary file expired under it uploads the appended text alone; S3 `move` of
  a file onto itself (`fs.move` always names the destination's file system) removes what it has
  written (`fs-s3/src/index.ts:371`); FTP `append` replaces the file, `upload` keeps the local file's
  name, so a file from another store lands under its temporary name, `rm` awaits neither of its
  commands and disconnects the client (`fs-ftp/src/index.ts:281`), and two overlapping calls close the
  connection for good; S3 append and copy leave their temporary files; a local append does not
  resolve its path against `basePath`; moves f to g and g to h that race can lose f.
- Startup log: the container tells the listeners of `di.resolved.Configuration` before it caches the
  instance (`container.ts:361`), so `DI.has(Configuration)` is still false for the one that writes the
  buffer out: the entries go back to the buffer, which is then cleared (against
  `internal-logger/src/index.ts:69-72`). What is logged between the event and the cache waits until
  the process exits, as do all entries if `bootstrap()` runs then. `InternalLoggerProxy` is a singleton
  of the container (`log/src/log.ts:170`, `container-cache.ts:109`), so all loggers that were asked for
  early write under the name of the first, by the rules for that name. The level methods of the proxy, save
  `trace()`, take a message for the name of the logger; `if (!found)` of `resolveLogTargets` is never
  true, the filter returns an array.
- Server: `dispose()` of a server that does not listen rejects, also when it was stopped or disposed
  before; the timer of five seconds is never cleared (`server.ts:262`), so a server started again
  within that time, as in `http/test/memory.test.ts:122`, has its connections destroyed; `start()`
  reverses the middlewares in place and adds their `after()` handlers again; a `stop()` before the
  server listens leaves the promise of `start()` open.
- Configuration: the timer sets `Group.Slug`, while `@Config` reads the path, which is the slug alone:
  the decorated field never sees the new value (`bootstrap.ts:91`, against
  `configuration-db-source/src/types.ts:55`), and a property declared after `Orm` is not watched at all.
  If the slug has dots, `load()` keeps the row under that one key (`source.ts:66`) and the timer under a path.
  A poll puts the reference back that `load()` had replaced by the secret. `merge()` of a path that is
  not there is lost (`configuration.ts:126`), so is a `__configuration__` module whose key no source
  has (against L209-212); `mergeSource` merges nothing (L179, against
  `configuration-common/src/index.ts:88`); `load()` drops what was `set()` before, also by `resolve()` at L159.
- templates-pdf: a random port may be taken although others are free; the timeout waits for the page
  to close before it kills the browser.

## Fairness

Fairness stands for: promise jobs and `setImmediate` callbacks run (node's event loop), queries,
requests and application callbacks end one way or the other, and intervals fire. It is weak
fairness, except for a broker that delivers what it can again and again and a Loki that does not
refuse for ever, which are strong. `Jobs` assumes that one connection at most is lost (`MaxLost`):
the client does not subscribe again after a reconnect (`connection.ts:170`), so with every
connection lost a message waits for ever. `PdfFairness` covers the steps of the renderer and its
timer; the page and the browser have none, they may hang. `HttpFairness` covers the handlers and the
promises of the application's policies, middlewares and actions, `ServerFairness` the events and
timers of the server and the end of connections that were destroyed; clients may keep theirs for ever.
`ConfigFairness` covers the steps of a load and the answers of polls, and says that the query of the
timer is not refused for ever (strong). Nothing else is assumed of the
application: callers need not call, nor dispose. `Storage` has safety and action properties only.

## Proofs

`DiContainerProofs` proves for every tree of containers, every set of types, every acyclic `Deps`,
every `Late`, `Async`, `PerChild` and every bound:

- `TypeCorrect`; `PromisesAreLive`, `NoDuplicateCreation`, `AnswersFromCache`: the invariants
  `PromiseIsLive`, `OneCreationAtATime` and `HandedOutIsCached` of `DiSafe`.
- `ContainerImplementsStore`: `Spec => Store!Spec`.

None of these is inductive alone. `IInv` adds to them `NextIsFresh` (the number the next instance
gets is unused, else a launch could touch an older creation) and `CachedIsDone` (a cached instance
is finished and was made under its key, else a second `Finish` could change a cell). The argument
is one lemma per action; `Launch`, which starts an unknown set of creations at once, is first
reduced to its effect per instance and per cell (`LaunchEffect`, `LaunchOutcome`).

`OverlapProofs` proves, for every set of processes and tenants, `MutexTypeCorrect`,
`LocksMatchHolders` (`LockMatchesHolder`: a locked row has a holder, and without a race a holder has
the row) and `ExclusiveWithoutRace` (`ExclusiveUnlessRaced`). The strengthening is that a process
about to update has judged a row it was allowed to take: without a race that row is still the one
in the table. `TasksExcludeEachOther` (`AppsExcludeEachOther`) is about the composition: `TaskInv`
adds that a run which executes a task that may not stack is a holder of the mutex under the name of
its application (`RunHoldsLock`); a step of `Tasks` performs a query of `OrmMutex` or leaves the mutex
alone, so the invariants of the mutex are used, not proved again.

`ServicesProofs` proves `QueueTypeCorrect` and `QueueAcksRecorded` (`AckedIsRecorded`) from a routing
that names a connection at least. `QueueInv` adds that a consumer handles a message it listens for
and that, once it calls the callback or acknowledges, the result is written unless the job is of
another class; and that a row is there before its message.

`StorageProofs`, one part per module:

- `TxTypeCorrect`, `TxAtomic` (`AtomicUnlessShared`). `TxInv`, for the two drivers that send COMMIT on
  the connection of the transaction: a connection that began a transaction has one under way
  (`OwnsConn`), one that met no other is the only one open (`Alone`), and its rows are in that
  connection, as many as it has written (`RowsInPlace`). Of mysql, which
  commits on another connection, the property says nothing, so there is nothing to prove.
- `KeysNameTheirRows` (`KeyNamesOwnRow`). The keys that answered calls have yet to hand out are those
  of their own rows (`ClaimsOwn`), no two calls have the same one and no two models share one
  (`KeysApart`), but for keys that models brought along and those that ignored inserts were answered
  (`Doubtful`), which may be anybody's; a row that an upsert met may be `Mixed`.
- `ModelSavedOrDirty` (`SavedOrDirty`). What a call has captured is what the instance still holds but
  for what was assigned meanwhile, and an update left out only what was stored (`CallsFit`), from the
  first call on, whether the key is known or not (`KeyFollowsRow`). While calls are under way a column that
  differs from the row is dirty, or an `insert()` of the stored model that cleared it is about to
  write it (`StoredOrDirty`). The property excepts what was assigned under a running query, what such an
  insert cleared in vain, and an empty relation.
- `MigrationsMatchSchema` (`RecordMatchesSchema`). With transactions that hold (`Atomic`: not those of
  mysql) a migration is applied as often as its row and the transaction under way say (`SchemaMatches`),
  and only the process between `up()` and its commit writes (`WriterRecords`).
- `EndedSessionsStayAway` (`EndedStaysAway`). A session names the user it was made for, in the table
  and with the requests that have it (`OwnersFit`), so that what the table store may still save of an
  ended session names nobody and is refused (`EndedHarmless`).
- `UserChangesStand` (`EveryChangeStands`). An action changes a copy it has loaded, and has metadata
  left only while it stores metadata (`CopyLoaded`); a ban still has its metadata to store, or the row
  says it already (`BanStored`).

`OrmQueryProofs`, three action properties and two invariants:

- `SyncKeepsToTheList` (`SyncLeavesTheList`). `RelInv`: no two items share a key, and the key a query
  was given is that of its item or one nobody else has (`ItemKeysApart`); what an undisturbed call was to
  save is in the list and still to be saved, under way, or has its row (`Undisturbed`). It needs that
  there are finitely many items and that the table has room for those that have a row at first.
- `CompiledTwiceTheSame` (`RecompilesTheSame`). What was returned last is what the query compiles to as
  it now is (`OutIsTheQuery`): the relation it had pending is merged, and merging is done once. The
  statement of a tree has one more join each time, and the proof says that this is all that differs.
- `PopulatesExactly` (`PopulatedExactly`). A query under way asks for every key that all awaits so far
  have asked for (`AskedFor`), so the rows it is answered with miss none of them; a query that an
  earlier await restricted to other keys is the exception the property makes. A tree is never answered.
- `CompiledFits` (`StatementFits`), for any number of calls on a builder. `SelectInv` adds the types and
  `AliasTaken`: once a query has an alias, or a populated relation has one, all its conditions and
  columns have taken it, and so do those a relation brings along. Each part of the text is compared
  with the values listed for it: a condition that is filtered out of one is filtered out of the other.
  Of the joins of a clone, or of a recursion, it says that they have no values, and nothing of their tables.
- `WrittenFits` (`WriteFits`), for any columns, rows and calls; `WriteAssumption` says that the key is a
  column, and not the only one. `WriteInv` adds the types and `LaidOut`: unless `values()` was called
  again with other columns, every row has the cells of the columns of the builder, each once, and lacks
  none that it gives. From this, and because the key is left out of the columns and of every row
  alike unless some rows give one and others do not, what is compiled fits column by column.

`ServicesProofs` further:

- `HttpOkIsEarned` (`OkIsEarned`). `HttpInv`: the handler that waits has all those before it passed
  (`HandlersInTurn`), what passed the first of a route with policies has one that is enabled and was
  fulfilled (`PoliciesAsked`), and a response that reports an error does not become a success (`ErrorsShown`).
- `LogInOrder` (`InOrderUnlessOverlapped`). `FileInv` adds `OneFlush`: unless flushes overlap, one
  flush or one write is under way at most, the write has what is in the write buffer, and that is
  empty when there is none.
- `ArchivingKeepsEntries` (`ArchivesKept`). Of a `.txt` log (`counted`), without compression, the number
  of the next archive is above all others (`PlainNumbered`). With it, `ZipNumbered` relates the numbers to
  the count of archives at each stage of `archive()`, until the limit deletes one for the first time:
  after that the count is no longer above the numbers, and archives are overwritten. Of any other log only
  the last file is kept: it is the log file, or a whole archive that no deletion under way names but for
  the limit (`HasLast`, `LastInMove`).

- `StartupEntriesKept` (`EveryEntryIsSomewhere`), for all entries, loggers, targets and rules;
  `StartupAssumption` says that no entry is a logger's name, that `"none"` is neither, and that there are
  finitely many rules. `StartInv` adds that an entry nobody has logged is nowhere, that the proxy a class
  holds has a name, that `bootstrap()` is not done before the
  listeners are told, and that what waits in the buffer once they have been told is in the gap, the
  entries for which the property allows it.

`OverlapProofs` proves `FilesKept` (`NothingLost`) for any number of calls and names;
`NoFileAssumption` says that the marker `NoFile` is no call. `CallInv` consists of:

- `Apart`: a call that no other has crossed shares no place with one that may still go on, or be
  delivered again.
- `StepsLeft`: the steps a call has left are in order. Each step has a role: it fetches the content
  into the temporary file, carries it to where it lands, or delivers it there from the temporary
  file. `Ordered` says of every step that it fits those behind it (`Fits`): what is opened for
  writing is filled later, and the source is not removed before the content has landed. `StepsOf`
  puts its sequences together from pieces, and `PieceConcat` does the same for their order.
- `AllSafe`: the content is at the source, or where it was moved to; it has landed once nothing more
  is to be carried or delivered; and what is to be delivered is in the temporary file, unless that has
  expired, and still at the source.

`OwnStep` shows that a step of the call keeps the last, and `Apart` that a step of another does.

`DiServicesProofs` proves

- `SharedIsCached` (`CacheFilledOnce`) and `LateCallersServed` (`LateCallersGetTheirs`, an action
  property). The invariant `CheckInv` adds to `CacheFilledOnce` the types and `NextIsUnused`: the
  instance made next has never been offered to the cache.
- `LookupsAlwaysAgree` (`LookupsAgree`), for every tree of containers: `RegistryAssumption` says that
  the line of a container begins with it and goes on with the line of its parent. `RegistryInv` adds
  the types, `ListedOnce` (a registry lists a type once, a list has one instance of a class) and
  `ToldTheNearest`: what a caller was given is what the nearest container that has one holds.

`OrmSchemaProofs` proves `SchemaTyped` (`SchemaTypeOK`) and `SchemaCallsAsAsked` (`ResolvedAsAsked`),
for any tables, columns, column types, parts and calls; `SchemaAssumption` says that there is a column
type, and a finite set of columns that is not empty. `SchemaInv` has four small parts (a pending call
is of a builder that compiles; a statement nobody waits for is of an earlier call, or of the run a
deep clone starts by itself; triggers are never made, so a call that asks for them cannot resolve;
what is due was asked for) and `CallGoes`, how a call goes on while only its own statements run:

- An alteration (`AlterGoes`) is in step or stuck. `InStep`: what the table holds in each column is
  what it is to hold after one of the statements that name that column, and exactly those behind it
  are still to run. `Stuck`: one that is left is the last to name its column, and needs the column
  when it is gone, or the other way round, or the table has its new name already; no other statement
  can mend that, so this one will be refused. When a statement runs before an earlier one that names
  the same column (`LeftBehind`), the earlier one can only be a modification and the later one takes
  the column away: so it is stuck. This is where three statements, or two modifications, of a column
  would break the argument, and the code.
- A deep clone (`CloneGoes`) fills its table once or twice, and the second time only if the first left
  it something to fill.
- A call of one statement has run it or has not.

`OverlapProofs` also proves `SectionNeverPoisoned` (`NeverPoisoned`) from `SyncThrow = {}`, that is
for callbacks that return a promise; without it the code breaks the property, see above.

The assumptions are those the modules state by name: the numbers that bound a model are natural,
names of different kinds differ (a transaction is no query beside it, a marker such as `NoRow` is no
row, a consumer is no place of the broker), there is a session id, and what each section above
names. The bounds themselves play no part: the theorems hold for every value of them.

Induction over data is not available as a theorem with an operator as parameter. `FilterProofs`
has it for a set instead: `AllNumbers`, a set of numbers that has zero and the successor of each of its
members has all, which follows from the least number it would lack. From it come the functions that
folds are defined by (`FlatStepsExist`, `FlatStepsUnique`), what flattening does to a sequence with
one piece more (`FlattenAppend`), and what filtering keeps (`FilteredFacts`); `OrmSchemaProofs` uses it
for what a list of statements asks for.

Every safety and action property of a passing run is proved. Model-checked only: liveness under fairness
(`EveryCallSettles`, `EveryCallEnds`, `WaitEnds`, `EveryRunEnds`, `EveryJobSettles`, `BufferIsFlushed`,
`ReceivedInTheEnd`, `EveryRenderEnds`, `EveryRequestAnswered`, `ServerGoesDown`, `WatchedFollows`), for
which the prover has no rules; and the runs that show a disagreement.

## Bounds

Each bound is a guard of the action it bounds.

| bound | of |
|---|---|
| `MaxMade`, `MaxBuilt`, `MaxClears` | constructions; clears and disposals |
| `MaxDeliver`, `MaxLost` | the broker's deliveries and lost connections |
| `MaxEntries`, `MaxMessages`, `MaxWaiting`, `MaxPushes` | log entries; flushes that wait or run |
| `MaxLogFiles` | log files that are filled |
| `Last`, `MaxStarts` | migrations; starts of processes |
| `MaxAssigns`, `MaxEdits` | assignments to a model, edits of a list |
| `MaxKey`, `LastRow` | keys a table hands out |
| `StaleKeys`, `MaxSends` | the keys ignored inserts are answered, of all there are; calls of insert |
| `MaxPart`, `MaxCalls` | conditions of a query, calls on it |
| `MaxRows`, `MaxSteps` | rows of an insert, calls on an insert, update or delete |
| `Heads`, `RelRows`, `Awaits`, `MaxWrites` | rows, awaits and foreign writes around a populated query |
| `MaxParts`, `MaxSchemaCalls`, `MaxLate` | parts of a schema call, calls, statements left of a refused one |
| `MaxNow`, `MaxActions` | time of the sessions; actions on a user |
| `Middlewares`, `MaxParams` | of a route |
| `FileCalls` | calls on files |
| `MaxListens` | calls of `start()` |
| `MaxValue`, `MaxLoads` | edits of rows and calls of `set()`; calls of `load()` |
| `StartEntries`, `LoggerNames`, `LogTargets`, `Rules` | of the log at startup |

## Abstractions and what is left out

- Identity of services, entries and messages is a number or model value; layouts, SQL and JSON text
  are not modelled. A query is the values of its placeholders, a table its columns and rows.
- di: factories, constructor options, string keys and the event emitter; a creation that throws before its
  first await (`container-cache.ts:157`); `resolve()` of a base whose last type was unregistered, which
  throws since the empty list stays in the registry (`container.ts:584`). `LookupsAgree` is about what the
  classes answer, not about the first list of `Array.ofType`, see above.
- log: the date in archive names, archives of another log whose name begins alike, and archives kept
  in the log directory itself. `LogArchive` starts the next archive when the last one is over.
- queue: events are jobs without a row; `ScheduleCron` and the like are options of the broker; two
  connections are in the model but not in the instance. `onProgress` is left out, and a consumer handles one
  message at a time, where the client may hand out several.
- orm: raw columns and RETURNING of inserts; inserts of models on mysql, which get no keys; joins of a
  model by its class, and the aliases that joined tables have; conversion of the values an upsert sets, and
  upserts that throw for want of a model or columns; many-to-many and single relation lists; nesting of
  relations beyond a relation of a joined model; discriminated models and converters; what a rejected
  populate leaves in its models; indexes, foreign keys, events and column details of schemas; the
  mssql schema dialect; a tracked table has its key on one column.
- fs: between stores a file keeps its name, within one it gets a new one; the job is for a file in the
  local store; S3 replaces an object at once, a disk and FTP write it piece by piece; a local append
  takes the full path; what is left in temporary files does not matter.
- http: uploads, values of arguments, static files; a policy that rejects does so with an error
  (`undefined` would let the request pass, `controllers.ts:245`), and every named policy is registered (others
  are dropped, L195-211); a request meets at most one fault of the
  configuration.
- configuration: one load at a time; all properties are in one group and their slugs have no dots; the
  search for files, schemas, `configure()` functions; a reference whose protocol fails fails the load, and
  answers of the others that come later are dropped.
- Packages that only format, delegate or declare are listed in `PROJECT.json` with the reason.

## Plan

Twelve runs hold the project, so related modules share an MC module and later modules join one. Left:
many-to-many and single relation lists.
