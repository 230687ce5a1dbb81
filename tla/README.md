# Compox in TLA+

Compox runs image-processing algorithms as a service. A client uploads data,
asks for an execution, a training or a benchmark of a deployed algorithm, polls
the record of the task, may ask to stop it, and downloads the outputs. This
directory holds TLA+ models of the parts of that program where order, failure and
shared records decide whether it is right, the TLC configurations that check them,
and proofs that TLAPS checks.

All paths below are relative to `src/src/compox/`.

## 1. The system

### Components, their state and their operations

| component | code | state it keeps | operations that change it |
|---|---|---|---|
| task endpoints | `routers/execution_controller.py`, `routers/training_controller.py`, `routers/execution_manager.py` | none of their own; they write task records and stop requests | submit, stop, GET (reads two stores), delete one or all records |
| pool and task functions | `components/api_builder.py`, `tasks/fastapi_background_task.py`, `training/training_task_fastapi.py`, the Celery twins | the queue and threads of a `ThreadPoolExecutor` (or a Celery broker) | take a task, build its handler, run it, return |
| task handlers | `tasks/TaskHandler.py`, `training/TrainingHandler.py` | the call stack of one task, its logger sink, the acknowledged flag, the ids saved so far | each setter: read the record, write the record; `mark_as_failed`, `mark_as_stopped`, `mark_as_completed` |
| runners | `algorithm_utils/BaseRunner.py` | none shared | `run`, `run_training`, and what an algorithm calls on them |
| stop requests | `tasks/StopRequest.py` | one object per task in `stop-requests` | submit, exists, acknowledge, delete |
| emergency records | `internal/EmergencyRecordStore.py` | one file per task, a reserve file | write, delete, read, purge at startup |
| checkpoints | `training/AlgorithmCheckpoint.py`, `routers/checkpoint_controller.py` | manifest, list in the algorithm record, list in the training record, assets | register, delete |
| algorithm store | `algorithm_utils/AlgorithmDeployer.py`, `AlgorithmRecordRegistrar.py`, `AlgorithmManager.py`, `AlgorithmStorageMetrics.py`, `tasks/deploy_task_fastapi.py` | algorithm records with minor versions; modules and assets shared by content | deploy, redeploy, delete an algorithm or a minor version, refresh metrics |
| built-in import | `components/builtin_algorithm_importer.py` | the migration state, an undo journal in memory | copy, merge, roll back |
| training samples | `training/TrainingSample.py`, `routers/sample_controller.py`, `routers/file_controller.py` | manifests, reference counts in the tags of data objects | add a sample (promote its files), delete it (demote them), upload, delete and expire files |
| sessions and caches | `session/TaskSession.py`, `session/DataCache.py`, `server_utils.py`, `algorithm_utils/zip_importer.py` | in-process dictionaries, the directory of extracted modules | add, get, remove, evict, expire; fetch a runner, initialize it |
| benchmarks and deploy tasks | `tasks/BenchmarkHandler.py`, `tasks/deploy_task_fastapi.py` and their routers | the records of benchmarks and of deployments | two disciplines of their own for updates and fallbacks |
| storage connections | `database_connection/*` | the objects | put, get, delete, list, exists; retries |

The remaining parts (command line, servers, packaging, schemas, logging, typed
runners) do I/O or transform data and are not modelled; see section 5.

### How they interact

There are no transactions and no locks between these components. Everything is
a JSON object in an object store that several threads, processes and requests read
as a whole and later write as a whole. Errors travel as exceptions through several
frames, many of which do something to the record on the way. The emergency store
is a second place for the same record when the first one refuses it, and the GET
endpoints merge the two.

### What is hard here

* read-modify-write of whole records by several actors without a version check;
* exceptions that pass two to four frames, each of which marks the task as
  failed, and algorithm code that may catch them and go on;
* a stop that is itself a series of updates, any of which may fail, and that is
  noticed only between updates;
* writes that are applied although the caller was told they were not;
* records that are deleted, or whose process dies, while a task uses them;
* references between records kept by convention: an algorithm record, its
  modules and assets, its checkpoints, the training that made them, a sample and
  the counts in the tags of its files;
* dictionaries and lists that threads share, changed statement by statement;
* an import that undoes itself, and a process that dies while it does.

`PROJECT.json` lists the hazards one by one, each at its line, with the
properties that watch it or the reason why none does.

## 2. Modules

| module | what it is |
|---|---|
| `TaskStatus` | abstract: the statuses a polling client may see, and in which order |
| `TaskLifecycle` | the life of execution and training tasks: endpoints, pool, handler, primary and emergency storage, stops, faults, deletion, restart |
| `TaskLifecycle_proofs` | theorems about the records of `TaskLifecycle` |
| `TaskPromise_proofs` | `TaskLifecycle` implements `TaskStatus`, and a reported failure is final |
| `AlgorithmStore` | records of algorithms, their minor versions and the artifacts shared by content: deployment, redeployment, removal |
| `AlgorithmStore_proofs` | theorems about `AlgorithmStore` |
| `CheckpointStore` | checkpoints of one algorithm: registration, deletion, the lists in two records, and everybody else who writes those records |
| `CheckpointStore_proofs` | theorems about `CheckpointStore` |
| `TrainingSamples` | files, samples, the counts in the tags of files, expiry, and the trainings that read samples |
| `TrainingSamples_proofs` | theorems about `TrainingSamples` |
| `WorkerMemory` | what the worker threads of one process share in memory: sessions, their caches, the cache of runners, extracted modules, runners |
| `MCWorkerMemory` | `WorkerMemory` with the symmetry of its sets |
| `WorkerMemory_proofs` | theorems about `WorkerMemory` |
| `JobRecords` | the records of benchmarks and of asynchronous deployments, in the storage and in the emergency store |
| `JobRecords_proofs` | theorems about `JobRecords` |
| `BuiltinImport` | the import of bundled algorithms at startup: migration state, journal, rollback, crashes |
| `MCBuiltinImport` | `BuiltinImport` with two bundles |
| `BuiltinImport_proofs` | theorems about `BuiltinImport` |

`TaskLifecycle` is the detailed specification and `TaskStatus` what it
implements: the refinement mapping takes `status[t]` to what GET answers
(`ClientView`) and `asked` to the tasks with a posted or acknowledged stop request.

### TaskLifecycle and the code

State:

* `record[t]` is the object of task `t` in `execution-store` or
  `training-store`, `fallback[t]` its file in the emergency store. A record keeps
  the fields the properties tell apart: the status; whether progress is 1.0; whether
  the completion time is set; whether the outputs are on it; and whether it has
  every field its pydantic model requires (`readable`).
* `stopRequests` is the `stop-requests` collection, `stopping` the stop
  endpoints between their look at the status and their post.
* `handler[t]` is the worker thread: `at` is the place in the code, `field` the
  update in progress, `copy` the record it was read into, `marks` and `after` the
  frames an exception still has to pass and where it ends.

Steps. `TaskHandler._update_task_record_field` is two actions. The first half is
`_get_task_record`: look for a stop request (`ReadFindsStop`) and read
(`ReadRecord`, or `ReadFails`); the second is `_save_task_record` (`WriteRecord`
or `WriteFails`). `Follow` is the program order of these updates in
`TaskHandler.__init__`, `run`, `mark_as_completed` and `mark_as_stopped`.
`Unwind` counts how often `mark_as_failed` runs while an exception travels from
the update to the task function; `MarkRead`, `MarkPut` and `EndMark` are one such
call. `FetchAlgorithm`, `Initialize`, `Report`, `RunnerFails`, `CaughtFailure`,
`FinishWork` and `FinishWithoutCheckpoint` are what happens between the updates.
The endpoints are `PutPending`, `SubmitRejected`, `Enqueue`, `StopCheck`,
`StopSubmit`, `DeleteRecord` (which also stands for the expiry of old records), and
`Restart` is the death of the process and the purge at the next startup.

Faults. `Fault(kind)` marks every call that may misbehave: `get` (a read
raises), `refuse` (a write raises and does nothing), `unacked` (a write raises and
was applied: `put_objects` retries and gives up), `miss` (`check_objects_exist`
answers False), `broker` (the executor call raises).

Simplifications: GET is atomic although it reads two stores; the emergency
store's own file operations work; stop requests do not expire while a task runs
(they live for seven days); moving input and output data is one step that succeeds
or marks the task as failed; the updates of `log`, `session_token` and
`resolved_execution_device` are steps that change nothing a property sees, so that
everybody may interleave with them. Requests that only answer an error leave no
state behind and are left out. `delete_checkpoint` rewrites training records too;
that is the subject of `CheckpointStore`.

### AlgorithmStore and the code

State:

* `algorithms[id]` is the object of an algorithm in `algorithm-store`: its name
  (name and major version of the key), the artifacts of each minor version,
  `latest_algorithm_minor_version` and the flag `removable`. The id is the uuid made
  up by the deployment that first stored the name.
* `store` is `module-store` and `asset-store` together: both name objects by the
  hash of their content, so an artifact is its content, and a source that is
  deployed is a set of artifacts.
* `deployment[d]` is a call of `store_algorithm` with the two updates of flags that
  follow it in the endpoint and in the deploy task, and that the system tray and the
  command line without a server leave out (`EndWithoutFlags`); `removal` is the DELETE
  endpoint, which has no `await` and so keeps the event loop to itself, or a menu of
  the tray: there is one removal at a time, while deployments run in threads.

Steps. `BeginDeploy` is `find_existing_algorithm_by_name_and_major`, `CreateModule`
the build of the module, which `RefuseModule` ends if there is no Runner or the module
cannot be imported (nothing is stored by then), `StoreArtifact`
the check and put of one module or asset, `Publish` the composition of the record and
`upsert_algorithm_record` (`NewRecord` and `WithVersion` are the two functions of
the registrar, `PublishRaises` the KeyError for a record without versions), and
`ReadForFlag`, `SkipFlag`, `WriteRemovable`, `WriteExportable` the two setters.
`BeginRemoval` checks `removable` and lists the records of that name, `RemoveAtTray` lists
them without that check (`on_remove_algorithm`, `on_remove_all_algorithms`), `PlanRemoval`
collects the pairs and decides what to delete, then come `DeleteArtifact`,
`WriteWithout` and `EraseRecord`. `DeployFails` and `RemovalFails` stand for any
call that raises, and for the end of the process.

Simplifications: a listing and the reads that go with it are one step; the
check and the put of an artifact are one step, because storing the same content
twice changes nothing; artifacts are stored and deleted in any order; the metadata
of a record that no property reads is left out (a redeployment does not change it).
A removal by the tray does not overlap one by the endpoint. `delete_existing` of
`deploy_algorithm_from_folder` is a removal and then a deployment. The checkpoints of a
removed algorithm are in `CheckpointStore`.

`Overlap` chooses between operations that overlap and operations that follow each
other. Most of what the module promises needs the latter: with overlap, a deployment
finds an artifact that a removal then deletes; two first deployments store two
records of one name; two redeployments use one build number for two sources; and a
stale copy brings back what was removed. TLC shows each with `Overlap = TRUE`.

### CheckpointStore and the code

State:

* `algorithm` is the record of one algorithm: its list `checkpoints`, the
  checkpoints counted in `storage_metrics` and the flag `storage_metrics_stale`.
  `training[t]` is the object of training `t` in `training-store`: its
  `output_checkpoint_ids` and its status. Either is `NoRecord` when erased or expired.
* `manifests` is `algorithm-checkpoint-store`, `assets` the assets of checkpoints in
  `asset-store`; their ids are fresh uuids, so that no two checkpoints share any.
* `work[a]` is what actor `a` is doing: a training in its worker thread, a
  thread that deploys or answers a plain `def` endpoint, or the event loop, on which
  the asynchronous endpoints (deletion of a checkpoint, removal of an algorithm)
  run one at a time because they contain no `await`. It holds the place in the
  code and the copies of records to be written.
* `saved` are the lists `output_checkpoint_ids` of the handlers.
* `told`, `condemned`, `deleted` and `happened` are history variables that the
  properties are stated with.

Steps. `BeginSave`, `PostAssets` and `PutManifest` are `save_checkpoint` up to the
manifest; `ReadAlgorithm`, `WriteAlgorithm`, `ReadTraining` and `WriteTraining` are the
four `_add_...` and `_remove_...` methods of `AlgorithmCheckpoint`, two by two (a list
that is right already is not written); `BeginDelete`, `DeleteAssets` and
`EraseManifest` are the rest of `delete_checkpoint`. `BeginUpdate`, `ReadNothing` and
`WriteUpdate` are the setters of the handler, which write the same training record.
`BeginRemove`, `DeleteNext` and `EraseAlgorithm` are `delete_algorithm`;
`BeginRemoveVersion` and `EraseAfterVersion` are `delete_algorithm_minor_version`
for the only version. `BeginRefresh` is `load_record` with its lock (which holds off
other refreshes and nothing else), `BeginRewrite` a redeployment, a removal of another
minor version or a setter of a flag; `Count` is `calculate_metrics` and `Put` writes
the copy back. `Raises` is what must raise because an object is not there, `Fails` any
other call that raises; the handler of a training then marks it as failed (`Unwind`).

Simplifications: there is one algorithm, since checkpoints of different algorithms
share nothing; a write that raises was not applied; a stop request does not
interrupt a save (the stops are in `TaskLifecycle`); the versions of the record are
not kept; a read of several objects at the start of a job is one step; the parent
checkpoint, tags and properties of a manifest are left out. The end of the process
is a failure that no handler follows up, as after the `FAILED` update raised.

`Allowed` chooses the circumstances: jobs that overlap, one failure, expiry,
and the removal of the last version. `happened` records which occurred, so that
one run checks at the same time what holds always and what holds only without some of
them. With overlap the code loses updates, and TLC shows each loss when the hypothesis is
dropped: a checkpoint that was saved is missing from a list, an id that was deleted
comes back, a COMPLETED training is RUNNING again after a client deleted
a checkpoint.

### TrainingSamples and the code

State:

* `stored` and `tag` are the `data-store` and the tag `training_ref` of each object;
  the rule that `S3Connection.create_collections` gives to the storage expires an
  object whose tag is "0" (`MayExpire`). `samples` and `filesOf` are the manifests.
* `job` is the one request of `sample_controller` in progress: the endpoints are
  `async` without `await` on the way, so they follow each other. It visits the files in
  any order, reads a tag (`ReadTag`) and writes it (`WriteTag`) in two calls, and puts
  or deletes the manifest at the end (`Finish`). A file that is gone raises
  (`MissesFile`), any call may raise (`Fails`), and nothing is taken back (`GiveUp`).
* `training[t]` is a training from the checks of `train_algorithm` (`AcceptTraining`),
  through the wait in the queue, `get_training_dataset` (`LoadDataset`,
  `RefuseDataset`), the download of files into memory and from there into the
  `TempStore` (`Fetch`, `Save`), to the load of the dataset (`Train`).
* `uploading` are the files between `put_objects` and the tag that follows it
  (`PutFile`, `TagFile`); `PutByUrl` is an upload by a presigned URL, which sets no tag
  and replaces what is there.
* `removed`, `condemned`, `overcounted` and `undercounted` are history variables: which
  files and samples a client asked to delete, and which counts a request that was
  given up, or a second upload, has touched.

Simplifications: expiry takes no time (a file that may expire may do so at any
moment); names, hashes and contents of files are left out, as are the keys of a sample;
`Reused` bounds for which files a client uploads a second object under an old name. A
training ends (`EndTraining`) with any result: its record is in `TaskLifecycle`.

### WorkerMemory and the code

State: `sessions` is `TaskSession.data_caches` (token to number of a cache), `caches`
every `DataCache` ever made with its items and its `cache_keys`, `lock` the class
lock `TaskSession._lock`; `fetched` and `order` are the dictionary and the deque of
`algorithm_cache`, `runners` every runner made, `modules` how much of a module is in the
cache directory; `worker[w]` is the task a thread runs and its place.

Steps. `Start` is the constructor of `TaskSession`, which expires the oldest caches and
makes room. `NotFound` is a record that cannot be read. A miss of the cache of runners is `LookUp`, `NoDevice` or `Extract`
(`ZipImporter._ensure_extracted_module`, which may break off and leave a part behind),
`LoadRunner` (the check of every member of the archive, the import, the assets) or
`LoadFails`, `Enter`, `AppendRunner`, and `Limit` and `Drop` until the cache is small
enough; a hit is `LookUp`, `Touch`, `Retouch`, `Take`. Then `Initialize`, `InitRunner`,
`EndInit` are `BaseRunner.initialize` with the flag `_initializing` that makes
`__setattr__` ignore assignments. `Save`, `Pop`, `Del`, `Forget`, `Store`, `AppendKey`
are `add_item` and `remove_item` under the lock, statement by statement; `Load`,
`MoveKey`, `MoveBack`, `Get` are `DataCache.__getitem__`, which takes no lock. `Break` is
a Python error of these structures themselves. `happened` records what makes
the limits void: tasks that overlapped, a key saved twice, a break.

Simplifications: no configuration passes a memory limit and nothing calls
`clear_cache`, so both are left out. Celery workers have no sessions. A directory that
was extracted in part stays so until the process ends, as the code only looks whether it
is there. Values of items are left out.

### JobRecords and the code

State: `primary[j]` is the object in `benchmark-store` or `deploy-store`,
`emergency[j]` the file in the emergency store, `initial[b]` the one object
`initial_record` that a `BenchmarkHandler` goes on with whenever it cannot read, `at[j]`
the place in the code.

Steps. `Post` is the endpoint and `Unsent` a broker that refuses; `StartBenchmark` and
`DieAtStart` the constructor of the handler; `Work` the fetch of the algorithm and its
`benchmark()`, and where they end; `Report` the updates made meanwhile by `preprocess_base`
(status RUNNING), `inference_base` and `postprocess_base` (the log); `CaughtFailure` a method
of the handler that fails, marks the benchmark as failed and raises an exception that the
algorithm catches; `Complete` the four updates of `mark_as_completed`; `Fail`
`mark_as_failed`, which may run twice. `StartDeployment`, `Deploy`,
`CompleteDeployment` and `FailDeployment` are `deploy_task_fastapi`; the deployment itself is
`AlgorithmStore`. `BenchmarkView` and `DeploymentView` are the two GET endpoints. `Restart`
is the end of the process and the purge, which skips benchmarks. Each put is
stored, refused, stored without an answer, or refused by both stores (`Puts`); each read
may fail.

`caught` remembers the benchmarks of `CaughtFailure`. Nothing in a `BenchmarkHandler` keeps
their status: `mark_as_completed` writes COMPLETED over FAILED, and a client sees both
(an execution or training that does the same ends FAILED, since removing its log sink a
second time is an error: `CloseLog`, `FailureIsFinal`). `FinalStaysFinal` excepts FAILED, and FAILED only, for them.
How often an algorithm calls the handler has no bound.

Only the task of a job writes its record once it is posted, so a read and the write that
follows are one step. No endpoint stops a benchmark or a deployment.

### BuiltinImport and the code

State: `store` is the whole storage key by key (records, manifests, and objects by
content), `state` the object `migration-state`, `at` where the server is; `known`,
`bundle`, `left`, `todo`, `merged` and `journal` are the memory of one run of
`run_startup_migration`. `before`, `undone`, `sure` and `users` are history variables.

Steps. `StartAgain`, `Start`, `StartFails` and `Skip` are the decision what to do and
the states RUNNING and SKIPPED; `Open` the checks of the bundle; `Find` plans one
algorithm (`Plan`, `Merge` are `_import_algorithm_semantically` and
`_merge_algorithm_record`), `Copy`, `PutManifest` and `PutRecord` are its writes, each
noted in the journal first (`Put`); `Complete` writes COMPLETED; `Fail` is any read that
raises; `Undo` is one entry of `_rollback_journal`, `Report` the state FAILED; `Stop` is
the death of the process anywhere. `Deploy` is a user's deployment between two starts,
in one step, whose steps are in `AlgorithmStore`. Any write may fail, applied or not.

Simplifications: the import runs in `lifespan` before the server answers, so nobody else
writes (the command-line import is assumed to run while the server is down; its lock is
one per process); of the metadata of a record only versions and checkpoints are kept;
parents of checkpoints are acyclic, so the set of visited ones is left out; removals
by users between two imports are left out; the key of a record cannot change, since the
record found has the same name and major version.

## 3. Runs

| run | question | bounds |
|---|---|---|
| `task_queue` | does a client always see the promised statuses, and does each queued task settle, when tasks wait for each other and are stopped? | two tasks, one thread, one progress update each, no faults |
| `task_refusals` | the same for one task of either kind while storage and broker misbehave in the ways the promise survives | up to three faults of the kinds refuse, miss, broker; two updates or checkpoints |
| `task_recovery` | what may a stored record never say, with everything else going wrong? | two faults of the kinds get, unacked, miss, broker; a careless algorithm; one deletion; one restart |
| `algorithm_store` | what do deployments and removals promise when they follow each other? | two names, three deployments of two sources with a common asset, two removals, one failure, three minor versions |
| `algorithm_store_overlap` | what is left of it when they overlap? | one name, two deployments, two removals, two minor versions |
| `minor_version_shared` | are the other versions usable after one is removed? (violation) | two deployments, one removal |
| `checkpoint_store` | can what a client finds be loaded, and are lists, statuses and metrics right where they can be? | one training, one thread and the event loop, two saves, five jobs in any overlap, one failure, expiry, removal of the last version |
| `training_samples` | what are the counts in the tags worth, do trainings find their files, and are unused files reclaimed? | two files, two samples, a training, any number of failures, uploads by URL, one name used again |
| `sample_files_expire` | do the files of a sample stay as long as the sample does? (violation) | the same without failures and uploads by URL |
| `worker_memory` | what do threads that share sessions and runners do to each other? | two workers, three tasks with two uses each, two of three sessions kept, one item and one runner kept |
| `job_records` | where does the result of a benchmark or a deployment end up, and what is a client told? | one of each, an algorithm that may catch what its handler raises, six failures, one restart |
| `builtin_import` | what does the storage hold at each step of an import, of its rollback and after a crash? | two bundles, four starts, two deployments in between, two failures, a stop anywhere |

Why these bounds are enough. For `TaskLifecycle`: tasks share nothing but the pool, so two tasks and
one thread show waiting, and one task shows the rest; the longest chain of
interest is a stop whose first write fails, whose `mark_as_failed` is refused, and
whose last write fails as well, which takes three faults; a second checkpoint or
update adds no new place. For
`AlgorithmStore`: sharing needs two names or two versions and one common artifact;
a build number is used again after two deployments, a removal and a third
deployment; a lost update needs two writers. For `CheckpointStore`: every lost update
takes two overlapping jobs and a third that made the checkpoint; the longest story is
two saves, a deletion that breaks off, a second deletion and a removal, which is five
jobs. A second training would share with the first only the record of
the algorithm, which the other actors rewrite as well; the strengthened invariants
were also checked with two trainings while the proofs were made. For `TrainingSamples`: a wrong
count needs a file that two samples share and a second one at which a request breaks
off. For `WorkerMemory`: a race takes two threads, an eviction two items and two
requests, and a cache that is evicted under its user a third session; the third
task finds what the first two left. For `JobRecords`: jobs share nothing; the last write
of a benchmark that loses its record comes after five others. For `BuiltinImport`: the
second bundle has a new version, a checkpoint whose parent the first bundle brought and
an algorithm that is new; two failures are a write and a step of its rollback, and four
starts an import, a broken one, one that finds what it left, and one more. What
the bounds leave open the theorems close: most of the properties are proved for every
value of the constants.

Properties:

* `KeepsPromise`: refinement of `TaskStatus`. In particular a client never sees a
  final status change, except FAILED into STOPPED, never sees a status go back, and
  sees STOPPED only if somebody asked.
* `Settles`: a task the pool has taken ends in a final status that stays visible.
* `CompletedIsWhole`, `TerminalNeverReopens`, `FailureIsFinal`,
  `StopTakesEffect`: see the comments in the module.
* `LatestIsNewest`: the one promise of the algorithm store that survives overlap.
* `OthersStayUsable`, `PublishedWhole`, `VersionsKeepTheirSource`,
  `OtherVersionsKeepAlgorithm`, `OneRecordPerName`, `NothingLeftBehind`: what the
  algorithm store promises when operations follow each other.
* `ListedCanBeLoaded`: what a client finds in a record or in the store can be
  loaded unless its deletion has begun, whatever overlaps, fails or expires.
* `SavedIsListed`, `DeletionIsClean`, `StatusIsTheHandlers`, `MetricsAreTrue`,
  `CheckpointsGoWithAlgorithm`: what checkpoints promise when jobs follow each
  other; `DeletionIsClean` and `StatusIsTheHandlers` also with failures and expiry.
* `TagsCountSamples`, `SampleKeepsFiles`, `NewSampleIsWhole`: what the counts are worth
  while files expire and requests break off. `TrainingFindsItsFiles`: what the checks
  of `train_algorithm` are worth by the time a worker reads the files.
  `UnusedFilesExpire`: no count keeps a file for good that no sample uses, unless an
  addition was given up.
* `NothingIsStuck`: no interleaving makes an item or a runner unreachable for the
  eviction that bounds it, and no thread dies with the lock. `RunnerFits`: no thread runs
  what another one asked for, or half a module. `SerialIsExact`: without overlap no
  structure breaks and all limits hold.
* `OutcomeIsRecorded`, `FinalStaysFinal`: the result of a benchmark or a deployment is
  somewhere, and clients do not see it change, except in circumstances that the property
  names; the FAILED of a benchmark whose algorithm catches its handler's errors is one.
* `StoreIsWhole`: at every step of an import, of a rollback, and after a crash, no record
  names what is not there and no version is there twice. `ImportIsAtomic`: a rollback
  without failures restores the storage, and what the state calls completed is there.

Fairness. In `TaskLifecycle`: `WF(StartTask(t))`, the pool hands a queued task to a free
thread; `WF(Worker(t))`, the operating system runs a thread that can run, and an
algorithm makes a bounded number of updates and then returns or raises (the code
has no timeout for an algorithm that never returns, so this is an assumption on
algorithms). Clients, the storage and the process owe nothing. `Settles` is not
claimed with `get` and `unacked` faults, deletion or restart: the code does not keep
it then (a record deleted under a running task comes back as a stub the endpoint
cannot read, and the emergency record is purged by a restart). In `TrainingSamples`:
`WF` of the request in progress (it has no `await` to wait at), of the tag after a
put, and of the expiry of each file, which is the storage's rule; clients and
trainings owe nothing.

The violations are findings in `PROJECT.json`:

* `delete_algorithm_minor_version` deletes modules and assets that the other
  minor versions of the same algorithm are made of.
* `delete_sample` demotes file by file and takes nothing back when one is missing; a
  client that deletes a file, and then retries the deletion of a sample that names it,
  brings the count of another file below the number of samples that name it, and the
  storage expires that file while a sample still needs it.

Observations about the code that no run is about:

* `_build_failed_record` falls back to a stub that lacks required fields; if its write
  is refused, GET raises for that task.
* `run_training` goes on to `mark_as_completed` after it marked a training without
  checkpoints as failed; a client can read COMPLETED for a while. `FailureIsFinal` says how
  it ends.
* `delete_algorithm_minor_version`, for the last version, erases the record and leaves
  the checkpoints.
* `save_item` of a key that is there, then `remove_item`, leaves the key in `cache_keys`
  once too often; an eviction that meets it removes nothing, and the cache grows by one
  beyond `max_cache_size`, without any concurrency. `SerialIsExact` excepts it by
  `saved_again`.
* A benchmark whose write of COMPLETED is refused once, while the next write is stored,
  ends as STARTED with its results (`unsaved` in `OutcomeIsRecorded`).
* A write of COMPLETED by the import that happens although it raises, followed by a
  rollback whose write of FAILED is lost, lets the next start skip an import that was
  rolled back (`sure` in `CompletedIsImported`).
* A second upload to a known name by a presigned URL loses the count of the file
  (`undercounted`).

## 4. Proofs

`TaskLifecycle_proofs` proves for every set of tasks, pool size, set of fault
kinds and bounds:

* `TypeCorrect` and `TypesAreKept`: types. `TypeOK` is not inductive: a record is written from
  `handler[t].copy`, so `TypeInv` adds that a thread about to write holds a record
  (`CopyOK`), and that frames are counted down only while some are left (`MarksOK`).
* `StopIsTimely`: `StopTakesEffect`. The strengthening `StopInv` (`Timely`)
  says when the one update that was under way has been counted: an update is counted
  late only if the request was not seen by its read half, hence at most once without
  a fault; and a thread that writes its stop has acknowledged the request.
* `CompletedRecordsAreWhole` and `TerminalRecordsStayTerminal` from `RecordInv`
  (`RecordOK`): a copy about to be written equals the stored record or the record is
  gone; whoever is past an update of `mark_as_completed` finds what that update wrote
  on the record (`Prepared`); only a thread that has left its run sees COMPLETED;
  and a task that is still starting has an active record.

`TaskPromise_proofs` proves for every set of tasks, pool size and bounds:

* `PromiseIsKept`: the refinement `Spec => KeepsPromise` of `TaskStatus`, under the hypotheses
  `PromiseConditions`: reads of records work, no write is applied without an answer, nobody
  deletes a record of a task, no algorithm swallows errors, and no restart follows refused
  writes. Writes may be refused, stop checks may miss and the broker may fail. Each
  hypothesis is needed: drop one and TLC shows a client that is told what `TaskStatus` rules out.
  `PromiseInv` (`PromiseOK`) adds to the earlier invariants that the status of a record is the
  one of the place its thread is at or of the place before, that a fallback record is always
  FAILED and the last word on its task, and that a thread which is being stopped was asked to
  be. Then every action is a step of `TaskStatus` or leaves what the client sees alone.
* `FailuresAreFinal`: `FailureIsFinal`, provided `refuse` is not among the faults; careless
  algorithms, deletions, restarts and all other faults are allowed. `FinalInv` says where a
  marked task is and that one which has returned without its logger sink cannot end COMPLETED.

`AlgorithmStore_proofs` proves for every set of names, sources and deployments
and for every bound:

* `TypeCorrect`: types, from `TypeInv`, which says where a copy is a record and that
  a build number is counted up below the bound only.
* `LatestVersionIsNewest`, with and without overlap, from `NewestInv`: not only the
  stored records but every copy that may still be written back has its newest version
  as the latest. `NewestExists` (a set of build numbers has a greatest) rests on the
  library's theorem that strict inclusion is well-founded.
* Without overlap, `NamesAreUnique`, `RemovalSparesOthers`, `DeploymentsAreWhole`,
  `VersionsAreFixed` and `AlgorithmsWithVersionsStay`, from `SerialInv`: every copy is
  equal to the record it was read from, what is doomed is used nowhere else, and a
  deployment that is alone has stored what it no longer has to store. `SerialChange`
  sums up what may happen to a record.
* Without overlap, `RemovalsAreTidy` (`NothingLeftBehind`) from `TidyInv`: as long as nothing
  failed, what is stored is what a record names, what the deployment in progress has stored or
  what the removal in progress has still to delete, and a record without versions is about
  to be erased.

`CheckpointStore_proofs` proves for every set of trainings and threads, every bound
and every set of circumstances:

* `TypeCorrect`: types, from `TypeInv`. It adds that a job is where its purpose
  allows (`InPlace`), holds the copy it is about to write, and deletes a checkpoint
  that is condemned (`JobOK`); without the last part `deleted` could outgrow `condemned`.
* `FoundCanBeLoaded`: `ListedCanBeLoaded` with overlap, failures and expiry. `LoadInv` says that not only the
  records but every copy in the hands of a job lists safe checkpoints only, and that a
  job that saves has stored the assets before the manifest and the manifest before it
  touches a list. The argument is `SafeGrows`: nothing safe ever becomes unsafe,
  because only condemned checkpoints lose anything; so a stale copy does no harm.
* `StatusIsKept`, `DeletionLeavesNothing` and `SavedStaysListed` from `SerialInv`:
  without overlap the one job there is holds copies equal to what is stored
  (`Fresh`), or the training's record has expired in the meantime; a deletion past
  a list has its id off that list, and training records list their own checkpoints
  (`RecordsAreTheirs`), which is what a deletion that visits one record relies on.
* `MetricsStayTrue` (`MetricsAreTrue`) from `SoundInv`: what a list names is stored, except
  that the one deletion there is may have stripped it; metrics that are not stale count what
  is listed; and a job that has counted holds the list it counted.
* `CheckpointsAreRemoved` (`CheckpointsGoWithAlgorithm`) from `ClaimsInv`, the converse: what is
  stored is listed or in the hands of the one job there is, and a removal has still to
  delete exactly what is listed.

`TrainingSamples_proofs` proves for every set of files and trainings, every finite set of
samples and every set of circumstances:

* `CountsAreTrue` and `FilesAreKept` from `CountInv`: what a tag says, plus one if the
  deletion in progress has visited the file, is at least the number of samples that name
  the file, plus one if the addition in progress has; and equal to it unless an addition
  was given up. `JobInv` says that the count a request has read is still the one
  stored, and that the files it has promoted are there and may not expire. Expiry is
  harmless because a count of "0" with an exact lower bound means that there is no user.
* `NewSamplesAreWhole` from `JobInv` at the end of an addition.
* `TrainingsFindTheirFiles` from `TrainingInv`: a training's samples stay unless they are
  condemned, and what it does not hold yet is still to be fetched.
* `TypeCorrect`: types.

`WorkerMemory_proofs` proves for every number of workers, tokens, keys and requests, and
every limit:

* `NothingGetsStuck`, `RunnersFit` and `TypeCorrect` from one invariant with a predicate
  for each thread (`TaskInv`: where it is tells what it holds, and that it has the lock)
  and one for each structure (`SessionsInv`, `FetchedInv`, `KeysReach`, `RunnersReach`,
  `LockInv`). `Grows` says what a step leaves to the other threads, so that the
  predicates of the others need one argument for all steps: caches and runners are
  only added, and nobody adds an item to a cache that another one has the lock for.
* `SerialStaysExact` (`SerialIsExact`) from `SerialInv`: as long as no two tasks overlapped there is
  at most one task, and each structure is exact but for what is in its hand. The two orders repeat
  nothing (`Distinct`) and hold what is stored, less the key or the runner that is being moved,
  added or deleted (`InUse`, `Loose`), so that eviction and removal always find what they look
  for; no two tokens share a cache and there is room for the one session of the task
  (`SessionsExact`, kept by `ThereIsRoom`: the constructor of `TaskSession` leaves fewer
  caches than the limit); and a runner is initializing only inside the calls that set and
  clear it. What holds of the cache in use even after a key was saved twice is apart
  (`Found`), since the order may then name a key two times and the limit of items is void.
  The lemmas about sequences are `DistinctAppend`, `DistinctTail` and `DistinctWithout`.

`JobRecords_proofs` proves for all sets of benchmarks and deployments and every bound:

* `OutcomesAreRecorded` and `FinalStatusStays` from an invariant for each job: `Placed`
  says which places have which records; `BenchmarkInv` that a benchmark whose reads
  worked has a final record only where it wrote one, or a FAILED one that its algorithm
  caught, and is COMPLETED before its results are stored; `Runs` sums up the updates of a
  running algorithm; `DeploymentInv` that a deployment uses the emergency store only when it
  fails, and has no final record before it ends.
* `TypeCorrect`: types.

`BuiltinImport_proofs` proves for every content of the bundles and every bound:

* `TypesAreKept`: types, from `TypeInv`: the copies in the journal are such as the storage
  may hold under their key.
* `ImportsAreAtomic` (`ImportIsAtomic`). `RollbackInv` says that a sequence of storages leads from
  the storage before the import to the present one, one write for each entry of the journal (`Leads`):
  a write and its entry make the way longer by one, a step of the rollback takes the last one
  back, and neither needs a recursive definition. `ImportInv` says that an algorithm of the
  bundle is imported, still to come, or the one whose work is in hand, that this work ends with
  the put of a record which has what the bundle has, and when the state says COMPLETED.
* `StoreStaysWhole` (`StoreIsWhole`), if no two algorithms share a checkpoint (`Owners`
  is not empty). The storage is whole, and so is every storage on that way: `RollbackInv`
  again, for whole storages only; `PendingInv` says what the records and manifests still to be
  put will find there. The hypothesis is the importer's: a bundle is built
  from a storage, in which a checkpoint's id is fresh and its parent of the same algorithm, but
  nothing in the importer checks it. TLC shows what happens without: the import of the second
  algorithm that lists a checkpoint rewrites its manifest, which for a while names an algorithm
  that has no record yet.

Assumptions about `TaskLifecycle`: `KindsAssumption` and `NoRecordAssumption` only (the latter says the
value that stands for a missing object is not a record). About `AlgorithmStore`: the
same, that a source has at least one artifact (every algorithm has a module), that
the bounds are natural numbers, that `Overlap` is TRUE or FALSE and that `NoRecord` is neither a
deployment nor a removal. About `CheckpointStore`: that `NoRecord` is neither a record nor a job, that `Allowed` holds known
circumstances and that the bounds are natural numbers. About `TrainingSamples`: that the
set of samples is finite, that `Untagged` is not a number and `Nothing` neither a file nor a
job. About `WorkerMemory`: that the limits are positive (as the settings say) and `Nobody`
is not a worker, key, request or task. About `JobRecords`: that a job is of one kind,
`NoRecord` is not a record and the bounds are natural numbers. About `BuiltinImport`: that
`Nothing` is not a key, manifest or record, that the bundles hold what their types say and
repeat no version, and that the bounds are natural numbers.

Only model-checked: the liveness properties `Settles` and `UnusedFilesExpire` (liveness and
ENABLED are out of the prover's reach). Every other property of a passing run is a theorem.

## 5. What is left out, and the plan

Assumed throughout: one server process per storage, whose `async` endpoints without
`await` follow each other on the event loop; a write of one object is atomic.

Not modelled, and why:

* Packaging and export (`AlgorithmExporter`, `AlgorithmConfigSchema`, the rewriting of
  imports by `import_relativizer`, the transformation of sources by the deployer): functions
  from files to files without shared state. Schemas, settings, logging and the typed runners:
  validation and data. The command line, the servers and the tray icon: processes, downloads
  and windows; what the tray's menus do to the storage is in `AlgorithmStore`.
* The builder of bundles, which reads a storage at rest.
* Celery: the same handlers run there, and a lost `send_task` is the broker fault; the
  redelivery of tasks and the purge of the queue when a worker starts are not modelled.
* The sizes in storage metrics and `recompute_all`; presigned downloads; listing.
* The operating system under the emergency store (atomic rename, the reserve file).

Models that could follow: the queue of Celery with its purge and redelivery, composed with
`TaskLifecycle`; the export of an algorithm that is being redeployed.
