# Verification of the SciCat Globus proxy

TLA+ models of `scicat-globus-proxy`, the TLC runs that check them on small
instances, and theorems about them that TLAPS proves for every value of the
constants. Paths are relative to the repository (`src/...`); line numbers refer
to the commit beside this directory. `PROJECT.json` maps each definition to the
lines it stands for.

## 1. Inventory

The proxy is one Go process. It takes a POST for a dataset, checks the user
against SciCat, asks Globus for the transfer, creates a *job* in SciCat, and
follows the transfer with a goroutine that patches the job until the transfer
ends, marks the dataset as archivable and may create an archival job. What has
to survive the process is in SciCat; the process writes nothing to disk.

| component | code | state it keeps | operations |
|---|---|---|---|
| task pool | `internal/tasks/pool.go` | `cancelTask` (job id to cancel channel), `cancelMutex`, the worker pool and its queue | `AddTransferTask`, `CanSubmitJob`, `CancelTransferTask`, the cleanup closure |
| transfer task | `internal/tasks/task.go` | ids, archival info, the poll interval (value receivers: nothing is kept between polls) | `execute`, `updateTask`, `finishTask`, `cancelTask`, `checkTransfer` |
| SciCat job records | `internal/tasks/scicat.go`, `jobs/scicat.go` | none; the job in SciCat | create, PATCH, delete, list, get, restore |
| service user | `internal/serviceuser/serviceuser.go` | token, expiry, mutex | `CreateServiceUser`, `GetToken`, `refreshToken` |
| transfer API | `internal/api/transfer.go`, `api.go` | `addTaskMutex` | `PostTransferTask`, `DeleteTransferTask`, `checkAuthorization` and the path helpers |
| start | `cmd/api-server/main.go` | none | configuration, Globus and SciCat logins, restore, serve |
| authentication, SciCat queries | `internal/api/scicatauth.go`, `internal/scicat/` | none | user from a token, dataset from a pid |
| configuration | `internal/config/config.go` | none after the start | defaults, validation |
| templates, utilities | `internal/util/`, `internal/api/template_contexts.go` | none | template execution, `CheckProperty` |
| generated API, static routes | `api.gen.go`, `server.go`, `health.go` | none | routing, constant answers |

### Interactions

* *Shared memory.* POST handlers and the restore loop of `main` write the map
  `cancelTask` without `cancelMutex`; DELETE handlers read it and task cleanups
  delete from it under the mutex. A DELETE *sends on an unbuffered channel while
  it holds the mutex*; the task receives in the `select` of `execute`. POSTs are
  serialised by `addTaskMutex` only if the queue is bounded. Every goroutine
  calls `GetToken`, which logs in with its mutex held.
* *Calls.* Globus: submit, status, cancel. SciCat: login, jobs, datasets. Each
  may fail, with or without effect; none is retried.
* *Across restarts.* `RestoreGlobusTransferJobsFromScicat` asks SciCat for
  unfinished jobs and creates their tasks before the server listens.

### What is hard, and what makes each component correct

The hazards are listed, at their lines, in `PROJECT.json`. In short:

* *Task pool*: a DELETE meets a task in any of its states, a second DELETE, a
  cleanup, a POST. Correct: the map holds exactly the live tasks; a cancel that
  was acknowledged is final; "does not exist" is true; what `CanSubmitJob`
  promised holds until `Submit`; accepted tasks get a worker and return it; a
  restore longer than the queue ends; no DELETE blocks the pool (it does not
  hold).
* *Transfer task and job record*: the record must agree with Globus while calls
  fail, the user deletes and the process restarts. Correct: "finished" and
  "cancelled" are true; the dataset is marked and archived only after a
  success, as asked, once; a cancelled record stays so; a POST that fails leaves
  no transfer; an accepted transfer is carried through.
* *Restart*: transfers that were polled and are shown as running (code 002) are
  resumed; what is shown as running can be cancelled, but for two cases of a record
  001 that section 4 has.
* *DELETE*: several for one transfer, with and without `delete=true`, while the
  POST, the task and a restart go on. Correct: a DELETE answered 200 is carried
  out; no transfer that moves is left without somebody in charge of it.
* *Service user*: many callers find the token expired together; a login fails
  between storing the token and storing its expiry. Correct: an expired token
  is not returned from the store; logins do not overlap; every call returns.
* *Request checks and configuration*: the groups of the user, the dataset and the
  job are read from SciCat at different moments, and what the configuration
  file says passes through defaults, merging, templates and reflection before it
  judges a request. Correct: who is accepted had, while the request was served,
  the access that the file asks for; who is told to lack it, by 401 or by 500,
  lacked it; who posted a transfer may cancel it; a server that listens has
  facilities that are complete but for the collection, which nothing checks.

## 2. Modules

| module | models | checked by | proofs |
|---|---|---|---|
| `TaskPool` | goroutines of one process life around the pool | `MCTaskPool` and `pool_*.cfg` | `TaskPoolProofs` |
| `ServiceUser` | the shared token | `service_user.cfg` | `ServiceUserProofs` |
| `TransferTracking` | transfers from POST to archival job, with Globus, SciCat, failures, crash and restart | `MCTransferTracking` and `tracking_*.cfg` | `TransferTrackingProofs`, `TransferFaultProofs` |
| `TransferJob` | the abstract promise of a transfer, its job and its dataset | as property `JobPromise` of `tracking_faults` and `proxy_completes` | `TransferJobProofs` |
| `Proxy` | the composition of `TaskPool` and `TransferTracking`, with the DELETE handler in full | `MCProxy`, `proxy.cfg`, `proxy_completes.cfg` | `ProxyProofs`, `ProxyTrackingProofs` |
| `Requests` | configuration, authentication and the checks of POST and DELETE | `MCRequests`, `requests*.cfg` | `RequestsProofs` |

`TransferTracking` instantiates `TransferJob`; `Proxy` instantiates `TaskPool` and
`TransferTracking`, and is checked against `TransferJob` through the latter.
`Requests` ends where the others begin: with a POST that may go on to the queue
and a DELETE that may go on to the pool.

Operators commented *Faulty variant* are not part of any specification. Each is
a plausible bug in the operator that follows it, and substituting it makes TLC
report a violation of the property named in `PROJECT.json` under `mutants`.

### TaskPool

One goroutine step is one action; waiting is a guard. `adder[j]` is the
goroutine that adds job j (a POST or the restore loop), `task[j]` the progress
of `execute`, `queue` the pool's queue, `cancelTask`, `cancelMutex`,
`addTaskMutex` the variables of those names, `delete[d]`/`target[d]` a DELETE
handler and the job it names. `up` becomes FALSE when the Go runtime aborts.

* POST: `Admit`/`Refuse` (lock and `CanSubmitJob`), `RequestFails` or
  `AddFromRequest` (what Globus and SciCat made of it), `WriteMap`, `Submit`.
* Restore: `AddFromRestore`, one job at a time, no admission; `Serve` when done.
* Map race: an unprotected map write is two steps (enter, take effect).
  Whenever it can overlap with another access, `MapRace` lets the runtime
  abort, as it may ("concurrent map writes"); it need not. A race that the runtime
  does not notice may also lose or damage an entry; the models do not have that:
  in them the write takes effect in one step, and `MapMatchesTasks` says nothing
  of a map that was damaged below the language.
* DELETE: `RequestCancel`, `LookupFound` (which keeps `cancelMutex` for the
  send) or `LookupMissed`.
* Task: `StartTask`, `SelectCancel` (the rendezvous, which also releases the
  sender's mutex), `SelectDefault` (only if no sender waits), `PollAgain`,
  `PollEnds`, `WorkDone`, `Cleanup`.

The sleep between polls belongs to state "loop". What a poll does is in
TransferTracking; here it has only its outcomes. The pool library (pond) is
external: `MaxConcurrency` workers, a FIFO queue, and a `Submit` that blocks
while a bounded queue is full.

### ServiceUser

`issued` is SciCat's history of tokens; `token` indexes it. A login is two
steps with the mutex held: `TokenIssued` stores the token, `StoreExpiry` or
`ExpiryUnreadable` end the call; time may pass in between, so a token can be old
on arrival. `ExpiryUnreadable` leaves the new token with the old expiry, as the
code does: since a login begins only after that expiry, the pair is never used.
The clocks of proxy and SciCat are the same; a skew breaks what the properties
say and the code does nothing about it.

### TransferTracking

`globus`, `record`, `ready`, `archived` are the outside world and survive
`Crash`; `pc`, `seen`, `archive`, `delete`, `unfinished` are the process.

* POST: `RefuseRequest`, `SubmitTransfer`/`SubmitFails`, `CreateJob`,
  `StartRecord` (with their failures, which lead to `Compensate`),
  `AddTransferTask`.
* Task: `StartTask`, `HearCancel`, `CheckTransfer`, `Report` (PATCH with the
  status, `ReportRefused` if the job is gone), then `MarkReady`, `Explain`,
  `CreateArchivalJob`; on a cancel `CancelTransfer`, `RecordCancel`.
* DELETE: `RequestDelete`, `RemoveRecord` (`delete=true`).
* `Crash`, `Restart` (the list request), `RestoreJob`, `Serve`; `Transfer` is
  Globus.

`record` is the SciCat job reduced to what its status code and texts tell apart
(the comment at `Record` has the codes). A failing call costs one of `MaxFaults`
and takes effect or not. `Report` keeps a quirk of the code: the error of the
poll is overwritten by that of the PATCH, so after "998, not updated anymore"
the task goes on.

`MissingIsFalse` is about SciCat, not the proxy. The restore filters on
`jobResultObject.completed = false`, a field `JobResultObject` does not have.
With a MongoDB equality such a record is not found (`FALSE`, nothing is ever
resumed); `TRUE` stands for a SciCat that finds it, so that the code behind the
filter is exercised as well.

Simplifications. A worker is always free and a DELETE is served when the task
listens (TaskPool has queue, mutex and channel). One DELETE per transfer (Proxy
has several). Byte
and file counters are left out. A Globus cancel that returns without error has
stopped a moving transfer. A start whose login or list fails exits and leaves
no trace. Jobs with no or several datasets, which this proxy does not create,
are not there.

### TransferJob

Four variables per transfer: what Globus does (`transfer`), how the SciCat job
tells it (`told`: nothing, open, one of three endings, removed), what became of
the dataset (`dataset`: untouched, marked, archived) and what was asked for
(`wanted`). There are no goroutines, calls, failures or crashes. `TellEnd` is
the heart: an end is told once, "finished" only of a success, "cancelled" only of
a transfer that is over; `Mark` needs the story told, `Archive` the mark and the
wish. `TransferTracking` implements it under `TransferOf`, `ToldBy` and `DatasetOf`: the
record "transferring" and the "not updated anymore" of code 998, which the code
takes back, both map to `open`; the POST, a poll, an unsuccessful call, a crash
and a restart are stutters, unless they have an effect outside. It does not hold
with `MissingIsFalse`, when a restart resumes jobs whose end was told.

### Proxy

Every variable of `TaskPool` and of `TransferTracking`, once. A step of a POST, of
the restore or of a task is the conjunction of a step of each (`Submit` is
`Track!AddTransferTask` and `Pool!Submit`; `Report` is the PATCH, and the branch that
`execute` takes after it), or a step of one with the other unchanged (`WriteMap`,
`CreateRecord`). What TaskPool chooses freely, the outcome of a poll, is here
decided by the calls; what TransferTracking assumes, a free worker and a DELETE that
is heard, is here decided by the pool. `handler`, `target`, `remove` and `answer` are the
DELETE handlers: `RefuseDelete` (400, 403, 500), `RequestDelete`, `Lookup`,
`HearCancel`, `RemoveRecord`. A handler with `delete=true` goes on to remove the job
whatever became of the cancelling, as the code does. `Crash` takes the pool, the
handlers and the goroutines; `Restart` lists the jobs and gives those with a
`globusTaskId` to the restore loop. The abort of `MapRace` is one way to crash.

### Requests

`Start` reads a configuration `file` (`ReadConfig`, `Merge` with `NewFacilityConfig`,
`Valid`, `ScopesExecute`, `Parses`, `Configured`: of two facilities with one name the last
is kept) or exits. A facility has every field of `FacilityConfig`; the list of scopes
is one text. `Valid` asks for what `ReadConfigFromBytes` asks for, which is less than
what `src/README.md` calls required (section 4). A request arrives, is authenticated (`user` is the groups SciCat gives at
that moment), fetches the dataset (`dataset` is its owner group at a later
moment), is judged by `checkAuthorization` and is accepted, which creates a `job` that
belongs to the group that was fetched; a DELETE for that job is judged by
`CheckOwner`. `Regroup` and `Reown` change SciCat at any time. `held` and `owned` only
remember what user and dataset were since the request arrived, so that the
properties can say what the handler could have known. `CheckProperty` is the
reflective walk over the identity: structs, slices and strings are tagged
values, a path is the sequence of field names that capitalising its parts gives,
and a missing field is an error, another kind of value a plain no. Both become a
refusal with the same words, the error with 500 and the no with 401; the answers
are "denied" and "401" (`RefuseUser`, `Denials`).
The properties judge by `MayTransfer`, which reads the configuration file as the
documentation describes it and shares no operator with the code's path but
`ExecuteStr`. By it `profile.id` is the identity's id (`StringsAt`), which the code looks
for under the name `Id` and does not find; `RefusedIsNotEntitled` excepts the paths that
the code does not find (`PathIsFound`), and does not hold without that. In `CheckOwner`
a job has no `OwnerUser`, as the proxy creates none with one.

A template is the default `{{ .Name }}`, a fixed text, one that does not parse or
one that names an unknown field. What comes after the checks is an answer
(`Fail`, `Accept`).

## 3. Runs

| run | instance | shows |
|---|---|---|
| `pool_bounded` | 4 jobs, 2 DELETEs, 2 workers, queue 1 | `TypeOK`, `MapMatchesTasks`, `AdmittedNeverBlocks`, `AckedCancelIsFinal`, `UnknownIsTruthful`, `WedgeIsPermanent` |
| `pool_completes` | 3 jobs, 1 DELETE, 1 worker, queue 1 | `AcceptedJobsComplete`, `RestoreEnds`, `LoopHearsCancel` |
| `pool_wedge` | 2 jobs, 2 DELETEs, 1 worker, queue 0 | *violated*: `NoDeleteBlocksPool` |
| `service_user` | 2 callers, lifetimes 0..2, clock to 6, 3 logins | `TypeOK`, `OneTokenAtATime`, `StoredTokenIsValid`, `CallsReturn` |
| `tracking_faults` | 2 transfers, 1 failing call, 1 crash | `RecordIsTruthful`, `ReadyOnlyIfSucceeded`, `ReadyIsRecorded`, `ArchiveAsAsked`, `FailedPostLeavesNoTransfer`, `CancelledIsFinal`, `JobPromise` |
| `tracking_restart` | 2 transfers, 2 crashes, `MissingIsFalse` | `TypeOK`, `RecordIsTruthful`, `ReadyOnlyIfSucceeded`, `EndedIsRecorded`, `RestartResumes` |
| `tracking_poll_failed` | 1 transfer | *violated*: `PollFailedIsFinal` |
| `tracking_restart_filter` | 1 transfer, 1 crash | *violated*: `RestartResumes` |
| `proxy` | 2 transfers, 2 DELETEs, 1 worker, queue 0, 1 crash, `MissingIsFalse` | `TypeOK`, `MapMatchesTasks`, `RecordIsTruthful`, `NobodyAbandons`, `ShownIsCancellable` |
| `proxy_completes` | 2 transfers, 2 DELETEs, at most 3 of the 4 requests, 1 worker, queue 0 | `AcceptedIsCarriedThrough`, `CancelIsTold`, `JobPromise` |
| `requests` | 2 requests, 2 facilities, 2 groups, 15 files, 1 change in SciCat | `TypeOK`, `PosterMayCancel`, `AcceptedIsEntitled`, `RefusedIsNotEntitled` |
| `requests_own_rule` | 1 request, the same files | *violated*: `OwnRuleApplies` |

### Bounds

* *Pool.* Four jobs fill two workers, one queue slot and one blocked `Submit`
  of the restore; two DELETEs are needed for two cancels of one task and for one
  that waits behind another. All splits of the jobs into restored and POSTed
  ones are initial states.
* *Service user.* Three logins: one at the start, one that fails half way, one
  after it. Lifetime 0 makes a token that is old when it arrives. Two callers
  suffice for a race; the proofs are for any number.
* *Tracking.* Transfers share only the process (crash, restart, the list), so
  two show what one does to the other. One fault is where a code without retries
  goes wrong; two in one POST already defeat the compensation, which the code
  does not claim to survive (a removal of the new job by a DELETE, which makes
  its first PATCH fail, counts as one of the two). Two crashes let a resumed task be lost again.
* *Proxy.* Two transfers compete for one worker, so that one waits in the queue
  while the other runs; two DELETEs meet in one transfer. With queue 0 two POSTs
  overlap anywhere between admission and `Submit`; the bounded queue is in
  `pool_bounded`. One crash gives two lives. The run has no failing calls, which
  are in `tracking_faults`: it asks what the interleavings of pool and calls do. Every
  POST asks for archival (`MCInit`), as what it asks for meets only the properties of
  TransferTracking. 1.2 million states. The liveness run has at most three requests
  (`MaxRequests`): two POSTs and a DELETE, or a POST and two DELETEs, which then meet
  in one transfer. TLC's symmetry is not sound for liveness; `InOrder` instead fixes
  which transfer and which DELETE is the first to begin. Every behaviour is a
  renaming of one that is left, and no step that fairness obliges is cut off, as
  nothing obliges a request to begin.
* *Requests.* A POST and a DELETE for its job, or two POSTs, and one change, which
  can fall between any two of their reads. The files hold each kind of rule, of
  direction and of error once.
* The safety runs use symmetry of jobs, DELETEs or requests. Runs with liveness
  properties do not.
* `CHECK_DEADLOCK FALSE` everywhere: there are finitely many requests and clock
  ticks, after which a run is over; and a blocked pool is a state of the real
  program (`Wedged` names it).

### Fairness

* `TaskPool!Fairness`: weak fairness of the goroutines (the Go scheduler runs
  what is runnable); strong fairness where a mutex is taken (`sync.Mutex` hands
  over to a starved waiter); calls are answered. Nothing obliges a user to
  request, nor Globus to end a transfer. A worker is held for as long as its
  transfer is polled, and a transfer that Globus has failed or suspended is
  polled until a DELETE; so `AcceptedJobsComplete`, `RestoreEnds` and
  `AcceptedIsCarriedThrough` have the premise `WorkersReturn` (no task is polled for
  ever), and do not hold without it.
* `ServiceUser!FairSpec`: the same. SciCat answers every login; the HTTP client
  has no timeout, so a SciCat that never answers would block every caller.
* `Proxy!Fairness`: that of the pool for the composed steps, and a process that is
  down is started again. Nothing obliges users, Globus (`Transfer`) or crashes.
* `TransferTracking` and `Requests` have safety properties only.

## 4. Findings

Each is a violated run.

1. *A DELETE can block the pool for good* (`pool_wedge`, `pool.go:69`). If the task
   is in `finishTask`, in `cancelTask` after another DELETE, or about to clean up,
   nobody receives, the mutex stays locked, and no task can leave its worker
   (`SendToDeparted`). If the task is queued, the DELETE waits for a worker and the
   workers wait in their cleanup for the DELETE's mutex (`SendToUnstartable`).
   `WedgeIsPermanent` shows (and proves) that nothing repairs either.
2. *"Not updated anymore" is updated* (`tracking_poll_failed`, `task.go:87`).
3. *Nothing is resumed after a restart* (`tracking_restart_filter`,
   `scicat.go:209`), given that SciCat does not match a missing field.
4. *The destination is judged by the rule of the source* (`requests_own_rule`,
   `transfer.go:48`). A user with the access each facility asks for is refused, and
   one without the destination's may be accepted: `AcceptedIsEntitled` is stated for
   facilities that share one rule (`SameRule`).

Met while modelling, with a step in the models but no run of their own:

* One failing GetToken or PATCH ends a task (`task.go:110`), whereas the README of
  the repository promises continual updates. It is the exception `Trouble` of
  `AcceptedIsCarriedThrough` and the premise `MaxFaults = 0` of `EndedRecorded`.
* *Required, not checked.* `src/README.md:40-44` calls `port` and each facility's
  `Collection` required; `config.go:164-175` asks for neither. A facility without a
  collection is served, and its requests go to Globus with an empty endpoint. `TypeOK` of
  `Requests` excepts that field.
* *`profile.id`.* `src/README.md:48` lets `accessPath` be any path into the identity. The
  fields are found by capitalising the parts of the path (`util.go:14-16`), which makes
  `Id` of what is `ID`: every request to such a facility is answered 500 "you don't have
  the required access groups" (`transfer.go:172-177`), to an entitled user as well.
* *"Does not exist" of a transfer that is shown as transferring.* The record 001 has the
  status `transferring` (`scicat.go:105`) before its POST makes the channel (`pool.go:44`),
  and keeps it when a crash takes the task before its first poll. A DELETE that finds no
  channel is told that the job "does not exist or is already finished or cancelled"
  (`transfer.go:371`). These are the exceptions `TaskToCome` and `TaskLost` of
  `ShownIsCancellable`; TLC refutes it without either.
* The record that a POST writes has no `globusTaskId` before the first poll, so a
  transfer not yet polled is not resumed whatever the filter finds
  (`Proxy!SkipRecord`); and `autoArchive=false` is not stored, so a resumed transfer
  is archived: `ArchiveAsAsked` is checked and proved with `MissingIsFalse = FALSE` and
  does not hold otherwise.
* A DELETE with `delete=true` removes the job of a transfer whose task it could not
  cancel (`pool.go:76`); hence the exception in `NobodyAbandons`.
* The errors of SciCat for user and dataset have no inner error, and their text is
  asked for (`scicatauth.go:34`, `transfer.go:162`): a panic that gin answers. The
  branch for `HttpError` at `transfer.go:143` is dead.
* A user who lacks access is answered 401 (`transfer.go:181`), for which
  `openapi.yaml:112` has 403.
* The restore runs before the facilities are configured (`main.go:81`): an error in
  a template exits after tasks were resumed.

## 5. Proofs

TLAPS proves the following for all values of the constants allowed by
`PoolAssumption`, `ServiceUserAssumption`, `TrackingAssumption`,
`RequestsAssumption` and `ProxyAssumption` (natural bounds, at least one worker, `None`
distinct from jobs, DELETEs, callers and groups) and `FilesAssumption` (a
configuration file is a sequence, of any length, of facilities whose fields are
texts; `accessPath` is one of the paths that `SplitPath` has, or not given). Further
premises are in the statement of the theorem.

**TaskPoolProofs.** The properties are not inductive alone. `IInv` adds what
ties the variables together: the queue has no duplicates and holds exactly the
jobs with `task = "queued"`; a task exists only for an accepted job; the map is
exact; the holder of `cancelMutex` is exactly the DELETE in state "sending", and
its target is live; the holder of `addTaskMutex` is, for a bounded queue, the one
POST between admission and `Submit`, so that no one else appends after
`CanSubmitJob` said yes (workers only take away). Theorems: `PoolInvariant`,
`TypeCorrect`, `MapIsExact`, `AdmissionHolds`, `AckedCancelFinal`,
`UnknownTruthful`, `WedgePermanent`.

**ServiceUserProofs.** `IInv`: if a token with an expiry differs from the last
one, every login since came after that expiry (`EarlierEnded`, `LoginIsLate`);
the stored expiry is that of the last readable token (`ExpiryOfToken`,
`LastToken`). So a stored token is used only with its own expiry. Theorems:
`ServiceUserTypeCorrect`, `LoginsDoNotOverlap`, `StoredTokenValid`.

**TransferTrackingProofs.** The invariant `JobInv(j)` is per transfer. It says
that a record exists only after the submission (`SubmittedFirst`), that what a
task has seen and not yet written is still true (`SeenIsTrue`: succeeded and
failed are final in Globus), that a task gets to `finishTask` only for a
transfer that succeeded (`FinishingSucceeded`), and the properties themselves
(`TruthOf`). A step of one transfer leaves the others alone (`Same`), which
reduces `Next` to single transfers. Theorems: `TrackingTypeCorrect`,
`RecordTruthful`, `ReadySucceeded`: for any number of transfers, faults and
crashes, and whatever SciCat makes of the filter.

**TransferJobProofs.** If nothing is resumed (`NothingResumed`: the filter finds
nothing, or there is no crash), the record is where the goroutine of its transfer
left it (`RecordFits`), the dataset is marked only from `finishTask` on, and archived
only when it has returned (`StoryInv`). With it each action is a step of
`TransferJob` or a stutter under the refinement mapping: `StoryInvariant`,
`ReadyRecorded`, `ArchivedAsAsked`, `TrackingImplementsJob` (the refinement itself),
`CancelledFinal`. Any number of transfers, failing calls and crashes. The premise is
needed: a resumed job has lost what the request asked for, and may have ended
before.

**TransferFaultProofs.** What the code achieves while few calls fail. With
`MaxFaults = 0`, `Reliable(j)`: a task gets to its end behind its last record, and
what is shown as transferring (002) has a task or is about to be restored, and a record
001 has a task, or a POST that is about to add it, or has lost one of them in a crash; hence
`EndedRecorded` and, with `MissingIsFalse`, `RestartsResume`. With `MaxFaults <= 1`,
a POST that has to compensate has spent the one failure, so the cancel succeeds:
`FailedPostCompensated`. For any number of failures, `InCharge(j)`: a transfer that moves
without a POST or a task has seen a failed call, a crash or the removal of its job
(`NextInCharge`, used below).

**RequestsProofs.** The groups that judge a DELETE are among those the user held
since it arrived, which are among those since its POST arrived; the job of an
accepted POST has the group of the dataset it fetched. `RequestsInvariant` is that
bookkeeping, `PosterCancels` what follows. `ChecksInvariant` adds what a handler has
behind it at each phase (`Checked`) and where the facilities come from (`Started`).
That what they say is what the file says rests on lemmas about the operators:
`FacilityIsEntry` (of the entries of one name the service keeps the last, defaults
filled in), `CheckFinds` (the reflection says yes of exactly the strings the path
points to, and fails only on a path that does not lead to a field), `RuleDecides`. From these: `RequestsTypeCorrect`, `AcceptedEntitled`,
`RefusedNotEntitled`, for any number of requests, groups, changes and configuration
files of any length. `RequestsTypeCorrect` says of a facility that listens that each field
but the collection is filled in; `RefusedNotEntitled` is about both refusals, 401 and 500,
of facilities that share one rule whose path is found. `MaxIsGreatest` needs an induction; it is had from the library's
`WFMin`, which speaks of sets instead of predicates. The fold over a path is
unfolded for the lengths that occur (`PathOfOne`, `PathOfTwo`).

**ProxyProofs.** Each step of the composition but the crash and the restart is a
step of `TaskPool` or leaves it alone (`NextIsPoolStep`), so that the invariant of
`TaskPoolProofs` is kept (`MoveKeepsInv` cites its `NextIInv`); a crash leaves an empty
pool, and a restart one whose jobs are all still to be added. `ProxyPoolInvariant`:
the invariant of the pool holds in every life of the process. `ProxyMapExact`:
so the map of channels is exact.

**ProxyTrackingProofs.** The same for the calls. Each step of the composition but
those of a DELETE and the crash is a step of `TransferTracking`, read with
`delete[j] = "cancel"` while a DELETE sends to job j, or leaves it alone
(`NextIsTrackStep`); the DELETE's steps, several for one job, are compared directly
(`Asking`, `Hearing`, `Removing`, `DeleteEffect`). So the invariants of the tracking proofs
carry over, their step lemmas cited and not repeated:

* `ProxyInvariant` (pool, tracking, and `DeleteInv`: a DELETE names a job that was
  recorded) gives `ProxyRecordTruthful`.
* `ProxyAgreement`: `Agrees(j)` ties the two views of a request, a restored job and a
  task together, place by place, through crashes and restarts; it gives
  `ProxyTypeCorrect`.
* `ProxyAbandonsNone`, from `InCharge`: for any number of failing calls and crashes.
* `ProxyReliable` (premise `MaxFaults = 0`) gives `ProxyEndedRecorded` and, with
  `MissingIsFalse`, `ProxyShownCancellable`: what SciCat shows as transferring, by code 001
  or 002, has, once the process serves, a task in the pool and so a channel in the
  map, unless it is 001 and its POST has yet to add the task (`TaskToCome`) or a crash
  took it before the first poll (`TaskLost`). Without the premises it is false: a failing PATCH ends a task whose job goes on being shown,
  and a filter that finds nothing resumes nothing.
* `ProxyFailedPost` (premise `MaxFaults <= 1`).
* `ProxyStory` and `ProxyImplementsJob` (premise `NothingResumed`): the whole proxy
  implements `TransferJob`.

*Only model-checked.* Liveness (fairness is out of the prover's reach):
`LoopHearsCancel`, `AcceptedJobsComplete`, `RestoreEnds`, `CallsReturn`,
`AcceptedIsCarriedThrough`, `CancelIsTold`. Every invariant and every action property
of a passing run is also a theorem, those of `proxy` and `tracking_*` under the
premises named above, which the constants of their runs satisfy.

## 6. Not modelled

* Text templates beyond what section 2 says of them, status texts, byte and file
  counters, logging: formatting.
* Reading the file, YAML, what the Globus scopes say (whether their templates execute
  is `ScopesExecute`) and the Globus client's own login: they end in a started process
  or an exit, which `Start`, `Exit` and `ServiceUser!CreationFails` have.
* A data race on the map that the Go runtime does not notice (section 2, TaskPool).
* Jobs with no or several datasets in the list of the restore (`scicat.go:223`
  panics for the former): the proxy creates jobs with one.
* `GetJobCount` and `GetOrigDatablocks`: nothing calls them.
* The generated router, the static routes, `health.go`, `server.go`: no state.

What a next step would be: `ReadyOnlyIfSucceeded`, `CancelledIsFinal` and the pool's
action properties as theorems of `Proxy`, which have the same shape as those that
are there.
