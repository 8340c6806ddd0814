# Morphir MoonBit: verification project

TLA+ models of the concurrent parts of the repository, model-checked with TLC
and in part proved with TLAPS. Seven subsystems are covered:

1. the **worker session**: the conversation of a host with an extension worker,
   its driver, and the channel that stops the worker's process tree;
2. **executions**: the receipts of an execution, the host's owner of
   executions, and the page that submits, observes, cancels, resumes and
   releases them over a network that loses replies;
3. the **native service** of the workbench: queue, worker processes, close and
   shutdown around the owner of executions;
4. **publication** of generated directories: stage, replace, roll back, with
   failures and crashes;
5. **editing of a workspace folder**: the page's client, the host's grants and
   transfers, and everyone else who writes the folder;
6. **transfer of generated artifacts**: one attempt of a page that has files
   generated, reads and verifies them and gives the generation back;
7. **metadata sessions**: the sessions that an execution acquires and disposes,
   and the helper processes that restore metadata for them.

Paths below are relative to the repository.

## 1. Inventory

| Component | State it keeps | Operations | Hard behaviour | What makes it correct |
|---|---|---|---|---|
| Session state machine (`pkgs/morphir-host/worker/session.mbt`, `wire.mbt`) | phase, next request ID, refusal, whether an operation is left | probe, activate, call, close, on(event), transport_fault | refusals overtaken by faults, early and duplicate replies | a fixed message order, one operation, refusals are reported |
| Session driver (`worker/host_driver.mbt`) | `conversation`, `busy`, `report`, the stop signal, the deadline | start, probe, activate, with_session, compile/generate, close, cancel | cooperative tasks, cancellation at every suspension point, protected cleanup | no worker left behind, one report, no write after a stop |
| Process channel (`worker/process/native/channel.mbt`) | the process tree, the first `stop`, a lock | send, receive, close with grace, abort | several tasks stop the same tree | the first stop stands |
| Receipts (`pkgs/morphir-execution/executions/executions.mbt`) | a cursor: identity, evidence, connection | start, observe, disconnect, reconnect, cancel_action | replayed, stale, conflicting receipts | evidence only moves forward |
| Execution owner (`pkgs/morphir-engine/execution/executions`) | executions by identity, reserved bytes, next identity | submit, submit_scheme, claim, claim_scheme, replan_scheme, cancel, complete, query, release | a validator that re-enters the owner between check and commit | quotas, plans handed out once, one history of receipts |
| Workbench client core and boundary (`pkgs/morphir-engine/execution/workbench`) | the cursor, the accepted selections | start, observe, disconnect, reconnect; dispatch of host requests | the limit of accepted executions | it can start what the host accepted |
| Host execution client (`pkgs/morphir-host/execution-client/client.mts`) | flags `active`, `polling`, `reconciliation`, `releasePending`, `uncertainSubmission`, `cancelOnSubmit`, `suspended`, `generation`, `cancelling` | initialize, execute, poll, cancel, resume, release | lost replies, timeouts, late answers, clicks at any await | nothing submitted twice, nothing forgotten, calls end |
| Native workbench service (`pkgs/morphir-workbench-native/service.mbt`) | records, queue, two active workers, `closed`, `uncertain` | request, apply, drain, run, complete, close, shutdown | answers that are applied after a close, a cancellation that meets a run, unconfirmed exits | every accepted execution ends once, with what its worker returned; shutdown leaves no process |
| Native files (`workspace/transfer.mbt`, `write.mbt`, `filesystem.c`, `bridge/files.mbt`; the page's `browser/workspace-files.ts`) | grants, transfers, the picker, dialogs; per grant a baseline, a revision and a sequence; the lock directory with its backups | choose, snapshot, read, begin, write, commit, status, release, revoke, close; verify, set aside, install, clean, roll back | late and timed out requests, a picker that outlives its session, other programs that write between two steps of an edit, rollbacks that fail | no lost update, reports of saves are true, backups stay until they are not needed |
| Host publication (`pkgs/morphir-host/filesystem.mbt`, `content.mbt`, `verification.mbt`) | a lock directory, staged and saved directories | begin, stage, commit, abort | failures between renames, failed rollback, crashes | a destination is whole, no content is lost |
| Artifact transfer (`pkgs/morphir-host/artifact-client`) | `#resource`, `#nextId`, the abort signal, the state of the channel | run, cancel, exchange, receive, close | cancellation at any await, late connections, stale replies, timeouts | only verified and released files are returned, the generation is given back |
| Metadata sessions (`pkgs/morphir-host/metadata_sessions.mbt`, `metadata_process.mbt`; `apps/morphir/build-provider/metadata.mts`, `supervision.mts`) | the manager's state with its cleanups, slots, per session its state and `quiescence`; receipts on disk | begin, acquire, dispose, retry; snapshot, exchange; spawn, killTree | callbacks that call the host again, helpers that are lost, descendants that outlive the service, disposals that fail halfway | nothing leaks, no scratch is removed under a live process, a failed cleanup stops publication and can be repaired |
| Engine, IR, typing, Scheme, SDK, front and back ends, codecs | none across calls | pure functions | size of the data | not modelled: no control to interleave |
| Applications and scripts | user interface | | | not modelled |

`PROJECT.json` lists every component with its status, and under `hazards`
every place at which this code is hard to test.

How they interact. A host task drives a `Conversation` over a channel: each step
writes at most one message and then awaits one event; the worker answers over
its stdout. A session is shared by the tasks of its caller; `busy` serialises
them. A page and the host talk in requests and replies: the page's client keeps
its own `Cursor` of the execution that it submitted, the host's owner keeps the
authoritative one, and both use the same `observe`. The host's worker claims a
plan from the owner and completes it later. The native service is such a host:
its requests reach the owner through a mediator whose answers it applies to its
records afterwards, and its runs claim and complete. The other four subsystems
stand alone: publishers meet on the file system, the page and its file owner in
requests that may be late, a transfer attempt and its host over one socket, and
a metadata session and its helper in a directory and an exit.

## 2. Modules

    Conversation            SessionOrder        (abstract: the order of messages)
         |                       |
    WorkerSession  --refines-----+
         |
    MCWorkerSession -- MCUnsolicited

    Receipts                ExecutionLifecycle  (abstract: one identity's life)
         |                       |
    ExecutionOwner --refines-----+
         |
         +-- MCExecutionOwner
         +-- ExecutionClient -- MCExecutionClient
         +-- NativeService -- MCNativeService

    Publication --refines--> PublishedContent  (abstract: what is at a destination)
    ArtifactTransfer --refines--> ArtifactDelivery  (abstract: a generation, and
         |                                           what the caller gets)
    MCArtifactTransfer

    FolderEdit -- WorkspaceFiles -- MCWorkspaceFiles

    MetadataHelper -- MetadataSessions -- MCMetadataSessions

Proofs are in the modules named `<module>_proofs`, of `WorkerSession` (with the
lemmas about `Conversation`), `ExecutionOwner`, `ExecutionClient`,
`NativeService`, `Publication`, `ArtifactTransfer`, `MetadataSessions` and
`WorkspaceFiles` (with its `FolderEdit`). Operators whose comment starts with "Fault:" are not
part of any specification. Each is the form that a definition would have with a
plausible bug; `PROJECT.json` ("mutants") says which property each one breaks.

### Conversation

The pure state machine of `session.mbt`: `probe`, `activate`, `call`, `close`
and `on` take a conversation and give `[conv, step]`, as in the code. A step has
at most one message and then either awaits a reply, hands a result to the
caller, or concludes with an ending. Bodies of replies are `accept`, `reject`
and `malformed`: the classes of checks that lead to different steps.

### WorkerSession

One action is what a task runs between two suspension points; `pc[t]` names the
point (the list is at the head of the module).

| Code | Model |
|---|---|
| `Host::start`, `probe`, `activate` | `Start`, `StartFails`, `OpenerSettles` |
| `Running::drive_steps`, `send_all`, `next_event`, `race` | `Drive`, `Send`, `Receive`, `SendFails`, `ReceiveFails`, `Interrupt` |
| `Session::compile`/`generate`, `run`, `finish` | `Call`, `Pause`, `Settle` |
| `Session::close`, `cancel`; `Host::with_session` | `StartClose`, `Close`, `SessionCancel`, `BodyReturns`, `CancelBody` |
| `ProcessChannel::close`, `abort`, `finish`, `finish_now` | `GraceEnds`, `Abort`, `TakeLock`, `Kill` |
| cancellation of a task at each suspension point | `CancelDrive`, `CancelWait`, `CancelGrace`, `CancelFinish`, `Raise` |
| the worker, the deadline, the caller's stop | `WorkerWrites`, `WorkerExits`, `Expire`, `RequestStop` |

The worker is free: it writes any message of `Messages` at any time, or exits.
`wire`, `accepted` and `overrun` are history variables for the properties.

### Receipts, ExecutionOwner, ExecutionLifecycle

`Receipts` gives the cursor: `Disposition` is the decision of `observe`.
`ExecutionOwner` has one action per method of `Session`. Its callers serialise
their access, so a method is one step, except that a submission with a
projection validator is `Propose` (the check, the candidate, the call of the
validator) and then `Publish` or `Withdraw`. Between them the validator may
call any method, another submission included: `proposals` is that call stack.
A work abstracts a unit with its suite, and the policy; its size is a constant.
`handed` and `published` are history: what claims and receipts were returned.
`ExecutionLifecycle` is what one identity promises; `life` is the mapping.

### ExecutionClient

The page of `client.mts` with its MoonBit core, over an `ExecutionOwner`. Each
call of execute, cancel and resume is a task, and one action is the code between
two awaits. `wire[t]` holds the request that the task awaits, or its reply.

| Code | Model |
|---|---|
| `execute` | `Execute`, `ReleaseFirst`, `Submitted`, `Begin` |
| `poll` | `Poll`, `Observe`, `Paused`, `Queried`, `Finish` |
| `cancel` | `CancelLater`, `CancelNow`, `Cancelled` |
| `resume` | `Resume`, `Authenticated`, `Settle` |
| `release` | `Freed`, `Settled` |
| `command`, `disconnected` | `Observed`, `disconnected` |
| the core's `start`, `observe`, `reconnect` | `Starts`, `Started`, `Admitted`, `reconnect` |
| boundary `submit`, `query`, `cancel`, `release`; `claim`, `complete` | `HostSubmits` ... `HostReleases`; `Worker` |

Loss and timeouts: an await may at any time resume with `Unheard`, at most
`MaxLosses` times; the request it gave up stays on the wire, and the host may serve it later, or never. The two
awaits at the start of `resume` (authenticate, descriptor) are one, as the code
between them changes nothing. The page is taken to have an `authenticate`
callback. `result` is the outcome of the cursor's evidence.

### NativeService

Extends `ExecutionOwner`: every step makes at most one call that changes the
owner. A request is sent through the mediator (`RequestSubmit`, `RequestOn`),
answered by the owner (`AnswerSubmit`, `AnswerCancel`, `AnswerRelease`), and its
answer is applied to the records (`Applied`) or lost (`Abandon`); anything else
may happen in between.

| Code | Model |
|---|---|
| `Service::request_with`, `native_request_with` | `Ask`, `RequestSubmit`, `RequestOn`, `Applied`, `Abandon` |
| the mediator, `dispatch.mbt` | `AnswerSubmit`, `AnswerCancel`, `AnswerRelease` |
| `Service::apply` | `ApplySubmit`, `ApplyCancel`, `ApplyRelease` |
| `Service::drain`, `run` | `Drain`, `SkipRun`, `BeginRun`, `FailRun`, `StartChild`, `FaultyChild`, `CaptureFrame`, `ExitChild`, `LoseChild`, `FinishRun`, `EndRun` |
| `Service::complete`, `Record::stop` | `CompleteExecution`, `Recorded`, `Stop` |
| `Service::close`, `shutdown` | `Close`, `CloseRecord`, `BeginShutdown`, `EndShutdown` |

What the model makes visible and no property forbids: once `uncertain` is set,
`drain` starts nothing more, but a run that it had already spawned may still
claim and start a child; a submission whose answer is applied after `close` is
queued, and ends only if `close` is called again; and a request that is
abandoned after the owner accepted it leaves an execution without a record.
`AcceptedEnds` is therefore about records of an open service.

### Publication, PublishedContent

One action per call of the file system. `place`, `staged` and `saved` say which
content is where: a content is who wrote it and which of its files are there.
`Undo` and `UndoFails` are the move back of the old directory after a failed
replacement; the second leaves `saved` and the lock. `Crash` ends a process
between any two calls and `Recover` is the recovery by hand that a lock left
behind asks for. `PublishedContent` promises that a destination goes from one
whole content to another: its content is what is in place, or else its backup.

### FolderEdit, WorkspaceFiles

In `WorkspaceFiles`, `client[g]`, `saves[d]` and `chooser` are the page;
`grant[g]`, `service` and `open` the host; `net` the requests between them. A
step of the page is the code between two awaits. A request is handled in one
step (`Accepts` is the checks of `FileService::request`, the `Handle...` actions
its branches), except that the folder picker is open between `BeginChoose` and
`Choose`, `Dismiss` or `CannotOpen`, and that a commit goes on from `StartCommit`
to `CommitDenied`, `CommitUncertain` or `Save`. The commit is a synchronous call,
so the host handles nothing else meanwhile (`HostStep`); the page goes on, and so
do other programs. A request that timed out may still be handled, and out of
order.

`FolderEdit` is the folder and what a commit does to it. `disk` is what has each
name, `aside` what is in the lock directory, `recovery` whether that directory
was left, `edit` the edit in progress. Its steps are one file's turn in a stage:

| Stage | Code | Step |
|---|---|---|
| Compare | `transfer.mbt:276-280`, `WriteRoot::snapshot` | `Compare` |
| Verify | `filesystem.c:392-417`: lock, preflight, staged files | `Verify` |
| Swap | `filesystem.c:418-452`: check and rename away, verify, rename in | `SetAside`, `Install` |
| Clean | `filesystem.c:453-460`: backups, manifest, lock | `Clean` |
| ReadBack | `transfer.mbt:282-287` | `ReadBack` |
| Undo | `filesystem.c:463-466`: what was installed, two calls | `CheckInstalled`, `Unlink` |
| Restore | `filesystem.c:467-472`: what was set aside | `Restore` |

`GiveUp` is a step before Clean that fails or finds a file changed, and leads to
the rollback; `NotUndone` and a `failed` that becomes TRUE are steps of the
rollback that fail, after which it goes on with the next file. `EndsRejected`,
`EndsUncertain` and `EndsSaved` are the three classes of results of
`write_check` and `apply_with`. `WriteOutside` comes between any two steps. A
snapshot for the page is one step, but reads each file before or after what
other programs write meanwhile (`Readable`).

A lock that was left stays, as the documentation asks to recover by hand
(`workspace/README.md:53-57`). While it is there a snapshot and a commit are
`Rejected` with effect none (`filesystem.c:345`, `write.mbt:131`). `SnapshotUncertain`
and the end of a commit can leave it, when the unlock itself fails.

Abstracted: a file is a path with one of a few versions, and a check of identity
or bytes compares versions. A directory that the edit removes is verified, moved
and restored like a file, and is one of the `Files`. Left out are the order of
the files in a stage (any order is taken), the directories made for new files,
the staged files and the manifest below the lock directory, and programs that
write below the lock directory or through a descriptor of a file that was moved.

`NoLostUpdate` exempts the file that a rollback has checked and is about to
unlink: `filesystem.c:466` checks that it is the one that was installed and then
unlinks it by name, so that what another program writes between these two calls
is removed, and the commit may still end as refused without effect. This is the
only step of an edit that can lose such a version (the application's README says,
at line 667, that a conflicting external edit is retained on disk). After the host has ended a session it refuses a status
query with effect none (`files.mbt:106`) even when the commit was written
(`workspace-files.ts:120` then reports that nothing was saved): `ReportsAreTrue`
is stated while the session is open. The repeated commit of
`transfer.mbt:250-252` is never sent by this client, and the read-only choice is
not modelled.

### ArtifactTransfer, ArtifactDelivery

`at` is the await at which `run()` is, `resource` is `#resource` with the
cleanup it ended in, `channel`, `waiter` and `answer` are the socket and its
pending exchange. Settling an exchange, the `finally` of `#exchange`
(`Restore`) and the continuation of `run()` are separate steps, so that a
cancellation comes between any two of them. The phase `releasing` that the page
displays is not told apart.

| Code | Model |
|---|---|
| `openArtifactChannel` | `Start`, `Open`, `OpenFails`, `Connected`, `ConnectFails` |
| `ArtifactRpcChannel` | `Exchange`, `Receive`, `ExchangeTimesOut`, `Disconnect`, `CloseChannel` |
| `run()` | `Initialized`, `Generated`, `Received`, `Hash`, `Verified`, `Publish`, `Fail`, `Finish` |
| `#cleanup`, `cancel()` | `Cleanup`, `SendRelease`, `FinishRelease`, `Cancel`, `CancelReturns` |
| the decoders | `IsManifest`, `IsFailure`, `IsChunk`, `IsAcknowledgement` |

The host is external: it answers in order, keeps one generation per connection
until it is released or the connection ends, and commits up to `MaxFaults`
faults: it refuses, sends other bytes or the bytes of another read, repeats any
earlier reply, or sends what is no reply. A chunk is its place and whether its
bytes are those that the manifest's digest is of. A cancellation during the
setup answers `not-connected`; when the connection opens all the same, `run()`
owns and closes it and ends with `unknown-retention` (`TruthfulCleanup`).
`ArtifactDelivery` promises that the files reach the caller only after the host
gave the generation back, and that the caller is answered once. That the host has given a
generation back is what its acknowledgement says: the host is not in this
repository.

### MetadataHelper, MetadataSessions

The host is one thread, and `frames` is its stack: executions, acquisitions,
exchanges, disposals, callbacks of an embedding, publications. Where the engine,
an embedding's callback, a publisher or the host's caller has the thread
(`Guest`), it may begin an execution, acquire, or retry a cleanup; calls that the
host refuses change nothing. The observers that a process session reports to are
not among them. The
helpers are processes beside it: `helper`, `group` and `receipt` per exchange.

| Code | Model |
|---|---|
| `MetadataSessions::begin`, `acquire` | `Begin`, `Acquire`, `AcquireReturns`, `AcquireRaises` |
| `MetadataSessions::dispose`, `Host::dispose_metadata_sessions` | `Finish`, `Retry`, `DisposeNext`, `CleanupEnds`, `DisposeEnds` |
| `run_content` around them | `Begin`, `Finish`, `Publish`, `RunReturns` |
| `metadata_process_session`: snapshot, exchange | `Restore`, `Launch`, `Answer` |
| its dispose, `metadata_dispose_tree` | `DisposeProcess`, `Removes` |
| `metadata.mts` | `Start`, `Refuse`, `Report`; `Lose` is the host's time limit or a crash |
| `supervise`, `killTree` | `Spawn`, `Stop`, `Reclaim`, `Confirm`, `GiveUp` |
| the service and what it started | `Exit`, `Die` |

A removal that fails removes any part of the directory, receipts included: a
retry relies on the confirmation that the session remembers. `published` and
`proven` are history. What no property forbids, as it is the code's intent: when
the end of a service was never confirmed, its scratch stays and the host refuses
to execute until it is replaced.

## 3. Runs

| Run | Instance | Shows |
|---|---|---|
| `shared_session` | a session from activate, 2 calls, 2 closes, any reply ID | LockStep, QuietAfterInterrupt, FirstStopStands |
| `faulty_worker` | probe or activate, 1 call, 1 close, rejections, malformed and oversized frames, transport failures | CleanMeansAnswered, NoOrphan, RefusalStands, refinement of SessionOrder |
| `with_session_ends` | the scoped owner and a call, with fairness | InductiveInv, EveryTaskFinishes, ScopedSessionEnds |
| `early_reply` | a worker that answers ahead | a violation, see Findings |
| `execution_owner` | 3 identities, 2 slots, 6 units of space, validators nested twice | OwnerInv (with WithinQuota and ReceiptsAgree), ReservedIsSum, HandedOnce, refinement of ExecutionLifecycle |
| `lossy_page` | policies, 3 evaluations, core limit of 2, 1 cancellation, 1 resumption, 2 failed awaits (1.1M states) | PageInv (ClientTypeOK and OneObserver), NothingForgotten, ReturnsEvidence, CancelKept, StartsWhatIsAccepted, ViewAdvances |
| `page_calls_end` | no policies, 2 evaluations, 1 cancellation, 1 resumption, a work that the host rejects, 1 failed await, with fairness (97K states) | StaysConnected, EvaluationReturns, CallsEnd |
| `native_service` | 2 executions on 1 worker, one caller that submits, cancels and releases, with fairness (185K states) | ServiceInv, ReturnedSurvives, AcceptedEnds |
| `publication` | a replacing and a creating publisher, 2 destinations, 2 files, any failure and crash (60K states) | PublicationInv, refinement of PublishedContent |
| `workspace_files` | a folder with 2 files, 2 drafts that each replace one and remove the other, 2 chunks, 1 setback; 2 selections of the folder, or 1 and a program that writes any file at any step (984K states) | FilesInv (FilesTypeOK, InStep and BackupsTold), ReportsAreTrue, NoLostUpdate |
| `artifact_transfer` | no file or 2 files in 3 reads, 2 faults of the host, with fairness (244K states) | TransferInv, refinement of ArtifactDelivery, GivesBack, RunEnds |
| `metadata_sessions` | a process session and an embedded one, 2 executions, 3 acquisitions, 1 failed disposal, with fairness (216K states) | SessionsInv (NothingLeaks, ReverseOrder, SlotsAreLive), RemovesQuietScratch, PublishesAfterCleanup, CallsReturn, CleanupCompletes |

Each property is stated in words before its definition.

### Bounds

- `MaxOutput = 3`: a complete session has three replies (initialize, operation,
  shutdown), so every phase can be reached and, with wrong IDs, be disturbed.
- Two callers and two closers: the mutex, the second call and the second close.
  More tasks only repeat these roles. The faulty run has one of each, since its
  point is the alphabet of the worker and not the race.
- `LastNext` stands for 2147483647. With 4 there are three identities: one kept,
  one released or claimed, one that a re-entrant validator takes.
- `max_executions = 2`, `max_bytes = 6` with sizes 4 and 2: two large units do
  not fit, a third small one would but for the slots, so each limit is hit alone;
  a small one can be replanned next to itself. `MaxDepth = 2`: an overtaken submission may itself
  overtake another.
- In the page's runs the owner could keep two executions, though the page must
  never need more than one: `NothingForgotten` would see a second. In
  `lossy_page` the third evaluation meets the core's limit. Two failed awaits
  are the lost reply to a request and the failure of what the page does about
  it. In `page_calls_end` a late answer of one execution meets the next, the
  host rejects a work that is too large for it, and one failed await is enough
  to suspend the page in each of its calls. Two evaluations without policies
  also kept the invariants when any number of awaits fail.
- `native_service`: one worker instead of two, so that the second execution
  waits in the queue; one execution can be in each stage of a run while the
  other is in any. One caller's request is under way among the runs, the close
  and the shutdown; with two callers, one that cancels and one that releases,
  the invariants also held (1.0M states), and they are proved for any number.
  `Large` and `Other` are empty: that an outcome that is too large, or is
  evidence of another call, is replaced is covered by the proof alone.
- `publication`: the second destination fails after the first was committed,
  and the second publisher tries at any point of the first's task.
- `workspace_files`: a failure can come before, between and after the turns of
  two files. A draft replaces one and removes the other, and a file that another
  program makes again comes in the way of both. The folder is open under two
  grants at once, so that a save on one makes the other's baseline stale; two
  chunks are a transfer that can be half done; one setback is a request that is
  late, as the client blocks a grant after it. The constraint `Sparse` of the
  instance bounds what happens together: with two selections no other program
  writes, and after a setback none of the two is being revoked. A draft that makes
  a new file (one file replaced, one removed, one made, and programs that also
  remove files, 1.8M states) and two selections of a folder with one file with
  nothing excluded but other programs (835K states, the two invariants) also
  passed; everything together is covered by the proof.
- `artifact_transfer`: two files of which one takes two reads have each kind of
  neighbouring read, and a set without files has none. One fault disturbs an
  answer, the second the release or the read after it.
- `metadata_sessions`: three sessions in two executions are two of one execution
  and one of a nested or a later one. With a failure, and a helper that is lost,
  a pass of disposal fails for both of its sessions, or a retry fails again. The
  safety properties also held with two failures (369K states).
- `Outcomes` has one or two values: a second completion that repeats the first
  and one that contradicts it. `Foreign` outcomes are those of other calls.

`CHECK_DEADLOCK FALSE` is used in all runs but those of the worker session: an
owner whose executions were all released and whose identities ran out, a page
whose calls are all over, publishers that are done, and a host whose executions
ended rightly stop.

### Fairness

- Worker session: weak fairness of each task (the runtime schedules ready
  tasks), of the body of `with_session` returning, and of the deadline passing.
  Nothing is assumed of the worker. `EveryTaskFinishes` therefore depends on the
  deadline, as in the code, where each read and write races it.
- Page: weak fairness of each task after its first step (an await ends: the
  transport times out, the pause is a timer), of the host's answer, and of the
  host's worker completing. Without the last a page would rightly poll for
  ever. No fairness is assumed of the user's calls.
- Native service: weak fairness of the steps of its event loop (`LoopStep`): it
  continues what is settled, and a child's time is limited. Nothing makes a
  caller ask, or an exit be confirmed.
- Artifact transfer: weak fairness of what the event loop continues, of the
  timeouts of the connection and of an exchange, and of the host noticing that
  a connection ended. Nothing is assumed of the digest of the platform, of
  replies or of the user: `RunEnds` pauses at the verification for that reason.
- Metadata sessions: weak fairness of the host's thread (engine and callbacks
  return, and the host goes on), of each helper (its deadline passes and its
  waiting is limited), and of a retry by whoever owns the host, which the code
  leaves to it. Strong fairness of a return to its caller: between publications,
  callbacks may run other executions, but not for ever. The end of a service is
  never assumed.
- Publication and workspace files: safety only; every step may fail for ever.

### Findings

`early_reply`: `openspec/changes/host-extensions-as-workers/specs/extensions/worker-sessions/spec.md:38-40`
says that an unsolicited response shall fail the session. `read_reply`
(`worker/wire.mbt:81-153`) matches by ID alone and the driver reads only when it
next receives, so a reply with ID 2 that a worker wrote before request 2 exists
is accepted as the answer to it. Nothing else in the session depends on it:
LockStep counts accepted replies and holds with such workers.

## 4. Proofs

All theorems hold for every value of the constants under the named assumptions
of the modules (`TasksAssumption`, `ConfigAssumption`, `MessagesAssumption`,
`OutcomesAssumption`, `OwnerAssumption`, `ServiceAssumption`,
`PublicationAssumption`, `AbsentAssumption`, `TransferAssumption`,
`SessionsAssumption`, `ClientAssumption`, `VersionsAssumption`, `ContentsAssumption`,
`BoundsAssumption`), which say no more than that roles and
kinds are disjoint, that numbers are numbers, and with which outcomes the
service completes an execution.

**WorkerSession_proofs**, on lemmas that each operator of the state machine
returns a conversation and a step of the declared shape:

| Theorem | Property |
|---|---|
| `TypeCorrect` | TypeOK |
| `SessionInvariant` | InductiveInv: TypeOK, SessionInv and HistoryInv |
| `ReportsGiveTheStop`, `OneReport`, `NoWorkerLeftBehind`, `SessionIsClosable` | ReportGivesTheStop, SameReport, NoOrphan, AlwaysClosable |
| `TheFirstStopStands` | FirstStopStands, an action property |
| `OneRequestAtATime`, `SilentAfterInterrupt`, `CleanSessionWasAnswered` | LockStep, QuietAfterInterrupt, CleanMeansAnswered |
| `TheRefusalStands` | RefusalStands, an action property |
| `TheWorkerSeesTheOrder` | refinement of SessionOrder |

None of the safety properties is inductive alone. A second stop, a second report
or an unclosable session could come from a state in which two tasks exchange at
once. `InductiveInv` rules those out: the channel's lock has one owner while the
stop is undecided (`StopIsOwned`), `busy` is held exactly by a task in an
exchange, except for the cancellation of a scoped session, which runs alone
(`BusyIsHeld`), whoever exchanges finds no report yet (`ReportIsLast`), and an
exchange that leaves the worker running leaves a closable conversation
(`PausesClosable`). The proof has one lemma per action.

The last five need the history. `HistoryInv` says that, while the worker is not
stopped, the conversation of the task that exchanges, or of the session between
two exchanges, agrees with the wire: its phase tells the last message, `next_id`
counts the requests, and every request but the one it waits for has its accepted
reply (`Agrees`, `WireAgrees`). A cancelled exchange breaks this agreement, since
`Session.conversation` stays what it was; only the abort, which stops the worker
before `busy` is released, keeps the invariant (that is the mutant of LockStep).
`StepAgrees` relates the step a task is about to take to its suspension point:
what is still to be written, that a conclusion without an ending is the one of
an answered shutdown, and that a conversation that refuses keeps its refusal.
`LastTells` says which messages can precede the last one, so that a second
operation is never written. The requests on the wire are a recursive function
over its length (`RequestsOf`); what an appended message does to it is proved by
induction, in the form described below. TLC checked `InductiveInv` on the
instances of all three runs before it was proved (1.8M states with faults).

**ExecutionOwner_proofs**:

| Theorem | Property |
|---|---|
| `OwnerInvariant`, `OwnerTypeCorrect` | OwnerInv, OwnerTypeOK |
| `QuotaIsKept` | WithinQuota |
| `PlansAreHandedOnce` | HandedOnce |
| `ReceiptsAreOneHistory` | ReceiptsAgree |
| `ReservationsAreSummed` | ReservedIsSum |
| `OwnerKeepsLifecycle` | refinement of ExecutionLifecycle |

The strengthening is about time: a candidate that was checked earlier still fits
when it commits, since any other commit moves `next` and everything else only
frees space (`CandidatesStand`); a plan was handed out only if the receipt is
past Submitted or the identity is gone (`PlansGoWithRunning`); and every receipt
returned precedes the one of the cursor (`LatestIsLast`), which carries
`ReceiptsAgree` through each `observe`.

`ReservedIsSum` speaks of MapThenSumSet, a recursive definition in the order of
CHOOSE. The lemmas before the theorem show that the sums exist (`SumsExist`),
that any element may be taken first (`SumsTake`), and what one execution more or
the same executions do to the sum (`SumWithOneMore`, `SumOfSame`). The steps of
the owner then need only the facts about `Commit`, `Advance` and `Drop` that
the other invariants use.

Induction, here and for the wire: the library's induction theorems take the
property as an operator, which the provers cannot instantiate. The property is
put as a set instead, and `Induction` (0 in S, and n + 1 in S whenever n is, gives
Nat \subseteq S) follows from the fact that a non-empty set of naturals has a
least element (`WFMin` and `NatLessThanWellFounded`); `SubsetInduction` is the
same over the subsets of a finite set, by their size.

**NativeService_proofs**: `ServiceIsSafe` (ServiceInv), `ReturnedOutcomesSurvive`
(ReturnedSurvives) and `ServiceIsAnOwner` (every step of the service is a step of
the owner or leaves it alone, so each theorem of the owner holds in it). The
invariant relates the two sides of a suspension: a record that waits, runs or
is done agrees with the owner's receipt (`RecordsAgree`), an answer that is not
yet applied still finds what it needs although the owner has moved on
(`AnswersStand`), and a worker that is counted is one whose exit is not yet
confirmed (`SlotsCounted`, `UncertainIsLost`, `ExitConfirmed`). The proof
carries this per record, as a step touches one.

**ExecutionClient_proofs**: the page against its host, for any number of calls
of `execute`, `cancel` and `resume`, and any number of awaits that fail:

| Theorem | Property |
|---|---|
| `PageIsConsistent` | the inductive invariant `IInv` |
| `FlagsTellTheTruth` | PageInv, which is ClientTypeOK and OneObserver |
| `NothingIsForgotten` | NothingForgotten |
| `EvidenceIsReturned` | ReturnsEvidence |
| `CancellationIsKept` | CancelKept |
| `AcceptedIsStarted` | StartsWhatIsAccepted |
| `ConnectionStays` | StaysConnected |
| `ViewOnlyAdvances` | ViewAdvances, an action property |

None is inductive alone, since each depends on what requests under way may still
do at the host. `IInv` says of every task what it may wait for and what the
answer may tell (`TaskOK`): a submission of which nothing is known is the only
one, and as long as it is not served the host holds nothing (`PendingOK`,
`OneSubmission`, `SubmittingOK`); a release that may still arrive is of an
execution that the page is done with (`PendingOK`), so it can never remove a
running one; a cancellation of the current generation is of the tracked
execution, and while an execution is prepared none is (`CancellingOK`), so a
late answer is recognised by its generation. `HostInv` adds to the owner's
invariant that the receipts of an identity form a chain of legal advances
(`HistoryInv`), so that every receipt that arrives late is admitted, as a replay,
an advance or a stale one, and never disconnects the page. A step of one task is
seen by the others only as `ByObserver` or `ByCancel`: the page keeps its
execution (`Keeps`), starts a new generation, or starts what it prepared; the
host is seen as one of `Held`, `Added`, `Dropped`. Each action is proved for its
own task, and `OthersStay` and `HostOthers` carry all other tasks once. Two
things came out of the proof: a bound on the generation was a fact about the
runs and not about the code, and CancelKept holds only if the host offers to
cancel, since `cancel()` notes the wish in any case (`client.mts:225-270`).

**MetadataSessions_proofs**: `ScratchIsQuiet` (RemovesQuietScratch, an action
property): the scratch of a session is not removed while a process of one of its
exchanges may still run; `SessionsAreOwed` (SessionsInv) and
`PublishesWhenDisposed` (PublishesAfterCleanup, an action property): whatever
has resources has a callback, the disposals go backwards, and a run publishes
only when its sessions were disposed. The invariant (`IInv`) of the first
follows the re-entrant calls:
what each frame of the host's stack waits for (`StackInv`), which slot of the
service it holds (`SlotInv`), what of a session is still to be cleaned up
(`SessionInv`), and that what a session believes of its helper is true of the
processes (`HelpersInv`: `HelperTruth`, `Watched`).
The other two need `OInv`, because SessionsInv is not inductive: a callback may
acquire, retry or run again at any depth of the stack, and a disposal takes the
callbacks out of the manager while it runs. So the stack has a shape
(`ManagerInv`: only publications lie below a run or a disposal, and the state of
the manager tells what is on top); what is left and what has failed are in the
order of the retry, also in the middle of a pass (`PoolInv`); a session has
resources until it is disposed, and they are numbered as they are acquired
(`BornInv`); a slot belongs to a live session that the disposal has yet to reach
(`LiveInv`); an execution is on the stack once (`RunInv`); and each run,
disposal and clean publication answers for the sessions of its own run
(`OwedInv`). TLC checked it on the instance of `metadata_sessions` first; each
action has a lemma (`BeginOwes`, ..., `CleanupEndsOwes`), and the facts about
what a pass does to the two sequences are proved once (`Passes`).

**Publication_proofs**: `PublicationIsSafe` (PublicationInv) and
`PublicationKeepsContent` (refinement of PublishedContent). The invariant is
inductive as stated: only the holder of the lock has a staged or saved
directory, and a missing destination has its backup until the backup may be
deleted.

**ArtifactTransfer_proofs**: `TransferIsSafe` (TransferInv) and
`TransferIsADelivery` (refinement of ArtifactDelivery). The strengthening
follows a reply from the host to its use: every message under way carries the
identity and the place of one request (`Messages`, `AskedOnce`, `Unsent`), a
pending exchange has one owner, `run()` or the release and never both (`Owned`,
`Connection`), and what was accepted is what was asked for (`Answered`,
`Files`), so a repeated reply is never taken for another read. One lemma per
action; the step simulation maps `HostProduces`, `HostReleases`, `HostSeesEnd`,
`Publish` and the failures to the abstract actions.

**WorkspaceFiles_proofs**: one folder, for any files, drafts, writes of other
programs, number of chunks, selections, timeouts and cancelled picker calls:

| Theorem | Property |
|---|---|
| `GrantsAreConsistent` | the inductive invariant `IInv /\ FolderInv` |
| `TrustedIsHeld` | `AllHeld`, on top of it |
| `FilesAgree` | FilesInv, which is FilesTypeOK, InStep and BackupsTold |
| `SavesTellTheTruth` | ReportsAreTrue |
| `NothingIsOverwritten` | NoLostUpdate, an action property |

What makes the properties true is what may still arrive at the moments that they
are about, and what an edit has done so far. `IInv` lists, for
each stage of a grant's life in the client, which requests of it can be on their
way and what the host's transfer then is: in a selection (`OpeningInv`) and a
save that uploads (`UploadingInv`) only the request that is awaited and releases
of earlier sequences; while a commit is unknown (`CommittingInv`) also that
commit, and whether it was handled can be read off the transfer, which is what
the status query relies on; at rest and in the release that ends a save
(`RestInv`, `ReleasingInv`) only releases of sequences that are past. What the
client gave up stays in `UploadInv`: chunks and commits that arrive late are of
one draft and of a grant whose baseline is what that draft's save saw, so a late
commit still compares with the right inventory. `DraftInv` ties a draft to one
grant and its result to what reached the folder; `PickerInv` and `TicketInv` say
the same of dialogs and tickets. `AllHeld` is needed for InStep after an error:
`IInv` says little of a host whose answer was an error, but the host then still
has the grant, since the client gives a grant up before it asks to revoke it.
The proof goes by action, for the grant of the action (`...Local`); the other
grants are carried by `LocalKept`, the other drafts by `DraftKept`.

`FolderInv` is about the commit in progress. `Busy` says that its request is
still to be answered, and that it goes from the host's baseline of the grant to
the draft uploaded there; with `UploadInv` that baseline is what the page saw.
`EditInv` says, stage by stage, what is in the lock directory: only what the edit
started from, until it rolls back, so that what Clean removes is no other
program's; and, as long as a rollback has not failed, that each file which no
longer is as the edit found it is still to be put back. So a rollback that has
finished without a failure leaves nothing changed, which is what an effect of
none claims, and nothing in the lock directory, which is BackupsTold.
`EditGoesOn` proves it stage by stage from `StageMoves`, `RollsBack` and
`FileMoves`, which say what each step does to one file. TLC checked every
conjunct of `IInv` and `FolderInv`, and `AllHeld`, on two instances before they
were proved: one file under two selections, and three files that another program
writes.

**Model-checked only**: liveness, which is EveryTaskFinishes, ScopedSessionEnds,
EvaluationReturns, CallsEnd, AcceptedEnds, GivesBack, RunEnds, CallsReturn and
CleanupCompletes. Fairness and ENABLED are beyond the provers. Every invariant,
every action property and every refinement that a run checks is also a theorem.

## 5. Plan

Done, in the order of exposure: the worker session, the execution owner and its
page, the native service over the owner, publication, workspace files, artifact
transfer, metadata sessions; theorems about each of them. What would come next:

1. The Node, wasm and thread channels as further instances of the stop protocol.
2. The window ownership of the bridge and the read-only grants of
   `workspace/service.mbt`.

## 6. Not modelled

- Cancellation while a worker is being launched, and the draining of stdout and
  stderr after the stop: `Kill` decides at once what of the tree is gone.
- The contents of messages beyond the class of check that they pass, encoding,
  frame sizes other than as a failure, digests and names.
- Planning of a unit: a deterministic function of it. A method of the owner that
  raises changes nothing and is no step.
- Of the metadata process: pins, grants and request limits (one check that may
  refuse), audit records, the decoding of a snapshot, the Windows job, the
  interrupt grace (0 for metadata) and processes that leave their group.
- `initialize` of the page: one handshake before its first execution.
- The pure components of the inventory: compilers, type inference, the
  interpreter, codecs and editors.
- Of workspace edits: the directories made for new files, the staged files and
  the manifest, modes and owners of files; `workspace_edit.mbt`. A crash of the
  host during an edit: the lock directory keeps the backups, and no code of the
  repository recovers from it.
- The syntax of artifact frames, base64, paths and Unicode: one answer that is
  refused. The host of the artifacts is not in this repository.
- Most of the JavaScript and TypeScript lines of the repository are a generated
  Unicode table (`artifact-unicode-data.ts`) and the scripts of vendored agent
  skills (`.agents/skills`): tables and layout programs without the program's
  own logic. The models cover the parts where steps interleave, which are a
  small share of all lines.
