# Nexweave: models and proofs

Nexweave turns documents into reviewed, released knowledge. Its API (FastAPI over PostgreSQL),
its workers (Temporal workflows and activities) and its web client share one database; the
workflows hold the durable control flow, the database holds the facts. This directory models
the parts of it whose correctness depends on the order in which those processes act, checks
them with TLC on small instances and proves the main results with TLAPS for all instances.

Contents: [Inventory](#inventory) · [Plan](#plan) ·
[Publication](#publication-knowledgerelease) · [Workflow kernel](#workflow-kernel-workflowkernel) ·
[Parsing](#parsing-sourceparse) · [Uploads and connectors](#uploads-and-connectors-sourceupload-connectorsync) ·
[Review](#review-and-its-delivery-humanreview) · [Packs and schemas](#packs-and-schemas-packregistry-schemaregistry) ·
[Compilation and pages](#compilation-and-pages-knowledgecompile-obsidianexchange) ·
[Forecasts](#forecasts-forecastrun) · [Access](#access-spaceaccess) ·
[Bounds](#bounds) · [Fairness](#fairness) · [Proofs](#proofs) · [Findings](#findings) ·
[Not modelled](#not-modelled)

To run: `tlc -config KnowledgeRelease_gate.cfg MCKnowledgeRelease.tla`; each `.cfg` begins with
the name of the module it belongs to, and is checked through the module `MC...` of that name
where there is one. To prove: `tlapm` on each of the eight modules `...Proofs.tla`.

## Inventory

Paths are relative to `src/`; `api/` is `apps/api/src/nexweave_api/`, `kernel/` is
`workers/kernel/src/nexweave_worker_kernel/`, `domain/` is
`packages/domain/src/nexweave_domain/`.

| Component | State | Operations | What is hard | What makes it correct |
|---|---|---|---|---|
| Release (`api/release_repository.py`, `release_routes.py`, `domain/release.py`) | candidates, approvals, releases, pointers and their history, deprecations | create, validate, approve, publish, switch, deprecate, rebuild a projection | three processes (HTTP, workflow, activities) with retries and no common transaction; the gate reads rows that other components own | only independently approved candidates are published, once, under the gate of that moment; a channel's history is a chain |
| Workflow kernel (`kernel/workflows.py`, `activities.py`, `api/workflow_*.py`, `domain/workflow.py`) | Temporal runs; task rows, steps, events | start, step, pause, resume, cancel with compensation, approve, reject, escalate, retry, project, reconcile | the run and its row are two copies; updates are handled between any two awaits of the main coroutine; projections are lost or late | a decision is carried out; a cancelled run has undone its steps; the row ends where the run ends |
| Idempotency, audit, outbox (`api/repository.py`) | idempotency records, audit rows, outbox rows | `_idempotent` around every mutation | two requests with one key at once | one effect per key; the facts tell the rows' history |
| Source and parsing (`api/source_repository.py`, `workers/parser`) | upload sessions, sources, versions, batches, parse jobs, artifacts, anchors | upload, confirm, register, parse, retry, cancel, reparse, invalidate, archive | a cancel or a retry beside a parser that still works; expiry and termination beside a completion; concurrent ends of the items of one batch | one version per completion, one replacement per version; no artifact of a cancelled job; what is shown was parsed and scanned clean |
| Schema and packs (`api/semantic_repository.py`, `domain/semantic.py`) | trust keys, pack versions, revocations, installations, installation pointers, schema versions | register, revoke, install, disable, roll back, compose, validate, publish, deprecate | an installation that fails half-way or is attempted twice; two at once; checks made before the transaction | an installation took effect exactly when its schema version exists; compositions are closed; a version is published once |
| Compile and wiki (`api/knowledge_repository.py`) | compile jobs, answers, claims, conflicts, pages, page versions | compile, edit, restore | an attempt that was given up and goes on; contradictory answers; a page two writers read | an answer is persisted once; contradictions are raised; no edit passes over a version its author has not seen |
| Claim, evidence, review (`api/review_repository.py`) | review cases, tasks, revisions, decisions, claims, conflicts | open, act, transfer, restart, promote, materialize, resolve | stages, reassignment, separation of duties, promotion of a changed target | a claim is promoted only as reviewed, by somebody independent |
| Review delivery (`api/review_delivery.py`) | delivery outbox | deliver start and decision, acknowledge | a crash between Temporal's answer and the acknowledgement; operators who command the same workflow | every committed decision reaches its workflow |
| Quality and query (`api/query_engine.py`, `lexical_search.py`, `release_repository.py`) | evaluation suites and runs | evaluate, search, fuse ranks | ties in a fusion; reads pinned to a release | a query sees one release |
| Graph (`api/release_graph.py`) | – | bounded traversal | cycles, limits | it ends and stays in the release |
| Connectors, Obsidian (`api/integration_repository.py`, `integration_routes.py`) | connector instances, sync runs, watermarks, imports | sync, complete, export, import | a source that changes between two attempts; an import of three transactions | a run that succeeded, and the watermark, speak of what was registered and parsed; an import drafts on the version it was exported from |
| Forecast (`api/forecast_*.py`) | runs, deliveries, artifacts, staged objects | create, execute, retry, cancel, recover | a cancel that races the result; a run whose workflow was lost; staged objects of attempts that die | an artifact exactly when the run succeeded; nothing staged is left over; every run ends |
| Identity and access (`api/repository.py`, `identity.py`, `domain/access.py`) | users, services, their tenant roles, memberships and their roles | provision, grant, revoke, authorize | a revocation between a check and its use; roles from two sources | authority comes from somebody who had it |
| Workspaces and objects (`api/repository.py`, `object_storage.py`) | spaces, upload sessions, managed objects | create, update, archive, upload, scan, expire | a request that was let in before the space was archived; two uploads into one session | what is archived or registered stays |
| Model gateway, telemetry, contracts, SDKs, web, deployment | – | I/O and presentation | – | – |

How they meet: HTTP handlers write the database and send Temporal *starts* and *updates*;
workflows call *activities*, which write the database; workflows *project* their state into
task rows; the release gate reads memberships, source versions, conflicts and lint results,
which identity, source, review and knowledge code change in transactions of their own.

`PROJECT.json` lists the hazards line by line, with the property that covers each.

## Plan

Done, in this order (a module in parentheses is the one before it builds on, or implements):

1. `KnowledgeRelease` (implements `ReleaseLedger`): the release component together with its v2
   workflow, because neither is correct without the other, and the gate's facts as changes
   made by others. Proved.
2. `WorkflowKernel`: one M2 task with its steps, pause, cancel and compensation, commands, task
   row, projections, reconciliation and retry. Proved.
3. `SourceParse`: one source version and its parse jobs; its invalidations are the ones
   `KnowledgeRelease` takes as given. Proved.
4. `ConnectorSync` (on `SourceUpload`): upload sessions, completion and batches, and the
   connector that uses them. Proved.
5. `HumanReview`: one review case and the delivery of its decision. Proved.
6. `SchemaRegistry` (on `PackRegistry`): packs, installations and schema versions. Proved.
7. `ObsidianExchange` (on `KnowledgeCompile`): compile jobs, claims, pages, and pages that leave
   and come back as files. Proved.
8. `ForecastRun`: one forecast with its reconciler and staged artifacts. Proved.
9. `SpaceAccess`: identities, one space, memberships, one managed object, and `_idempotent` with
   its records, audit and outbox around all of them. Proved.

Left, most useful first: an abstract task (a plan that runs, is undone, or fails) that the kernel
implements while nobody repairs its row; later runs of one connector; evaluation runs and projections that are rebuilt; the
pure algorithms (reciprocal rank fusion, order of semantic versions, graph traversal) against reference
definitions.

## Publication (`KnowledgeRelease`)

### State

| Variables | Code |
|---|---|
| `status`, `creator`, `version`, `sources` | `release_candidates` rows; `sources` are the source versions the immutable manifest traces to |
| `approvals`, `releases` | `release_approvals`, `releases` (in order of insertion: an index is a release id) |
| `pointer`, `history`, `deprecated` | `release_pointers`, `release_pointer_history`, `release_deprecations` |
| `etag` | what an operator last read of a pointer, to be sent back as If-Match |
| `members`, `lost`, `blockers`, `deficient` | who is still a member, which source versions are invalid or archived, which blocking conflicts are open, which candidates the lint or the suite would refuse |
| `pc`, `decision`, `decider` | the place of `KnowledgeReleaseV2Workflow.run`, `_approval_decision`, `_approval_actor_id` |
| `attempts`, `live` | activity attempts: how many the workflow has dispatched of the current activity, and which still run, those Temporal gave up on included |
| `locking` | the publish attempt whose transaction holds its row locks |
| `pending`, `outcome` | Temporal updates on their way, and what Temporal recorded for each Idempotency-Key |

`pc` follows `run` from top to bottom: `begin` (projecting RUN_STARTED), `validate`, `announce`
(status WAITING, projecting APPROVAL_WAITING), `wait`, `escalating`, `escalated`, `publish`, and
the ends `gate_failed`, `rejected`, `succeeded`, `crashed`.

### Actions

* **Requests.** `CreateCandidate` is the candidate's transaction and `StartWorkflow` the call
  after it (a crash between them is a state in which only the first has happened).
  `RecordApproval` is the approval's transaction; the Temporal update that follows it is a
  message in `pending`, as is every `GenericCommand` of the task route. `ReadPointer`,
  `SwitchPointer` and `Deprecate` are the pointer and deprecation routes.
* **Workflow.** `Begin`, `Announced`, `ApprovalTimeout`, `Escalated`, `Resume`, `Dispatch`,
  `Abort`. `AcceptCommand` and `RefuseCommand` are the update handler, which runs between
  any two of them: a command accepted after another, before `Resume`, overwrites both the
  decision and the actor.
* **Activities.** `ValidationCached`, `ValidationPasses`, `ValidationFails`, `ValidationRaises`
  are the paths of `execute_release_validation`. Publication is the one transaction split in
  two: `PublishChecks` takes the locks and reads the gate, `PublishCommits` writes the
  release, the candidate and the pointer, `PublishRollsBack` is a connection that dies, and
  every action that needs a row the transaction has locked waits (`locking = {}` or
  `Unlocked`). `PublishAgain` and `PublishRefused` are its early returns. `Report` brings the
  result to the workflow if the attempt is the one it awaits, and may lose it. An attempt
  whose worker died is a member of `live` that never acts again.
* **Gate.** `ChangeMembership`, `LoseSource`, `ChangeConflict`, `ChangeQuality`.

### Abstractions

* One knowledge space. Roles are fixed sets; membership changes.
* `VALIDATING` and `PUBLISHING` are written and overwritten in one transaction: nobody sees them.
* The manifest, schema version, suite and index configuration of a candidate never change, so
  the checks on them are decided at creation. What can change is in the four gate variables.
* `record_release_approval` accepts a REJECTED decision, but its one caller sends APPROVED; a
  rejection is a generic command.
* The lint and the suite's answers are not locked by a publication (`ChangeQuality` needs no
  lock), memberships, source versions and the space's conflicts are; `PublishesUnderCurrentGate`
  says exactly the latter.
* The task row matters here only as the guard of the generic command, which may be stale:
  `RowSaysWaiting` allows a command from the announcement until well after the end.
* Projection activities appear as the awaits they are (the workflow does not move until they
  end, and a projection that is given up fails the run), not as rows. Those after the end of
  `run` change nothing the model keeps.
* A repeated Idempotency-Key has no second effect. A repeated Temporal update id has the
  outcome of the first.

### Runs

| Run | Question | Instance | What holds |
|---|---|---|---|
| `gate` | Is what is published independently approved, once, under the current gate, whatever attempts are replaced and whatever changes meanwhile, and does every accepted decision end its workflow? | 1 candidate, 3 people (a creator who may also publish, two others), 2 keys, 2 attempts, 1 source, 1 conflict, fair workers; 646,000 states | `ReleaseRowsFit`, `IndependentApproval`, `OutcomeIsTrue`, `PublishesUnderCurrentGate`, `NothingIsUndone`, `DecisionIsCarriedOut` |
| `channels` | Do publications and rollbacks on one channel interleave safely, and does the whole implement the ledger? | 2 candidates, 2 versions, 1 channel, up to 3 moves; 891,000 states | `ChannelHistory`, `SwitchesWhatWasRead`, `ImplementsLedger` |

* `IndependentApproval` – the actor a release names is not the candidate's creator and has an
  approval on record. The workflow passes on the actor of the *last* accepted command, which
  any reviewer can send; it is `publish_approved_release` looking for an approval by that very
  actor that makes the property true.
* `ReleaseRowsFit` (the types, a candidate is PUBLISHED exactly when it has a release, releases
  share neither candidate nor version) and `OutcomeIsTrue` – replaced attempts, lost reports and
  repeated commands neither release twice nor leave row, release and workflow disagreeing.
* `PublishesUnderCurrentGate` – checked at each commit against the state other transactions
  could have changed since the check; it holds because the publication's locks (`FOR UPDATE` on
  the candidate, `FOR NO KEY UPDATE` on the space, `FOR SHARE` on memberships and sources)
  exclude those that would.
* `NothingIsUndone` – histories only grow, and no late validation takes back an approval.
* `ChannelHistory`, `SwitchesWhatWasRead` – a channel's history is an unbroken chain ending
  in what it serves, and an operator can only replace a pointer he has seen.
* `ImplementsLedger` – candidates, workflows, activities and gates come down to
  `ReleaseLedger`: approve a candidate, append its release and serve it in one step, switch
  a channel to a release that exists.
* `DecisionIsCarriedOut` – a decision accepted during the announcement, the wait, the
  escalation or after it ends the workflow.

## Workflow kernel (`WorkflowKernel`)

One task of a v1 workflow (`_KernelWorkflow`): the class that runs a plan step by step, with at
most one step that waits for a human decision. What makes it hard is that the task exists
twice, as a Temporal run and as a row, and that messages between the two are lost, late and
repeated.

### State

| Variables | Code |
|---|---|
| `row` | `workflow_tasks`: `status` and `temporal_run_id` (0: NULL) |
| `events`, `marked` | `event_key`s in `workflow_task_events`: those of projections, as run and sequence number, and `WORKFLOW_STARTED` per run |
| `run`, `closed` | Temporal: number of the latest run of the workflow id, and how it closed |
| `status`, `cancel`, `decision` | `_status`, `_cancel_requested`, `_approval_decision` |
| `pc`, `ix`, `done`, `undone` | the await at which the coroutine stands, its step, `completed`, and what was compensated |
| `seq`, `awaits`, `handlers` | `_event_sequence`; the projection that the coroutine awaits; those that update handlers await |
| `flying` | projection activities with an attempt that may still be applied |
| `marks` | `mark_workflow_started` calls that follow a start or a retry and have not run yet |
| `used`, `pending` | Idempotency-Keys of commands; updates (and retries) on their way |
| `seen` | what each operator's `inspect` answered, before his `reconcile_workflow_task` writes it |

`pc` names the await: `starting` (RUN_STARTED), `paused`, `announce`, `wait`, `escalating`,
`escalated`, `draining` (`all_handlers_finished`), `step_started`, `step`, `step_done`, `undoing`,
`undo`, `succeeding`, `rejecting`, `cancelling`, `failing`, and `end`.

### Actions

* **Coroutine.** Temporal runs a workflow single-threaded between awaits, so each action is the
  code from the end of one await to the start of the next. `EnterStep` is the head of the loop,
  reached from `Started`, `Unpaused` and `NextStep`: it looks at the cancellation, then at the
  pause, then at the gate. `GiveUp` is any activity that used up its attempts or its
  schedule-to-close time; its effect may have happened or may still happen, which is why the
  projection stays in `flying`. `RunTimesOut` is the run timeout.
* **Commands.** `SendCommand` is the HTTP route with its ETag (a version bump per row change makes
  the ETag equivalent to reading the row at that moment). `AcceptCommand` is `_handle_command`
  up to its first await, in one piece, `RefuseCommand` its validator. `RetryRun` is
  `gateway.retry`, which Temporal admits only after a failed or timed-out run.
* **Projections.** `ApplyProjection` is one attempt of the activity; it may stay in `flying`
  afterwards, to be applied again when the report was lost. `MarkStarted` may come at any time
  after the run started.
* **Repair.** `Inspect` reads Temporal, `Reconcile` writes the row in a later transaction.

### Abstractions

* Step rows, `progress`, and result summaries follow the events and are left out, as are the
  `version` (an ETag check is the guard on the row's status) and `projection_in_sync`.
* The `notify` signals are declared but nothing in `src/` sends them.
* CLAIM changes an assignee, not the status, but projects the latter like any command.
* An update's validation and its handler are one step: nothing runs between them.
* What a closed run's handlers still await may end after it; nothing reads it any more.
* `evaluation_runs` rows that a failed projection closes belong to the quality component.

### Runs

| Run | Question | Instance | What holds |
|---|---|---|---|
| `kernel_approval` | Does the row tell the truth and the approval gate its step, whatever is late, repeated or given up? | 2 steps, gate at 1, HUMAN_REVIEW, 2 commands, 2 runs, 1 surviving attempt; 1,360,000 states | `KernelRowFits`, `GateNeedsApproval`, `OldRunsAreIsolated`, `CancelStopsSteps`, `TerminalIsFinal` |
| `kernel_decision` | Do accepted cancellations and decisions take effect, does a pause hold, and does a cancelled run undo what it did? | 3 steps, gate at 3, starts paused, 2 commands, an operator who reconciles, fair workers; 629,000 states | `CancelledIsUndone`, `PauseHolds`, `CancelIsCarriedOut`, `DecisionIsCarriedOut` |

* `GateNeedsApproval` – neither the escalation timeout, nor a pause, resume or input request
  during the wait, nor the approval of an earlier, failed run lets a run pass its gate.
* `KernelRowFits` – the types, `RowIsTrue` and `RowSaysWaiting`. A row that says SUCCEEDED,
  CANCELLED, REJECTED or FAILED of the latest run says what happened: all steps done, all done
  steps undone, a rejection and no gated step, a run that set out to fail. It does not say that
  Temporal closed the run the same way: a RUN_SUCCEEDED whose report is lost leaves a SUCCEEDED row
  and a failed run. And the row says WAITING while the run waits and nobody interferes, which a late
  `mark_workflow_started` or a repeated attempt could break; then no caller could approve.
* `CancelStopsSteps`, `PauseHolds` – checked at each start of a step against commands accepted at
  any await before it. `PauseHolds` has an exception the code has: a pause accepted after an
  approval and before the coroutine resumes is overwritten by RUNNING (workflows.py:184).
* `TerminalIsFinal`, `OldRunsAreIsolated` – ADR-0038's two promises, as far as they are true.
* `CancelledIsUndone`, `CancelIsCarriedOut`, `DecisionIsCarriedOut` – the end of a cancelled run,
  and that there is one; a cancellation accepted after the last step's start is *carried out* in
  the sense that the run ends, though not as CANCELLED (Findings).

## Parsing (`SourceParse`)

One `source_versions` row and up to `MaxJobs` `parse_jobs` of it. `version` has the status and the
active and latest job of the version; `job`, `anchor` are the rows of jobs and anchors; `invalidated`
and `archived` are what other requests do to the version and its document; `calls` are requests
that have committed and owe Temporal a call (a crash in between is a call that comes late or
never); `run` is the Temporal run of each job and `attempts` are activity attempts that may still
act, those their run has given up included.

* **Users.** `Reparse`, `PrepareRetry`, `CancelJob`, `InvalidateVersion`, `ArchiveSource` are routes of
  `source_routes.py` with their transaction; `Supersede` is the registration of another upload
  that names this version. `StartRun`, `RetryRun`, `CancelRun` are the calls to Temporal that follow.
* **Workflow.** `Schedule` starts an attempt of the activity the run waits for, `GiveUp` is its
  last attempt's timeout, the workflow's timeout, or the failure to record a failure.
* **Activities.** `VerifyRaw`, `ScanRaw`, `LoadAndParse`, then the transaction of
  `persist_parse_result` in two steps: `BeginPersist` is the start of the statement that locks job,
  version and document, whose subquery on `source_invalidations` sees the database as of then, and
  `Persist` is what happens once it has the locks. `FailJob` is `fail_parse_job`, which a run calls
  when an activity raises.
* **Left out.** Segments, previews, downloads and row versions; a manifest is its status and the set
  of excerpts its anchors point at, which is what relocation depends on (`Relocated`).

Run `parse` (2 jobs, 2 surviving attempts, 2 requests, 1 excerpt; 689,000 states):

* `ParseRowsFit` – the result a version shows was parsed, scanned clean and is usable; a
  version that says PARSING has a live latest job; a live job has a run, or a call that is owed
  it, or a run that could not record its failure.
* `ShownRightfully` – however late an attempt of an older job persists, the version never goes back;
  a superseded version keeps what it shows; after an invalidation no anchor becomes valid,
  but for the statement that already waited for its locks.
* `EndIsFinal` – a cancelled job takes no result, and a result is never replaced or withdrawn.
* `RunSettlesJob` – under fairness a run settles its job or ends without being able to say so.

## Uploads and connectors (`SourceUpload`, `ConnectorSync`)

`SourceUpload` is the controlled upload: `session` (`source_upload_sessions`), `item` and `batch`
(`source_import_batch_items`, `source_import_batches`), `document` and `version` as far as uploads
touch them, `record` (the idempotency records of `source_upload.complete`), `requests` that have
read a session and will come back after talking to the object store, and `txns`, transactions
that have counted the items of the batch and not committed. `overlapped` is a history variable:
two transactions on the batch overlapped.

Content and completion requests read first (`ReadForContent`, `ReadForComplete`) and act on what
they find later (`MarkContentUploaded`, `RegisterRaw`, `ReplayComplete`, `RefuseComplete`); a request at
fault goes on to terminate its upload (`Mismatch`, `BeginEnd`); a reader that finds a session out of time
expires it, by id, whatever it has become (`CommitEnd`). The end of an item counts the batch's items in
the same transaction and is two steps, because two that overlap do not see each other.

`ConnectorSync` adds one sync run: `run` and `connector` are its rows, `flow` its workflow, `attempts`
those of `m8_connector_read_register_raw`, `made` the records of the creation of a session by content.
An attempt reads the source, whose content may differ from what the last attempt read (`ReadSource`),
creates the session outside any batch (`CreateSyncUpload`), marks its bytes (`MarkSyncContent`), and
completes it (`RegisterSync`), each in a transaction; `ReportSync` may lose the report, `FailAttempt`
marks the row FAILED, `Die` leaves everything as it is. `ParseSync` is the child that parses,
`CompleteSync` the completing activity.

Run `upload` (2 sessions, 2 keys of users, 2 contents, 2 requests and transactions in flight, 2
attempts; 1,910,000 states):

* `SyncRowsFit` – an aborted upload registered nothing, each registered version has exactly one
  record of a completion, each superseded one exactly one successor, a sync run registers a content
  in one session; and a run that says SUCCEEDED, and the connector's watermark, speak of content
  that was registered and whose parse is over.
* `BatchIsTrue` – as long as no two transactions on the batch overlapped, it says what its items
  say. If they did, the code can leave it PROCESSING for ever.

## Review and its delivery (`HumanReview`)

One review case from its creation under one of `Policies`. `status`, `stage`, `tasks`, `editors`,
`accepts`, `promoted` are the rows of case, tasks, revisions, actions and of what was promoted;
`start` and `decision` are the two `review_deliveries`, `courier` and `attempt` what the process that
delivers is at; `wf` is the run of `HumanReviewV2Workflow`, `updates` the outcomes Temporal keeps
of update ids, `ops` what operators have commanded.

`Rework`, `Modify`, `RequestEvidence`, `Transfer`, `Refuse`, `Accept` and `Restart` are the branches of
`act_on_review` and `restart_review_case`, each one transaction that holds the rows of case, task
and target; the last accepting stage promotes and inserts the delivery in the same transaction.
`LoseEvidence` is an invalidation that revokes the target's anchors. `DeliverStart`, `Inspect`,
`SendDecision` are the steps of `ReviewDelivery.deliver`; each may succeed, be refused, time out after
Temporal has acted, or crash. `Operate` is a command through the workflow routes by somebody
with `workflow.control`: those who can pause, cancel or even decide a review's workflow.

Run `review` (3 people of whom one is the author, 3 policies, 2 revisions, 1 transfer, 1 fault, 1
command; 1,220,000 states):

* `AcceptedAsPromoted` – what becomes knowledge is one revision, promoted once, and each stage up
  to the approving one accepted that very revision.
* `IndependentFinalApproval` – the final approval of a HIGH risk target is by nobody who made or edited
  it, or accepted it in an earlier stage.
* `ReviewRowsFit` – the workflow ends with no decision but the case's (or an operator's), and what
  is marked delivered has reached it.
* `DecisionIsCarriedOut` – every committed decision is delivered and ends its workflow, unless an
  operator or a failed run prevents it.

## Packs and schemas (`PackRegistry`, `SchemaRegistry`)

`PackRegistry` has the trust keys, the registered pack versions and the revocations of a tenant, and
`Resolved`, the translation of `_resolve_pack_graph`: the calls still to make are a worklist of demands,
`Resolve` is the call for the first of them, which takes the newest version in range, and a choice that was
made is not revised. `MaxCalls` bounds the calls and cuts nothing off: at most one version of each pack
is resolved, and a version brings at most one demand for each pack. `Roots` takes any version where several
ACTIVE rows want different versions of one pack, because their query has no order and a dict
keeps the last of them. Registration checks keys and revocations before its transaction (`VerifyPack`,
`RegisterPack`).

`SchemaRegistry` has one schema: its versions, the installations of packs that compose new ones, and
their workflows. `CreateInstallation` to `StartInstall` are the routes; `Schedule`, `Report`, `GiveUp` the
workflow; `ReadForExecute` and `ExecuteInstall` the two halves of the transaction of
`execute_pack_installation`, which holds the row of its installation and reads the others unlocked;
`RestorePointer` is its rollback branch, `FailInstall` the recording of a failure, `MarkStarted` the mark
that comes late. Validation, publication and deprecation read a version first and change it in a
later transaction (`ReadForPublish`, `PublishSchema`, ...), where its etag decides. The etag is the client's:
it names a version that was read. A request that guesses one to come is left out; `publish_schema` asks for
no status in its UPDATE, so `PublishedOnce` does not speak of such a client.

Run `installs` (a pack that depends on another with two versions, two signing keys, 2 installations, 2
schema versions, 2 attempts, 4 requests; 2,120,000 states):

* `InstallRowsFit` – an installation says it took effect exactly when the schema version composed for it
  exists, and every composition has all it depends on, in one version of each pack, however packs
  are registered and revoked around it.
* `EffectIsKept` – no late mark, failure or repeated attempt takes back what an installation did.
* `PublishedOnce` – a version is published from TESTING without a breaking verdict, once; DEPRECATED ends it.

## Compilation and pages (`KnowledgeCompile`, `ObsidianExchange`)

`KnowledgeCompile` has compile jobs, each with a parsed source, their runs and attempts, the answers that
were persisted, the claims and conflicts they left, and the versions of the page of one entity. An
attempt marks its job in one transaction (`StartCompile`), asks the model outside any, and persists what
it answers in another (`PersistCompile`) if the job is still unfinished: claims, the conflicts with claims
that say something else, and a new version of the page that keeps the protected section. People read
the page and edit it later (`ReadPage`, `EditPage`), and are refused if it has moved on.

`ObsidianExchange` adds files that were exported from the page and come back: `ReadForImport` reads the
page, `EditImport` and `RecordImport` are transactions of their own, and a client that was not answered
repeats its request under the same key (`LoseImport`).

Run `compile` (2 jobs, answers of one and of two statements that contradict each other, 3 attempts, 1
import, 4 pieces of work in all; 3,120,000 states):

* `ExchangeRowsFit` – a job's answer is persisted once however its attempts overlap, and a job that
  SUCCEEDED has one; every edit follows the version it was made on; an import that says
  DRAFT_CREATED made its draft of the version that the file was exported from.
* `DisagreementIsRaised` – a claim that contradicts an earlier one is set against one that it
  contradicts, whichever job persisted it and whatever agrees with it in between.

A contradiction is set against the last claim that says something else. The code takes the last by
`created_at`, which a compilation sets before it waits for the row of the entity, the model the last to be
persisted; where two compilations overlapped these may differ, and each of them contradicts the new one.

## Forecasts (`ForecastRun`)

One run from `create_run`: `status` and `artifact` are its rows, `delivery` and `cancel` those of
`forecast_delivery`, `look` what the reconciler has read of the run it works on, `flow` and `asked` the
Temporal workflow, `attempts` those of the activity, `objects` what is staged in object storage, with
versions that `put_if_absent` and the cleanup compare.

The reconciler is `ReadDelivery`, `AskTemporal`, then one of `StartFlow`, `RequestCancel`,
`LeaveRunning`, `FailLost`, and `UpdateDelivery`; `Interrupted` is a step that fails, takes more than ten
seconds, or dies. An attempt is `ReadRun`, `MarkRunning`, `Compute`, `PutObject`, `CheckInputs`,
`Publish`, with `AttemptStops` (refused, cancelled, failed), after which it looks whether its object is
published (`LookPublished`) and discards it if not (`Discard`), and `AttemptDies`. `LoseHistory` is
Temporal forgetting the workflow, `TimeOut` its run timeout.

Run `forecast` (2 results, 2 attempts, 2 faults; 777,000 states): `ForecastRowsFit` – there is an artifact
exactly when the run SUCCEEDED, and an accepted cancellation is passed on to a workflow that still
executes; `StagingIsClean` – an object in the store belongs to the artifact or to an attempt that has
it in hand, or was left by a process that died; `RunEnds` – under fairness every run ends. `StartFlow`
takes effect in its step or not at all: a start that timed out and takes effect in a later cycle is left out. Run
`published` refutes what ADR-0032 says of a successful artifact (Findings).

## Access (`SpaceAccess`)

The platform services around one knowledge space. What an identity may do comes from its tenant roles
(`assigned`, written by whoever provisions it and never taken away) and from its membership: `authorize`
joins the two. An administrator of the tenant or the platform needs no membership (`Override`), but a tenant
role `space_admin` counts only for somebody who has one, and `platform_admin` alone gives nothing in a
space. Who creates a space becomes a member with `space_admin`, of which no fact tells.

A request is let in (`AskTenant`, `AskSpace`, `AskContent`), having read the space and the membership;
`Authorize` reads the roles and decides, in
a connection of its own; the transaction comes later, looks for the record of its key and writes the
row, one fact (audit and outbox) and the record. `InsertMember` and `CreatePrompt` act on something that
was looked up without a lock (`Look`). `End` is every denial, refusal, replay and rollback.
`StoreContent` and `CompleteUpload` are the upload of a managed object with its scan between, and
`ExpireUpload` writes EXPIRED by id alone. `facts` says for each effect who had it, by which key, and
what it made of which version of the aggregate.

Run `access` (4 identities of whom one is the first administrator and one a service; 3 sets of tenant
roles a user may be created with, none, `space_admin` and `platform_admin`; 2 levels, 2 policies, 1 key, 4
requests of which 2 overlap; 1,594,000 states):

* `FactsAreTrue` – each key that was answered has one effect and each effect its record, though two
  requests with one key run at once; two facts never tell different stories of one version of an
  aggregate; the last fact of each row is the row.
* `ChainOfAuthority` – identities and the space are created by administrators of the tenant, and whoever
  changed the space or a membership may administer every space, created this one, or was let in by somebody
  else before, as its administrator or with that role in the tenant. Nobody comes to it by himself: not by a
  membership that reads, a role in the tenant without a membership, or a grant of his own.
* `SettledStays` – no request that was let in before changes an archived space, and of two uploads into
  one session one registers the object, which is in the store and stays.

## Bounds

*Publication.* `MaxAttempts` bounds the attempts of one activity (3 and 5 in the code); two already
give the replaced attempt that overlaps with its replacement. `MaxMoves` bounds the version a pointer
is *switched* to (publications are bounded by the candidates). `Keys` bounds approvals and commands
together; two let a command overwrite an approval before the workflow resumes. The creator may
also publish in `gate`, so independence is not given by the roles. One source and one conflict are
enough because the gate asks for none of a set. `channels` keeps the gate still (no conflicts)
because `gate` varies it, and takes candidates, versions and keys as symmetric: none is named
in a property or an action, and its PROPERTYs are safety (action) properties.

*Kernel.* `N` and `Gate` choose the plan: one step after the gate shows that it stays closed to later
ones, and a run needs three steps to have two of them to undo (a cancellation is looked at only
before a step). Two `Keys` suffice for a command that is overtaken by another, or a decision with a
cancellation or a retry after it. `MaxRuns` is one retry, enough for an old run beside a new one.
`MaxReplays` bounds projections applied once that keep an attempt; attempts given up before they
were applied are not bounded. `kernel_approval` takes keys as symmetric (only action properties).

*Parsing.* Two jobs are a job and its reparse; two attempts that may still act, an old one beside a
new one of either job; two requests, a reparse and something that disturbs it. One excerpt is enough for
each of the anchor's transitions, because anchors of different excerpts do not meet.

*Uploads.* Two sessions overlap in their document, their predecessor and the batch; two keys allow
equal and different ones for one session. `MaxRequests` bounds requests and transactions in flight,
not how many there are in a behaviour. `MaxTries` is 2 where the code has 3 attempts. `Scenarios` keeps
users' uploads and a sync run out of one behaviour: a sync's sessions belong to no batch, and no
user completes them, so they meet in nothing but the two documents and keep their own state.

*Review.* Three people: the author, somebody who may take any two stages, and somebody who only approves.
`MaxRevisions` allows one edit or restart after the first revision, `MaxTransfers` one task in other
hands, `MaxFaults` one failure of the delivery (between any two of its steps), `MaxOps` one command by an
operator. The three policies are the strictest, a single stage, and one whose approval comes before its last stage.

*Packs.* A pack with one version depends on one with two, of which the newer is registered, or not, by
another key; names are symmetric. Two installations allow an upgrade, a disabling and a rollback of
the first, four requests a revocation and a publication beside them.

*Compilation.* `MaxWork` bounds attempts, edits and imports together, four of them: two attempts of one
job beside the other job's and an edit, or an edit, an import and its repetition. Two texts and one protected section:
imports and edits both write it. Three attempts in all.

*Forecast.* Two results that attempts may compute, so that two attempts have one object or two;
`MaxAttempts` is 2 where the code has 3; two faults, of the reconciler or of Temporal.

*Access.* `MaxRequests` requests are let in, `MaxOpen` at a time: a grant, what is done with it, a
revocation, and something that overlaps with it; nothing is symmetric. One key: two requests with it
are in question when actor, operation and subject are the same as well, and those meet. What it leaves out is
that one actor does the same to the same subject twice; another one may. More keys, and a user who holds
`platform_admin` and `space_admin` at once, are in the theorems only. The users there are from the start hold
any of the sets of tenant roles, those who come later the one they are created with.

Deadlock is checked in the publication's runs, where a membership can always change. In all others a
system whose requests are used up and whose runs have closed rests, so it is not checked.

## Fairness

* `KnowledgeRelease!FairSpec` makes weakly fair: the steps of a workflow that Temporal's task queues
  drive, its failure after the last attempt, each attempt that was started, each update that was
  sent. Temporal redelivers workflow and update tasks until a worker completes them and times an
  activity out that does not answer, so an enabled step of those kinds is not postponed for ever.
  No request, no timeout and no change of the gate is fair. `Abort` before the last attempt is not
  fair either; it may happen.
* `WorkflowKernel!FairSpec` makes weakly fair the disjunction of the coroutine's steps and the end of an
  update handler. An activity either reports or is given up (`GiveUp`: each has a schedule-to-close time
  and a maximum number of attempts), and Temporal redelivers workflow tasks, so some step of a
  coroutine that does not wait for a person happens. No particular attempt is ever assumed to be
  applied. A coroutine that is `paused` or waits for a decision has no enabled step, so fairness does
  not invent a decision. Neither the approval timeout nor the run timeout is fair.
* `SourceParse!FairSpec` only has `GiveUp`: every activity has a schedule-to-close timeout and a
  bounded number of attempts. That any attempt is scheduled or succeeds is not assumed.
* `HumanReview!FairSpec` has the steps of the delivery, because the loop of `ReviewDelivery.run` comes round
  every two seconds and takes what is due, and the steps of a workflow that can go on. Faults are bounded.
  Nobody has to review, and no operator has to act.
* `ForecastRun!FairSpec` has the reconciler (as one disjunction with its interruptions, since its loop goes
  on after them) and the workflow's run timeout. No attempt has to succeed.

## Proofs

Eight modules prove what holds for every value of the constants; the assumptions are the ASSUMEs of the
modules they extend (types of the constants, that bounds are natural numbers, and of packs what their
tables guarantee) and nothing else, save in two theorems about the kernel's row (`RowTruth`, `RowFits`),
which say that nobody repairs it. Every safety invariant and every action property of a passing run is
stated by a theorem.

### Publication

`KnowledgeReleaseProofs` proves, from `RolesAssumption`, `NoneAssumption` and
`BoundAssumption` only, for any sets of candidates, people, sources, channels and keys:

| Theorem | States |
|---|---|
| `TypeCorrect` | `TypeOK` |
| `Independence` | `IndependentApproval` |
| `Uniqueness` | `ReleasesAreUnique` |
| `NoHalfPublication` | `PublishedIffReleased` |
| `RowsFit` | `ReleaseRowsFit`, of the three |
| `Outcome` | `OutcomeIsTrue` |
| `CurrentGate` | `PublishesUnderCurrentGate` |
| `RecordIsKept` | `NothingIsUndone` |
| `ChannelsAreChains` | `ChannelHistory` |
| `RollbackIsInformed` | `SwitchesWhatWasRead` |
| `Refinement` | `ImplementsLedger` |

The invariant is `IInv`, the conjunction of

* `TypeOK`, which is not inductive alone: a release takes the version of its candidate, and
  that it has one follows from `CreatedOnce` and the candidate's status;
* `Started` – a workflow, an attempt or an approval belongs to a candidate that exists. Without
  it a validation could give a status to a row that was never created;
* `CreatedOnce` – a candidate that exists has a creator and a version no other has;
* `ApprovedOnce` – an approval is by somebody other than the creator, and a candidate has one
  exactly while it is APPROVED or PUBLISHED;
* `ReleasedOnce` – each release belongs to a PUBLISHED candidate and carries its version, its
  approver's approval is on record, and no two share a candidate;
* `LocksHold` – while a publication holds its locks, what it checked is still true. This is
  where the guards `locking = {}` of the other transactions are used, and what the
  second half of the publication relies on.

`Independence`, `Uniqueness` and `NoHalfPublication` follow from it directly; `CurrentGate`
from `LocksHold` at `PublishCommits`; `RecordIsKept` from a case analysis of the steps.
`ChannelsAreChains` and `RollbackIsInformed` add `ReadsAreOld`: what an operator holds as an etag
was once true of the pointer, and its version identifies which release it was. `Outcome` adds
`Placed`: a candidate with a release, or with an attempt that may still give it one, has a workflow
that resumed with an approval and does not come back from there; so an attempt that nobody waits
for any more cannot publish what its workflow says was refused. `Refinement`
maps `releases`, `approvals` and the served releases to the ledger's variables: `RecordApproval`
is its Approve, `PublishCommits` its Publish, `SwitchPointer` its Serve, every other step a
stutter.

### The kernel

`WorkflowKernelProofs` proves, from `PlanAssumption` (and the types of the other constants), for any
plan, gate, set of keys and operators, and any number of runs and replays:

| Theorem | States |
|---|---|
| `KernelTypes` | `TypeOK` |
| `ApprovalGuards` | `GateNeedsApproval` |
| `Compensation` | `CancelledIsUndone` |
| `RowTruth` | `RowIsTrue`, when `Repairers` is empty |
| `RowFits` | `KernelRowFits`, when `Repairers` is empty |
| `Finality` | `TerminalIsFinal` |
| `Isolation` | `OldRunsAreIsolated` |
| `CancelIsHeeded` | `CancelStopsSteps` |
| `PauseIsHeeded` | `PauseHolds` |

The invariant `KInv` is the conjunction of

* `TypeOK`, which needs `Shape` and `Undoing`: `ix` and the two sequences stay in the plan only
  because of how the loop and the compensation count;
* `Shape` – the completed steps are exactly `1..Len(done)`, and at each await of the loop their number
  is known from `ix`;
* `Undoing` – the compensated steps mirror the last completed ones, and compensation only begins
  after a cancellation;
* `Asked` – a status that allows a decision is only shown where one is asked for and none was made.
  Therefore a decision is made once per run and never changes, which `Guarded` relies on;
* `Guarded` – past the gate there is an approval;
* `Claim(status)` – what a terminal status says of its run. The argument of `RowIsTrue` is that a
  claim, once true, stays true within the run (`Advances`), so that
* `Messages` – every projection that may still be applied, however late, claims something true of
  its run or belongs to an older one.

`RowInv` adds that the row follows no run that does not exist and claims only what is true. It is
kept by `ApplyProjection` because of `Messages` and broken by `Reconcile`, which is why `RowTruth`
assumes that nobody repairs; see Findings for what happens otherwise. `RowFits` adds `Quiet`, about a run
that no command was sent to: its coroutine awaits each projection before it emits the next, so every
projection on its way is recorded already, or is the awaited one and has the run's status; therefore no
late one can take the row away from WAITING while a decision is asked for. `Finality` and
`Isolation` follow from the conditions of `Ignored` and `MarkStarted`; `CancelIsHeeded` and
`PauseIsHeeded` from a case analysis of the coroutine.

### Parsing, review, forecasts

| Theorem | States |
|---|---|
| `SourceParseProofs!RowsFit`, `Finality`, `Rightful` | `ParseRowsFit`, `EndIsFinal`, `ShownRightfully` |
| `GovernanceProofs!RowsFit`, `Promotion`, `Separation` | `ReviewRowsFit`, `AcceptedAsPromoted`, `IndependentFinalApproval` |
| `ForecastRunProofs!RowsFit`, `Staging`, `Finality` | `ForecastRowsFit`, `StagingIsClean`, `EndIsFinal` |

`GovernanceProofs` has the proofs about `HumanReview` and, after them, those about `SchemaRegistry`; the two
share no state.

*SourceParse.* `IInv` adds to `ParseRowsFit`: `ResultsFit` (a result is what its job's status says, a usable one
was scanned clean), which is what makes a late failure harmless, because `fail_parse_job` leaves a settled
job alone; `Shown` (the latest job is the newest, the active one usable, a version that says PARSING
has none), from which the version never goes back, because a job other than the latest persists only
where nothing is shown that is newer; and `RunsBegin` (a job whose start is owed has no run), without
which a call that comes twice could leave a live job with a closed run. `Finality` also needs that
jobs beyond `jobs` are as they were made.

*HumanReview.* `IInv` has three parts. `CaseInv` is about the case alone: `Decided` (a case without a
current stage is decided, and has a delivery), and `Progress` (the stages before the current one have
accepted *this* revision, and none of them finally). It is `Progress` that an edit re-establishes by
giving the case back to the first stage, and from which promotion follows. `Heard` is about the run
alone: having a decision it takes no other, and its result is the decision. `Told` joins them: the
run's decision is the case's unless an operator's, and an update id whose first outcome was acceptance
carried it. Steps of the case, of the delivery and of the run each leave two of the parts alone.

*ForecastRun.* `AllKept` says of each object's *very version* that the artifact, an attempt that holds it,
or nobody alive answers for it; the attempt's version is needed because a cleanup deletes by version. `FlagIsUp`,
`ClearsRightly` and `OverIsOver` relate what the reconciler has read to what has become of it: while it
decides on a run that was cancelled meanwhile the flag is up, it clears it only if the workflow was
asked or is over, and a workflow that was over when asked about still is. Together they give
`CancellationIsDelivered`, which no state of the rows alone implies.

### Access, uploads, pages

| Theorem | States |
|---|---|
| `SpaceAccessProofs!Truth`, `Chain`, `Settlement` | `FactsAreTrue`, `ChainOfAuthority`, `SettledStays` |
| `ConnectorSyncProofs!RowsFit`, `Batch` | `SyncRowsFit`, `BatchIsTrue` |
| `ObsidianExchangeProofs!RowsFit`, `Disagreement` | `ExchangeRowsFit`, `DisagreementIsRaised` |

*SpaceAccess.* `IInv` says what a request has in its hands between its steps: `Fine` (what was read for it exists
and is about it; what it scanned is in the store; whoever was allowed to change the space is
`Warranted`, that is, may administer every space, created this one or was let in by somebody else), and the
same of the rows: `Entitled` (each membership belongs to somebody who was let in, and if it has `space_admin`,
to somebody who is `Warranted`). The two need each other: a grant hands authority from request to row, the
next look-up back from row to request, and a tenant role `space_admin` becomes authority with any row, which
is why `Entitled` speaks of all of them. Both stay true because facts, memberships and tenant roles only
grow (`Grows`). `ObjectClosed`, that the session of
a registered object is not open again, gives `SettledStays`. `TInv` is about the records: facts, audit rows
and idempotency records are made in the transaction of the effect, so the last fact of a row is the row
(`FactsAreTheRows`, `Story`), a key has one effect (`OneEffectPerKey`) and a version is never reused
(`VersionsAreSettled`).

*ConnectorSync.* `UInv` is about uploads alone: `OneHolder` (the row lock), `Born` and `Recorded` (a
version, its session's completion and one idempotency record come together), `Replaced` (a source
version is SUPERSEDED by exactly one successor), and `BatchTold`: while transactions about the batch never
overlapped, what the one that is open has counted is what there is, so the batch is as its items say.
`SInv` is about the sync run: a session outside the batch was made for a content (`MadeFits`), and an
attempt has done what its place says (`AttemptsFit`). Steps of users' uploads keep `SInv` because of what they
leave alone (`Around`).

*ObsidianExchange and KnowledgeCompile.* What a compilation makes of an answer is a recursive function,
`Told`. That it exists and keeps `Fine` (the claims have their types, and each that contradicts an earlier
one is set against one) is an induction on the answer. The induction theorems of the library take
an operator, which no backend instantiates; the least-number principle for *sets* of naturals follows
from its `NatLessThanWellFounded` and `WFMin`, and induction from that (`Least`, `Induction`; `Greatest` shows
that `Prior` finds a claim whenever one disagrees). `IInv` adds `Answered` (an answer is persisted
exactly when its job becomes SUCCEEDED, which `Unfinished` looks at under the lock), `Visiting` (an import
on its way to the edit has read the version its file came from), `Drafted` (the draft of a request follows that
version and has the file's text, because versions are only appended) and `Sourced` (a version that says it
came from an exported one while its predecessor does not is the draft of a request), which is one draft
per request by an injection from versions to requests.

### Packs and schemas

| Theorem | States |
|---|---|
| `GovernanceProofs!ResolvedIsSatisfied` | what `Resolved` returns is `Satisfied`, whatever is wanted, registered and revoked |
| `GovernanceProofs!InstallRows` | `InstallRowsFit` |
| `GovernanceProofs!EffectIsNeverUndone`, `PublicationIsFinal` | `EffectIsKept`, `PublishedOnce` |

Assumed of the packs is what the tables guarantee (`PackAssumption`): there are finitely many, keys are ordered,
the dependencies of a version are stored one per pack and read in the order of the keys, a range holds
versions of its own pack.

*The resolution.* `Sound` is the invariant of the worklist: of what is resolved, every dependency has a version
in its range or is still demanded with that range. A call keeps it (`ResolveIsSound`): it either finds the
demanded pack resolved in range, or resolves a version and demands what that needs. It holds after every
number of calls by induction, over sets of naturals as for pages, and with no demand left it is
`Satisfied`. The proof does not use that the newest version is taken, nor `MaxCalls`: calls
that were cut off would leave demands, and their state is not an outcome.

*SchemaRegistry.* `RegistryInv` adds to the rows what is in flight. `RequestsFit`: a request has an etag no newer than
its version's, and if they are equal and it asks to publish, the version is in TESTING without a breaking
verdict, because every change of a version raises its etag; this is what `PublishSchema` relies on in its second
transaction. `ReadsFit`: who has read for an installation holds its row, which is therefore still to be
executed, and read a complete composition. `InstallsFit`: an installation rolls back to an earlier one, and a
candidate that is set exists. A candidate is set only together with the status that says so, in one
transaction, and the mark, the failure and the repeated attempt each look at the status under the
lock, which gives `EffectIsKept`.

### What is only model-checked

* Everything under fairness: `DecisionIsCarriedOut` (both), `CancelIsCarriedOut`, `RunSettlesJob`, `RunEnds`.
  Liveness is out of the prover's reach.
* What the row says while operators repair it: `RowTruth` and `RowFits` assume there are none, `KernelRowFits`
  is checked with the bounds of the runs.

## Findings

The run `published` expects a violation:

* An attempt that fails after staging asks whether its object is published and, if not, discards the version
  it holds (forecast_execution.py:231). `put_if_absent` gives an overlapping attempt with the same result
  the same version, and if that attempt publishes between the two steps, the object of the published
  artifact is deleted. ADR-0032 (line 14) says that a successful artifact is immutable and that
  repeated execution commits idempotently.

The following disagree with a document as well. Each is in the models as it is in the code; no property
that holds speaks of it, and none has a run of its own.

* **Publication.** `publish_candidate` commits the approval (release_routes.py:328) and then sends the update;
  one that overtakes the workflow's WAITING is refused (workflows.py:833) and stays refused under
  its key, while a new key finds the candidate APPROVED. ADR-0038:28 asks for recoverable delivery. A
  validation attempt that runs after one that set FAILED validates again (release_repository.py:785) and
  may pass; M7_RUNBOOK.md:26 says failed candidates remain historical.
* **Kernel.** A cancellation accepted during the last step is lost (workflows.py:79; M2_RUNBOOK.md:40).
  Reconciliation takes a COMPLETED run for SUCCEEDED (workflow_gateway.py:186; M2_RUNBOOK.md:47) and
  writes what was read before its transaction over a terminal row (workflow_repository.py:634), and what a
  retried run projects before `mark_workflow_started` is discarded as STALE_RUN (workflow_repository.py:477);
  ADR-0038:33 says a terminal status does not regress and a new run advances.
* **Sources.** A reparse that fails turns the anchors of the active result UNRESOLVED
  (source_repository.py:2209; DATA_MODEL_BASELINE.md:68 says it does not damage that result). An
  upload found out of time is written EXPIRED by id, over a completion that commits in between. Items of a batch
  that end in overlapping transactions can leave it PROCESSING for ever.
* **Connectors.** A late attempt that fails writes FAILED over SUCCEEDED; an attempt after a lost report is
  refused because the session is complete, so a run whose content was registered fails; a source
  that changes between two attempts registers two contents for one run (ADR-0027 calls the watermark
  idempotent); a failure of parsing or completion leaves the row RUNNING.
* **Review.** Those with `workflow.control` may cancel or decide a review's workflow, after which it ends otherwise
  than its case.
* **Packs.** Whether a pack that is a root and also a dependency of another root is resolved to the version
  asked for depends on the order of the roots (semantic_repository.py:1279;
  STATE_PERMISSION_ERROR_BASELINE.md:25 says ACTIVE means that exact version). An installation
  that disables or rolls back needs an unrevoked pack too, and a revoked pack that is ACTIVE stands in the
  way of every composition. Publication does not look at revocations (ADR-0023:40). The
  breaking verdict may be on a baseline that was replaced since validation.
* **Compilation.** A FAILED job may be turned SUCCEEDED by an older attempt (knowledge_repository.py:373;
  STATE_PERMISSION_ERROR_BASELINE.md:26). An import that is repeated after its edit finds the page
  moved on by its own draft and records a CONFLICT; a file without frontmatter is recorded as
  DRAFT_CREATED though nothing is drafted.
* **Access.** Two first grants of one subject, with a revocation in between, insert a row whose policy version
  begins again (repository.py:1336; ADR-0019:20). A request that was let in is not reached by a
  revocation (API_CONTRACT_BASELINE.md:24).

## Not modelled

Within modelled components: evaluation runs of their own and `rebuild_release_projection`; the workflow's
step rows and declared signals that nothing sends; previews, downloads, listings and segments, which only
read; signatures and declarations, which are data; entities, links, comments, follows and relations of
the wiki; conflict cases beyond what they do to the release gate; the life cycle of review policies;
the batch size and back-off of the deliveries; later runs of one connector; tokens and browser sessions;
the revocation of tenant roles, for which there is no route. `PROJECT.json` has this per component.

For good: parsers, embeddings, text matching and model calls (data, no shared state), the graph traversal
and queries of a published release (reads), telemetry, contracts, SDKs, the web client, scripts
and deployment (presentation and wiring).
