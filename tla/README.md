# Agora: a verification project

Agora is a marketplace for agents and MCP servers on AWS AgentCore: a FastAPI
backend (`src/api/src/agora`) with a Next.js front end and CDK stacks. This
directory holds TLA+ models of its backend, the TLC configurations that check
them on small instances, and TLAPS proofs. File names below without a path are
in `src/api/src/agora/domains/runtime/deploy/`.

`PROJECT.json` maps every definition to the source lines it models, names the
runs and their properties, gives for every property a plausible bug of the code
that TLC finds with it, and lists the hazards of the code, covered or not.

## 1. The system

| Component | State | Operations | What makes it hard | What makes it correct |
|---|---|---|---|---|
| Agent deployment (`service.py`, `agent_jobs.py`, `jobs_dynamo.py`, `models.py`) | job items in DynamoDB: phase, revision, resource ids and owners | `create_job`, `poll` (= one step of `advance_agent`, conditional write, compensation) | several processes poll one job; a step creates remote resources before it knows whether its write wins; crashes, failing calls, lost replies | the job keeps what it names, one compensator, ownership before deletion, termination |
| Shared drafts (`create_job`, `_compensate_agent_record`, `RECORDREF#` and `AGENT_COMPENSATION#` items) | draft record, set of job ids per record, compensation targets | reserve, initialize, release, claim | deployments of one agent share a draft; any call may raise half way | the draft of an admitted job stays; nothing stranded goes unrecorded |
| Deployment poller (`poller.py`), pokes (`catalog/router.py`), GET (`runtime/router.py`) | in-process `_in_flight`, `_governance_*`; request log | `poll_once`, `run_poller`, `poke_requests`, `agent_deploy_poll` | asyncio and worker threads; bounded retries; restarts lose memory | no double poll, no starvation, every job ends |
| MCP deployment (`jobs.py`, `target_slices.py`, `aws_adapter.py`) | job, Lambda function with an owner marker, one Gateway Target per sensitivity slice, catalog record | `advance`, `compensate_failure`, `create_lambda`, `update_lambda_code` | deployments of one name share the function and the Target names; marker, configuration and code are separate calls | only own Targets are deleted, and late; what a READY job serves stays |
| Governance (`domains/governance`, the aggregate Lambda) | registry status, scan rows, executions, decisions | registration, scans and rescans, automatic verdicts, decisions, two pollers | executions end behind the pollers' back; verdict against decision; swallowed transitions | nothing approved without evidence; a decision stands; a scan ends the review |
| MCP drift ledger (`catalog/mcp/drift_store.py`, `drift_service.py`, `sensitivity.py`) | META item, immutable snapshots, change requests, live Targets, Registry descriptor | `put`, `get`, `commit_change`; request, approve, retry and compensate a change; `_resync` | readers during a swap, lost replies; a change is five remote steps; two observers of one server | the store is one register; the tag agrees everywhere; ledger and Target converge to the server |
| Shared gateway policies (`identity/shared_policy_provisioner.py`, `shared_policy_reclaimer.py`) | numbered Cedar policies of a Gateway | provision, reclaim | no lock, asynchronous validation, resumption, Cedar permits the union of all ACTIVE revisions | never an empty set in place of a live one; success means the ledger's statement; old revisions go |
| Agent policies (`identity/agent_policy_*.py`) | revisions per agent | deploy, observe, reconcile, delete prior | name conflicts, pending deployments | the newest revision is the one in force |
| Managed client (`identity/agent_identity_issuer.py`, stores) | reservation, Cognito client, identity binding, what jobs note | reserve, create, complete, release; tombstone, delete, finalize | crash between create and complete; deployments against three kinds of cleanup, without a lock | one client per agent; a cleanup keeps the trace of what it did not delete |
| Developer identities (`identity/dev_identity_*.py`) | credentials, permits | issue, revoke, sweep | expiry against use | no permit outlives its credential |
| Request authorization (`identity/authorization*.py`, interceptors) | none | decide | many conditions | deny unless every link holds |
| Purge and cleanup (`catalog/purge`, `identity/*_cleanup.py`) | all of an asset | staged deletion | one stage of several fails | what is left is reported |
| Monitoring (`domains/monitoring`) | counters, markers | ingest, replay, repair | at-least-once delivery | a span counts once |
| Catalog, publishing, stats, playground, bundles, web, infra | records, sources | CRUD, streaming, text | little concurrency | - |

The components meet in a few places. `create_job` and `poll` use the registry,
the identity issuer and the grants of `access_router.py`; the poller, pokes and
GET requests all call `DeployService.poll`; a finished job is handed to
governance (`auto_scan.process_deploy_governance`); the drift service reads and
writes the ledger store, the Registry and the Gateway Targets that an MCP deployment
created; the request log is what users read. The service runs as one ECS task with rolling restarts
(`src/infra/lib/portal-stack.ts:170`), so two processes overlap at times. The
locks in the code (`service.py:985`, `_in_flight`) are per process.

## 2. Modules

| Module | What it models |
|---|---|
| `AgentDeploy` | one agent job, polled by several processes |
| `DeployLedger` | abstract: what the ledger promises its readers of one job, an agent's or an MCP server's |
| `AgentDeployProofs` | the invariants of `AgentDeploy`, and that it implements `DeployLedger`, proved |
| `RecordReference`, `MCRecordReference` | the draft that several jobs share |
| `RecordReferenceProofs` | that the draft of an admitted job stays, proved |
| `ManagedClient` | the OAuth client of an agent: reservation, creation, binding and deletion |
| `ManagedClientProofs` | that there is one, that calls are handed it and cleanups do not lose it, proved |
| `MCAgentRecord` | draft and client side by side, for TLC |
| `DeployPoller` | the loop that drives jobs, pokes and page requests |
| `DeployPollerProofs` | that no job is polled twice at once and no retry waits long, proved |
| `McpDeploy` | two deployments of one MCP server name, polled by two processes |
| `McpDeployProofs` | its invariants, and that every job implements `DeployLedger`, proved |
| `MCDeployments` | the loop and the polls of MCP jobs side by side, for TLC |
| `LedgerRegister` | abstract: the drift ledger as an atomic register |
| `DriftLedger` | the rows, snapshots and META item that implement it |
| `DriftLedgerProofs` | that they do, the invariants, and that a list the ledger calls agreed is served, proved |
| `SensitivityChange` | one change of a tool's sensitivity, with its compensation |
| `ConnectedCatalog` | the ledger and Target of a server that changes its tools |
| `GovernanceStatus` | the review status of one record |
| `AssetStatusProofs` | the invariants of `GovernanceStatus` and of `SensitivityChange`, proved |
| `SharedPolicy` | the revisions of a Gateway's shared policy, two callers and the reclaimer |
| `SharedPolicyProofs` | that the Gateway never stands without one, and what success means, proved |
| `MCControlPlane` | drift ledger, sensitivity, catalog, review and policies side by side, for TLC |

### AgentDeploy

`store` is the job item. Each executor (a process, `owner_id`) has a private
copy `loc`, the phase it `read`, and a place `pc` in `poll()`: the handler
(`"step"` and the points between its remote calls), the conditional write
(`"commit"`), the request log (`"log"`), and compensation (`UndoPCs`, `"persist"`).
`Load` begins a poll; each branch of `advance_agent` is an action;
`CheckpointRole`, `CheckpointRecord`, `CheckpointGrants` and `CheckpointRequest`
are its four conditional writes in the middle of a step; `Commit` is the write on (phase,
revision); a writer that moved the job to FAILED goes on to `UndoEarly`,
`UndoRecord`, `UndoRuntime`, `UndoIdentity` and `Persist`, in the order of
`compensate_failure`. `Abort` is an exception that leaves `poll`, `Crash` the
death of a process, `CommitUnacknowledged` a write that was done but whose reply
was lost, so that the executor takes itself for the loser.

Remote resources are numbered instances: `live[k]` is the one that exists,
`made[k]` counts, so that a stale id and a new resource with the same name are
told apart. The job holds, per kind, the id and the owner, as the source's
`*_owner_id` fields do.

Abstractions: the two identity resources (credential provider, workload
identity) are one kind; READ bindings and policy revision are the kind
"grants"; built-in log configuration is folded into waiting; a redeploy always
names a live runtime (`runtime/router.py:456` answers 422 otherwise), so
the rebinding branch at `service.py:2401` is not reached. `MaxWaits` bounds the
answers "not ready yet", which the code does not cap for builds and runtimes:
the services are taken to answer in the end. The same bound limits how often two
executors overtake each other by checkpoints in PROVISIONING.

### RecordReference

One action per remote call of `create_job` (`Find`, `Reserve`, `Peek`, `Refuse`,
`Allow`, `CreateDraft`, `Initialize`, `Rollback`, `Unmake`, `Restore`,
`ProvisionClient`, `Put`, `Leave`) and of `_compensate_agent_record`
(`PutTarget`, `Claim`, `DropTarget`, `Cleanup`, `DeleteRecord`, `Settle`). `Leave` is
the `finally` block. `FaultKinds` says which calls may raise; "projection" is a
`put_if_absent` that stored the job and raised in the monitoring write, "reply"
a deletion that took place and raised. A job's life in between is reduced to
running, ready and failed. All calls are for one agent name, version and principal;
the registry then has at most one draft. Provisioning the OAuth client is atomic here (`ManagedClient` looks inside),
and a record does not leave DRAFT.

### ManagedClient

`reservation` is the item `CLIENT_RESERVATION`, `pool` the Cognito clients with the agent's
name, `boundClient` the identity binding, `noted` the clients that stored jobs name.
A deployment (`issue`) reserves (`ReserveClient`, `ReadReservation`), waits for another
call's client (`ObserveClient`, `AdoptClient`) or makes one (`FindClient`, `CreateClient`,
`ReleaseClient`, `CompleteClient`), is stored (`NoteClient`) and binds it (`BindClient`); a
redeployment takes the bound one. A cleanup (`sweep`) is begun by `Compensate`, `Purge` or
`ReclaimOrphan`, chooses its client (`ChooseBound`, `ChooseReserved`), deletes it under a
tombstone (`Tombstone`, `RemoveClient`, `Finalize`, or `CheckAbsent`) and then the
ledger (`QueryLedger`, `EraseLedger`); a purge goes on to the job rows and the record.
Every remote call is an action and may raise, done or not; a process may die anywhere.
A reservation id is forgotten when its call ends (owner "past"), since no later call can
have it. The bounded attempts of a waiting call (600) are any number: it may give up at each.
`Compensate` begins after the exclusive claim, which `RecordReference` models. The Cedar
revisions that the same cleanup deletes are left out, their failure is `SweepFails`.
Ghosts: `pulled` (a cleanup deleted the reservation of a call that was about to look
for a client or create one), `overlapped` (a call and a cleanup were at work together) and `alone` (nobody else
moved since the cleanup began).

### MCAgentRecord

A behaviour looks at the draft (`MCRecordReference`) or at the client (`ManagedClient`)
and leaves the other at rest: each takes as one step what the other looks into.

### DeployPoller

`poll_once` has no `await` before its first job, so the governance retries of a
cycle are one step (`Begin`), formulated as the set `Examined` of the first
`Budget` due jobs. Then, per job, `Dispatch` (skipping `_in_flight`), `Poll` in a
worker thread and `Resume`, with `Raise` when the poll raised. A poke runs the
same cycle on the same event loop and then `PokeSync`, without `_in_flight`; `Get`
is the page's request, in a thread of its own and without the log. `Restart`
forgets everything in memory. The cycle counter of the code is represented by the
distance `ahead` to a job's next retry, which is not counted below `-MaxLag`;
`NoLongWait` shows that this clamp is never reached. The cap on attempts `MaxTries` loses nothing,
because the delay no longer grows there.

### McpDeploy

`mcpJob` is the stored job, `function` the Lambda function (whose marker, whose
code), `sliceTarget` the Gateway Target that stands under the name of each slice,
identified by the job whose client token created it, `records` the jobs whose
descriptors are in the catalog. A process's poll (`mcpPoll`) has a private copy;
`behind` says that another poll committed the job since it was loaded (the revision
of the conditional write), `fresh` that the function is as last read (`RevisionId`).
`advance` is `StartBuild`, `StillWaits`, `BuildFails`; then `CreateLambda` or
`ExamineLambda`, `ConfigureLambda`, `SettleLambda`, `UpdateCode`; `WireTarget` once
per slice; `CheckTargets`, `RegisterRecord`, `ProvisionPolicy`. `Claim` is the
conditional write, `VerifyOwner`, `DeleteTarget` and `PersistUndone` are
`compensate_failure` and the second write. Every remote call may fail, done or
not; `ProcessDies` also replaces the process's owner id, a fresh uuid per process
(`service.py:443`).

`mcpCase` chooses between two first deployments of one asset (by one principal),
two of different assets under one name, and two redeployments over what an earlier
one left, one slice of which is new. Admission compares names with the catalog only
(`runtime/router.py:268`), so all three are admitted. Finding and creating a Target
is one step: between them no other result is possible than those of `Wired`.

Each job implements `DeployLedger` (`McpLedger(j)`), with the phases of its own kind and
the Targets its row names for what has to be intact. `McpLedgerSpec` states that for all jobs at
once, as an initial condition and one action property, the form TLC accepts under a quantifier.

### MCDeployments

A behaviour runs the cycles of `DeployPoller` or the polls of `McpDeploy` (`side`, among
`Sides`) and leaves the others at rest: what one poll does is in `DeployPoller` the move of a job to its next
phase, so there is no state they share. Jobs and processes of an MCP deployment are permuted (`Alike`).

### DriftLedger, LedgerRegister

A writer loads the ledger, stages rows one by one under a fresh snapshot id (`Open`,
`Stage`), swaps META on the version it read (`Swap`), then deletes the rows of the
snapshot it replaced, or its own when refused. A reader reads META, queries the
rows, reads META again (`ReadMeta`, `Query`, `Recheck`) and tries again up to
`_LEDGER_READ_RETRIES` times. `lostReply` remembers a `put` whose META write was done
and whose reply was not received: `put` then discards the rows META points to
(`drift_store.py:852`), the one case `CommittedKept` excludes; readers still never
return a damaged ledger (`ReadsWhole`). `LedgerAtomic` is the refinement to
`LedgerRegister`: a put takes effect at `Swap`, a get at the second read of META, or at
the first when there is none.

### SensitivityChange

One tool, its ledger entry, its tag in the Registry descriptor and the live Targets that
list it; one change request at a time (the lock item of `create_change`). `Create`,
`Approve`, `Retry`, `Park` and `Begin` are the request's states; `MoveOut`, `MoveIn`,
`UpdateRegistry` and `Commit` apply it, `UndoOut`, `UndoIn`, `UndoRecord` and `Fail`
compensate, in the order of `_apply_change` and `_compensate_after_failure`. `PollRead`
and `PollWrite` are the drift poller between them. Ghosts: `overtaken` (a change was
retried after five minutes while its executor was still running), `cut` (an attempt
died, or said it diverged), and `stale` in the change (the ledger had moved when it
was made, which `create_change` does not compare). The properties say what holds
outside these cases, and the hazards list them.

### ConnectedCatalog

`upstream` is what the server lists, `gateway` the Target's copy, `ledger` Agora's belief.
An observer (the poller, an admin) lists, puts, synchronizes the Target, lists again and
puts the result (`List`, `Put`, `Synchronize`, `Probe`, `Post`), with the re-reads after a
conflict (`PostAgain`, `UnknownAgain`) and `_has_newer_connected_observation`. A failing
step leaves the marks "unknown" and "pending", which bring about the next
synchronization. `flapped`: the server went back to a list that the ledger calls agreed, or that
a synchronization under way may still call so, after the Target had read another one
(`Believed`); no list that Agora reads can show this.

### GovernanceStatus

`latest` is the row with the newest time, `execs` the Step Functions executions,
`govProc` the threads and polls in progress, `settled` the memory of the backstop
(`governance/poller.py`). `Register`, `RunRead`, `RunStore`, `Launch`, `RescanRead`,
`RescanStore`, `RescanLaunch` start scans; when an execution does not start, a rescan
merges the error at once (`RescanRefused`) and a full scan ends as without source
(`SourceMissing`). `Succeed` is the aggregate Lambda; `PollRunning`, `SyncRunning`,
`SyncRead`, `SyncStore` the poll of a running row. `sync_execution` takes the time of the
row it stores when it has described the execution; at that moment the row of the execution was
the latest, and no row of that execution but a poll's is stored after it. So the row it stores is the
latest exactly when a row of the same execution still is, which it replaces
(`SyncStore`); a row that another scan stored since stays. The backstop's loop lists
done assets (`BackstopList`), then running ones (`BackstopRearm`; `Rearm` for an asset it had not
listed) and then asks for the status (`BackstopAsk`); `Apply`, `Settle` are the
verdict, `Decide`, `Decided` a reviewer. `reopens` chooses whether the Registry takes a
decided record back to review. Ghosts: `ruled` (a decision stands), `unseen` (a rescan
ended that the backstop never saw running), `abandoned` (a restart left a running
row without execution).

### SharedPolicy

`policy` is every policy of the engine, by id, with its revision number, the actions it
permits and its status; `declared` and `covered` are what the bindings ask and what live
domain rules already allow. The compiler makes at most one policy of a Gateway, so a
revision is one policy. A call of `provision` reads the ledger (`StartCall`), looks
whether the engine is empty (`SeeEmpty`), lists the revisions (`ListOwned`), checks the
rules that leave nothing to permit (`CheckRules`), finds itself done or resumes the
newest revision (`Compare`) or creates the next one (`CreatePolicy`), waits for
it (`WaitActive`), then deletes the others (`DeleteOld`). The reclaimer is
`ReclaimList`, `Judge`, `Verify`, and `CheckSurvivor` before every `DropStale`. Only the
statement the call wants is kept of what it read of the ledger. A domain rule of the
ledger and its live policy are one thing (`covered`), so a rule whose policy was deleted is
one that is no longer covered. A wait may end at any time, which stands for both budgets
of polls. Ghosts: `cleared` (some call found every action covered by rules
and began to delete all revisions) and `alone` (nothing changed the policies or the
ledger since the call began).

### MCControlPlane

A behaviour runs one of the five services (`Parts`) and leaves the others at rest. At the level of
these modules they share no variable, so no interleaving of two of them is lost that a
property could see; the union is one state space with one set of constants.

## 3. Runs

| Run | Instance | Shows |
|---|---|---|
| `agent_crash` | two processes, own role, managed memory, one fault | `TypeOK`, `SurvivorsIntact`, `SingleCompensator`, `OneOutcomeLogged`, `RoleOutlivesRuntime`, and that `AgentDeploy` implements `DeployLedger` (`LedgerSpec`) |
| `agent_redeploy` | two processes, a redeploy that inherits browser, memory and identity, one fault, fairness | `StandingKept`, `Terminates` |
| `agent_solo` | one process, every kind of resource, two built-in tools, three waits | `CleanSlate`: without a fault of the process a failed deployment leaves nothing |
| `agent_orphan` | two processes, no fault | refutes `NoOrphanRuntime` |
| `agent_stale` | one process, a redeploy, no fault | refutes `OldVersionServed` |
| `agent_record` | draft: two jobs, three calls (one a retry), two faults in admission or cleanup; client: two deployments, cleanups one after the other, four clients, one fault; 3.4 million states | `TypesOK`, `SharedDraftKept`, `AdmittedReferenced`, `StrandedIsRecorded`, `OneClient`, `HandedOut`, `TraceKept` |
| `reference_exclusive` | the jobs and calls of `agent_record` with a raising projection | refutes `ClaimIsExclusive` |
| `deploy_overlap` | two jobs, poller, poke and GET, one fault; two MCP jobs of one name, two processes, one fault; 0.9 million states | `TypesOK`, `InFlightExact`, `ReadyIsServed`, `UndoneAfterClaim`, `OlderUnderNewerMark`, and that MCP jobs implement `DeployLedger` (`McpLedgerSpec`) |
| `poller_retry` | the cycles only: five jobs, two never confirmable, one always raising (last in the list), two faults, fairness | `NoLongWait`, `DraftsLeave`, `JobsFinish` |
| `poller_poke` | two jobs, poller and poke, no fault, fairness | refutes `LogFollows` |
| `control_plane_safety` | each service: two overlapping calls (drift ledger: two writers and a reader), two tools or areas, three writes of a change, one fault or, in the review, one event (the scans end by themselves), in the policies a change of the ledger and no fault; 1.1 million states | `TypesOK`, `ReadsWhole`, `CommittedKept`, `LedgerAtomic`, `TagsAgree`, `ApprovedOnEvidence`, `ReopenedByAdmin`, `RulingStands`, `SuccessIsExact`, `NeverBare` |
| `control_plane_progress` | catalog, review, policies and sensitivity: poller and admin, three changes of the server, two scans of one area, two provisioning calls for one tool, one fault, fairness; one executor with five writes of a change, two faults and three versions of the ledger; 0.7 million states | `AgreedIsServed`, `FailureIsHonest`, `CatalogConverges`, `VerdictReaches`, `StaleReclaimed` |

Bounds. Two processes are the overlap of a rolling restart, and a conditional
write needs no third to lose. One fault reaches every place where a poll can
stop (`Abort`, `Crash`, a failing deletion, a lost reply), each combined with every
interleaving of the other process; the second process then runs free of faults,
as after a restart. Three calls for two jobs give a duplicate request and a
shared draft at once; two faults let a raising admission meet a crashing cleanup.
Four clients let a call adopt one that is gone while others are created and deleted (with
two, this looks impossible), and the fault lets a call die after creating; three clients
with two faults pass too, in ten million states.
Five jobs with a budget of one exceed what a cycle can retry, which is when the order
matters. In the control plane, two writers and three snapshots let a clean-up meet a
discard and a reader; two ledger writes let the poller and an executor exclude each other
(a third only repeats the pattern, at four times the states); three writes of a change
are a request with the retry that overtakes its first executor (two executors, the safety
run), five with two faults and three versions of the ledger are an attempt, its failure with a failing step of the
compensation, and a retry that commits (one executor, the progress run); two executions are a scan
and the rescan over it, and one event in the review is a decision, a failing call or execution, or a
restart at any place of theirs. With more of each the safety properties hold too, by the
theorems of section 5, which know no bounds: the runs are there to show that the models do something
and that the properties can fail. Two deployments of
versions 2 and 3 over version 1 are the smallest that can go back; three policies let
a caller replace what another one resumes while the reclaimer deletes, two tools let a statement
narrow without becoming empty (the safety run), and a fault lets a revision be
rejected, orphaned or not deleted (the progress run). `control_plane_safety`
permutes overlapping calls and tools or areas (`Alike`), which no constant or
definition distinguishes, `agent_record` the deployments of a client and `deploy_overlap` the jobs and
processes of an MCP deployment; the runs with liveness properties use no symmetry. Deadlock is checked in `poller_retry` and
`poller_poke`, where the loop never stops; the others end, when every job is finished or every call has returned.

Fairness. `AgentDeploy`: a process that is alive goes on polling (the background
poller of `poller.py:129-180` visits every unfinished job), and at least one process
survives. `DeployPoller` (and `MCDeployments`): the poller begins cycles and begun cycles go on; an
outage of the registry ends; users, who poke and look, are never obliged to.
`ConnectedCatalog`: the drift poller's loop (`drift_poller.py:18`) never ends and starts the
next round when one fails; an admin's request is not obliged to come, and the server is taken to keep
its tools at some time. `GovernanceStatus`: both pollers come round (`server.py:258-320`),
a thread that runs goes on, and an execution ends. `SharedPolicy`: the reclaimer's loop never ends (`shared_policy_reclaimer.py:43`) and
AWS ends a validation; callers are not obliged to come back. `McpDeploy`, `DriftLedger` and
`SensitivityChange` have safety properties only: a build, an approval or a
synchronization may take for ever.
Faults are bounded and never fair.

## 4. What the violations say

- **`agent_orphan`** (`aws_adapter.py:2308`). The docstring promises that
  overlapping creations leave no orphan runtime. The poll that adopts the runtime
  records no owner (`agent_jobs.py:623`); if its write wins and the job fails later,
  nobody deletes the runtime.
- **`agent_stale`** (`agent_jobs.py:580`). The comment says a failed redeploy leaves
  the old version in service. The runtime is updated in BUILDING; three phases follow
  that may fail, and nothing puts the old artifact back.
- **`reference_exclusive`** (`jobs_dynamo.py:109`, 356). The claim is said to be
  exclusive. `put_if_absent` stores the job and then writes the monitoring
  projection; if that raises, the call takes the job for not admitted and releases
  its reference. The stored job runs on, unprotected.
- **`poller_poke`** (`poller.py:6`, 159). Each advance is said to be copied to the
  request log. The poller writes the job its worker thread returned; a poke
  may have written a later phase meanwhile, and the log stays behind for good.

Three more disagreements are recorded as hazards and are options of the
models: `Stuck = {1}` in `DeployPoller` (a poll that raises every time stops the
jobs behind it), `"reply"` in `RecordReference` (a rollback restores the item of a
deleted record), and a crash between FAILED and compensation in `AgentDeploy`.

What the control-plane models showed and the properties therefore leave out, each
listed as a hazard where the limit of the list allows:

- `aws_adapter.py:1130`: the revision that binds the code to the configuration is read
  again after the configuration update. A newer redeployment that configures and writes its
  code between the two is overwritten by the older code and keeps its marker.
  `OlderUnderNewerMark` says that this is the only way back. The docstring (1043)
  still speaks of binding the code to the revision the configuration update returned.
- `jobs.py:736`, 753: when the shared policy fails after the record was created, the
  Targets are deleted and the record stays; a new attempt of the same version is refused
  as existing (`catalog/registry/aws_adapter.py:191`). The same follows from a
  process that dies between register and claim.
- Two first deployments of one asset that overlap may each get one slice's Target and
  both fail; the one that fails after updating the function leaves its code under the other's Targets.
- `drift_store.py:852`: the lost reply above.
- `drift_store.py:925`, `drift_service.py:1806`: the stale and the overtaken change above.
- `aggregate_handler.py:36-40`: a rescan's row is stored with the rescanned area only, over the
  row in which `rescan_tool` (`scan_service.py:336`) carried the others along; they
  count as not run until the next full scan.
- `governance/poller.py:55`, `scan_service.py:299`: the unseen and the abandoned scan above.
- `shared_policy_provisioner.py:623`: two calls of `provision` that overlap may leave the statement of the
  older reading of the ledger in force, although the later one answered "unchanged"; the
  reclaimer then refuses to delete until somebody provisions again. `SuccessIsExact`
  speaks of calls that nothing crossed, and `StaleReclaimed` of a newest revision that is
  what the ledger asks.
- `identity/dynamo_store.py:1895`, 1678: a cleanup may delete the reservation of a call that is about to
  create a client: with the ledger, since it deletes whatever reservation it finds, or
  after another call put an observed client into it (that checks that the reservation is
  empty, not that the client still exists or whose reservation it is). The next
  deployment then reserves and creates too, and calls that look for one client by name fail on
  two (`agent_identity_issuer.py:113`). `OneClient` excludes this case only, and `HandedOut`
  speaks of histories in which no cleanup crossed a call.
- `identity/agent_policy_service.py:656`: a binding that names a deleted client makes the cleanup find it
  absent and erase the ledger, with the reservation of a newer client that still exists.
  `TraceKept` speaks of the first client.
- `catalog/purge/service.py:285`: a purge whose authorization cleanup failed goes on to delete the
  record, unless a job named a client.
- `queue_router.py:466`: a decision is recorded before the status changes, and a failing
  change is swallowed.

## 5. Proofs

`AgentDeployProofs` proves, for any set of processes, any configuration and
any bounds:

- `TypeCorrect`: `Spec => []TypeOK`
- `OneCompensates`: `Spec => []SingleCompensator`
- `SurvivorsKept`: `Spec => []SurvivorsIntact`
- `StandingNeverDeleted`: `Spec => []StandingKept`
- `LogTellsStoredOutcome`: `Spec => []OneOutcomeLogged`
- `Invariant`: `Spec => []IInv`, from which these follow
- `LedgerKeepsPromise`: `Spec => LedgerSpec`, the refinement of `DeployLedger`
- `RoleStaysUnderRuntime`: `Spec => RoleOutlivesRuntime`
- `NothingIsLeft`: `Spec => []CleanSlate` when `Executors = {Admitter}` and `~Redeploy`
- `NoOrphanAlone`: `Spec => []NoOrphanRuntime` when `Executors = {Admitter}`

None of the safety properties is inductive. `SurvivorsIntact` speaks of the stored
job, but what is stored comes from a private copy taken earlier, and what
is deleted comes from another one. `IInv` therefore adds:

- `ReadersBehind`: a private copy never has a higher revision than the store, and
  if it has the same one, the store is still in the phase that was read; so a copy
  that passes the conditional write is up to date and the job was not finished.
- `OneWinner`: an executor past a terminal write holds the stored outcome, and there
  is one of them at most. It is what makes the deleter unique and late.
- `LogBehind`: the log is empty until the winner has written it.
- `Standing`: inherited resources exist and nobody owns them, in the store and in
  every copy; deletion goes by ownership.
- `NamesExist`: until the job has failed, the store and every running copy name
  resources that exist; with `OneWinner`, nothing is deleted in that time.

The proof that a step keeps `IInv` goes over nine shapes of step (private step,
load, checkpoint, commit, log, undo, ...): each action is shown to have a shape by a lemma of its own, each
shape to preserve the invariant once. The assumptions are those of
`AgentDeploy`: a finite set of executors that contains the admitter, the configuration
flags are Boolean, inherited resources are among those a deployment can leave,
and a redeploy keeps its built-in tools.

Three more invariants rest on it. `Following` says how the place of a handler
determines the phase of its copy from the phase it read: so what a commit writes
is the next phase or FAILED, which is all that `DeployLedger` allows, and every other
step stutters there. `RuntimeInv` is about the instance numbers of the runtime: an
executor that compensates knows the id that is stored, and gets to the identity only
when that instance is gone; a runtime that a late executor creates meanwhile has a higher
number and is another one. `SoloInv` says of one process, until a fault, that whatever
exists is named and owned by the copy in hand, and of each point of the compensation
what it has deleted (`SweptAt`). `NothingIsLeft` is limited as `CleanSlate` is meant: with a second
process the code leaks (`agent_orphan`; `NoOrphanAlone` says that this takes two), and a redeploy keeps the role and identity that its
surviving runtime runs under, also new ones.

`DriftLedgerProofs` proves, for any finite set of tools, any writers and readers, and any
bounds:

- `LedgerInvariant`: `DriftLedgerSpec => []LedgerInv`
- `ReadsAreWhole`: `DriftLedgerSpec => []ReadsWhole`
- `CommittedStays`: `DriftLedgerSpec => []CommittedKept`
- `LedgerImplementsRegister`: `DriftLedgerSpec => LedgerAtomic`
- `CatalogInvariant`, `CatalogTyped`: `ConnectedCatalogSpec => []CatalogInv`, `[]ConnectedCatalogTypeOK`
- `AgreedStaysServed`: `ConnectedCatalogSpec => []AgreedIsServed`

`ReadsWhole` compares what a reader holds with the ledger that was once put, but the
rows it collected may have been deleted under it. `LedgerInv` adds that rows only belong
to the snapshot's own ledger (`RowsBelong`, so a reader can miss tools but not invent
them), that no two writers stage one snapshot and that whatever names a snapshot names one that was
staged (`NamesStaged`), that a snapshot under staging or discard was never published and
one under clean-up no longer is (`DoomedUnpublished`, until a reply was lost), and that a
reader whose version is still META's has META's snapshot (`ReadersSound`). The count of
entries that `get` compares then makes a subset of the ledger the ledger itself, by a
lemma of the library on the cardinality of finite sets. The refinement maps the swap to
`Replace` and the second read of META to `Give`; all other steps stutter.

`AgreedIsServed` speaks of the stored ledger, but an observer that was refused adds its
list to whatever another one put, whether or not that is pending. `CatalogInv` adds that a copy
which is not stale is the ledger (`CopiesCurrent`), and that an observer that has yet to
compare its second list, or found it to be the one it asked for, did so of a Target that
read the server since (`MayAgreeIsServed`): another observer's synchronization only
brings the Target closer, and a server that goes back to that list flaps. What counts as
flapping shows with two tools and five changes of the server only; TLC checks `CatalogInv` and
`CatalogConverges` on two tools too, in seven and two million states.

`McpDeployProofs` proves, for any jobs and processes and any number of faults:

- `DeployInvariant`: `McpSpec => []McpInv`
- `ReadyStaysServed`: `McpSpec => []ReadyIsServed`
- `UndoneLate`: `McpSpec => UndoneAfterClaim`
- `OlderOnlyUnderNewer`: `McpSpec => OlderUnderNewerMark`
- `McpLedgerKeepsPromise`: `McpSpec => McpLedgerSpec`, the refinement of `DeployLedger` by every job

`ReadyIsServed` speaks of stored jobs, deletions come from private copies. `McpInv`
says of every poll that has not lost its claim that its job is unfinished and that the Targets its
copy names stand; and of every poll that compensates that its job is stored as FAILED.
So while a poll deletes a job's Targets, no other poll of that job can still commit. For
the function it says that the marker's version is never below the code's, that it is at
most the version of a poll that examined it and may still configure, and at least that of a
poll that did configure.

The refinement needs two facts more. `CopiesFollow` says that a copy is in the phase of its
row while the poll computes, and in the same, the next or a failed one when it claims, unless another
poll has committed meanwhile: so a claim that succeeds is an `Advance` or a `Fail` of
`DeployLedger`. And the Targets a copy names stand (`CopyStands`), so they do after the claim too. Every other
step leaves the phases alone and takes away no Target that an unfinished or READY job names;
what happens to those of a failed one is `Compensate`. Only the job whose poll moves can change;
`LedgerStep` shows this for each of the steps, for every job at once.

`SharedPolicyProofs` proves, for any tools, any callers and any bounds:

- `SharedPolicyInvariant`: `SharedPolicySpec => []PolicyInv`
- `SharedPolicyTyped`: `SharedPolicySpec => []SharedPolicyTypeOK`
- `NeverLeftBare`: `SharedPolicySpec => NeverBare`
- `ExactInvariant`: `SharedPolicySpec => []ExactInv`
- `SuccessLeavesExact`: `SharedPolicySpec => []SuccessIsExact`

A deletion goes by a list that was read before other calls created and deleted. `PolicyInv`
says that what a call takes for stale is no newer than the revision it counts on, and
that while it deletes, some ACTIVE revision is at least as new as that one. Every deletion
therefore takes away a revision that a newer ACTIVE one outranks (`Safe`), which is what keeps the
witness of every other deleter: if its own is deleted, the one that outranks it takes its
place. The next number is above every listed one because a set of naturals has a least
element (a theorem of the library on well-founded relations). The check of the survivor
before each deletion is not needed for this; it guards against hands outside the code.
`ExactInv` follows one call that nobody crosses: at each of its places it says what the
listed revisions are in terms of what the call has read and made, from which it follows that at its end
the ones in force say what the ledger asks. It needs that an id has one revision number
(`Distinct`), and that calls of `provision` never get to the reclaimer's steps.

`ManagedClientProofs` proves, for any deployments, any cleanups and any bounds:

- `ManagedClientInvariant`: `ManagedClientSpec => []ClientInv`
- `ManagedClientTyped`: `ManagedClientSpec => []ManagedClientTypeOK`
- `OneClientOnly`: `ManagedClientSpec => []OneClient`
- `ServedInvariant`: `ManagedClientSpec => []ServedInv`
- `HandedTheOne`: `ManagedClientSpec => HandedOut`
- `TraceInvariant`, `TraceStays`: `ManagedClientSpec => []TraceInv`, `ManagedClientSpec => TraceKept`

`OneClient` rests on two facts: a call that may still create holds the reservation
(`HoldersOwn`), so it is alone, and between its look and its creation there is no client
(`CreatorsSeeNone`), since only such a call makes one. Everything a cleanup can do keeps both, except
deleting the reservation under the call, which is what `pulled` records: trying to prove the
invariant is what showed that an adopted client leads there too. `HandedOut` needs in
addition that what is written of the client is true (`Served`), up to the first time
a cleanup and a call are at work together; until then `pulled` is false too (`Noticing`).
`TraceKept` is about the last step of a cleanup, which erases the ledger on the strength of what
its earlier steps saw. `TraceInv` says what that is at each of its places, for a cleanup that
nobody disturbs (`Thorough`): it erases when it saw its client gone, or when nothing named one, or
while a job goes on naming it. That takes two facts on what names a client: a reservation that
is not there holds nothing (`Blank`), and every name is of a client that was created (`Real`).

`RecordReferenceProofs` proves, for any agents, jobs and calls, and any bounds:

- `ReferenceInvariant`, `ReferenceTyped`: `Spec => []RefInv`, `Spec => []TypeOK`
- `AdmittedStayReferenced`: `Spec => []AdmittedReferenced`
- `StrandedAreRecorded`: `Spec => []StrandedIsRecorded`
- `ClaimsExclude`: `Spec => []ClaimIsExclusive`
- `DraftInvariant`: `Spec => []DraftInv`
- `SharedDraftStays`: `Spec => []SharedDraftKept`

The first five hold for every set of faults without "projection", the last two for every set
with neither "projection" nor "reply". The hypotheses are needed: `reference_exclusive` refutes
`ClaimIsExclusive` with "projection" alone, so `ClaimsExclude` makes the finding sharp: no other failure, crash or
overlap breaks the claim; and with the second TLC finds a draft that is gone under an admitted job (section
4). The properties speak of admitted jobs, but are decided before: a call that will store its job holds
a reference that it added itself and that no other call of this job has (`HolderOK`,
`OneHolder`), and the call that made the record is alone with it until its item stands
(`MakerOK`, `OneMaker`). So when a compensation claims an item with one reference in it, that is its own,
and after the claim nobody is admitted with the record. `DraftInv` adds that items and rollbacks
are about the draft that exists, so a rollback deletes what its own call made.

`DeployPollerProofs` proves, for any jobs, any budget and any delays:

- `PollerInvariant`, `PollerTyped`: `Spec => []PollerInv`, `Spec => []TypeOK`
- `InFlightIsExact`: `Spec => []InFlightExact`
- `QueueInvariant`, `NobodyWaitsLong`: `Spec => []QueueInv`, `Spec => []NoLongWait`, both when
  `MaxLag >= Cardinality(Jobs \ Stuck)`

`NoLongWait` counts cycles, and what a job waits for are other jobs, so it is proved by an
invariant that relates the two. `Rivals(j)` are the jobs that can still be examined before `j`: it
only loses members, since a job that was examined is confirmed or due later, and
waiting moves all jobs alike; a cycle that passes `j` over examines one of them.
Cycles waited and rivals left therefore never add up to more than the other
jobs (`Patience`), whatever the budget. The hypothesis says that the model's clamp `MaxLag` is no
smaller than the bound to be shown, as in `poller_retry` (4 and 4); the code counts without a clamp.

`AssetStatusProofs` proves, for any areas, pollers, gates and reviewers, and any requests and
admins, and any bounds (a change needs at least two writes and the ledger one version, which
`SensitivityAssumption` asks):

- `GovernanceInvariant`, `GovernanceTyped`: `GovernanceSpec => []GovInv`, `[]GovernanceTypeOK`
- `ApprovedByEvidence`: `GovernanceSpec => []ApprovedOnEvidence`
- `RulingsStand`: `GovernanceSpec => RulingStands`
- `ForgottenAreFinal`: `GovernanceSpec => []ForgetsTheFinal`
- `SensitivityInvariant`, `SensitivityTyped`: `SensitivitySpec => []SensInv`, `[]SensitivityTypeOK`
- `TagsStayAgreed`: `SensitivitySpec => []TagsAgree`
- `FailuresAreHonest`: `SensitivitySpec => []FailureIsHonest`
- `ReopenedByAdminOnly`: `SensitivitySpec => ReopenedByAdmin`

The two components share no state; the module is about what may be done with an asset.
An approval rests on evidence because a row, the base that a rescan carries along, and a
pending verdict never call an area clean that no execution found clean (`LatestFound`,
`BasesFound`, `VerdictsFound`), and results of an execution are not lost: the execution of a
rescan is its own (`Placed`). A decision stands because, as long as it does, nobody has a
verdict against it or can get one from a finished row (`Ruling`).
`ForgetsTheFinal` is what `VerdictReaches` rests on besides fairness: an asset that the backstop
took off its list has a final status, since a final status is only left for a review that a
running row announces (`FinalStays`), and the end of that scan is noticed or `unseen`.
For a change, copies of the ledger with its current version are the ledger
(`CopiesOK`), one request works on the open change until a retry overtakes it (`Alone`), and
descriptor and Targets are as far changed as its step says (`Moving`, `Written`), so that commit
and compensation end with one tag everywhere or with what was there before (`Settled`,
`Honest`).

Every safety and action property that a passing run checks is proved; `TypesOK` of the three MC
modules is the conjunction of types that are proved per component. Only model-checked are the
liveness properties (`Terminates`, `JobsFinish`, `DraftsLeave`, `CatalogConverges`,
`VerdictReaches`, `StaleReclaimed`): they need fairness and ENABLED, beyond this prover. What the
violation runs refute is, of course, not proved; for two of them (`NoOrphanAlone`, `ClaimsExclude`)
the theorems say under which condition it holds.

## 6. Plan

1. Proofs: `ManagedClient` as an implementation of the atomic `ProvisionClient` of
   `RecordReference`.
2. `DriftLedger` used by `SensitivityChange` and `ConnectedCatalog` as the register it is
   proved to be; redeployments that change tools in `SensitivityChange`.
3. `McpDeploy`: the topology check without a sensitivity guard; purge next to a deployment.
4. `SharedPolicy`: the live inventory of Targets, which narrows what a call enumerates.
5. Then agent policies, developer identities, the other stages of a purge, ingestion; and the
   authorization decision as operators against a reference definition.

Runs stay small: two processes, one or two faults, two to five items. Each new
component gets its proof module only if its invariant is worth proving.

## 7. Not modelled

Agent policies, developer identities, monitoring and the stages of a purge that do not
concern an agent's client are planned (section 6). Within what is modelled: tool extraction and the
spec check of an upload, the scanners that answer an area, the overlap review and
approval blocks, the CRUD pages of the drift service, jobs from before the split of
Targets. Verification probes, scaffolding,
playground streaming, front end, CDK stacks and scanner images are I/O, text or
stateless. Contents of tags, policies, manifests and messages are abstracted
everywhere. Calls to AWS services are taken to be atomic and linearizable, as
the code's consistent reads and conditional writes assume; eventual consistency of
IAM appears as waiting for the role.
