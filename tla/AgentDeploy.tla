---------------------------- MODULE AgentDeploy ----------------------------
(***************************************************************************)
(* One agent deployment job, advanced by DeployService.poll() in several   *)
(* API processes at once.                                                  *)
(*                                                                         *)
(* A poll reads the job, runs ONE step of the state machine of             *)
(* agent_jobs.advance_agent on a private copy (creating remote resources   *)
(* on the way, some of them behind a checkpoint of their own) and then     *)
(* writes the copy back with a conditional write on (phase, revision).     *)
(* The writer that moves the job to FAILED, and only that one, runs the    *)
(* destructive compensation afterwards.  The lock in poll() covers the     *)
(* polls of one process: two processes (a rolling restart, a front-end     *)
(* poll and the background poller of another task) interleave freely.      *)
(*                                                                         *)
(* Remote resources carry an instance number: 0 is "absent", and a fresh   *)
(* creation never reuses a number.  The job remembers the instance it was  *)
(* given (id) and the executor that created it (owner).                    *)
(***************************************************************************)
EXTENDS Naturals, FiniteSets

CONSTANTS
  Executors,   \* processes (owner_id of a DeployService: one per process)
  Admitter,    \* the executor whose create_job admitted the job
  None,        \* "no owner recorded"
  Builtins,    \* the built-in tools the agent declares
  Managed,     \* memory_config.mode = MANAGED
  OwnRole,     \* agent_role_config.enabled
  Redeploy,    \* the job updates a live runtime (redeploy_runtime_id set)
  Inherited,   \* what the previous deployment of the record left behind
  ToolsCap, PolicyCap, MemoryCap,  \* the three _READY_MAX_ATTEMPTS
  MaxWaits,    \* bound: "not ready yet" answers of the remote services
  MaxFaults    \* bound: crashes, failing calls, unacknowledged writes

Kinds  == Builtins \cup
          {"memory", "role", "runtime", "identity", "record", "grants"}
ByName == {"role", "identity", "grants"}   \* deleted by name, not by id
Kept   == IF Redeploy THEN Inherited \cup {"runtime", "record"} ELSE {}

ASSUME ExecutorsAssumption == /\ IsFiniteSet(Executors)
                              /\ Admitter \in Executors
                              /\ None \notin Executors
ASSUME ConfigAssumption ==
  /\ Managed \in BOOLEAN /\ OwnRole \in BOOLEAN /\ Redeploy \in BOOLEAN
  /\ Builtins \cap {"memory", "role", "runtime", "identity",
                    "record", "grants"} = {}
  /\ Inherited \subseteq Builtins \cup {"memory", "role", "identity"}
  \* create_job refuses a redeploy that changes the built-in tools
  /\ Redeploy => Builtins \subseteq Inherited
ASSUME BoundsAssumption ==
  {ToolsCap, PolicyCap, MemoryCap, MaxWaits, MaxFaults} \subseteq Nat

VARIABLES
  store,   \* the persisted job (DynamoJobStore)
  live,    \* the live instance of each remote resource, 0 if there is none
  made,    \* how many instances of each kind were ever created
  serving, \* which artifact the runtime serves: "old" or "new"
  log,     \* how often the request log was told each outcome
  pc,      \* where each executor is in poll()
  read,    \* expected_phase: the phase each executor read
  loc,     \* the private copy of the job each executor works on
  alive,   \* executors that have not crashed
  waits, faults

remote == <<live, made, serving>>
budget == <<waits, faults>>
vars   == <<store, live, made, serving, log, pc, read, loc, alive, waits,
            faults>>

Phases   == {"QUEUED", "BUILDING", "DEPLOYING", "PROVISIONING", "VERIFYING",
             "READY", "FAILED"}
Terminal == {"READY", "FAILED"}
Owners   == Executors \cup {None}

Job == [phase : Phases, rev : Nat, id : [Kinds -> Nat],
        owner : [Kinds -> Owners], asked : BOOLEAN,
        tools : Nat, policy : Nat, mem : Nat]

StepPCs == {"step", "memory", "roleMade", "tools", "runtime", "register",
            "granted", "request", "asked", "outcome", "commit"}
UndoPCs == {"undo", "undoRecord", "undoRuntime", "undoIdentity", "persist"}
PCs     == {"idle", "log"} \cup StepPCs \cup UndoPCs

(***************************************************************************)
(* The job as create_job stores it.  A new agent already has its draft     *)
(* Registry record, owned by the admitting executor; a redeploy inherits   *)
(* the ids of the memory and of the built-in tools from the live record.   *)
(***************************************************************************)
Admitted ==
  [phase |-> "QUEUED", rev |-> 0,
   id     |-> [k \in Kinds |->
                 IF k = "record" \/ (Redeploy /\ k \in Inherited
                                     /\ k \in Builtins \cup {"memory"})
                 THEN 1 ELSE 0],
   owner  |-> [k \in Kinds |->
                 IF k = "grants" /\ ~Redeploy THEN Admitter ELSE None],
   asked  |-> FALSE, tools |-> 0, policy |-> 0, mem |-> 0]

Init ==
  /\ store   = Admitted
  /\ live    = [k \in Kinds |-> IF k \in Kept \cup {"record"} THEN 1 ELSE 0]
  /\ made    = live
  /\ serving = "old"
  /\ log     = [p \in Terminal |-> 0]
  /\ pc      = [e \in Executors |-> "idle"]
  /\ read    = [e \in Executors |-> "QUEUED"]
  /\ loc     = [e \in Executors |-> Admitted]
  /\ alive   = Executors
  /\ waits   = 0
  /\ faults  = 0

-----------------------------------------------------------------------------
(* Building blocks. *)

At(e, p) == e \in alive /\ pc[e] = p

\* The handler goes on at p with the private copy j.
Go(e, p, j) == /\ pc'  = [pc EXCEPT ![e] = p]
               /\ loc' = [loc EXCEPT ![e] = j]
               /\ UNCHANGED <<read, alive, log>>

\* poll() returns: whatever the private copy held is forgotten.
Return(e) == /\ pc'   = [pc EXCEPT ![e] = "idle"]
             /\ loc'  = [loc EXCEPT ![e] = Admitted]
             /\ read' = [read EXCEPT ![e] = "QUEUED"]

Moved(j, p) == [j EXCEPT !.phase = p]
Fail(e)     == Go(e, "commit", Moved(loc[e], "FAILED"))

\* Mutant of Claimed: id and owner swapped.
ClaimedSwapped(j, k, n, e) == [j EXCEPT !.id[k] = e, !.owner[k] = n]

\* The job records instance n of k, and its creator when it was made now.
Took(j, k, n)       == [j EXCEPT !.id[k] = n]
Claimed(j, k, n, e) == [j EXCEPT !.id[k] = n, !.owner[k] = e]

\* A remote call creates a fresh instance of each kind in S.
Create(S) ==
  /\ live' = [k \in Kinds |-> IF k \in S THEN made[k] + 1 ELSE live[k]]
  /\ made' = [k \in Kinds |-> IF k \in S THEN made[k] + 1 ELSE made[k]]

\* A remote call deletes what job j names as the kinds in S.
Delete(S, j) ==
  live' = [k \in Kinds |-> IF k \in S /\ (k \in ByName \/ live[k] = j.id[k])
                           THEN 0 ELSE live[k]]

Forget(j, S) ==
  [j EXCEPT !.id    = [k \in Kinds |-> IF k \in S THEN 0 ELSE @[k]],
            !.owner = [k \in Kinds |-> IF k \in S THEN None ELSE @[k]]]

Wait  == waits < MaxWaits /\ waits' = waits + 1 /\ UNCHANGED faults
Fault == faults < MaxFaults /\ faults' = faults + 1 /\ UNCHANGED waits

\* Mutant of Current: an unconditional put.
CurrentBlind(e) == TRUE
\* put_if_phase: the stored phase and revision are the ones that were read.
Current(e) == store.phase = read[e] /\ store.rev = loc[e].rev
Bumped(j)  == [j EXCEPT !.rev = @ + 1]

-----------------------------------------------------------------------------
(* poll(): read the job; a terminal one is returned as it is. *)


\* Mutant of Load: the terminal shortcut is missing.
LoadTerminal(e) ==
  /\ At(e, "idle")
  /\ pc'   = [pc EXCEPT ![e] = "step"]
  /\ loc'  = [loc EXCEPT ![e] = store]
  /\ read' = [read EXCEPT ![e] = store.phase]
  /\ UNCHANGED <<store, remote, log, alive, budget>>

\* Mutant of Load: only the process that admitted the job advances it.
LoadOwnJobs(e) ==
  /\ At(e, "idle") /\ e = Admitter
  /\ store.phase \notin Terminal
  /\ pc'   = [pc EXCEPT ![e] = "step"]
  /\ loc'  = [loc EXCEPT ![e] = store]
  /\ read' = [read EXCEPT ![e] = store.phase]
  /\ UNCHANGED <<store, remote, log, alive, budget>>

Load(e) ==
  /\ At(e, "idle")
  /\ store.phase \notin Terminal
  /\ pc'   = [pc EXCEPT ![e] = "step"]
  /\ loc'  = [loc EXCEPT ![e] = store]
  /\ read' = [read EXCEPT ![e] = store.phase]
  /\ UNCHANGED <<store, remote, log, alive, budget>>

Stepping(e, p) == At(e, "step") /\ loc[e].phase = p

\* A role this job created has a propagation deadline to wait for.
RoleIsFresh(e) == loc[e].owner["role"] # None

\* "Not ready yet": the poll ends in the phase it began in.
Stay(e) ==
  /\ \/ Stepping(e, "BUILDING") \/ Stepping(e, "DEPLOYING")
     \/ At(e, "runtime") /\ RoleIsFresh(e)
  /\ Wait
  /\ Go(e, "commit", loc[e])
  /\ UNCHANGED <<store, remote>>

\* A remote call of the step raised, or reported a failure: _fail.
StepFails(e) ==
  /\ e \in alive
  /\ pc[e] \in {"step", "memory", "tools", "runtime", "register", "outcome"}
  /\ Fail(e)
  /\ UNCHANGED <<store, remote, budget>>

-----------------------------------------------------------------------------
(* QUEUED: start the build, and the memory with it. *)

StartBuild(e) ==
  /\ Stepping(e, "QUEUED")
  /\ IF ~Managed
     THEN Go(e, "commit", Moved(loc[e], "BUILDING"))
     ELSE IF live["memory"] = 0          \* ensure_agent_memory looks it up
     THEN Go(e, "memory", loc[e])
     ELSE Go(e, "commit",
             Moved(Took(loc[e], "memory", live["memory"]), "BUILDING"))
  /\ UNCHANGED <<store, remote, budget>>

\* create_memory with the job's client token: a concurrent replay that found
\* nothing either is answered with the same memory, and counts as created.
CreateMemory(e) ==
  /\ At(e, "memory")
  /\ IF live["memory"] = 0
     THEN /\ Create({"memory"})
          /\ Go(e, "commit", Moved(
               Claimed(loc[e], "memory", made["memory"] + 1, e), "BUILDING"))
     ELSE /\ Go(e, "commit", Moved(
               Claimed(loc[e], "memory", live["memory"], e), "BUILDING"))
          /\ UNCHANGED <<live, made>>
  /\ UNCHANGED <<store, serving, budget>>

-----------------------------------------------------------------------------
(* BUILDING: the role, the built-in tools, the memory again, the runtime. *)

\* A role created by this step is checkpointed before anything else is tried.
EnsureRole(e) ==
  /\ Stepping(e, "BUILDING")
  /\ OwnRole /\ loc[e].id["role"] = 0
  /\ IF live["role"] = 0
     THEN /\ Create({"role"})
          /\ Go(e, "roleMade", Claimed(loc[e], "role", made["role"] + 1, e))
     ELSE /\ Go(e, "tools", Took(loc[e], "role", live["role"]))
          /\ UNCHANGED <<live, made>>
  /\ UNCHANGED <<store, serving, budget>>

\* _checkpoint_agent_role.  A lost checkpoint raises ConcurrentJobAdvance into
\* the handler's own "except Exception": the step fails, and its commit with
\* it.  After a stored one, attaching the policies may still raise.
CheckpointRole(e) ==
  /\ At(e, "roleMade")
  /\ \/ /\ Current(e)
        /\ store' = Bumped(loc[e])
        /\ \E p \in {"BUILDING", "FAILED"} :
             Go(e, "commit", Moved(Bumped(loc[e]), p))
        /\ UNCHANGED budget
     \/ ~Current(e) /\ Fail(e) /\ UNCHANGED <<store, budget>>
     \/ Fault /\ Fail(e) /\ UNCHANGED store
  /\ UNCHANGED remote

RoleReady(e) ==
  /\ Stepping(e, "BUILDING")
  /\ OwnRole => loc[e].id["role"] # 0
  /\ Go(e, "tools", loc[e])
  /\ UNCHANGED <<store, remote, budget>>

MissingTools(e) == {k \in Builtins : loc[e].id[k] = 0}

\* Mutant of EnsureTools: the ids are put on the job only after the last call.
EnsureToolsAllOrNothing(e) ==
  /\ At(e, "tools")
  /\ MissingTools(e) # {}
  /\ \E S \in SUBSET MissingTools(e) :
       /\ Create({k \in S : live[k] = 0})
       /\ IF S = MissingTools(e)
          THEN Go(e, "commit",
                  [loc[e] EXCEPT
                     !.id    = [k \in Kinds |-> IF k \in S THEN made[k] + 1
                                                ELSE @[k]],
                     !.owner = [k \in Kinds |-> IF k \in S THEN e ELSE @[k]]])
          ELSE Fail(e)
  /\ UNCHANGED <<store, serving, budget>>

\* One ensure_builtin_tool per missing kind, in turn: a later one may raise,
\* and the successful creations stay on the job.
EnsureTools(e) ==
  /\ At(e, "tools")
  /\ MissingTools(e) # {}
  /\ \E S \in SUBSET MissingTools(e) :
       LET new == {k \in S : live[k] = 0} IN
       /\ Create(new)
       /\ Go(e, "commit",
             [loc[e] EXCEPT
                !.phase = IF S = MissingTools(e) THEN @ ELSE "FAILED",
                !.id    = [k \in Kinds |-> IF k \in new THEN made[k] + 1
                             ELSE IF k \in S THEN live[k] ELSE @[k]],
                !.owner = [k \in Kinds |-> IF k \in new THEN e ELSE @[k]]])
  /\ UNCHANGED <<store, serving, budget>>

ToolsPending(e) ==
  /\ At(e, "tools") /\ Builtins # {} /\ MissingTools(e) = {}
  /\ Wait
  /\ LET j == [loc[e] EXCEPT !.tools = @ + 1] IN
     Go(e, "commit", IF j.tools >= ToolsCap THEN Moved(j, "FAILED") ELSE j)
  /\ UNCHANGED <<store, remote>>

\* The memory is ensured again; another one than the job's is an error.
ToolsReady(e) ==
  /\ At(e, "tools") /\ MissingTools(e) = {}
  /\ IF Managed /\ live["memory"] = 0
     THEN Create({"memory"}) /\ Fail(e)
     ELSE /\ IF Managed /\ live["memory"] # loc[e].id["memory"]
             THEN Fail(e) ELSE Go(e, "runtime", loc[e])
          /\ UNCHANGED <<live, made>>
  /\ UNCHANGED <<store, serving, budget>>

\* Mutant of WithIdentity: an identity found in place counts as created.
NewIdentity == {k \in {"identity"} : live[k] = 0}
WithIdentityTaken(j, e) ==
  Claimed(j, "identity",
          IF NewIdentity # {} THEN made["identity"] + 1 ELSE live["identity"], e)

\* The identity resources come first; then the runtime is updated (redeploy),
\* created, or, when its name is taken, adopted without an owner.
WithIdentity(j, e) ==
  IF NewIdentity # {} THEN Claimed(j, "identity", made["identity"] + 1, e)
                      ELSE Took(j, "identity", live["identity"])

UpdateRuntime(e) ==
  /\ At(e, "runtime") /\ Redeploy
  /\ Create(NewIdentity)
  /\ serving' = "new"
  /\ Go(e, "commit", Moved(
       Took(WithIdentity(loc[e], e), "runtime", 1), "DEPLOYING"))
  /\ UNCHANGED <<store, budget>>

CreateRuntime(e) ==
  /\ At(e, "runtime") /\ ~Redeploy
  /\ IF live["runtime"] = 0
     THEN /\ Create(NewIdentity \cup {"runtime"})
          /\ Go(e, "commit", Moved(
               Claimed(WithIdentity(loc[e], e), "runtime",
                       made["runtime"] + 1, e), "DEPLOYING"))
     ELSE /\ Create(NewIdentity)
          /\ Go(e, "commit", Moved(
               Took(WithIdentity(loc[e], e), "runtime", live["runtime"]),
               "DEPLOYING"))
  /\ UNCHANGED <<store, serving, budget>>

\* IdentityOutboundProvisioningError: identity made, runtime refused.
RuntimeRefused(e) ==
  /\ At(e, "runtime")
  /\ Create(NewIdentity)
  /\ \/ /\ Go(e, "commit", Moved(WithIdentity(loc[e], e), "FAILED"))
        /\ UNCHANGED budget
     \/ Wait /\ RoleIsFresh(e) /\ Go(e, "commit", WithIdentity(loc[e], e))
  /\ UNCHANGED <<store, serving>>

RuntimeUp(e) ==
  /\ Stepping(e, "DEPLOYING")
  /\ Go(e, "commit", Moved(loc[e], "PROVISIONING"))
  /\ UNCHANGED <<store, remote, budget>>

-----------------------------------------------------------------------------
(* PROVISIONING: _register_agent, with a checkpoint after each remote part. *)

\* A lost checkpoint is ConcurrentJobAdvance: poll() returns the winner.
CheckpointAt(e, to) ==
  /\ IF Current(e)
     THEN store' = Bumped(loc[e]) /\ Go(e, to, Bumped(loc[e]))
     ELSE UNCHANGED <<store, log, alive>> /\ Return(e)
  /\ UNCHANGED remote

\* Every new PROVISIONING poll bumps the revision first and so defeats one
\* that is still under way; MaxWaits also bounds how often that happens.
Overtakes(e) == Current(e) /\ \E f \in Executors \ {e} :
                  /\ pc[f] \in {"register", "granted", "request", "asked",
                               "outcome", "commit"}
                  /\ Current(f)

CheckpointRecord(e)  == /\ Stepping(e, "PROVISIONING")
                        /\ CheckpointAt(e, "register")
                        /\ IF Overtakes(e) THEN Wait ELSE UNCHANGED budget
CheckpointGrants(e)  == /\ At(e, "granted") /\ CheckpointAt(e, "request")
                        /\ UNCHANGED budget
CheckpointRequest(e) == /\ At(e, "asked") /\ CheckpointAt(e, "outcome")
                        /\ UNCHANGED budget

\* The read-only baseline: bindings and their Cedar policy.  A replay creates
\* nothing; it resumes the recorded revision, or recovers an unrecorded one
\* when the interrupted poll had not written the policy yet.
Grant(e) ==
  /\ At(e, "register")
  /\ \/ /\ live["grants"] = 0
        /\ Create({"grants"})
        /\ \/ Go(e, "granted", Took(loc[e], "grants", made["grants"] + 1))
           \/ Fail(e)             \* raised after the bindings were written
     \/ /\ live["grants"] # 0
        /\ \E n \in {loc[e].id["grants"], live["grants"]} :
             Go(e, "granted", Took(loc[e], "grants", n))
        /\ UNCHANGED <<live, made>>
     \/ Go(e, "granted", loc[e]) /\ UNCHANGED <<live, made>> \* nothing to grant
  /\ UNCHANGED <<store, serving, budget>>

RequestTools(e) ==
  /\ At(e, "request")
  /\ Go(e, "asked", [loc[e] EXCEPT !.asked = TRUE])
  /\ UNCHANGED <<store, remote, budget>>

\* register() has returned: ownership of what it made is recorded only now,
\* and the outcome of the policy deployment decides.
Owning(j, e) == IF j.id["grants"] # 0 THEN [j EXCEPT !.owner["grants"] = e]
                ELSE j

PolicyOutcome(e) ==
  /\ At(e, "outcome")
  /\ \E p \in {"VERIFYING", "FAILED"} :
       Go(e, "commit", Moved(Owning(loc[e], e), p))
  /\ UNCHANGED <<store, remote, budget>>

PolicyPending(e) ==
  /\ At(e, "outcome") /\ loc[e].id["grants"] # 0
  /\ Wait
  /\ LET j == [Owning(loc[e], e) EXCEPT !.policy = @ + 1] IN
     Go(e, "commit", IF j.policy >= PolicyCap THEN Moved(j, "FAILED") ELSE j)
  /\ UNCHANGED <<store, remote>>

-----------------------------------------------------------------------------
(* VERIFYING: wait for the memory, verify the agent, finalize the record. *)

MemoryPending(e) ==
  /\ Stepping(e, "VERIFYING") /\ Managed
  /\ Wait
  /\ LET j == [loc[e] EXCEPT !.mem = @ + 1] IN
     Go(e, "commit", IF j.mem >= MemoryCap THEN Moved(j, "FAILED") ELSE j)
  /\ UNCHANGED <<store, remote>>

Finalize(e) ==
  /\ Stepping(e, "VERIFYING")
  /\ Go(e, "commit", Moved(loc[e], "READY"))
  /\ UNCHANGED <<store, remote, budget>>

-----------------------------------------------------------------------------
(* The end of poll(): the conditional write, the log, the compensation. *)


\* Mutant of Commit: the log is written and compensation run on a lost race.
CommitRegardless(e) ==
  /\ At(e, "commit")
  /\ store' = IF Current(e) THEN Bumped(loc[e]) ELSE store
  /\ IF loc[e].phase \in Terminal
     THEN Go(e, "log", Bumped(loc[e]))
     ELSE Return(e) /\ UNCHANGED <<log, alive>>
  /\ UNCHANGED <<remote, budget>>

Commit(e) ==
  /\ At(e, "commit")
  /\ IF Current(e)
     THEN /\ store' = Bumped(loc[e])
          /\ IF loc[e].phase \in Terminal
             THEN Go(e, "log", Bumped(loc[e]))
             ELSE Return(e) /\ UNCHANGED <<log, alive>>
     ELSE Return(e) /\ UNCHANGED <<store, log, alive>>
  /\ UNCHANGED <<remote, budget>>

\* The write took effect but its acknowledgement was lost; the client's own
\* retry is refused by the condition and reads like a lost race.
CommitUnacknowledged(e) ==
  /\ At(e, "commit") /\ Current(e)
  /\ Fault
  /\ store' = Bumped(loc[e])
  /\ Return(e)
  /\ UNCHANGED <<remote, log, alive>>

\* Does compensate_failure attempt anything at all on job j?
OwnsGrants(j, e) == \/ j.owner["grants"] = e
                    \/ j.owner["grants"] = None /\ j.owner["runtime"] = e
OwnedEarly(j, e) == {k \in Builtins \cup {"memory"} :
                       j.id[k] # 0 /\ j.owner[k] = e}
OwnedLate(j, e)  == {k \in {"identity", "role"} :
                       j.id[k] # 0 /\ j.owner[k] = e}
OwnsRuntime(j, e) == j.id["runtime"] # 0 /\ ~Redeploy /\ j.owner["runtime"] = e

Attempts(j, e) ==
  \/ OwnedEarly(j, e) # {}
  \/ OwnsGrants(j, e) /\ j.id["record"] # 0
  \/ OwnsRuntime(j, e)
  \/ j.id["runtime"] = 0 /\ OwnedLate(j, e) # {}

\* _record_tool_request_log: only for a job that submitted tool requests.
WriteLog(e) ==
  /\ At(e, "log")
  /\ log' = IF loc[e].asked THEN [log EXCEPT ![loc[e].phase] = @ + 1] ELSE log
  /\ IF loc[e].phase = "FAILED"
        /\ Attempts(loc[e], e)
     THEN pc' = [pc EXCEPT ![e] = "undo"] /\ UNCHANGED <<loc, read>>
     ELSE Return(e)
  /\ UNCHANGED <<store, remote, alive, budget>>

\* Each deletion of owned set S may raise: D is what really went, and a
\* failing one is a fault.
Undo(e, S, next) ==
  \E D \in SUBSET S :
    /\ Delete(D, loc[e])
    /\ Go(e, next, Forget(loc[e], D))
    /\ IF D = S THEN UNCHANGED budget ELSE Fault
    /\ UNCHANGED <<store, made, serving>>

UndoEarly(e) == At(e, "undo") /\ Undo(e, OwnedEarly(loc[e], e), "undoRecord")

\* _compensate_agent_record: a redeploy takes back the grants it recorded; a
\* new agent loses its grants, then its draft record, unless another job
\* holds a reference to the record (module RecordReference) or a call raises.
UndoRecord(e) ==
  /\ At(e, "undoRecord")
  /\ LET grants == IF ~OwnsGrants(loc[e], e) THEN {}
                   ELSE IF ~Redeploy THEN {"grants", "record"}
                   ELSE IF loc[e].id["grants"] # 0 THEN {"grants"} ELSE {}
     IN \E D \in SUBSET grants :
          /\ "record" \in D => "grants" \in D
          /\ Delete(D, loc[e])
          /\ Go(e, "undoRuntime", Forget(loc[e], D \cap {"record"}))
          /\ IF D = grants THEN UNCHANGED budget ELSE Fault
  /\ UNCHANGED <<store, made, serving>>

\* Mutant of UndoRuntime: a runtime deletion that raised is taken as done.
UndoRuntimeOptimistic(e) ==
  /\ At(e, "undoRuntime")
  /\ Go(e, "undoIdentity", loc[e])
  /\ \/ OwnsRuntime(loc[e], e) /\ Delete({"runtime"}, loc[e])
        /\ UNCHANGED budget
     \/ OwnsRuntime(loc[e], e) /\ Fault /\ UNCHANGED live
     \/ ~OwnsRuntime(loc[e], e) /\ UNCHANGED <<live, budget>>
  /\ UNCHANGED <<store, made, serving>>

\* Identity and role go only once the runtime is gone, or never existed.
UndoRuntime(e) ==
  /\ At(e, "undoRuntime")
  /\ \/ /\ OwnsRuntime(loc[e], e)
        /\ Delete({"runtime"}, loc[e])
        /\ Go(e, "undoIdentity", loc[e])
        /\ UNCHANGED budget
     \/ /\ OwnsRuntime(loc[e], e)
        /\ Fault
        /\ Go(e, "persist", loc[e])
        /\ UNCHANGED live
     \/ /\ ~OwnsRuntime(loc[e], e)
        /\ Go(e, IF loc[e].id["runtime"] = 0 THEN "undoIdentity" ELSE "persist",
              loc[e])
        /\ UNCHANGED <<live, budget>>
  /\ UNCHANGED <<store, made, serving>>

UndoIdentity(e) ==
  At(e, "undoIdentity") /\ Undo(e, OwnedLate(loc[e], e), "persist")

\* The second conditional write records what compensation took back.
Persist(e) ==
  /\ At(e, "persist")
  /\ store' = IF store.phase = "FAILED" /\ store.rev = loc[e].rev
              THEN Bumped(loc[e]) ELSE store
  /\ Return(e)
  /\ UNCHANGED <<remote, log, alive, budget>>

-----------------------------------------------------------------------------
(* Failures. *)

\* An exception leaves poll(): nothing is stored, the next poll retries.
Abort(e) ==
  /\ e \in alive /\ pc[e] \in {"step", "granted", "asked", "commit", "persist"}
  /\ Fault
  /\ Return(e)
  /\ UNCHANGED <<store, remote, log, alive>>

\* A process dies; the bound leaves one that never does.
Crash(e) ==
  /\ e \in alive /\ alive # {e}
  /\ Fault
  /\ alive' = alive \ {e}
  /\ Return(e)
  /\ UNCHANGED <<store, remote, log>>

Step(e) ==
  \/ Load(e) \/ Stay(e) \/ StepFails(e)
  \/ StartBuild(e) \/ CreateMemory(e)
  \/ EnsureRole(e) \/ CheckpointRole(e) \/ RoleReady(e)
  \/ EnsureTools(e) \/ ToolsPending(e) \/ ToolsReady(e)
  \/ UpdateRuntime(e) \/ CreateRuntime(e) \/ RuntimeRefused(e) \/ RuntimeUp(e)
  \/ CheckpointRecord(e) \/ Grant(e) \/ CheckpointGrants(e)
  \/ RequestTools(e) \/ CheckpointRequest(e)
  \/ PolicyOutcome(e) \/ PolicyPending(e)
  \/ MemoryPending(e) \/ Finalize(e)
  \/ Commit(e) \/ CommitUnacknowledged(e) \/ WriteLog(e)
  \/ UndoEarly(e) \/ UndoRecord(e) \/ UndoRuntime(e) \/ UndoIdentity(e)
  \/ Persist(e) \/ Abort(e)

Next == \E e \in Executors : Step(e) \/ Crash(e)

\* The background poller visits every unfinished job forever; a crashed
\* executor takes no step, so the fairness binds the surviving ones.
Fairness == \A e \in Executors : WF_vars(Step(e))

Spec     == Init /\ [][Next]_vars
FairSpec == Spec /\ Fairness

-----------------------------------------------------------------------------
(* Properties. *)

TypeOK ==
  /\ store \in Job
  /\ live \in [Kinds -> Nat] /\ made \in [Kinds -> Nat]
  /\ serving \in {"old", "new"}
  /\ log \in [Terminal -> Nat]
  /\ pc \in [Executors -> PCs]
  /\ read \in [Executors -> Phases]
  /\ loc \in [Executors -> Job]
  /\ alive \subseteq Executors
  /\ waits \in Nat /\ faults \in Nat

Names(j) == \A k \in Kinds : j.id[k] # 0 => live[k] = j.id[k]

\* Until a job has failed, every resource it names exists: no executor, late
\* or stale, takes a resource away from a job that still runs or is READY.
\* poll() compensates only after its conditional write of FAILED succeeded.
SurvivorsIntact == store.phase # "FAILED" => Names(store)

\* A redeploy, whatever happens to it, never deletes what the previous
\* deployment of the record left: "created" is what ownership is taken from.
StandingKept == \A k \in Kept : live[k] = 1

\* Only the executor whose write moved the job to FAILED compensates, so two
\* executors never delete the same job's resources.
SingleCompensator ==
  /\ \A e \in Executors : pc[e] \in UndoPCs => store.phase = "FAILED"
  /\ \A e, f \in Executors : pc[e] \in UndoPCs /\ pc[f] \in UndoPCs => e = f

\* The request log is told at most one outcome, and it is the stored one,
\* however many executors reach an outcome of their own.
OneOutcomeLogged ==
  /\ log["READY"] + log["FAILED"] <= 1
  /\ \A p \in Terminal : log[p] > 0 => store.phase = p

\* compensate_failure: the role and the identity an agent runs under are only
\* deleted when the runtime the job names is gone.
RoleOutlivesRuntime ==
  [][\A k \in {"role", "identity"} :
       live[k] # 0 /\ live'[k] = 0 =>
         \/ store.id["runtime"] = 0
         \/ live["runtime"] # store.id["runtime"]]_vars

\* With one executor and no fault, a failed job leaves nothing of its own
\* behind: every remote resource it created was recorded before a failure
\* could lose it, and compensation took it back.
CleanSlate ==
  store.phase = "FAILED" /\ faults = 0 /\ (\A e \in Executors : pc[e] = "idle")
    => \A k \in Kinds : live[k] = IF k \in Kept THEN 1 ELSE 0

\* The phases of an agent's job, each with the one that follows it.
AgentAdvances ==
  {<<"QUEUED", "BUILDING">>, <<"BUILDING", "DEPLOYING">>,
   <<"DEPLOYING", "PROVISIONING">>, <<"PROVISIONING", "VERIFYING">>,
   <<"VERIFYING", "READY">>}

\* What the ledger shows is what DeployLedger promises.
Ledger == INSTANCE DeployLedger
            WITH Advances <- AgentAdvances, phase <- store.phase, intact <- Names(store)
LedgerSpec == Ledger!Spec

\* poller.py: a job finishes although the user has left the page, and although
\* the process that started it has died.
Terminates == <>(store.phase \in Terminal)

-----------------------------------------------------------------------------
(* Claims of the source that the runs refute. *)

\* aws_adapter.create_agent_runtime: overlapping polls leave no orphan runtime.
NoOrphanRuntime ==
  store.phase = "FAILED" /\ faults = 0 /\ (\A e \in Executors : pc[e] = "idle")
    => Redeploy \/ live["runtime"] = 0

\* agent_jobs.advance_agent: after a failed redeploy the existing runtime is
\* as it was, and its users go on with the old version.
OldVersionServed == Redeploy /\ store.phase = "FAILED" => serving = "old"
=============================================================================
