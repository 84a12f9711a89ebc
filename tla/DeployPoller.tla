---------------------------- MODULE DeployPoller ----------------------------
(***************************************************************************)
(* The loop that drives deployment jobs when nobody looks at them:         *)
(* poll_once, run by the background poller and by the "poke" request on    *)
(* one event loop, next to the GET requests of the deployment page, which  *)
(* run in threads of their own.                                            *)
(*                                                                         *)
(* A cycle first retries the governance of finished jobs whose record is   *)
(* still DRAFT: at most Budget jobs, the ones that wait longest first, each *)
(* again after a delay that grows with its attempts.  It then polls every  *)
(* unfinished job in list order, one after the other, awaiting the poll in *)
(* a worker thread; a job that another cycle has in flight is skipped, and *)
(* an exception ends the cycle.  After a poll the status of the job is     *)
(* copied to the request log that users read.                              *)
(*                                                                         *)
(* The bookkeeping of the retries lives in the process: a restart loses it. *)
(* The first part of a cycle runs without an await, so it is one step.     *)
(***************************************************************************)
EXTENDS Integers, FiniteSets

CONSTANTS
  NJobs,      \* the jobs, in the order in which the store lists them
  Budget,     \* _GOVERNANCE_RETRY_PER_CYCLE
  MaxDelay,   \* _GOVERNANCE_BACKOFF_MAX_CYCLES
  Users,      \* what users do: "get", "poke"
  Stuck,      \* jobs whose poll always raises
  Broken,     \* jobs whose record governance never gets out of DRAFT
  MaxLag,     \* bound: cycles for which an overdue retry is counted
  MaxFaults   \* bound: calls that raise, restarts, outages of the Registry

Jobs    == 1 .. NJobs
Drivers == {"poller"} \cup (Users \cap {"poke"})

ASSUME PollerAssumption ==
  /\ NJobs \in Nat \ {0} /\ Budget \in Nat \ {0}
  /\ MaxDelay \in Nat \ {0, 1} /\ MaxLag \in Nat \ {0} /\ MaxFaults \in Nat
  /\ Users \subseteq {"get", "poke"}
  /\ Stuck \subseteq Jobs /\ Broken \subseteq Jobs

VARIABLES
  phase,     \* the job store
  status,    \* the Registry status of each job's record
  log,       \* the status of each job in the request log
  settled,   \* _governance_settled
  tries,     \* _governance_attempts, 0 when the job has no entry
  ahead,     \* _governance_next_cycle - _governance_cycle; for a due job that
             \* was never examined, minus the cycles that passed it over
  inFlight,  \* _in_flight
  cycle,     \* where each run of poll_once is, its jobs and its poll's result
  outage,    \* the Registry does not answer
  faults

vars == <<phase, status, log, settled, tries, ahead, inFlight, cycle, outage,
          faults>>

Retries == <<settled, tries, ahead>>

Phases   == {"queued", "running", "ready", "failed"}
Terminal == {"ready", "failed"}
\* More attempts than this do not lengthen the delay.
MaxTries == (MaxDelay + 1) \div 2

Idle     == [at |-> "idle", todo |-> {}, job |-> 0, fresh |-> "queued"]

Init ==
  /\ phase    = [j \in Jobs |-> "queued"]
  /\ status   = [j \in Jobs |-> "draft"]
  /\ log      = [j \in Jobs |-> "queued"]
  /\ settled  = {}
  /\ tries    = [j \in Jobs |-> 0] /\ ahead = [j \in Jobs |-> 0]
  /\ inFlight = {}
  /\ cycle    = [d \in Drivers |-> Idle]
  /\ outage = FALSE /\ faults = 0

Fault == faults < MaxFaults /\ faults' = faults + 1

-----------------------------------------------------------------------------
(* The retries of governance. *)

\* What remains of the wait of each job once the cycle has begun.
Waiting == [j \in Jobs |-> IF ahead[j] > -MaxLag THEN ahead[j] - 1 ELSE ahead[j]]

\* _retry_pending_governance returns True for these: they consume the budget.
Due == {j \in Jobs : /\ phase[j] = "ready" /\ j \notin settled
                     /\ tries[j] = 0 \/ Waiting[j] <= 0}

\* Mutant of Before: the order of the list.
BeforeInList(i, j) == i < j

\* _governance_candidates: by the cycle at which the job is due, 0 for a job
\* that was never examined, then in the order of the list.
Before(i, j) ==
  LET key(k) == IF tries[k] = 0 THEN -MaxLag - 1 ELSE Waiting[k]
  IN key(i) < key(j) \/ (key(i) = key(j) /\ i < j)

\* The jobs that the cycle examines: the first of the due ones.
Examined == {j \in Due : Cardinality({i \in Due : Before(i, j)}) < Budget}

\* Mutant of Confirmed: a failed attempt settles the job too.
ConfirmedOrTried == Examined

\* A job whose record was seen outside DRAFT is never examined again.
Confirmed == IF outage THEN {} ELSE {j \in Examined : status[j] # "draft"}

\* process_deploy_governance, which swallows its failures: it changes the
\* status when the Registry answers.
Governed(js) == [j \in Jobs |-> IF j \in js /\ ~outage /\ j \notin Broken
                                THEN "decided" ELSE status[j]]

\* _schedule_next_governance_retry.
Tried(j) == IF tries[j] < MaxTries THEN tries[j] + 1 ELSE tries[j]
DelayUncapped(n) == 2 * n                             \* mutant: no maximum
Delay(n) == IF 2 * n < MaxDelay THEN 2 * n ELSE MaxDelay

Retry ==
  LET again == Examined \ Confirmed IN
  /\ settled' = settled \cup Confirmed
  /\ tries'   = [j \in Jobs |-> IF j \in Confirmed THEN 0
                                ELSE IF j \in again THEN Tried(j) ELSE tries[j]]
  /\ ahead'   = [j \in Jobs |-> IF j \in again THEN Delay(Tried(j))
                                ELSE IF j \notin Confirmed /\ (j \in Due \/ tries[j] # 0)
                                THEN Waiting[j] ELSE 0]
  /\ status'  = Governed(again)

-----------------------------------------------------------------------------
(* poll_once. *)

At(d, p)     == cycle[d].at = p
Set(d, c)    == cycle' = [cycle EXCEPT ![d] = c]
\* After the cycle, or its exception: the poller sleeps, the request goes on.
Over(d) == IF d = "poke" THEN [Idle EXCEPT !.at = "sync"] ELSE Idle

Begin(d) ==
  /\ At(d, "idle")
  /\ Retry
  /\ Set(d, [Idle EXCEPT !.at   = "next",
                         !.todo = {j \in Jobs : phase[j] \notin Terminal}])
  /\ UNCHANGED <<phase, log, inFlight, outage, faults>>

Head(todo) == CHOOSE j \in todo : \A k \in todo : j <= k

\* Mutant of Skipped: no guard against a poll of the same job.
SkippedNever(j) == FALSE
Skipped(j) == j \in inFlight

\* The next job of the list: its poll starts in a thread, or it is skipped.
Dispatch(d) ==
  /\ At(d, "next") /\ cycle[d].todo # {}
  /\ LET j == Head(cycle[d].todo)
         rest == cycle[d].todo \ {j}
     IN IF Skipped(j)
        THEN /\ Set(d, [cycle[d] EXCEPT !.todo = rest]) /\ UNCHANGED inFlight
        ELSE /\ Set(d, [cycle[d] EXCEPT !.at = "await", !.todo = rest, !.job = j])
             /\ inFlight' = inFlight \cup {j}
  /\ UNCHANGED <<phase, status, log, Retries, outage, faults>>

End(d) ==
  /\ At(d, "next") /\ cycle[d].todo = {}
  /\ Set(d, Over(d))
  /\ UNCHANGED <<phase, status, log, Retries, inFlight, outage, faults>>

\* DeployService.poll moves an unfinished job on (module AgentDeploy).
Moves(p) == CASE p = "queued"  -> {"running", "failed"}
              [] p = "running" -> {"ready", "failed"}
              [] OTHER         -> {p}

\* The poll in the worker thread; it raises for a stuck job.
Poll(d) ==
  /\ At(d, "await")
  /\ LET j == cycle[d].job IN
     \/ /\ j \notin Stuck
        /\ \E p \in Moves(phase[j]) :
             /\ phase' = [phase EXCEPT ![j] = p]
             /\ Set(d, [cycle[d] EXCEPT !.at = "back", !.fresh = p])
        /\ UNCHANGED faults
     \/ /\ j \in Stuck \/ Fault
        /\ j \in Stuck => UNCHANGED faults
        /\ Set(d, [cycle[d] EXCEPT !.at = "raised"])
        /\ UNCHANGED phase
  /\ UNCHANGED <<status, log, Retries, inFlight, outage>>

\* sync_from_job.
Sync(j, p) == log' = [log EXCEPT ![j] = p]

\* Back on the event loop: the log, then governance; each may raise.
Resume(d) ==
  /\ At(d, "back")
  /\ LET j == cycle[d].job
         p == cycle[d].fresh
         next == [cycle[d] EXCEPT !.at = "next"]
     IN /\ inFlight' = inFlight \ {j}
        /\ \/ /\ Sync(j, p) /\ Set(d, next)
              /\ status' = IF p = "ready" THEN Governed({j}) ELSE status
              /\ UNCHANGED faults
           \/ /\ Sync(j, p) /\ p = "ready" /\ Fault
              /\ Set(d, Over(d)) /\ UNCHANGED status
           \/ /\ Fault /\ Set(d, Over(d)) /\ UNCHANGED <<log, status>>
  /\ UNCHANGED <<phase, Retries, outage>>

\* Mutant of Raise: the job stays in _in_flight.
RaiseKeeps(d) ==
  /\ At(d, "raised")
  /\ Set(d, Over(d))
  /\ UNCHANGED <<phase, status, log, Retries, inFlight, outage, faults>>

\* The poll raised: "finally" takes the job out of _in_flight, and the
\* exception ends the cycle.
Raise(d) ==
  /\ At(d, "raised")
  /\ inFlight' = inFlight \ {cycle[d].job}
  /\ Set(d, Over(d))
  /\ UNCHANGED <<phase, status, log, Retries, outage, faults>>

-----------------------------------------------------------------------------
(* Requests of users. *)

\* The second half of poke_requests, without an await: the jobs of the caller
\* that the log does not show as finished are polled again, and the log follows.
PokeSync(d) ==
  /\ At(d, "sync")
  /\ \E js \in SUBSET {j \in Jobs \ Stuck : log[j] \notin Terminal} :
       \E f \in [js -> Phases] :
         /\ \A j \in js : f[j] \in Moves(phase[j])
         /\ phase' = [j \in Jobs |-> IF j \in js THEN f[j] ELSE phase[j]]
         /\ log'   = [j \in Jobs |-> IF j \in js THEN f[j] ELSE log[j]]
  /\ Set(d, Idle)
  /\ UNCHANGED <<status, Retries, inFlight, outage, faults>>

\* agent_deploy_poll: a poll and the governance of a finished job.  It does
\* not write the request log.
Get(j) ==
  /\ "get" \in Users /\ j \notin Stuck
  /\ \E p \in Moves(phase[j]) :
       /\ phase'  = [phase EXCEPT ![j] = p]
       /\ status' = IF p = "ready" THEN Governed({j}) ELSE status
  /\ UNCHANGED <<log, Retries, inFlight, cycle, outage, faults>>

-----------------------------------------------------------------------------
(* The environment. *)

Restart ==
  /\ Fault
  /\ settled' = {} /\ inFlight' = {}
  /\ tries' = [j \in Jobs |-> 0] /\ ahead' = [j \in Jobs |-> 0]
  /\ cycle' = [d \in Drivers |-> Idle]
  /\ UNCHANGED <<phase, status, log, outage>>

OutageBegins ==
  /\ ~outage /\ outage' = TRUE /\ Fault
  /\ UNCHANGED <<phase, status, log, Retries, inFlight, cycle>>

OutageEnds ==
  /\ outage /\ outage' = FALSE
  /\ UNCHANGED <<phase, status, log, Retries, inFlight, cycle, faults>>

Step(d) == Dispatch(d) \/ End(d) \/ Poll(d) \/ Resume(d) \/ Raise(d) \/ PokeSync(d)

Next ==
  \/ \E d \in Drivers : Begin(d) \/ Step(d)
  \/ \E j \in Jobs : Get(j)
  \/ Restart \/ OutageBegins \/ OutageEnds

\* The poller starts cycle after cycle, and a cycle that was started goes on:
\* the event loop and the worker threads are scheduled, the calls return.  An
\* outage ends.  Users need not come back.
Fairness ==
  /\ WF_vars(Begin("poller"))
  /\ \A d \in Drivers : WF_vars(Step(d))
  /\ WF_vars(OutageEnds)

Spec     == Init /\ [][Next]_vars
FairSpec == Spec /\ Fairness

-----------------------------------------------------------------------------
(* Properties. *)

TypeOK ==
  /\ phase \in [Jobs -> Phases] /\ log \in [Jobs -> Phases]
  /\ status \in [Jobs -> {"draft", "decided"}]
  /\ settled \subseteq Jobs /\ inFlight \subseteq Jobs
  /\ tries \in [Jobs -> 0 .. MaxTries]
  /\ ahead \in [Jobs -> -MaxLag .. MaxDelay]
  /\ \A d \in Drivers :
       /\ cycle[d].at \in {"idle", "next", "await", "back", "raised", "sync"}
       /\ cycle[d].todo \subseteq Jobs /\ cycle[d].job \in Jobs \cup {0}
       /\ cycle[d].fresh \in Phases
  /\ outage \in BOOLEAN /\ faults \in Nat

\* The poller and a poke never have the same job in a worker thread at once
\* (_in_flight), and nothing stays in _in_flight when no cycle polls it, which
\* would bar the job from every later cycle.
InFlightExact ==
  /\ \A d, e \in Drivers : d # e /\ {cycle[d].at, cycle[e].at} \subseteq {"await", "back", "raised"}
                           => cycle[d].job # cycle[e].job
  /\ inFlight = {cycle[d].job : d \in {e \in Drivers : cycle[e].at \in {"await", "back", "raised"}}}

\* No job whose governance is due, for the first time or again, is passed over
\* for MaxLag cycles, however many other records stay in DRAFT and compete for
\* the budget (_governance_candidates).
NoLongWait == \A j \in Jobs : ahead[j] > -MaxLag

\* A finished deployment does not stay in DRAFT for good once the Registry
\* answers, although other records can never be confirmed.
DraftsLeave ==
  \A j \in Jobs \ Broken : phase[j] = "ready" ~> status[j] = "decided"

\* Every job comes to its end without a user, whatever a bounded number of
\* failed cycles and restarts interrupt.
JobsFinish == \A j \in Jobs \ Stuck : <>(phase[j] \in Terminal)

\* The request log comes to show the outcome of every job.
LogFollows ==
  \A j \in Jobs : phase[j] \in Terminal ~> log[j] = phase[j]
=============================================================================
