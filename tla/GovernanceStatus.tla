-------------------------- MODULE GovernanceStatus --------------------------
(***************************************************************************)
(* The review status of one catalog asset: its scans by Step Functions     *)
(* executions, the automatic verdict, and the decisions of reviewers.      *)
(*                                                                         *)
(* A scan has a row in the governance store, running and then done; the    *)
(* row with the latest time counts.  A full scan covers every area; a      *)
(* rescan repeats one area and takes the others from the scan before.      *)
(* When an execution succeeds its aggregate Lambda stores the row as done; *)
(* a poll of a row that is still running stores what the execution left.   *)
(* Then the verdict of the latest row is applied to the Registry: by who   *)
(* stored it, by the poller that had listed the row as running, or by the  *)
(* backstop, which looks at assets with a done row until it has found      *)
(* their status final, and again after it saw them running.                *)
(*                                                                         *)
(* A process is a request, a background thread or a poller in progress;    *)
(* calls to the Registry and the stores interleave.  Faults: a call fails, *)
(* an execution fails or does not start, the API task restarts.            *)
(***************************************************************************)
EXTENDS Integers, FiniteSets

CONSTANTS
  Areas,        \* the areas the asset's tier requires
  GovProcs,     \* requests and polls that may overlap
  MaxScans,     \* bound: executions
  MaxGovEvents  \* bound: failing calls, failing executions, restarts and decisions

ASSUME GovernanceAssumption ==
  /\ Areas # {} /\ 0 \notin Areas
  /\ MaxScans \in Nat /\ MaxGovEvents \in Nat

VARIABLES
  govStatus,  \* of the Registry record
  reopens,    \* whether the Registry takes a decided record back to review
  latest,     \* the row of the asset's scans with the latest time
  execs,      \* the executions started
  govProc,
  settled,    \* the backstop's memory of this asset
  contacts,   \* its responsible people are on record
  decisions,
  ruled,      \* whether a reviewer's decision stands, with no scan done since
  unseen,     \* a scan ended that the backstop had not seen running
  abandoned,  \* a restart left a row running without execution
  govFaults

govVars == <<govStatus, reopens, latest, execs, govProc, settled, contacts,
             decisions, ruled, unseen, abandoned, govFaults>>

Final == {"APPROVED", "REJECTED"}
NoRow == [id |-> 0, st |-> "none", area |-> 0, good |-> {}, bad |-> {}, err |-> FALSE]
NoExecution == [st |-> "none", area |-> 0, good |-> {}, bad |-> {}]
Free == [pc |-> "idle", id |-> 0, base |-> NoRow, area |-> 0, to |-> "none"]

Rows == [id: 0 .. MaxScans, st: {"none", "running", "done"}, area: Areas \cup {0},
         good: SUBSET Areas, bad: SUBSET Areas, err: BOOLEAN]

GovernanceTypeOK ==
  /\ govStatus \in {"DRAFT", "PENDING"} \cup Final /\ reopens \in BOOLEAN
  /\ latest \in Rows
  /\ execs \in [1 .. MaxScans -> [st: {"none", "reserved", "running", "succeeded", "failed"},
       area: Areas \cup {0}, good: SUBSET Areas, bad: SUBSET Areas]]
  /\ govProc \in [GovProcs ->
       [pc: {"idle", "asked", "full", "launched", "based", "placed", "sync",
             "described", "outcome", "listed", "asking", "apply", "verdict", "human"},
        id: 0 .. MaxScans, base: Rows, area: Areas \cup {0},
        to: Final \cup {"none"}]]
  /\ settled \in BOOLEAN /\ contacts \in BOOLEAN
  /\ decisions \in 0 .. MaxGovEvents /\ ruled \in BOOLEAN
  /\ unseen \in BOOLEAN /\ abandoned \in BOOLEAN
  /\ govFaults \in 0 .. MaxGovEvents

\* A record that was created and not submitted yet.
GovernanceInit ==
  /\ govStatus = "DRAFT" /\ reopens \in BOOLEAN
  /\ latest = NoRow
  /\ execs = [n \in 1 .. MaxScans |-> NoExecution]
  /\ govProc = [p \in GovProcs |-> Free]
  /\ settled = FALSE /\ contacts \in BOOLEAN
  /\ decisions = 0 /\ ruled = FALSE
  /\ unseen = FALSE /\ abandoned = FALSE /\ govFaults = 0

Doing(p, pc) == govProc[p].pc = pc
Onward(p, pc) == govProc' = [govProc EXCEPT ![p].pc = pc]
Done(p) == govProc' = [govProc EXCEPT ![p] = Free]
ToVerdict(p) == govProc' = [govProc EXCEPT ![p] = [Free EXCEPT !.pc = "apply"]]
Bounded == decisions + govFaults < MaxGovEvents
GovFault == Bounded /\ govFaults' = govFaults + 1

StoreDone(row) ==
  /\ latest' = row
  /\ unseen' = (unseen \/ settled)
  /\ ruled' = FALSE

\* submit_for_approval, whose failure is ignored.
Submits ==
  \/ /\ govStatus' = IF govStatus = "DRAFT" \/ reopens THEN "PENDING" ELSE govStatus
     /\ UNCHANGED govFaults
  \/ GovFault /\ UNCHANGED govStatus

\* The bound leaves an execution for one more scan.
Room == Cardinality({p \in GovProcs : govProc[p].pc \in {"asked", "full", "based"}})
          < Cardinality({n \in 1 .. MaxScans : execs[n].st = "none"})

\* The next execution id: scan ids are made from the time.
Reserve(p, pc, area) ==
  \E n \in 1 .. MaxScans :
    /\ execs[n].st = "none" /\ \A k \in 1 .. n - 1 : execs[k].st # "none"
    /\ execs' = [execs EXCEPT ![n] = [@ EXCEPT !.st = "reserved", !.area = area]]
    /\ govProc' = [govProc EXCEPT ![p].pc = pc, ![p].id = n]

(***************************************************************************)
(* Scans                                                                   *)
(***************************************************************************)
\* The registration hook and its retries.
Register ==
  /\ govStatus = "DRAFT"
  /\ govStatus' = "PENDING"
  /\ UNCHANGED <<reopens, latest, execs, govProc, settled, contacts, decisions,
                 ruled, unseen, abandoned, govFaults>>

\* run_async finds no scan running; then it stores a row without id, whatever was
\* stored meanwhile, and leaves the rest to a thread.
RunRead(p) ==
  /\ Doing(p, "idle") /\ latest.st # "running"
  /\ Room
  /\ Onward(p, "asked")
  /\ UNCHANGED <<govStatus, reopens, latest, execs, settled, contacts, decisions,
                 ruled, unseen, abandoned, govFaults>>

RunStore(p) ==
  /\ Doing(p, "asked")
  /\ latest' = [NoRow EXCEPT !.st = "running"]
  /\ Submits
  /\ Onward(p, "full")
  /\ UNCHANGED <<reopens, execs, settled, contacts, decisions, ruled, unseen, abandoned>>

\* run starts the execution; when the source cannot be loaded or the execution
\* does not start, the scan is done, with nothing scanned.
Launch(p) ==
  /\ Doing(p, "full")
  /\ Reserve(p, "launched", 0)
  /\ UNCHANGED <<govStatus, reopens, latest, settled, contacts, decisions, ruled,
                 unseen, abandoned, govFaults>>

SourceMissing(p) ==
  /\ Doing(p, "full")
  /\ GovFault
  /\ StoreDone([NoRow EXCEPT !.st = "done", !.err = TRUE])
  /\ Onward(p, "apply")
  /\ UNCHANGED <<govStatus, reopens, execs, settled, contacts, decisions, abandoned>>

\* The execution runs; then run stores its id, even if its row is done by now.
Launched(p) ==
  LET n == govProc[p].id IN
  /\ Doing(p, "launched") /\ execs[n].st # "none"
  /\ IF execs[n].st = "reserved"
     THEN execs' = [execs EXCEPT ![n].st = "running"] /\ UNCHANGED <<latest, govProc>>
     ELSE /\ latest' = [NoRow EXCEPT !.id = n, !.st = "running"]
          /\ Done(p)
          /\ UNCHANGED execs
  /\ UNCHANGED <<govStatus, reopens, settled, contacts, decisions, ruled, unseen,
                 abandoned, govFaults>>

\* rescan_tool reads the scan it will start from; then it stores a running row
\* that carries that scan's results, and starts the execution of one area.
RescanRead(p, a) ==
  /\ Doing(p, "idle") /\ latest.st = "done" /\ ~ latest.err /\ Room
  /\ govProc' = [govProc EXCEPT ![p].pc = "based", ![p].base = latest, ![p].area = a]
  /\ UNCHANGED <<govStatus, reopens, latest, execs, settled, contacts, decisions,
                 ruled, unseen, abandoned, govFaults>>

RescanStore(p) ==
  LET me == govProc[p] IN
  /\ Doing(p, "based")
  /\ Reserve(p, "placed", me.area)
  /\ \E n \in 1 .. MaxScans :
       /\ execs[n].st # execs'[n].st
       /\ latest' = [me.base EXCEPT !.id = n, !.st = "running", !.area = me.area]
  /\ Submits
  /\ UNCHANGED <<reopens, settled, contacts, decisions, ruled, unseen, abandoned>>

RescanLaunch(p) ==
  /\ Doing(p, "placed")
  /\ execs' = [execs EXCEPT ![govProc[p].id].st = "running"]
  /\ Done(p)
  /\ UNCHANGED <<govStatus, reopens, latest, settled, contacts, decisions, ruled,
                 unseen, abandoned, govFaults>>

\* The execution does not start: that is an outcome, an error of the whole scan,
\* and is merged at once into the scan the rescan began from.
RescanRefused(p) ==
  LET me == govProc[p] IN
  /\ Doing(p, "placed")
  /\ GovFault
  /\ StoreDone([NoRow EXCEPT !.id = me.id, !.st = "done", !.good = me.base.good \ {me.area},
                             !.bad = me.base.bad \ {me.area}, !.err = TRUE])
  /\ ToVerdict(p)
  /\ UNCHANGED <<govStatus, reopens, execs, settled, contacts, decisions, abandoned>>

(***************************************************************************)
(* The end of an execution                                                 *)
(***************************************************************************)
Covered(n) == IF execs[n].area = 0 THEN Areas ELSE {execs[n].area}

\* The row aggregate_handler writes: what this execution scanned, no more.
Aggregated(n, bad) ==
  [NoRow EXCEPT !.id = n, !.st = "done", !.good = Covered(n) \ bad, !.bad = bad]

Succeed(n, bad) ==
  /\ execs[n].st = "running" /\ bad \subseteq Covered(n)
  /\ execs' = [execs EXCEPT ![n] = [@ EXCEPT !.st = "succeeded",
                                    !.good = Covered(n) \ bad, !.bad = bad]]
  /\ \/ StoreDone(Aggregated(n, bad)) /\ UNCHANGED govFaults
     \/ GovFault /\ UNCHANGED <<latest, ruled, unseen>>
  /\ UNCHANGED <<govStatus, reopens, govProc, settled, contacts, decisions, abandoned>>

ExecutionFails(n) ==
  /\ execs[n].st = "running"
  /\ GovFault
  /\ execs' = [execs EXCEPT ![n].st = "failed"]
  /\ UNCHANGED <<govStatus, reopens, latest, govProc, settled, contacts, decisions,
                 ruled, unseen, abandoned>>

(***************************************************************************)
(* Polls                                                                   *)
(***************************************************************************)
\* The gates page or the poller found the asset running.
PollRunning(p) ==
  /\ Doing(p, "idle") /\ latest.st = "running"
  /\ Onward(p, "sync")
  /\ UNCHANGED <<govStatus, reopens, latest, execs, settled, contacts, decisions,
                 ruled, unseen, abandoned, govFaults>>

\* sync_running_stepfn: it reads the row again and describes its execution.  A
\* row without id has none.
SyncRunning(p) ==
  LET row == latest
      over == row.st = "running" /\ row.id # 0 /\ execs[row.id].st \in {"succeeded", "failed"}
  IN
  /\ Doing(p, "sync")
  /\ govProc' = [govProc EXCEPT ![p].pc = IF over THEN "described" ELSE "apply",
                                ![p].id = IF over THEN row.id ELSE 0]
  /\ UNCHANGED <<govStatus, reopens, latest, execs, settled, contacts, decisions,
                 ruled, unseen, abandoned, govFaults>>

\* Mutant of Outcome: the area of a failed rescan counts as scanned.
OutcomeScanned(row, n) ==
  IF execs[n].st = "failed" /\ row.area = 0
  THEN [NoRow EXCEPT !.id = n, !.st = "done", !.good = Areas]
  ELSE [NoRow EXCEPT !.id = n, !.st = "done",
          !.good = (row.good \ {row.area}) \cup
                   (IF execs[n].st = "failed" THEN {row.area} ELSE execs[n].good),
          !.bad = (row.bad \ {row.area}) \cup execs[n].bad]

\* sync_execution: the row that is the latest now says whether this is a rescan,
\* and of which area; merge_partial_scan replaces that area in it.
Outcome(row, n) ==
  IF row.area = 0
  THEN [NoRow EXCEPT !.id = n, !.st = "done", !.good = execs[n].good,
          !.bad = execs[n].bad, !.err = (execs[n].st = "failed")]
  ELSE [NoRow EXCEPT !.id = n, !.st = "done",
          !.good = (row.good \ {row.area}) \cup execs[n].good,
          !.bad = (row.bad \ {row.area}) \cup
                  (IF execs[n].st = "failed" THEN {row.area} ELSE execs[n].bad)]

SyncRead(p) ==
  /\ Doing(p, "described")
  /\ govProc' = [govProc EXCEPT ![p].pc = "outcome",
                                ![p].base = Outcome(latest, govProc[p].id)]
  /\ UNCHANGED <<govStatus, reopens, latest, execs, settled, contacts, decisions,
                 ruled, unseen, abandoned, govFaults>>

\* The row has the time of the description, when the row of this execution was
\* the latest one: it replaces that row, and a row stored since stays the latest.
SyncStore(p) ==
  /\ Doing(p, "outcome")
  /\ IF latest.id = govProc[p].id THEN StoreDone(govProc[p].base)
     ELSE UNCHANGED <<latest, unseen, ruled>>
  /\ ToVerdict(p)
  /\ UNCHANGED <<govStatus, reopens, execs, settled, contacts, decisions, abandoned,
                 govFaults>>

(***************************************************************************)
(* The automatic verdict                                                   *)
(***************************************************************************)
\* compute_gates and gate_summary, for required areas.
Verdict(row) ==
  IF row.st # "done" \/ row.err THEN "none"
  ELSE IF row.bad # {} THEN "REJECTED"
  ELSE IF row.good = Areas THEN "APPROVED" ELSE "none"

Applicable == Verdict(latest) \in Final /\ (Verdict(latest) = "APPROVED" => contacts)

\* apply_verdict_to_registry up to the change of the status: without a verdict or
\* the contacts an approval needs, a block is recorded and the status stays.
Apply(p) ==
  /\ Doing(p, "apply")
  /\ IF Applicable
     THEN /\ govProc' = [govProc EXCEPT ![p].pc = "verdict", ![p].to = Verdict(latest)]
          /\ govStatus' = IF govStatus = "DRAFT" THEN "PENDING" ELSE govStatus
     ELSE Done(p) /\ UNCHANGED govStatus
  /\ UNCHANGED <<reopens, latest, execs, settled, contacts, decisions, ruled,
                 unseen, abandoned, govFaults>>

Settle(p) ==
  /\ Doing(p, "verdict")
  /\ \/ govStatus' = govProc[p].to /\ UNCHANGED govFaults
     \/ GovFault /\ UNCHANGED govStatus
  /\ Done(p)
  /\ UNCHANGED <<reopens, latest, execs, settled, contacts, decisions, ruled,
                 unseen, abandoned>>

\* A rescan that is seen running is looked at again when it is done.
Rearmed == settled /\ latest.st # "running"

Rearm ==
  /\ settled # Rearmed
  /\ settled' = Rearmed
  /\ UNCHANGED <<govStatus, reopens, latest, execs, govProc, contacts, decisions,
                 ruled, unseen, abandoned, govFaults>>

\* Mutant of Closed: an asset is settled when its verdict was looked at once.
ClosedOnce == latest.st = "done"

\* Mutant of Closed: the status is not asked for.
ClosedNever == latest.st = "none"

Closed == govStatus \in Final

\* The backstop's loop: it lists the assets whose scan is done, then those whose
\* scan is running (Rearm, for an asset it had not listed as done), and then asks
\* for the status.  A status it cannot read it asks for the next time.
BackstopList(p) ==
  /\ Doing(p, "idle") /\ latest.st = "done"
  /\ \A q \in GovProcs : govProc[q].pc \notin {"listed", "asking"}
  /\ Onward(p, "listed")
  /\ UNCHANGED <<govStatus, reopens, latest, execs, settled, contacts, decisions,
                 ruled, unseen, abandoned, govFaults>>

BackstopRearm(p) ==
  /\ Doing(p, "listed")
  /\ settled' = Rearmed
  /\ IF settled' THEN Done(p) ELSE Onward(p, "asking")
  /\ UNCHANGED <<govStatus, reopens, latest, execs, contacts, decisions, ruled,
                 unseen, abandoned, govFaults>>

BackstopAsk(p) ==
  /\ Doing(p, "asking")
  /\ settled' = (settled \/ Closed)
  /\ IF Closed THEN Done(p) ELSE Onward(p, "apply")
  /\ UNCHANGED <<govStatus, reopens, latest, execs, contacts, decisions, ruled,
                 unseen, abandoned, govFaults>>

(***************************************************************************)
(* Reviewers                                                               *)
(***************************************************************************)
\* _decide records the decision, then changes the status and ignores a failure.
Decide(p, to) ==
  /\ Doing(p, "idle") /\ Bounded
  /\ to = "APPROVED" => contacts
  /\ decisions' = decisions + 1
  /\ govProc' = [govProc EXCEPT ![p].pc = "human", ![p].to = to]
  /\ govStatus' = IF govStatus = "DRAFT" THEN "PENDING" ELSE govStatus
  /\ UNCHANGED <<reopens, latest, execs, settled, contacts, ruled, unseen,
                 abandoned, govFaults>>

Decided(p) ==
  /\ Doing(p, "human")
  /\ \/ /\ govStatus' = govProc[p].to
        /\ ruled' = (\A q \in GovProcs : govProc[q].pc \notin
                        {"sync", "described", "outcome", "apply", "verdict"})
        /\ UNCHANGED govFaults
     \/ GovFault /\ UNCHANGED <<govStatus, ruled>>
  /\ Done(p)
  /\ UNCHANGED <<reopens, latest, execs, settled, contacts, decisions, unseen, abandoned>>

ContactsGiven ==
  /\ ~ contacts /\ contacts' = TRUE
  /\ UNCHANGED <<govStatus, reopens, latest, execs, govProc, settled, decisions,
                 ruled, unseen, abandoned, govFaults>>

\* The API task restarts: its requests, threads and memory are gone.
GovRestart ==
  /\ GovFault
  /\ govProc' = [p \in GovProcs |-> Free]
  /\ settled' = FALSE
  /\ abandoned' = (abandoned \/ \E p \in GovProcs :
                     govProc[p].pc \in {"full", "launched", "placed"})
  /\ UNCHANGED <<govStatus, reopens, latest, execs, contacts, decisions, ruled, unseen>>

----------------------------------------------------------------------------
Advance(p) ==
  \/ RunStore(p) \/ Launch(p) \/ Launched(p) \/ RescanStore(p) \/ RescanLaunch(p)
  \/ SyncRunning(p) \/ SyncRead(p) \/ SyncStore(p) \/ BackstopRearm(p) \/ BackstopAsk(p)
  \/ Apply(p) \/ Settle(p) \/ Decided(p)

Ends(n) == ExecutionFails(n) \/ \E bad \in SUBSET Areas : Succeed(n, bad)

GovernanceNext ==
  \/ \E p \in GovProcs :
       \/ Advance(p) \/ RunRead(p) \/ SourceMissing(p) \/ RescanRefused(p)
       \/ PollRunning(p) \/ BackstopList(p)
       \/ \E a \in Areas : RescanRead(p, a)
       \/ \E to \in Final : Decide(p, to)
  \/ \E n \in 1 .. MaxScans : Ends(n)
  \/ Register \/ Rearm \/ ContactsGiven \/ GovRestart

\* Threads go on, executions end, and both pollers come round again and again.
GovernanceFairness ==
  /\ \A p \in GovProcs : WF_govVars(Advance(p))
  /\ \A n \in 1 .. MaxScans : WF_govVars(Ends(n))
  /\ WF_govVars(\E p \in GovProcs : PollRunning(p))
  /\ WF_govVars(\E p \in GovProcs : BackstopList(p))

GovernanceSpec ==
  GovernanceInit /\ [][GovernanceNext]_govVars /\ GovernanceFairness

----------------------------------------------------------------------------
\* An asset is only approved without a reviewer when executions have found every
\* area clean, whatever scans and rescans overlapped, failed or were merged.
ApprovedOnEvidence ==
  govStatus = "APPROVED" /\ decisions = 0 =>
    \A a \in Areas : \E n \in 1 .. MaxScans : a \in execs[n].good

\* A scan that was done ends the review when its verdict can be applied, although
\* the row may be stored by the Lambda behind the poller's back, calls fail and
\* the task restarts.  Not when a rescan ended that the backstop never saw
\* running, which it takes for settled, nor when a restart abandoned a scan,
\* whose row stays running.
VerdictReaches ==
  <>[](unseen \/ abandoned \/ (latest.st = "done" /\ (Applicable => govStatus \in Final))
       \/ latest.st = "none")

\* What a reviewer decided is not changed by the pollers until another scan is
\* done, except by a poll that was under way when the decision was made, which
\* does not look at the status again.
RulingStands ==
  [][(ruled /\ ruled' /\ govStatus' \in Final /\ govStatus' # govStatus)
       => \E p \in GovProcs : Doing(p, "human")]_govVars
=============================================================================
