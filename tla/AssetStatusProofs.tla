-------------------------- MODULE AssetStatusProofs --------------------------
(***************************************************************************)
(* Proofs about the two services that decide how an asset of the catalog   *)
(* may be used: GovernanceStatus, whether it is approved, and              *)
(* SensitivityChange, what its tools are tagged with.  They share no state *)
(* and no definition; each has its own invariant, and they are in one      *)
(* module as in MCControlPlane, side by side.                              *)
(*                                                                         *)
(* Governance.  An approval rests on executions because a row never calls  *)
(* an area clean that no execution found clean: rows come from an          *)
(* execution's results, from the row before, or from the scan a rescan     *)
(* started from, and the results of an execution do not change once it     *)
(* has succeeded.  The last needs that the execution a rescan starts is    *)
(* its own.                                                                *)
(*                                                                         *)
(* Sensitivity.  As long as no retry overtakes an executor, one request    *)
(* works on the open change; how far descriptor and Targets are changed    *)
(* is then a function of its step, and the commit and the compensation     *)
(* end where the properties say.  Copies of the ledger with the current    *)
(* version are the ledger, so neither a commit nor the poller writes over  *)
(* what it has not read.                                                   *)
(***************************************************************************)
EXTENDS GovernanceStatus, SensitivityChange, TLAPS

(***************************************************************************)
(* Governance: the parts of the type invariant                             *)
(***************************************************************************)
\* Status, flags and counters; the executions; the processes.
Scalars ==
  /\ govStatus \in {"DRAFT", "PENDING"} \cup Final /\ reopens \in BOOLEAN
  /\ settled \in BOOLEAN /\ contacts \in BOOLEAN
  /\ decisions \in 0 .. MaxGovEvents /\ ruled \in BOOLEAN
  /\ unseen \in BOOLEAN /\ abandoned \in BOOLEAN
  /\ govFaults \in 0 .. MaxGovEvents

Stages == {"none", "reserved", "running", "succeeded", "failed"}
Executions == [st: Stages,
               area: Areas \cup {0}, good: SUBSET Areas, bad: SUBSET Areas]
Pcs == {"idle", "asked", "full", "launched", "based", "placed", "sync", "described",
        "outcome", "listed", "asking", "apply", "verdict", "human"}
Steps == [pc: Pcs, id: 0 .. MaxScans, base: Rows, area: Areas \cup {0}, to: Final \cup {"none"}]
ExecsTyped == execs \in [1 .. MaxScans -> Executions]
ProcsTyped == govProc \in [GovProcs -> Steps]

\* What a process only looks at: whether a scan runs or is done, and the status.
Looks(p) == RunRead(p) \/ BackstopList(p) \/ BackstopRearm(p) \/ BackstopAsk(p)

\* A process that stored what became of an execution goes on to the verdict.
Delivers(p) == SyncStore(p) \/ RescanRefused(p)

(***************************************************************************)
(* Governance: the invariant                                               *)
(***************************************************************************)
\* A process that applies a verdict or a decision has one, and one that waits for
\* an execution or describes one has its id.
StepsTyped == \A p \in GovProcs :
  /\ govProc[p].pc \in {"verdict", "human"} => govProc[p].to \in Final
  /\ govProc[p].pc \in {"launched", "placed", "described"} => govProc[p].id # 0

\* The execution that a scan waits for was reserved.
Started == \A p \in GovProcs :
  govProc[p].pc \in {"launched", "placed"} => execs[govProc[p].id].st # "none"

\* The execution of a rescan that has not started it yet is its own.
Placed == \A p \in GovProcs : govProc[p].pc = "placed" =>
  /\ execs[govProc[p].id].st = "reserved"
  /\ \A q \in GovProcs \ {p} :
       govProc[q].pc \in {"launched", "placed"} => govProc[q].id # govProc[p].id

\* Only an execution that succeeded has results.
NothingYet ==
  \A n \in 1 .. MaxScans : execs[n].st # "succeeded" => execs[n].good = {}

\* Some execution found the area clean.
Found(a) == \E n \in 1 .. MaxScans : a \in execs[n].good
AllFound == \A a \in Areas : Found(a)

\* What the latest row, or the scan a rescan started from, calls clean was found
\* clean by an execution; an approving verdict has all areas found.
LatestFound == \A a \in latest.good : Found(a)
BasesFound == \A p \in GovProcs : \A a \in govProc[p].base.good : Found(a)
VerdictsFound == \A p \in GovProcs :
  govProc[p].pc = "verdict" /\ govProc[p].to = "APPROVED" => AllFound

\* A reviewer who changes the status has recorded a decision.
Decisive == \A p \in GovProcs : govProc[p].pc = "human" => decisions > 0

Approved == govStatus = "APPROVED" /\ decisions = 0 => AllFound

\* While a decision stands no process has a verdict to store, and none can get one
\* from a row that is done.
Ruling == ruled =>
  /\ \A p \in GovProcs : govProc[p].pc # "verdict"
  /\ latest.st = "done" =>
       /\ govStatus \in Final
       /\ \A p \in GovProcs :
            govProc[p].pc \notin {"sync", "described", "outcome", "apply"}

GovInv ==
  /\ Scalars /\ latest \in Rows /\ ExecsTyped /\ ProcsTyped
  /\ StepsTyped /\ Started /\ Placed /\ NothingYet
  /\ LatestFound /\ BasesFound /\ VerdictsFound /\ Decisive /\ Approved /\ Ruling

\* The type invariant of the model, by its parts.
LEMMA TypesParted ==
  GovernanceTypeOK <=> Scalars /\ latest \in Rows /\ ExecsTyped /\ ProcsTyped
BY DEF GovernanceTypeOK, Scalars, ExecsTyped, ProcsTyped, Executions, Stages, Steps, Pcs

\* An asset that was never scanned has a row of the right shape.
LEMMA NoRowTyped == NoRow \in Rows
BY GovernanceAssumption DEF NoRow, Rows

\* A row that a scan leaves when it is done has the right shape.
LEMMA DoneTyped ==
  \A id \in 1 .. MaxScans, good \in SUBSET Areas, bad \in SUBSET Areas :
    /\ [NoRow EXCEPT !.id = id, !.st = "done", !.good = good, !.bad = bad] \in Rows
    /\ \A err \in BOOLEAN :
         [NoRow EXCEPT !.id = id, !.st = "done", !.good = good, !.bad = bad, !.err = err]
           \in Rows
<1> SUFFICES ASSUME NEW id \in 1 .. MaxScans, NEW good \in SUBSET Areas,
                    NEW bad \in SUBSET Areas
             PROVE  /\ [NoRow EXCEPT !.id = id, !.st = "done", !.good = good, !.bad = bad]
                         \in Rows
                    /\ \A err \in BOOLEAN :
                         [NoRow EXCEPT !.id = id, !.st = "done", !.good = good,
                            !.bad = bad, !.err = err] \in Rows
  OBVIOUS
<1>1. id \in 0 .. MaxScans
  BY GovernanceAssumption
<1> QED
  BY <1>1, NoRowTyped DEF Rows

\* A process stays well typed when it only goes on.
LEMMA PcMoves ==
  ASSUME ProcsTyped, NEW p \in GovProcs, NEW pc \in Pcs
  PROVE  [govProc EXCEPT ![p].pc = pc] \in [GovProcs -> Steps]
BY DEF ProcsTyped, Steps

\* A process stays well typed when it goes on with another execution.
LEMMA IdMoves ==
  ASSUME ProcsTyped, NEW p \in GovProcs, NEW pc \in Pcs, NEW id \in 0 .. MaxScans
  PROVE  [govProc EXCEPT ![p].pc = pc, ![p].id = id] \in [GovProcs -> Steps]
BY DEF ProcsTyped, Steps

\* A process stays well typed when it goes on with a verdict.
LEMMA ToMoves ==
  ASSUME ProcsTyped, NEW p \in GovProcs, NEW pc \in Pcs, NEW to \in Final \cup {"none"}
  PROVE  [govProc EXCEPT ![p].pc = pc, ![p].to = to] \in [GovProcs -> Steps]
BY DEF ProcsTyped, Steps

\* A process stays well typed when it goes on with the scan it starts from.
LEMMA BaseMoves ==
  ASSUME ProcsTyped, NEW p \in GovProcs, NEW pc \in Pcs, NEW base \in Rows,
         NEW area \in Areas \cup {0}
  PROVE  [govProc EXCEPT ![p].pc = pc, ![p].base = base, ![p].area = area]
           \in [GovProcs -> Steps]
<1>1. \A f \in [GovProcs -> Steps] : [f EXCEPT ![p].pc = pc] \in [GovProcs -> Steps]
  BY DEF Steps
<1>2. \A f \in [GovProcs -> Steps] : [f EXCEPT ![p].base = base] \in [GovProcs -> Steps]
  BY DEF Steps
<1>3. \A f \in [GovProcs -> Steps] : [f EXCEPT ![p].area = area] \in [GovProcs -> Steps]
  BY DEF Steps
<1> QED
  BY <1>1, <1>2, <1>3 DEF ProcsTyped

\* A process that has nothing to do is well typed.
LEMMA FreeTyped == Free \in Steps
BY NoRowTyped, GovernanceAssumption DEF Free, Steps, Pcs

\* Executions stay well typed when one of them goes on.
LEMMA StageMoves ==
  ASSUME ExecsTyped, NEW n \in 1 .. MaxScans, NEW st \in Stages
  PROVE  [execs EXCEPT ![n].st = st] \in [1 .. MaxScans -> Executions]
BY DEF ExecsTyped, Executions

\* Executions stay well typed when one of them is reserved for a scan.
LEMMA ReservedTyped ==
  ASSUME ExecsTyped, NEW n \in 1 .. MaxScans, NEW st \in Stages, NEW area \in Areas \cup {0}
  PROVE  [execs EXCEPT ![n] = [@ EXCEPT !.st = st, !.area = area]]
           \in [1 .. MaxScans -> Executions]
BY DEF ExecsTyped, Executions

\* Executions stay well typed when one of them ends with its results.
LEMMA ResultsTyped ==
  ASSUME ExecsTyped, NEW n \in 1 .. MaxScans, NEW st \in Stages,
         NEW good \in SUBSET Areas, NEW bad \in SUBSET Areas
  PROVE  [execs EXCEPT ![n] = [@ EXCEPT !.st = st, !.good = good, !.bad = bad]]
           \in [1 .. MaxScans -> Executions]
BY DEF ExecsTyped, Executions

\* Who stores a row.
LEMMA RowsStored ==
  ASSUME [GovernanceNext]_govVars
  PROVE  \/ UNCHANGED latest
         \/ \E p \in GovProcs : RunStore(p) \/ SourceMissing(p) \/ Launched(p) \/ RescanStore(p)
         \/ \E p \in GovProcs : SyncStore(p)
         \/ \E p \in GovProcs : RescanRefused(p)
         \/ \E n \in 1 .. MaxScans, bad \in SUBSET Areas : Succeed(n, bad)
BY DEF GovernanceNext, Advance, Ends, govVars, RunRead, Launch, RescanRead, RescanLaunch,
   PollRunning, SyncRunning, SyncRead, Apply, Settle, Rearm, BackstopList, BackstopRearm,
   BackstopAsk, Decide, Decided, ExecutionFails, Register, ContactsGiven, GovRestart

\* Who changes an execution.
LEMMA ExecutionsChange ==
  ASSUME [GovernanceNext]_govVars
  PROVE  \/ UNCHANGED execs
         \/ \E p \in GovProcs : Launch(p) \/ Launched(p) \/ RescanStore(p) \/ RescanLaunch(p)
         \/ \E n \in 1 .. MaxScans, bad \in SUBSET Areas : Succeed(n, bad)
         \/ \E n \in 1 .. MaxScans : ExecutionFails(n)
BY DEF GovernanceNext, Advance, Ends, govVars, RunRead, RunStore, SourceMissing, RescanRead,
   RescanRefused, PollRunning, SyncRunning, SyncRead, SyncStore, Apply, Settle, Rearm,
   BackstopList, BackstopRearm, BackstopAsk, Decide, Decided, Register, ContactsGiven,
   GovRestart

\* Who changes the status or records a decision.
LEMMA StatusChanges ==
  ASSUME [GovernanceNext]_govVars
  PROVE  \/ UNCHANGED <<govStatus, decisions>>
         \/ \E p \in GovProcs : RunStore(p) \/ RescanStore(p) \/ Apply(p) \/ Settle(p)
         \/ \E p \in GovProcs : Decided(p)
         \/ \E p \in GovProcs, to \in Final : Decide(p, to)
         \/ Register
<1>1. ASSUME NEW p \in GovProcs,
             \/ RunRead(p) \/ Launch(p) \/ SourceMissing(p) \/ Launched(p) \/ RescanLaunch(p)
             \/ RescanRefused(p) \/ \E a \in Areas : RescanRead(p, a)
      PROVE  UNCHANGED <<govStatus, decisions>>
  BY <1>1 DEF RunRead, Launch, SourceMissing, Launched, RescanLaunch, RescanRefused, RescanRead
<1>2. ASSUME NEW p \in GovProcs,
             \/ PollRunning(p) \/ SyncRunning(p) \/ SyncRead(p) \/ SyncStore(p)
             \/ BackstopList(p) \/ BackstopRearm(p) \/ BackstopAsk(p)
      PROVE  UNCHANGED <<govStatus, decisions>>
  BY <1>2 DEF PollRunning, SyncRunning, SyncRead, SyncStore, BackstopList, BackstopRearm,
     BackstopAsk
<1>3. ASSUME \/ Rearm \/ ContactsGiven \/ GovRestart \/ UNCHANGED govVars
             \/ \E n \in 1 .. MaxScans : Ends(n)
      PROVE  UNCHANGED <<govStatus, decisions>>
  BY <1>3 DEF Rearm, ContactsGiven, GovRestart, govVars, Ends, Succeed, ExecutionFails
<1> QED
  BY <1>1, <1>2, <1>3 DEF GovernanceNext, Advance

\* What is not a step of a process changes no process and no decision.
LEMMA ProcsChange ==
  ASSUME [GovernanceNext]_govVars
  PROVE  \/ UNCHANGED <<govProc, decisions>>
         \/ \E p \in GovProcs : RunStore(p) \/ Launch(p) \/ SourceMissing(p) \/ Launched(p)
         \/ \E p \in GovProcs : RescanStore(p) \/ RescanLaunch(p) \/ PollRunning(p) \/ SyncRunning(p)
         \/ \E p \in GovProcs : SyncRead(p) \/ Delivers(p) \/ Apply(p) \/ Settle(p)
         \/ \E p \in GovProcs : Looks(p) \/ Decided(p)
         \/ \E p \in GovProcs, a \in Areas : RescanRead(p, a)
         \/ \E p \in GovProcs, to \in Final : Decide(p, to)
         \/ GovRestart
BY DEF GovernanceNext, Advance, Ends, govVars, Looks, Delivers, Succeed, ExecutionFails,
   Register, Rearm, ContactsGiven

\* Status, flags and counters stay in range: failures and decisions are only counted below
\* the bound.
LEMMA ScalarsStep ==
  ASSUME Scalars, latest \in Rows, ExecsTyped, ProcsTyped, StepsTyped, [GovernanceNext]_govVars
  PROVE  Scalars'
<1>1. ASSUME NEW p \in GovProcs, RunStore(p) PROVE Scalars'
  BY <1>1, GovernanceAssumption DEF RunStore, Submits, GovFault, Onward, Doing,
     Bounded, Scalars, ProcsTyped, Steps, Pcs, StepsTyped, NoRow, NoExecution,
     Free, Final
<1>2. ASSUME NEW p \in GovProcs, Launch(p) PROVE Scalars'
  BY <1>2, GovernanceAssumption DEF Launch, Reserve, Doing, Scalars, ProcsTyped,
     Steps, Pcs, StepsTyped, NoRow, NoExecution, Free, Final
<1>3. ASSUME NEW p \in GovProcs, SourceMissing(p) PROVE Scalars'
  <2>1. govFaults' \in 0 .. MaxGovEvents
    BY <1>3, GovernanceAssumption DEF SourceMissing, GovFault, Bounded, Scalars
  <2>2. QED
    BY <1>3, <2>1 DEF SourceMissing, StoreDone, Scalars, Final, StepsTyped
<1>4. ASSUME NEW p \in GovProcs, Launched(p) PROVE Scalars'
  BY <1>4, GovernanceAssumption DEF Launched, Done, Doing, Scalars, ProcsTyped,
     Steps, Pcs, StepsTyped, NoRow, NoExecution, Free, Final
<1>5. ASSUME NEW p \in GovProcs, NEW a \in Areas, RescanRead(p, a) PROVE Scalars'
  BY <1>5, GovernanceAssumption DEF RescanRead, Doing, Scalars, ProcsTyped, Steps,
     Pcs, StepsTyped, NoRow, NoExecution, Free, Final
<1>6. ASSUME NEW p \in GovProcs, RescanStore(p) PROVE Scalars'
  BY <1>6, GovernanceAssumption DEF RescanStore, Reserve, Submits, GovFault, Doing,
     Bounded, Scalars, ProcsTyped, Steps, Pcs, StepsTyped, NoRow, NoExecution,
     Free, Final
<1>7. ASSUME NEW p \in GovProcs, RescanLaunch(p) PROVE Scalars'
  BY <1>7, GovernanceAssumption DEF RescanLaunch, Done, Doing, Scalars, ProcsTyped,
     Steps, Pcs, StepsTyped, NoRow, NoExecution, Free, Final
<1>8. ASSUME NEW p \in GovProcs, PollRunning(p) PROVE Scalars'
  BY <1>8, GovernanceAssumption DEF PollRunning, Onward, Doing, Scalars,
     ProcsTyped, Steps, Pcs, StepsTyped, NoRow, NoExecution, Free, Final
<1>9. ASSUME NEW p \in GovProcs, SyncRunning(p) PROVE Scalars'
  BY <1>9, GovernanceAssumption DEF SyncRunning, Doing, Scalars, ProcsTyped, Steps,
     Pcs, StepsTyped, NoRow, NoExecution, Free, Final
<1>10. ASSUME NEW p \in GovProcs, SyncRead(p) PROVE Scalars'
  BY <1>10 DEF SyncRead, Scalars, Final
<1>11. ASSUME NEW p \in GovProcs, Apply(p) PROVE Scalars'
  BY <1>11, GovernanceAssumption DEF Apply, Done, Applicable, Verdict, Doing,
     Scalars, ProcsTyped, Steps, Pcs, StepsTyped, NoRow, NoExecution, Free, Final
<1>12. ASSUME NEW p \in GovProcs, Settle(p) PROVE Scalars'
  BY <1>12, GovernanceAssumption DEF Settle, Done, GovFault, Doing, Bounded,
     Scalars, ProcsTyped, Steps, Pcs, StepsTyped, NoRow, NoExecution, Free, Final
<1>13. ASSUME NEW p \in GovProcs, BackstopRearm(p) PROVE Scalars'
  BY <1>13 DEF BackstopRearm, Rearmed, Scalars, Final
<1>14. ASSUME NEW p \in GovProcs, NEW to \in Final, Decide(p, to) PROVE Scalars'
  BY <1>14, GovernanceAssumption DEF Decide, Doing, Bounded, Scalars, ProcsTyped,
     Steps, Pcs, StepsTyped, NoRow, NoExecution, Free, Final
<1>15. ASSUME NEW p \in GovProcs, Decided(p) PROVE Scalars'
  <2>1. govFaults' = govFaults \/ GovFault
    BY <1>15 DEF Decided
  <2>3. govFaults' \in 0 .. MaxGovEvents
    BY <2>1, GovernanceAssumption DEF GovFault, Bounded, Scalars
  <2>2. QED
    BY <1>15, <2>3 DEF Decided, Doing, Scalars, Final, StepsTyped
<1>16. ASSUME NEW n \in 1 .. MaxScans, NEW bad \in SUBSET Areas, Succeed(n, bad) PROVE Scalars'
  <2>1. govFaults' \in 0 .. MaxGovEvents
    BY <1>16, GovernanceAssumption DEF Succeed, GovFault, Bounded, Scalars
  <2>2. QED
    BY <1>16, <2>1 DEF Succeed, StoreDone, Scalars, Final, StepsTyped
<1>17. ASSUME NEW n \in 1 .. MaxScans, ExecutionFails(n) PROVE Scalars'
  BY <1>17, GovernanceAssumption DEF ExecutionFails, GovFault, Bounded, Scalars,
     ProcsTyped, Steps, Pcs, StepsTyped, NoRow, NoExecution, Free, Final
<1>18. ASSUME Register PROVE Scalars'
  BY <1>18, GovernanceAssumption DEF Register, Scalars, ProcsTyped, Steps, Pcs,
     StepsTyped, NoRow, NoExecution, Free, Final
<1>19. ASSUME ContactsGiven PROVE Scalars'
  BY <1>19, GovernanceAssumption DEF ContactsGiven, Scalars, ProcsTyped, Steps,
     Pcs, StepsTyped, NoRow, NoExecution, Free, Final
<1>20. ASSUME GovRestart PROVE Scalars'
  <2>1. govFaults' \in 0 .. MaxGovEvents
    BY <1>20, GovernanceAssumption DEF GovRestart, GovFault, Bounded, Scalars
  <2>2. QED
    BY <1>20, <2>1 DEF GovRestart, Scalars, Final, StepsTyped
<1>21. ASSUME UNCHANGED govVars PROVE Scalars'
  BY <1>21 DEF govVars, Scalars, ProcsTyped, Steps, Pcs, StepsTyped, NoRow,
     NoExecution, Free, Final
<1>22. ASSUME NEW p \in GovProcs, RunRead(p) \/ BackstopList(p) PROVE Scalars'
  BY <1>22 DEF RunRead, BackstopList, Scalars, Final
<1>23. ASSUME NEW p \in GovProcs, BackstopAsk(p) PROVE Scalars'
  BY <1>23 DEF BackstopAsk, Closed, Scalars, Final
<1>24. ASSUME NEW p \in GovProcs, SyncStore(p) PROVE Scalars'
  BY <1>24 DEF SyncStore, StoreDone, Scalars, Final
<1>25. ASSUME NEW p \in GovProcs, RescanRefused(p) PROVE Scalars'
  <2>1. govFaults' \in 0 .. MaxGovEvents
    BY <1>25, GovernanceAssumption DEF RescanRefused, GovFault, Bounded, Scalars
  <2>2. QED
    BY <1>25, <2>1 DEF RescanRefused, StoreDone, Scalars, Final
<1>26. ASSUME Rearm PROVE Scalars'
  BY <1>26 DEF Rearm, Rearmed, Scalars, Final
<1> QED
  BY <1>1, <1>2, <1>3, <1>4, <1>5, <1>6, <1>7, <1>8, <1>9, <1>10, <1>11,
     <1>12, <1>13, <1>14, <1>15, <1>16, <1>17, <1>18, <1>19, <1>20, <1>21,
     <1>22, <1>23, <1>24, <1>25, <1>26
     DEF GovernanceNext, Advance, Ends

\* The row that sync_execution makes of an execution has the right shape.
LEMMA MergedTyped ==
  ASSUME latest \in Rows, ExecsTyped, NEW n \in 1 .. MaxScans
  PROVE  Outcome(latest, n) \in Rows
<1>1. execs[n].good \in SUBSET Areas /\ execs[n].bad \in SUBSET Areas
  BY DEF ExecsTyped, Executions
<1>2. CASE latest.area = 0
  <2>1. [NoRow EXCEPT !.id = n, !.st = "done", !.good = execs[n].good,
           !.bad = execs[n].bad, !.err = (execs[n].st = "failed")] \in Rows
    BY <1>1, DoneTyped
  <2>2. QED
    BY <1>2, <2>1 DEF Outcome
<1>3. CASE latest.area # 0
  <2> DEFINE good == (latest.good \ {latest.area}) \cup execs[n].good
             bad == (latest.bad \ {latest.area}) \cup
                    (IF execs[n].st = "failed" THEN {latest.area} ELSE execs[n].bad)
  <2>1. latest.area \in Areas /\ latest.good \in SUBSET Areas /\ latest.bad \in SUBSET Areas
    BY <1>3 DEF Rows
  <2>2. good \in SUBSET Areas /\ bad \in SUBSET Areas
    BY <1>1, <2>1
  <2>3. Outcome(latest, n) = [NoRow EXCEPT !.id = n, !.st = "done", !.good = good, !.bad = bad]
    BY <1>3 DEF Outcome
  <2> HIDE DEF good, bad
  <2>4. [NoRow EXCEPT !.id = n, !.st = "done", !.good = good, !.bad = bad] \in Rows
    BY <2>2, DoneTyped
  <2>5. QED
    BY <2>3, <2>4
<1> QED
  BY <1>2, <1>3

\* Every action stores a row of the right shape, whoever stores it.
LEMMA LatestStep ==
  ASSUME Scalars, latest \in Rows, ExecsTyped, ProcsTyped, StepsTyped, [GovernanceNext]_govVars
  PROVE  latest' \in Rows
<1>1. ASSUME NEW p \in GovProcs, RunStore(p) PROVE latest' \in Rows
  BY <1>1, NoRowTyped DEF RunStore, Rows
<1>2. ASSUME NEW p \in GovProcs, SourceMissing(p) PROVE latest' \in Rows
  BY <1>2, NoRowTyped DEF SourceMissing, StoreDone, Rows
<1>3. ASSUME NEW p \in GovProcs, Launched(p) PROVE latest' \in Rows
  <2>1. govProc[p].id \in 0 .. MaxScans
    BY DEF ProcsTyped, Steps
  <2>2. QED
    BY <1>3, <2>1, NoRowTyped DEF Launched, Rows
<1>4. ASSUME NEW p \in GovProcs, RescanStore(p) PROVE latest' \in Rows
  <2>1. govProc[p].base \in Rows /\ govProc[p].area \in Areas \cup {0}
    BY DEF ProcsTyped, Steps
  <2>2. PICK n \in 1 .. MaxScans :
          latest' = [govProc[p].base EXCEPT !.id = n, !.st = "running",
                                            !.area = govProc[p].area]
    BY <1>4 DEF RescanStore
  <2>3. [govProc[p].base EXCEPT !.id = n, !.st = "running", !.area = govProc[p].area]
          \in Rows
    <3>1. n \in 0 .. MaxScans
      BY GovernanceAssumption
    <3>2. \A row \in Rows, area \in Areas \cup {0} :
            [row EXCEPT !.id = n, !.st = "running", !.area = area] \in Rows
      BY <3>1 DEF Rows
    <3>3. QED
      BY <2>1, <3>2
  <2>4. QED
    BY <2>2, <2>3
<1>5. ASSUME NEW p \in GovProcs, SyncStore(p) PROVE latest' \in Rows
  <2>1. govProc[p].base \in Rows
    BY DEF ProcsTyped, Steps
  <2>2. latest' = latest \/ latest' = govProc[p].base
    BY <1>5 DEF SyncStore, StoreDone
  <2>3. QED
    BY <2>1, <2>2
<1>6. ASSUME NEW n \in 1 .. MaxScans, NEW bad \in SUBSET Areas, Succeed(n, bad)
      PROVE  latest' \in Rows
  <2>1. bad \in SUBSET Areas /\ Covered(n) \ bad \in SUBSET Areas
    BY DEF Covered, ExecsTyped, Executions
  <2>2. [NoRow EXCEPT !.id = n, !.st = "done", !.good = Covered(n) \ bad, !.bad = bad]
          \in Rows
    BY <2>1, DoneTyped
  <2>3. QED
    BY <1>6, <2>2 DEF Succeed, StoreDone, Aggregated
<1>7. ASSUME UNCHANGED latest PROVE latest' \in Rows
  BY <1>7
<1>8. ASSUME NEW p \in GovProcs, RescanRefused(p) PROVE latest' \in Rows
  <2> DEFINE id == govProc[p].id
             good == govProc[p].base.good \ {govProc[p].area}
             bad == govProc[p].base.bad \ {govProc[p].area}
  <2>1. id \in 1 .. MaxScans
    BY <1>8 DEF RescanRefused, Doing, ProcsTyped, Steps, StepsTyped
  <2>2. good \in SUBSET Areas /\ bad \in SUBSET Areas
    BY DEF ProcsTyped, Steps, Rows
  <2>3. latest' = [NoRow EXCEPT !.id = id, !.st = "done", !.good = good, !.bad = bad,
                                !.err = TRUE]
    BY <1>8 DEF RescanRefused, StoreDone
  <2> HIDE DEF id, good, bad
  <2>4. [NoRow EXCEPT !.id = id, !.st = "done", !.good = good, !.bad = bad, !.err = TRUE]
          \in Rows
    BY <2>1, <2>2, DoneTyped
  <2>5. QED
    BY <2>3, <2>4
<1> QED
  BY <1>1, <1>2, <1>3, <1>4, <1>5, <1>6, <1>7, <1>8,
     RowsStored

\* Every action leaves the executions well typed.
LEMMA ExecsStep ==
  ASSUME Scalars, latest \in Rows, ExecsTyped, ProcsTyped, StepsTyped, [GovernanceNext]_govVars
  PROVE  ExecsTyped'
<1>1. ASSUME NEW p \in GovProcs, Launch(p) PROVE ExecsTyped'
  <2>1. PICK n \in 1 .. MaxScans :
          execs' = [execs EXCEPT ![n] = [@ EXCEPT !.st = "reserved", !.area = 0]]
    BY <1>1 DEF Launch, Reserve
  <2>2. 0 \in Areas \cup {0} /\ "reserved" \in Stages
    BY DEF ProcsTyped, Steps, Stages
  <2>3. [execs EXCEPT ![n] = [@ EXCEPT !.st = "reserved", !.area = 0]]
          \in [1 .. MaxScans -> Executions]
    BY <2>2, ReservedTyped
  <2>4. QED
    BY <2>1, <2>3 DEF ExecsTyped
<1>2. ASSUME NEW p \in GovProcs, Launched(p) PROVE ExecsTyped'
  <2>1. govProc[p].id \in 1 .. MaxScans
    BY <1>2 DEF Launched, Doing, ProcsTyped, Steps, StepsTyped
  <2>2. QED
    BY <1>2, <2>1, StageMoves DEF Launched, ExecsTyped, Stages
<1>3. ASSUME NEW p \in GovProcs, RescanStore(p) PROVE ExecsTyped'
  <2>1. PICK n \in 1 .. MaxScans :
          execs' = [execs EXCEPT ![n] = [@ EXCEPT !.st = "reserved", !.area = govProc[p].area]]
    BY <1>3 DEF RescanStore, Reserve
  <2>2. govProc[p].area \in Areas \cup {0} /\ "reserved" \in Stages
    BY DEF ProcsTyped, Steps, Stages
  <2>3. [execs EXCEPT ![n] = [@ EXCEPT !.st = "reserved", !.area = govProc[p].area]]
          \in [1 .. MaxScans -> Executions]
    BY <2>2, ReservedTyped
  <2>4. QED
    BY <2>1, <2>3 DEF ExecsTyped
<1>4. ASSUME NEW p \in GovProcs, RescanLaunch(p) PROVE ExecsTyped'
  <2>1. govProc[p].id \in 1 .. MaxScans
    BY <1>4 DEF RescanLaunch, Doing, ProcsTyped, Steps, StepsTyped
  <2>2. QED
    BY <1>4, <2>1, StageMoves DEF RescanLaunch, ExecsTyped, Stages
<1>5. ASSUME NEW n \in 1 .. MaxScans, NEW bad \in SUBSET Areas, Succeed(n, bad)
      PROVE  ExecsTyped'
  <2>1. bad \in SUBSET Areas /\ Covered(n) \ bad \in SUBSET Areas /\ "succeeded" \in Stages
    BY DEF Covered, ExecsTyped, Executions, Stages
  <2>2. QED
    BY <1>5, <2>1, ResultsTyped DEF Succeed, ExecsTyped
<1>6. ASSUME NEW n \in 1 .. MaxScans, ExecutionFails(n) PROVE ExecsTyped'
  BY <1>6, StageMoves DEF ExecutionFails, ExecsTyped, Stages
<1>7. ASSUME UNCHANGED execs PROVE ExecsTyped'
  BY <1>7 DEF ExecsTyped
<1> QED
  BY <1>1, <1>2, <1>3, <1>4, <1>5, <1>6, <1>7, ExecutionsChange

\* Every action leaves the processes well typed.
LEMMA ProcsStep ==
  ASSUME Scalars, latest \in Rows, ExecsTyped, ProcsTyped, StepsTyped, [GovernanceNext]_govVars
  PROVE  ProcsTyped'
<1>1. ASSUME NEW p \in GovProcs, RunStore(p) PROVE ProcsTyped'
  BY <1>1, PcMoves DEF RunStore, Onward, ProcsTyped, Pcs
<1>2. ASSUME NEW p \in GovProcs, Launch(p) PROVE ProcsTyped'
  <2>1. PICK n \in 1 .. MaxScans :
          govProc' = [govProc EXCEPT ![p].pc = "launched", ![p].id = n]
    BY <1>2 DEF Launch, Reserve
  <2>2. n \in 0 .. MaxScans /\ "launched" \in Pcs
    BY GovernanceAssumption DEF Pcs
  <2>3. [govProc EXCEPT ![p].pc = "launched", ![p].id = n] \in [GovProcs -> Steps]
    BY <2>2, IdMoves
  <2>4. QED
    BY <2>1, <2>3 DEF ProcsTyped
<1>3. ASSUME NEW p \in GovProcs, SourceMissing(p) PROVE ProcsTyped'
  BY <1>3, PcMoves DEF SourceMissing, Onward, ProcsTyped, Pcs
<1>4. ASSUME NEW p \in GovProcs, Launched(p) PROVE ProcsTyped'
  BY <1>4, FreeTyped DEF Launched, Done, ProcsTyped
<1>5. ASSUME NEW p \in GovProcs, NEW a \in Areas, RescanRead(p, a) PROVE ProcsTyped'
  <2>1. govProc' = [govProc EXCEPT ![p].pc = "based", ![p].base = latest, ![p].area = a]
    BY <1>5 DEF RescanRead
  <2>2. "based" \in Pcs /\ a \in Areas \cup {0}
    BY DEF Pcs
  <2>3. [govProc EXCEPT ![p].pc = "based", ![p].base = latest, ![p].area = a]
          \in [GovProcs -> Steps]
    BY <2>2, BaseMoves
  <2>4. QED
    BY <2>1, <2>3 DEF ProcsTyped
<1>6. ASSUME NEW p \in GovProcs, RescanStore(p) PROVE ProcsTyped'
  <2>1. PICK n \in 1 .. MaxScans :
          govProc' = [govProc EXCEPT ![p].pc = "placed", ![p].id = n]
    BY <1>6 DEF RescanStore, Reserve
  <2>2. n \in 0 .. MaxScans /\ "placed" \in Pcs
    BY GovernanceAssumption DEF Pcs
  <2>3. [govProc EXCEPT ![p].pc = "placed", ![p].id = n] \in [GovProcs -> Steps]
    BY <2>2, IdMoves
  <2>4. QED
    BY <2>1, <2>3 DEF ProcsTyped
<1>7. ASSUME NEW p \in GovProcs, RescanLaunch(p) PROVE ProcsTyped'
  BY <1>7, FreeTyped DEF RescanLaunch, Done, ProcsTyped
<1>8. ASSUME NEW p \in GovProcs, PollRunning(p) PROVE ProcsTyped'
  BY <1>8, PcMoves DEF PollRunning, Onward, ProcsTyped, Pcs
<1>9. ASSUME NEW p \in GovProcs, SyncRunning(p) PROVE ProcsTyped'
  <2>1. latest.id \in 0 .. MaxScans /\ 0 \in 0 .. MaxScans
    BY GovernanceAssumption DEF Rows
  <2>2. \/ govProc' = [govProc EXCEPT ![p].pc = "described", ![p].id = latest.id]
        \/ govProc' = [govProc EXCEPT ![p].pc = "apply", ![p].id = 0]
    BY <1>9 DEF SyncRunning
  <2>3. "described" \in Pcs /\ "apply" \in Pcs
    BY DEF Pcs
  <2>4. [govProc EXCEPT ![p].pc = "described", ![p].id = latest.id] \in [GovProcs -> Steps]
    BY <2>1, <2>3, IdMoves
  <2>5. [govProc EXCEPT ![p].pc = "apply", ![p].id = 0] \in [GovProcs -> Steps]
    BY <2>1, <2>3, IdMoves
  <2>6. QED
    BY <2>2, <2>4, <2>5 DEF ProcsTyped
<1>10. ASSUME NEW p \in GovProcs, Delivers(p) PROVE ProcsTyped'
  <2>1. [Free EXCEPT !.pc = "apply"] \in Steps
    BY FreeTyped DEF Steps, Pcs
  <2>2. govProc' = [govProc EXCEPT ![p] = [Free EXCEPT !.pc = "apply"]]
    BY <1>10 DEF Delivers, SyncStore, RescanRefused, ToVerdict
  <2> DEFINE next == [Free EXCEPT !.pc = "apply"]
  <2> HIDE DEF next
  <2>3. [govProc EXCEPT ![p] = next] \in [GovProcs -> Steps]
    BY <2>1 DEF ProcsTyped, next
  <2>4. QED
    BY <2>2, <2>3 DEF ProcsTyped, next
<1>11. ASSUME NEW p \in GovProcs, Apply(p) PROVE ProcsTyped'
  <2>1. CASE Applicable
    <3>1. govProc' = [govProc EXCEPT ![p].pc = "verdict", ![p].to = Verdict(latest)]
      BY <1>11, <2>1 DEF Apply
    <3>2. Verdict(latest) \in Final \cup {"none"} /\ "verdict" \in Pcs
      BY <2>1 DEF Applicable, Pcs
    <3>3. QED
      BY <3>1, <3>2, ToMoves DEF ProcsTyped
  <2>2. CASE ~ Applicable
    BY <1>11, <2>2, FreeTyped DEF Apply, Done, ProcsTyped
  <2>3. QED
    BY <2>1, <2>2
<1>12. ASSUME NEW p \in GovProcs, Settle(p) PROVE ProcsTyped'
  BY <1>12, FreeTyped DEF Settle, Done, ProcsTyped
<1>13. ASSUME NEW p \in GovProcs, Looks(p) PROVE ProcsTyped'
  <2>1. \/ govProc' = [govProc EXCEPT ![p] = Free]
        \/ \E pc \in Pcs : govProc' = [govProc EXCEPT ![p].pc = pc]
    BY <1>13 DEF Looks, RunRead, BackstopList, BackstopRearm, BackstopAsk, Onward, Done, Pcs
  <2>2. QED
    BY <2>1, FreeTyped, PcMoves DEF ProcsTyped
<1>14. ASSUME NEW p \in GovProcs, NEW to \in Final, Decide(p, to) PROVE ProcsTyped'
  BY <1>14, ToMoves DEF Decide, ProcsTyped, Pcs
<1>15. ASSUME NEW p \in GovProcs, Decided(p) PROVE ProcsTyped'
  BY <1>15, FreeTyped DEF Decided, Done, ProcsTyped
<1>16. ASSUME GovRestart PROVE ProcsTyped'
  BY <1>16, FreeTyped DEF GovRestart, Done, ProcsTyped
<1>17. ASSUME UNCHANGED <<govProc, decisions>> PROVE ProcsTyped'
  BY <1>17 DEF ProcsTyped
<1>18. ASSUME NEW p \in GovProcs, SyncRead(p) PROVE ProcsTyped'
  <2> DEFINE row == Outcome(latest, govProc[p].id)
  <2>1. govProc[p].id \in 1 .. MaxScans
    BY <1>18 DEF SyncRead, Doing, ProcsTyped, Steps, StepsTyped
  <2>2. row \in Rows /\ "outcome" \in Pcs
    BY <2>1, MergedTyped DEF Pcs
  <2>3. govProc' = [govProc EXCEPT ![p].pc = "outcome", ![p].base = row]
    BY <1>18 DEF SyncRead
  <2> HIDE DEF row
  <2>4. [govProc EXCEPT ![p].pc = "outcome", ![p].base = row] \in [GovProcs -> Steps]
    BY <2>2 DEF ProcsTyped, Steps
  <2>5. QED
    BY <2>3, <2>4 DEF ProcsTyped
<1> QED
  BY <1>1, <1>2, <1>3, <1>4, <1>5, <1>6, <1>7, <1>8, <1>9, <1>10, <1>11,
     <1>12, <1>13, <1>14, <1>15, <1>16, <1>17, <1>18,
     ProcsChange

\* What apply_verdict_to_registry does to the processes: it goes on with the latest row's
\* verdict, or ends.
LEMMA ApplyMoves ==
  ASSUME ProcsTyped, NEW p \in GovProcs, Apply(p)
  PROVE  /\ \/ govProc'[p].pc = "idle"
            \/ /\ govProc'[p].pc = "verdict" /\ govProc'[p].to = Verdict(latest)
               /\ Applicable
         /\ \A q \in GovProcs \ {p} : govProc'[q] = govProc[q]
         /\ govProc[p].pc = "apply" /\ UNCHANGED <<latest, execs, decisions, ruled>>
<1>1. govProc[p].pc = "apply" /\ UNCHANGED <<latest, execs, decisions, ruled>>
  BY DEF Apply, Doing
<1>2. CASE Applicable
  <2>1. govProc' = [govProc EXCEPT ![p].pc = "verdict", ![p].to = Verdict(latest)]
    BY <1>2 DEF Apply
  <2>2. QED
    BY <1>1, <1>2, <2>1 DEF ProcsTyped, Steps
<1>3. CASE ~ Applicable
  <2>1. govProc' = [govProc EXCEPT ![p] = Free]
    BY <1>3 DEF Apply, Done
  <2>2. QED
    BY <1>1, <2>1 DEF ProcsTyped, Free
<1> QED
  BY <1>2, <1>3

\* What a process does that only looks: it goes on or ends, and to the verdict only when the
\* status is not final.
LEMMA LookMoves ==
  ASSUME ProcsTyped, NEW p \in GovProcs, Looks(p)
  PROVE  /\ \/ govProc'[p].pc \in {"idle", "asked", "listed", "asking"}
            \/ govProc'[p].pc = "apply" /\ ~ Closed
         /\ govProc'[p].base = govProc[p].base \/ govProc'[p].base = NoRow
         /\ \A q \in GovProcs \ {p} : govProc'[q] = govProc[q]
         /\ UNCHANGED <<govStatus, latest, execs, decisions, ruled>>
<1>1. UNCHANGED <<govStatus, latest, execs, decisions, ruled>>
  BY DEF Looks, RunRead, BackstopList, BackstopRearm, BackstopAsk
<1>2. CASE govProc' = [govProc EXCEPT ![p] = Free]
  BY <1>1, <1>2 DEF ProcsTyped, Free
<1>3. CASE \E pc \in {"asked", "listed", "asking"} : govProc' = [govProc EXCEPT ![p].pc = pc]
  BY <1>1, <1>3 DEF ProcsTyped, Steps
<1>4. CASE govProc' = [govProc EXCEPT ![p].pc = "apply"] /\ ~ Closed
  BY <1>1, <1>4 DEF ProcsTyped, Steps
<1> QED
  BY <1>2, <1>3, <1>4
  DEF Looks, RunRead, BackstopList, BackstopRearm, BackstopAsk, Onward, Done

\* What the end of sync_execution, or a refused rescan, does: on to the verdict, and a
\* decision only stands when the latest row stayed.
LEMMA DeliverMoves ==
  ASSUME ProcsTyped, NEW p \in GovProcs, Delivers(p)
  PROVE  /\ govProc'[p].pc = "apply" /\ govProc'[p].base = NoRow
         /\ \A q \in GovProcs \ {p} : govProc'[q] = govProc[q]
         /\ UNCHANGED <<govStatus, execs, decisions>>
         /\ ruled' => ruled /\ latest' = latest /\ govProc[p].pc = "outcome"
<1>1. UNCHANGED <<govStatus, execs, decisions>>
  BY DEF Delivers, SyncStore, RescanRefused
<1>2. govProc' = [govProc EXCEPT ![p] = [Free EXCEPT !.pc = "apply"]]
  BY DEF Delivers, SyncStore, RescanRefused, ToVerdict
<1>3. /\ govProc'[p].pc = "apply" /\ govProc'[p].base = NoRow
      /\ \A q \in GovProcs \ {p} : govProc'[q] = govProc[q]
  BY <1>2 DEF ProcsTyped, Free
<1>4. ruled' => ruled /\ latest' = latest /\ govProc[p].pc = "outcome"
  <2>1. CASE RescanRefused(p)
    BY <2>1 DEF RescanRefused, StoreDone
  <2>2. CASE SyncStore(p) /\ latest.id = govProc[p].id
    BY <2>2 DEF SyncStore, StoreDone
  <2>3. CASE SyncStore(p) /\ latest.id # govProc[p].id
    BY <2>3 DEF SyncStore, Doing
  <2> QED
    BY <2>1, <2>2, <2>3 DEF Delivers
<1> QED
  BY <1>1, <1>3, <1>4

\* What sync_execution reads: the row it makes of the latest one and the execution.
LEMMA ReadMoves ==
  ASSUME ProcsTyped, NEW p \in GovProcs, SyncRead(p)
  PROVE  /\ govProc'[p].pc = "outcome" /\ govProc'[p].base = Outcome(latest, govProc[p].id)
         /\ \A q \in GovProcs \ {p} : govProc'[q] = govProc[q]
         /\ govProc[p].pc = "described"
         /\ UNCHANGED <<govStatus, latest, execs, decisions, ruled>>
<1>1. govProc[p].pc = "described" /\ UNCHANGED <<govStatus, latest, execs, decisions, ruled>>
  BY DEF SyncRead, Doing
<1> DEFINE row == Outcome(latest, govProc[p].id)
<1>2. govProc' = [govProc EXCEPT ![p].pc = "outcome", ![p].base = row]
  BY DEF SyncRead
<1> HIDE DEF row
<1>3. /\ govProc'[p].pc = "outcome" /\ govProc'[p].base = row
      /\ \A q \in GovProcs \ {p} : govProc'[q] = govProc[q]
  BY <1>2 DEF ProcsTyped, Steps
<1> QED
  BY <1>1, <1>3 DEF row

\* What the end of run does: its execution is running, or it stored the id and is done; no
\* result is touched.
LEMMA LaunchedMoves ==
  ASSUME ExecsTyped, ProcsTyped, StepsTyped, NEW p \in GovProcs, Launched(p)
  PROVE  /\ govProc'[p] = govProc[p] \/ govProc'[p].pc = "idle"
         /\ \A q \in GovProcs \ {p} : govProc'[q] = govProc[q]
         /\ govProc[p].pc = "launched" /\ govProc[p].id \in 1 .. MaxScans
         /\ execs'[govProc[p].id].st # "none"
         /\ \A n \in 1 .. MaxScans : n # govProc[p].id => execs'[n] = execs[n]
         /\ \A n \in 1 .. MaxScans : execs'[n].good = execs[n].good
         /\ UNCHANGED <<decisions, ruled>>
<1> DEFINE n == govProc[p].id
<1>1. /\ govProc[p].pc = "launched" /\ n \in 1 .. MaxScans /\ execs[n].st # "none"
      /\ UNCHANGED <<decisions, ruled>>
  BY DEF Launched, Doing, ProcsTyped, Steps, StepsTyped
<1>2. CASE execs[n].st = "reserved"
  <2>1. execs' = [execs EXCEPT ![n].st = "running"] /\ govProc' = govProc
    BY <1>2 DEF Launched
  <2> HIDE DEF n
  <2>2. /\ execs'[n].st = "running" /\ execs'[n].good = execs[n].good
        /\ \A k \in 1 .. MaxScans : k # n => execs'[k] = execs[k]
    BY <1>1, <2>1 DEF ExecsTyped, Executions
  <2>3. QED
    BY <1>1, <2>1, <2>2 DEF n
<1>3. CASE execs[n].st # "reserved"
  <2>1. govProc' = [govProc EXCEPT ![p] = Free] /\ execs' = execs
    BY <1>3 DEF Launched, Done
  <2>2. QED
    BY <1>1, <2>1 DEF ProcsTyped, Free
<1> QED
  BY <1>2, <1>3

\* What sync_running_stepfn finds: the latest row's execution is over, or there is nothing to
\* store.
LEMMA SyncMoves ==
  ASSUME ProcsTyped, NEW p \in GovProcs, SyncRunning(p)
  PROVE  /\ \/ govProc'[p].pc = "described" /\ govProc'[p].id = latest.id /\ latest.id # 0
            \/ govProc'[p].pc = "apply"
         /\ \A q \in GovProcs \ {p} : govProc'[q] = govProc[q]
         /\ govProc[p].pc = "sync" /\ UNCHANGED <<govStatus, latest, execs, decisions, ruled>>
BY DEF SyncRunning, Doing, ProcsTyped, Steps

\* Every action keeps a process with a verdict or an execution when its step needs one.
LEMMA StepsTypedStep ==
  ASSUME ExecsTyped, ProcsTyped, StepsTyped, latest \in Rows, [GovernanceNext]_govVars
  PROVE  StepsTyped'
<1>1. ASSUME NEW p \in GovProcs, RunStore(p) PROVE StepsTyped'
  BY <1>1 DEF RunStore, Submits, GovFault, Onward, Doing,
     Bounded, ExecsTyped, ProcsTyped, Free, StepsTyped, Final
<1>2. ASSUME NEW p \in GovProcs, Launch(p) PROVE StepsTyped'
  BY <1>2 DEF Launch, Reserve, Doing, ExecsTyped, ProcsTyped,
     Free, StepsTyped, Final
<1>3. ASSUME NEW p \in GovProcs, SourceMissing(p) PROVE StepsTyped'
  BY <1>3 DEF SourceMissing, GovFault, StoreDone, Onward,
     Doing, Bounded, ExecsTyped, ProcsTyped, Free, StepsTyped, Final
<1>4. ASSUME NEW p \in GovProcs, Launched(p) PROVE StepsTyped'
  BY <1>4 DEF Launched, Done, Doing, ExecsTyped, ProcsTyped,
     Free, StepsTyped, Final
<1>5. ASSUME NEW p \in GovProcs, NEW a \in Areas, RescanRead(p, a) PROVE StepsTyped'
  BY <1>5 DEF RescanRead, Doing, ExecsTyped, ProcsTyped,
     Free, StepsTyped, Final
<1>6. ASSUME NEW p \in GovProcs, RescanStore(p) PROVE StepsTyped'
  BY <1>6 DEF RescanStore, Reserve, Submits, GovFault, Doing,
     Bounded, ExecsTyped, ProcsTyped, Free, StepsTyped, Final
<1>7. ASSUME NEW p \in GovProcs, RescanLaunch(p) PROVE StepsTyped'
  BY <1>7 DEF RescanLaunch, Done, Doing, ExecsTyped,
     ProcsTyped, Free, StepsTyped, Final
<1>8. ASSUME NEW p \in GovProcs, PollRunning(p) PROVE StepsTyped'
  BY <1>8 DEF PollRunning, Onward, Doing, ExecsTyped,
     ProcsTyped, Free, StepsTyped, Final
<1>9. ASSUME NEW p \in GovProcs, SyncRunning(p) PROVE StepsTyped'
  BY <1>9, SyncMoves DEF StepsTyped
<1>10. ASSUME NEW p \in GovProcs, Delivers(p) PROVE StepsTyped'
  BY <1>10, DeliverMoves DEF StepsTyped
<1>11. ASSUME NEW p \in GovProcs, Apply(p) PROVE StepsTyped'
  BY <1>11, ApplyMoves DEF StepsTyped, Applicable
<1>12. ASSUME NEW p \in GovProcs, Settle(p) PROVE StepsTyped'
  BY <1>12 DEF Settle, Done, GovFault, Doing, Bounded,
     ExecsTyped, ProcsTyped, Free, StepsTyped, Final
<1>13. ASSUME NEW p \in GovProcs, Looks(p) PROVE StepsTyped'
  BY <1>13, LookMoves DEF StepsTyped
<1>14. ASSUME NEW p \in GovProcs, NEW to \in Final, Decide(p, to) PROVE StepsTyped'
  BY <1>14 DEF Decide, Doing, Bounded, ExecsTyped,
     ProcsTyped, Free, StepsTyped, Final
<1>15. ASSUME NEW p \in GovProcs, Decided(p) PROVE StepsTyped'
  BY <1>15 DEF Decided, Done, GovFault, Doing, Bounded,
     ExecsTyped, ProcsTyped, Free, StepsTyped, Final
<1>16. ASSUME GovRestart PROVE StepsTyped'
  BY <1>16 DEF GovRestart, GovFault, Bounded, ExecsTyped,
     ProcsTyped, Free, StepsTyped, Final
<1>17. ASSUME UNCHANGED <<govProc, decisions>> PROVE StepsTyped'
  BY <1>17 DEF StepsTyped
<1>18. ASSUME NEW p \in GovProcs, SyncRead(p) PROVE StepsTyped'
  BY <1>18, ReadMoves DEF StepsTyped
<1> QED
  BY <1>1, <1>2, <1>3, <1>4, <1>5, <1>6, <1>7, <1>8, <1>9, <1>10, <1>11,
     <1>12, <1>13, <1>14, <1>15, <1>16, <1>17, <1>18,
     ProcsChange

\* Every action keeps a scan that waits for its execution with one that was reserved.
LEMMA StartedStep ==
  ASSUME ExecsTyped, ProcsTyped, StepsTyped, Started, [GovernanceNext]_govVars
  PROVE  Started'
<1>1. ASSUME NEW p \in GovProcs, RunStore(p) PROVE Started'
  BY <1>1 DEF RunStore, Submits, GovFault, Onward, Doing,
     Bounded, ExecsTyped, ProcsTyped, Free, StepsTyped, Started
<1>2. ASSUME NEW p \in GovProcs, Launch(p) PROVE Started'
  BY <1>2 DEF Launch, Reserve, Doing, ExecsTyped, ProcsTyped,
     Free, StepsTyped, Started
<1>3. ASSUME NEW p \in GovProcs, SourceMissing(p) PROVE Started'
  BY <1>3 DEF SourceMissing, GovFault, StoreDone, Onward,
     Doing, Bounded, ExecsTyped, ProcsTyped, Free, StepsTyped, Started
<1>4. ASSUME NEW p \in GovProcs, Launched(p) PROVE Started'
  BY <1>4, LaunchedMoves DEF Started, ProcsTyped, Steps, StepsTyped
<1>5. ASSUME NEW p \in GovProcs, NEW a \in Areas, RescanRead(p, a) PROVE Started'
  BY <1>5 DEF RescanRead, Doing, ExecsTyped, ProcsTyped,
     Free, StepsTyped, Started
<1>6. ASSUME NEW p \in GovProcs, RescanStore(p) PROVE Started'
  BY <1>6 DEF RescanStore, Reserve, Submits, GovFault, Doing,
     Bounded, ExecsTyped, ProcsTyped, Free, StepsTyped, Started
<1>7. ASSUME NEW p \in GovProcs, RescanLaunch(p) PROVE Started'
  BY <1>7 DEF RescanLaunch, Done, Doing, ExecsTyped,
     ProcsTyped, Free, StepsTyped, Started
<1>8. ASSUME NEW p \in GovProcs, PollRunning(p) PROVE Started'
  BY <1>8 DEF PollRunning, Onward, Doing, ExecsTyped,
     ProcsTyped, Free, StepsTyped, Started
<1>9. ASSUME NEW p \in GovProcs, SyncRunning(p) PROVE Started'
  BY <1>9, SyncMoves DEF Started, ProcsTyped, Steps, StepsTyped
<1>10. ASSUME NEW p \in GovProcs, Delivers(p) PROVE Started'
  BY <1>10, DeliverMoves DEF Started, ProcsTyped, Steps, StepsTyped
<1>11. ASSUME NEW p \in GovProcs, Apply(p) PROVE Started'
  BY <1>11, ApplyMoves DEF Started, ProcsTyped, Steps, StepsTyped
<1>12. ASSUME NEW p \in GovProcs, Settle(p) PROVE Started'
  BY <1>12 DEF Settle, Done, GovFault, Doing, Bounded,
     ExecsTyped, ProcsTyped, Free, StepsTyped, Started
<1>13. ASSUME NEW p \in GovProcs, Looks(p) PROVE Started'
  BY <1>13, LookMoves DEF Started, ProcsTyped, Steps, StepsTyped
<1>14. ASSUME NEW p \in GovProcs, NEW to \in Final, Decide(p, to) PROVE Started'
  BY <1>14 DEF Decide, Doing, Bounded, ExecsTyped,
     ProcsTyped, Free, StepsTyped, Started
<1>15. ASSUME NEW p \in GovProcs, Decided(p) PROVE Started'
  BY <1>15 DEF Decided, Done, GovFault, Doing, Bounded,
     ExecsTyped, ProcsTyped, Free, StepsTyped, Started
<1>16. ASSUME NEW n \in 1 .. MaxScans, NEW bad \in SUBSET Areas, Succeed(n, bad) PROVE Started'
  BY <1>16 DEF Succeed, StoreDone, Aggregated, Covered,
     GovFault, Bounded, ExecsTyped, ProcsTyped, Free, StepsTyped, Started
<1>17. ASSUME NEW n \in 1 .. MaxScans, ExecutionFails(n) PROVE Started'
  BY <1>17 DEF ExecutionFails, GovFault, Bounded, ExecsTyped,
     ProcsTyped, Free, StepsTyped, Started
<1>18. ASSUME Register PROVE Started'
  BY <1>18 DEF Register, ExecsTyped, ProcsTyped, Free,
     StepsTyped, Started
<1>19. ASSUME ContactsGiven PROVE Started'
  BY <1>19 DEF ContactsGiven, ExecsTyped, ProcsTyped, Free,
     StepsTyped, Started
<1>20. ASSUME GovRestart PROVE Started'
  BY <1>20 DEF GovRestart, GovFault, Bounded, ExecsTyped,
     ProcsTyped, Free, StepsTyped, Started
<1>21. ASSUME UNCHANGED govVars PROVE Started'
  BY <1>21 DEF govVars, ExecsTyped, ProcsTyped, Free, StepsTyped, Started
<1>22. ASSUME NEW p \in GovProcs, SyncRead(p) PROVE Started'
  BY <1>22, ReadMoves DEF Started, ProcsTyped, Steps, StepsTyped
<1>23. ASSUME Rearm PROVE Started'
  BY <1>23 DEF Rearm, Started
<1> QED
  BY <1>1, <1>2, <1>3, <1>4, <1>5, <1>6, <1>7, <1>8, <1>9, <1>10, <1>11,
     <1>12, <1>13, <1>14, <1>15, <1>16, <1>17, <1>18, <1>19, <1>20, <1>21,
     <1>22, <1>23
     DEF GovernanceNext, Advance, Ends, Looks, Delivers

\* Every action keeps the execution of a rescan that has not started it: nobody else starts it.
LEMMA PlacedStep ==
  ASSUME ExecsTyped, ProcsTyped, StepsTyped, Started, Placed, [GovernanceNext]_govVars
  PROVE  Placed'
<1>1. ASSUME NEW p \in GovProcs, RunStore(p) PROVE Placed'
  BY <1>1 DEF RunStore, Submits, GovFault, Onward, Doing,
     Bounded, ExecsTyped, ProcsTyped, Free, StepsTyped, Started, Placed
<1>2. ASSUME NEW p \in GovProcs, Launch(p) PROVE Placed'
  BY <1>2 DEF Launch, Reserve, Doing, ExecsTyped, ProcsTyped,
     Free, StepsTyped, Started, Placed
<1>3. ASSUME NEW p \in GovProcs, SourceMissing(p) PROVE Placed'
  BY <1>3 DEF SourceMissing, GovFault, StoreDone, Onward,
     Doing, Bounded, ExecsTyped, ProcsTyped, Free, StepsTyped, Started, Placed
<1>4. ASSUME NEW p \in GovProcs, Launched(p) PROVE Placed'
  BY <1>4, LaunchedMoves DEF Placed, ProcsTyped, Steps, StepsTyped
<1>5. ASSUME NEW p \in GovProcs, NEW a \in Areas, RescanRead(p, a) PROVE Placed'
  BY <1>5 DEF RescanRead, Doing, ExecsTyped, ProcsTyped,
     Free, StepsTyped, Started, Placed
<1>6. ASSUME NEW p \in GovProcs, RescanStore(p) PROVE Placed'
  BY <1>6 DEF RescanStore, Reserve, Submits, GovFault, Doing,
     Bounded, ExecsTyped, ProcsTyped, Free, StepsTyped, Started, Placed
<1>7. ASSUME NEW p \in GovProcs, RescanLaunch(p) PROVE Placed'
  BY <1>7 DEF RescanLaunch, Done, Doing, ExecsTyped,
     ProcsTyped, Free, StepsTyped, Started, Placed
<1>8. ASSUME NEW p \in GovProcs, PollRunning(p) PROVE Placed'
  BY <1>8 DEF PollRunning, Onward, Doing, ExecsTyped,
     ProcsTyped, Free, StepsTyped, Started, Placed
<1>9. ASSUME NEW p \in GovProcs, SyncRunning(p) PROVE Placed'
  BY <1>9, SyncMoves DEF Placed, ProcsTyped, Steps, StepsTyped
<1>10. ASSUME NEW p \in GovProcs, Delivers(p) PROVE Placed'
  BY <1>10, DeliverMoves DEF Placed, ProcsTyped, Steps, StepsTyped
<1>11. ASSUME NEW p \in GovProcs, Apply(p) PROVE Placed'
  BY <1>11, ApplyMoves DEF Placed, ProcsTyped, Steps, StepsTyped
<1>12. ASSUME NEW p \in GovProcs, Settle(p) PROVE Placed'
  BY <1>12 DEF Settle, Done, GovFault, Doing, Bounded,
     ExecsTyped, ProcsTyped, Free, StepsTyped, Started, Placed
<1>13. ASSUME NEW p \in GovProcs, Looks(p) PROVE Placed'
  BY <1>13, LookMoves DEF Placed, ProcsTyped, Steps, StepsTyped
<1>14. ASSUME NEW p \in GovProcs, NEW to \in Final, Decide(p, to) PROVE Placed'
  BY <1>14 DEF Decide, Doing, Bounded, ExecsTyped,
     ProcsTyped, Free, StepsTyped, Started, Placed
<1>15. ASSUME NEW p \in GovProcs, Decided(p) PROVE Placed'
  BY <1>15 DEF Decided, Done, GovFault, Doing, Bounded,
     ExecsTyped, ProcsTyped, Free, StepsTyped, Started, Placed
<1>16. ASSUME NEW n \in 1 .. MaxScans, NEW bad \in SUBSET Areas, Succeed(n, bad) PROVE Placed'
  BY <1>16 DEF Succeed, StoreDone, Aggregated, Covered,
     GovFault, Bounded, ExecsTyped, ProcsTyped, Free, StepsTyped, Started, Placed
<1>17. ASSUME NEW n \in 1 .. MaxScans, ExecutionFails(n) PROVE Placed'
  BY <1>17 DEF ExecutionFails, GovFault, Bounded, ExecsTyped,
     ProcsTyped, Free, StepsTyped, Started, Placed
<1>18. ASSUME Register PROVE Placed'
  BY <1>18 DEF Register, ExecsTyped, ProcsTyped, Free,
     StepsTyped, Started, Placed
<1>19. ASSUME ContactsGiven PROVE Placed'
  BY <1>19 DEF ContactsGiven, ExecsTyped, ProcsTyped, Free,
     StepsTyped, Started, Placed
<1>20. ASSUME GovRestart PROVE Placed'
  BY <1>20 DEF GovRestart, GovFault, Bounded, ExecsTyped,
     ProcsTyped, Free, StepsTyped, Started, Placed
<1>21. ASSUME UNCHANGED govVars PROVE Placed'
  BY <1>21 DEF govVars, ExecsTyped, ProcsTyped, Free, StepsTyped, Started, Placed
<1>22. ASSUME NEW p \in GovProcs, SyncRead(p) PROVE Placed'
  BY <1>22, ReadMoves DEF Placed, ProcsTyped, Steps, StepsTyped
<1>23. ASSUME Rearm PROVE Placed'
  BY <1>23 DEF Rearm, Placed
<1> QED
  BY <1>1, <1>2, <1>3, <1>4, <1>5, <1>6, <1>7, <1>8, <1>9, <1>10, <1>11,
     <1>12, <1>13, <1>14, <1>15, <1>16, <1>17, <1>18, <1>19, <1>20, <1>21,
     <1>22, <1>23
     DEF GovernanceNext, Advance, Ends, Looks, Delivers

\* Every action keeps executions without results until they have succeeded.
LEMMA NothingYetStep ==
  ASSUME ExecsTyped, ProcsTyped, StepsTyped, NothingYet, Placed, [GovernanceNext]_govVars
  PROVE  NothingYet'
<1>1. ASSUME NEW p \in GovProcs, Launch(p) PROVE NothingYet'
  BY <1>1 DEF Launch, Reserve, Doing, ExecsTyped, ProcsTyped,
     Free, StepsTyped, Steps, NothingYet, Executions
<1>2. ASSUME NEW p \in GovProcs, Launched(p) PROVE NothingYet'
  <2>1. govProc[p].id \in 1 .. MaxScans
    BY <1>2 DEF Launched, Doing, ProcsTyped, Steps, StepsTyped
  <2>2. CASE execs[govProc[p].id].st = "reserved"
    <3> DEFINE n == govProc[p].id
    <3>1. execs' = [execs EXCEPT ![n].st = "running"]
      BY <1>2, <2>2 DEF Launched
    <3> HIDE DEF n
    <3>2. \A m \in 1 .. MaxScans :
            execs'[m].good = execs[m].good /\ (m # n => execs'[m] = execs[m])
      BY <3>1 DEF ExecsTyped, Executions
    <3>3. execs[n].good = {}
      BY <2>1, <2>2 DEF NothingYet, n
    <3>4. QED
      BY <3>2, <3>3 DEF NothingYet
  <2>3. CASE execs[govProc[p].id].st # "reserved"
    <3>1. execs' = execs
      BY <1>2, <2>3 DEF Launched
    <3>2. QED
      BY <3>1 DEF NothingYet
  <2>4. QED
    BY <2>2, <2>3
<1>3. ASSUME NEW p \in GovProcs, RescanStore(p) PROVE NothingYet'
  BY <1>3 DEF RescanStore, Reserve, Submits, GovFault, Doing,
     Bounded, ExecsTyped, ProcsTyped, Free, StepsTyped, Steps, NothingYet,
     Executions
<1>4. ASSUME NEW p \in GovProcs, RescanLaunch(p) PROVE NothingYet'
  BY <1>4 DEF RescanLaunch, Done, Doing, ExecsTyped,
     ProcsTyped, Free, StepsTyped, Steps, NothingYet, Executions, Placed
<1>5. ASSUME NEW n \in 1 .. MaxScans, NEW bad \in SUBSET Areas, Succeed(n, bad)
      PROVE  NothingYet'
  BY <1>5 DEF Succeed, StoreDone, Aggregated, Covered,
     GovFault, Bounded, ExecsTyped, ProcsTyped, Free, StepsTyped, Steps,
     NothingYet, Executions
<1>6. ASSUME NEW n \in 1 .. MaxScans, ExecutionFails(n) PROVE NothingYet'
  BY <1>6 DEF ExecutionFails, GovFault, Bounded, ExecsTyped,
     ProcsTyped, Free, StepsTyped, Steps, NothingYet, Executions
<1>7. ASSUME UNCHANGED execs PROVE NothingYet'
  BY <1>7 DEF NothingYet
<1> QED
  BY <1>1, <1>2, <1>3, <1>4, <1>5, <1>6, <1>7, ExecutionsChange

\* Every action keeps a standing decision safe from a verdict: a process that gets to apply a
\* verdict of a done row either saw the status not final, or has stored the row itself.
LEMMA RulingStep ==
  ASSUME ExecsTyped, ProcsTyped, latest \in Rows, StepsTyped, Ruling, [GovernanceNext]_govVars
  PROVE  Ruling'
<1>1. ASSUME NEW p \in GovProcs, RunStore(p) PROVE Ruling'
  BY <1>1 DEF RunStore, Submits, GovFault, Onward, Doing,
     Bounded, ExecsTyped, ProcsTyped, Free, StepsTyped, Ruling, NoRow, Final
<1>2. ASSUME NEW p \in GovProcs, Launch(p) PROVE Ruling'
  BY <1>2 DEF Launch, Reserve, Doing, ExecsTyped, ProcsTyped,
     Free, StepsTyped, Ruling, NoRow, Final
<1>3. ASSUME NEW p \in GovProcs, SourceMissing(p) PROVE Ruling'
  BY <1>3 DEF SourceMissing, GovFault, StoreDone, Onward,
     Doing, Bounded, ExecsTyped, ProcsTyped, Free, StepsTyped, Ruling, NoRow,
     Final
<1>4. ASSUME NEW p \in GovProcs, Launched(p) PROVE Ruling'
  <2>1. (\A q \in GovProcs : govProc'[q] = govProc[q] \/ govProc'[q].pc = "idle")
    BY <1>4 DEF Launched, Done, Free, ProcsTyped
  <2>2. latest' = latest \/ latest'.st = "running"
    BY <1>4 DEF Launched, NoRow
  <2>3. UNCHANGED <<ruled, govStatus>>
    BY <1>4 DEF Launched
  <2>4. QED
    BY <2>1, <2>2, <2>3 DEF Ruling
<1>5. ASSUME NEW p \in GovProcs, NEW a \in Areas, RescanRead(p, a) PROVE Ruling'
  BY <1>5 DEF RescanRead, Doing, ExecsTyped, ProcsTyped,
     Free, StepsTyped, Ruling, NoRow, Final
<1>6. ASSUME NEW p \in GovProcs, RescanStore(p) PROVE Ruling'
  BY <1>6 DEF RescanStore, Reserve, Submits, GovFault, Doing,
     Bounded, ExecsTyped, ProcsTyped, Free, StepsTyped, Ruling, NoRow, Final
<1>7. ASSUME NEW p \in GovProcs, RescanLaunch(p) PROVE Ruling'
  BY <1>7 DEF RescanLaunch, Done, Doing, ExecsTyped,
     ProcsTyped, Free, StepsTyped, Ruling, NoRow, Final
<1>8. ASSUME NEW p \in GovProcs, PollRunning(p) PROVE Ruling'
  BY <1>8 DEF PollRunning, Onward, Doing, ExecsTyped,
     ProcsTyped, Free, StepsTyped, Ruling, NoRow, Final
<1>9. ASSUME NEW p \in GovProcs, SyncRunning(p) PROVE Ruling'
  <2>1. govProc[p].pc = "sync" /\ UNCHANGED <<ruled, latest, govStatus>>
    BY <1>9 DEF SyncRunning, Doing
  <2>2. /\ govProc'[p].pc \in {"described", "apply"}
        /\ \A q \in GovProcs \ {p} : govProc'[q] = govProc[q]
    BY <1>9 DEF SyncRunning, ProcsTyped, Steps
  <2>3. ruled => latest.st # "done"
    BY <2>1 DEF Ruling
  <2>4. QED
    BY <2>1, <2>2, <2>3 DEF Ruling
<1>10. ASSUME NEW p \in GovProcs, Delivers(p) PROVE Ruling'
  BY <1>10, DeliverMoves DEF Ruling, Closed
<1>11. ASSUME NEW p \in GovProcs, Apply(p) PROVE Ruling'
  BY <1>11, ApplyMoves DEF Ruling, Applicable, Verdict, Final
<1>12. ASSUME NEW p \in GovProcs, Settle(p) PROVE Ruling'
  BY <1>12 DEF Settle, Done, GovFault, Doing, Bounded,
     ExecsTyped, ProcsTyped, Free, StepsTyped, Ruling, NoRow, Final
<1>13. ASSUME NEW p \in GovProcs, Looks(p) PROVE Ruling'
  BY <1>13, LookMoves DEF Ruling, Closed
<1>14. ASSUME NEW p \in GovProcs, NEW to \in Final, Decide(p, to) PROVE Ruling'
  BY <1>14 DEF Decide, Doing, Bounded, ExecsTyped,
     ProcsTyped, Free, StepsTyped, Ruling, NoRow, Final
<1>15. ASSUME NEW p \in GovProcs, Decided(p) PROVE Ruling'
  BY <1>15 DEF Decided, Done, GovFault, Doing, Bounded,
     ExecsTyped, ProcsTyped, Free, StepsTyped, Ruling, NoRow, Final
<1>16. ASSUME NEW n \in 1 .. MaxScans, NEW bad \in SUBSET Areas, Succeed(n, bad) PROVE Ruling'
  BY <1>16 DEF Succeed, StoreDone, Aggregated, Covered,
     GovFault, Bounded, ExecsTyped, ProcsTyped, Free, StepsTyped, Ruling, NoRow,
     Final
<1>17. ASSUME NEW n \in 1 .. MaxScans, ExecutionFails(n) PROVE Ruling'
  BY <1>17 DEF ExecutionFails, GovFault, Bounded, ExecsTyped,
     ProcsTyped, Free, StepsTyped, Ruling, NoRow, Final
<1>18. ASSUME Register PROVE Ruling'
  BY <1>18 DEF Register, ExecsTyped, ProcsTyped, Free,
     StepsTyped, Ruling, NoRow, Final
<1>19. ASSUME ContactsGiven PROVE Ruling'
  BY <1>19 DEF ContactsGiven, ExecsTyped, ProcsTyped, Free,
     StepsTyped, Ruling, NoRow, Final
<1>20. ASSUME GovRestart PROVE Ruling'
  BY <1>20 DEF GovRestart, GovFault, Bounded, ExecsTyped,
     ProcsTyped, Free, StepsTyped, Ruling, NoRow, Final
<1>21. ASSUME UNCHANGED govVars PROVE Ruling'
  BY <1>21 DEF govVars, ExecsTyped, ProcsTyped, Free, StepsTyped, Ruling, NoRow,
     Final
<1>22. ASSUME NEW p \in GovProcs, SyncRead(p) PROVE Ruling'
  BY <1>22, ReadMoves DEF Ruling, Closed
<1>23. ASSUME Rearm PROVE Ruling'
  BY <1>23 DEF Rearm, Ruling
<1> QED
  BY <1>1, <1>2, <1>3, <1>4, <1>5, <1>6, <1>7, <1>8, <1>9, <1>10, <1>11,
     <1>12, <1>13, <1>14, <1>15, <1>16, <1>17, <1>18, <1>19, <1>20, <1>21,
     <1>22, <1>23
     DEF GovernanceNext, Advance, Ends, Looks, Delivers

\* What an execution has found stays found: no action takes the results of an execution away.
LEMMA FoundStays ==
  ASSUME ExecsTyped, ProcsTyped, NothingYet, Placed, StepsTyped, NEW x, Found(x),
         [GovernanceNext]_govVars
  PROVE  Found(x)'
<1>1. ASSUME NEW p \in GovProcs, Launch(p) PROVE Found(x)'
  BY <1>1 DEF Launch, Reserve, Doing, ExecsTyped, ProcsTyped,
     Free, Steps, StepsTyped, NothingYet, Placed, Found
<1>2. ASSUME NEW p \in GovProcs, Launched(p) PROVE Found(x)'
  BY <1>2 DEF Launched, Done, Doing, ExecsTyped, ProcsTyped,
     Free, Steps, StepsTyped, NothingYet, Placed, Found
<1>3. ASSUME NEW p \in GovProcs, RescanStore(p) PROVE Found(x)'
  BY <1>3 DEF RescanStore, Reserve, Submits, GovFault, Doing,
     Bounded, ExecsTyped, ProcsTyped, Free, Steps, StepsTyped, NothingYet, Placed,
     Found
<1>4. ASSUME NEW p \in GovProcs, RescanLaunch(p) PROVE Found(x)'
  BY <1>4 DEF RescanLaunch, Done, Doing, ExecsTyped,
     ProcsTyped, Free, Steps, StepsTyped, NothingYet, Placed, Found
<1>5. ASSUME NEW n \in 1 .. MaxScans, NEW bad \in SUBSET Areas, Succeed(n, bad) PROVE Found(x)'
  BY <1>5 DEF Succeed, StoreDone, Aggregated, Covered,
     GovFault, Bounded, ExecsTyped, ProcsTyped, Free, Steps, StepsTyped,
     NothingYet, Placed, Found
<1>6. ASSUME NEW n \in 1 .. MaxScans, ExecutionFails(n) PROVE Found(x)'
  BY <1>6 DEF ExecutionFails, GovFault, Bounded, ExecsTyped,
     ProcsTyped, Free, Steps, StepsTyped, NothingYet, Placed, Found
<1>7. ASSUME UNCHANGED execs PROVE Found(x)'
  BY <1>7 DEF Found
<1> QED
  BY <1>1, <1>2, <1>3, <1>4, <1>5, <1>6, <1>7, ExecutionsChange

\* The property that the runs check, in terms of what was found.
LEMMA ApprovedIs == Approved <=> ApprovedOnEvidence
BY DEF Approved, ApprovedOnEvidence, AllFound, Found

\* Every action keeps the latest row's clean areas found by executions, also when a rescan's
\* result is merged into a row that is not the one it was started from.
LEMMA LatestFoundStep ==
  ASSUME ExecsTyped, ProcsTyped, StepsTyped, LatestFound, BasesFound,
         (\A x : Found(x) => Found(x)'), [GovernanceNext]_govVars
  PROVE  LatestFound'
<1>1. ASSUME NEW p \in GovProcs, RunStore(p) PROVE LatestFound'
  BY <1>1 DEF RunStore, Submits, GovFault, Onward, Doing,
     Bounded, LatestFound, NoRow
<1>2. ASSUME NEW p \in GovProcs, SourceMissing(p) PROVE LatestFound'
  BY <1>2 DEF SourceMissing, GovFault, StoreDone, Onward,
     Doing, Bounded, LatestFound, NoRow
<1>3. ASSUME NEW p \in GovProcs, Launched(p) PROVE LatestFound'
  BY <1>3 DEF Launched, Done, Doing, LatestFound, NoRow
<1>4. ASSUME NEW p \in GovProcs, RescanStore(p) PROVE LatestFound'
  <2>1. latest'.good = govProc[p].base.good
    BY <1>4 DEF RescanStore, ProcsTyped, Steps, Rows
  <2>2. QED
    BY <2>1 DEF BasesFound, LatestFound
<1>5. ASSUME NEW p \in GovProcs, SyncStore(p) PROVE LatestFound'
  <2>1. latest' = latest \/ latest' = govProc[p].base
    BY <1>5 DEF SyncStore, StoreDone
  <2>2. QED
    BY <2>1 DEF BasesFound, LatestFound
<1>6. ASSUME NEW n \in 1 .. MaxScans, NEW bad \in SUBSET Areas, Succeed(n, bad)
      PROVE  LatestFound'
  <2>1. execs'[n].good = Covered(n) \ bad
    BY <1>6 DEF Succeed, ExecsTyped, Executions
  <2>2. \A a \in Covered(n) \ bad : Found(a)'
    BY <2>1 DEF Found
  <2>3. latest' = latest \/ latest'.good = Covered(n) \ bad
    BY <1>6 DEF Succeed, StoreDone, Aggregated, NoRow
  <2>4. QED
    BY <2>2, <2>3 DEF LatestFound
<1>7. ASSUME UNCHANGED latest PROVE LatestFound'
  BY <1>7 DEF LatestFound
<1>8. ASSUME NEW p \in GovProcs, RescanRefused(p) PROVE LatestFound'
  <2>1. latest'.good \subseteq govProc[p].base.good
    BY <1>8 DEF RescanRefused, StoreDone, NoRow
  <2>2. QED
    BY <2>1 DEF BasesFound, LatestFound
<1> QED
  BY <1>1, <1>2, <1>3, <1>4, <1>5, <1>6, <1>7, <1>8,
     RowsStored

\* Every action keeps the clean areas of the scan a rescan started from found by executions.
LEMMA BasesFoundStep ==
  ASSUME ExecsTyped, ProcsTyped, LatestFound, BasesFound, StepsTyped,
         (\A x : Found(x) => Found(x)'), [GovernanceNext]_govVars
  PROVE  BasesFound'
<1>1. ASSUME NEW p \in GovProcs, RunStore(p) PROVE BasesFound'
  <2>1. \A q \in GovProcs : govProc'[q].base = govProc[q].base
    BY <1>1 DEF RunStore, Onward, ProcsTyped, Steps
  <2>2. QED
    BY <2>1 DEF BasesFound
<1>2. ASSUME NEW p \in GovProcs, Launch(p) PROVE BasesFound'
  <2>1. \A q \in GovProcs : govProc'[q].base = govProc[q].base
    BY <1>2 DEF Launch, Reserve, ProcsTyped, Steps
  <2>2. QED
    BY <2>1 DEF BasesFound
<1>3. ASSUME NEW p \in GovProcs, SourceMissing(p) PROVE BasesFound'
  <2>1. \A q \in GovProcs : govProc'[q].base = govProc[q].base
    BY <1>3 DEF SourceMissing, Onward, ProcsTyped, Steps
  <2>2. QED
    BY <2>1 DEF BasesFound
<1>4. ASSUME NEW p \in GovProcs, Launched(p) PROVE BasesFound'
  <2>1. \A q \in GovProcs : govProc'[q].base = govProc[q].base \/ govProc'[q].base = NoRow
    BY <1>4 DEF Launched, Done, Free, ProcsTyped, Steps
  <2>2. QED
    BY <2>1 DEF BasesFound, NoRow
<1>5. ASSUME NEW p \in GovProcs, NEW a \in Areas, RescanRead(p, a) PROVE BasesFound'
  <2>1. \A q \in GovProcs : govProc'[q].base = govProc[q].base \/ govProc'[q].base = latest
    BY <1>5 DEF RescanRead, ProcsTyped, Steps
  <2>2. QED
    BY <2>1 DEF BasesFound, LatestFound
<1>6. ASSUME NEW p \in GovProcs, RescanStore(p) PROVE BasesFound'
  <2>1. \A q \in GovProcs : govProc'[q].base = govProc[q].base
    BY <1>6 DEF RescanStore, Reserve, ProcsTyped, Steps
  <2>2. QED
    BY <2>1 DEF BasesFound
<1>7. ASSUME NEW p \in GovProcs, RescanLaunch(p) PROVE BasesFound'
  <2>1. \A q \in GovProcs : govProc'[q].base = govProc[q].base \/ govProc'[q].base = NoRow
    BY <1>7 DEF RescanLaunch, Done, Free, ProcsTyped, Steps
  <2>2. QED
    BY <2>1 DEF BasesFound, NoRow
<1>8. ASSUME NEW p \in GovProcs, PollRunning(p) PROVE BasesFound'
  <2>1. \A q \in GovProcs : govProc'[q].base = govProc[q].base
    BY <1>8 DEF PollRunning, Onward, ProcsTyped, Steps
  <2>2. QED
    BY <2>1 DEF BasesFound
<1>9. ASSUME NEW p \in GovProcs, SyncRunning(p) PROVE BasesFound'
  <2>1. \A q \in GovProcs : govProc'[q].base = govProc[q].base \/ govProc'[q].base = NoRow
    BY <1>9 DEF SyncRunning, Free, ProcsTyped, Steps
  <2>2. QED
    BY <2>1 DEF BasesFound, NoRow
<1>10. ASSUME NEW p \in GovProcs, Delivers(p) PROVE BasesFound'
  BY <1>10, DeliverMoves DEF BasesFound, NoRow
<1>11. ASSUME NEW p \in GovProcs, Apply(p) PROVE BasesFound'
  <2>1. \A q \in GovProcs : govProc'[q].base = govProc[q].base \/ govProc'[q].base = NoRow
    BY <1>11 DEF Apply, Done, Free, ProcsTyped, Steps
  <2>2. QED
    BY <2>1 DEF BasesFound, NoRow
<1>12. ASSUME NEW p \in GovProcs, Settle(p) PROVE BasesFound'
  <2>1. \A q \in GovProcs : govProc'[q].base = govProc[q].base \/ govProc'[q].base = NoRow
    BY <1>12 DEF Settle, Done, Free, ProcsTyped, Steps
  <2>2. QED
    BY <2>1 DEF BasesFound, NoRow
<1>13. ASSUME NEW p \in GovProcs, Looks(p) PROVE BasesFound'
  BY <1>13, LookMoves DEF BasesFound, NoRow
<1>14. ASSUME NEW p \in GovProcs, NEW to \in Final, Decide(p, to) PROVE BasesFound'
  <2>1. \A q \in GovProcs : govProc'[q].base = govProc[q].base
    BY <1>14 DEF Decide, ProcsTyped, Steps
  <2>2. QED
    BY <2>1 DEF BasesFound
<1>15. ASSUME NEW p \in GovProcs, Decided(p) PROVE BasesFound'
  <2>1. \A q \in GovProcs : govProc'[q].base = govProc[q].base \/ govProc'[q].base = NoRow
    BY <1>15 DEF Decided, Done, Free, ProcsTyped, Steps
  <2>2. QED
    BY <2>1 DEF BasesFound, NoRow
<1>16. ASSUME GovRestart PROVE BasesFound'
  <2>1. \A q \in GovProcs : govProc'[q].base = govProc[q].base \/ govProc'[q].base = NoRow
    BY <1>16 DEF GovRestart, Free, ProcsTyped, Steps
  <2>2. QED
    BY <2>1 DEF BasesFound, NoRow
<1>17. ASSUME UNCHANGED <<govProc, decisions>> PROVE BasesFound'
  BY <1>17 DEF BasesFound
<1>18. ASSUME NEW p \in GovProcs, SyncRead(p) PROVE BasesFound'
  <2> DEFINE row == Outcome(latest, govProc[p].id)
  <2>1. \A a \in row.good : Found(a)
    <3>1. govProc[p].id \in 1 .. MaxScans
      BY <1>18 DEF SyncRead, Doing, ProcsTyped, Steps, StepsTyped
    <3>2. row.good \subseteq latest.good \cup execs[govProc[p].id].good
      BY DEF Outcome, NoRow
    <3>3. QED
      BY <3>1, <3>2 DEF LatestFound, Found
  <2>2. \A q \in GovProcs : govProc'[q].base = govProc[q].base \/ govProc'[q].base = row
    BY <1>18, ReadMoves
  <2> HIDE DEF row
  <2>3. QED
    BY <2>1, <2>2 DEF BasesFound
<1> QED
  BY <1>1, <1>2, <1>3, <1>4, <1>5, <1>6, <1>7, <1>8, <1>9, <1>10, <1>11,
     <1>12, <1>13, <1>14, <1>15, <1>16, <1>17, <1>18,
     ProcsChange

\* Every action keeps an approving verdict behind the executions that found everything clean.
LEMMA VerdictsFoundStep ==
  ASSUME ExecsTyped, ProcsTyped, StepsTyped, LatestFound, VerdictsFound,
         (AllFound => AllFound'), [GovernanceNext]_govVars
  PROVE  VerdictsFound'
<1>1. ASSUME NEW p \in GovProcs, RunStore(p) PROVE VerdictsFound'
  BY <1>1 DEF RunStore, Submits, GovFault, Onward, Doing,
     Bounded, ProcsTyped, Steps, VerdictsFound, Free
<1>2. ASSUME NEW p \in GovProcs, Launch(p) PROVE VerdictsFound'
  BY <1>2 DEF Launch, Reserve, Doing, ProcsTyped, Steps,
     VerdictsFound, Free
<1>3. ASSUME NEW p \in GovProcs, SourceMissing(p) PROVE VerdictsFound'
  BY <1>3 DEF SourceMissing, GovFault, StoreDone, Onward,
     Doing, Bounded, ProcsTyped, Steps, VerdictsFound, Free
<1>4. ASSUME NEW p \in GovProcs, Launched(p) PROVE VerdictsFound'
  BY <1>4, LaunchedMoves DEF VerdictsFound
<1>5. ASSUME NEW p \in GovProcs, NEW a \in Areas, RescanRead(p, a) PROVE VerdictsFound'
  BY <1>5 DEF RescanRead, Doing, ProcsTyped, Steps,
     VerdictsFound, Free
<1>6. ASSUME NEW p \in GovProcs, RescanStore(p) PROVE VerdictsFound'
  BY <1>6 DEF RescanStore, Reserve, Submits, GovFault, Doing,
     Bounded, ProcsTyped, Steps, VerdictsFound, Free
<1>7. ASSUME NEW p \in GovProcs, RescanLaunch(p) PROVE VerdictsFound'
  BY <1>7 DEF RescanLaunch, Done, Doing, ProcsTyped, Steps,
     VerdictsFound, Free
<1>8. ASSUME NEW p \in GovProcs, PollRunning(p) PROVE VerdictsFound'
  BY <1>8 DEF PollRunning, Onward, Doing, ProcsTyped, Steps,
     VerdictsFound, Free
<1>9. ASSUME NEW p \in GovProcs, SyncRunning(p) PROVE VerdictsFound'
  BY <1>9, SyncMoves DEF VerdictsFound
<1>10. ASSUME NEW p \in GovProcs, Delivers(p) PROVE VerdictsFound'
  BY <1>10, DeliverMoves DEF VerdictsFound
<1>11. ASSUME NEW p \in GovProcs, Apply(p) PROVE VerdictsFound'
  <2>1. Verdict(latest) = "APPROVED" => AllFound
    BY DEF Verdict, LatestFound, AllFound
  <2>2. QED
    BY <1>11, <2>1, ApplyMoves DEF VerdictsFound
<1>12. ASSUME NEW p \in GovProcs, Settle(p) PROVE VerdictsFound'
  BY <1>12 DEF Settle, Done, GovFault, Doing, Bounded,
     ProcsTyped, Steps, VerdictsFound, Free
<1>13. ASSUME NEW p \in GovProcs, Looks(p) PROVE VerdictsFound'
  BY <1>13, LookMoves DEF VerdictsFound
<1>14. ASSUME NEW p \in GovProcs, NEW to \in Final, Decide(p, to) PROVE VerdictsFound'
  BY <1>14 DEF Decide, Doing, Bounded, ProcsTyped, Steps,
     VerdictsFound, Free
<1>15. ASSUME NEW p \in GovProcs, Decided(p) PROVE VerdictsFound'
  BY <1>15 DEF Decided, Done, GovFault, Doing, Bounded,
     ProcsTyped, Steps, VerdictsFound, Free
<1>16. ASSUME GovRestart PROVE VerdictsFound'
  BY <1>16 DEF GovRestart, GovFault, Bounded, ProcsTyped,
     Steps, VerdictsFound, Free
<1>17. ASSUME UNCHANGED <<govProc, decisions>> PROVE VerdictsFound'
  BY <1>17 DEF VerdictsFound
<1>18. ASSUME NEW p \in GovProcs, SyncRead(p) PROVE VerdictsFound'
  BY <1>18, ReadMoves DEF VerdictsFound
<1> QED
  BY <1>1, <1>2, <1>3, <1>4, <1>5, <1>6, <1>7, <1>8, <1>9, <1>10, <1>11,
     <1>12, <1>13, <1>14, <1>15, <1>16, <1>17, <1>18,
     ProcsChange

\* Every action keeps a reviewer's decision counted before its status is changed.
LEMMA DecisiveStep ==
  ASSUME ExecsTyped, ProcsTyped, StepsTyped, Scalars, Decisive, [GovernanceNext]_govVars
  PROVE  Decisive'
<1>1. ASSUME NEW p \in GovProcs, RunStore(p) PROVE Decisive'
  BY <1>1 DEF RunStore, Submits, GovFault, Onward, Doing,
     Bounded, ProcsTyped, Steps, Decisive, Free
<1>2. ASSUME NEW p \in GovProcs, Launch(p) PROVE Decisive'
  BY <1>2 DEF Launch, Reserve, Doing, ProcsTyped, Steps,
     Decisive, Free
<1>3. ASSUME NEW p \in GovProcs, SourceMissing(p) PROVE Decisive'
  BY <1>3 DEF SourceMissing, GovFault, StoreDone, Onward,
     Doing, Bounded, ProcsTyped, Steps, Decisive, Free
<1>4. ASSUME NEW p \in GovProcs, Launched(p) PROVE Decisive'
  BY <1>4, LaunchedMoves DEF Decisive
<1>5. ASSUME NEW p \in GovProcs, NEW a \in Areas, RescanRead(p, a) PROVE Decisive'
  BY <1>5 DEF RescanRead, Doing, ProcsTyped, Steps, Decisive,
     Free
<1>6. ASSUME NEW p \in GovProcs, RescanStore(p) PROVE Decisive'
  BY <1>6 DEF RescanStore, Reserve, Submits, GovFault, Doing,
     Bounded, ProcsTyped, Steps, Decisive, Free
<1>7. ASSUME NEW p \in GovProcs, RescanLaunch(p) PROVE Decisive'
  BY <1>7 DEF RescanLaunch, Done, Doing, ProcsTyped, Steps,
     Decisive, Free
<1>8. ASSUME NEW p \in GovProcs, PollRunning(p) PROVE Decisive'
  BY <1>8 DEF PollRunning, Onward, Doing, ProcsTyped, Steps,
     Decisive, Free
<1>9. ASSUME NEW p \in GovProcs, SyncRunning(p) PROVE Decisive'
  BY <1>9, SyncMoves DEF Decisive
<1>10. ASSUME NEW p \in GovProcs, Delivers(p) PROVE Decisive'
  BY <1>10, DeliverMoves DEF Decisive
<1>11. ASSUME NEW p \in GovProcs, Apply(p) PROVE Decisive'
  BY <1>11, ApplyMoves DEF Decisive
<1>12. ASSUME NEW p \in GovProcs, Settle(p) PROVE Decisive'
  BY <1>12 DEF Settle, Done, GovFault, Doing, Bounded,
     ProcsTyped, Steps, Decisive, Free
<1>13. ASSUME NEW p \in GovProcs, Looks(p) PROVE Decisive'
  BY <1>13, LookMoves DEF Decisive
<1>14. ASSUME NEW p \in GovProcs, NEW to \in Final, Decide(p, to) PROVE Decisive'
  BY <1>14 DEF Decide, Doing, Bounded, ProcsTyped, Steps,
     Decisive, Free, Scalars
<1>15. ASSUME NEW p \in GovProcs, Decided(p) PROVE Decisive'
  BY <1>15 DEF Decided, Done, GovFault, Doing, Bounded,
     ProcsTyped, Steps, Decisive, Free
<1>16. ASSUME GovRestart PROVE Decisive'
  BY <1>16 DEF GovRestart, GovFault, Bounded, ProcsTyped,
     Steps, Decisive, Free
<1>17. ASSUME UNCHANGED <<govProc, decisions>> PROVE Decisive'
  BY <1>17 DEF Decisive
<1>18. ASSUME NEW p \in GovProcs, SyncRead(p) PROVE Decisive'
  BY <1>18, ReadMoves DEF Decisive
<1> QED
  BY <1>1, <1>2, <1>3, <1>4, <1>5, <1>6, <1>7, <1>8, <1>9, <1>10, <1>11,
     <1>12, <1>13, <1>14, <1>15, <1>16, <1>17, <1>18,
     ProcsChange

\* Every action keeps an approval without reviewer behind executions that found everything clean.
LEMMA ApprovedStep ==
  ASSUME ExecsTyped, ProcsTyped, Scalars, StepsTyped, VerdictsFound, Decisive, Approved,
         (AllFound => AllFound'), [GovernanceNext]_govVars
  PROVE  Approved'
<1>1. ASSUME NEW p \in GovProcs, RunStore(p) PROVE Approved'
  BY <1>1 DEF RunStore, Submits, GovFault, Onward, Doing,
     Bounded, Approved
<1>2. ASSUME NEW p \in GovProcs, RescanStore(p) PROVE Approved'
  BY <1>2 DEF RescanStore, Reserve, Submits, GovFault, Doing,
     Bounded, Approved
<1>3. ASSUME NEW p \in GovProcs, Apply(p) PROVE Approved'
  BY <1>3 DEF Apply, Done, Applicable, Verdict, Doing,
     Approved
<1>4. ASSUME NEW p \in GovProcs, Settle(p) PROVE Approved'
  BY <1>4 DEF Settle, Done, GovFault, Doing, Bounded,
     Approved, VerdictsFound
<1>5. ASSUME NEW p \in GovProcs, NEW to \in Final, Decide(p, to) PROVE Approved'
  BY <1>5 DEF Decide, Doing, Bounded, Approved, Scalars
<1>6. ASSUME NEW p \in GovProcs, Decided(p) PROVE Approved'
  BY <1>6 DEF Decided, Done, GovFault, Doing, Bounded,
     Approved, Decisive
<1>7. ASSUME Register PROVE Approved'
  BY <1>7 DEF Register, Approved
<1>8. ASSUME UNCHANGED <<govStatus, decisions>> PROVE Approved'
  BY <1>8 DEF Approved
<1> QED
  BY <1>1, <1>2, <1>3, <1>4, <1>5, <1>6, <1>7, <1>8, StatusChanges

(***************************************************************************)
(* Governance: the theorems                                                *)
(***************************************************************************)
\* A record that was created and not submitted yet has the invariant.
LEMMA GovInvInit == GovernanceInit => GovInv
<1> SUFFICES ASSUME GovernanceInit PROVE GovInv
  OBVIOUS
<1>1. latest \in Rows
  BY NoRowTyped DEF GovernanceInit
<1>0. Scalars
  <2>1. 0 \in 0 .. MaxGovEvents
    BY GovernanceAssumption
  <2>2. QED
    BY <2>1 DEF GovernanceInit, Scalars, Final
<1>2. ExecsTyped
  BY GovernanceAssumption DEF GovernanceInit, ExecsTyped, Executions, Stages, NoExecution
<1>3. ProcsTyped
  BY FreeTyped DEF GovernanceInit, ProcsTyped
<1>4. StepsTyped /\ Started /\ Placed /\ NothingYet
  BY DEF GovernanceInit, StepsTyped, Started, Placed, NothingYet, Free, NoExecution
<1>5. LatestFound /\ BasesFound /\ VerdictsFound /\ Decisive /\ Approved /\ Ruling
  BY DEF GovernanceInit, LatestFound, BasesFound, VerdictsFound, Decisive, Approved,
     Ruling, Free, NoRow
<1> QED
  BY <1>0, <1>1, <1>2, <1>3, <1>4, <1>5 DEF GovInv

\* Every step keeps the invariant.
LEMMA GovInvStep == GovInv /\ [GovernanceNext]_govVars => GovInv'
<1> SUFFICES ASSUME GovInv, [GovernanceNext]_govVars PROVE GovInv'
  OBVIOUS
<1> USE DEF GovInv
<1>1. Scalars' /\ latest' \in Rows /\ ExecsTyped' /\ ProcsTyped'
  BY ScalarsStep, LatestStep, ExecsStep, ProcsStep
<1>2. StepsTyped' /\ Started' /\ Placed' /\ NothingYet'
  BY StepsTypedStep, StartedStep, PlacedStep, NothingYetStep
<1>3. (\A x : Found(x) => Found(x)')
  BY FoundStays
<1>4. AllFound => AllFound'
  BY <1>3 DEF AllFound
<1>5. LatestFound' /\ BasesFound'
  BY <1>3, LatestFoundStep, BasesFoundStep
<1>6. VerdictsFound' /\ Decisive' /\ Approved'
  BY <1>4, VerdictsFoundStep, DecisiveStep, ApprovedStep
<1>7. Ruling'
  BY RulingStep
<1> QED
  BY <1>1, <1>2, <1>5, <1>6, <1>7

\* The invariant of the review: rows and verdicts rest on what executions found, the
\* execution of a rescan is its own, and a standing decision has no verdict against it.
THEOREM GovernanceInvariant == GovernanceSpec => []GovInv
<1>1. GovernanceInit => GovInv
  BY GovInvInit
<1>2. GovInv /\ [GovernanceNext]_govVars => GovInv'
  BY GovInvStep
<1> QED
  BY <1>1, <1>2, PTL DEF GovernanceSpec

\* Rows, executions and processes keep their shape, for any areas, processes and bounds.
THEOREM GovernanceTyped == GovernanceSpec => []GovernanceTypeOK
<1>1. GovInv => GovernanceTypeOK
  BY TypesParted DEF GovInv
<1> QED
  BY <1>1, GovernanceInvariant, PTL

\* An asset is only approved without a reviewer when executions have found every area
\* clean, whatever scans and rescans overlap (ApprovedOnEvidence): compute_gates only
\* sees rows whose clean areas some execution scanned.
THEOREM ApprovedByEvidence == GovernanceSpec => []ApprovedOnEvidence
<1>1. GovInv => ApprovedOnEvidence
  BY ApprovedIs DEF GovInv
<1> QED
  BY <1>1, GovernanceInvariant, PTL

\* Only a reviewer's step changes a final status to the other one while a decision stands.
LEMMA RulingKept ==
  ASSUME GovInv, [GovernanceNext]_govVars,
         ruled, ruled', govStatus' \in Final, govStatus' # govStatus
  PROVE  \E p \in GovProcs : Doing(p, "human")
<1>1. ASSUME NEW p \in GovProcs, RunStore(p) PROVE \E q \in GovProcs : Doing(q, "human")
  BY <1>1 DEF RunStore, Submits, GovFault, Onward, Doing,
     Bounded, Final
<1>2. ASSUME NEW p \in GovProcs, RescanStore(p) PROVE \E q \in GovProcs : Doing(q, "human")
  BY <1>2 DEF RescanStore, Reserve, Submits, GovFault, Doing,
     Bounded, Final
<1>3. ASSUME NEW p \in GovProcs, Apply(p) PROVE \E q \in GovProcs : Doing(q, "human")
  BY <1>3 DEF Apply, Done, Applicable, Verdict, Doing,
     Final
<1>4. ASSUME NEW p \in GovProcs, Settle(p) PROVE \E q \in GovProcs : Doing(q, "human")
  BY <1>4 DEF Settle, Done, GovFault, Doing, Bounded, Final,
     GovInv, Ruling
<1>5. ASSUME NEW p \in GovProcs, NEW to \in Final, Decide(p, to)
      PROVE  \E q \in GovProcs : Doing(q, "human")
  BY <1>5 DEF Decide, Doing, Bounded, Final
<1>6. ASSUME NEW p \in GovProcs, Decided(p) PROVE \E q \in GovProcs : Doing(q, "human")
  BY <1>6 DEF Decided, Done, GovFault, Doing, Bounded,
     Final, GovInv
<1>7. ASSUME Register PROVE \E q \in GovProcs : Doing(q, "human")
  BY <1>7 DEF Register, Final
<1>8. ASSUME UNCHANGED <<govStatus, decisions>> PROVE \E p \in GovProcs : Doing(p, "human")
  BY <1>8
<1> QED
  BY <1>1, <1>2, <1>3, <1>4, <1>5, <1>6, <1>7, <1>8, StatusChanges

\* What a reviewer decided is not changed by the pollers until another scan is done,
\* except by a poll that was under way when the decision was made (RulingStands):
\* pending_verdict_record_ids leaves a final status alone.
THEOREM RulingsStand == GovernanceSpec => RulingStands
<1>1. GovInv /\ [GovernanceNext]_govVars =>
        [(ruled /\ ruled' /\ govStatus' \in Final /\ govStatus' # govStatus)
           => \E p \in GovProcs : Doing(p, "human")]_govVars
  BY RulingKept
<1> QED
  BY <1>1, GovernanceInvariant, PTL DEF GovernanceSpec, RulingStands

\* What the backstop may forget: an asset that it settled, whose scan is done, has a
\* final status, unless a scan ended that it had not seen running.
ForgetsTheFinal ==
  settled /\ ~ unseen /\ latest.st = "done" => govStatus \in Final

\* A final status is only left for a review that a running row announces.
LEMMA FinalStays ==
  ASSUME GovInv, [GovernanceNext]_govVars, govStatus \in Final
  PROVE  govStatus' \in Final \/ latest'.st = "running"
<1>1. ASSUME NEW p \in GovProcs, RunStore(p) PROVE latest'.st = "running"
  BY <1>1 DEF RunStore, NoRow
<1>2. ASSUME NEW p \in GovProcs, RescanStore(p) PROVE latest'.st = "running"
  <2>1. GovernanceTypeOK BY TypesParted DEF GovInv
  <2>2. govProc[p].base \in Rows BY <2>1 DEF GovernanceTypeOK
  <2> QED BY <1>2, <2>2 DEF RescanStore, Rows
<1>3. ASSUME NEW p \in GovProcs, Apply(p) PROVE govStatus' \in Final
  BY <1>3 DEF Apply, Final
<1>4. ASSUME NEW p \in GovProcs, Settle(p) PROVE govStatus' \in Final
  BY <1>4 DEF Settle, Doing, GovInv, StepsTyped
<1>5. ASSUME NEW p \in GovProcs, NEW to \in Final, Decide(p, to) PROVE govStatus' \in Final
  BY <1>5 DEF Decide, Final
<1>6. ASSUME NEW p \in GovProcs, Decided(p) PROVE govStatus' \in Final
  BY <1>6 DEF Decided, Doing, GovInv, StepsTyped
<1>7. ASSUME Register PROVE govStatus' \in Final
  BY <1>7 DEF Register, Final
<1>8. ASSUME UNCHANGED <<govStatus, decisions>> PROVE govStatus' \in Final
  BY <1>8
<1> QED
  BY <1>1, <1>2, <1>3, <1>4, <1>5, <1>6, <1>7, <1>8, StatusChanges

\* A row becomes done by StoreDone only, and the backstop alone settles an asset.
Noticed ==
  /\ unseen => unseen'
  /\ latest'.st = "done" => latest' = latest \/ unseen' = (unseen \/ settled)
  /\ settled' => \/ settled
                 \/ latest' = latest /\ govStatus' = govStatus /\ govStatus \in Final

LEMMA DoneIsNoticed ==
  ASSUME GovInv, [GovernanceNext]_govVars
  PROVE  Noticed
<1>1. ASSUME NEW p \in GovProcs, RunStore(p) PROVE Noticed
  BY <1>1 DEF RunStore, NoRow, Noticed
<1>2. ASSUME NEW p \in GovProcs, RescanStore(p) PROVE Noticed
  <2>1. GovernanceTypeOK BY TypesParted DEF GovInv
  <2>2. govProc[p].base \in Rows BY <2>1 DEF GovernanceTypeOK
  <2>3. latest'.st = "running" BY <1>2, <2>2 DEF RescanStore, Rows
  <2> QED BY <1>2, <2>3 DEF RescanStore, Noticed
<1>3. ASSUME NEW p \in GovProcs, Launched(p) PROVE Noticed
  BY <1>3 DEF Launched, NoRow, Noticed
<1>4. ASSUME NEW p \in GovProcs, SourceMissing(p) \/ Delivers(p) PROVE Noticed
  <2>1. CASE UNCHANGED <<latest, unseen, settled>>
    BY <2>1 DEF Noticed
  <2>2. CASE unseen' = (unseen \/ settled) /\ settled' = settled
    BY <2>2, Zenon DEF Noticed
  <2> QED
    BY <1>4, <2>1, <2>2 DEF SourceMissing, Delivers, SyncStore, RescanRefused, StoreDone
<1>5. ASSUME NEW n \in 1 .. MaxScans, Ends(n) PROVE Noticed
  <2>1. CASE UNCHANGED <<latest, unseen, settled>>
    BY <2>1 DEF Noticed
  <2>2. CASE unseen' = (unseen \/ settled) /\ settled' = settled
    BY <2>2, Zenon DEF Noticed
  <2> QED
    BY <1>5, <2>1, <2>2 DEF Ends, ExecutionFails, Succeed, StoreDone
<1>6. ASSUME Rearm \/ (\E p \in GovProcs : BackstopRearm(p) \/ BackstopAsk(p)) PROVE Noticed
  <2>1. /\ latest' = latest /\ govStatus' = govStatus /\ unseen' = unseen
        /\ settled' => settled \/ govStatus \in Final
    BY <1>6 DEF Rearm, BackstopRearm, BackstopAsk, Rearmed, Closed
  <2> QED BY <2>1, Zenon DEF Noticed
<1>7. ASSUME GovRestart PROVE Noticed
  BY <1>7 DEF GovRestart, Noticed
<1>8. ASSUME UNCHANGED <<latest, settled, unseen>> PROVE Noticed
  BY <1>8 DEF Noticed
<1>9. ASSUME NEW p \in GovProcs,
             Launch(p) \/ RescanLaunch(p) \/ SyncRunning(p) \/ SyncRead(p) \/ Apply(p)
               \/ Settle(p) \/ Decided(p) \/ PollRunning(p) \/ RunRead(p) \/ BackstopList(p)
      PROVE  UNCHANGED <<latest, settled, unseen>>
  BY <1>9 DEF Launch, RescanLaunch, SyncRunning, SyncRead, Apply, Settle, Decided, PollRunning,
     RunRead, BackstopList
<1>10. ASSUME NEW p \in GovProcs, NEW a \in Areas, RescanRead(p, a)
       PROVE  UNCHANGED <<latest, settled, unseen>>
  BY <1>10 DEF RescanRead
<1>11. ASSUME NEW p \in GovProcs, NEW to \in Final, Decide(p, to)
       PROVE  UNCHANGED <<latest, settled, unseen>>
  BY <1>11 DEF Decide
<1>12. ASSUME Register \/ ContactsGiven \/ UNCHANGED govVars
       PROVE  UNCHANGED <<latest, settled, unseen>>
  BY <1>12 DEF Register, ContactsGiven, govVars
<1> QED
  BY <1>1, <1>2, <1>3, <1>4, <1>5, <1>6, <1>7, <1>8, <1>9, <1>10, <1>11, <1>12
     DEF GovernanceNext, Advance, Delivers

\* The safety half of VerdictReaches: pending_verdict_record_ids stops looking at an
\* asset only when its review is over, whatever scans, polls and reviewers overlap.
THEOREM ForgottenAreFinal == GovernanceSpec => []ForgetsTheFinal
<1>1. GovernanceInit => ForgetsTheFinal
  BY DEF GovernanceInit, ForgetsTheFinal
<1>2. GovInv /\ ForgetsTheFinal /\ [GovernanceNext]_govVars => ForgetsTheFinal'
  <2> SUFFICES ASSUME GovInv, ForgetsTheFinal, [GovernanceNext]_govVars,
                      settled', ~ unseen', latest'.st = "done"
               PROVE  govStatus' \in Final
    BY DEF ForgetsTheFinal
  <2>1. CASE settled
    <3>1. latest' = latest /\ ~ unseen BY <2>1, DoneIsNoticed DEF Noticed
    <3>2. govStatus \in Final BY <2>1, <3>1 DEF ForgetsTheFinal
    <3>3. latest'.st # "running" OBVIOUS
    <3> QED BY <3>2, <3>3, FinalStays
  <2>2. CASE ~ settled
    BY <2>2, DoneIsNoticed DEF Noticed
  <2> QED BY <2>1, <2>2
<1> QED
  BY <1>1, <1>2, GovernanceInvariant, PTL DEF GovernanceSpec

(***************************************************************************)
(* Sensitivity: the parts of the type invariant                            *)
(***************************************************************************)
\* The requests; the descriptor's tag, the Targets, flags and counter; the poller.
SensPcs == {"idle", "read", "begin", "out", "in", "registry", "commit", "undoOut",
            "undoIn", "undoRecord", "fail"}
Requests == [pc: SensPcs, entry: Entries, rec: Tags, chg: Changes, live: BOOLEAN,
             undo: BOOLEAN]
RequestsTyped == sensExec \in [SensExecs -> Requests]
ScalarsTyped ==
  /\ sensMode \in [deployed: BOOLEAN, propagation: BOOLEAN]
  /\ sensRecord \in Tags /\ sensTargets \subseteq Tagged
  /\ sensFaults \in 0 .. MaxSensFaults /\ overtaken \in BOOLEAN /\ cut \in BOOLEAN
PollTyped == sensPoll \in Entries \cup {NoChange}

(***************************************************************************)
(* Sensitivity: the invariant                                              *)
(***************************************************************************)
\* A copy of the ledger is not newer than the ledger, and the same when it has its
\* version.
Copied(copy) ==
  /\ copy.ver <= sensEntry.ver
  /\ copy.ver = sensEntry.ver => copy = sensEntry

\* So are the copies of the requests and of the poller.
CopiesOK ==
  /\ \A e \in SensExecs : Pc(e) # "idle" => Copied(sensExec[e].entry)
  /\ sensPoll # NoChange => sensPoll \in Entries /\ Copied(sensPoll)

\* A request that took a change planned it on a ledger that had the tool, with the
\* tag the change starts from; the change was open.
Planned == \A e \in SensExecs : Pc(e) \notin {"idle", "read"} =>
  /\ sensExec[e].entry.state # "MISSING"
  /\ sensExec[e].entry.tag = sensExec[e].chg.before
  /\ sensExec[e].chg.status \notin {"none", "APPLIED"}

\* Targets are only moved of deployed assets; what was not moved back is not called
\* live; who records a failure has an outcome.
Placing == \A e \in SensExecs :
  /\ Pc(e) \in {"out", "in", "undoIn"} => sensMode.deployed
  /\ Pc(e) \in {"undoOut", "undoIn", "undoRecord"} /\ sensExec[e].live => sensMode.deployed
  /\ Pc(e) \in {"undoOut", "undoIn"} => ~ sensExec[e].live
  /\ Pc(e) = "fail" => sensExec[e].chg.outcome # "none"

\* The state of a deployed tool is what its tag says.
AsDeployed == sensMode.deployed => sensEntry.state = NextState(sensEntry.tag)

\* Until a retry overtakes an executor, who works holds the change as it is stored,
\* APPLYING, and nobody else works.
Alone == ~ overtaken =>
  /\ \A e \in Working : /\ sensChange.status = "APPLYING"
                        /\ sensChange = [sensExec[e].chg EXCEPT !.outcome = sensChange.outcome]
  /\ \A e, f \in Working : e = f

\* An APPLYING change that no executor works on was cut short.
Attempted == ~ overtaken /\ ~ cut /\ sensChange.status = "APPLYING" => Working # {}

\* While no change is open, the descriptor and the Targets have the ledger's tag.
Settled == ~ overtaken /\ ~ Unfinished =>
  /\ sensMode.deployed => sensRecord = sensEntry.tag /\ sensTargets = Of(sensEntry.tag)
  /\ sensEntry.state \in {"ACTIVE", "CHANGED"} => sensRecord = sensEntry.tag

\* While a change from the ledger's tag is open, the tool is in no other Target than
\* the change's two, and as far moved as the executor's step says.
Moving ==
  ~ overtaken /\ Unfinished /\ sensMode.deployed /\ sensChange.before = sensEntry.tag =>
    /\ sensTargets \subseteq {sensChange.before, sensChange.after}
    /\ \A e \in Working :
         /\ Pc(e) = "in" /\ Moves(e) => sensChange.before \notin sensTargets
         /\ Pc(e) \in {"registry", "commit"} => sensTargets = Of(sensChange.after)
         /\ Pc(e) = "undoIn" /\ Moves(e) => sensChange.after \notin sensTargets

\* Who is about to commit has written the descriptor.
Written == ~ overtaken => \A e \in Working : Pc(e) = "commit" => sensRecord = sensChange.after

\* Descriptor and Targets are what they were when the change was made.
AsBefore == sensRecord = sensChange.rec /\ sensTargets = sensChange.targets

\* How far the executor's step lets them differ.
Reported(e) ==
  /\ Pc(e) = "out" => AsBefore
  /\ Pc(e) \in {"in", "registry"} => sensRecord = sensChange.rec
  /\ Pc(e) \in {"undoOut", "undoIn", "undoRecord"} /\ ~ sensExec[e].undo =>
       sensRecord = sensChange.rec
  /\ Pc(e) = "undoRecord" /\ sensExec[e].live => sensTargets = sensChange.targets
  /\ Pc(e) = "fail" /\ sensExec[e].chg.outcome \in {"restored", "unchanged"} => AsBefore

\* A change of a deployed asset that was made from the current ledger remembers the
\* tag it starts from, in the descriptor and as a Target.
Based == ~ overtaken /\ Unfinished /\ ~ sensChange.stale /\ sensMode.deployed =>
  /\ sensChange.before = sensEntry.tag
  /\ sensChange.rec = sensChange.before /\ sensChange.targets = Of(sensChange.before)

\* Before a change was cut short, they differ only as far as the executor's step
\* says, and not when nobody works.
Honest == ~ overtaken /\ Unfinished /\ ~ sensChange.stale /\ ~ cut =>
  /\ Working = {} => AsBefore
  /\ \A e \in Working : Reported(e)

SensInv ==
  /\ RequestsTyped /\ ScalarsTyped /\ PollTyped
  /\ sensEntry \in Entries /\ sensChange \in Changes
  /\ CopiesOK /\ Planned /\ Placing /\ AsDeployed /\ Alone /\ Attempted
  /\ Settled /\ Moving /\ Written /\ Based /\ Honest

\* The parts give the type invariant of the model.
LEMMA SensTypes ==
  ASSUME RequestsTyped, ScalarsTyped, PollTyped, sensEntry \in Entries, sensChange \in Changes
  PROVE  SensitivityTypeOK
BY DEF SensitivityTypeOK, RequestsTyped, ScalarsTyped, PollTyped, Requests, SensPcs

\* A request that has nothing to do is well typed.
LEMMA NoExecTyped == NoExec \in Requests
BY SensitivityAssumption DEF NoExec, NoChange, Requests, SensPcs, Entries, EntryStates,
   Changes, Statuses, Tags, Tagged

\* Requests stay well typed when one of them goes on.
LEMMA GotoTyped ==
  ASSUME RequestsTyped, NEW e \in SensExecs, NEW pc \in SensPcs
  PROVE  [sensExec EXCEPT ![e].pc = pc] \in [SensExecs -> Requests]
BY DEF RequestsTyped, Requests

\* Who leaves is idle, and nobody else moves.
LEMMA Leaves ==
  ASSUME RequestsTyped, NEW e \in SensExecs, Leave(e)
  PROVE  sensExec'[e] = NoExec /\ \A f \in SensExecs \ {e} : sensExec'[f] = sensExec[f]
BY DEF RequestsTyped, Leave

\* Requests stay well typed when one of them goes on with a change.
LEMMA TakesTyped ==
  ASSUME RequestsTyped, NEW e \in SensExecs, NEW pc \in SensPcs, NEW chg \in Changes
  PROVE  [sensExec EXCEPT ![e].pc = pc, ![e].chg = chg] \in [SensExecs -> Requests]
BY DEF RequestsTyped, Requests

\* Requests stay well typed when one of them is about to record a failure.
LEMMA ReportsTyped ==
  ASSUME RequestsTyped, NEW e \in SensExecs,
         NEW outcome \in {"none", "unchanged", "restored", "diverged"}
  PROVE  [sensExec EXCEPT ![e].pc = "fail", ![e].chg.outcome = outcome]
           \in [SensExecs -> Requests]
<1>1. \A chg \in Changes : [chg EXCEPT !.outcome = outcome] \in Changes
  BY DEF Changes
<1>2. \A me \in Requests : [me EXCEPT !.pc = "fail"] \in Requests
  BY DEF Requests, SensPcs
<1>3. \A me \in Requests : [me EXCEPT !.chg.outcome = outcome] \in Requests
  BY <1>1 DEF Requests
<1> QED
  BY <1>2, <1>3 DEF RequestsTyped

\* Requests stay well typed when one of them starts to compensate.
LEMMA UndoTyped ==
  ASSUME RequestsTyped, NEW e \in SensExecs, NEW undo \in BOOLEAN
  PROVE  [sensExec EXCEPT ![e].undo = undo, ![e].live = FALSE, ![e].pc = "undoOut"]
           \in [SensExecs -> Requests]
<1>1. \A f \in [SensExecs -> Requests] : [f EXCEPT ![e].undo = undo] \in [SensExecs -> Requests]
  BY DEF Requests
<1>2. \A f \in [SensExecs -> Requests] :
        [f EXCEPT ![e].live = FALSE] \in [SensExecs -> Requests]
  BY DEF Requests
<1>3. \A f \in [SensExecs -> Requests] :
        [f EXCEPT ![e].pc = "undoOut"] \in [SensExecs -> Requests]
  BY DEF Requests, SensPcs
<1> QED
  BY <1>1, <1>2, <1>3 DEF RequestsTyped

\* A change stays well typed when it is only refreshed.
LEMMA VersionTyped ==
  ASSUME NEW chg \in Changes, chg.ver < MaxChangeWrites
  PROVE  [chg EXCEPT !.ver = @ + 1] \in Changes
<1>1. chg.ver + 1 \in 0 .. MaxChangeWrites
  BY SensitivityAssumption DEF Changes
<1> QED
  BY <1>1 DEF Changes

\* A change stays well typed when its status changes.
LEMMA StatusTyped ==
  ASSUME NEW chg \in Changes, chg.ver < MaxChangeWrites, NEW status \in Statuses
  PROVE  [chg EXCEPT !.ver = @ + 1, !.status = status] \in Changes
<1>1. chg.ver + 1 \in 0 .. MaxChangeWrites
  BY SensitivityAssumption DEF Changes
<1> QED
  BY <1>1 DEF Changes

\* A change stays well typed when its status and its outcome change.
LEMMA OutcomeTyped ==
  ASSUME NEW chg \in Changes, chg.ver < MaxChangeWrites, NEW status \in Statuses,
         NEW outcome \in {"none", "unchanged", "restored", "diverged"}
  PROVE  [chg EXCEPT !.ver = @ + 1, !.status = status, !.outcome = outcome] \in Changes
<1>1. chg.ver + 1 \in 0 .. MaxChangeWrites
  BY SensitivityAssumption DEF Changes
<1> QED
  BY <1>1 DEF Changes

\* The change that Create makes, before it is found that it cannot be applied.
Made(e, tag) ==
  [ver |-> 1, status |-> "PENDING_APPROVAL", before |-> sensExec[e].entry.tag,
   after |-> tag, rec |-> sensRecord, targets |-> sensTargets,
   stale |-> sensExec[e].entry.ver # sensEntry.ver, outcome |-> "none"]
Doomed(made) ==
  [made EXCEPT !.ver = 2, !.status = "FAILED", !.outcome = "unchanged"]

\* What set_sensitivity does: it stores the change, and begins it or leaves.
LEMMA Creates ==
  ASSUME NEW e \in SensExecs, NEW tag \in Tags, NEW known \in BOOLEAN, Create(e, tag, known)
  PROVE  /\ sensChange' \in {Made(e, tag), Doomed(Made(e, tag))}
         /\ \/ /\ sensExec' = [sensExec EXCEPT ![e].pc = "begin", ![e].chg = Made(e, tag)]
               /\ sensChange' = Made(e, tag)
            \/ sensExec' = [sensExec EXCEPT ![e] = NoExec]
         /\ Pc(e) = "read" /\ Plannable(e) /\ ~ Unfinished /\ cut' = FALSE
         /\ UNCHANGED <<sensMode, sensEntry, sensRecord, sensTargets, sensPoll,
                        sensFaults, overtaken>>
BY DEF Create, Made, Doomed, Leave

\* A change that is made is well typed, also when it fails at once.
LEMMA MadeTyped ==
  ASSUME ScalarsTyped, RequestsTyped, NEW e \in SensExecs, NEW tag \in Tags
  PROVE  Made(e, tag) \in Changes /\ Doomed(Made(e, tag)) \in Changes
<1>1. sensExec[e].entry.tag \in Tags
  BY DEF RequestsTyped, Requests, Entries
<1>2. Made(e, tag) \in Changes
  BY <1>1, SensitivityAssumption DEF Made, Changes, ScalarsTyped, Statuses
<1> QED
  <2>1. \A made \in Changes :
        [made EXCEPT !.ver = 2, !.status = "FAILED", !.outcome = "unchanged"] \in Changes
    <3>1. 2 \in 0 .. MaxChangeWrites
      BY SensitivityAssumption
    <3>2. QED
      BY <3>1 DEF Changes, Statuses
  <2>2. QED
    BY <1>2, <2>1 DEF Doomed

\* Who writes the ledger.
LEMMA LedgerWrites ==
  ASSUME [SensitivityNext]_sensVars
  PROVE  \/ UNCHANGED sensEntry
         \/ \E e \in SensExecs : Commit(e)
         \/ \E seen \in {"same", "changed", "absent", "failed"} : PollWrite(seen)
<1>1. ASSUME NEW e \in SensExecs,
             \/ ReadBoth(e) \/ Refused(e) \/ Retry(e) \/ Park(e) \/ Begin(e) \/ Conflicts(e)
      PROVE  UNCHANGED sensEntry
  BY <1>1 DEF ReadBoth, Refused, Retry, Park, Begin, Conflicts
<1>2. ASSUME NEW e \in SensExecs, NEW tag \in Tags, NEW known \in BOOLEAN, Create(e, tag, known)
      PROVE  UNCHANGED sensEntry
  BY <1>2 DEF Create
<1>3. ASSUME NEW e \in SensExecs, NEW same \in BOOLEAN, Approve(e, same)
      PROVE  UNCHANGED sensEntry
  BY <1>3 DEF Approve
<1>4. ASSUME NEW e \in SensExecs,
             \/ MoveOut(e) \/ MoveIn(e) \/ NoMove(e) \/ UpdateRegistry(e) \/ StepFails(e)
      PROVE  UNCHANGED sensEntry
  BY <1>4 DEF MoveOut, MoveIn, NoMove, UpdateRegistry, StepFails
<1>5. ASSUME NEW e \in SensExecs,
             \/ CommitRefused(e) \/ UndoOut(e) \/ UndoIn(e) \/ UndoFails(e)
             \/ UndoRecord(e) \/ RestoreFails(e)
      PROVE  UNCHANGED sensEntry
  BY <1>5 DEF CommitRefused, UndoOut, UndoIn, UndoFails, UndoRecord, RestoreFails
<1>6. ASSUME NEW e \in SensExecs, Fail(e) \/ Die(e) PROVE UNCHANGED sensEntry
  BY <1>6 DEF Fail, Die
<1>7. ASSUME PollRead \/ UNCHANGED sensVars PROVE UNCHANGED sensEntry
  BY <1>7 DEF PollRead, sensVars
<1>8. ASSUME NEW e \in SensExecs, SensitivityStep(e) PROVE UNCHANGED sensEntry \/ Commit(e)
  BY <1>1, <1>2, <1>3, <1>4, <1>5, <1>6, <1>8 DEF SensitivityStep
<1> QED
  BY <1>7, <1>8 DEF SensitivityNext

\* Who writes the change; an executor that begins may overtake another one, and a commit
\* and the poller write the ledger.
LEMMA ChangeWrites ==
  ASSUME [SensitivityNext]_sensVars
  PROVE  \/ UNCHANGED <<sensChange, sensEntry, sensMode, overtaken>>
         \/ \E e \in SensExecs : Park(e) \/ Begin(e) \/ Commit(e) \/ Fail(e)
         \/ \E e \in SensExecs, tag \in Tags, known \in BOOLEAN : Create(e, tag, known)
         \/ \E e \in SensExecs, same \in BOOLEAN : Approve(e, same)
         \/ \E seen \in {"same", "changed", "absent", "failed"} : PollWrite(seen)
<1> DEFINE quiet == UNCHANGED <<sensChange, sensEntry, sensMode, overtaken>>
<1>1. ASSUME NEW e \in SensExecs, ReadBoth(e) \/ Refused(e) \/ Retry(e) \/ Conflicts(e)
      PROVE  quiet
  BY <1>1 DEF ReadBoth, Refused, Retry, Conflicts
<1>2. ASSUME NEW e \in SensExecs,
             \/ MoveOut(e) \/ MoveIn(e) \/ NoMove(e) \/ UpdateRegistry(e) \/ StepFails(e)
      PROVE  quiet
  BY <1>2 DEF MoveOut, MoveIn, NoMove, UpdateRegistry, StepFails
<1>3. ASSUME NEW e \in SensExecs,
             \/ CommitRefused(e) \/ UndoOut(e) \/ UndoIn(e) \/ UndoFails(e)
             \/ UndoRecord(e) \/ RestoreFails(e) \/ Die(e)
      PROVE  quiet
  BY <1>3 DEF CommitRefused, UndoOut, UndoIn, UndoFails, UndoRecord, RestoreFails, Die
<1>4. ASSUME PollRead \/ UNCHANGED sensVars PROVE quiet
  BY <1>4 DEF PollRead, sensVars
<1> HIDE DEF quiet
<1>5. ASSUME NEW e \in SensExecs, SensitivityStep(e)
      PROVE  \/ quiet
             \/ Park(e) \/ Begin(e) \/ Commit(e) \/ Fail(e)
             \/ \E tag \in Tags, known \in BOOLEAN : Create(e, tag, known)
             \/ \E same \in BOOLEAN : Approve(e, same)
  BY <1>1, <1>2, <1>3, <1>5 DEF SensitivityStep
<1>6. CASE quiet
  BY <1>6 DEF quiet
<1> QED
  BY <1>4, <1>5, <1>6 DEF SensitivityNext

\* Every action leaves the descriptor's tag, the Targets, the flags and the counter well typed.
LEMMA ScalarsTypedStep ==
  ASSUME ScalarsTyped, RequestsTyped, PollTyped, sensEntry \in Entries,
         sensChange \in Changes, [SensitivityNext]_sensVars
  PROVE  ScalarsTyped'
<1>1. ASSUME NEW e \in SensExecs, ReadBoth(e) PROVE ScalarsTyped'
  BY <1>1, SensitivityAssumption DEF ReadBoth, NoExec, ScalarsTyped, RequestsTyped,
     Requests, Changes, Tags, Tagged
<1>2. ASSUME NEW e \in SensExecs, Refused(e) PROVE ScalarsTyped'
  BY <1>2, SensitivityAssumption DEF Refused, Leave, ScalarsTyped, RequestsTyped,
     Requests, Changes, Tags, Tagged
<1>3. ASSUME NEW e \in SensExecs, Retry(e) PROVE ScalarsTyped'
  BY <1>3, SensitivityAssumption DEF Retry, Pending, Plannable, ScalarsTyped,
     RequestsTyped, Requests, Changes, Tags, Tagged
<1>4. ASSUME NEW e \in SensExecs, NEW tag \in Tags, NEW known \in BOOLEAN, Create(e, tag, known)
      PROVE  ScalarsTyped'
  BY <1>4, SensitivityAssumption DEF Create, Plannable, IsDowngrade, NextState,
     Unfinished, Leave, ScalarsTyped, RequestsTyped, Requests, Changes, Tags,
     Tagged
<1>5. ASSUME NEW e \in SensExecs, NEW same \in BOOLEAN, Approve(e, same)
      PROVE  ScalarsTyped'
  BY <1>5, SensitivityAssumption DEF Approve, Leave, Pending, Plannable,
     ScalarsTyped, RequestsTyped, Requests, Changes, Tags, Tagged
<1>6. ASSUME NEW e \in SensExecs, Park(e) PROVE ScalarsTyped'
  BY <1>6, SensitivityAssumption DEF Park, Same, Leave, ScalarsTyped,
     RequestsTyped, Requests, Changes, Tags, Tagged
<1>7. ASSUME NEW e \in SensExecs, Begin(e) PROVE ScalarsTyped'
  BY <1>7, SensitivityAssumption DEF Begin, Same, Transition, ScalarsTyped,
     RequestsTyped, Requests, Changes, Tags, Tagged
<1>8. ASSUME NEW e \in SensExecs, Conflicts(e) PROVE ScalarsTyped'
  BY <1>8, SensitivityAssumption DEF Conflicts, Leave, ScalarsTyped, RequestsTyped,
     Requests, Changes, Tags, Tagged
<1>9. ASSUME NEW e \in SensExecs, MoveOut(e) PROVE ScalarsTyped'
  BY <1>9, SensitivityAssumption DEF MoveOut, TakenOut, Goto, ScalarsTyped,
     RequestsTyped, Requests, Changes, Tags, Tagged, Without
<1>10. ASSUME NEW e \in SensExecs, MoveIn(e) PROVE ScalarsTyped'
  BY <1>10, SensitivityAssumption DEF MoveIn, PutIn, Goto, ScalarsTyped,
     RequestsTyped, Requests, Changes, Tags, Tagged, Of
<1>11. ASSUME NEW e \in SensExecs, NoMove(e) PROVE ScalarsTyped'
  BY <1>11, SensitivityAssumption DEF NoMove, SensFault, ScalarsTyped,
     RequestsTyped, Requests, Changes, Tags, Tagged
<1>12. ASSUME NEW e \in SensExecs, UpdateRegistry(e) PROVE ScalarsTyped'
  BY <1>12, SensitivityAssumption DEF UpdateRegistry, Goto, ScalarsTyped,
     RequestsTyped, Requests, Changes, Tags, Tagged
<1>13. ASSUME NEW e \in SensExecs, StepFails(e) PROVE ScalarsTyped'
  BY <1>13, SensitivityAssumption DEF StepFails, SensFault, ScalarsTyped,
     RequestsTyped, Requests, Changes, Tags, Tagged, TakenOut, Without, PutIn, Of
<1>14. ASSUME NEW e \in SensExecs, Commit(e) PROVE ScalarsTyped'
  BY <1>14, SensitivityAssumption DEF Commit, Current, Same, Leave, NextState,
     ScalarsTyped, RequestsTyped, Requests, Changes, Tags, Tagged
<1>15. ASSUME NEW e \in SensExecs, CommitRefused(e) PROVE ScalarsTyped'
  BY <1>15, SensitivityAssumption DEF CommitRefused, ScalarsTyped, RequestsTyped,
     Requests, Changes, Tags, Tagged
<1>16. ASSUME NEW e \in SensExecs, UndoOut(e) PROVE ScalarsTyped'
  BY <1>16, SensitivityAssumption DEF UndoOut, Goto, ScalarsTyped, RequestsTyped,
     Requests, Changes, Tags, Tagged, Without
<1>17. ASSUME NEW e \in SensExecs, UndoIn(e) PROVE ScalarsTyped'
  BY <1>17, SensitivityAssumption DEF UndoIn, ScalarsTyped, RequestsTyped,
     Requests, Changes, Tags, Tagged, Of
<1>18. ASSUME NEW e \in SensExecs, UndoFails(e) PROVE ScalarsTyped'
  BY <1>18, SensitivityAssumption DEF UndoFails, SensFault, Goto, ScalarsTyped,
     RequestsTyped, Requests, Changes, Tags, Tagged
<1>19. ASSUME NEW e \in SensExecs, UndoRecord(e) PROVE ScalarsTyped'
  BY <1>19, SensitivityAssumption DEF UndoRecord, ScalarsTyped, RequestsTyped,
     Requests, Changes, Tags, Tagged
<1>20. ASSUME NEW e \in SensExecs, RestoreFails(e) PROVE ScalarsTyped'
  BY <1>20, SensitivityAssumption DEF RestoreFails, SensFault, ScalarsTyped,
     RequestsTyped, Requests, Changes, Tags, Tagged
<1>21. ASSUME NEW e \in SensExecs, Fail(e) PROVE ScalarsTyped'
  BY <1>21, SensitivityAssumption DEF Fail, Leave, ScalarsTyped, RequestsTyped,
     Requests, Changes, Tags, Tagged
<1>22. ASSUME NEW e \in SensExecs, Die(e) PROVE ScalarsTyped'
  BY <1>22, SensitivityAssumption DEF Die, SensFault, Leave, ScalarsTyped,
     RequestsTyped, Requests, Changes, Tags, Tagged
<1>23. ASSUME PollRead PROVE ScalarsTyped'
  BY <1>23, SensitivityAssumption DEF PollRead, ScalarsTyped, RequestsTyped,
     Requests, Changes, Tags, Tagged
<1>24. ASSUME NEW seen \in {"same", "changed", "absent", "failed"}, PollWrite(seen)
      PROVE  ScalarsTyped'
  BY <1>24, SensitivityAssumption DEF PollWrite, Reconciled, ScalarsTyped,
     RequestsTyped, Requests, Changes, Tags, Tagged
<1>25. ASSUME UNCHANGED sensVars PROVE ScalarsTyped'
  BY <1>25 DEF sensVars, ScalarsTyped, RequestsTyped, Requests, Changes, Tags,
     Tagged
<1> QED
  BY <1>1, <1>2, <1>3, <1>4, <1>5, <1>6, <1>7, <1>8, <1>9, <1>10, <1>11, <1>12,
     <1>13, <1>14, <1>15, <1>16, <1>17, <1>18, <1>19, <1>20, <1>21, <1>22, <1>23,
     <1>24, <1>25 DEF SensitivityNext, SensitivityStep

\* Every action leaves the requests well typed.
LEMMA RequestsTypedStep ==
  ASSUME ScalarsTyped, RequestsTyped, PollTyped, sensEntry \in Entries,
         sensChange \in Changes, [SensitivityNext]_sensVars
  PROVE  RequestsTyped'
<1>1. ASSUME NEW e \in SensExecs, ReadBoth(e) PROVE RequestsTyped'
  <2>1. [NoExec EXCEPT !.pc = "read", !.entry = sensEntry, !.rec = sensRecord] \in Requests
    BY NoExecTyped DEF Requests, SensPcs, ScalarsTyped
  <2>2. QED
    BY <1>1, <2>1 DEF ReadBoth, RequestsTyped
<1>2. ASSUME NEW e \in SensExecs, Refused(e) PROVE RequestsTyped'
  BY <1>2, NoExecTyped DEF Refused, Leave, RequestsTyped
<1>3. ASSUME NEW e \in SensExecs, Retry(e) PROVE RequestsTyped'
  BY <1>3, TakesTyped DEF Retry, RequestsTyped, SensPcs
<1>4. ASSUME NEW e \in SensExecs, NEW tag \in Tags, NEW known \in BOOLEAN, Create(e, tag, known)
      PROVE  RequestsTyped'
  <2>1. \/ sensExec' = [sensExec EXCEPT ![e].pc = "begin", ![e].chg = Made(e, tag)]
        \/ sensExec' = [sensExec EXCEPT ![e] = NoExec]
    BY <1>4, Creates
  <2>2. "begin" \in SensPcs /\ Made(e, tag) \in Changes
    BY MadeTyped DEF SensPcs
  <2>3. [sensExec EXCEPT ![e].pc = "begin", ![e].chg = Made(e, tag)] \in [SensExecs -> Requests]
    BY <2>2, TakesTyped
  <2>4. QED
    BY <2>1, <2>3, NoExecTyped DEF RequestsTyped
<1>5. ASSUME NEW e \in SensExecs, NEW same \in BOOLEAN, Approve(e, same)
      PROVE  RequestsTyped'
  <2>1. \/ sensExec' = [sensExec EXCEPT ![e].pc = "begin", ![e].chg = sensChange]
        \/ sensExec' = [sensExec EXCEPT ![e] = NoExec]
    BY <1>5 DEF Approve, Leave
  <2>2. "begin" \in SensPcs
    BY DEF SensPcs
  <2>3. [sensExec EXCEPT ![e].pc = "begin", ![e].chg = sensChange] \in [SensExecs -> Requests]
    BY <2>2, TakesTyped
  <2>4. QED
    BY <2>1, <2>3, NoExecTyped DEF RequestsTyped
<1>6. ASSUME NEW e \in SensExecs, Park(e) PROVE RequestsTyped'
  BY <1>6, NoExecTyped DEF Park, Leave, RequestsTyped
<1>7. ASSUME NEW e \in SensExecs, Begin(e) PROVE RequestsTyped'
  <2> DEFINE pc == IF sensMode.deployed THEN "out" ELSE "registry"
             chg == [sensChange EXCEPT !.ver = @ + 1, !.status = "APPLYING"]
  <2>1. sensExec' = [sensExec EXCEPT ![e].pc = pc, ![e].chg = chg] /\ sensChange' = chg
    BY <1>7 DEF Begin, Transition
  <2>2. sensChange.ver < MaxChangeWrites
    BY <1>7 DEF Begin, Transition
  <2>3. pc \in SensPcs /\ chg \in Changes
    BY <2>2, StatusTyped DEF SensPcs, Statuses
  <2> HIDE DEF pc, chg
  <2>4. QED
    BY <2>1, <2>3, TakesTyped DEF RequestsTyped
<1>8. ASSUME NEW e \in SensExecs, Conflicts(e) PROVE RequestsTyped'
  BY <1>8, NoExecTyped DEF Conflicts, Leave, RequestsTyped
<1>9. ASSUME NEW e \in SensExecs, MoveOut(e) PROVE RequestsTyped'
  BY <1>9, GotoTyped DEF MoveOut, Goto, RequestsTyped, SensPcs
<1>10. ASSUME NEW e \in SensExecs, MoveIn(e) PROVE RequestsTyped'
  BY <1>10, GotoTyped DEF MoveIn, Goto, RequestsTyped, SensPcs
<1>11. ASSUME NEW e \in SensExecs, NoMove(e) PROVE RequestsTyped'
  BY <1>11, ReportsTyped DEF NoMove, RequestsTyped
<1>12. ASSUME NEW e \in SensExecs, UpdateRegistry(e) PROVE RequestsTyped'
  BY <1>12, GotoTyped DEF UpdateRegistry, Goto, RequestsTyped, SensPcs
<1>13. ASSUME NEW e \in SensExecs, StepFails(e) PROVE RequestsTyped'
  BY <1>13, UndoTyped DEF StepFails, RequestsTyped
<1>14. ASSUME NEW e \in SensExecs, Commit(e) PROVE RequestsTyped'
  BY <1>14, NoExecTyped DEF Commit, Leave, RequestsTyped
<1>15. ASSUME NEW e \in SensExecs, CommitRefused(e) PROVE RequestsTyped'
  BY <1>15, UndoTyped DEF CommitRefused, RequestsTyped
<1>16. ASSUME NEW e \in SensExecs, UndoOut(e) PROVE RequestsTyped'
  BY <1>16, GotoTyped DEF UndoOut, Goto, RequestsTyped, SensPcs
<1>17. ASSUME NEW e \in SensExecs, UndoIn(e) PROVE RequestsTyped'
  <2>1. sensExec' = [sensExec EXCEPT ![e].pc = "undoRecord", ![e].live = TRUE]
    BY <1>17 DEF UndoIn
  <2>2. \A f \in [SensExecs -> Requests] :
          [f EXCEPT ![e].pc = "undoRecord"] \in [SensExecs -> Requests]
    BY DEF Requests, SensPcs
  <2>3. \A f \in [SensExecs -> Requests] :
          [f EXCEPT ![e].live = TRUE] \in [SensExecs -> Requests]
    BY DEF Requests
  <2>4. [sensExec EXCEPT ![e].pc = "undoRecord", ![e].live = TRUE] \in [SensExecs -> Requests]
    BY <2>2, <2>3 DEF RequestsTyped
  <2>5. QED
    BY <2>1, <2>4 DEF RequestsTyped
<1>18. ASSUME NEW e \in SensExecs, UndoFails(e) PROVE RequestsTyped'
  BY <1>18, GotoTyped DEF UndoFails, Goto, RequestsTyped, SensPcs
<1>19. ASSUME NEW e \in SensExecs, UndoRecord(e) PROVE RequestsTyped'
  BY <1>19, ReportsTyped DEF UndoRecord, RequestsTyped
<1>20. ASSUME NEW e \in SensExecs, RestoreFails(e) PROVE RequestsTyped'
  BY <1>20, ReportsTyped DEF RestoreFails, RequestsTyped
<1>21. ASSUME NEW e \in SensExecs, Fail(e) PROVE RequestsTyped'
  BY <1>21, NoExecTyped DEF Fail, Leave, RequestsTyped
<1>22. ASSUME NEW e \in SensExecs, Die(e) PROVE RequestsTyped'
  BY <1>22, NoExecTyped DEF Die, Leave, RequestsTyped
<1>23. ASSUME PollRead PROVE RequestsTyped'
  BY <1>23 DEF PollRead, RequestsTyped
<1>24. ASSUME NEW seen \in {"same", "changed", "absent", "failed"}, PollWrite(seen)
      PROVE  RequestsTyped'
  BY <1>24 DEF PollWrite, RequestsTyped
<1>25. ASSUME UNCHANGED sensVars PROVE RequestsTyped'
  BY <1>25 DEF sensVars, RequestsTyped, Requests, SensPcs
<1> QED
  BY <1>1, <1>2, <1>3, <1>4, <1>5, <1>6, <1>7, <1>8, <1>9, <1>10, <1>11, <1>12,
     <1>13, <1>14, <1>15, <1>16, <1>17, <1>18, <1>19, <1>20, <1>21, <1>22, <1>23,
     <1>24, <1>25 DEF SensitivityNext, SensitivityStep

\* Every action leaves the poller with a ledger it read, or none.
LEMMA PollTypedStep ==
  ASSUME ScalarsTyped, RequestsTyped, PollTyped, sensEntry \in Entries,
         sensChange \in Changes, [SensitivityNext]_sensVars
  PROVE  PollTyped'
<1>1. ASSUME NEW e \in SensExecs, ReadBoth(e) PROVE PollTyped'
  BY <1>1 DEF ReadBoth, NoExec, PollTyped
<1>2. ASSUME NEW e \in SensExecs, Refused(e) PROVE PollTyped'
  BY <1>2 DEF Refused, Leave, PollTyped
<1>3. ASSUME NEW e \in SensExecs, Retry(e) PROVE PollTyped'
  BY <1>3 DEF Retry, Pending, Plannable, PollTyped
<1>4. ASSUME NEW e \in SensExecs, NEW tag \in Tags, NEW known \in BOOLEAN, Create(e, tag, known)
      PROVE  PollTyped'
  BY <1>4 DEF Create, Plannable, IsDowngrade, NextState, Unfinished, Leave,
     PollTyped
<1>5. ASSUME NEW e \in SensExecs, NEW same \in BOOLEAN, Approve(e, same)
      PROVE  PollTyped'
  BY <1>5 DEF Approve, Leave, Pending, Plannable, PollTyped
<1>6. ASSUME NEW e \in SensExecs, Park(e) PROVE PollTyped'
  BY <1>6 DEF Park, Same, Leave, PollTyped
<1>7. ASSUME NEW e \in SensExecs, Begin(e) PROVE PollTyped'
  BY <1>7 DEF Begin, Same, Transition, PollTyped
<1>8. ASSUME NEW e \in SensExecs, Conflicts(e) PROVE PollTyped'
  BY <1>8 DEF Conflicts, Leave, PollTyped
<1>9. ASSUME NEW e \in SensExecs, MoveOut(e) PROVE PollTyped'
  BY <1>9 DEF MoveOut, TakenOut, Goto, PollTyped
<1>10. ASSUME NEW e \in SensExecs, MoveIn(e) PROVE PollTyped'
  BY <1>10 DEF MoveIn, PutIn, Goto, PollTyped
<1>11. ASSUME NEW e \in SensExecs, NoMove(e) PROVE PollTyped'
  BY <1>11 DEF NoMove, SensFault, PollTyped
<1>12. ASSUME NEW e \in SensExecs, UpdateRegistry(e) PROVE PollTyped'
  BY <1>12 DEF UpdateRegistry, Goto, PollTyped
<1>13. ASSUME NEW e \in SensExecs, StepFails(e) PROVE PollTyped'
  BY <1>13 DEF StepFails, SensFault, PollTyped
<1>14. ASSUME NEW e \in SensExecs, Commit(e) PROVE PollTyped'
  BY <1>14 DEF Commit, Current, Same, Leave, NextState, PollTyped
<1>15. ASSUME NEW e \in SensExecs, CommitRefused(e) PROVE PollTyped'
  BY <1>15 DEF CommitRefused, PollTyped
<1>16. ASSUME NEW e \in SensExecs, UndoOut(e) PROVE PollTyped'
  BY <1>16 DEF UndoOut, Goto, PollTyped
<1>17. ASSUME NEW e \in SensExecs, UndoIn(e) PROVE PollTyped'
  BY <1>17 DEF UndoIn, PollTyped
<1>18. ASSUME NEW e \in SensExecs, UndoFails(e) PROVE PollTyped'
  BY <1>18 DEF UndoFails, SensFault, Goto, PollTyped
<1>19. ASSUME NEW e \in SensExecs, UndoRecord(e) PROVE PollTyped'
  BY <1>19 DEF UndoRecord, PollTyped
<1>20. ASSUME NEW e \in SensExecs, RestoreFails(e) PROVE PollTyped'
  BY <1>20 DEF RestoreFails, SensFault, PollTyped
<1>21. ASSUME NEW e \in SensExecs, Fail(e) PROVE PollTyped'
  BY <1>21 DEF Fail, Leave, PollTyped
<1>22. ASSUME NEW e \in SensExecs, Die(e) PROVE PollTyped'
  BY <1>22 DEF Die, SensFault, Leave, PollTyped
<1>23. ASSUME PollRead PROVE PollTyped'
  BY <1>23 DEF PollRead, PollTyped
<1>24. ASSUME NEW seen \in {"same", "changed", "absent", "failed"}, PollWrite(seen)
      PROVE  PollTyped'
  BY <1>24 DEF PollWrite, Reconciled, PollTyped
<1>25. ASSUME UNCHANGED sensVars PROVE PollTyped'
  BY <1>25 DEF sensVars, PollTyped
<1> QED
  BY <1>1, <1>2, <1>3, <1>4, <1>5, <1>6, <1>7, <1>8, <1>9, <1>10, <1>11, <1>12,
     <1>13, <1>14, <1>15, <1>16, <1>17, <1>18, <1>19, <1>20, <1>21, <1>22, <1>23,
     <1>24, <1>25 DEF SensitivityNext, SensitivityStep

\* Every write of the ledger, by a commit or by the poller, is well typed.
LEMMA EntryTypedStep ==
  ASSUME ScalarsTyped, RequestsTyped, PollTyped, sensEntry \in Entries,
         sensChange \in Changes, [SensitivityNext]_sensVars
  PROVE  sensEntry' \in Entries
<1>1. ASSUME NEW e \in SensExecs, Commit(e) PROVE sensEntry' \in Entries
  <2> DEFINE entry == sensExec[e].entry
             after == sensExec[e].chg.after
  <2>1. entry \in Entries /\ after \in Tags /\ entry.ver < MaxLedgerVersion
    BY <1>1 DEF Commit, RequestsTyped, Requests, Changes
  <2>2. entry.ver + 1 \in 0 .. MaxLedgerVersion /\ NextState(after) \in EntryStates
    BY <2>1, SensitivityAssumption DEF Entries, NextState, EntryStates
  <2>3. sensEntry' = [entry EXCEPT !.ver = @ + 1, !.tag = after, !.state = NextState(after)]
    BY <1>1 DEF Commit
  <2> HIDE DEF entry, after
  <2>4. QED
    BY <2>1, <2>2, <2>3 DEF Entries
<1>2. ASSUME NEW seen \in {"same", "changed", "absent", "failed"}, PollWrite(seen)
      PROVE  sensEntry' \in Entries
  <2>1. CASE sensPoll.ver = sensEntry.ver
    <3> DEFINE seenAs == IF seen = "failed" THEN sensPoll ELSE Reconciled(sensPoll, seen)
    <3>1. sensPoll \in Entries /\ sensEntry.ver < MaxLedgerVersion
      BY <1>2, <2>1 DEF PollWrite, PollTyped
    <3>2. seenAs \in Entries /\ seenAs.ver = sensPoll.ver
      BY <3>1 DEF Reconciled, Entries, EntryStates, Tags
    <3>3. sensEntry' = [seenAs EXCEPT !.ver = @ + 1, !.ready = (seen # "failed")]
      BY <1>2, <2>1 DEF PollWrite
    <3>4. seenAs.ver + 1 \in 0 .. MaxLedgerVersion
      BY <2>1, <3>1, <3>2, SensitivityAssumption DEF Entries
    <3> HIDE DEF seenAs
    <3>5. QED
      BY <3>2, <3>3, <3>4 DEF Entries
  <2>2. CASE sensPoll.ver # sensEntry.ver
    BY <1>2, <2>2 DEF PollWrite
  <2>3. QED
    BY <2>1, <2>2
<1>3. ASSUME UNCHANGED sensEntry PROVE sensEntry' \in Entries
  BY <1>3
<1> QED
  BY <1>1, <1>2, <1>3, LedgerWrites

\* Every write of the change is well typed.
LEMMA ChangeTypedStep ==
  ASSUME ScalarsTyped, RequestsTyped, PollTyped, sensEntry \in Entries,
         sensChange \in Changes, [SensitivityNext]_sensVars
  PROVE  sensChange' \in Changes
<1>1. ASSUME NEW e \in SensExecs, NEW tag \in Tags, NEW known \in BOOLEAN, Create(e, tag, known)
      PROVE  sensChange' \in Changes
  <2>1. sensChange' \in {Made(e, tag), Doomed(Made(e, tag))}
    BY <1>1, Creates
  <2>2. QED
    BY <2>1, MadeTyped
<1>2. ASSUME NEW e \in SensExecs, NEW same \in BOOLEAN, Approve(e, same)
      PROVE  sensChange' \in Changes
  BY <1>2, VersionTyped DEF Approve
<1>3. ASSUME NEW e \in SensExecs, Park(e) PROVE sensChange' \in Changes
  <2>1. \/ sensChange' = sensChange
        \/ /\ sensChange.ver < MaxChangeWrites
           /\ sensChange' = [sensChange EXCEPT !.ver = @ + 1,
                               !.status = "APPROVED_PENDING_PROPAGATION", !.outcome = "unchanged"]
    BY <1>3 DEF Park
  <2>2. "APPROVED_PENDING_PROPAGATION" \in Statuses
    BY DEF Statuses
  <2>3. sensChange.ver < MaxChangeWrites =>
          [sensChange EXCEPT !.ver = @ + 1, !.status = "APPROVED_PENDING_PROPAGATION",
                             !.outcome = "unchanged"] \in Changes
    BY <2>2, OutcomeTyped
  <2>4. QED
    BY <2>1, <2>3
<1>4. ASSUME NEW e \in SensExecs, Begin(e) PROVE sensChange' \in Changes
  <2> DEFINE pc == IF sensMode.deployed THEN "out" ELSE "registry"
             chg == [sensChange EXCEPT !.ver = @ + 1, !.status = "APPLYING"]
  <2>1. sensExec' = [sensExec EXCEPT ![e].pc = pc, ![e].chg = chg] /\ sensChange' = chg
    BY <1>4 DEF Begin, Transition
  <2>2. sensChange.ver < MaxChangeWrites
    BY <1>4 DEF Begin, Transition
  <2>3. pc \in SensPcs /\ chg \in Changes
    BY <2>2, StatusTyped DEF SensPcs, Statuses
  <2>4. QED
    BY <2>1, <2>3
<1>5. ASSUME NEW e \in SensExecs, Commit(e) PROVE sensChange' \in Changes
  <2>1. "APPLIED" \in Statuses /\ sensChange.ver < MaxChangeWrites
    BY <1>5 DEF Commit, Statuses
  <2>2. sensChange' = [sensChange EXCEPT !.ver = @ + 1, !.status = "APPLIED", !.outcome = "none"]
    BY <1>5 DEF Commit
  <2>3. [sensChange EXCEPT !.ver = @ + 1, !.status = "APPLIED", !.outcome = "none"] \in Changes
    BY <2>1, OutcomeTyped
  <2>4. QED
    BY <2>2, <2>3
<1>6. ASSUME NEW e \in SensExecs, Fail(e) PROVE sensChange' \in Changes
  <2> DEFINE chg == sensExec[e].chg
             held == sensChange = [chg EXCEPT !.outcome = sensChange.outcome]
  <2>1. CASE held
    <3>1. chg \in Changes /\ chg.ver = sensChange.ver /\ sensChange.ver < MaxChangeWrites
      BY <1>6, <2>1 DEF Fail, RequestsTyped, Requests, Changes
    <3>2. sensChange' = [chg EXCEPT !.ver = @ + 1, !.status = "FAILED"]
      BY <1>6, <2>1 DEF Fail
    <3> HIDE DEF chg
    <3>3. "FAILED" \in Statuses
      BY DEF Statuses
    <3>4. [chg EXCEPT !.ver = @ + 1, !.status = "FAILED"] \in Changes
      BY <3>1, <3>3, StatusTyped
    <3>5. QED
      BY <3>2, <3>4
  <2>2. CASE ~ held
    BY <1>6, <2>2 DEF Fail
  <2>3. QED
    BY <2>1, <2>2
<1>7. ASSUME NEW seen \in {"same", "changed", "absent", "failed"}, PollWrite(seen)
      PROVE  sensChange' \in Changes
  BY <1>7 DEF PollWrite
<1>8. ASSUME UNCHANGED <<sensChange, sensEntry, sensMode, overtaken>>
      PROVE  sensChange' \in Changes
  BY <1>8
<1> QED
  BY <1>1, <1>2, <1>3, <1>4, <1>5, <1>6, <1>7, <1>8, ChangeWrites

\* What approve_sensitivity_change does: the request begins the pending change, or refreshes
\* it and leaves; the other requests keep their places and copies.
LEMMA Approves ==
  ASSUME RequestsTyped, NEW e \in SensExecs, NEW same \in BOOLEAN, Approve(e, same)
  PROVE  /\ \/ /\ sensExec'[e].pc = "begin" /\ sensExec'[e].chg = sensChange
               /\ sensExec'[e].entry = sensExec[e].entry
               /\ sensExec'[e].live = sensExec[e].live /\ sensExec'[e].undo = sensExec[e].undo
               /\ sensExec'[e].rec = sensExec[e].rec /\ sensChange' = sensChange
            \/ /\ sensExec'[e] = NoExec
               /\ sensChange' = [sensChange EXCEPT !.ver = @ + 1]
         /\ \A f \in SensExecs \ {e} : sensExec'[f] = sensExec[f]
         /\ Pc(e) = "read" /\ Pending(e) /\ sensChange.status = "PENDING_APPROVAL"
         /\ UNCHANGED <<sensMode, sensEntry, sensRecord, sensTargets, sensPoll,
                        sensFaults, overtaken, cut>>
<1>1. /\ Pc(e) = "read" /\ Pending(e) /\ sensChange.status = "PENDING_APPROVAL"
      /\ UNCHANGED <<sensMode, sensEntry, sensRecord, sensTargets, sensPoll,
                     sensFaults, overtaken, cut>>
  BY DEF Approve
<1>2. CASE same
  <2>1. /\ sensExec' = [sensExec EXCEPT ![e].pc = "begin", ![e].chg = sensChange]
        /\ sensChange' = sensChange
    BY <1>2 DEF Approve
  <2>2. QED
    BY <1>1, <2>1 DEF RequestsTyped, Requests
<1>3. CASE ~ same
  <2>1. /\ sensExec' = [sensExec EXCEPT ![e] = NoExec]
        /\ sensChange' = [sensChange EXCEPT !.ver = @ + 1]
    BY <1>3 DEF Approve, Leave
  <2>2. QED
    BY <1>1, <2>1 DEF RequestsTyped
<1> QED
  BY <1>2, <1>3

\* What the poller writes: nothing, or the next version over the one it read, which is the
\* current one.  It takes a tag away and never gives one, and a deployed tool keeps both.
LEMMA PollWrites ==
  ASSUME PollTyped, sensEntry \in Entries, CopiesOK, NEW seen, PollWrite(seen)
  PROVE  /\ \/ sensEntry' = sensEntry
            \/ /\ sensEntry'.ver = sensEntry.ver + 1
               /\ sensMode.deployed =>
                    sensEntry'.state = sensEntry.state /\ sensEntry'.tag = sensEntry.tag
               /\ sensEntry'.state \in {"ACTIVE", "CHANGED"} =>
                    sensEntry.state \in {"ACTIVE", "CHANGED"} /\ sensEntry'.tag = sensEntry.tag
               /\ sensEntry.state = "MISSING" => sensEntry'.state \in {"MISSING", "DISCOVERED"}
         /\ sensPoll' = NoChange
         /\ UNCHANGED <<sensMode, sensRecord, sensTargets, sensChange, sensExec,
                        sensFaults, overtaken, cut>>
<1>1. /\ sensPoll # NoChange /\ sensPoll' = NoChange
      /\ sensMode.deployed => seen = "failed"
      /\ UNCHANGED <<sensMode, sensRecord, sensTargets, sensChange, sensExec,
                     sensFaults, overtaken, cut>>
  BY DEF PollWrite
<1>2. CASE sensPoll.ver = sensEntry.ver
  <2> DEFINE seenAs == IF seen = "failed" THEN sensEntry ELSE Reconciled(sensEntry, seen)
  <2>1. sensPoll = sensEntry
    BY <1>1, <1>2 DEF CopiesOK, Copied
  <2>2. sensEntry' = [seenAs EXCEPT !.ver = @ + 1, !.ready = (seen # "failed")]
    BY <1>2, <2>1 DEF PollWrite
  <2>3. /\ seenAs \in Entries /\ seenAs.ver = sensEntry.ver
        /\ sensMode.deployed => seenAs = sensEntry
        /\ seenAs.state \in {"ACTIVE", "CHANGED"} =>
             sensEntry.state \in {"ACTIVE", "CHANGED"} /\ seenAs.tag = sensEntry.tag
        /\ sensEntry.state = "MISSING" => seenAs.state \in {"MISSING", "DISCOVERED"}
    BY <1>1 DEF Reconciled, Entries, EntryStates, Tags
  <2> HIDE DEF seenAs
  <2>4. /\ sensEntry'.ver = sensEntry.ver + 1
        /\ sensEntry'.state = seenAs.state /\ sensEntry'.tag = seenAs.tag
    BY <2>2, <2>3 DEF Entries
  <2>5. QED
    BY <1>1, <2>3, <2>4
<1>3. CASE sensPoll.ver # sensEntry.ver
  BY <1>1, <1>3 DEF PollWrite
<1> QED
  BY <1>2, <1>3

\* As long as nothing was overtaken, who works does so on the open change, alone.
LEMMA Worker ==
  ASSUME RequestsTyped, sensChange \in Changes, Alone, ~ overtaken, NEW e \in Working
  PROVE  /\ sensChange.status = "APPLYING" /\ Unfinished
         /\ sensExec[e].chg.before = sensChange.before
         /\ sensExec[e].chg.after = sensChange.after
         /\ sensChange = [sensExec[e].chg EXCEPT !.outcome = sensChange.outcome]
         /\ Working = {e}
<1>1. /\ sensChange.status = "APPLYING" /\ Working = {e}
      /\ sensChange = [sensExec[e].chg EXCEPT !.outcome = sensChange.outcome]
  BY DEF Alone
<1>2. sensExec[e].chg \in Changes
  BY DEF Working, RequestsTyped, Requests
<1>3. sensExec[e].chg.before = sensChange.before /\ sensExec[e].chg.after = sensChange.after
  BY <1>1, <1>2 DEF Changes
<1> QED
  BY <1>1, <1>3 DEF Unfinished

\* What the start of an attempt does: it takes the change it has just read or written, and
\* whoever it overtakes is noted.
LEMMA Begins ==
  ASSUME RequestsTyped, sensChange \in Changes, NEW e \in SensExecs, Begin(e)
  PROVE  /\ sensExec'[e].pc = IF sensMode.deployed THEN "out" ELSE "registry"
         /\ sensExec'[e].chg = sensChange' /\ sensExec'[e].entry = sensExec[e].entry
         /\ \A f \in SensExecs \ {e} : sensExec'[f] = sensExec[f]
         /\ sensChange'.status = "APPLYING"
         /\ sensChange'.before = sensChange.before /\ sensChange'.after = sensChange.after
         /\ sensChange'.rec = sensChange.rec /\ sensChange'.targets = sensChange.targets
         /\ sensChange'.stale = sensChange.stale
         /\ Pc(e) = "begin" /\ Same(e)
         /\ ~ overtaken' => ~ overtaken /\ Working = {}
         /\ UNCHANGED <<sensMode, sensEntry, sensRecord, sensTargets, sensPoll, cut>>
<1>1. /\ Pc(e) = "begin" /\ Same(e) /\ overtaken' = (overtaken \/ Working # {})
      /\ sensChange' = [sensChange EXCEPT !.status = "APPLYING", !.ver = @ + 1]
      /\ sensExec' = [sensExec EXCEPT
                        ![e].pc = IF sensMode.deployed THEN "out" ELSE "registry",
                        ![e].chg = sensChange']
      /\ UNCHANGED <<sensMode, sensEntry, sensRecord, sensTargets, sensPoll, cut>>
  BY DEF Begin, Transition
<1>2. /\ sensExec'[e].pc = IF sensMode.deployed THEN "out" ELSE "registry"
      /\ sensExec'[e].chg = sensChange' /\ sensExec'[e].entry = sensExec[e].entry
      /\ \A f \in SensExecs \ {e} : sensExec'[f] = sensExec[f]
  BY <1>1 DEF RequestsTyped, Requests
<1>3. /\ sensChange'.status = "APPLYING"
      /\ sensChange'.before = sensChange.before /\ sensChange'.after = sensChange.after
      /\ sensChange'.rec = sensChange.rec /\ sensChange'.targets = sensChange.targets
      /\ sensChange'.stale = sensChange.stale
  BY <1>1 DEF Changes
<1>4. ~ overtaken' => ~ overtaken /\ Working = {}
  BY <1>1
<1> QED
  BY <1>1, <1>2, <1>3, <1>4

\* What an approval does where tools are not moved: the change waits, or nothing is stored.
LEMMA Parks ==
  ASSUME RequestsTyped, sensChange \in Changes, NEW e \in SensExecs, Park(e)
  PROVE  /\ sensExec'[e] = NoExec /\ \A f \in SensExecs \ {e} : sensExec'[f] = sensExec[f]
         /\ \/ sensChange' = sensChange
            \/ /\ sensChange.status = "PENDING_APPROVAL"
               /\ sensChange'.status = "APPROVED_PENDING_PROPAGATION"
               /\ sensChange'.before = sensChange.before /\ sensChange'.after = sensChange.after
               /\ sensChange'.rec = sensChange.rec /\ sensChange'.targets = sensChange.targets
               /\ sensChange'.stale = sensChange.stale
         /\ Pc(e) = "begin" /\ Same(e)
         /\ UNCHANGED <<sensMode, sensEntry, sensRecord, sensTargets, sensPoll, sensFaults,
                        overtaken, cut>>
<1>1. /\ Pc(e) = "begin" /\ Same(e)
      /\ sensExec' = [sensExec EXCEPT ![e] = NoExec]
      /\ UNCHANGED <<sensMode, sensEntry, sensRecord, sensTargets, sensPoll, sensFaults,
                     overtaken, cut>>
  BY DEF Park, Leave
<1>2. sensExec'[e] = NoExec /\ \A f \in SensExecs \ {e} : sensExec'[f] = sensExec[f]
  BY <1>1 DEF RequestsTyped
<1>3. CASE sensChange.status = "PENDING_APPROVAL"
  <2>1. sensChange' = [sensChange EXCEPT !.ver = @ + 1,
                         !.status = "APPROVED_PENDING_PROPAGATION", !.outcome = "unchanged"]
    BY <1>3 DEF Park
  <2>2. QED
    BY <1>1, <1>2, <1>3, <2>1 DEF Changes
<1>4. CASE sensChange.status # "PENDING_APPROVAL"
  BY <1>1, <1>2, <1>4 DEF Park
<1> QED
  BY <1>3, <1>4

\* What _record_failed_movement does: the change it still holds has failed, else nothing is
\* recorded.
LEMMA Fails ==
  ASSUME RequestsTyped, sensChange \in Changes, NEW e \in SensExecs, Fail(e)
  PROVE  /\ sensExec'[e] = NoExec /\ \A f \in SensExecs \ {e} : sensExec'[f] = sensExec[f]
         /\ IF sensChange = [sensExec[e].chg EXCEPT !.outcome = sensChange.outcome]
            THEN /\ sensChange'.status = "FAILED"
                 /\ sensChange'.before = sensChange.before /\ sensChange'.after = sensChange.after
                 /\ sensChange'.rec = sensChange.rec /\ sensChange'.targets = sensChange.targets
                 /\ sensChange'.stale = sensChange.stale
                 /\ cut' = (cut \/ sensExec[e].chg.outcome = "diverged")
            ELSE UNCHANGED <<sensChange, cut>>
         /\ Pc(e) = "fail" /\ e \in Working
         /\ UNCHANGED <<sensMode, sensEntry, sensRecord, sensTargets, sensPoll, sensFaults,
                        overtaken>>
<1> DEFINE chg == sensExec[e].chg
           held == sensChange = [chg EXCEPT !.outcome = sensChange.outcome]
<1>1. /\ Pc(e) = "fail" /\ e \in Working
      /\ sensExec' = [sensExec EXCEPT ![e] = NoExec]
      /\ UNCHANGED <<sensMode, sensEntry, sensRecord, sensTargets, sensPoll, sensFaults,
                     overtaken>>
  BY DEF Fail, Leave, Working
<1>2. sensExec'[e] = NoExec /\ \A f \in SensExecs \ {e} : sensExec'[f] = sensExec[f]
  BY <1>1 DEF RequestsTyped
<1>3. CASE held
  <2>1. sensChange' = [chg EXCEPT !.ver = @ + 1, !.status = "FAILED"]
        /\ cut' = (cut \/ chg.outcome = "diverged")
    BY <1>3 DEF Fail
  <2>2. chg \in Changes
    BY DEF RequestsTyped, Requests
  <2> HIDE DEF chg
  <2>3. /\ sensChange'.status = "FAILED"
        /\ sensChange'.before = chg.before /\ sensChange'.after = chg.after
        /\ sensChange'.rec = chg.rec /\ sensChange'.targets = chg.targets
        /\ sensChange'.stale = chg.stale
    BY <2>1, <2>2 DEF Changes
  <2>4. /\ sensChange.before = chg.before /\ sensChange.after = chg.after
        /\ sensChange.rec = chg.rec /\ sensChange.targets = chg.targets
        /\ sensChange.stale = chg.stale
    BY <1>3, <2>2 DEF Changes
  <2>5. QED
    BY <1>1, <1>2, <1>3, <2>1, <2>3, <2>4 DEF chg
<1>4. CASE ~ held
  BY <1>1, <1>2, <1>4 DEF Fail
<1> QED
  BY <1>3, <1>4

\* A change that is made starts from the copy of the request, and remembers the descriptor and
\* the Targets.
LEMMA CreatesFrom ==
  ASSUME RequestsTyped, NEW e \in SensExecs, NEW tag \in Tags, NEW known \in BOOLEAN,
         Create(e, tag, known)
  PROVE  /\ sensChange'.before = sensExec[e].entry.tag
         /\ sensChange'.rec = sensRecord /\ sensChange'.targets = sensTargets
         /\ sensChange'.stale = (sensExec[e].entry.ver # sensEntry.ver)
         /\ sensExec'[e].pc \in {"begin", "idle"}
         /\ \A f \in SensExecs \ {e} : sensExec'[f] = sensExec[f]
<1>1. /\ Made(e, tag).before = sensExec[e].entry.tag
      /\ Made(e, tag).rec = sensRecord /\ Made(e, tag).targets = sensTargets
      /\ Made(e, tag).stale = (sensExec[e].entry.ver # sensEntry.ver)
  BY DEF Made
<1>2. /\ Doomed(Made(e, tag)).before = Made(e, tag).before
      /\ Doomed(Made(e, tag)).rec = Made(e, tag).rec
      /\ Doomed(Made(e, tag)).targets = Made(e, tag).targets
      /\ Doomed(Made(e, tag)).stale = Made(e, tag).stale
  BY DEF Made, Doomed
<1>3. sensChange' = Made(e, tag) \/ sensChange' = Doomed(Made(e, tag))
  BY Creates
<1>4. sensExec'[e].pc \in {"begin", "idle"}
      /\ \A f \in SensExecs \ {e} : sensExec'[f] = sensExec[f]
  <2>1. CASE sensExec' = [sensExec EXCEPT ![e] = NoExec]
    BY <2>1 DEF RequestsTyped, NoExec
  <2>2. CASE sensExec' = [sensExec EXCEPT ![e].pc = "begin", ![e].chg = Made(e, tag)]
    <3> DEFINE made == Made(e, tag)
    <3>1. sensExec' = [sensExec EXCEPT ![e].pc = "begin", ![e].chg = made]
      BY <2>2
    <3> HIDE DEF made
    <3>2. QED
      BY <3>1 DEF RequestsTyped, Requests
  <2>3. QED
    BY <2>1, <2>2, Creates
<1> QED
  BY <1>1, <1>2, <1>3, <1>4

\* Every action keeps copies of the ledger that have its version the same as the ledger: a
\* write makes a new version, and only a read makes a copy.
LEMMA CopiesStep ==
  ASSUME RequestsTyped, PollTyped, sensEntry \in Entries, PollTyped',
         sensEntry' \in Entries, CopiesOK, [SensitivityNext]_sensVars
  PROVE  CopiesOK'
<1>1. ASSUME NEW e \in SensExecs, ReadBoth(e) PROVE CopiesOK'
  <2>1. sensExec'[e].entry = sensEntry /\ \A f \in SensExecs \ {e} : sensExec'[f] = sensExec[f]
    BY <1>1 DEF ReadBoth, RequestsTyped, NoExec
  <2>2. sensEntry' = sensEntry /\ sensPoll' = sensPoll /\ sensEntry.ver <= sensEntry.ver
    BY <1>1 DEF ReadBoth, Entries
  <2>3. QED
    BY <2>1, <2>2 DEF CopiesOK, Copied, Pc
<1>2. ASSUME NEW e \in SensExecs, Refused(e) PROVE CopiesOK'
  BY <1>2 DEF Refused, Leave, RequestsTyped, Requests, Pc, NoExec, CopiesOK,
     Copied, PollTyped
<1>3. ASSUME NEW e \in SensExecs, Retry(e) PROVE CopiesOK'
  BY <1>3 DEF Retry, Pending, Plannable, RequestsTyped, Requests, Pc, NoExec,
     CopiesOK, Copied, PollTyped
<1>4. ASSUME NEW e \in SensExecs, NEW tag \in Tags, NEW known \in BOOLEAN, Create(e, tag, known)
      PROVE  CopiesOK'
  BY <1>4 DEF Create, Plannable, IsDowngrade, NextState, Unfinished, Leave,
     RequestsTyped, Requests, Pc, NoExec, CopiesOK, Copied, PollTyped
<1>5. ASSUME NEW e \in SensExecs, NEW same \in BOOLEAN, Approve(e, same)
      PROVE  CopiesOK'
  BY <1>5, Approves DEF RequestsTyped, Requests, Pc, CopiesOK, Copied, PollTyped,
     NoExec
<1>6. ASSUME NEW e \in SensExecs, Park(e) PROVE CopiesOK'
  BY <1>6 DEF Park, Same, Leave, RequestsTyped, Requests, Pc, NoExec, CopiesOK,
     Copied, PollTyped
<1>7. ASSUME NEW e \in SensExecs, Begin(e) PROVE CopiesOK'
  BY <1>7 DEF Begin, Same, Transition, RequestsTyped, Requests, Pc, NoExec,
     CopiesOK, Copied, PollTyped
<1>8. ASSUME NEW e \in SensExecs, Conflicts(e) PROVE CopiesOK'
  BY <1>8 DEF Conflicts, Leave, RequestsTyped, Requests, Pc, NoExec, CopiesOK,
     Copied, PollTyped
<1>9. ASSUME NEW e \in SensExecs, MoveOut(e) PROVE CopiesOK'
  BY <1>9 DEF MoveOut, TakenOut, Goto, RequestsTyped, Requests, Pc, NoExec,
     CopiesOK, Copied, PollTyped
<1>10. ASSUME NEW e \in SensExecs, MoveIn(e) PROVE CopiesOK'
  BY <1>10 DEF MoveIn, PutIn, Goto, RequestsTyped, Requests, Pc, NoExec, CopiesOK,
     Copied, PollTyped
<1>11. ASSUME NEW e \in SensExecs, NoMove(e) PROVE CopiesOK'
  BY <1>11 DEF NoMove, SensFault, RequestsTyped, Requests, Pc, NoExec, CopiesOK,
     Copied, PollTyped
<1>12. ASSUME NEW e \in SensExecs, UpdateRegistry(e) PROVE CopiesOK'
  BY <1>12 DEF UpdateRegistry, Goto, RequestsTyped, Requests, Pc, NoExec, CopiesOK,
     Copied, PollTyped
<1>13. ASSUME NEW e \in SensExecs, StepFails(e) PROVE CopiesOK'
  BY <1>13 DEF StepFails, SensFault, RequestsTyped, Requests, Pc, NoExec, CopiesOK,
     Copied, PollTyped
<1>14. ASSUME NEW e \in SensExecs, Commit(e) PROVE CopiesOK'
  <2>1. sensEntry'.ver = sensEntry.ver + 1 /\ sensEntry.ver \in Nat /\ sensPoll' = sensPoll
    BY <1>14 DEF Commit, Current, RequestsTyped, Requests, Entries
  <2>2. sensExec'[e].pc = "idle" /\ \A f \in SensExecs \ {e} : sensExec'[f] = sensExec[f]
    BY <1>14, Leaves DEF Commit, NoExec
  <2>3. ASSUME NEW copy \in Entries, Copied(copy) PROVE Copied(copy)'
    BY <2>1, <2>3 DEF Copied, Entries
  <2>4. \A f \in SensExecs : sensExec[f].entry \in Entries
    BY DEF RequestsTyped, Requests
  <2>5. \A f \in SensExecs : Pc(f)' # "idle" => Copied(sensExec[f].entry)'
    BY <2>2, <2>3, <2>4 DEF CopiesOK, Pc
  <2>6. sensPoll' # NoChange => sensPoll' \in Entries /\ Copied(sensPoll)'
    BY <2>1, <2>3 DEF CopiesOK
  <2>7. QED
    BY <2>2, <2>5, <2>6 DEF CopiesOK, Pc
<1>15. ASSUME NEW e \in SensExecs, CommitRefused(e) PROVE CopiesOK'
  BY <1>15 DEF CommitRefused, RequestsTyped, Requests, Pc, NoExec, CopiesOK,
     Copied, PollTyped
<1>16. ASSUME NEW e \in SensExecs, UndoOut(e) PROVE CopiesOK'
  BY <1>16 DEF UndoOut, Goto, RequestsTyped, Requests, Pc, NoExec, CopiesOK,
     Copied, PollTyped
<1>17. ASSUME NEW e \in SensExecs, UndoIn(e) PROVE CopiesOK'
  BY <1>17 DEF UndoIn, RequestsTyped, Requests, Pc, NoExec, CopiesOK, Copied,
     PollTyped
<1>18. ASSUME NEW e \in SensExecs, UndoFails(e) PROVE CopiesOK'
  BY <1>18 DEF UndoFails, SensFault, Goto, RequestsTyped, Requests, Pc, NoExec,
     CopiesOK, Copied, PollTyped
<1>19. ASSUME NEW e \in SensExecs, UndoRecord(e) PROVE CopiesOK'
  BY <1>19 DEF UndoRecord, RequestsTyped, Requests, Pc, NoExec, CopiesOK, Copied,
     PollTyped
<1>20. ASSUME NEW e \in SensExecs, RestoreFails(e) PROVE CopiesOK'
  BY <1>20 DEF RestoreFails, SensFault, RequestsTyped, Requests, Pc, NoExec,
     CopiesOK, Copied, PollTyped
<1>21. ASSUME NEW e \in SensExecs, Fail(e) PROVE CopiesOK'
  BY <1>21 DEF Fail, Leave, RequestsTyped, Requests, Pc, NoExec, CopiesOK, Copied,
     PollTyped
<1>22. ASSUME NEW e \in SensExecs, Die(e) PROVE CopiesOK'
  BY <1>22 DEF Die, SensFault, Leave, RequestsTyped, Requests, Pc, NoExec,
     CopiesOK, Copied, PollTyped
<1>23. ASSUME PollRead PROVE CopiesOK'
  <2>1. sensPoll' = sensEntry /\ sensExec' = sensExec /\ sensEntry' = sensEntry
    BY <1>23 DEF PollRead
  <2>2. sensEntry.ver <= sensEntry.ver
    BY DEF Entries
  <2>3. QED
    BY <2>1, <2>2 DEF CopiesOK, Copied, Pc
<1>24. ASSUME NEW seen \in {"same", "changed", "absent", "failed"}, PollWrite(seen)
      PROVE  CopiesOK'
  <2>1. sensEntry' = sensEntry \/ sensEntry'.ver = sensEntry.ver + 1
    BY <1>24, PollWrites
  <2>2. sensPoll' = NoChange /\ sensExec' = sensExec
    BY <1>24 DEF PollWrite
  <2>3. \A copy \in Entries : Copied(copy) => Copied(copy)'
    BY <2>1 DEF Copied, Entries
  <2>4. QED
    BY <2>2, <2>3 DEF CopiesOK, RequestsTyped, Requests, Pc
<1>25. ASSUME UNCHANGED sensVars PROVE CopiesOK'
  BY <1>25 DEF sensVars, RequestsTyped, Requests, Pc, NoExec, CopiesOK, Copied,
     PollTyped
<1> QED
  BY <1>1, <1>2, <1>3, <1>4, <1>5, <1>6, <1>7, <1>8, <1>9, <1>10, <1>11, <1>12,
     <1>13, <1>14, <1>15, <1>16, <1>17, <1>18, <1>19, <1>20, <1>21, <1>22, <1>23,
     <1>24, <1>25 DEF SensitivityNext, SensitivityStep

\* Every action keeps a request that took a change with the ledger it was planned on.
LEMMA PlannedStep ==
  ASSUME RequestsTyped, sensChange \in Changes, Planned, [SensitivityNext]_sensVars
  PROVE  Planned'
<1>1. ASSUME NEW e \in SensExecs, ReadBoth(e) PROVE Planned'
  BY <1>1 DEF ReadBoth, NoExec, RequestsTyped, Requests, Pc, Planned
<1>2. ASSUME NEW e \in SensExecs, Refused(e) PROVE Planned'
  BY <1>2 DEF Refused, Leave, RequestsTyped, Requests, Pc, NoExec, Planned
<1>3. ASSUME NEW e \in SensExecs, Retry(e) PROVE Planned'
  BY <1>3 DEF Retry, Pending, Plannable, RequestsTyped, Requests, Pc, NoExec,
     Planned
<1>4. ASSUME NEW e \in SensExecs, NEW tag \in Tags, NEW known \in BOOLEAN, Create(e, tag, known)
      PROVE  Planned'
  BY <1>4 DEF Create, Plannable, IsDowngrade, NextState, Unfinished, Leave,
     RequestsTyped, Requests, Pc, NoExec, Planned
<1>5. ASSUME NEW e \in SensExecs, NEW same \in BOOLEAN, Approve(e, same)
      PROVE  Planned'
  BY <1>5, Approves DEF Planned, Pc, NoExec, Pending, Plannable
<1>6. ASSUME NEW e \in SensExecs, Park(e) PROVE Planned'
  BY <1>6 DEF Park, Same, Leave, RequestsTyped, Requests, Pc, NoExec, Planned
<1>7. ASSUME NEW e \in SensExecs, Begin(e) PROVE Planned'
  BY <1>7 DEF Begin, Same, Transition, RequestsTyped, Requests, Pc, NoExec,
     Planned
<1>8. ASSUME NEW e \in SensExecs, Conflicts(e) PROVE Planned'
  BY <1>8 DEF Conflicts, Leave, RequestsTyped, Requests, Pc, NoExec, Planned
<1>9. ASSUME NEW e \in SensExecs, MoveOut(e) PROVE Planned'
  BY <1>9 DEF MoveOut, TakenOut, Goto, RequestsTyped, Requests, Pc, NoExec,
     Planned
<1>10. ASSUME NEW e \in SensExecs, MoveIn(e) PROVE Planned'
  BY <1>10 DEF MoveIn, PutIn, Goto, RequestsTyped, Requests, Pc, NoExec, Planned
<1>11. ASSUME NEW e \in SensExecs, NoMove(e) PROVE Planned'
  BY <1>11 DEF NoMove, SensFault, RequestsTyped, Requests, Pc, NoExec, Planned
<1>12. ASSUME NEW e \in SensExecs, UpdateRegistry(e) PROVE Planned'
  BY <1>12 DEF UpdateRegistry, Goto, RequestsTyped, Requests, Pc, NoExec, Planned
<1>13. ASSUME NEW e \in SensExecs, StepFails(e) PROVE Planned'
  <2>1. Pc(e) \in {"out", "in", "registry"}
    BY <1>13 DEF StepFails
  <2>2. /\ sensExec'[e].entry = sensExec[e].entry /\ sensExec'[e].chg = sensExec[e].chg
        /\ \A f \in SensExecs \ {e} : sensExec'[f] = sensExec[f]
    BY <1>13 DEF StepFails, RequestsTyped, Requests
  <2>3. QED
    BY <2>1, <2>2 DEF Planned, Pc
<1>14. ASSUME NEW e \in SensExecs, Commit(e) PROVE Planned'
  BY <1>14 DEF Commit, Current, Same, Leave, NextState, RequestsTyped, Requests,
     Pc, NoExec, Planned
<1>15. ASSUME NEW e \in SensExecs, CommitRefused(e) PROVE Planned'
  BY <1>15 DEF CommitRefused, RequestsTyped, Requests, Pc, NoExec, Planned
<1>16. ASSUME NEW e \in SensExecs, UndoOut(e) PROVE Planned'
  BY <1>16 DEF UndoOut, Goto, RequestsTyped, Requests, Pc, NoExec, Planned
<1>17. ASSUME NEW e \in SensExecs, UndoIn(e) PROVE Planned'
  BY <1>17 DEF UndoIn, RequestsTyped, Requests, Pc, NoExec, Planned
<1>18. ASSUME NEW e \in SensExecs, UndoFails(e) PROVE Planned'
  BY <1>18 DEF UndoFails, SensFault, Goto, RequestsTyped, Requests, Pc, NoExec,
     Planned
<1>19. ASSUME NEW e \in SensExecs, UndoRecord(e) PROVE Planned'
  BY <1>19 DEF UndoRecord, RequestsTyped, Requests, Pc, NoExec, Planned
<1>20. ASSUME NEW e \in SensExecs, RestoreFails(e) PROVE Planned'
  BY <1>20 DEF RestoreFails, SensFault, RequestsTyped, Requests, Pc, NoExec,
     Planned
<1>21. ASSUME NEW e \in SensExecs, Fail(e) PROVE Planned'
  BY <1>21 DEF Fail, Leave, RequestsTyped, Requests, Pc, NoExec, Planned
<1>22. ASSUME NEW e \in SensExecs, Die(e) PROVE Planned'
  BY <1>22 DEF Die, SensFault, Leave, RequestsTyped, Requests, Pc, NoExec, Planned
<1>23. ASSUME PollRead PROVE Planned'
  BY <1>23 DEF PollRead, RequestsTyped, Requests, Pc, NoExec, Planned
<1>24. ASSUME NEW seen \in {"same", "changed", "absent", "failed"}, PollWrite(seen)
      PROVE  Planned'
  BY <1>24 DEF PollWrite, Reconciled, RequestsTyped, Requests, Pc, NoExec, Planned
<1>25. ASSUME UNCHANGED sensVars PROVE Planned'
  BY <1>25 DEF sensVars, RequestsTyped, Requests, Pc, NoExec, Planned
<1> QED
  BY <1>1, <1>2, <1>3, <1>4, <1>5, <1>6, <1>7, <1>8, <1>9, <1>10, <1>11, <1>12,
     <1>13, <1>14, <1>15, <1>16, <1>17, <1>18, <1>19, <1>20, <1>21, <1>22, <1>23,
     <1>24, <1>25 DEF SensitivityNext, SensitivityStep

\* Every action keeps the moves of Targets to deployed assets.
LEMMA PlacingStep ==
  ASSUME RequestsTyped, Placing, [SensitivityNext]_sensVars
  PROVE  Placing'
<1>1. ASSUME NEW e \in SensExecs, ReadBoth(e) PROVE Placing'
  BY <1>1 DEF ReadBoth, NoExec, RequestsTyped, Requests, Pc, Placing, Changes
<1>2. ASSUME NEW e \in SensExecs, Refused(e) PROVE Placing'
  BY <1>2 DEF Refused, Leave, RequestsTyped, Requests, Pc, NoExec, Placing,
     Changes
<1>3. ASSUME NEW e \in SensExecs, Retry(e) PROVE Placing'
  BY <1>3 DEF Retry, Pending, Plannable, RequestsTyped, Requests, Pc, NoExec,
     Placing, Changes
<1>4. ASSUME NEW e \in SensExecs, NEW tag \in Tags, NEW known \in BOOLEAN, Create(e, tag, known)
      PROVE  Placing'
  BY <1>4 DEF Create, Plannable, IsDowngrade, NextState, Unfinished, Leave,
     RequestsTyped, Requests, Pc, NoExec, Placing, Changes
<1>5. ASSUME NEW e \in SensExecs, NEW same \in BOOLEAN, Approve(e, same)
      PROVE  Placing'
  BY <1>5, Approves DEF Placing, Pc, NoExec
<1>6. ASSUME NEW e \in SensExecs, Park(e) PROVE Placing'
  BY <1>6 DEF Park, Same, Leave, RequestsTyped, Requests, Pc, NoExec, Placing,
     Changes
<1>7. ASSUME NEW e \in SensExecs, Begin(e) PROVE Placing'
  BY <1>7 DEF Begin, Same, Transition, RequestsTyped, Requests, Pc, NoExec,
     Placing, Changes
<1>8. ASSUME NEW e \in SensExecs, Conflicts(e) PROVE Placing'
  BY <1>8 DEF Conflicts, Leave, RequestsTyped, Requests, Pc, NoExec, Placing,
     Changes
<1>9. ASSUME NEW e \in SensExecs, MoveOut(e) PROVE Placing'
  BY <1>9 DEF MoveOut, TakenOut, Goto, RequestsTyped, Requests, Pc, NoExec,
     Placing, Changes
<1>10. ASSUME NEW e \in SensExecs, MoveIn(e) PROVE Placing'
  BY <1>10 DEF MoveIn, PutIn, Goto, RequestsTyped, Requests, Pc, NoExec, Placing,
     Changes
<1>11. ASSUME NEW e \in SensExecs, NoMove(e) PROVE Placing'
  BY <1>11 DEF NoMove, SensFault, RequestsTyped, Requests, Pc, NoExec, Placing,
     Changes
<1>12. ASSUME NEW e \in SensExecs, UpdateRegistry(e) PROVE Placing'
  BY <1>12 DEF UpdateRegistry, Goto, RequestsTyped, Requests, Pc, NoExec, Placing,
     Changes
<1>13. ASSUME NEW e \in SensExecs, StepFails(e) PROVE Placing'
  BY <1>13 DEF StepFails, SensFault, RequestsTyped, Requests, Pc, NoExec, Placing,
     Changes
<1>14. ASSUME NEW e \in SensExecs, Commit(e) PROVE Placing'
  BY <1>14 DEF Commit, Current, Same, Leave, NextState, RequestsTyped, Requests,
     Pc, NoExec, Placing, Changes
<1>15. ASSUME NEW e \in SensExecs, CommitRefused(e) PROVE Placing'
  BY <1>15 DEF CommitRefused, RequestsTyped, Requests, Pc, NoExec, Placing,
     Changes
<1>16. ASSUME NEW e \in SensExecs, UndoOut(e) PROVE Placing'
  BY <1>16 DEF UndoOut, Goto, RequestsTyped, Requests, Pc, NoExec, Placing,
     Changes
<1>17. ASSUME NEW e \in SensExecs, UndoIn(e) PROVE Placing'
  BY <1>17 DEF UndoIn, RequestsTyped, Requests, Pc, NoExec, Placing, Changes
<1>18. ASSUME NEW e \in SensExecs, UndoFails(e) PROVE Placing'
  BY <1>18 DEF UndoFails, SensFault, Goto, RequestsTyped, Requests, Pc, NoExec,
     Placing, Changes
<1>19. ASSUME NEW e \in SensExecs, UndoRecord(e) PROVE Placing'
  BY <1>19 DEF UndoRecord, RequestsTyped, Requests, Pc, NoExec, Placing, Changes
<1>20. ASSUME NEW e \in SensExecs, RestoreFails(e) PROVE Placing'
  BY <1>20 DEF RestoreFails, SensFault, RequestsTyped, Requests, Pc, NoExec,
     Placing, Changes
<1>21. ASSUME NEW e \in SensExecs, Fail(e) PROVE Placing'
  BY <1>21 DEF Fail, Leave, RequestsTyped, Requests, Pc, NoExec, Placing, Changes
<1>22. ASSUME NEW e \in SensExecs, Die(e) PROVE Placing'
  BY <1>22 DEF Die, SensFault, Leave, RequestsTyped, Requests, Pc, NoExec, Placing,
     Changes
<1>23. ASSUME PollRead PROVE Placing'
  BY <1>23 DEF PollRead, RequestsTyped, Requests, Pc, NoExec, Placing, Changes
<1>24. ASSUME NEW seen \in {"same", "changed", "absent", "failed"}, PollWrite(seen)
      PROVE  Placing'
  BY <1>24 DEF PollWrite, Reconciled, RequestsTyped, Requests, Pc, NoExec, Placing,
     Changes
<1>25. ASSUME UNCHANGED sensVars PROVE Placing'
  BY <1>25 DEF sensVars, RequestsTyped, Requests, Pc, NoExec, Placing, Changes
<1> QED
  BY <1>1, <1>2, <1>3, <1>4, <1>5, <1>6, <1>7, <1>8, <1>9, <1>10, <1>11, <1>12,
     <1>13, <1>14, <1>15, <1>16, <1>17, <1>18, <1>19, <1>20, <1>21, <1>22, <1>23,
     <1>24, <1>25 DEF SensitivityNext, SensitivityStep

\* Every action keeps the state of a deployed tool what its tag says: its catalog is not
\* observed.
LEMMA AsDeployedStep ==
  ASSUME RequestsTyped, PollTyped, sensEntry \in Entries, CopiesOK, AsDeployed,
         [SensitivityNext]_sensVars
  PROVE  AsDeployed'
<1>1. ASSUME NEW e \in SensExecs, ReadBoth(e) PROVE AsDeployed'
  BY <1>1 DEF ReadBoth, NoExec, AsDeployed, NextState
<1>2. ASSUME NEW e \in SensExecs, Refused(e) PROVE AsDeployed'
  BY <1>2 DEF Refused, Leave, AsDeployed, NextState
<1>3. ASSUME NEW e \in SensExecs, Retry(e) PROVE AsDeployed'
  BY <1>3 DEF Retry, Pending, Plannable, AsDeployed, NextState
<1>4. ASSUME NEW e \in SensExecs, NEW tag \in Tags, NEW known \in BOOLEAN, Create(e, tag, known)
      PROVE  AsDeployed'
  BY <1>4 DEF Create, Plannable, IsDowngrade, NextState, Unfinished, Leave,
     AsDeployed
<1>5. ASSUME NEW e \in SensExecs, NEW same \in BOOLEAN, Approve(e, same)
      PROVE  AsDeployed'
  BY <1>5, Approves DEF AsDeployed, NextState, NoExec
<1>6. ASSUME NEW e \in SensExecs, Park(e) PROVE AsDeployed'
  BY <1>6 DEF Park, Same, Leave, AsDeployed, NextState
<1>7. ASSUME NEW e \in SensExecs, Begin(e) PROVE AsDeployed'
  BY <1>7 DEF Begin, Same, Transition, AsDeployed, NextState
<1>8. ASSUME NEW e \in SensExecs, Conflicts(e) PROVE AsDeployed'
  BY <1>8 DEF Conflicts, Leave, AsDeployed, NextState
<1>9. ASSUME NEW e \in SensExecs, MoveOut(e) PROVE AsDeployed'
  BY <1>9 DEF MoveOut, TakenOut, Goto, AsDeployed, NextState
<1>10. ASSUME NEW e \in SensExecs, MoveIn(e) PROVE AsDeployed'
  BY <1>10 DEF MoveIn, PutIn, Goto, AsDeployed, NextState
<1>11. ASSUME NEW e \in SensExecs, NoMove(e) PROVE AsDeployed'
  BY <1>11 DEF NoMove, SensFault, AsDeployed, NextState
<1>12. ASSUME NEW e \in SensExecs, UpdateRegistry(e) PROVE AsDeployed'
  BY <1>12 DEF UpdateRegistry, Goto, AsDeployed, NextState
<1>13. ASSUME NEW e \in SensExecs, StepFails(e) PROVE AsDeployed'
  BY <1>13 DEF StepFails, SensFault, AsDeployed, NextState
<1>14. ASSUME NEW e \in SensExecs, Commit(e) PROVE AsDeployed'
  BY <1>14 DEF Commit, Current, Same, Leave, NextState, AsDeployed, Requests,
     RequestsTyped, Entries
<1>15. ASSUME NEW e \in SensExecs, CommitRefused(e) PROVE AsDeployed'
  BY <1>15 DEF CommitRefused, AsDeployed, NextState
<1>16. ASSUME NEW e \in SensExecs, UndoOut(e) PROVE AsDeployed'
  BY <1>16 DEF UndoOut, Goto, AsDeployed, NextState
<1>17. ASSUME NEW e \in SensExecs, UndoIn(e) PROVE AsDeployed'
  BY <1>17 DEF UndoIn, AsDeployed, NextState
<1>18. ASSUME NEW e \in SensExecs, UndoFails(e) PROVE AsDeployed'
  BY <1>18 DEF UndoFails, SensFault, Goto, AsDeployed, NextState
<1>19. ASSUME NEW e \in SensExecs, UndoRecord(e) PROVE AsDeployed'
  BY <1>19 DEF UndoRecord, AsDeployed, NextState
<1>20. ASSUME NEW e \in SensExecs, RestoreFails(e) PROVE AsDeployed'
  BY <1>20 DEF RestoreFails, SensFault, AsDeployed, NextState
<1>21. ASSUME NEW e \in SensExecs, Fail(e) PROVE AsDeployed'
  BY <1>21 DEF Fail, Leave, AsDeployed, NextState
<1>22. ASSUME NEW e \in SensExecs, Die(e) PROVE AsDeployed'
  BY <1>22 DEF Die, SensFault, Leave, AsDeployed, NextState
<1>23. ASSUME PollRead PROVE AsDeployed'
  BY <1>23 DEF PollRead, AsDeployed, NextState
<1>24. ASSUME NEW seen \in {"same", "changed", "absent", "failed"}, PollWrite(seen)
      PROVE  AsDeployed'
  BY <1>24, PollWrites DEF AsDeployed
<1>25. ASSUME UNCHANGED sensVars PROVE AsDeployed'
  BY <1>25 DEF sensVars, AsDeployed, NextState
<1> QED
  BY <1>1, <1>2, <1>3, <1>4, <1>5, <1>6, <1>7, <1>8, <1>9, <1>10, <1>11, <1>12,
     <1>13, <1>14, <1>15, <1>16, <1>17, <1>18, <1>19, <1>20, <1>21, <1>22, <1>23,
     <1>24, <1>25 DEF SensitivityNext, SensitivityStep

\* Every action keeps one executor at work, on the change as it is stored, until a retry
\* overtakes it.
LEMMA AloneStep ==
  ASSUME RequestsTyped, sensChange \in Changes, sensChange' \in Changes, Alone,
         [SensitivityNext]_sensVars
  PROVE  Alone'
<1>1. ASSUME NEW e \in SensExecs, ReadBoth(e) PROVE Alone'
  BY <1>1 DEF ReadBoth, NoExec, RequestsTyped, Requests, Pc, Alone, Working,
     Changes
<1>2. ASSUME NEW e \in SensExecs, Refused(e) PROVE Alone'
  BY <1>2 DEF Refused, Leave, RequestsTyped, Requests, Pc, NoExec, Alone, Working,
     Changes
<1>3. ASSUME NEW e \in SensExecs, Retry(e) PROVE Alone'
  BY <1>3 DEF Retry, Pending, Plannable, RequestsTyped, Requests, Pc, NoExec,
     Alone, Working, Changes
<1>4. ASSUME NEW e \in SensExecs, NEW tag \in Tags, NEW known \in BOOLEAN, Create(e, tag, known)
      PROVE  Alone'
  BY <1>4 DEF Create, Plannable, IsDowngrade, NextState, Unfinished, Leave,
     RequestsTyped, Requests, Pc, NoExec, Alone, Working, Changes
<1>5. ASSUME NEW e \in SensExecs, NEW same \in BOOLEAN, Approve(e, same) PROVE Alone'
  BY <1>5, Approves DEF Alone, Working, Pc, NoExec
<1>6. ASSUME NEW e \in SensExecs, Park(e) PROVE Alone'
  BY <1>6, Parks DEF Alone, Working, Pc, NoExec
<1>7. ASSUME NEW e \in SensExecs, Begin(e) PROVE Alone'
  <2>1. ~ overtaken' => Working' = {e}
    BY <1>7, Begins DEF Working, Pc
  <2>2. sensChange' = [sensChange' EXCEPT !.outcome = sensChange'.outcome]
    BY DEF Changes
  <2>3. QED
    BY <1>7, <2>1, <2>2, Begins DEF Alone
<1>8. ASSUME NEW e \in SensExecs, Conflicts(e) PROVE Alone'
  BY <1>8 DEF Conflicts, Leave, RequestsTyped, Requests, Pc, NoExec, Alone,
     Working, Changes
<1>9. ASSUME NEW e \in SensExecs, MoveOut(e) PROVE Alone'
  BY <1>9 DEF MoveOut, TakenOut, Goto, RequestsTyped, Requests, Pc, NoExec, Alone,
     Working, Changes
<1>10. ASSUME NEW e \in SensExecs, MoveIn(e) PROVE Alone'
  BY <1>10 DEF MoveIn, PutIn, Goto, RequestsTyped, Requests, Pc, NoExec, Alone,
     Working, Changes
<1>11. ASSUME NEW e \in SensExecs, NoMove(e) PROVE Alone'
  BY <1>11 DEF NoMove, SensFault, RequestsTyped, Requests, Pc, NoExec, Alone,
     Working, Changes
<1>12. ASSUME NEW e \in SensExecs, UpdateRegistry(e) PROVE Alone'
  BY <1>12 DEF UpdateRegistry, Goto, RequestsTyped, Requests, Pc, NoExec, Alone,
     Working, Changes
<1>13. ASSUME NEW e \in SensExecs, StepFails(e) PROVE Alone'
  <2>1. e \in Working /\ sensChange' = sensChange /\ overtaken' = overtaken
    BY <1>13 DEF StepFails, Working
  <2>2. /\ \A f \in SensExecs : sensExec'[f].chg = sensExec[f].chg
        /\ \A f \in SensExecs \ {e} : sensExec'[f] = sensExec[f]
    BY <1>13 DEF StepFails, RequestsTyped, Requests
  <2>3. Working' \subseteq Working
    BY <2>1, <2>2 DEF Working, Pc
  <2>4. QED
    BY <2>1, <2>2, <2>3 DEF Alone
<1>14. ASSUME NEW e \in SensExecs, Commit(e) PROVE Alone'
  <2>1. e \in Working /\ overtaken' = overtaken
    BY <1>14 DEF Commit, Working
  <2>2. sensExec'[e] = NoExec /\ \A f \in SensExecs \ {e} : sensExec'[f] = sensExec[f]
    BY <1>14, Leaves DEF Commit
  <2>3. Working' = Working \ {e}
    BY <2>2 DEF Working, Pc, NoExec
  <2>4. ~ overtaken => Working' = {}
    BY <2>1, <2>3 DEF Alone
  <2>5. QED
    BY <2>1, <2>4 DEF Alone
<1>15. ASSUME NEW e \in SensExecs, CommitRefused(e) PROVE Alone'
  BY <1>15 DEF CommitRefused, RequestsTyped, Requests, Pc, NoExec, Alone, Working,
     Changes
<1>16. ASSUME NEW e \in SensExecs, UndoOut(e) PROVE Alone'
  BY <1>16 DEF UndoOut, Goto, RequestsTyped, Requests, Pc, NoExec, Alone, Working,
     Changes
<1>17. ASSUME NEW e \in SensExecs, UndoIn(e) PROVE Alone'
  BY <1>17 DEF UndoIn, RequestsTyped, Requests, Pc, NoExec, Alone, Working,
     Changes
<1>18. ASSUME NEW e \in SensExecs, UndoFails(e) PROVE Alone'
  BY <1>18 DEF UndoFails, SensFault, Goto, RequestsTyped, Requests, Pc, NoExec,
     Alone, Working, Changes
<1>19. ASSUME NEW e \in SensExecs, UndoRecord(e) PROVE Alone'
  BY <1>19 DEF UndoRecord, RequestsTyped, Requests, Pc, NoExec, Alone, Working,
     Changes
<1>20. ASSUME NEW e \in SensExecs, RestoreFails(e) PROVE Alone'
  BY <1>20 DEF RestoreFails, SensFault, RequestsTyped, Requests, Pc, NoExec, Alone,
     Working, Changes
<1>21. ASSUME NEW e \in SensExecs, Fail(e) PROVE Alone'
  BY <1>21, Fails DEF Alone, Working, Pc, NoExec
<1>22. ASSUME NEW e \in SensExecs, Die(e) PROVE Alone'
  BY <1>22 DEF Die, SensFault, Leave, RequestsTyped, Requests, Pc, NoExec, Alone,
     Working, Changes
<1>23. ASSUME PollRead PROVE Alone'
  BY <1>23 DEF PollRead, RequestsTyped, Requests, Pc, NoExec, Alone, Working,
     Changes
<1>24. ASSUME NEW seen \in {"same", "changed", "absent", "failed"}, PollWrite(seen)
      PROVE  Alone'
  BY <1>24 DEF PollWrite, Reconciled, RequestsTyped, Requests, Pc, NoExec, Alone,
     Working, Changes
<1>25. ASSUME UNCHANGED sensVars PROVE Alone'
  BY <1>25 DEF sensVars, RequestsTyped, Requests, Pc, NoExec, Alone, Working,
     Changes
<1> QED
  BY <1>1, <1>2, <1>3, <1>4, <1>5, <1>6, <1>7, <1>8, <1>9, <1>10, <1>11, <1>12,
     <1>13, <1>14, <1>15, <1>16, <1>17, <1>18, <1>19, <1>20, <1>21, <1>22, <1>23,
     <1>24, <1>25 DEF SensitivityNext, SensitivityStep

\* Every action keeps an APPLYING change with an executor, until one dies.
LEMMA AttemptedStep ==
  ASSUME RequestsTyped, sensChange \in Changes, Alone, Attempted,
         [SensitivityNext]_sensVars
  PROVE  Attempted'
<1>1. ASSUME NEW e \in SensExecs, ReadBoth(e) PROVE Attempted'
  BY <1>1 DEF ReadBoth, NoExec, RequestsTyped, Requests, Pc, Attempted, Alone,
     Working, Changes
<1>2. ASSUME NEW e \in SensExecs, Refused(e) PROVE Attempted'
  BY <1>2 DEF Refused, Leave, RequestsTyped, Requests, Pc, NoExec, Attempted,
     Alone, Working, Changes
<1>3. ASSUME NEW e \in SensExecs, Retry(e) PROVE Attempted'
  BY <1>3 DEF Retry, Pending, Plannable, RequestsTyped, Requests, Pc, NoExec,
     Attempted, Alone, Working, Changes
<1>4. ASSUME NEW e \in SensExecs, NEW tag \in Tags, NEW known \in BOOLEAN, Create(e, tag, known)
      PROVE  Attempted'
  BY <1>4 DEF Create, Plannable, IsDowngrade, NextState, Unfinished, Leave,
     RequestsTyped, Requests, Pc, NoExec, Attempted, Alone, Working, Changes
<1>5. ASSUME NEW e \in SensExecs, NEW same \in BOOLEAN, Approve(e, same)
      PROVE  Attempted'
  <2>1. sensChange'.status # "APPLYING"
    BY <1>5, Approves DEF Changes
  <2>2. QED
    BY <2>1 DEF Attempted
<1>6. ASSUME NEW e \in SensExecs, Park(e) PROVE Attempted'
  BY <1>6, Parks DEF Attempted, Working, Pc, NoExec
<1>7. ASSUME NEW e \in SensExecs, Begin(e) PROVE Attempted'
  BY <1>7, Begins DEF Attempted, Working, Pc
<1>8. ASSUME NEW e \in SensExecs, Conflicts(e) PROVE Attempted'
  BY <1>8 DEF Conflicts, Leave, RequestsTyped, Requests, Pc, NoExec, Attempted,
     Alone, Working, Changes
<1>9. ASSUME NEW e \in SensExecs, MoveOut(e) PROVE Attempted'
  BY <1>9 DEF MoveOut, TakenOut, Goto, RequestsTyped, Requests, Pc, NoExec,
     Attempted, Alone, Working, Changes
<1>10. ASSUME NEW e \in SensExecs, MoveIn(e) PROVE Attempted'
  BY <1>10 DEF MoveIn, PutIn, Goto, RequestsTyped, Requests, Pc, NoExec, Attempted,
     Alone, Working, Changes
<1>11. ASSUME NEW e \in SensExecs, NoMove(e) PROVE Attempted'
  BY <1>11 DEF NoMove, SensFault, RequestsTyped, Requests, Pc, NoExec, Attempted,
     Alone, Working, Changes
<1>12. ASSUME NEW e \in SensExecs, UpdateRegistry(e) PROVE Attempted'
  BY <1>12 DEF UpdateRegistry, Goto, RequestsTyped, Requests, Pc, NoExec,
     Attempted, Alone, Working, Changes
<1>13. ASSUME NEW e \in SensExecs, StepFails(e) PROVE Attempted'
  BY <1>13 DEF StepFails, SensFault, RequestsTyped, Requests, Pc, NoExec,
     Attempted, Alone, Working, Changes
<1>14. ASSUME NEW e \in SensExecs, Commit(e) PROVE Attempted'
  BY <1>14 DEF Commit, Current, Same, Leave, NextState, RequestsTyped, Requests,
     Pc, NoExec, Attempted, Alone, Working, Changes
<1>15. ASSUME NEW e \in SensExecs, CommitRefused(e) PROVE Attempted'
  BY <1>15 DEF CommitRefused, RequestsTyped, Requests, Pc, NoExec, Attempted,
     Alone, Working, Changes
<1>16. ASSUME NEW e \in SensExecs, UndoOut(e) PROVE Attempted'
  BY <1>16 DEF UndoOut, Goto, RequestsTyped, Requests, Pc, NoExec, Attempted,
     Alone, Working, Changes
<1>17. ASSUME NEW e \in SensExecs, UndoIn(e) PROVE Attempted'
  BY <1>17 DEF UndoIn, RequestsTyped, Requests, Pc, NoExec, Attempted, Alone,
     Working, Changes
<1>18. ASSUME NEW e \in SensExecs, UndoFails(e) PROVE Attempted'
  BY <1>18 DEF UndoFails, SensFault, Goto, RequestsTyped, Requests, Pc, NoExec,
     Attempted, Alone, Working, Changes
<1>19. ASSUME NEW e \in SensExecs, UndoRecord(e) PROVE Attempted'
  BY <1>19 DEF UndoRecord, RequestsTyped, Requests, Pc, NoExec, Attempted, Alone,
     Working, Changes
<1>20. ASSUME NEW e \in SensExecs, RestoreFails(e) PROVE Attempted'
  BY <1>20 DEF RestoreFails, SensFault, RequestsTyped, Requests, Pc, NoExec,
     Attempted, Alone, Working, Changes
<1>21. ASSUME NEW e \in SensExecs, Fail(e) PROVE Attempted'
  <2>1. ~ overtaken => sensChange = [sensExec[e].chg EXCEPT !.outcome = sensChange.outcome]
    BY <1>21, Fails DEF Alone
  <2>2. QED
    BY <1>21, <2>1, Fails DEF Attempted
<1>22. ASSUME NEW e \in SensExecs, Die(e) PROVE Attempted'
  <2>1. cut' = (cut \/ e \in Working)
    BY <1>22 DEF Die
  <2>2. sensChange' = sensChange /\ overtaken' = overtaken
    BY <1>22 DEF Die
  <2>3. CASE e \in Working
    BY <2>1, <2>3 DEF Attempted
  <2>4. CASE e \notin Working
    <3>1. \A f \in SensExecs \ {e} : sensExec'[f] = sensExec[f]
      BY <1>22, Leaves DEF Die
    <3>2. Working \subseteq Working'
      BY <2>4, <3>1 DEF Working, Pc
    <3>3. QED
      BY <2>1, <2>2, <2>4, <3>2 DEF Attempted
  <2>5. QED
    BY <2>3, <2>4
<1>23. ASSUME PollRead PROVE Attempted'
  BY <1>23 DEF PollRead, RequestsTyped, Requests, Pc, NoExec, Attempted, Alone,
     Working, Changes
<1>24. ASSUME NEW seen \in {"same", "changed", "absent", "failed"}, PollWrite(seen)
      PROVE  Attempted'
  BY <1>24 DEF PollWrite, Reconciled, RequestsTyped, Requests, Pc, NoExec,
     Attempted, Alone, Working, Changes
<1>25. ASSUME UNCHANGED sensVars PROVE Attempted'
  BY <1>25 DEF sensVars, RequestsTyped, Requests, Pc, NoExec, Attempted, Alone,
     Working, Changes
<1> QED
  BY <1>1, <1>2, <1>3, <1>4, <1>5, <1>6, <1>7, <1>8, <1>9, <1>10, <1>11, <1>12,
     <1>13, <1>14, <1>15, <1>16, <1>17, <1>18, <1>19, <1>20, <1>21, <1>22, <1>23,
     <1>24, <1>25 DEF SensitivityNext, SensitivityStep

\* Every action keeps ledger, descriptor and Targets in agreement while no change is open: the
\* commit finds the descriptor written and the tool in the new Target alone.
LEMMA SettledStep ==
  ASSUME RequestsTyped, ScalarsTyped, PollTyped, sensEntry \in Entries,
         sensChange \in Changes, CopiesOK, Planned, Alone, Moving, Written,
         Settled, [SensitivityNext]_sensVars
  PROVE  Settled'
<1>1. ASSUME NEW e \in SensExecs, ReadBoth(e) PROVE Settled'
  BY <1>1 DEF ReadBoth, NoExec, Settled, Unfinished
<1>2. ASSUME NEW e \in SensExecs, Refused(e) PROVE Settled'
  BY <1>2 DEF Refused, Leave, Settled, Unfinished
<1>3. ASSUME NEW e \in SensExecs, Retry(e) PROVE Settled'
  BY <1>3 DEF Retry, Pending, Plannable, Settled, Unfinished
<1>4. ASSUME NEW e \in SensExecs, NEW tag \in Tags, NEW known \in BOOLEAN, Create(e, tag, known)
      PROVE  Settled'
  BY <1>4 DEF Create, Plannable, IsDowngrade, NextState, Unfinished, Leave,
     Settled
<1>5. ASSUME NEW e \in SensExecs, NEW same \in BOOLEAN, Approve(e, same)
      PROVE  Settled'
  <2>1. sensChange'.status = "PENDING_APPROVAL"
    BY <1>5, Approves DEF Changes
  <2>2. QED
    BY <2>1 DEF Settled, Unfinished
<1>6. ASSUME NEW e \in SensExecs, Park(e) PROVE Settled'
  <2>1. Unfinished => Unfinished'
    BY <1>6, Parks DEF Unfinished
  <2>2. QED
    BY <1>6, <2>1, Parks DEF Settled
<1>7. ASSUME NEW e \in SensExecs, Begin(e) PROVE Settled'
  <2>1. sensChange'.status = "APPLYING"
    BY <1>7, Begins
  <2>2. QED
    BY <2>1 DEF Settled, Unfinished
<1>8. ASSUME NEW e \in SensExecs, Conflicts(e) PROVE Settled'
  BY <1>8 DEF Conflicts, Leave, Settled, Unfinished
<1>9. ASSUME NEW e \in SensExecs, MoveOut(e) PROVE Settled'
  <2>1. e \in Working /\ UNCHANGED <<sensChange, overtaken>>
    BY <1>9 DEF MoveOut, Working, Pc
  <2>2. QED
    BY <2>1, Worker DEF Settled, Unfinished
<1>10. ASSUME NEW e \in SensExecs, MoveIn(e) PROVE Settled'
  <2>1. e \in Working /\ UNCHANGED <<sensChange, overtaken>>
    BY <1>10 DEF MoveIn, Working, Pc
  <2>2. QED
    BY <2>1, Worker DEF Settled, Unfinished
<1>11. ASSUME NEW e \in SensExecs, NoMove(e) PROVE Settled'
  BY <1>11 DEF NoMove, SensFault, Settled, Unfinished
<1>12. ASSUME NEW e \in SensExecs, UpdateRegistry(e) PROVE Settled'
  <2>1. e \in Working /\ UNCHANGED <<sensChange, overtaken>>
    BY <1>12 DEF UpdateRegistry, Working, Pc
  <2>2. QED
    BY <2>1, Worker DEF Settled, Unfinished
<1>13. ASSUME NEW e \in SensExecs, StepFails(e) PROVE Settled'
  <2>1. e \in Working /\ UNCHANGED <<sensChange, overtaken>>
    BY <1>13 DEF StepFails, Working, Pc
  <2>2. QED
    BY <2>1, Worker DEF Settled, Unfinished
<1>14. ASSUME NEW e \in SensExecs, Commit(e) PROVE Settled'
  <2>1. /\ Pc(e) = "commit" /\ e \in Working /\ sensEntry.ver = sensExec[e].entry.ver
        /\ UNCHANGED <<overtaken, sensMode, sensRecord, sensTargets>>
    BY <1>14 DEF Commit, Current, Working
  <2>2. sensExec[e].entry = sensEntry
    BY <2>1 DEF CopiesOK, Copied
  <2>3. ~ overtaken => Unfinished /\ sensChange.before = sensEntry.tag
                       /\ sensExec[e].chg.after = sensChange.after
    BY <2>1, <2>2, Worker DEF Planned
  <2>4. ~ overtaken => sensRecord = sensChange.after
    BY <2>1, Worker DEF Written
  <2>5. ~ overtaken /\ sensMode.deployed => sensTargets = Of(sensChange.after)
    BY <2>1, <2>3 DEF Moving
  <2>6. sensEntry'.tag = sensExec[e].chg.after
    BY <1>14 DEF Commit, RequestsTyped, Requests, Entries
  <2>7. QED
    BY <2>1, <2>3, <2>4, <2>5, <2>6 DEF Settled
<1>15. ASSUME NEW e \in SensExecs, CommitRefused(e) PROVE Settled'
  BY <1>15 DEF CommitRefused, Settled, Unfinished
<1>16. ASSUME NEW e \in SensExecs, UndoOut(e) PROVE Settled'
  <2>1. e \in Working /\ UNCHANGED <<sensChange, overtaken>>
    BY <1>16 DEF UndoOut, Working, Pc
  <2>2. QED
    BY <2>1, Worker DEF Settled, Unfinished
<1>17. ASSUME NEW e \in SensExecs, UndoIn(e) PROVE Settled'
  <2>1. e \in Working /\ UNCHANGED <<sensChange, overtaken>>
    BY <1>17 DEF UndoIn, Working, Pc
  <2>2. QED
    BY <2>1, Worker DEF Settled, Unfinished
<1>18. ASSUME NEW e \in SensExecs, UndoFails(e) PROVE Settled'
  BY <1>18 DEF UndoFails, SensFault, Goto, Settled, Unfinished
<1>19. ASSUME NEW e \in SensExecs, UndoRecord(e) PROVE Settled'
  <2>1. e \in Working /\ UNCHANGED <<sensChange, overtaken>>
    BY <1>19 DEF UndoRecord, Working, Pc
  <2>2. QED
    BY <2>1, Worker DEF Settled, Unfinished
<1>20. ASSUME NEW e \in SensExecs, RestoreFails(e) PROVE Settled'
  BY <1>20 DEF RestoreFails, SensFault, Settled, Unfinished
<1>21. ASSUME NEW e \in SensExecs, Fail(e) PROVE Settled'
  <2>1. e \in Working /\ UNCHANGED overtaken
    BY <1>21, Fails
  <2>2. ~ overtaken => sensChange'.status = "FAILED"
    BY <1>21, <2>1, Worker, Fails
  <2>3. QED
    BY <2>1, <2>2 DEF Settled, Unfinished
<1>22. ASSUME NEW e \in SensExecs, Die(e) PROVE Settled'
  BY <1>22 DEF Die, SensFault, Leave, Settled, Unfinished
<1>23. ASSUME PollRead PROVE Settled'
  BY <1>23 DEF PollRead, Settled, Unfinished
<1>24. ASSUME NEW seen \in {"same", "changed", "absent", "failed"}, PollWrite(seen)
      PROVE  Settled'
  BY <1>24, PollWrites DEF Settled, Unfinished
<1>25. ASSUME UNCHANGED sensVars PROVE Settled'
  BY <1>25 DEF sensVars, Settled, Unfinished
<1> QED
  BY <1>1, <1>2, <1>3, <1>4, <1>5, <1>6, <1>7, <1>8, <1>9, <1>10, <1>11, <1>12,
     <1>13, <1>14, <1>15, <1>16, <1>17, <1>18, <1>19, <1>20, <1>21, <1>22, <1>23,
     <1>24, <1>25 DEF SensitivityNext, SensitivityStep

\* Every action keeps the descriptor of a change that is about to be committed.
LEMMA WrittenStep ==
  ASSUME RequestsTyped, sensChange \in Changes, Alone, Written,
         [SensitivityNext]_sensVars
  PROVE  Written'
<1>1. ASSUME NEW e \in SensExecs, ReadBoth(e) PROVE Written'
  BY <1>1 DEF ReadBoth, NoExec, RequestsTyped, Requests, Pc, Written, Working,
     Alone
<1>2. ASSUME NEW e \in SensExecs, Refused(e) PROVE Written'
  BY <1>2 DEF Refused, Leave, RequestsTyped, Requests, Pc, NoExec, Written,
     Working, Alone
<1>3. ASSUME NEW e \in SensExecs, Retry(e) PROVE Written'
  BY <1>3 DEF Retry, Pending, Plannable, RequestsTyped, Requests, Pc, NoExec,
     Written, Working, Alone
<1>4. ASSUME NEW e \in SensExecs, NEW tag \in Tags, NEW known \in BOOLEAN, Create(e, tag, known)
      PROVE  Written'
  BY <1>4 DEF Create, Plannable, IsDowngrade, NextState, Unfinished, Leave,
     RequestsTyped, Requests, Pc, NoExec, Written, Working, Alone
<1>5. ASSUME NEW e \in SensExecs, NEW same \in BOOLEAN, Approve(e, same)
      PROVE  Written'
  <2>1. sensChange.status # "APPLYING" /\ UNCHANGED overtaken
    BY <1>5, Approves
  <2>2. ~ overtaken => Working = {}
    BY <2>1 DEF Alone
  <2>3. Working' \subseteq Working
    BY <1>5, Approves DEF Working, Pc, NoExec
  <2>4. QED
    BY <2>1, <2>2, <2>3 DEF Written
<1>6. ASSUME NEW e \in SensExecs, Park(e) PROVE Written'
  <2>1. sensChange'.after = sensChange.after /\ UNCHANGED <<sensRecord, overtaken>>
    BY <1>6, Parks
  <2>2. QED
    BY <1>6, <2>1, Parks DEF Written, Working, Pc, NoExec
<1>7. ASSUME NEW e \in SensExecs, Begin(e) PROVE Written'
  <2>1. ~ overtaken' => Working' = {e} /\ sensExec'[e].pc # "commit"
    BY <1>7, Begins DEF Working, Pc
  <2>2. QED
    BY <2>1 DEF Written, Pc
<1>8. ASSUME NEW e \in SensExecs, Conflicts(e) PROVE Written'
  BY <1>8 DEF Conflicts, Leave, RequestsTyped, Requests, Pc, NoExec, Written,
     Working, Alone
<1>9. ASSUME NEW e \in SensExecs, MoveOut(e) PROVE Written'
  BY <1>9 DEF MoveOut, TakenOut, Goto, RequestsTyped, Requests, Pc, NoExec,
     Written, Working, Alone
<1>10. ASSUME NEW e \in SensExecs, MoveIn(e) PROVE Written'
  BY <1>10 DEF MoveIn, PutIn, Goto, RequestsTyped, Requests, Pc, NoExec, Written,
     Working, Alone
<1>11. ASSUME NEW e \in SensExecs, NoMove(e) PROVE Written'
  BY <1>11 DEF NoMove, SensFault, RequestsTyped, Requests, Pc, NoExec, Written,
     Working, Alone
<1>12. ASSUME NEW e \in SensExecs, UpdateRegistry(e) PROVE Written'
  <2>1. /\ e \in Working /\ UNCHANGED <<sensChange, overtaken>>
        /\ sensRecord' = sensExec[e].chg.after
    BY <1>12 DEF UpdateRegistry, Working
  <2>2. QED
    BY <2>1, Worker DEF Written
<1>13. ASSUME NEW e \in SensExecs, StepFails(e) PROVE Written'
  BY <1>13 DEF StepFails, SensFault, RequestsTyped, Requests, Pc, NoExec, Written,
     Working, Alone
<1>14. ASSUME NEW e \in SensExecs, Commit(e) PROVE Written'
  BY <1>14 DEF Commit, Current, Same, Leave, NextState, RequestsTyped, Requests,
     Pc, NoExec, Written, Working, Alone
<1>15. ASSUME NEW e \in SensExecs, CommitRefused(e) PROVE Written'
  BY <1>15 DEF CommitRefused, RequestsTyped, Requests, Pc, NoExec, Written,
     Working, Alone
<1>16. ASSUME NEW e \in SensExecs, UndoOut(e) PROVE Written'
  BY <1>16 DEF UndoOut, Goto, RequestsTyped, Requests, Pc, NoExec, Written,
     Working, Alone
<1>17. ASSUME NEW e \in SensExecs, UndoIn(e) PROVE Written'
  BY <1>17 DEF UndoIn, RequestsTyped, Requests, Pc, NoExec, Written, Working,
     Alone
<1>18. ASSUME NEW e \in SensExecs, UndoFails(e) PROVE Written'
  BY <1>18 DEF UndoFails, SensFault, Goto, RequestsTyped, Requests, Pc, NoExec,
     Written, Working, Alone
<1>19. ASSUME NEW e \in SensExecs, UndoRecord(e) PROVE Written'
  BY <1>19 DEF UndoRecord, RequestsTyped, Requests, Pc, NoExec, Written, Working,
     Alone
<1>20. ASSUME NEW e \in SensExecs, RestoreFails(e) PROVE Written'
  BY <1>20 DEF RestoreFails, SensFault, RequestsTyped, Requests, Pc, NoExec,
     Written, Working, Alone
<1>21. ASSUME NEW e \in SensExecs, Fail(e) PROVE Written'
  BY <1>21, Fails DEF Written, Working, Pc, NoExec
<1>22. ASSUME NEW e \in SensExecs, Die(e) PROVE Written'
  BY <1>22 DEF Die, SensFault, Leave, RequestsTyped, Requests, Pc, NoExec, Written,
     Working, Alone
<1>23. ASSUME PollRead PROVE Written'
  BY <1>23 DEF PollRead, RequestsTyped, Requests, Pc, NoExec, Written, Working,
     Alone
<1>24. ASSUME NEW seen \in {"same", "changed", "absent", "failed"}, PollWrite(seen)
      PROVE  Written'
  BY <1>24 DEF PollWrite, Reconciled, RequestsTyped, Requests, Pc, NoExec, Written,
     Working, Alone
<1>25. ASSUME UNCHANGED sensVars PROVE Written'
  BY <1>25 DEF sensVars, RequestsTyped, Requests, Pc, NoExec, Written, Working,
     Alone
<1> QED
  BY <1>1, <1>2, <1>3, <1>4, <1>5, <1>6, <1>7, <1>8, <1>9, <1>10, <1>11, <1>12,
     <1>13, <1>14, <1>15, <1>16, <1>17, <1>18, <1>19, <1>20, <1>21, <1>22, <1>23,
     <1>24, <1>25 DEF SensitivityNext, SensitivityStep

\* Every action keeps the tool in no other Target than the change's two while it is moved.
LEMMA MovingStep ==
  ASSUME RequestsTyped, ScalarsTyped, PollTyped, sensEntry \in Entries,
         sensChange \in Changes, CopiesOK, Planned, Alone, Alone', Settled, Moving,
         [SensitivityNext]_sensVars
  PROVE  Moving'
<1>1. ASSUME NEW e \in SensExecs, ReadBoth(e) PROVE Moving'
  BY <1>1 DEF ReadBoth, NoExec, RequestsTyped, Requests, Pc, Moving, Unfinished,
     Working, Moves
<1>2. ASSUME NEW e \in SensExecs, Refused(e) PROVE Moving'
  BY <1>2 DEF Refused, Leave, RequestsTyped, Requests, Pc, NoExec, Moving,
     Unfinished, Working, Moves
<1>3. ASSUME NEW e \in SensExecs, Retry(e) PROVE Moving'
  BY <1>3 DEF Retry, Pending, Plannable, RequestsTyped, Requests, Pc, NoExec,
     Moving, Unfinished, Working, Moves
<1>4. ASSUME NEW e \in SensExecs, NEW tag \in Tags, NEW known \in BOOLEAN, Create(e, tag, known)
      PROVE  Moving'
  <2>1. /\ sensChange'.before = sensExec[e].entry.tag /\ ~ Unfinished
        /\ UNCHANGED <<overtaken, sensMode, sensEntry, sensTargets>>
    BY <1>4, Creates, CreatesFrom
  <2>2. ~ overtaken => Working = {}
    BY <2>1 DEF Alone, Unfinished
  <2>3. Working' \subseteq Working
    BY <1>4, CreatesFrom DEF Working, Pc
  <2>4. QED
    BY <2>1, <2>2, <2>3 DEF Moving, Settled, Of
<1>5. ASSUME NEW e \in SensExecs, NEW same \in BOOLEAN, Approve(e, same) PROVE Moving'
  <2>1. ~ overtaken => Working' \subseteq Working /\ \A f \in Working' : sensExec'[f] = sensExec[f]
    BY <1>5, Approves DEF Working, Pc, NoExec
  <2>2. /\ sensChange'.before = sensChange.before /\ sensChange'.after = sensChange.after
        /\ Unfinished' => Unfinished
        /\ UNCHANGED <<overtaken, sensMode, sensEntry, sensTargets>>
    BY <1>5, Approves DEF Unfinished, Changes
  <2>3. QED
    BY <2>1, <2>2 DEF Moving, Moves, Pc
<1>6. ASSUME NEW e \in SensExecs, Park(e) PROVE Moving'
  <2>1. ~ overtaken => Working' \subseteq Working /\ \A f \in Working' : sensExec'[f] = sensExec[f]
    BY <1>6, Parks DEF Working, Pc, NoExec
  <2>2. /\ sensChange'.before = sensChange.before /\ sensChange'.after = sensChange.after
        /\ Unfinished' => Unfinished
        /\ UNCHANGED <<overtaken, sensMode, sensEntry, sensTargets>>
    BY <1>6, Parks DEF Unfinished, Changes
  <2>3. QED
    BY <2>1, <2>2 DEF Moving, Moves, Pc
<1>7. ASSUME NEW e \in SensExecs, Begin(e) PROVE Moving'
  <2>1. ~ overtaken' => Working' = {e}
    BY <1>7, Begins DEF Working, Pc
  <2>2. ~ overtaken' => ~ overtaken /\ Unfinished
    BY <1>7, Begins DEF Unfinished, Same, Planned
  <2>3. QED
    BY <1>7, <2>1, <2>2, Begins DEF Moving, Pc
<1>8. ASSUME NEW e \in SensExecs, Conflicts(e) PROVE Moving'
  BY <1>8 DEF Conflicts, Leave, RequestsTyped, Requests, Pc, NoExec, Moving,
     Unfinished, Working, Moves
<1>9. ASSUME NEW e \in SensExecs, MoveOut(e) PROVE Moving'
  <2>1. /\ e \in Working /\ Pc(e) = "out"
        /\ UNCHANGED <<sensChange, overtaken, sensMode, sensEntry>>
    BY <1>9 DEF MoveOut, Working
  <2>2. ~ overtaken => /\ Working = {e} /\ sensExec[e].chg.before = sensChange.before
                       /\ sensExec[e].chg.after = sensChange.after /\ Unfinished
    BY <2>1, Worker
  <2>3. /\ sensExec'[e].pc = "in" /\ sensExec'[e].chg = sensExec[e].chg
        /\ \A f \in SensExecs \ {e} : sensExec'[f] = sensExec[f]
    BY <1>9 DEF MoveOut, Goto, RequestsTyped, Requests
  <2>4. ~ overtaken => Working' = {e}
    BY <2>2, <2>3 DEF Working, Pc
  <2>5. sensTargets' = IF Moves(e) THEN sensTargets \ {sensExec[e].chg.before} ELSE sensTargets
    BY <1>9 DEF MoveOut, TakenOut, PutIn, Without
  <2>6. QED
    BY <2>1, <2>2, <2>3, <2>4, <2>5 DEF Moving, Moves, Of, Pc, ScalarsTyped
<1>10. ASSUME NEW e \in SensExecs, MoveIn(e) PROVE Moving'
  <2>1. /\ e \in Working /\ Pc(e) = "in"
        /\ UNCHANGED <<sensChange, overtaken, sensMode, sensEntry>>
    BY <1>10 DEF MoveIn, Working
  <2>2. ~ overtaken => /\ Working = {e} /\ sensExec[e].chg.before = sensChange.before
                       /\ sensExec[e].chg.after = sensChange.after /\ Unfinished
    BY <2>1, Worker
  <2>3. /\ sensExec'[e].pc = "registry" /\ sensExec'[e].chg = sensExec[e].chg
        /\ \A f \in SensExecs \ {e} : sensExec'[f] = sensExec[f]
    BY <1>10 DEF MoveIn, Goto, RequestsTyped, Requests
  <2>4. ~ overtaken => Working' = {e}
    BY <2>2, <2>3 DEF Working, Pc
  <2>5. sensTargets' = sensTargets \cup Of(sensExec[e].chg.after)
    BY <1>10 DEF MoveIn, TakenOut, PutIn, Without
  <2>6. QED
    BY <2>1, <2>2, <2>3, <2>4, <2>5 DEF Moving, Moves, Of, Pc, ScalarsTyped
<1>11. ASSUME NEW e \in SensExecs, NoMove(e) PROVE Moving'
  BY <1>11 DEF NoMove, SensFault, RequestsTyped, Requests, Pc, NoExec, Moving,
     Unfinished, Working, Moves
<1>12. ASSUME NEW e \in SensExecs, UpdateRegistry(e) PROVE Moving'
  BY <1>12 DEF UpdateRegistry, Goto, RequestsTyped, Requests, Pc, NoExec, Moving,
     Unfinished, Working, Moves
<1>13. ASSUME NEW e \in SensExecs, StepFails(e) PROVE Moving'
  <2>1. e \in Working /\ UNCHANGED <<sensChange, overtaken, sensMode, sensEntry>>
    BY <1>13 DEF StepFails, Working
  <2>2. ~ overtaken => /\ Working = {e} /\ sensExec[e].chg.before = sensChange.before
                       /\ sensExec[e].chg.after = sensChange.after /\ Unfinished
    BY <2>1, Worker
  <2>3. /\ sensExec'[e].pc = "undoOut" /\ sensExec'[e].chg = sensExec[e].chg
        /\ \A f \in SensExecs \ {e} : sensExec'[f] = sensExec[f]
    BY <1>13 DEF StepFails, RequestsTyped, Requests
  <2>4. ~ overtaken => Working' = {e}
    BY <2>2, <2>3 DEF Working, Pc
  <2>5. sensTargets' \subseteq sensTargets \cup {sensExec[e].chg.after}
    BY <1>13 DEF StepFails, TakenOut, PutIn, Without, Of
  <2>6. QED
    BY <2>1, <2>2, <2>3, <2>4, <2>5 DEF Moving, Pc
<1>14. ASSUME NEW e \in SensExecs, Commit(e) PROVE Moving'
  BY <1>14 DEF Commit, Current, Same, Leave, NextState, RequestsTyped, Requests,
     Pc, NoExec, Moving, Unfinished, Working, Moves
<1>15. ASSUME NEW e \in SensExecs, CommitRefused(e) PROVE Moving'
  BY <1>15 DEF CommitRefused, RequestsTyped, Requests, Pc, NoExec, Moving,
     Unfinished, Working, Moves
<1>16. ASSUME NEW e \in SensExecs, UndoOut(e) PROVE Moving'
  <2>1. /\ e \in Working /\ Pc(e) = "undoOut"
        /\ UNCHANGED <<sensChange, overtaken, sensMode, sensEntry>>
    BY <1>16 DEF UndoOut, Working
  <2>2. ~ overtaken => /\ Working = {e} /\ sensExec[e].chg.before = sensChange.before
                       /\ sensExec[e].chg.after = sensChange.after /\ Unfinished
    BY <2>1, Worker
  <2>3. /\ sensExec'[e].pc = (IF sensMode.deployed THEN "undoIn" ELSE "undoRecord")
        /\ sensExec'[e].chg = sensExec[e].chg
        /\ \A f \in SensExecs \ {e} : sensExec'[f] = sensExec[f]
    BY <1>16 DEF UndoOut, Goto, RequestsTyped, Requests
  <2>4. ~ overtaken => Working' = {e}
    BY <2>2, <2>3 DEF Working, Pc
  <2>5. sensTargets' = IF Moves(e) THEN sensTargets \ {sensExec[e].chg.after} ELSE sensTargets
    BY <1>16 DEF UndoOut, TakenOut, PutIn, Without
  <2>6. QED
    BY <2>1, <2>2, <2>3, <2>4, <2>5 DEF Moving, Moves, Of, Pc, ScalarsTyped
<1>17. ASSUME NEW e \in SensExecs, UndoIn(e) PROVE Moving'
  <2>1. /\ e \in Working /\ Pc(e) = "undoIn"
        /\ UNCHANGED <<sensChange, overtaken, sensMode, sensEntry>>
    BY <1>17 DEF UndoIn, Working
  <2>2. ~ overtaken => /\ Working = {e} /\ sensExec[e].chg.before = sensChange.before
                       /\ sensExec[e].chg.after = sensChange.after /\ Unfinished
    BY <2>1, Worker
  <2>3. /\ sensExec'[e].pc = "undoRecord" /\ sensExec'[e].chg = sensExec[e].chg
        /\ \A f \in SensExecs \ {e} : sensExec'[f] = sensExec[f]
    BY <1>17 DEF UndoIn, Goto, RequestsTyped, Requests
  <2>4. ~ overtaken => Working' = {e}
    BY <2>2, <2>3 DEF Working, Pc
  <2>5. sensTargets' = sensTargets \cup Of(sensExec[e].chg.before)
    BY <1>17 DEF UndoIn, TakenOut, PutIn, Without
  <2>6. QED
    BY <2>1, <2>2, <2>3, <2>4, <2>5 DEF Moving, Moves, Of, Pc, ScalarsTyped
<1>18. ASSUME NEW e \in SensExecs, UndoFails(e) PROVE Moving'
  BY <1>18 DEF UndoFails, SensFault, Goto, RequestsTyped, Requests, Pc, NoExec,
     Moving, Unfinished, Working, Moves
<1>19. ASSUME NEW e \in SensExecs, UndoRecord(e) PROVE Moving'
  BY <1>19 DEF UndoRecord, RequestsTyped, Requests, Pc, NoExec, Moving, Unfinished,
     Working, Moves
<1>20. ASSUME NEW e \in SensExecs, RestoreFails(e) PROVE Moving'
  BY <1>20 DEF RestoreFails, SensFault, RequestsTyped, Requests, Pc, NoExec,
     Moving, Unfinished, Working, Moves
<1>21. ASSUME NEW e \in SensExecs, Fail(e) PROVE Moving'
  <2>1. e \in Working /\ UNCHANGED <<overtaken, sensMode, sensEntry, sensTargets>>
    BY <1>21, Fails
  <2>2. ~ overtaken => Working' = {} /\ Unfinished
    BY <1>21, <2>1, Fails, Worker DEF Working, Pc, NoExec
  <2>3. sensChange'.before = sensChange.before /\ sensChange'.after = sensChange.after
    BY <1>21, Fails
  <2>4. QED
    BY <2>1, <2>2, <2>3 DEF Moving
<1>22. ASSUME NEW e \in SensExecs, Die(e) PROVE Moving'
  BY <1>22 DEF Die, SensFault, Leave, RequestsTyped, Requests, Pc, NoExec, Moving,
     Unfinished, Working, Moves
<1>23. ASSUME PollRead PROVE Moving'
  BY <1>23 DEF PollRead, RequestsTyped, Requests, Pc, NoExec, Moving, Unfinished,
     Working, Moves
<1>24. ASSUME NEW seen \in {"same", "changed", "absent", "failed"}, PollWrite(seen)
      PROVE  Moving'
  BY <1>24, PollWrites DEF Moving, Unfinished, Working, Moves, Pc
<1>25. ASSUME UNCHANGED sensVars PROVE Moving'
  BY <1>25 DEF sensVars, RequestsTyped, Requests, Pc, NoExec, Moving, Unfinished,
     Working, Moves
<1> QED
  BY <1>1, <1>2, <1>3, <1>4, <1>5, <1>6, <1>7, <1>8, <1>9, <1>10, <1>11, <1>12,
     <1>13, <1>14, <1>15, <1>16, <1>17, <1>18, <1>19, <1>20, <1>21, <1>22, <1>23,
     <1>24, <1>25 DEF SensitivityNext, SensitivityStep

\* Every action keeps what a change remembers of a deployed asset equal to what it started from.
LEMMA BasedStep ==
  ASSUME RequestsTyped, ScalarsTyped, PollTyped, sensEntry \in Entries,
         sensChange \in Changes, CopiesOK, Planned, Alone, Settled, Based,
         [SensitivityNext]_sensVars
  PROVE  Based'
<1>1. ASSUME NEW e \in SensExecs, NEW tag \in Tags, NEW known \in BOOLEAN, Create(e, tag, known)
      PROVE  Based'
  <2>1. ~ sensChange'.stale => sensExec[e].entry = sensEntry
    BY <1>1, Creates, CreatesFrom DEF CopiesOK, Copied
  <2>2. ~ Unfinished /\ UNCHANGED <<sensMode, sensEntry, overtaken>>
    BY <1>1, Creates
  <2>3. /\ sensChange'.before = sensExec[e].entry.tag
        /\ sensChange'.rec = sensRecord /\ sensChange'.targets = sensTargets
    BY <1>1, CreatesFrom
  <2>4. QED
    BY <2>1, <2>2, <2>3 DEF Based, Settled, Of
<1>2. ASSUME NEW e \in SensExecs, NEW same \in BOOLEAN, Approve(e, same) PROVE Based'
  <2>1. ~ overtaken' => ~ overtaken /\ Unfinished
    BY <1>2, Approves DEF Unfinished
  <2>2. /\ sensChange'.before = sensChange.before /\ sensChange'.rec = sensChange.rec
        /\ sensChange'.targets = sensChange.targets /\ sensChange'.stale = sensChange.stale
        /\ UNCHANGED <<sensMode, sensEntry>>
    BY <1>2, Approves DEF Changes
  <2>3. QED
    BY <2>1, <2>2 DEF Based, Of
<1>3. ASSUME NEW e \in SensExecs, Park(e) PROVE Based'
  <2>1. ~ overtaken' /\ Unfinished' => ~ overtaken /\ Unfinished
    BY <1>3, Parks DEF Unfinished
  <2>2. /\ sensChange'.before = sensChange.before /\ sensChange'.rec = sensChange.rec
        /\ sensChange'.targets = sensChange.targets /\ sensChange'.stale = sensChange.stale
        /\ UNCHANGED <<sensMode, sensEntry>>
    BY <1>3, Parks
  <2>3. QED
    BY <2>1, <2>2 DEF Based, Of
<1>4. ASSUME NEW e \in SensExecs, Begin(e) PROVE Based'
  <2>1. ~ overtaken' => ~ overtaken /\ Unfinished
    BY <1>4, Begins DEF Unfinished, Same, Planned
  <2>2. /\ sensChange'.before = sensChange.before /\ sensChange'.rec = sensChange.rec
        /\ sensChange'.targets = sensChange.targets /\ sensChange'.stale = sensChange.stale
        /\ UNCHANGED <<sensMode, sensEntry>>
    BY <1>4, Begins
  <2>3. QED
    BY <2>1, <2>2 DEF Based, Of
<1>5. ASSUME NEW e \in SensExecs, Commit(e) PROVE Based'
  <2>1. sensChange'.status = "APPLIED"
    BY <1>5 DEF Commit, Changes
  <2>2. QED
    BY <2>1 DEF Based, Unfinished
<1>6. ASSUME NEW e \in SensExecs, Fail(e) PROVE Based'
  <2>1. ~ overtaken' => ~ overtaken /\ Unfinished
    BY <1>6, Fails, Worker
  <2>2. /\ sensChange'.before = sensChange.before /\ sensChange'.rec = sensChange.rec
        /\ sensChange'.targets = sensChange.targets /\ sensChange'.stale = sensChange.stale
        /\ UNCHANGED <<sensMode, sensEntry>>
    BY <1>6, Fails
  <2>3. QED
    BY <2>1, <2>2 DEF Based, Of
<1>7. ASSUME NEW seen \in {"same", "changed", "absent", "failed"}, PollWrite(seen)
      PROVE  Based'
  BY <1>7, PollWrites DEF Based, Unfinished
<1>8. ASSUME UNCHANGED <<sensChange, sensEntry, sensMode, overtaken>> PROVE Based'
  BY <1>8 DEF Based, Unfinished
<1> QED
  BY <1>1, <1>2, <1>3, <1>4, <1>5, <1>6, <1>7, <1>8, ChangeWrites

\* Every action keeps the descriptor and the Targets as far changed as the executor's step
\* says, and as before when nobody works.
LEMMA HonestStep ==
  ASSUME RequestsTyped, ScalarsTyped, PollTyped, sensEntry \in Entries,
         sensChange \in Changes, CopiesOK, Planned, Placing, Alone, Settled,
         Moving, Based, Honest, [SensitivityNext]_sensVars
  PROVE  Honest'
<1>1. ASSUME NEW e \in SensExecs, ReadBoth(e) PROVE Honest'
  BY <1>1 DEF ReadBoth, NoExec, RequestsTyped, Requests, Pc, Honest, Unfinished,
     Working, Reported, AsBefore
<1>2. ASSUME NEW e \in SensExecs, Refused(e) PROVE Honest'
  BY <1>2 DEF Refused, Leave, RequestsTyped, Requests, Pc, NoExec, Honest,
     Unfinished, Working, Reported, AsBefore
<1>3. ASSUME NEW e \in SensExecs, Retry(e) PROVE Honest'
  BY <1>3 DEF Retry, Pending, Plannable, RequestsTyped, Requests, Pc, NoExec,
     Honest, Unfinished, Working, Reported, AsBefore
<1>4. ASSUME NEW e \in SensExecs, NEW tag \in Tags, NEW known \in BOOLEAN, Create(e, tag, known)
      PROVE  Honest'
  <2>1. ~ overtaken' => Working' = {}
    <3>1. ~ overtaken => Working = {}
      BY <1>4, Creates DEF Alone, Unfinished
    <3>2. Working' \subseteq Working /\ overtaken' = overtaken
      BY <1>4, Creates, CreatesFrom DEF Working, Pc
    <3>3. QED
      BY <3>1, <3>2
  <2>2. /\ sensChange'.rec = sensRecord /\ sensChange'.targets = sensTargets
        /\ UNCHANGED <<sensRecord, sensTargets>>
    BY <1>4, Creates, CreatesFrom
  <2>3. QED
    BY <2>1, <2>2 DEF Honest, AsBefore
<1>5. ASSUME NEW e \in SensExecs, NEW same \in BOOLEAN, Approve(e, same) PROVE Honest'
  <2>1. Working' \subseteq Working /\ (\A f \in Working' : sensExec'[f] = sensExec[f])
        /\ Working \subseteq Working'
    BY <1>5, Approves DEF Working, Pc, NoExec
  <2>2. /\ sensChange'.rec = sensChange.rec /\ sensChange'.targets = sensChange.targets
        /\ sensChange'.stale = sensChange.stale /\ (Unfinished' => Unfinished)
        /\ UNCHANGED <<overtaken, cut, sensRecord, sensTargets>>
    BY <1>5, Approves DEF Unfinished, Changes
  <2>3. QED
    BY <2>1, <2>2 DEF Honest, Reported, AsBefore, Pc
<1>6. ASSUME NEW e \in SensExecs, Park(e) PROVE Honest'
  <2>1. Working' \subseteq Working /\ (\A f \in Working' : sensExec'[f] = sensExec[f])
        /\ Working \subseteq Working'
    BY <1>6, Parks DEF Working, Pc, NoExec
  <2>2. /\ sensChange'.rec = sensChange.rec /\ sensChange'.targets = sensChange.targets
        /\ sensChange'.stale = sensChange.stale /\ (Unfinished' => Unfinished)
        /\ UNCHANGED <<overtaken, cut, sensRecord, sensTargets>>
    BY <1>6, Parks DEF Unfinished, Changes
  <2>3. QED
    BY <2>1, <2>2 DEF Honest, Reported, AsBefore, Pc
<1>7. ASSUME NEW e \in SensExecs, Begin(e) PROVE Honest'
  <2>1. ~ overtaken' => Working' = {e} /\ Working = {} /\ ~ overtaken /\ Unfinished
    BY <1>7, Begins DEF Working, Pc, Unfinished, Same, Planned
  <2>2. /\ sensExec'[e].pc \in {"out", "registry"}
        /\ sensChange'.rec = sensChange.rec /\ sensChange'.targets = sensChange.targets
        /\ sensChange'.stale = sensChange.stale
        /\ UNCHANGED <<cut, sensRecord, sensTargets>>
    BY <1>7, Begins
  <2>3. QED
    BY <2>1, <2>2 DEF Honest, Reported, AsBefore, Pc
<1>8. ASSUME NEW e \in SensExecs, Conflicts(e) PROVE Honest'
  BY <1>8 DEF Conflicts, Leave, RequestsTyped, Requests, Pc, NoExec, Honest,
     Unfinished, Working, Reported, AsBefore
<1>9. ASSUME NEW e \in SensExecs, MoveOut(e) PROVE Honest'
  <2>1. /\ e \in Working /\ Pc(e) = "out" /\ UNCHANGED <<sensChange, overtaken, cut, sensMode>>
    BY <1>9 DEF MoveOut, Working
  <2>2. ~ overtaken => Working = {e} /\ Unfinished
    BY <2>1, Worker
  <2>3. \A f \in SensExecs \ {e} : sensExec'[f] = sensExec[f]
    BY <1>9 DEF MoveOut, Goto, RequestsTyped
  <2>4. sensExec'[e].pc = "in" /\ UNCHANGED sensRecord
    BY <1>9, <2>1 DEF MoveOut, Goto, RequestsTyped, Requests, Pc
  <2>5. ~ overtaken => Working' = {e}
    BY <2>2, <2>3, <2>4 DEF Working, Pc
  <2>6. ~ overtaken /\ Unfinished /\ ~ sensChange.stale /\ ~ cut => Reported(e)
    BY <2>1 DEF Honest
  <2>7. QED
    BY <2>1, <2>2, <2>4, <2>5, <2>6 DEF Honest, Reported, AsBefore, Pc
<1>10. ASSUME NEW e \in SensExecs, MoveIn(e) PROVE Honest'
  <2>1. /\ e \in Working /\ Pc(e) = "in" /\ UNCHANGED <<sensChange, overtaken, cut, sensMode>>
    BY <1>10 DEF MoveIn, Working
  <2>2. ~ overtaken => Working = {e} /\ Unfinished
    BY <2>1, Worker
  <2>3. \A f \in SensExecs \ {e} : sensExec'[f] = sensExec[f]
    BY <1>10 DEF MoveIn, Goto, RequestsTyped
  <2>4. sensExec'[e].pc = "registry" /\ UNCHANGED sensRecord
    BY <1>10, <2>1 DEF MoveIn, Goto, RequestsTyped, Requests, Pc
  <2>5. ~ overtaken => Working' = {e}
    BY <2>2, <2>3, <2>4 DEF Working, Pc
  <2>6. ~ overtaken /\ Unfinished /\ ~ sensChange.stale /\ ~ cut => Reported(e)
    BY <2>1 DEF Honest
  <2>7. QED
    BY <2>1, <2>2, <2>4, <2>5, <2>6 DEF Honest, Reported, AsBefore, Pc
<1>11. ASSUME NEW e \in SensExecs, NoMove(e) PROVE Honest'
  <2>1. /\ e \in Working /\ Pc(e) = "out" /\ UNCHANGED <<sensChange, overtaken, cut, sensMode>>
    BY <1>11 DEF NoMove, Working
  <2>2. ~ overtaken => Working = {e} /\ Unfinished
    BY <2>1, Worker
  <2>3. \A f \in SensExecs \ {e} : sensExec'[f] = sensExec[f]
    BY <1>11 DEF NoMove, Goto, RequestsTyped
  <2>4. sensExec'[e].pc = "fail" /\ UNCHANGED <<sensRecord, sensTargets>>
    BY <1>11, <2>1 DEF NoMove, Goto, RequestsTyped, Requests, Pc
  <2>5. ~ overtaken => Working' = {e}
    BY <2>2, <2>3, <2>4 DEF Working, Pc
  <2>6. ~ overtaken /\ Unfinished /\ ~ sensChange.stale /\ ~ cut => Reported(e)
    BY <2>1 DEF Honest
  <2>7. QED
    BY <2>1, <2>2, <2>4, <2>5, <2>6 DEF Honest, Reported, AsBefore, Pc
<1>12. ASSUME NEW e \in SensExecs, UpdateRegistry(e) PROVE Honest'
  <2>1. /\ e \in Working /\ Pc(e) = "registry"
        /\ UNCHANGED <<sensChange, overtaken, cut, sensMode>>
    BY <1>12 DEF UpdateRegistry, Working
  <2>2. ~ overtaken => Working = {e} /\ Unfinished
    BY <2>1, Worker
  <2>3. \A f \in SensExecs \ {e} : sensExec'[f] = sensExec[f]
    BY <1>12 DEF UpdateRegistry, Goto, RequestsTyped
  <2>4. sensExec'[e].pc = "commit"
    BY <1>12, <2>1 DEF UpdateRegistry, Goto, RequestsTyped, Requests, Pc
  <2>5. ~ overtaken => Working' = {e}
    BY <2>2, <2>3, <2>4 DEF Working, Pc
  <2>6. ~ overtaken /\ Unfinished /\ ~ sensChange.stale /\ ~ cut => Reported(e)
    BY <2>1 DEF Honest
  <2>7. QED
    BY <2>1, <2>2, <2>4, <2>5, <2>6 DEF Honest, Reported, AsBefore, Pc
<1>13. ASSUME NEW e \in SensExecs, StepFails(e) PROVE Honest'
  <2>1. /\ e \in Working /\ Pc(e) \in {"out", "in", "registry"}
        /\ UNCHANGED <<sensChange, overtaken, cut, sensMode>>
    BY <1>13 DEF StepFails, Working
  <2>2. ~ overtaken => Working = {e} /\ Unfinished
    BY <2>1, Worker
  <2>3. \A f \in SensExecs \ {e} : sensExec'[f] = sensExec[f]
    BY <1>13 DEF StepFails, Goto, RequestsTyped
  <2>4. /\ sensExec'[e].pc = "undoOut"
        /\ ~ sensExec'[e].undo => Pc(e) # "registry"
        /\ Pc(e) # "registry" => UNCHANGED sensRecord
    BY <1>13, <2>1 DEF StepFails, Goto, RequestsTyped, Requests, Pc
  <2>5. ~ overtaken => Working' = {e}
    BY <2>2, <2>3, <2>4 DEF Working, Pc
  <2>6. ~ overtaken /\ Unfinished /\ ~ sensChange.stale /\ ~ cut => Reported(e)
    BY <2>1 DEF Honest
  <2>7. sensExec[e].pc # "registry" /\ Reported(e) =>
          sensRecord = sensChange.rec
    BY <2>1 DEF Reported, AsBefore, Pc
  <2>8. QED
    BY <2>1, <2>2, <2>4, <2>5, <2>6, <2>7 DEF Honest, Reported, AsBefore, Pc
<1>14. ASSUME NEW e \in SensExecs, Commit(e) PROVE Honest'
  <2>1. sensChange'.status = "APPLIED"
    BY <1>14 DEF Commit, Changes
  <2>2. QED
    BY <2>1 DEF Honest, Unfinished
<1>15. ASSUME NEW e \in SensExecs, CommitRefused(e) PROVE Honest'
  <2>1. /\ e \in Working /\ Pc(e) = "commit"
        /\ UNCHANGED <<sensChange, overtaken, cut, sensMode>>
    BY <1>15 DEF CommitRefused, Working
  <2>2. ~ overtaken => Working = {e} /\ Unfinished
    BY <2>1, Worker
  <2>3. \A f \in SensExecs \ {e} : sensExec'[f] = sensExec[f]
    BY <1>15 DEF CommitRefused, Goto, RequestsTyped
  <2>4. sensExec'[e].pc = "undoOut" /\ sensExec'[e].undo = TRUE
    BY <1>15, <2>1 DEF CommitRefused, Goto, RequestsTyped, Requests, Pc
  <2>5. ~ overtaken => Working' = {e}
    BY <2>2, <2>3, <2>4 DEF Working, Pc
  <2>6. ~ overtaken /\ Unfinished /\ ~ sensChange.stale /\ ~ cut => Reported(e)
    BY <2>1 DEF Honest
  <2>7. QED
    BY <2>1, <2>2, <2>4, <2>5, <2>6 DEF Honest, Reported, AsBefore, Pc
<1>16. ASSUME NEW e \in SensExecs, UndoOut(e) PROVE Honest'
  <2>1. /\ e \in Working /\ Pc(e) = "undoOut"
        /\ UNCHANGED <<sensChange, overtaken, cut, sensMode>>
    BY <1>16 DEF UndoOut, Working
  <2>2. ~ overtaken => Working = {e} /\ Unfinished
    BY <2>1, Worker
  <2>3. \A f \in SensExecs \ {e} : sensExec'[f] = sensExec[f]
    BY <1>16 DEF UndoOut, Goto, RequestsTyped
  <2>4. /\ sensExec'[e].pc \in {"undoIn", "undoRecord"}
        /\ sensExec'[e].undo = sensExec[e].undo /\ ~ sensExec'[e].live
        /\ UNCHANGED sensRecord
    BY <1>16, <2>1 DEF UndoOut, Goto, RequestsTyped, Requests, Pc, Placing
  <2>5. ~ overtaken => Working' = {e}
    BY <2>2, <2>3, <2>4 DEF Working, Pc
  <2>6. ~ overtaken /\ Unfinished /\ ~ sensChange.stale /\ ~ cut => Reported(e)
    BY <2>1 DEF Honest
  <2>7. QED
    BY <2>1, <2>2, <2>4, <2>5, <2>6 DEF Honest, Reported, AsBefore, Pc
<1>17. ASSUME NEW e \in SensExecs, UndoIn(e) PROVE Honest'
  <2>1. /\ e \in Working /\ Pc(e) = "undoIn"
        /\ UNCHANGED <<sensChange, overtaken, cut, sensMode>>
    BY <1>17 DEF UndoIn, Working
  <2>2. ~ overtaken => Working = {e} /\ Unfinished
    BY <2>1, Worker
  <2>3. \A f \in SensExecs \ {e} : sensExec'[f] = sensExec[f]
    BY <1>17 DEF UndoIn, Goto, RequestsTyped
  <2>4. /\ sensExec'[e].pc = "undoRecord"
        /\ sensExec'[e].undo = sensExec[e].undo /\ UNCHANGED sensRecord
        /\ sensTargets' = sensTargets \cup Of(sensExec[e].chg.before)
    BY <1>17, <2>1 DEF UndoIn, Goto, RequestsTyped, Requests, Pc
  <2>5. ~ overtaken => Working' = {e}
    BY <2>2, <2>3, <2>4 DEF Working, Pc
  <2>6. ~ overtaken /\ Unfinished /\ ~ sensChange.stale /\ ~ cut => Reported(e)
    BY <2>1 DEF Honest
  <2>7. sensMode.deployed
    BY <2>1 DEF Placing
  <2>8. ~ overtaken /\ Unfinished /\ ~ sensChange.stale =>
          sensTargets' = sensChange.targets
    <3> SUFFICES ASSUME ~ overtaken, Unfinished, ~ sensChange.stale
                 PROVE  sensTargets' = sensChange.targets
      OBVIOUS
    <3>1. /\ sensChange.before = sensEntry.tag /\ sensChange.targets = Of(sensChange.before)
      BY <2>7 DEF Based
    <3>2. /\ sensExec[e].chg.before = sensChange.before
          /\ sensExec[e].chg.after = sensChange.after
      BY <2>1, Worker
    <3>3. /\ sensTargets \subseteq {sensChange.before, sensChange.after}
          /\ Moves(e) => sensChange.after \notin sensTargets
      BY <2>1, <2>7, <3>1 DEF Moving
    <3>4. QED
      BY <2>4, <2>7, <3>1, <3>2, <3>3 DEF Of, Moves, ScalarsTyped
  <2>9. QED
    BY <2>1, <2>2, <2>4, <2>5, <2>6, <2>8 DEF Honest, Reported, AsBefore, Pc
<1>18. ASSUME NEW e \in SensExecs, UndoFails(e) PROVE Honest'
  <2>1. /\ e \in Working /\ Pc(e) \in {"undoOut", "undoIn"}
        /\ UNCHANGED <<sensChange, overtaken, cut, sensMode>>
    BY <1>18 DEF UndoFails, Working
  <2>2. ~ overtaken => Working = {e} /\ Unfinished
    BY <2>1, Worker
  <2>3. \A f \in SensExecs \ {e} : sensExec'[f] = sensExec[f]
    BY <1>18 DEF UndoFails, Goto, RequestsTyped
  <2>4. /\ sensExec'[e].pc = "undoRecord"
        /\ sensExec'[e].undo = sensExec[e].undo /\ ~ sensExec'[e].live
        /\ UNCHANGED sensRecord
    BY <1>18, <2>1 DEF UndoFails, Goto, RequestsTyped, Requests, Pc, Placing
  <2>5. ~ overtaken => Working' = {e}
    BY <2>2, <2>3, <2>4 DEF Working, Pc
  <2>6. ~ overtaken /\ Unfinished /\ ~ sensChange.stale /\ ~ cut => Reported(e)
    BY <2>1 DEF Honest
  <2>7. QED
    BY <2>1, <2>2, <2>4, <2>5, <2>6 DEF Honest, Reported, AsBefore, Pc
<1>19. ASSUME NEW e \in SensExecs, UndoRecord(e) PROVE Honest'
  <2>1. /\ e \in Working /\ Pc(e) = "undoRecord"
        /\ UNCHANGED <<sensChange, overtaken, cut, sensMode>>
    BY <1>19 DEF UndoRecord, Working
  <2>2. ~ overtaken => Working = {e} /\ Unfinished
    BY <2>1, Worker
  <2>3. \A f \in SensExecs \ {e} : sensExec'[f] = sensExec[f]
    BY <1>19 DEF UndoRecord, Goto, RequestsTyped
  <2>4. /\ sensExec'[e].pc = "fail" /\ UNCHANGED sensTargets
        /\ sensExec'[e].chg.outcome = IF Restored(e) THEN "restored" ELSE "diverged"
        /\ sensRecord' = IF sensExec[e].undo /\ Evidence(e) THEN sensExec[e].rec ELSE sensRecord
    BY <1>19, <2>1 DEF UndoRecord, Goto, RequestsTyped, Requests, Pc, Changes
  <2>5. ~ overtaken => Working' = {e}
    BY <2>2, <2>3, <2>4 DEF Working, Pc
  <2>6. ~ overtaken /\ Unfinished /\ ~ sensChange.stale /\ ~ cut => Reported(e)
    BY <2>1 DEF Honest
  <2>7. ~ overtaken /\ Unfinished /\ ~ sensChange.stale /\ ~ cut /\ Restored(e) => AsBefore'
    <3> SUFFICES ASSUME ~ overtaken, Unfinished, ~ sensChange.stale, ~ cut, Restored(e)
                 PROVE  AsBefore'
      OBVIOUS
    <3>1. sensMode.deployed /\ sensTargets = sensChange.targets
      BY <2>1, <2>6 DEF Restored, Placing, Reported
    <3>2. sensChange.rec = sensExec[e].chg.before
      BY <2>1, <3>1, Worker DEF Based
    <3>3. sensRecord' = sensChange.rec
      BY <2>1, <2>4, <2>6, <3>2 DEF Restored, Evidence, Reported
    <3>4. QED
      BY <2>1, <2>4, <3>1, <3>3 DEF AsBefore
  <2>8. QED
    BY <2>1, <2>2, <2>4, <2>5, <2>7 DEF Honest, Reported, AsBefore, Pc
<1>20. ASSUME NEW e \in SensExecs, RestoreFails(e) PROVE Honest'
  <2>1. /\ e \in Working /\ Pc(e) = "undoRecord"
        /\ UNCHANGED <<sensChange, overtaken, cut, sensMode>>
    BY <1>20 DEF RestoreFails, Working
  <2>2. ~ overtaken => Working = {e} /\ Unfinished
    BY <2>1, Worker
  <2>3. \A f \in SensExecs \ {e} : sensExec'[f] = sensExec[f]
    BY <1>20 DEF RestoreFails, Goto, RequestsTyped
  <2>4. sensExec'[e].pc = "fail" /\ sensExec'[e].chg.outcome = "diverged"
    BY <1>20, <2>1 DEF RestoreFails, Goto, RequestsTyped, Requests, Pc, Changes
  <2>5. ~ overtaken => Working' = {e}
    BY <2>2, <2>3, <2>4 DEF Working, Pc
  <2>6. ~ overtaken /\ Unfinished /\ ~ sensChange.stale /\ ~ cut => Reported(e)
    BY <2>1 DEF Honest
  <2>7. QED
    BY <2>1, <2>2, <2>4, <2>5, <2>6 DEF Honest, Reported, AsBefore, Pc
<1>21. ASSUME NEW e \in SensExecs, Fail(e) PROVE Honest'
  <2>1. /\ e \in Working /\ Pc(e) = "fail"
        /\ UNCHANGED <<overtaken, sensRecord, sensTargets>>
    BY <1>21, Fails
  <2>2. ~ overtaken =>
          /\ Working' = {} /\ Unfinished
          /\ sensChange'.rec = sensChange.rec /\ sensChange'.targets = sensChange.targets
          /\ sensChange'.stale = sensChange.stale
          /\ cut' = (cut \/ sensExec[e].chg.outcome = "diverged")
    BY <1>21, <2>1, Fails, Worker DEF Working, Pc, NoExec
  <2>3. sensExec[e].chg.outcome \in {"restored", "unchanged", "diverged"}
    BY <2>1 DEF Placing, RequestsTyped, Requests, Changes
  <2>4. ~ overtaken /\ ~ sensChange.stale /\ ~ cut' => AsBefore
    BY <2>1, <2>2, <2>3 DEF Honest, Reported
  <2>5. QED
    BY <2>1, <2>2, <2>4 DEF Honest, AsBefore
<1>22. ASSUME NEW e \in SensExecs, Die(e) PROVE Honest'
  BY <1>22 DEF Die, SensFault, Leave, RequestsTyped, Requests, Pc, NoExec, Honest,
     Unfinished, Working, Reported, AsBefore
<1>23. ASSUME PollRead PROVE Honest'
  BY <1>23 DEF PollRead, RequestsTyped, Requests, Pc, NoExec, Honest, Unfinished,
     Working, Reported, AsBefore
<1>24. ASSUME NEW seen \in {"same", "changed", "absent", "failed"}, PollWrite(seen)
      PROVE  Honest'
  BY <1>24, PollWrites DEF Honest, Unfinished, Working, Reported, AsBefore, Pc
<1>25. ASSUME UNCHANGED sensVars PROVE Honest'
  BY <1>25 DEF sensVars, RequestsTyped, Requests, Pc, NoExec, Honest, Unfinished,
     Working, Reported, AsBefore
<1> QED
  BY <1>1, <1>2, <1>3, <1>4, <1>5, <1>6, <1>7, <1>8, <1>9, <1>10, <1>11, <1>12,
     <1>13, <1>14, <1>15, <1>16, <1>17, <1>18, <1>19, <1>20, <1>21, <1>22, <1>23,
     <1>24, <1>25 DEF SensitivityNext, SensitivityStep

(***************************************************************************)
(* Sensitivity: the theorems                                               *)
(***************************************************************************)
\* A tool as it was declared has the invariant.
LEMMA SensInvInit == SensitivityInit => SensInv
<1> SUFFICES ASSUME SensitivityInit PROVE SensInv
  OBVIOUS
<1>1. /\ sensEntry = [ver |-> 1, state |-> "ACTIVE", tag |-> "WRITE", ready |-> TRUE]
      /\ sensRecord = "WRITE" /\ sensChange = NoChange /\ sensPoll = NoChange
      /\ sensExec = [e \in SensExecs |-> NoExec]
      /\ sensTargets = IF sensMode.deployed THEN {"WRITE"} ELSE {}
      /\ overtaken = FALSE /\ cut = FALSE /\ sensFaults = 0
      /\ sensMode \in [deployed: BOOLEAN, propagation: BOOLEAN]
  BY DEF SensitivityInit
<1>2. RequestsTyped
  BY <1>1, NoExecTyped DEF RequestsTyped
<1>3. ScalarsTyped /\ PollTyped
  <2>1. 0 \in 0 .. MaxSensFaults
    BY SensitivityAssumption
  <2>2. ScalarsTyped
    BY <1>1, <2>1 DEF ScalarsTyped, Tags, Tagged
  <2>3. QED
    BY <1>1, <2>2 DEF PollTyped
<1>4. sensEntry \in Entries
  BY <1>1, SensitivityAssumption DEF Entries, EntryStates, Tags, Tagged
<1>5. sensChange \in Changes
  BY <1>1, SensitivityAssumption DEF Changes, NoChange, Statuses, Tags, Tagged
<1>6. \A e \in SensExecs : Pc(e) = "idle"
  BY <1>1 DEF Pc, NoExec
<1>7. Working = {} /\ ~ Unfinished /\ sensChange.status = "none"
  BY <1>1, <1>6 DEF Working, Unfinished, NoChange
<1>8. CopiesOK /\ Planned /\ Placing
  BY <1>1, <1>6 DEF CopiesOK, Planned, Placing
<1>9. AsDeployed /\ Settled
  BY <1>1 DEF AsDeployed, NextState, Settled, Of, Tagged
<1>10. Alone /\ Attempted /\ Moving /\ Written /\ Based /\ Honest
  BY <1>7 DEF Alone, Attempted, Moving, Written, Based, Honest
<1> QED
  BY <1>2, <1>3, <1>4, <1>5, <1>8, <1>9, <1>10 DEF SensInv

\* Every step keeps the invariant.
LEMMA SensInvStep == SensInv /\ [SensitivityNext]_sensVars => SensInv'
<1> SUFFICES ASSUME SensInv, [SensitivityNext]_sensVars PROVE SensInv'
  OBVIOUS
<1> USE DEF SensInv
<1>1. RequestsTyped' /\ ScalarsTyped' /\ PollTyped'
  BY RequestsTypedStep, ScalarsTypedStep, PollTypedStep
<1>2. sensEntry' \in Entries /\ sensChange' \in Changes
  BY EntryTypedStep, ChangeTypedStep
<1>3. CopiesOK' /\ Planned' /\ Placing' /\ AsDeployed'
  BY <1>1, <1>2, CopiesStep, PlannedStep, PlacingStep, AsDeployedStep
<1>4. Alone' /\ Attempted'
  BY <1>2, AloneStep, AttemptedStep
<1>5. Settled' /\ Written'
  BY SettledStep, WrittenStep
<1>6. Moving' /\ Based' /\ Honest'
  BY <1>4, MovingStep, BasedStep, HonestStep
<1> QED
  BY <1>1, <1>2, <1>3, <1>4, <1>5, <1>6

\* The invariant of a tool's sensitivity: copies with the ledger's version are the ledger,
\* one executor works until it is overtaken, descriptor and Targets are as far changed as
\* its step says.
THEOREM SensitivityInvariant == SensitivitySpec => []SensInv
<1>1. SensitivityInit => SensInv
  BY SensInvInit
<1>2. SensInv /\ [SensitivityNext]_sensVars => SensInv'
  BY SensInvStep
<1> QED
  BY <1>1, <1>2, PTL DEF SensitivitySpec

\* Ledger, descriptor, Targets, change and requests keep their shape.
THEOREM SensitivityTyped == SensitivitySpec => []SensitivityTypeOK
<1>1. SensInv => SensitivityTypeOK
  BY SensTypes DEF SensInv
<1> QED
  BY <1>1, SensitivityInvariant, PTL

\* While no change is open, a tool that may be called has one tag everywhere, unless a
\* change was retried while its first executor was still running (TagsAgree).
THEOREM TagsStayAgreed == SensitivitySpec => []TagsAgree
<1>1. SensInv => TagsAgree
  <2> SUFFICES ASSUME SensInv, sensEntry.state \in {"ACTIVE", "CHANGED"}, ~ Unfinished,
                      ~ overtaken
               PROVE  /\ sensRecord = sensEntry.tag
                      /\ sensMode.deployed => sensTargets = {sensEntry.tag}
    BY DEF TagsAgree
  <2>1. /\ sensRecord = sensEntry.tag
        /\ sensMode.deployed => sensTargets = Of(sensEntry.tag)
    BY DEF SensInv, Settled
  <2>2. sensMode.deployed => sensEntry.tag \in Tagged
    BY DEF SensInv, AsDeployed, NextState, Entries, Tags
  <2>3. QED
    BY <2>1, <2>2 DEF Of
<1> QED
  BY <1>1, SensitivityInvariant, PTL

\* A change that failed with everything restored or unchanged has left the descriptor and
\* the Targets as they were, for any requests that overlap, fail and die (FailureIsHonest).
THEOREM FailuresAreHonest == SensitivitySpec => []FailureIsHonest
<1>1. SensInv => FailureIsHonest
  <2> SUFFICES ASSUME SensInv, sensChange.status = "FAILED", ~ sensChange.stale, ~ overtaken,
                      ~ cut
               PROVE  AsBefore
    BY DEF FailureIsHonest, AsBefore
  <2>1. Working = {} /\ Unfinished
    BY DEF SensInv, Alone, Unfinished
  <2>2. QED
    BY <2>1 DEF SensInv, Honest
<1> QED
  BY <1>1, SensitivityInvariant, PTL

\* A step from a ledger without the tool: only the poller writes it, and it waits then.
LEMMA ReopenedStep ==
  ASSUME SensInv, [SensitivityNext]_sensVars, sensEntry.state = "MISSING"
  PROVE  sensEntry'.state \in {"MISSING", "DISCOVERED"}
<1>1. ASSUME NEW e \in SensExecs, Commit(e)
      PROVE  sensEntry'.state \in {"MISSING", "DISCOVERED"}
  <2>1. sensEntry.ver = sensExec[e].entry.ver /\ Pc(e) = "commit"
    BY <1>1 DEF Commit, Current
  <2>2. sensExec[e].entry = sensEntry /\ sensExec[e].entry.state # "MISSING"
    BY <2>1 DEF SensInv, CopiesOK, Copied, Planned
  <2>3. QED
    BY <2>2
<1>2. ASSUME NEW seen \in {"same", "changed", "absent", "failed"}, PollWrite(seen)
      PROVE  sensEntry'.state \in {"MISSING", "DISCOVERED"}
  BY <1>2, PollWrites DEF SensInv
<1>3. ASSUME UNCHANGED sensEntry PROVE sensEntry'.state \in {"MISSING", "DISCOVERED"}
  BY <1>3
<1> QED
  BY <1>1, <1>2, <1>3, LedgerWrites

\* A tool that disappeared is never callable again in one step: a commit that started
\* before the poller saw it go is refused (ReopenedByAdmin).
THEOREM ReopenedByAdminOnly == SensitivitySpec => ReopenedByAdmin
<1>1. SensInv /\ [SensitivityNext]_sensVars =>
        [sensEntry.state = "MISSING" =>
           sensEntry'.state \in {"MISSING", "DISCOVERED"}]_sensVars
  BY ReopenedStep
<1> QED
  BY <1>1, SensitivityInvariant, PTL DEF SensitivitySpec, ReopenedByAdmin

=============================================================================
