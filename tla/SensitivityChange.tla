------------------------- MODULE SensitivityChange -------------------------
(***************************************************************************)
(* Changing the sensitivity of one MCP tool: McpDriftService and the       *)
(* Target mover.                                                           *)
(*                                                                         *)
(* A request records a change; an upgrade is applied at once, a downgrade  *)
(* when an admin approves it.  To apply it an executor marks the change    *)
(* APPLYING, moves the tool between the live Gateway Targets (a deployed   *)
(* MCP only, and only where propagation is enabled), writes the Registry   *)
(* descriptor, and commits ledger and change in one transaction that asks  *)
(* for the ledger version it read.  A failure is compensated step by step  *)
(* and recorded as FAILED with what was restored; a process that dies      *)
(* leaves the change APPLYING, and after five minutes anyone may retry it. *)
(* Meanwhile the poller reconciles the ledger with what the MCP lists.     *)
(*                                                                         *)
(* One tool: the change of an asset excludes the changes of its others.    *)
(* The ledger is read and written as one item (DriftLedger).               *)
(***************************************************************************)
EXTENDS Integers, FiniteSets

CONSTANTS
  SensExecs,        \* requests that may overlap
  MaxLedgerVersion, \* bound: writes of the ledger
  MaxChangeWrites,      \* bound: versions of the change request
  MaxSensFaults     \* bound: failing steps and dying requests

\* The bounds leave room for the first ledger and for a change that fails at once.
ASSUME SensitivityAssumption ==
  /\ MaxLedgerVersion \in Nat /\ MaxLedgerVersion >= 1
  /\ MaxChangeWrites \in Nat /\ MaxChangeWrites >= 2
  /\ MaxSensFaults \in Nat

Tagged == {"READ", "WRITE"}
Tags   == Tagged \cup {"none"}

VARIABLES
  sensMode,    \* what the asset is: deployed or connected, propagation enabled
  sensEntry,   \* the tool in the ledger, with the ledger's version and whether
               \* the last observation of the catalog succeeded
  sensRecord,  \* the tag of the tool in the Registry descriptor
  sensTargets, \* the sensitivity Targets that list the tool (deployed)
  sensChange,  \* the last change request; rec, targets and stale, the descriptor's
               \* tag, the Targets, and whether the ledger had moved since it was
               \* read, when the change was made, serve the properties only
  sensExec,    \* a request in progress, with the copies it works on
  sensPoll,    \* the ledger the poller read
  sensFaults,
  overtaken,   \* a change was retried while its executor was still running
  cut          \* an attempt of the change died, or left what it did not restore

sensVars == <<sensMode, sensEntry, sensRecord, sensTargets, sensChange,
              sensExec, sensPoll, sensFaults, overtaken, cut>>

Statuses == {"none", "PENDING_APPROVAL", "APPROVED_PENDING_PROPAGATION",
             "APPLYING", "APPLIED", "FAILED"}
EntryStates == {"DISCOVERED", "ACTIVE", "CHANGED", "MISSING"}
NoChange == [ver |-> 0, status |-> "none", before |-> "none",
             after |-> "none", rec |-> "none", targets |-> {},
             stale |-> FALSE, outcome |-> "none"]
NoExec == [pc |-> "idle", entry |-> [ver |-> 0, state |-> "ACTIVE",
           tag |-> "none", ready |-> TRUE], rec |-> "none", chg |-> NoChange,
           live |-> FALSE, undo |-> FALSE]
Unfinished == sensChange.status \notin {"none", "APPLIED"}

Entries == [ver: 0 .. MaxLedgerVersion, state: EntryStates, tag: Tags,
            ready: BOOLEAN]
Changes == [ver: 0 .. MaxChangeWrites, status: Statuses, before: Tags, after: Tags,
            rec: Tags, targets: SUBSET Tagged,
            stale: BOOLEAN, outcome: {"none", "unchanged", "restored", "diverged"}]

SensitivityTypeOK ==
  /\ sensMode \in [deployed: BOOLEAN, propagation: BOOLEAN]
  /\ sensEntry \in Entries /\ sensRecord \in Tags
  /\ sensTargets \subseteq Tagged
  /\ sensChange \in Changes
  /\ \A e \in SensExecs :
       /\ sensExec[e].pc \in {"idle", "read", "begin", "out", "in", "registry",
                              "commit", "undoOut", "undoIn", "undoRecord",
                              "fail"}
       /\ sensExec[e].entry \in Entries /\ sensExec[e].rec \in Tags
       /\ sensExec[e].chg \in Changes
       /\ sensExec[e].live \in BOOLEAN /\ sensExec[e].undo \in BOOLEAN
  /\ sensPoll \in Entries \cup {NoChange}
  /\ sensFaults \in 0 .. MaxSensFaults
  /\ overtaken \in BOOLEAN /\ cut \in BOOLEAN

\* The tool was declared with a tag; a deployed MCP lists it in its Target.
SensitivityInit ==
  /\ sensMode \in [deployed: BOOLEAN, propagation: BOOLEAN]
  /\ ~ sensMode.deployed => ~ sensMode.propagation
  /\ sensEntry = [ver |-> 1, state |-> "ACTIVE", tag |-> "WRITE", ready |-> TRUE]
  /\ sensRecord = "WRITE"
  /\ sensTargets = IF sensMode.deployed THEN {"WRITE"} ELSE {}
  /\ sensChange = NoChange
  /\ sensExec = [e \in SensExecs |-> NoExec]
  /\ sensPoll = NoChange
  /\ sensFaults = 0 /\ overtaken = FALSE /\ cut = FALSE

SensFault == sensFaults < MaxSensFaults /\ sensFaults' = sensFaults + 1
Pc(e) == sensExec[e].pc
Goto(e, pc) == sensExec' = [sensExec EXCEPT ![e].pc = pc]
Leave(e) == sensExec' = [sensExec EXCEPT ![e] = NoExec]

\* Mutant of Of: a tool without a tag has a Target too.
OfAny(tag) == {tag}

Of(tag) == {tag} \cap Tagged

(***************************************************************************)
(* Requests, approvals and retries                                         *)
(***************************************************************************)
\* Every request first reads the Registry record and then the ledger.
ReadBoth(e) ==
  /\ Pc(e) = "idle"
  /\ sensExec' = [sensExec EXCEPT ![e] = [NoExec EXCEPT !.pc = "read",
       !.entry = sensEntry, !.rec = sensRecord]]
  /\ UNCHANGED <<sensMode, sensEntry, sensRecord, sensTargets, sensChange,
                 sensPoll, sensFaults, overtaken, cut>>

\* plan_change refuses a tool that is not there, _require_connected_catalog_ready
\* a connected catalog that was not observed, _require_movable_target_ledger a
\* descriptor whose Targets do not match its tags.
Plannable(e) ==
  /\ sensExec[e].entry.state # "MISSING"
  /\ sensMode.deployed \/ sensExec[e].entry.ready

IsDowngrade(before, after) == before = "WRITE" /\ after = "READ"
NextState(tag) == IF tag = "none" THEN "DISCOVERED" ELSE "ACTIVE"

\* set_sensitivity up to create_change, which refuses a second unfinished
\* change.  An upgrade whose impact cannot be observed fails at once.
Create(e, tag, known) ==
  LET entry == sensExec[e].entry
      made  == [ver |-> 1, status |-> "PENDING_APPROVAL",
                before |-> entry.tag, after |-> tag, rec |-> sensRecord,
                targets |-> sensTargets,
                stale |-> entry.ver # sensEntry.ver, outcome |-> "none"]
      apply == ~ IsDowngrade(entry.tag, tag)
  IN
  /\ Pc(e) = "read" /\ Plannable(e)
  /\ entry.tag # tag \/ entry.state # NextState(tag)
  /\ ~ Unfinished
  /\ sensChange' = IF apply /\ ~ known
                   THEN [made EXCEPT !.ver = 2, !.status = "FAILED",
                                     !.outcome = "unchanged"]
                   ELSE made
  /\ cut' = FALSE
  /\ IF apply /\ known
     THEN sensExec' = [sensExec EXCEPT ![e].pc = "begin", ![e].chg = made]
     ELSE Leave(e)
  /\ UNCHANGED <<sensMode, sensEntry, sensRecord, sensTargets, sensPoll,
                 sensFaults, overtaken>>

\* _plan_pending: the change must still start from the tag of the ledger.
Pending(e) == Plannable(e) /\ sensExec[e].entry.tag = sensChange.before

\* approve_sensitivity_change; when the impact has changed since the request,
\* the change is only refreshed and the admin has to look again.
Approve(e, sameImpact) ==
  /\ Pc(e) = "read" /\ Pending(e)
  /\ sensChange.status = "PENDING_APPROVAL"
  /\ IF sameImpact
     THEN /\ sensExec' = [sensExec EXCEPT ![e].pc = "begin",
                                          ![e].chg = sensChange]
          /\ UNCHANGED sensChange
     ELSE /\ sensChange.ver < MaxChangeWrites
          /\ sensChange' = [sensChange EXCEPT !.ver = @ + 1]
          /\ Leave(e)
  /\ UNCHANGED <<sensMode, sensEntry, sensRecord, sensTargets, sensPoll,
                 sensFaults, overtaken, cut>>

\* An executor that has taken this change and has not finished.
Working == {e \in SensExecs : Pc(e) \notin {"idle", "read", "begin"}}

\* retry_sensitivity_change: a FAILED change; one that has been APPLYING for
\* five minutes, whether its executor died or is slow; one that was approved
\* before propagation was enabled.
Retry(e) ==
  /\ Pc(e) = "read" /\ Pending(e)
  /\ \/ sensChange.status \in {"FAILED", "APPLYING"}
     \/ /\ sensChange.status = "APPROVED_PENDING_PROPAGATION"
        /\ sensMode.propagation
  /\ sensExec' = [sensExec EXCEPT ![e].pc = "begin", ![e].chg = sensChange]
  /\ UNCHANGED <<sensMode, sensEntry, sensRecord, sensTargets, sensChange,
                 sensPoll, sensFaults, overtaken, cut>>

\* The request is refused, or its caller only wanted to read.
Refused(e) ==
  /\ Pc(e) = "read"
  /\ Leave(e)
  /\ UNCHANGED <<sensMode, sensEntry, sensRecord, sensTargets, sensChange,
                 sensPoll, sensFaults, overtaken, cut>>

(***************************************************************************)
(* Applying                                                                *)
(***************************************************************************)
\* The condition of transition_change and commit_change on the change item:
\* request_version and status as this executor last read or wrote them.
Same(e) == sensChange = sensExec[e].chg

\* transition_change.
Transition(e, pc, new) ==
  /\ sensChange.ver < MaxChangeWrites
  /\ sensChange' = [new EXCEPT !.ver = @ + 1]
  /\ sensExec' = [sensExec EXCEPT ![e].pc = pc,
                                  ![e].chg = [new EXCEPT !.ver = @ + 1]]

Moves(e) == sensMode.deployed /\ sensExec[e].chg.before # sensExec[e].chg.after

\* Without propagation a deployed tool is not moved: an approved change waits,
\* a retried one is refused.
Park(e) ==
  /\ Pc(e) = "begin" /\ Same(e)
  /\ Moves(e) /\ ~ sensMode.propagation
  /\ IF sensChange.status = "PENDING_APPROVAL"
     THEN /\ sensChange.ver < MaxChangeWrites
          /\ sensChange' = [sensChange EXCEPT !.ver = @ + 1,
                            !.status = "APPROVED_PENDING_PROPAGATION",
                            !.outcome = "unchanged"]
     ELSE UNCHANGED sensChange
  /\ Leave(e)
  /\ UNCHANGED <<sensMode, sensEntry, sensRecord, sensTargets, sensPoll,
                 sensFaults, overtaken, cut>>

\* The change becomes APPLYING; what an earlier attempt recorded is kept.
Begin(e) ==
  /\ Pc(e) = "begin" /\ Same(e)
  /\ ~ Moves(e) \/ sensMode.propagation
  /\ Transition(e, IF sensMode.deployed THEN "out" ELSE "registry",
                [sensChange EXCEPT !.status = "APPLYING"])
  /\ overtaken' = (overtaken \/ Working # {})
  /\ UNCHANGED <<sensMode, sensEntry, sensRecord, sensTargets, sensPoll,
                 sensFaults, cut>>

\* Somebody else moved the change: a conflict, and nothing was done.
Conflicts(e) ==
  /\ Pc(e) = "begin" /\ ~ Same(e)
  /\ Leave(e)
  /\ UNCHANGED <<sensMode, sensEntry, sensRecord, sensTargets, sensChange,
                 sensPoll, sensFaults, overtaken, cut>>

\* Mutant of Without: the old Target keeps the tool.
WithoutKept(targets, tag) == targets

Without(targets, tag) == targets \ {tag}

\* The mover takes the tool out of the old Target, then into the new one.
TakenOut(e) == IF Moves(e) THEN Without(sensTargets, sensExec[e].chg.before)
               ELSE sensTargets
PutIn(e) == sensTargets \cup Of(sensExec[e].chg.after)

MoveOut(e) ==
  /\ Pc(e) = "out"
  /\ sensTargets' = TakenOut(e)
  /\ Goto(e, "in")
  /\ UNCHANGED <<sensMode, sensEntry, sensRecord, sensChange, sensPoll,
                 sensFaults, overtaken, cut>>

MoveIn(e) ==
  /\ Pc(e) = "in"
  /\ sensTargets' = PutIn(e)
  /\ Goto(e, "registry")
  /\ UNCHANGED <<sensMode, sensEntry, sensRecord, sensChange, sensPoll,
                 sensFaults, overtaken, cut>>

\* Nothing was moved: no descriptor, no READY deployment to work from.
NoMove(e) ==
  /\ Pc(e) = "out"
  /\ SensFault
  /\ sensExec' = [sensExec EXCEPT ![e].pc = "fail",
                                  ![e].chg.outcome = "unchanged"]
  /\ UNCHANGED <<sensMode, sensEntry, sensRecord, sensTargets, sensChange,
                 sensPoll, overtaken, cut>>

\* _update_registry_after_move writes the descriptor with the new tag.
UpdateRegistry(e) ==
  /\ Pc(e) = "registry"
  /\ sensRecord' = sensExec[e].chg.after
  /\ Goto(e, "commit")
  /\ UNCHANGED <<sensMode, sensEntry, sensTargets, sensChange, sensPoll,
                 sensFaults, overtaken, cut>>

\* A step fails, whether or not it was done, and the compensation starts: the
\* move is undone, and from the Registry update on the descriptor that the
\* executor read is put back.
StepFails(e) ==
  /\ SensFault
  /\ \/ /\ Pc(e) = "out" /\ sensTargets' \in {sensTargets, TakenOut(e)}
        /\ UNCHANGED sensRecord
     \/ /\ Pc(e) = "in" /\ sensTargets' \in {sensTargets, PutIn(e)}
        /\ UNCHANGED sensRecord
     \/ /\ Pc(e) = "registry" /\ sensRecord' \in {sensRecord, sensExec[e].chg.after}
        /\ UNCHANGED sensTargets
  /\ sensExec' = [sensExec EXCEPT ![e].undo = (Pc(e) = "registry"),
                                  ![e].live = FALSE, ![e].pc = "undoOut"]
  /\ UNCHANGED <<sensMode, sensEntry, sensChange, sensPoll, overtaken, cut>>

\* Mutant of Current: the ledger the executor read is not compared.
CurrentAssumed(e) == sensEntry.ver >= sensExec[e].entry.ver

Current(e) == sensEntry.ver = sensExec[e].entry.ver

\* commit_change: one transaction on META, the change, its history and its lock.
Commit(e) ==
  /\ Pc(e) = "commit"
  /\ Current(e) /\ Same(e)
  /\ sensExec[e].entry.ver < MaxLedgerVersion /\ sensChange.ver < MaxChangeWrites
  /\ sensEntry' = [sensExec[e].entry EXCEPT !.ver = @ + 1,
       !.tag = sensExec[e].chg.after, !.state = NextState(sensExec[e].chg.after)]
  /\ sensChange' = [sensChange EXCEPT !.ver = @ + 1, !.status = "APPLIED",
                                      !.outcome = "none"]
  /\ Leave(e)
  /\ UNCHANGED <<sensMode, sensRecord, sensTargets, sensPoll, sensFaults,
                 overtaken, cut>>

CommitRefused(e) ==
  /\ Pc(e) = "commit"
  /\ ~ Current(e) \/ ~ Same(e)
  /\ sensExec' = [sensExec EXCEPT ![e].undo = TRUE, ![e].live = FALSE,
                                  ![e].pc = "undoOut"]
  /\ UNCHANGED <<sensMode, sensEntry, sensRecord, sensTargets, sensChange,
                 sensPoll, sensFaults, overtaken, cut>>

(***************************************************************************)
(* Compensating                                                            *)
(***************************************************************************)
\* The reverse move.  For a connected MCP the mover finds no deployment to work
\* from and reports a failure, although there was nothing to move back.
UndoOut(e) ==
  /\ Pc(e) = "undoOut"
  /\ sensTargets' = IF Moves(e) THEN Without(sensTargets, sensExec[e].chg.after)
                    ELSE sensTargets
  /\ Goto(e, IF sensMode.deployed THEN "undoIn" ELSE "undoRecord")
  /\ UNCHANGED <<sensMode, sensEntry, sensRecord, sensChange, sensPoll,
                 sensFaults, overtaken, cut>>

UndoIn(e) ==
  /\ Pc(e) = "undoIn"
  /\ sensTargets' = sensTargets \cup Of(sensExec[e].chg.before)
  /\ sensExec' = [sensExec EXCEPT ![e].pc = "undoRecord", ![e].live = TRUE]
  /\ UNCHANGED <<sensMode, sensEntry, sensRecord, sensChange, sensPoll,
                 sensFaults, overtaken, cut>>

UndoFails(e) ==
  /\ Pc(e) \in {"undoOut", "undoIn"}
  /\ SensFault
  /\ Goto(e, "undoRecord")
  /\ UNCHANGED <<sensMode, sensEntry, sensRecord, sensTargets, sensChange,
                 sensPoll, overtaken, cut>>

\* The descriptor this executor read has the tag from before the change.
Evidence(e) == sensExec[e].rec = sensExec[e].chg.before

\* Mutant of Restored: the reverse move is not asked for.
RestoredRecord(e) == sensExec[e].undo => Evidence(e)

Restored(e) == sensExec[e].live /\ (sensExec[e].undo => Evidence(e))

UndoRecord(e) ==
  /\ Pc(e) = "undoRecord"
  /\ sensRecord' = IF sensExec[e].undo /\ Evidence(e) THEN sensExec[e].rec ELSE sensRecord
  /\ sensExec' = [sensExec EXCEPT ![e].pc = "fail", ![e].chg.outcome =
       IF Restored(e) THEN "restored" ELSE "diverged"]
  /\ UNCHANGED <<sensMode, sensEntry, sensTargets, sensChange, sensPoll,
                 sensFaults, overtaken, cut>>

\* The descriptor cannot be put back.
RestoreFails(e) ==
  /\ Pc(e) = "undoRecord" /\ sensExec[e].undo /\ Evidence(e)
  /\ SensFault
  /\ sensExec' = [sensExec EXCEPT ![e].pc = "fail", ![e].chg.outcome = "diverged"]
  /\ UNCHANGED <<sensMode, sensEntry, sensRecord, sensTargets, sensChange,
                 sensPoll, overtaken, cut>>

\* _record_failed_movement: when somebody else has moved the change, what this
\* executor did and restored is recorded nowhere.
Fail(e) ==
  LET held == sensChange = [sensExec[e].chg EXCEPT !.outcome = sensChange.outcome]
  IN
  /\ Pc(e) = "fail"
  /\ IF held
     THEN /\ sensChange.ver < MaxChangeWrites
          /\ sensChange' = [sensExec[e].chg EXCEPT !.ver = @ + 1,
                                                   !.status = "FAILED"]
          /\ cut' = (cut \/ sensExec[e].chg.outcome = "diverged")
     ELSE UNCHANGED <<sensChange, cut>>
  /\ Leave(e)
  /\ UNCHANGED <<sensMode, sensEntry, sensRecord, sensTargets, sensPoll,
                 sensFaults, overtaken>>

\* The process dies, or a store call raises an error nothing handles.
Die(e) ==
  /\ Pc(e) \notin {"idle", "read"}
  /\ SensFault
  /\ Leave(e)
  /\ cut' = (cut \/ e \in Working)
  /\ UNCHANGED <<sensMode, sensEntry, sensRecord, sensTargets, sensChange,
                 sensPoll, overtaken>>

(***************************************************************************)
(* The poller                                                              *)
(***************************************************************************)
PollRead ==
  /\ sensPoll = NoChange
  /\ sensPoll' = sensEntry
  /\ UNCHANGED <<sensMode, sensEntry, sensRecord, sensTargets, sensChange,
                 sensExec, sensFaults, overtaken, cut>>

\* reconcile, for the tool as the MCP lists it: in the shape that was approved,
\* in another one, or not at all.
Reconciled(entry, seen) ==
  IF seen = "absent"
  THEN [entry EXCEPT !.state = "MISSING", !.tag = "none"]
  ELSE IF entry.state = "MISSING"
  THEN [entry EXCEPT !.state = "DISCOVERED", !.tag = "none"]
  ELSE IF entry.state = "DISCOVERED" THEN entry
  ELSE [entry EXCEPT !.state = IF seen = "same" THEN "ACTIVE" ELSE "CHANGED"]

\* _resync writes what it saw over the version it read, or that it saw nothing;
\* a conflict is left to the next round.  A deployed MCP has no upstream endpoint
\* to list: its tools change with a redeployment, which is not modelled here.
PollWrite(seen) ==
  /\ sensPoll # NoChange
  /\ sensMode.deployed => seen = "failed"
  /\ IF sensPoll.ver = sensEntry.ver
     THEN /\ sensEntry.ver < MaxLedgerVersion
          /\ sensEntry' =
               [(IF seen = "failed" THEN sensPoll ELSE Reconciled(sensPoll, seen))
                 EXCEPT !.ver = @ + 1, !.ready = (seen # "failed")]
     ELSE UNCHANGED sensEntry
  /\ sensPoll' = NoChange
  /\ UNCHANGED <<sensMode, sensRecord, sensTargets, sensChange, sensExec,
                 sensFaults, overtaken, cut>>

----------------------------------------------------------------------------
SensitivityStep(e) ==
  \/ ReadBoth(e) \/ Refused(e) \/ Retry(e)
  \/ \E tag \in Tags, known \in BOOLEAN : Create(e, tag, known)
  \/ \E same \in BOOLEAN : Approve(e, same)
  \/ Park(e) \/ Begin(e) \/ Conflicts(e)
  \/ MoveOut(e) \/ MoveIn(e) \/ NoMove(e) \/ UpdateRegistry(e) \/ StepFails(e)
  \/ Commit(e) \/ CommitRefused(e)
  \/ UndoOut(e) \/ UndoIn(e) \/ UndoFails(e) \/ UndoRecord(e)
  \/ RestoreFails(e) \/ Fail(e)
  \/ Die(e)

SensitivityNext ==
  \/ \E e \in SensExecs : SensitivityStep(e)
  \/ PollRead
  \/ \E seen \in {"same", "changed", "absent", "failed"} : PollWrite(seen)

SensitivitySpec == SensitivityInit /\ [][SensitivityNext]_sensVars

----------------------------------------------------------------------------
\* While no change is open, a tool that may be called has the same tag in the
\* ledger, in the Registry descriptor and in the live Targets, whatever failed,
\* died or was observed in between, unless a change was retried while its
\* first executor was still running: that one then puts the old descriptor back
\* over the committed change, and its failure is recorded nowhere.
TagsAgree ==
  sensEntry.state \in {"ACTIVE", "CHANGED"} /\ ~ Unfinished /\ ~ overtaken =>
    /\ sensRecord = sensEntry.tag
    /\ sensMode.deployed => sensTargets = {sensEntry.tag}

\* A change that failed with everything "restored" or "unchanged" has left the
\* descriptor and the Targets as they were before it, unless an earlier attempt
\* was cut short or diverged, whose remains are not looked at again, or the
\* change was made from a ledger that had moved, which create_change does not
\* compare: its compensation then "restores" a tag that was already replaced.
FailureIsHonest ==
  /\ sensChange.status = "FAILED"
  /\ sensChange.outcome \in {"restored", "unchanged"}
  /\ ~ sensChange.stale /\ ~ overtaken /\ ~ cut
  => /\ sensRecord = sensChange.rec
     /\ sensTargets = sensChange.targets

\* A tool that disappeared is never callable again in one step: a commit that
\* started before the poller saw it go does not bring its tag back, and the tool
\* that reappears waits for an admin.
ReopenedByAdmin ==
  [][sensEntry.state = "MISSING" => sensEntry'.state \in {"MISSING", "DISCOVERED"}]_sensVars
=============================================================================
