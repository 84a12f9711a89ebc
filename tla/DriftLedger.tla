---------------------------- MODULE DriftLedger ----------------------------
(***************************************************************************)
(* How the drift ledger of one MCP asset is stored and read.               *)
(*                                                                         *)
(* A ledger may hold more tools than a DynamoDB transaction: a writer puts *)
(* its entries one by one under a fresh snapshot id, then moves the META   *)
(* item from the version it read to the next one with one conditional      *)
(* write, and deletes the rows of the snapshot it replaced.  A writer      *)
(* whose conditional write is refused deletes its own rows instead.  put   *)
(* and commit_change do the same to META; what commit_change writes in the *)
(* same transaction is in SensitivityChange.  A reader reads META, queries *)
(* the rows of its snapshot and reads META again.                          *)
(*                                                                         *)
(* Faults: a request that fails, a conditional write that is done while    *)
(* its reply is lost, a process that dies.                                 *)
(***************************************************************************)
EXTENDS Integers, FiniteSets

CONSTANTS
  LedgerTools,     \* the tools an asset may have
  LedgerWriters,   \* calls of put or commit_change that may overlap
  LedgerReaders,
  ReadRetries,     \* _LEDGER_READ_RETRIES
  MaxSnapshots,    \* bound: snapshots ever staged
  MaxLedgerFaults  \* bound: failed requests, lost replies and deaths

ASSUME DriftLedgerAssumption ==
  /\ IsFiniteSet(LedgerTools)
  /\ ReadRetries \in Nat \ {0}
  /\ MaxSnapshots \in Nat /\ MaxLedgerFaults \in Nat

Snapshots == 1 .. MaxSnapshots

VARIABLES
  ledgerMeta,    \* META: version and snapshot id, 0 when there is none yet
  rows,          \* the rows stored under each snapshot id
  entries,       \* the ledger each snapshot stands for: {} when not staged yet
  ledgerWriter,
  ledgerReader,
  lostReply,     \* a conditional write was done and reported as failed
  ledgerFaults

ledgerVars == <<ledgerMeta, rows, entries, ledgerWriter, ledgerReader, lostReply,
                ledgerFaults>>

Idle == [pc |-> "idle", ver |-> 0, old |-> 0, new |-> 0]
Unread == [pc |-> "start", try |-> 0, ver |-> 0, snap |-> 0, got |-> {}]

DriftLedgerTypeOK ==
  /\ ledgerMeta \in [ver: Nat, snap: 0 .. MaxSnapshots]
  /\ rows \in [Snapshots -> SUBSET LedgerTools]
  /\ entries \in [Snapshots -> SUBSET LedgerTools]
  /\ ledgerWriter \in [LedgerWriters ->
       [pc: {"idle", "loaded", "staging", "cleanup", "discard"},
        ver: Nat, old: 0 .. MaxSnapshots, new: 0 .. MaxSnapshots]]
  /\ ledgerReader \in [LedgerReaders ->
       [pc: {"start", "query", "recheck", "none", "whole", "changed",
             "incomplete"},
        try: 0 .. ReadRetries, ver: Nat, snap: 0 .. MaxSnapshots,
        got: SUBSET LedgerTools]]
  /\ lostReply \in BOOLEAN
  /\ ledgerFaults \in 0 .. MaxLedgerFaults

DriftLedgerInit ==
  /\ ledgerMeta = [ver |-> 0, snap |-> 0]
  /\ rows = [s \in Snapshots |-> {}]
  /\ entries = [s \in Snapshots |-> {}]
  /\ ledgerWriter = [w \in LedgerWriters |-> Idle]
  /\ ledgerReader = [r \in LedgerReaders |-> Unread]
  /\ lostReply = FALSE
  /\ ledgerFaults = 0

LedgerFault == ledgerFaults < MaxLedgerFaults /\ ledgerFaults' = ledgerFaults + 1

At(w, pc) == ledgerWriter[w].pc = pc
Become(w, pc) == ledgerWriter' = [ledgerWriter EXCEPT ![w].pc = pc]

(***************************************************************************)
(* Writers                                                                 *)
(***************************************************************************)
\* The caller read the ledger, and with it the version it will expect.
Load(w) ==
  /\ At(w, "idle")
  /\ ledgerWriter' = [ledgerWriter EXCEPT ![w] =
       [Idle EXCEPT !.pc = "loaded", !.ver = ledgerMeta.ver]]
  /\ UNCHANGED <<ledgerMeta, rows, entries, ledgerReader, lostReply, ledgerFaults>>

\* put begins: it reads META for the snapshot it will replace and takes a
\* fresh snapshot id for the ledger T.
Open(w, T) ==
  /\ At(w, "loaded") /\ T # {}
  /\ \E s \in Snapshots :
       /\ entries[s] = {} /\ \A t \in Snapshots : t < s => entries[t] # {}
       /\ entries' = [entries EXCEPT ![s] = T]
       /\ ledgerWriter' = [ledgerWriter EXCEPT ![w] =
            [@ EXCEPT !.pc = "staging", !.old = ledgerMeta.snap, !.new = s]]
  /\ UNCHANGED <<ledgerMeta, rows, ledgerReader, lostReply, ledgerFaults>>

Stage(w, t) ==
  LET s == ledgerWriter[w].new IN
  /\ At(w, "staging")
  /\ t \in entries[s] \ rows[s]
  /\ rows' = [rows EXCEPT ![s] = @ \cup {t}]
  /\ UNCHANGED <<ledgerMeta, entries, ledgerWriter, ledgerReader, lostReply,
                 ledgerFaults>>

\* Mutant of Expected: a later version will do.
ExpectedLater(w) == ledgerMeta.ver >= ledgerWriter[w].ver

\* What the condition of the write to META asks of the stored item.
Expected(w) == ledgerMeta.ver = ledgerWriter[w].ver

Staged(w) == At(w, "staging")
             /\ rows[ledgerWriter[w].new] = entries[ledgerWriter[w].new]

Publish(w) ==
  /\ ledgerMeta' = [ver |-> ledgerWriter[w].ver + 1, snap |-> ledgerWriter[w].new]
  /\ UNCHANGED <<rows, entries, ledgerReader>>

Swap(w) ==
  /\ Staged(w) /\ Expected(w)
  /\ Publish(w)
  /\ Become(w, "cleanup")
  /\ UNCHANGED <<lostReply, ledgerFaults>>

Conflict(w) ==
  /\ Staged(w) /\ ~ Expected(w)
  /\ Become(w, "discard")
  /\ UNCHANGED <<ledgerMeta, rows, entries, ledgerReader, lostReply, ledgerFaults>>

\* The write is done, its reply is lost and put sees an exception: the client
\* gave up, or repeated the call and had its own condition refused.
SwapUnseen(w) ==
  /\ Staged(w) /\ Expected(w)
  /\ LedgerFault
  /\ Publish(w)
  /\ Become(w, "discard")
  /\ lostReply' = TRUE

\* A row or META cannot be put: the rows staged so far are discarded.
PutFails(w) ==
  /\ At(w, "staging")
  /\ LedgerFault
  /\ Become(w, "discard")
  /\ UNCHANGED <<ledgerMeta, rows, entries, ledgerReader, lostReply>>

\* The snapshot whose rows the writer deletes: the one it replaced, or its own.
Doomed(w) ==
  IF At(w, "cleanup") THEN ledgerWriter[w].old ELSE ledgerWriter[w].new

Delete(w, t) ==
  LET s == Doomed(w) IN
  /\ At(w, "cleanup") \/ At(w, "discard")
  /\ s # 0 /\ t \in rows[s]
  /\ rows' = [rows EXCEPT ![s] = @ \ {t}]
  /\ UNCHANGED <<ledgerMeta, entries, ledgerWriter, ledgerReader, lostReply,
                 ledgerFaults>>

Deleted(w) ==
  /\ At(w, "cleanup") \/ At(w, "discard")
  /\ Doomed(w) # 0 => rows[Doomed(w)] = {}
  /\ ledgerWriter' = [ledgerWriter EXCEPT ![w] = Idle]
  /\ UNCHANGED <<ledgerMeta, rows, entries, ledgerReader, lostReply, ledgerFaults>>

\* A deletion fails and is only logged, or the process dies at any point.
GiveUp(w) ==
  /\ ledgerWriter[w].pc \notin {"idle", "loaded"}
  /\ LedgerFault
  /\ ledgerWriter' = [ledgerWriter EXCEPT ![w] = Idle]
  /\ UNCHANGED <<ledgerMeta, rows, entries, ledgerReader, lostReply>>

(***************************************************************************)
(* Readers                                                                 *)
(***************************************************************************)
ReadMeta(r) ==
  /\ ledgerReader[r].pc = "start"
  /\ ledgerReader' = [ledgerReader EXCEPT ![r] =
       [@ EXCEPT !.pc = IF ledgerMeta.snap = 0 THEN "none" ELSE "query",
                 !.ver = ledgerMeta.ver, !.snap = ledgerMeta.snap]]
  /\ UNCHANGED <<ledgerMeta, rows, entries, ledgerWriter, lostReply, ledgerFaults>>

Query(r) ==
  /\ ledgerReader[r].pc = "query"
  /\ ledgerReader' = [ledgerReader EXCEPT ![r] =
       [@ EXCEPT !.pc = "recheck", !.got = rows[ledgerReader[r].snap]]]
  /\ UNCHANGED <<ledgerMeta, rows, entries, ledgerWriter, lostReply, ledgerFaults>>

\* Mutant of Still: META is not read again after the query.
StillAssumed(r) == ledgerReader[r].snap # 0

\* META did not move while the rows were read.
Still(r) == ledgerMeta.ver = ledgerReader[r].ver /\ ledgerMeta.snap = ledgerReader[r].snap

\* Mutant of Complete: any answer of the query is taken for the snapshot.
CompleteAssumed(r) == ledgerReader[r].snap # 0

\* entry_count of META is the number of rows that were queried.
Complete(r) ==
  Cardinality(ledgerReader[r].got) = Cardinality(entries[ledgerReader[r].snap])

Recheck(r) ==
  /\ ledgerReader[r].pc = "recheck"
  /\ ledgerReader' = [ledgerReader EXCEPT ![r] =
       [@ EXCEPT !.pc = IF Still(r)
                        THEN IF Complete(r) THEN "whole" ELSE "incomplete"
                        ELSE IF ledgerReader[r].try + 1 < ReadRetries THEN "start"
                             ELSE "changed",
                 !.try = ledgerReader[r].try + (IF Still(r) THEN 0 ELSE 1)]]
  /\ UNCHANGED <<ledgerMeta, rows, entries, ledgerWriter, lostReply, ledgerFaults>>

\* The answer is used and another read begins.
Answered(r) ==
  /\ ledgerReader[r].pc \in {"none", "whole", "changed", "incomplete"}
  /\ ledgerReader' = [ledgerReader EXCEPT ![r] = Unread]
  /\ UNCHANGED <<ledgerMeta, rows, entries, ledgerWriter, lostReply, ledgerFaults>>

----------------------------------------------------------------------------
LedgerWrite(w) ==
  \/ Load(w) \/ Swap(w) \/ Conflict(w) \/ SwapUnseen(w) \/ PutFails(w)
  \/ Deleted(w) \/ GiveUp(w)
  \/ \E T \in SUBSET LedgerTools : Open(w, T)
  \/ \E t \in LedgerTools : Stage(w, t) \/ Delete(w, t)

LedgerRead(r) == ReadMeta(r) \/ Query(r) \/ Recheck(r) \/ Answered(r)

DriftLedgerNext ==
  \/ \E w \in LedgerWriters : LedgerWrite(w)
  \/ \E r \in LedgerReaders : LedgerRead(r)

DriftLedgerSpec == DriftLedgerInit /\ [][DriftLedgerNext]_ledgerVars

----------------------------------------------------------------------------
\* A read that returns a ledger returns all the tools of one committed ledger,
\* whatever writers stage, publish and delete meanwhile, and even after a lost
\* reply made a writer delete the rows that META points to: get reports the
\* damage instead of a ledger with tools missing, which the drift service would
\* take for tools that disappeared.
ReadsWhole ==
  \A r \in LedgerReaders :
    ledgerReader[r].pc = "whole" =>
      ledgerReader[r].got = entries[ledgerReader[r].snap]

\* Until a conditional write was done without its reply, the rows of the
\* committed snapshot are complete and no read finds them incomplete: neither
\* the clean-up of the replaced snapshot, nor a losing writer's discard, nor a
\* death in between touches what META points to.
CommittedKept ==
  ~ lostReply =>
    /\ ledgerMeta.snap # 0 => rows[ledgerMeta.snap] = entries[ledgerMeta.snap]
    /\ \A r \in LedgerReaders : ledgerReader[r].pc # "incomplete"

\* The store behaves as one register although it is many rows: put replaces the
\* ledger of the version its caller read, so that no other put is lost, and get
\* answers with the ledger of one instant, also when writers overlap, fail, die
\* or take a put that was done for one that was not.
CurrentLedger ==
  [ver |-> ledgerMeta.ver,
   tools |-> IF ledgerMeta.snap = 0 THEN {} ELSE entries[ledgerMeta.snap]]

AnswerOf(reader) ==
  IF reader.pc \in {"none", "whole"}
  THEN [given |-> TRUE,
        ledger |-> [ver |-> reader.ver,
                    tools |-> IF reader.pc = "whole" THEN reader.got ELSE {}]]
  ELSE [given |-> FALSE, ledger |-> [ver |-> 0, tools |-> {}]]

AsRegister == INSTANCE LedgerRegister WITH
  RegisterTools <- LedgerTools, RegisterReaders <- LedgerReaders,
  current <- CurrentLedger,
  answer <- [r \in LedgerReaders |-> AnswerOf(ledgerReader[r])]

LedgerAtomic == AsRegister!RegisterSpec

=============================================================================
