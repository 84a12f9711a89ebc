------------------------- MODULE DriftLedgerProofs -------------------------
(***************************************************************************)
(* Proofs about the drift ledger.  How it is stored (DriftLedger), for any *)
(* tools, writers and readers and any bounds: the invariants of the store, *)
(* and that it implements LedgerRegister.  What it says of a connected     *)
(* server (ConnectedCatalog), for any tools, observers and bounds: that a  *)
(* list it calls agreed is served.                                         *)
(***************************************************************************)
EXTENDS DriftLedger, ConnectedCatalog, FiniteSetTheorems, TLAPS

-----------------------------------------------------------------------------
(* The inductive invariant.                                                *)

\* Nothing is stored under a snapshot that does not belong to its ledger.
RowsBelong == \A s \in Snapshots : rows[s] \subseteq entries[s]

\* The snapshot a writer is staging or discarding.
Owns(w) == At(w, "staging") \/ At(w, "discard")

\* Whatever names a snapshot names one that was staged, and no two writers
\* stage the same one.
NamesStaged ==
  /\ ledgerMeta.snap # 0 => entries[ledgerMeta.snap] # {}
  /\ \A w \in LedgerWriters :
       /\ Owns(w) => /\ ledgerWriter[w].new \in Snapshots
                     /\ entries[ledgerWriter[w].new] # {}
       /\ ledgerWriter[w].old # 0 => entries[ledgerWriter[w].old] # {}
       /\ \A v \in LedgerWriters :
            Owns(w) /\ Owns(v) /\ v # w => ledgerWriter[v].new # ledgerWriter[w].new

\* Until a reply was lost: a snapshot that is staged or discarded was never
\* published, and what is cleaned up is published no longer.
DoomedUnpublished ==
  ~ lostReply =>
    \A w \in LedgerWriters :
      /\ Owns(w) =>
           /\ ledgerWriter[w].new # ledgerMeta.snap
           /\ \A v \in LedgerWriters : ledgerWriter[v].old # ledgerWriter[w].new
      /\ At(w, "cleanup") => ledgerWriter[w].old # ledgerMeta.snap

PublishedWhole ==
  ~ lostReply /\ ledgerMeta.snap # 0 =>
    rows[ledgerMeta.snap] = entries[ledgerMeta.snap]

\* A reader past META has a snapshot that was committed with the version it
\* read; if that is still the version, it is still the snapshot.
HasMeta(r) == ledgerReader[r].pc \in {"query", "recheck", "whole", "incomplete"}
HasRows(r) == ledgerReader[r].pc \in {"recheck", "whole", "incomplete"}

ReaderBehind(r) ==
  HasMeta(r) => /\ ledgerReader[r].snap \in Snapshots
                /\ entries[ledgerReader[r].snap] # {}
                /\ ledgerReader[r].ver <= ledgerMeta.ver
                /\ ledgerReader[r].ver = ledgerMeta.ver =>
                     ledgerReader[r].snap = ledgerMeta.snap

\* Its rows belong to that snapshot, and are all of them while it is current.
ReaderRows(r) ==
  HasRows(r) =>
    /\ ledgerReader[r].got \subseteq entries[ledgerReader[r].snap]
    /\ ~ lostReply /\ ledgerReader[r].ver = ledgerMeta.ver =>
         ledgerReader[r].got = entries[ledgerReader[r].snap]

\* A reader that goes on has a try left.
ReaderTries(r) ==
  ledgerReader[r].pc \in {"start", "query", "recheck"} =>
    ledgerReader[r].try < ReadRetries

ReaderAnswer(r) ==
  /\ ledgerReader[r].pc = "whole" =>
       ledgerReader[r].got = entries[ledgerReader[r].snap]
  /\ ledgerReader[r].pc = "incomplete" => lostReply

ReadersSound ==
  \A r \in LedgerReaders : ReaderBehind(r) /\ ReaderRows(r) /\ ReaderTries(r) /\ ReaderAnswer(r)

LedgerInv ==
  /\ DriftLedgerTypeOK /\ RowsBelong /\ NamesStaged /\ DoomedUnpublished
  /\ PublishedWhole /\ ReadersSound

-----------------------------------------------------------------------------
(* What the steps of writers and readers preserve.                         *)

\* Initially there is nothing to be wrong.
LEMMA InvInit == DriftLedgerInit => LedgerInv
<1> SUFFICES ASSUME DriftLedgerInit PROVE LedgerInv
  OBVIOUS
<1> USE DriftLedgerAssumption DEF DriftLedgerAssumption
<1>1. DriftLedgerTypeOK
  <2>1. ledgerMeta \in [ver: Nat, snap: 0 .. MaxSnapshots]
    BY DEF DriftLedgerInit
  <2>2. /\ Idle \in [pc: {"idle", "loaded", "staging", "cleanup", "discard"},
                     ver: Nat, old: 0 .. MaxSnapshots, new: 0 .. MaxSnapshots]
        /\ Unread \in [pc: {"start", "query", "recheck", "none", "whole", "changed",
                            "incomplete"},
                       try: 0 .. ReadRetries, ver: Nat, snap: 0 .. MaxSnapshots,
                       got: SUBSET LedgerTools]
    BY DEF Idle, Unread
  <2>3. rows \in [Snapshots -> SUBSET LedgerTools] /\ entries \in [Snapshots -> SUBSET LedgerTools]
    BY DEF DriftLedgerInit
  <2>4. ledgerWriter \in [LedgerWriters ->
         [pc: {"idle", "loaded", "staging", "cleanup", "discard"},
          ver: Nat, old: 0 .. MaxSnapshots, new: 0 .. MaxSnapshots]]
    BY <2>2, Zenon DEF DriftLedgerInit
  <2>5. ledgerReader \in [LedgerReaders ->
         [pc: {"start", "query", "recheck", "none", "whole", "changed", "incomplete"},
          try: 0 .. ReadRetries, ver: Nat, snap: 0 .. MaxSnapshots,
          got: SUBSET LedgerTools]]
    BY <2>2, Zenon DEF DriftLedgerInit
  <2>6. lostReply \in BOOLEAN
    BY Zenon DEF DriftLedgerInit
  <2>7. ledgerFaults \in 0 .. MaxLedgerFaults
    BY DEF DriftLedgerInit
  <2> QED BY <2>1, <2>3, <2>4, <2>5, <2>6, <2>7 DEF DriftLedgerTypeOK
<1>2. RowsBelong /\ NamesStaged /\ DoomedUnpublished /\ PublishedWhole
  BY DEF DriftLedgerInit, RowsBelong, NamesStaged, DoomedUnpublished, PublishedWhole,
         Owns, At, Idle, Snapshots
<1>3. ReadersSound
  BY DEF DriftLedgerInit, ReadersSound, ReaderBehind, ReaderRows, ReaderTries, ReaderAnswer, HasMeta,
         HasRows, Unread
<1> QED BY <1>1, <1>2, <1>3 DEF LedgerInv

\* What readers hold stays sound while META and the ledgers staged stay.
LEMMA ReadersUndisturbed ==
  ASSUME ReadersSound, lostReply' = lostReply,
         UNCHANGED <<ledgerMeta, entries, ledgerReader>>
  PROVE  ReadersSound'
BY DEF ReadersSound, ReaderBehind, ReaderRows, ReaderTries, ReaderAnswer, HasMeta, HasRows

\* A writer that only gives up, begins to discard or is idle names no more.
LEMMA WriterRetires ==
  ASSUME LedgerInv, NEW w \in LedgerWriters, NEW me,
         \/ me = Idle
         \/ me = [Idle EXCEPT !.pc = "loaded", !.ver = ledgerMeta.ver]
         \/ Owns(w) /\ me = [ledgerWriter[w] EXCEPT !.pc = "discard"],
         ledgerWriter' = [ledgerWriter EXCEPT ![w] = me],
         UNCHANGED <<ledgerMeta, rows, entries, ledgerReader, lostReply>>,
         ledgerFaults' \in 0 .. MaxLedgerFaults
  PROVE  LedgerInv'
<1> USE DriftLedgerAssumption DEF DriftLedgerAssumption
<1> DEFINE Type == [pc: {"idle", "loaded", "staging", "cleanup", "discard"},
                    ver: Nat, old: 0 .. MaxSnapshots, new: 0 .. MaxSnapshots]
<1>1. ledgerWriter \in [LedgerWriters -> Type] /\ ledgerMeta.ver \in Nat
  BY DEF LedgerInv, DriftLedgerTypeOK
<1>2. /\ me \in Type
      /\ me.old = 0 \/ me.old = ledgerWriter[w].old
      /\ me.pc = "discard" => Owns(w) /\ me.new = ledgerWriter[w].new
      /\ me.pc \in {"idle", "loaded", "discard"}
  <2>1. CASE me = Idle BY <1>1, <2>1 DEF Idle
  <2>2. CASE me = [Idle EXCEPT !.pc = "loaded", !.ver = ledgerMeta.ver]
    <3>1. me = [pc |-> "loaded", ver |-> ledgerMeta.ver, old |-> 0, new |-> 0]
      BY <2>2 DEF Idle
    <3> QED BY <1>1, <3>1
  <2>3. CASE Owns(w) /\ me = [ledgerWriter[w] EXCEPT !.pc = "discard"]
    BY <1>1, <2>3
  <2> QED BY <2>1, <2>2, <2>3
<1>3. /\ ledgerWriter' \in [LedgerWriters -> Type]
      /\ ledgerWriter'[w] = me
      /\ \A v \in LedgerWriters : v # w => ledgerWriter'[v] = ledgerWriter[v]
  BY <1>1, <1>2
<1>4. DriftLedgerTypeOK'
  BY <1>3 DEF LedgerInv, DriftLedgerTypeOK, Snapshots
<1>5. RowsBelong' /\ PublishedWhole'
  BY DEF LedgerInv, RowsBelong, PublishedWhole
<1>6. /\ \A v \in LedgerWriters :
           Owns(v)' => Owns(v) /\ ledgerWriter'[v].new = ledgerWriter[v].new
      /\ \A v \in LedgerWriters :
           ledgerWriter'[v].old \in {0, ledgerWriter[v].old}
      /\ \A v \in LedgerWriters : At(v, "cleanup")' =>
           At(v, "cleanup") /\ ledgerWriter'[v].old = ledgerWriter[v].old
  BY <1>2, <1>3 DEF Owns, At
<1>7. NamesStaged'
  BY <1>6 DEF LedgerInv, NamesStaged
<1>8. \A v \in LedgerWriters : Owns(v) => ledgerWriter[v].new # 0
  BY DEF LedgerInv, NamesStaged, Snapshots
<1>9. DoomedUnpublished'
  BY <1>6, <1>8 DEF LedgerInv, DoomedUnpublished
<1>10. ReadersSound' BY ReadersUndisturbed DEF LedgerInv
<1> QED BY <1>4, <1>5, <1>7, <1>9, <1>10 DEF LedgerInv

\* Load, Conflict, PutFails, Deleted and GiveUp.
LEMMA RetiringSteps ==
  ASSUME LedgerInv, NEW w \in LedgerWriters,
         Load(w) \/ Conflict(w) \/ PutFails(w) \/ Deleted(w) \/ GiveUp(w)
  PROVE  LedgerInv'
<1> USE DriftLedgerAssumption DEF DriftLedgerAssumption
<1>0. ledgerFaults \in 0 .. MaxLedgerFaults BY DEF LedgerInv, DriftLedgerTypeOK
<1>1. UNCHANGED <<ledgerMeta, rows, entries, ledgerReader, lostReply>>
  BY DEF Load, Conflict, PutFails, Deleted, GiveUp
<1>2. ledgerFaults' \in 0 .. MaxLedgerFaults
  BY <1>0 DEF Load, Conflict, PutFails, Deleted, GiveUp, LedgerFault
<1>3. CASE Load(w)
  <2> DEFINE me == [Idle EXCEPT !.pc = "loaded", !.ver = ledgerMeta.ver]
  <2>1. ledgerWriter' = [ledgerWriter EXCEPT ![w] = me]
    BY <1>3 DEF Load
  <2>2. me = [Idle EXCEPT !.pc = "loaded", !.ver = ledgerMeta.ver]
    OBVIOUS
  <2> HIDE DEF me
  <2> QED BY <1>1, <1>2, <2>1, <2>2, WriterRetires
<1>4. CASE Conflict(w) \/ PutFails(w)
  <2>1. /\ ledgerWriter' = [ledgerWriter EXCEPT ![w].pc = "discard"]
        /\ Owns(w)
    BY <1>4 DEF Conflict, PutFails, Staged, Become, Owns
  <2>2. ledgerWriter' = [ledgerWriter EXCEPT ![w] =
          [ledgerWriter[w] EXCEPT !.pc = "discard"]]
    BY <2>1
  <2> QED BY <1>1, <1>2, <2>1, <2>2, WriterRetires
<1>5. CASE Deleted(w) \/ GiveUp(w)
  <2>1. ledgerWriter' = [ledgerWriter EXCEPT ![w] = Idle]
    BY <1>5 DEF Deleted, GiveUp
  <2> QED BY <1>1, <1>2, <2>1, WriterRetires
<1> QED BY <1>3, <1>4, <1>5

\* A fresh snapshot is nobody's and stands for nothing yet.
LEMMA OpenStep ==
  ASSUME LedgerInv, NEW w \in LedgerWriters, NEW T \in SUBSET LedgerTools,
         Open(w, T)
  PROVE  LedgerInv'
<1> USE DriftLedgerAssumption DEF DriftLedgerAssumption
<1> DEFINE Type == [pc: {"idle", "loaded", "staging", "cleanup", "discard"},
                    ver: Nat, old: 0 .. MaxSnapshots, new: 0 .. MaxSnapshots]
<1>1. /\ ledgerWriter \in [LedgerWriters -> Type]
      /\ ledgerMeta \in [ver: Nat, snap: 0 .. MaxSnapshots]
      /\ entries \in [Snapshots -> SUBSET LedgerTools]
      /\ rows \in [Snapshots -> SUBSET LedgerTools]
  BY DEF LedgerInv, DriftLedgerTypeOK
<1>2. PICK s \in Snapshots :
        /\ entries[s] = {} /\ T # {}
        /\ entries' = [entries EXCEPT ![s] = T]
        /\ ledgerWriter' = [ledgerWriter EXCEPT ![w] =
             [@ EXCEPT !.pc = "staging", !.old = ledgerMeta.snap, !.new = s]]
  BY DEF Open
<1>3. UNCHANGED <<ledgerMeta, rows, ledgerReader, lostReply, ledgerFaults>>
  BY DEF Open
<1>4. /\ s \in 0 .. MaxSnapshots /\ s # 0
      /\ ledgerMeta.snap \in 0 .. MaxSnapshots
  BY <1>1, <1>2 DEF Snapshots
<1>5. /\ ledgerWriter' \in [LedgerWriters -> Type]
      /\ ledgerWriter'[w].pc = "staging" /\ ledgerWriter'[w].old = ledgerMeta.snap
      /\ ledgerWriter'[w].new = s
      /\ \A v \in LedgerWriters : v # w => ledgerWriter'[v] = ledgerWriter[v]
  BY <1>1, <1>2, <1>4
<1>6. /\ entries' \in [Snapshots -> SUBSET LedgerTools]
      /\ entries'[s] = T
      /\ \A k \in Snapshots : k # s => entries'[k] = entries[k]
      /\ \A k \in Snapshots : entries[k] # {} => entries'[k] = entries[k]
  BY <1>1, <1>2
<1>7. DriftLedgerTypeOK'
  BY <1>3, <1>5, <1>6 DEF LedgerInv, DriftLedgerTypeOK, Snapshots
<1>8. RowsBelong'
  BY <1>2, <1>3, <1>6 DEF LedgerInv, RowsBelong
<1>9. /\ ledgerMeta.snap # s
      /\ \A v \in LedgerWriters : ledgerWriter[v].old # s
      /\ \A v \in LedgerWriters : Owns(v) => ledgerWriter[v].new # s
      /\ \A v \in LedgerWriters : Owns(v) => ledgerWriter[v].new \in Snapshots
  BY <1>2, <1>4 DEF LedgerInv, NamesStaged
<1>10. /\ \A v \in LedgerWriters : v # w => (Owns(v)' <=> Owns(v))
       /\ \A v \in LedgerWriters : v # w => (At(v, "cleanup")' <=> At(v, "cleanup"))
       /\ Owns(w)' /\ ~ At(w, "cleanup")'
  BY <1>5 DEF Owns, At
<1>11. /\ ledgerMeta.snap # 0 => ledgerMeta.snap \in Snapshots
       /\ \A v \in LedgerWriters : ledgerWriter[v].old # 0 =>
            ledgerWriter[v].old \in Snapshots
  BY <1>1 DEF Snapshots
<1>12. NamesStaged'
  BY <1>2, <1>3, <1>5, <1>6, <1>9, <1>10, <1>11 DEF LedgerInv, NamesStaged
<1>13. DoomedUnpublished'
  BY <1>3, <1>5, <1>9, <1>10 DEF LedgerInv, DoomedUnpublished
<1>14. PublishedWhole'
  BY <1>3, <1>6, <1>9, <1>11 DEF LedgerInv, PublishedWhole
<1>15. ReadersSound'
  BY <1>3, <1>6 DEF LedgerInv, ReadersSound, ReaderBehind, ReaderRows, ReaderTries, ReaderAnswer,
                    HasMeta, HasRows
<1> QED BY <1>7, <1>8, <1>12, <1>13, <1>14, <1>15 DEF LedgerInv

\* Rows are added to a snapshot within its ledger, and taken from a doomed one.
LEMMA RowSteps ==
  ASSUME LedgerInv, NEW w \in LedgerWriters, NEW t \in LedgerTools,
         Stage(w, t) \/ Delete(w, t)
  PROVE  LedgerInv'
<1>1. rows \in [Snapshots -> SUBSET LedgerTools]
  BY DEF LedgerInv, DriftLedgerTypeOK
<1>2. UNCHANGED <<ledgerMeta, entries, ledgerWriter, ledgerReader, lostReply, ledgerFaults>>
  BY DEF Stage, Delete
<1>3. PICK k \in Snapshots, R \in SUBSET LedgerTools :
        /\ rows' = [rows EXCEPT ![k] = R]
        /\ R \subseteq entries[k]
        /\ ~ lostReply => k # ledgerMeta.snap
  <2>1. CASE Stage(w, t)
    <3>1. /\ ledgerWriter[w].new \in Snapshots
          /\ ~ lostReply => ledgerWriter[w].new # ledgerMeta.snap
      BY <2>1 DEF LedgerInv, NamesStaged, DoomedUnpublished, Stage, Owns
    <3>2. /\ rows' = [rows EXCEPT ![ledgerWriter[w].new] =
                         rows[ledgerWriter[w].new] \cup {t}]
          /\ t \in entries[ledgerWriter[w].new]
      BY <2>1 DEF Stage
    <3>3. /\ rows[ledgerWriter[w].new] \cup {t} \subseteq entries[ledgerWriter[w].new]
          /\ rows[ledgerWriter[w].new] \cup {t} \in SUBSET LedgerTools
      BY <1>1, <3>1, <3>2 DEF LedgerInv, RowsBelong
    <3> QED BY <3>1, <3>2, <3>3
  <2>2. CASE Delete(w, t)
    <3>1. /\ Doomed(w) \in Snapshots
          /\ ~ lostReply => Doomed(w) # ledgerMeta.snap
      BY <2>2 DEF LedgerInv, NamesStaged, DoomedUnpublished, DriftLedgerTypeOK, Delete,
                  Doomed, Owns, At, Snapshots
    <3>2. rows' = [rows EXCEPT ![Doomed(w)] = rows[Doomed(w)] \ {t}]
      BY <2>2 DEF Delete
    <3>3. /\ rows[Doomed(w)] \ {t} \subseteq entries[Doomed(w)]
          /\ rows[Doomed(w)] \ {t} \in SUBSET LedgerTools
      BY <1>1, <3>1 DEF LedgerInv, RowsBelong
    <3> QED BY <3>1, <3>2, <3>3
  <2> QED BY <2>1, <2>2
<1>4. DriftLedgerTypeOK'
  BY <1>1, <1>2, <1>3 DEF LedgerInv, DriftLedgerTypeOK, Snapshots
<1>5. RowsBelong'
  BY <1>1, <1>2, <1>3 DEF LedgerInv, RowsBelong
<1>6. NamesStaged' /\ DoomedUnpublished'
  BY <1>2 DEF LedgerInv, NamesStaged, DoomedUnpublished, Owns, At
<1>7. PublishedWhole'
  <2> SUFFICES ASSUME ~ lostReply, ledgerMeta.snap # 0
               PROVE  rows'[ledgerMeta.snap] = entries[ledgerMeta.snap]
    BY <1>2 DEF PublishedWhole
  <2>1. ledgerMeta.snap \in Snapshots
    BY DEF LedgerInv, DriftLedgerTypeOK, Snapshots
  <2> QED BY <1>1, <1>3, <2>1 DEF LedgerInv, PublishedWhole
<1>8. ReadersSound'
  BY <1>2, ReadersUndisturbed DEF LedgerInv
<1> QED BY <1>4, <1>5, <1>6, <1>7, <1>8 DEF LedgerInv

\* A snapshot that is published was whole, its version is new, and no other
\* writer is staging it or cleaning it up.
LEMMA SwapSteps ==
  ASSUME LedgerInv, NEW w \in LedgerWriters, Swap(w) \/ SwapUnseen(w)
  PROVE  LedgerInv'
<1> USE DriftLedgerAssumption DEF DriftLedgerAssumption
<1> DEFINE Type == [pc: {"idle", "loaded", "staging", "cleanup", "discard"},
                    ver: Nat, old: 0 .. MaxSnapshots, new: 0 .. MaxSnapshots]
           s == ledgerWriter[w].new
<1>1. /\ ledgerWriter \in [LedgerWriters -> Type]
      /\ ledgerMeta \in [ver: Nat, snap: 0 .. MaxSnapshots]
  BY DEF LedgerInv, DriftLedgerTypeOK
<1>2. /\ At(w, "staging")
      /\ rows[s] = entries[s]
      /\ ledgerMeta.ver = ledgerWriter[w].ver
      /\ ledgerMeta' = [ver |-> ledgerWriter[w].ver + 1, snap |-> s]
      /\ UNCHANGED <<rows, entries, ledgerReader>>
  BY DEF Swap, SwapUnseen, Staged, Expected, Publish
<1>3. /\ ledgerMeta'.snap = s
      /\ ledgerMeta'.ver = ledgerMeta.ver + 1
  BY <1>1, <1>2
<1>4. PICK pc \in {"cleanup", "discard"} :
        /\ ledgerWriter' = [ledgerWriter EXCEPT ![w].pc = pc]
        /\ pc = "discard" => lostReply'
        /\ lostReply \/ pc = "discard" => lostReply'
        /\ ledgerFaults' \in 0 .. MaxLedgerFaults
  <2>1. CASE Swap(w)
    BY <2>1 DEF Swap, Become, LedgerInv, DriftLedgerTypeOK
  <2>2. CASE SwapUnseen(w)
    BY <2>2 DEF SwapUnseen, Become, LedgerFault, LedgerInv, DriftLedgerTypeOK
  <2> QED BY <2>1, <2>2
<1>5. lostReply' \in BOOLEAN
  BY DEF Swap, SwapUnseen, LedgerInv, DriftLedgerTypeOK
<1>6. /\ ledgerWriter' \in [LedgerWriters -> Type]
      /\ ledgerWriter'[w].pc = pc
      /\ ledgerWriter'[w].old = ledgerWriter[w].old
      /\ ledgerWriter'[w].new = s
      /\ \A v \in LedgerWriters : v # w => ledgerWriter'[v] = ledgerWriter[v]
  BY <1>1, <1>4
<1>7. Owns(w) /\ s \in Snapshots /\ s # 0 /\ entries[s] # {}
  BY <1>2 DEF LedgerInv, NamesStaged, Owns, Snapshots
<1>8. DriftLedgerTypeOK'
  <2>1. ledgerWriter[w].ver + 1 \in Nat /\ s \in 0 .. MaxSnapshots
    BY <1>1
  <2>2. ledgerMeta' \in [ver: Nat, snap: 0 .. MaxSnapshots]
    BY <1>2, <2>1
  <2>3. /\ rows' \in [Snapshots -> SUBSET LedgerTools]
        /\ entries' \in [Snapshots -> SUBSET LedgerTools]
        /\ ledgerReader' = ledgerReader
    BY <1>2 DEF LedgerInv, DriftLedgerTypeOK
  <2> QED BY <1>4, <1>5, <1>6, <2>2, <2>3 DEF LedgerInv, DriftLedgerTypeOK
<1>9. RowsBelong' /\ PublishedWhole'
  BY <1>2, <1>3 DEF LedgerInv, RowsBelong, PublishedWhole
<1>10. /\ \A v \in LedgerWriters : Owns(v)' => Owns(v)
       /\ \A v \in LedgerWriters : ledgerWriter'[v].new = ledgerWriter[v].new
       /\ \A v \in LedgerWriters : ledgerWriter'[v].old = ledgerWriter[v].old
       /\ \A v \in LedgerWriters : Owns(v)' /\ ~ lostReply' => v # w
       /\ \A v \in LedgerWriters : At(v, "cleanup")' => At(v, "cleanup") \/ v = w
  BY <1>4, <1>6, <1>7 DEF Owns, At
<1>11. NamesStaged'
  BY <1>2, <1>3, <1>7, <1>10 DEF LedgerInv, NamesStaged
<1>12. DoomedUnpublished'
  <2> SUFFICES ASSUME ~ lostReply', NEW v \in LedgerWriters
               PROVE  /\ Owns(v)' =>
                           /\ ledgerWriter'[v].new # ledgerMeta'.snap
                           /\ \A u \in LedgerWriters :
                                ledgerWriter'[u].old # ledgerWriter'[v].new
                      /\ At(v, "cleanup")' => ledgerWriter'[v].old # ledgerMeta'.snap
    BY DEF DoomedUnpublished
  <2>1. ~ lostReply BY <1>4
  <2>2. Owns(v)' => /\ ledgerWriter[v].new # s
                    /\ \A u \in LedgerWriters : ledgerWriter[u].old # ledgerWriter[v].new
    BY <1>7, <1>10, <2>1 DEF LedgerInv, NamesStaged, DoomedUnpublished
  <2>3. ledgerWriter[v].old # s
    BY <1>7, <2>1 DEF LedgerInv, DoomedUnpublished
  <2> QED BY <1>3, <1>10, <2>2, <2>3
<1>13. ReadersSound'
  <2> SUFFICES ASSUME NEW r \in LedgerReaders
               PROVE  (ReaderBehind(r) /\ ReaderRows(r) /\ ReaderTries(r) /\ ReaderAnswer(r))'
    BY DEF ReadersSound
  <2>1. ReaderBehind(r) /\ ReaderRows(r) /\ ReaderTries(r) /\ ReaderAnswer(r)
    BY DEF LedgerInv, ReadersSound
  <2>2. HasMeta(r)' = HasMeta(r) /\ HasRows(r)' = HasRows(r) /\ (HasRows(r) => HasMeta(r))
    BY <1>2 DEF HasMeta, HasRows
  <2>3. ledgerReader[r].ver \in Nat /\ ledgerMeta.ver \in Nat
    BY <1>1 DEF LedgerInv, DriftLedgerTypeOK
  <2>4. HasMeta(r) => /\ ledgerReader[r].ver <= ledgerMeta'.ver
                      /\ ledgerReader[r].ver # ledgerMeta'.ver
    BY <1>3, <2>1, <2>3 DEF ReaderBehind
  <2>5. ReaderBehind(r)' /\ ReaderRows(r)'
    BY <1>2, <2>1, <2>2, <2>4 DEF ReaderBehind, ReaderRows
  <2>6. ReaderTries(r)' /\ ReaderAnswer(r)'
    BY <1>2, <1>4, <2>1 DEF ReaderTries, ReaderAnswer
  <2> QED BY <2>5, <2>6
<1> QED BY <1>8, <1>9, <1>11, <1>12, <1>13 DEF LedgerInv

\* What a reader takes is a committed snapshot, and whole if it was still the
\* committed one when its rows were read.
LEMMA ReadSteps ==
  ASSUME LedgerInv, NEW r \in LedgerReaders, LedgerRead(r)
  PROVE  LedgerInv'
<1> USE DriftLedgerAssumption DEF DriftLedgerAssumption
<1> DEFINE Type == [pc: {"start", "query", "recheck", "none", "whole", "changed",
                         "incomplete"},
                    try: 0 .. ReadRetries, ver: Nat, snap: 0 .. MaxSnapshots,
                    got: SUBSET LedgerTools]
           me == ledgerReader[r]
<1>1. /\ ledgerReader \in [LedgerReaders -> Type]
      /\ ledgerMeta \in [ver: Nat, snap: 0 .. MaxSnapshots]
      /\ rows \in [Snapshots -> SUBSET LedgerTools]
      /\ entries \in [Snapshots -> SUBSET LedgerTools]
  BY DEF LedgerInv, DriftLedgerTypeOK
<1>0. /\ me \in Type
      /\ me.ver \in Nat /\ me.try \in 0 .. ReadRetries /\ me.snap \in 0 .. MaxSnapshots
      /\ me.got \in SUBSET LedgerTools
      /\ ledgerMeta.ver \in Nat /\ ledgerMeta.snap \in 0 .. MaxSnapshots
  BY <1>1
<1>2. UNCHANGED <<ledgerMeta, rows, entries, ledgerWriter, lostReply, ledgerFaults>>
  BY DEF LedgerRead, ReadMeta, Query, Recheck, Answered
<1>3. ReaderBehind(r) /\ ReaderRows(r) /\ ReaderTries(r) /\ ReaderAnswer(r)
  BY DEF LedgerInv, ReadersSound
<1>4. ledgerMeta.snap # 0 => ledgerMeta.snap \in Snapshots /\ entries[ledgerMeta.snap] # {}
  BY <1>1 DEF LedgerInv, NamesStaged, Snapshots
<1>5. PICK next \in Type :
        /\ ledgerReader' = [ledgerReader EXCEPT ![r] = next]
        /\ next.pc \in {"query", "recheck", "whole", "incomplete"} =>
             /\ next.snap \in Snapshots /\ entries[next.snap] # {}
             /\ next.ver <= ledgerMeta.ver
             /\ next.ver = ledgerMeta.ver => next.snap = ledgerMeta.snap
        /\ next.pc \in {"recheck", "whole", "incomplete"} =>
             /\ next.got \subseteq entries[next.snap]
             /\ ~ lostReply /\ next.ver = ledgerMeta.ver => next.got = entries[next.snap]
        /\ next.pc = "whole" => next.got = entries[next.snap]
        /\ next.pc = "incomplete" => lostReply
        /\ next.pc \in {"start", "query", "recheck"} => next.try < ReadRetries
  <2>1. CASE ReadMeta(r)
    <3> DEFINE next == [me EXCEPT
          !.pc = IF ledgerMeta.snap = 0 THEN "none" ELSE "query",
          !.ver = ledgerMeta.ver, !.snap = ledgerMeta.snap]
    <3>1. ledgerReader' = [ledgerReader EXCEPT ![r] = next] BY <2>1 DEF ReadMeta
    <3>2. next \in Type
      <4>1. CASE ledgerMeta.snap = 0 BY <1>0, <4>1
      <4>2. CASE ledgerMeta.snap # 0 BY <1>0, <4>2
      <4> QED BY <4>1, <4>2
    <3>3. /\ next.ver = ledgerMeta.ver /\ next.snap = ledgerMeta.snap
          /\ next.pc \in {"none", "query"}
          /\ next.pc = "query" => ledgerMeta.snap # 0
          /\ ledgerMeta.ver <= ledgerMeta.ver
          /\ next.try = me.try /\ me.try < ReadRetries
      BY <1>0, <1>3, <2>1 DEF ReadMeta, ReaderTries
    <3> HIDE DEF next
    <3> QED BY <1>4, <3>1, <3>2, <3>3
  <2>2. CASE Query(r)
    <3> DEFINE next == [me EXCEPT !.pc = "recheck", !.got = rows[me.snap]]
    <3>1. ledgerReader' = [ledgerReader EXCEPT ![r] = next] BY <2>2 DEF Query
    <3>2. /\ me.snap \in Snapshots /\ entries[me.snap] # {}
          /\ me.ver <= ledgerMeta.ver
          /\ me.ver = ledgerMeta.ver => me.snap = ledgerMeta.snap
      BY <1>3, <2>2 DEF Query, ReaderBehind, HasMeta
    <3>3. /\ next \in Type
          /\ next.ver = me.ver /\ next.snap = me.snap /\ next.pc = "recheck"
          /\ next.got = rows[me.snap]
          /\ next.try = me.try /\ me.try < ReadRetries
      <4>1. rows[me.snap] \in SUBSET LedgerTools BY <1>1, <3>2
      <4>2. me.try < ReadRetries BY <1>3, <2>2 DEF Query, ReaderTries
      <4> QED BY <1>0, <4>1, <4>2
    <3>4. /\ rows[me.snap] \subseteq entries[me.snap]
          /\ ~ lostReply /\ me.ver = ledgerMeta.ver => rows[me.snap] = entries[me.snap]
      BY <3>2 DEF LedgerInv, RowsBelong, PublishedWhole, Snapshots
    <3> HIDE DEF next
    <3> QED BY <3>1, <3>2, <3>3, <3>4
  <2>3. CASE Recheck(r)
    <3> DEFINE next == [me EXCEPT
          !.pc = IF Still(r) THEN IF Complete(r) THEN "whole" ELSE "incomplete"
                 ELSE IF me.try + 1 < ReadRetries THEN "start" ELSE "changed",
          !.try = me.try + (IF Still(r) THEN 0 ELSE 1)]
    <3>1. me.pc = "recheck" /\ ledgerReader' = [ledgerReader EXCEPT ![r] = next]
      BY <2>3 DEF Recheck
    <3>2. /\ me.snap \in Snapshots /\ entries[me.snap] # {}
          /\ me.ver <= ledgerMeta.ver
          /\ me.ver = ledgerMeta.ver => me.snap = ledgerMeta.snap
          /\ me.got \subseteq entries[me.snap]
          /\ ~ lostReply /\ me.ver = ledgerMeta.ver => me.got = entries[me.snap]
      BY <1>3, <3>1 DEF ReaderBehind, ReaderRows, HasMeta, HasRows
    <3>3. /\ me.try \in Nat /\ me.try < ReadRetries
          /\ me.try + (IF Still(r) THEN 0 ELSE 1) \in 0 .. ReadRetries
      BY <1>0, <1>3, <3>1 DEF ReaderTries
    <3>4. /\ next \in Type
          /\ next.ver = me.ver /\ next.snap = me.snap /\ next.got = me.got
          /\ next.pc = "whole" => Still(r) /\ Complete(r)
          /\ next.pc = "incomplete" => Still(r) /\ ~ Complete(r)
          /\ next.pc \in {"whole", "incomplete", "start", "changed"}
          /\ next.pc = "start" => next.try < ReadRetries
      BY <1>0, <3>3
    <3>5. IsFiniteSet(entries[me.snap])
      BY <1>1, <3>2, FS_Subset
    <3>6. Complete(r) => me.got = entries[me.snap]
      BY <3>2, <3>5, FS_Subset DEF Complete
    <3>7. Still(r) => me.ver = ledgerMeta.ver BY DEF Still
    <3>8. ~ Complete(r) => me.got # entries[me.snap] BY DEF Complete
    <3> HIDE DEF next
    <3> QED BY <3>1, <3>2, <3>4, <3>6, <3>7, <3>8
  <2>4. CASE Answered(r)
    <3>1. ledgerReader' = [ledgerReader EXCEPT ![r] = Unread] BY <2>4 DEF Answered
    <3>2. Unread \in Type /\ Unread.pc = "start" /\ Unread.try < ReadRetries
      BY DEF Unread
    <3> QED BY <3>1, <3>2
  <2> QED BY <2>1, <2>2, <2>3, <2>4 DEF LedgerRead
<1>6. /\ ledgerReader' \in [LedgerReaders -> Type]
      /\ ledgerReader'[r] = next
      /\ \A q \in LedgerReaders : q # r => ledgerReader'[q] = ledgerReader[q]
  BY <1>1, <1>5
<1>7. DriftLedgerTypeOK'
  BY <1>2, <1>6 DEF LedgerInv, DriftLedgerTypeOK, Snapshots
<1>8. RowsBelong' /\ NamesStaged' /\ DoomedUnpublished' /\ PublishedWhole'
  BY <1>2 DEF LedgerInv, RowsBelong, NamesStaged, DoomedUnpublished, PublishedWhole,
              Owns, At
<1>9. (ReaderBehind(r) /\ ReaderRows(r) /\ ReaderTries(r) /\ ReaderAnswer(r))'
  BY <1>2, <1>5, <1>6 DEF ReaderBehind, ReaderRows, ReaderTries, ReaderAnswer, HasMeta, HasRows
<1>10. \A q \in LedgerReaders : q # r =>
         (ReaderBehind(q) /\ ReaderRows(q) /\ ReaderTries(q) /\ ReaderAnswer(q))'
  BY <1>2, <1>6 DEF LedgerInv, ReadersSound, ReaderBehind, ReaderRows, ReaderTries, ReaderAnswer,
                    HasMeta, HasRows
<1> QED BY <1>7, <1>8, <1>9, <1>10 DEF LedgerInv, ReadersSound

LEMMA InvStep == LedgerInv /\ [DriftLedgerNext]_ledgerVars => LedgerInv'
<1> SUFFICES ASSUME LedgerInv, [DriftLedgerNext]_ledgerVars PROVE LedgerInv'
  OBVIOUS
<1>1. CASE UNCHANGED ledgerVars
  BY <1>1 DEF ledgerVars, LedgerInv, DriftLedgerTypeOK, RowsBelong, NamesStaged,
              DoomedUnpublished, PublishedWhole, ReadersSound, ReaderBehind, ReaderRows,
              ReaderTries, ReaderAnswer, HasMeta, HasRows, Owns, At
<1>2. ASSUME NEW w \in LedgerWriters, LedgerWrite(w) PROVE LedgerInv'
  <2>1. CASE Load(w) \/ Conflict(w) \/ PutFails(w) \/ Deleted(w) \/ GiveUp(w)
    BY <2>1, RetiringSteps
  <2>2. CASE Swap(w) \/ SwapUnseen(w) BY <2>2, SwapSteps
  <2>3. CASE \E T \in SUBSET LedgerTools : Open(w, T) BY <2>3, OpenStep
  <2>4. CASE \E t \in LedgerTools : Stage(w, t) \/ Delete(w, t) BY <2>4, RowSteps
  <2> QED BY <1>2, <2>1, <2>2, <2>3, <2>4 DEF LedgerWrite
<1>3. ASSUME NEW r \in LedgerReaders, LedgerRead(r) PROVE LedgerInv'
  BY <1>3, ReadSteps
<1> QED BY <1>1, <1>2, <1>3 DEF DriftLedgerNext

-----------------------------------------------------------------------------
(* The theorems.                                                           *)

\* The invariant holds in every reachable state of the store.
THEOREM LedgerInvariant == DriftLedgerSpec => []LedgerInv
BY InvInit, InvStep, PTL DEF DriftLedgerSpec

\* A read that is taken for whole is whole, whatever writers do meanwhile and
\* even after a lost reply.
THEOREM ReadsAreWhole == DriftLedgerSpec => []ReadsWhole
<1>1. LedgerInv => ReadsWhole
  BY DEF LedgerInv, ReadersSound, ReaderAnswer, ReadsWhole
<1> QED BY <1>1, LedgerInvariant, PTL

\* Until a reply is lost, nobody deletes a row of the committed snapshot.
THEOREM CommittedStays == DriftLedgerSpec => []CommittedKept
<1>1. LedgerInv => CommittedKept
  BY DEF LedgerInv, PublishedWhole, ReadersSound, ReaderAnswer, CommittedKept
<1> QED BY <1>1, LedgerInvariant, PTL

-----------------------------------------------------------------------------
(* DriftLedger implements LedgerRegister.                                  *)

Answers == [r \in LedgerReaders |-> AnswerOf(ledgerReader[r])]

\* The register starts without a ledger and without an answer.
LEMMA RegisterInitially == DriftLedgerInit => AsRegister!RegisterInit
<1> SUFFICES ASSUME DriftLedgerInit PROVE AsRegister!RegisterInit
  OBVIOUS
<1>1. CurrentLedger = AsRegister!Nothing
  BY DEF DriftLedgerInit, CurrentLedger, AsRegister!Nothing
<1>2. \A r \in LedgerReaders : AnswerOf(ledgerReader[r]) = AsRegister!NoAnswer
  BY DEF DriftLedgerInit, Unread, AnswerOf, AsRegister!NoAnswer, AsRegister!Nothing
<1>3. Answers = [r \in LedgerReaders |-> AsRegister!NoAnswer]
  BY <1>2 DEF Answers
<1> QED BY <1>1, <1>3 DEF AsRegister!RegisterInit, Answers

\* A write of META with the expected version replaces the ledger; every other
\* step of a writer leaves it, fresh and doomed snapshots included.
LEMMA WriterRefines ==
  ASSUME LedgerInv, NEW w \in LedgerWriters, LedgerWrite(w)
  PROVE  \/ \E T \in SUBSET LedgerTools : AsRegister!Replace(T)
         \/ UNCHANGED <<CurrentLedger, Answers>>
<1>1. UNCHANGED ledgerReader
  BY DEF LedgerWrite, Load, Swap, Conflict, SwapUnseen, Publish, PutFails, Deleted,
         GiveUp, Open, Stage, Delete
<1>2. UNCHANGED Answers BY <1>1 DEF Answers
<1>3. /\ ledgerMeta \in [ver: Nat, snap: 0 .. MaxSnapshots]
      /\ entries \in [Snapshots -> SUBSET LedgerTools]
      /\ ledgerMeta.snap # 0 => ledgerMeta.snap \in Snapshots
  BY DriftLedgerAssumption DEF LedgerInv, DriftLedgerTypeOK, Snapshots
<1>4. CASE Swap(w) \/ SwapUnseen(w)
  <2> DEFINE s == ledgerWriter[w].new
  <2>1. /\ Owns(w)
        /\ ledgerMeta.ver = ledgerWriter[w].ver
        /\ ledgerMeta' = [ver |-> ledgerWriter[w].ver + 1, snap |-> s]
        /\ entries' = entries
    BY <1>4 DEF Swap, SwapUnseen, Staged, Expected, Publish, Owns
  <2>2. s \in Snapshots /\ s # 0 /\ entries[s] # {}
    BY <2>1, DriftLedgerAssumption DEF LedgerInv, NamesStaged, Snapshots
  <2>3. entries[s] \in SUBSET LedgerTools BY <1>3, <2>2
  <2>4. CurrentLedger' = [ver |-> CurrentLedger.ver + 1, tools |-> entries[s]]
    BY <2>1, <2>2 DEF CurrentLedger
  <2>5. AsRegister!Replace(entries[s])
    BY <1>2, <2>2, <2>4 DEF AsRegister!Replace, Answers
  <2> QED BY <2>3, <2>5
<1>5. CASE \E T \in SUBSET LedgerTools : Open(w, T)
  <2>1. PICK s \in Snapshots, T \in SUBSET LedgerTools :
          entries[s] = {} /\ entries' = [entries EXCEPT ![s] = T]
    BY <1>5 DEF Open
  <2>2. UNCHANGED ledgerMeta BY <1>5 DEF Open
  <2>3. ledgerMeta.snap # 0 => entries'[ledgerMeta.snap] = entries[ledgerMeta.snap]
    BY <1>3, <2>1 DEF LedgerInv, NamesStaged
  <2> QED BY <1>2, <2>2, <2>3 DEF CurrentLedger
<1>6. CASE \/ Load(w) \/ Conflict(w) \/ PutFails(w) \/ Deleted(w) \/ GiveUp(w)
           \/ \E t \in LedgerTools : Stage(w, t) \/ Delete(w, t)
  <2>1. UNCHANGED <<ledgerMeta, entries>>
    BY <1>6 DEF Load, Conflict, PutFails, Deleted, GiveUp, Stage, Delete
  <2> QED BY <1>2, <2>1 DEF CurrentLedger
<1> QED BY <1>4, <1>5, <1>6 DEF LedgerWrite

\* A reader gives an answer when it finds META empty, or has found it where it
\* was: what it gives then is the ledger of that very moment.
LEMMA ReaderRefines ==
  ASSUME LedgerInv, NEW r \in LedgerReaders, LedgerRead(r)
  PROVE  \/ AsRegister!Give(r) \/ AsRegister!Used(r)
         \/ UNCHANGED <<CurrentLedger, Answers>>
<1> DEFINE me == ledgerReader[r]
<1>1. UNCHANGED <<ledgerMeta, rows, entries, ledgerWriter, lostReply, ledgerFaults>>
  BY DEF LedgerRead, ReadMeta, Query, Recheck, Answered
<1>2. UNCHANGED CurrentLedger BY <1>1 DEF CurrentLedger
<1>3. ledgerReader \in [LedgerReaders ->
        [pc: {"start", "query", "recheck", "none", "whole", "changed", "incomplete"},
         try: 0 .. ReadRetries, ver: Nat, snap: 0 .. MaxSnapshots,
         got: SUBSET LedgerTools]]
  BY DEF LedgerInv, DriftLedgerTypeOK
<1>4. LedgerInv' BY ReadSteps
<1>5. PICK next : ledgerReader' = [ledgerReader EXCEPT ![r] = next]
  BY DEF LedgerRead, ReadMeta, Query, Recheck, Answered
<1>6. Answers' = [Answers EXCEPT ![r] = AnswerOf(ledgerReader'[r])]
  BY <1>3, <1>5 DEF Answers, AnswerOf
<1>7. AnswerOf(ledgerReader'[r]) = AnswerOf(me) => UNCHANGED Answers
  BY <1>6 DEF Answers
<1>8. Answers[r] = AnswerOf(me) BY DEF Answers
<1>9. CASE ReadMeta(r)
  <2>1. /\ me.pc = "start"
        /\ ledgerReader'[r].pc = IF ledgerMeta.snap = 0 THEN "none" ELSE "query"
        /\ ledgerReader'[r].ver = ledgerMeta.ver
    BY <1>3, <1>9 DEF ReadMeta
  <2>2. CASE ledgerMeta.snap = 0
    <3>1. AnswerOf(ledgerReader'[r]) = [given |-> TRUE, ledger |-> CurrentLedger]
      BY <2>1, <2>2 DEF AnswerOf, CurrentLedger
    <3>2. ~ Answers[r].given BY <1>8, <2>1 DEF AnswerOf
    <3> QED BY <1>2, <1>6, <3>1, <3>2 DEF AsRegister!Give, Answers
  <2>3. CASE ledgerMeta.snap # 0
    <3>1. AnswerOf(ledgerReader'[r]) = AnswerOf(me) BY <2>1, <2>3 DEF AnswerOf
    <3> QED BY <1>2, <1>7, <3>1
  <2> QED BY <2>2, <2>3
<1>10. CASE Query(r)
  <2>1. me.pc = "query" /\ ledgerReader'[r].pc = "recheck"
    BY <1>3, <1>10 DEF Query
  <2> QED BY <1>2, <1>7, <2>1 DEF AnswerOf
<1>11. CASE Recheck(r)
  <2>1. /\ me.pc = "recheck"
        /\ ledgerReader'[r].pc \in {"start", "changed", "incomplete", "whole"}
        /\ ledgerReader'[r].pc = "whole" => Still(r)
        /\ ledgerReader'[r].ver = me.ver /\ ledgerReader'[r].snap = me.snap
        /\ ledgerReader'[r].got = me.got
    BY <1>3, <1>11 DEF Recheck
  <2>2. CASE ledgerReader'[r].pc = "whole"
    <3>1. ledgerReader'[r].got = entries'[ledgerReader'[r].snap]
      BY <1>4, <2>2 DEF LedgerInv, ReadersSound, ReaderAnswer
    <3>2. me.ver = ledgerMeta.ver /\ me.snap = ledgerMeta.snap
      BY <2>1, <2>2 DEF Still
    <3>3. ledgerMeta.snap # 0
      BY <2>1, <3>2, DriftLedgerAssumption
         DEF LedgerInv, ReadersSound, ReaderBehind, HasMeta, Snapshots
    <3>4. AnswerOf(ledgerReader'[r]) = [given |-> TRUE, ledger |-> CurrentLedger]
      BY <1>1, <2>1, <2>2, <3>1, <3>2, <3>3 DEF AnswerOf, CurrentLedger
    <3>5. ~ Answers[r].given BY <1>8, <2>1 DEF AnswerOf
    <3> QED BY <1>2, <1>6, <3>4, <3>5 DEF AsRegister!Give, Answers
  <2>3. CASE ledgerReader'[r].pc # "whole"
    <3>1. AnswerOf(ledgerReader'[r]) = AnswerOf(me) BY <2>1, <2>3 DEF AnswerOf
    <3> QED BY <1>2, <1>7, <3>1
  <2> QED BY <2>2, <2>3
<1>12. CASE Answered(r)
  <2>1. /\ me.pc \in {"none", "whole", "changed", "incomplete"}
        /\ ledgerReader'[r] = Unread
    BY <1>3, <1>12 DEF Answered
  <2>2. AnswerOf(ledgerReader'[r]) = AsRegister!NoAnswer
    BY <2>1 DEF AnswerOf, Unread, AsRegister!NoAnswer, AsRegister!Nothing
  <2>3. CASE me.pc \in {"none", "whole"}
    <3>1. Answers[r].given BY <1>8, <2>3 DEF AnswerOf
    <3> QED BY <1>2, <1>6, <2>2, <3>1 DEF AsRegister!Used, Answers
  <2>4. CASE me.pc \notin {"none", "whole"}
    <3>1. AnswerOf(me) = AsRegister!NoAnswer
      BY <2>4 DEF AnswerOf, AsRegister!NoAnswer, AsRegister!Nothing
    <3> QED BY <1>2, <1>7, <2>2, <3>1
  <2> QED BY <2>3, <2>4
<1> QED BY <1>9, <1>10, <1>11, <1>12 DEF LedgerRead

\* The rows, META and their repair by readers behave as one register: no put is
\* lost and every answer is the ledger of one instant.
THEOREM LedgerImplementsRegister == DriftLedgerSpec => LedgerAtomic
<1>1. DriftLedgerInit => AsRegister!RegisterInit BY RegisterInitially
<1>2. LedgerInv /\ [DriftLedgerNext]_ledgerVars
        => [AsRegister!RegisterNext]_<<CurrentLedger, Answers>>
  <2> SUFFICES ASSUME LedgerInv, [DriftLedgerNext]_ledgerVars
               PROVE  [AsRegister!RegisterNext]_<<CurrentLedger, Answers>>
    OBVIOUS
  <2>1. CASE UNCHANGED ledgerVars
    BY <2>1 DEF ledgerVars, CurrentLedger, Answers, AnswerOf
  <2>2. ASSUME NEW w \in LedgerWriters, LedgerWrite(w)
        PROVE  [AsRegister!RegisterNext]_<<CurrentLedger, Answers>>
    BY <2>2, WriterRefines DEF AsRegister!RegisterNext
  <2>3. ASSUME NEW r \in LedgerReaders, LedgerRead(r)
        PROVE  [AsRegister!RegisterNext]_<<CurrentLedger, Answers>>
    BY <2>3, ReaderRefines DEF AsRegister!RegisterNext
  <2> QED BY <2>1, <2>2, <2>3 DEF DriftLedgerNext
<1> QED BY <1>1, <1>2, LedgerInvariant, PTL
        DEF DriftLedgerSpec, LedgerAtomic, AsRegister!RegisterSpec, Answers

-----------------------------------------------------------------------------
(* What Agora believes of a connected server (ConnectedCatalog).           *)

Observing ==
  [pc: {"idle", "list", "put", "sync", "probe", "post", "unknown"},
   base: Ledgers, first: Ledgers, stale: BOOLEAN,
   seen: SUBSET CatalogTools, want: SUBSET CatalogTools, gone: SUBSET CatalogTools,
   at: 0 .. MaxClock, try: 0 .. SyncRetries - 1]

\* A copy that is not stale is the ledger.
CopiesCurrent ==
  \A o \in Observers :
    Step(o) # "idle" /\ ~ observer[o].stale => observer[o].base = ledger

\* The observer will put OK if its second list is the one that was asked for,
\* or has found that it is.
MayAgree(o) ==
  \/ Step(o) = "probe"
  \/ Step(o) = "post" /\ observer[o].seen = observer[o].want

\* As long as the server offers that list, so does the Target: it read the
\* server after the list was asked for, and the server did not flap.
MayAgreeIsServed ==
  ~ flapped =>
    \A o \in Observers :
      MayAgree(o) /\ observer[o].want = upstream => gateway = upstream

CatalogInv ==
  /\ ConnectedCatalogTypeOK
  /\ CopiesCurrent
  /\ MayAgreeIsServed
  /\ AgreedIsServed

-----------------------------------------------------------------------------
(* The ledger's operators.                                                 *)

\* A reconciled ledger has exactly the tools present that were listed.
LEMMA ReconcileIsSeen ==
  ASSUME NEW l \in Ledgers, NEW seen \in SUBSET CatalogTools
  PROVE  /\ Reconcile(l, seen)
              \in [CatalogTools -> {"unknown", "present", "MISSING", "RETIRED"}]
         /\ \A t \in CatalogTools : Reconcile(l, seen)[t] = "present" <=> t \in seen
BY DEF Reconcile, Ledgers

\* Retiring takes no listed tool away.
LEMMA PostSyncIsSeen ==
  ASSUME NEW o \in Observers, observer[o] \in Observing, NEW l \in Ledgers
  PROVE  /\ PostSync(o, l) \in Ledgers
         /\ Present(PostSync(o, l)) = observer[o].seen
         /\ ~ PostSync(o, l).pending => observer[o].seen = observer[o].want
<1> DEFINE me == observer[o]
           tools == Reconcile(l, me.seen)
           kept == [t \in CatalogTools |->
                      IF t \in Retired(l, me.seen, me.gone) THEN "RETIRED"
                      ELSE tools[t]]
<1>1. /\ me.seen \in SUBSET CatalogTools /\ me.want \in SUBSET CatalogTools
      /\ me.at \in 0 .. MaxClock
  BY DEF Observing
<1>2. /\ tools \in [CatalogTools -> {"unknown", "present", "MISSING", "RETIRED"}]
      /\ \A t \in CatalogTools : tools[t] = "present" <=> t \in me.seen
  BY <1>1, ReconcileIsSeen
<1>3. PostSync(o, l) = [tool |-> kept, ok |-> AsRequested(tools, me.want),
                        pending |-> ~ AsRequested(tools, me.want), at |-> me.at]
  BY DEF PostSync
<1> HIDE DEF tools
<1>4. /\ kept \in [CatalogTools -> {"unknown", "present", "MISSING", "RETIRED"}]
      /\ \A t \in CatalogTools : kept[t] = "present" <=> t \in me.seen
  BY <1>2 DEF Retired
<1> HIDE DEF kept
<1>5. AsRequested(tools, me.want) \in BOOLEAN BY DEF AsRequested
<1>6. PostSync(o, l) \in Ledgers BY <1>1, <1>3, <1>4, <1>5 DEF Ledgers
<1>7. PostSync(o, l).tool = kept BY <1>3
<1>8. Present(PostSync(o, l)) = {t \in CatalogTools : kept[t] = "present"}
  BY <1>7 DEF Present
<1>9. Present(PostSync(o, l)) = me.seen BY <1>1, <1>4, <1>8
<1>10. ~ PostSync(o, l).pending => AsRequested(tools, me.want)
  <2>1. PostSync(o, l).pending = ~ AsRequested(tools, me.want) BY <1>3
  <2> QED BY <1>5, <2>1
<1>11. {t \in CatalogTools : tools[t] = "present"} = me.seen BY <1>1, <1>2
<1>12. AsRequested(tools, me.want) => me.seen = me.want BY <1>11 DEF AsRequested
<1> QED BY <1>6, <1>9, <1>10, <1>12

-----------------------------------------------------------------------------
(* The two ways a step of an observer touches the state.                   *)

\* An observer's own step: the Target is left alone or reads the server.
LEMMA OwnStepKeeps ==
  ASSUME CatalogInv, NEW o \in Observers, NEW next \in Observing, To(o, next),
         gateway' \in {gateway, upstream},
         UNCHANGED <<upstream, ledger, flapped>>,
         next.pc # "idle" /\ ~ next.stale => next.base = ledger,
         ~ flapped /\ next.want = upstream
           /\ (next.pc = "probe" \/ (next.pc = "post" /\ next.seen = next.want))
           => gateway' = upstream,
         clock' \in 0 .. MaxClock, upstreamChanges' \in 0 .. MaxChanges,
         rereads' \in 0 .. MaxRereads, catalogFaults' \in 0 .. MaxCatalogFaults
  PROVE  CatalogInv'
<1>1. /\ upstream \subseteq CatalogTools /\ gateway \subseteq CatalogTools
      /\ ledger \in Ledgers /\ observer \in [Observers -> Observing]
      /\ flapped \in BOOLEAN
  BY DEF CatalogInv, ConnectedCatalogTypeOK, Observing
<1>2. /\ observer' \in [Observers -> Observing] /\ observer'[o] = next
      /\ \A p \in Observers : p # o => observer'[p] = observer[p]
  BY <1>1 DEF To
<1>3. ConnectedCatalogTypeOK'
  BY <1>1, <1>2 DEF ConnectedCatalogTypeOK, Observing
<1>4. CopiesCurrent'
  <2> SUFFICES ASSUME NEW p \in Observers, observer'[p].pc # "idle",
                      ~ observer'[p].stale
               PROVE  observer'[p].base = ledger
    BY DEF CopiesCurrent, Step
  <2> QED BY <1>2 DEF CatalogInv, CopiesCurrent, Step
<1>5. MayAgreeIsServed'
  <2> SUFFICES ASSUME ~ flapped, NEW p \in Observers, MayAgree(p)',
                      observer'[p].want = upstream
               PROVE  gateway' = upstream
    BY DEF MayAgreeIsServed
  <2>1. CASE p = o BY <1>2, <2>1 DEF MayAgree, Step
  <2>2. CASE p # o
    <3>1. MayAgree(p) /\ observer[p].want = upstream
      BY <1>2, <2>2 DEF MayAgree, Step
    <3>2. gateway = upstream BY <3>1 DEF CatalogInv, MayAgreeIsServed
    <3> QED BY <3>2
  <2> QED BY <2>1, <2>2
<1>6. AgreedIsServed'
  BY DEF CatalogInv, AgreedIsServed, Present
<1> QED BY <1>3, <1>4, <1>5, <1>6 DEF CatalogInv

\* A put: what is put as agreed must be what the Target offers.
LEMMA PutKeeps ==
  ASSUME CatalogInv, NEW o \in Observers, NEW new \in Ledgers,
         NEW next \in Observing, PutLedger(o, new, next),
         UNCHANGED <<upstream, gateway, flapped>>,
         next.pc = "idle" \/ next.base = new,
         next.pc \notin {"probe", "post"},
         ~ flapped /\ ~ new.pending /\ Present(new) = upstream => gateway = upstream,
         clock' \in 0 .. MaxClock, upstreamChanges' \in 0 .. MaxChanges,
         rereads' \in 0 .. MaxRereads, catalogFaults' \in 0 .. MaxCatalogFaults
  PROVE  CatalogInv'
<1>1. /\ upstream \subseteq CatalogTools /\ gateway \subseteq CatalogTools
      /\ observer \in [Observers -> Observing] /\ flapped \in BOOLEAN
  BY DEF CatalogInv, ConnectedCatalogTypeOK, Observing
<1>2. \A p \in Observers : [observer[p] EXCEPT !.stale = TRUE] \in Observing
  BY <1>1 DEF Observing
<1>3. /\ ledger' = new
      /\ observer' = [p \in Observers |->
           IF p = o THEN next ELSE [observer[p] EXCEPT !.stale = TRUE]]
  BY DEF PutLedger
<1>4. /\ observer' \in [Observers -> Observing] /\ observer'[o] = next
      /\ \A p \in Observers : p # o =>
           observer'[p] = [observer[p] EXCEPT !.stale = TRUE]
  BY <1>2, <1>3
<1>5. \A p \in Observers : p # o =>
        /\ observer'[p].stale /\ observer'[p].pc = observer[p].pc
        /\ observer'[p].seen = observer[p].seen
        /\ observer'[p].want = observer[p].want
  BY <1>1, <1>4 DEF Observing
<1>6. ConnectedCatalogTypeOK'
  BY <1>1, <1>3, <1>4 DEF ConnectedCatalogTypeOK, Observing
<1>7. CopiesCurrent'
  <2> SUFFICES ASSUME NEW p \in Observers, observer'[p].pc # "idle",
                      ~ observer'[p].stale
               PROVE  observer'[p].base = ledger'
    BY DEF CopiesCurrent, Step
  <2>1. p = o BY <1>5
  <2> QED BY <1>3, <1>4, <2>1
<1>8. MayAgreeIsServed'
  <2> SUFFICES ASSUME ~ flapped, NEW p \in Observers, MayAgree(p)',
                      observer'[p].want = upstream
               PROVE  gateway = upstream
    BY DEF MayAgreeIsServed
  <2>1. p # o BY <1>4 DEF MayAgree, Step
  <2>2. MayAgree(p) /\ observer[p].want = upstream
    BY <1>5, <2>1 DEF MayAgree, Step
  <2> QED BY <2>2 DEF CatalogInv, MayAgreeIsServed
<1>9. AgreedIsServed'
  BY <1>3 DEF AgreedIsServed, Present
<1> QED BY <1>6, <1>7, <1>8, <1>9 DEF CatalogInv

-----------------------------------------------------------------------------
(* The steps.                                                              *)

\* What an observer in progress holds.
LEMMA ObservingTyped ==
  ASSUME CatalogInv, NEW o \in Observers
  PROVE  /\ observer[o] \in Observing /\ ledger \in Ledgers
         /\ upstream \in SUBSET CatalogTools /\ gateway \in SUBSET CatalogTools
         /\ clock \in 0 .. MaxClock /\ upstreamChanges \in 0 .. MaxChanges
         /\ rereads \in 0 .. MaxRereads /\ catalogFaults \in 0 .. MaxCatalogFaults
         /\ ~ observer[o].stale /\ Step(o) # "idle" => observer[o].base = ledger
BY DEF CatalogInv, ConnectedCatalogTypeOK, Observing, CopiesCurrent

\* An observer that rests has no list and no copy that matters.
LEMMA RestingTyped == Resting \in Observing /\ Fresh \in Ledgers
<1>1. 0 \in 0 .. MaxClock /\ 0 \in 0 .. SyncRetries - 1
  BY ConnectedCatalogAssumption
<1>2. Fresh \in Ledgers BY <1>1 DEF Fresh, Ledgers
<1> QED BY <1>1, <1>2 DEF Resting, Observing

\* A fault is counted, up to the bound.
LEMMA CatalogFaultTyped ==
  ASSUME CatalogInv, CatalogFault
  PROVE  catalogFaults' \in 0 .. MaxCatalogFaults
<1>1. catalogFaults \in 0 .. MaxCatalogFaults
  BY DEF CatalogInv, ConnectedCatalogTypeOK
<1> QED BY <1>1, ConnectedCatalogAssumption DEF CatalogFault

\* Reading, listing, the Target's synchronization and the second list.
LEMMA ListingKeeps ==
  ASSUME CatalogInv, NEW o \in Observers,
         Resync(o) \/ List(o) \/ PutRefused(o) \/ Synchronize(o) \/ Probe(o)
  PROVE  CatalogInv'
<1> DEFINE me == observer[o]
<1>1. /\ me \in Observing /\ ledger \in Ledgers
      /\ upstream \in SUBSET CatalogTools /\ gateway \in SUBSET CatalogTools
      /\ clock \in 0 .. MaxClock /\ upstreamChanges \in 0 .. MaxChanges
      /\ rereads \in 0 .. MaxRereads /\ catalogFaults \in 0 .. MaxCatalogFaults
      /\ ~ me.stale /\ me.pc # "idle" => me.base = ledger
  BY ObservingTyped DEF Step
<1>2. CASE Resync(o)
  <2> DEFINE next == [Resting EXCEPT !.pc = "list", !.base = ledger, !.at = clock]
  <2>1. next \in Observing /\ next.pc = "list" /\ next.base = ledger
    BY <1>1, RestingTyped DEF Observing
  <2>2. rereads' \in 0 .. MaxRereads
    BY <1>1, <1>2, ConnectedCatalogAssumption DEF Resync
  <2>3. /\ To(o, next)
        /\ UNCHANGED <<upstream, gateway, ledger, clock, upstreamChanges,
                       catalogFaults, flapped>>
    BY <1>2 DEF Resync
  <2> HIDE DEF next
  <2> QED BY <1>1, <2>1, <2>2, <2>3, OwnStepKeeps
<1>3. CASE List(o)
  <2> DEFINE next == [me EXCEPT !.pc = "put", !.seen = upstream]
  <2>1. /\ next \in Observing /\ next.pc = "put" /\ next.base = me.base
        /\ next.stale = me.stale
    BY <1>1 DEF Observing
  <2>2. /\ me.pc = "list" /\ To(o, next)
        /\ UNCHANGED <<upstream, gateway, ledger, clock, upstreamChanges, rereads,
                       catalogFaults, flapped>>
    BY <1>3 DEF List, Step
  <2> HIDE DEF next
  <2> QED BY <1>1, <2>1, <2>2, OwnStepKeeps
<1>4. CASE PutRefused(o)
  <2>1. Resting \in Observing /\ Resting.pc = "idle" BY RestingTyped DEF Resting
  <2>2. /\ To(o, Resting)
        /\ UNCHANGED <<upstream, gateway, ledger, clock, upstreamChanges, rereads,
                       catalogFaults, flapped>>
    BY <1>4 DEF PutRefused
  <2> QED BY <1>1, <2>1, <2>2, OwnStepKeeps
<1>5. CASE Synchronize(o)
  <2> DEFINE next == [me EXCEPT !.pc = "probe"]
  <2>1. /\ next \in Observing /\ next.pc = "probe" /\ next.base = me.base
        /\ next.stale = me.stale
    BY <1>1 DEF Observing
  <2>2. /\ me.pc = "sync" /\ To(o, next) /\ gateway' = upstream
        /\ UNCHANGED <<upstream, ledger, clock, upstreamChanges, rereads,
                       catalogFaults, flapped>>
    BY <1>5 DEF Synchronize, Step
  <2> HIDE DEF next
  <2> QED BY <1>1, <2>1, <2>2, OwnStepKeeps
<1>6. CASE Probe(o)
  <2> DEFINE next == [me EXCEPT !.pc = "post", !.seen = upstream, !.at = clock,
                                !.try = 0]
  <2>1. 0 \in 0 .. SyncRetries - 1 BY ConnectedCatalogAssumption
  <2>2. /\ next \in Observing /\ next.pc = "post" /\ next.base = me.base
        /\ next.stale = me.stale /\ next.want = me.want
    BY <1>1, <2>1 DEF Observing
  <2>3. /\ me.pc = "probe" /\ To(o, next)
        /\ UNCHANGED <<upstream, gateway, ledger, clock, upstreamChanges, rereads,
                       catalogFaults, flapped>>
    BY <1>6 DEF Probe, Step
  <2>4. ~ flapped /\ me.want = upstream => gateway = upstream
    BY <2>3 DEF CatalogInv, MayAgreeIsServed, MayAgree, Step
  <2> HIDE DEF next
  <2> QED BY <1>1, <2>2, <2>3, <2>4, OwnStepKeeps
<1> QED BY <1>2, <1>3, <1>4, <1>5, <1>6

\* The first put: it calls agreed only what was agreed already.
LEMMA FirstPutKeeps ==
  ASSUME CatalogInv, NEW o \in Observers, Put(o)
  PROVE  CatalogInv'
<1> DEFINE me == observer[o]
           sync == Requires(me.base, me.seen)
           new == [tool |-> Reconcile(me.base, me.seen), ok |-> ~ sync,
                   pending |-> sync, at |-> me.at]
           next == IF sync THEN [me EXCEPT !.pc = "sync", !.base = new, !.first = new,
                                  !.want = Present(new), !.gone = Missing(new)]
                   ELSE Resting
<1>1. /\ me \in Observing
      /\ clock \in 0 .. MaxClock /\ upstreamChanges \in 0 .. MaxChanges
      /\ rereads \in 0 .. MaxRereads /\ catalogFaults \in 0 .. MaxCatalogFaults
      /\ ~ me.stale /\ me.pc # "idle" => me.base = ledger
  BY ObservingTyped DEF Step
<1>2. /\ me.pc = "put" /\ ~ me.stale
      /\ PutLedger(o, new, next)
      /\ UNCHANGED <<upstream, gateway, clock, upstreamChanges, rereads,
                     catalogFaults, flapped>>
  BY DEF Put, PutLedger, Step
<1>3. /\ me.base \in Ledgers /\ me.seen \in SUBSET CatalogTools
      /\ me.at \in 0 .. MaxClock /\ me.base = ledger
  BY <1>1, <1>2 DEF Observing
<1>4. sync \in BOOLEAN BY <1>3 DEF Requires, Ledgers
<1>5. /\ new.tool = Reconcile(me.base, me.seen) /\ new.pending = sync
      /\ new \in Ledgers
  BY <1>3, <1>4, ReconcileIsSeen DEF Ledgers
<1>6. Present(new) = me.seen
  <2>1. Present(new) = {t \in CatalogTools : Reconcile(me.base, me.seen)[t] = "present"}
    BY <1>5 DEF Present
  <2>2. \A t \in CatalogTools :
          Reconcile(me.base, me.seen)[t] = "present" <=> t \in me.seen
    BY <1>3, ReconcileIsSeen
  <2> HIDE DEF new, next
  <2> QED BY <1>3, <2>1, <2>2
<1>7. Present(new) \in SUBSET CatalogTools /\ Missing(new) \in SUBSET CatalogTools
  BY DEF Present, Missing
<1>8. ~ sync => ~ ledger.pending /\ Present(ledger) = me.seen
  BY <1>3 DEF Requires
<1>9. ~ flapped /\ ~ new.pending /\ Present(new) = upstream => gateway = upstream
  BY <1>5, <1>6, <1>8 DEF CatalogInv, AgreedIsServed
<1> HIDE DEF new, sync
<1>10. /\ next \in Observing /\ next.pc \in {"idle", "sync"}
       /\ next.pc = "idle" \/ next.base = new
  <2>1. CASE sync BY <1>1, <1>5, <1>7, <2>1 DEF Observing
  <2>2. CASE ~ sync BY <2>2, RestingTyped DEF Resting
  <2> QED BY <2>1, <2>2
<1> HIDE DEF next
<1>11. next.pc \notin {"probe", "post"} BY <1>10
<1> QED BY <1>1, <1>2, <1>5, <1>9, <1>10, <1>11, PutKeeps

\* The second put, which calls the list agreed when it was the one asked for.
LEMMA SecondPutKeeps ==
  ASSUME CatalogInv, NEW o \in Observers,
         Post(o) \/ PostAgain(o) \/ PostDropped(o)
  PROVE  CatalogInv'
<1> DEFINE me == observer[o]
<1>1. /\ me \in Observing /\ ledger \in Ledgers
      /\ clock \in 0 .. MaxClock /\ upstreamChanges \in 0 .. MaxChanges
      /\ rereads \in 0 .. MaxRereads /\ catalogFaults \in 0 .. MaxCatalogFaults
      /\ ~ me.stale /\ me.pc # "idle" => me.base = ledger
  BY ObservingTyped DEF Step
<1>2. Resting \in Observing /\ Resting.pc = "idle" BY RestingTyped DEF Resting
<1>3. me.pc = "post" BY DEF Post, PostAgain, PostDropped, Step
<1>4. ~ flapped /\ me.seen = me.want /\ me.want = upstream => gateway = upstream
  BY <1>3 DEF CatalogInv, MayAgreeIsServed, MayAgree, Step
<1>5. CASE Post(o)
  <2> DEFINE new == PostSync(o, me.base)
  <2>1. me.base \in Ledgers BY <1>1 DEF Observing
  <2>2. /\ new \in Ledgers /\ Present(new) = me.seen
        /\ ~ new.pending => me.seen = me.want
    BY <1>1, <2>1, PostSyncIsSeen
  <2>3. /\ PutLedger(o, new, Resting)
        /\ UNCHANGED <<upstream, gateway, clock, upstreamChanges, rereads,
                       catalogFaults, flapped>>
    BY <1>5 DEF Post
  <2> HIDE DEF new
  <2>4. ~ flapped /\ ~ new.pending /\ Present(new) = upstream => gateway = upstream
    BY <1>4, <2>2
  <2>5. Resting.pc \notin {"probe", "post"} BY <1>2
  <2> QED BY <1>1, <1>2, <2>2, <2>3, <2>4, <2>5, PutKeeps
<1>6. CASE PostAgain(o)
  <2> DEFINE tried == me.try + 1
             next == [me EXCEPT !.base = ledger, !.stale = FALSE,
                        !.pc = IF tried < SyncRetries THEN "post" ELSE "unknown",
                        !.first = IF tried < SyncRetries THEN @ ELSE ledger,
                        !.try = IF tried < SyncRetries THEN tried ELSE 0]
  <2>1. /\ To(o, next)
        /\ UNCHANGED <<upstream, gateway, ledger, clock, upstreamChanges, rereads,
                       catalogFaults, flapped>>
    BY <1>6 DEF PostAgain
  <2>2. /\ me.try \in 0 .. SyncRetries - 1 /\ 0 \in 0 .. SyncRetries - 1
        /\ tried < SyncRetries => tried \in 0 .. SyncRetries - 1
    BY <1>1, ConnectedCatalogAssumption DEF Observing
  <2> HIDE DEF tried
  <2>3. /\ next \in Observing /\ next.base = ledger
        /\ next.seen = me.seen /\ next.want = me.want
        /\ next.pc \in {"post", "unknown"}
    BY <1>1, <2>2 DEF Observing
  <2> HIDE DEF next
  <2>4. ~ flapped /\ next.want = upstream
          /\ (next.pc = "probe" \/ (next.pc = "post" /\ next.seen = next.want))
          => gateway' = upstream
    BY <1>4, <2>1, <2>3
  <2> QED BY <1>1, <2>1, <2>3, <2>4, OwnStepKeeps
<1>7. CASE PostDropped(o)
  <2>1. /\ To(o, Resting)
        /\ UNCHANGED <<upstream, gateway, ledger, clock, upstreamChanges, rereads,
                       catalogFaults, flapped>>
    BY <1>7 DEF PostDropped
  <2> QED BY <1>1, <1>2, <2>1, OwnStepKeeps
<1> QED BY <1>5, <1>6, <1>7

\* A failed synchronization puts its mark, or leaves that to another.
LEMMA UnknownKeeps ==
  ASSUME CatalogInv, NEW o \in Observers, PutUnknown(o) \/ UnknownAgain(o)
  PROVE  CatalogInv'
<1> DEFINE me == observer[o]
<1>1. /\ me \in Observing /\ ledger \in Ledgers
      /\ clock \in 0 .. MaxClock /\ upstreamChanges \in 0 .. MaxChanges
      /\ rereads \in 0 .. MaxRereads /\ catalogFaults \in 0 .. MaxCatalogFaults
  BY ObservingTyped
<1>2. Resting \in Observing /\ Resting.pc = "idle" BY RestingTyped DEF Resting
<1>3. CASE PutUnknown(o)
  <2> DEFINE new == [me.base EXCEPT !.ok = FALSE, !.pending = TRUE]
  <2>1. new \in Ledgers /\ new.pending BY <1>1 DEF Observing, Ledgers
  <2>2. /\ PutLedger(o, new, Resting)
        /\ UNCHANGED <<upstream, gateway, clock, upstreamChanges, rereads,
                       catalogFaults, flapped>>
    BY <1>3 DEF PutUnknown
  <2> HIDE DEF new
  <2>3. Resting.pc \notin {"probe", "post"} BY <1>2
  <2> QED BY <1>1, <1>2, <2>1, <2>2, <2>3, PutKeeps
<1>4. CASE UnknownAgain(o)
  <2> DEFINE tried == me.try + 1
             again == [me EXCEPT !.base = ledger, !.stale = FALSE, !.try = tried]
             next == IF Newer(me.first, ledger) \/ tried = SyncRetries
                     THEN Resting ELSE again
  <2>1. /\ me.pc = "unknown" /\ To(o, next)
        /\ UNCHANGED <<upstream, gateway, ledger, clock, upstreamChanges, rereads,
                       catalogFaults, flapped>>
    BY <1>4 DEF UnknownAgain, Step
  <2>2. tried = SyncRetries \/ tried \in 0 .. SyncRetries - 1
    BY <1>1, ConnectedCatalogAssumption DEF Observing
  <2> HIDE DEF tried
  <2>3. /\ tried # SyncRetries => again \in Observing
        /\ again.pc = "unknown" /\ again.base = ledger
    BY <1>1, <2>1, <2>2 DEF Observing
  <2> HIDE DEF again
  <2>4. /\ next \in Observing /\ next.pc \in {"idle", "unknown"}
        /\ next.pc = "idle" \/ next.base = ledger
    BY <1>2, <2>3
  <2> HIDE DEF next
  <2> QED BY <1>1, <2>1, <2>4, OwnStepKeeps
<1> QED BY <1>3, <1>4

\* Requests that fail and observers that die.
LEMMA CatalogFaultKeeps ==
  ASSUME CatalogInv, NEW o \in Observers,
         Unlisted(o) \/ SyncFails(o) \/ ProbeFails(o) \/ ObserverDies(o)
  PROVE  CatalogInv'
<1> DEFINE me == observer[o]
<1>1. /\ me \in Observing /\ ledger \in Ledgers
      /\ clock \in 0 .. MaxClock /\ upstreamChanges \in 0 .. MaxChanges
      /\ rereads \in 0 .. MaxRereads
      /\ ~ me.stale /\ me.pc # "idle" => me.base = ledger
  BY ObservingTyped DEF Step
<1>2. Resting \in Observing /\ Resting.pc = "idle" BY RestingTyped DEF Resting
<1>3. catalogFaults' \in 0 .. MaxCatalogFaults
  <2>1. CatalogFault BY DEF Unlisted, SyncFails, ProbeFails, ObserverDies
  <2> QED BY <2>1, CatalogFaultTyped
<1>4. CASE Unlisted(o) /\ ~ me.stale
  <2> DEFINE new == [me.base EXCEPT !.ok = FALSE]
  <2>1. /\ PutLedger(o, new, Resting) /\ me.pc = "list"
        /\ UNCHANGED <<upstream, gateway, clock, upstreamChanges, rereads, flapped>>
    BY <1>4 DEF Unlisted, Step
  <2>2. me.base = ledger BY <1>1, <1>4, <2>1
  <2>3. /\ new \in Ledgers /\ new.pending = ledger.pending
        /\ new.tool = ledger.tool
    BY <1>1, <2>2 DEF Ledgers
  <2> HIDE DEF new
  <2>4. Present(new) = Present(ledger) BY <2>3 DEF Present
  <2>5. ~ flapped /\ ~ new.pending /\ Present(new) = upstream => gateway = upstream
    BY <2>3, <2>4 DEF CatalogInv, AgreedIsServed
  <2>6. Resting.pc \notin {"probe", "post"} BY <1>2
  <2> QED BY <1>1, <1>2, <1>3, <2>1, <2>3, <2>5, <2>6, PutKeeps
<1>5. CASE (Unlisted(o) /\ me.stale) \/ ObserverDies(o)
  <2>1. /\ To(o, Resting)
        /\ UNCHANGED <<upstream, gateway, ledger, clock, upstreamChanges, rereads,
                       flapped>>
    BY <1>5 DEF Unlisted, PutLedger, ObserverDies
  <2> QED BY <1>1, <1>2, <1>3, <2>1, OwnStepKeeps
<1>6. CASE SyncFails(o) \/ ProbeFails(o)
  <2> DEFINE next == [me EXCEPT !.pc = "unknown", !.try = 0]
  <2>1. 0 \in 0 .. SyncRetries - 1 BY ConnectedCatalogAssumption
  <2>2. /\ next \in Observing /\ next.pc = "unknown" /\ next.base = me.base
        /\ next.stale = me.stale
    BY <1>1, <2>1 DEF Observing
  <2>3. /\ me.pc # "idle" /\ To(o, next) /\ gateway' \in {gateway, upstream}
        /\ UNCHANGED <<upstream, ledger, clock, upstreamChanges, rereads, flapped>>
    BY <1>6 DEF SyncFails, ProbeFails, Step
  <2> HIDE DEF next
  <2> QED BY <1>1, <1>3, <2>2, <2>3, OwnStepKeeps
<1>7. me.stale \in BOOLEAN BY <1>1 DEF Observing
<1> QED BY <1>4, <1>5, <1>6, <1>7

\* The server changes its tools: it flaps, or goes to a list nobody believes the
\* Target to have, or that the Target has.
LEMMA UpstreamKeeps ==
  ASSUME CatalogInv, UpstreamChanges
  PROVE  CatalogInv'
<1>1. /\ upstream' \subseteq CatalogTools
      /\ upstreamChanges' \in 0 .. MaxChanges
      /\ flapped' = (flapped \/ (gateway # upstream' /\ Believed(upstream')))
      /\ UNCHANGED <<gateway, ledger, observer, clock, rereads, catalogFaults>>
  BY ConnectedCatalogAssumption
     DEF UpstreamChanges, CatalogInv, ConnectedCatalogTypeOK
<1>2. flapped' \in BOOLEAN BY <1>1
<1>3. ConnectedCatalogTypeOK'
  BY <1>1, <1>2 DEF CatalogInv, ConnectedCatalogTypeOK
<1>4. CopiesCurrent' BY <1>1 DEF CatalogInv, CopiesCurrent, Step
<1>5. ~ flapped' => gateway = upstream' \/ ~ Believed(upstream') BY <1>1
<1>6. MayAgreeIsServed'
  <2> SUFFICES ASSUME ~ flapped', NEW o \in Observers, MayAgree(o)',
                      observer'[o].want = upstream'
               PROVE  gateway' = upstream'
    BY DEF MayAgreeIsServed
  <2>1. MayAgree(o) /\ observer[o].want = upstream'
    BY <1>1 DEF MayAgree, Step
  <2>2. Believed(upstream') BY <2>1 DEF Believed, MayAgree
  <2> QED BY <1>1, <1>5, <2>2
<1>7. AgreedIsServed'
  <2> SUFFICES ASSUME ~ flapped', ~ ledger'.pending, Present(ledger)' = upstream'
               PROVE  gateway' = upstream'
    BY DEF AgreedIsServed
  <2>1. ~ ledger.pending /\ Present(ledger) = upstream' BY <1>1 DEF Present
  <2>2. Believed(upstream') BY <2>1 DEF Believed
  <2> QED BY <1>1, <1>5, <2>2
<1> QED BY <1>3, <1>4, <1>6, <1>7 DEF CatalogInv

\* The clock ticks.
LEMMA TickKeeps ==
  ASSUME CatalogInv, Tick
  PROVE  CatalogInv'
<1>1. /\ clock' \in 0 .. MaxClock
      /\ UNCHANGED <<upstream, gateway, ledger, observer, upstreamChanges, rereads,
                     catalogFaults, flapped>>
  BY ConnectedCatalogAssumption DEF Tick, CatalogInv, ConnectedCatalogTypeOK
<1>2. ConnectedCatalogTypeOK'
  BY <1>1 DEF CatalogInv, ConnectedCatalogTypeOK
<1>3. CopiesCurrent' BY <1>1 DEF CatalogInv, CopiesCurrent, Step
<1>4. MayAgreeIsServed' BY <1>1 DEF CatalogInv, MayAgreeIsServed, MayAgree, Step
<1>5. AgreedIsServed' BY <1>1 DEF CatalogInv, AgreedIsServed, Present
<1> QED BY <1>2, <1>3, <1>4, <1>5 DEF CatalogInv

\* At first the ledger, the Target and the server agree.
LEMMA CatalogInitially == ConnectedCatalogInit => CatalogInv
<1> SUFFICES ASSUME ConnectedCatalogInit PROVE CatalogInv OBVIOUS
<1>1. Resting \in Observing /\ Fresh \in Ledgers BY RestingTyped
<1>2. observer \in [Observers -> Observing]
  BY <1>1 DEF ConnectedCatalogInit
<1>3. ConnectedCatalogTypeOK
  <2>1. /\ 0 \in 0 .. MaxClock /\ 0 \in 0 .. MaxChanges
        /\ 0 \in 0 .. MaxRereads /\ 0 \in 0 .. MaxCatalogFaults
    BY ConnectedCatalogAssumption
  <2>2. /\ upstream = CatalogTools /\ gateway = CatalogTools /\ ledger = Fresh
        /\ clock = 0 /\ upstreamChanges = 0 /\ rereads = 0
        /\ catalogFaults = 0 /\ flapped = FALSE
    BY DEF ConnectedCatalogInit
  <2>3. upstream \subseteq CatalogTools /\ gateway \subseteq CatalogTools BY <2>2
  <2>4. ledger \in Ledgers /\ flapped \in BOOLEAN BY <1>1, <2>2
  <2> QED BY <1>2, <2>1, <2>2, <2>3, <2>4 DEF ConnectedCatalogTypeOK, Observing
<1>4. \A o \in Observers : Step(o) = "idle"
  BY DEF ConnectedCatalogInit, Step, Resting
<1>5. CopiesCurrent BY <1>4 DEF CopiesCurrent
<1>6. MayAgreeIsServed BY <1>4 DEF MayAgreeIsServed, MayAgree
<1>7. AgreedIsServed BY DEF AgreedIsServed, ConnectedCatalogInit
<1> QED BY <1>3, <1>5, <1>6, <1>7 DEF CatalogInv

\* Copies of the ledger that are not stale are the ledger, and a list that is
\* called agreed, or may be, is what the Target offers while the server does.
THEOREM CatalogInvariant == ConnectedCatalogSpec => []CatalogInv
<1>1. CatalogInv /\ [ConnectedCatalogNext]_catalogVars => CatalogInv'
  <2> SUFFICES ASSUME CatalogInv, [ConnectedCatalogNext]_catalogVars
               PROVE  CatalogInv'
    OBVIOUS
  <2>1. CASE UNCHANGED catalogVars
    BY <2>1 DEF catalogVars, CatalogInv, ConnectedCatalogTypeOK, CopiesCurrent,
                MayAgreeIsServed, MayAgree, AgreedIsServed, Present, Step
  <2>2. ASSUME NEW o \in Observers, Observe(o) PROVE CatalogInv'
    BY <2>2, ListingKeeps, FirstPutKeeps, SecondPutKeeps, UnknownKeeps DEF Observe
  <2>3. ASSUME NEW o \in Observers,
               Unlisted(o) \/ SyncFails(o) \/ ProbeFails(o) \/ ObserverDies(o)
        PROVE  CatalogInv'
    BY <2>3, CatalogFaultKeeps
  <2>4. CASE UpstreamChanges \/ Tick BY <2>4, UpstreamKeeps, TickKeeps
  <2> QED BY <2>1, <2>2, <2>3, <2>4 DEF ConnectedCatalogNext
<1> QED BY <1>1, CatalogInitially, PTL DEF ConnectedCatalogSpec

\* Server, Target, ledger and observers keep their shape: lists of known tools,
\* states the ledger knows, tries within _POST_SYNC_LEDGER_RETRIES.
THEOREM CatalogTyped == ConnectedCatalogSpec => []ConnectedCatalogTypeOK
<1>1. CatalogInv => ConnectedCatalogTypeOK BY DEF CatalogInv
<1> QED BY <1>1, CatalogInvariant, PTL

\* Whichever observers overlap, fail and die, what the ledger says of the server
\* without a mark against it is what the Gateway Target offers, until the server
\* flaps.
THEOREM AgreedStaysServed == ConnectedCatalogSpec => []AgreedIsServed
<1>1. CatalogInv => AgreedIsServed BY DEF CatalogInv
<1> QED BY <1>1, CatalogInvariant, PTL
=============================================================================
