------------------------ MODULE ManagedClientProofs ------------------------
(***************************************************************************)
(* An agent has one OAuth client, calls are handed it, and cleanups do not *)
(* lose it: proved of ManagedClient for any set of deployments and         *)
(* cleanups and any bounds.                                                *)
(*                                                                         *)
(* OneClient is not inductive: what keeps a call from creating a second    *)
(* client is that it alone holds the reservation (HoldersOwn) and that it  *)
(* saw no client since it did (CreatorsSeeNone).                           *)
(***************************************************************************)
EXTENDS ManagedClient, TLAPS

\* A call that may still create holds the reservation.
HoldersOwn == \A c \in ClientCallers : AboutToCreate(c) => reservation.owner = c

\* A call that found no client still would find none.
CreatorsSeeNone == \A c \in ClientCallers : Issues(c, "create") => pool = {}

\* There is one client at most.
Sole == \A x, y \in pool : x = y

\* What holds until a cleanup deletes the reservation of such a call.
Undisturbed == HoldersOwn /\ CreatorsSeeNone /\ Sole

ClientInv == ManagedClientTypeOK /\ (pulled \/ Undisturbed)

-----------------------------------------------------------------------------
(* What the helpers of the actions do to the calls and the cleanups.       *)

\* The rows that the helpers build.
LEMMA RowsTyped ==
  ASSUME ManagedClientTypeOK
  PROVE  /\ NoIssue \in IssueRow /\ NoSweep \in SweepRow /\ NoReservation \in ReservationRow
         /\ \A d \in ClientSweepers : Joined(d) \in SweepRow
         /\ \A d \in ClientSweepers : SweepTo(d, "rows") \in SweepRow
  <1>0. 0 \in ClientOrNone
    BY ManagedClientAssumption DEF ClientOrNone
  <1>1. NoIssue \in IssueRow /\ NoReservation \in ReservationRow
    BY <1>0 DEF NoIssue, NoReservation, IssueRow, ReservationRow
  <1>2. NoSweep \in SweepRow
    BY <1>0 DEF NoSweep, SweepRow
  <1>3. \A d \in ClientSweepers : sweep[d] \in SweepRow
    BY DEF ManagedClientTypeOK
  <1>4. \A d \in ClientSweepers : Joined(d) \in SweepRow
    BY <1>3 DEF Joined, SweepRow
  <1>5. \A d \in ClientSweepers : SweepTo(d, "rows") \in SweepRow
    BY <1>3 DEF SweepTo, SweepRow
  <1>6. QED
    BY <1>1, <1>2, <1>4, <1>5

\* A call that goes on changes its own row only, and joins the cleanups.
LEMMA CallStep ==
  ASSUME ManagedClientTypeOK, NEW c \in ClientCallers, NEW row \in IssueRow, CallGoes(c, row)
  PROVE  /\ issue' \in [ClientCallers -> IssueRow] /\ issue'[c] = row
         /\ \A o \in ClientCallers : o # c => issue'[o] = issue[o]
         /\ sweep' \in [ClientSweepers -> SweepRow] /\ overlapped' \in BOOLEAN
  <1>1. sweep' = [d \in ClientSweepers |-> Joined(d)] /\ issue' = [issue EXCEPT ![c] = row]
    BY DEF CallGoes
  <1>2. sweep' \in [ClientSweepers -> SweepRow]
    BY <1>1, RowsTyped
  <1>3. overlapped' \in BOOLEAN
    BY DEF CallGoes, Watch, ManagedClientTypeOK
  <1>4. QED
    BY <1>1, <1>2, <1>3 DEF ManagedClientTypeOK

\* A cleanup that goes on leaves the calls alone.
LEMMA SweepStep ==
  ASSUME ManagedClientTypeOK, NEW d \in ClientSweepers, NEW row \in SweepRow, SweepGoes(d, row)
  PROVE  issue' = issue /\ sweep' \in [ClientSweepers -> SweepRow] /\ overlapped' \in BOOLEAN
  <1>1. sweep' = [e \in ClientSweepers |-> IF e = d THEN row ELSE Joined(e)]
    BY DEF SweepGoes, SweepRows
  <1>2. sweep' \in [ClientSweepers -> SweepRow]
    BY <1>1, RowsTyped
  <1>3. overlapped' \in BOOLEAN
    BY DEF SweepGoes, Watch, ManagedClientTypeOK
  <1>4. QED
    BY <1>2, <1>3 DEF SweepGoes

\* So does one that fails.
LEMMA FailStep ==
  ASSUME ManagedClientTypeOK, NEW d \in ClientSweepers, CleanupFails(d)
  PROVE  issue' = issue /\ sweep' \in [ClientSweepers -> SweepRow] /\ overlapped' \in BOOLEAN
  BY RowsTyped, SweepStep DEF CleanupFails

\* A fault is counted within its bound.
LEMMA FaultStep ==
  ASSUME ManagedClientTypeOK, ClientFault \/ UNCHANGED clientFaults
  PROVE  clientFaults' \in 0 .. MaxClientFaults
  BY ManagedClientAssumption DEF ManagedClientTypeOK, ClientFault

LEMMA CarriedStep ==
  ASSUME ManagedClientTypeOK, NEW d \in ClientSweepers, NEW row \in SweepRow, Carried(d, row)
  PROVE  /\ issue' = issue /\ sweep' \in [ClientSweepers -> SweepRow] /\ overlapped' \in BOOLEAN
         /\ clientFaults' \in 0 .. MaxClientFaults
  BY SweepStep, FailStep, FaultStep DEF Carried

\* A reservation whose call ended keeps its shape.
LEMMA ForgottenTyped ==
  ASSUME ManagedClientTypeOK, NEW c \in ClientCallers
  PROVE  Forgotten(c) \in ReservationRow
  BY DEF ManagedClientTypeOK, Forgotten, ReservationRow

LEMMA EndStep ==
  ASSUME ManagedClientTypeOK, NEW c \in ClientCallers, CallEnds(c)
  PROVE  /\ issue' \in [ClientCallers -> IssueRow] /\ issue'[c] = NoIssue
         /\ \A o \in ClientCallers : o # c => issue'[o] = issue[o]
         /\ sweep' \in [ClientSweepers -> SweepRow] /\ overlapped' \in BOOLEAN
         /\ reservation' = Forgotten(c) /\ reservation' \in ReservationRow
  BY RowsTyped, CallStep, ForgottenTyped DEF CallEnds

-----------------------------------------------------------------------------
(* A call keeps the shape of everything.                                   *)

\* The places of a call, and the clients it may have got.
LEMMA CallRowsTyped ==
  ASSUME ManagedClientTypeOK, NEW c \in ClientCallers
  PROVE  /\ \A pc \in {"reserve", "read", "observe", "find", "create", "release", "noted",
                       "bound"} : CallAt(c, pc) \in IssueRow
         /\ \A x \in ClientOrNone : \A pc \in {"adopt", "complete"} :
              [CallAt(c, pc) EXCEPT !.got = x] \in IssueRow
         /\ \A x \in ClientOrNone : \A o \in {"created", "found", "reused"} :
              Handed(x, o) \in IssueRow
         /\ issue[c].got \in ClientOrNone /\ issue[c].origin \in {"created", "found", "reused"}
  <1>1. issue[c] \in IssueRow
    BY DEF ManagedClientTypeOK
  <1>2. QED
    BY <1>1 DEF CallAt, Handed, IssueRow

\* A client that exists is one that was created.
LEMMA PoolTyped ==
  ASSUME ManagedClientTypeOK
  PROVE  \A x \in pool : x \in ClientOrNone
  BY ManagedClientAssumption DEF ManagedClientTypeOK, ClientOrNone

\* The rows of the reservation that calls write.
LEMMA ReservedTyped ==
  ASSUME ManagedClientTypeOK
  PROVE  reservation.client \in ClientOrNone
  BY DEF ManagedClientTypeOK, ReservationRow

LEMMA FilledTyped ==
  ASSUME ManagedClientTypeOK, NEW c \in ClientCallers
  PROVE  /\ [owner |-> c, client |-> 0, deleting |-> FALSE] \in ReservationRow
         /\ [reservation EXCEPT !.client = issue[c].got] \in ReservationRow
  <1>1. reservation \in ReservationRow /\ 0 \in ClientOrNone
    BY ManagedClientAssumption DEF ManagedClientTypeOK, ClientOrNone
  <1>2. QED
    BY <1>1, CallRowsTyped DEF ReservationRow

LEMMA IssuingTyped ==
  ASSUME ManagedClientTypeOK, NEW c \in ClientCallers, Issuing(c)
  PROVE  ManagedClientTypeOK'
  <1> USE DEF ManagedClientTypeOK
  <1>1. CASE Request(c)
    BY <1>1, CallRowsTyped, CallStep DEF Request, IdentityLedgers
  <1>2. CASE ReserveClient(c)
    <2>1. clientFaults' \in 0 .. MaxClientFaults
      BY <1>2, FaultStep DEF ReserveClient
    <2>2. reservation' \in ReservationRow
      BY <1>2, FilledTyped DEF ReserveClient
    <2>3. QED
      BY <1>2, <2>1, <2>2, CallRowsTyped, CallStep DEF ReserveClient, IdentityLedgers
  <1>3. CASE ReadReservation(c)
    BY <1>3, CallRowsTyped, CallStep, EndStep, ReservedTyped
       DEF ReadReservation, IdentityLedgers
  <1>4. CASE ObserveClient(c)
    BY <1>4, CallRowsTyped, CallStep, EndStep, PoolTyped DEF ObserveClient, IdentityLedgers
  <1>5. CASE AdoptClient(c)
    BY <1>5, CallRowsTyped, CallStep, EndStep, FilledTyped DEF AdoptClient, IdentityLedgers
  <1>6. CASE FindClient(c)
    BY <1>6, CallRowsTyped, CallStep, PoolTyped DEF FindClient, IdentityLedgers
  <1>7. CASE CreateClient(c)
    <2>1. clientFaults' \in 0 .. MaxClientFaults
      BY <1>7, FaultStep DEF CreateClient
    <2>2. minted' \in ClientOrNone /\ pool' \subseteq 1 .. minted'
      <3>1. CASE minted' = minted /\ pool' = pool
        BY <3>1
      <3>2. CASE minted < MaxClients /\ minted' = minted + 1 /\ pool' = pool \cup {minted'}
        <4>1. minted \in Nat /\ MaxClients \in Nat
          BY ManagedClientAssumption DEF ClientOrNone
        <4>2. minted + 1 \in ClientOrNone /\ 1 .. minted \subseteq 1 .. (minted + 1)
          BY <3>2, <4>1 DEF ClientOrNone
        <4>3. minted + 1 \in 1 .. (minted + 1)
          BY <4>1
        <4>4. QED
          BY <3>2, <4>2, <4>3
      <3>3. QED
        BY <1>7, <3>1, <3>2 DEF CreateClient
    <2>3. CASE CallGoes(c, CallAt(c, "release"))
      BY <1>7, <2>1, <2>2, <2>3, CallRowsTyped, CallStep DEF CreateClient, IdentityLedgers
    <2>4. CASE CallGoes(c, [pc |-> "complete", got |-> minted', origin |-> "created"])
      <3>1. [pc |-> "complete", got |-> minted', origin |-> "created"] \in IssueRow
        BY <2>2 DEF IssueRow
      <3>2. QED
        BY <1>7, <2>1, <2>2, <2>4, <3>1, CallStep DEF CreateClient, IdentityLedgers
    <2>5. QED
      BY <1>7, <2>3, <2>4 DEF CreateClient
  <1>8. CASE ReleaseClient(c)
    BY <1>8, RowsTyped, CallStep, ForgottenTyped DEF ReleaseClient, IdentityLedgers
  <1>9. CASE CompleteClient(c)
    BY <1>9, CallRowsTyped, CallStep, EndStep, FilledTyped DEF CompleteClient, IdentityLedgers
  <1>10. CASE NoteClient(c)
    BY <1>10, CallRowsTyped, CallStep DEF NoteClient
  <1>11. CASE BindClient(c)
    BY <1>11, CallRowsTyped, CallStep DEF BindClient
  <1>12. CASE JobReady(c)
    BY <1>12, EndStep DEF JobReady, IdentityLedgers
  <1>13. CASE CallerDies(c)
    BY <1>13, EndStep, FaultStep DEF CallerDies, IdentityLedgers
  <1>14. QED
    BY <1>1, <1>2, <1>3, <1>4, <1>5, <1>6, <1>7, <1>8, <1>9, <1>10, <1>11, <1>12, <1>13
       DEF Issuing

-----------------------------------------------------------------------------
(* So does a cleanup.                                                      *)

\* The places of a cleanup.
LEMMA SweepRowsTyped ==
  ASSUME ManagedClientTypeOK, NEW d \in ClientSweepers
  PROVE  /\ \A pc \in {"peek", "absent", "remove", "finalize", "query", "rows", "record"} :
              SweepTo(d, pc) \in SweepRow
         /\ \A x \in ClientOrNone : [SweepTo(d, "tombstone") EXCEPT !.id = x] \in SweepRow
         /\ \A k \in SUBSET {"reservation", "binding"} :
              [SweepTo(d, "erase") EXCEPT !.keys = k] \in SweepRow
         /\ AfterClient(d) \in SweepRow
         /\ sweep[d].spare \in ClientOrNone
  <1>1. sweep[d] \in SweepRow
    BY DEF ManagedClientTypeOK
  <1>2. \A pc \in {"peek", "absent", "remove", "finalize", "query", "rows", "record"} :
          SweepTo(d, pc) \in SweepRow
    BY <1>1 DEF SweepTo, SweepRow
  <1>3. \A x \in ClientOrNone : [SweepTo(d, "tombstone") EXCEPT !.id = x] \in SweepRow
    BY <1>1 DEF SweepTo, SweepRow
  <1>4. \A k \in SUBSET {"reservation", "binding"} :
          [SweepTo(d, "erase") EXCEPT !.keys = k] \in SweepRow
    BY <1>1 DEF SweepTo, SweepRow
  <1>5. AfterClient(d) \in SweepRow
    BY <1>2, RowsTyped DEF AfterClient
  <1>6. QED
    BY <1>1, <1>2, <1>3, <1>4, <1>5 DEF SweepRow

\* The first row of a cleanup.
LEMMA BegunTyped ==
  ASSUME NEW kind \in {"undo", "client only", "purge", "orphan"}, NEW x \in ClientOrNone,
         NEW y \in ClientOrNone, NEW pc \in {"choose", "tombstone", "query"}
  PROVE  Begun(kind, pc, x, y) \in SweepRow
  BY DEF Begun, SweepRow

LEMMA SweepingTyped ==
  ASSUME ManagedClientTypeOK, NEW d \in ClientSweepers, Sweeping(d)
  PROVE  ManagedClientTypeOK'
  <1> USE DEF ManagedClientTypeOK
  <1>0. 0 \in ClientOrNone /\ ClientIds \subseteq ClientOrNone
    BY ManagedClientAssumption DEF ClientOrNone, ClientIds
  <1>1. CASE Compensate(d)
    <2>1. PICK c \in ClientCallers : /\ issue' = [issue EXCEPT ![c] = NoIssue]
                                     /\ reservation' = Forgotten(c)
      BY <1>1 DEF Compensate
    <2>2. issue' \in [ClientCallers -> IssueRow] /\ reservation' \in ReservationRow
      BY <2>1, RowsTyped, ForgottenTyped
    <2>3. PICK row \in SweepRow : sweep' = SweepRows(d, row)
      <3>1. \A o \in ClientCallers : issue[o].got \in ClientOrNone
        BY CallRowsTyped
      <3>2. QED
        BY <1>0, <1>1, <3>1, BegunTyped DEF Compensate
    <2>4. sweep' \in [ClientSweepers -> SweepRow]
      BY <2>3, RowsTyped DEF SweepRows
    <2>5. overlapped' \in BOOLEAN /\ agentRecord' = "claimed"
      BY <1>1 DEF Compensate, Watch
    <2>6. QED
      BY <1>1, <2>2, <2>4, <2>5 DEF Compensate
  <1>2. CASE Purge(d)
    BY <1>0, <1>2, BegunTyped, SweepStep DEF Purge, IdentityLedgers
  <1>3. CASE ReclaimOrphan(d)
    BY <1>0, <1>3, BegunTyped, SweepStep DEF ReclaimOrphan, IdentityLedgers
  <1>4. CASE ChooseBound(d)
    BY <1>4, SweepRowsTyped, SweepStep DEF ChooseBound, IdentityLedgers
  <1>5. CASE ChooseReserved(d)
    BY <1>5, SweepRowsTyped, ReservedTyped, SweepStep, FailStep
       DEF ChooseReserved, IdentityLedgers
  <1>6. CASE Tombstone(d)
    <2>1. [reservation EXCEPT !.deleting = TRUE] \in ReservationRow
      BY DEF ReservationRow
    <2>2. QED
      BY <1>6, <2>1, SweepRowsTyped, CarriedStep, SweepStep DEF Tombstone, IdentityLedgers
  <1>7. CASE CheckAbsent(d)
    BY <1>7, SweepRowsTyped, SweepStep, FailStep DEF CheckAbsent, IdentityLedgers
  <1>8. CASE RemoveClient(d)
    BY <1>8, SweepRowsTyped, CarriedStep DEF RemoveClient, IdentityLedgers
  <1>9. CASE Finalize(d)
    <2>1. pulled' \in BOOLEAN
      BY <1>9 DEF Finalize, Pulls
    <2>2. QED
      BY <1>9, <2>1, RowsTyped, SweepRowsTyped, CarriedStep, FailStep DEF Finalize
  <1>10. CASE QueryLedger(d)
    BY <1>10, SweepRowsTyped, SweepStep DEF QueryLedger, IdentityLedgers
  <1>11. CASE EraseLedger(d)
    <2>1. PICK keys : Erases(keys)
      BY <1>11 DEF EraseLedger
    <2>2. pulled' \in BOOLEAN
      BY <2>1 DEF Erases, Pulls
    <2>3. reservation' \in ReservationRow /\ boundClient' \in ClientOrNone
      BY <1>0, <2>1, RowsTyped DEF Erases
    <2>4. /\ issue' = issue /\ sweep' \in [ClientSweepers -> SweepRow]
          /\ overlapped' \in BOOLEAN
      <3>1. CASE CleanupFails(d)
        BY <3>1, FailStep
      <3>2. CASE SweepGoes(d, CASE sweep[d].kind = "purge"  -> SweepTo(d, "rows")
                             [] sweep[d].kind = "undo"   -> SweepTo(d, "record")
                             [] OTHER -> NoSweep)
        BY <3>2, RowsTyped, SweepRowsTyped, SweepStep
      <3>3. QED
        BY <1>11, <3>1, <3>2 DEF EraseLedger
    <2>5. clientFaults' \in 0 .. MaxClientFaults
      BY <1>11, FaultStep DEF EraseLedger
    <2>6. QED
      BY <1>11, <2>2, <2>3, <2>4, <2>5 DEF EraseLedger
  <1>12. CASE DropRows(d)
    BY <1>12, SweepRowsTyped, SweepStep DEF DropRows
  <1>13. CASE DropRecord(d)
    BY <1>13, RowsTyped, SweepStep DEF DropRecord
  <1>14. CASE SweepFails(d)
    BY <1>14, RowsTyped, SweepRowsTyped, SweepStep, FailStep, FaultStep
       DEF SweepFails, IdentityLedgers
  <1>15. QED
    BY <1>1, <1>2, <1>3, <1>4, <1>5, <1>6, <1>7, <1>8, <1>9, <1>10, <1>11, <1>12, <1>13,
       <1>14 DEF Sweeping

-----------------------------------------------------------------------------
(* One client.                                                             *)

\* A call that ends, or goes on without becoming one that may create, changes
\* nothing of who holds what.
LEMMA HeldByOthers ==
  ASSUME ManagedClientTypeOK, HoldersOwn, NEW c \in ClientCallers,
         reservation' = Forgotten(c), ~ AboutToCreate(c)',
         \A o \in ClientCallers : o # c => issue'[o] = issue[o]
  PROVE  HoldersOwn'
  <1>1. ASSUME NEW o \in ClientCallers, AboutToCreate(o)'
        PROVE  reservation'.owner = o
    <2>1. o # c /\ AboutToCreate(o)
      BY <1>1 DEF AboutToCreate, Issues
    <2>2. reservation.owner = o
      BY <2>1 DEF HoldersOwn
    <2>3. QED
      BY <2>1, <2>2 DEF Forgotten
  <1>2. QED
    BY <1>1 DEF HoldersOwn

\* The place of a call is the one its new row names.
LEMMA CallPlaces ==
  ASSUME ManagedClientTypeOK, NEW c \in ClientCallers
  PROVE  /\ \A pc : CallAt(c, pc).pc = pc
         /\ \A x, o : Handed(x, o).pc = "issued"
         /\ NoIssue.pc = "idle"
  <1>1. issue[c] \in IssueRow
    BY DEF ManagedClientTypeOK
  <1>2. QED
    BY <1>1 DEF CallAt, Handed, NoIssue, IssueRow

\* A call that goes on without becoming one that may create.
LEMMA GoesOn ==
  ASSUME ManagedClientTypeOK, Undisturbed, NEW c \in ClientCallers, NEW row \in IssueRow,
         CallGoes(c, row), row.pc \notin {"find", "create"},
         reservation'.owner = reservation.owner, pool' = pool
  PROVE  Undisturbed'
  <1>1. issue'[c] = row /\ \A o \in ClientCallers : o # c => issue'[o] = issue[o]
    BY CallStep
  <1>2. HoldersOwn' /\ CreatorsSeeNone'
    BY <1>1 DEF Undisturbed, HoldersOwn, CreatorsSeeNone, AboutToCreate, Issues
  <1>3. QED
    BY <1>2 DEF Undisturbed, Sole

\* A call that ends.
LEMMA Ends ==
  ASSUME ManagedClientTypeOK, Undisturbed, NEW c \in ClientCallers, CallEnds(c), pool' = pool
  PROVE  Undisturbed'
  <1>1. /\ issue'[c].pc = "idle" /\ reservation' = Forgotten(c)
        /\ \A o \in ClientCallers : o # c => issue'[o] = issue[o]
    BY EndStep, CallPlaces
  <1>2. HoldersOwn'
    BY <1>1, HeldByOthers DEF Undisturbed, AboutToCreate, Issues
  <1>3. CreatorsSeeNone'
    BY <1>1 DEF Undisturbed, CreatorsSeeNone, Issues
  <1>4. QED
    BY <1>2, <1>3 DEF Undisturbed, Sole

\* A deployment keeps the argument, whatever it does.
LEMMA IssuingKeeps ==
  ASSUME ManagedClientTypeOK, Undisturbed, NEW c \in ClientCallers, Issuing(c)
  PROVE  Undisturbed'
  <1>0. c \notin {"nobody", "past"}
    BY ManagedClientAssumption
  <1>1. CASE Request(c)
    BY <1>1, CallRowsTyped, CallPlaces, GoesOn DEF Request, ManagedClientTypeOK
  <1>2. CASE ReserveClient(c)
    <2>1. CASE Vacant
      <3>1. PICK pc \in {"find", "read"} : CallGoes(c, CallAt(c, pc))
        BY <1>2, <2>1 DEF ReserveClient
      <3>2. /\ issue'[c].pc = pc
            /\ \A o \in ClientCallers : o # c => issue'[o] = issue[o]
        BY <3>1, CallRowsTyped, CallPlaces, CallStep
      <3>3. reservation'.owner = c /\ pool' = pool
        BY <1>2, <2>1 DEF ReserveClient
      <3>4. \A o \in ClientCallers : ~ AboutToCreate(o)
        BY <2>1, ManagedClientAssumption DEF Vacant, Undisturbed, HoldersOwn
      <3>5. HoldersOwn' /\ CreatorsSeeNone'
        BY <3>2, <3>3, <3>4 DEF HoldersOwn, CreatorsSeeNone, AboutToCreate, Issues
      <3>6. QED
        BY <3>3, <3>5 DEF Undisturbed, Sole
    <2>2. CASE ~ Vacant
      BY <1>2, <2>2, CallRowsTyped, CallPlaces, GoesOn DEF ReserveClient
    <2>3. QED
      BY <2>1, <2>2
  <1>3. CASE ReadReservation(c)
    <2>1. CASE CallGoes(c, CallAt(c, "find")) /\ reservation.owner = c
      <3>1. /\ issue'[c].pc = "find" /\ UNCHANGED pool /\ reservation' = reservation
            /\ \A o \in ClientCallers : o # c => issue'[o] = issue[o]
        <4>1. reservation' = reservation
          BY <1>3, <2>1, <1>0, CallPlaces, CallRowsTyped, CallStep, EndStep DEF ReadReservation
        <4>2. QED
          BY <1>3, <2>1, <4>1, CallPlaces, CallRowsTyped, CallStep DEF ReadReservation
      <3>2. HoldersOwn' /\ CreatorsSeeNone'
        BY <2>1, <3>1 DEF Undisturbed, HoldersOwn, CreatorsSeeNone, AboutToCreate, Issues
      <3>3. QED
        BY <3>1, <3>2 DEF Undisturbed, Sole
    <2>2. CASE CallEnds(c)
      BY <1>3, <2>2, Ends DEF ReadReservation
    <2>3. CASE /\ UNCHANGED reservation
               /\ \/ CallGoes(c, CallAt(c, "reserve")) \/ CallGoes(c, CallAt(c, "observe"))
                  \/ CallGoes(c, Handed(reservation.client, "found"))
      BY <1>3, <2>3, ReservedTyped, CallRowsTyped, CallPlaces, GoesOn DEF ReadReservation
    <2>4. QED
      BY <1>3, <2>1, <2>2, <2>3 DEF ReadReservation
  <1>4. CASE ObserveClient(c)
    <2>1. CASE CallEnds(c)
      BY <1>4, <2>1, Ends DEF ObserveClient
    <2>2. CASE CallGoes(c, CallAt(c, "reserve")) /\ UNCHANGED reservation
      BY <1>4, <2>2, CallRowsTyped, CallPlaces, GoesOn DEF ObserveClient
    <2>3. ASSUME NEW x \in pool, CallGoes(c, [CallAt(c, "adopt") EXCEPT !.got = x]),
                 UNCHANGED reservation
          PROVE  Undisturbed'
      <3>1. /\ [CallAt(c, "adopt") EXCEPT !.got = x] \in IssueRow
            /\ [CallAt(c, "adopt") EXCEPT !.got = x].pc = "adopt"
        BY PoolTyped DEF ManagedClientTypeOK, CallAt, IssueRow
      <3>2. QED
        BY <1>4, <2>3, <3>1, GoesOn DEF ObserveClient
    <2>4. QED
      BY <1>4, <2>1, <2>2, <2>3 DEF ObserveClient
  <1>5. CASE AdoptClient(c)
    <2>1. [reservation EXCEPT !.client = issue[c].got].owner = reservation.owner
      BY DEF ManagedClientTypeOK, ReservationRow
    <2>2. QED
      BY <1>5, <2>1, CallRowsTyped, CallPlaces, GoesOn, Ends DEF AdoptClient
  <1>6. CASE FindClient(c)
    <2>1. CASE pool = {} /\ CallGoes(c, CallAt(c, "create"))
      <3>1. /\ issue'[c].pc = "create" /\ pool' = {} /\ reservation' = reservation
            /\ \A o \in ClientCallers : o # c => issue'[o] = issue[o]
        BY <1>6, <2>1, CallRowsTyped, CallPlaces, CallStep DEF FindClient
      <3>2. reservation.owner = c
        BY <1>6 DEF FindClient, Undisturbed, HoldersOwn, AboutToCreate
      <3>3. HoldersOwn' /\ CreatorsSeeNone'
        BY <3>1, <3>2 DEF Undisturbed, HoldersOwn, CreatorsSeeNone, AboutToCreate, Issues
      <3>4. QED
        BY <3>1, <3>3 DEF Undisturbed, Sole
    <2>2. CASE CallGoes(c, CallAt(c, "release"))
      BY <1>6, <2>2, CallRowsTyped, CallPlaces, GoesOn DEF FindClient
    <2>3. ASSUME NEW x \in pool, CallGoes(c, [CallAt(c, "complete") EXCEPT !.got = x])
          PROVE  Undisturbed'
      <3>1. /\ [CallAt(c, "complete") EXCEPT !.got = x] \in IssueRow
            /\ [CallAt(c, "complete") EXCEPT !.got = x].pc = "complete"
        BY PoolTyped DEF ManagedClientTypeOK, CallAt, IssueRow
      <3>2. QED
        BY <1>6, <2>3, <3>1, GoesOn DEF FindClient
    <2>4. QED
      BY <1>6, <2>1, <2>2, <2>3 DEF FindClient
  <1>7. CASE CreateClient(c)
    <2>1. /\ issue'[c].pc \notin {"find", "create"} /\ reservation' = reservation
          /\ \A o \in ClientCallers : o # c => issue'[o] = issue[o]
      <3>1. CASE CallGoes(c, CallAt(c, "release"))
        BY <1>7, <3>1, CallRowsTyped, CallPlaces, CallStep DEF CreateClient
      <3>2. CASE CallGoes(c, [pc |-> "complete", got |-> minted', origin |-> "created"])
        BY <1>7, <3>2 DEF CreateClient, CallGoes, ManagedClientTypeOK
      <3>3. QED
        BY <1>7, <3>1, <3>2 DEF CreateClient
    <2>2. \A o \in ClientCallers : AboutToCreate(o) => o = c
      BY <1>7 DEF CreateClient, Undisturbed, HoldersOwn, AboutToCreate
    <2>3. HoldersOwn' /\ CreatorsSeeNone'
      BY <2>1, <2>2 DEF HoldersOwn, CreatorsSeeNone, AboutToCreate, Issues
    <2>4. Sole'
      BY <1>7 DEF CreateClient, Undisturbed, CreatorsSeeNone, Sole
    <2>5. QED
      BY <2>3, <2>4 DEF Undisturbed
  <1>8. CASE ReleaseClient(c)
    <2>1. /\ issue'[c].pc = "idle" /\ pool' = pool
          /\ \A o \in ClientCallers : o # c => issue'[o] = issue[o]
      BY <1>8, RowsTyped, CallPlaces, CallStep DEF ReleaseClient
    <2>2. CASE reservation' = Forgotten(c)
      BY <2>1, <2>2, HeldByOthers
         DEF Undisturbed, AboutToCreate, Issues, CreatorsSeeNone, Sole
    <2>3. CASE reservation.owner = c
      <3>1. \A o \in ClientCallers : o # c => ~ AboutToCreate(o)
        BY <2>3 DEF Undisturbed, HoldersOwn
      <3>2. HoldersOwn' /\ CreatorsSeeNone'
        BY <2>1, <3>1 DEF HoldersOwn, CreatorsSeeNone, AboutToCreate, Issues
      <3>3. QED
        BY <2>1, <3>2 DEF Undisturbed, Sole
    <2>4. QED
      BY <1>8, <2>2, <2>3 DEF ReleaseClient
  <1>9. CASE CompleteClient(c)
    <2>1. [reservation EXCEPT !.client = issue[c].got].owner = reservation.owner
      BY DEF ManagedClientTypeOK, ReservationRow
    <2>2. QED
      BY <1>9, <2>1, CallRowsTyped, CallPlaces, GoesOn, Ends DEF CompleteClient
  <1>10. CASE NoteClient(c)
    BY <1>10, CallRowsTyped, CallPlaces, GoesOn DEF NoteClient
  <1>11. CASE BindClient(c)
    BY <1>11, CallRowsTyped, CallPlaces, GoesOn DEF BindClient
  <1>12. CASE JobReady(c)
    BY <1>12, Ends DEF JobReady
  <1>13. CASE CallerDies(c)
    BY <1>13, Ends DEF CallerDies
  <1>14. QED
    BY <1>1, <1>2, <1>3, <1>4, <1>5, <1>6, <1>7, <1>8, <1>9, <1>10, <1>11, <1>12, <1>13
       DEF Issuing

\* A cleanup that leaves the reservation with its owner.
LEMMA Leaves ==
  ASSUME Undisturbed, issue' = issue, reservation'.owner = reservation.owner,
         pool' \subseteq pool
  PROVE  Undisturbed'
  BY DEF Undisturbed, HoldersOwn, CreatorsSeeNone, Sole, AboutToCreate, Issues

\* A cleanup that may delete it, and then says so.
LEMMA Takes ==
  ASSUME Undisturbed, issue' = issue, Pulls, pool' = pool
  PROVE  pulled' \/ Undisturbed'
  BY DEF Pulls, Undisturbed, HoldersOwn, CreatorsSeeNone, Sole, AboutToCreate, Issues

\* A cleanup keeps the argument, or deletes the reservation of a call that is
\* about to create.
LEMMA SweepingKeeps ==
  ASSUME ManagedClientTypeOK, Undisturbed, NEW d \in ClientSweepers, Sweeping(d)
  PROVE  pulled' \/ Undisturbed'
  <1>0. 0 \in ClientOrNone /\ ClientIds \subseteq ClientOrNone
    BY ManagedClientAssumption DEF ClientOrNone, ClientIds
  <1>1. CASE Compensate(d)
    <2>1. PICK c \in ClientCallers : /\ issue' = [issue EXCEPT ![c] = NoIssue]
                                     /\ reservation' = Forgotten(c)
      BY <1>1 DEF Compensate
    <2>2. /\ issue'[c].pc = "idle" /\ pool' = pool
          /\ \A o \in ClientCallers : o # c => issue'[o] = issue[o]
      BY <1>1, <2>1, CallPlaces DEF Compensate, ManagedClientTypeOK
    <2>3. HoldersOwn'
      BY <2>1, <2>2, HeldByOthers DEF Undisturbed, AboutToCreate, Issues
    <2>4. QED
      BY <2>2, <2>3 DEF Undisturbed, CreatorsSeeNone, Sole, Issues
  <1>2. CASE Purge(d)
    BY <1>0, <1>2, BegunTyped, SweepStep, Leaves DEF Purge
  <1>3. CASE ReclaimOrphan(d)
    BY <1>0, <1>3, BegunTyped, SweepStep, Leaves DEF ReclaimOrphan
  <1>4. CASE ChooseBound(d)
    BY <1>4, SweepRowsTyped, SweepStep, Leaves DEF ChooseBound, ManagedClientTypeOK
  <1>5. CASE ChooseReserved(d)
    BY <1>5, ReservedTyped, SweepRowsTyped, SweepStep, FailStep, Leaves DEF ChooseReserved
  <1>6. CASE Tombstone(d)
    <2>1. [reservation EXCEPT !.deleting = TRUE].owner = reservation.owner
      BY DEF ManagedClientTypeOK, ReservationRow
    <2>2. QED
      BY <1>6, <2>1, SweepRowsTyped, CarriedStep, SweepStep, Leaves DEF Tombstone
  <1>7. CASE CheckAbsent(d)
    BY <1>7, SweepRowsTyped, SweepStep, FailStep, Leaves DEF CheckAbsent
  <1>8. CASE RemoveClient(d)
    BY <1>8, SweepRowsTyped, CarriedStep, Leaves DEF RemoveClient
  <1>9. CASE Finalize(d)
    BY <1>9, SweepRowsTyped, CarriedStep, FailStep, Takes DEF Finalize
  <1>10. CASE QueryLedger(d)
    BY <1>10, SweepRowsTyped, SweepStep, Leaves DEF QueryLedger
  <1>11. CASE EraseLedger(d)
    <2>1. Pulls /\ pool' = pool
      BY <1>11 DEF EraseLedger, Erases
    <2>2. CASE CleanupFails(d)
      BY <2>1, <2>2, FailStep, Takes
    <2>3. CASE SweepGoes(d, CASE sweep[d].kind = "purge"  -> SweepTo(d, "rows")
                           [] sweep[d].kind = "undo"   -> SweepTo(d, "record")
                           [] OTHER -> NoSweep)
      BY <2>1, <2>3, RowsTyped, SweepRowsTyped, SweepStep, Takes
    <2>4. QED
      BY <1>11, <2>2, <2>3 DEF EraseLedger
  <1>12. CASE DropRows(d)
    BY <1>12, SweepRowsTyped, SweepStep, Leaves DEF DropRows
  <1>13. CASE DropRecord(d)
    BY <1>13, RowsTyped, SweepStep, Leaves DEF DropRecord
  <1>14. CASE SweepFails(d)
    BY <1>14, RowsTyped, SweepRowsTyped, SweepStep, FailStep, Leaves DEF SweepFails
  <1>15. QED
    BY <1>1, <1>2, <1>3, <1>4, <1>5, <1>6, <1>7, <1>8, <1>9, <1>10, <1>11, <1>12, <1>13,
       <1>14 DEF Sweeping

\* Once it happened, it has happened.
LEMMA PulledStays ==
  ASSUME ManagedClientTypeOK, ManagedClientNext
  PROVE  pulled => pulled'
  BY DEF ManagedClientNext, Issuing, Sweeping, Pulls, Erases, IdentityLedgers, Request,
         ReserveClient, ReadReservation, ObserveClient, AdoptClient, FindClient, CreateClient,
         ReleaseClient, CompleteClient, NoteClient, BindClient, JobReady, CallerDies,
         Compensate, Purge, ReclaimOrphan, ChooseBound, ChooseReserved, Tombstone, CheckAbsent,
         RemoveClient, Finalize, QueryLedger, EraseLedger, DropRows, DropRecord, SweepFails

-----------------------------------------------------------------------------
\* However calls, cleanups and faults interleave, the reservation, the clients
\* and the ledgers keep their shape, and until a cleanup deletes the reservation
\* of a call that is about to create, such a call alone holds the reservation and
\* there is one client at most.
THEOREM ManagedClientInvariant == ManagedClientSpec => []ClientInv
  <1>1. ManagedClientInit => ClientInv
    <2>1. SUFFICES ASSUME ManagedClientInit PROVE ClientInv
      OBVIOUS
    <2>2. 0 \in ClientOrNone /\ 0 \in 0 .. MaxClientFaults
      BY ManagedClientAssumption DEF ClientOrNone
    <2>3. /\ NoIssue \in IssueRow /\ NoSweep \in SweepRow /\ NoReservation \in ReservationRow
          /\ NoIssue.pc = "idle"
      BY <2>2 DEF NoIssue, NoSweep, NoReservation, IssueRow, SweepRow, ReservationRow
    <2>4. ManagedClientTypeOK
      <3>1. /\ issue \in [ClientCallers -> IssueRow]
            /\ sweep \in [ClientSweepers -> SweepRow]
        BY <2>1, <2>3 DEF ManagedClientInit
      <3>2. /\ pool \subseteq 1 .. minted /\ minted \in ClientOrNone
            /\ boundClient \in ClientOrNone /\ noted \subseteq ClientOrNone
            /\ clientFaults \in 0 .. MaxClientFaults
        BY <2>1, <2>2 DEF ManagedClientInit
      <3>3. QED
        BY <2>1, <2>3, <3>1, <3>2 DEF ManagedClientInit, ManagedClientTypeOK
    <2>5. Undisturbed
      <3>1. \A c \in ClientCallers : issue[c].pc = "idle"
        BY <2>1, <2>3 DEF ManagedClientInit
      <3>2. QED
        BY <2>1, <3>1 DEF ManagedClientInit, Undisturbed, HoldersOwn, CreatorsSeeNone, Sole,
           AboutToCreate, Issues
    <2>6. QED
      BY <2>4, <2>5 DEF ClientInv
  <1>2. ClientInv /\ [ManagedClientNext]_clientVars => ClientInv'
    <2>1. SUFFICES ASSUME ClientInv, [ManagedClientNext]_clientVars PROVE ClientInv'
      OBVIOUS
    <2>2. CASE UNCHANGED clientVars
      BY <2>1, <2>2 DEF clientVars, ClientInv, ManagedClientTypeOK, Undisturbed, HoldersOwn,
         CreatorsSeeNone, Sole, AboutToCreate, Issues
    <2>3. CASE ManagedClientNext
      <3>1. ManagedClientTypeOK'
        BY <2>1, <2>3, IssuingTyped, SweepingTyped DEF ClientInv, ManagedClientNext
      <3>2. pulled' \/ Undisturbed'
        BY <2>1, <2>3, IssuingKeeps, SweepingKeeps, PulledStays
           DEF ClientInv, ManagedClientNext
      <3>3. QED
        BY <3>1, <3>2 DEF ClientInv
    <2>4. QED
      BY <2>1, <2>2, <2>3
  <1>3. QED
    BY <1>1, <1>2, PTL DEF ManagedClientSpec

\* Every variable keeps its type.
THEOREM ManagedClientTyped == ManagedClientSpec => []ManagedClientTypeOK
  <1>1. ClientInv => ManagedClientTypeOK
    BY DEF ClientInv
  <1>2. QED
    BY <1>1, ManagedClientInvariant, PTL

\* An agent never has two clients, for any number of deployments, cleanups,
\* clients and faults, unless a cleanup deletes the reservation of a call that
\* is about to create.
THEOREM OneClientOnly == ManagedClientSpec => []OneClient
  <1>1. ClientInv => OneClient
    BY DEF ClientInv, Undisturbed, Sole, OneClient
  <1>2. QED
    BY <1>1, ManagedClientInvariant, PTL

-----------------------------------------------------------------------------
(* The client a call is handed, as long as no cleanup crosses a call.      *)

\* A reservation that names a client and is not being deleted names the one.
Filled == reservation.client # 0 /\ ~ reservation.deleting => pool = {reservation.client}

\* A call is about to write down the one client.
Certain ==
  \A c \in ClientCallers : Issues(c, "adopt") \/ Issues(c, "complete") => pool = {issue[c].got}

\* A cleanup removes a client under the tombstone of its reservation.
Covered ==
  \A d \in ClientSweepers :
    Sweeps(d, "remove") /\ sweep[d].id # 0 /\ reservation.client = sweep[d].id =>
      reservation.deleting

Served == Filled /\ Certain /\ Covered

ServedInv ==
  /\ ClientInv
  /\ Crossing \/ pulled => overlapped
  /\ overlapped \/ Served

\* Every step looks whether a call and a cleanup are at work.
LEMMA Watched ==
  ASSUME ManagedClientNext
  PROVE  Watch
  <1>1. ASSUME NEW c \in ClientCallers, NEW row, CallGoes(c, row) PROVE Watch
    BY <1>1 DEF CallGoes
  <1>2. ASSUME NEW c \in ClientCallers, CallEnds(c) PROVE Watch
    BY <1>2, <1>1 DEF CallEnds
  <1>3. ASSUME NEW d \in ClientSweepers, NEW row, SweepGoes(d, row) PROVE Watch
    BY <1>3 DEF SweepGoes
  <1>4. ASSUME NEW d \in ClientSweepers, CleanupFails(d) PROVE Watch
    BY <1>4, <1>3 DEF CleanupFails
  <1>5. ASSUME NEW d \in ClientSweepers, NEW row, Carried(d, row) PROVE Watch
    BY <1>5, <1>3, <1>4 DEF Carried
  <1>6. ASSUME NEW c \in ClientCallers, Issuing(c) PROVE Watch
    <2>1. CASE Request(c) \/ ReserveClient(c) \/ ReadReservation(c) \/ ObserveClient(c)
      BY <2>1, <1>1, <1>2 DEF Request, ReserveClient, ReadReservation, ObserveClient
    <2>2. CASE AdoptClient(c) \/ FindClient(c) \/ CreateClient(c) \/ ReleaseClient(c)
      BY <2>2, <1>1, <1>2 DEF AdoptClient, FindClient, CreateClient, ReleaseClient
    <2>3. CASE CompleteClient(c) \/ NoteClient(c) \/ BindClient(c)
      BY <2>3, <1>1, <1>2 DEF CompleteClient, NoteClient, BindClient
    <2>4. CASE JobReady(c) \/ CallerDies(c)
      BY <2>4, <1>1, <1>2 DEF JobReady, CallerDies
    <2>5. QED
      BY <1>6, <2>1, <2>2, <2>3, <2>4 DEF Issuing
  <1>7. ASSUME NEW d \in ClientSweepers, Sweeping(d) PROVE Watch
    <2>1. CASE Compensate(d) \/ Purge(d) \/ ReclaimOrphan(d)
      BY <2>1, <1>3, <1>4, <1>5 DEF Compensate, Purge, ReclaimOrphan
    <2>2. CASE ChooseBound(d) \/ ChooseReserved(d) \/ Tombstone(d) \/ CheckAbsent(d)
      BY <2>2, <1>3, <1>4, <1>5 DEF ChooseBound, ChooseReserved, Tombstone, CheckAbsent
    <2>3. CASE RemoveClient(d) \/ Finalize(d) \/ QueryLedger(d)
      BY <2>3, <1>3, <1>4, <1>5 DEF RemoveClient, Finalize, QueryLedger
    <2>4. CASE EraseLedger(d) \/ DropRows(d) \/ DropRecord(d) \/ SweepFails(d)
      BY <2>4, <1>3, <1>4, <1>5 DEF EraseLedger, DropRows, DropRecord, SweepFails
    <2>5. QED
      BY <1>7, <2>1, <2>2, <2>3, <2>4 DEF Sweeping
  <1>8. QED
    BY <1>6, <1>7 DEF ManagedClientNext

\* A cleanup that a call joins stays where it is.
LEMMA JoinedStays ==
  ASSUME ManagedClientTypeOK, NEW d \in ClientSweepers
  PROVE  Joined(d).pc = sweep[d].pc /\ Joined(d).id = sweep[d].id
  <1>1. sweep[d] \in SweepRow
    BY DEF ManagedClientTypeOK
  <1>2. [sweep[d] EXCEPT !.alone = FALSE].pc = sweep[d].pc
    BY <1>1 DEF SweepRow
  <1>3. [sweep[d] EXCEPT !.alone = FALSE].id = sweep[d].id
    BY <1>1 DEF SweepRow
  <1>4. QED
    BY <1>2, <1>3 DEF Joined

\* A call that goes on, or ends, with the clients and what is written of them
\* unchanged, and that is not about to write one down.
LEMMA Unwritten ==
  ASSUME ManagedClientTypeOK, Served, NEW c \in ClientCallers, NEW row \in IssueRow,
         CallGoes(c, row), row.pc \notin {"adopt", "complete"}, pool' = pool,
         reservation'.client = reservation.client,
         reservation'.deleting = reservation.deleting
  PROVE  Served'
  <1>1. issue'[c] = row /\ \A o \in ClientCallers : o # c => issue'[o] = issue[o]
    BY CallStep
  <1>2. \A d \in ClientSweepers : sweep'[d].pc = sweep[d].pc /\ sweep'[d].id = sweep[d].id
    <2>1. \A d \in ClientSweepers : sweep'[d] = Joined(d)
      BY DEF CallGoes
    <2>2. QED
      BY <2>1, JoinedStays
  <1>3. Certain'
    BY <1>1 DEF Served, Certain, Issues
  <1>4. Covered'
    BY <1>2 DEF Served, Covered, Sweeps
  <1>5. QED
    BY <1>3, <1>4 DEF Served, Filled

\* Forgetting whose a reservation was changes nothing else.
LEMMA ForgottenOwner ==
  ASSUME ManagedClientTypeOK, NEW c \in ClientCallers
  PROVE  /\ Forgotten(c).client = reservation.client
         /\ Forgotten(c).deleting = reservation.deleting
  BY DEF ManagedClientTypeOK, ReservationRow, Forgotten

LEMMA EndsUnwritten ==
  ASSUME ManagedClientTypeOK, Served, NEW c \in ClientCallers, CallEnds(c), pool' = pool
  PROVE  Served'
  BY RowsTyped, CallPlaces, ForgottenOwner, Unwritten DEF CallEnds

\* While a call is at work and no cleanup crosses it, all cleanups are at rest.
LEMMA Resting ==
  ASSUME ManagedClientTypeOK, ~ Crossing, NEW c \in ClientCallers, Provisioning(c),
         NEW row \in IssueRow, CallGoes(c, row)
  PROVE  \A d \in ClientSweepers : sweep'[d].pc = "idle"
  <1>1. \A d \in ClientSweepers : sweep[d].pc = "idle" /\ sweep'[d] = Joined(d)
    BY DEF Crossing, Sweeps, CallGoes
  <1>2. QED
    BY <1>1, JoinedStays

\* A call takes notice of the one client.
LEMMA Noticed ==
  ASSUME ManagedClientTypeOK, Served, NEW c \in ClientCallers, NEW x \in pool, pool = {x},
         NEW pc \in {"adopt", "complete"}, CallGoes(c, [CallAt(c, pc) EXCEPT !.got = x]),
         UNCHANGED <<reservation, pool>>
  PROVE  Served' /\ issue'[c].pc # "issued"
  <1>1. /\ [CallAt(c, pc) EXCEPT !.got = x] \in IssueRow
        /\ [CallAt(c, pc) EXCEPT !.got = x].pc = pc
        /\ [CallAt(c, pc) EXCEPT !.got = x].got = x
    BY PoolTyped DEF ManagedClientTypeOK, CallAt, IssueRow
  <1>2. /\ issue'[c].pc = pc /\ issue'[c].got = x
        /\ \A o \in ClientCallers : o # c => issue'[o] = issue[o]
    BY <1>1, CallStep
  <1>3. \A d \in ClientSweepers : sweep'[d].pc = sweep[d].pc /\ sweep'[d].id = sweep[d].id
    BY JoinedStays DEF CallGoes
  <1>4. Certain'
    BY <1>2 DEF Served, Certain, Issues
  <1>5. Covered' /\ Filled'
    BY <1>3 DEF Served, Covered, Filled, Sweeps
  <1>6. QED
    BY <1>2, <1>4, <1>5 DEF Served

\* A call writes the one client down.
LEMMA Written ==
  ASSUME ManagedClientTypeOK, Served, ~ Crossing, NEW c \in ClientCallers,
         Issues(c, "adopt") \/ Issues(c, "complete"), NEW o \in {"created", "found", "reused"},
         CallGoes(c, Handed(issue[c].got, o)),
         reservation' = [reservation EXCEPT !.client = issue[c].got], pool' = pool
  PROVE  Served' /\ pool' = {issue'[c].got} /\ reservation'.client = issue'[c].got
  <1>1. Handed(issue[c].got, o) \in IssueRow /\ Handed(issue[c].got, o).pc = "issued"
    BY CallRowsTyped, CallPlaces
  <1>2. /\ issue'[c] = Handed(issue[c].got, o)
        /\ \A e \in ClientCallers : e # c => issue'[e] = issue[e]
    BY <1>1, CallStep
  <1>3. issue'[c].pc = "issued" /\ issue'[c].got = issue[c].got
    BY <1>2 DEF Handed
  <1>4. pool = {issue[c].got}
    BY DEF Served, Certain
  <1>5. reservation'.client = issue[c].got
    BY DEF ManagedClientTypeOK, ReservationRow
  <1>6. Certain'
    BY <1>2, <1>3 DEF Served, Certain, Issues
  <1>7. Covered'
    BY <1>1, Resting DEF Covered, Sweeps, Provisioning, Issues
  <1>8. QED
    BY <1>3, <1>4, <1>5, <1>6, <1>7 DEF Served, Filled

\* A call is handed the one client, which the reservation names.
HandedRight(c) ==
  Provisioning(c) /\ issue'[c].pc = "issued" =>
    pool' = {issue'[c].got} /\ reservation'.client = issue'[c].got

\* A deployment keeps all that, and is handed the one client.
LEMMA IssuingServes ==
  ASSUME ManagedClientTypeOK, Undisturbed, Served, ~ Crossing, NEW c \in ClientCallers,
         Issuing(c)
  PROVE  Served' /\ HandedRight(c)
  <1> USE DEF Issues
  <1>1. CASE Request(c)
    <2>1. ~ Provisioning(c)
      BY <1>1 DEF Request, Provisioning
    <2>2. Served'
      BY <1>1, CallRowsTyped, CallPlaces, Unwritten DEF Request, ManagedClientTypeOK
    <2>3. QED
      BY <2>1, <2>2 DEF HandedRight
  <1>2. CASE ReserveClient(c)
    <2>1. PICK pc \in {"find", "read"} : CallGoes(c, CallAt(c, pc))
      BY <1>2 DEF ReserveClient
    <2>2. /\ issue'[c].pc = pc
          /\ \A o \in ClientCallers : o # c => issue'[o] = issue[o]
      BY <2>1, CallRowsTyped, CallPlaces, CallStep
    <2>3. CASE reservation' = reservation
      BY <1>2, <2>1, <2>2, <2>3, CallRowsTyped, CallPlaces, Unwritten
         DEF ReserveClient, HandedRight
    <2>4. CASE reservation' = [owner |-> c, client |-> 0, deleting |-> FALSE]
      <3>1. reservation'.client = 0 /\ pool' = pool
        BY <1>2, <2>4 DEF ReserveClient
      <3>2. Filled' /\ Covered' /\ Certain'
        BY <2>2, <3>1 DEF Served, Filled, Covered, Certain
      <3>3. QED
        BY <2>2, <3>2 DEF Served, HandedRight
    <2>5. QED
      BY <1>2, <2>3, <2>4 DEF ReserveClient
  <1>3. CASE ReadReservation(c)
    <2>1. CASE CallEnds(c)
      <3>1. issue'[c].pc = "idle"
        BY <2>1, EndStep, CallPlaces
      <3>2. QED
        BY <1>3, <2>1, <3>1, EndsUnwritten DEF ReadReservation, HandedRight
    <2>2. ASSUME NEW pc \in {"reserve", "find", "observe"}, CallGoes(c, CallAt(c, pc)),
                 UNCHANGED <<reservation, pool>>
          PROVE  Served' /\ HandedRight(c)
      <3>1. issue'[c].pc = pc
        BY <2>2, CallRowsTyped, CallPlaces, CallStep
      <3>2. QED
        BY <2>2, <3>1, CallRowsTyped, CallPlaces, Unwritten DEF HandedRight
    <2>3. CASE /\ reservation.client # 0 /\ ~ reservation.deleting
               /\ CallGoes(c, Handed(reservation.client, "found"))
               /\ UNCHANGED <<reservation, pool>>
      <3>1. /\ Handed(reservation.client, "found") \in IssueRow
            /\ Handed(reservation.client, "found").pc = "issued"
            /\ Handed(reservation.client, "found").got = reservation.client
        BY ReservedTyped, CallRowsTyped, CallPlaces DEF Handed
      <3>2. issue'[c].got = reservation.client /\ pool = {reservation.client}
        BY <2>3, <3>1, CallStep DEF Served, Filled
      <3>3. QED
        BY <2>3, <3>1, <3>2, Unwritten DEF HandedRight
    <2>4. QED
      BY <1>3, <2>1, <2>2, <2>3 DEF ReadReservation
  <1>4. CASE ObserveClient(c)
    <2>1. CASE CallEnds(c)
      <3>1. issue'[c].pc = "idle"
        BY <2>1, EndStep, CallPlaces
      <3>2. QED
        BY <1>4, <2>1, <3>1, EndsUnwritten DEF ObserveClient, HandedRight
    <2>2. CASE CallGoes(c, CallAt(c, "reserve")) /\ UNCHANGED reservation
      <3>1. issue'[c].pc = "reserve"
        BY <2>2, CallRowsTyped, CallPlaces, CallStep
      <3>2. QED
        BY <1>4, <2>2, <3>1, CallRowsTyped, CallPlaces, Unwritten
           DEF ObserveClient, HandedRight
    <2>3. ASSUME NEW x \in pool, pool = {x}, UNCHANGED reservation,
                 CallGoes(c, [CallAt(c, "adopt") EXCEPT !.got = x])
          PROVE  Served' /\ HandedRight(c)
      BY <1>4, <2>3, Noticed DEF ObserveClient, HandedRight
    <2>4. QED
      BY <1>4, <2>1, <2>2, <2>3 DEF ObserveClient
  <1>5. CASE AdoptClient(c)
    <2>1. CASE CallEnds(c)
      <3>1. issue'[c].pc = "idle"
        BY <2>1, EndStep, CallPlaces
      <3>2. QED
        BY <1>5, <2>1, <3>1, EndsUnwritten DEF AdoptClient, HandedRight
    <2>2. QED
      BY <1>5, <2>1, Written DEF AdoptClient, HandedRight
  <1>6. CASE FindClient(c)
    <2>1. ASSUME NEW pc \in {"create", "release"}, CallGoes(c, CallAt(c, pc))
          PROVE  Served' /\ HandedRight(c)
      <3>1. issue'[c].pc = pc
        BY <2>1, CallRowsTyped, CallPlaces, CallStep
      <3>2. QED
        BY <1>6, <2>1, <3>1, CallRowsTyped, CallPlaces, Unwritten DEF FindClient, HandedRight
    <2>2. ASSUME NEW x \in pool, pool = {x},
                 CallGoes(c, [CallAt(c, "complete") EXCEPT !.got = x])
          PROVE  Served' /\ HandedRight(c)
      BY <1>6, <2>2, Noticed DEF FindClient, HandedRight
    <2>3. QED
      BY <1>6, <2>1, <2>2 DEF FindClient
  <1>7. CASE CreateClient(c)
    <2>1. CASE pool' = pool /\ CallGoes(c, CallAt(c, "release"))
      <3>1. issue'[c].pc = "release"
        BY <2>1, CallRowsTyped, CallPlaces, CallStep
      <3>2. QED
        BY <1>7, <2>1, <3>1, CallRowsTyped, CallPlaces, Unwritten
           DEF CreateClient, HandedRight
    <2>2. CASE pool' = pool \cup {minted'}
      <3>1. pool = {} /\ pool' = {minted'}
        BY <1>7, <2>2 DEF CreateClient, Undisturbed, CreatorsSeeNone
      <3>2. /\ \/ issue'[c].pc = "release"
               \/ issue'[c].pc = "complete" /\ issue'[c].got = minted'
            /\ \A o \in ClientCallers : o # c => issue'[o] = issue[o]
        <4>1. CASE CallGoes(c, CallAt(c, "release"))
          BY <4>1, CallRowsTyped, CallPlaces, CallStep
        <4>2. CASE CallGoes(c, [pc |-> "complete", got |-> minted', origin |-> "created"])
          BY <4>2 DEF CallGoes, ManagedClientTypeOK
        <4>3. QED
          BY <1>7, <4>1, <4>2 DEF CreateClient
      <3>3. Certain'
        BY <3>1, <3>2 DEF Served, Certain
      <3>4. \A d \in ClientSweepers : sweep'[d].pc = "idle"
        <4>1. \A d \in ClientSweepers : sweep'[d] = Joined(d) /\ sweep[d].pc = "idle"
          BY <1>7 DEF CreateClient, CallGoes, Crossing, Provisioning, Sweeps
        <4>2. QED
          BY <4>1, JoinedStays
      <3>5. Filled'
        BY <1>7, <3>1 DEF CreateClient, Served, Filled
      <3>6. QED
        BY <3>2, <3>3, <3>4, <3>5 DEF Served, Covered, Sweeps, HandedRight
    <2>3. QED
      BY <1>7, <2>1, <2>2 DEF CreateClient
  <1>8. CASE ReleaseClient(c)
    <2>1. issue'[c].pc = "idle"
      BY <1>8, RowsTyped, CallPlaces, CallStep DEF ReleaseClient
    <2>2. CASE reservation' = Forgotten(c)
      BY <1>8, <2>1, <2>2, ForgottenOwner, RowsTyped, CallPlaces, Unwritten
         DEF ReleaseClient, HandedRight
    <2>3. CASE reservation' = NoReservation /\ reservation.client = 0 /\ ~ reservation.deleting
      <3>1. reservation.deleting = FALSE
        BY <2>3 DEF ManagedClientTypeOK, ReservationRow
      <3>2. reservation'.client = reservation.client /\ reservation'.deleting = reservation.deleting
        BY <2>3, <3>1 DEF NoReservation
      <3>3. QED
        BY <1>8, <2>1, <3>2, RowsTyped, CallPlaces, Unwritten DEF ReleaseClient, HandedRight
    <2>4. QED
      BY <1>8, <2>2, <2>3 DEF ReleaseClient
  <1>9. CASE CompleteClient(c)
    <2>1. CASE CallEnds(c)
      <3>1. issue'[c].pc = "idle"
        BY <2>1, EndStep, CallPlaces
      <3>2. QED
        BY <1>9, <2>1, <3>1, EndsUnwritten DEF CompleteClient, HandedRight
    <2>2. CASE ~ CallEnds(c)
      BY <1>9, <2>2, CallRowsTyped, Written DEF CompleteClient, HandedRight
    <2>3. QED
      BY <2>1, <2>2
  <1>10. CASE NoteClient(c)
    BY <1>10, CallRowsTyped, CallPlaces, Unwritten DEF NoteClient, HandedRight, Provisioning
  <1>11. CASE BindClient(c)
    BY <1>11, CallRowsTyped, CallPlaces, Unwritten DEF BindClient, HandedRight, Provisioning
  <1>12. CASE JobReady(c)
    BY <1>12, EndsUnwritten DEF JobReady, HandedRight, Provisioning
  <1>13. CASE CallerDies(c)
    <2>1. issue'[c].pc = "idle"
      BY <1>13, EndStep, CallPlaces DEF CallerDies
    <2>2. QED
      BY <1>13, <2>1, EndsUnwritten DEF CallerDies, HandedRight
  <1>14. QED
    BY <1>1, <1>2, <1>3, <1>4, <1>5, <1>6, <1>7, <1>8, <1>9, <1>10, <1>11, <1>12, <1>13
       DEF Issuing

\* A cleanup that goes on changes its own row only, and joins the others.
LEMMA SweepPlaces ==
  ASSUME ManagedClientTypeOK, NEW d \in ClientSweepers, NEW row \in SweepRow,
         sweep' = SweepRows(d, row)
  PROVE  /\ sweep'[d] = row
         /\ \A e \in ClientSweepers : e # d =>
              sweep'[e].pc = sweep[e].pc /\ sweep'[e].id = sweep[e].id
  BY JoinedStays DEF SweepRows

\* A cleanup that leaves the clients alone, and the reservation as it is, or
\* marked, or emptied.
LEMMA Untouched ==
  ASSUME ManagedClientTypeOK, Served, NEW d \in ClientSweepers, NEW row \in SweepRow,
         SweepGoes(d, row), pool' = pool,
         \/ reservation'.client = 0
         \/ /\ reservation'.client = reservation.client
            /\ reservation'.deleting \in {TRUE, reservation.deleting},
         row.pc = "remove" => reservation'.deleting
  PROVE  Served'
  <1>1. /\ issue' = issue /\ sweep'[d] = row
        /\ \A e \in ClientSweepers : e # d =>
             sweep'[e].pc = sweep[e].pc /\ sweep'[e].id = sweep[e].id
    BY SweepPlaces DEF SweepGoes
  <1>2. Filled' /\ Certain'
    BY <1>1 DEF Served, Filled, Certain, Issues
  <1>3. ASSUME NEW e \in ClientSweepers, sweep'[e].pc = "remove", sweep'[e].id # 0,
               reservation'.client = sweep'[e].id
        PROVE  reservation'.deleting
    <2>1. CASE e = d
      BY <1>1, <1>3, <2>1
    <2>2. CASE e # d
      <3>1. sweep[e].pc = "remove" /\ sweep[e].id = sweep'[e].id
        BY <1>1, <1>3, <2>2
      <3>2. reservation'.client = reservation.client
        BY <1>3
      <3>3. reservation.deleting
        BY <1>3, <3>1, <3>2 DEF Served, Covered, Sweeps
      <3>4. QED
        BY <1>3, <3>3
    <2>3. QED
      BY <2>1, <2>2
  <1>4. QED
    BY <1>2, <1>3 DEF Served, Covered, Sweeps

\* A cleanup that fails ends or goes on to the job rows.
LEMMA FailPlaces ==
  ASSUME ManagedClientTypeOK, NEW d \in ClientSweepers, CleanupFails(d)
  PROVE  \E row \in SweepRow : SweepGoes(d, row) /\ row.pc \in {"idle", "rows"}
  <1>1. NoSweep.pc = "idle" /\ SweepTo(d, "rows").pc = "rows"
    BY DEF NoSweep, SweepTo, SweepRow, ManagedClientTypeOK
  <1>2. QED
    BY <1>1, RowsTyped DEF CleanupFails

\* The place of a cleanup is the one its new row names.
LEMMA SweepNames ==
  ASSUME ManagedClientTypeOK, NEW d \in ClientSweepers
  PROVE  /\ \A pc : SweepTo(d, pc).pc = pc
         /\ \A x \in ClientOrNone : [SweepTo(d, "tombstone") EXCEPT !.id = x].pc = "tombstone"
         /\ \A k \in SUBSET {"reservation", "binding"} :
              [SweepTo(d, "erase") EXCEPT !.keys = k].pc = "erase"
         /\ AfterClient(d).pc # "remove" /\ NoSweep.pc = "idle"
  <1>1. sweep[d] \in SweepRow
    BY DEF ManagedClientTypeOK
  <1>2. \A pc : SweepTo(d, pc).pc = pc
    BY <1>1 DEF SweepTo, SweepRow
  <1>3. \A x \in ClientOrNone : [SweepTo(d, "tombstone") EXCEPT !.id = x].pc = "tombstone"
    BY <1>1 DEF SweepTo, SweepRow
  <1>4. \A k \in SUBSET {"reservation", "binding"} :
          [SweepTo(d, "erase") EXCEPT !.keys = k].pc = "erase"
    BY <1>1 DEF SweepTo, SweepRow
  <1>5. NoSweep.pc = "idle"
    BY DEF NoSweep
  <1>6. AfterClient(d).pc # "remove"
    BY <1>2, <1>5 DEF AfterClient
  <1>7. QED
    BY <1>2, <1>3, <1>4, <1>5, <1>6

\* A cleanup keeps what calls rely on, if it crosses none.
LEMMA SweepingServes ==
  ASSUME ManagedClientTypeOK, Served, ~ Crossing, NEW d \in ClientSweepers, Sweeping(d)
  PROVE  Served'
  <1>0. 0 \in ClientOrNone /\ ClientIds \subseteq ClientOrNone
    BY ManagedClientAssumption DEF ClientOrNone, ClientIds
  <1>a. CASE CleanupFails(d) /\ UNCHANGED <<reservation, pool>>
    <2>1. PICK row \in SweepRow : SweepGoes(d, row) /\ row.pc \in {"idle", "rows"}
      BY <1>a, FailPlaces
    <2>2. QED
      BY <1>a, <2>1, Untouched
  <1>b. ASSUME NEW row \in SweepRow, SweepGoes(d, row), row.pc # "remove",
               UNCHANGED <<reservation, pool>>
        PROVE  Served'
    BY <1>b, Untouched
  <1>1. CASE Compensate(d)
    <2>1. PICK c \in ClientCallers : /\ issue' = [issue EXCEPT ![c] = NoIssue]
                                     /\ reservation' = Forgotten(c)
      BY <1>1 DEF Compensate
    <2>2. /\ issue'[c].pc = "idle" /\ pool' = pool
          /\ \A o \in ClientCallers : o # c => issue'[o] = issue[o]
      BY <1>1, <2>1, CallPlaces DEF Compensate, ManagedClientTypeOK
    <2>3. PICK row \in SweepRow : sweep' = SweepRows(d, row) /\ row.pc # "remove"
      <3>1. \A o \in ClientCallers : issue[o].got \in ClientOrNone
        BY CallRowsTyped
      <3>2. PICK k \in {"undo", "client only"}, pc \in {"tombstone", "query"}, x \in ClientOrNone :
              sweep' = SweepRows(d, Begun(k, pc, x, 0))
        BY <1>0, <1>1, <3>1 DEF Compensate
      <3>3. Begun(k, pc, x, 0) \in SweepRow /\ Begun(k, pc, x, 0).pc = pc
        BY <1>0, BegunTyped DEF Begun
      <3>4. QED
        BY <3>2, <3>3
    <2>4. /\ sweep'[d].pc # "remove"
          /\ \A e \in ClientSweepers : e # d =>
               sweep'[e].pc = sweep[e].pc /\ sweep'[e].id = sweep[e].id
      BY <2>3, SweepPlaces
    <2>5. /\ reservation'.client = reservation.client
          /\ reservation'.deleting = reservation.deleting
      BY <2>1, ForgottenOwner
    <2>6. Filled' /\ Certain'
      BY <2>2, <2>5 DEF Served, Filled, Certain, Issues
    <2>7. Covered'
      BY <2>4, <2>5 DEF Served, Covered, Sweeps
    <2>8. QED
      BY <2>6, <2>7 DEF Served
  <1>2. CASE Purge(d)
    <2>1. PICK x \in ClientOrNone : SweepGoes(d, Begun("purge", "choose", 0, x))
      BY <1>0, <1>2 DEF Purge
    <2>2. Begun("purge", "choose", 0, x).pc = "choose"
      BY DEF Begun
    <2>3. QED
      BY <1>0, <1>2, <1>b, <2>1, <2>2, BegunTyped DEF Purge
  <1>3. CASE ReclaimOrphan(d)
    <2>1. Begun("orphan", "choose", 0, 0).pc = "choose"
      BY DEF Begun
    <2>2. QED
      BY <1>0, <1>3, <1>b, <2>1, BegunTyped DEF ReclaimOrphan
  <1>4. CASE ChooseBound(d)
    <2>1. CASE SweepGoes(d, SweepTo(d, "peek"))
      BY <1>4, <1>b, <2>1, SweepRowsTyped, SweepNames DEF ChooseBound
    <2>2. CASE SweepGoes(d, [SweepTo(d, "tombstone") EXCEPT !.id = boundClient])
      BY <1>4, <1>b, <2>2, SweepRowsTyped, SweepNames DEF ChooseBound, ManagedClientTypeOK
    <2>3. QED
      BY <1>4, <2>1, <2>2 DEF ChooseBound
  <1>5. CASE ChooseReserved(d)
    <2>1. CASE SweepGoes(d, SweepTo(d, "query"))
      BY <1>5, <1>b, <2>1, SweepRowsTyped, SweepNames DEF ChooseReserved
    <2>2. CASE CleanupFails(d)
      BY <1>5, <1>a, <2>2 DEF ChooseReserved
    <2>3. ASSUME NEW x \in ClientOrNone,
                 SweepGoes(d, [SweepTo(d, "tombstone") EXCEPT !.id = x])
          PROVE  Served'
      BY <1>5, <1>b, <2>3, SweepRowsTyped, SweepNames DEF ChooseReserved
    <2>4. QED
      BY <1>5, <2>1, <2>2, <2>3, ReservedTyped, SweepRowsTyped DEF ChooseReserved
  <1>6. CASE Tombstone(d)
    <2>1. CASE reservation.client = sweep[d].id
      <3>1. reservation'.client = reservation.client /\ reservation'.deleting = TRUE
        BY <1>6, <2>1 DEF Tombstone, ManagedClientTypeOK, ReservationRow
      <3>2. PICK row \in SweepRow : SweepGoes(d, row)
        BY <1>6, SweepRowsTyped, FailPlaces DEF Tombstone, Carried
      <3>3. QED
        BY <1>6, <3>1, <3>2, Untouched DEF Tombstone
    <2>2. CASE reservation.client # sweep[d].id
      BY <1>6, <1>b, <2>2, SweepRowsTyped, SweepNames DEF Tombstone
    <2>3. QED
      BY <2>1, <2>2
  <1>7. CASE CheckAbsent(d)
    BY <1>7, <1>a, <1>b, SweepRowsTyped, SweepNames DEF CheckAbsent
  <1>8. CASE RemoveClient(d)
    <2>1. PICK row \in SweepRow : SweepGoes(d, row) /\ row.pc # "remove"
      BY <1>8, SweepRowsTyped, SweepNames, FailPlaces DEF RemoveClient, Carried
    <2>2. /\ issue' = issue /\ sweep'[d].pc # "remove" /\ reservation' = reservation
          /\ \A e \in ClientSweepers : e # d =>
               sweep'[e].pc = sweep[e].pc /\ sweep'[e].id = sweep[e].id
      BY <1>8, <2>1, SweepPlaces DEF RemoveClient, SweepGoes
    <2>3. Covered'
      BY <2>2 DEF Served, Covered, Sweeps
    <2>4. Certain'
      <3>1. \A c \in ClientCallers : ~ Provisioning(c)
        BY <1>8 DEF RemoveClient, Crossing, Sweeps
      <3>2. QED
        BY <2>2, <3>1 DEF Certain, Provisioning, Issues
    <2>5. Filled'
      <3>1. ASSUME reservation.client # 0, ~ reservation.deleting
            PROVE  pool' = {reservation.client}
        <4>1. pool = {reservation.client} /\ reservation.client # sweep[d].id
          BY <1>8, <3>1 DEF RemoveClient, Served, Filled, Covered
        <4>2. QED
          BY <1>8, <4>1 DEF RemoveClient
      <3>2. QED
        BY <2>2, <3>1 DEF Filled
    <2>6. QED
      BY <2>3, <2>4, <2>5 DEF Served
  <1>9. CASE Finalize(d)
    <2>1. CASE reservation' = reservation
      BY <1>9, <2>1, <1>a, <1>b, SweepRowsTyped, SweepNames DEF Finalize, Carried
    <2>2. CASE reservation' = NoReservation
      <3>1. reservation'.client = 0
        BY <2>2 DEF NoReservation
      <3>2. PICK row \in SweepRow : SweepGoes(d, row) /\ row.pc # "remove"
        BY <1>9, SweepRowsTyped, SweepNames, FailPlaces DEF Finalize, Carried
      <3>3. QED
        BY <1>9, <3>1, <3>2, Untouched DEF Finalize
    <2>3. QED
      BY <1>9, <2>1, <2>2 DEF Finalize
  <1>10. CASE QueryLedger(d)
    <2>1. PICK k \in SUBSET {"reservation", "binding"} :
            SweepGoes(d, [SweepTo(d, "erase") EXCEPT !.keys = k])
      BY <1>10 DEF QueryLedger
    <2>2. QED
      BY <1>10, <1>b, <2>1, SweepRowsTyped, SweepNames DEF QueryLedger
  <1>11. CASE EraseLedger(d)
    <2>1. /\ pool' = pool
          /\ reservation'.client = 0 \/ reservation' = reservation
      BY <1>11 DEF EraseLedger, Erases, NoReservation
    <2>2. PICK row \in SweepRow : SweepGoes(d, row) /\ row.pc # "remove"
      <3>1. CASE CleanupFails(d)
        BY <3>1, FailPlaces
      <3>2. CASE SweepGoes(d, CASE sweep[d].kind = "purge"  -> SweepTo(d, "rows")
                             [] sweep[d].kind = "undo"   -> SweepTo(d, "record")
                             [] OTHER -> NoSweep)
        BY <3>2, RowsTyped, SweepRowsTyped, SweepNames
      <3>3. QED
        BY <1>11, <3>1, <3>2 DEF EraseLedger
    <2>3. QED
      BY <2>1, <2>2, Untouched
  <1>12. CASE DropRows(d)
    BY <1>12, <1>b, SweepRowsTyped, SweepNames DEF DropRows
  <1>13. CASE DropRecord(d)
    BY <1>13, <1>b, RowsTyped, SweepNames DEF DropRecord
  <1>14. CASE SweepFails(d)
    BY <1>14, <1>a, <1>b, RowsTyped, SweepRowsTyped, SweepNames DEF SweepFails
  <1>15. QED
    BY <1>1, <1>2, <1>3, <1>4, <1>5, <1>6, <1>7, <1>8, <1>9, <1>10, <1>11, <1>12, <1>13,
       <1>14 DEF Sweeping

-----------------------------------------------------------------------------
\* A call and a cleanup that are at work together are noticed, and only then
\* can a cleanup delete the reservation of a call.
LEMMA Noticing ==
  ASSUME ManagedClientNext, Crossing \/ pulled => overlapped
  PROVE  Crossing' \/ pulled' => overlapped'
  <1>1. overlapped' = (overlapped \/ Crossing')
    BY Watched DEF Watch
  <1>2. pulled' /\ ~ pulled => Crossing
    BY DEF ManagedClientNext, Issuing, Sweeping, Pulls, Erases, IdentityLedgers, Request,
       ReserveClient, ReadReservation, ObserveClient, AdoptClient, FindClient, CreateClient,
       ReleaseClient, CompleteClient, NoteClient, BindClient, JobReady, CallerDies,
       Compensate, Purge, ReclaimOrphan, ChooseBound, ChooseReserved, Tombstone,
       CheckAbsent, RemoveClient, Finalize, QueryLedger, EraseLedger, DropRows, DropRecord,
       SweepFails, Crossing, Provisioning, AboutToCreate, Issues, Sweeps
  <1>3. QED
    BY <1>1, <1>2

\* As long as no cleanup crossed a call, what the reservation, the calls and
\* the cleanups believe of the client is true.
THEOREM ServedInvariant == ManagedClientSpec => []ServedInv
  <1>1. ManagedClientInit => /\ Crossing \/ pulled => overlapped
                            /\ Served
    BY DEF ManagedClientInit, Crossing, Served, Filled, Certain, Covered, Provisioning, Issues,
       Sweeps, NoIssue, NoSweep, NoReservation
  <1>2. ClientInv /\ ServedInv /\ [ManagedClientNext]_clientVars /\ ClientInv' => ServedInv'
    <2>1. SUFFICES ASSUME ServedInv, [ManagedClientNext]_clientVars, ClientInv'
                   PROVE  ServedInv'
      OBVIOUS
    <2>2. CASE UNCHANGED clientVars
      BY <2>1, <2>2 DEF clientVars, ServedInv, Crossing, Served, Filled, Certain, Covered,
         Provisioning, Issues, Sweeps
    <2>3. CASE ManagedClientNext
      <3>1. Crossing' \/ pulled' => overlapped'
        BY <2>1, <2>3, Noticing DEF ServedInv
      <3>2. overlapped' \/ Served'
        <4>1. CASE overlapped
          BY <2>3, <4>1, Watched DEF Watch
        <4>2. CASE ~ overlapped
          <5>1. ManagedClientTypeOK /\ Undisturbed /\ Served /\ ~ Crossing
            BY <2>1, <4>2 DEF ServedInv, ClientInv
          <5>2. QED
            BY <2>3, <5>1, IssuingServes, SweepingServes DEF ManagedClientNext
        <4>3. QED
          BY <4>1, <4>2
      <3>3. QED
        BY <2>1, <3>1, <3>2 DEF ServedInv
    <2>4. QED
      BY <2>1, <2>2, <2>3
  <1>3. ClientInv /\ (Crossing \/ pulled => overlapped) /\ Served => ServedInv
    BY DEF ServedInv
  <1>4. QED
    BY <1>1, <1>2, <1>3, ManagedClientInvariant, PTL DEF ManagedClientSpec

\* Nobody is handed a client but by a step of his own.
LEMMA OwnStep ==
  ASSUME ManagedClientTypeOK, ManagedClientNext, NEW c \in ClientCallers,
         issue'[c] # issue[c], issue'[c].pc = "issued"
  PROVE  Issuing(c)
  <1>1. ASSUME NEW o \in ClientCallers, Issuing(o), o # c
        PROVE  FALSE
    <2>1. issue'[c] = issue[c]
      BY <1>1 DEF ManagedClientTypeOK, Issuing, CallGoes, CallEnds, Request, ReserveClient,
         ReadReservation, ObserveClient, AdoptClient, FindClient, CreateClient, ReleaseClient,
         CompleteClient, NoteClient, BindClient, JobReady, CallerDies
    <2>2. QED
      BY <2>1
  <1>2. ASSUME NEW d \in ClientSweepers, Sweeping(d)
        PROVE  FALSE
    <2>1. issue' = issue \/ \E o \in ClientCallers : issue' = [issue EXCEPT ![o] = NoIssue]
      BY <1>2 DEF Sweeping, SweepGoes, CleanupFails, Carried, Compensate, Purge, ReclaimOrphan,
         ChooseBound, ChooseReserved, Tombstone, CheckAbsent, RemoveClient, Finalize,
         QueryLedger, EraseLedger, DropRows, DropRecord, SweepFails
    <2>2. issue'[c] \in {issue[c], NoIssue}
      BY <2>1 DEF ManagedClientTypeOK
    <2>3. QED
      BY <2>2 DEF NoIssue
  <1>3. QED
    BY <1>1, <1>2 DEF ManagedClientNext

\* A call is handed the agent's one client, which exists and which the
\* reservation names, for any number of deployments, cleanups, clients and faults,
\* as long as no cleanup crossed a call.
THEOREM HandedTheOne == ManagedClientSpec => HandedOut
  <1>1. ServedInv /\ [ManagedClientNext]_clientVars =>
          [\A c \in ClientCallers :
             Provisioning(c) /\ issue'[c].pc = "issued" /\ ~ overlapped' =>
               pool' = {issue'[c].got} /\ reservation'.client = issue'[c].got]_clientVars
    <2>1. SUFFICES ASSUME ServedInv, ManagedClientNext, NEW c \in ClientCallers,
                          Provisioning(c), issue'[c].pc = "issued", ~ overlapped'
                   PROVE  pool' = {issue'[c].got} /\ reservation'.client = issue'[c].got
      OBVIOUS
    <2>2. ~ overlapped
      BY <2>1, Watched DEF Watch
    <2>3. ManagedClientTypeOK /\ Undisturbed /\ Served /\ ~ Crossing
      BY <2>1, <2>2 DEF ServedInv, ClientInv
    <2>4. issue'[c] # issue[c]
      BY <2>1 DEF Provisioning, Issues
    <2>5. Issuing(c)
      BY <2>1, <2>3, <2>4, OwnStep
    <2>6. QED
      BY <2>1, <2>3, <2>5, IssuingServes DEF HandedRight
  <1>2. QED
    BY <1>1, ServedInvariant, PTL DEF ManagedClientSpec, HandedOut

-----------------------------------------------------------------------------
(* The trace of the client, which a cleanup that nobody disturbs keeps.    *)
(*                                                                         *)
(* TraceKept is about single steps; what they rest on is how the cleanup   *)
(* came there: it erases the ledger when it has seen the client gone, or   *)
(* saw nothing in the ledger that names one.                               *)

\* No reservation holds nothing.
Blank == reservation.owner = "nobody" => reservation = NoReservation

\* A call past the creation, and a cleanup that has chosen, have a client in hand.
HandPCs   == {"adopt", "complete", "issued", "noted", "bound"}
ChosenPCs == {"tombstone", "absent", "remove", "finalize"}

\* Whatever names a client names one that was created.
Minted(x) == x \in 0 .. minted
CallReal(c) ==
  /\ Minted(issue[c].got)
  /\ issue[c].pc \in HandPCs => issue[c].got # 0
SweepReal(d) ==
  /\ Minted(sweep[d].id) /\ Minted(sweep[d].spare)
  /\ sweep[d].pc \in ChosenPCs => sweep[d].id # 0
Real ==
  /\ Minted(reservation.client) /\ Minted(boundClient) /\ noted \subseteq 1 .. minted
  /\ \A c \in ClientCallers : CallReal(c)
  /\ \A d \in ClientSweepers : SweepReal(d)

\* What the row r of an undisturbed cleanup says of the rest, with the clients p, the
\* binding b, the client m of the reservation and the noted clients n: it has seen the
\* client it chose gone, or found that nothing names one, or leaves it to a job.
Cleared(r, p) == r.id # 0 /\ r.id \notin p
Through(r, p, b, m, n) ==
  r.alone =>
    /\ r.kind = "purge" /\ r.spare = 0 => n = {}
    /\ r.pc = "peek" => b = 0
    /\ r.pc = "finalize" => Cleared(r, p)
    /\ r.pc \in {"query", "erase"} =>
         \/ Cleared(r, p)
         \/ b = 0 /\ m = 0 /\ (r.kind = "purge" => n = {})
         \/ r.kind = "undo" /\ n # {}
    /\ r.pc = "rows" => r.kind = "purge" /\ (Cleared(r, p) \/ n = {})

Thorough ==
  \A d \in ClientSweepers :
    Sweeps(d, "idle") \/ Through(sweep[d], pool, boundClient, reservation.client, noted)

TraceInv == ManagedClientTypeOK /\ Blank /\ Real /\ Thorough

\* The reservation is kept, emptied or has an owner.
LEMMA BlankStays ==
  ASSUME Blank, \/ reservation' \in {reservation, NoReservation}
                \/ reservation'.owner # "nobody"
  PROVE  Blank'
  BY DEF Blank, NoReservation

\* A call joins the cleanups, which are then disturbed or at rest.
LEMMA DisturbedRest ==
  ASSUME ManagedClientTypeOK, sweep' = [d \in ClientSweepers |-> Joined(d)]
  PROVE  Thorough'
  <1>1. ASSUME NEW d \in ClientSweepers
        PROVE  sweep'[d].pc = "idle" \/ sweep'[d].alone = FALSE
    <2>1. sweep'[d] = Joined(d) /\ sweep[d] \in SweepRow
      BY DEF ManagedClientTypeOK
    <2>2. QED
      BY <2>1 DEF Joined, Sweeps, SweepRow
  <1>2. QED
    BY <1>1 DEF Thorough, Through, Sweeps

\* A cleanup that goes on disturbs the others.
LEMMA OthersRest ==
  ASSUME ManagedClientTypeOK, NEW d \in ClientSweepers, NEW row \in SweepRow,
         sweep' = SweepRows(d, row),
         row.pc = "idle" \/ Through(row, pool', boundClient', reservation'.client, noted')
  PROVE  Thorough'
  <1>1. ASSUME NEW e \in ClientSweepers, e # d
        PROVE  sweep'[e].pc = "idle" \/ sweep'[e].alone = FALSE
    <2>1. sweep'[e] = Joined(e) /\ sweep[e] \in SweepRow
      BY <1>1 DEF ManagedClientTypeOK, SweepRows
    <2>2. QED
      BY <2>1 DEF Joined, Sweeps, SweepRow
  <1>2. sweep'[d] = row
    BY SweepPlaces
  <1>3. ASSUME NEW e \in ClientSweepers
        PROVE  Sweeps(e, "idle")' \/ Through(sweep[e], pool, boundClient, reservation.client, noted)'
    <2>1. CASE e = d
      BY <1>2, <2>1 DEF Sweeps
    <2>2. CASE e # d
      BY <1>1, <2>2 DEF Sweeps, Through
    <2>3. QED
      BY <2>1, <2>2
  <1>4. QED
    BY <1>3 DEF Thorough

\* A cleanup that another process joins keeps its fallback.
LEMMA SpareStays ==
  ASSUME ManagedClientTypeOK, NEW d \in ClientSweepers
  PROVE  Joined(d).spare = sweep[d].spare
  <1>1. sweep[d] \in SweepRow
    BY DEF ManagedClientTypeOK
  <1>2. QED
    BY <1>1 DEF Joined, SweepRow

\* What the ledgers name was created before or is new.
LedgersReal ==
  /\ minted' \in Nat /\ minted <= minted'
  /\ reservation'.client \in 0 .. minted' /\ boundClient' \in 0 .. minted'
  /\ noted' \subseteq 1 .. minted'

\* A call goes on with a client that was created.
LEMMA CallReals ==
  ASSUME ManagedClientTypeOK, Real, LedgersReal, NEW c \in ClientCallers,
         NEW row \in IssueRow, CallGoes(c, row),
         row.got \in 0 .. minted', row.pc \in HandPCs => row.got # 0
  PROVE  Real'
  <1>1. minted \in Nat
    BY ManagedClientAssumption DEF ManagedClientTypeOK, ClientOrNone
  <1>2. ASSUME NEW o \in ClientCallers
        PROVE  CallReal(o)'
    <2>1. issue'[o] = IF o = c THEN row ELSE issue[o]
      BY CallStep
    <2>2. CallReal(o)
      BY DEF Real
    <2>3. QED
      BY <1>1, <2>1, <2>2 DEF CallReal, Minted, LedgersReal
  <1>3. ASSUME NEW d \in ClientSweepers
        PROVE  SweepReal(d)'
    <2>1. sweep'[d] = Joined(d)
      BY DEF CallGoes
    <2>2. /\ sweep'[d].pc = sweep[d].pc /\ sweep'[d].id = sweep[d].id
          /\ sweep'[d].spare = sweep[d].spare
      BY <2>1, JoinedStays, SpareStays
    <2>3. SweepReal(d)
      BY DEF Real
    <2>4. QED
      BY <1>1, <2>2, <2>3 DEF SweepReal, Minted, LedgersReal
  <1>4. QED
    BY <1>2, <1>3 DEF Real, Minted, LedgersReal

\* A cleanup goes on with a client that was created.
LEMMA SweepReals ==
  ASSUME ManagedClientTypeOK, Real, LedgersReal, NEW d \in ClientSweepers,
         NEW row \in SweepRow, sweep' = SweepRows(d, row), minted' = minted,
         \A o \in ClientCallers : issue'[o] \in {issue[o], NoIssue},
         row.id \in 0 .. minted, row.spare \in 0 .. minted, row.pc \in ChosenPCs => row.id # 0
  PROVE  Real'
  <1>1. minted \in Nat
    BY ManagedClientAssumption DEF ManagedClientTypeOK, ClientOrNone
  <1>2. ASSUME NEW o \in ClientCallers
        PROVE  CallReal(o)'
    <2>1. CallReal(o)
      BY DEF Real
    <2>2. NoIssue.got = 0 /\ NoIssue.pc \notin HandPCs
      BY DEF NoIssue, HandPCs
    <2>3. issue'[o] \in {issue[o], NoIssue}
      OBVIOUS
    <2>4. QED
      BY <1>1, <2>1, <2>2, <2>3 DEF CallReal, Minted
  <1>3. ASSUME NEW e \in ClientSweepers
        PROVE  SweepReal(e)'
    <2>1. CASE e = d
      BY <2>1, SweepPlaces DEF SweepReal, Minted
    <2>2. CASE e # d
      <3>1. /\ sweep'[e].pc = sweep[e].pc /\ sweep'[e].id = sweep[e].id
            /\ sweep'[e].spare = sweep[e].spare
        BY <2>2, SweepPlaces, SpareStays DEF SweepRows
      <3>2. SweepReal(e)
        BY DEF Real
      <3>3. QED
        BY <3>1, <3>2 DEF SweepReal, Minted
    <2>3. QED
      BY <2>1, <2>2
  <1>4. QED
    BY <1>2, <1>3 DEF Real, Minted, LedgersReal

-----------------------------------------------------------------------------
(* A deployment keeps that.                                                *)

\* The client that a call's next row names.
LEMMA CallGot ==
  ASSUME ManagedClientTypeOK, NEW c \in ClientCallers
  PROVE  /\ \A pc : CallAt(c, pc).got = issue[c].got
         /\ \A x, o : Handed(x, o).got = x
         /\ \A x : \A pc \in {"adopt", "complete"} :
              /\ [CallAt(c, pc) EXCEPT !.got = x].got = x
              /\ [CallAt(c, pc) EXCEPT !.got = x].pc = pc
         /\ NoIssue.got = 0 /\ NoIssue.pc = "idle"
  <1>1. issue[c] \in IssueRow
    BY DEF ManagedClientTypeOK
  <1>2. QED
    BY <1>1 DEF CallAt, Handed, IssueRow, NoIssue

\* What the call holds, and what the ledgers name, is a number up to minted.
LEMMA RealFacts ==
  ASSUME ManagedClientTypeOK, Real
  PROVE  /\ minted \in Nat /\ pool \subseteq 1 .. minted
         /\ reservation.client \in 0 .. minted /\ boundClient \in 0 .. minted
         /\ noted \subseteq 1 .. minted
         /\ \A c \in ClientCallers : /\ issue[c].got \in 0 .. minted
                                     /\ issue[c].pc \in HandPCs => issue[c].got # 0
         /\ \A d \in ClientSweepers : /\ sweep[d].id \in 0 .. minted
                                      /\ sweep[d].spare \in 0 .. minted
                                      /\ sweep[d].pc \in ChosenPCs => sweep[d].id # 0
  BY ManagedClientAssumption
     DEF ManagedClientTypeOK, ClientOrNone, Real, Minted, CallReal, SweepReal

\* A call that changes no ledger but the reservation, whose client is one it has or none.
LEMMA CallOn ==
  ASSUME TraceInv, NEW c \in ClientCallers, NEW row \in IssueRow, CallGoes(c, row),
         row.got \in 0 .. minted, row.pc \in HandPCs => row.got # 0,
         UNCHANGED <<minted, boundClient, noted>>,
         reservation'.client \in 0 .. minted,
         reservation' \in {reservation, NoReservation} \/ reservation'.owner # "nobody"
  PROVE  Blank' /\ Real' /\ Thorough'
  <1>1. LedgersReal
    BY RealFacts DEF TraceInv, LedgersReal
  <1>2. Real'
    BY <1>1, CallReals DEF TraceInv
  <1>3. QED
    BY <1>2, BlankStays, DisturbedRest DEF TraceInv, CallGoes

\* A reservation that its call forgets has an owner, or is as before.
LEMMA ForgottenBlank ==
  ASSUME NEW c \in ClientCallers, ManagedClientTypeOK
  PROVE  Forgotten(c) = reservation \/ Forgotten(c).owner # "nobody"
  BY DEF Forgotten, ManagedClientTypeOK, ReservationRow

\* A call that ends.
LEMMA CallEndsOn ==
  ASSUME TraceInv, NEW c \in ClientCallers, CallEnds(c),
         UNCHANGED <<minted, boundClient, noted>>
  PROVE  Blank' /\ Real' /\ Thorough'
  <1>1. /\ NoIssue \in IssueRow /\ NoIssue.got = 0 /\ NoIssue.pc \notin HandPCs
        /\ CallGoes(c, NoIssue) /\ reservation' = Forgotten(c)
    BY RowsTyped, CallGot DEF CallEnds, TraceInv, HandPCs
  <1>2. reservation'.client \in 0 .. minted /\ 0 \in 0 .. minted
    BY <1>1, ForgottenOwner, RealFacts DEF TraceInv
  <1>3. reservation' \in {reservation, NoReservation} \/ reservation'.owner # "nobody"
    BY <1>1, ForgottenBlank DEF TraceInv
  <1>4. QED
    BY <1>1, <1>2, <1>3, CallOn

\* Every step of a deployment.
LEMMA IssuingTraces ==
  ASSUME TraceInv, NEW c \in ClientCallers, Issuing(c)
  PROVE  Blank' /\ Real' /\ Thorough'
  <1> USE DEF Issues
  <1>0. ManagedClientTypeOK /\ Real
    BY DEF TraceInv
  <1>a. /\ minted \in Nat /\ 0 \in 0 .. minted /\ pool \subseteq 1 .. minted
        /\ issue[c].got \in 0 .. minted /\ reservation.client \in 0 .. minted
        /\ boundClient \in 0 .. minted /\ noted \subseteq 1 .. minted
        /\ issue[c].pc \in HandPCs => issue[c].got # 0
    BY <1>0, RealFacts
  <1>b. c # "nobody" /\ "past" # "nobody"
    BY ManagedClientAssumption
  <1>c. reservation \in ReservationRow
    BY <1>0 DEF ManagedClientTypeOK
  <1>d. ASSUME NEW pc \in {"reserve", "read", "observe", "find", "create", "release"},
               CallGoes(c, CallAt(c, pc)), UNCHANGED <<minted, boundClient, noted>>,
               reservation' = reservation
        PROVE  Blank' /\ Real' /\ Thorough'
    <2>1. /\ CallAt(c, pc) \in IssueRow /\ CallAt(c, pc).got = issue[c].got
          /\ CallAt(c, pc).pc = pc /\ pc \notin HandPCs
      BY <1>0, CallRowsTyped, CallGot, CallPlaces DEF HandPCs
    <2>2. QED
      BY <1>a, <1>d, <2>1, CallOn
  <1>e. ASSUME NEW x \in 1 .. minted, NEW o \in {"created", "found", "reused"},
               CallGoes(c, Handed(x, o)), UNCHANGED <<minted, boundClient, noted>>,
               reservation'.client \in 0 .. minted,
               reservation' = reservation \/ reservation'.owner # "nobody"
        PROVE  Blank' /\ Real' /\ Thorough'
    <2>1. x \in ClientOrNone
      BY <1>0, ManagedClientAssumption DEF ManagedClientTypeOK, ClientOrNone
    <2>2. Handed(x, o) \in IssueRow /\ Handed(x, o).got = x
      BY <1>0, <2>1, CallRowsTyped, CallGot
    <2>3. QED
      BY <1>e, <2>2, CallOn
  <1>f. ASSUME NEW x \in pool, NEW pc \in {"adopt", "complete"},
               CallGoes(c, [CallAt(c, pc) EXCEPT !.got = x]),
               UNCHANGED <<reservation, minted, boundClient, noted>>
        PROVE  Blank' /\ Real' /\ Thorough'
    <2>1. x \in ClientOrNone /\ x \in 0 .. minted /\ x # 0
      BY <1>0, <1>a, PoolTyped
    <2>2. [CallAt(c, pc) EXCEPT !.got = x] \in IssueRow
      BY <1>0, <2>1, CallRowsTyped
    <2>3. [CallAt(c, pc) EXCEPT !.got = x].got = x
      BY <1>0, CallGot
    <2>4. QED
      BY <1>a, <1>f, <2>1, <2>2, <2>3, CallOn
  <1>1. CASE Request(c)
    <2>1. CASE CallGoes(c, CallAt(c, "reserve"))
      BY <1>1, <1>d, <2>1 DEF Request, IdentityLedgers
    <2>2. CASE boundClient # 0 /\ CallGoes(c, Handed(boundClient, "reused"))
      <3>1. boundClient \in 1 .. minted
        BY <1>a, <2>2
      <3>2. QED
        BY <1>1, <1>a, <1>e, <2>2, <3>1 DEF Request, IdentityLedgers
    <2>3. QED
      BY <1>1, <2>1, <2>2 DEF Request
  <1>2. CASE ReserveClient(c)
    <2>1. PICK pc \in {"find", "read"} : CallGoes(c, CallAt(c, pc))
      BY <1>2 DEF ReserveClient
    <2>2. CASE reservation' = reservation
      BY <1>2, <1>d, <2>1, <2>2 DEF ReserveClient, IdentityLedgers
    <2>3. CASE reservation' = [owner |-> c, client |-> 0, deleting |-> FALSE]
      <3>1. /\ CallAt(c, pc) \in IssueRow /\ CallAt(c, pc).got = issue[c].got
            /\ CallAt(c, pc).pc = pc /\ pc \notin HandPCs
        BY <1>0, CallRowsTyped, CallGot, CallPlaces DEF HandPCs
      <3>2. reservation'.client = 0 /\ reservation'.owner # "nobody"
        BY <1>b, <2>3
      <3>3. UNCHANGED <<minted, boundClient, noted>>
        BY <1>2 DEF ReserveClient, IdentityLedgers
      <3>4. QED
        BY <1>a, <2>1, <3>1, <3>2, <3>3, CallOn
    <2>4. QED
      BY <1>2, <2>2, <2>3 DEF ReserveClient
  <1>3. CASE ReadReservation(c)
    <2>0. UNCHANGED <<minted, boundClient, noted>>
      BY <1>3 DEF ReadReservation, IdentityLedgers
    <2>1. CASE CallEnds(c)
      BY <2>0, <2>1, CallEndsOn
    <2>2. CASE \E pc \in {"reserve", "find", "observe"} :
                 CallGoes(c, CallAt(c, pc)) /\ UNCHANGED reservation
      BY <1>d, <2>0, <2>2
    <2>3. CASE /\ reservation.client # 0 /\ UNCHANGED reservation
               /\ CallGoes(c, Handed(reservation.client, "found"))
      <3>1. reservation.client \in 1 .. minted
        BY <1>a, <2>3
      <3>2. QED
        BY <1>a, <1>e, <2>0, <2>3, <3>1
    <2>4. QED
      BY <1>3, <2>1, <2>2, <2>3 DEF ReadReservation
  <1>4. CASE ObserveClient(c)
    <2>0. UNCHANGED <<minted, boundClient, noted>>
      BY <1>4 DEF ObserveClient, IdentityLedgers
    <2>1. QED
      BY <1>4, <1>d, <1>f, <2>0, CallEndsOn DEF ObserveClient
  <1>5. CASE AdoptClient(c)
    <2>0. UNCHANGED <<minted, boundClient, noted>>
      BY <1>5 DEF AdoptClient, IdentityLedgers
    <2>1. CASE CallEnds(c)
      BY <2>0, <2>1, CallEndsOn
    <2>2. CASE /\ Fillable(issue[c].got)
               /\ reservation' = [reservation EXCEPT !.client = issue[c].got]
               /\ CallGoes(c, Handed(issue[c].got, "found"))
      <3>1. issue[c].got \in 1 .. minted
        BY <1>5, <1>a DEF AdoptClient, HandPCs
      <3>2. reservation'.client \in 0 .. minted /\ reservation'.owner # "nobody"
        BY <1>a, <1>c, <2>2 DEF Fillable, ReservationRow
      <3>3. QED
        BY <1>e, <2>0, <2>2, <3>1, <3>2
    <2>3. QED
      BY <1>5, <2>1, <2>2 DEF AdoptClient
  <1>6. CASE FindClient(c)
    <2>0. UNCHANGED <<reservation, minted, boundClient, noted>>
      BY <1>6 DEF FindClient, IdentityLedgers
    <2>1. QED
      BY <1>6, <1>d, <1>f, <2>0 DEF FindClient
  <1>7. CASE CreateClient(c)
    <2>0. UNCHANGED <<reservation, boundClient, noted>>
      BY <1>7 DEF CreateClient, IdentityLedgers
    <2>1. CASE minted' = minted
      <3>1. CallGoes(c, CallAt(c, "release"))
        BY <1>7, <1>a, <2>1 DEF CreateClient
      <3>2. QED
        BY <1>d, <2>0, <2>1, <3>1
    <2>2. CASE minted < MaxClients /\ minted' = minted + 1
      <3>1. LedgersReal
        BY <1>a, <2>0, <2>2 DEF LedgersReal
      <3>2. PICK row \in IssueRow : /\ CallGoes(c, row) /\ row.got \in 0 .. minted'
                                    /\ row.pc \in HandPCs => row.got # 0
        <4>1. CASE CallGoes(c, CallAt(c, "release"))
          <5>1. /\ CallAt(c, "release") \in IssueRow
                /\ CallAt(c, "release").got = issue[c].got
                /\ CallAt(c, "release").pc = "release" /\ "release" \notin HandPCs
            BY <1>0, CallRowsTyped, CallGot, CallPlaces DEF HandPCs
          <5>2. issue[c].got \in 0 .. minted'
            BY <1>a, <2>2
          <5>3. QED
            BY <4>1, <5>1, <5>2
        <4>2. CASE CallGoes(c, [pc |-> "complete", got |-> minted', origin |-> "created"])
          <5>1. minted' \in ClientOrNone /\ minted' \in 0 .. minted' /\ minted' # 0
            BY <1>a, <2>2, ManagedClientAssumption DEF ClientOrNone
          <5>2. [pc |-> "complete", got |-> minted', origin |-> "created"] \in IssueRow
            BY <5>1 DEF IssueRow
          <5>3. QED
            BY <4>2, <5>1, <5>2
        <4>3. QED
          BY <1>7, <4>1, <4>2 DEF CreateClient
      <3>3. Real'
        BY <1>0, <3>1, <3>2, CallReals
      <3>4. QED
        BY <1>0, <2>0, <3>2, <3>3, BlankStays, DisturbedRest DEF TraceInv, CallGoes
    <2>3. QED
      BY <1>7, <2>1, <2>2 DEF CreateClient
  <1>8. CASE ReleaseClient(c)
    <2>0. UNCHANGED <<minted, boundClient, noted>> /\ CallGoes(c, NoIssue)
      BY <1>8 DEF ReleaseClient, IdentityLedgers
    <2>1. CASE reservation' = Forgotten(c)
      BY <2>0, <2>1, CallEndsOn DEF CallEnds
    <2>2. CASE reservation' = NoReservation
      <3>1. /\ NoIssue \in IssueRow /\ NoIssue.got = 0 /\ NoIssue.pc \notin HandPCs
            /\ reservation'.client = 0
        BY <1>0, <2>2, RowsTyped, CallGot DEF HandPCs, NoReservation
      <3>2. QED
        BY <1>a, <2>0, <2>2, <3>1, CallOn
    <2>3. QED
      BY <1>8, <2>1, <2>2 DEF ReleaseClient
  <1>9. CASE CompleteClient(c)
    <2>0. UNCHANGED <<minted, boundClient, noted>>
      BY <1>9 DEF CompleteClient, IdentityLedgers
    <2>1. CASE CallEnds(c)
      BY <2>0, <2>1, CallEndsOn
    <2>2. CASE /\ Fillable(issue[c].got)
               /\ reservation' = [reservation EXCEPT !.client = issue[c].got]
               /\ CallGoes(c, Handed(issue[c].got, issue[c].origin))
      <3>1. issue[c].got \in 1 .. minted
        BY <1>9, <1>a DEF CompleteClient, HandPCs
      <3>2. reservation'.client \in 0 .. minted /\ reservation'.owner # "nobody"
        BY <1>a, <1>c, <2>2 DEF Fillable, ReservationRow
      <3>3. issue[c].origin \in {"created", "found", "reused"}
        BY <1>0, CallRowsTyped
      <3>4. QED
        BY <1>e, <2>0, <2>2, <3>1, <3>2, <3>3
    <2>3. QED
      BY <1>9, <2>1, <2>2 DEF CompleteClient
  <1>10. ASSUME NEW pc \in {"noted", "bound"}, CallGoes(c, CallAt(c, pc)),
                issue[c].pc \in {"issued", "noted"}, UNCHANGED <<reservation, minted>>,
                boundClient' \in {boundClient, issue[c].got},
                noted' \in {noted, noted \cup {issue[c].got}}
         PROVE  Blank' /\ Real' /\ Thorough'
    <2>1. /\ CallAt(c, pc) \in IssueRow /\ CallAt(c, pc).got = issue[c].got
          /\ issue[c].got \in 1 .. minted
      BY <1>0, <1>a, <1>10, CallRowsTyped, CallGot DEF HandPCs
    <2>2. LedgersReal
      BY <1>a, <1>10, <2>1 DEF LedgersReal
    <2>3. Real'
      BY <1>0, <1>10, <1>a, <2>1, <2>2, CallReals
    <2>4. QED
      BY <1>0, <1>10, <2>3, BlankStays, DisturbedRest DEF TraceInv, CallGoes
  <1>11. CASE NoteClient(c) \/ BindClient(c)
    BY <1>10, <1>11 DEF NoteClient, BindClient
  <1>12. CASE JobReady(c) \/ CallerDies(c)
    BY <1>12, CallEndsOn DEF JobReady, CallerDies, IdentityLedgers
  <1>13. QED
    BY <1>1, <1>2, <1>3, <1>4, <1>5, <1>6, <1>7, <1>8, <1>9, <1>11, <1>12 DEF Issuing

-----------------------------------------------------------------------------
(* A cleanup keeps it.                                                     *)

\* What the next row of a cleanup keeps.
LEMMA SweepParts ==
  ASSUME ManagedClientTypeOK, NEW d \in ClientSweepers
  PROVE  /\ \A pc : /\ SweepTo(d, pc).pc = pc /\ SweepTo(d, pc).id = sweep[d].id
                    /\ SweepTo(d, pc).kind = sweep[d].kind
                    /\ SweepTo(d, pc).spare = sweep[d].spare
                    /\ SweepTo(d, pc).alone = sweep[d].alone
         /\ \A x : LET r == [SweepTo(d, "tombstone") EXCEPT !.id = x] IN
              /\ r.pc = "tombstone" /\ r.id = x /\ r.kind = sweep[d].kind
              /\ r.spare = sweep[d].spare /\ r.alone = sweep[d].alone
         /\ \A k : LET r == [SweepTo(d, "erase") EXCEPT !.keys = k] IN
              /\ r.pc = "erase" /\ r.id = sweep[d].id /\ r.kind = sweep[d].kind
              /\ r.spare = sweep[d].spare /\ r.alone = sweep[d].alone
         /\ NoSweep.pc = "idle" /\ NoSweep.id = 0 /\ NoSweep.spare = 0
  <1>1. sweep[d] \in SweepRow
    BY DEF ManagedClientTypeOK
  <1>2. QED
    BY <1>1 DEF SweepTo, SweepRow, NoSweep

\* A cleanup that goes on with a row the rest agrees with.
LEMMA SweepOn ==
  ASSUME TraceInv, NEW d \in ClientSweepers, NEW row \in SweepRow, SweepGoes(d, row),
         minted' = minted, reservation'.client \in {0, reservation.client},
         boundClient' \in {0, boundClient}, noted' \subseteq noted, Blank',
         row.id \in 0 .. minted, row.spare \in 0 .. minted, row.pc \in ChosenPCs => row.id # 0,
         row.pc = "idle" \/ Through(row, pool', boundClient', reservation'.client, noted')
  PROVE  Blank' /\ Real' /\ Thorough'
  <1>1. LedgersReal
    BY RealFacts DEF TraceInv, LedgersReal
  <1>2. sweep' = SweepRows(d, row) /\ issue' = issue
    BY DEF SweepGoes
  <1>3. Real'
    BY <1>1, <1>2, SweepReals DEF TraceInv
  <1>4. QED
    BY <1>2, <1>3, OthersRest DEF TraceInv

\* A cleanup that fails, having left the job rows alone.
LEMMA FailOn ==
  ASSUME TraceInv, NEW d \in ClientSweepers, CleanupFails(d), ~ Sweeps(d, "idle"),
         minted' = minted, reservation'.client \in {0, reservation.client},
         boundClient' \in {0, boundClient}, noted' = noted, Blank'
  PROVE  Blank' /\ Real' /\ Thorough'
  <1>1. ManagedClientTypeOK /\ Through(sweep[d], pool, boundClient, reservation.client, noted)
    BY DEF TraceInv, Thorough
  <1>2. /\ sweep[d].id \in 0 .. minted /\ 0 \in 0 .. minted
        /\ sweep[d].spare \in 0 .. minted
    BY <1>1, RealFacts DEF TraceInv
  <1>3. CASE SweepGoes(d, NoSweep)
    <2>1. NoSweep \in SweepRow /\ NoSweep.pc = "idle" /\ NoSweep.id = 0 /\ NoSweep.spare = 0
      BY <1>1, RowsTyped, SweepParts
    <2>2. NoSweep.pc \notin ChosenPCs
      BY <2>1 DEF ChosenPCs
    <2>3. QED
      BY <1>2, <1>3, <2>1, <2>2, SweepOn
  <1>4. CASE /\ SweepGoes(d, SweepTo(d, "rows"))
             /\ sweep[d].kind = "purge" /\ sweep[d].spare = 0
    <2> DEFINE r == SweepTo(d, "rows")
    <2>1. /\ r \in SweepRow /\ r.pc = "rows" /\ r.id = sweep[d].id /\ r.kind = "purge"
          /\ r.alone = sweep[d].alone /\ r.spare = sweep[d].spare
      BY <1>1, <1>4, RowsTyped, SweepParts
    <2>2. r.alone => noted = {}
      BY <1>1, <1>4, <2>1 DEF Through
    <2> HIDE DEF r
    <2>3. Through(r, pool', boundClient', reservation'.client, noted')
      BY <2>1, <2>2 DEF Through
    <2>4. r.pc \notin ChosenPCs
      BY <2>1 DEF ChosenPCs
    <2>5. SweepGoes(d, r)
      BY <1>4 DEF r
    <2>6. QED
      BY <1>2, <2>1, <2>3, <2>4, <2>5, SweepOn
  <1>5. QED
    BY <1>3, <1>4 DEF CleanupFails

\* A cleanup that goes from one place to the next and leaves the ledgers alone.
LEMMA SweepMoves ==
  ASSUME TraceInv, NEW d \in ClientSweepers, NEW pc, SweepTo(d, pc) \in SweepRow,
         SweepGoes(d, SweepTo(d, pc)),
         UNCHANGED <<minted, boundClient, noted>>, reservation'.client = reservation.client,
         Blank', ~ Sweeps(d, "idle"),
         pc \in ChosenPCs => sweep[d].id # 0,
         sweep[d].alone => /\ pc = "peek" => boundClient = 0
                           /\ pc = "finalize" => Cleared(sweep[d], pool')
                           /\ pc \in {"query", "erase"} =>
                                \/ Cleared(sweep[d], pool')
                                \/ /\ boundClient = 0 /\ reservation.client = 0
                                   /\ sweep[d].kind = "purge" => noted = {}
                                \/ sweep[d].kind = "undo" /\ noted # {}
                           /\ pc = "rows" => sweep[d].kind = "purge"
                           /\ pc = "rows" => Cleared(sweep[d], pool') \/ noted = {}
  PROVE  Blank' /\ Real' /\ Thorough'
  <1> DEFINE r == SweepTo(d, pc)
  <1>1. ManagedClientTypeOK /\ Through(sweep[d], pool, boundClient, reservation.client, noted)
    BY DEF TraceInv, Thorough
  <1>2. sweep[d].id \in 0 .. minted /\ sweep[d].spare \in 0 .. minted
    BY <1>1, RealFacts DEF TraceInv
  <1>3. /\ r \in SweepRow /\ r.pc = pc /\ r.id = sweep[d].id /\ r.kind = sweep[d].kind
        /\ r.spare = sweep[d].spare /\ r.alone = sweep[d].alone /\ SweepGoes(d, r)
    BY <1>1, SweepParts
  <1> HIDE DEF r
  <1>4. ASSUME r.alone
        PROVE  /\ r.kind = "purge" /\ r.spare = 0 => noted = {}
               /\ r.pc = "peek" => boundClient = 0
               /\ r.pc = "finalize" => Cleared(r, pool')
               /\ r.pc \in {"query", "erase"} =>
                    \/ Cleared(r, pool')
                    \/ /\ boundClient = 0 /\ reservation.client = 0
                       /\ r.kind = "purge" => noted = {}
                    \/ r.kind = "undo" /\ noted # {}
               /\ r.pc = "rows" => r.kind = "purge" /\ (Cleared(r, pool') \/ noted = {})
    <2>1. sweep[d].alone /\ (Cleared(r, pool') <=> Cleared(sweep[d], pool'))
      BY <1>3, <1>4 DEF Cleared
    <2>2. r.kind = "purge" /\ r.spare = 0 => noted = {}
      BY <1>1, <1>3, <2>1 DEF Through
    <2>3. r.pc = "peek" => boundClient = 0
      BY <1>3, <2>1
    <2>4. r.pc = "finalize" => Cleared(r, pool')
      BY <1>3, <2>1
    <2>5. r.pc \in {"query", "erase"} =>
            \/ Cleared(r, pool')
            \/ /\ boundClient = 0 /\ reservation.client = 0
               /\ r.kind = "purge" => noted = {}
            \/ r.kind = "undo" /\ noted # {}
      BY <1>3, <2>1
    <2>6. r.pc = "rows" => r.kind = "purge" /\ (Cleared(r, pool') \/ noted = {})
      BY <1>3, <2>1
    <2>7. QED
      BY <2>2, <2>3, <2>4, <2>5, <2>6
  <1>5. Through(r, pool', boundClient', reservation'.client, noted')
    BY <1>4 DEF Through
  <1>6. QED
    BY <1>2, <1>3, <1>5, SweepOn

\* A cleanup that begins.
LEMMA SweepBegins ==
  ASSUME TraceInv, NEW d \in ClientSweepers, NEW kind \in {"purge", "orphan"},
         NEW x \in 0 .. minted, SweepGoes(d, Begun(kind, "choose", 0, x)),
         UNCHANGED <<reservation, minted, boundClient, noted>>,
         kind = "purge" /\ x = 0 => noted = {}
  PROVE  Blank' /\ Real' /\ Thorough'
  <1> DEFINE r == Begun(kind, "choose", 0, x)
  <1>1. ManagedClientTypeOK /\ 0 \in 0 .. minted /\ x \in ClientOrNone /\ 0 \in ClientOrNone
    BY RealFacts, ManagedClientAssumption DEF TraceInv, ManagedClientTypeOK, ClientOrNone
  <1>2. /\ r \in SweepRow /\ r.pc = "choose" /\ r.id = 0 /\ r.kind = kind /\ r.spare = x
        /\ SweepGoes(d, r)
    BY <1>1, BegunTyped DEF Begun
  <1> HIDE DEF r
  <1>3. Through(r, pool', boundClient', reservation'.client, noted') /\ r.pc \notin ChosenPCs
    BY <1>2 DEF Through, ChosenPCs
  <1>4. Blank'
    BY BlankStays DEF TraceInv
  <1>5. QED
    BY <1>1, <1>2, <1>3, <1>4, SweepOn

\* A compensation begins with its job's client, or leaves the client to a job.
LEMMA CompensateTraces ==
  ASSUME TraceInv, NEW d \in ClientSweepers, Compensate(d)
  PROVE  Blank' /\ Real' /\ Thorough'
  <1>0. ManagedClientTypeOK /\ Real
    BY DEF TraceInv
  <1>1. PICK c \in ClientCallers :
          /\ issue[c].got \in noted
          /\ issue' = [issue EXCEPT ![c] = NoIssue] /\ reservation' = Forgotten(c)
          /\ \/ \E kind \in {"undo", "client only"} :
                  sweep' = SweepRows(d, Begun(kind, "tombstone", issue[c].got, 0))
             \/ sweep' = SweepRows(d, Begun("undo", "query", 0, 0))
    BY DEF Compensate
  <1>2. UNCHANGED <<minted, boundClient, noted>>
    BY DEF Compensate
  <1>a. minted \in Nat /\ noted \subseteq 1 .. minted
    BY <1>0, RealFacts
  <1>b. issue[c].got \in ClientOrNone /\ 0 \in ClientOrNone
    BY <1>0, CallRowsTyped, ManagedClientAssumption DEF ClientOrNone
  <1>3. /\ minted \in Nat /\ issue[c].got \in 0 .. minted /\ 0 \in 0 .. minted
        /\ noted # {} /\ issue[c].got # 0
    <2>1. issue[c].got \in noted
      BY <1>1
    <2>2. issue[c].got \in 1 .. minted
      BY <1>a, <2>1
    <2>3. QED
      BY <1>a, <2>1, <2>2
  <1>4. PICK row \in SweepRow :
          /\ sweep' = SweepRows(d, row) /\ row.id \in 0 .. minted /\ row.spare = 0
          /\ row.pc \in ChosenPCs => row.id # 0
          /\ Through(row, pool', boundClient', reservation'.client, noted')
    <2>1. ASSUME NEW kind \in {"undo", "client only"},
                 sweep' = SweepRows(d, Begun(kind, "tombstone", issue[c].got, 0))
          PROVE  \E row \in SweepRow :
                   /\ sweep' = SweepRows(d, row) /\ row.id \in 0 .. minted /\ row.spare = 0
                   /\ row.pc \in ChosenPCs => row.id # 0
                   /\ Through(row, pool', boundClient', reservation'.client, noted')
      <3> DEFINE r == Begun(kind, "tombstone", issue[c].got, 0)
      <3>1. /\ r \in SweepRow /\ r.pc = "tombstone" /\ r.id = issue[c].got /\ r.kind = kind
            /\ r.spare = 0 /\ sweep' = SweepRows(d, r)
        BY <1>b, <2>1, BegunTyped DEF Begun
      <3> HIDE DEF r
      <3>2. Through(r, pool', boundClient', reservation'.client, noted')
        BY <3>1 DEF Through
      <3>3. QED
        BY <1>3, <3>1, <3>2
    <2>2. CASE sweep' = SweepRows(d, Begun("undo", "query", 0, 0))
      <3> DEFINE r == Begun("undo", "query", 0, 0)
      <3>1. /\ r \in SweepRow /\ r.pc = "query" /\ r.id = 0 /\ r.kind = "undo"
            /\ r.spare = 0 /\ sweep' = SweepRows(d, r)
        BY <1>b, <2>2, BegunTyped DEF Begun
      <3> HIDE DEF r
      <3>2. Through(r, pool', boundClient', reservation'.client, noted')
        BY <1>2, <1>3, <3>1 DEF Through
      <3>3. r.pc \notin ChosenPCs /\ r.id \in 0 .. minted
        BY <1>3, <3>1 DEF ChosenPCs
      <3>4. QED
        BY <3>1, <3>2, <3>3
    <2>3. QED
      BY <1>1, <2>1, <2>2
  <1>5. LedgersReal
    <2>1. reservation'.client = reservation.client
      BY <1>0, <1>1, ForgottenOwner
    <2>2. QED
      BY <1>0, <1>2, <2>1, RealFacts DEF LedgersReal
  <1>6. \A o \in ClientCallers : issue'[o] \in {issue[o], NoIssue}
    BY <1>0, <1>1 DEF ManagedClientTypeOK
  <1>7. Real' /\ Thorough'
    BY <1>0, <1>2, <1>3, <1>4, <1>5, <1>6, SweepReals, OthersRest
  <1>8. Blank'
    BY <1>0, <1>1, ForgottenBlank, BlankStays DEF TraceInv
  <1>9. QED
    BY <1>7, <1>8

\* Every step of a cleanup.
LEMMA SweepingTraces ==
  ASSUME TraceInv, NEW d \in ClientSweepers, Sweeping(d)
  PROVE  Blank' /\ Real' /\ Thorough'
  <1> USE DEF Sweeps
  <1>0. ManagedClientTypeOK /\ Real
    BY DEF TraceInv
  <1>a. /\ minted \in Nat /\ 0 \in 0 .. minted /\ reservation.client \in 0 .. minted
        /\ boundClient \in 0 .. minted /\ noted \subseteq 1 .. minted
        /\ sweep[d].id \in 0 .. minted /\ sweep[d].spare \in 0 .. minted
        /\ sweep[d].pc \in ChosenPCs => sweep[d].id # 0
    BY <1>0, RealFacts
  <1>b. sweep[d].pc # "idle" =>
          Through(sweep[d], pool, boundClient, reservation.client, noted)
    BY DEF TraceInv, Thorough
  <1>c. CASE /\ CleanupFails(d) /\ sweep[d].pc # "idle"
             /\ UNCHANGED <<minted, boundClient, noted>>
             /\ reservation'.client = reservation.client /\ Blank'
    BY <1>c, FailOn
  <1>d. reservation' = reservation => Blank'
    BY BlankStays DEF TraceInv
  <1>e. ASSUME SweepGoes(d, AfterClient(d)), UNCHANGED <<minted, boundClient, noted>>,
               reservation'.client \in {0, reservation.client}, Blank',
               sweep[d].pc # "idle", sweep[d].alone => Cleared(sweep[d], pool')
        PROVE  Blank' /\ Real' /\ Thorough'
    <2>1. CASE sweep[d].kind = "client only"
      <3>1. NoSweep \in SweepRow /\ NoSweep.pc = "idle" /\ NoSweep.id = 0 /\ NoSweep.spare = 0
        BY <1>0, RowsTyped, SweepParts
      <3>2. NoSweep.pc \notin ChosenPCs
        BY <3>1 DEF ChosenPCs
      <3>3. QED
        BY <1>a, <1>e, <2>1, <3>1, <3>2, SweepOn DEF AfterClient
    <2>2. CASE sweep[d].kind # "client only"
      <3> DEFINE r == SweepTo(d, "query")
      <3>a. r \in SweepRow /\ SweepGoes(d, r)
        BY <1>0, <1>e, <2>2, SweepRowsTyped DEF AfterClient
      <3>1. /\ r \in SweepRow /\ r.pc = "query" /\ r.id = sweep[d].id
            /\ r.kind = sweep[d].kind /\ r.spare = sweep[d].spare
            /\ r.alone = sweep[d].alone /\ SweepGoes(d, r)
        BY <1>0, <3>a, SweepParts
      <3> HIDE DEF r
      <3>2. Through(r, pool', boundClient', reservation'.client, noted')
        BY <1>b, <1>e, <3>1 DEF Through, Cleared
      <3>3. r.pc \notin ChosenPCs
        BY <3>1 DEF ChosenPCs
      <3>4. QED
        BY <1>a, <1>e, <3>1, <3>2, <3>3, SweepOn
    <2>3. QED
      BY <2>1, <2>2
  <1>1. CASE Compensate(d)
    BY <1>1, CompensateTraces
  <1>2. CASE Purge(d)
    <2>1. UNCHANGED <<reservation, minted, boundClient, noted>>
      BY <1>2 DEF Purge, IdentityLedgers
    <2>2. PICK x \in 0 .. minted : /\ SweepGoes(d, Begun("purge", "choose", 0, x))
                                   /\ x = 0 => noted = {}
      <3>1. CASE noted = {} /\ SweepGoes(d, Begun("purge", "choose", 0, 0))
        BY <1>a, <3>1
      <3>2. ASSUME NEW x \in ClientIds, noted = {x}, SweepGoes(d, Begun("purge", "choose", 0, x))
            PROVE  \E y \in 0 .. minted : /\ SweepGoes(d, Begun("purge", "choose", 0, y))
                                          /\ y = 0 => noted = {}
        <4>1. x \in 1 .. minted
          BY <1>a, <3>2
        <4>2. x \in 0 .. minted /\ x # 0
          BY <1>a, <4>1
        <4>3. QED
          BY <3>2, <4>2
      <3>3. QED
        BY <1>2, <3>1, <3>2 DEF Purge
    <2>3. QED
      BY <2>1, <2>2, SweepBegins
  <1>3. CASE ReclaimOrphan(d)
    <2>1. UNCHANGED <<reservation, minted, boundClient, noted>>
      BY <1>3 DEF ReclaimOrphan, IdentityLedgers
    <2>2. QED
      BY <1>3, <1>a, <2>1, SweepBegins DEF ReclaimOrphan
  <1>f. ASSUME NEW x \in 1 .. minted, SweepGoes(d, [SweepTo(d, "tombstone") EXCEPT !.id = x]),
               UNCHANGED <<reservation, minted, boundClient, noted>>, sweep[d].pc # "idle"
        PROVE  Blank' /\ Real' /\ Thorough'
    <2> DEFINE r == [SweepTo(d, "tombstone") EXCEPT !.id = x]
    <2>1. x \in ClientOrNone
      BY <1>0, ManagedClientAssumption DEF ManagedClientTypeOK, ClientOrNone
    <2>2. r \in SweepRow /\ SweepGoes(d, r)
      BY <1>0, <1>f, <2>1, SweepRowsTyped
    <2>3. /\ r.pc = "tombstone" /\ r.id = x /\ r.kind = sweep[d].kind
          /\ r.spare = sweep[d].spare /\ r.alone = sweep[d].alone
      BY <1>0, SweepParts
    <2> HIDE DEF r
    <2>4. Through(r, pool', boundClient', reservation'.client, noted')
      BY <1>b, <1>f, <2>3 DEF Through
    <2>5. QED
      BY <1>a, <1>d, <1>f, <2>2, <2>3, <2>4, SweepOn
  <1>4. CASE ChooseBound(d)
    <2>0. UNCHANGED <<reservation, minted, boundClient, noted>> /\ sweep[d].pc = "choose"
      BY <1>4 DEF ChooseBound, IdentityLedgers
    <2>1. CASE boundClient = 0 /\ SweepGoes(d, SweepTo(d, "peek"))
      <3>1. SweepTo(d, "peek") \in SweepRow
        BY <1>0, SweepRowsTyped
      <3>2. QED
        BY <1>d, <2>0, <2>1, <3>1, SweepMoves DEF ChosenPCs
    <2>2. CASE boundClient # 0 /\ SweepGoes(d, [SweepTo(d, "tombstone") EXCEPT !.id = boundClient])
      <3>1. boundClient \in 1 .. minted
        BY <1>a, <2>2
      <3>2. QED
        BY <1>f, <2>0, <2>2, <3>1
    <2>3. QED
      BY <1>4, <2>1, <2>2 DEF ChooseBound
  <1>5. CASE ChooseReserved(d)
    <2>0. UNCHANGED <<reservation, minted, boundClient, noted>> /\ sweep[d].pc = "peek"
      BY <1>5 DEF ChooseReserved, IdentityLedgers
    <2> DEFINE id == IF reservation = NoReservation THEN sweep[d].spare ELSE reservation.client
    <2>1. ASSUME SweepGoes(d, [SweepTo(d, "tombstone") EXCEPT !.id = id]), id # 0, id \in 0 .. minted
          PROVE  Blank' /\ Real' /\ Thorough'
      <3>1. id \in 1 .. minted
        BY <1>a, <2>1
      <3> HIDE DEF id
      <3>2. QED
        BY <1>f, <2>0, <2>1, <3>1
    <2>2. CASE id = 0 /\ reservation.owner = "nobody" /\ SweepGoes(d, SweepTo(d, "query"))
      <3>1. reservation = NoReservation /\ reservation.client = 0 /\ sweep[d].spare = 0
        BY <2>2 DEF TraceInv, Blank, NoReservation
      <3>2. sweep[d].alone => boundClient = 0 /\ (sweep[d].kind = "purge" => noted = {})
        BY <1>b, <2>0, <3>1 DEF Through
      <3>3. SweepTo(d, "query") \in SweepRow
        BY <1>0, SweepRowsTyped
      <3>4. QED
        BY <1>d, <2>0, <2>2, <3>1, <3>2, <3>3, SweepMoves DEF ChosenPCs
    <2>3. CASE CleanupFails(d)
      BY <1>c, <1>d, <2>0, <2>3
    <2>4. id \in 0 .. minted
      BY <1>a
    <2>5. \/ id # 0 /\ SweepGoes(d, [SweepTo(d, "tombstone") EXCEPT !.id = id])
          \/ id = 0 /\ reservation.owner = "nobody" /\ SweepGoes(d, SweepTo(d, "query"))
          \/ CleanupFails(d)
      BY <1>5 DEF ChooseReserved
    <2> HIDE DEF id
    <2>6. QED
      BY <2>1, <2>2, <2>3, <2>4, <2>5
  <1>6. CASE Tombstone(d)
    <2>0. UNCHANGED <<minted, boundClient, noted, pool>> /\ sweep[d].pc = "tombstone"
      BY <1>6 DEF Tombstone, IdentityLedgers
    <2>1. sweep[d].id # 0
      BY <1>a, <2>0 DEF ChosenPCs
    <2>2. CASE /\ reservation.client = sweep[d].id
               /\ reservation' = [reservation EXCEPT !.deleting = TRUE]
               /\ Carried(d, SweepTo(d, "remove"))
      <3>1. reservation.owner # "nobody"
        BY <2>1, <2>2 DEF TraceInv, Blank, NoReservation
      <3>2. reservation'.client = reservation.client /\ reservation'.owner = reservation.owner
        BY <1>0, <2>2 DEF ManagedClientTypeOK, ReservationRow
      <3>3. Blank'
        BY <3>1, <3>2, BlankStays DEF TraceInv
      <3>4. SweepTo(d, "remove") \in SweepRow
        BY <1>0, SweepRowsTyped
      <3>5. CASE SweepGoes(d, SweepTo(d, "remove"))
        BY <2>0, <2>1, <3>2, <3>3, <3>4, <3>5, SweepMoves
      <3>6. CASE CleanupFails(d)
        BY <1>c, <2>0, <3>2, <3>3, <3>6
      <3>7. QED
        BY <2>2, <3>5, <3>6 DEF Carried
    <2>3. CASE SweepGoes(d, SweepTo(d, "absent")) /\ UNCHANGED reservation
      <3>1. SweepTo(d, "absent") \in SweepRow
        BY <1>0, SweepRowsTyped
      <3>2. QED
        BY <1>d, <2>0, <2>1, <2>3, <3>1, SweepMoves
    <2>4. QED
      BY <1>6, <2>2, <2>3 DEF Tombstone
  <1>7. CASE CheckAbsent(d)
    <2>0. /\ UNCHANGED <<reservation, minted, boundClient, noted, pool>>
          /\ sweep[d].pc = "absent"
      BY <1>7 DEF CheckAbsent, IdentityLedgers
    <2>1. CASE Absent(sweep[d].id) /\ SweepGoes(d, AfterClient(d))
      <3>1. Cleared(sweep[d], pool')
        BY <1>a, <2>0, <2>1 DEF Cleared, Absent, ChosenPCs
      <3>2. QED
        BY <1>d, <1>e, <2>0, <2>1, <3>1
    <2>2. CASE CleanupFails(d)
      BY <1>c, <1>d, <2>0, <2>2
    <2>3. QED
      BY <1>7, <2>1, <2>2 DEF CheckAbsent
  <1>8. CASE RemoveClient(d)
    <2>0. /\ UNCHANGED <<reservation, minted, boundClient, noted>>
          /\ sweep[d].pc = "remove" /\ pool' = pool \ {sweep[d].id}
      BY <1>8 DEF RemoveClient, IdentityLedgers
    <2>1. CASE SweepGoes(d, SweepTo(d, "finalize"))
      <3>1. sweep[d].id # 0 /\ Cleared(sweep[d], pool')
        BY <1>a, <2>0 DEF Cleared, ChosenPCs
      <3>2. SweepTo(d, "finalize") \in SweepRow
        BY <1>0, SweepRowsTyped
      <3>3. QED
        BY <1>d, <2>0, <2>1, <3>1, <3>2, SweepMoves
    <2>2. CASE CleanupFails(d)
      BY <1>c, <1>d, <2>0, <2>2
    <2>3. QED
      BY <1>8, <2>1, <2>2 DEF RemoveClient, Carried
  <1>9. CASE Finalize(d)
    <2>0. UNCHANGED <<minted, boundClient, noted, pool>> /\ sweep[d].pc = "finalize"
      BY <1>9 DEF Finalize
    <2>1. reservation' \in {reservation, NoReservation}
      BY <1>9 DEF Finalize
    <2>2. Blank' /\ reservation'.client \in {0, reservation.client}
      BY <2>1, BlankStays DEF TraceInv, NoReservation
    <2>3. CASE SweepGoes(d, AfterClient(d))
      <3>1. sweep[d].alone => Cleared(sweep[d], pool')
        BY <1>b, <2>0 DEF Through
      <3>2. QED
        BY <1>e, <2>0, <2>2, <2>3, <3>1
    <2>4. CASE CleanupFails(d)
      BY <2>0, <2>2, <2>4, FailOn
    <2>5. QED
      BY <1>9, <2>3, <2>4 DEF Finalize, Carried
  <1>10. CASE QueryLedger(d)
    <2>0. UNCHANGED <<reservation, minted, boundClient, noted, pool>> /\ sweep[d].pc = "query"
      BY <1>10 DEF QueryLedger, IdentityLedgers
    <2>1. PICK k \in SUBSET {"reservation", "binding"} :
            SweepGoes(d, [SweepTo(d, "erase") EXCEPT !.keys = k])
      BY <1>10 DEF QueryLedger
    <2> DEFINE r == [SweepTo(d, "erase") EXCEPT !.keys = k]
    <2>2. r \in SweepRow /\ SweepGoes(d, r)
      BY <1>0, <2>1, SweepRowsTyped
    <2>3. /\ r.pc = "erase" /\ r.id = sweep[d].id /\ r.kind = sweep[d].kind
          /\ r.spare = sweep[d].spare /\ r.alone = sweep[d].alone
      BY <1>0, SweepParts
    <2> HIDE DEF r
    <2>4. Through(r, pool', boundClient', reservation'.client, noted') /\ r.pc \notin ChosenPCs
      BY <1>b, <2>0, <2>3 DEF Through, Cleared, ChosenPCs
    <2>5. QED
      BY <1>a, <1>d, <2>0, <2>2, <2>3, <2>4, SweepOn
  <1>11. CASE EraseLedger(d)
    <2>0. UNCHANGED <<minted, noted, pool>> /\ sweep[d].pc = "erase"
      BY <1>11 DEF EraseLedger
    <2>1. reservation' \in {reservation, NoReservation} /\ boundClient' \in {0, boundClient}
      BY <1>11 DEF EraseLedger, Erases
    <2>2. Blank' /\ reservation'.client \in {0, reservation.client}
      BY <2>1, BlankStays DEF TraceInv, NoReservation
    <2>3. CASE sweep[d].kind = "purge" /\ SweepGoes(d, SweepTo(d, "rows"))
      <3> DEFINE r == SweepTo(d, "rows")
      <3>1. /\ r \in SweepRow /\ r.pc = "rows" /\ r.id = sweep[d].id
            /\ r.kind = "purge" /\ r.spare = sweep[d].spare
            /\ r.alone = sweep[d].alone /\ SweepGoes(d, r)
        BY <1>0, <2>3, SweepRowsTyped, SweepParts
      <3> HIDE DEF r
      <3>2. Through(r, pool', boundClient', reservation'.client, noted') /\ r.pc \notin ChosenPCs
        BY <1>b, <2>0, <2>3, <3>1 DEF Through, Cleared, ChosenPCs
      <3>3. QED
        BY <1>a, <2>0, <2>1, <2>2, <3>1, <3>2, SweepOn
    <2>4. CASE sweep[d].kind = "undo" /\ SweepGoes(d, SweepTo(d, "record"))
      <3> DEFINE r == SweepTo(d, "record")
      <3>1. /\ r \in SweepRow /\ r.pc = "record" /\ r.id = sweep[d].id
            /\ r.kind = "undo" /\ r.spare = sweep[d].spare /\ SweepGoes(d, r)
        BY <1>0, <2>4, SweepRowsTyped, SweepParts
      <3> HIDE DEF r
      <3>2. Through(r, pool', boundClient', reservation'.client, noted') /\ r.pc \notin ChosenPCs
        BY <3>1 DEF Through, ChosenPCs
      <3>3. QED
        BY <1>a, <2>0, <2>1, <2>2, <3>1, <3>2, SweepOn
    <2>5. CASE SweepGoes(d, NoSweep)
      <3>1. NoSweep \in SweepRow /\ NoSweep.pc = "idle" /\ NoSweep.id = 0 /\ NoSweep.spare = 0
        BY <1>0, RowsTyped, SweepParts
      <3>2. NoSweep.pc \notin ChosenPCs
        BY <3>1 DEF ChosenPCs
      <3>3. QED
        BY <1>a, <2>0, <2>1, <2>2, <2>5, <3>1, <3>2, SweepOn
    <2>6. CASE CleanupFails(d)
      BY <2>0, <2>1, <2>2, <2>6, FailOn
    <2>7. QED
      BY <1>11, <2>3, <2>4, <2>5, <2>6 DEF EraseLedger
  <1>g. ASSUME UNCHANGED <<reservation, minted, boundClient>>, noted' \in {noted, {}},
               sweep[d].pc # "idle", SweepGoes(d, SweepTo(d, "record")) \/ SweepGoes(d, NoSweep)
        PROVE  Blank' /\ Real' /\ Thorough'
    <2>a. /\ NoSweep \in SweepRow /\ NoSweep.pc = "idle" /\ NoSweep.id = 0
          /\ NoSweep.spare = 0 /\ SweepTo(d, "record") \in SweepRow
      BY <1>0, RowsTyped, SweepRowsTyped, SweepParts
    <2>b. /\ SweepTo(d, "record").pc = "record" /\ SweepTo(d, "record").id = sweep[d].id
          /\ SweepTo(d, "record").spare = sweep[d].spare
      BY <1>0, SweepParts
    <2>1. PICK row \in SweepRow : /\ SweepGoes(d, row) /\ row.pc \in {"record", "idle"}
                                  /\ row.id \in 0 .. minted /\ row.spare \in 0 .. minted
      BY <1>a, <1>g, <2>a, <2>b
    <2>2. Through(row, pool', boundClient', reservation'.client, noted') \/ row.pc = "idle"
      <3>1. CASE row.pc = "idle"
        BY <3>1
      <3>2. CASE SweepGoes(d, SweepTo(d, "record"))
        <4> DEFINE r == SweepTo(d, "record")
        <4>1. /\ r \in SweepRow /\ r.pc = "record" /\ r.id = sweep[d].id
              /\ r.kind = sweep[d].kind /\ r.spare = sweep[d].spare
              /\ r.alone = sweep[d].alone /\ SweepGoes(d, r)
          BY <1>0, <3>2, SweepRowsTyped, SweepParts
        <4>2. row = r
          BY <1>0, <2>1, <4>1, SweepPlaces DEF SweepGoes
        <4> HIDE DEF r
        <4>3. QED
          BY <1>b, <1>g, <4>1, <4>2 DEF Through
      <3>3. CASE SweepGoes(d, NoSweep)
        BY <1>0, <2>1, <2>a, <3>3, SweepPlaces DEF SweepGoes
      <3>4. QED
        BY <1>g, <3>2, <3>3
    <2>3. row.pc \notin ChosenPCs
      BY <2>1 DEF ChosenPCs
    <2>4. QED
      BY <1>d, <1>g, <2>1, <2>2, <2>3, SweepOn
  <1>12. CASE DropRows(d)
    BY <1>12, <1>g DEF DropRows
  <1>13. CASE DropRecord(d)
    BY <1>13, <1>g DEF DropRecord
  <1>14. CASE SweepFails(d)
    <2>0. /\ UNCHANGED <<reservation, minted, boundClient, noted, pool>>
          /\ sweep[d].pc # "idle"
      BY <1>14 DEF SweepFails, IdentityLedgers
    <2>1. QED
      BY <1>14, <1>c, <1>d, <1>g, <2>0 DEF SweepFails
  <1>15. QED
    BY <1>1, <1>2, <1>3, <1>4, <1>5, <1>6, <1>7, <1>8, <1>9, <1>10, <1>11, <1>12, <1>13,
       <1>14 DEF Sweeping

\* Whatever names a client names one that was created; a call past the creation and a
\* cleanup that has chosen have one in hand; and how far a cleanup that nobody disturbs
\* has come tells what it has seen of its client.
THEOREM TraceInvariant == ManagedClientSpec => []TraceInv
  <1>1. ManagedClientInit => Blank /\ Real /\ Thorough
    <2>1. SUFFICES ASSUME ManagedClientInit PROVE Blank /\ Real /\ Thorough
      OBVIOUS
    <2>2. Blank /\ Thorough
      BY <2>1 DEF ManagedClientInit, Blank, Thorough, Sweeps, NoSweep
    <2>3. Real
      BY <2>1 DEF ManagedClientInit, Real, CallReal, SweepReal, Minted, NoIssue, NoSweep,
         NoReservation, HandPCs, ChosenPCs
    <2>4. QED
      BY <2>2, <2>3
  <1>2. TraceInv /\ [ManagedClientNext]_clientVars => Blank' /\ Real' /\ Thorough'
    <2>1. SUFFICES ASSUME TraceInv, [ManagedClientNext]_clientVars
                   PROVE  Blank' /\ Real' /\ Thorough'
      OBVIOUS
    <2>2. CASE UNCHANGED clientVars
      BY <2>1, <2>2 DEF clientVars, TraceInv, Blank, Real, Thorough, CallReal, SweepReal, Minted,
         Sweeps
    <2>3. CASE ManagedClientNext
      BY <2>1, <2>3, IssuingTraces, SweepingTraces DEF ManagedClientNext
    <2>4. QED
      BY <2>1, <2>2, <2>3
  <1>3. ManagedClientTypeOK /\ Blank /\ Real /\ Thorough <=> TraceInv
    BY DEF TraceInv
  <1>4. QED
    BY <1>1, <1>2, <1>3, ManagedClientTyped, PTL DEF ManagedClientSpec

\* A deployment takes no trace of the first client away.
LEMMA IssuingKeepsTrace ==
  ASSUME TraceInv, NEW c \in ClientCallers, Issuing(c), minted = 1, Traced(1)
  PROVE  Traced(1)'
  <1>0. ManagedClientTypeOK /\ Real /\ reservation \in ReservationRow
    BY DEF TraceInv, ManagedClientTypeOK
  <1>1. /\ issue[c].got \in 0 .. 1 /\ reservation.client \in 0 .. 1
        /\ issue[c].pc \in HandPCs => issue[c].got # 0
    BY <1>0, RealFacts
  <1>2. issue[c].pc \in HandPCs => issue[c].got = 1
    BY <1>1
  <1>3. noted \subseteq noted'
    BY DEF Issuing, IdentityLedgers, Request, ReserveClient, ReadReservation, ObserveClient,
       AdoptClient, FindClient, CreateClient, ReleaseClient, CompleteClient, NoteClient,
       BindClient, JobReady, CallerDies
  <1>4. boundClient = 1 => boundClient' = 1
    <2>1. CASE BindClient(c)
      BY <1>2, <2>1 DEF BindClient, Issues, HandPCs
    <2>2. CASE ~ BindClient(c)
      BY <2>2 DEF Issuing, IdentityLedgers, Request, ReserveClient, ReadReservation,
         ObserveClient, AdoptClient, FindClient, CreateClient, ReleaseClient, CompleteClient,
         NoteClient, JobReady, CallerDies
    <2>3. QED
      BY <2>1, <2>2
  <1>5. reservation.client = 1 => reservation'.client = 1
    <2>1. SUFFICES ASSUME reservation.client = 1 PROVE reservation'.client = 1
      OBVIOUS
    <2>2. ~ Vacant
      BY <2>1 DEF Vacant, TraceInv, Blank, NoReservation
    <2>3. CASE AdoptClient(c) \/ CompleteClient(c)
      <3>1. \/ CallEnds(c)
            \/ reservation' = [reservation EXCEPT !.client = issue[c].got]
        BY <2>3 DEF AdoptClient, CompleteClient
      <3>2. issue[c].got = 1
        BY <1>2, <2>3 DEF AdoptClient, CompleteClient, Issues, HandPCs
      <3>3. CASE CallEnds(c)
        BY <1>0, <2>1, <3>3, ForgottenOwner DEF CallEnds
      <3>4. CASE reservation' = [reservation EXCEPT !.client = issue[c].got]
        BY <1>0, <3>2, <3>4 DEF ReservationRow
      <3>5. QED
        BY <3>1, <3>3, <3>4
    <2>4. CASE ~ AdoptClient(c) /\ ~ CompleteClient(c)
      <3>1. reservation' \in {reservation, Forgotten(c)}
        <4>1. CASE ReserveClient(c)
          BY <2>2, <4>1 DEF ReserveClient
        <4>2. CASE ReleaseClient(c)
          BY <2>1, <4>2 DEF ReleaseClient
        <4>3. CASE ReadReservation(c) \/ ObserveClient(c)
          BY <4>3 DEF ReadReservation, ObserveClient, CallEnds
        <4>4. CASE \/ Request(c) \/ FindClient(c) \/ CreateClient(c) \/ NoteClient(c)
                   \/ BindClient(c) \/ JobReady(c) \/ CallerDies(c)
          BY <4>4 DEF Request, FindClient, CreateClient, NoteClient, BindClient, JobReady,
             CallerDies, CallEnds
        <4>5. QED
          BY <2>4, <4>1, <4>2, <4>3, <4>4 DEF Issuing
      <3>2. QED
        BY <1>0, <2>1, <3>1, ForgottenOwner
    <2>5. QED
      BY <2>3, <2>4
  <1>6. QED
    BY <1>3, <1>4, <1>5 DEF Traced

\* Neither does a cleanup that nobody disturbs, while the client exists.
LEMMA SweepingKeepsTrace ==
  ASSUME TraceInv, NEW d \in ClientSweepers, Sweeping(d), minted = 1, Traced(1),
         1 \in pool, 1 \in pool', Sweeps(d, "idle") \/ sweep[d].alone
  PROVE  Traced(1)'
  <1> USE DEF Sweeps
  <1>0. ManagedClientTypeOK /\ Real
    BY DEF TraceInv
  <1>1. /\ sweep[d].id \in 0 .. 1 /\ noted \subseteq 1 .. 1
        /\ sweep[d].pc \in ChosenPCs => sweep[d].id # 0
    BY <1>0, RealFacts
  <1>2. sweep[d].pc # "idle" =>
          /\ sweep[d].alone
          /\ Through(sweep[d], pool, boundClient, reservation.client, noted)
    BY DEF TraceInv, Thorough
  <1>3. ~ Cleared(sweep[d], pool)
    BY <1>1 DEF Cleared
  <1>4. CASE Finalize(d)
    BY <1>2, <1>3, <1>4 DEF Finalize, Through
  <1>5. CASE EraseLedger(d)
    <2>1. \/ boundClient = 0 /\ reservation.client = 0
          \/ noted # {}
      BY <1>2, <1>3, <1>5 DEF EraseLedger, Through
    <2>2. 1 \in noted
      <3>1. CASE noted # {}
        <4>1. PICK y : y \in noted
          BY <3>1
        <4>2. y = 1
          BY <1>1, <4>1
        <4>3. QED
          BY <4>1, <4>2
      <3>2. CASE boundClient = 0 /\ reservation.client = 0
        BY <3>2 DEF Traced
      <3>3. QED
        BY <2>1, <3>1, <3>2
    <2>3. QED
      BY <1>5, <2>2 DEF EraseLedger, Traced
  <1>6. CASE DropRows(d)
    BY <1>2, <1>3, <1>6 DEF DropRows, Through, Traced, IdentityLedgers
  <1>7. CASE Tombstone(d)
    <2>1. reservation'.client = reservation.client
      BY <1>0, <1>7 DEF Tombstone, ManagedClientTypeOK, ReservationRow
    <2>2. QED
      BY <1>7, <2>1 DEF Tombstone, Traced, IdentityLedgers
  <1>8. CASE Compensate(d)
    <2>1. reservation'.client = reservation.client
      BY <1>0, <1>8, ForgottenOwner DEF Compensate
    <2>2. QED
      BY <1>8, <2>1 DEF Compensate, Traced
  <1>9. CASE \/ Purge(d) \/ ReclaimOrphan(d) \/ ChooseBound(d) \/ ChooseReserved(d)
             \/ CheckAbsent(d) \/ RemoveClient(d) \/ QueryLedger(d) \/ DropRecord(d)
             \/ SweepFails(d)
    BY <1>9 DEF Purge, ReclaimOrphan, ChooseBound, ChooseReserved, CheckAbsent, RemoveClient,
       QueryLedger, DropRecord, SweepFails, Traced, IdentityLedgers
  <1>10. QED
    BY <1>4, <1>5, <1>6, <1>7, <1>8, <1>9 DEF Sweeping

\* A cleanup that nobody else disturbs (delete_agent_artifacts and the stages around it)
\* never drops the last trace of the one client the agent ever had, unless it has deleted
\* the client: whatever fails, and in whatever state earlier calls left the ledgers.
THEOREM TraceStays == ManagedClientSpec => TraceKept
  <1>1. TraceInv /\ [ManagedClientNext]_clientVars =>
          [\A x \in pool \cap pool' : minted = 1 /\ Traced(x) /\ ~ Traced(x)' =>
             \E d \in ClientSweepers : ~ Sweeps(d, "idle") /\ ~ sweep[d].alone]_clientVars
    <2>1. SUFFICES ASSUME TraceInv, ManagedClientNext, NEW x \in pool \cap pool',
                          minted = 1, Traced(x),
                          \A d \in ClientSweepers : Sweeps(d, "idle") \/ sweep[d].alone
                   PROVE  Traced(x)'
      OBVIOUS
    <2>2. x = 1
      BY <2>1, RealFacts DEF TraceInv
    <2>3. QED
      BY <2>1, <2>2, IssuingKeepsTrace, SweepingKeepsTrace DEF ManagedClientNext
  <1>2. QED
    BY <1>1, TraceInvariant, PTL DEF ManagedClientSpec, TraceKept
=============================================================================
