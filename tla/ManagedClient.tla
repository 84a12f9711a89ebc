--------------------------- MODULE ManagedClient ---------------------------
(***************************************************************************)
(* The OAuth client of one agent: AgentIdentityIssuer creates it in        *)
(* Cognito under a reservation, deployments note and bind it, and three    *)
(* cleanups delete it: the compensation of a failed deployment, the purge  *)
(* of the asset and the reclaim of what outlived its record.  No lock      *)
(* covers them, only the conditional writes of the reservation.            *)
(***************************************************************************)
EXTENDS Naturals, FiniteSets

CONSTANTS
  ClientCallers,  \* deployments of the agent
  ClientSweepers, \* cleanups of the agent
  MaxClients,     \* bound on the clients ever created
  MaxClientFaults \* bound on failing calls and dying processes

ASSUME ManagedClientAssumption ==
  /\ ClientCallers \cap ClientSweepers = {}
  /\ {"nobody", "past"} \cap (ClientCallers \cup ClientSweepers) = {}
  /\ MaxClients \in Nat /\ MaxClientFaults \in Nat

VARIABLES
  reservation,    \* the item CLIENT_RESERVATION of the agent
  pool,           \* the Cognito clients with the agent's name
  minted,         \* how many were ever created
  boundClient,    \* the client in the identity binding, 0 if there is none
  noted,          \* the clients that the stored deployment jobs name
  agentRecord,    \* the Registry record of the agent
  issue,          \* what each deployment is doing
  sweep,          \* what each cleanup is doing
  pulled,         \* ghost: a cleanup deleted the reservation of a call about to create
  overlapped,     \* ghost: a call and a cleanup were at work at the same time
  clientFaults

clientVars ==
  <<reservation, pool, minted, boundClient, noted, agentRecord, issue, sweep, pulled,
    overlapped, clientFaults>>

ClientIds == 1 .. MaxClients
ClientOrNone == 0 .. MaxClients

\* A reservation id is drawn by each call: those of calls that ended are "past".
ReservationRow ==
  [owner : {"nobody", "past"} \cup ClientCallers, client : ClientOrNone, deleting : BOOLEAN]
NoReservation == [owner |-> "nobody", client |-> 0, deleting |-> FALSE]

\* A deployment: where it is, the client it got, how it came by it.
IssueRow ==
  [pc : {"idle", "reserve", "read", "observe", "adopt", "find", "create", "release",
         "complete", "issued", "noted", "bound"},
   got : ClientOrNone, origin : {"created", "found", "reused"}]

\* alone: nobody else worked on the agent since the cleanup began.
SweepRow ==
  [pc : {"idle", "choose", "peek", "tombstone", "absent", "remove", "finalize", "query",
         "erase", "rows", "record"},
   kind : {"undo", "client only", "purge", "orphan"}, id : ClientOrNone,
   spare : ClientOrNone, keys : SUBSET {"reservation", "binding"}, alone : BOOLEAN]

NoIssue == [pc |-> "idle", got |-> 0, origin |-> "found"]
NoSweep == [pc |-> "idle", kind |-> "purge", id |-> 0, spare |-> 0, keys |-> {},
            alone |-> FALSE]

ManagedClientInit ==
  /\ reservation = NoReservation /\ pool = {} /\ minted = 0 /\ boundClient = 0 /\ noted = {}
  /\ agentRecord = "kept"
  /\ issue = [c \in ClientCallers |-> NoIssue] /\ sweep = [d \in ClientSweepers |-> NoSweep]
  /\ pulled = FALSE /\ overlapped = FALSE /\ clientFaults = 0

-----------------------------------------------------------------------------
Issues(c, pc) == issue[c].pc = pc
Sweeps(d, pc) == sweep[d].pc = pc

Provisioning(c) == issue[c].pc \notin {"idle", "issued", "noted", "bound"}
Crossing ==
  /\ \E c \in ClientCallers : Provisioning(c)
  /\ \E d \in ClientSweepers : ~ Sweeps(d, "idle")
Watch == overlapped' = (overlapped \/ Crossing')

\* A cleanup that is not the one at work is no longer alone.
Joined(d) ==
  IF Sweeps(d, "idle") THEN sweep[d] ELSE [sweep[d] EXCEPT !.alone = FALSE]

\* A call goes on.
CallGoes(c, row) ==
  /\ issue' = [issue EXCEPT ![c] = row]
  /\ sweep' = [d \in ClientSweepers |-> Joined(d)]
  /\ Watch
CallAt(c, pc) == [issue[c] EXCEPT !.pc = pc]
Handed(id, origin) == [pc |-> "issued", got |-> id, origin |-> origin]

\* A cleanup goes on.
SweepRows(d, row) == [e \in ClientSweepers |-> IF e = d THEN row ELSE Joined(e)]
SweepGoes(d, row) == sweep' = SweepRows(d, row) /\ UNCHANGED issue /\ Watch
SweepTo(d, pc) == [sweep[d] EXCEPT !.pc = pc]

\* Calls that may still create a client.
AboutToCreate(c) == Issues(c, "find") \/ Issues(c, "create")
Pulls ==
  pulled' = (pulled \/ \E c \in ClientCallers :
                         AboutToCreate(c) /\ reservation.owner = c /\ reservation'.owner # c)

ClientFault == clientFaults < MaxClientFaults /\ clientFaults' = clientFaults + 1

\* The id of a call that ends stays in its reservation, and matches no other.
Forgotten(c) ==
  IF reservation.owner = c THEN [reservation EXCEPT !.owner = "past"] ELSE reservation
CallEnds(c) == CallGoes(c, NoIssue) /\ reservation' = Forgotten(c)

IdentityLedgers == <<boundClient, noted, agentRecord, pulled>>

-----------------------------------------------------------------------------
(* provision_managed_runtime_client_with_provenance.                       *)

\* A deployment asks for a client, or, on a redeployment, has the bound one.
Request(c) ==
  /\ Issues(c, "idle") /\ agentRecord = "kept"
  /\ \/ CallGoes(c, CallAt(c, "reserve"))
     \/ boundClient # 0 /\ CallGoes(c, Handed(boundClient, "reused"))
  /\ UNCHANGED <<reservation, pool, minted, IdentityLedgers, clientFaults>>

\* Mutant of Vacant: a reservation without a client is taken over.
VacantUnfilled == reservation.client = 0

\* The put's condition, attribute_not_exists(PK).
Vacant == reservation.owner = "nobody"

\* reserve_managed_client: the conditional put.  When the reply is lost, the
\* library repeats the put, and the call finds its own item.
ReserveClient(c) ==
  /\ Issues(c, "reserve")
  /\ IF Vacant
       THEN /\ reservation' = [owner |-> c, client |-> 0, deleting |-> FALSE]
            /\ \/ CallGoes(c, CallAt(c, "find")) /\ UNCHANGED clientFaults
               \/ CallGoes(c, CallAt(c, "read")) /\ ClientFault
       ELSE /\ CallGoes(c, CallAt(c, "read")) /\ UNCHANGED <<reservation, clientFaults>>
  /\ UNCHANGED <<pool, minted, IdentityLedgers>>

\* The consistent read after a put that was refused.
ReadReservation(c) ==
  /\ Issues(c, "read")
  /\ \/ /\ reservation.owner = "nobody"
        /\ CallGoes(c, CallAt(c, "reserve")) /\ UNCHANGED reservation
     \/ reservation.deleting /\ CallEnds(c)
     \/ /\ reservation.client # 0 /\ ~ reservation.deleting
        /\ CallGoes(c, Handed(reservation.client, "found")) /\ UNCHANGED reservation
     \/ /\ reservation.owner # "nobody" /\ reservation.client = 0 /\ ~ reservation.deleting
        /\ CallGoes(c, CallAt(c, IF reservation.owner = c THEN "find" ELSE "observe"))
        /\ UNCHANGED reservation
  /\ UNCHANGED <<pool, minted, IdentityLedgers, clientFaults>>

\* Somebody else reserved: look for the client by name, poll again or give up.
ObserveClient(c) ==
  /\ Issues(c, "observe")
  /\ \/ \E x \in pool : /\ pool = {x}
                        /\ CallGoes(c, [CallAt(c, "adopt") EXCEPT !.got = x])
                        /\ UNCHANGED reservation
     \/ pool = {} /\ CallGoes(c, CallAt(c, "reserve")) /\ UNCHANGED reservation
     \/ Cardinality(pool) # 1 /\ CallEnds(c)
  /\ UNCHANGED <<pool, minted, IdentityLedgers, clientFaults>>

\* The reservation may take this client.
Fillable(x) ==
  reservation.owner # "nobody" /\ reservation.client \in {0, x} /\ ~ reservation.deleting

\* complete_observed_managed_client_reservation.
AdoptClient(c) ==
  /\ Issues(c, "adopt")
  /\ IF Fillable(issue[c].got)
       THEN /\ reservation' = [reservation EXCEPT !.client = issue[c].got]
            /\ CallGoes(c, Handed(issue[c].got, "found"))
       ELSE CallEnds(c)
  /\ UNCHANGED <<pool, minted, IdentityLedgers, clientFaults>>

\* The owner looks for a client that an earlier call left.
FindClient(c) ==
  /\ Issues(c, "find")
  /\ \/ \E x \in pool : pool = {x} /\ CallGoes(c, [CallAt(c, "complete") EXCEPT !.got = x])
     \/ pool = {} /\ CallGoes(c, CallAt(c, "create"))
     \/ Cardinality(pool) > 1 /\ CallGoes(c, CallAt(c, "release"))
  /\ UNCHANGED <<reservation, pool, minted, IdentityLedgers, clientFaults>>

\* create_user_pool_client.  It may raise after it took effect.
CreateClient(c) ==
  /\ Issues(c, "create")
  /\ \/ /\ minted < MaxClients /\ minted' = minted + 1 /\ pool' = pool \cup {minted'}
        /\ \/ /\ CallGoes(c, [pc |-> "complete", got |-> minted', origin |-> "created"])
              /\ UNCHANGED clientFaults
           \/ CallGoes(c, CallAt(c, "release")) /\ ClientFault
     \/ CallGoes(c, CallAt(c, "release")) /\ ClientFault /\ UNCHANGED <<pool, minted>>
  /\ UNCHANGED <<reservation, IdentityLedgers>>

\* release_managed_client_reservation; then the exception goes on.
ReleaseClient(c) ==
  /\ Issues(c, "release") /\ CallGoes(c, NoIssue)
  /\ reservation' = IF reservation.owner = c /\ reservation.client = 0
                       /\ ~ reservation.deleting
                      THEN NoReservation ELSE Forgotten(c)
  /\ UNCHANGED <<pool, minted, IdentityLedgers, clientFaults>>

\* complete_managed_client_reservation.
CompleteClient(c) ==
  /\ Issues(c, "complete")
  /\ IF reservation.owner = c /\ Fillable(issue[c].got)
       THEN /\ reservation' = [reservation EXCEPT !.client = issue[c].got]
            /\ CallGoes(c, Handed(issue[c].got, issue[c].origin))
       ELSE CallEnds(c)
  /\ UNCHANGED <<pool, minted, IdentityLedgers, clientFaults>>

\* create_job stores the job with the client.
NoteClient(c) ==
  /\ Issues(c, "issued") /\ CallGoes(c, CallAt(c, "noted"))
  /\ noted' = noted \cup {issue[c].got}
  /\ UNCHANGED <<reservation, pool, minted, boundClient, agentRecord, pulled, clientFaults>>

\* issue_managed_runtime_binding, when the job has come that far.
BindClient(c) ==
  /\ Issues(c, "noted") /\ CallGoes(c, CallAt(c, "bound")) /\ boundClient' = issue[c].got
  /\ UNCHANGED <<reservation, pool, minted, noted, agentRecord, pulled, clientFaults>>

\* The job is READY.
JobReady(c) ==
  /\ Issues(c, "bound") /\ CallEnds(c)
  /\ UNCHANGED <<pool, minted, IdentityLedgers, clientFaults>>

\* A call raises, or its process dies.
CallerDies(c) ==
  /\ ~ Issues(c, "idle") /\ ClientFault /\ CallEnds(c)
  /\ UNCHANGED <<pool, minted, IdentityLedgers>>

-----------------------------------------------------------------------------
(* The cleanups, and delete_agent_artifacts which they share.              *)

Begun(kind, pc, id, spare) ==
  [pc |-> pc, kind |-> kind, id |-> id, spare |-> spare, keys |-> {}, alone |-> TRUE]

\* _compensate_agent_record of a failed job, stored as such, after its claim: no
\* other job uses the record, and none will.  A client that it did not create stays.
Compensate(d) ==
  /\ Sweeps(d, "idle") /\ agentRecord = "kept" /\ agentRecord' = "claimed"
  /\ \E c \in ClientCallers :
       /\ Issues(c, "noted") \/ Issues(c, "bound")
       /\ issue[c].got \in noted
       /\ \A o \in ClientCallers \ {c} : Issues(o, "idle")
       /\ issue' = [issue EXCEPT ![c] = NoIssue] /\ reservation' = Forgotten(c)
       /\ \/ /\ issue[c].origin = "created"
             /\ \E kind \in {"undo", "client only"} :
                  sweep' = SweepRows(d, Begun(kind, "tombstone", issue[c].got, 0))
          \/ /\ issue[c].origin = "found"
             /\ sweep' = SweepRows(d, Begun("undo", "query", 0, 0))
  /\ Watch
  /\ UNCHANGED <<pool, minted, boundClient, noted, pulled, clientFaults>>

\* PurgeService.purge once the Runtimes are gone: what the jobs noted is the
\* fallback, if it is one client.
Purge(d) ==
  /\ Sweeps(d, "idle") /\ agentRecord # "gone"
  /\ \/ noted = {} /\ SweepGoes(d, Begun("purge", "choose", 0, 0))
     \/ \E x \in ClientIds : /\ noted = {x}
                             /\ SweepGoes(d, Begun("purge", "choose", 0, x))
  /\ UNCHANGED <<reservation, pool, minted, IdentityLedgers, clientFaults>>

\* reclaim_orphan_agent_authorization_artifacts.
ReclaimOrphan(d) ==
  /\ Sweeps(d, "idle") /\ agentRecord = "gone"
  /\ SweepGoes(d, Begun("orphan", "choose", 0, 0))
  /\ UNCHANGED <<reservation, pool, minted, IdentityLedgers, clientFaults>>

\* The cleanup of the agent's authorization raises.  A purge that has no
\* fallback goes on all the same.
CleanupFails(d) ==
  SweepGoes(d, IF sweep[d].kind = "purge" /\ sweep[d].spare = 0
                 THEN SweepTo(d, "rows") ELSE NoSweep)

\* A call took effect and the cleanup goes on, or its reply is lost.
Carried(d, row) ==
  \/ SweepGoes(d, row) /\ UNCHANGED clientFaults
  \/ CleanupFails(d) /\ ClientFault

\* Where a cleanup goes on once the client is gone.
AfterClient(d) ==
  IF sweep[d].kind = "client only" THEN NoSweep ELSE SweepTo(d, "query")

\* delete_agent_artifacts: the client of the binding, else of the reservation,
\* else of the jobs.
ChooseBound(d) ==
  /\ Sweeps(d, "choose")
  /\ SweepGoes(d, IF boundClient = 0 THEN SweepTo(d, "peek")
                ELSE [SweepTo(d, "tombstone") EXCEPT !.id = boundClient])
  /\ UNCHANGED <<reservation, pool, minted, IdentityLedgers, clientFaults>>

ChooseReserved(d) ==
  /\ Sweeps(d, "peek")
  /\ LET id == IF reservation = NoReservation THEN sweep[d].spare ELSE reservation.client IN
     \/ id # 0 /\ SweepGoes(d, [SweepTo(d, "tombstone") EXCEPT !.id = id])
     \/ id = 0 /\ reservation.owner = "nobody" /\ SweepGoes(d, SweepTo(d, "query"))
     \/ id = 0 /\ reservation.owner # "nobody" /\ CleanupFails(d)
  /\ UNCHANGED <<reservation, pool, minted, IdentityLedgers, clientFaults>>

\* tombstone_managed_client_reservation.
Tombstone(d) ==
  /\ Sweeps(d, "tombstone")
  /\ IF reservation.client = sweep[d].id
       THEN /\ reservation' = [reservation EXCEPT !.deleting = TRUE]
            /\ Carried(d, SweepTo(d, "remove"))
       ELSE SweepGoes(d, SweepTo(d, "absent")) /\ UNCHANGED <<reservation, clientFaults>>
  /\ UNCHANGED <<pool, minted, IdentityLedgers>>

\* Mutant of Absent: no reservation is taken for no client.
AbsentAssumed(x) == reservation.client # x

\* What Cognito answers.
Absent(x) == x \notin pool

\* _managed_client_absent.
CheckAbsent(d) ==
  /\ Sweeps(d, "absent")
  /\ IF Absent(sweep[d].id) THEN SweepGoes(d, AfterClient(d)) ELSE CleanupFails(d)
  /\ UNCHANGED <<reservation, pool, minted, IdentityLedgers, clientFaults>>

\* delete_managed_runtime_client.
RemoveClient(d) ==
  /\ Sweeps(d, "remove")
  /\ pool' = pool \ {sweep[d].id} /\ Carried(d, SweepTo(d, "finalize"))
  /\ UNCHANGED <<reservation, minted, IdentityLedgers>>

\* finalize_managed_client_reservation_deletion.
Finalize(d) ==
  /\ Sweeps(d, "finalize")
  /\ IF reservation.client = sweep[d].id /\ reservation.deleting
       THEN reservation' = NoReservation /\ Carried(d, AfterClient(d))
       ELSE CleanupFails(d) /\ UNCHANGED <<reservation, clientFaults>>
  /\ Pulls /\ UNCHANGED <<pool, minted, boundClient, noted, agentRecord>>

\* delete_agent_authorization_artifacts: the keys, then the batch, which deletes
\* whatever the keys hold by then.
QueryLedger(d) ==
  /\ Sweeps(d, "query")
  /\ SweepGoes(d, [SweepTo(d, "erase") EXCEPT !.keys =
       {k \in {"reservation", "binding"} :
          IF k = "binding" THEN boundClient # 0 ELSE reservation.owner # "nobody"}])
  /\ UNCHANGED <<reservation, pool, minted, IdentityLedgers, clientFaults>>

Erases(keys) ==
  /\ reservation' = IF "reservation" \in keys THEN NoReservation ELSE reservation
  /\ boundClient' = IF "binding" \in keys THEN 0 ELSE boundClient
  /\ Pulls

EraseLedger(d) ==
  /\ Sweeps(d, "erase")
  /\ \/ /\ Erases(sweep[d].keys) /\ UNCHANGED clientFaults
        /\ SweepGoes(d, CASE sweep[d].kind = "purge"  -> SweepTo(d, "rows")
                        [] sweep[d].kind = "undo"   -> SweepTo(d, "record")
                        [] OTHER -> NoSweep)
     \/ \E keys \in SUBSET sweep[d].keys : Erases(keys) /\ CleanupFails(d) /\ ClientFault
  /\ UNCHANGED <<pool, minted, noted, agentRecord>>

\* The purge deletes the job rows, and last the record.
DropRows(d) ==
  /\ Sweeps(d, "rows") /\ noted' = {} /\ SweepGoes(d, SweepTo(d, "record"))
  /\ UNCHANGED <<reservation, pool, minted, boundClient, agentRecord, pulled, clientFaults>>

DropRecord(d) ==
  /\ Sweeps(d, "record") /\ agentRecord' = "gone" /\ SweepGoes(d, NoSweep)
  /\ UNCHANGED <<reservation, pool, minted, boundClient, noted, pulled, clientFaults>>

\* A call to a service raises: the cleanup fails, a stage of a purge is skipped,
\* or the process dies.
SweepFails(d) ==
  /\ ~ Sweeps(d, "idle") /\ ClientFault
  /\ \/ ~ Sweeps(d, "rows") /\ ~ Sweeps(d, "record") /\ CleanupFails(d)
     \/ Sweeps(d, "rows") /\ SweepGoes(d, SweepTo(d, "record"))
     \/ SweepGoes(d, NoSweep)
  /\ UNCHANGED <<reservation, pool, minted, IdentityLedgers>>

-----------------------------------------------------------------------------
Issuing(c) ==
  \/ Request(c) \/ ReserveClient(c) \/ ReadReservation(c) \/ ObserveClient(c)
  \/ AdoptClient(c) \/ FindClient(c) \/ CreateClient(c) \/ ReleaseClient(c)
  \/ CompleteClient(c) \/ NoteClient(c) \/ BindClient(c) \/ JobReady(c) \/ CallerDies(c)

Sweeping(d) ==
  \/ Compensate(d) \/ Purge(d) \/ ReclaimOrphan(d) \/ ChooseBound(d) \/ ChooseReserved(d)
  \/ Tombstone(d) \/ CheckAbsent(d) \/ RemoveClient(d) \/ Finalize(d) \/ QueryLedger(d)
  \/ EraseLedger(d) \/ DropRows(d) \/ DropRecord(d) \/ SweepFails(d)

ManagedClientNext ==
  \/ \E c \in ClientCallers : Issuing(c)
  \/ \E d \in ClientSweepers : Sweeping(d)

ManagedClientSpec == ManagedClientInit /\ [][ManagedClientNext]_clientVars

-----------------------------------------------------------------------------
\* The reservation, the clients, the ledgers and the calls keep their shape.
ManagedClientTypeOK ==
  /\ reservation \in ReservationRow /\ pool \subseteq 1 .. minted /\ minted \in ClientOrNone
  /\ boundClient \in ClientOrNone /\ noted \subseteq ClientOrNone
  /\ agentRecord \in {"kept", "claimed", "gone"}
  /\ issue \in [ClientCallers -> IssueRow] /\ sweep \in [ClientSweepers -> SweepRow]
  /\ pulled \in BOOLEAN /\ overlapped \in BOOLEAN /\ clientFaults \in 0 .. MaxClientFaults

\* However calls overlap, fail, die and are repeated, and whatever cleanups do
\* meanwhile, an agent never has two clients: unless a cleanup deletes the
\* reservation of a call that is still about to create its client.
OneClient == pulled \/ \A x, y \in pool : x = y

\* A call is handed the agent's one client, which exists and which the
\* reservation names, whatever died before: unless a cleanup overlapped a call.
HandedOut ==
  [][\A c \in ClientCallers :
       Provisioning(c) /\ issue'[c].pc = "issued" /\ ~ overlapped' =>
         pool' = {issue'[c].got} /\ reservation'.client = issue'[c].got]_clientVars

\* Where a cleanup that is tried again finds the client.
Traced(x) ==
  reservation.client = x \/ boundClient = x \/ x \in noted

\* A cleanup that nobody else disturbs never drops the last trace of the one
\* client that the agent ever had, unless it deletes it: whatever fails, and in
\* whatever state earlier calls and cleanups left the ledgers.
TraceKept ==
  [][\A x \in pool \cap pool' : minted = 1 /\ Traced(x) /\ ~ Traced(x)' =>
       \E d \in ClientSweepers : ~ Sweeps(d, "idle") /\ ~ sweep[d].alone]_clientVars
=============================================================================
