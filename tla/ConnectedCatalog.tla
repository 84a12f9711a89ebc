-------------------------- MODULE ConnectedCatalog --------------------------
(***************************************************************************)
(* What Agora believes about the tools of a connected MCP server, which    *)
(* changes them without telling anyone.                                    *)
(*                                                                         *)
(* The poller and admins ("read again") run _resync, possibly at the same  *)
(* time: list the server's tools, reconcile the ledger with the list and   *)
(* put it.  If the set of tools changed, or an earlier change is still     *)
(* pending, the ledger is put as UNKNOWN and pending first; then the       *)
(* Gateway Target is told to read the server again, the server is listed   *)
(* once more, and the ledger becomes OK if that list is the one that was   *)
(* requested.  Only a tool that is absent before and after this            *)
(* synchronization is RETIRED.                                             *)
(*                                                                         *)
(* The ledger's version only serves to refuse a put over a ledger that     *)
(* somebody else put since it was read: stale says so of every copy.       *)
(* Fault: a request fails or an observer dies; at most MaxCatalogFaults.   *)
(***************************************************************************)
EXTENDS Integers

CONSTANTS
  CatalogTools,
  Observers,        \* "poller", and requests of admins
  SyncRetries,      \* _POST_SYNC_LEDGER_RETRIES
  MaxChanges,       \* bound: changes of the server's tools
  MaxClock,         \* bound: distinct values of the clock, in seconds
  MaxRereads,       \* bound: requests of admins
  MaxCatalogFaults

ASSUME ConnectedCatalogAssumption ==
  /\ "poller" \in Observers
  /\ SyncRetries \in Nat \ {0} /\ MaxChanges \in Nat /\ MaxClock \in Nat
  /\ MaxRereads \in Nat /\ MaxCatalogFaults \in Nat

VARIABLES
  upstream,   \* the tools the server lists
  gateway,    \* the tools the Gateway Target offers: its copy of that list
  ledger,     \* the drift ledger of the server
  observer,   \* _resync in progress
  clock, upstreamChanges, rereads, catalogFaults,
  flapped     \* the server went back to a list that Agora believes synchronized
              \* after the Target had read another

catalogVars == <<upstream, gateway, ledger, observer, clock, upstreamChanges,
                 rereads, catalogFaults, flapped>>

Ledgers == [tool: [CatalogTools -> {"unknown", "present", "MISSING", "RETIRED"}],
            ok: BOOLEAN, pending: BOOLEAN, at: 0 .. MaxClock]
Fresh == [tool |-> [t \in CatalogTools |-> "present"], ok |-> TRUE,
          pending |-> FALSE, at |-> 0]
Resting == [pc |-> "idle", base |-> Fresh, first |-> Fresh, stale |-> FALSE,
            seen |-> {}, want |-> {}, gone |-> {}, at |-> 0, try |-> 0]

ConnectedCatalogTypeOK ==
  /\ upstream \subseteq CatalogTools /\ gateway \subseteq CatalogTools
  /\ ledger \in Ledgers
  /\ observer \in [Observers ->
       [pc: {"idle", "list", "put", "sync", "probe", "post", "unknown"},
        base: Ledgers, first: Ledgers, stale: BOOLEAN,
        seen: SUBSET CatalogTools, want: SUBSET CatalogTools,
        gone: SUBSET CatalogTools,
        at: 0 .. MaxClock, try: 0 .. SyncRetries - 1]]
  /\ clock \in 0 .. MaxClock
  /\ upstreamChanges \in 0 .. MaxChanges /\ rereads \in 0 .. MaxRereads
  /\ catalogFaults \in 0 .. MaxCatalogFaults /\ flapped \in BOOLEAN

\* A server that was registered, synchronized and observed.
ConnectedCatalogInit ==
  /\ upstream = CatalogTools /\ gateway = CatalogTools
  /\ ledger = Fresh
  /\ observer = [o \in Observers |-> Resting]
  /\ clock = 0 /\ upstreamChanges = 0
  /\ rereads = 0 /\ catalogFaults = 0 /\ flapped = FALSE

Step(o) == observer[o].pc
To(o, new) == observer' = [observer EXCEPT ![o] = new]
CatalogFault == /\ catalogFaults < MaxCatalogFaults
                /\ catalogFaults' = catalogFaults + 1

(***************************************************************************)
(* The ledger                                                              *)
(***************************************************************************)
\* _catalog_signature: the tools that are there.
Present(l) == {t \in CatalogTools : l.tool[t] = "present"}
Missing(l) == {t \in CatalogTools : l.tool[t] = "MISSING"}

\* reconcile.
Reconcile(l, seen) ==
  [t \in CatalogTools |-> IF t \in seen THEN "present"
                          ELSE IF l.tool[t] = "present" THEN "MISSING"
                          ELSE l.tool[t]]

\* put succeeds when the copy is not stale; every other copy then is.
PutLedger(o, new, next) ==
  /\ ~ observer[o].stale
  /\ ledger' = new
  /\ observer' = [p \in Observers |->
       IF p = o THEN next ELSE [observer[p] EXCEPT !.stale = TRUE]]

(***************************************************************************)
(* _resync                                                                 *)
(***************************************************************************)
\* The ledger is read and the time taken before the server is asked.
Resync(o) ==
  /\ Step(o) = "idle"
  /\ IF o = "poller" THEN UNCHANGED rereads
     ELSE rereads < MaxRereads /\ rereads' = rereads + 1
  /\ To(o, [Resting EXCEPT !.pc = "list", !.base = ledger, !.at = clock])
  /\ UNCHANGED <<upstream, gateway, ledger, clock, upstreamChanges, catalogFaults, flapped>>

List(o) ==
  /\ Step(o) = "list"
  /\ To(o, [observer[o] EXCEPT !.pc = "put", !.seen = upstream])
  /\ UNCHANGED <<upstream, gateway, ledger, clock, upstreamChanges,
                 rereads, catalogFaults, flapped>>

\* _record_unobserved: the tools and the time stay as they are; a put that is
\* refused is left to the next round.
Unlisted(o) ==
  /\ Step(o) = "list"
  /\ CatalogFault
  /\ \/ PutLedger(o, [observer[o].base EXCEPT !.ok = FALSE], Resting)
     \/ observer[o].stale /\ To(o, Resting) /\ UNCHANGED ledger
  /\ UNCHANGED <<upstream, gateway, clock, upstreamChanges, rereads, flapped>>

\* Mutant of Requires: only a synchronization that was left open is made.
RequiresPending(l, seen) == l.pending

\* connected_sync_required.
Requires(l, seen) == l.pending \/ Present(l) # seen

Put(o) ==
  LET me   == observer[o]
      sync == Requires(me.base, me.seen)
      new  == [tool |-> Reconcile(me.base, me.seen), ok |-> ~ sync,
               pending |-> sync, at |-> me.at]
  IN
  /\ Step(o) = "put"
  /\ PutLedger(o, new, IF sync THEN [me EXCEPT !.pc = "sync", !.base = new,
                                       !.first = new, !.want = Present(new),
                                       !.gone = Missing(new)]
                       ELSE Resting)
  /\ UNCHANGED <<upstream, gateway, clock, upstreamChanges,
                 rereads, catalogFaults, flapped>>

\* Somebody put the ledger first: left to the next round.
PutRefused(o) ==
  /\ Step(o) = "put" /\ observer[o].stale
  /\ To(o, Resting)
  /\ UNCHANGED <<upstream, gateway, ledger, clock, upstreamChanges,
                 rereads, catalogFaults, flapped>>

\* The Target reads the server again, and is seen READY after that.
Synchronize(o) ==
  /\ Step(o) = "sync"
  /\ gateway' = upstream
  /\ To(o, [observer[o] EXCEPT !.pc = "probe"])
  /\ UNCHANGED <<upstream, ledger, clock, upstreamChanges,
                 rereads, catalogFaults, flapped>>

\* The call fails or READY is not seen in time, whether or not the Target read.
SyncFails(o) ==
  /\ Step(o) = "sync"
  /\ CatalogFault
  /\ gateway' \in {gateway, upstream}
  /\ To(o, [observer[o] EXCEPT !.pc = "unknown", !.try = 0])
  /\ UNCHANGED <<upstream, ledger, clock, upstreamChanges, rereads, flapped>>

Probe(o) ==
  /\ Step(o) = "probe"
  /\ To(o, [observer[o] EXCEPT !.pc = "post", !.seen = upstream, !.at = clock,
                               !.try = 0])
  /\ UNCHANGED <<upstream, gateway, ledger, clock, upstreamChanges,
                 rereads, catalogFaults, flapped>>

ProbeFails(o) ==
  /\ Step(o) = "probe"
  /\ CatalogFault
  /\ To(o, [observer[o] EXCEPT !.pc = "unknown", !.try = 0])
  /\ UNCHANGED <<upstream, gateway, ledger, clock, upstreamChanges, rereads, flapped>>

Retired(l, seen, gone) == (Missing(l) \cap gone) \ seen

\* Mutant of AsRequested: the second list is taken for the one it was asked for.
AsRequestedAssumed(tools, want) == TRUE

\* The tools listed after the synchronization are those it was made for.
AsRequested(tools, want) == {t \in CatalogTools : tools[t] = "present"} = want

\* _connected_post_sync_ledger.
PostSync(o, l) ==
  LET me == observer[o]
      tools == Reconcile(l, me.seen)
      ok == AsRequested(tools, me.want)
  IN [tool |-> [t \in CatalogTools |->
                  IF t \in Retired(l, me.seen, me.gone) THEN "RETIRED"
                  ELSE tools[t]],
      ok |-> ok, pending |-> ~ ok, at |-> me.at]

\* A later observation, as far as whole seconds tell, is left alone.
Superseded(o) == observer[o].try > 0 /\ observer[o].base.at >= observer[o].at

Post(o) ==
  /\ Step(o) = "post" /\ ~ Superseded(o)
  /\ PutLedger(o, PostSync(o, observer[o].base), Resting)
  /\ UNCHANGED <<upstream, gateway, clock, upstreamChanges,
                 rereads, catalogFaults, flapped>>

\* The put was refused: read the ledger again and try to add to that.
PostAgain(o) ==
  LET tried == observer[o].try + 1 IN
  /\ Step(o) = "post" /\ ~ Superseded(o) /\ observer[o].stale
  /\ To(o, [observer[o] EXCEPT !.base = ledger, !.stale = FALSE,
       !.pc = IF tried < SyncRetries THEN "post" ELSE "unknown",
       !.first = IF tried < SyncRetries THEN @ ELSE ledger,
       !.try = IF tried < SyncRetries THEN tried ELSE 0])
  /\ UNCHANGED <<upstream, gateway, ledger, clock, upstreamChanges,
                 rereads, catalogFaults, flapped>>

PostDropped(o) ==
  /\ Step(o) = "post" /\ Superseded(o)
  /\ To(o, Resting)
  /\ UNCHANGED <<upstream, gateway, ledger, clock, upstreamChanges,
                 rereads, catalogFaults, flapped>>

\* _persist_connected_sync_unknown.
PutUnknown(o) ==
  /\ Step(o) = "unknown"
  /\ PutLedger(o, [observer[o].base EXCEPT !.ok = FALSE, !.pending = TRUE], Resting)
  /\ UNCHANGED <<upstream, gateway, clock, upstreamChanges,
                 rereads, catalogFaults, flapped>>

\* _has_newer_connected_observation.
Newer(old, new) ==
  \/ old.pending /\ ~ new.pending
  \/ new.at > old.at
  \/ \E t \in Missing(old) : new.tool[t] # "MISSING"

UnknownAgain(o) ==
  LET tried == observer[o].try + 1 IN
  /\ Step(o) = "unknown" /\ observer[o].stale
  /\ To(o, IF Newer(observer[o].first, ledger) \/ tried = SyncRetries
           THEN Resting
           ELSE [observer[o] EXCEPT !.base = ledger, !.stale = FALSE,
                                    !.try = tried])
  /\ UNCHANGED <<upstream, gateway, ledger, clock, upstreamChanges,
                 rereads, catalogFaults, flapped>>

ObserverDies(o) ==
  /\ Step(o) # "idle"
  /\ CatalogFault
  /\ To(o, Resting)
  /\ UNCHANGED <<upstream, gateway, ledger, clock, upstreamChanges, rereads, flapped>>

(***************************************************************************)
(* The environment                                                         *)
(***************************************************************************)
\* A list that is recorded as synchronized, or that a synchronization under
\* way has yet to compare with the one it was asked for.
Believed(list) ==
  \/ ~ ledger.pending /\ Present(ledger) = list
  \/ \E o \in Observers : /\ observer[o].want = list
                         /\ \/ Step(o) = "probe"
                            \/ Step(o) = "post" /\ observer[o].seen = list

UpstreamChanges ==
  /\ upstreamChanges < MaxChanges
  /\ upstream' \in SUBSET CatalogTools \ {upstream}
  /\ upstreamChanges' = upstreamChanges + 1
  /\ flapped' = (flapped \/ (gateway # upstream' /\ Believed(upstream')))
  /\ UNCHANGED <<gateway, ledger, observer, clock, rereads, catalogFaults>>

Tick ==
  /\ clock < MaxClock
  /\ clock' = clock + 1
  /\ UNCHANGED <<upstream, gateway, ledger, observer, upstreamChanges,
                 rereads, catalogFaults, flapped>>

----------------------------------------------------------------------------
Observe(o) ==
  \/ Resync(o) \/ List(o) \/ Put(o) \/ PutRefused(o)
  \/ Synchronize(o) \/ Probe(o)
  \/ Post(o) \/ PostAgain(o) \/ PostDropped(o) \/ PutUnknown(o) \/ UnknownAgain(o)

ConnectedCatalogNext ==
  \/ \E o \in Observers : \/ Observe(o)
                          \/ Unlisted(o) \/ SyncFails(o) \/ ProbeFails(o)
                          \/ ObserverDies(o)
  \/ UpstreamChanges \/ Tick

\* The poller's loop never ends; an admin's request may come or not.
ConnectedCatalogFairness == WF_catalogVars(Observe("poller"))

ConnectedCatalogSpec ==
  ConnectedCatalogInit /\ [][ConnectedCatalogNext]_catalogVars
  /\ ConnectedCatalogFairness

----------------------------------------------------------------------------
\* What the ledger says of the server and has no mark against is what the Target
\* offers: the tools that a synchronization was made for are called OK only when
\* the list after it shows them again, whichever observers raced, failed or died.
\* Not when the list changed before a synchronization and back after it: no list
\* that Agora reads shows this, so the ledger says OK, and a tool RETIRED, of a
\* Target that read the other list, and nothing synchronizes it again.
AgreedIsServed ==
  ~ flapped /\ ~ ledger.pending /\ Present(ledger) = upstream => gateway = upstream

\* Once the server keeps its tools, the ledger and the Target come to agree with
\* it, whatever failed, died or raced before, unless it flapped: the marks that a
\* failed or lost synchronization leaves bring about another one.
CatalogConverges ==
  <>[](flapped \/ (ledger.ok /\ Present(ledger) = upstream /\ gateway = upstream))
=============================================================================
