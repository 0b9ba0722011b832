---------------------------- MODULE RouterMapping ---------------------------
(***************************************************************************)
(* The temporary port mapping of a world hosted over the internet:         *)
(* UpnpRouter.Map, Add, Owns, Delete and RouterLease                       *)
(* (connect/src/Connect.Core/RouterMapping.cs), as StartDirect, StopDirect *)
(* and CheckDirectStatus use them                                          *)
(* (connect/src/Connect.App/DirectConnection.cs).                          *)
(*                                                                         *)
(* Two activities of the one user-interface thread interleave at their     *)
(* awaits: what a button started, and the renewal the status timer         *)
(* started.  The router belongs to everybody on the network; a call to it  *)
(* may be lost before or after it has been carried out, and one whose      *)
(* caller has given up may still be carried out later.                     *)
(***************************************************************************)
EXTENDS Integers, FiniteSets

CONSTANTS
  Ports,          \* external ports Map draws from
  MaxAttempts,    \* ports Map tries (5)
  MaxStarts,      \* bound: connections started
  MaxRenewals,    \* bound: renewals begun
  MaxLost,        \* bound: calls the router does not answer in time
  MaxForgets,     \* bound: mappings the router drops by itself
  MaxCrashes,     \* bound: crashes of the application
  Interference    \* others act in the middle of Connect's sequences of calls

ASSUME BoundsAssumption ==
  /\ {MaxAttempts, MaxStarts, MaxRenewals, MaxLost, MaxForgets, MaxCrashes} \subseteq Nat
  /\ Interference \in BOOLEAN

VARIABLES
  table,      \* the router's port mappings
  stray,      \* calls given up that the router may still carry out
  main,       \* where the button's work is: StartDirect or StopDirect
  check,      \* where the renewal is: RouterLease.Renew
  up,         \* a connection is active
  attempt,    \* ports Map has tried
  trying,     \* the mapping Map has created or is about to create
  lease,      \* the application's lease
  renewing,   \* the lease the renewal works on
  healthy,    \* mappingHealthy
  note,       \* StopDirect reported that the removal was not confirmed
  nextId,     \* descriptions handed out: RS2Connect-<id>
  counts,     \* of every bounded kind of event, how many there were
  harmed      \* a mapping of another program was removed by Connect

app == <<up, attempt, trying, lease, healthy, note, nextId>>
vars == <<table, stray, main, check, renewing, app, counts, harmed>>

Free == [by |-> "nobody", id |-> 0, forever |-> FALSE]
Other == [by |-> "other", id |-> 0, forever |-> TRUE]
Mine(id, forever) == [by |-> "connect", id |-> id, forever |-> forever]
NoLease == [port |-> 0, id |-> 0]

Init ==
  /\ table = [p \in Ports |-> Free] /\ stray = {}
  /\ main = "idle" /\ check = "idle" /\ up = FALSE
  /\ attempt = 0 /\ trying = NoLease /\ lease = NoLease /\ renewing = NoLease
  /\ healthy = FALSE /\ note = FALSE /\ nextId = 0
  /\ counts = [starts |-> 0, renewals |-> 0, lost |-> 0, forgets |-> 0, crashes |-> 0]
  /\ harmed = FALSE

(***************************************************************************)
(* The router.                                                             *)
(***************************************************************************)

Owned(l) == table[l.port].by = "connect" /\ table[l.port].id = l.id

\* AddPortMapping: an entry of another client is a conflict (718), an entry of
\* this client is replaced; some routers ignore the lease time.
CanAdd(l) == table[l.port].by # "other"
Added(l) == \E forever \in BOOLEAN : table' = [table EXCEPT ![l.port] = Mine(l.id, forever)]

\* DeletePortMapping looks at nothing but the port.
Deleted(l) ==
  /\ table' = [table EXCEPT ![l.port] = Free]
  /\ harmed' = (harmed \/ table[l.port].by = "other")

Untouched == UNCHANGED <<table, harmed>>

Happens(event, max) ==
  /\ counts[event] < max
  /\ counts' = [counts EXCEPT ![event] = @ + 1]

\* A call gets no answer: the router never saw it, or will carry it out later.
\* (That it has carried it out by now is a stray that is carried out at once.)
Lose(call) ==
  /\ Happens("lost", MaxLost)
  /\ stray' \in {stray, stray \cup call}
  /\ Untouched

AddCall(l) == {[kind |-> "add", on |-> l]}
DeleteCall(l) == {[kind |-> "delete", on |-> l]}

CarryOut(call) ==
  /\ call \in stray
  /\ stray' = stray \ {call}
  /\ \/ call.kind = "add" /\ CanAdd(call.on) /\ Added(call.on) /\ UNCHANGED harmed
     \/ call.kind = "add" /\ ~CanAdd(call.on) /\ Untouched
     \/ call.kind = "delete" /\ Deleted(call.on)
  /\ UNCHANGED <<main, check, renewing, app, counts>>

Others == Interference \/ (main = "idle" /\ check = "idle" /\ stray = {})

\* Other programs map free ports and remove what they mapped; the router drops
\* a mapping: its lease ends, the router restarts, its owner removes it.
OtherMaps(p) ==
  /\ Others
  /\ \/ table[p] = Free /\ table' = [table EXCEPT ![p] = Other]
     \/ table[p] = Other /\ table' = [table EXCEPT ![p] = Free]
  /\ UNCHANGED <<stray, main, check, renewing, app, counts, harmed>>

Forget(p) ==
  /\ Others /\ table[p].by = "connect" /\ Happens("forgets", MaxForgets)
  /\ table' = [table EXCEPT ![p] = Free]
  /\ UNCHANGED <<stray, main, check, renewing, app, harmed>>

(***************************************************************************)
(* StartDirect and UpnpRouter.Map.                                         *)
(***************************************************************************)

\* The connection starts; unless no router is found, or it has no public
\* address, Map begins with a random port.
Start ==
  /\ main = "idle" /\ ~up /\ Happens("starts", MaxStarts)
  /\ up' = TRUE /\ attempt' = 0 /\ note' = FALSE
  /\ \/ \E p \in Ports : main' = "lookup" /\ trying' = [port |-> p, id |-> 0]
     \/ UNCHANGED <<main, trying>>
  /\ UNCHANGED <<table, stray, check, renewing, lease, healthy, nextId, harmed>>

\* Map throws: the world remains available on the local network.
MapFails ==
  /\ main' = "idle" /\ trying' = NoLease
  /\ UNCHANGED <<up, attempt, lease, healthy, note, nextId>>

NextAttempt ==
  \/ /\ attempt + 1 < MaxAttempts
     /\ attempt' = attempt + 1
     /\ \E p \in Ports : main' = "lookup" /\ trying' = [port |-> p, id |-> 0]
     /\ UNCHANGED <<up, lease, healthy, note, nextId>>
  \/ /\ attempt + 1 >= MaxAttempts
     /\ MapFails

LookUpPort ==
  /\ main = "lookup"
  /\ \/ /\ table[trying.port] # Free
        /\ NextAttempt /\ Untouched /\ UNCHANGED <<stray, counts>>
     \/ /\ table[trying.port] = Free
        /\ main' = "add" /\ nextId' = nextId + 1
        /\ trying' = [trying EXCEPT !.id = nextId + 1]
        /\ Untouched /\ UNCHANGED <<stray, up, attempt, lease, healthy, note, counts>>
     \/ Lose({}) /\ MapFails
  /\ UNCHANGED <<check, renewing>>

AddMapping ==
  /\ main = "add"
  /\ \/ /\ CanAdd(trying) /\ Added(trying)
        /\ main' = "confirm"
        /\ UNCHANGED <<stray, harmed, app, counts>>
     \/ ~CanAdd(trying) /\ NextAttempt /\ Untouched /\ UNCHANGED <<stray, counts>>
     \/ Untouched /\ MapFails /\ UNCHANGED <<stray, counts>>    \* 725, or another fault
     \/ Lose(AddCall(trying)) /\ MapFails
  /\ UNCHANGED <<check, renewing>>

\* Seeded fault: a rule without an end is refused and left where it is.
ConfirmMappingKeepingRule ==
  /\ main = "confirm"
  /\ \/ /\ Owned(trying) /\ ~table[trying.port].forever
        /\ lease' = trying /\ healthy' = TRUE /\ main' = "idle" /\ trying' = NoLease
        /\ Untouched /\ UNCHANGED <<stray, up, attempt, note, nextId, counts>>
     \/ ~(Owned(trying) /\ ~table[trying.port].forever) /\ MapFails /\ Untouched /\ UNCHANGED <<stray, counts>>
     \/ Lose({}) /\ MapFails
  /\ UNCHANGED <<check, renewing>>

\* The rule must be there, be ours and have an end.
ConfirmMapping ==
  /\ main = "confirm"
  /\ \/ /\ Owned(trying) /\ ~table[trying.port].forever
        /\ lease' = trying /\ healthy' = TRUE /\ main' = "idle" /\ trying' = NoLease
        /\ Untouched /\ UNCHANGED <<stray, up, attempt, note, nextId, counts>>
     \/ /\ Owned(trying) /\ table[trying.port].forever
        /\ main' = "discard"
        /\ Untouched /\ UNCHANGED <<stray, app, counts>>
     \/ ~Owned(trying) /\ MapFails /\ Untouched /\ UNCHANGED <<stray, counts>>
     \/ Lose({}) /\ MapFails
  /\ UNCHANGED <<check, renewing>>

DiscardMapping ==
  /\ main = "discard"
  /\ \/ Deleted(trying) /\ UNCHANGED <<stray, counts>>
     \/ Lose(DeleteCall(trying))
  /\ MapFails
  /\ UNCHANGED <<check, renewing>>

(***************************************************************************)
(* StopDirect and RouterLease.DisposeAsync.                                *)
(***************************************************************************)

\* Seeded fault: the rule is removed without asking whose it is.
StopWithoutAsking ==
  /\ main = "idle" /\ up
  /\ main' = IF lease # NoLease THEN "remove" ELSE "dispose"
  /\ UNCHANGED <<table, stray, check, renewing, app, counts, harmed>>

Stop ==
  /\ main = "idle" /\ up
  /\ main' = IF lease # NoLease THEN "owns" ELSE "dispose"
  /\ UNCHANGED <<table, stray, check, renewing, app, counts, harmed>>

Unconfirmed == note' = TRUE /\ UNCHANGED <<up, attempt, trying, lease, healthy, nextId>>

AskOwner ==
  /\ main = "owns"
  /\ \/ /\ main' = IF Owned(lease) THEN "remove" ELSE "dispose"
        /\ Untouched /\ UNCHANGED <<stray, app, counts>>
     \/ main' = "dispose" /\ Lose({}) /\ Unconfirmed
  /\ UNCHANGED <<check, renewing>>

\* A port without a mapping is a fault (714), and reported as well.
RemoveMapping ==
  /\ main = "remove"
  /\ main' = "dispose"
  /\ \/ table[lease.port] # Free /\ Deleted(lease) /\ UNCHANGED <<stray, app, counts>>
     \/ table[lease.port] = Free /\ Untouched /\ Unconfirmed /\ UNCHANGED <<stray, counts>>
     \/ Lose(DeleteCall(lease)) /\ Unconfirmed
  /\ UNCHANGED <<check, renewing>>

\* The call a renewal waits for when the HttpClient is disposed of.
InFlight ==
  CASE check = "add" -> AddCall(renewing)
    [] check = "discard" -> DeleteCall(renewing)
    [] OTHER -> {}

\* router.Dispose cancels what a renewal waits for; the router may have it.
Dispose ==
  /\ main = "dispose"
  /\ main' = "idle" /\ up' = FALSE /\ lease' = NoLease /\ healthy' = FALSE
  /\ check' = "idle" /\ renewing' = NoLease
  /\ stray' \in {stray, stray \cup InFlight}
  /\ UNCHANGED <<table, attempt, trying, note, nextId, counts, harmed>>

(***************************************************************************)
(* CheckDirectStatus and RouterLease.Renew.                                *)
(***************************************************************************)

BeginRenew ==
  /\ check = "idle" /\ main = "idle" /\ up
  /\ lease # NoLease /\ healthy /\ Happens("renewals", MaxRenewals)
  /\ check' = "owns" /\ renewing' = lease
  /\ UNCHANGED <<table, stray, main, app, harmed>>

\* Renew throws.  The connection is marked unless StopDirect has begun since.
RenewFails ==
  /\ check' = "idle" /\ renewing' = NoLease
  /\ healthy' = (healthy /\ main \in {"owns", "remove", "dispose"})
  /\ UNCHANGED <<up, attempt, trying, lease, note, nextId>>

RenewAsksOwner ==
  /\ check = "owns"
  /\ \/ /\ Owned(renewing) /\ check' = "address"
        /\ Untouched /\ UNCHANGED <<stray, renewing, app, counts>>
     \/ ~Owned(renewing) /\ RenewFails /\ Untouched /\ UNCHANGED <<stray, counts>>
     \/ Lose({}) /\ RenewFails
  /\ UNCHANGED main

RenewAsksAddress ==
  /\ check = "address"
  /\ \/ check' = "add" /\ Untouched /\ UNCHANGED <<stray, renewing, app, counts>>
     \/ RenewFails /\ Untouched /\ UNCHANGED <<stray, counts>>   \* changed, or not public
     \/ Lose({}) /\ RenewFails
  /\ UNCHANGED main

RenewAdds ==
  /\ check = "add"
  /\ \/ /\ CanAdd(renewing) /\ Added(renewing) /\ check' = "confirm"
        /\ UNCHANGED <<stray, harmed, renewing, app, counts>>
     \/ Untouched /\ RenewFails /\ UNCHANGED <<stray, counts>>
     \/ Lose(AddCall(renewing)) /\ RenewFails
  /\ UNCHANGED main

RenewConfirms ==
  /\ check = "confirm"
  /\ \/ /\ Owned(renewing) /\ ~table[renewing.port].forever
        /\ check' = "idle" /\ renewing' = NoLease
        /\ Untouched /\ UNCHANGED <<stray, app, counts>>
     \/ /\ Owned(renewing) /\ table[renewing.port].forever
        /\ check' = "discard"
        /\ Untouched /\ UNCHANGED <<stray, renewing, app, counts>>
     \/ ~Owned(renewing) /\ RenewFails /\ Untouched /\ UNCHANGED <<stray, counts>>
     \/ Lose({}) /\ RenewFails
  /\ UNCHANGED main

RenewDiscards ==
  /\ check = "discard"
  /\ \/ Deleted(renewing) /\ UNCHANGED <<stray, counts>>
     \/ Lose(DeleteCall(renewing))
  /\ RenewFails
  /\ UNCHANGED main

\* The application dies; it keeps nothing of its mapping anywhere.
Crash ==
  /\ up /\ Happens("crashes", MaxCrashes)
  /\ main' = "idle" /\ check' = "idle" /\ renewing' = NoLease
  /\ up' = FALSE /\ lease' = NoLease /\ healthy' = FALSE /\ trying' = NoLease
  /\ UNCHANGED <<table, stray, attempt, note, nextId, harmed>>

MainSteps ==
  \/ LookUpPort \/ AddMapping \/ ConfirmMapping \/ DiscardMapping
  \/ AskOwner \/ RemoveMapping \/ Dispose

CheckSteps ==
  RenewAsksOwner \/ RenewAsksAddress \/ RenewAdds \/ RenewConfirms \/ RenewDiscards

\* Bound: after the last connection there is nothing left to start.
Finished == main = "idle" /\ ~up /\ counts.starts = MaxStarts /\ UNCHANGED vars

Next ==
  \/ Start \/ Stop \/ MainSteps
  \/ BeginRenew \/ CheckSteps
  \/ (\E call \in stray : CarryOut(call))
  \/ (\E p \in Ports : OtherMaps(p) \/ Forget(p))
  \/ Crash \/ Finished

Spec == Init /\ [][Next]_vars

(***************************************************************************)
(* Properties.                                                             *)
(***************************************************************************)

Leases == [port : Ports, id : Nat] \cup {NoLease}
Entries == {Free, Other} \cup {Mine(id, forever) : id \in 1..nextId, forever \in BOOLEAN}

\* The variables have their types, and a mapping of Connect has a description
\* that was handed out.
TypeOK ==
  /\ table \in [Ports -> Entries]
  /\ \A call \in stray : call.kind \in {"add", "delete"} /\ call.on \in Leases
  /\ main \in {"idle", "lookup", "add", "confirm", "discard", "owns", "remove", "dispose"}
  /\ check \in {"idle", "owns", "address", "add", "confirm", "discard"}
  /\ up \in BOOLEAN /\ healthy \in BOOLEAN /\ note \in BOOLEAN /\ harmed \in BOOLEAN
  /\ attempt \in 0..MaxAttempts /\ nextId \in Nat
  /\ trying \in Leases /\ lease \in Leases /\ renewing \in Leases

\* "Never remove another program's mapping" (RouterMapping.cs:142).
OthersAreSafe == ~harmed

Mapped == {p \in Ports : table[p].by = "connect"}

\* "Connect closes sessions, removes its own router mapping [...] If the router
\* does not confirm removal, the app reports it" (docs/ONLINE-DIRECT.md:69).
StopUnmaps == ~up /\ ~note /\ counts.crashes = 0 => Mapped = {}

\* It does so when nothing races: no renewal has been begun, and no call to the
\* router has gone without an answer (DirectConnection.cs:102-117).
QuietStopUnmaps == counts.renewals = 0 /\ counts.lost = 0 => StopUnmaps

=============================================================================
