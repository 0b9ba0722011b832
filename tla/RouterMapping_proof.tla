-------------------------- MODULE RouterMapping_proof --------------------------
(***************************************************************************)
(* The safety of the router mapping for any ports, attempts, starts, and   *)
(* any number of lost calls, renewals and crashes.                         *)
(*                                                                         *)
(* Two arguments that have only the types in common: a deletion that is on *)
(* its way is never on its way to another program's entry (SafeInv), and   *)
(* without losses and renewals the only entry of Connect is the one its    *)
(* work or its lease names (QuietInv).                                     *)
(***************************************************************************)
EXTENDS RouterMapping, TLAPS

-------------------------------------------------------------------------------

\* A mapping with a description that was handed out.
Named(l) == l \in [port : Ports, id : 1..nextId]

Steps == {"idle", "lookup", "add", "confirm", "discard", "owns", "remove", "dispose"}
Checks == {"idle", "owns", "address", "add", "confirm", "discard"}

\* Every call that is or may be under way names such a mapping.
NamedInv ==
  /\ main \in {"add", "confirm", "discard"} => Named(trying)
  /\ main = "lookup" => trying \in [port : Ports, id : Nat]
  /\ main \in {"owns", "remove"} => Named(lease)
  /\ lease # NoLease => Named(lease)
  /\ check # "idle" => Named(renewing)
  /\ \A call \in stray : call \in [kind : {"add", "delete"}, on : [port : Ports, id : 1..nextId]]
  /\ counts \in [starts : Nat, renewals : Nat, lost : Nat, forgets : Nat, crashes : Nat]

\* No deletion that is under way, or that the router may still carry out, is of
\* another program's mapping.
SafeInv ==
  /\ ~harmed
  /\ main = "discard" => table[trying.port].by # "other"
  /\ main = "remove" => table[lease.port].by # "other"
  /\ check = "discard" => table[renewing.port].by # "other"
  /\ \A call \in stray : call.kind = "delete" => table[call.on.port].by # "other"

\* While no call has been lost and no renewal begun, Connect's entry is the one
\* Map is confirming or the lease of the connection.
QuietInv ==
  counts.renewals = 0 /\ counts.lost = 0 /\ counts.crashes = 0 =>
    /\ stray = {} /\ check = "idle"
    /\ lease # NoLease => up /\ main \in {"idle", "owns", "remove", "dispose"}
    /\ main # "idle" => up
    /\ \A p \in Ports : table[p].by = "connect" =>
         \/ main \in {"confirm", "discard"} /\ p = trying.port /\ table[p].id = trying.id
         \/ /\ lease # NoLease /\ main # "dispose"
            /\ p = lease.port /\ table[p].id = lease.id

IInv == TypeOK /\ NamedInv /\ QuietInv /\ (~Interference => SafeInv)

-------------------------------------------------------------------------------

\* What the router has handed out stays an entry.
LEMMA EntriesGrow ==
  ASSUME nextId \in Nat, nextId' \in Nat, nextId' >= nextId
  PROVE  Entries \subseteq Entries'
  BY DEF Entries, Free, Other, Mine

\* An entry of Connect under a description that was handed out.
LEMMA MineIsEntry ==
  ASSUME NEW id \in 1..nextId, NEW forever \in BOOLEAN
  PROVE  Mine(id, forever) \in Entries
  BY DEF Entries

LEMMA FreeAndOtherAreEntries == Free \in Entries /\ Other \in Entries
  BY DEF Entries

\* The parts of TypeOK that a step changes together.
ControlOK ==
  /\ main \in Steps /\ check \in Checks
  /\ up \in BOOLEAN /\ healthy \in BOOLEAN /\ note \in BOOLEAN /\ harmed \in BOOLEAN
LeasesOK ==
  /\ attempt \in 0..MaxAttempts /\ nextId \in Nat
  /\ trying \in Leases /\ lease \in Leases /\ renewing \in Leases
CallsOK == \A call \in stray : call.kind \in {"add", "delete"} /\ call.on \in Leases

\* TypeOK is made of these parts.
LEMMA TypeParts ==
  TypeOK <=> table \in [Ports -> Entries] /\ CallsOK /\ ControlOK /\ LeasesOK
  BY DEF TypeOK, CallsOK, ControlOK, LeasesOK, Steps, Checks

\* Named mappings, and those Map has not named yet, are leases.
LEMMA NamedAreLeases ==
  /\ NoLease \in Leases
  /\ [port : Ports, id : Nat] \subseteq Leases
  /\ nextId \in Nat => \A l : Named(l) => l \in Leases
  BY DEF Leases, Named

\* The calls given up have their types since they name mappings.
LEMMA CallsTyped ==
  ASSUME NamedInv, nextId \in Nat
  PROVE  CallsOK
  BY DEF NamedInv, CallsOK, Leases

\* The type invariant after a step, from its parts.
LEMMA TypeNext ==
  ASSUME table' \in [Ports -> Entries'], NamedInv', ControlOK', LeasesOK'
  PROVE  TypeOK'
  <1>1. CallsOK'
    BY DEF NamedInv, CallsOK, Leases, LeasesOK
  <1> QED
    BY <1>1 DEF TypeOK, CallsOK, ControlOK, LeasesOK, Steps, Checks

\* The invariant holds when the application starts.
LEMMA InitIInv == Init => IInv
  <1> SUFFICES ASSUME Init PROVE IInv
    OBVIOUS
  <1>1. table \in [Ports -> Entries] /\ \A p \in Ports : table[p].by # "connect"
    BY FreeAndOtherAreEntries DEF Init, Free
  <1>2. ControlOK
    BY DEF Init, ControlOK, Steps, Checks
  <1>3. LeasesOK
    <2>1. 0 \in 0..MaxAttempts
      BY BoundsAssumption
    <2> QED
      BY <2>1, NamedAreLeases DEF Init, LeasesOK
  <1>4. NamedInv
    BY DEF Init, NamedInv
  <1>5. TypeOK
    BY <1>1, <1>2, <1>3, <1>4, CallsTyped, TypeParts DEF LeasesOK
  <1>6. QuietInv /\ SafeInv
    BY <1>1 DEF Init, QuietInv, SafeInv
  <1> QED
    BY <1>4, <1>5, <1>6 DEF IInv

\* A step that leaves the router alone, its entries and the calls given up.
LEMMA SameTable ==
  ASSUME TypeOK, table' = table, nextId' \in {nextId, nextId + 1}
  PROVE  table' \in [Ports -> Entries'] /\ nextId' \in Nat
  <1>1. nextId \in Nat /\ table \in [Ports -> Entries]
    BY DEF TypeOK
  <1>2. nextId' \in Nat /\ nextId' >= nextId
    BY <1>1
  <1>3. Entries \subseteq Entries'
    BY <1>1, <1>2, EntriesGrow
  <1> QED
    BY <1>1, <1>2, <1>3

\* A step that changes one entry.
LEMMA ChangedTable ==
  ASSUME TypeOK, nextId' = nextId, NEW p, NEW e \in Entries, table' = [table EXCEPT ![p] = e]
  PROVE  table' \in [Ports -> Entries']
  <1>1. nextId \in Nat /\ table \in [Ports -> Entries]
    BY DEF TypeOK
  <1>2. Entries \subseteq Entries'
    BY <1>1, EntriesGrow
  <1>3. table' \in [Ports -> Entries]
    BY <1>1
  <1> QED
    BY <1>2, <1>3

\* AddPortMapping makes the entry Connect's.
LEMMA AddedTable ==
  ASSUME TypeOK, nextId' = nextId, NEW l, Named(l), Added(l)
  PROVE  /\ table' \in [Ports -> Entries']
         /\ \A p \in Ports : p # l.port => table'[p] = table[p]
         /\ table'[l.port].by = "connect" /\ table'[l.port].id = l.id
  <1>1. PICK forever \in BOOLEAN : table' = [table EXCEPT ![l.port] = Mine(l.id, forever)]
    BY DEF Added
  <1>2. l.id \in 1..nextId /\ l.port \in Ports
    BY DEF Named
  <1>3. Mine(l.id, forever) \in Entries
    BY <1>2, MineIsEntry
  <1>4. table \in [Ports -> Entries]
    BY DEF TypeOK
  <1>5. table'[l.port] = Mine(l.id, forever)
    BY <1>1, <1>2, <1>4
  <1>6. table' \in [Ports -> Entries']
    BY <1>1, <1>3, ChangedTable
  <1>7. \A p \in Ports : p # l.port => table'[p] = table[p]
    BY <1>1, <1>4
  <1> QED
    BY <1>5, <1>6, <1>7 DEF Mine

\* DeletePortMapping frees the entry, and harms nobody it does not belong to.
LEMMA DeletedTable ==
  ASSUME TypeOK, nextId' = nextId, NEW l, Named(l), Deleted(l)
  PROVE  /\ table' \in [Ports -> Entries']
         /\ \A p \in Ports : p # l.port => table'[p] = table[p]
         /\ table'[l.port] = Free
         /\ harmed' \in BOOLEAN
         /\ table[l.port].by # "other" => harmed' = harmed
  <1>1. table' = [table EXCEPT ![l.port] = Free] /\ l.port \in Ports
    BY DEF Deleted, Named
  <1>2. harmed \in BOOLEAN /\ table \in [Ports -> Entries]
    BY DEF TypeOK
  <1>3. harmed' \in BOOLEAN /\ (table[l.port].by # "other" => harmed' = harmed)
    BY <1>2, Zenon DEF Deleted
  <1> QED
    BY <1>1, <1>2, <1>3, ChangedTable, FreeAndOtherAreEntries

\* An event is counted, and nothing else is.
LEMMA EventCounted ==
  ASSUME NamedInv, NEW e \in {"starts", "renewals", "lost", "forgets", "crashes"}, NEW max,
         Happens(e, max)
  PROVE  /\ counts' \in [starts : Nat, renewals : Nat, lost : Nat, forgets : Nat, crashes : Nat]
         /\ counts'[e] > 0
         /\ \A f \in {"starts", "renewals", "lost", "forgets", "crashes"} :
              f # e => counts'[f] = counts[f]
  BY DEF NamedInv, Happens

\* The steps of the connection and of Map.
LEMMA StartStep ==
  ASSUME IInv, Start
  PROVE  IInv'
  <1> USE DEF IInv
  <1>1. /\ main = "idle" /\ ~up /\ up' = TRUE /\ attempt' = 0 /\ note' = FALSE
        /\ \/ main' = "lookup" /\ trying' \in [port : Ports, id : {0}]
           \/ main' = "idle" /\ trying' = trying
        /\ UNCHANGED <<table, stray, check, renewing, lease, healthy, nextId, harmed>>
    BY DEF Start
  <1>2. /\ counts' \in [starts : Nat, renewals : Nat, lost : Nat, forgets : Nat, crashes : Nat]
        /\ counts'.renewals = counts.renewals /\ counts'.lost = counts.lost
        /\ counts'.crashes = counts.crashes
    BY EventCounted DEF Start
  <1>3. NamedInv'
    BY <1>1, <1>2 DEF NamedInv, Named
  <1>4. ControlOK'
    BY <1>1, TypeParts DEF ControlOK, Steps
  <1>5. LeasesOK'
    <2>1. attempt' \in 0..MaxAttempts
      BY <1>1, BoundsAssumption
    <2> QED
      BY <1>1, <2>1, TypeParts DEF LeasesOK, Leases
  <1>6. TypeOK'
    BY <1>1, <1>3, <1>4, <1>5, SameTable, TypeNext
  <1>7. QuietInv'
    BY <1>1, <1>2 DEF QuietInv
  <1>8. ~Interference => SafeInv'
    BY <1>1 DEF SafeInv
  <1> QED
    BY <1>3, <1>6, <1>7, <1>8

LEMMA StopStep ==
  ASSUME IInv, Stop
  PROVE  IInv'
  <1> USE DEF IInv
  <1>1. /\ main = "idle" /\ up /\ main' = IF lease # NoLease THEN "owns" ELSE "dispose"
        /\ UNCHANGED <<table, stray, check, renewing, up, attempt, trying, lease, healthy, note,
                       nextId, counts, harmed>>
    BY DEF Stop, app
  <1>2. NamedInv'
    BY <1>1 DEF NamedInv, Named
  <1>3. ControlOK' /\ LeasesOK'
    BY <1>1, TypeParts DEF ControlOK, LeasesOK, Leases, Steps
  <1>4. TypeOK'
    BY <1>1, <1>2, <1>3, SameTable, TypeNext
  <1>5. QuietInv'
    BY <1>1 DEF QuietInv
  <1>6. ~Interference => SafeInv'
    BY <1>1 DEF SafeInv
  <1> QED
    BY <1>2, <1>4, <1>5, <1>6

\* What a call given up may be.
Calls == [kind : {"add", "delete"}, on : [port : Ports, id : 1..nextId]]

\* A call that gets no answer.
LEMMA LoseEffect ==
  ASSUME NamedInv, nextId \in Nat, nextId' = nextId, NEW call \in SUBSET Calls, Lose(call)
  PROVE  /\ counts' \in [starts : Nat, renewals : Nat, lost : Nat, forgets : Nat, crashes : Nat]
         /\ counts'.lost > 0
         /\ stray' \subseteq Calls' /\ stray' \subseteq stray \cup call
         /\ table' = table /\ harmed' = harmed
  <1>1. stray \subseteq Calls /\ Calls' = Calls
    BY DEF NamedInv, Calls
  <1>2. stray' \in {stray, stray \cup call} /\ table' = table /\ harmed' = harmed
    BY DEF Lose, Untouched
  <1>3. /\ counts' \in [starts : Nat, renewals : Nat, lost : Nat, forgets : Nat, crashes : Nat]
        /\ counts'["lost"] > 0
    BY EventCounted DEF Lose
  <1> QED
    BY <1>1, <1>2, <1>3

\* The calls that add or remove a named mapping.
LEMMA CallsOf ==
  ASSUME NEW l, Named(l)
  PROVE  AddCall(l) \in SUBSET Calls /\ DeleteCall(l) \in SUBSET Calls
  BY DEF Named, Calls, AddCall, DeleteCall

\* The next attempt looks another port up, or the connection stays local.
LEMMA NextAttemptEffect ==
  ASSUME TypeOK, NextAttempt
  PROVE  /\ \/ main' = "lookup" /\ trying' \in [port : Ports, id : {0}]
            \/ main' = "idle" /\ trying' = NoLease
         /\ attempt' \in 0..MaxAttempts
         /\ UNCHANGED <<up, lease, healthy, note, nextId>>
  <1>1. attempt \in 0..MaxAttempts /\ MaxAttempts \in Nat
    BY BoundsAssumption DEF TypeOK
  <1> QED
    BY <1>1 DEF NextAttempt, MapFails

LEMMA LookUpPortStep ==
  ASSUME IInv, LookUpPort
  PROVE  IInv'
  <1> USE DEF IInv
  <1>0. nextId \in Nat /\ attempt \in 0..MaxAttempts /\ trying \in [port : Ports, id : Nat]
    BY DEF TypeOK, LookUpPort, NamedInv
  <1>1. /\ main = "lookup" /\ attempt' \in 0..MaxAttempts
        /\ \/ /\ \/ main' = "lookup" /\ trying' \in [port : Ports, id : {0}]
                 \/ main' = "idle" /\ trying' = NoLease
              /\ UNCHANGED <<nextId, stray, counts>>
           \/ /\ main' = "add" /\ trying' = [port |-> trying.port, id |-> nextId + 1]
              /\ nextId' = nextId + 1 /\ UNCHANGED <<stray, counts>>
           \/ main' = "idle" /\ trying' = NoLease /\ nextId' = nextId /\ Lose({})
        /\ UNCHANGED <<table, harmed, check, renewing, up, lease, healthy, note>>
    BY <1>0, NextAttemptEffect DEF LookUpPort, Untouched, MapFails, Lose
  <1>2. \/ UNCHANGED <<stray, counts>>
        \/ /\ counts' \in [starts : Nat, renewals : Nat, lost : Nat, forgets : Nat, crashes : Nat]
           /\ counts'.lost > 0 /\ stray' \subseteq stray
    BY <1>0, <1>1, LoseEffect
  <1>3. NamedInv'
    BY <1>0, <1>1, <1>2 DEF NamedInv, Named
  <1>4. ControlOK'
    BY <1>1, TypeParts DEF ControlOK, Steps
  <1>5. LeasesOK'
    BY <1>0, <1>1, TypeParts DEF LeasesOK, Leases
  <1>6. TypeOK'
    BY <1>1, <1>3, <1>4, <1>5, SameTable, TypeNext
  <1>7. QuietInv'
    BY <1>1, <1>2 DEF QuietInv
  <1>8. ~Interference => SafeInv'
    BY <1>1, <1>2 DEF SafeInv
  <1> QED
    BY <1>3, <1>6, <1>7, <1>8

LEMMA AddMappingStep ==
  ASSUME IInv, AddMapping
  PROVE  IInv'
  <1> USE DEF IInv
  <1>0. nextId \in Nat /\ attempt \in 0..MaxAttempts /\ Named(trying) /\ main = "add"
    BY DEF TypeOK, AddMapping, NamedInv
  <1>a. CASE CanAdd(trying) /\ Added(trying) /\ main' = "confirm"
             /\ UNCHANGED <<stray, harmed, app, counts, check, renewing>>
    <2>1. UNCHANGED <<up, attempt, trying, lease, healthy, note, nextId>>
      BY <1>a DEF app
    <2>2. /\ table' \in [Ports -> Entries']
          /\ \A p \in Ports : p # trying.port => table'[p] = table[p]
          /\ table'[trying.port].by = "connect" /\ table'[trying.port].id = trying.id
      BY <1>0, <1>a, <2>1, AddedTable
    <2>3. NamedInv'
      BY <1>0, <1>a, <2>1 DEF NamedInv, Named
    <2>4. ControlOK' /\ LeasesOK'
      BY <1>a, <2>1, TypeParts DEF ControlOK, LeasesOK, Steps, Leases
    <2>5. TypeOK'
      BY <2>2, <2>3, <2>4, TypeNext
    <2>6. QuietInv'
      BY <1>0, <1>a, <2>1, <2>2 DEF QuietInv
    <2>7. ~Interference => SafeInv'
      BY <1>0, <1>a, <2>1, <2>2 DEF SafeInv, NamedInv, Named
    <2> QED
      BY <2>3, <2>5, <2>6, <2>7
  <1>b. CASE /\ \/ NextAttempt /\ Untouched /\ UNCHANGED <<stray, counts>>
                \/ Untouched /\ MapFails /\ UNCHANGED <<stray, counts>>
                \/ Lose(AddCall(trying)) /\ MapFails
             /\ UNCHANGED <<check, renewing>>
    <2>1. /\ attempt' \in 0..MaxAttempts
          /\ \/ main' = "lookup" /\ trying' \in [port : Ports, id : {0}]
             \/ main' = "idle" /\ trying' = NoLease
          /\ UNCHANGED <<table, harmed, check, renewing, up, lease, healthy, note, nextId>>
      BY <1>0, <1>b, NextAttemptEffect DEF Untouched, MapFails, Lose
    <2>2. \/ UNCHANGED <<stray, counts>>
          \/ /\ counts' \in [starts : Nat, renewals : Nat, lost : Nat, forgets : Nat, crashes : Nat]
             /\ counts'.lost > 0 /\ stray' \subseteq Calls' /\ stray' \subseteq stray \cup AddCall(trying)
      BY <1>0, <1>b, <2>1, LoseEffect, CallsOf
    <2>3. NamedInv'
      BY <1>0, <2>1, <2>2 DEF NamedInv, Named, Calls
    <2>4. ControlOK'
      BY <2>1, TypeParts DEF ControlOK, Steps
    <2>5. LeasesOK'
      BY <2>1, TypeParts DEF LeasesOK, Leases
    <2>6. TypeOK'
      BY <2>1, <2>3, <2>4, <2>5, SameTable, TypeNext
    <2>7. QuietInv'
      BY <1>0, <2>1, <2>2 DEF QuietInv
    <2>8. ~Interference => SafeInv'
      BY <2>1, <2>2 DEF SafeInv, AddCall
    <2> QED
      BY <2>3, <2>6, <2>7, <2>8
  <1> QED
    BY <1>a, <1>b DEF AddMapping

LEMMA ConfirmMappingStep ==
  ASSUME IInv, ConfirmMapping
  PROVE  IInv'
  <1> USE DEF IInv
  <1>0. nextId \in Nat /\ Named(trying) /\ main = "confirm"
    BY DEF TypeOK, ConfirmMapping, NamedInv
  <1>1. /\ \/ /\ lease' = trying /\ healthy' = TRUE /\ main' = "idle" /\ trying' = NoLease
              /\ Owned(trying) /\ UNCHANGED <<stray, counts>>
           \/ /\ main' = "discard" /\ Owned(trying)
              /\ UNCHANGED <<lease, healthy, trying, stray, counts>>
           \/ /\ main' = "idle" /\ trying' = NoLease /\ ~Owned(trying)
              /\ UNCHANGED <<lease, healthy, stray, counts>>
           \/ main' = "idle" /\ trying' = NoLease /\ Lose({}) /\ UNCHANGED <<lease, healthy>>
        /\ UNCHANGED <<table, harmed, check, renewing, up, attempt, note, nextId>>
    BY DEF ConfirmMapping, Untouched, MapFails, Lose, app
  <1>2. \/ UNCHANGED <<stray, counts>>
        \/ /\ counts' \in [starts : Nat, renewals : Nat, lost : Nat, forgets : Nat, crashes : Nat]
           /\ counts'.lost > 0 /\ stray' \subseteq stray
    BY <1>0, <1>1, LoseEffect
  <1>3. NamedInv'
    BY <1>0, <1>1, <1>2 DEF NamedInv, Named
  <1>4. ControlOK'
    BY <1>1, TypeParts DEF ControlOK, Steps
  <1>5. LeasesOK'
    BY <1>0, <1>1, TypeParts DEF LeasesOK, Leases
  <1>6. TypeOK'
    BY <1>1, <1>3, <1>4, <1>5, SameTable, TypeNext
  <1>7. QuietInv'
    <2> SUFFICES ASSUME counts'.renewals = 0, counts'.lost = 0, counts'.crashes = 0
                 PROVE  QuietInv'
      BY DEF QuietInv
    <2>1. UNCHANGED <<stray, counts>>
      BY <1>2 DEF NamedInv
    <2>2. lease = NoLease /\ stray = {} /\ check = "idle" /\ up
      BY <2>1, <1>0 DEF QuietInv
    <2>3. \A p \in Ports : table[p].by = "connect" => p = trying.port /\ table[p].id = trying.id
      BY <2>1, <2>2, <1>0 DEF QuietInv
    <2>4. trying # NoLease
      BY <1>0 DEF Named, NoLease
    <2>5. CASE lease' = trying /\ main' = "idle"
      BY <1>1, <2>1, <2>2, <2>3, <2>4, <2>5 DEF QuietInv
    <2>6. CASE main' = "discard" /\ UNCHANGED <<lease, trying>>
      BY <1>1, <2>1, <2>2, <2>3, <2>6 DEF QuietInv
    <2>7. CASE main' = "idle" /\ ~Owned(trying) /\ UNCHANGED lease
      BY <1>1, <2>1, <2>2, <2>3, <2>7 DEF QuietInv, Owned
    <2>8. ~Lose({})
      BY <1>0, <1>1, LoseEffect
    <2> QED
      BY <1>1, <2>5, <2>6, <2>7, <2>8
  <1>8. ~Interference => SafeInv'
    BY <1>1, <1>2 DEF SafeInv, Owned
  <1> QED
    BY <1>3, <1>6, <1>7, <1>8

LEMMA DiscardMappingStep ==
  ASSUME IInv, DiscardMapping
  PROVE  IInv'
  <1> USE DEF IInv
  <1>0. nextId \in Nat /\ Named(trying) /\ main = "discard"
    BY DEF TypeOK, DiscardMapping, NamedInv
  <1>1. /\ main' = "idle" /\ trying' = NoLease
        /\ UNCHANGED <<check, renewing, up, attempt, lease, healthy, note, nextId>>
    BY DEF DiscardMapping, MapFails
  <1>2. \/ /\ UNCHANGED <<stray, counts>> /\ table' \in [Ports -> Entries'] /\ harmed' \in BOOLEAN
           /\ \A p \in Ports : p # trying.port => table'[p] = table[p]
           /\ table'[trying.port] = Free
           /\ table[trying.port].by # "other" => harmed' = harmed
        \/ /\ counts' \in [starts : Nat, renewals : Nat, lost : Nat, forgets : Nat, crashes : Nat]
           /\ counts'.lost > 0 /\ stray' \subseteq Calls' /\ stray' \subseteq stray \cup DeleteCall(trying)
           /\ UNCHANGED <<table, harmed>>
    BY <1>0, <1>1, LoseEffect, CallsOf, DeletedTable DEF DiscardMapping
  <1>3. NamedInv'
    BY <1>0, <1>1, <1>2 DEF NamedInv, Named, Calls
  <1>4. ControlOK'
    BY <1>1, <1>2, TypeParts DEF ControlOK, Steps
  <1>5. LeasesOK'
    BY <1>0, <1>1, TypeParts DEF LeasesOK, Leases
  <1>6. TypeOK'
    BY <1>1, <1>2, <1>3, <1>4, <1>5, SameTable, TypeNext
  <1>7. QuietInv'
    BY <1>0, <1>1, <1>2 DEF QuietInv, Free
  <1>8. ~Interference => SafeInv'
    BY <1>0, <1>1, <1>2 DEF SafeInv, DeleteCall, Free, NamedInv, Named
  <1> QED
    BY <1>3, <1>6, <1>7, <1>8

\* The steps of StopDirect.
LEMMA AskOwnerStep ==
  ASSUME IInv, AskOwner
  PROVE  IInv'
  <1> USE DEF IInv
  <1>0. nextId \in Nat /\ Named(lease) /\ main = "owns"
    BY DEF TypeOK, AskOwner, NamedInv
  <1>1. /\ \/ /\ main' = IF Owned(lease) THEN "remove" ELSE "dispose"
              /\ UNCHANGED <<note, stray, counts>>
           \/ main' = "dispose" /\ note' = TRUE /\ Lose({})
        /\ UNCHANGED <<table, harmed, check, renewing, up, attempt, trying, lease, healthy, nextId>>
    BY DEF AskOwner, Untouched, Unconfirmed, Lose, app
  <1>2. \/ UNCHANGED <<stray, counts>>
        \/ /\ counts' \in [starts : Nat, renewals : Nat, lost : Nat, forgets : Nat, crashes : Nat]
           /\ counts'.lost > 0 /\ stray' \subseteq stray
    BY <1>0, <1>1, LoseEffect
  <1>3. NamedInv'
    BY <1>0, <1>1, <1>2 DEF NamedInv, Named
  <1>4. ControlOK'
    BY <1>1, TypeParts DEF ControlOK, Steps
  <1>5. LeasesOK'
    BY <1>1, TypeParts DEF LeasesOK, Leases
  <1>6. TypeOK'
    BY <1>1, <1>3, <1>4, <1>5, SameTable, TypeNext
  <1>7. QuietInv'
    <2>1. ~Lose({}) \/ counts'.lost > 0
      BY <1>0, <1>1, LoseEffect
    <2> QED
      BY <1>0, <1>1, <1>2, <2>1 DEF QuietInv, Owned
  <1>8. ~Interference => SafeInv'
    BY <1>0, <1>1, <1>2 DEF SafeInv, Owned
  <1> QED
    BY <1>3, <1>6, <1>7, <1>8

LEMMA RemoveMappingStep ==
  ASSUME IInv, RemoveMapping
  PROVE  IInv'
  <1> USE DEF IInv
  <1>0. nextId \in Nat /\ Named(lease) /\ main = "remove"
    BY DEF TypeOK, RemoveMapping, NamedInv
  <1>1. /\ main' = "dispose" /\ note' \in {note, TRUE}
        /\ UNCHANGED <<check, renewing, up, attempt, trying, lease, healthy, nextId>>
    BY DEF RemoveMapping, Unconfirmed, app
  <1>2. \/ /\ UNCHANGED <<stray, counts>> /\ table' \in [Ports -> Entries'] /\ harmed' \in BOOLEAN
           /\ \A p \in Ports : p # lease.port => table'[p] = table[p]
           /\ table'[lease.port] = Free
           /\ table[lease.port].by # "other" => harmed' = harmed
        \/ UNCHANGED <<stray, counts, table, harmed>> /\ table[lease.port] = Free
        \/ /\ counts' \in [starts : Nat, renewals : Nat, lost : Nat, forgets : Nat, crashes : Nat]
           /\ counts'.lost > 0 /\ stray' \subseteq Calls' /\ stray' \subseteq stray \cup DeleteCall(lease)
           /\ UNCHANGED <<table, harmed>>
    BY <1>0, <1>1, LoseEffect, CallsOf, DeletedTable DEF RemoveMapping, Untouched
  <1>3. NamedInv'
    BY <1>0, <1>1, <1>2 DEF NamedInv, Named, Calls
  <1>4. ControlOK'
    BY <1>1, <1>2, TypeParts DEF ControlOK, Steps
  <1>5. LeasesOK'
    BY <1>0, <1>1, TypeParts DEF LeasesOK, Leases
  <1>6. TypeOK'
    BY <1>1, <1>2, <1>3, <1>4, <1>5, SameTable, TypeNext
  <1>7. QuietInv'
    BY <1>0, <1>1, <1>2 DEF QuietInv, Free
  <1>8. ~Interference => SafeInv'
    BY <1>0, <1>1, <1>2 DEF SafeInv, DeleteCall, Free, NamedInv, Named
  <1> QED
    BY <1>3, <1>6, <1>7, <1>8

LEMMA DisposeStep ==
  ASSUME IInv, Dispose
  PROVE  IInv'
  <1> USE DEF IInv
  <1>0. nextId \in Nat /\ main = "dispose"
    BY DEF TypeOK, Dispose
  <1>1. /\ main' = "idle" /\ up' = FALSE /\ lease' = NoLease /\ healthy' = FALSE
        /\ check' = "idle" /\ renewing' = NoLease
        /\ stray' \in {stray, stray \cup InFlight}
        /\ UNCHANGED <<table, attempt, trying, note, nextId, counts, harmed>>
    BY DEF Dispose
  <1>2. /\ InFlight \subseteq Calls
        /\ check = "idle" => InFlight = {}
        /\ \A call \in InFlight : call.kind = "delete" => check = "discard" /\ call.on = renewing
    <2>1. CASE check = "add"
      <3>1. InFlight = AddCall(renewing) /\ Named(renewing)
        BY <2>1 DEF InFlight, NamedInv
      <3> QED
        BY <2>1, <3>1, CallsOf DEF AddCall
    <2>2. CASE check = "discard"
      <3>1. InFlight = DeleteCall(renewing) /\ Named(renewing)
        BY <2>2 DEF InFlight, NamedInv
      <3> QED
        BY <2>2, <3>1, CallsOf DEF DeleteCall
    <2>3. CASE check \notin {"add", "discard"}
      BY <2>3 DEF InFlight
    <2> QED
      BY <2>1, <2>2, <2>3
  <1>3. NamedInv'
    BY <1>1, <1>2 DEF NamedInv, Named, Calls
  <1>4. ControlOK'
    BY <1>1, TypeParts DEF ControlOK, Steps, Checks
  <1>5. LeasesOK'
    BY <1>1, TypeParts DEF LeasesOK, Leases
  <1>6. TypeOK'
    BY <1>1, <1>3, <1>4, <1>5, SameTable, TypeNext
  <1>7. QuietInv'
    BY <1>0, <1>1, <1>2 DEF QuietInv
  <1>8. ~Interference => SafeInv'
    BY <1>1, <1>2 DEF SafeInv
  <1> QED
    BY <1>3, <1>6, <1>7, <1>8

\* The steps of CheckDirectStatus.
LEMMA BeginRenewStep ==
  ASSUME IInv, BeginRenew
  PROVE  IInv'
  <1> USE DEF IInv
  <1>1. /\ Named(lease) /\ check' = "owns" /\ renewing' = lease
        /\ UNCHANGED <<table, stray, main, up, attempt, trying, lease, healthy, note, nextId, harmed>>
    BY DEF BeginRenew, NamedInv, app
  <1>2. /\ counts' \in [starts : Nat, renewals : Nat, lost : Nat, forgets : Nat, crashes : Nat]
        /\ counts'.renewals > 0
    BY EventCounted DEF BeginRenew
  <1>3. NamedInv'
    BY <1>1, <1>2 DEF NamedInv, Named
  <1>4. ControlOK' /\ LeasesOK'
    BY <1>1, TypeParts DEF ControlOK, LeasesOK, Leases, Checks
  <1>5. TypeOK'
    BY <1>1, <1>3, <1>4, SameTable, TypeNext
  <1>6. QuietInv'
    BY <1>2 DEF QuietInv
  <1>7. ~Interference => SafeInv'
    BY <1>1 DEF SafeInv
  <1> QED
    BY <1>3, <1>5, <1>6, <1>7

\* While a renewal runs one has been begun, and every event is counted once.
LEMMA NotQuiet ==
  ASSUME IInv, check # "idle",
         \/ counts' = counts
         \/ counts'.lost > 0
  PROVE  QuietInv'
  BY DEF IInv, QuietInv

\* A renewal that throws changes the lease's health and nothing else of it.
LEMMA RenewFailsEffect ==
  ASSUME TypeOK, RenewFails
  PROVE  /\ check' = "idle" /\ renewing' = NoLease /\ healthy' \in BOOLEAN
         /\ UNCHANGED <<up, attempt, trying, lease, note, nextId>>
  <1>1. (healthy /\ main \in {"owns", "remove", "dispose"}) \in BOOLEAN
    OBVIOUS
  <1> QED
    BY <1>1 DEF RenewFails

\* The steps of a renewal that only ask the router.
LEMMA RenewAsks ==
  ASSUME IInv, RenewAsksOwner \/ RenewAsksAddress \/ RenewConfirms
  PROVE  IInv'
  <1> USE DEF IInv
  <1>0. nextId \in Nat /\ Named(renewing) /\ check \in {"owns", "address", "confirm"}
    BY DEF TypeOK, RenewAsksOwner, RenewAsksAddress, RenewConfirms, NamedInv
  <1>1. /\ healthy' \in BOOLEAN
        /\ \/ check' \in {"address", "add"} /\ UNCHANGED <<renewing, stray, counts>>
           \/ check' = "discard" /\ Owned(renewing) /\ UNCHANGED <<renewing, stray, counts>>
           \/ check' = "idle" /\ renewing' = NoLease /\ UNCHANGED <<stray, counts>>
           \/ check' = "idle" /\ renewing' = NoLease /\ Lose({})
        /\ UNCHANGED <<table, harmed, main, up, attempt, trying, lease, note, nextId>>
    <2>1. healthy \in BOOLEAN
      BY DEF TypeOK
    <2>2. CASE RenewAsksOwner
      BY <2>1, <2>2, RenewFailsEffect DEF RenewAsksOwner, Untouched, Lose, app
    <2>3. CASE RenewAsksAddress
      BY <2>1, <2>3, RenewFailsEffect DEF RenewAsksAddress, Untouched, Lose, app
    <2>4. CASE RenewConfirms
      BY <2>1, <2>4, RenewFailsEffect DEF RenewConfirms, Untouched, Lose, app
    <2> QED
      BY <2>2, <2>3, <2>4
  <1>2. \/ UNCHANGED <<stray, counts>>
        \/ /\ counts' \in [starts : Nat, renewals : Nat, lost : Nat, forgets : Nat, crashes : Nat]
           /\ counts'.lost > 0 /\ stray' \subseteq stray
    BY <1>0, <1>1, LoseEffect
  <1>3. NamedInv'
    BY <1>0, <1>1, <1>2 DEF NamedInv, Named
  <1>4. ControlOK'
    BY <1>1, TypeParts DEF ControlOK, Checks
  <1>5. LeasesOK'
    BY <1>1, TypeParts DEF LeasesOK, Leases
  <1>6. TypeOK'
    BY <1>1, <1>3, <1>4, <1>5, SameTable, TypeNext
  <1>7. QuietInv'
    BY <1>0, <1>2, NotQuiet
  <1>8. ~Interference => SafeInv'
    BY <1>1, <1>2 DEF SafeInv, Owned
  <1> QED
    BY <1>3, <1>6, <1>7, <1>8

\* The steps of a renewal that change the router's table.
LEMMA RenewAddsStep ==
  ASSUME IInv, RenewAdds
  PROVE  IInv'
  <1> USE DEF IInv
  <1>0. nextId \in Nat /\ Named(renewing) /\ check = "add"
    BY DEF TypeOK, RenewAdds, NamedInv
  <1>1. /\ healthy' \in BOOLEAN /\ harmed' = harmed
        /\ \/ check' = "confirm" /\ renewing' = renewing
           \/ check' = "idle" /\ renewing' = NoLease
        /\ UNCHANGED <<main, up, attempt, trying, lease, note, nextId>>
    <2>1. healthy \in BOOLEAN
      BY DEF TypeOK
    <2> QED
      BY <2>1, RenewFailsEffect DEF RenewAdds, Untouched, Lose, app
  <1>2. \/ /\ UNCHANGED <<stray, counts>> /\ table' \in [Ports -> Entries']
           /\ \A p \in Ports : p # renewing.port => table'[p] = table[p]
           /\ table'[renewing.port].by = "connect"
        \/ UNCHANGED <<stray, counts, table>>
        \/ /\ counts' \in [starts : Nat, renewals : Nat, lost : Nat, forgets : Nat, crashes : Nat]
           /\ counts'.lost > 0 /\ stray' \subseteq Calls' /\ stray' \subseteq stray \cup AddCall(renewing)
           /\ table' = table
    BY <1>0, <1>1, LoseEffect, CallsOf, AddedTable DEF RenewAdds, Untouched
  <1>3. NamedInv'
    BY <1>0, <1>1, <1>2 DEF NamedInv, Named, Calls
  <1>4. ControlOK'
    BY <1>1, TypeParts DEF ControlOK, Checks
  <1>5. LeasesOK'
    BY <1>1, TypeParts DEF LeasesOK, Leases
  <1>6. TypeOK'
    BY <1>1, <1>2, <1>3, <1>4, <1>5, SameTable, TypeNext
  <1>7. QuietInv'
    BY <1>0, <1>2, NotQuiet
  <1>8. ~Interference => SafeInv'
    BY <1>0, <1>1, <1>2 DEF SafeInv, AddCall, NamedInv, Named
  <1> QED
    BY <1>3, <1>6, <1>7, <1>8

LEMMA RenewDiscardsStep ==
  ASSUME IInv, RenewDiscards
  PROVE  IInv'
  <1> USE DEF IInv
  <1>0. nextId \in Nat /\ Named(renewing) /\ check = "discard"
    BY DEF TypeOK, RenewDiscards, NamedInv
  <1>1. /\ healthy' \in BOOLEAN /\ check' = "idle" /\ renewing' = NoLease
        /\ UNCHANGED <<main, up, attempt, trying, lease, note, nextId>>
    BY RenewFailsEffect DEF RenewDiscards
  <1>2. \/ /\ UNCHANGED <<stray, counts>> /\ table' \in [Ports -> Entries'] /\ harmed' \in BOOLEAN
           /\ \A p \in Ports : p # renewing.port => table'[p] = table[p]
           /\ table'[renewing.port] = Free
           /\ table[renewing.port].by # "other" => harmed' = harmed
        \/ /\ counts' \in [starts : Nat, renewals : Nat, lost : Nat, forgets : Nat, crashes : Nat]
           /\ counts'.lost > 0 /\ stray' \subseteq Calls' /\ stray' \subseteq stray \cup DeleteCall(renewing)
           /\ UNCHANGED <<table, harmed>>
    BY <1>0, <1>1, LoseEffect, CallsOf, DeletedTable DEF RenewDiscards
  <1>3. NamedInv'
    BY <1>0, <1>1, <1>2 DEF NamedInv, Named, Calls
  <1>4. ControlOK'
    BY <1>1, <1>2, TypeParts DEF ControlOK, Checks
  <1>5. LeasesOK'
    BY <1>1, TypeParts DEF LeasesOK, Leases
  <1>6. TypeOK'
    BY <1>1, <1>2, <1>3, <1>4, <1>5, SameTable, TypeNext
  <1>7. QuietInv'
    BY <1>0, <1>2, NotQuiet
  <1>8. ~Interference => SafeInv'
    BY <1>0, <1>1, <1>2 DEF SafeInv, DeleteCall, Free, NamedInv, Named
  <1> QED
    BY <1>3, <1>6, <1>7, <1>8

\* The router carries out a call whose caller has given up.
LEMMA CarryOutStep ==
  ASSUME IInv, NEW call \in stray, CarryOut(call)
  PROVE  IInv'
  <1> USE DEF IInv
  <1>1. /\ stray' = stray \ {call}
        /\ UNCHANGED <<main, check, renewing, up, attempt, trying, lease, healthy, note, nextId, counts>>
    BY DEF CarryOut, app
  <1>2. call.kind \in {"add", "delete"} /\ Named(call.on)
    BY DEF NamedInv, Named
  <1>3. \/ /\ table' \in [Ports -> Entries'] /\ harmed' = harmed
           /\ \A p \in Ports : p # call.on.port => table'[p] = table[p]
           /\ table'[call.on.port].by = "connect"
        \/ UNCHANGED <<table, harmed>>
        \/ /\ call.kind = "delete" /\ table' \in [Ports -> Entries'] /\ harmed' \in BOOLEAN
           /\ \A p \in Ports : p # call.on.port => table'[p] = table[p]
           /\ table'[call.on.port] = Free
           /\ table[call.on.port].by # "other" => harmed' = harmed
    BY <1>1, <1>2, AddedTable, DeletedTable DEF CarryOut, Untouched
  <1>4. NamedInv'
    BY <1>1 DEF NamedInv, Named
  <1>5. ControlOK' /\ LeasesOK'
    BY <1>1, <1>3, TypeParts DEF ControlOK, LeasesOK, Leases
  <1>6. TypeOK'
    BY <1>1, <1>3, <1>4, <1>5, SameTable, TypeNext
  <1>7. QuietInv'
    BY <1>1 DEF QuietInv
  <1>8. ~Interference => SafeInv'
    BY <1>1, <1>2, <1>3 DEF SafeInv, Free, NamedInv, Named
  <1> QED
    BY <1>4, <1>6, <1>7, <1>8

\* Others act on the router.  Without interference no deletion is under way.
LEMMA OthersStep ==
  ASSUME IInv, NEW p \in Ports, OtherMaps(p) \/ Forget(p)
  PROVE  IInv'
  <1> USE DEF IInv
  <1>1. /\ Others
        /\ UNCHANGED <<stray, main, check, renewing, up, attempt, trying, lease, healthy, note, nextId, harmed>>
    BY DEF OtherMaps, Forget, app
  <1>2. PICK e \in {Free, Other} : table' = [table EXCEPT ![p] = e]
    BY DEF OtherMaps, Forget
  <1>3. table \in [Ports -> Entries] /\ e.by # "connect"
    BY DEF TypeOK, Free, Other
  <1>4. /\ counts' \in [starts : Nat, renewals : Nat, lost : Nat, forgets : Nat, crashes : Nat]
        /\ counts'.renewals = counts.renewals /\ counts'.lost = counts.lost
        /\ counts'.crashes = counts.crashes
    <2>1. CASE OtherMaps(p)
      BY <2>1 DEF OtherMaps, NamedInv
    <2>2. CASE Forget(p)
      BY <2>2, EventCounted DEF Forget
    <2> QED
      BY <2>1, <2>2
  <1>5. NamedInv'
    BY <1>1, <1>4 DEF NamedInv, Named
  <1>6. ControlOK' /\ LeasesOK'
    BY <1>1, TypeParts DEF ControlOK, LeasesOK, Leases
  <1>7. TypeOK'
    BY <1>1, <1>2, <1>5, <1>6, ChangedTable, FreeAndOtherAreEntries, TypeNext
  <1>8. QuietInv'
    <2>1. \A q \in Ports : table'[q].by = "connect" => table'[q] = table[q]
      BY <1>2, <1>3
    <2> QED
      BY <1>1, <1>4, <2>1 DEF QuietInv
  <1>9. ~Interference => SafeInv'
    BY <1>1 DEF SafeInv, Others
  <1> QED
    BY <1>5, <1>7, <1>8, <1>9

\* A crash leaves the router as it is.
LEMMA CrashStep ==
  ASSUME IInv, Crash
  PROVE  IInv'
  <1> USE DEF IInv
  <1>1. /\ main' = "idle" /\ check' = "idle" /\ renewing' = NoLease
        /\ up' = FALSE /\ lease' = NoLease /\ healthy' = FALSE /\ trying' = NoLease
        /\ UNCHANGED <<table, stray, attempt, note, nextId, harmed>>
    BY DEF Crash
  <1>2. /\ counts' \in [starts : Nat, renewals : Nat, lost : Nat, forgets : Nat, crashes : Nat]
        /\ counts'.crashes > 0
    BY EventCounted DEF Crash
  <1>3. NamedInv'
    BY <1>1, <1>2 DEF NamedInv, Named
  <1>4. ControlOK' /\ LeasesOK'
    BY <1>1, TypeParts DEF ControlOK, LeasesOK, Leases, Steps, Checks
  <1>5. TypeOK'
    BY <1>1, <1>3, <1>4, SameTable, TypeNext
  <1>6. QuietInv'
    BY <1>2 DEF QuietInv
  <1>7. ~Interference => SafeInv'
    BY <1>1 DEF SafeInv
  <1> QED
    BY <1>3, <1>5, <1>6, <1>7

\* Nothing happens.
LEMMA StutterStep ==
  ASSUME IInv, UNCHANGED vars
  PROVE  IInv'
  BY DEF IInv, TypeOK, NamedInv, Named, QuietInv, SafeInv, Entries, Leases, vars, app

\* Every step preserves the inductive invariant.
THEOREM Invariant == Spec => []IInv
  <1>1. ASSUME IInv, [Next]_vars
        PROVE  IInv'
    <2>1. CASE Start \/ Stop \/ BeginRenew \/ Crash
      BY <1>1, <2>1, StartStep, StopStep, BeginRenewStep, CrashStep
    <2>2. CASE MainSteps
      BY <1>1, <2>2, LookUpPortStep, AddMappingStep, ConfirmMappingStep, DiscardMappingStep,
         AskOwnerStep, RemoveMappingStep, DisposeStep DEF MainSteps
    <2>3. CASE CheckSteps
      BY <1>1, <2>3, RenewAsks, RenewAddsStep, RenewDiscardsStep DEF CheckSteps
    <2>4. CASE \E call \in stray : CarryOut(call)
      BY <1>1, <2>4, CarryOutStep
    <2>5. CASE \E p \in Ports : OtherMaps(p) \/ Forget(p)
      BY <1>1, <2>5, OthersStep
    <2>6. CASE Finished \/ UNCHANGED vars
      BY <1>1, <2>6, StutterStep DEF Finished
    <2> QED
      BY <1>1, <2>1, <2>2, <2>3, <2>4, <2>5, <2>6 DEF Next
  <1> QED
    BY <1>1, InitIInv, PTL DEF Spec

\* The variables have their types: a mapping of Connect is under a description
\* that Map drew (RouterMapping.cs:92), and every call names one.
THEOREM TypeCorrect == Spec => []TypeOK
  <1>1. IInv => TypeOK
    BY DEF IInv
  <1> QED
    BY <1>1, Invariant, PTL

\* When others act between Connect's sequences of calls and not within them, no
\* mapping of another program is removed, whatever is lost, carried out late or
\* crashes (RouterMapping.cs:142).
THEOREM OthersSafe == ~Interference => (Spec => []OthersAreSafe)
  <1> SUFFICES ASSUME ~Interference PROVE Spec => []OthersAreSafe
    OBVIOUS
  <1>1. IInv => OthersAreSafe
    BY DEF IInv, SafeInv, OthersAreSafe
  <1> QED
    BY <1>1, Invariant, PTL

\* A stop that nothing races with leaves no mapping behind, or reports it
\* (DirectConnection.cs:102-117).
THEOREM QuietStop == Spec => []QuietStopUnmaps
  <1>1. IInv => QuietStopUnmaps
    BY DEF IInv, QuietInv, QuietStopUnmaps, StopUnmaps, Mapped
  <1> QED
    BY <1>1, Invariant, PTL

=============================================================================
