------------------------------ MODULE Discovery ------------------------------
(* How an Xbox finds the computer it logs in at: xbox_connect_login of        *)
(* xboxconnect.c asks the whole network, twice at most, and takes the answer  *)
(* of the one computer that gives one; Receive of XboxDiscovery.cs lists who  *)
(* asks, under the code the player is to approve, and answers.  Messages are  *)
(* UDP: they may be late, out of order, or lost.  An answer that is heard is  *)
(* heard at once, since what is done at its two ends meanwhile commutes; so   *)
(* it is the requests that are late here, or never received.  An answer goes  *)
(* to the socket of the login that asked, which is closed at its end.         *)
(*                                                                            *)
(* A computer's Start makes a new key, a start of the Xbox a new code.  Who   *)
(* is approved is the player's to say at any time.  A computer that drops     *)
(* requests because too many came in a second does not receive them.          *)
EXTENDS Integers, FiniteSets

CONSTANTS
    Xboxes, PCs,
    MaxFound,    \* Xboxes a computer lists; 32 in the code
    MaxLogins,   \* logins explored, of each Xbox
    MaxBoots,    \* codes explored, of each Xbox
    MaxStarts    \* starts explored, of each computer

DiscoveryAssumption ==
    /\ IsFiniteSet(Xboxes) /\ IsFiniteSet(PCs)
    /\ MaxFound \in Nat \ {0} /\ MaxStarts \in Nat
    /\ MaxLogins \in [Xboxes -> Nat] /\ MaxBoots \in [Xboxes -> Nat \ {0}]

VARIABLES
    \* the Xboxes
    boot,      \* its nonce, made at its first login since it was started
    logins,    \* how often it has asked
    attempt,   \* of the login under way: 1 or 2; 0: none is
    result,    \* its last answer, or NoAnswer
    heard,     \* the computers whose answers it had
    outcome,   \* what the last login came to: an answer, or NoAnswer
    \* the computers
    starts,    \* how often Connect was started: its key; 0: never
    running,
    found,     \* of each Xbox its entry, or NotFound
    requests   \* on their way

xbox == <<boot, logins, attempt, result, heard, outcome>>
pcs == <<starts, running, found>>
vars == <<xbox, pcs, requests>>

NoAnswer == [status |-> "none"]
NotFound == [code |-> -1, fresh |-> FALSE]
Request == [xbox : Xboxes, login : Nat, nonce : Nat, to : PCs]
Answer == [xbox : Xboxes, login : Nat, from : PCs, status : {"OK", "PAIR"},
           key : Nat]

TypeOK ==
    /\ boot \in [Xboxes -> Nat] /\ logins \in [Xboxes -> Nat]
    /\ attempt \in [Xboxes -> 0..2]
    /\ result \in [Xboxes -> Answer \cup {NoAnswer}]
    /\ outcome \in [Xboxes -> Answer \cup {NoAnswer}]
    /\ heard \in [Xboxes -> SUBSET PCs]
    /\ starts \in [PCs -> Nat] /\ running \subseteq PCs
    /\ found \in [PCs -> [Xboxes -> {NotFound} \cup
                                    [code : Nat, fresh : BOOLEAN]]]
    /\ requests \subseteq Request

Init ==
    /\ boot = [x \in Xboxes |-> 1] /\ logins = [x \in Xboxes |-> 0]
    /\ attempt = [x \in Xboxes |-> 0] /\ heard = [x \in Xboxes |-> {}]
    /\ result = [x \in Xboxes |-> NoAnswer] /\ outcome = result
    /\ starts = [p \in PCs |-> 0] /\ running = {}
    /\ found = [p \in PCs |-> [x \in Xboxes |-> NotFound]]
    /\ requests = {}

-----------------------------------------------------------------------------
(* The Xbox. *)

Asks(x, login) ==
    requests' = requests \cup
        {[xbox |-> x, login |-> login, nonce |-> boot[x], to |-> p] : p \in running}

\* xbox_connect_login begins.
Login(x) ==
    /\ attempt[x] = 0 /\ logins[x] < MaxLogins[x]
    /\ logins' = [logins EXCEPT ![x] = @ + 1]
    /\ attempt' = [attempt EXCEPT ![x] = 1]
    /\ result' = [result EXCEPT ![x] = NoAnswer]
    /\ outcome' = [outcome EXCEPT ![x] = NoAnswer]
    /\ heard' = [heard EXCEPT ![x] = {}]
    /\ Asks(x, logins'[x])
    /\ UNCHANGED <<boot, pcs>>

Ends(x, answer) ==
    /\ attempt' = [attempt EXCEPT ![x] = 0]
    /\ outcome' = [outcome EXCEPT ![x] = answer]

\* Seeded fault: another computer's answer goes unnoticed.
NeverMultiple(x, a) == FALSE

\* An answer to the socket that is open: the last one counts, and one of
\* another computer ends the search at once.
Multiple(x, a) == result[x] # NoAnswer /\ result[x].from # a.from

Hear(x, a) ==
    /\ attempt[x] > 0 /\ a.login = logins[x]
    /\ heard' = [heard EXCEPT ![x] = @ \cup {a.from}]
    /\ IF Multiple(x, a)
       THEN Ends(x, NoAnswer) /\ UNCHANGED result
       ELSE /\ result' = [result EXCEPT ![x] = a]
            /\ UNCHANGED <<attempt, outcome>>
    /\ UNCHANGED <<boot, logins>>

\* 900 ms are over: the last answer decides, and without one it asks again,
\* once.
Deadline(x) ==
    /\ attempt[x] > 0
    /\ IF result[x] = NoAnswer /\ attempt[x] = 1
       THEN /\ attempt' = [attempt EXCEPT ![x] = 2]
            /\ Asks(x, logins[x]) /\ UNCHANGED outcome
       ELSE Ends(x, result[x]) /\ UNCHANGED requests
    /\ UNCHANGED <<boot, logins, result, heard, pcs>>

\* It is turned off and on again, which takes longer than a message.  The new
\* code, of the ticks at the first login, may be the old one.
Boot(x) ==
    /\ boot' \in {boot, [boot EXCEPT ![x] = @ + 1]} /\ boot'[x] <= MaxBoots[x]
    /\ attempt' = [attempt EXCEPT ![x] = 0]
    /\ result' = [result EXCEPT ![x] = NoAnswer]
    /\ outcome' = [outcome EXCEPT ![x] = NoAnswer]
    /\ heard' = [heard EXCEPT ![x] = {}]
    /\ requests' = {m \in requests : m.xbox # x}
    /\ UNCHANGED <<logins, pcs>>

-----------------------------------------------------------------------------
(* The computer. *)

Start(p) ==
    /\ p \notin running /\ starts[p] < MaxStarts
    /\ running' = running \cup {p} /\ starts' = [starts EXCEPT ![p] = @ + 1]
    /\ found' = [found EXCEPT ![p] = [x \in Xboxes |-> NotFound]]
    /\ UNCHANGED <<xbox, requests>>

Stop(p) ==
    /\ p \in running /\ running' = running \ {p}
    /\ requests' = {m \in requests : m.to # p}
    /\ UNCHANGED <<xbox, starts, found>>

\* Two minutes have passed since the Xbox was seen.
Ages(p, x) ==
    /\ found[p][x].fresh /\ found' = [found EXCEPT ![p][x].fresh = FALSE]
    /\ UNCHANGED <<xbox, starts, running, requests>>

Listed(entries) == {x \in Xboxes : entries[x] # NotFound}

\* A new Xbox finds the list full: the entries that are old are removed.
Pruned(entries, x) ==
    IF x \notin Listed(entries) /\ Cardinality(Listed(entries)) >= MaxFound
    THEN [y \in Xboxes |-> IF entries[y].fresh THEN entries[y] ELSE NotFound]
    ELSE entries

\* Seeded fault: the entry keeps the code it was made with.
EntryKept(entries, x, nonce) ==
    IF entries[x] = NotFound THEN [code |-> nonce, fresh |-> TRUE]
    ELSE [entries[x] EXCEPT !.fresh = TRUE]

\* The entry of an Xbox that asks.
Entry(entries, x, nonce) == [code |-> nonce, fresh |-> TRUE]

\* Receive: it lists the Xbox, if there is room, and answers, and the answer is
\* heard or not.
Receive(p) ==
    \E m \in requests :
        LET x       == m.xbox
            entries == Pruned(found[p], x)
            room    == x \in Listed(entries)
                       \/ Cardinality(Listed(entries)) < MaxFound
        IN  /\ m.to = p
            /\ requests' = requests \ {m}
            /\ found' = [found EXCEPT ![p] =
                            IF room THEN [entries EXCEPT
                                             ![x] = Entry(entries, x, m.nonce)]
                            ELSE entries]
            /\ \/ room /\ \E status \in {"OK", "PAIR"} :
                   Hear(x, [xbox |-> x, login |-> m.login, from |-> p,
                            key |-> starts[p], status |-> status])
               \/ UNCHANGED xbox
            /\ UNCHANGED <<starts, running>>

Next ==
    \/ \E x \in Xboxes : Login(x) \/ Deadline(x) \/ Boot(x)
    \/ \E p \in PCs : \/ Start(p) \/ Stop(p) \/ Receive(p)
                      \/ \E x \in Xboxes : Ages(p, x)

Spec == Init /\ [][Next]_vars

-----------------------------------------------------------------------------
\* An Xbox that goes on, to log in or to ask for approval, had an answer of
\* this one computer and of no other, whatever was lost, late, or left from an
\* earlier login.
OneComputer ==
    \A x \in Xboxes :
        outcome[x] # NoAnswer =>
            /\ heard[x] = {outcome[x].from}
            /\ outcome[x].login = logins[x]

\* The player who is told to approve a code finds no other code for that Xbox
\* on the computer's list, which is never longer than it may be.
CodesAreCurrent ==
    /\ \A p \in PCs : Cardinality(Listed(found[p])) <= MaxFound
    /\ \A x \in Xboxes :
          LET o == outcome[x]
          IN  o # NoAnswer /\ o.from \in running /\ o.key = starts[o.from]
              /\ found[o.from][x] # NotFound
              => found[o.from][x].code = boot[x]
=============================================================================
