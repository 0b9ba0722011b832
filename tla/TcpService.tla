------------------------------ MODULE TcpService ------------------------------
(***************************************************************************)
(* The bounded listener of Connect: TcpService                             *)
(* (connect/src/Connect.Core/DirectTunnel.cs) with the session of          *)
(* DirectTunnel.Host, and its older twin Gateway                           *)
(* (connect/src/Connect.Core/Gateway.cs), which differs in what a second   *)
(* DisposeAsync does.  What a session relays is in Relay.                  *)
(*                                                                         *)
(* The accept loop, the sessions, the continuations that take them out of  *)
(* the table and DisposeAsync run on threads of the pool and interleave at *)
(* their awaits and at every access to the table they share.               *)
(***************************************************************************)
EXTENDS Integers, Sequences, FiniteSets

CONSTANTS
  Clients,        \* connections that arrive, each once
  Cap,            \* sessions at a time (64)
  MaxAttempts,    \* connections accepted or refused in a minute (120)
  MaxWindows,     \* bound: minutes that pass
  AcceptMayFail   \* AcceptTcpClientAsync may throw with nobody stopping

ASSUME CapAssumption == Cap \in Nat \ {0} /\ IsFiniteSet(Clients)
ASSUME BoundsAssumption ==
  {MaxAttempts, MaxWindows} \subseteq Nat /\ AcceptMayFail \in BOOLEAN

VARIABLES
  idempotent, \* a second DisposeAsync returns at once: a TcpService, not a Gateway
  backlog,    \* connections the operating system holds for the listener
  listening,  \* the listener has not been stopped
  stop,       \* the cancellation token is cancelled
  accept,     \* where the accept loop is
  taken,      \* the connection the loop works on
  attempts,   \* connections of the current minute
  minutes,    \* minutes that have passed
  task,       \* the session of every connection
  sessions,   \* the table: connections whose session is in it
  leaving,    \* connections whose continuation is registered and has not run
  dispose,    \* where DisposeAsync is
  awaited     \* the sessions DisposeAsync waits for

listener == <<idempotent, listening, stop>>
loop == <<accept, taken, attempts>>
vars == <<backlog, listener, loop, minutes, task, sessions, leaving, dispose, awaited>>

Nobody == "nobody"
ASSUME NobodyAssumption == Nobody \notin Clients

Live == {c \in Clients : task[c] \in {"handshake", "bridge"}}
Over == {c \in Clients : task[c] \in {"ended", "faulted"}}

Init ==
  /\ idempotent \in BOOLEAN
  /\ backlog = <<>> /\ listening = TRUE /\ stop = FALSE
  /\ accept = "waiting" /\ taken = Nobody /\ attempts = 0 /\ minutes = 0
  /\ task = [c \in Clients |-> "away"]
  /\ sessions = {} /\ leaving = {}
  /\ dispose = "idle" /\ awaited = {}

(***************************************************************************)
(* The network and the clock.                                              *)
(***************************************************************************)

\* A connection reaches the listener; a stopped listener refuses it.
Arrive(c) ==
  /\ task[c] = "away"
  /\ task' = [task EXCEPT ![c] = IF listening THEN "backlog" ELSE "refused"]
  /\ backlog' = IF listening THEN Append(backlog, c) ELSE backlog
  /\ UNCHANGED <<listener, loop, minutes, sessions, leaving, dispose, awaited>>

\* A minute passes: the window the loop counts in is over.
Minute ==
  /\ minutes < MaxWindows /\ attempts > 0
  /\ minutes' = minutes + 1 /\ attempts' = 0
  /\ UNCHANGED <<backlog, listener, accept, taken, task, sessions, leaving, dispose, awaited>>

(***************************************************************************)
(* Accept.                                                                 *)
(***************************************************************************)

\* AcceptTcpClientAsync: a connection, the cancellation, or, from a network
\* that takes a connection back, an exception nobody catches.
AcceptClient ==
  /\ accept = "waiting"
  /\ \/ /\ backlog # <<>>
        /\ taken' = Head(backlog) /\ backlog' = Tail(backlog)
        /\ accept' = "admit" /\ UNCHANGED attempts
     \/ /\ stop /\ accept' = "done" /\ UNCHANGED <<taken, attempts, backlog>>
     \/ /\ AcceptMayFail /\ ~stop
        /\ accept' = "failed" /\ UNCHANGED <<taken, attempts, backlog>>
  /\ UNCHANGED <<listener, minutes, task, sessions, leaving, dispose, awaited>>

\* Too many attempts in a minute or too many sessions: the client is closed.
\* Run begins before its task is in the table.
Admit ==
  /\ accept = "admit"
  /\ attempts' = attempts + 1
  /\ IF attempts' > MaxAttempts \/ Cardinality(sessions) >= Cap
     THEN /\ task' = [task EXCEPT ![taken] = "refused"]
          /\ accept' = "waiting" /\ taken' = Nobody
     ELSE /\ task' = [task EXCEPT ![taken] = "handshake"]
          /\ accept' = "store" /\ UNCHANGED taken
  /\ UNCHANGED <<backlog, listener, minutes, sessions, leaving, dispose, awaited>>

\* Seeded fault: the continuation is registered before the task is stored, and
\* one that runs at once finds nothing to take out.
StoreLate ==
  /\ accept = "store"
  /\ sessions' = sessions \cup {taken}
  /\ leaving' = IF taken \in Over THEN leaving ELSE leaving \cup {taken}
  /\ accept' = "waiting" /\ taken' = Nobody
  /\ UNCHANGED <<backlog, listener, attempts, minutes, task, dispose, awaited>>

\* sessions[id] = task, then ContinueWith; a task that is over already has its
\* continuation scheduled now.
Store ==
  /\ accept = "store"
  /\ sessions' = sessions \cup {taken}
  /\ leaving' = leaving \cup {taken}
  /\ accept' = "waiting" /\ taken' = Nobody
  /\ UNCHANGED <<backlog, listener, attempts, minutes, task, dispose, awaited>>

(***************************************************************************)
(* Run and the continuation.                                               *)
(***************************************************************************)

\* The handshake, the secret and the connection to the game are done within
\* ten seconds, or the session ends.
Authenticate(c) ==
  /\ task[c] = "handshake"
  /\ task' = [task EXCEPT ![c] = "bridge"]
  /\ UNCHANGED <<backlog, listener, loop, minutes, sessions, leaving, dispose, awaited>>

\* A wrong secret, an error, the time limit or the cancellation; an exception
\* that Run does not list makes the task fault.
FailToAuthenticate(c) ==
  /\ task[c] = "handshake"
  /\ \E outcome \in {"ended", "faulted"} : task' = [task EXCEPT ![c] = outcome]
  /\ UNCHANGED <<backlog, listener, loop, minutes, sessions, leaving, dispose, awaited>>

\* Seeded fault: the relay does not listen to the token of the service.
EndBridgeUncancelled(c) ==
  /\ task[c] = "bridge" /\ ~stop
  /\ \E outcome \in {"ended", "faulted"} : task' = [task EXCEPT ![c] = outcome]
  /\ UNCHANGED <<backlog, listener, loop, minutes, sessions, leaving, dispose, awaited>>

\* The relay of an authenticated session ends (module Relay), at the latest
\* with the cancellation.
EndBridge(c) ==
  /\ task[c] = "bridge"
  /\ \E outcome \in {"ended", "faulted"} : task' = [task EXCEPT ![c] = outcome]
  /\ UNCHANGED <<backlog, listener, loop, minutes, sessions, leaving, dispose, awaited>>

Leave(c) ==
  /\ c \in leaving /\ c \in Over
  /\ sessions' = sessions \ {c} /\ leaving' = leaving \ {c}
  /\ UNCHANGED <<backlog, listener, loop, minutes, task, dispose, awaited>>

(***************************************************************************)
(* DisposeAsync.  Its caller keeps the service, and may dispose of it once *)
(* more, when it has thrown.                                               *)
(***************************************************************************)

\* Seeded fault: the sessions are collected while the loop may still add one.
BeginDisposeHastily ==
  /\ dispose = "idle"
  /\ stop' = TRUE /\ listening' = FALSE
  /\ task' = [c \in Clients |-> IF task[c] = "backlog" /\ c # taken THEN "refused" ELSE task[c]]
  /\ backlog' = <<>>
  /\ dispose' = "sessions" /\ awaited' = sessions
  /\ UNCHANGED <<idempotent, loop, minutes, sessions, leaving>>

\* Cancel, stop the listener (what it holds is closed), wait for the loop.
BeginDispose ==
  /\ dispose = "idle"
  /\ stop' = TRUE /\ listening' = FALSE
  /\ task' = [c \in Clients |-> IF task[c] = "backlog" /\ c # taken THEN "refused" ELSE task[c]]
  /\ backlog' = <<>>
  /\ dispose' = "accept"
  /\ UNCHANGED <<idempotent, loop, minutes, sessions, leaving, awaited>>

\* A loop that ended with an exception passes it on.
AwaitAccept ==
  /\ dispose = "accept"
  /\ \/ accept = "done" /\ dispose' = "sessions" /\ awaited' = sessions
     \/ accept = "failed" /\ dispose' = "threw" /\ UNCHANGED awaited
  /\ UNCHANGED <<backlog, listener, loop, minutes, task, sessions, leaving>>

\* WhenAll: so does a session that faulted and was still in the table.
AwaitSessions ==
  /\ dispose = "sessions" /\ awaited \subseteq Over
  /\ dispose' = IF \E c \in awaited : task[c] = "faulted" THEN "threw" ELSE "done"
  /\ UNCHANGED <<backlog, listener, loop, minutes, task, sessions, leaving, awaited>>

\* The flag makes the second call return; without it everything is tried anew.
DisposeAgain ==
  /\ dispose = "threw"
  /\ dispose' = IF idempotent THEN "done" ELSE "accept"
  /\ UNCHANGED <<backlog, listener, loop, minutes, task, sessions, leaving, awaited>>

AcceptSteps == AcceptClient \/ Admit \/ Store

DisposeSteps == AwaitAccept \/ AwaitSessions

\* A session at work relays (module Relay); a service that is disposed of, or
\* whose loop has failed, is at rest when no connection is left.
Rest ==
  /\ \/ Live # {}
     \/ dispose \in {"done", "threw"} /\ \A c \in Clients : task[c] # "away"
  /\ UNCHANGED vars

Next ==
  \/ (\E c \in Clients : Arrive(c))
  \/ Minute
  \/ AcceptSteps
  \/ (\E c \in Clients : Authenticate(c) \/ FailToAuthenticate(c) \/ EndBridge(c) \/ Leave(c))
  \/ BeginDispose \/ DisposeSteps \/ DisposeAgain
  \/ Rest

Spec == Init /\ [][Next]_vars

\* The pool runs what is ready; a session ends by its time limit or, once it is
\* cancelled, by the cancellation.  A session that plays may play for ever.
FairSpec ==
  /\ Spec
  /\ WF_vars(AcceptSteps) /\ WF_vars(DisposeSteps)
  /\ \A c \in Clients :
       /\ WF_vars(FailToAuthenticate(c))
       /\ WF_vars(stop /\ EndBridge(c))
       /\ WF_vars(Leave(c))

(***************************************************************************)
(* Properties.                                                             *)
(***************************************************************************)

\* The variables have their types, and the loop holds a connection exactly while
\* it works on one.
TypeOK ==
  /\ idempotent \in BOOLEAN /\ backlog \in Seq(Clients) /\ listening \in BOOLEAN /\ stop \in BOOLEAN
  /\ accept \in {"waiting", "admit", "store", "done", "failed"}
  /\ taken \in Clients \cup {Nobody} /\ (taken = Nobody <=> accept \notin {"admit", "store"})
  /\ attempts \in Nat /\ minutes \in 0..MaxWindows
  /\ task \in [Clients -> {"away", "backlog", "refused", "handshake", "bridge", "ended", "faulted"}]
  /\ sessions \subseteq Clients /\ leaving \subseteq Clients /\ awaited \subseteq Clients
  /\ dispose \in {"idle", "accept", "sessions", "done", "threw"}

\* "A bounded listener" (DirectTunnel.cs:11): never more sessions at work than
\* the bound, although one begins before it is in the table that is counted.
Bounded == Cardinality(Live) <= Cap

\* A DisposeAsync that has waited for the loop and the sessions leaves none at
\* work: "Connect closes sessions" (docs/ONLINE-DIRECT.md:69).  A TcpService whose
\* loop has failed throws first, and says done at the second call unseen.
Quiet == dispose = "done" => Live = {} \/ (idempotent /\ accept = "failed")

\* A session that is over gives its place in the table back, however soon it
\* was over.
PlaceComesBack == \A c \in Clients : c \in sessions /\ c \in Over ~> c \notin sessions

\* DisposeAsync returns or throws, whatever the sessions are doing.
DisposeEnds == dispose \in {"accept", "sessions"} ~> dispose \in {"done", "threw"}

=============================================================================
