----------------------------- MODULE Supervisor -----------------------------
(* The Run Supervisor and its socket: daemons that probe, remove and bind the *)
(* socket path, and start requests that cross it, with a client that gives up *)
(* after its timeout while the daemon goes on.  What a start does inside a    *)
(* daemon is RunLifecycle; here it is told apart as far as a caller who       *)
(* retries can tell.                                                          *)
CONSTANTS
  Supervisors, NoSupervisor, \* daemons over one state directory
  Attempts, NoAttempt,       \* calls of process.start; each may make one Run
  StartKeys, NoStartKey,     \* idempotency keys
  OneStarter,                \* the service manager does one start or stop at a time
  SupervisorFaults           \* "CRASH", "TIMEOUT", "ERROR"

ASSUME SupervisorAssumption ==
  /\ NoSupervisor \notin Supervisors
  /\ NoAttempt \notin Attempts
  /\ NoStartKey \notin StartKeys
  /\ OneStarter \in BOOLEAN

VARIABLES
  daemon,  \* per Supervisor: where its process is
  socket,  \* whose socket is at the path; stale if it does not listen
  sent,    \* per attempt: its client
  keyed,   \* per attempt: its key
  server,  \* per attempt: the Supervisor that has the request
  stage,   \* per attempt: where the Supervisor is with it
  found,   \* per attempt: the Run of the operation it found
  doomed,  \* per attempt: the keys that its prune is about to forget
  named,   \* per attempt: the Run a successful answer named
  claims,  \* durable operation of each key: the Run it is bound to
  over,    \* the Runs whose operation is terminal, forgotten ones included
  spawned, \* history: the Runs whose child was spawned
  recorded \* Runs with a durable record

daemonVars  == <<daemon, socket>>
requestVars == <<sent, keyed, server, stage, found, doomed, named>>
runVars     == <<claims, over, spawned, recorded>>
supervisorVars == <<daemonVars, requestVars, runVars>>

SupervisorTypeOK ==
  /\ daemon \in [Supervisors ->
       {"DOWN", "PROBING", "REMOVING", "BINDING", "LISTENING", "CLOSING",
        "STOPPING"}]
  /\ socket \in Supervisors \union {NoSupervisor}
  /\ sent \in [Attempts -> {"NEW", "WAITING", "OK", "ERROR"}]
  /\ keyed \in [Attempts -> StartKeys \union {NoStartKey}]
  /\ server \in [Attempts -> Supervisors \union {NoSupervisor}]
  /\ stage \in [Attempts ->
       {"NONE", "RECEIVED", "RESOLVING", "PRUNING", "CLAIMING", "CLAIMED",
        "SPAWNED", "REPLAYING", "DONE"}]
  /\ found \in [Attempts -> Attempts \union {NoAttempt}]
  /\ doomed \in [Attempts -> SUBSET StartKeys]
  /\ named \in [Attempts -> Attempts \union {NoAttempt}]
  /\ claims \in [StartKeys -> Attempts \union {NoAttempt}]
  /\ over \subseteq Attempts
  /\ spawned \subseteq Attempts
  /\ recorded \subseteq Attempts

SupervisorInit ==
  /\ daemon = [s \in Supervisors |-> "DOWN"]
  /\ socket = NoSupervisor
  /\ sent = [a \in Attempts |-> "NEW"]
  /\ keyed = [a \in Attempts |-> NoStartKey]
  /\ server = [a \in Attempts |-> NoSupervisor]
  /\ stage = [a \in Attempts |-> "NONE"]
  /\ found = [a \in Attempts |-> NoAttempt]
  /\ doomed = [a \in Attempts |-> {}]
  /\ named = [a \in Attempts |-> NoAttempt]
  /\ claims = [k \in StartKeys |-> NoAttempt]
  /\ over = {} /\ spawned = {} /\ recorded = {}

-----------------------------------------------------------------------------
(* The daemon and the path of its socket                                     *)

Accepts(s) == s \in Supervisors /\ daemon[s] = "LISTENING"

Moves(s, from, to) ==
  /\ daemon[s] = from
  /\ daemon' = [daemon EXCEPT ![s] = to]

\* Nobody else is on its way up or down.
Quiet(s) ==
  \A o \in Supervisors \ {s} : daemon[o] \in {"DOWN", "LISTENING"}

\* mkdir and lstat: without a socket there is nothing to probe.
StartDaemon(s) ==
  /\ OneStarter => Quiet(s)
  /\ Moves(s, "DOWN", IF socket = NoSupervisor THEN "BINDING" ELSE "PROBING")
  /\ UNCHANGED <<socket, requestVars, runVars>>

\* Mutant: any socket found at a start is taken for a stale one.
ProbeNothing(s) ==
  /\ Moves(s, "PROBING", "REMOVING")
  /\ UNCHANGED <<socket, requestVars, runVars>>

\* SUPERVISOR_ALREADY_RUNNING, or nobody accepts.
Probe(s) ==
  /\ Moves(s, "PROBING", IF Accepts(socket) THEN "DOWN" ELSE "REMOVING")
  /\ UNCHANGED <<socket, requestVars, runVars>>

RemoveStale(s) ==
  /\ Moves(s, "REMOVING", "BINDING")
  /\ socket' = NoSupervisor
  /\ UNCHANGED <<requestVars, runVars>>

\* listen fails if there is a socket (EADDRINUSE).
Bind(s) ==
  /\ Moves(s, "BINDING", IF socket = NoSupervisor THEN "LISTENING" ELSE "DOWN")
  /\ socket' = IF socket = NoSupervisor THEN s ELSE socket
  /\ UNCHANGED <<requestVars, runVars>>

\* server.close() unlinks the path, whoever is bound there by now, ...
CloseListener(s) ==
  /\ OneStarter => Quiet(s)
  /\ Moves(s, "LISTENING", "CLOSING")
  /\ socket' = NoSupervisor
  /\ UNCHANGED <<requestVars, runVars>>

\* ... waits for the open connections, and the path is removed once more.
ListenerClosed(s) ==
  /\ \A a \in Attempts :
       server[a] = s => sent[a] # "WAITING" \/ stage[a] = "DONE"
  /\ Moves(s, "CLOSING", "STOPPING")
  /\ socket' = NoSupervisor
  /\ UNCHANGED <<requestVars, runVars>>

\* The process is gone, and what it was doing with it.
Exits(s) ==
  /\ daemon' = [daemon EXCEPT ![s] = "DOWN"]
  /\ stage' = [a \in Attempts |-> IF server[a] = s THEN "DONE" ELSE stage[a]]

\* closeExecution and exit; or a crash, which leaves the socket at the path.
DaemonEnds(s) ==
  /\ daemon[s] # "DOWN"
  /\ daemon[s] = "STOPPING" \/ "CRASH" \in SupervisorFaults
  /\ Exits(s)
  /\ UNCHANGED <<socket, sent, keyed, server, found, doomed, named, runVars>>

-----------------------------------------------------------------------------
(* The client                                                                *)

\* One connection per request; without a listener it is SUPERVISOR_UNAVAILABLE.
Send(a, k) ==
  /\ sent[a] = "NEW"
  /\ keyed' = [keyed EXCEPT ![a] = k]
  /\ IF Accepts(socket)
       THEN /\ sent' = [sent EXCEPT ![a] = "WAITING"]
            /\ server' = [server EXCEPT ![a] = socket]
            /\ stage' = [stage EXCEPT ![a] = "RECEIVED"]
       ELSE /\ sent' = [sent EXCEPT ![a] = "ERROR"]
            /\ UNCHANGED <<server, stage>>
  /\ UNCHANGED <<daemonVars, found, doomed, named, runVars>>

\* SUPERVISOR_TIMEOUT, or SUPERVISOR_UNAVAILABLE as the connection breaks.  The
\* request itself is not withdrawn.
GiveUp(a) ==
  /\ sent[a] = "WAITING"
  /\ "TIMEOUT" \in SupervisorFaults \/ stage[a] = "DONE"
  /\ sent' = [sent EXCEPT ![a] = "ERROR"]
  /\ UNCHANGED <<daemonVars, keyed, server, stage, found, doomed, named,
                 runVars>>

-----------------------------------------------------------------------------
(* The request in the daemon                                                 *)

\* The answer goes to a client that still waits.  For one that has gone it is
\* lost; and as no handler listens to errors of the daemon's end of the socket,
\* an EPIPE or ECONNRESET of it ends the daemon.
Reply(a, run) ==
  \/ /\ sent[a] = "WAITING"
     /\ sent' = [sent EXCEPT ![a] = IF run = NoAttempt THEN "ERROR" ELSE "OK"]
     /\ named' = [named EXCEPT ![a] = run]
     /\ stage' = [stage EXCEPT ![a] = "DONE"]
     /\ UNCHANGED <<daemonVars, keyed, server, found, doomed>>
  \/ /\ sent[a] # "WAITING"
     /\ \/ stage' = [stage EXCEPT ![a] = "DONE"] /\ UNCHANGED daemon
        \/ Exits(server[a])
     /\ UNCHANGED <<socket, sent, keyed, server, found, doomed, named>>

Proceeds(a, from, to) ==
  /\ stage[a] = from
  /\ stage' = [stage EXCEPT ![a] = to]
  /\ UNCHANGED <<daemonVars, sent, keyed, server, named>>

Bound(a) == keyed[a] # NoStartKey /\ claims[keyed[a]] # NoAttempt

\* prune and the claim after it are one synchronous region of the daemon.
Claiming == {"PRUNING", "CLAIMING"}
Undisturbed(a) ==
  \A b \in Attempts \ {a} : server[b] = server[a] => stage[b] \notin Claiming

\* Idempotency lookup and assertActive, then the path is awaited; a Supervisor
\* that is shutting down refuses.
Lookup(a) ==
  /\ stage[a] = "RECEIVED"
  /\ Undisturbed(a)
  /\ IF daemon[server[a]] = "STOPPING"
       THEN Reply(a, NoAttempt)
       ELSE /\ Proceeds(a, "RECEIVED",
                        IF Bound(a) THEN "REPLAYING" ELSE "RESOLVING")
            /\ found' = [found EXCEPT ![a] = IF Bound(a) THEN claims[keyed[a]]
                                             ELSE NoAttempt]
            /\ UNCHANGED doomed
  /\ UNCHANGED runVars

\* Reserved.  A claim begins with prune: operations that are terminal go by
\* their age, or the oldest as there are too many.  It lists them ...
BeginClaim(a) ==
  /\ keyed[a] # NoStartKey
  /\ Undisturbed(a)
  /\ Proceeds(a, "RESOLVING", "PRUNING")
  /\ \E old \in SUBSET {k \in StartKeys : claims[k] \in over} :
       doomed' = [doomed EXCEPT ![a] = old]
  /\ UNCHANGED <<found, runVars>>

\* ... and deletes them, whatever they are by now.
Forget(a) ==
  /\ Proceeds(a, "PRUNING", "CLAIMING")
  /\ claims' = [k \in StartKeys |->
                  IF k \in doomed[a] THEN NoAttempt ELSE claims[k]]
  /\ doomed' = [doomed EXCEPT ![a] = {}]
  /\ UNCHANGED <<found, over, spawned, recorded>>

\* Mutant: the claim trusts the lookup made before the await.
ClaimUnchecked(a) ==
  /\ Proceeds(a, "CLAIMING", "CLAIMED")
  /\ claims' = [k \in StartKeys |-> IF k = keyed[a] THEN a ELSE claims[k]]
  /\ UNCHANGED <<found, doomed, over, spawned, recorded>>

\* The claim is a transaction that looks again.
ClaimKey(a) ==
  /\ Proceeds(a, "CLAIMING", IF Bound(a) THEN "REPLAYING" ELSE "CLAIMED")
  /\ found' = [found EXCEPT ![a] = IF Bound(a) THEN claims[keyed[a]]
                                   ELSE NoAttempt]
  /\ claims' = [k \in StartKeys |->
                  IF k = keyed[a] /\ ~Bound(a) THEN a ELSE claims[k]]
  /\ UNCHANGED <<doomed, over, spawned, recorded>>

\* Without a key a start is only reserved.
ReserveUnkeyed(a) ==
  /\ keyed[a] = NoStartKey
  /\ Proceeds(a, "RESOLVING", "CLAIMED")
  /\ UNCHANGED <<found, doomed, runVars>>

SpawnChild(a) ==
  /\ Proceeds(a, "CLAIMED", "SPAWNED")
  /\ spawned' = spawned \union {a}
  /\ UNCHANGED <<found, doomed, claims, over, recorded>>

\* The record is saved, the Run registered, and the call answered.
RecordRun(a) ==
  /\ stage[a] = "SPAWNED" /\ a \notin over
  /\ recorded' = recorded \union {a}
  /\ Reply(a, a)
  /\ UNCHANGED <<claims, over, spawned>>

\* A refusal after the lookup; a spawn that throws; a record that cannot be
\* saved, whose child is aborted.  The claim stays.
StartThrows(a) ==
  /\ "ERROR" \in SupervisorFaults
  /\ stage[a] \in {"RESOLVING", "CLAIMING", "CLAIMED", "SPAWNED"}
  /\ Reply(a, NoAttempt)
  /\ UNCHANGED runVars

\* mark: a Run ended, was interrupted with its Supervisor, or never came to be;
\* the child of one that cannot be recorded ends before its start is answered.
OperationEnds(a) ==
  /\ keyed[a] # NoStartKey /\ claims[keyed[a]] = a
  /\ \/ stage[a] = "DONE"
     \/ stage[a] = "SPAWNED" /\ "ERROR" \in SupervisorFaults
  /\ over' = over \union {a}
  /\ UNCHANGED <<daemonVars, requestVars, claims, spawned, recorded>>

\* The Run of the operation if it is on record; IDEMPOTENCY_OPERATION_PENDING
\* if that does not come about in 20 polls.
Replay(a) ==
  /\ stage[a] = "REPLAYING"
  /\ Reply(a, IF found[a] \in recorded THEN found[a] ELSE NoAttempt)
  /\ UNCHANGED runVars

SupervisorNext ==
  \/ \E s \in Supervisors :
       \/ StartDaemon(s) \/ Probe(s) \/ RemoveStale(s) \/ Bind(s)
       \/ CloseListener(s) \/ ListenerClosed(s) \/ DaemonEnds(s)
  \/ \E a \in Attempts :
       \/ \E k \in StartKeys \union {NoStartKey} : Send(a, k)
       \/ GiveUp(a) \/ Lookup(a) \/ BeginClaim(a) \/ Forget(a) \/ ClaimKey(a)
       \/ ReserveUnkeyed(a) \/ SpawnChild(a) \/ RecordRun(a) \/ StartThrows(a)
       \/ OperationEnds(a) \/ Replay(a)

SupervisorSpec == SupervisorInit /\ [][SupervisorNext]_supervisorVars

-----------------------------------------------------------------------------
(* Properties                                                                *)

\* A Supervisor that listens can be reached: no other start takes its socket
\* for a stale one, and no shutdown of another removes it.
ListenerIsReachable ==
  \A s \in Supervisors : daemon[s] = "LISTENING" => socket = s

\* Retries under one key, after timeouts, broken connections and restarts of
\* the Supervisor, and while the first attempt is still running, start one Run
\* and are answered with it, until its operation is terminal and forgotten.
KeyedRuns(runs) == {<<keyed[a], a>> : a \in {b \in runs : keyed[b] # NoStartKey}}

\* The operation of a key is gone, or is another Run's.
Unclaimed(a) == keyed[a] # NoStartKey /\ claims[keyed[a]] # a

StartPromise == INSTANCE StartContract WITH
  StartedRuns <- Attempts,
  launches <- KeyedRuns(spawned),
  ended    <- KeyedRuns(over \intersect spawned),
  forgotten <- KeyedRuns({a \in spawned : Unclaimed(a)}),
  records  <- KeyedRuns(recorded),
  answers  <- {<<keyed[a], named[a]>> :
                 a \in {b \in Attempts : sent[b] = "OK" /\ keyed[b] # NoStartKey}}

KeepsStartContract == StartPromise!Spec
=============================================================================
