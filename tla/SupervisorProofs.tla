-------------------------- MODULE SupervisorProofs --------------------------
(* Proofs about Supervisor, for any number of daemons, attempts and keys:     *)
(* types, that a listening Supervisor can be reached if the service manager   *)
(* runs one start or stop at a time, and that idempotency keys then keep      *)
(* their promise through timeouts, lost answers, crashes and prunes.          *)
EXTENDS Supervisor, TLAPS

\* The steps of a request in a daemon.
Handles(a) ==
  \/ Lookup(a) \/ BeginClaim(a) \/ Forget(a) \/ ClaimKey(a)
  \/ ReserveUnkeyed(a) \/ SpawnChild(a) \/ RecordRun(a) \/ StartThrows(a)
  \/ OperationEnds(a) \/ Replay(a)

LEMMA SupervisorCases ==
  ASSUME [SupervisorNext]_supervisorVars
  PROVE  \/ UNCHANGED supervisorVars
         \/ \E s \in Supervisors :
              \/ StartDaemon(s) \/ Probe(s) \/ RemoveStale(s) \/ Bind(s)
              \/ CloseListener(s) \/ ListenerClosed(s) \/ DaemonEnds(s)
         \/ \E a \in Attempts :
              \/ \E k \in StartKeys \union {NoStartKey} : Send(a, k)
              \/ GiveUp(a)
              \/ Handles(a)
  BY DEF SupervisorNext, Handles

-----------------------------------------------------------------------------
(* A request is with a Supervisor from the moment it was accepted.           *)

Served ==
  \A a \in Attempts : /\ stage[a] # "NONE" => server[a] \in Supervisors
                      /\ stage[a] = "NONE" => server[a] = NoSupervisor

LEMMA SupervisorTypeInit == SupervisorInit => SupervisorTypeOK /\ Served
  BY DEF SupervisorInit, SupervisorTypeOK, Served

\* What an answer changes, whether it arrives or not.
LEMMA ReplyType ==
  ASSUME SupervisorTypeOK, Served, NEW a \in Attempts,
         NEW run \in Attempts \union {NoAttempt},
         stage[a] # "NONE", Reply(a, run)
  PROVE  /\ daemon' \in [Supervisors ->
              {"DOWN", "PROBING", "REMOVING", "BINDING", "LISTENING", "CLOSING",
               "STOPPING"}]
         /\ sent' \in [Attempts -> {"NEW", "WAITING", "OK", "ERROR"}]
         /\ stage' \in [Attempts ->
              {"NONE", "RECEIVED", "RESOLVING", "PRUNING", "CLAIMING",
               "CLAIMED", "SPAWNED", "REPLAYING", "DONE"}]
         /\ named' \in [Attempts -> Attempts \union {NoAttempt}]
         /\ UNCHANGED <<socket, keyed, server, found, doomed>>
         /\ \A b \in Attempts : stage'[b] # "NONE" => server[b] \in Supervisors
         /\ \A b \in Attempts : stage'[b] = "NONE" <=> stage[b] = "NONE"
<1> USE DEF SupervisorTypeOK, Served
<1>1. CASE sent[a] = "WAITING"
  <2>1. /\ sent' = [sent EXCEPT ![a] =
                      IF run = NoAttempt THEN "ERROR" ELSE "OK"]
        /\ named' = [named EXCEPT ![a] = run]
        /\ stage' = [stage EXCEPT ![a] = "DONE"]
        /\ UNCHANGED <<daemon, socket, keyed, server, found, doomed>>
    BY <1>1 DEF Reply, daemonVars
  <2>2. (IF run = NoAttempt THEN "ERROR" ELSE "OK") \in {"OK", "ERROR"}
    OBVIOUS
  <2>3. QED
    BY <2>1, <2>2
<1>2. CASE sent[a] # "WAITING" /\ UNCHANGED daemon
           /\ stage' = [stage EXCEPT ![a] = "DONE"]
  BY <1>2 DEF Reply
<1>3. CASE sent[a] # "WAITING" /\ Exits(server[a])
  <2>1. server[a] \in Supervisors
    OBVIOUS
  <2>2. \A b \in Attempts : /\ stage'[b] # "NONE" => server[b] \in Supervisors
                            /\ stage'[b] = "NONE" <=> stage[b] = "NONE"
    BY <1>3, <2>1, SupervisorAssumption DEF Exits
  <2>3. QED
    BY <1>3, <2>1, <2>2 DEF Reply, Exits
<1>4. QED
  BY <1>1, <1>2, <1>3 DEF Reply

LEMMA SupervisorTypeStep ==
  SupervisorTypeOK /\ Served /\ [SupervisorNext]_supervisorVars
    => SupervisorTypeOK' /\ Served'
<1> SUFFICES ASSUME SupervisorTypeOK, Served, [SupervisorNext]_supervisorVars
             PROVE  SupervisorTypeOK' /\ Served'
  OBVIOUS
<1>1. CASE UNCHANGED supervisorVars
  BY <1>1 DEF supervisorVars, daemonVars, requestVars, runVars,
              SupervisorTypeOK, Served
<1>2. ASSUME NEW s \in Supervisors,
             \/ StartDaemon(s) \/ Probe(s) \/ RemoveStale(s) \/ Bind(s)
             \/ CloseListener(s) \/ ListenerClosed(s)
      PROVE  SupervisorTypeOK' /\ Served'
  BY <1>2 DEF StartDaemon, Probe, RemoveStale, Bind, CloseListener,
              ListenerClosed, Moves, requestVars, runVars, SupervisorTypeOK,
              Served
<1>3. ASSUME NEW s \in Supervisors, DaemonEnds(s)
      PROVE  SupervisorTypeOK' /\ Served'
  BY <1>3, SupervisorAssumption
     DEF DaemonEnds, Exits, runVars, SupervisorTypeOK, Served
<1>4. ASSUME NEW a \in Attempts, NEW k \in StartKeys \union {NoStartKey},
             Send(a, k)
      PROVE  SupervisorTypeOK' /\ Served'
  BY <1>4, SupervisorAssumption
     DEF Send, Accepts, daemonVars, runVars, SupervisorTypeOK, Served
<1>5. ASSUME NEW a \in Attempts, GiveUp(a)
      PROVE  SupervisorTypeOK' /\ Served'
  BY <1>5 DEF GiveUp, daemonVars, runVars, SupervisorTypeOK, Served
<1>6. ASSUME NEW a \in Attempts, Handles(a)
      PROVE  SupervisorTypeOK' /\ Served'
  <2> USE DEF SupervisorTypeOK, Served, runVars
  <2>1. CASE Lookup(a)
    BY <2>1, ReplyType DEF Lookup, Proceeds, Bound, daemonVars
  <2>2. CASE BeginClaim(a) \/ Forget(a)
    BY <2>2 DEF BeginClaim, Forget, Proceeds, daemonVars
  <2>2a. CASE ClaimKey(a)
    BY <2>2a DEF ClaimKey, Proceeds, Bound, daemonVars
  <2>3. CASE ReserveUnkeyed(a) \/ SpawnChild(a)
    BY <2>3 DEF ReserveUnkeyed, SpawnChild, Proceeds, daemonVars
  <2>3a. CASE OperationEnds(a)
    BY <2>3a DEF OperationEnds, daemonVars, requestVars
  <2>4. CASE RecordRun(a)
    BY <2>4, ReplyType DEF RecordRun
  <2>5. CASE StartThrows(a)
    BY <2>5, ReplyType DEF StartThrows
  <2>6. CASE Replay(a)
    <3>1. \E run \in Attempts \union {NoAttempt} : Reply(a, run)
      BY <2>6 DEF Replay
    <3>2. QED
      BY <2>6, <3>1, ReplyType DEF Replay
  <2>7. QED
    BY <1>6, <2>1, <2>2, <2>2a, <2>3, <2>3a, <2>4, <2>5, <2>6 DEF Handles
<1>7. QED
  BY <1>1, <1>2, <1>3, <1>4, <1>5, <1>6, SupervisorCases

\* Daemons, requests and records keep their types.
THEOREM SupervisorTypeCorrect == SupervisorSpec => []SupervisorTypeOK
  BY SupervisorTypeInit, SupervisorTypeStep, PTL DEF SupervisorSpec

-----------------------------------------------------------------------------
(* With one start or stop at a time, one daemon at most is on its way, and    *)
(* when it removes the socket nobody listens: a listener would have answered  *)
(* the probe, and a closing daemon was the only listener.  So one daemon at   *)
(* most serves requests.                                                      *)

OnItsWay(s) == daemon[s] \notin {"DOWN", "LISTENING"}

ReachInv ==
  /\ ListenerIsReachable
  /\ \A s, t \in Supervisors : OnItsWay(s) /\ OnItsWay(t) => s = t
  /\ \A s, t \in Supervisors :
       daemon[s] \in {"REMOVING", "CLOSING", "STOPPING"} =>
         daemon[t] # "LISTENING"

\* Answers and ends of daemons only take daemons away.
LEMMA EndsTakeAway ==
  ASSUME SupervisorTypeOK, Served, NEW a \in Attempts,
         \/ GiveUp(a) \/ Handles(a)
         \/ \E k \in StartKeys \union {NoStartKey} : Send(a, k)
  PROVE  /\ UNCHANGED socket
         /\ \A t \in Supervisors : daemon'[t] \in {daemon[t], "DOWN"}
<1>1. ASSUME NEW run, stage[a] # "NONE", Reply(a, run)
      PROVE  /\ UNCHANGED socket
             /\ \A t \in Supervisors : daemon'[t] \in {daemon[t], "DOWN"}
  BY <1>1 DEF Reply, Exits, daemonVars, SupervisorTypeOK, Served
<1>2. CASE Lookup(a) \/ BeginClaim(a) \/ Forget(a) \/ ClaimKey(a)
             \/ ReserveUnkeyed(a) \/ SpawnChild(a) \/ OperationEnds(a)
  BY <1>1, <1>2 DEF Lookup, BeginClaim, Forget, ClaimKey, ReserveUnkeyed,
                    SpawnChild, OperationEnds, Proceeds, daemonVars
<1>3. CASE RecordRun(a) \/ StartThrows(a) \/ Replay(a)
  BY <1>1, <1>3 DEF RecordRun, StartThrows, Replay
<1>4. CASE GiveUp(a) \/ \E k \in StartKeys \union {NoStartKey} : Send(a, k)
  BY <1>4 DEF GiveUp, Send, daemonVars
<1>5. QED
  BY <1>2, <1>3, <1>4 DEF Handles

LEMMA ReachStep ==
  ASSUME OneStarter
  PROVE  SupervisorTypeOK /\ Served /\ ReachInv
           /\ [SupervisorNext]_supervisorVars => ReachInv'
<1> SUFFICES ASSUME SupervisorTypeOK, Served, ReachInv,
                    [SupervisorNext]_supervisorVars
             PROVE  ReachInv'
  OBVIOUS
<1> USE DEF ReachInv, ListenerIsReachable, OnItsWay
<1>a. NoSupervisor \notin Supervisors
  BY SupervisorAssumption
<1>b. DOMAIN daemon = Supervisors
  BY DEF SupervisorTypeOK
<1>1. CASE UNCHANGED supervisorVars
  BY <1>1 DEF supervisorVars, daemonVars
<1>2. ASSUME NEW s \in Supervisors, StartDaemon(s)
      PROVE  ReachInv'
  <2>1. \A t \in Supervisors :
          daemon'[t] = IF t = s THEN daemon'[s] ELSE daemon[t]
    BY <1>2, <1>b DEF StartDaemon, Moves
  <2>2. daemon'[s] \in {"BINDING", "PROBING"} /\ UNCHANGED socket
        /\ \A t \in Supervisors \ {s} : ~OnItsWay(t)
    BY <1>2, <1>b DEF StartDaemon, Moves, Quiet
  <2>3. QED
    BY <2>1, <2>2
<1>3. ASSUME NEW s \in Supervisors, Probe(s)
      PROVE  ReachInv'
  <2>1. \A t \in Supervisors :
          daemon'[t] = IF t = s THEN daemon'[s] ELSE daemon[t]
    BY <1>3, <1>b DEF Probe, Moves
  <2>2. /\ daemon[s] = "PROBING" /\ UNCHANGED socket
        /\ daemon'[s] = IF Accepts(socket) THEN "DOWN" ELSE "REMOVING"
    BY <1>3, <1>b DEF Probe, Moves
  <2>3. ~Accepts(socket) => \A t \in Supervisors : daemon[t] # "LISTENING"
    BY DEF Accepts
  <2>4. QED
    BY <2>1, <2>2, <2>3
<1>4. ASSUME NEW s \in Supervisors, RemoveStale(s)
      PROVE  ReachInv'
  BY <1>4, <1>b DEF RemoveStale, Moves
<1>5. ASSUME NEW s \in Supervisors, Bind(s)
      PROVE  ReachInv'
  <2>1. \A t \in Supervisors :
          daemon'[t] = IF t = s THEN daemon'[s] ELSE daemon[t]
    BY <1>5, <1>b DEF Bind, Moves
  <2>2. /\ daemon[s] = "BINDING"
        /\ daemon'[s] = IF socket = NoSupervisor THEN "LISTENING" ELSE "DOWN"
        /\ socket' = IF socket = NoSupervisor THEN s ELSE socket
    BY <1>5, <1>b DEF Bind, Moves
  <2>3. socket = NoSupervisor =>
          \A t \in Supervisors : daemon[t] # "LISTENING"
    BY <1>a
  <2>4. \A t \in Supervisors : OnItsWay(t) => t = s
    BY <2>2
  <2>5. QED
    BY <2>1, <2>2, <2>3, <2>4
<1>6. ASSUME NEW s \in Supervisors, CloseListener(s)
      PROVE  ReachInv'
  <2>1. \A t \in Supervisors :
          daemon'[t] = IF t = s THEN "CLOSING" ELSE daemon[t]
    BY <1>6, <1>b DEF CloseListener, Moves
  <2>2. /\ daemon[s] = "LISTENING" /\ socket = s
        /\ \A t \in Supervisors \ {s} : ~OnItsWay(t)
    BY <1>6 DEF CloseListener, Moves, Quiet
  <2>3. \A t \in Supervisors : t # s => daemon[t] # "LISTENING"
    BY <2>2
  <2>4. QED
    BY <2>1, <2>2, <2>3
<1>7. ASSUME NEW s \in Supervisors, ListenerClosed(s)
      PROVE  ReachInv'
  BY <1>7, <1>b DEF ListenerClosed, Moves
<1>8. CASE /\ UNCHANGED socket
           /\ \A t \in Supervisors : daemon'[t] \in {daemon[t], "DOWN"}
  BY <1>8
<1>9. ASSUME NEW s \in Supervisors, DaemonEnds(s)
      PROVE  ReachInv'
  BY <1>8, <1>9, <1>b DEF DaemonEnds, Exits
<1>10. QED
  BY <1>1, <1>2, <1>3, <1>4, <1>5, <1>6, <1>7, <1>8, <1>9, EndsTakeAway,
     SupervisorCases

\* If the service manager runs one start or stop at a time, a Supervisor that
\* listens can be reached, however many of them were killed and left sockets.
THEOREM ListenersStayReachable ==
  ASSUME OneStarter PROVE SupervisorSpec => []ListenerIsReachable
<1>1. SupervisorInit => ReachInv
  BY DEF SupervisorInit, ReachInv, ListenerIsReachable, OnItsWay
<1>2. ReachInv => ListenerIsReachable
  BY DEF ReachInv
<1>3. SupervisorTypeOK /\ Served /\ ReachInv
        /\ [SupervisorNext]_supervisorVars => ReachInv'
  BY ReachStep
<1>4. QED
  BY <1>1, <1>2, <1>3, SupervisorTypeInit, SupervisorTypeStep, PTL
     DEF SupervisorSpec

-----------------------------------------------------------------------------
(* Requests are in progress in a daemon that serves, so that one claim at     *)
(* most is in its synchronous region: nobody claims what a prune has listed.  *)

Serving == {"LISTENING", "CLOSING", "STOPPING"}

ServeInv ==
  /\ \A a \in Attempts :
       stage[a] \notin {"NONE", "DONE"} => daemon[server[a]] \in Serving
  /\ \A a, b \in Attempts :
       stage[a] \in Claiming /\ stage[b] \in Claiming => a = b

LEMMA ServeInit == SupervisorInit => ServeInv
  BY DEF SupervisorInit, ServeInv, Claiming

\* An answer keeps it: requests only end, those of a daemon with it.
LEMMA ReplyServes ==
  ASSUME SupervisorTypeOK, Served, ServeInv, NEW a \in Attempts, NEW run,
         stage[a] # "NONE", Reply(a, run)
  PROVE  ServeInv'
<1>1. /\ UNCHANGED server
      /\ \A b \in Attempts : stage'[b] \in {stage[b], "DONE"}
  BY DEF Reply, Exits, SupervisorTypeOK
<1>2. \A b \in Attempts :
        stage'[b] \notin {"NONE", "DONE"} =>
          daemon'[server[b]] = daemon[server[b]]
  <2>1. CASE UNCHANGED daemon
    BY <2>1
  <2>2. CASE Exits(server[a])
    BY <2>2 DEF Exits, SupervisorTypeOK, Served
  <2>3. QED
    BY <2>1, <2>2 DEF Reply, daemonVars
<1>3. QED
  BY <1>1, <1>2 DEF ServeInv, Claiming

LEMMA ServeStep ==
  ASSUME OneStarter
  PROVE  SupervisorTypeOK /\ Served /\ ReachInv /\ ServeInv
           /\ [SupervisorNext]_supervisorVars => ServeInv'
<1> SUFFICES ASSUME SupervisorTypeOK, Served, ReachInv, ServeInv,
                    [SupervisorNext]_supervisorVars
             PROVE  ServeInv'
  OBVIOUS
<1>1. CASE UNCHANGED supervisorVars
  BY <1>1 DEF supervisorVars, daemonVars, requestVars, ServeInv
<1>2. ASSUME NEW s \in Supervisors,
             \/ StartDaemon(s) \/ Probe(s) \/ RemoveStale(s) \/ Bind(s)
             \/ CloseListener(s) \/ ListenerClosed(s)
      PROVE  ServeInv'
  <2>1. /\ UNCHANGED <<server, stage>>
        /\ \A t \in Supervisors :
             daemon[t] \in Serving => daemon'[t] \in Serving
    BY <1>2 DEF StartDaemon, Probe, RemoveStale, Bind, CloseListener,
                ListenerClosed, Moves, requestVars, Serving, SupervisorTypeOK
  <2>2. QED
    BY <2>1 DEF ServeInv, Served
<1>3. ASSUME NEW s \in Supervisors, DaemonEnds(s)
      PROVE  ServeInv'
  BY <1>3 DEF DaemonEnds, Exits, ServeInv, Served, SupervisorTypeOK, Claiming
<1>4. ASSUME NEW a \in Attempts, NEW k \in StartKeys \union {NoStartKey},
             Send(a, k)
      PROVE  ServeInv'
  BY <1>4 DEF Send, Accepts, daemonVars, Serving, ServeInv, Claiming,
              SupervisorTypeOK
<1>5. ASSUME NEW a \in Attempts, GiveUp(a) \/ OperationEnds(a)
      PROVE  ServeInv'
  BY <1>5 DEF GiveUp, OperationEnds, daemonVars, requestVars, ServeInv
<1>6. ASSUME NEW a \in Attempts, NEW from, NEW to, Proceeds(a, from, to),
             from \notin {"NONE", "DONE"},
             to \in Claiming =>
               \A b \in Attempts \ {a} : stage[b] \notin Claiming
      PROVE  ServeInv'
  BY <1>6 DEF Proceeds, daemonVars, ServeInv, SupervisorTypeOK
<1>7. ASSUME NEW a \in Attempts, Lookup(a)
      PROVE  ServeInv'
  BY <1>6, <1>7, ReplyServes DEF Lookup, Claiming
<1>8. ASSUME NEW a \in Attempts, BeginClaim(a)
      PROVE  ServeInv'
  <2>1. \A s, t \in Supervisors :
          daemon[s] \in Serving /\ daemon[t] \in Serving => s = t
    BY DEF ReachInv, ListenerIsReachable, OnItsWay, Serving
  <2>2. stage[a] = "RESOLVING" /\ Undisturbed(a)
    BY <1>8 DEF BeginClaim, Proceeds
  <2>3. \A b \in Attempts : stage[b] \in Claiming => server[b] = server[a]
    BY <2>1, <2>2 DEF ServeInv, Served, Claiming
  <2>4. \A b \in Attempts \ {a} : stage[b] \notin Claiming
    BY <2>2, <2>3 DEF Undisturbed
  <2>5. QED
    BY <1>6, <1>8, <2>4 DEF BeginClaim
<1>9. ASSUME NEW a \in Attempts, Forget(a)
      PROVE  ServeInv'
  <2>1. \A b \in Attempts \ {a} : stage[b] \notin Claiming
    BY <1>9 DEF Forget, Proceeds, ServeInv, Claiming
  <2>2. QED
    BY <1>6, <1>9, <2>1 DEF Forget
<1>10. ASSUME NEW a \in Attempts,
              ClaimKey(a) \/ ReserveUnkeyed(a) \/ SpawnChild(a)
       PROVE  ServeInv'
  BY <1>6, <1>10 DEF ClaimKey, ReserveUnkeyed, SpawnChild, Claiming
<1>11. ASSUME NEW a \in Attempts, RecordRun(a) \/ StartThrows(a) \/ Replay(a)
       PROVE  ServeInv'
  BY <1>11, ReplyServes DEF RecordRun, StartThrows, Replay
<1>12. QED
  BY <1>1, <1>2, <1>3, <1>4, <1>5, <1>7, <1>8, <1>9, <1>10, <1>11,
     SupervisorCases DEF Handles

-----------------------------------------------------------------------------
(* A key is bound to the attempt that claimed it, which has that key; what    *)
(* was spawned under a key was spawned by the attempt it is bound to, unless  *)
(* its operation was terminal and is forgotten; a prune forgets no other; and *)
(* answers name Runs on record that have the key of the question.             *)

Begun == {"CLAIMED", "SPAWNED", "DONE"}

Remembered(a) == keyed[a] \in StartKeys => claims[keyed[a]] = a

ClaimInv ==
  /\ \A a \in Attempts : stage[a] # "NONE" => sent[a] # "NEW"
  /\ \A k \in StartKeys : claims[k] # NoAttempt =>
       keyed[claims[k]] = k /\ stage[claims[k]] \in Begun
  /\ \A a \in Attempts :
       /\ stage[a] = "CLAIMED" => Remembered(a)
       /\ a \in spawned => Remembered(a) \/ a \in over
       /\ a \in over =>
            keyed[a] \in StartKeys /\ stage[a] \in {"SPAWNED", "DONE"}
       /\ stage[a] = "REPLAYING" =>
            /\ keyed[a] \in StartKeys /\ found[a] \in Attempts
            /\ keyed[found[a]] = keyed[a] /\ stage[found[a]] \in Begun
       /\ a \in spawned => stage[a] \in {"SPAWNED", "DONE"}
       /\ stage[a] = "SPAWNED" => a \in spawned
       /\ stage[a] = "PRUNING" => \A k \in doomed[a] : claims[k] \in over
  /\ recorded \subseteq spawned
  /\ \A a \in Attempts : sent[a] = "OK" /\ keyed[a] \in StartKeys =>
       named[a] \in recorded /\ keyed[named[a]] = keyed[a]

LEMMA ClaimInit == SupervisorInit => ClaimInv
  BY DEF SupervisorInit, ClaimInv

\* An answer that is true, or that reports an error, keeps the invariant.
LEMMA ReplyClaims ==
  ASSUME SupervisorTypeOK, Served, ClaimInv, NEW a \in Attempts,
         NEW run \in Attempts \union {NoAttempt},
         stage[a] \notin {"NONE", "DONE"},
         Reply(a, run), UNCHANGED <<claims, over, spawned>>,
         recorded \subseteq recorded', recorded' \subseteq spawned,
         run # NoAttempt => run \in recorded' /\ keyed[run] = keyed[a]
  PROVE  ClaimInv'
<1> USE DEF SupervisorTypeOK, ClaimInv, Begun, Remembered
<1>1. /\ UNCHANGED <<keyed, found, doomed>>
      /\ \A b \in Attempts : stage'[b] \in {stage[b], "DONE"}
      /\ \A b \in Attempts : stage[b] = "NONE" => stage'[b] = "NONE"
      /\ stage'[a] = "DONE"
  BY SupervisorAssumption DEF Reply, Exits, daemonVars, Served
<1>2. \A b \in Attempts : b # a => sent'[b] = sent[b] /\ named'[b] = named[b]
  BY DEF Reply
<1>3. sent'[a] # "NEW"
  BY DEF Reply
<1>4. sent'[a] = "OK" =>
        \/ sent[a] = "OK" /\ named'[a] = named[a]
        \/ run # NoAttempt /\ named'[a] = run
  BY DEF Reply
<1>5. QED
  BY <1>1, <1>2, <1>3, <1>4

LEMMA ClaimStep ==
  SupervisorTypeOK /\ Served /\ ServeInv /\ ClaimInv
    /\ [SupervisorNext]_supervisorVars => ClaimInv'
<1> SUFFICES ASSUME SupervisorTypeOK, Served, ServeInv, ClaimInv,
                    [SupervisorNext]_supervisorVars
             PROVE  ClaimInv'
  OBVIOUS
<1>a. NoAttempt \notin Attempts /\ NoStartKey \notin StartKeys
  BY SupervisorAssumption
<1> USE DEF Remembered
<1>1. CASE UNCHANGED <<requestVars, runVars>>
  BY <1>1 DEF requestVars, runVars, ClaimInv
<1>2. ASSUME NEW s \in Supervisors,
             \/ StartDaemon(s) \/ Probe(s) \/ RemoveStale(s) \/ Bind(s)
             \/ CloseListener(s) \/ ListenerClosed(s)
      PROVE  ClaimInv'
  BY <1>1, <1>2 DEF StartDaemon, Probe, RemoveStale, Bind, CloseListener,
                    ListenerClosed
<1>3. ASSUME NEW s \in Supervisors, DaemonEnds(s)
      PROVE  ClaimInv'
  <2>1. /\ \A a \in Attempts : stage'[a] \in {stage[a], "DONE"}
        /\ \A a \in Attempts : stage[a] = "NONE" => stage'[a] = "NONE"
    BY <1>3, SupervisorAssumption
       DEF DaemonEnds, Exits, SupervisorTypeOK, Served
  <2>2. UNCHANGED <<sent, keyed, found, doomed, named, runVars>>
    BY <1>3 DEF DaemonEnds
  <2>3. QED
    BY <2>1, <2>2 DEF ClaimInv, Begun, SupervisorTypeOK, runVars
<1>4. ASSUME NEW a \in Attempts, NEW k \in StartKeys \union {NoStartKey},
             Send(a, k)
      PROVE  ClaimInv'
  <2>1. /\ stage[a] = "NONE" /\ a \notin spawned /\ a \notin over
        /\ \A j \in StartKeys : claims[j] # a
    BY <1>4, <1>a DEF Send, ClaimInv, Begun
  <2>2. \A b \in Attempts :
          b # a => /\ sent'[b] = sent[b] /\ keyed'[b] = keyed[b]
                   /\ stage'[b] = stage[b]
    BY <1>4 DEF Send, SupervisorTypeOK
  <2>3. /\ stage'[a] \in {"NONE", "RECEIVED"}
        /\ sent'[a] \in {"WAITING", "ERROR"}
        /\ UNCHANGED <<found, doomed, named, claims, over, spawned, recorded>>
    BY <1>4, <2>1 DEF Send, runVars, SupervisorTypeOK
  <2>4. QED
    BY <2>1, <2>2, <2>3 DEF ClaimInv, Begun, SupervisorTypeOK
<1>5. ASSUME NEW a \in Attempts, GiveUp(a)
      PROVE  ClaimInv'
  BY <1>5 DEF GiveUp, runVars, ClaimInv, SupervisorTypeOK
<1>6. ASSUME NEW a \in Attempts, Lookup(a)
      PROVE  ClaimInv'
  <2>1. CASE Reply(a, NoAttempt)
    <3>1. stage[a] = "RECEIVED" /\ UNCHANGED runVars
      BY <1>6 DEF Lookup
    <3>2. QED
      BY <2>1, <3>1, ReplyClaims DEF runVars, ClaimInv
  <2>2. CASE /\ Proceeds(a, "RECEIVED",
                         IF Bound(a) THEN "REPLAYING" ELSE "RESOLVING")
             /\ found' = [found EXCEPT ![a] = IF Bound(a) THEN claims[keyed[a]]
                                              ELSE NoAttempt]
             /\ UNCHANGED doomed
    <3>1. keyed[a] # NoStartKey => keyed[a] \in StartKeys
      BY DEF SupervisorTypeOK
    <3>2. /\ stage[a] = "RECEIVED"
          /\ UNCHANGED <<sent, keyed, doomed, named, claims, over, spawned,
                         recorded>>
          /\ \A b \in Attempts :
               b # a => stage'[b] = stage[b] /\ found'[b] = found[b]
      BY <1>6, <2>2 DEF Lookup, Proceeds, runVars, SupervisorTypeOK
    <3>3. CASE Bound(a)
      <4>1. stage'[a] = "REPLAYING" /\ found'[a] = claims[keyed[a]]
        BY <2>2, <3>3 DEF Proceeds, SupervisorTypeOK
      <4>2. /\ keyed[a] \in StartKeys /\ found'[a] \in Attempts
            /\ found'[a] # a
            /\ keyed[found'[a]] = keyed[a] /\ stage[found'[a]] \in Begun
        BY <3>1, <3>2, <3>3, <4>1 DEF Bound, ClaimInv, SupervisorTypeOK, Begun
      <4>3. QED
        BY <3>2, <4>1, <4>2 DEF ClaimInv, Begun, SupervisorTypeOK
    <3>4. CASE ~Bound(a)
      <4>1. stage'[a] = "RESOLVING"
        BY <2>2, <3>4 DEF Proceeds, SupervisorTypeOK
      <4>2. QED
        BY <3>2, <4>1 DEF ClaimInv, Begun, SupervisorTypeOK
    <3>5. QED
      BY <3>3, <3>4
  <2>3. QED
    BY <1>6, <2>1, <2>2 DEF Lookup
<1>7. ASSUME NEW a \in Attempts, BeginClaim(a)
      PROVE  ClaimInv'
  <2>1. /\ stage[a] = "RESOLVING" /\ stage'[a] = "PRUNING"
        /\ \A k \in doomed'[a] : claims[k] \in over
        /\ \A b \in Attempts :
             b # a => stage'[b] = stage[b] /\ doomed'[b] = doomed[b]
        /\ UNCHANGED <<sent, keyed, found, named, runVars>>
    BY <1>7 DEF BeginClaim, Proceeds, SupervisorTypeOK
  <2>2. QED
    BY <2>1 DEF ClaimInv, Begun, runVars, SupervisorTypeOK
<1>8. ASSUME NEW a \in Attempts, Forget(a)
      PROVE  ClaimInv'
  <2>1. /\ stage[a] = "PRUNING" /\ stage'[a] = "CLAIMING"
        /\ \A b \in Attempts : b # a => stage'[b] = stage[b]
        /\ UNCHANGED <<sent, keyed, found, named, over, spawned, recorded>>
    BY <1>8 DEF Forget, Proceeds, SupervisorTypeOK
  <2>2. \A b \in Attempts : b # a => stage[b] # "PRUNING"
    BY <2>1 DEF ServeInv, Claiming
  <2>3. \A k \in StartKeys :
          \/ claims'[k] = claims[k]
          \/ claims'[k] = NoAttempt /\ claims[k] \in over
    BY <1>8, <2>1 DEF Forget, ClaimInv
  <2>4. \A k \in StartKeys : claims'[k] # NoAttempt =>
          keyed'[claims'[k]] = k /\ stage'[claims'[k]] \in Begun
    BY <2>1, <2>3 DEF ClaimInv, Begun, SupervisorTypeOK
  <2>5. ASSUME NEW b \in Attempts
        PROVE  /\ stage'[b] = "CLAIMED" => Remembered(b)'
               /\ b \in spawned => Remembered(b)' \/ b \in over
    BY <2>1, <2>3 DEF ClaimInv
  <2>6. ASSUME NEW b \in Attempts, stage'[b] = "REPLAYING"
        PROVE  stage[b] = "REPLAYING" /\ stage'[found[b]] \in Begun
    BY <2>1, <2>6 DEF ClaimInv, Begun
  <2>7. \A b \in Attempts : stage'[b] # "PRUNING"
    BY <2>1, <2>2
  <2>8. QED
    BY <2>1, <2>4, <2>5, <2>6, <2>7 DEF ClaimInv, Begun
<1>9. ASSUME NEW a \in Attempts, ClaimKey(a)
      PROVE  ClaimInv'
  <2>1. keyed[a] # NoStartKey <=> keyed[a] \in StartKeys
    BY <1>a DEF SupervisorTypeOK
  <2>2. \A b \in Attempts :
          b # a => stage'[b] = stage[b] /\ found'[b] = found[b]
    BY <1>9 DEF ClaimKey, Proceeds, SupervisorTypeOK
  <2>3. /\ stage[a] = "CLAIMING"
        /\ UNCHANGED <<sent, keyed, doomed, named, over, spawned, recorded>>
    BY <1>9 DEF ClaimKey, Proceeds
  <2>4. /\ a \notin spawned /\ a \notin over
        /\ \A k \in StartKeys : claims[k] # a
    BY <2>3, <1>a DEF ClaimInv, Begun
  <2>5. \A b \in Attempts : stage[b] # "PRUNING"
    BY <2>3 DEF ServeInv, Claiming
  <2>6. CASE Bound(a)
    <3>1. /\ claims' = claims /\ stage'[a] = "REPLAYING"
          /\ found'[a] = claims[keyed[a]]
      BY <1>9, <2>6 DEF ClaimKey, Proceeds, SupervisorTypeOK
    <3>2. /\ keyed[a] \in StartKeys /\ found'[a] \in Attempts
          /\ found'[a] # a
          /\ keyed[found'[a]] = keyed[a] /\ stage[found'[a]] \in Begun
      BY <2>1, <2>3, <2>6, <3>1 DEF Bound, ClaimInv, SupervisorTypeOK, Begun
    <3>3. QED
      BY <2>2, <2>3, <3>1, <3>2 DEF ClaimInv, Begun, SupervisorTypeOK
  <2>7. CASE ~Bound(a)
    <3>1. stage'[a] = "CLAIMED"
      BY <1>9, <2>7 DEF ClaimKey, Proceeds, SupervisorTypeOK
    <3>2. \A k \in StartKeys :
            claims'[k] = IF k = keyed[a] THEN a ELSE claims[k]
      BY <1>9, <2>7 DEF ClaimKey
    <3>3. keyed[a] \in StartKeys => claims[keyed[a]] = NoAttempt
      BY <2>1, <2>7 DEF Bound
    <3>4. QED
      BY <1>a, <2>1, <2>2, <2>3, <2>4, <2>5, <3>1, <3>2, <3>3
         DEF ClaimInv, Begun, SupervisorTypeOK
  <2>8. QED
    BY <2>6, <2>7
<1>10. ASSUME NEW a \in Attempts, ReserveUnkeyed(a)
       PROVE  ClaimInv'
  BY <1>10, <1>a DEF ReserveUnkeyed, Proceeds, runVars, ClaimInv, Begun,
                     SupervisorTypeOK
<1>11. ASSUME NEW a \in Attempts, SpawnChild(a)
       PROVE  ClaimInv'
  BY <1>11 DEF SpawnChild, Proceeds, ClaimInv, Begun, SupervisorTypeOK
<1>12. ASSUME NEW a \in Attempts, RecordRun(a)
       PROVE  ClaimInv'
  <2>1. a \in spawned /\ recorded' = recorded \union {a}
    BY <1>12 DEF RecordRun, ClaimInv
  <2>2. recorded' \subseteq spawned
    BY <2>1 DEF ClaimInv
  <2>3. QED
    BY <1>12, <2>1, <2>2, ReplyClaims DEF RecordRun
<1>13. ASSUME NEW a \in Attempts, StartThrows(a)
       PROVE  ClaimInv'
  BY <1>13, ReplyClaims DEF StartThrows, runVars, ClaimInv
<1>14. ASSUME NEW a \in Attempts, OperationEnds(a)
       PROVE  ClaimInv'
  <2>1. keyed[a] \in StartKeys /\ stage[a] \in {"SPAWNED", "DONE"}
    BY <1>14 DEF OperationEnds, SupervisorTypeOK
  <2>2. QED
    BY <1>14, <2>1 DEF OperationEnds, requestVars, ClaimInv, Begun,
                       SupervisorTypeOK
<1>15. ASSUME NEW a \in Attempts, Replay(a)
       PROVE  ClaimInv'
  <2> DEFINE run == IF found[a] \in recorded THEN found[a] ELSE NoAttempt
  <2>1. Reply(a, run) /\ stage[a] = "REPLAYING" /\ UNCHANGED runVars
    BY <1>15 DEF Replay
  <2>2. run # NoAttempt => run \in recorded /\ keyed[run] = keyed[a]
    BY <2>1 DEF ClaimInv
  <2>3. run \in Attempts \union {NoAttempt}
    BY DEF SupervisorTypeOK
  <2> HIDE DEF run
  <2>4. QED
    BY <2>1, <2>2, <2>3, ReplyClaims DEF runVars, ClaimInv
<1>16. QED
  BY <1>1, <1>2, <1>3, <1>4, <1>5, <1>6, <1>7, <1>8, <1>9, <1>10, <1>11, <1>12,
     <1>13, <1>14, <1>15, SupervisorCases DEF Handles, supervisorVars

-----------------------------------------------------------------------------
(* The refinement: what was spawned, recorded and answered under keys.       *)

Answered ==
  {<<keyed[a], named[a]>> :
     a \in {b \in Attempts : sent[b] = "OK" /\ keyed[b] # NoStartKey}}

Ended     == KeyedRuns(over \intersect spawned)
Forgotten == KeyedRuns({a \in spawned : Unclaimed(a)})

\* All that the contract speaks of.
promised ==
  <<KeyedRuns(spawned), Ended, Forgotten, KeyedRuns(recorded), Answered>>

\* A step that spawns, ends, forgets and records nothing, and answers at most
\* with an error.
LEMMA StuttersContract ==
  ASSUME UNCHANGED <<spawned, recorded, over, claims>>,
         \A a \in spawned \union recorded : keyed'[a] = keyed[a],
         \A a \in Attempts :
           \/ /\ sent'[a] = sent[a] /\ named'[a] = named[a]
              /\ keyed'[a] = keyed[a]
           \/ sent[a] # "OK" /\ sent'[a] # "OK"
  PROVE  UNCHANGED promised
<1>1. UNCHANGED <<KeyedRuns(spawned), Ended, Forgotten, KeyedRuns(recorded)>>
  <2>1. \A a \in spawned : Unclaimed(a)' <=> Unclaimed(a)
    BY DEF Unclaimed
  <2>2. UNCHANGED {a \in spawned : Unclaimed(a)}
    BY <2>1
  <2>3. QED
    BY <2>2 DEF KeyedRuns, Ended, Forgotten
<1>2. UNCHANGED Answered
  <2> DEFINE Asked == {b \in Attempts : sent[b] = "OK" /\ keyed[b] # NoStartKey}
  <2>1. Asked' = Asked
    OBVIOUS
  <2>2. \A a \in Asked : <<keyed[a], named[a]>>' = <<keyed[a], named[a]>>
    OBVIOUS
  <2>3. QED
    BY <2>1, <2>2 DEF Answered
<1>3. QED
  BY <1>1, <1>2 DEF promised

\* An answer adds a pair to those that were told, or none.
LEMMA ReplyTells ==
  ASSUME SupervisorTypeOK, NEW a \in Attempts,
         NEW run \in Attempts \union {NoAttempt},
         Reply(a, run)
  PROVE  /\ UNCHANGED keyed
         /\ \/ UNCHANGED Answered
            \/ /\ run # NoAttempt /\ keyed[a] # NoStartKey
               /\ Answered' = Answered \union {<<keyed[a], run>>}
<1>1. UNCHANGED keyed
  BY DEF Reply
<1> DEFINE Asked == {b \in Attempts : sent[b] = "OK" /\ keyed[b] # NoStartKey}
           pair(b) == <<keyed[b], named[b]>>
<1>2. \A b \in Attempts : b # a => sent'[b] = sent[b] /\ named'[b] = named[b]
  BY DEF Reply, SupervisorTypeOK
<1>3. CASE UNCHANGED <<sent, named>>
  BY <1>1, <1>3 DEF Answered
<1>4. CASE ~UNCHANGED <<sent, named>>
  <2>1. /\ sent[a] = "WAITING" /\ named'[a] = run
        /\ sent'[a] = IF run = NoAttempt THEN "ERROR" ELSE "OK"
    BY <1>4 DEF Reply, SupervisorTypeOK
  <2>2. CASE run = NoAttempt \/ keyed[a] = NoStartKey
    <3>1. Asked' = Asked /\ a \notin Asked
      BY <1>1, <1>2, <2>1, <2>2
    <3>2. \A b \in Asked : pair(b)' = pair(b)
      BY <1>1, <1>2, <3>1
    <3>3. UNCHANGED Answered
      BY <3>1, <3>2 DEF Answered
    <3>4. QED
      BY <1>1, <3>3
  <2>3. CASE run # NoAttempt /\ keyed[a] # NoStartKey
    <3>1. Asked' = Asked \union {a} /\ a \notin Asked
      BY <1>1, <1>2, <2>1, <2>3
    <3>2. \A b \in Asked : pair(b)' = pair(b)
      BY <1>1, <1>2, <3>1
    <3>3. pair(a)' = <<keyed[a], run>>
      BY <1>1, <2>1
    <3>4. /\ Answered = {pair(b) : b \in Asked}
          /\ Answered' = {pair(b)' : b \in Asked'}
      BY DEF Answered
    <3> HIDE DEF Asked, pair
    <3>5. Answered' = Answered \union {<<keyed[a], run>>}
      BY <3>1, <3>2, <3>3, <3>4
    <3>6. QED
      BY <1>1, <2>3, <3>5
  <2>4. QED
    BY <2>2, <2>3
<1>5. QED
  BY <1>3, <1>4

LEMMA ContractInit == SupervisorInit => StartPromise!Init
  BY DEF SupervisorInit, StartPromise!Init, KeyedRuns

LEMMA ContractStep ==
  SupervisorTypeOK /\ Served /\ ServeInv /\ ClaimInv
    /\ [SupervisorNext]_supervisorVars
    => [StartPromise!Next]_(StartPromise!startVars)
<1> SUFFICES ASSUME SupervisorTypeOK, Served, ServeInv, ClaimInv,
                    [SupervisorNext]_supervisorVars
             PROVE  [StartPromise!Next]_(StartPromise!startVars)
  OBVIOUS
<1>a. UNCHANGED promised \/ StartPromise!Next
      => [StartPromise!Next]_(StartPromise!startVars)
  BY DEF StartPromise!startVars, promised, Answered, Ended, Forgotten
<1>b. /\ recorded \subseteq spawned /\ spawned \subseteq Attempts
      /\ NoAttempt \notin Attempts /\ NoStartKey \notin StartKeys
  BY SupervisorAssumption DEF ClaimInv, SupervisorTypeOK
<1>c. \A a \in Attempts : keyed[a] # NoStartKey <=> keyed[a] \in StartKeys
  BY <1>b DEF SupervisorTypeOK
<1>1. CASE UNCHANGED <<sent, keyed, named, claims, over, spawned, recorded>>
  BY <1>1, <1>a, StuttersContract
<1>2. ASSUME NEW s \in Supervisors,
             \/ StartDaemon(s) \/ Probe(s) \/ RemoveStale(s) \/ Bind(s)
             \/ CloseListener(s) \/ ListenerClosed(s) \/ DaemonEnds(s)
      PROVE  UNCHANGED <<sent, keyed, named, claims, over, spawned, recorded>>
  BY <1>2 DEF StartDaemon, Probe, RemoveStale, Bind, CloseListener,
              ListenerClosed, DaemonEnds, requestVars, runVars
<1>3. ASSUME NEW a \in Attempts, NEW k \in StartKeys \union {NoStartKey},
             Send(a, k)
      PROVE  [StartPromise!Next]_(StartPromise!startVars)
  <2>1. \A b \in Attempts : b # a => keyed'[b] = keyed[b] /\ sent'[b] = sent[b]
    BY <1>3 DEF Send, SupervisorTypeOK
  <2>2. a \notin spawned
    BY <1>3 DEF Send, ClaimInv
  <2>3. /\ sent[a] # "OK" /\ sent'[a] # "OK"
        /\ UNCHANGED <<named, claims, over, spawned, recorded>>
    BY <1>3 DEF Send, runVars, SupervisorTypeOK
  <2>4. QED
    BY <1>a, <1>b, <2>1, <2>2, <2>3, StuttersContract
<1>4. ASSUME NEW a \in Attempts, GiveUp(a)
      PROVE  [StartPromise!Next]_(StartPromise!startVars)
  <2>1. \A b \in Attempts : \/ sent'[b] = sent[b]
                            \/ sent[b] # "OK" /\ sent'[b] # "OK"
    BY <1>4 DEF GiveUp, SupervisorTypeOK
  <2>2. UNCHANGED <<keyed, named, claims, over, spawned, recorded>>
    BY <1>4 DEF GiveUp, runVars
  <2>3. QED
    BY <1>a, <1>b, <2>1, <2>2, StuttersContract
<1>5. ASSUME UNCHANGED <<keyed, claims, over, spawned, recorded>>
      PROVE  UNCHANGED <<KeyedRuns(spawned), Ended, Forgotten,
                         KeyedRuns(recorded)>>
  BY <1>5 DEF KeyedRuns, Ended, Forgotten, Unclaimed
<1>6. ASSUME NEW a \in Attempts, Reply(a, NoAttempt), UNCHANGED runVars
      PROVE  [StartPromise!Next]_(StartPromise!startVars)
  <2>1. UNCHANGED <<keyed, Answered>>
    BY <1>6, ReplyTells
  <2>2. QED
    BY <1>a, <1>5, <1>6, <2>1 DEF promised, runVars
<1>7. ASSUME NEW a \in Attempts,
             Lookup(a) \/ BeginClaim(a) \/ ReserveUnkeyed(a)
      PROVE  [StartPromise!Next]_(StartPromise!startVars)
  BY <1>1, <1>6, <1>7 DEF Lookup, BeginClaim, ReserveUnkeyed, Proceeds, runVars
<1>8. ASSUME NEW a \in Attempts, StartThrows(a)
      PROVE  [StartPromise!Next]_(StartPromise!startVars)
  BY <1>6, <1>8 DEF StartThrows
<1>9. ASSUME NEW a \in Attempts, Forget(a)
      PROVE  [StartPromise!Next]_(StartPromise!startVars)
  <2> DEFINE gone == {b \in spawned : keyed[b] \in doomed[a]
                                       /\ claims[keyed[b]] = b}
  <2>1. /\ stage[a] = "PRUNING" /\ doomed[a] \subseteq StartKeys
        /\ UNCHANGED <<sent, keyed, named, over, spawned, recorded>>
        /\ \A k \in StartKeys :
             claims'[k] = IF k \in doomed[a] THEN NoAttempt ELSE claims[k]
    BY <1>9 DEF Forget, Proceeds, SupervisorTypeOK
  <2>2. \A b \in spawned : Unclaimed(b)' <=> Unclaimed(b) \/ b \in gone
    BY <1>b, <1>c, <2>1 DEF Unclaimed
  <2>3. Forgotten' = Forgotten \union KeyedRuns(gone)
    BY <2>1, <2>2 DEF Forgotten, KeyedRuns
  <2>4. gone \subseteq over \intersect spawned
    BY <2>1 DEF ClaimInv
  <2>5. /\ KeyedRuns(gone) \subseteq Ended
        /\ KeyedRuns(gone) \subseteq KeyedRuns(spawned)
    BY <2>4 DEF Ended, KeyedRuns
  <2>6. UNCHANGED <<KeyedRuns(spawned), Ended, KeyedRuns(recorded), Answered>>
    BY <2>1 DEF KeyedRuns, Ended, Answered
  <2>7. StartPromise!Forget(KeyedRuns(gone))
    BY <2>3, <2>5, <2>6 DEF StartPromise!Forget, Answered, Ended, Forgotten
  <2> HIDE DEF gone
  <2>8. QED
    BY <1>a, <2>5, <2>7 DEF StartPromise!Next
<1>10. ASSUME NEW a \in Attempts, ClaimKey(a)
       PROVE  [StartPromise!Next]_(StartPromise!startVars)
  <2>1. /\ stage[a] = "CLAIMING"
        /\ UNCHANGED <<sent, keyed, named, over, spawned, recorded>>
        /\ \A k \in StartKeys :
             claims'[k] = IF k = keyed[a] /\ ~Bound(a) THEN a ELSE claims[k]
    BY <1>10 DEF ClaimKey, Proceeds
  <2>2. a \notin spawned
    BY <2>1 DEF ClaimInv
  <2>3. \A b \in spawned : Unclaimed(b)' <=> Unclaimed(b)
    BY <1>b, <1>c, <2>1, <2>2 DEF Unclaimed, Bound
  <2>4. UNCHANGED promised
    BY <2>1, <2>3 DEF promised, KeyedRuns, Ended, Forgotten, Answered
  <2>5. QED
    BY <1>a, <2>4
<1>11. ASSUME NEW a \in Attempts, SpawnChild(a)
       PROVE  [StartPromise!Next]_(StartPromise!startVars)
  <2>1. /\ spawned' = spawned \union {a} /\ stage[a] = "CLAIMED"
        /\ UNCHANGED <<sent, keyed, named, claims, over, recorded>>
    BY <1>11 DEF SpawnChild, Proceeds
  <2>2. UNCHANGED <<KeyedRuns(recorded), Answered>>
    BY <2>1 DEF KeyedRuns, Answered
  <2>3. a \notin spawned /\ a \notin over /\ Remembered(a)
    BY <2>1 DEF ClaimInv
  <2>4. UNCHANGED <<Ended, Forgotten>>
    <3>1. /\ ~Unclaimed(a)
          /\ \A b \in spawned : Unclaimed(b)' <=> Unclaimed(b)
      BY <1>c, <2>1, <2>3 DEF Unclaimed, Remembered
    <3>2. ~Unclaimed(a)'
      BY <2>1, <3>1 DEF Unclaimed
    <3>3. /\ {b \in spawned : Unclaimed(b)}' = {b \in spawned : Unclaimed(b)}
          /\ (over \intersect spawned)' = over \intersect spawned
      BY <2>1, <2>3, <3>1, <3>2
    <3>4. QED
      BY <2>1, <3>3 DEF Ended, Forgotten, KeyedRuns
  <2>5. CASE keyed[a] = NoStartKey
    <3>1. UNCHANGED KeyedRuns(spawned)
      BY <2>1, <2>5 DEF KeyedRuns
    <3>2. QED
      BY <1>a, <2>2, <2>4, <3>1 DEF promised
  <2>6. CASE keyed[a] # NoStartKey
    <3>1. KeyedRuns(spawned)' = KeyedRuns(spawned) \union {<<keyed[a], a>>}
      BY <2>1, <2>6 DEF KeyedRuns
    <3>2. keyed[a] \in StartKeys /\ claims[keyed[a]] = a
      BY <1>c, <2>3, <2>6 DEF Remembered
    <3>3. \A b \in spawned : b # a /\ (keyed[b] = keyed[a] => Unclaimed(b))
      BY <2>3, <2>6, <3>2 DEF Unclaimed
    <3>4. \A l \in KeyedRuns(spawned) :
            l[2] # a /\ (l[1] = keyed[a] => l \in Forgotten)
      BY <2>6, <3>3 DEF KeyedRuns, Forgotten
    <3>5. StartPromise!Launch(keyed[a], a)
      BY <2>2, <2>4, <3>1, <3>4
         DEF StartPromise!Launch, Answered, Ended, Forgotten
    <3>6. QED
      BY <1>a, <3>2, <3>5 DEF StartPromise!Next
  <2>7. QED
    BY <2>5, <2>6
<1>12. ASSUME NEW a \in Attempts, RecordRun(a)
       PROVE  [StartPromise!Next]_(StartPromise!startVars)
  <2>1. /\ recorded' = recorded \union {a} /\ a \in spawned
        /\ Reply(a, a) /\ UNCHANGED <<claims, over, spawned>>
    BY <1>12 DEF RecordRun, ClaimInv
  <2>2. /\ UNCHANGED keyed
        /\ \/ UNCHANGED Answered
           \/ /\ keyed[a] # NoStartKey
              /\ Answered' = Answered \union {<<keyed[a], a>>}
    BY <2>1, ReplyTells
  <2>3. UNCHANGED <<KeyedRuns(spawned), Ended, Forgotten>>
    BY <2>1, <2>2 DEF KeyedRuns, Ended, Forgotten, Unclaimed
  <2>4. CASE keyed[a] = NoStartKey
    <3>1. UNCHANGED KeyedRuns(recorded)
      BY <2>1, <2>2, <2>4 DEF KeyedRuns
    <3>2. QED
      BY <1>a, <2>2, <2>3, <2>4, <3>1 DEF promised
  <2>5. CASE keyed[a] # NoStartKey
    <3>1. KeyedRuns(recorded)' = KeyedRuns(recorded) \union {<<keyed[a], a>>}
      BY <2>1, <2>2, <2>5 DEF KeyedRuns
    <3>2. <<keyed[a], a>> \in KeyedRuns(spawned)
      BY <2>1, <2>5 DEF KeyedRuns
    <3>3. PICK l : l = <<keyed[a], a>>
      OBVIOUS
    <3>4. StartPromise!Record(l)
      BY <2>2, <2>3, <3>1, <3>2, <3>3
         DEF StartPromise!Record, Answered, Ended, Forgotten
    <3>5. QED
      BY <1>a, <3>2, <3>3, <3>4 DEF StartPromise!Next
  <2>6. QED
    BY <2>4, <2>5
<1>13. ASSUME NEW a \in Attempts, OperationEnds(a)
       PROVE  [StartPromise!Next]_(StartPromise!startVars)
  <2>1. /\ over' = over \union {a} /\ keyed[a] # NoStartKey
        /\ UNCHANGED <<sent, keyed, named, claims, spawned, recorded>>
    BY <1>13 DEF OperationEnds, requestVars
  <2>2. UNCHANGED <<KeyedRuns(spawned), Forgotten, KeyedRuns(recorded),
                    Answered>>
    BY <2>1 DEF KeyedRuns, Forgotten, Unclaimed, Answered
  <2>3. CASE a \notin spawned
    <3>1. (over \intersect spawned)' = over \intersect spawned
      BY <2>1, <2>3
    <3>2. UNCHANGED Ended
      BY <2>1, <3>1 DEF Ended, KeyedRuns
    <3>3. QED
      BY <1>a, <2>2, <3>2 DEF promised
  <2>4. CASE a \in spawned
    <3>1. PICK l : l = <<keyed[a], a>>
      OBVIOUS
    <3>2. l \in KeyedRuns(spawned)
      BY <2>1, <2>4, <3>1 DEF KeyedRuns
    <3>3. (over \intersect spawned)' = (over \intersect spawned) \union {a}
      BY <2>1, <2>4
    <3>4. Ended' = Ended \union {l}
      BY <2>1, <3>1, <3>3 DEF Ended, KeyedRuns
    <3>5. StartPromise!End(l)
      BY <2>2, <3>2, <3>4 DEF StartPromise!End, Answered, Ended, Forgotten
    <3>6. QED
      BY <1>a, <3>2, <3>5 DEF StartPromise!Next
  <2>5. QED
    BY <2>3, <2>4
<1>14. ASSUME NEW a \in Attempts, Replay(a)
       PROVE  [StartPromise!Next]_(StartPromise!startVars)
  <2> DEFINE run == found[a]
  <2>1. stage[a] = "REPLAYING" /\ UNCHANGED runVars
    BY <1>14 DEF Replay
  <2>2. keyed[a] \in StartKeys /\ run \in Attempts /\ keyed[run] = keyed[a]
    BY <2>1 DEF ClaimInv
  <2>3. CASE run \notin recorded
    BY <1>6, <1>14, <2>1, <2>3 DEF Replay
  <2>4. CASE run \in recorded
    <3>1. Reply(a, run)
      BY <1>14, <2>4 DEF Replay
    <3>2. /\ UNCHANGED keyed
          /\ \/ UNCHANGED Answered
             \/ Answered' = Answered \union {<<keyed[a], run>>}
      BY <2>2, <3>1, ReplyTells
    <3>3. UNCHANGED <<KeyedRuns(spawned), Ended, Forgotten,
                      KeyedRuns(recorded)>>
      BY <1>5, <2>1, <3>2 DEF runVars
    <3>4. /\ <<keyed[a], run>> \in KeyedRuns(recorded)
          /\ <<keyed[a], run>> \in KeyedRuns(spawned)
      BY <1>b, <2>2, <2>4 DEF KeyedRuns
    <3>5. CASE Answered' = Answered \union {<<keyed[a], run>>}
      <4>1. PICK l : l = <<keyed[a], run>>
        OBVIOUS
      <4>2. StartPromise!Answer(l)
        BY <3>3, <3>4, <3>5, <4>1
           DEF StartPromise!Answer, Answered, Ended, Forgotten
      <4>3. QED
        BY <1>a, <3>4, <4>1, <4>2 DEF StartPromise!Next
    <3>6. QED
      BY <1>a, <3>2, <3>3, <3>5 DEF promised
  <2>5. QED
    BY <2>3, <2>4
<1>15. CASE UNCHANGED supervisorVars
  BY <1>1, <1>15 DEF supervisorVars, requestVars, runVars
<1>16. QED
  BY <1>1, <1>2, <1>3, <1>4, <1>7, <1>8, <1>9, <1>10, <1>11, <1>12, <1>13,
     <1>14, <1>15, SupervisorCases DEF Handles

\* For any number of daemons, retries and keys, if the service manager runs one
\* start or stop at a time: no Run is launched under a key while another one of
\* the key is remembered, none is forgotten before its operation is terminal,
\* and successful answers name Runs of the key that are on record.
THEOREM KeysKeepTheirPromise ==
  ASSUME OneStarter PROVE SupervisorSpec => KeepsStartContract
<1>1. SupervisorInit => ReachInv
  BY DEF SupervisorInit, ReachInv, ListenerIsReachable, OnItsWay
<1>2. SupervisorTypeOK /\ Served /\ ReachInv
        /\ [SupervisorNext]_supervisorVars => ReachInv'
  BY ReachStep
<1>3. SupervisorTypeOK /\ Served /\ ReachInv /\ ServeInv
        /\ [SupervisorNext]_supervisorVars => ServeInv'
  BY ServeStep
<1>4. QED
  BY <1>1, <1>2, <1>3, SupervisorTypeInit, SupervisorTypeStep, ServeInit,
     ClaimInit, ClaimStep, ContractInit, ContractStep, PTL
     DEF SupervisorSpec, KeepsStartContract, StartPromise!Spec
=============================================================================
