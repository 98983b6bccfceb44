---------------------------- MODULE MCRunLifecycle ----------------------------
(* RunLifecycle for TLC.  A behaviour is one of several scenes: each has the  *)
(* Runs, the callers and the disturbances that its question is about, and all *)
(* of them together would be too many states.                                 *)
EXTENDS RunLifecycle, FiniteSets, Naturals, TLC

CONSTANT Scenes  \* which of them there are

VARIABLE scene

runVars == <<vars, scene>>

\* process.start is called n times at most.
Calls(n) == Cardinality({r \in Runs : owner'[r] # NoRuntime}) <= n

\* Nobody has an idempotency key, or everybody has one.
Unkeyed == \A r \in Runs : key'[r] = NoKey
Keyed == \A r \in Runs : owner'[r] # NoRuntime => key'[r] # NoKey

\* Reservations are scanned by boots and starts only.
NoTools == \A rt \in Runtimes :
  rt \in scanning' \ scanning =>
    runtime'[rt] = "BOOTING" \/ \E r \in Runs : owner'[r] = rt /\ phase'[r] = "ENTERED"

\* One keyed start, and everything that may go wrong around its
\* runtime.
Outcomes == INSTANCE RunLifecycle WITH
  Handlers <- {}, Disturbances <- {"CRASH", "SHUTDOWN", "STALE", "STORAGE"}

OutcomesNext == scene = "OUTCOMES" /\ Outcomes!Next /\ Calls(1) /\ Keyed

\* One start among task.finish and task.cancel.
Accounts == INSTANCE RunLifecycle WITH
  Handlers <- {"FINISH", "CANCEL"},
  Disturbances <- {"CRASH", "SHUTDOWN", "STORAGE"}

AccountsNext == scene = "ACCOUNTS" /\ Accounts!Next /\ Calls(1) /\ Unkeyed

\* One start among all handlers, with nothing going wrong.
Cleanups == INSTANCE RunLifecycle WITH Disturbances <- {}

CleanupsNext == scene = "CLEANUPS" /\ Cleanups!Next /\ Calls(1) /\ Unkeyed

\* All starts under few keys, with prunes that OVERLAP or not.
Retries == INSTANCE RunLifecycle WITH
  Handlers <- {},
  Disturbances <- Disturbances \intersect {"CRASH", "OVERLAP"}

RetriesNext == scene = "RETRIES" /\ Retries!Next /\ Keyed /\ NoTools

\* One start whose runtime dies or stops, as long as the store answers.
Recovery == INSTANCE RunLifecycle WITH
  Handlers <- {}, Disturbances <- {"CRASH", "SHUTDOWN"}

RecoveryNext ==
  scene = "RECOVERY" /\ Recovery!Next /\ Calls(1) /\ Unkeyed /\ NoTools

\* One start whose registration fails, and planned shutdowns.
Endings == INSTANCE RunLifecycle WITH
  Handlers <- {}, Disturbances <- {"CRASH", "SHUTDOWN", "STORAGE"}

EndingsNext ==
  scene = "ENDINGS" /\ Endings!Next /\ Calls(1) /\ Unkeyed /\ NoTools

RunsInit == Init /\ scene \in Scenes

RunsNext ==
  /\ \/ OutcomesNext \/ AccountsNext \/ CleanupsNext \/ RetriesNext
     \/ RecoveryNext \/ EndingsNext
  /\ UNCHANGED scene

RunsSpec == RunsInit /\ [][RunsNext]_runVars

FairRunsSpec == RunsSpec /\ Fairness

Symmetry == Permutations(Runtimes) \union Permutations(Runs)

-----------------------------------------------------------------------------
\* A reservation that a booting runtime has listed, of a dead owner and with a
\* snapshot, does not outlive the boot: the scan links the Run.  A visit that
\* throws keeps the reservation, so this holds as long as the store answers.
BootRecovers ==
  \A rt \in Runtimes, r \in Runs :
    scene = "RECOVERY" /\ runtime[rt] = "BOOTING"
      /\ r \in scan[rt] /\ Recoverable(rt, r)
      ~> \/ runtime[rt] = "BOOTING" /\ r \notin pending
         \/ runtime[rt] = "DOWN"
=============================================================================
