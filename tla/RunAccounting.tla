----------------------------- MODULE RunAccounting -----------------------------
(* What the Task record promises about child processes, without runtimes,   *)
(* phases or leases: a child is launched only while the Task is open and    *)
(* after the Task knows of it, and the Task forgets no child that lives.    *)
CONSTANT Runs

VARIABLES
  open,      \* the Task is ACTIVE
  accounted, \* Runs the Task knows of: reserved or linked
  alive      \* Runs whose child process exists

avars == <<open, accounted, alive>>

Init == open = TRUE /\ accounted = {} /\ alive = {}

Account(r) ==
  /\ open
  /\ accounted' = accounted \union {r}
  /\ UNCHANGED <<open, alive>>

Launch(r) ==
  /\ open /\ r \in accounted
  /\ alive' = alive \union {r}
  /\ UNCHANGED <<open, accounted>>

End(r) ==
  /\ alive' = alive \ {r}
  /\ UNCHANGED <<open, accounted>>

Forget(r) ==
  /\ r \notin alive
  /\ accounted' = accounted \ {r}
  /\ UNCHANGED <<open, alive>>

Close ==
  /\ open
  /\ open' = FALSE
  /\ UNCHANGED <<accounted, alive>>

Next == Close \/ \E r \in Runs : Account(r) \/ Launch(r) \/ End(r) \/ Forget(r)

Spec == Init /\ [][Next]_avars
=============================================================================
