---------------------------- MODULE AuditContract ----------------------------
(* What the audit log of a Task promises whatever stores it, and however many *)
(* processes write it: entries are added one at a time, at the end, none is   *)
(* added twice, and only the oldest are dropped when the log is full.         *)
EXTENDS Naturals, Sequences

CONSTANTS
  Facts,      \* what an entry says
  MaxEntries  \* how many entries a Task keeps

VARIABLES
  count,  \* entries ever added
  kept    \* the latest of them, oldest first

contractVars == <<count, kept>>

Init == count = 0 /\ kept = <<>>

Add(f) ==
  /\ \A i \in DOMAIN kept : kept[i] # f
  /\ count' = count + 1
  /\ LET longer == Append(kept, f)
     IN kept' = IF Len(longer) > MaxEntries THEN Tail(longer) ELSE longer

Next == \E f \in Facts : Add(f)

Spec == Init /\ [][Next]_contractVars
=============================================================================
