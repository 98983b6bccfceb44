---------------------------- MODULE StartContract ----------------------------
(* What an idempotency key promises to the callers of process.start: however  *)
(* often they try, and whoever answers, no Run is launched under a key while  *)
(* another one of the key is remembered, a Run is not forgotten before it has *)
(* ended, and successful answers name Runs of the key that are on record.     *)
CONSTANTS StartKeys, StartedRuns

VARIABLES
  launches,  \* pairs <<key, Run>>
  ended,     \* those whose operation is terminal
  forgotten, \* those whose operation is gone
  records,   \* those with a durable record
  answers    \* those that a caller was told

startVars == <<launches, ended, forgotten, records, answers>>

Init ==
  launches = {} /\ ended = {} /\ forgotten = {} /\ records = {} /\ answers = {}

Launch(k, r) ==
  /\ \A l \in launches : l[2] # r /\ (l[1] = k => l \in forgotten)
  /\ launches' = launches \union {<<k, r>>}
  /\ UNCHANGED <<ended, forgotten, records, answers>>

End(l) ==
  /\ l \in launches
  /\ ended' = ended \union {l}
  /\ UNCHANGED <<launches, forgotten, records, answers>>

\* A prune forgets any number of them.
Forget(ls) ==
  /\ ls \subseteq ended
  /\ forgotten' = forgotten \union ls
  /\ UNCHANGED <<launches, ended, records, answers>>

Record(l) ==
  /\ l \in launches
  /\ records' = records \union {l}
  /\ \/ UNCHANGED answers
     \/ answers' = answers \union {l}
  /\ UNCHANGED <<launches, ended, forgotten>>

Answer(l) ==
  /\ l \in records
  /\ answers' = answers \union {l}
  /\ UNCHANGED <<launches, ended, forgotten, records>>

Next ==
  \/ \E k \in StartKeys, r \in StartedRuns : Launch(k, r)
  \/ \E l \in launches : End(l) \/ Record(l) \/ Answer(l)
  \/ \E ls \in SUBSET launches : Forget(ls)

Spec == Init /\ [][Next]_startVars
=============================================================================
