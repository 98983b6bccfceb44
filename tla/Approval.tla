------------------------------ MODULE Approval ------------------------------
(* ApprovalService: the approval requests and grants in the record of one     *)
(* Task, as process.start uses them.  A grant is named by the request it      *)
(* came from, which has its fingerprint, scope and kind.                      *)
EXTENDS Naturals, Sequences

CONSTANTS
  Starts,      \* process.start calls that may be in flight at a time
  Ops,         \* operations, as their fingerprint tells them apart
  Rules,       \* policy rules whose effect is to ask
  ScopeOf,     \* the approval_scope of each rule
  Policies,    \* the configurations: which rule an operation meets first
  Allow, Deny, \* ... where that rule does not ask
  MaxRequests  \* bound on the requests of the Task

ASSUME ApprovalAssumption ==
  /\ Policies \subseteq [Ops -> Rules \union {Allow, Deny}]
  /\ Allow \notin Rules /\ Deny \notin Rules
  /\ DOMAIN ScopeOf = Rules
  /\ MaxRequests \in Nat

VARIABLES
  taskOpen,   \* the Task is ACTIVE
  requests,   \* approvals; the index is the approval_id
  grants,     \* approval_grants
  policy,     \* the configured policy
  authorized, \* per start: what authorize returned to it
  uses        \* history: commands started under a grant, 2 meaning several

approvalVars == <<taskOpen, requests, grants, policy, authorized, uses>>

Ids == 1..MaxRequests
Open == {"PENDING", "AWAITING_USER"}
Kinds == {"ALLOW_ONCE", "ALLOW_TASK"}
Requests ==
  [op : Ops, rule : Rules,
   status : Open \union {"APPROVED", "DENIED"},
   decision : Kinds \union {"NONE", "ASK_USER", "DENY"}]

\* A start that is not between authorize and its end holds Idle.
Idle == [op |-> Allow, rule |-> Allow, grant |-> 0]
Authorizations ==
  [op : Ops, rule : Rules \union {Allow}, grant : Ids \union {0}]

ApprovalTypeOK ==
  /\ taskOpen \in BOOLEAN
  /\ requests \in Seq(Requests) /\ Len(requests) <= MaxRequests
  /\ grants \subseteq DOMAIN requests
  /\ policy \in Policies
  /\ authorized \in [Starts -> Authorizations \union {Idle}]
  /\ uses \in [Ids -> 0..2]

ApprovalInit ==
  /\ taskOpen = TRUE
  /\ requests = <<>>
  /\ grants = {}
  /\ policy \in Policies
  /\ authorized = [s \in Starts |-> Idle]
  /\ uses = [i \in Ids |-> 0]

-----------------------------------------------------------------------------
(* authorize, one transaction, in a start that found no earlier Run           *)

InScope(i, rule) == ScopeOf[requests[i].rule] = ScopeOf[rule]
TaskGrants(rule) ==
  {i \in grants : requests[i].decision = "ALLOW_TASK" /\ InScope(i, rule)}

\* Mutant: a one-time grant serves every operation of its scope.
OnceGrantsAnyOp(op, rule) ==
  {i \in grants : requests[i].decision = "ALLOW_ONCE" /\ InScope(i, rule)}

OnceGrants(op, rule) ==
  {i \in grants : /\ requests[i].decision = "ALLOW_ONCE"
                  /\ requests[i].op = op
                  /\ InScope(i, rule)}

OpenRequests(op, rule) ==
  {i \in DOMAIN requests :
     requests[i].op = op /\ requests[i].rule = rule
       /\ requests[i].status \in Open}

Hold(s, op, rule, grant) ==
  authorized' =
    [authorized EXCEPT ![s] = [op |-> op, rule |-> rule, grant |-> grant]]

PolicyAllows(s, op) ==
  /\ authorized[s] = Idle
  /\ policy[op] = Allow
  /\ Hold(s, op, Allow, 0)
  /\ UNCHANGED <<taskOpen, requests, grants, policy, uses>>

Asks(s, op) ==
  /\ authorized[s] = Idle /\ taskOpen
  /\ policy[op] \in Rules

UseTaskGrant(s, op) ==
  /\ Asks(s, op)
  /\ \E i \in TaskGrants(policy[op]) : Hold(s, op, policy[op], i)
  /\ UNCHANGED <<taskOpen, requests, grants, policy, uses>>

UseOnceGrant(s, op) ==
  /\ Asks(s, op)
  /\ TaskGrants(policy[op]) = {}
  /\ \E i \in OnceGrants(op, policy[op]) :
       /\ grants' = grants \ {i}
       /\ Hold(s, op, policy[op], i)
  /\ UNCHANGED <<taskOpen, requests, policy, uses>>

\* APPROVAL_REQUIRED, with the request that is open already or a new one.
Require(s, op) ==
  /\ Asks(s, op)
  /\ TaskGrants(policy[op]) \union OnceGrants(op, policy[op]) = {}
  /\ OpenRequests(op, policy[op]) = {}
  /\ Len(requests) < MaxRequests
  /\ requests' =
       Append(requests, [op |-> op, rule |-> policy[op],
                         status |-> "PENDING", decision |-> "NONE"])
  /\ UNCHANGED <<taskOpen, grants, policy, authorized, uses>>

-----------------------------------------------------------------------------
(* The rest of the start                                                     *)

\* The Run is reserved, which needs the Task ACTIVE, and its command spawned.
CommandStarts(s) ==
  /\ authorized[s] # Idle /\ taskOpen
  /\ LET i == authorized[s].grant IN
       uses' = IF i = 0 THEN uses
               ELSE [uses EXCEPT ![i] = IF @ = 0 THEN 1 ELSE 2]
  /\ authorized' = [authorized EXCEPT ![s] = Idle]
  /\ UNCHANGED <<taskOpen, requests, grants, policy>>

\* The Task ended, the key turned out to be taken, spawn failed, or the
\* process died.  What authorize took is not put back.
StartFails(s) ==
  /\ authorized[s] # Idle
  /\ authorized' = [authorized EXCEPT ![s] = Idle]
  /\ UNCHANGED <<taskOpen, requests, grants, policy, uses>>

-----------------------------------------------------------------------------
(* respond                                                                   *)

\* Mutant: a request that is resolved may be answered again.
AnswerableAlways(i) == taskOpen

Answerable(i) == taskOpen /\ requests[i].status \in Open

Respond(i, decision) ==
  /\ Answerable(i)
  /\ LET answer == CASE decision = "ASK_USER" -> "AWAITING_USER"
                     [] decision = "DENY" -> "DENIED"
                     [] OTHER -> "APPROVED"
     IN  requests' = [requests EXCEPT ![i].status = answer,
                                      ![i].decision = decision]
  /\ grants' = IF decision \in Kinds THEN grants \union {i} ELSE grants
  /\ UNCHANGED <<taskOpen, policy, authorized, uses>>

-----------------------------------------------------------------------------
(* The Task and the service                                                  *)

\* task.finish and task.cancel clear the grants and leave the requests.
EndTask ==
  /\ taskOpen
  /\ taskOpen' = FALSE
  /\ grants' = {}
  /\ UNCHANGED <<requests, policy, authorized, uses>>

\* A restart, with another configuration or the same.
Reconfigure ==
  /\ policy' \in Policies
  /\ authorized' = [s \in Starts |-> Idle]
  /\ UNCHANGED <<taskOpen, requests, grants, uses>>

ApprovalNext ==
  \/ \E s \in Starts, op \in Ops :
       \/ PolicyAllows(s, op) \/ UseTaskGrant(s, op) \/ UseOnceGrant(s, op)
       \/ Require(s, op)
  \/ \E s \in Starts : CommandStarts(s) \/ StartFails(s)
  \/ \E i \in DOMAIN requests :
     \E decision \in Kinds \union {"ASK_USER", "DENY"} : Respond(i, decision)
  \/ EndTask \/ Reconfigure

ApprovalSpec == ApprovalInit /\ [][ApprovalNext]_approvalVars

-----------------------------------------------------------------------------
(* Properties                                                                *)

\* An approval given once starts at most one command, however many starts,
\* retries, answers and configurations there are.
OnceMeansOnce ==
  \A i \in DOMAIN requests :
    requests[i].decision = "ALLOW_ONCE" => uses[i] <= 1

\* A start that met a rule goes on only under an approved request of the same
\* scope, and of the same operation unless the approval was for the Task.
StartsAreApproved ==
  \A s \in Starts :
    authorized[s].rule \in Rules =>
      LET i == authorized[s].grant IN
        /\ i \in DOMAIN requests
        /\ requests[i].status = "APPROVED"
        /\ InScope(i, authorized[s].rule)
        /\ requests[i].decision = "ALLOW_ONCE" =>
             requests[i].op = authorized[s].op
=============================================================================
