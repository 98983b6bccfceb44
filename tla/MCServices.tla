----------------------------- MODULE MCServices -----------------------------
(* TaskWorktree, Workflow, Approval, SkillInstall, AuditStore, RunOutput and  *)
(* Supervisor for TLC.  They share no state, so a behaviour of the services   *)
(* takes the steps of one of them, chosen in its initial state: the product   *)
(* would only multiply their states.  Of RunOutput it takes either reader.    *)
EXTENDS TaskWorktree, Workflow, Approval, SkillInstall, AuditStore, RunOutput,
        Supervisor, TLC

CONSTANTS rm, touch,   \* two operations
          destructive, \* a rule, and
          cautious     \* another one of the same scope

OneScope == destructive :> "host" @@ cautious :> "host"

\* One rule for both operations; one for each; and a configuration that does
\* not ask.
ThreePolicies ==
  {rm :> destructive @@ touch :> destructive,
   rm :> cautious @@ touch :> destructive,
   rm :> Deny @@ touch :> Allow}

TaskSymmetry == Permutations(Tasks)

VARIABLE focus  \* the service of this behaviour

servicesVars ==
  <<worktreeVars, workflowVars, approvalVars, installVars, auditVars,
    outputVars, supervisorVars, focus>>

ServicesInit ==
  /\ focus \in {"WORKTREE", "WORKFLOW", "APPROVAL", "SKILLS", "AUDIT", "PAGES",
                "TAIL", "SUPERVISOR"}
  /\ WorktreeInit /\ WorkflowInit /\ ApprovalInit /\ InstallInit /\ AuditInit
  /\ OutputInit /\ SupervisorInit
  /\ focus # "WORKFLOW" => \A t \in Tasks : taskState[t] = "ACTIVE"
  /\ focus # "APPROVAL" => \A op \in Ops : policy[op] = destructive

WorktreeOnly ==
  /\ focus = "WORKTREE" /\ WorktreeNext
  /\ UNCHANGED <<workflowVars, approvalVars, installVars, auditVars,
                 outputVars, supervisorVars, focus>>

WorkflowOnly ==
  /\ focus = "WORKFLOW" /\ WorkflowNext
  /\ UNCHANGED <<worktreeVars, approvalVars, installVars, auditVars,
                 outputVars, supervisorVars, focus>>

ApprovalOnly ==
  /\ focus = "APPROVAL" /\ ApprovalNext
  /\ UNCHANGED <<worktreeVars, workflowVars, installVars, auditVars,
                 outputVars, supervisorVars, focus>>

SkillsOnly ==
  /\ focus = "SKILLS" /\ InstallNext
  /\ UNCHANGED <<worktreeVars, workflowVars, approvalVars, auditVars,
                 outputVars, supervisorVars, focus>>

AuditOnly ==
  /\ focus = "AUDIT" /\ AuditNext
  /\ UNCHANGED <<worktreeVars, workflowVars, approvalVars, installVars,
                 outputVars, supervisorVars, focus>>

OutputOnly ==
  /\ \/ focus = "PAGES" /\ UNCHANGED tail
     \/ focus = "TAIL" /\ UNCHANGED reader
  /\ OutputNext
  /\ UNCHANGED <<worktreeVars, workflowVars, approvalVars, installVars,
                 auditVars, supervisorVars, focus>>

SupervisorOnly ==
  /\ focus = "SUPERVISOR" /\ SupervisorNext
  /\ UNCHANGED <<worktreeVars, workflowVars, approvalVars, installVars,
                 auditVars, outputVars, focus>>

ServicesNext ==
  \/ WorktreeOnly \/ WorkflowOnly \/ ApprovalOnly \/ SkillsOnly \/ AuditOnly
  \/ OutputOnly \/ SupervisorOnly

ServicesSpec == ServicesInit /\ [][ServicesNext]_servicesVars

\* The states of the services are of their types.
ServicesTypeOK ==
  /\ WorktreeTypeOK /\ WorkflowTypeOK /\ ApprovalTypeOK /\ InstallTypeOK
  /\ AuditTypeOK /\ OutputTypeOK /\ SupervisorTypeOK
=============================================================================
