--------------------------- MODULE ServicesProofs ---------------------------
(* Proofs about SkillInstall when the installs of a source do not overlap (a  *)
(* crash anywhere leaves a tree of the recorded commit on the disk, and an    *)
(* install that fails is undone, except for one that is undone too late), and *)
(* about the services that TLC explores together: such a behaviour is, for    *)
(* each of them, a behaviour of its own specification, so that what is proved *)
(* of a service holds there.                                                  *)
EXTENDS MCServices, TaskProofs, AuditStoreProofs, RunOutputProofs,
        SupervisorProofs

-----------------------------------------------------------------------------
(* SkillInstall                                                              *)

\* One skill.install or skill.update of the source at a time.
OneInstall == \A i, j \in Installs : i = j

-----------------------------------------------------------------------------
LEMMA InstallTypeStep ==
  InstallTypeOK /\ [InstallNext]_installVars => InstallTypeOK'
<1> SUFFICES ASSUME InstallTypeOK, [InstallNext]_installVars
             PROVE  InstallTypeOK'
  OBVIOUS
<1> USE DEF InstallTypeOK, Trees, InstallPlaces, Step, Left, dirVars, localVars,
            historyVars
<1>1. CASE UNCHANGED installVars
  BY <1>1 DEF installVars
<1>2. ASSUME NEW i \in Installs, NEW replace \in BOOLEAN,
             BeginInstall(i, replace)
      PROVE InstallTypeOK'
  BY <1>2 DEF BeginInstall
<1>3. ASSUME NEW i \in Installs, BeginUpdate(i)
      PROVE InstallTypeOK'
  BY <1>2, <1>3 DEF BeginUpdate
<1>3a. ASSUME NEW i \in Installs, Clone(i)
       PROVE InstallTypeOK'
  BY <1>3a DEF Clone
<1>4. ASSUME NEW i \in Installs, LookForTarget(i)
      PROVE InstallTypeOK'
  <2>1. (source # NoTree) \in BOOLEAN
    OBVIOUS
  <2>2. QED
    BY <1>4, <2>1 DEF LookForTarget
<1>5. ASSUME NEW i \in Installs, Backup(i) \/ Swap(i)
      PROVE InstallTypeOK'
  BY <1>5 DEF Backup, Swap
<1>6. ASSUME NEW i \in Installs, WriteMetadata(i) \/ DropBackup(i)
      PROVE InstallTypeOK'
  BY <1>6 DEF WriteMetadata, DropBackup
<1>7. ASSUME NEW i \in Installs, Rollback(i) \/ Restore(i) \/ Finally(i)
      PROVE InstallTypeOK'
  BY <1>7 DEF Rollback, Restore, Finally
<1>8. ASSUME NEW i \in Installs, OperationFails(i) \/ DropFails(i)
      PROVE InstallTypeOK'
  BY <1>8 DEF OperationFails, DropFails
<1>9. ASSUME NEW i \in Installs, RollbackFails(i) \/ FinallyFails(i)
      PROVE InstallTypeOK'
  <2>1. Left(source) \subseteq Trees
    OBVIOUS
  <2>2. CASE RollbackFails(i)
    BY <2>1, <2>2 DEF RollbackFails
  <2>3. CASE FinallyFails(i)
    BY <2>3 DEF FinallyFails
  <2>4. QED
    BY <1>9, <2>2, <2>3
<1>10. ASSUME NEW i \in Installs, CrashInstall(i)
       PROVE InstallTypeOK'
  BY <1>10 DEF CrashInstall
<1>11. QED
  BY <1>1, <1>2, <1>3, <1>3a, <1>4, <1>5, <1>6, <1>7, <1>8, <1>9, <1>10
     DEF InstallNext

\* The variables of SkillInstall keep their types, overlapping calls included.
THEOREM InstallTypeCorrect == InstallSpec => []InstallTypeOK
<1>1. InstallInit => InstallTypeOK
  BY DEF InstallInit, InstallTypeOK, Trees, InstallPlaces
<1>2. QED
  BY <1>1, InstallTypeStep, PTL DEF InstallSpec

-----------------------------------------------------------------------------
(* Provenance.  The recorded tree is the source until Backup moves it; from   *)
(* then until the new metadata is written it must be somewhere other than the *)
(* place the swap and the rollback work on.                                   *)

SafeAway ==
  ~undone /\ metadata # NoTree =>
    metadata \in strays \/ \E i \in Installs : backup[i] = metadata

KeptAt(i) ==
  /\ at[i] \in {"NONE", "CLONE", "LOOK", "BACKUP"} => backup[i] = NoTree
  /\ at[i] \in {"CLONE", "LOOK", "BACKUP", "SWAP"} => ~swapped[i]
  /\ at[i] \in {"LOOK", "BACKUP", "SWAP"} => staging[i] = clone[i]
  /\ at[i] = "SWAP" => source = NoTree
  /\ at[i] = "METADATA" => source = clone[i] /\ SafeAway
  /\ at[i] = "ROLLBACK" /\ swapped[i] => SafeAway
  /\ at[i] = "DROP" => source = metadata

KeptInv == ProvenanceIsKept /\ \A i \in Installs : KeptAt(i)

LEMMA KeptStep ==
  ASSUME OneInstall
  PROVE  InstallTypeOK /\ KeptInv /\ [InstallNext]_installVars => KeptInv'
<1> SUFFICES ASSUME InstallTypeOK, KeptInv, [InstallNext]_installVars
             PROVE  KeptInv'
  OBVIOUS
<1> USE OneInstall
        DEF KeptInv, KeptAt, SafeAway, ProvenanceIsKept, OneInstall,
            InstallTypeOK, Trees, Step, Left, dirVars, localVars, historyVars,
            ProvenanceOnDisk
<1>1. CASE UNCHANGED installVars
  BY <1>1 DEF installVars
<1>2. ASSUME NEW i \in Installs, NEW replace \in BOOLEAN,
             BeginInstall(i, replace)
      PROVE KeptInv'
  BY <1>2 DEF BeginInstall
<1>3. ASSUME NEW i \in Installs, BeginUpdate(i)
      PROVE KeptInv'
  BY <1>2, <1>3 DEF BeginUpdate
<1>4. ASSUME NEW i \in Installs, Clone(i) \/ LookForTarget(i)
      PROVE KeptInv'
  BY <1>4 DEF Clone, LookForTarget
<1>5. ASSUME NEW i \in Installs, Backup(i)
      PROVE KeptInv'
  BY <1>5 DEF Backup
<1>6. ASSUME NEW i \in Installs, Swap(i)
      PROVE KeptInv'
  BY <1>6 DEF Swap
<1>7. ASSUME NEW i \in Installs, WriteMetadata(i) \/ DropBackup(i)
      PROVE KeptInv'
  BY <1>7 DEF WriteMetadata, DropBackup
<1>8. ASSUME NEW i \in Installs, Rollback(i)
      PROVE KeptInv'
  BY <1>8 DEF Rollback
<1>9. ASSUME NEW i \in Installs, Restore(i) \/ Finally(i)
      PROVE KeptInv'
  BY <1>9 DEF Restore, Finally
<1>10. ASSUME NEW i \in Installs, OperationFails(i) \/ DropFails(i)
       PROVE KeptInv'
  BY <1>10 DEF OperationFails, DropFails
<1>10a. ASSUME NEW i \in Installs, RollbackFails(i) \/ FinallyFails(i)
        PROVE KeptInv'
  BY <1>10a DEF RollbackFails, FinallyFails
<1>11. ASSUME NEW i \in Installs, CrashInstall(i)
       PROVE KeptInv'
  BY <1>11 DEF CrashInstall
<1>12. QED
  BY <1>1, <1>2, <1>3, <1>4, <1>5, <1>6, <1>7, <1>8, <1>9, <1>10, <1>10a,
     <1>11 DEF InstallNext

\* If the installs of the source do not overlap (nothing in the code sees to
\* that, and two that do may lose the tree of the recorded commit): wherever the
\* process ends and whatever fails, a tree of the commit in the metadata is on
\* the disk, unless an install was undone after its metadata was durable
\* because its backup could not be removed; and again from its next write.
THEOREM ProvenanceCorrect ==
  ASSUME OneInstall
  PROVE  InstallSpec => []ProvenanceIsKept
<1>1. InstallInit => InstallTypeOK /\ KeptInv
  BY DEF InstallInit, InstallTypeOK, Trees, InstallPlaces, KeptInv, KeptAt,
         SafeAway, ProvenanceIsKept, ProvenanceOnDisk
<1>2. KeptInv => ProvenanceIsKept
  BY DEF KeptInv
<1>3. InstallTypeOK /\ KeptInv /\ [InstallNext]_installVars => KeptInv'
  BY KeptStep
<1>4. QED
  BY <1>1, <1>2, <1>3, InstallTypeStep, PTL DEF InstallSpec

-----------------------------------------------------------------------------
(* Wholeness.  Before the first crash nothing is astray, and what is at the   *)
(* source and in the backup is known at each place of the call.               *)

\* The previous source, if there was one, is in the backup; it is the recorded
\* one, unless an install was undone too late.
InBackup(i) ==
  /\ had[i] <=> backup[i] # NoTree
  /\ ~undone => metadata = backup[i]

WholeAt(i) ==
  /\ at[i] \in {"NONE", "CLONE", "LOOK", "BACKUP", "FINALLY"} =>
       backup[i] = NoTree /\ (~undone => source = metadata)
  /\ at[i] = "BACKUP" => had[i] /\ source # NoTree
  /\ at[i] \in {"CLONE", "LOOK", "BACKUP", "SWAP"} => ~swapped[i]
  /\ at[i] \in {"LOOK", "BACKUP", "SWAP"} => staging[i] = clone[i]
  /\ at[i] = "SWAP" => source = NoTree /\ InBackup(i)
  /\ at[i] = "METADATA" => source = clone[i] /\ swapped[i] /\ InBackup(i)
  /\ at[i] = "DROP" => /\ source = metadata /\ swapped[i]
                       /\ had[i] <=> backup[i] # NoTree
  /\ at[i] = "ROLLBACK" => (swapped[i] \/ source = NoTree) /\ InBackup(i)
  /\ at[i] = "RESTORE" => source = NoTree /\ InBackup(i)

WholeInv == ~crashed /\ ~stuck => strays = {} /\ \A i \in Installs : WholeAt(i)

LEMMA WholeStep ==
  ASSUME OneInstall
  PROVE  InstallTypeOK /\ WholeInv /\ [InstallNext]_installVars => WholeInv'
<1> SUFFICES ASSUME InstallTypeOK, WholeInv, [InstallNext]_installVars
             PROVE  WholeInv'
  OBVIOUS
<1> USE OneInstall
        DEF WholeInv, WholeAt, InBackup, OneInstall, InstallTypeOK, Step,
            Left, dirVars, localVars, historyVars
<1>1. CASE UNCHANGED installVars
  BY <1>1 DEF installVars
<1>2. ASSUME NEW i \in Installs, NEW replace \in BOOLEAN,
             BeginInstall(i, replace)
      PROVE WholeInv'
  BY <1>2 DEF BeginInstall
<1>3. ASSUME NEW i \in Installs, BeginUpdate(i)
      PROVE WholeInv'
  BY <1>2, <1>3 DEF BeginUpdate
<1>4. ASSUME NEW i \in Installs, Clone(i)
      PROVE WholeInv'
  BY <1>4 DEF Clone
<1>4a. ASSUME NEW i \in Installs, LookForTarget(i)
       PROVE WholeInv'
  <2>1. CASE source = NoTree
    BY <1>4a, <2>1 DEF LookForTarget
  <2>2. CASE source # NoTree
    BY <1>4a, <2>2 DEF LookForTarget
  <2>3. QED
    BY <2>1, <2>2
<1>5. ASSUME NEW i \in Installs, Backup(i)
      PROVE WholeInv'
  BY <1>5 DEF Backup
<1>6. ASSUME NEW i \in Installs, Swap(i)
      PROVE WholeInv'
  BY <1>6 DEF Swap
<1>7. ASSUME NEW i \in Installs, WriteMetadata(i) \/ DropBackup(i)
      PROVE WholeInv'
  BY <1>7 DEF WriteMetadata, DropBackup
<1>8. ASSUME NEW i \in Installs, Rollback(i) \/ Restore(i)
      PROVE WholeInv'
  BY <1>8 DEF Rollback, Restore
<1>9. ASSUME NEW i \in Installs, Finally(i)
      PROVE WholeInv'
  BY <1>9 DEF Finally
<1>10. ASSUME NEW i \in Installs, OperationFails(i) \/ DropFails(i)
       PROVE WholeInv'
  <2>1. CASE OperationFails(i)
    BY <2>1 DEF OperationFails
  <2>2. CASE DropFails(i)
    BY <2>2, InstallAssumption DEF DropFails
  <2>3. QED
    BY <1>10, <2>1, <2>2
<1>10a. ASSUME NEW i \in Installs, RollbackFails(i) \/ FinallyFails(i)
        PROVE WholeInv'
  BY <1>10a DEF RollbackFails, FinallyFails
<1>11. ASSUME NEW i \in Installs, CrashInstall(i)
       PROVE WholeInv'
  BY <1>11 DEF CrashInstall
<1>12. QED
  BY <1>1, <1>2, <1>3, <1>4, <1>4a, <1>5, <1>6, <1>7, <1>8, <1>9, <1>10, <1>10a,
     <1>11 DEF InstallNext

\* With the same assumption: as long as no process ended in an install and no
\* rollback or clean-up failed, every install that is over left the source its
\* metadata names, new or old, and no other directory; again unless one was
\* undone after its metadata was durable.
THEOREM InstallsCorrect ==
  ASSUME OneInstall
  PROVE  InstallSpec => []InstallsAreWhole
<1>1. InstallInit => InstallTypeOK /\ WholeInv
  BY DEF InstallInit, InstallTypeOK, Trees, InstallPlaces, WholeInv, WholeAt
<1>2. WholeInv => InstallsAreWhole
  BY InstallAssumption DEF WholeInv, WholeAt, InstallsAreWhole
<1>3. InstallTypeOK /\ WholeInv /\ [InstallNext]_installVars => WholeInv'
  BY WholeStep
<1>4. QED
  BY <1>1, <1>2, <1>3, InstallTypeStep, PTL DEF InstallSpec

-----------------------------------------------------------------------------
(* The services together                                                     *)

\* A step of one service leaves the others as they are.
LEMMA ServiceCases ==
  ASSUME [ServicesNext]_servicesVars
  PROVE  /\ [WorktreeNext]_worktreeVars /\ [WorkflowNext]_workflowVars
         /\ [ApprovalNext]_approvalVars /\ [InstallNext]_installVars
         /\ [AuditNext]_auditVars /\ [OutputNext]_outputVars
         /\ [SupervisorNext]_supervisorVars
<1>1. CASE WorktreeOnly
  BY <1>1 DEF WorktreeOnly
<1>2. CASE WorkflowOnly
  BY <1>2 DEF WorkflowOnly
<1>3. CASE ApprovalOnly
  BY <1>3 DEF ApprovalOnly
<1>4. CASE SkillsOnly
  BY <1>4 DEF SkillsOnly
<1>5. CASE AuditOnly
  BY <1>5 DEF AuditOnly
<1>6. CASE OutputOnly
  BY <1>6 DEF OutputOnly
<1>7. CASE SupervisorOnly
  BY <1>7 DEF SupervisorOnly
<1>8. CASE UNCHANGED servicesVars
  BY <1>8 DEF servicesVars
<1>9. QED
  BY <1>1, <1>2, <1>3, <1>4, <1>5, <1>6, <1>7, <1>8 DEF ServicesNext

\* Each service behaves as if it were alone.
THEOREM ServicesImplementEach ==
  ServicesSpec => /\ WorktreeSpec /\ WorkflowSpec /\ ApprovalSpec /\ InstallSpec
                  /\ AuditSpec /\ OutputSpec /\ SupervisorSpec
<1>1. ServicesInit => /\ WorktreeInit /\ WorkflowInit /\ ApprovalInit
                      /\ InstallInit /\ AuditInit /\ OutputInit /\ SupervisorInit
  BY DEF ServicesInit
<1>2. QED
  BY <1>1, ServiceCases, PTL
     DEF ServicesSpec, WorktreeSpec, WorkflowSpec, ApprovalSpec, InstallSpec,
         AuditSpec, OutputSpec, SupervisorSpec

\* The states of all services keep their types.
THEOREM ServicesTypeCorrect == ServicesSpec => []ServicesTypeOK
<1>1. /\ WorktreeTypeOK /\ WorkflowTypeOK /\ ApprovalTypeOK /\ InstallTypeOK
      /\ AuditTypeOK /\ OutputTypeOK /\ SupervisorTypeOK
      => ServicesTypeOK
  BY DEF ServicesTypeOK
<1>2. QED
  BY <1>1, ServicesImplementEach, WorktreeTypeCorrect, WorkflowTypeCorrect,
     ApprovalTypeCorrect, InstallTypeCorrect, AuditTypeCorrect,
     OutputTypeCorrect, SupervisorTypeCorrect, PTL
=============================================================================
