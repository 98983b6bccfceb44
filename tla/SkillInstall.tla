---------------------------- MODULE SkillInstall ----------------------------
(* SkillService.install and update of one source: the clone, the swap of the  *)
(* directory, the metadata file, the rollback, and what is left on the disk   *)
(* when a process ends in between.  A directory is the commit it was cloned   *)
(* at; NoTree where there is none; PartTree where a removal failed or was cut *)
(* short and left some of its files.                                          *)
EXTENDS Naturals

CONSTANTS
  Installs,      \* skill.install and skill.update calls in flight at a time
  SkillCommits,  \* what a clone may find
  NoTree,        \* no directory, no metadata
  PartTree,      \* a directory without some of its files
  InstallFaults  \* "CRASH": a process ends; "ERROR": an operation fails;
                 \* "DROP": the removal of a backup fails

ASSUME InstallAssumption ==
  /\ Installs # {}
  /\ NoTree \notin SkillCommits /\ PartTree \notin SkillCommits
  /\ NoTree # PartTree
  /\ InstallFaults \subseteq {"CRASH", "ERROR", "DROP"}

VARIABLES
  source,     \* the directory of the source
  metadata,   \* the commit in its metadata file
  staging,    \* per call: its clone
  backup,     \* per call: the previous source
  strays,     \* staging and backup directories nobody will look at again
  at,         \* where a call is
  had,        \* per call: hadTarget
  swapped,    \* per call: targetSwapped
  clone,      \* per call: the commit of the metadata it will write
  crashed,    \* history: a process ended during an install
  stuck,      \* history: a rollback or a clean-up could not be carried out
  undone      \* history: an install was undone after its metadata was durable

dirVars == <<source, metadata, staging, backup, strays>>
localVars == <<had, swapped, clone>>
historyVars == <<crashed, stuck, undone>>
installVars == <<dirVars, at, localVars, historyVars>>

Trees == SkillCommits \union {NoTree, PartTree}
InstallPlaces ==
  {"NONE", "CLONE", "LOOK", "BACKUP", "SWAP", "METADATA", "DROP",
   "ROLLBACK", "RESTORE", "FINALLY"}

InstallTypeOK ==
  /\ source \in Trees /\ metadata \in SkillCommits \union {NoTree}
  /\ staging \in [Installs -> Trees] /\ backup \in [Installs -> Trees]
  /\ strays \subseteq SkillCommits \union {PartTree}
  /\ at \in [Installs -> InstallPlaces]
  /\ had \in [Installs -> BOOLEAN] /\ swapped \in [Installs -> BOOLEAN]
  /\ clone \in [Installs -> SkillCommits \union {NoTree}]
  /\ crashed \in BOOLEAN /\ stuck \in BOOLEAN /\ undone \in BOOLEAN

InstallInit ==
  /\ source = NoTree /\ metadata = NoTree
  /\ staging = [i \in Installs |-> NoTree]
  /\ backup = [i \in Installs |-> NoTree]
  /\ strays = {}
  /\ at = [i \in Installs |-> "NONE"]
  /\ had = [i \in Installs |-> FALSE]
  /\ swapped = [i \in Installs |-> FALSE]
  /\ clone = [i \in Installs |-> NoTree]
  /\ crashed = FALSE /\ stuck = FALSE /\ undone = FALSE

\* What a removal leaves that fails or is cut short.
Left(tree) == IF tree = NoTree THEN {NoTree} ELSE {tree, PartTree}

Step(i, from, to) == at[i] = from /\ at' = [at EXCEPT ![i] = to]

-----------------------------------------------------------------------------
\* install, of a new source or with replace; update needs the metadata.
BeginInstall(i, replace) ==
  /\ source = NoTree \/ replace
  /\ Step(i, "NONE", "CLONE")
  /\ had' = [had EXCEPT ![i] = FALSE]
  /\ swapped' = [swapped EXCEPT ![i] = FALSE]
  /\ UNCHANGED <<dirVars, clone, historyVars>>

BeginUpdate(i) == metadata # NoTree /\ BeginInstall(i, TRUE)

\* A clone without a SKILL.md ends the call.
Clone(i) ==
  /\ \E c \in SkillCommits :
       /\ staging' = [staging EXCEPT ![i] = c]
       /\ clone' = [clone EXCEPT ![i] = c]
  /\ Step(i, "CLONE", "LOOK") \/ Step(i, "CLONE", "FINALLY")
  /\ UNCHANGED <<source, metadata, backup, strays, had, swapped, historyVars>>

LookForTarget(i) ==
  /\ Step(i, "LOOK", IF source = NoTree THEN "SWAP" ELSE "BACKUP")
  /\ had' = [had EXCEPT ![i] = source # NoTree]
  /\ UNCHANGED <<dirVars, swapped, clone, historyVars>>

\* Mutant: the old source is removed instead of kept as a backup.
BackupRemoving(i) ==
  /\ Step(i, "BACKUP", "SWAP")
  /\ source' = NoTree
  /\ UNCHANGED <<metadata, staging, backup, strays, localVars, historyVars>>

\* rename(target, backup); somebody else may have taken the target.
Backup(i) ==
  /\ IF source = NoTree
     THEN Step(i, "BACKUP", "FINALLY") /\ UNCHANGED dirVars
     ELSE /\ Step(i, "BACKUP", "SWAP")
          /\ backup' = [backup EXCEPT ![i] = source]
          /\ source' = NoTree
          /\ UNCHANGED <<metadata, staging, strays>>
  /\ UNCHANGED <<localVars, historyVars>>

\* rename(staging, target) does not replace a directory with files.
Swap(i) ==
  /\ IF source = NoTree
     THEN /\ Step(i, "SWAP", "METADATA")
          /\ source' = staging[i]
          /\ staging' = [staging EXCEPT ![i] = NoTree]
          /\ swapped' = [swapped EXCEPT ![i] = TRUE]
          /\ UNCHANGED <<metadata, backup, strays>>
     ELSE Step(i, "SWAP", "ROLLBACK") /\ UNCHANGED <<dirVars, swapped>>
  /\ UNCHANGED <<had, clone, historyVars>>

\* atomicJsonWrite
WriteMetadata(i) ==
  /\ Step(i, "METADATA", "DROP")
  /\ metadata' = clone[i]
  /\ undone' = FALSE
  /\ UNCHANGED <<source, staging, backup, strays, localVars, crashed, stuck>>

DropBackup(i) ==
  /\ Step(i, "DROP", "FINALLY")
  /\ backup' = [backup EXCEPT ![i] = NoTree]
  /\ UNCHANGED <<source, metadata, staging, strays, localVars, historyVars>>

\* Mutant: the rollback leaves the tree whose metadata was not written.
RollbackKeeping(i) ==
  /\ Step(i, "ROLLBACK", "RESTORE")
  /\ UNCHANGED <<dirVars, localVars, historyVars>>

\* The rollback removes whatever is at the target once this call swapped ...
Rollback(i) ==
  /\ Step(i, "ROLLBACK", "RESTORE")
  /\ source' = IF swapped[i] THEN NoTree ELSE source
  /\ UNCHANGED <<metadata, staging, backup, strays, localVars, historyVars>>

\* ... and moves the backup back, unless something is there.
Restore(i) ==
  /\ Step(i, "RESTORE", "FINALLY")
  /\ IF had[i] /\ backup[i] # NoTree /\ source = NoTree
     THEN source' = backup[i] /\ backup' = [backup EXCEPT ![i] = NoTree]
     ELSE UNCHANGED <<source, backup>>
  /\ UNCHANGED <<metadata, staging, strays, localVars, historyVars>>

\* The staging directory goes; a backup that is still there stays.
Finally(i) ==
  /\ Step(i, "FINALLY", "NONE")
  /\ staging' = [staging EXCEPT ![i] = NoTree]
  /\ strays' = strays \union ({backup[i]} \ {NoTree})
  /\ backup' = [backup EXCEPT ![i] = NoTree]
  /\ UNCHANGED <<source, metadata, localVars, historyVars>>

-----------------------------------------------------------------------------
\* The clone, a rename or the write fails, with nothing done.
OperationFails(i) ==
  /\ "ERROR" \in InstallFaults
  /\ \/ Step(i, "CLONE", "FINALLY")
     \/ Step(i, "BACKUP", "FINALLY")
     \/ Step(i, "SWAP", "ROLLBACK")
     \/ Step(i, "METADATA", "ROLLBACK")
  /\ UNCHANGED <<dirVars, localVars, historyVars>>

\* The removal of the backup is in the try of the swap: as it fails, the new
\* tree is rolled back although its metadata is durable.
DropFails(i) ==
  /\ "DROP" \in InstallFaults
  /\ Step(i, "DROP", "ROLLBACK")
  /\ backup[i] # NoTree
  /\ \E rest \in Left(backup[i]) : backup' = [backup EXCEPT ![i] = rest]
  /\ undone' = TRUE
  /\ UNCHANGED <<source, metadata, staging, strays, localVars, crashed, stuck>>

\* Errors of the rollback's removal and rename are swallowed.
RollbackFails(i) ==
  /\ "ERROR" \in InstallFaults
  /\ \/ Step(i, "ROLLBACK", "RESTORE") /\ swapped[i] /\ source' \in Left(source)
     \/ Step(i, "RESTORE", "FINALLY") /\ had[i] /\ UNCHANGED source
  /\ stuck' = TRUE
  /\ UNCHANGED <<metadata, staging, backup, strays, localVars, crashed, undone>>

\* The staging directory cannot be removed.
FinallyFails(i) ==
  /\ "ERROR" \in InstallFaults
  /\ Step(i, "FINALLY", "NONE")
  /\ \E rest \in Left(staging[i]) :
       strays' = strays \union ({rest, backup[i]} \ {NoTree})
  /\ staging' = [staging EXCEPT ![i] = NoTree]
  /\ backup' = [backup EXCEPT ![i] = NoTree]
  /\ stuck' = TRUE
  /\ UNCHANGED <<source, metadata, localVars, crashed, undone>>

CrashInstall(i) ==
  /\ "CRASH" \in InstallFaults
  /\ at[i] # "NONE"
  /\ at' = [at EXCEPT ![i] = "NONE"]
  /\ crashed' = TRUE
  /\ source' \in IF at[i] = "ROLLBACK" /\ swapped[i] THEN Left(source)
                 ELSE {source}
  /\ \E clones \in Left(staging[i]),
        rest \in IF at[i] = "DROP" THEN Left(backup[i]) ELSE {backup[i]} :
       strays' = strays \union ({clones, rest} \ {NoTree})
  /\ staging' = [staging EXCEPT ![i] = NoTree]
  /\ backup' = [backup EXCEPT ![i] = NoTree]
  /\ UNCHANGED <<metadata, localVars, stuck, undone>>

InstallNext ==
  \E i \in Installs :
    \/ \E replace \in BOOLEAN : BeginInstall(i, replace)
    \/ BeginUpdate(i) \/ Clone(i) \/ LookForTarget(i) \/ Backup(i) \/ Swap(i)
    \/ WriteMetadata(i) \/ DropBackup(i) \/ Rollback(i) \/ Restore(i)
    \/ Finally(i) \/ OperationFails(i) \/ DropFails(i) \/ RollbackFails(i)
    \/ FinallyFails(i) \/ CrashInstall(i)

InstallSpec == InstallInit /\ [][InstallNext]_installVars

-----------------------------------------------------------------------------
(* Properties                                                                *)

\* The tree and its provenance form one managed unit: a whole tree of the
\* commit that the metadata names is on the disk, as the source or as a backup
\* (the comment at skill-service.js:635, install).
ProvenanceOnDisk ==
  metadata # NoTree =>
    \/ source = metadata
    \/ metadata \in strays
    \/ \E i \in Installs : backup[i] = metadata

\* That holds wherever the process ends, and whatever fails of a clone, a
\* rename, the write, the rollback and the clean-up; unless an install was
\* undone after its metadata was durable, and then it holds again from the next
\* write of the metadata (install).
ProvenanceIsKept == ~undone => ProvenanceOnDisk

\* After an install that succeeded, or failed and could be rolled back, the
\* source is the one the metadata names and nothing else is left in the
\* directory; with the same proviso.
InstallsAreWhole ==
  ~crashed /\ ~stuck /\ ~undone /\ (\A i \in Installs : at[i] = "NONE") =>
    source = metadata /\ strays = {}
=============================================================================
