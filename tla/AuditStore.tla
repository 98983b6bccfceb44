------------------------------ MODULE AuditStore ------------------------------
(* The audit log of one Task (AuditService) in the durable store              *)
(* (StateStore): a legacy JSON file, and the SQLite document that takes over  *)
(* from it.  Processes open the store, import the file, append inside a       *)
(* transaction and answer audit.get; the cutover command imports, compares    *)
(* and marks the import as verified.  Any of them may end between two steps.  *)
EXTENDS Naturals, Sequences, FiniteSets

CONSTANTS
  Processes,    \* AgentDock processes over one state directory
  NoProcess,
  NoDoc,        \* no file, or no row, for this Task
  MaxEntries,   \* audit.max_entries_per_task
  PageLimits,   \* limit of audit.get
  AppendBound,  \* bound of the model: calls of append
  StoreFaults   \* "CRASH": a process ends; "ERROR": a transaction fails

Entries == [sequence : 1..AppendBound, by : 1..AppendBound]
Logs == [next : 1..(AppendBound + 1), entries : Seq(Entries)]

ASSUME AuditAssumption ==
  /\ NoProcess \notin Processes /\ NoDoc \notin Logs
  /\ MaxEntries \in Nat \ {0} /\ AppendBound \in Nat
  /\ PageLimits \subseteq Nat \ {0}
  /\ StoreFaults \subseteq {"CRASH", "ERROR"}

VARIABLES
  file,      \* audits/<task>.json
  row,       \* the committed row of state_documents
  dbExists,  \* agentdock.db is on the disk
  marker,    \* legacy_import_v1 is verified
  lockedBy,  \* who holds SQLite's write lock
  job,       \* per process: its backend, or the cutover command
  place,     \* where it is
  draft,     \* per process: what its transaction will write
  existed,   \* per process: databaseExisted of its cutover
  appends,   \* calls of append so far; each entry carries its number
  cursor,    \* a client of audit.get: the last sequence it was answered,
  got,       \* the entries it received,
  told,      \* and the sequences it was told are gone
  acked      \* history: entries returned by append

diskVars == <<file, row, dbExists, marker>>
processVars == <<job, place, draft, existed>>
clientVars == <<cursor, got, told>>
auditVars == <<diskVars, lockedBy, processVars, appends, clientVars, acked>>

Numbers == 0..AppendBound
Documents == Logs \union {NoDoc}

AuditTypeOK ==
  /\ file \in Documents /\ row \in Documents
  /\ draft \in [Processes -> Documents]
  /\ dbExists \in BOOLEAN /\ marker \in BOOLEAN
  /\ lockedBy \in Processes \union {NoProcess}
  /\ job \in [Processes -> {"NONE", "JSON", "SQLITE", "CUTOVER"}]
  /\ place \in [Processes ->
       {"DOWN", "BACKUP", "OPENED", "IMPORT", "IDLE", "APPEND", "REPORT"}]
  /\ existed \in [Processes -> BOOLEAN]
  /\ appends \in Numbers /\ cursor \in Numbers
  /\ got \subseteq Entries /\ acked \subseteq Entries
  /\ told \subseteq 1..AppendBound

AuditInit ==
  /\ file = NoDoc /\ row = NoDoc /\ dbExists = FALSE /\ marker = FALSE
  /\ lockedBy = NoProcess
  /\ job = [p \in Processes |-> "NONE"]
  /\ place = [p \in Processes |-> "DOWN"]
  /\ draft = [p \in Processes |-> NoDoc]
  /\ existed = [p \in Processes |-> FALSE]
  /\ appends = 0
  /\ cursor = 0 /\ got = {} /\ told = {}
  /\ acked = {}

-----------------------------------------------------------------------------
\* The document

EmptyLog == [next |-> 1, entries |-> <<>>]
Loaded(d) == IF d = NoDoc THEN EmptyLog ELSE d
Stored(p) == IF job[p] = "JSON" THEN file ELSE row

\* The mutator of append, on a private copy.
Appended(d, n) ==
  LET longer == Append(d.entries, [sequence |-> d.next, by |-> n])
      surplus == IF Len(longer) > MaxEntries THEN Len(longer) - MaxEntries ELSE 0
  IN [next |-> d.next + 1, entries |-> SubSeq(longer, surplus + 1, Len(longer))]

RetainedFrom(d) == IF d.entries # <<>> THEN d.entries[1].sequence ELSE d.next

\* Mutant: one sequence lost is not told.
TruncatedLate(d, after) == RetainedFrom(d) > 1 /\ after < RetainedFrom(d) - 2

Truncated(d, after) == RetainedFrom(d) > 1 /\ after < RetainedFrom(d) - 1

-----------------------------------------------------------------------------
\* Processes start and end

MoveTo(p, from, to) == place[p] = from /\ place' = [place EXCEPT ![p] = to]
Lock(p) == lockedBy = NoProcess /\ lockedBy' = p
Unlock(p) == lockedBy' = IF lockedBy = p THEN NoProcess ELSE lockedBy
OthersAreDown(p) == \A q \in Processes \ {p} : place[q] = "DOWN"

\* The documented rule that JSON is not a second writer, which the code leaves
\* to the operator: a JSON process runs alone, and only before there is a
\* database.
OpenJson(p) ==
  /\ OthersAreDown(p) /\ ~dbExists
  /\ MoveTo(p, "DOWN", "IDLE")
  /\ job' = [job EXCEPT ![p] = "JSON"]
  /\ UNCHANGED <<diskVars, lockedBy, draft, existed, appends, clientVars, acked>>

OpenSqlite(p) ==
  /\ \A q \in Processes : job[q] # "JSON"
  /\ MoveTo(p, "DOWN", IF marker THEN "IDLE" ELSE "OPENED")
  /\ job' = [job EXCEPT ![p] = "SQLITE"]
  /\ dbExists' = TRUE
  /\ UNCHANGED <<file, row, marker, lockedBy, draft, existed, appends,
                 clientVars, acked>>

\* A stop, a kill or a crash: SQLite rolls an open transaction back, and a JSON
\* write that did not rename leaves only its temporary file.
Exit(p) ==
  /\ place[p] # "DOWN"
  /\ place[p] # "IDLE" => "CRASH" \in StoreFaults
  /\ place' = [place EXCEPT ![p] = "DOWN"]
  /\ job' = [job EXCEPT ![p] = "NONE"]
  /\ draft' = [draft EXCEPT ![p] = NoDoc]
  /\ existed' = [existed EXCEPT ![p] = FALSE]
  /\ Unlock(p)
  /\ UNCHANGED <<diskVars, appends, clientVars, acked>>

-----------------------------------------------------------------------------
\* Transactions

\* Mutant: INSERT OR REPLACE.
ImportReplacing(p) ==
  /\ MoveTo(p, "OPENED", "IMPORT")
  /\ Lock(p)
  /\ draft' = [draft EXCEPT ![p] = IF file # NoDoc THEN file ELSE row]
  /\ UNCHANGED <<diskVars, job, existed, appends, clientVars, acked>>

\* BEGIN IMMEDIATE, then INSERT OR IGNORE of the file.
BeginImport(p) ==
  /\ MoveTo(p, "OPENED", "IMPORT")
  /\ Lock(p)
  /\ draft' = [draft EXCEPT ![p] = IF row # NoDoc THEN row ELSE file]
  /\ UNCHANGED <<diskVars, job, existed, appends, clientVars, acked>>

CommitImport(p) ==
  /\ MoveTo(p, "IMPORT", IF job[p] = "CUTOVER" THEN "REPORT" ELSE "IDLE")
  /\ row' = draft[p]
  /\ draft' = [draft EXCEPT ![p] = NoDoc]
  /\ Unlock(p)
  /\ UNCHANGED <<file, dbExists, marker, job, existed, appends, clientVars, acked>>

\* Under JSON there is no lock: the file is read, and replaced by a rename.
BeginAppend(p) ==
  /\ appends < AppendBound
  /\ MoveTo(p, "IDLE", "APPEND")
  /\ IF job[p] = "SQLITE" THEN Lock(p) ELSE UNCHANGED lockedBy
  /\ appends' = appends + 1
  /\ draft' = [draft EXCEPT ![p] = Appended(Loaded(Stored(p)), appends')]
  /\ UNCHANGED <<diskVars, job, existed, clientVars, acked>>

CommitAppend(p) ==
  /\ MoveTo(p, "APPEND", "IDLE")
  /\ IF job[p] = "SQLITE"
       THEN row' = draft[p] /\ UNCHANGED file
       ELSE file' = draft[p] /\ UNCHANGED row
  /\ acked' = acked \union {draft[p].entries[Len(draft[p].entries)]}
  /\ draft' = [draft EXCEPT ![p] = NoDoc]
  /\ Unlock(p)
  /\ UNCHANGED <<dbExists, marker, job, existed, appends, clientVars>>

\* ROLLBACK; the append reports the error.  (An import that fails ends the
\* process: Exit.)
FailAppend(p) ==
  /\ "ERROR" \in StoreFaults
  /\ MoveTo(p, "APPEND", "IDLE")
  /\ draft' = [draft EXCEPT ![p] = NoDoc]
  /\ Unlock(p)
  /\ UNCHANGED <<diskVars, job, existed, appends, clientVars, acked>>

-----------------------------------------------------------------------------
\* audit.get: a client walks the log page by page from sequence 0, through
\* whichever process answers.

\* The places of the entries after the cursor, and of the first limit of them.
News(d, after) == {i \in DOMAIN d.entries : d.entries[i].sequence > after}

Page(d, after, limit) ==
  {i \in News(d, after) :
     Cardinality({j \in News(d, after) : j <= i}) <= limit}

NextSequence(d, page) ==
  IF page = {} THEN d.next
  ELSE d.entries[CHOOSE i \in page : \A j \in page : j <= i].sequence + 1

GetPage(p, limit) ==
  LET log == Loaded(Stored(p))
      page == Page(log, cursor, limit)
  IN /\ place[p] = "IDLE"
     /\ got' = got \union {log.entries[i] : i \in page}
     /\ told' = told \union
          (IF Truncated(log, cursor) THEN (cursor + 1)..(RetainedFrom(log) - 1)
                                     ELSE {})
     /\ cursor' = NextSequence(log, page) - 1
     /\ UNCHANGED <<diskVars, lockedBy, processVars, appends, acked>>

-----------------------------------------------------------------------------
\* The cutover command.  Its checks see every process that has the database
\* open, and the operator stops the others; a database without the marker needs
\* the operator's word that it is the authority.

StartCutover(p) ==
  /\ OthersAreDown(p)
  /\ MoveTo(p, "DOWN", "BACKUP")
  /\ job' = [job EXCEPT ![p] = "CUTOVER"]
  /\ existed' = [existed EXCEPT ![p] = dbExists]
  /\ UNCHANGED <<diskVars, lockedBy, draft, appends, clientVars, acked>>

\* The second check, after the backup; a first cutover imports, a later one
\* takes the database as the authority.
OpenCutover(p) ==
  /\ OthersAreDown(p)
  /\ MoveTo(p, "BACKUP", IF existed[p] THEN "REPORT" ELSE "OPENED")
  /\ dbExists' = TRUE
  /\ UNCHANGED <<file, row, marker, lockedBy, job, draft, existed, appends,
                 clientVars, acked>>

\* legacyImportReport: the identity is in the database, and after a first
\* import so is the content.
Accepted(p) ==
  file # NoDoc => row # NoDoc /\ (~existed[p] => row = file)

\* The marker is one more write, and needs the lock.
ReportCutover(p) ==
  /\ Accepted(p) => lockedBy = NoProcess
  /\ MoveTo(p, "REPORT", "DOWN")
  /\ marker' = (marker \/ Accepted(p))
  /\ job' = [job EXCEPT ![p] = "NONE"]
  /\ existed' = [existed EXCEPT ![p] = FALSE]
  /\ UNCHANGED <<file, row, dbExists, lockedBy, draft, appends, clientVars, acked>>

AuditNext ==
  \E p \in Processes :
    \/ OpenJson(p) \/ OpenSqlite(p) \/ Exit(p)
    \/ BeginImport(p) \/ CommitImport(p)
    \/ BeginAppend(p) \/ CommitAppend(p) \/ FailAppend(p)
    \/ \E limit \in PageLimits : GetPage(p, limit)
    \/ StartCutover(p) \/ OpenCutover(p) \/ ReportCutover(p)

AuditSpec == AuditInit /\ [][AuditNext]_auditVars

-----------------------------------------------------------------------------
\* Properties

\* The document the next reader is answered from.
Authority == Loaded(IF row # NoDoc THEN row ELSE file)

\* A client that follows next_sequence page by page, while processes append,
\* stop and move from JSON to SQLite, has received every entry up to its
\* cursor, or truncated_before_sequence told it which are gone.
ReadersMissNothing ==
  \A s \in 1..cursor :
    s \in told \/ \E e \in got \intersect acked : e.sequence = s

\* Whichever backend holds the log, it changes only as AuditContract lets it:
\* opening, importing, comparing, marking and crashing leave it as it was.
Contract == INSTANCE AuditContract WITH
  Facts <- 1..AppendBound,
  count <- Authority.next - 1,
  kept <- [i \in DOMAIN Authority.entries |-> Authority.entries[i].by]

KeepsAuditContract == Contract!Spec

=============================================================================
