-------------------------- MODULE AuditStoreProofs --------------------------
(* Proofs about AuditStore: the type, what a reader that follows              *)
(* next_sequence is told, and that the store keeps AuditContract, for any     *)
(* processes, limits, faults and number of appends.                           *)
EXTENDS AuditStore, FiniteSetTheorems, SequenceTheorems, WellFoundedInduction,
        TLAPS

-----------------------------------------------------------------------------
\* The inductive invariant

\* Opening the database, or a verified import, has taken the file over.
Imported == file # NoDoc => row # NoDoc

Moved ==
  /\ row # NoDoc \/ marker => dbExists
  /\ marker => Imported

\* One writer at a time: JSON before there is a database, and alone; a
\* transaction with the lock.
JsonAlone(p) ==
  job[p] = "JSON" =>
    place[p] \in {"IDLE", "APPEND"} /\ ~dbExists /\ OthersAreDown(p)

SqliteServes(p) ==
  job[p] = "SQLITE" =>
    /\ dbExists /\ place[p] \in {"OPENED", "IMPORT", "IDLE", "APPEND"}
    /\ place[p] \in {"IDLE", "APPEND"} => Imported

CutoverImports(p) ==
  job[p] = "CUTOVER" =>
    /\ place[p] \in {"BACKUP", "OPENED", "IMPORT", "REPORT"}
    /\ place[p] # "BACKUP" => dbExists

Locked(p) ==
  place[p] = "IMPORT" \/ (place[p] = "APPEND" /\ job[p] # "JSON")
    => lockedBy = p

WriterInv ==
  /\ Moved
  /\ \A p \in Processes :
       /\ job[p] = "NONE" <=> place[p] = "DOWN"
       /\ JsonAlone(p) /\ SqliteServes(p) /\ CutoverImports(p) /\ Locked(p)

\* The log holds the latest entries, numbered without a gap up to the last.
Numbered(d) ==
  /\ Len(d.entries) <= MaxEntries /\ Len(d.entries) < d.next
  /\ \A i \in 1..Len(d.entries) :
       d.entries[i].sequence + Len(d.entries) + 1 = d.next + i

\* Entry n is the next one of d.
Adds(d, n) ==
  /\ d.next <= appends
  /\ \A i \in 1..Len(d.entries) : d.entries[i].by # n

\* What a transaction will write is the authority, or one entry more.
DraftIsNext(p) ==
  /\ place[p] = "IMPORT" => draft[p] = IF row # NoDoc THEN row ELSE file
  /\ place[p] = "APPEND" =>
       \E n \in 1..appends : Adds(Authority, n) /\ draft[p] = Appended(Authority, n)

LogInv ==
  /\ Numbered(Authority) /\ Authority.next <= appends + 1
  /\ \A i \in 1..Len(Authority.entries) :
       /\ Authority.entries[i].by <= appends
       /\ Authority.entries[i] \in acked
  /\ cursor < Authority.next
  /\ \A p \in Processes : DraftIsNext(p)

-----------------------------------------------------------------------------
\* Facts about logs

\* A log of the legal type, read through its default, is a log.
LEMMA LoadedIsLog ==
  ASSUME NEW d \in Documents
  PROVE  Loaded(d) \in Logs
<1>1. EmptyLog \in Logs
  BY AuditAssumption, EmptySeq DEF EmptyLog, Logs
<1>2. QED
  BY <1>1 DEF Loaded, Documents

\* What a legal log looks like.
LEMMA LogFields ==
  ASSUME NEW d \in Logs
  PROVE  /\ d = [next |-> d.next, entries |-> d.entries]
         /\ d.next \in 1..(AppendBound + 1)
         /\ d.entries \in Seq(Entries) /\ Len(d.entries) \in Nat
         /\ DOMAIN d.entries = 1..Len(d.entries)
         /\ \A i \in 1..Len(d.entries) :
              /\ d.entries[i] \in Entries
              /\ d.entries[i].sequence \in 1..AppendBound
              /\ d.entries[i].by \in 1..AppendBound
<1>1. /\ d = [next |-> d.next, entries |-> d.entries]
      /\ d.next \in 1..(AppendBound + 1) /\ d.entries \in Seq(Entries)
  BY DEF Logs
<1>2. Len(d.entries) \in Nat /\ DOMAIN d.entries = 1..Len(d.entries)
  BY <1>1, LenProperties
<1>3. \A i \in 1..Len(d.entries) : d.entries[i] \in Entries
  BY <1>1, ElementOfSeq
<1>4. \A e \in Entries : e.sequence \in 1..AppendBound /\ e.by \in 1..AppendBound
  BY DEF Entries
<1>5. QED
  BY <1>1, <1>2, <1>3, <1>4

\* r is s with e added at its end and its first k elements dropped.
Shifts(s, e, r, k) ==
  /\ Len(r) + k = Len(s) + 1 /\ r[Len(r)] = e
  /\ \A i \in 1..(Len(r) - 1) : i + k \in 1..Len(s) /\ r[i] = s[i + k]

\* A full log drops one.
Dropped(s) == IF Len(s) < MaxEntries THEN 0 ELSE 1

LEMMA Latest ==
  ASSUME NEW S, NEW s \in Seq(S), NEW e \in S, Len(s) <= MaxEntries, NEW r,
         r = IF Len(Append(s, e)) > MaxEntries THEN Tail(Append(s, e))
                                               ELSE Append(s, e)
  PROVE  r \in Seq(S) /\ Shifts(s, e, r, Dropped(s))
<1>1. PICK t : t = Append(s, e)
  OBVIOUS
<1>2. /\ t \in Seq(S) /\ Len(t) = Len(s) + 1 /\ t # <<>> /\ Len(s) \in Nat
      /\ \A i \in 1..Len(s) : t[i] = s[i]
      /\ t[Len(s) + 1] = e
  BY <1>1, AppendProperties, LenProperties
<1>3. MaxEntries \in Nat \ {0}
  BY AuditAssumption
<1>4. r = IF Len(s) + 1 > MaxEntries THEN Tail(t) ELSE t
  BY <1>1, <1>2
<1>5. CASE Len(s) < MaxEntries
  <2>1. r = t /\ Dropped(s) = 0
    BY <1>2, <1>3, <1>4, <1>5 DEF Dropped
  <2>2. Shifts(s, e, r, 0)
    BY <1>2, <2>1 DEF Shifts
  <2>3. QED
    BY <1>2, <2>1, <2>2
<1>6. CASE Len(s) = MaxEntries
  <2>1. r = Tail(t) /\ Dropped(s) = 1
    BY <1>2, <1>3, <1>4, <1>6 DEF Dropped
  <2>a. /\ Tail(t) \in Seq(S) /\ Len(Tail(t)) = Len(t) - 1
        /\ \A i \in 1..Len(Tail(t)) : Tail(t)[i] = t[i + 1]
    BY <1>2, HeadTailProperties
  <2>2. /\ r \in Seq(S) /\ Len(r) = Len(s)
        /\ \A i \in 1..Len(s) : r[i] = t[i + 1]
    BY <1>2, <2>1, <2>a
  <2>3. r[Len(r)] = e
    BY <1>2, <1>3, <1>6, <2>2
  <2>4. \A i \in 1..(Len(r) - 1) : i \in 1..Len(s) /\ i + 1 \in 1..Len(s)
    BY <1>2, <2>2
  <2>5. \A i \in 1..(Len(r) - 1) : i + 1 \in 1..Len(s) /\ r[i] = s[i + 1]
    BY <1>2, <2>2, <2>4
  <2>6. Shifts(s, e, r, 1)
    BY <2>2, <2>3, <2>5 DEF Shifts
  <2>7. QED
    BY <2>1, <2>2, <2>6
<1>7. Len(s) < MaxEntries \/ Len(s) = MaxEntries
  BY <1>2, <1>3
<1>8. QED
  BY <1>5, <1>6, <1>7

\* The mutator of append adds one entry at the end, and drops the oldest one
\* from a full log.
LEMMA AppendedIs ==
  ASSUME NEW d \in Logs, NEW n \in 1..AppendBound, Numbered(d),
         d.next <= AppendBound, NEW a, a = Appended(d, n),
         NEW new, new = [sequence |-> d.next, by |-> n]
  PROVE  /\ new \in Entries
         /\ a = [next |-> d.next + 1,
                 entries |-> IF Len(Append(d.entries, new)) > MaxEntries
                               THEN Tail(Append(d.entries, new))
                               ELSE Append(d.entries, new)]
<1>1. /\ Len(d.entries) \in Nat /\ d.entries \in Seq(Entries)
      /\ d.next \in 1..AppendBound
      /\ Len(d.entries) <= MaxEntries /\ MaxEntries \in Nat \ {0}
  BY LogFields, AuditAssumption DEF Numbered
<1>2. new \in Entries
  BY <1>1 DEF Entries
<1>3. PICK t : t = Append(d.entries, new)
  OBVIOUS
<1>4. t \in Seq(Entries) /\ Len(t) = Len(d.entries) + 1 /\ t # <<>>
  BY <1>1, <1>2, <1>3, AppendProperties
<1>5. SubSeq(t, 1, Len(t)) = t /\ SubSeq(t, 2, Len(t)) = Tail(t)
  BY <1>4, SubSeqFull, TailIsSubSeq
<1>6. a = [next |-> d.next + 1,
           entries |-> SubSeq(t, (IF Len(t) > MaxEntries
                                    THEN Len(t) - MaxEntries ELSE 0) + 1, Len(t))]
  BY <1>3 DEF Appended
<1>7. CASE Len(t) > MaxEntries
  <2>1. (IF Len(t) > MaxEntries THEN Len(t) - MaxEntries ELSE 0) + 1 = 2
    BY <1>1, <1>4, <1>7
  <2>2. a = [next |-> d.next + 1, entries |-> SubSeq(t, 2, Len(t))]
    BY <1>6, <2>1
  <2>3. QED
    BY <1>2, <1>3, <1>5, <1>7, <2>2
<1>8. CASE ~(Len(t) > MaxEntries)
  <2>1. a = [next |-> d.next + 1, entries |-> SubSeq(t, 1, Len(t))]
    BY <1>6, <1>8
  <2>2. QED
    BY <1>2, <1>3, <1>5, <1>8, <2>1
<1>9. QED
  BY <1>7, <1>8

\* Its entries are the latest ones.
LEMMA AppendedLog ==
  ASSUME NEW d \in Logs, NEW n \in 1..AppendBound, Numbered(d),
         d.next <= AppendBound, NEW a, a = Appended(d, n)
  PROVE  /\ a \in Logs /\ a.next = d.next + 1
         /\ Shifts(d.entries, [sequence |-> d.next, by |-> n], a.entries,
                   Dropped(d.entries))
<1>1. PICK new : new = [sequence |-> d.next, by |-> n]
  OBVIOUS
<1>2. PICK r : r = IF Len(Append(d.entries, new)) > MaxEntries
                     THEN Tail(Append(d.entries, new))
                     ELSE Append(d.entries, new)
  OBVIOUS
<1>3. a = [next |-> d.next + 1, entries |-> r] /\ new \in Entries
  BY <1>1, <1>2, AppendedIs
<1>4. /\ d.entries \in Seq(Entries) /\ Len(d.entries) <= MaxEntries
      /\ d.next \in 1..AppendBound /\ AppendBound \in Nat
  BY LogFields, AuditAssumption DEF Numbered
<1>5. r \in Seq(Entries) /\ Shifts(d.entries, new, r, Dropped(d.entries))
  BY <1>2, <1>3, <1>4, Latest
<1>6. a.entries = r /\ a.next = d.next + 1
  BY <1>3
<1>7. a \in Logs
  BY <1>3, <1>4, <1>5 DEF Logs
<1>8. QED
  BY <1>1, <1>5, <1>6, <1>7

\* So its numbers go on without a gap, and each entry of it is the new one or
\* an old one.
LEMMA AppendedNumbers ==
  ASSUME NEW d \in Logs, NEW n \in 1..AppendBound, Numbered(d),
         d.next <= AppendBound, NEW a, a = Appended(d, n)
  PROVE  /\ Numbered(a) /\ Len(a.entries) >= 1
         /\ a.entries[Len(a.entries)] = [sequence |-> d.next, by |-> n]
         /\ \A i \in 1..Len(a.entries) :
              \/ a.entries[i] = [sequence |-> d.next, by |-> n]
              \/ \E j \in 1..Len(d.entries) : a.entries[i] = d.entries[j]
<1>1. PICK k : k = Dropped(d.entries)
  OBVIOUS
<1>2. /\ Len(d.entries) \in Nat /\ Len(d.entries) <= MaxEntries
      /\ MaxEntries \in Nat \ {0}
      /\ d.next \in 1..AppendBound /\ Len(d.entries) < d.next
      /\ \A i \in 1..Len(d.entries) :
           /\ d.entries[i].sequence + Len(d.entries) + 1 = d.next + i
           /\ d.entries[i].sequence \in 1..AppendBound
  BY LogFields, AuditAssumption DEF Numbered
<1>3. k = IF Len(d.entries) < MaxEntries THEN 0 ELSE 1
  BY <1>1 DEF Dropped
<1>4. /\ a \in Logs /\ a.next = d.next + 1
      /\ Len(a.entries) + k = Len(d.entries) + 1
      /\ a.entries[Len(a.entries)] = [sequence |-> d.next, by |-> n]
      /\ \A i \in 1..(Len(a.entries) - 1) :
           i + k \in 1..Len(d.entries) /\ a.entries[i] = d.entries[i + k]
  BY <1>1, AppendedLog DEF Shifts
<1>5. Len(a.entries) \in Nat
  BY <1>4, LogFields
<1>b. PICK la : la = Len(a.entries)
  OBVIOUS
<1>c. PICK ld : ld = Len(d.entries)
  OBVIOUS
<1>d. /\ la \in Nat /\ ld \in Nat /\ la + k = ld + 1 /\ ld <= MaxEntries
      /\ MaxEntries \in Nat \ {0} /\ ld < d.next /\ d.next \in 1..AppendBound
      /\ a.next = d.next + 1 /\ k = IF ld < MaxEntries THEN 0 ELSE 1
  BY <1>2, <1>3, <1>4, <1>5, <1>b, <1>c
<1>6. la >= 1 /\ la <= MaxEntries /\ la < a.next
  BY <1>d
<1>7. ASSUME NEW i \in 1..Len(a.entries)
      PROVE  /\ a.entries[i].sequence + Len(a.entries) + 1 = a.next + i
             /\ \/ a.entries[i] = [sequence |-> d.next, by |-> n]
                \/ \E j \in 1..Len(d.entries) : a.entries[i] = d.entries[j]
  <2>1. CASE i = Len(a.entries)
    <3>1. a.entries[i].sequence = d.next
      BY <1>4, <2>1
    <3>2. QED
      BY <1>2, <1>4, <1>5, <2>1, <3>1
  <2>2. CASE i # Len(a.entries)
    <3>1. i \in 1..(Len(a.entries) - 1) /\ i \in Nat
      BY <1>5, <2>2
    <3>2. i + k \in 1..Len(d.entries) /\ a.entries[i] = d.entries[i + k]
      BY <1>4, <3>1
    <3>3. PICK q : q = d.entries[i + k].sequence
      OBVIOUS
    <3>4. q + Len(d.entries) + 1 = d.next + (i + k) /\ q \in 1..AppendBound
      BY <1>2, <3>2, <3>3
    <3>5. q + ld + 1 = d.next + (i + k) /\ k \in Int /\ q \in Int
      BY <1>d, <1>c, <3>4
    <3>6. q + la + 1 = a.next + i
      BY <1>d, <3>1, <3>5
    <3>7. QED
      BY <1>b, <3>2, <3>3, <3>6
  <2>3. QED
    BY <2>1, <2>2
<1>8. QED
  BY <1>4, <1>6, <1>7, <1>b DEF Numbered

\* AuditContract reads such a log as one more entry of it.
Said(d) == [i \in DOMAIN d.entries |-> d.entries[i].by]

LEMMA SaidIs ==
  ASSUME NEW d \in Logs
  PROVE  /\ Said(d) \in Seq(1..AppendBound) /\ Len(Said(d)) = Len(d.entries)
         /\ DOMAIN Said(d) = 1..Len(d.entries)
         /\ \A i \in 1..Len(d.entries) : Said(d)[i] = d.entries[i].by
<1>1. /\ Len(d.entries) \in Nat /\ DOMAIN d.entries = 1..Len(d.entries)
      /\ \A i \in 1..Len(d.entries) : d.entries[i].by \in 1..AppendBound
  BY LogFields
<1>2. QED
  BY <1>1 DEF Said

LEMMA AppendedSays ==
  ASSUME NEW d \in Logs, NEW n \in 1..AppendBound, Numbered(d),
         d.next <= AppendBound, NEW a, a = Appended(d, n)
  PROVE  Said(a) = IF Len(Append(Said(d), n)) > MaxEntries
                     THEN Tail(Append(Said(d), n)) ELSE Append(Said(d), n)
<1>1. PICK k : k = Dropped(d.entries)
  OBVIOUS
<1>2. PICK r : r = IF Len(Append(Said(d), n)) > MaxEntries
                     THEN Tail(Append(Said(d), n)) ELSE Append(Said(d), n)
  OBVIOUS
<1>3. /\ Len(d.entries) \in Nat /\ Len(d.entries) <= MaxEntries
      /\ MaxEntries \in Nat \ {0}
  BY LogFields, AuditAssumption DEF Numbered
<1>4. /\ a \in Logs /\ Len(a.entries) + k = Len(d.entries) + 1
      /\ a.entries[Len(a.entries)] = [sequence |-> d.next, by |-> n]
      /\ \A i \in 1..(Len(a.entries) - 1) :
           i + k \in 1..Len(d.entries) /\ a.entries[i] = d.entries[i + k]
  BY <1>1, AppendedLog DEF Shifts
<1>5. /\ Said(d) \in Seq(1..AppendBound) /\ Len(Said(d)) = Len(d.entries)
      /\ \A i \in 1..Len(d.entries) : Said(d)[i] = d.entries[i].by
  BY SaidIs
<1>6. /\ Said(a) \in Seq(1..AppendBound) /\ Len(Said(a)) = Len(a.entries)
      /\ \A i \in 1..Len(a.entries) : Said(a)[i] = a.entries[i].by
      /\ Len(a.entries) \in Nat
  BY <1>4, SaidIs, LogFields
<1>7. Dropped(Said(d)) = k /\ k \in {0, 1}
  BY <1>1, <1>5 DEF Dropped
<1>8. r \in Seq(1..AppendBound) /\ Shifts(Said(d), n, r, k)
  BY <1>2, <1>3, <1>5, <1>7, Latest
<1>9. /\ Len(r) + k = Len(d.entries) + 1 /\ r[Len(r)] = n
      /\ \A i \in 1..(Len(r) - 1) :
           i + k \in 1..Len(d.entries) /\ r[i] = Said(d)[i + k]
  BY <1>5, <1>8 DEF Shifts
<1>10. Len(r) \in Nat
  BY <1>8, LenProperties
<1>11. Len(Said(a)) = Len(r)
  BY <1>3, <1>4, <1>6, <1>7, <1>9, <1>10
<1>12. ASSUME NEW i \in 1..Len(Said(a))
       PROVE  Said(a)[i] = r[i]
  <2>1. i \in 1..Len(a.entries) /\ Len(a.entries) = Len(r)
    BY <1>6, <1>11
  <2>2. CASE i = Len(r)
    BY <1>4, <1>6, <1>9, <2>1, <2>2
  <2>3. CASE i # Len(r)
    <3>1. i \in 1..(Len(a.entries) - 1) /\ i \in 1..(Len(r) - 1)
      BY <1>6, <2>1, <2>3
    <3>2. a.entries[i] = d.entries[i + k] /\ i + k \in 1..Len(d.entries)
      BY <1>4, <3>1
    <3>3. r[i] = Said(d)[i + k]
      BY <1>9, <3>1
    <3>4. QED
      BY <1>5, <1>6, <2>1, <3>2, <3>3
  <2>4. QED
    BY <2>2, <2>3
<1>13. Said(a) = r
  BY <1>6, <1>8, <1>11, <1>12, SeqEqual
<1>14. QED
  BY <1>2, <1>13

-----------------------------------------------------------------------------
\* The log, the drafts and the readers

LEMMA AuthorityIsLog ==
  ASSUME AuditTypeOK
  PROVE  Authority \in Logs
  BY LoadedIsLog DEF AuditTypeOK, Authority

\* What a commit of an append writes: the authority with one entry more.
LEMMA DraftIsLog ==
  ASSUME AuditTypeOK, LogInv, NEW p \in Processes, place[p] = "APPEND"
  PROVE  \E n \in 1..AppendBound :
           /\ n <= appends /\ Adds(Authority, n) /\ draft[p] = Appended(Authority, n)
           /\ Authority.next <= AppendBound
           /\ draft[p] \in Logs /\ draft[p] # NoDoc
<1>1. PICK n \in 1..appends :
        Adds(Authority, n) /\ draft[p] = Appended(Authority, n)
  BY DEF LogInv, DraftIsNext
<1>2. PICK d : d = Authority
  OBVIOUS
<1>3. d \in Logs /\ Numbered(d) /\ Adds(d, n)
  BY <1>1, <1>2, AuthorityIsLog DEF LogInv
<1>4. appends \in 0..AppendBound /\ AppendBound \in Nat
  BY AuditAssumption DEF AuditTypeOK, Numbers
<1>5. n \in 1..AppendBound /\ n <= appends /\ d.next <= AppendBound
  BY <1>3, <1>4, LogFields DEF Adds
<1>6. Appended(d, n) \in Logs
  BY <1>3, <1>5, AppendedLog
<1>7. QED
  BY <1>1, <1>2, <1>5, <1>6, AuditAssumption

\* A process that serves reads the authority.
LEMMA ServesTheAuthority ==
  ASSUME AuditTypeOK, WriterInv, NEW p \in Processes,
         place[p] \in {"IDLE", "APPEND"}
  PROVE  /\ job[p] \in {"JSON", "SQLITE"} /\ Loaded(Stored(p)) = Authority
         /\ job[p] = "JSON" => row = NoDoc
         /\ job[p] = "SQLITE" => (row = NoDoc => file = NoDoc)
<1>1. job[p] \in {"JSON", "SQLITE"}
  BY DEF AuditTypeOK, WriterInv, CutoverImports
<1>2. /\ job[p] = "JSON" => row = NoDoc
      /\ job[p] = "SQLITE" => (row = NoDoc => file = NoDoc)
  BY DEF WriterInv, JsonAlone, SqliteServes, Moved, Imported
<1>3. QED
  BY <1>1, <1>2 DEF Stored, Authority

-----------------------------------------------------------------------------
\* One writer at a time

LEMMA WriterInit == AuditInit => WriterInv
  BY DEF AuditInit, WriterInv, Moved, Imported, JsonAlone, SqliteServes,
         CutoverImports, Locked

LEMMA WriterStep ==
  AuditTypeOK /\ WriterInv /\ LogInv /\ [AuditNext]_auditVars => WriterInv'
<1> SUFFICES ASSUME AuditTypeOK, WriterInv, LogInv, [AuditNext]_auditVars
             PROVE  WriterInv'
  OBVIOUS
<1> USE DEF WriterInv, Moved, Imported, JsonAlone, SqliteServes, CutoverImports,
            Locked, OthersAreDown, MoveTo, diskVars
<1>a. /\ job \in [Processes -> {"NONE", "JSON", "SQLITE", "CUTOVER"}]
      /\ place \in [Processes ->
           {"DOWN", "BACKUP", "OPENED", "IMPORT", "IDLE", "APPEND", "REPORT"}]
      /\ NoProcess \notin Processes
  BY AuditAssumption DEF AuditTypeOK
<1>1. ASSUME NEW p \in Processes, OpenJson(p) PROVE WriterInv'
  BY <1>1, <1>a DEF OpenJson
<1>2. ASSUME NEW p \in Processes, OpenSqlite(p) PROVE WriterInv'
  BY <1>2, <1>a DEF OpenSqlite
<1>3. ASSUME NEW p \in Processes, Exit(p) PROVE WriterInv'
  BY <1>3, <1>a DEF Exit, Unlock
<1>4. ASSUME NEW p \in Processes, BeginImport(p) PROVE WriterInv'
  BY <1>4, <1>a DEF BeginImport, Lock
<1>5. ASSUME NEW p \in Processes, CommitImport(p) PROVE WriterInv'
  <2>1. draft[p] = IF row # NoDoc THEN row ELSE file
    BY <1>5 DEF CommitImport, LogInv, DraftIsNext
  <2>2. QED
    BY <1>5, <1>a, <2>1 DEF CommitImport, Unlock
<1>6. ASSUME NEW p \in Processes, BeginAppend(p) PROVE WriterInv'
  BY <1>6, <1>a DEF BeginAppend, Lock
<1>7. ASSUME NEW p \in Processes, CommitAppend(p) PROVE WriterInv'
  <2>1. draft[p] # NoDoc
    BY <1>7, DraftIsLog DEF CommitAppend
  <2>2. QED
    BY <1>7, <1>a, <2>1 DEF CommitAppend, Unlock
<1>8. ASSUME NEW p \in Processes, FailAppend(p) PROVE WriterInv'
  BY <1>8, <1>a DEF FailAppend, Unlock
<1>9. ASSUME NEW p \in Processes, NEW l \in PageLimits, GetPage(p, l) PROVE WriterInv'
  BY <1>9, <1>a DEF GetPage, processVars
<1>10. ASSUME NEW p \in Processes, StartCutover(p) PROVE WriterInv'
  BY <1>10, <1>a DEF StartCutover
<1>11. ASSUME NEW p \in Processes, OpenCutover(p) PROVE WriterInv'
  BY <1>11, <1>a DEF OpenCutover
<1>12. ASSUME NEW p \in Processes, ReportCutover(p) PROVE WriterInv'
  BY <1>12, <1>a DEF ReportCutover, Accepted
<1>13. CASE UNCHANGED auditVars
  BY <1>13, <1>a DEF auditVars, processVars
<1>14. QED
  BY <1>1, <1>2, <1>3, <1>4, <1>5, <1>6, <1>7, <1>8, <1>9, <1>10, <1>11, <1>12,
     <1>13 DEF AuditNext

-----------------------------------------------------------------------------
\* The authority changes only when an append commits

\* A step that leaves the document a reader is answered from as it was.
Keeps ==
  /\ Authority' = Authority /\ UNCHANGED <<acked, cursor>>
  /\ appends' \in {appends, appends + 1}

LEMMA CommitsKeepOthers ==
  ASSUME AuditTypeOK, WriterInv, NEW p \in Processes,
         CommitImport(p) \/ CommitAppend(p)
  PROVE  \A q \in Processes \ {p} : place[q] \notin {"IMPORT", "APPEND"}
<1> USE DEF WriterInv, JsonAlone, SqliteServes, CutoverImports, Locked,
            OthersAreDown, MoveTo
<1>1. place[p] \in {"IMPORT", "APPEND"}
  BY DEF CommitImport, CommitAppend
<1>2. SUFFICES ASSUME NEW q \in Processes \ {p}, place[q] \in {"IMPORT", "APPEND"}
               PROVE  FALSE
  OBVIOUS
<1>3. job[p] # "JSON" /\ job[q] # "JSON"
  BY <1>1, <1>2
<1>4. lockedBy = p /\ lockedBy = q
  BY <1>1, <1>2, <1>3
<1>5. QED
  BY <1>2, <1>4

LEMMA ImportKeeps ==
  ASSUME AuditTypeOK, LogInv, NEW p \in Processes, CommitImport(p)
  PROVE  Authority' = Authority
<1>1. row' = (IF row # NoDoc THEN row ELSE file) /\ file' = file
  BY DEF CommitImport, MoveTo, LogInv, DraftIsNext
<1>2. QED
  BY <1>1 DEF Authority, Loaded

LEMMA AppendCommits ==
  ASSUME AuditTypeOK, WriterInv, LogInv, NEW p \in Processes, CommitAppend(p)
  PROVE  Authority' = draft[p]
<1>1. draft[p] # NoDoc
  BY DraftIsLog DEF CommitAppend, MoveTo
<1>2. job[p] \in {"JSON", "SQLITE"} /\ (job[p] = "JSON" => row = NoDoc)
  BY ServesTheAuthority DEF CommitAppend, MoveTo
<1>3. QED
  BY <1>1, <1>2 DEF CommitAppend, Authority, Loaded

LEMMA DraftsStay ==
  ASSUME AuditTypeOK, LogInv, Keeps, NEW q \in Processes,
         \/ UNCHANGED <<place[q], draft[q]>>
         \/ place'[q] \notin {"IMPORT", "APPEND"},
         place[q] = "IMPORT" => UNCHANGED <<file, row>>
  PROVE  DraftIsNext(q)'
<1>1. CASE place'[q] \notin {"IMPORT", "APPEND"}
  BY <1>1 DEF DraftIsNext
<1>2. CASE UNCHANGED <<place[q], draft[q]>>
  <2>1. DraftIsNext(q) /\ appends \in Nat
    BY DEF LogInv, AuditTypeOK, Numbers
  <2>2. PICK d : d = Authority /\ d = Authority'
    BY DEF Keeps
  <2>a. d.next \in Nat
    BY <2>2, AuthorityIsLog, LogFields
  <2>3. CASE place[q] = "APPEND"
    <3>1. PICK n \in 1..appends : Adds(d, n) /\ draft[q] = Appended(d, n)
      BY <2>1, <2>2, <2>3 DEF DraftIsNext
    <3>2. n \in 1..appends' /\ Adds(d, n)'
      BY <2>1, <2>a, <3>1 DEF Adds, Keeps
    <3>3. draft'[q] = Appended(d, n)
      BY <1>2, <3>1
    <3>4. QED
      BY <1>2, <2>2, <2>3, <3>2, <3>3 DEF DraftIsNext
  <2>4. CASE place[q] # "APPEND"
    BY <1>2, <2>1, <2>4 DEF DraftIsNext
  <2>5. QED
    BY <2>3, <2>4
<1>3. QED
  BY <1>1, <1>2

LEMMA LogStays ==
  ASSUME AuditTypeOK, LogInv, Keeps, \A q \in Processes : DraftIsNext(q)'
  PROVE  LogInv'
<1>1. PICK d : d = Authority /\ d = Authority'
  BY DEF Keeps
<1>2. /\ d.next \in Nat /\ appends \in Nat
      /\ \A i \in 1..Len(d.entries) : d.entries[i].by \in Nat
  BY <1>1, AuthorityIsLog, LogFields DEF AuditTypeOK, Numbers
<1>3. /\ Numbered(d) /\ d.next <= appends + 1 /\ cursor < d.next
      /\ \A i \in 1..Len(d.entries) :
           d.entries[i].by <= appends /\ d.entries[i] \in acked
  BY <1>1 DEF LogInv
<1>4. /\ d.next <= appends' + 1 /\ cursor' < d.next
      /\ \A i \in 1..Len(d.entries) :
           d.entries[i].by <= appends' /\ d.entries[i] \in acked'
  BY <1>2, <1>3 DEF Keeps
<1>5. Numbered(Authority)'
  BY <1>1, <1>3 DEF Numbered
<1>6. QED
  BY <1>1, <1>4, <1>5 DEF LogInv

LEMMA LogInit == AuditInit => LogInv
<1> SUFFICES ASSUME AuditInit PROVE LogInv
  OBVIOUS
<1>1. PICK d : d = [next |-> 1, entries |-> <<>>]
  OBVIOUS
<1>2. Authority = d /\ d.next = 1 /\ Len(d.entries) = 0
  BY <1>1 DEF AuditInit, Authority, Loaded, EmptyLog
<1>3. Numbered(d)
  BY <1>2, AuditAssumption DEF Numbered
<1>4. appends = 0 /\ cursor = 0 /\ \A p \in Processes : DraftIsNext(p)
  BY DEF AuditInit, DraftIsNext
<1>5. QED
  BY <1>2, <1>3, <1>4 DEF LogInv

\* The steps of the processes other than a commit of an append.
Works(p) ==
  \/ OpenJson(p) \/ OpenSqlite(p) \/ Exit(p)
  \/ BeginImport(p) \/ CommitImport(p)
  \/ BeginAppend(p) \/ FailAppend(p)
  \/ StartCutover(p) \/ OpenCutover(p) \/ ReportCutover(p)

LEMMA AuditCases ==
  ASSUME AuditNext
  PROVE  \E p \in Processes :
           \/ Works(p) \/ CommitAppend(p)
           \/ \E limit \in PageLimits : GetPage(p, limit)
  BY DEF AuditNext, Works

\* What a step of p does to another process.
LEMMA WorksOnItsOwn ==
  ASSUME AuditTypeOK, NEW p \in Processes, Works(p) \/ CommitAppend(p),
         NEW q \in Processes \ {p}
  PROVE  UNCHANGED <<place[q], draft[q]>>
  BY DEF AuditTypeOK, Works, OpenJson, OpenSqlite, Exit, BeginImport, CommitImport,
         BeginAppend, CommitAppend, FailAppend, StartCutover, OpenCutover,
         ReportCutover, MoveTo

LEMMA WorksKeep ==
  ASSUME AuditTypeOK, LogInv, NEW p \in Processes, Works(p)
  PROVE  Keeps /\ (CommitImport(p) \/ UNCHANGED <<file, row>>)
<1>1. CASE CommitImport(p)
  <2>1. Authority' = Authority
    BY <1>1, ImportKeeps
  <2>2. UNCHANGED <<acked, cursor, appends>>
    BY <1>1 DEF CommitImport, clientVars
  <2>3. QED
    BY <1>1, <2>1, <2>2 DEF Keeps
<1>2. CASE ~CommitImport(p)
  <2>1. UNCHANGED <<file, row>>
    BY <1>2 DEF Works, OpenJson, OpenSqlite, Exit, BeginImport, BeginAppend,
      FailAppend, StartCutover, OpenCutover, ReportCutover, diskVars
  <2>2. UNCHANGED <<acked, cursor>> /\ appends' \in {appends, appends + 1}
    BY <1>2 DEF Works, OpenJson, OpenSqlite, Exit, BeginImport, BeginAppend,
      FailAppend, StartCutover, OpenCutover, ReportCutover, clientVars
  <2>3. QED
    BY <2>1, <2>2 DEF Keeps, Authority
<1>3. QED
  BY <1>1, <1>2

LEMMA WorksKeepLog ==
  ASSUME AuditTypeOK, WriterInv, LogInv, NEW p \in Processes, Works(p)
  PROVE  LogInv'
<1>1. Keeps /\ (CommitImport(p) \/ UNCHANGED <<file, row>>)
  BY WorksKeep
<1>2. ASSUME NEW q \in Processes \ {p}
      PROVE  DraftIsNext(q)'
  <2>1. UNCHANGED <<place[q], draft[q]>>
    BY WorksOnItsOwn
  <2>2. place[q] = "IMPORT" => UNCHANGED <<file, row>>
    BY <1>1, CommitsKeepOthers
  <2>3. QED
    BY <1>1, <2>1, <2>2, DraftsStay
<1>3. DraftIsNext(p)'
  <2>1. CASE BeginImport(p)
    BY <2>1 DEF BeginImport, MoveTo, AuditTypeOK, DraftIsNext, diskVars
  <2>2. CASE BeginAppend(p)
    <3>1. PICK d : d = Authority /\ d = Authority'
      BY <1>1 DEF Keeps
    <3>2. PICK n : n = appends + 1 /\ n = appends'
      BY <2>2 DEF BeginAppend
    <3>3. /\ d \in Logs /\ d.next <= n /\ n \in 1..n /\ appends \in Nat
          /\ \A i \in 1..Len(d.entries) :
               d.entries[i].by <= appends /\ d.entries[i].by \in Nat
      BY <3>1, <3>2, AuthorityIsLog, LogFields DEF LogInv, AuditTypeOK, Numbers
    <3>4. place[p] = "IDLE" /\ place'[p] = "APPEND"
          /\ draft'[p] = Appended(Loaded(Stored(p)), n)
      BY <2>2, <3>2 DEF BeginAppend, MoveTo, AuditTypeOK
    <3>5. draft'[p] = Appended(d, n)
      BY <3>1, <3>4, ServesTheAuthority
    <3>6. \A i \in 1..Len(d.entries) : d.entries[i].by # n
      BY <3>2, <3>3
    <3>7. Adds(d, n)'
      BY <3>2, <3>3, <3>6 DEF Adds
    <3>8. QED
      BY <3>1, <3>2, <3>3, <3>4, <3>5, <3>7 DEF DraftIsNext
  <2>3. CASE ~BeginImport(p) /\ ~BeginAppend(p)
    <3>1. place'[p] \notin {"IMPORT", "APPEND"}
      BY <2>3 DEF Works, OpenJson, OpenSqlite, Exit, CommitImport, FailAppend,
        StartCutover, OpenCutover, ReportCutover, MoveTo, AuditTypeOK
    <3>2. QED
      BY <3>1 DEF DraftIsNext
  <2>4. QED
    BY <2>1, <2>2, <2>3
<1>4. QED
  BY <1>1, <1>2, <1>3, LogStays

LEMMA CommitKeepsLog ==
  ASSUME AuditTypeOK, WriterInv, LogInv, NEW p \in Processes, CommitAppend(p)
  PROVE  LogInv'
<1>1. PICK d : d = Authority
  OBVIOUS
<1>2. place[p] = "APPEND"
  BY DEF CommitAppend, MoveTo
<1>3. PICK n \in 1..AppendBound :
        /\ n <= appends /\ Adds(d, n) /\ draft[p] = Appended(d, n)
        /\ d.next <= AppendBound
  BY <1>1, <1>2, DraftIsLog
<1>4. PICK a : a = Appended(d, n) /\ a = draft[p]
  BY <1>3
<1>5. Authority' = a
  BY <1>4, AppendCommits
<1>6. d \in Logs /\ Numbered(d) /\ d.next <= appends
      /\ appends \in Nat /\ cursor \in Nat /\ cursor < d.next /\ d.next \in Nat
      /\ \A i \in 1..Len(d.entries) :
           d.entries[i].by <= appends /\ d.entries[i] \in acked
  BY <1>1, <1>3, AuthorityIsLog, LogFields
     DEF LogInv, AuditTypeOK, Numbers, Adds
<1>7. a.next = d.next + 1
  BY <1>3, <1>4, <1>6, AppendedLog
<1>8. /\ Numbered(a)
      /\ a.entries[Len(a.entries)] = [sequence |-> d.next, by |-> n]
      /\ \A i \in 1..Len(a.entries) :
           \/ a.entries[i] = [sequence |-> d.next, by |-> n]
           \/ \E j \in 1..Len(d.entries) : a.entries[i] = d.entries[j]
  BY <1>3, <1>4, <1>6, AppendedNumbers
<1>9. /\ acked' = acked \union {a.entries[Len(a.entries)]}
      /\ UNCHANGED <<appends, cursor>>
  BY <1>4 DEF CommitAppend, clientVars
<1>10. ASSUME NEW i \in 1..Len(a.entries)
       PROVE  a.entries[i].by <= appends' /\ a.entries[i] \in acked'
  <2>1. CASE a.entries[i] = [sequence |-> d.next, by |-> n]
    BY <1>3, <1>8, <1>9, <2>1
  <2>2. CASE \E j \in 1..Len(d.entries) : a.entries[i] = d.entries[j]
    BY <1>6, <1>9, <2>2
  <2>3. QED
    BY <1>8, <2>1, <2>2
<1>11. a.next <= appends' + 1 /\ cursor' < a.next
  BY <1>6, <1>7, <1>9
<1>12. ASSUME NEW q \in Processes
       PROVE  DraftIsNext(q)'
  <2>1. place'[q] \notin {"IMPORT", "APPEND"}
    BY CommitsKeepOthers, WorksOnItsOwn DEF CommitAppend, MoveTo, AuditTypeOK
  <2>2. QED
    BY <2>1 DEF DraftIsNext
<1>13. Numbered(Authority)'
  BY <1>5, <1>8 DEF Numbered
<1>14. QED
  BY <1>5, <1>10, <1>11, <1>12, <1>13 DEF LogInv

-----------------------------------------------------------------------------
\* Reading

\* The oldest entry that is kept, by the numbers.
LEMMA RetainedIs ==
  ASSUME NEW d \in Logs, Numbered(d)
  PROVE  RetainedFrom(d) \in Nat /\ RetainedFrom(d) + Len(d.entries) = d.next
<1>1. Len(d.entries) \in Nat /\ d.next \in Nat /\ d.entries \in Seq(Entries)
  BY LogFields
<1>2. CASE d.entries = <<>>
  BY <1>1, <1>2, EmptySeq DEF RetainedFrom
<1>3. CASE d.entries # <<>>
  <2>1. 1 \in 1..Len(d.entries)
    BY <1>1, <1>3, EmptySeq
  <2>2. PICK q : q = d.entries[1].sequence
    OBVIOUS
  <2>3. q + Len(d.entries) + 1 = d.next + 1 /\ q \in 1..AppendBound
    BY <2>1, <2>2, LogFields DEF Numbered
  <2>4. RetainedFrom(d) = q
    BY <1>3, <2>2 DEF RetainedFrom
  <2>5. QED
    BY <1>1, <2>3, <2>4
<1>4. QED
  BY <1>2, <1>3

LEMMA Least ==
  ASSUME NEW S \in SUBSET Nat, S # {}
  PROVE  \E n \in S : \A m \in S : n <= m
<1> DEFINE R == {p \in Nat \X Nat : p[1] < p[2]}
<1>1. PICK n \in S : \A m \in S : <<m, n>> \notin R
  <2>1. IsWellFoundedOn(R, Nat)
    BY NatLessThanWellFounded DEF OpToRel
  <2> HIDE DEF R
  <2>2. QED
    BY <2>1, WFMin
<1>2. ASSUME NEW m \in S
      PROVE  n <= m
  <2>1. m \in Nat /\ n \in Nat /\ (<<m, n>> \in R <=> m < n)
    BY DEF R
  <2>2. QED
    BY <1>1, <2>1
<1>3. QED
  BY <1>2

LEMMA Greatest ==
  ASSUME NEW N \in Nat, NEW S \in SUBSET (1..N), S # {}
  PROVE  \E n \in S : \A m \in S : m <= n
<1>1. PICK T : T = {N - i : i \in S}
  OBVIOUS
<1>2. T \in SUBSET Nat /\ T # {}
  <2>1. \A i \in S : N - i \in Nat
    OBVIOUS
  <2>2. PICK i : i \in S
    OBVIOUS
  <2>3. N - i \in T
    BY <1>1, <2>2
  <2>4. QED
    BY <1>1, <2>1, <2>3
<1>3. PICK t \in T : \A u \in T : t <= u
  BY <1>2, Least
<1>4. PICK n \in S : t = N - n
  BY <1>1
<1>5. ASSUME NEW m \in S
      PROVE  m <= n
  <2>1. N - m \in T
    BY <1>1
  <2>2. QED
    BY <1>3, <1>4, <2>1
<1>6. QED
  BY <1>5

\* A page starts at the first new entry and has no gap: with an entry it has
\* every new entry before it.
LEMMA PagesAreWhole ==
  ASSUME NEW d \in Logs, NEW after \in Nat, NEW limit \in Nat \ {0},
         NEW news, news = News(d, after),
         NEW page, page = Page(d, after, limit)
  PROVE  /\ page \subseteq news /\ news \subseteq 1..Len(d.entries)
         /\ \A i \in page : \A j \in news : j <= i => j \in page
         /\ news # {} => page # {}
<1>1. DOMAIN d.entries = 1..Len(d.entries) /\ Len(d.entries) \in Nat
  BY LogFields
<1>2. news \subseteq 1..Len(d.entries) /\ IsFiniteSet(1..Len(d.entries))
  BY <1>1, FS_Interval DEF News
<1>3. page = {i \in news : Cardinality({j \in news : j <= i}) <= limit}
  BY DEF Page
<1>4. \A i \in news : /\ IsFiniteSet({j \in news : j <= i})
                      /\ Cardinality({j \in news : j <= i}) \in Nat
  <2>1. ASSUME NEW i \in news
        PROVE  /\ IsFiniteSet({j \in news : j <= i})
               /\ Cardinality({j \in news : j <= i}) \in Nat
    <3>1. {j \in news : j <= i} \subseteq 1..Len(d.entries)
      BY <1>2
    <3>2. QED
      BY <1>2, <3>1, FS_Subset, FS_CardinalityType
  <2>2. QED
    BY <2>1
<1>5. ASSUME NEW i \in page, NEW j \in news, j <= i
      PROVE  j \in page
  <2>1. {k \in news : k <= j} \subseteq {k \in news : k <= i}
    BY <1>2, <1>3, <1>5
  <2>2. PICK u : u = Cardinality({k \in news : k <= j})
    OBVIOUS
  <2>3. PICK v : v = Cardinality({k \in news : k <= i})
    OBVIOUS
  <2>4. i \in news /\ v <= limit
    BY <1>3, <2>3
  <2>5. u \in Nat /\ v \in Nat /\ IsFiniteSet({k \in news : k <= i})
    BY <1>4, <2>2, <2>3, <2>4
  <2>6. u <= v
    BY <2>1, <2>2, <2>3, <2>5, FS_Subset
  <2>7. u <= limit
    BY <2>4, <2>5, <2>6
  <2>8. QED
    BY <1>3, <2>2, <2>7
<1>6. ASSUME news # {}
      PROVE  page # {}
  <2>1. PICK i \in news : \A j \in news : i <= j
    <3>1. news \in SUBSET Nat
      BY <1>2
    <3>2. QED
      BY <1>6, <3>1, Least
  <2>2. {j \in news : j <= i} = {i}
    BY <1>2, <2>1
  <2>3. Cardinality({j \in news : j <= i}) = 1
    BY <2>2, FS_Singleton
  <2>4. i \in page
    BY <1>3, <2>3
  <2>5. QED
    BY <2>4
<1>7. QED
  BY <1>2, <1>3, <1>5, <1>6

\* The client goes on after the page, and every number it passes is that of an
\* entry of the page or of one that is gone.
LEMMA PagesSkipNothing ==
  ASSUME NEW d \in Logs, Numbered(d), NEW after \in Nat, after < d.next,
         NEW limit \in Nat \ {0}, NEW page, page = Page(d, after, limit),
         NEW next, next = NextSequence(d, page)
  PROVE  /\ page \subseteq 1..Len(d.entries)
         /\ next \in Nat /\ after < next /\ next <= d.next
         /\ \A s \in Nat :
              after < s /\ s < next =>
                s < RetainedFrom(d) \/ \E i \in page : d.entries[i].sequence = s
<1>1. PICK news : news = News(d, after)
  OBVIOUS
<1>2. PICK L : L = Len(d.entries)
  OBVIOUS
<1>3. PICK nx : nx = d.next
  OBVIOUS
<1>4. /\ L \in Nat /\ DOMAIN d.entries = 1..L /\ L < nx /\ nx \in Nat
      /\ \A i \in 1..L : d.entries[i].sequence \in Nat
      /\ \A i \in 1..L : d.entries[i].sequence + L + 1 = nx + i
  BY <1>2, <1>3, LogFields DEF Numbered
<1>5. /\ page \subseteq news /\ news \subseteq 1..L
      /\ \A i \in page : \A j \in news : j <= i => j \in page
      /\ news # {} => page # {}
  BY <1>1, <1>2, PagesAreWhole
<1>6. RetainedFrom(d) + L = nx /\ RetainedFrom(d) \in Nat
  BY <1>2, <1>3, RetainedIs
\* A number that is not before the oldest entry is that of an entry.
<1>7. ASSUME NEW s \in Nat, s < nx, ~(s < RetainedFrom(d))
      PROVE  \E i \in 1..L : d.entries[i].sequence = s
  <2>1. PICK i : i = s + L + 1 - nx
    OBVIOUS
  <2>2. i \in 1..L
    BY <1>4, <1>6, <1>7, <2>1
  <2>3. PICK q : q = d.entries[i].sequence
    OBVIOUS
  <2>4. q \in Nat /\ q + L + 1 = nx + i
    BY <1>4, <2>2, <2>3
  <2>5. q = s
    BY <1>4, <2>1, <2>4
  <2>6. QED
    BY <2>2, <2>3, <2>5
<1>8. CASE page = {}
  <2>1. next = nx /\ news = {}
    BY <1>3, <1>5, <1>8 DEF NextSequence
  <2>2. ASSUME NEW s \in Nat, after < s, s < nx
        PROVE  s < RetainedFrom(d)
    <3>1. SUFFICES ASSUME ~(s < RetainedFrom(d)) PROVE FALSE
      OBVIOUS
    <3>2. PICK i \in 1..L : d.entries[i].sequence = s
      BY <1>7, <2>2, <3>1
    <3>3. i \in news
      BY <1>1, <1>4, <2>2, <3>2 DEF News
    <3>4. QED
      BY <2>1, <3>3
  <2>3. QED
    BY <1>2, <1>3, <1>4, <1>5, <2>1, <2>2
<1>9. CASE page # {}
  <2>1. PICK top : top = CHOOSE i \in page : \A j \in page : j <= i
    OBVIOUS
  <2>2. page \in SUBSET (1..L)
    BY <1>5
  <2>3. \E i \in page : \A j \in page : j <= i
    BY <1>4, <1>9, <2>2, Greatest
  <2>4. top \in page /\ \A j \in page : j <= top
    BY <2>1, <2>3
  <2>5. PICK last : last = d.entries[top].sequence
    OBVIOUS
  <2>6. next = last + 1
    BY <1>9, <2>1, <2>5 DEF NextSequence
  <2>7. /\ top \in 1..L /\ top \in news /\ last \in Nat
        /\ last + L + 1 = nx + top /\ last > after
    BY <1>1, <1>4, <1>5, <2>4, <2>5 DEF News
  <2>8. next \in Nat /\ after < next /\ next <= nx
    BY <1>4, <2>6, <2>7
  <2>9. ASSUME NEW s \in Nat, after < s, s < next
        PROVE  s < RetainedFrom(d) \/ \E i \in page : d.entries[i].sequence = s
    <3>1. SUFFICES ASSUME ~(s < RetainedFrom(d))
                   PROVE  \E i \in page : d.entries[i].sequence = s
      OBVIOUS
    <3>2. s < nx
      BY <1>4, <2>8, <2>9
    <3>3. PICK i \in 1..L : d.entries[i].sequence = s
      BY <1>7, <3>1, <3>2
    <3>4. i \in news
      BY <1>1, <1>4, <2>9, <3>3 DEF News
    <3>5. s + L + 1 = nx + i
      BY <1>4, <3>3
    <3>6. i <= top
      BY <1>4, <2>6, <2>7, <2>9, <3>5
    <3>7. QED
      BY <1>5, <2>4, <3>3, <3>4, <3>6
  <2>10. QED
    BY <1>2, <1>3, <2>2, <2>8, <2>9
<1>10. QED
  BY <1>8, <1>9

\* What a read changes: the client alone.
LEMMA ReadIs ==
  ASSUME AuditTypeOK, WriterInv, LogInv, NEW p \in Processes,
         NEW limit \in PageLimits, GetPage(p, limit)
  PROVE  \E d \in Logs :
           /\ d = Authority /\ d = Authority'
           /\ UNCHANGED <<diskVars, lockedBy, processVars, appends, acked>>
           /\ Numbered(d) /\ cursor < d.next
           /\ got' = got \union {d.entries[i] : i \in Page(d, cursor, limit)}
           /\ told' = told \union
                (IF Truncated(d, cursor) THEN (cursor + 1)..(RetainedFrom(d) - 1)
                                         ELSE {})
           /\ cursor' = NextSequence(d, Page(d, cursor, limit)) - 1
<1>1. Loaded(Stored(p)) = Authority
  BY ServesTheAuthority DEF GetPage
<1>2. PICK d : d = Authority
  OBVIOUS
<1>3. /\ got' = got \union {d.entries[i] : i \in Page(d, cursor, limit)}
      /\ told' = told \union
           (IF Truncated(d, cursor) THEN (cursor + 1)..(RetainedFrom(d) - 1)
                                    ELSE {})
      /\ cursor' = NextSequence(d, Page(d, cursor, limit)) - 1
      /\ UNCHANGED <<diskVars, lockedBy, processVars, appends, acked>>
  BY <1>1, <1>2 DEF GetPage
<1>4. Authority' = d
  BY <1>2, <1>3 DEF diskVars, Authority
<1>5. d \in Logs /\ Numbered(d) /\ cursor < d.next
  BY <1>2, AuthorityIsLog DEF LogInv
<1>6. QED
  BY <1>2, <1>3, <1>4, <1>5

LEMMA ReadKeepsLog ==
  ASSUME AuditTypeOK, WriterInv, LogInv, NEW p \in Processes,
         NEW limit \in PageLimits, GetPage(p, limit)
  PROVE  LogInv'
<1>1. PICK d \in Logs :
        /\ d = Authority /\ d = Authority'
        /\ UNCHANGED <<diskVars, lockedBy, processVars, appends, acked>>
        /\ Numbered(d) /\ cursor < d.next
        /\ cursor' = NextSequence(d, Page(d, cursor, limit)) - 1
  BY ReadIs
<1>2. PICK next : next = NextSequence(d, Page(d, cursor, limit))
  OBVIOUS
<1>3. cursor \in Nat /\ limit \in Nat \ {0} /\ d.next \in Nat
  BY AuditAssumption, LogFields DEF AuditTypeOK, Numbers
<1>4. next \in Nat /\ cursor < next /\ next <= d.next
  BY <1>1, <1>2, <1>3, PagesSkipNothing
<1>5. cursor' < d.next
  BY <1>1, <1>2, <1>3, <1>4
<1>6. \A q \in Processes : DraftIsNext(q)'
  <2>1. ASSUME NEW q \in Processes PROVE DraftIsNext(q)'
    <3>1. DraftIsNext(q) /\ UNCHANGED <<file, row, place, draft, appends>>
      BY <1>1 DEF LogInv, diskVars, processVars
    <3>2. CASE place[q] = "APPEND"
      <4>1. PICK n \in 1..appends : Adds(d, n) /\ draft[q] = Appended(d, n)
        BY <1>1, <3>1, <3>2 DEF DraftIsNext
      <4>2. Adds(d, n)'
        BY <3>1, <4>1 DEF Adds
      <4>3. draft'[q] = Appended(d, n) /\ n \in 1..appends'
        BY <3>1, <4>1
      <4>4. QED
        BY <1>1, <3>1, <3>2, <4>2, <4>3 DEF DraftIsNext
    <3>3. CASE place[q] # "APPEND"
      BY <3>1, <3>3 DEF DraftIsNext
    <3>4. QED
      BY <3>2, <3>3
  <2>2. QED
    BY <2>1
<1>7. /\ d.next <= appends' + 1
      /\ \A i \in 1..Len(d.entries) :
           d.entries[i].by <= appends' /\ d.entries[i] \in acked'
  BY <1>1 DEF LogInv
<1>8. Numbered(Authority)'
  BY <1>1 DEF Numbered
<1>9. QED
  BY <1>1, <1>5, <1>6, <1>7, <1>8 DEF LogInv

LEMMA LogStep ==
  AuditTypeOK /\ WriterInv /\ LogInv /\ [AuditNext]_auditVars => LogInv'
<1> SUFFICES ASSUME AuditTypeOK, WriterInv, LogInv, [AuditNext]_auditVars
             PROVE  LogInv'
  OBVIOUS
<1>1. CASE AuditNext
  BY <1>1, AuditCases, WorksKeepLog, CommitKeepsLog, ReadKeepsLog
<1>2. CASE UNCHANGED auditVars
  <2>1. UNCHANGED <<file, row, place, draft, appends, acked, cursor>>
    BY <1>2 DEF auditVars, diskVars, processVars, clientVars
  <2>2. Keeps
    BY <2>1 DEF Keeps, Authority
  <2>3. \A q \in Processes : DraftIsNext(q)'
    BY <2>1, <2>2, DraftsStay
  <2>4. QED
    BY <2>2, <2>3, LogStays
<1>3. QED
  BY <1>1, <1>2

-----------------------------------------------------------------------------
\* Type correctness

LEMMA AuditTypeInit == AuditInit => AuditTypeOK
<1> SUFFICES ASSUME AuditInit PROVE AuditTypeOK
  OBVIOUS
<1>1. 0 \in Numbers
  BY AuditAssumption DEF Numbers
<1>2. NoDoc \in Documents
  BY DEF Documents
<1>3. QED
  BY <1>1, <1>2 DEF AuditInit, AuditTypeOK

LEMMA AuditTypeStep ==
  AuditTypeOK /\ WriterInv /\ LogInv /\ [AuditNext]_auditVars => AuditTypeOK'
<1> SUFFICES ASSUME AuditTypeOK, WriterInv, LogInv, [AuditNext]_auditVars
             PROVE  AuditTypeOK'
  OBVIOUS
<1> USE DEF AuditTypeOK, Numbers, MoveTo, Lock, Unlock, diskVars, clientVars
<1>1. ASSUME NEW p \in Processes, OpenJson(p) \/ OpenSqlite(p) \/ Exit(p)
      PROVE  AuditTypeOK'
  <2>1. CASE OpenJson(p)
    BY <2>1 DEF OpenJson, Documents
  <2>2. CASE OpenSqlite(p)
    BY <2>2 DEF OpenSqlite, Documents
  <2>3. CASE Exit(p)
    BY <2>3 DEF Exit, Documents
  <2>4. QED
    BY <1>1, <2>1, <2>2, <2>3
<1>2. ASSUME NEW p \in Processes, BeginImport(p) \/ CommitImport(p)
      PROVE  AuditTypeOK'
  <2>1. CASE BeginImport(p)
    BY <2>1 DEF BeginImport, Documents
  <2>2. CASE CommitImport(p)
    BY <2>2 DEF CommitImport, Documents
  <2>3. QED
    BY <1>2, <2>1, <2>2
<1>3. ASSUME NEW p \in Processes, BeginAppend(p)
      PROVE  AuditTypeOK'
  <2>1. PICK d : d = Authority
    OBVIOUS
  <2>2. PICK n : n = appends + 1 /\ n = appends'
    BY <1>3 DEF BeginAppend
  <2>3. /\ d \in Logs /\ Numbered(d) /\ d.next <= n
        /\ n \in 1..AppendBound /\ AppendBound \in Nat /\ d.next \in Nat
    BY <1>3, <2>1, <2>2, AuthorityIsLog, AuditAssumption, LogFields
       DEF BeginAppend, LogInv
  <2>a. PICK a : a = Appended(d, n)
    OBVIOUS
  <2>b. d.next <= AppendBound
    BY <2>3
  <2>4. a \in Logs
    BY <2>3, <2>a, <2>b, AppendedLog
  <2>5. draft' = [draft EXCEPT ![p] = a]
    BY <1>3, <2>1, <2>2, <2>a, ServesTheAuthority DEF BeginAppend
  <2>6. draft' \in [Processes -> Documents]
    BY <2>4, <2>5 DEF Documents
  <2>7. lockedBy' \in Processes \union {NoProcess}
    BY <1>3 DEF BeginAppend
  <2>8. /\ appends' \in Numbers
        /\ place' \in [Processes ->
             {"DOWN", "BACKUP", "OPENED", "IMPORT", "IDLE", "APPEND", "REPORT"}]
        /\ UNCHANGED <<diskVars, job, existed, clientVars, acked>>
    BY <1>3, <2>2, <2>3 DEF BeginAppend
  <2>9. QED
    BY <2>6, <2>7, <2>8
<1>4. ASSUME NEW p \in Processes, CommitAppend(p)
      PROVE  AuditTypeOK'
  <2>1. PICK a : a = draft[p]
    OBVIOUS
  <2>2. PICK d : d = Authority
    OBVIOUS
  <2>3. PICK n \in 1..AppendBound :
          a = Appended(d, n) /\ d.next <= AppendBound /\ a \in Logs
    BY <1>4, <2>1, <2>2, DraftIsLog DEF CommitAppend
  <2>4. d \in Logs /\ Numbered(d)
    BY <2>2, AuthorityIsLog DEF LogInv
  <2>a. Len(a.entries) >= 1
    BY <2>3, <2>4, AppendedNumbers
  <2>b. Len(a.entries) \in Nat
    BY <2>3, LogFields
  <2>5. Len(a.entries) \in 1..Len(a.entries)
    BY <2>a, <2>b
  <2>6. a.entries[Len(a.entries)] \in Entries
    BY <2>3, <2>5, LogFields
  <2>7. acked' = acked \union {a.entries[Len(a.entries)]}
    BY <1>4, <2>1 DEF CommitAppend
  <2>8. acked' \subseteq Entries
    BY <2>6, <2>7
  <2>9. /\ file' \in Documents /\ row' \in Documents
        /\ draft' \in [Processes -> Documents]
        /\ lockedBy' \in Processes \union {NoProcess}
        /\ place' \in [Processes ->
             {"DOWN", "BACKUP", "OPENED", "IMPORT", "IDLE", "APPEND", "REPORT"}]
        /\ UNCHANGED <<dbExists, marker, job, existed, appends, clientVars>>
    BY <1>4 DEF CommitAppend, Documents
  <2>10. QED
    BY <2>8, <2>9
<1>5. ASSUME NEW p \in Processes, FailAppend(p)
      PROVE  AuditTypeOK'
  BY <1>5 DEF FailAppend, Documents
<1>6. ASSUME NEW p \in Processes, NEW limit \in PageLimits, GetPage(p, limit)
      PROVE  AuditTypeOK'
  <2>1. PICK d \in Logs :
          /\ UNCHANGED <<diskVars, lockedBy, processVars, appends, acked>>
          /\ Numbered(d) /\ cursor < d.next
          /\ got' = got \union {d.entries[i] : i \in Page(d, cursor, limit)}
          /\ told' = told \union
               (IF Truncated(d, cursor) THEN (cursor + 1)..(RetainedFrom(d) - 1)
                                        ELSE {})
          /\ cursor' = NextSequence(d, Page(d, cursor, limit)) - 1
    BY <1>6, ReadIs
  <2>2. PICK next : next = NextSequence(d, Page(d, cursor, limit))
    OBVIOUS
  <2>3. /\ cursor \in Nat /\ limit \in Nat \ {0} /\ AppendBound \in Nat
        /\ d.next \in 1..(AppendBound + 1)
    BY AuditAssumption, LogFields
  <2>4. /\ Page(d, cursor, limit) \subseteq 1..Len(d.entries)
        /\ next \in Nat /\ cursor < next /\ next <= d.next
    BY <2>1, <2>2, <2>3, PagesSkipNothing
  <2>5. \A i \in Page(d, cursor, limit) : d.entries[i] \in Entries
    BY <2>4, LogFields
  <2>6. got' \subseteq Entries
    BY <2>1, <2>5
  <2>7. cursor' \in 0..AppendBound
    BY <2>1, <2>2, <2>3, <2>4
  <2>8. PICK from : from = RetainedFrom(d)
    OBVIOUS
  <2>9. from \in Nat /\ from + Len(d.entries) = d.next /\ Len(d.entries) \in Nat
    BY <2>1, <2>8, RetainedIs, LogFields
  <2>10. (cursor + 1)..(from - 1) \subseteq 1..AppendBound
    BY <2>3, <2>9
  <2>11. told' \subseteq 1..AppendBound
    BY <2>1, <2>8, <2>10
  <2>12. QED
    BY <2>1, <2>6, <2>7, <2>11 DEF processVars
<1>7. ASSUME NEW p \in Processes,
             StartCutover(p) \/ OpenCutover(p) \/ ReportCutover(p)
      PROVE  AuditTypeOK'
  BY <1>7 DEF StartCutover, OpenCutover, ReportCutover, Accepted
<1>8. CASE UNCHANGED auditVars
  BY <1>8 DEF auditVars, processVars
<1>9. QED
  BY <1>1, <1>2, <1>3, <1>4, <1>5, <1>6, <1>7, <1>8 DEF AuditNext

-----------------------------------------------------------------------------
\* Theorems

\* AuditTypeOK: every state of every behaviour is well typed, for any number of
\* processes, any limits and faults.
THEOREM AuditTypeCorrect == AuditSpec => []AuditTypeOK
  BY AuditTypeInit, AuditTypeStep, WriterInit, WriterStep, LogInit, LogStep, PTL
     DEF AuditSpec

LEMMA ReadStep ==
  AuditTypeOK /\ WriterInv /\ LogInv /\ ReadersMissNothing /\ [AuditNext]_auditVars
    => ReadersMissNothing'
<1> SUFFICES ASSUME AuditTypeOK, WriterInv, LogInv, ReadersMissNothing,
                    [AuditNext]_auditVars
             PROVE  ReadersMissNothing'
  OBVIOUS
<1>1. ASSUME NEW p \in Processes, NEW limit \in PageLimits, GetPage(p, limit)
      PROVE  ReadersMissNothing'
  <2>1. PICK d \in Logs :
          /\ d = Authority /\ UNCHANGED acked
          /\ Numbered(d) /\ cursor < d.next
          /\ got' = got \union {d.entries[i] : i \in Page(d, cursor, limit)}
          /\ told' = told \union
               (IF Truncated(d, cursor) THEN (cursor + 1)..(RetainedFrom(d) - 1)
                                        ELSE {})
          /\ cursor' = NextSequence(d, Page(d, cursor, limit)) - 1
    BY <1>1, ReadIs
  <2>2. PICK page : page = Page(d, cursor, limit)
    OBVIOUS
  <2>3. PICK next : next = NextSequence(d, page)
    OBVIOUS
  <2>4. PICK from : from = RetainedFrom(d)
    OBVIOUS
  <2>5. cursor \in Nat /\ limit \in Nat \ {0} /\ d.next \in Nat
    BY AuditAssumption, LogFields DEF AuditTypeOK, Numbers
  <2>b. Numbered(d) /\ cursor < d.next
    BY <2>1
  <2>a. /\ page \subseteq 1..Len(d.entries)
        /\ next \in Nat /\ cursor < next
        /\ \A s \in Nat :
             cursor < s /\ s < next =>
               s < RetainedFrom(d) \/ \E i \in page : d.entries[i].sequence = s
    BY <2>b, <2>2, <2>3, <2>5, PagesSkipNothing
  <2>6. /\ page \subseteq 1..Len(d.entries)
        /\ next \in Nat /\ cursor < next
        /\ \A s \in Nat :
             cursor < s /\ s < next =>
               s < from \/ \E i \in page : d.entries[i].sequence = s
    BY <2>4, <2>a
  <2>7. from \in Nat /\ from + Len(d.entries) = d.next /\ Len(d.entries) \in Nat
    BY <2>1, <2>4, RetainedIs, LogFields
  <2>8. \A i \in page : d.entries[i] \in acked' /\ d.entries[i] \in got'
    BY <2>1, <2>2, <2>6 DEF LogInv
  <2>9. ASSUME NEW s \in 1..cursor'
        PROVE  s \in told' \/ \E e \in got' \intersect acked' : e.sequence = s
    <3>1. s \in Nat \ {0} /\ s < next
      BY <2>1, <2>2, <2>3, <2>6
    <3>2. CASE s <= cursor
      <4>1. s \in told \/ \E e \in got \intersect acked : e.sequence = s
        BY <2>5, <3>1, <3>2 DEF ReadersMissNothing
      <4>2. told \subseteq told' /\ got \subseteq got' /\ acked' = acked
        BY <2>1
      <4>3. QED
        BY <4>1, <4>2
    <3>3. CASE cursor < s /\ s < from
      <4>1. Truncated(d, cursor)
        BY <2>4, <2>5, <2>7, <3>1, <3>3 DEF Truncated
      <4>2. s \in (cursor + 1)..(from - 1)
        BY <2>5, <2>7, <3>1, <3>3
      <4>3. QED
        BY <2>1, <2>4, <4>1, <4>2
    <3>4. CASE cursor < s /\ ~(s < from)
      <4>1. PICK i \in page : d.entries[i].sequence = s
        BY <2>6, <3>1, <3>4
      <4>2. QED
        BY <2>8, <4>1
    <3>5. QED
      BY <2>5, <3>1, <3>2, <3>3, <3>4
  <2>10. QED
    BY <2>9 DEF ReadersMissNothing
<1>2. ASSUME NEW p \in Processes, CommitAppend(p)
      PROVE  ReadersMissNothing'
  <2>1. UNCHANGED <<cursor, got, told>> /\ acked \subseteq acked'
    BY <1>2 DEF CommitAppend, clientVars
  <2>2. QED
    BY <2>1 DEF ReadersMissNothing
<1>3. ASSUME NEW p \in Processes, Works(p)
      PROVE  ReadersMissNothing'
  <2>1. UNCHANGED <<cursor, got, told, acked>>
    BY <1>3 DEF Works, OpenJson, OpenSqlite, Exit, BeginImport, CommitImport,
      BeginAppend, FailAppend, StartCutover, OpenCutover, ReportCutover, clientVars
  <2>2. QED
    BY <2>1 DEF ReadersMissNothing
<1>4. CASE UNCHANGED auditVars
  BY <1>4 DEF auditVars, clientVars, ReadersMissNothing
<1>5. QED
  BY <1>1, <1>2, <1>3, <1>4, AuditCases

\* ReadersMissNothing: however processes append, import, cut over, fail and
\* end, a client that follows next_sequence has received every entry up to its
\* cursor or was told that it is gone.
THEOREM ReadersGetEverything == AuditSpec => []ReadersMissNothing
<1>1. AuditInit => ReadersMissNothing
  BY DEF AuditInit, ReadersMissNothing
<1>2. QED
  BY <1>1, AuditTypeInit, AuditTypeStep, WriterInit, WriterStep, LogInit, LogStep,
     ReadStep, PTL DEF AuditSpec

-----------------------------------------------------------------------------
\* The store keeps the contract

LEMMA AuditContractInit == AuditInit => Contract!Init
<1> SUFFICES ASSUME AuditInit PROVE Contract!Init
  OBVIOUS
<1>1. PICK d : d = [next |-> 1, entries |-> <<>>]
  OBVIOUS
<1>2. Authority = d /\ d.next = 1 /\ d.entries = <<>>
  BY <1>1 DEF AuditInit, Authority, Loaded, EmptyLog
<1>3. [i \in DOMAIN d.entries |-> d.entries[i].by] = <<>>
  BY <1>2
<1>4. QED
  BY <1>2, <1>3 DEF Contract!Init

LEMMA AuditContractStep ==
  AuditTypeOK /\ WriterInv /\ LogInv /\ [AuditNext]_auditVars
    => [Contract!Next]_(Contract!contractVars)
<1> SUFFICES ASSUME AuditTypeOK, WriterInv, LogInv, [AuditNext]_auditVars
             PROVE  [Contract!Next]_(Contract!contractVars)
  OBVIOUS
<1>1. ASSUME Authority' = Authority
      PROVE  [Contract!Next]_(Contract!contractVars)
  BY <1>1 DEF Contract!contractVars
<1>2. ASSUME NEW p \in Processes, CommitAppend(p)
      PROVE  [Contract!Next]_(Contract!contractVars)
  <2>1. PICK d : d = Authority
    OBVIOUS
  <2>2. PICK n \in 1..AppendBound :
          /\ Adds(d, n) /\ draft[p] = Appended(d, n) /\ d.next <= AppendBound
    BY <1>2, <2>1, DraftIsLog DEF CommitAppend, MoveTo
  <2>3. PICK a : a = Appended(d, n)
    OBVIOUS
  <2>4. Authority' = a
    BY <1>2, <2>2, <2>3, AppendCommits
  <2>5. d \in Logs /\ Numbered(d) /\ d.next \in Nat
    BY <2>1, AuthorityIsLog, LogFields DEF LogInv
  <2>6. a.next = d.next + 1
    BY <2>2, <2>3, <2>5, AppendedLog
  <2>7. Said(a) = IF Len(Append(Said(d), n)) > MaxEntries
                    THEN Tail(Append(Said(d), n)) ELSE Append(Said(d), n)
    BY <2>2, <2>3, <2>5, AppendedSays
  <2>8. \A i \in DOMAIN Said(d) : Said(d)[i] # n
    BY <2>2, <2>5, SaidIs DEF Adds
  <2>9. a.next - 1 = (d.next - 1) + 1
    BY <2>5, <2>6
  <2>10. Contract!Add(n)
    BY <2>1, <2>4, <2>7, <2>8, <2>9 DEF Contract!Add, Said
  <2>11. QED
    BY <2>10 DEF Contract!Next
<1>3. ASSUME NEW p \in Processes, Works(p)
      PROVE  Authority' = Authority
  BY <1>3, WorksKeep DEF Keeps
<1>4. ASSUME NEW p \in Processes, NEW limit \in PageLimits, GetPage(p, limit)
      PROVE  Authority' = Authority
  BY <1>4, ReadIs
<1>5. ASSUME UNCHANGED auditVars
      PROVE  Authority' = Authority
  BY <1>5 DEF auditVars, diskVars, Authority
<1>6. QED
  BY <1>1, <1>2, <1>3, <1>4, <1>5, AuditCases

\* KeepsAuditContract: whichever backend holds the log, and over any import,
\* cutover, crash and failed transaction, entries are added one at a time at
\* the end, none twice, and only the oldest of a full log are dropped.
THEOREM StoreKeepsTheContract == AuditSpec => KeepsAuditContract
  BY AuditTypeInit, AuditTypeStep, WriterInit, WriterStep, LogInit, LogStep,
     AuditContractInit, AuditContractStep, PTL DEF AuditSpec, KeepsAuditContract, Contract!Spec
=============================================================================
