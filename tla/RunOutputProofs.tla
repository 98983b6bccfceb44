--------------------------- MODULE RunOutputProofs ---------------------------
(* Proofs about RunOutput, for any sizes of chunks and tails and any number   *)
(* of chunks: types, that a reader who follows the cursor misses no output    *)
(* unknowingly, and that an end it is told is the end.                        *)
EXTENDS RunOutput, SequenceTheorems, TLAPS

\* A step of RunOutput.
LEMMA OutputCases ==
  ASSUME [OutputNext]_outputVars
  PROVE  \/ UNCHANGED outputVars
         \/ \E parts \in DataEvents : OnData(parts)
         \/ OnOutputClose
         \/ SourceMoves \/ OwnerLeaves
         \/ ReadRecord \/ InterruptLostOwner
         \/ \E view \in OutputViews, to \in Cursors : ReadPage(view, to)
         \/ \E view \in OutputViews, to, c \in Cursors : TailPage(c, view, to)
         \/ TailThrows
  BY DEF OutputNext

-----------------------------------------------------------------------------
(* The floor of a record is never beyond the chunks there are, and a record  *)
(* that has ended has all of them, because its pipes had closed.             *)

OutputInv ==
  /\ live.first <= Len(ends)
  /\ disk.first <= disk.next /\ disk.next <= Len(ends)
  /\ loaded # NoRecord =>
       /\ loaded.first <= loaded.next /\ loaded.next <= Len(ends)
       /\ loaded.status = "RUNNING"
  /\ live.status = "ENDED" => pipe = "CLOSED"
  /\ disk.status = "ENDED" => pipe = "CLOSED" /\ disk.next = Len(ends)
  /\ reader.ended => pipe = "CLOSED" /\ reader.cursor = Len(ends)

LEMMA NoRecordIsNone == NoRecord \notin Records
<1>1. NoRecord.status = "NONE" /\ \A r \in Records : r.status # "NONE"
  BY DEF NoRecord, Records, Outcomes
<1>2. QED
  BY <1>1

\* A data event makes a longer sequence of chunks, with more bytes.
LEMMA DataAppends ==
  ASSUME OutputTypeOK, NEW parts \in DataEvents, NEW all, all = Extended(ends, parts)
  PROVE  /\ all \in Seq(Nat) /\ Len(ends) \in Nat /\ Len(all) \in Nat
         /\ Len(ends) < Len(all)
         /\ BytesBefore(ends, Len(ends)) \in Nat
         /\ BytesBefore(all, Len(all)) > BytesBefore(ends, Len(ends))
<1>1. ends \in Seq(Nat) /\ Len(ends) \in Nat
  BY LenProperties DEF OutputTypeOK
<1>2. PICK bytes : bytes = BytesBefore(ends, Len(ends))
  OBVIOUS
<1>3. bytes \in Nat
  BY <1>1, <1>2, ElementOfSeq DEF BytesBefore
<1>4. /\ parts \in Seq(Nat) /\ Len(parts) \in {1, 2} /\ DOMAIN parts = 1..Len(parts)
      /\ \A i \in 1..Len(parts) : parts[i] \in Nat \ {0}
  <2>1. CASE \E a \in 1..ChunkBytes : parts = <<a>>
    BY <2>1, OutputAssumption
  <2>2. CASE \E a, b \in 1..ChunkBytes : parts = <<a, a + b>>
    BY <2>2, OutputAssumption
  <2>3. QED
    BY <2>1, <2>2 DEF DataEvents
<1> DEFINE end(i) == bytes + parts[i]
           more == [i \in 1..Len(parts) |-> end(i)]
<1>5. \A i \in 1..Len(parts) : end(i) \in Nat /\ end(i) > bytes
  BY <1>3, <1>4
<1> HIDE DEF end
<1>6. more \in Seq(Nat) /\ Len(more) = Len(parts)
      /\ \A i \in 1..Len(parts) : more[i] = end(i)
  <2>1. Len(parts) \in Nat
    BY <1>4
  <2>2. more \in Seq(Nat)
    BY <1>5, <2>1, IsASeq
  <2>3. QED
    BY <2>1, <2>2, LenProperties
<1>7. all = ends \o more
  BY <1>2, <1>4 DEF Extended, end
<1> HIDE DEF more
<1>8. PICK l : l = Len(ends) + Len(parts)
  OBVIOUS
<1>a. l \in Nat /\ Len(ends) < l /\ l - Len(ends) = Len(parts) /\ l \in 1..l
  BY <1>1, <1>4, <1>8
<1>b. /\ all \in Seq(Nat) /\ Len(all) = Len(ends) + Len(more)
      /\ \A i \in 1..(Len(ends) + Len(more)) :
           all[i] = IF i <= Len(ends) THEN ends[i] ELSE more[i - Len(ends)]
  <2>1. PICK m \in Seq(Nat) : m = more
    BY <1>6
  <2>2. /\ ends \o m \in Seq(Nat) /\ Len(ends \o m) = Len(ends) + Len(m)
        /\ \A i \in 1..(Len(ends) + Len(m)) :
             (ends \o m)[i] = IF i <= Len(ends) THEN ends[i] ELSE m[i - Len(ends)]
    BY <1>1, ConcatProperties
  <2>3. all = ends \o m
    BY <1>7, <2>1
  <2>4. QED
    BY <2>1, <2>2, <2>3
<1>c. Len(all) = l /\ all[l] = more[Len(parts)]
  BY <1>1, <1>6, <1>8, <1>a, <1>b
<1>9. /\ all \in Seq(Nat) /\ Len(all) = l /\ all[l] = end(Len(parts))
      /\ l \in Nat /\ Len(ends) < l
  BY <1>4, <1>6, <1>a, <1>b, <1>c
<1>10. BytesBefore(all, Len(all)) = end(Len(parts))
  BY <1>1, <1>9 DEF BytesBefore
<1>11. end(Len(parts)) > bytes
  BY <1>4, <1>5
<1>12. QED
  BY <1>1, <1>2, <1>3, <1>9, <1>10, <1>11

\* What SaveOutput makes of a record in memory.
LEMMA SaveOutputs ==
  ASSUME NEW s, NEW memory, Len(s) \in Cursors,
         memory \in [first : Cursors, cut : BOOLEAN, reported : BOOLEAN,
                     status : {"RUNNING", "ENDED"}],
         memory.first <= Len(s),
         SaveOutput(s, memory)
  PROVE  /\ disk' \in Records
         /\ disk'.first <= disk'.next /\ disk'.next = Len(s)
         /\ disk'.status = memory.status
         /\ live' \in [first : Cursors, cut : BOOLEAN, reported : BOOLEAN,
                       status : {"RUNNING", "ENDED"}]
         /\ live'.first = memory.first /\ live'.status = memory.status
<1>1. PICK w \in memory.first..Len(s) :
        /\ disk' = Durable(s, memory, w)
        /\ live' = [memory EXCEPT !.reported = disk'.cut]
  BY DEF SaveOutput
<1> DEFINE partial == w > memory.first /\ BytesFrom(s, w) < DurableBytes
           from == IF partial THEN w - 1 ELSE w
           cut == memory.cut \/ memory.first > 0 \/ w > memory.first
<1>2. /\ memory.first \in Nat /\ Len(s) \in Nat /\ Len(s) <= ChunkBound
      /\ w \in Nat /\ memory.first <= w /\ w <= Len(s)
  BY OutputAssumption DEF Cursors
<1>3. from \in Cursors /\ from <= Len(s)
  BY <1>2, OutputAssumption DEF Cursors
<1>4. disk' = [first |-> from, next |-> Len(s), partial |-> partial,
               cut |-> cut, status |-> memory.status]
  BY <1>1 DEF Durable
<1>5. partial \in BOOLEAN /\ cut \in BOOLEAN
  OBVIOUS
<1> HIDE DEF partial, from, cut
<1>6. /\ disk'.first = from /\ disk'.next = Len(s) /\ disk'.cut = cut
      /\ disk'.status = memory.status /\ disk' \in Records
  BY <1>3, <1>4, <1>5 DEF Records, Outcomes
<1>7. QED
  BY <1>1, <1>3, <1>5, <1>6

LEMMA OutputTypeInit == OutputInit => OutputTypeOK /\ OutputInv
<1> SUFFICES ASSUME OutputInit PROVE OutputTypeOK /\ OutputInv
  OBVIOUS
<1>1. ends \in Seq(Nat) /\ Len(ends) = 0
  BY EmptySeq DEF OutputInit
<1>2. 0 \in Cursors
  BY OutputAssumption DEF Cursors
<1>3. disk \in Records
  BY <1>2 DEF OutputInit, Records, Outcomes
<1>4. OutputTypeOK
  BY <1>1, <1>2, <1>3, OutputAssumption DEF OutputInit, OutputTypeOK, Outcomes
<1>5. OutputInv
  BY <1>1 DEF OutputInit, OutputInv
<1>6. QED
  BY <1>4, <1>5

\* What the views that a reader may be given have in common.
LEMMA ViewsAreSound ==
  ASSUME OutputTypeOK, OutputInv, NEW view \in OutputViews
  PROVE  /\ view.first \in Cursors /\ view.next \in Cursors
         /\ view.partial \in BOOLEAN /\ view.flagged \in BOOLEAN
         /\ view.status \in Outcomes
         /\ view.first <= view.next
         /\ view.status = "ENDED" => pipe = "CLOSED" /\ view.next = Len(ends)
<1>1. Len(ends) \in Cursors
  BY LenProperties, OutputAssumption DEF OutputTypeOK, Cursors
<1>2. CASE view = LiveView
  BY <1>1, <1>2 DEF OutputTypeOK, OutputInv, LiveView, Outcomes
<1>3. CASE view = StoredView
  BY <1>3 DEF OutputTypeOK, OutputInv, StoredView, Records, Outcomes
<1>4. QED
  BY <1>2, <1>3 DEF OutputViews

\* Where a page starts and ends.
LEMMA PageIsInside ==
  ASSUME NEW c \in Cursors, NEW to \in Cursors, NEW view,
         view.first \in Cursors, view.next \in Cursors, PageEndsAt(c, view, to)
  PROVE  /\ EffectiveCursor(c, view) \in Cursors
         /\ EffectiveCursor(c, view) <= to /\ to <= view.next
         /\ PageChunks(c, view, to) \subseteq Cursors
         /\ GoneBefore(c, view) \subseteq Cursors
         /\ Incomplete(c, view, to) \subseteq PageChunks(c, view, to)
<1>1. /\ EffectiveCursor(c, view) \in Cursors
      /\ EffectiveCursor(c, view) <= to /\ to <= view.next
  BY OutputAssumption DEF PageEndsAt, EffectiveCursor, Cursors
<1>2. PageChunks(c, view, to) \subseteq Cursors
  BY <1>1, OutputAssumption DEF PageChunks, Cursors
<1>3. GoneBefore(c, view) \subseteq Cursors
  BY OutputAssumption DEF GoneBefore, Cursors
<1>4. Incomplete(c, view, to) \subseteq PageChunks(c, view, to)
  BY DEF Incomplete
<1>5. QED
  BY <1>1, <1>2, <1>3, <1>4

LEMMA OutputStep ==
  OutputTypeOK /\ OutputInv /\ [OutputNext]_outputVars
    => OutputTypeOK' /\ OutputInv'
<1> SUFFICES ASSUME OutputTypeOK, OutputInv, [OutputNext]_outputVars
             PROVE  OutputTypeOK' /\ OutputInv'
  OBVIOUS
<1> DEFINE Memories == [first : Cursors, cut : BOOLEAN, reported : BOOLEAN,
                        status : {"RUNNING", "ENDED"}]
<1>a. Len(ends) \in Nat /\ Len(ends) \in Cursors /\ live \in Memories
  BY LenProperties, OutputAssumption DEF OutputTypeOK, Cursors
<1>1. CASE UNCHANGED outputVars
  BY <1>1 DEF outputVars, OutputTypeOK, OutputInv
<1>2. ASSUME NEW parts \in DataEvents, OnData(parts)
      PROVE OutputTypeOK' /\ OutputInv'
  <2>a. PICK all : all = Extended(ends, parts)
    OBVIOUS
  <2>1. PICK g \in live.first..(Len(all) - 1) :
          SaveOutput(all, [live EXCEPT !.first = g, !.cut = @ \/ g > live.first])
    BY <1>2, <2>a DEF OnData
  <2> DEFINE memory == [live EXCEPT !.first = g, !.cut = @ \/ g > live.first]
  <2>2. /\ all \in Seq(Nat) /\ Len(all) \in Cursors
        /\ Len(ends) < Len(all) /\ Len(all) <= ChunkBound
        /\ ends' = all /\ pipe # "CLOSED"
        /\ UNCHANGED <<pipe, ownerState, loaded, reader, tail>>
    BY <1>2, <2>a, DataAppends, OutputAssumption DEF OnData, Cursors
  <2>3. g \in Cursors /\ g <= Len(all)
    BY <2>2, OutputAssumption DEF Cursors, OutputTypeOK
  <2>4. memory \in Memories /\ memory.first = g /\ memory.status = live.status
    BY <1>a, <2>3
  <2> HIDE DEF memory
  <2>5. SaveOutput(all, memory) /\ memory.first <= Len(all)
    BY <2>1, <2>3, <2>4 DEF memory
  <2>6. /\ disk' \in Records /\ live' \in Memories
        /\ disk'.first <= disk'.next /\ disk'.next = Len(all)
        /\ disk'.status = live.status
        /\ live'.first = g /\ live'.status = live.status
    BY <2>2, <2>4, <2>5, SaveOutputs
  <2>7. OutputTypeOK'
    BY <2>2, <2>6 DEF OutputTypeOK
  <2>8. live.status # "ENDED" /\ ~reader.ended
    BY <2>2 DEF OutputInv
  <2>9. loaded # NoRecord => loaded.next <= Len(all)
    BY <1>a, <2>2, NoRecordIsNone, OutputAssumption
       DEF OutputInv, OutputTypeOK, Records, Cursors
  <2>10. OutputInv'
    BY <1>a, <2>2, <2>3, <2>6, <2>8, <2>9, OutputAssumption
       DEF OutputInv, Cursors
  <2>11. QED
    BY <2>7, <2>10
<1>3. CASE OnOutputClose
  <2> DEFINE memory == [live EXCEPT !.status = "ENDED"]
  <2>1. /\ memory \in Memories /\ memory.first = live.first
        /\ memory.status = "ENDED"
    BY <1>a
  <2> HIDE DEF memory
  <2>2. /\ SaveOutput(ends, memory) /\ pipe = "CLOSED"
        /\ UNCHANGED <<ends, pipe, ownerState, loaded, reader, tail>>
    BY <1>3 DEF OnOutputClose, memory
  <2>3. /\ disk' \in Records /\ live' \in Memories
        /\ disk'.first <= disk'.next /\ disk'.next = Len(ends)
        /\ live'.first = live.first
    BY <1>a, <2>1, <2>2, SaveOutputs DEF OutputInv
  <2>4. QED
    BY <1>a, <2>2, <2>3 DEF OutputTypeOK, OutputInv
<1>4. CASE SourceMoves \/ OwnerLeaves \/ ReadRecord
  BY <1>4, NoRecordIsNone
     DEF SourceMoves, OwnerLeaves, ReadRecord, OutputTypeOK, OutputInv
<1>5. CASE InterruptLostOwner
  <2>1. loaded \in Records
    BY <1>5 DEF InterruptLostOwner, OutputTypeOK
  <2> DEFINE cut == loaded.first > 0
             lost == [loaded EXCEPT !.status = "INTERRUPTED", !.cut = cut]
  <2>2. cut \in BOOLEAN
    OBVIOUS
  <2>3. /\ disk' = disk \/ disk' = lost
        /\ UNCHANGED <<ends, pipe, ownerState, live, reader, tail>>
        /\ loaded' = NoRecord /\ loaded # NoRecord
    BY <1>5 DEF InterruptLostOwner
  <2> HIDE DEF cut
  <2>4. /\ lost \in Records /\ lost.first = loaded.first
        /\ lost.next = loaded.next /\ lost.status = "INTERRUPTED"
    BY <2>1, <2>2 DEF Records, Outcomes
  <2> HIDE DEF lost
  <2>5. OutputTypeOK'
    BY <2>3, <2>4 DEF OutputTypeOK
  <2>6. OutputInv'
    BY <2>3, <2>4 DEF OutputInv
  <2>7. QED
    BY <2>5, <2>6
<1>6. ASSUME NEW view \in OutputViews, NEW to \in Cursors, ReadPage(view, to)
      PROVE OutputTypeOK' /\ OutputInv'
  <2> DEFINE c == reader.cursor
  <2>1. c \in Cursors /\ PageEndsAt(c, view, to)
    BY <1>6 DEF ReadPage, OutputTypeOK
  <2>2. /\ PageChunks(c, view, to) \subseteq Cursors
        /\ GoneBefore(c, view) \subseteq Cursors
        /\ Incomplete(c, view, to) \subseteq Cursors
    BY <2>1, PageIsInside, ViewsAreSound
  <2>3. /\ reader'.cursor = to
        /\ reader'.ended = (view.status = "ENDED" /\ to = view.next)
    BY <1>6 DEF ReadPage
  <2>4. reader' \in [cursor : Cursors, got : SUBSET Cursors,
                     told : SUBSET Cursors, ended : BOOLEAN]
    BY <1>6, <2>2 DEF ReadPage, OutputTypeOK
  <2>5. UNCHANGED <<ends, pipe, ownerState, live, disk, loaded, tail>>
    BY <1>6 DEF ReadPage
  <2>6. reader'.ended => pipe = "CLOSED" /\ to = Len(ends)
    BY <2>3, ViewsAreSound
  <2>7. QED
    BY <2>3, <2>4, <2>5, <2>6 DEF OutputTypeOK, OutputInv
<1>7. ASSUME NEW view \in OutputViews, NEW to \in Cursors, NEW c \in Cursors,
             TailPage(c, view, to)
      PROVE OutputTypeOK' /\ OutputInv'
  <2>1. TruncatedBeforeCursor(c, view) \in BOOLEAN
    BY DEF TruncatedBeforeCursor
  <2>2. tail' \in [at : {"IDLE", "PAGING", "DONE"}, cursor : Cursors,
                   lost : BOOLEAN, flagged : BOOLEAN, status : Outcomes]
    BY <1>7, <2>1, ViewsAreSound DEF TailPage
  <2>3. QED
    BY <1>7, <2>2 DEF TailPage, OutputTypeOK, OutputInv
<1>8. CASE TailThrows
  BY <1>8 DEF TailThrows, OutputTypeOK, OutputInv
<1>9. QED
  BY <1>1, <1>2, <1>3, <1>4, <1>5, <1>6, <1>7, <1>8, OutputCases

\* The records and what readers know keep their types.
THEOREM OutputTypeCorrect == OutputSpec => []OutputTypeOK
  BY OutputTypeInit, OutputStep, PTL DEF OutputSpec

\* Whoever answers, and whatever becomes of the Run later: an end that a client
\* was told is the end of what the child wrote.
THEOREM EndsAreFinal == OutputSpec => []EndIsTheEnd
<1>1. OutputInv => EndIsTheEnd
  BY DEF OutputInv, EndIsTheEnd
<1>2. QED
  BY <1>1, OutputTypeInit, OutputStep, PTL DEF OutputSpec

-----------------------------------------------------------------------------
\* A page delivers, or calls gone, all chunks from its cursor to its end.
LEMMA PageCovers ==
  ASSUME OutputTypeOK, OutputInv, NEW view \in OutputViews,
         NEW c \in Cursors, NEW to \in Cursors, PageEndsAt(c, view, to)
  PROVE  \A x \in c..(to - 1) :
           x \in PageChunks(c, view, to) \union GoneBefore(c, view)
<1>1. view.first \in Nat /\ c \in Nat /\ to \in Nat
  BY ViewsAreSound, OutputAssumption DEF Cursors
<1>2. CASE c < view.first
  BY <1>1, <1>2 DEF PageChunks, GoneBefore, EffectiveCursor,
                    TruncatedBeforeCursor
<1>3. CASE ~(c < view.first)
  BY <1>1, <1>3 DEF PageChunks, EffectiveCursor
<1>4. QED
  BY <1>2, <1>3

LEMMA ReadersStep ==
  OutputTypeOK /\ OutputInv /\ ReadersMissNoOutput /\ [OutputNext]_outputVars
    => ReadersMissNoOutput'
<1> SUFFICES ASSUME OutputTypeOK, OutputInv, ReadersMissNoOutput,
                    [OutputNext]_outputVars
             PROVE  ReadersMissNoOutput'
  OBVIOUS
<1>1. CASE UNCHANGED reader
  BY <1>1 DEF ReadersMissNoOutput
<1>2. ASSUME NEW view \in OutputViews, NEW to \in Cursors, ReadPage(view, to)
      PROVE ReadersMissNoOutput'
  <2> DEFINE c == reader.cursor
  <2>1. c \in Cursors /\ c \in Nat /\ to \in Nat /\ PageEndsAt(c, view, to)
    BY <1>2, OutputAssumption DEF ReadPage, OutputTypeOK, Cursors
  <2>2. /\ reader'.cursor = to
        /\ reader.got \union (PageChunks(c, view, to) \ Incomplete(c, view, to))
             \subseteq reader'.got
        /\ reader.told \union Incomplete(c, view, to) \union GoneBefore(c, view)
             \subseteq reader'.told
    BY <1>2 DEF ReadPage
  <2>3. \A x \in c..(to - 1) : x \in reader'.got \union reader'.told
    BY <2>1, <2>2, PageCovers
  <2>4. \A x \in 0..(c - 1) : x \in reader'.got \union reader'.told
    BY <2>2 DEF ReadersMissNoOutput
  <2>5. \A x \in 0..(to - 1) : x \in 0..(c - 1) \/ x \in c..(to - 1)
    BY <2>1
  <2>6. QED
    BY <2>2, <2>3, <2>4, <2>5 DEF ReadersMissNoOutput
<1>3. CASE \/ \E parts \in DataEvents : OnData(parts)
           \/ OnOutputClose \/ SourceMoves \/ OwnerLeaves
           \/ ReadRecord \/ InterruptLostOwner
           \/ \E view \in OutputViews, to, c \in Cursors :
                TailPage(c, view, to)
           \/ TailThrows
  BY <1>1, <1>3 DEF OnData, OnOutputClose, SourceMoves, OwnerLeaves,
                    ReadRecord, InterruptLostOwner, TailPage, TailThrows
<1>4. CASE UNCHANGED outputVars
  BY <1>1, <1>4 DEF outputVars
<1>5. QED
  BY <1>2, <1>3, <1>4, OutputCases

\* A client that follows next_cursor has received every chunk before it whole,
\* or knows which it lacks, for any sizes of the tails that are kept.
THEOREM ReadersAreTold == OutputSpec => []ReadersMissNoOutput
<1>1. OutputInit => ReadersMissNoOutput
  BY DEF OutputInit, ReadersMissNoOutput
<1>2. QED
  BY <1>1, OutputTypeInit, OutputStep, ReadersStep, PTL DEF OutputSpec

-----------------------------------------------------------------------------
(* What is cut stays marked.  A record in memory or on the disk that lacks   *)
(* output makes the owner's answers say so from then on, because the bytes   *)
(* of a Run only grow: what did not fit once never fits again.               *)

Marked == live.cut \/ live.reported
AllBytes == BytesBefore(ends, Len(ends))

TailInv ==
  /\ live.first > 0 => live.cut
  /\ live.reported /\ ~live.cut => AllBytes > DurableBytes
  /\ disk.partial \/ disk.first > 0 => Marked
  /\ loaded # NoRecord => (loaded.partial \/ loaded.first > 0 => Marked)
  /\ Marked /\ disk.status # "INTERRUPTED" => disk.cut
  /\ tail.at # "IDLE" /\ tail.lost => Marked

LEMMA TailInit == OutputInit => TailInv
  BY DEF OutputInit, TailInv, Marked, NoRecord

\* SaveOutput keeps the mark, and gives it to a record that is cut.
LEMMA SaveMarks ==
  ASSUME NEW s, NEW memory, Len(s) \in Nat,
         memory \in [first : Cursors, cut : BOOLEAN, reported : BOOLEAN,
                     status : {"RUNNING", "ENDED"}],
         memory.first <= Len(s), memory.first > 0 => memory.cut,
         BytesBefore(s, Len(s)) \in Nat,
         SaveOutput(s, memory)
  PROVE  /\ live'.first = memory.first /\ live'.cut = memory.cut
         /\ live'.reported = disk'.cut
         /\ memory.cut => disk'.cut
         /\ BytesBefore(s, Len(s)) > DurableBytes => disk'.cut
         /\ disk'.cut /\ ~memory.cut => BytesBefore(s, Len(s)) > DurableBytes
         /\ disk'.partial \/ disk'.first > 0 => disk'.cut
<1>1. PICK w \in memory.first..Len(s) :
        /\ KeepsFrom(s, memory.first, w)
        /\ disk' = Durable(s, memory, w)
        /\ live' = [memory EXCEPT !.reported = disk'.cut]
  BY DEF SaveOutput
<1>2. PICK f : f = memory.first
  OBVIOUS
<1>3. f \in Nat /\ w \in Nat /\ f <= w /\ w <= Len(s)
  BY <1>1, <1>2, OutputAssumption DEF Cursors
<1>4. PICK partial \in BOOLEAN :
        partial = (w > memory.first /\ BytesFrom(s, w) < DurableBytes)
  OBVIOUS
<1>5. PICK cut \in BOOLEAN :
        cut = (memory.cut \/ memory.first > 0 \/ w > memory.first)
  OBVIOUS
<1>6. disk' = [first |-> IF partial THEN w - 1 ELSE w, next |-> Len(s),
               partial |-> partial, cut |-> cut, status |-> memory.status]
  BY <1>1, <1>4, <1>5 DEF Durable
<1>7. /\ disk'.cut = cut /\ disk'.partial = partial
      /\ disk'.first = IF partial THEN w - 1 ELSE w
  BY <1>6
<1>8. /\ live'.first = memory.first /\ live'.cut = memory.cut
      /\ live'.reported = disk'.cut
  BY <1>1, <1>7
<1>9. PICK b \in Nat : b = BytesBefore(s, Len(s))
  OBVIOUS
<1>b. BytesFrom(s, 0) = b
  <2>1. BytesBefore(s, 0) = 0
    BY DEF BytesBefore
  <2>2. BytesFrom(s, 0) = b - 0
    BY <1>9, <2>1 DEF BytesFrom
  <2>3. QED
    BY <1>9, <2>2
<1>10. ASSUME w > f, f = 0
       PROVE  b > DurableBytes
  <2>1. 0 \in f..(w - 1)
    BY <1>3, <1>10
  <2>2. QED
    BY <1>1, <1>2, <1>b, <2>1 DEF KeepsFrom
<1>11. ASSUME b > DurableBytes, f = 0
       PROVE  w > f
  <2>1. SUFFICES ASSUME w = 0 PROVE FALSE
    BY <1>3, <1>11
  <2>2. Len(s) # 0
    BY <1>9, <1>11, OutputAssumption DEF BytesBefore
  <2>3. b <= DurableBytes
    BY <1>1, <1>b, <2>1, <2>2 DEF KeepsFrom
  <2>4. QED
    BY <1>9, <1>11, <2>3, OutputAssumption
<1>12. memory.cut => cut
  BY <1>5
<1>f. (f = 0 \/ f > 0) /\ (w = f \/ w > f) /\ (f = 0 => ~(f > 0))
  BY <1>3
<1>g. cut <=> memory.cut \/ f > 0 \/ w > f
  BY <1>2, <1>5
<1>13. b > DurableBytes => cut
  BY <1>f, <1>g, <1>11
<1>h. f > 0 => memory.cut
  BY <1>2
<1>14. cut /\ ~memory.cut => b > DurableBytes
  BY <1>f, <1>g, <1>h, <1>10
<1>15. partial \/ disk'.first > 0 => cut
  <2>1. partial => w > f
    BY <1>2, <1>4
  <2>2. ~partial /\ disk'.first > 0 => f > 0 \/ w > f
    <3>1. SUFFICES ASSUME ~partial, disk'.first > 0 PROVE w > 0
      BY <1>3, <1>f
    <3>2. QED
      BY <1>7, <3>1
  <2>3. QED
    BY <1>g, <2>1, <2>2
<1>16. QED
  BY <1>7, <1>8, <1>9, <1>12, <1>13, <1>14, <1>15

\* A save of the owner, after which the Run has no fewer bytes, keeps the marks.
LEMMA SaveKeepsTail ==
  ASSUME TailInv, NEW memory, NEW s, s = ends', Len(s) \in Nat,
         memory \in [first : Cursors, cut : BOOLEAN, reported : BOOLEAN,
                     status : {"RUNNING", "ENDED"}],
         memory.first <= Len(s), memory.first > 0 => memory.cut,
         live.cut => memory.cut,
         AllBytes \in Nat, BytesBefore(s, Len(s)) \in Nat,
         BytesBefore(s, Len(s)) >= AllBytes,
         SaveOutput(s, memory), UNCHANGED <<loaded, tail>>
  PROVE  TailInv'
<1>1. PICK b \in Nat : b = BytesBefore(s, Len(s))
  OBVIOUS
<1>2. /\ live'.first = memory.first /\ live'.cut = memory.cut
      /\ live'.reported = disk'.cut
      /\ memory.cut => disk'.cut
      /\ b > DurableBytes => disk'.cut
      /\ disk'.cut /\ ~memory.cut => b > DurableBytes
      /\ disk'.partial \/ disk'.first > 0 => disk'.cut
  BY <1>1, SaveMarks
<1>3. AllBytes' = b
  BY <1>1 DEF AllBytes
<1>4. Marked' <=> disk'.cut
  BY <1>2 DEF Marked
<1>5. AllBytes > DurableBytes => b > DurableBytes
  BY <1>1, OutputAssumption
<1>6. Marked => Marked'
  BY <1>2, <1>4, <1>5 DEF Marked, TailInv
<1>7. /\ live'.first > 0 => live'.cut
      /\ live'.reported /\ ~live'.cut => AllBytes' > DurableBytes
  BY <1>2, <1>3
<1>8. /\ disk'.partial \/ disk'.first > 0 => Marked'
      /\ Marked' /\ disk'.status # "INTERRUPTED" => disk'.cut
  BY <1>2, <1>4
<1>9. loaded' # NoRecord => (loaded'.partial \/ loaded'.first > 0 => Marked')
  BY <1>6 DEF TailInv
<1>10. tail'.at # "IDLE" /\ tail'.lost => Marked'
  BY <1>6 DEF TailInv
<1>11. QED
  BY <1>7, <1>8, <1>9, <1>10 DEF TailInv

LEMMA BytesAreNat == OutputTypeOK => Len(ends) \in Nat /\ AllBytes \in Nat
<1> SUFFICES ASSUME OutputTypeOK PROVE Len(ends) \in Nat /\ AllBytes \in Nat
  OBVIOUS
<1>1. ends \in Seq(Nat) /\ Len(ends) \in Nat
  BY LenProperties DEF OutputTypeOK
<1>2. QED
  BY <1>1, ElementOfSeq DEF AllBytes, BytesBefore

\* What the answers of a marked Run, and of any other, may leave out.
LEMMA ViewsAreMarked ==
  ASSUME OutputTypeOK, TailInv, NEW view \in OutputViews
  PROVE  /\ view.first > 0 \/ view.partial => Marked
         /\ Marked /\ view.status # "INTERRUPTED" => view.flagged
<1>1. CASE view = LiveView
  BY <1>1 DEF LiveView, TailInv, Marked
<1>2. CASE view = StoredView
  BY <1>2 DEF StoredView, TailInv
<1>3. QED
  BY <1>1, <1>2 DEF OutputViews

LEMMA TailStep ==
  OutputTypeOK /\ OutputInv /\ TailInv /\ TailSaysIfCut
      /\ [OutputNext]_outputVars
    => TailInv' /\ TailSaysIfCut'
<1> SUFFICES ASSUME OutputTypeOK, OutputInv, TailInv, TailSaysIfCut,
                    [OutputNext]_outputVars
             PROVE  TailInv' /\ TailSaysIfCut'
  OBVIOUS
<1> DEFINE Memories == [first : Cursors, cut : BOOLEAN, reported : BOOLEAN,
                        status : {"RUNNING", "ENDED"}]
<1>a. Len(ends) \in Nat /\ AllBytes \in Nat /\ live \in Memories
  BY BytesAreNat DEF OutputTypeOK
<1>t. UNCHANGED tail => TailSaysIfCut'
  BY DEF TailSaysIfCut
<1>1. CASE UNCHANGED outputVars
  BY <1>1, <1>t DEF outputVars, TailInv, Marked, AllBytes
<1>2. ASSUME NEW parts \in DataEvents, OnData(parts)
      PROVE TailInv' /\ TailSaysIfCut'
  <2>a. PICK all : all = Extended(ends, parts)
    OBVIOUS
  <2>1. PICK g \in live.first..(Len(all) - 1) :
          SaveOutput(all, [live EXCEPT !.first = g, !.cut = @ \/ g > live.first])
    BY <1>2, <2>a DEF OnData
  <2>2. /\ all = ends' /\ Len(all) \in Nat /\ Len(all) <= ChunkBound
        /\ BytesBefore(all, Len(all)) > AllBytes
        /\ UNCHANGED <<loaded, tail>>
    BY <1>2, <2>a, DataAppends DEF OnData, AllBytes
  <2>3. BytesBefore(all, Len(all)) \in Nat
    BY <2>a, DataAppends, ElementOfSeq DEF BytesBefore
  <2>4. PICK cut \in BOOLEAN : cut = (live.cut \/ g > live.first)
    BY <1>a
  <2>5. PICK memory : memory = [live EXCEPT !.first = g, !.cut = cut]
    OBVIOUS
  <2>6. SaveOutput(all, memory)
    BY <2>1, <2>4, <2>5
  <2>7. live.first \in Nat /\ g \in Cursors /\ g <= Len(all)
    BY <1>a, <2>2, OutputAssumption DEF Cursors
  <2>8. memory \in Memories /\ memory.first = g /\ memory.cut = cut
    BY <1>a, <2>5, <2>7
  <2>9. (g > 0 => cut) /\ (live.cut => cut)
    <3>1. g > 0 => g > live.first \/ live.first > 0
      BY <2>7 DEF Cursors
    <3>2. cut <=> live.cut \/ g > live.first
      BY <2>4
    <3>3. QED
      BY <3>1, <3>2 DEF TailInv
  <2>10. TailInv'
    BY <1>a, <2>2, <2>3, <2>6, <2>7, <2>8, <2>9, SaveKeepsTail
  <2>11. QED
    BY <1>t, <2>2, <2>10
<1>3. CASE OnOutputClose
  <2>1. PICK memory : memory = [live EXCEPT !.status = "ENDED"]
    OBVIOUS
  <2>2. /\ memory \in Memories /\ memory.first = live.first
        /\ memory.cut = live.cut
    BY <1>a, <2>1
  <2>3. /\ SaveOutput(ends, memory)
        /\ UNCHANGED <<ends, loaded, tail>>
    BY <1>3, <2>1 DEF OnOutputClose
  <2>4. memory.first <= Len(ends)
    BY <2>2 DEF OutputInv
  <2>5. BytesBefore(ends, Len(ends)) \in Nat
        /\ BytesBefore(ends, Len(ends)) >= AllBytes
    BY <1>a DEF AllBytes
  <2>6. TailInv'
    BY <1>a, <2>2, <2>3, <2>4, <2>5, SaveKeepsTail DEF TailInv
  <2>7. QED
    BY <1>t, <2>3, <2>6
<1>4. CASE SourceMoves \/ OwnerLeaves \/ ReadRecord
  <2>1. /\ UNCHANGED <<ends, live, disk, tail>>
        /\ loaded' = loaded \/ loaded' = disk
    BY <1>4 DEF SourceMoves, OwnerLeaves, ReadRecord
  <2>2. UNCHANGED Marked /\ UNCHANGED AllBytes
    BY <2>1 DEF Marked, AllBytes
  <2>3. QED
    BY <1>t, <2>1, <2>2 DEF TailInv
<1>5. CASE InterruptLostOwner
  <2>1. loaded \in Records /\ loaded # NoRecord
    BY <1>5 DEF InterruptLostOwner, OutputTypeOK
  <2> DEFINE cut == loaded.first > 0
  <2>3. PICK lost : lost = [loaded EXCEPT !.status = "INTERRUPTED", !.cut = cut]
    OBVIOUS
  <2>4. /\ disk' = disk \/ disk' = lost
        /\ UNCHANGED <<ends, live, tail>> /\ loaded' = NoRecord
    BY <1>5, <2>3 DEF InterruptLostOwner
  <2>5. /\ lost.first = loaded.first /\ lost.partial = loaded.partial
        /\ lost.status = "INTERRUPTED"
    BY <2>1, <2>3 DEF Records
  <2>6. UNCHANGED Marked /\ UNCHANGED AllBytes
    BY <2>4 DEF Marked, AllBytes
  <2>7. QED
    BY <1>t, <2>1, <2>4, <2>5, <2>6 DEF TailInv
<1>6. ASSUME NEW view \in OutputViews, NEW to \in Cursors, ReadPage(view, to)
      PROVE TailInv' /\ TailSaysIfCut'
  BY <1>6, <1>t DEF ReadPage, TailInv, Marked, AllBytes
<1>7. ASSUME NEW view \in OutputViews, NEW to \in Cursors, NEW c \in Cursors,
             TailPage(c, view, to)
      PROVE TailInv' /\ TailSaysIfCut'
  <2>1. /\ view.first > 0 \/ view.partial => Marked
        /\ Marked /\ view.status # "INTERRUPTED" => view.flagged
        /\ view.first \in Nat /\ c \in Nat
    BY ViewsAreMarked, ViewsAreSound, OutputAssumption DEF Cursors
  <2>2. /\ tail'.lost = \/ tail.at = "PAGING" /\ tail.lost
                        \/ c < view.first \/ Incomplete(c, view, to) # {}
        /\ tail'.flagged = (TruncatedBeforeCursor(c, view) \/ view.flagged)
        /\ tail'.status = view.status
        /\ UNCHANGED <<ends, live, disk, loaded>>
    BY <1>7 DEF TailPage
  <2>3. Incomplete(c, view, to) # {} => view.partial
    BY DEF Incomplete
  <2>4. tail'.lost => Marked
    <3>1. tail.at = "PAGING" /\ tail.lost => Marked
      BY DEF TailInv
    <3>2. c < view.first => view.first > 0
      BY <2>1
    <3>3. tail'.lost <=> \/ tail.at = "PAGING" /\ tail.lost
                         \/ c < view.first \/ Incomplete(c, view, to) # {}
      BY <2>2
    <3>4. QED
      BY <2>1, <2>3, <3>1, <3>2, <3>3
  <2>5. UNCHANGED Marked /\ UNCHANGED AllBytes
    BY <2>2 DEF Marked, AllBytes
  <2>6. TailInv'
    BY <2>2, <2>4, <2>5 DEF TailInv
  <2>7. TailSaysIfCut'
    BY <2>1, <2>2, <2>4 DEF TailSaysIfCut
  <2>8. QED
    BY <2>6, <2>7
<1>8. CASE TailThrows
  BY <1>8 DEF TailThrows, TailInv, TailSaysIfCut, Marked, AllBytes
<1>9. QED
  BY <1>1, <1>2, <1>3, <1>4, <1>5, <1>6, <1>7, <1>8, OutputCases

\* A tail that lacks output says so, whichever pages it was put together from
\* and whoever answered them, unless the Run was interrupted.
THEOREM TailsSayIfCut == OutputSpec => []TailSaysIfCut
<1>1. OutputInit => TailSaysIfCut
  BY DEF OutputInit, TailSaysIfCut
<1>2. QED
  BY <1>1, OutputTypeInit, TailInit, OutputStep, TailStep, PTL DEF OutputSpec

=============================================================================
