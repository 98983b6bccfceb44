----------------------------- MODULE RunOutput -----------------------------
(* The output of one Run.  Its owner appends the chunks of the child in       *)
(* memory, trims the oldest, and persists a bounded tail on every data event. *)
(* Readers page through it by cursor, answered by the owner from memory or by *)
(* another runtime from the durable record; that runtime writes the record    *)
(* again when it finds the owner gone.  The chunk with cursor c is the        *)
(* (c+1)-th the owner received.                                               *)
EXTENDS Naturals, Sequences

CONSTANTS
  ChunkBytes,   \* a longer text is split into several chunks
  LiveBytes,    \* what the owner keeps in memory
  DurableBytes, \* what it persists
  ChunkBound,   \* bound on the chunks of the Run
  OutputFaults  \* "CRASH": the owner may die

ASSUME OutputAssumption ==
  {ChunkBytes, LiveBytes, DurableBytes, ChunkBound} \subseteq Nat

VARIABLES
  ends,     \* history: the bytes received up to the end of every chunk
  pipe,     \* the child's output: WRITING, DRAINING after its exit, CLOSED
  ownerState, \* the owner's lease: HELD, RELEASED, or its process is DOWN
  live,       \* the record in the owner's memory
  disk,       \* the durable record
  loaded,     \* the durable record as another runtime has just read it
  reader,     \* a client that pages, and what it knows
  tail        \* a call that reads all pages and returns the last lines

outputVars == <<ends, pipe, ownerState, live, disk, loaded, reader, tail>>

Outcomes == {"RUNNING", "ENDED", "INTERRUPTED"}
Cursors == 0..ChunkBound

\* Chunks first..next-1, the first of them possibly without its beginning.
Records ==
  [first : Cursors, next : Cursors, partial : BOOLEAN, cut : BOOLEAN,
   status : Outcomes]
NoRecord == [status |-> "NONE"]

OutputTypeOK ==
  /\ ends \in Seq(Nat) /\ Len(ends) <= ChunkBound
  /\ pipe \in {"WRITING", "DRAINING", "CLOSED"}
  /\ ownerState \in {"HELD", "RELEASED", "DOWN"}
  /\ live \in [first : Cursors, cut : BOOLEAN, reported : BOOLEAN,
               status : {"RUNNING", "ENDED"}]
  /\ disk \in Records
  /\ loaded \in Records \union {NoRecord}
  /\ reader \in [cursor : Cursors, got : SUBSET Cursors, told : SUBSET Cursors,
                 ended : BOOLEAN]
  /\ tail \in [at : {"IDLE", "PAGING", "DONE"}, cursor : Cursors,
               lost : BOOLEAN, flagged : BOOLEAN, status : Outcomes]

OutputInit ==
  /\ ends = <<>> /\ pipe = "WRITING" /\ ownerState = "HELD"
  /\ live = [first |-> 0, cut |-> FALSE, reported |-> FALSE, status |-> "RUNNING"]
  /\ disk = [first |-> 0, next |-> 0, partial |-> FALSE, cut |-> FALSE,
             status |-> "RUNNING"]
  /\ loaded = NoRecord
  /\ reader = [cursor |-> 0, got |-> {}, told |-> {}, ended |-> FALSE]
  /\ tail = [at |-> "IDLE", cursor |-> 0, lost |-> FALSE, flagged |-> FALSE,
             status |-> "RUNNING"]

-----------------------------------------------------------------------------
\* The owner

\* Bytes received before chunk c, and retained_output_bytes when chunk c is the
\* oldest one retained.
BytesBefore(s, c) == IF c = 0 THEN 0 ELSE s[c]
BytesFrom(s, c) == BytesBefore(s, Len(s)) - BytesBefore(s, c)

\* shift() while there is too much and more than one chunk: floor becomes g.
TrimsTo(s, floor, g) ==
  /\ g = Len(s) - 1 \/ BytesFrom(s, g) <= LiveBytes
  /\ \A h \in floor..(g - 1) : BytesFrom(s, h) > LiveBytes

\* Chunks from w on are persisted whole; from the one before, its end.
KeepsFrom(s, floor, w) ==
  /\ w = Len(s) \/ BytesFrom(s, w) <= DurableBytes
  /\ \A h \in floor..(w - 1) : BytesFrom(s, h) > DurableBytes

\* Mutant: only whole chunks count as truncation.
DurableUncut(s, memory, w) ==
  LET partial == w > memory.first /\ BytesFrom(s, w) < DurableBytes
      first   == IF partial THEN w - 1 ELSE w
  IN  [first   |-> first,
       next    |-> Len(s),
       partial |-> partial,
       cut     |-> memory.cut \/ first > memory.first,
       status  |-> memory.status]

\* persistedOutput
Durable(s, memory, w) ==
  LET partial == w > memory.first /\ BytesFrom(s, w) < DurableBytes
  IN  [first   |-> IF partial THEN w - 1 ELSE w,
       next    |-> Len(s),
       partial |-> partial,
       cut     |-> memory.cut \/ memory.first > 0 \/ w > memory.first,
       status  |-> memory.status]

\* The record is saved, and remembers whether its durable copy is truncated.
SaveOutput(s, memory) ==
  \E w \in memory.first..Len(s) :
    /\ KeepsFrom(s, memory.first, w)
    /\ disk' = Durable(s, memory, w)
    /\ live' = [memory EXCEPT !.reported = disk'.cut]

\* The chunks that a data event is split into, each with the bytes up to its end.
Extended(s, parts) ==
  s \o [i \in DOMAIN parts |-> BytesBefore(s, Len(s)) + parts[i]]

\* One data event: the text is split, appended, trimmed and persisted.
OnData(parts) ==
  LET all == Extended(ends, parts) IN
  /\ ownerState # "DOWN" /\ pipe # "CLOSED"
  /\ Len(all) <= ChunkBound
  /\ ends' = all
  /\ \E g \in live.first..(Len(all) - 1) :
       /\ TrimsTo(all, live.first, g)
       /\ SaveOutput(all, [live EXCEPT !.first = g, !.cut = @ \/ g > live.first])
  /\ UNCHANGED <<pipe, ownerState, loaded, reader, tail>>

\* Mutant: the Run ends with the exit of the child.
EndsOnExit ==
  /\ ownerState # "DOWN" /\ pipe # "WRITING" /\ live.status = "RUNNING"
  /\ SaveOutput(ends, [live EXCEPT !.status = "ENDED"])
  /\ UNCHANGED <<ends, pipe, ownerState, loaded, reader, tail>>

\* The close event: after the exit, and after the last data event.
OnOutputClose ==
  /\ ownerState # "DOWN" /\ pipe = "CLOSED" /\ live.status = "RUNNING"
  /\ SaveOutput(ends, [live EXCEPT !.status = "ENDED"])
  /\ UNCHANGED <<ends, pipe, ownerState, loaded, reader, tail>>

\* The child exits; its pipes may still hold output, or be held by others.
SourceMoves ==
  /\ \/ pipe = "WRITING" /\ pipe' = "DRAINING"
     \/ pipe = "DRAINING" /\ pipe' = "CLOSED"
  /\ UNCHANGED <<ends, ownerState, live, disk, loaded, reader, tail>>

\* A planned shutdown gives up the lease, possibly before the child has closed;
\* then, or in a crash, the process is gone.
OwnerLeaves ==
  /\ \/ ownerState = "HELD" /\ ownerState' = "RELEASED"
     \/ ownerState = "RELEASED" /\ ownerState' = "DOWN"
     \/ "CRASH" \in OutputFaults /\ ownerState = "HELD" /\ ownerState' = "DOWN"
  /\ UNCHANGED <<ends, pipe, live, disk, loaded, reader, tail>>

-----------------------------------------------------------------------------
\* Another runtime: it reads the record, and decides on what it has read.

ReadRecord ==
  /\ loaded = NoRecord /\ disk.status = "RUNNING"
  /\ loaded' = disk
  /\ UNCHANGED <<ends, pipe, ownerState, live, disk, reader, tail>>

\* The owner is there: nothing is written.  Otherwise the record is saved as
\* INTERRUPTED, as persistedOutput makes it of the chunks that were persisted.
InterruptLostOwner ==
  /\ loaded # NoRecord
  /\ disk' = IF ownerState = "HELD" THEN disk
             ELSE [loaded EXCEPT !.status = "INTERRUPTED", !.cut = loaded.first > 0]
  /\ loaded' = NoRecord
  /\ UNCHANGED <<ends, pipe, ownerState, live, reader, tail>>

-----------------------------------------------------------------------------
\* Readers

LiveView ==
  [first |-> live.first, next |-> Len(ends), partial |-> FALSE,
   flagged |-> live.cut \/ live.reported, status |-> live.status]

StoredView ==
  [first |-> disk.first, next |-> disk.next, partial |-> disk.partial,
   flagged |-> disk.first > 0 \/ disk.cut, status |-> disk.status]

\* Who may answer: the owner while it lives, and another runtime, which first
\* interrupts a Run whose owner is gone.
OutputViews ==
  {LiveView : x \in IF ownerState = "DOWN" THEN {} ELSE {1}}
    \union {StoredView :
              x \in IF disk.status = "RUNNING" /\ ownerState # "HELD" THEN {} ELSE {1}}

\* Mutant: off by one.
TruncatedBeforeCursorLate(c, view) == c + 1 < view.first

TruncatedBeforeCursor(c, view) == c < view.first

EffectiveCursor(c, view) == IF c < view.first THEN view.first ELSE c

\* output(): the chunks from the effective cursor to to-1, at least one if there
\* is any (max_bytes and max_chunks decide how many); a cursor past the end is
\* refused.
PageEndsAt(c, view, to) ==
  LET from == EffectiveCursor(c, view) IN
  /\ c <= view.next
  /\ to \in from..view.next
  /\ from < view.next => from < to

PageChunks(c, view, to) == EffectiveCursor(c, view)..(to - 1)

\* The chunks of a page that lack their beginning.
Incomplete(c, view, to) ==
  {x \in PageChunks(c, view, to) : view.partial /\ x = view.first}

\* What a page says is gone.
GoneBefore(c, view) ==
  IF TruncatedBeforeCursor(c, view) THEN c..(view.first - 1) ELSE {}

ReadPage(view, to) ==
  LET c == reader.cursor IN
  /\ PageEndsAt(c, view, to)
  /\ reader' =
       [cursor |-> to,
        got    |-> reader.got \union (PageChunks(c, view, to) \ Incomplete(c, view, to)),
        told   |-> reader.told \union Incomplete(c, view, to) \union GoneBefore(c, view),
        ended  |-> view.status = "ENDED" /\ to = view.next]
  /\ UNCHANGED <<ends, pipe, ownerState, live, disk, loaded, tail>>

\* textView with tail_lines: from any cursor, page after page while has_more;
\* its answer has the flags and the status of the last page.
TailPage(c, view, to) ==
  /\ tail.at = "PAGING" => c = tail.cursor
  /\ PageEndsAt(c, view, to)
  /\ tail' =
       [at      |-> IF to < view.next THEN "PAGING" ELSE "DONE",
        cursor  |-> to,
        lost    |-> \/ tail.at = "PAGING" /\ tail.lost
                    \/ c < view.first \/ Incomplete(c, view, to) # {},
        flagged |-> TruncatedBeforeCursor(c, view) \/ view.flagged,
        status  |-> view.status]
  /\ UNCHANGED <<ends, pipe, ownerState, live, disk, loaded, reader>>

\* A page of it fails, and so does the call.
TailThrows ==
  /\ tail.at = "PAGING"
  /\ tail' = [tail EXCEPT !.at = "IDLE"]
  /\ UNCHANGED <<ends, pipe, ownerState, live, disk, loaded, reader>>

-----------------------------------------------------------------------------
\* What one data event is split into, here into two chunks at most: the bytes
\* up to the end of each.
DataEvents ==
  {<<a>> : a \in 1..ChunkBytes} \union {<<a, a + b>> : a, b \in 1..ChunkBytes}

OutputNext ==
  \/ \E parts \in DataEvents : OnData(parts)
  \/ OnOutputClose \/ SourceMoves \/ OwnerLeaves
  \/ ReadRecord \/ InterruptLostOwner
  \/ \E view \in OutputViews, to \in Cursors :
       \/ ReadPage(view, to)
       \/ \E c \in Cursors : TailPage(c, view, to)
  \/ TailThrows

OutputSpec == OutputInit /\ [][OutputNext]_outputVars

-----------------------------------------------------------------------------
\* Properties

\* A client that follows next_cursor, through whichever runtime answers and
\* while the output is trimmed under it, has received every chunk before its
\* cursor whole, or was told that the chunk is gone or lacks its beginning.
ReadersMissNoOutput ==
  \A c \in 0..(reader.cursor - 1) : c \in reader.got \union reader.told

\* EXITED, FAILED or CANCELLED with has_more false is the end: nothing the
\* child wrote comes after it.
EndIsTheEnd == reader.ended => reader.cursor = Len(ends)

\* A tail that lacks output from its start cursor on says so, although only its
\* last page's flags are returned and earlier pages may have been truncated in
\* other ways.  (Not of INTERRUPTED records: InterruptLostOwner forgets a cut
\* in the first chunk.)
TailSaysIfCut ==
  tail.at = "DONE" /\ tail.lost /\ tail.status # "INTERRUPTED" => tail.flagged
=============================================================================
