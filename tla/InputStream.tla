----------------------------- MODULE InputStream -----------------------------
(***************************************************************************)
(* How SerializeMallocEvents gets the records of a trace: OuterEvStream on *)
(* a MemStream (events-serializer.cc), over the bytes that FDInputMapper   *)
(* (fd-input-mapper.cc) has read into its reserved address space.  A place *)
(* in that space is its distance from mmap_area_, where the stream begins; *)
(* realized_start_ is there at all times.                                  *)
(*                                                                         *)
(* A record is its type, the lengths of its varints, and the length of the *)
(* payload that follows those of a Buf.  What the bytes say is left out;   *)
(* that they were there when they were decoded is not.                     *)
(***************************************************************************)
EXTENDS Integers, Sequences, FiniteSetsExt

CONSTANTS
  Inputs,        \* the traces: sequences of records
  MagicSize,     \* the length of kMagic, which a trace begins with
  MaxSize,       \* kMaxSize, the longest varint
  Page,          \* the size of a page
  RealizeSize,   \* kRealizeSize, how far the stream reads ahead
  UnrealizeStep, \* kUnrealizeStep, how much it keeps before it drops pages
  MinRead        \* what read() returns at least, if the input has as much

ASSUME PageAssumption == Page \in Nat \ {0}
ASSUME MagicSizeAssumption == MagicSize \in Nat \ {0}
ASSUME MaxSizeAssumption == MaxSize \in Nat \ {0} /\ MaxSize <= RealizeSize
ASSUME RealizeSizeAssumption == RealizeSize \in Nat
ASSUME UnrealizeStepAssumption ==
  UnrealizeStep \in Nat /\ RealizeSize + 2 * Page <= UnrealizeStep
ASSUME MinReadAssumption == MinRead \in Nat \ {0}

\* How many varints the records have.
WordCounts == [SyncBarrier |-> 2, Death |-> 2, Buf |-> 3, End |-> 1]

Records == [type : DOMAIN WordCounts, words : Seq(1 .. MaxSize), payload : Nat]

ASSUME InputsAssumption ==
  \A trace \in Inputs :
    /\ trace \in Seq(Records)
    /\ \A i \in DOMAIN trace :
         /\ Len(trace[i].words) = WordCounts[trace[i].type]
         /\ trace[i].type # "Buf" => trace[i].payload = 0

VARIABLES
  input,               \* the trace
  size,                \* how many bytes of it there are before the end
  last_start,          \* FDInputMapper: where what is mapped starts
  last_end,            \* and where what has been read ends
  ptr, end,            \* MemStream: the position, and the end of the window
  pc,                  \* what OuterEvStream::next is about to do
  word,                \* which varint of the record comes next
  returned,            \* how many records next() has returned
  last_barriers,       \* the positions after the last two barriers
  last_barriers_index

trace_vars == <<input, size>>
barrier_vars == <<last_start, last_barriers, last_barriers_index>>
vars == <<trace_vars, barrier_vars, last_end, ptr, end, pc, word, returned>>

Steps == {"magic", "has_more", "varint", "payload", "barrier", "ended", "done",
          "panicked", "aborted", "garbled"}

TypeOK ==
  /\ last_start \in Nat /\ last_start % Page = 0
  /\ last_end \in 0 .. size
  /\ ptr \in 0 .. size
  /\ end \in 0 .. size
  /\ pc \in Steps
  /\ word \in 1 .. 3
  /\ returned \in 0 .. Len(input)
  /\ last_barriers \in [0 .. 1 -> 0 .. size]
  /\ last_barriers_index \in 0 .. 1

\* Where each of `lengths' ends, when they lie one after the other from
\* `place' on.
Ends(place, lengths) ==
  LET ends[i \in 0 .. Len(lengths)] ==
        IF i = 0 THEN place ELSE ends[i - 1] + lengths[i]
  IN ends

RecordLength(record) ==
  Ends(0, record.words)[Len(record.words)] + record.payload

\* Where record i of the trace starts, and where the last one ends.
Offset ==
  LET ends == Ends(MagicSize, [i \in 1 .. Len(input) |-> RecordLength(input[i])])
  IN [i \in 1 .. Len(input) + 1 |-> ends[i - 1]]

Init ==
  /\ input \in Inputs
  /\ size \in 0 .. Offset[Len(input) + 1]
  /\ last_start = 0 /\ last_end = 0
  /\ ptr = 0 /\ end = 0
  /\ pc = "magic" /\ word = 1
  /\ returned = 0
  /\ last_barriers = [i \in 0 .. 1 |-> 0]
  /\ last_barriers_index = 0

Record == input[returned + 1]

(***************************************************************************)
(* FDInputMapper::Realize.                                                 *)
(***************************************************************************)
PageDown(x) == x - (x % Page)
PageUp(x) == PageDown(x + (Page - 1))

\* How many bytes one read() returns of `room' at place x: all it can when the
\* input is a file, at least a chunk of MinRead when it is a pipe.
Read(x, room) ==
  LET most == Min({room, size - x})
  IN Min({MinRead, most}) .. most

\* What last_end_ may be after Realize up to `place', when it was `last'.
ReadTo(place, last) ==
  IF PageUp(place) > last THEN {last + n : n \in Read(last, PageUp(place) - last)}
  ELSE {last}

\* The last pages are mapped from the last ones on: a place before those
\* makes the length negative, and mmap fails.
MapFails(place, last) == PageUp(place) < PageUp(last)

(***************************************************************************)
(* MemStream.                                                              *)
(***************************************************************************)

\* Mistakes: the window is asked for without the read-ahead, or without what
\* lies between realized_start_ and ptr_.
NotAhead(min_amount) == ptr + min_amount
NotFromStart(min_amount) == Max({min_amount, RealizeSize})

\* How far realize_more wants the window to reach.
Wanted(min_amount) == ptr + Max({min_amount, RealizeSize})

RealizeMore(min_amount, last) == ReadTo(Wanted(min_amount), last)
Window(last) == last_end' = last /\ end' = last

\* Where the control is after a realize_more, unless it failed.
After(min_amount, last, step) ==
  IF MapFails(Wanted(min_amount), last) THEN "aborted" ELSE step

\* Before the first record, SerializeMallocEvents skips the magic.
SkipMagic ==
  /\ pc = "magic"
  /\ \E last \in RealizeMore(MagicSize, last_end) :
       /\ Window(last)
       /\ IF ptr + MagicSize <= last
          THEN ptr' = ptr + MagicSize /\ pc' = After(MagicSize, last_end, "has_more")
          ELSE ptr' = ptr /\ pc' = After(MagicSize, last_end, "panicked")
  /\ UNCHANGED <<trace_vars, barrier_vars, word, returned>>

HasMore ==
  /\ pc = "has_more"
  /\ \/ /\ ptr < end
        /\ pc' = "varint"
        /\ UNCHANGED <<last_end, end>>
     \/ /\ ptr >= end
        /\ \E last \in RealizeMore(0, last_end) :
             /\ Window(last)
             /\ pc' = After(0, last_end, IF ptr < last THEN "varint" ELSE "ended")
  /\ word' = 1
  /\ UNCHANGED <<trace_vars, barrier_vars, ptr, returned>>

(***************************************************************************)
(* OuterEvStream::next.                                                    *)
(***************************************************************************)
IsLastWord == word = Len(Record.words)

\* What comes after the record.
NextStep ==
  IF Record.type = "SyncBarrier" THEN "barrier"
  ELSE IF Record.type = "End" THEN "done" ELSE "has_more"

\* The varint that has been decoded ends at `place'.
Decoded(place) ==
  /\ ptr' = place
  /\ IF ~IsLastWord
     THEN word' = word + 1 /\ pc' = pc /\ UNCHANGED returned
     ELSE /\ UNCHANGED word
          /\ IF Record.type = "Buf"
             THEN pc' = "payload" /\ UNCHANGED returned
             ELSE pc' = NextStep /\ returned' = returned + 1

\* Mistake: the second word of any record must be there.
MustReadSecond == word = 2

\* The second word of a Death must be there (must_read_varint); without any
\* other word next() reports the end of the input (try_read_varint).
MustRead == Record.type = "Death" /\ word = 2

\* A varint that the window, after one more read, may not hold: it is decoded
\* from what is there, and the rest is asked for when it is skipped.  Its
\* first byte says how long it is.
ReadVarintSlow ==
  LET length == Record.words[word]
  IN \E last \in RealizeMore(0, last_end) :
       \/ /\ ptr + length <= last
          /\ Window(last)
          /\ IF MapFails(Wanted(0), last_end)
             THEN pc' = "aborted" /\ UNCHANGED <<ptr, word, returned>>
             ELSE Decoded(ptr + length)
       \/ /\ ptr + length > last
          /\ \E advance \in IF ptr < last THEN {length} ELSE 1 .. MaxSize :
             \E more \in RealizeMore(advance, last) :
               /\ Window(more)
               /\ LET there == ptr + advance <= more
                      step == IF there THEN "garbled"
                              ELSE IF MustRead THEN "panicked" ELSE "ended"
                  IN /\ ptr' = IF there THEN ptr + advance ELSE more
                     /\ pc' = After(0, last_end, After(advance, last, step))
          /\ UNCHANGED <<word, returned>>

ReadVarint ==
  /\ pc = "varint"
  /\ \/ /\ ptr + MaxSize <= end
        /\ Decoded(ptr + Record.words[word])
        /\ UNCHANGED <<last_end, end>>
     \/ /\ ptr + MaxSize > end
        /\ ReadVarintSlow
  /\ UNCHANGED <<trace_vars, barrier_vars>>

\* try_advance_by over the payload of a Buf.
AdvancePayload ==
  LET place == ptr + Record.payload
  IN /\ pc = "payload"
     /\ \/ /\ place <= end
           /\ ptr' = place /\ pc' = "has_more" /\ returned' = returned + 1
           /\ UNCHANGED <<last_end, end>>
        \/ /\ place > end
           /\ \E last \in RealizeMore(Record.payload, last_end) :
                /\ Window(last)
                /\ ptr' = IF place <= last THEN place ELSE last
                /\ returned' = IF place <= last THEN returned + 1 ELSE returned
                /\ pc' = After(Record.payload, last_end,
                               IF place <= last THEN "has_more" ELSE "ended")
     /\ UNCHANGED <<trace_vars, barrier_vars, word>>

(***************************************************************************)
(* At a barrier, and at the end of the input, SerializeMallocEvents gives  *)
(* up the pages before the last barrier but one (unrealize_up_to).  Its    *)
(* `& 4096' takes a page off the places in every second page (which ones   *)
(* depends on the address of mmap_area_); `end_' is computed as if         *)
(* realized_start_ had moved, but it has not.                              *)
(***************************************************************************)

\* Mistake: the pages before the last barrier are given up.
LastBarrier(index) == 1 - index

\* Which of the last barriers that is, once the index has moved on.
DropBarrier(index) == index

\* Mistake: what is mapped starts inside a page.
InsidePage(place) == place

\* Where what is mapped starts when Realize drops what is before `place'.
DropTo(place) == PageDown(place)

\* Mistake: as much is asked for from there on as when reading.
ReadAhead(place) == place + RealizeSize

\* How far the window is to reach then: as far as it did.
KeptTo(place) == end

\* unrealize_up_to, or the Realize in it, aborts: what is to be kept starts
\* behind what has been read or ends before it starts, mmap fails, or less is
\* mapped now than the window had.
UnrealizeFails(place, last) ==
  \/ place > last_end
  \/ place > KeptTo(place)
  \/ MapFails(KeptTo(place), last_end)
  \/ last < end

Barrier ==
  LET index == (last_barriers_index + 1) % 2
      up_to == last_barriers[DropBarrier(index)]
      step == IF pc = "barrier" THEN "has_more" ELSE "done"
  IN /\ pc \in {"barrier", "ended"}
     /\ last_barriers_index' = index
     /\ last_barriers' = [last_barriers EXCEPT ![index] = ptr]
     /\ \/ /\ up_to < UnrealizeStep
           /\ pc' = step
           /\ UNCHANGED <<last_start, last_end, end>>
        \/ /\ up_to >= UnrealizeStep
           /\ \E place \in {up_to - Page, up_to} :
              \E last \in ReadTo(KeptTo(place), last_end) :
                /\ pc' = IF UnrealizeFails(place, last) THEN "aborted" ELSE step
                /\ last_start' = Max({last_start, DropTo(place)})
                /\ last_end' = last /\ end' = last - place
     /\ UNCHANGED <<trace_vars, ptr, word, returned>>

\* A round that begins at the end of the input leaves its `ev' unset, and the
\* type then read from it may be that of an End: no barrier is noted.
UnsetEvent ==
  /\ pc = "ended"
  /\ ptr = Offset[returned + 1]
  /\ returned # 0 => input[returned].type = "SyncBarrier"
  /\ pc' = "done"
  /\ UNCHANGED <<trace_vars, barrier_vars, last_end, ptr, end, word, returned>>

Halted == pc \in {"done", "panicked", "aborted", "garbled"}
Finished == Halted /\ UNCHANGED vars

Next ==
  \/ SkipMagic \/ HasMore \/ ReadVarint \/ AdvancePayload
  \/ Barrier \/ UnsetEvent
  \/ Finished

Spec == Init /\ [][Next]_vars

-------------------------------------------------------------------------------
\* The records that the input has in full, up to its End.
Complete ==
  {i \in 1 .. Len(input) :
     /\ Offset[i + 1] <= size
     /\ \A j \in 1 .. i - 1 : input[j].type # "End"}

\* When next() reports the end of the input, panics, or has returned an End,
\* it has returned all the records that were there: neither the window that
\* unrealize_up_to leaves behind its position nor an input that ends inside a
\* record loses one.
ReadsEveryRecord ==
  pc \in {"ended", "done", "panicked"} => returned = Cardinality(Complete)

\* The next record is a Death, and the input ends inside its second word.
CutInDeath ==
  /\ returned < Len(input) /\ Record.type = "Death"
  /\ Offset[returned + 1] + Record.words[1] <= size
  /\ size < Offset[returned + 2]

\* An input that is cut off is read to the end of its last full record, and
\* ends there, but for two cuts, which are a panic: inside the magic, and
\* inside the second word of a Death (must_read_varint, events-serializer.cc:
\* 279, where all other words are read with try_read_varint).
PanicsOnCutDeath ==
  /\ pc = "panicked" => size < MagicSize \/ CutInDeath
  /\ pc = "ended" => size >= MagicSize /\ ~CutInDeath

\* No varint is decoded from bytes that were not there, and no Realize, that
\* of unrealize_up_to included, asks for what it cannot give or for less than
\* is mapped (fd-input-mapper.cc:36, 40 and 57; events-serializer.cc:214).
NothingMisread == pc \notin {"garbled", "aborted"}

\* The rounds of the serializer that have ended before record i.
Round(i) == Cardinality({j \in 1 .. i - 1 : input[j].type = "SyncBarrier"})
Rounds == Round(returned + 1) + IF pc = "done" THEN 1 ELSE 0

\* The payloads of the Bufs read in the last round, and in the one before it,
\* are still mapped when a round ends (the two elements of last_barriers).
\* Those of a thread that waits for longer are not.
BufsStayMapped ==
  \A i \in 1 .. returned :
    input[i].type = "Buf" /\ Round(i) >= Rounds - 2
      => Offset[i + 1] - input[i].payload >= last_start

\* When a realize_more that must be enough is not, what is asked for lies
\* "beyond end of data" (events-serializer.cc:148): next() never gives up an
\* input, with a panic or without, that still has something to read.
GivesUpAtEndOfData == pc \in {"ended", "panicked"} => last_end = size
=============================================================================
