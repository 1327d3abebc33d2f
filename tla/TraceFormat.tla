----------------------------- MODULE TraceFormat -----------------------------
(***************************************************************************)
(* A trace as bytes: what the tracer encodes is what events-serializer.cc  *)
(* decodes.  Each thread's events go to a buffer of its own, which now and *)
(* then is written to the trace as the payload of a Buf, between records   *)
(* of other threads.  A thread's decoder is the same from one of its Bufs  *)
(* to the next.                                                            *)
(*                                                                         *)
(* The tracer is not in this repository; the words it writes are those of  *)
(* MallocTraceEncoder.  The trace is complete when decoding begins.        *)
(***************************************************************************)
EXTENDS MallocTraceEncoder, SequencesExt

CONSTANTS
  Threads,          \* the ids of the traced threads
  Sizes, Alignments,
  Tokens,           \* where the tracer starts to count, and what is released
  FormatStamps,     \* the times and cpus of the records that have them
  Fills,            \* bound: what uninitialized memory may hold, everywhere
  MaxEvents,        \* bound: the events that the threads record
  MaxRecords        \* bound: the records of the trace

ASSUME FillsAssumption == Fills \subseteq Byte
ASSUME ThreadIdsAssumption ==
  Threads # {} /\ \A t \in Threads : t \in Nat /\ t < 2 ^ (WordBits - kExtTypeShift)
\* Differences keep their highest bits beside the type.
ASSUME DeltasAssumption ==
  /\ \A size \in Sizes :
       size \in Nat /\ size + 7 < 8 * 2 ^ (WordBits - kExtTypeShift - 1)
  /\ \A token \in Tokens :
       token \in Nat /\ token < 2 ^ (WordBits - kTypeShift - 1)
ASSUME AlignmentsAssumption == Alignments \subseteq Word
ASSUME StampsAssumption == \A s \in FormatStamps : s.ts \in Word /\ s.cpu \in Word

VARIABLES
  sent,      \* per thread: the tracer's [prev_size, prev_token, malloc_tok_seq]
  buf,       \* per thread: the bytes that are not in the trace yet
  recorded,  \* per thread: its events
  written,   \* the records of the trace
  trace,     \* its bytes
  pc,        \* "write", then "read" records, or events of a "buffer"
  pos,       \* how many bytes of the trace have been decoded
  active,    \* the Buf whose events are being decoded ends there, and whose
  state,     \* per thread: the ThreadState of its decoder
  decoded,   \* per thread: the decoded events
  outer      \* the decoded records

tracer_vars == <<sent, buf, recorded, written, trace>>
decoder_vars == <<pos, active, state, decoded, outer>>
vars == <<tracer_vars, pc, decoder_vars>>

ThreadStates == [prev_size : Word, prev_token : Word, malloc_tok_seq : Word]

TypeOK ==
  /\ sent \in [Threads -> ThreadStates] /\ state \in [Threads -> ThreadStates]
  /\ buf \in [Threads -> Seq(Byte)]
  /\ trace \in Seq(Byte)
  /\ pc \in {"write", "read", "buffer", "ended", "panicked"}
  /\ pos \in 0 .. Len(trace)
  /\ active \in [end : 0 .. Len(trace), thread : Threads]

Init ==
  /\ sent = [t \in Threads |-> InitialState]
  /\ buf = [t \in Threads |-> <<>>]
  /\ recorded = [t \in Threads |-> <<>>]
  /\ written = <<>> /\ trace = <<>>
  /\ pc = "write"
  /\ pos = 0
  /\ active = [end |-> 0, thread |-> Min(Threads)]
  /\ state = [t \in Threads |-> InitialState]
  /\ decoded = [t \in Threads |-> <<>>]
  /\ outer = <<>>

(***************************************************************************)
(* The tracer.                                                             *)
(***************************************************************************)
Encode(words) == FlattenSeq([i \in DOMAIN words |-> encode_unsigned(words[i])])

Has(t, type) ==
  \E i \in DOMAIN written : written[i].type = type /\ written[i].thread = t
Dead(t) == Has(t, kEventDeath)
Ended == written # <<>> /\ Last(written).type = kEventEnd

\* What a thread may do: allocate under the next token, release any token.
NewEvents(t) ==
  LET new == sent[t].malloc_tok_seq
  IN [type : {kEventMalloc}, size : Sizes, new : {new}]
     \cup [type : {kEventFree, kEventFreeSized}, old : Tokens]
     \cup [type : {kEventRealloc}, size : Sizes, new : {new}, old : Tokens]
     \cup [type : {kEventMemalign}, size : Sizes, new : {new}, alignment : Alignments]
     \cup [type : {kEventTok}, base : Tokens, stamp : FormatStamps]

EventWords(ev, s) ==
  CASE ev.type = kEventMalloc -> encode_malloc(ev, s)
    [] ev.type = kEventFree -> encode_free(ev, s)
    [] ev.type = kEventFreeSized -> encode_free_sized(ev, s)
    [] ev.type = kEventRealloc -> encode_realloc(ev, s)
    [] ev.type = kEventMemalign -> encode_memalign(ev, s)
    [] ev.type = kEventTok -> encode_token(ev)

\* Bounds: a thread's buffer is written before another thread records; what
\* they record at the same time meets in the trace only.  The size of a buffer
\* fits a word, as that of anything in memory does.
Record(t) ==
  /\ pc = "write"
  /\ ~Dead(t) /\ ~Ended
  /\ \A u \in Threads \ {t} : buf[u] = <<>>
  /\ MapThenSumSet(LAMBDA u : Len(recorded[u]), Threads) < MaxEvents
  /\ \E ev \in NewEvents(t) :
       /\ recorded' = [recorded EXCEPT ![t] = Append(@, ev)]
       /\ buf' = [buf EXCEPT ![t] = @ \o Encode(EventWords(ev, sent[t]))]
       /\ sent' = [sent EXCEPT ![t] = EncoderState(ev, @)]
       /\ Len(buf'[t]) \in Word
  /\ UNCHANGED <<written, trace, pc, decoder_vars>>

\* A record is added to the trace, with the bytes that follow its words.
Write(record, words, payload) ==
  /\ pc = "write"
  /\ ~Ended
  /\ Len(written) < MaxRecords
  /\ written' = Append(written, record)
  /\ trace' = trace \o Encode(words) \o payload
  /\ UNCHANGED <<sent, recorded, pc, decoder_vars>>

\* Bound: no empty Bufs.
Flush(t) ==
  \E stamp \in FormatStamps :
    LET record == [type |-> kEventBuf, thread |-> t, stamp |-> stamp,
                   size |-> Len(buf[t])]
    IN /\ ~Dead(t)
       /\ buf[t] # <<>>
       /\ Write(record, encode_buffer(record), buf[t])
       /\ buf' = [buf EXCEPT ![t] = <<>>]

Exit(t) ==
  \E stamp \in FormatStamps :
    LET record == [type |-> kEventDeath, thread |-> t, stamp |-> stamp]
    IN /\ Has(t, kEventBuf) /\ ~Dead(t) /\ buf[t] = <<>>
       /\ Write(record, encode_death(record), <<>>)
       /\ UNCHANGED buf

Barrier ==
  \E stamp \in FormatStamps :
    LET record == [type |-> kEventSyncBarrier, stamp |-> stamp]
    IN Write(record, encode_sync_barrier(record), <<>>) /\ UNCHANGED buf

End == Write([type |-> kEventEnd], encode_end, <<>>) /\ UNCHANGED buf

\* The tracer stops, after its End or without one.
Close ==
  /\ pc = "write"
  /\ Ended \/ Len(written) = MaxRecords
  /\ pc' = "read"
  /\ UNCHANGED <<tracer_vars, decoder_vars>>

(***************************************************************************)
(* The decoders of events-serializer.cc.                                   *)
(***************************************************************************)

\* A varint at `place' of a stream that ends at `end'.  When fewer than
\* kMaxSize bytes are left it is decoded from a copy of those, and what else the
\* copy holds is uninitialized.
Varint(place, end, fill) ==
  decode_unsigned([i \in 1 .. kMaxSize |->
                     IF place + i <= end THEN trace[place + i] ELSE fill])

\* The first word of a record, and the words after it, as many as its type has
\* of them in `counts' (DOMAIN counts are the known types).
Words(end, fill, counts) ==
  LET first == Varint(pos, end, fill)
      type == decode_type(first.value)
      second == Varint(pos + first.advance, end, fill)
      third == Varint(pos + first.advance + second.advance, end, fill)
      known == type \in DOMAIN counts
      count == IF known THEN counts[type] ELSE 1
  IN [type |-> type, known |-> known,
      words |-> <<first.value>>
                  \o (IF count >= 2 THEN <<second.value>> ELSE <<>>)
                  \o (IF count >= 3 THEN <<third.value>> ELSE <<>>),
      next |-> pos + first.advance + (IF count >= 2 THEN second.advance ELSE 0)
                                   + (IF count >= 3 THEN third.advance ELSE 0)]

RecordWordCounts ==
  [type \in {kEventDeath, kEventBuf, kEventEnd, kEventSyncBarrier} |->
     CASE type = kEventEnd -> 1
       [] type \in {kEventDeath, kEventSyncBarrier} -> 2
       [] type = kEventBuf -> 3]

DecodedRecord(type, words) ==
  CASE type = kEventDeath -> decode_death(words)
    [] type = kEventBuf -> decode_buffer(words)
    [] type = kEventSyncBarrier -> decode_sync_barrier(words)
    [] type = kEventEnd -> [type |-> kEventEnd]

\* OuterEvStream::next, and find_thread.
NextRecord ==
  \E fill \in Fills :
  LET got == Words(Len(trace), fill, RecordWordCounts)
      type == got.type
      record == DecodedRecord(type, got.words)
      payload == IF type = kEventBuf THEN record.size ELSE 0
  IN /\ pc = "read" /\ pos < Len(trace)
     /\ IF ~got.known
        THEN pc' = "panicked" /\ UNCHANGED decoder_vars
        ELSE IF got.next + payload > Len(trace)
        THEN pc' = "ended" /\ UNCHANGED decoder_vars
        ELSE /\ pos' = got.next
             /\ outer' = Append(outer, record)
             /\ IF type = kEventBuf /\ record.thread \in Threads
                THEN /\ pc' = "buffer"
                     /\ active' = [end |-> got.next + payload, thread |-> record.thread]
                ELSE UNCHANGED <<pc, active>>
             /\ UNCHANGED <<state, decoded>>
     /\ UNCHANGED tracer_vars

EventWordCounts ==
  [type \in {kEventMalloc, kEventFree, kEventFreeSized,
             kEventRealloc, kEventMemalign, kEventTok} |->
     IF type \in {kEventRealloc, kEventMemalign, kEventTok} THEN 2 ELSE 1]

\* ThreadState's consume functions.
Consumed(type, words, s) ==
  CASE type = kEventMalloc -> decode_malloc(words, s)
    [] type = kEventFree -> decode_free(words, s)
    [] type = kEventFreeSized -> decode_free_sized(words, s)
    [] type = kEventRealloc -> decode_realloc(words, s)
    [] type = kEventMemalign -> decode_memalign(words, s)
    [] type = kEventTok ->
         [event |-> decode_token(words),
          state |-> [s EXCEPT !.malloc_tok_seq = decode_token(words).base]]

\* FullThreadState::update_last_event_inner.
NextEvent ==
  \E fill \in Fills :
  LET t == active.thread
      got == Words(active.end, fill, EventWordCounts)
      consumed == Consumed(got.type, got.words, state[t])
  IN /\ pc = "buffer" /\ pos < active.end
     /\ IF ~got.known \/ got.next > active.end
        THEN pc' = "panicked" /\ UNCHANGED decoder_vars
        ELSE /\ pos' = got.next
             /\ decoded' = [decoded EXCEPT ![t] = Append(@, consumed.event)]
             /\ state' = [state EXCEPT ![t] = consumed.state]
             /\ UNCHANGED <<pc, active, outer>>
     /\ UNCHANGED tracer_vars

\* FullThreadState::update_last_event, at the end of a Buf.
EndOfBuffer ==
  /\ pc = "buffer" /\ pos >= active.end
  /\ pc' = "read"
  /\ UNCHANGED <<tracer_vars, decoder_vars>>

CaughtUp == pc = "read" /\ pos = Len(trace)
Finished == (CaughtUp \/ pc \in {"ended", "panicked"}) /\ UNCHANGED vars

Next ==
  \/ \E t \in Threads : Record(t) \/ Flush(t) \/ Exit(t)
  \/ Barrier \/ End \/ Close
  \/ NextRecord \/ NextEvent \/ EndOfBuffer
  \/ Finished

Spec == Init /\ [][Next]_vars

-------------------------------------------------------------------------------
\* How many bytes the comment at altvarint_codec.h:57 gives to a value.
ShortestLength(val) ==
  Min({n \in 1 .. B : val < 2 ^ (n * (B - 1))} \cup {kMaxSize})

Padded(bytes, byte) ==
  [i \in 1 .. kMaxSize |-> IF i <= Len(bytes) THEN bytes[i] ELSE byte]

\* Every word is encoded in as few bytes as the comment at altvarint_codec.h:57
\* says, and decoded from them to itself, whatever the memory after them holds;
\* zigzag maps n to 2n and -n to 2n - 1 (altvarint_codec.h:99), and back.
CodecFollowsTable ==
  pc = "write" /\ trace = <<>> /\ (\A t \in Threads : recorded[t] = <<>>) =>
    \A val \in Word :
      LET bytes == encode_unsigned(val)
      IN /\ Len(bytes) = ShortestLength(val)
         /\ \A fill \in Fills :
              decode_unsigned(Padded(bytes, fill))
                = [advance |-> Len(bytes), value |-> val]
         /\ unzigzag(zigzag(val)) = val
         /\ zigzag(val) = IF val < WordCount \div 2 THEN 2 * val
                          ELSE 2 * (WordCount - val) - 1

\* What the trace keeps of an event or record: sizes are rounded up, times
\* lose the bits where the cpu goes, and cpus all others.
Kept(ev) ==
  [field \in DOMAIN ev |->
     IF field = "size" /\ ev.type # kEventBuf THEN 8 * ((ev.size + 7) \div 8)
     ELSE IF field = "stamp"
     THEN [ts |-> ev.stamp.ts - (ev.stamp.ts % 2 ^ kTSShift),
           cpu |-> ev.stamp.cpu % 2 ^ kTSShift]
     ELSE ev[field]]
KeptOf(events) == [i \in DOMAIN events |-> Kept(events[i])]

\* What is decoded, of the trace and of each thread, is what was recorded, in
\* the same order, with nothing missing at the end and no panic: the second and
\* third words of a record are never taken for records, nor the bytes after a
\* varint for its own, and the differences of a thread's events add up across
\* its Bufs (events-serializer.cc:262-376, 420-464).
DecodesWhatWasRecorded ==
  /\ pc \notin {"ended", "panicked"}
  /\ IsPrefix(outer, KeptOf(written))
  /\ \A t \in Threads : IsPrefix(decoded[t], KeptOf(recorded[t]))
  /\ CaughtUp => /\ Len(outer) = Len(written)
                 /\ \A t \in Threads :
                      buf[t] = <<>> => Len(decoded[t]) = Len(recorded[t])

\* When the decoder has everything that a thread recorded, its ThreadState is
\* the tracer's: the next event, a difference to it, will come out right as
\* well, however many Bufs of other threads come before it.
DeltaStatesAgree ==
  CaughtUp => \A t \in Threads : buf[t] = <<>> => state[t] = sent[t]
=============================================================================
