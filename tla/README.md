# A TLA+ model of malloc-trace-replay

The tools of this repository take a trace of the calls a multi-threaded program
made to malloc and replay it. The trace is written by a tracer inside
gperftools, one buffer per thread, without any order between threads; the tools
find an order again (`README`: "We order thing as needed at postprocessing
time"). This directory holds a model of that: the merge of the threads' buffers
by `postprocess`, the translation of allocations into registers, the execution
of the result by `replay`, the allocator of register ids, the encoding of the
trace, and the reading of the trace and of `replay`'s input from a file or a
pipe. TLC checks the models on small instances. For all instances, TLAPS proves
every safety property that TLC finds to hold: of the merge, of the pipeline from
the traced program to `replay`, of the allocator of ids, of the codec and the
format of the trace, of the reading of the trace, and of `replay`'s input.

## The system

| part | state | operations | hard part |
|---|---|---|---|
| traced program and tracer (in gperftools, not here) | a buffer per thread, the live allocations | record an event, write a buffer as a *Buf*, write a *Death*, a *SyncBarrier*, *End* | Bufs of different threads reach the trace in any order |
| trace format: `malloc_trace_encoder.h`, `altvarint_codec.h` | deltas per thread | encode and decode | modular arithmetic, varint lengths |
| input: `MemStream`, `OuterEvStream` (`events-serializer.cc`), `FDInputMapper` | a window of realized bytes | advance, realize, unrealize, next record | short reads, end of input inside a record, dropped pages |
| serializer: `SerializeMallocEvents` (`events-serializer.cc`) | threads with queued Bufs and a decoded next event, a heap by time stamp, `pending_frees`, `to_die` | read to a barrier, drain, reap | releases that come before their allocation, deaths in another round than the last event |
| `SimpleReceiver`, `AllocatedMap` (`postprocess.cc`) | token to register map, id space, output | one per call of `EventsReceiver`, `DumpAllDeallocations` | reuse of registers |
| `IdTree` (`id_tree.h`) | four levels of bitmaps | `allocate_id`, `free_id` | growth of several levels at once, summaries |
| `replay` (`replay.cc`) | registers, current thread, thread caches | one per instruction, input buffer | depends on the order and on every switch and kill |
| `events_tally`, `decode-events.rb`, `bump-pipes.rb` | counters | | read-only tools |

All of it is sequential within a process. The concurrency is in the data: the
program that is traced runs its threads in any interleaving, the order in which
records reach the trace is another one, and `replay` runs next to `postprocess`
behind a pipe. Its input may be a pipe as well. The time stamps are only a
heuristic for a good order; what must be right whatever they say is

* every thread's events come out in that thread's order, each once, under that
  thread's id;
* nothing is released before it is allocated;
* a thread is killed once, after its last event;
* if the trace is complete, all of it comes out.

## The modules

| module | models | role |
|---|---|---|
| `TraceData` | the events, stamps and items of a trace | constants and their assumptions |
| `TracedProgram` | the program and its tracer (external) | environment |
| `EventsSerializer` | `SerializeMallocEvents`, `SerializeState`, `FullThreadState` | component |
| `EventsReceiver` | what the calls of the interface `EventsReceiver` mean | component, abstract |
| `TraceSerialization` | program, serializer and an abstract receiver | composition, properties |
| `MergedTrace` | a merge of the threads' events | abstract specification |
| `SimpleReceiver` | `SimpleReceiver` and `AllocatedMap` of `postprocess.cc` | component |
| `Replay` | `replay_instruction` and its helpers | component |
| `Pipeline` | program, serializer, `SimpleReceiver`, pipe, `replay` | composition, properties |
| `IdSpace` | an allocator that hands out the least free id | abstract specification |
| `IdTree` | `id_tree.h` | component, properties |
| `InputStream` | `MemStream`, `OuterEvStream::next`, `FDInputMapper` | component, properties |
| `AltVarintCodec` | `altvarint_codec.h` | operators |
| `MallocTraceEncoder` | `malloc_trace_encoder.h` | operators |
| `TraceFormat` | the tracer's buffers, the bytes of the trace, the decoders of `events-serializer.cc` | composition, properties |
| `ReplayReader` | `refill_buffer`, `buffer_read` and the loop of `main` in `replay.cc` | component, properties |
| `TraceSerialization_proof`, `MergesTraces_proof` | | proofs about `TraceSerialization`, the second on top of the first |
| `Pipeline_proof` | | proofs about `Pipeline`, on top of those |
| `IdTree_proof` | | proofs about `IdTree` |
| `InputStream_proof` | | proofs about `InputStream` |
| `AltVarintCodec_proof` | | proofs about `AltVarintCodec` |
| `TraceFormat_proof` | | proofs about `MallocTraceEncoder` and `TraceFormat`, on top of those |
| `ReplayReader_proof` | | proofs about `ReplayReader` |
| `MCTraceSerialization`, `MCPipeline` | | symmetry for TLC |
| `MCInputStream`, `MCTraceFormat`, `MCReplayReader` | | the inputs of the other runs |

### How the serializer's state maps to the code

A Buf is a sequence of *items*: events, the stamps of `Tok` items, and last the
stamp of the Buf's header, because `update_with_buf` applies the header only
when the Buf is used up. `todo[t]` is everything of `bufs`, from the position of
`active_stream` on, that has not been decoded; it is empty exactly when `bufs`
is empty. `active_stream` is set when the first Buf is queued and reset with the
last (604, 470), so it is there exactly when `bufs` is not empty, and an
assertion about the one is an assertion about the other. `last_event[t]` is
`last_event`, `last_stamp[t]` the pair of `last_ts` and `last_cpu`. `dead`,
`signalled` and `in_pending_frees` are the flags of these names, as sets. `heap`
maps each thread in the priority queue to the key *it was pushed with*: in the
code the key is the mutable `last_ts`, so that the two must never differ
(`HeapKeysFresh`). `pending_frees`, `to_die` and `next_to_die` are the
containers of these names, and `recv_thread_id` and `recv_stamp` the receiver
state that the serializer caches.

`last_ts` and `last_cpu` of a new thread are uninitialized in the code; the
initial state has any stamp there.

Actions: `AppendBuf`, `StartBuf` (the two cases of a Buf), `ReadDeath`,
`ReadBarrier` (SyncBarrier, End, end of input) are the read loop; `Process` and
`Wait` are one iteration of the drain loop, with all it does in it: the calls to
the receiver, the decoding of the next event, the requeueing or the kill, and
the wakeup of `add_allocated`; `Defer` and `Reap` are one iteration of the reap
loop and `EndReap` what follows it. The calls that a step makes to its receiver
are a record (`ProcessCalls`, `ReapCalls`, `BarrierCalls`) that the composing
module hands to `Receive`. When several threads have the least key, any of them
is the top: the order of `std::priority_queue` between equals is not specified.

`Asserting` models `assert`: with `NDEBUG = FALSE` a failing one ends the
program. The build files do not define `NDEBUG`, so that is what gets built;
with `NDEBUG = TRUE` the runs see what the rest of the code would do. The
assertions of all three loops are there: 595 and 603 (a Buf), 615 (a Death),
636, 637, 690 and 707 (drain), 726 to 739 (reap). A Death of an unknown
thread and a top of the heap without an event are a panic in every build.

Left out: sizes and alignments (nothing depends on them), the content of
messages, statistics, and the bytes of the trace: in the serializer a record is
read in one step; `InputStream` shows that the bytes are there when they are
read, and `TraceFormat` that they decode to what was recorded.
The program and the reading of the trace are interleaved in one behaviour: a
record is read at the moment it is written. Reading does not depend on how far
the program is ahead, so this loses no order of records.

### How the input's state maps to the code

`InputStream` keeps the positions of `MemStream` and `FDInputMapper` as
distances from the start of the reserved address space: `ptr` and `end` are
`ptr_` and `end_`, `last_start` and `last_end` those of the mapper;
`realized_start_` never moves. `pc` is what `OuterEvStream::next` is about to
do: `has_more`, a varint (`try_read_varint` or, for the second word of a Death,
`must_read_varint`), the payload of a Buf, and then, in `SerializeMallocEvents`,
the end of a round. Each step includes the `Realize` it calls. A record is its
type, the lengths of its varints and the length of its payload; the lengths come
from the trace, which is chosen with the number of its bytes that there are
(`size`) in the initial state. The step `garbled` stands for a varint that was
decoded from a copy that did not hold all of it, `panicked` for `panic`, and
`aborted` for a `Realize` that fails (an `mmap` of negative length; a start
behind what has been read, or an end before the start, which only
`unrealize_up_to` could ask for) and for the `abort` of `unrealize_up_to` when
less is mapped than the window had. A read that is interrupted (`EINTR`) is left
out.

At the end of a round the mapper gives up the pages before the barrier before the
last one, once there are more than `UnrealizeStep` bytes before it. The decoded
Bufs of `EventsSerializer` are pointers into those pages. A thread that waits for
longer than two rounds therefore has its Bufs taken away, if the trace is more
than 128 MiB further on; `BufsStayMapped` says what is kept, and no run claims
more.

### How the format maps to the code

`AltVarintCodec` is the codec on bytes of `B` bits and words of `B` bytes, each
of its functions an operator of the same name; where `decode_unsigned` finds the
lowest bit with `bsfl`, `TrailingZeros` is that bit's place. A signed value is the
word with the same bits, so that `zigzag` is a complement where the sign is set.
`MallocTraceEncoder` has the words of each record: an `encode_` operator gives
them for an event and the state of its thread (`prev_size`, `prev_token` and the
next token), `EncoderState` is what the encoder keeps, and a `decode_` operator
gives the event and the state that the decoder keeps.

`TraceFormat` puts the two together. The actions `Record`, `Flush`, `Exit`,
`Barrier` and `End` are the tracer's (external): events go to the thread's
`buf`, a Buf carries that into `trace`. `NextRecord` is `OuterEvStream::next`,
`NextEvent` is `update_last_event_inner`, with `state[t]` the `ThreadState` that
lives from one Buf of a thread to the next, and `EndOfBuffer` the end of
`active_stream`. A varint with fewer than `kMaxSize` bytes from its first to the
end of its stream is decoded from a copy (`read_varint_slow`), whose other bytes
are uninitialized: they have any value of `Fills`. In the code the events of a
Buf are decoded later than the records after it; as the threads' decoders share
nothing, the model decodes them at once. An unknown type, or a record that ends
behind its stream, is `panicked` or `ended`, as in the code.

### How the pipeline's state maps to the code

`allocated_map` is `allocated_`, a hash table in the code, `ids_space` the set
of ids in use in `ids_space_`, and `instructions` what was written to `out_` and
not read by `replay`. All that the serializer gets from its receiver is
`HasAllocated`, here the domain of `allocated_map`. In `TraceSerialization` the
receiver is abstract: `EventsReceiver` says what the calls mean, and that a
token is allocated from the call that allocates it to the one that frees it.
`SerializesTrace` says that `SimpleReceiver` is such a receiver. For that
`Pipeline` has the history variables `current`, `emitted` and `killed`: what the
calls were, which `SimpleReceiver` itself forgets. They are changed by the same
`Hear` as in `EventsReceiver`, and no guard reads them.

### How replay's state maps to the code

`Replay` executes an instruction in one step; a pointer is the token of its
allocation. An allocation that returns `nullptr` (`AllocationFails`) ends it.
`thread_states` is the map of this name, `cache` what tcmalloc uses. A cache is
named by the thread whose allocation made it; a thread that is switched to for
the first time gets one at once, because `thread_states` allocates the thread's
entry when there is none in use. `ReplayReader` is where the instructions come
from: `buffer`, `buf_ptr` and `buf_end` are the variables of these names, an
entry of `buffer` is the number of the byte in the output, `pc` is where `main`
is, `instr` and `next_instr` are its two instructions. One `read()` is a step,
and returns what the pipe has: any number of bytes that fit, or 0 when
postprocess has ended.

## The runs

| run | instance | shows |
|---|---|---|
| `merge_two_threads` | 2 threads, 2 Bufs each, 2 tokens, 2 times, no assertions | types, `ThreadPlaces`, `NoLostWakeup`, `ReleasedOnce`, `CompleteTraceDrained`, refinement of `MergedTrace`; 0.9 million states |
| `merge_three_threads` | 3 threads, 1 Buf each, 2 tokens, 2 times | the same with two threads waiting at once and chains of waits; 1.2 million states |
| `debug_build` | 2 threads, 1 Buf, Tok items inside Bufs, assertions on | `HeapKeysFresh`; only one assertion can fail, and no panic is met; 0.25 million states |
| `liveness` | 2 threads, 1 Buf, 1 time, `FairSpec` | each round ends, a complete trace comes out |
| `pipeline` | 2 threads, 2 Bufs each, 2 tokens | `SimpleReceiver` implements `EventsReceiver`; what `replay` does is a merge of what the program did; registers, with `replay` several operations behind; everything freed; thread caches; 0.6 million states |
| `id_tree` | words of 2 bits, up to 17 ids | summaries, growth assertions, refinement of `IdSpace`; 0.2 million states |
| `input_stream` | traces of 4 rounds of at most 2 records, cut after any byte, read from a file | the records there in full are returned, which cuts are a panic, nothing is misread and no `Realize` fails, two rounds of Bufs stay mapped; 0.3 million states |
| `trace_format` | words of 4 bytes of 4 bits, 2 threads, 2 events, 3 records | the codec on all words; what was recorded is decoded; the deltas of both sides agree; 0.18 million states |
| `replay_reader` | outputs of 0 to 31 bytes, instructions of 3, a buffer of 11, `FairSpec` | each instruction is executed once and in order; replay ends; 20 thousand states |
| `reap_assertion` | assertions on | a violation: `assert(thread->bufs.empty())` |
| `repeated_switch` | assertions on | a violation: `assert(current_thread_id != thread_id)` |
| `short_reads` | the same traces from a pipe | a violation: the input is given up before its end |

The bounds. Two Bufs per thread let the events of a thread arrive in two rounds,
its Death in a third, and the token it waits for in any of them; that is all
the code distinguishes (the first Buf of a thread without any, a Buf behind
others, a Buf after the thread ran dry). Two tokens give a realloc chain (one
waits for what the other reallocates) and two threads that wait at the same
time. In the pipeline run, the second Buf of a thread lets it go on after another
thread was killed at a barrier, where the receiver's current thread has to be
announced again. Two times make the order of the heap
matter, with ties. Empty Bufs are included. In the id tree, a word of 2 bits
makes a top word hold 16 ids, so 17 ids make every level grow at every point,
and the top level grow as well. The number of Bufs (`MaxBufs`), the places of
Tok items (`TokPlaces`), the ids in use (`MaxIds`) and the instructions in the
pipe (`PipeSize`) are the bounds that have no counterpart in the code. With
`PipeSize = 4` postprocess goes on while there are four instructions in the pipe
and adds up to four: `replay` may be behind by two operations with their
switches and more, so that ids are given back and taken again while instructions
with the old meaning are on their way. (No trace of this instance needs more
than 12.) In `repeated_switch` it goes on when the pipe is empty.

In the input runs a page is 4 bytes, the read-ahead one page, a varint at most 3
bytes and the magic 1 byte; `UnrealizeStep` is 3 pages, a payload up to 11 bytes.
So a varint, a payload and a barrier may lie across the end of a page or of the
window, a payload may be longer than the read-ahead, and pages are dropped in the
third and the fourth round. The code's values are in the same order. `MinRead`
is the least that a `read` returns while there is more: as much as there is, for
a file, and at least a varint in `short_reads`, so that what fails there does not
need an input that trickles in byte by byte.

In `trace_format` the type of an extended record takes 6 bits instead of 8, all
that its numbers need, and the cpu 2 instead of 10. Sizes, tokens and thread ids
are the least and the largest that fit, so that differences of both signs and
varints of every length occur, the longest one too. A thread's buffer is written
before another records, no Buf is empty, and the tracer stops at its End or
after `MaxRecords`: these bound the interleavings of writers, not what is in the
trace. That the size of a buffer is a word is no bound of the code's: a buffer
is in memory. Two events are two of one thread, in one Buf or with records
between, or one of each of two.

In `replay_reader` 31 bytes make the buffer wrap at least three times, at any
place in an instruction, and the output end inside one. The buffer is the least
that its assumption allows (moved bytes never overlap their new place) plus one;
`kMinReadAmount` is more than an instruction and no multiple of it, as in the
code.

Symmetry in threads and tokens is used where only safety is checked; threads
and tokens are compared for equality only.

Fairness: `FairSpec` assumes that the serializer, which is a loop that waits for
nothing but input, takes a step when it has one. Nothing is assumed of the
program: it may stop at any time and the trace may never end. In
`replay_reader`, weak fairness of the whole means that replay is scheduled and
that a `read()` returns, since postprocess writes what it has or ends; both are
loops that wait for nothing else.

The operators named as mistakes in the modules are not part of the model. Each
changes the definition that follows it the way a slip in the code would (a
missing wakeup, a key changed in place, a kill that is repeated), and with it
some property of a run fails.

### What the runs found

* `events-serializer.cc:727` asserts that a thread to be reaped has no Bufs
  left, and line 728 provides for one that waits in `pending_frees` and so has
  one. If a thread dies while its next event waits for a token that comes after
  the barrier, the program aborts. `debug_build` shows that this is the only
  way for an assertion of `SerializeMallocEvents` to fail, and `merge_two_threads`, that
  without the assertion such a trace is handled correctly.
* `events-serializer.cc:734` switches the receiver to a dead thread without
  asking whether it is there already; `replay.cc:99` asserts that a switch is
  to another thread. It happens when a thread's Death is read in a later round
  than its last event, and that event was the last one processed.
* `fd-input-mapper.cc:71` reads once, and `MemStream` takes a short result for
  the end of the data (`events-serializer.cc:148`). With a file that is right.
  With a pipe whose pieces are shorter than what is left of a Buf, the trace
  silently ends there.
* `events-serializer.cc:279` reads the second word of a Death with
  `must_read_varint`, where all other words are read with `try_read_varint`: a
  trace cut off there ends in a panic, one cut off anywhere else behind the magic
  is read to its last full record (`PanicsOnCutDeath`). Nothing in the repository
  says that it should not, so there is no run with a violation.
* `altvarint_codec.h:192`, the build for other machines than x86_64, takes the
  place of the lowest bit from `__builtin_ffsll`, which counts from 1, and then
  adds the 1 that the other build adds to a place that counts from 0. With that
  (`FindFirstSet` in place of `TrailingZeros`) hardly any value is decoded to
  itself.
* `replay.cc:117` looks a cache up that is only there when the thread was
  switched to more than once. `ThreadsKeepCaches` shows that no thread runs on
  another's cache all the same. The cache of a killed thread stays in use, is
  filed under `kInvalidThreadId` by the next switch, and the switch after the next
  kill overwrites it there; `delete_malloc_state` gets it only while it is in
  use.

## The proofs

`TraceSerialization_proof` proves `Spec => []TypeOK` for every value of the
constants that satisfies the assumptions of `TraceData` and `TracedProgram`.
That is not shallow: the types of `last_event` and `last_stamp` rest on what the
decoder finds in a mixed sequence of events and stamps (`FirstEventFound`,
`DecodingTypes`).

It also proves `ThreadPlaces`, `HeapKeysFresh`, `NoLostWakeup` and
`ReleasedOnce`. The argument:

* `NoLostWakeup` is inductive with the types: a thread comes to wait only for a
  token that is not allocated, and a token becomes allocated only in the step
  that removes its waiter.
* `ThreadPlaces` is not. When a thread comes to wait, `insert` would drop it if
  another thread waited for the same token. That no two threads do is a
  property of the trace, not of the serializer: the program releases a token
  once. `ReleasedOnce` says it of all that is still to come out of any thread:
  the decoded event, the undecoded items, and what is not written yet.
* `ReleasedOnce` is preserved because every step only takes items from the front
  of what is held of a thread, or appends a stamp, or appends a recorded event
  whose token was live until then. That is the relation `ShiftOf` between two
  sequences, and the lemma `DecodingShifts` shows that decoding satisfies it.
  `LiveNotFresh` keeps a live token from being handed out again.
* `EndsInStamp` says that the items of a thread end in a stamp, so that a thread
  that has an event left always has items left after it.

Together these are the inductive invariant `IInv`.

`MergesTraces_proof` proves that `TraceSerialization` implements `MergedTrace`,
and `OnlyWaitingDeathsAbort`. Its invariant `MergeInv` adds to `IInv`:

* `HeldIsTheRest`: what has come out of a thread is the beginning of what the
  thread has recorded, and the events that are still held of it, among stamps,
  are the rest (`Continues`). The proof has a lemma for each way in which what is
  held changes: a stamp or an event is appended, the first event is decoded or
  comes out.
* `MadeOnce`: what is still to come out makes a token once, and one that nobody
  has. With it, processing an event whose release is allocated is the abstract
  step, and not one that allocates a token twice.
* `DeadThreads`: who is dead is on its way to a kill, in `to_die` or
  `next_to_die` once, or has been killed; `NextIsDecoded` and `DrainedBeforeReap`
  then say that a thread with nothing waiting is reaped with nothing left.
* `ReceiverFollows`: the cached `recv_thread_id` is the receiver's thread, or one
  that has been killed.

`OnlyWaitingDeathsAbort` follows: `ThreadPlaces` and `NextIsDecoded` say that a
thread at the top of the heap has an event and Bufs (636, 637 and the panic),
`ReleasedOnce` that no other waits for its token (707), `DeadThreads` and
`DrainedBeforeReap` what the reading and the reap loop assert of a dead thread,
but for one that waits.

A step of the program that records an event maps to `Record`, `Process` to
`Emit`, with `Kill` if a dead thread ran dry in it, and `Reap` to `Kill`, unless
the thread was killed before; all other steps are stutters.

Its second part proves `CompleteTraceDrained`. A thread that still waits at the
end waits for an event that has not come out either, of a thread that hence
waits too. That this cannot go on forever is a fact about the program: an
allocation is recorded before its release. `CausesPrecede` says that recorded
events can be given times, increasing within a thread and from an allocation to
its release; the event of the least time among those left has nothing to wait
for. `MadeIsAllocated` says that what came out and was not released is
allocated, and `OnlyWaitersAreKept`, that a thread which keeps items over a
round waits.

`Pipeline_proof` proves `SerializesTrace`: step by step, `Pipeline` does
what `TraceSerialization` does, because `SimpleReceiver` changes the domain of its
map as `EventsReceiver` changes `allocated`. So `MergeInv` holds in the pipeline.
The two modules have the same operators under different names, and the
first lemmas of the proof say that these are equal.

It also proves all the safety properties of the pipeline run. `replay` is behind
postprocess by what is in the pipe. Its invariant `PipeInv` is `MergeInv`,
`MapInv` (the map is one-to-one, into ids in use) and `Runs`: there is a
sequence of states that begins with the one `replay` is in, ends with the one
postprocess has in mind (`End`: the registers that `allocated_map` says, the
thread of the last switch, what was called so far), and goes from each state to
the next by the instruction at that place of the pipe. Each of these
instructions finds what it needs (`Fits`): an empty register to store to, a full
one to free, a thread to kill. A step of postprocess puts a state at the end,
one of `replay` takes the first away. `Fits` is about states between the two
ends that nobody is in at the time, which is why none of the properties is
inductive alone. From it:

* `TargetRegisterEmpty` is `Fits` of the first instruction;
* `RegistersMirrorMap` and `EverythingFreed` are `Runs` with an empty pipe, where
  the two ends are the same state, with `CountInv` (`allocated_count` is the
  number of registers in use);
* `ThreadsKeepCaches` needs `CacheInv`, what `thread_states` has of each thread,
  and that the pipe kills no thread twice and switches to no killed one;
* that `replay` implements `MergedTrace` holds because the operation an
  instruction performs is the next one of its thread in `emitted`, and so in the
  trace;
* `TypeOK` bounds the registers by the number of tokens; it has the hypothesis
  that the tokens are finitely many, since otherwise that number means nothing.

`ReplayReader_proof` proves all the safety properties of `ReplayReader`, for
every size of the buffer, of an instruction and of the output. `RoomToRead` is
not inductive: that a read leaves room for the next one depends on how much
there was when `refill_buffer` was called. `RoomForTheRest` says that while it
reads there is room for all that is left of `kMinReadAmount`. It holds when the
reading starts because `refill_buffer` is only called with less than an
instruction in the buffer, and after that is moved to the front
`BufferSizeAssumption` leaves room for `kMinReadAmount`.
`ExecutesEveryInstruction` needs that the bytes taken from the buffer
(`Consumed`) are those of the instructions that were executed and of the ones
`main` holds, and that `pc` is past the reading only when an instruction is
there or the rest is less than one.

`InputStream_proof` proves the safety properties of `InputStream`, for every
trace, size of a page, read-ahead and place at which the input ends. `TypeOK`
and `BufsStayMapped` hold however little each `read()` returns.
`NothingMisread`, `ReadsEveryRecord`, `PanicsOnCutDeath` and
`GivesUpAtEndOfData` have the hypothesis `FromFile`: the least that a `read()`
returns while there is more (`MinRead`) is no less than what there is, so that
each returns all it can. `short_reads` shows that it is needed. The inductive
invariant `StreamInv` has, besides the types,

* `AtPart`: which part of a record the position is at, and that this is its
  place in the trace;
* `WindowInv`: how the window, what has been read and the noted barriers lie.
  The upper bound in it is what makes `Realize` succeed: no more has been read
  than the stream would ask for at its position, so that it is never asked for
  less than is mapped, though `unrealize_up_to` moves the end of the window
  behind the position. While a record is read, and at a barrier, the window ends
  where the reading did, so that what `unrealize_up_to` asks for is there;
* `ReturnedInv`: what has been returned is the beginning of what is there;
* `BarrierInv`: which records lie behind the two noted barriers and behind the
  start of what is mapped, for which round. `BufsStayMapped` says this of the
  moment when a round has ended; that it is so then depends on the barriers
  noted one and two rounds before;
* with `FromFile`, `GivesUpLast`: when `next` gives up or panics, the next record
  is cut off, and it panics just for the magic and for a Death cut in its second
  word.

The places of the records are the recursive function `Ends`, of which the proof
first shows that it is there and grows.

`AltVarintCodec_proof` proves of the codec, for bytes of any number of bits from
2 on and words of as many bytes as a byte has bits, that each word is decoded to
itself from its encoding and whatever follows (`CodecIs`). The provers know
nothing of powers of 2, of quotients and remainders by what is not a literal, or
of words as sums of bytes. So the first part has the facts used of these:
`PowIs` counts subsets of an interval, of which the library knows the number;
`WordOfBytes` finds the value of a word from its bytes by a descent from the
highest to the lowest. `ShortNumberIs` is the form of an encoding of fewer than
`kMaxSize` bytes, a 1 below the value and as many zeros below that as bytes
follow the first, and `ShortDecoding` finds them again.

`TraceFormat_proof` proves the safety properties of `TraceFormat`, for any
threads, tokens, sizes and alignments that fit their places in a word, any
number of bits of a byte, and of the types and the cpu, and any contents of
uninitialized memory. `CodecFollowsTable` adds to `CodecIs` that no fewer bytes
are enough (`EncodingIsShortest`). `EventsAre` and `RecordsAre` say of each kind
of event and record that its words are decoded to what is kept of it and to the
encoder's next state, if the decoder is in the encoder's state. What remains is
that the decoder always is, and at the right place. For that `TraceInvariant`
says that there are four functions, which no variable holds:

* `st[t][n]`, the state of the encoder of `t` after `n` of its events, by which
  each event has its bytes (`EncodedFrom`);
* `beg[t][n]`, the place of the `n`-th event of `t`, in the trace or in the
  thread's buffer (`EventsLie`: the events follow each other, without a gap from
  a Buf's first byte to its last);
* `rp[i]`, the place of the `i`-th record, and `cnt[i][t]`, how many events of
  `t` the Bufs before it hold (`Laid`).

The decoder is then at `rp` of the next record, or at `beg` of the next event of
the Buf it is in, with the state `st` after as many events as it has
(`Decoding`). A step of the tracer extends the functions (`LaidWithEvent`,
`LaidWithRecord`); a `Flush` moves the places of the events from the buffer to
behind the words of the Buf (`LaidWithBuffer`). A step of the decoder leaves
them as they are (`NextRecordIs`, `NextEventIs`). None of
`DecodesWhatWasRecorded`, `DeltaStatesAgree` or the types is inductive without
them: what is decoded next depends on bytes of the trace that no property speaks
of. As the functions are not variables, TLC does not check `TraceInvariant`
itself; it checks what follows from it.

`IdTree_proof` proves the safety properties of `IdTree` and that it implements
`IdSpace`, for every size of a word and every number of ids. Its invariant
`TreeInv` is the types and, for each level and the one above, `Summarizes`: every
word below has a bit above, and a bit above says whether its word has a set bit or
is not there. The first half is what `SummaryBits` lacks to be inductive. Along
the code:

* `WayDown` is a step of the way down: a bit that is set above leads to a word
  with a set bit, or to the first missing word, and it is the first such word.
  `PathReaches` puts the levels together. When the path reaches a word that is
  missing, the level under it already has a word for every bit there is above:
  this is `GrowthAssertions`. It is why the pushed words fit (`GrownIsTree`).
* `ChangedIsTree` says what a change of one bit at each level must do for
  `TreeInv` to stay; `ClearIsTree` and `SetIsTree` show that `set_bit` does it,
  with its early end at the first level at which nothing changes above.
* `AllocatedIsLeast` and `LeastFreeIs`: the id found is the least one that is
  not in use, which is the step of `IdSpace`.

The proofs assume what the modules assume of their constants, each of which the
code or the format fixes, and nothing else but the two hypotheses above, that
tokens are finitely many (for `TypeOK` of `Pipeline`) and `FromFile`.

Where a proof needs an induction, on a number of rounds, of bytes or of records,
it looks at the least counterexample (`LeastMember`): the library's induction
theorems take an operator as a parameter, which the provers cannot instantiate.
In the same way a recursive function of the model is first shown to exist, and
then to have the values that its definition says (`FromExists` and `FromUnique`,
`EndsExist` and `EndsIs`).

Checked by TLC only: the liveness properties `RoundsEnd`,
`CompleteTraceComesOut` and `ReplayEnds`, which are out of reach of the prover.
The three runs that expect a violation are not about all instances;
`GivesUpAtEndOfData`, which fails in `short_reads`, is proved of files.

## Plan

In the order of importance; all of it is done.

1. `TraceData`, `TracedProgram`, `EventsSerializer`, `EventsReceiver`,
   `TraceSerialization`: the merge, which everything else relies on.
2. `MergedTrace` and the refinement of it.
3. Proofs of types, places, wakeups.
4. `SimpleReceiver`, `Replay`, `Pipeline`.
5. `IdTree` and `IdSpace`.
6. `InputStream`: the window of `MemStream` over `FDInputMapper`, with short
   reads, `permissive_advance_`, and `unrealize_up_to`; that
   `OuterEvStream::next` returns the records of the input and then ends.
7. `AltVarintCodec`, `MallocTraceEncoder`, `TraceFormat`: the codec as operators
   over small words, the deltas and tokens of a thread, decoded as they were
   encoded.
8. `ReplayReader`: `refill_buffer` and `buffer_read`, and the loop of `main`
   that looks one instruction ahead; the thread caches in `Replay`.
9. Proofs: all safety properties of `TraceSerialization`, `Pipeline`,
   `ReplayReader`, `IdTree`, `InputStream` and `TraceFormat`, and the
   refinements of `MergedTrace`, `EventsReceiver` and `IdSpace`.

## Not modelled

`PrintReceiver` (prints each call and passes it on; not used) and
`decode-events.rb` (debug output). `events_tally`: its copy of `MemStream` is
the one modelled, and its counts have no meaning to state. It does not skip the
magic, whose first bytes read as a FreeSized, and it expects a second word after
every FreeSized (`events-tally.cc:283`), which the format does not have.
`bump-pipes.rb` and the pipe sizes; what tcmalloc does with a cache that is set
over another one or twice; `NO_THREAD_CACHE_SWITCH`, with which no cache is
handed out; the failure of system calls (the tools abort), except for the `mmap`
of `Realize` and for allocations in `replay`; the output buffer of stdio in
`postprocess`, which delays instructions as a longer pipe does. Thread ids are
assumed not to be used again after a Death, and tokens never; sizes below 2^58
and tokens below 2^60, so that their differences fit beside a type: all that is
for the tracer to keep.
