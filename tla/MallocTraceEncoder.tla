-------------------------- MODULE MallocTraceEncoder --------------------------
(***************************************************************************)
(* malloc_trace_encoder.h: the words of each record of a trace.  A record  *)
(* starts with a word whose low bits are its type.  Sizes, in units of 8   *)
(* bytes, and tokens to release are differences to the last one of their   *)
(* thread, which the two sides of a trace both keep; tokens of allocations *)
(* are counted on both sides.                                              *)
(*                                                                         *)
(* The state of a thread is [prev_size, prev_token, malloc_tok_seq].       *)
(***************************************************************************)
EXTENDS AltVarintCodec

CONSTANTS
  kExtTypeShift, \* the bits of a type with kEventExtBase as its low ones
  kTSShift       \* the low bits of a time stamp, where the cpu is

ASSUME ShiftAssumption ==
  /\ kExtTypeShift \in 6 .. WordBits - 1
  /\ kTSShift \in 1 .. WordBits - 1

kEventMalloc == 0
kEventFree == 1
kEventTok == 2
kEventBuf == 3
kEventFreeSized == 4
kEventExtBase == 7
kTypeShift == 3

kEventDeath == kEventExtBase
kEventEnd == kEventExtBase + 8
kEventRealloc == kEventExtBase + 16
kEventMemalign == kEventExtBase + 24
kEventSyncBarrier == kEventExtBase + 32

InitialState == [prev_size |-> 0, prev_token |-> 0, malloc_tok_seq |-> 0]

TimeOf(word) == word - Low(word, kTSShift)
CpuOf(word) == Low(word, kTSShift)
bundle_ts_and_cpu(stamp) == TimeOf(stamp.ts) + CpuOf(stamp.cpu)
unbundle_ts_and_cpu(word) == [ts |-> TimeOf(word), cpu |-> CpuOf(word)]

(***************************************************************************)
(* Encoding: the words of a record, given the state of its thread.         *)
(***************************************************************************)
Tagged(val, shift, type) == Shl(val, shift) + type
Units(size) == Shr(Add(size, 7), 3)
SizeDelta(size, state) == zigzag(Sub(Units(size), state.prev_size))
TokenDelta(token, state) == zigzag(Sub(token, state.prev_token))

encode_malloc(ev, state) ==
  <<Tagged(SizeDelta(ev.size, state), kTypeShift, kEventMalloc)>>
encode_free(ev, state) ==
  <<Tagged(TokenDelta(ev.old, state), kTypeShift, kEventFree)>>
encode_free_sized(ev, state) ==
  <<Tagged(TokenDelta(ev.old, state), kTypeShift, kEventFreeSized)>>
encode_realloc(ev, state) ==
  <<Tagged(SizeDelta(ev.size, state), kExtTypeShift, kEventRealloc),
    TokenDelta(ev.old, state)>>
encode_memalign(ev, state) ==
  <<Tagged(SizeDelta(ev.size, state), kExtTypeShift, kEventMemalign),
    ev.alignment>>
encode_token(ev) ==
  <<Tagged(ev.base, kTypeShift, kEventTok), bundle_ts_and_cpu(ev.stamp)>>
encode_buffer(ev) ==
  <<Tagged(ev.thread, kTypeShift, kEventBuf), bundle_ts_and_cpu(ev.stamp), ev.size>>
encode_death(ev) ==
  <<Tagged(ev.thread, kExtTypeShift, kEventDeath), bundle_ts_and_cpu(ev.stamp)>>
encode_sync_barrier(ev) == <<kEventSyncBarrier, bundle_ts_and_cpu(ev.stamp)>>
encode_end == <<kEventEnd>>

\* What the encoder keeps of an event for the next one of its thread.
EncoderState(ev, state) ==
  [prev_size |-> IF "size" \in DOMAIN ev THEN Units(ev.size) ELSE state.prev_size,
   prev_token |-> IF "old" \in DOMAIN ev THEN ev.old ELSE state.prev_token,
   malloc_tok_seq |-> IF ev.type = kEventTok THEN ev.base
                      ELSE IF "new" \in DOMAIN ev THEN Add(ev.new, 1)
                      ELSE state.malloc_tok_seq]

(***************************************************************************)
(* Decoding: the record, and the state of its thread after it.             *)
(***************************************************************************)
decode_type(first) ==
  IF Low(first, kTypeShift) # kEventExtBase THEN Low(first, kTypeShift)
  ELSE Low(first, kExtTypeShift)

DecodedUnits(word, state) == Add(unzigzag(word), state.prev_size)
DecodedToken(word, state) == Add(unzigzag(word), state.prev_token)
WithSize(units, state) ==
  [state EXCEPT !.prev_size = units, !.malloc_tok_seq = Add(@, 1)]

decode_malloc(words, state) ==
  LET units == DecodedUnits(Shr(words[1], kTypeShift), state)
  IN [event |-> [type |-> kEventMalloc, size |-> Shl(units, 3),
                 new |-> state.malloc_tok_seq],
      state |-> WithSize(units, state)]

decode_free(words, state) ==
  LET token == DecodedToken(Shr(words[1], kTypeShift), state)
  IN [event |-> [type |-> kEventFree, old |-> token],
      state |-> [state EXCEPT !.prev_token = token]]

\* Mistake: a sized free leaves the last token alone.
ForgetToken(words, state) ==
  [event |-> [type |-> kEventFreeSized,
              old |-> DecodedToken(Shr(words[1], kTypeShift), state)],
   state |-> state]

decode_free_sized(words, state) ==
  LET token == DecodedToken(Shr(words[1], kTypeShift), state)
  IN [event |-> [type |-> kEventFreeSized, old |-> token],
      state |-> [state EXCEPT !.prev_token = token]]

decode_realloc(words, state) ==
  LET units == DecodedUnits(Shr(words[1], kExtTypeShift), state)
      token == DecodedToken(words[2], state)
  IN [event |-> [type |-> kEventRealloc, size |-> Shl(units, 3),
                 new |-> state.malloc_tok_seq, old |-> token],
      state |-> [WithSize(units, state) EXCEPT !.prev_token = token]]

decode_memalign(words, state) ==
  LET units == DecodedUnits(Shr(words[1], kExtTypeShift), state)
  IN [event |-> [type |-> kEventMemalign, size |-> Shl(units, 3),
                 new |-> state.malloc_tok_seq, alignment |-> words[2]],
      state |-> WithSize(units, state)]

decode_token(words) ==
  [type |-> kEventTok, base |-> Shr(words[1], kTypeShift),
   stamp |-> unbundle_ts_and_cpu(words[2])]
decode_buffer(words) ==
  [type |-> kEventBuf, thread |-> Shr(words[1], kTypeShift),
   stamp |-> unbundle_ts_and_cpu(words[2]), size |-> words[3]]
decode_death(words) ==
  [type |-> kEventDeath, thread |-> Shr(words[1], kExtTypeShift),
   stamp |-> unbundle_ts_and_cpu(words[2])]
decode_sync_barrier(words) ==
  [type |-> kEventSyncBarrier, stamp |-> unbundle_ts_and_cpu(words[2])]
=============================================================================
