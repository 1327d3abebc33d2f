-------------------------------- MODULE Replay --------------------------------
(***************************************************************************)
(* replay.cc: the instructions executed one after the other.  A pointer is *)
(* the token of the allocation it came from, so that `registers' says      *)
(* which allocation each register holds; a register that holds nullptr is  *)
(* not in its domain.                                                      *)
(*                                                                         *)
(* A thread cache of tcmalloc is named {t} when the first allocation on it *)
(* was for thread t, and {} is nullptr.  The statistics are left out.      *)
(***************************************************************************)
EXTENDS TraceData, Integers

VARIABLES
  replay_state,      \* "running", or "aborted" (assertion, trap, nullptr)
  registers,         \* register |-> the pointer in it
  current_thread_id, \* the simulated thread
  thread_states,     \* the cache kept for each thread that was switched to
  cache,             \* the cache that tcmalloc uses
  allocated_count,
  replayed,          \* per thread: the operations executed under its id
  replay_killed,     \* the threads killed, in that order
  swept              \* what was freed by FREE, not by the trace

process_vars == <<registers, current_thread_id, thread_states, cache,
                  allocated_count, replayed, replay_killed, swept>>
replay_vars == <<replay_state, process_vars>>

ReplayInit ==
  /\ replay_state = "running"
  /\ registers = [reg \in {} |-> NoTok]
  /\ current_thread_id = NoThread
  /\ thread_states = [t \in {} |-> {}]
  /\ cache = {NoThread}
  /\ allocated_count = 0
  /\ replayed = [t \in Threads |-> <<>>]
  /\ replay_killed = <<>>
  /\ swept = {}

\* What is in a register, NoTok for nullptr.
At(reg) == IF reg \in DOMAIN registers THEN registers[reg] ELSE NoTok

\* MALLOC and FREE trap, in every build, on a register that is taken or
\* empty; MEMALIGN never looks; what the others check are assertions.
Trapped(i) ==
  \/ i.type = "MALLOC" /\ At(i.reg) # NoTok
  \/ i.type = "FREE" /\ At(i.reg) = NoTok
AssertionsHold(i) ==
  /\ i.type \in {"REALLOC", "FREE_SIZED"} => At(i.reg) # NoTok
  /\ i.type = "SWITCH_THREAD" => i.thread \notin {current_thread_id, NoThread}
  /\ i.type = "KILL_THREAD" => current_thread_id # NoThread

\* The registers when the types in `clearing' set theirs to nullptr; what an
\* instruction stores comes after that.
RegistersClearing(i, clearing) ==
  LET released == IF i.type \in clearing THEN {i.reg} ELSE {}
      target == IF i.type = "REALLOC" THEN {i.new_reg}
                ELSE IF i.type \in {"MALLOC", "MEMALIGN"} THEN {i.reg} ELSE {}
  IN [reg \in (DOMAIN registers \ released) \cup target |->
        IF reg \in target THEN i.tok ELSE registers[reg]]

\* Mistakes: FREE_SIZED, or REALLOC, leaves the pointer in its register.
RegistersNotFreed(i) == RegistersClearing(i, {"FREE", "REALLOC"})
RegistersNotMoved(i) == RegistersClearing(i, {"FREE", "FREE_SIZED"})

RegistersAfter(i) == RegistersClearing(i, {"FREE", "FREE_SIZED", "REALLOC"})

\* Mistake: REALLOC counts as an allocation.
CountReallocs(i) ==
  IF i.type \in {"MALLOC", "MEMALIGN", "REALLOC"} THEN allocated_count + 1
  ELSE IF i.type \in {"FREE", "FREE_SIZED"} THEN allocated_count - 1
  ELSE allocated_count

CountAfter(i) ==
  IF i.type \in {"MALLOC", "MEMALIGN"} THEN allocated_count + 1
  ELSE IF i.type \in {"FREE", "FREE_SIZED"} THEN allocated_count - 1
  ELSE allocated_count

ThreadAfter(i) ==
  IF i.type = "SWITCH_THREAD" THEN i.thread
  ELSE IF i.type = "KILL_THREAD" THEN NoThread
  ELSE current_thread_id

\* thread_states once a switch to t has put the cache in use under the current
\* thread, and looked up t.
StatesWith(t) ==
  [u \in DOMAIN thread_states \cup {current_thread_id, t} |->
     IF u = current_thread_id THEN cache
     ELSE IF u \in DOMAIN thread_states THEN thread_states[u] ELSE {}]

\* Mistake: a thread without a cache goes on with the one that was in use.
CacheKept(t) == IF StatesWith(t)[t] = {} THEN cache ELSE StatesWith(t)[t]

\* The cache in use after a switch to t.  A thread without one gets a new one
\* at once: its entry of thread_states is allocated on it.
CacheOf(t) == IF StatesWith(t)[t] = {} THEN {t} ELSE StatesWith(t)[t]

\* handle_switch_thread and handle_kill_thread, for the caches.  When a kill
\* finds a cache it is the one in use, which delete_malloc_state takes from
\* tcmalloc and sets twice; when it finds none, the cache stays in use too.
CachesAfter(i) ==
  CASE i.type = "SWITCH_THREAD" ->
         thread_states' = StatesWith(i.thread) /\ cache' = CacheOf(i.thread)
    [] i.type = "KILL_THREAD" ->
         /\ thread_states' = [u \in DOMAIN thread_states \ {current_thread_id} |->
                                thread_states[u]]
         /\ UNCHANGED cache
    [] OTHER -> UNCHANGED <<thread_states, cache>>

\* The operation of the traced program that the instruction performs.
Performed(i) ==
  [old |-> IF i.type \in {"REALLOC", "FREE_SIZED"} THEN At(i.reg) ELSE NoTok,
   new |-> IF i.type \in {"MALLOC", "MEMALIGN", "REALLOC"} THEN i.tok ELSE NoTok]

ReplayInstruction(i) ==
  /\ replay_state = "running"
  /\ replay_state' = IF Trapped(i) \/ (~NDEBUG /\ ~AssertionsHold(i))
                     THEN "aborted" ELSE "running"
  /\ registers' = RegistersAfter(i)
  /\ current_thread_id' = ThreadAfter(i)
  /\ CachesAfter(i)
  /\ allocated_count' = CountAfter(i)
  /\ replayed' = IF Performed(i) = NoEvent THEN replayed
                 ELSE [replayed EXCEPT
                         ![current_thread_id] = Append(@, Performed(i))]
  /\ replay_killed' = IF i.type = "KILL_THREAD"
                      THEN Append(replay_killed, current_thread_id)
                      ELSE replay_killed
  /\ swept' = IF i.type = "FREE" THEN swept \cup {At(i.reg)} ELSE swept

\* The allocation returns nullptr, and replay aborts with nothing stored.
AllocationFails(i) ==
  /\ replay_state = "running"
  /\ i.type \in {"MALLOC", "MEMALIGN", "REALLOC"}
  /\ replay_state' = "aborted"
  /\ UNCHANGED process_vars
=============================================================================
