-------------------------- MODULE MergesTraces_proof --------------------------
(***************************************************************************)
(* That TraceSerialization implements MergedTrace, that nothing but a      *)
(* thread which ended while it waits makes the serializer abort, and, in   *)
(* the second part, that a complete trace comes out whole.                 *)
(*                                                                         *)
(* What has come out of a thread, followed by the events that are still    *)
(* held of it, is what the thread has recorded.  The rest of the invariant *)
(* says when a thread is killed: once, after all of that, and under its    *)
(* own name.                                                               *)
(***************************************************************************)
EXTENDS TraceSerialization_proof

(***************************************************************************)
(* The invariant.                                                          *)
(***************************************************************************)

\* The events of h, in order, are those of r from the k-th on: place n of r is
\* place f[n] of h.
Continues(h, r, k) ==
  \E f \in [k + 1 .. Len(r) -> DOMAIN h] :
    /\ \A m, n \in k + 1 .. Len(r) : m < n => f[m] < f[n]
    /\ \A n \in k + 1 .. Len(r) : h[f[n]] = r[n]
    /\ \A i \in DOMAIN h : h[i] \in Events => \E n \in k + 1 .. Len(r) : i = f[n]

HeldIsTheRest ==
  \A t \in Threads :
    /\ Len(emitted[t]) <= Len(recorded[t])
    /\ \A n \in 1 .. Len(emitted[t]) : emitted[t][n] = recorded[t][n]
    /\ Continues(Held(t), recorded[t], Len(emitted[t]))

\* A thread has a decoded event while it has undecoded items.
NextIsDecoded == \A t \in Threads : last_event[t] \in Events <=> todo[t] # <<>>

\* What is still to come out makes a token once, and one that nobody has.
Makes(t, i, tok) ==
  i \in DOMAIN Held(t) /\ Held(t)[i] \in Events /\ Held(t)[i].new = tok

MadeOnce ==
  \A tok \in Tokens : \A t \in Threads : \A i \in DOMAIN Held(t) :
    Makes(t, i, tok) =>
      /\ tok \notin allocated \cup fresh
      /\ \A u \in Threads : \A j \in DOMAIN Held(u) :
           Makes(u, j, tok) => u = t /\ j = i

AllocatedNotFresh == allocated \cap fresh = {}

\* Where the dead are: each once in to_die or next_to_die until it is reaped,
\* and signalled exactly if it has been killed already.
DeadThreads ==
  /\ IsInjective(to_die) /\ IsInjective(next_to_die)
  /\ Range(to_die) \cap Range(next_to_die) = {}
  /\ dead = Range(to_die) \cup Range(next_to_die)
  /\ exited = dead \cup Range(killed)
  /\ signalled = dead \cap Range(killed)
  /\ threads = {t \in Threads : written[t] > 0} \ (exited \ dead)
  /\ \A t \in exited : buffer[t] = <<>>
  /\ \A t \in Range(killed) : todo[t] = <<>>
  /\ \A t \in Threads : todo[t] # <<>> => written[t] > 0

DrainedBeforeReap == phase \in {"reap", "done"} => DOMAIN heap = {}

\* recv_thread_id is the receiver's thread, or names one that is gone.
ReceiverFollows == recv_thread_id = current \/ recv_thread_id \in Range(killed)

MergeInv ==
  /\ IInv
  /\ HeldIsTheRest
  /\ NextIsDecoded
  /\ MadeOnce /\ AllocatedNotFresh
  /\ DeadThreads
  /\ DrainedBeforeReap
  /\ ReceiverFollows

(***************************************************************************)
(* Continues.                                                              *)
(***************************************************************************)

\* A stamp is no event: the places stay as they are.
LEMMA ContinuesAppendStamp ==
  ASSUME NEW h \in Seq(HeldItems), NEW r \in Seq(Events), NEW k \in Nat,
         NEW s \in Stamps, Continues(h, r, k)
  PROVE  Continues(Append(h, s), r, k)
<1> DEFINE g == Append(h, s)
<1>1. PICK f \in [k + 1 .. Len(r) -> DOMAIN h] :
        /\ \A m, n \in k + 1 .. Len(r) : m < n => f[m] < f[n]
        /\ \A n \in k + 1 .. Len(r) : h[f[n]] = r[n]
        /\ \A i \in DOMAIN h : h[i] \in Events => \E n \in k + 1 .. Len(r) : i = f[n]
  BY DEF Continues
<1>2. /\ DOMAIN h = 1 .. Len(h) /\ Len(h) \in Nat
      /\ DOMAIN g = 1 .. Len(h) + 1
      /\ \A i \in 1 .. Len(h) : g[i] = h[i]
      /\ g[Len(h) + 1] = s
  <2>1. s \in HeldItems
    BY DEF HeldItems, Items
  <2> QED BY <2>1, AppendProperties, LenProperties
<1>3. s \notin Events
  BY StampsAreNoEvents
<1> HIDE DEF g
<1>4. f \in [k + 1 .. Len(r) -> DOMAIN g]
  BY <1>1, <1>2
<1>5. \A n \in k + 1 .. Len(r) : g[f[n]] = r[n]
  BY <1>1, <1>2
<1>6. ASSUME NEW i \in DOMAIN g, g[i] \in Events
      PROVE  \E n \in k + 1 .. Len(r) : i = f[n]
  <2>1. i \in DOMAIN h /\ h[i] \in Events
    BY <1>2, <1>3, <1>6
  <2> QED BY <1>1, <2>1
<1> QED BY <1>1, <1>4, <1>5, <1>6 DEF Continues, g

\* A recorded event comes last, in what is held and in what was recorded.
LEMMA ContinuesAppendEvent ==
  ASSUME NEW h \in Seq(HeldItems), NEW r \in Seq(Events), NEW k \in Nat,
         NEW e \in Events, k <= Len(r), Continues(h, r, k)
  PROVE  Continues(Append(h, e), Append(r, e), k)
<1> DEFINE g == Append(h, e)
           q == Append(r, e)
           N == Len(h) + 1
           R == Len(r) + 1
<1>1. PICK f \in [k + 1 .. Len(r) -> DOMAIN h] :
        /\ \A m, n \in k + 1 .. Len(r) : m < n => f[m] < f[n]
        /\ \A n \in k + 1 .. Len(r) : h[f[n]] = r[n]
        /\ \A i \in DOMAIN h : h[i] \in Events => \E n \in k + 1 .. Len(r) : i = f[n]
  BY DEF Continues
<1>2. /\ DOMAIN h = 1 .. Len(h) /\ Len(h) \in Nat
      /\ DOMAIN g = 1 .. N
      /\ \A i \in 1 .. Len(h) : g[i] = h[i]
      /\ g[N] = e
  <2>1. e \in HeldItems
    BY DEF HeldItems, Items
  <2> QED BY <2>1, AppendProperties, LenProperties
<1>3. /\ Len(r) \in Nat /\ Len(q) = R
      /\ \A i \in 1 .. Len(r) : q[i] = r[i]
      /\ q[R] = e
  BY AppendProperties, LenProperties
<1> HIDE DEF g, q
<1> DEFINE f2 == [n \in k + 1 .. R |-> IF n = R THEN N ELSE f[n]]
<1>4. /\ k + 1 .. R = (k + 1 .. Len(r)) \cup {R}
      /\ \A n \in k + 1 .. Len(r) : n # R /\ n < R
      /\ k + 1 .. Len(r) \subseteq 1 .. Len(r)
      /\ \A i \in 1 .. Len(h) : i \in 1 .. N /\ i < N
      /\ N \in 1 .. N /\ ~(R < R)
      /\ \A i \in 1 .. N : i = N \/ i \in 1 .. Len(h)
      /\ \A n \in k + 1 .. Len(r) : ~(R < n)
  BY <1>2, <1>3
<1> HIDE DEF N, R
<1>5. \A n \in k + 1 .. Len(r) : f[n] \in 1 .. Len(h)
  BY <1>1, <1>2
<1>6. /\ f2[R] = N
      /\ \A n \in k + 1 .. Len(r) : f2[n] = f[n]
  BY <1>4
<1>7. f2 \in [k + 1 .. R -> DOMAIN g]
  BY <1>2, <1>4, <1>5
<1> HIDE DEF f2
<1>8. \A m, n \in k + 1 .. R : m < n => f2[m] < f2[n]
  <2>1. ASSUME NEW m \in k + 1 .. R, NEW n \in k + 1 .. R, m < n
        PROVE  f2[m] < f2[n]
    <3>1. m \in k + 1 .. Len(r)
      BY <1>4, <2>1
    <3>2. CASE n = R
      BY <1>4, <1>5, <1>6, <3>1, <3>2
    <3>3. CASE n \in k + 1 .. Len(r)
      BY <1>1, <1>6, <2>1, <3>1, <3>3
    <3> QED BY <1>4, <3>2, <3>3
  <2> QED BY <2>1
<1>9. \A n \in k + 1 .. R : g[f2[n]] = q[n]
  <2>1. g[f2[R]] = q[R]
    BY <1>2, <1>3, <1>6
  <2>2. ASSUME NEW n \in k + 1 .. Len(r) PROVE g[f2[n]] = q[n]
    <3>1. g[f[n]] = h[f[n]] /\ h[f[n]] = r[n]
      BY <1>1, <1>2, <1>5
    <3> QED BY <1>3, <1>4, <1>6, <3>1
  <2> QED BY <1>4, <2>1, <2>2
<1>10. ASSUME NEW i \in DOMAIN g, g[i] \in Events
       PROVE  \E n \in k + 1 .. R : i = f2[n]
  <2>1. CASE i = N
    BY <1>4, <1>6, <2>1
  <2>2. CASE i \in 1 .. Len(h)
    BY <1>1, <1>2, <1>4, <1>6, <1>10, <2>2
  <2> QED BY <1>2, <1>4, <2>1, <2>2
<1> QED BY <1>3, <1>7, <1>8, <1>9, <1>10 DEF Continues, g, q

\* Decoding when nothing has come out moves all places by as much.
LEMMA ContinuesDecode ==
  ASSUME NEW h \in Seq(HeldItems), NEW g \in Seq(HeldItems),
         NEW r \in Seq(Events), NEW k \in Nat, NEW d \in Nat,
         DropsFront(g, h, d), d > 0, Continues(h, r, k), h[1] \notin Events
  PROVE  Continues(g, r, k)
<1>1. PICK f \in [k + 1 .. Len(r) -> DOMAIN h] :
        /\ \A m, n \in k + 1 .. Len(r) : m < n => f[m] < f[n]
        /\ \A n \in k + 1 .. Len(r) : h[f[n]] = r[n]
        /\ \A i \in DOMAIN h : h[i] \in Events => \E n \in k + 1 .. Len(r) : i = f[n]
  BY DEF Continues
<1>2. DOMAIN h = 1 .. Len(h) /\ DOMAIN g = 1 .. Len(g) /\ Len(r) \in Nat
      /\ Len(h) \in Nat /\ Len(g) \in Nat
  BY LenProperties
<1> DEFINE f2 == [n \in k + 1 .. Len(r) |-> f[n] - d]
<1>3. ASSUME NEW n \in k + 1 .. Len(r)
      PROVE  /\ f[n] \in Nat /\ f[n] > 1
             /\ f2[n] \in DOMAIN g /\ g[f2[n]] = r[n] /\ f2[n] = f[n] - d
  <2>1. n \in 1 .. Len(r)
    BY <1>2
  <2>2. r[n] \in Events
    BY <2>1, ElementOfSeq
  <2>3. f[n] \in DOMAIN h /\ h[f[n]] = r[n]
    BY <1>1
  <2>4. f[n] # 1
    BY <2>2, <2>3
  <2>5. f[n] \in Nat /\ f[n] > 1
    BY <1>2, <2>3, <2>4
  <2> QED BY <2>2, <2>3, <2>5 DEF DropsFront
<1>4. f2 \in [k + 1 .. Len(r) -> DOMAIN g]
  BY <1>3
<1>5. ASSUME NEW m \in k + 1 .. Len(r), NEW n \in k + 1 .. Len(r), m < n
      PROVE  f2[m] < f2[n]
  <2>1. f[m] < f[n]
    BY <1>1, <1>5
  <2>2. f[m] \in Nat /\ f[n] \in Nat /\ f2[m] = f[m] - d /\ f2[n] = f[n] - d
    BY <1>3
  <2> HIDE DEF f2
  <2> QED BY <2>1, <2>2
<1>6. ASSUME NEW i \in DOMAIN g, g[i] \in Events
      PROVE  \E n \in k + 1 .. Len(r) : i = f2[n]
  <2>1. i + d \in DOMAIN h /\ h[i + d] \in Events
    BY <1>6 DEF DropsFront
  <2>2. PICK n \in k + 1 .. Len(r) : i + d = f[n]
    BY <1>1, <2>1
  <2>3. i = (i + d) - d
    BY <1>2
  <2> QED BY <2>2, <2>3
<1> HIDE DEF f2
<1> QED BY <1>3, <1>4, <1>5, <1>6 DEF Continues

\* A decoded event is the next of those recorded.
LEMMA ContinuesFirst ==
  ASSUME NEW h \in Seq(HeldItems), NEW r \in Seq(Events), NEW k \in Nat,
         NEW f \in [k + 1 .. Len(r) -> DOMAIN h],
         \A m, n \in k + 1 .. Len(r) : m < n => f[m] < f[n],
         \A n \in k + 1 .. Len(r) : h[f[n]] = r[n],
         \A i \in DOMAIN h : h[i] \in Events => \E n \in k + 1 .. Len(r) : i = f[n],
         1 \in DOMAIN h, h[1] \in Events
  PROVE  /\ k + 1 \in 1 .. Len(r) /\ k + 1 \in k + 1 .. Len(r)
         /\ f[k + 1] = 1 /\ r[k + 1] = h[1]
<1>1. DOMAIN h = 1 .. Len(h) /\ Len(r) \in Nat /\ Len(h) \in Nat
  BY LenProperties
<1>2. PICK m \in k + 1 .. Len(r) : f[m] = 1
  OBVIOUS
<1>3. k + 1 \in 1 .. Len(r) /\ k + 1 \in k + 1 .. Len(r)
  BY <1>1
<1>4. m = k + 1
  <2>1. f[k + 1] \in 1 .. Len(h)
    BY <1>1, <1>3
  <2>2. ~(f[k + 1] < f[m])
    BY <1>2, <2>1
  <2>3. ~(k + 1 < m)
    BY <1>3, <2>2
  <2> QED BY <2>3
<1> QED BY <1>2, <1>3, <1>4

\* What is next when a decoded event is held.
LEMMA NextRecorded ==
  ASSUME NEW h \in Seq(HeldItems), NEW r \in Seq(Events), NEW k \in Nat,
         Continues(h, r, k), 1 \in DOMAIN h, h[1] \in Events
  PROVE  k + 1 \in 1 .. Len(r) /\ r[k + 1] = h[1]
<1>1. PICK f \in [k + 1 .. Len(r) -> DOMAIN h] :
        /\ \A m, n \in k + 1 .. Len(r) : m < n => f[m] < f[n]
        /\ \A n \in k + 1 .. Len(r) : h[f[n]] = r[n]
        /\ \A i \in DOMAIN h : h[i] \in Events => \E n \in k + 1 .. Len(r) : i = f[n]
  BY DEF Continues
<1> QED BY <1>1, ContinuesFirst

\* Decoding when the event decoded before has come out: it was the next one.
LEMMA ContinuesEmit ==
  ASSUME NEW h \in Seq(HeldItems), NEW g \in Seq(HeldItems),
         NEW r \in Seq(Events), NEW k \in Nat, NEW d \in Nat,
         DropsFront(g, h, d), d > 0, Continues(h, r, k),
         1 \in DOMAIN h, h[1] \in Events
  PROVE  /\ k + 1 \in 1 .. Len(r) /\ r[k + 1] = h[1]
         /\ Continues(g, r, k + 1)
<1>1. PICK f \in [k + 1 .. Len(r) -> DOMAIN h] :
        /\ \A m, n \in k + 1 .. Len(r) : m < n => f[m] < f[n]
        /\ \A n \in k + 1 .. Len(r) : h[f[n]] = r[n]
        /\ \A i \in DOMAIN h : h[i] \in Events => \E n \in k + 1 .. Len(r) : i = f[n]
  BY DEF Continues
<1>2. DOMAIN h = 1 .. Len(h) /\ DOMAIN g = 1 .. Len(g) /\ Len(r) \in Nat
      /\ Len(h) \in Nat /\ Len(g) \in Nat
  BY LenProperties
<1>3. /\ k + 1 \in 1 .. Len(r) /\ k + 1 \in k + 1 .. Len(r)
      /\ f[k + 1] = 1 /\ r[k + 1] = h[1]
  BY <1>1, ContinuesFirst
<1> DEFINE l == k + 1
<1>4. \A n \in l + 1 .. Len(r) : n \in k + 1 .. Len(r) /\ k + 1 < n /\ n \in 1 .. Len(r)
  BY <1>2
<1> DEFINE f2 == [n \in l + 1 .. Len(r) |-> f[n] - d]
<1>5. ASSUME NEW n \in l + 1 .. Len(r)
      PROVE  /\ f[n] \in Nat /\ f[n] > 1
             /\ f2[n] \in DOMAIN g /\ g[f2[n]] = r[n] /\ f2[n] = f[n] - d
  <2>2. r[n] \in Events
    BY <1>4, ElementOfSeq
  <2>3. f[n] \in DOMAIN h /\ h[f[n]] = r[n]
    BY <1>1, <1>4
  <2>4. f[k + 1] < f[n]
    BY <1>1, <1>3, <1>4
  <2>5. f[n] \in Nat /\ f[n] > 1
    BY <1>2, <1>3, <2>3, <2>4
  <2> QED BY <2>2, <2>3, <2>5 DEF DropsFront
<1>6. f2 \in [l + 1 .. Len(r) -> DOMAIN g]
  BY <1>5
<1>7. ASSUME NEW i \in l + 1 .. Len(r), NEW n \in l + 1 .. Len(r), i < n
       PROVE  f2[i] < f2[n]
  <2>1. f[i] < f[n]
    BY <1>1, <1>4, <1>7
  <2>2. f[i] \in Nat /\ f[n] \in Nat /\ f2[i] = f[i] - d /\ f2[n] = f[n] - d
    BY <1>5
  <2> HIDE DEF f2
  <2> QED BY <2>1, <2>2
<1>8. ASSUME NEW i \in DOMAIN g, g[i] \in Events
       PROVE  \E n \in l + 1 .. Len(r) : i = f2[n]
  <2>1. i + d \in DOMAIN h /\ h[i + d] \in Events
    BY <1>8 DEF DropsFront
  <2>2. PICK n \in k + 1 .. Len(r) : i + d = f[n]
    BY <1>1, <2>1
  <2>3. i = (i + d) - d /\ i + d # 1
    BY <1>2
  <2>4. n # k + 1
    BY <1>3, <2>2, <2>3
  <2>5. n \in l + 1 .. Len(r)
    BY <1>2, <2>4
  <2> QED BY <2>2, <2>3, <2>5
<1>9. Continues(g, r, l)
  <2> HIDE DEF f2, l
  <2> QED BY <1>5, <1>6, <1>7, <1>8 DEF Continues
<1> QED BY <1>3, <1>9

\* Nothing is held, so all has come out.
LEMMA ContinuesNone ==
  ASSUME NEW h, NEW r \in Seq(Events), NEW k \in Nat, Continues(h, r, k),
         \A i \in DOMAIN h : h[i] \notin Events
  PROVE  Len(r) <= k
<1>1. PICK f \in [k + 1 .. Len(r) -> DOMAIN h] :
        \A n \in k + 1 .. Len(r) : h[f[n]] = r[n]
  BY DEF Continues
<1>2. Len(r) \in Nat
  BY LenProperties
<1>3. ASSUME ~(Len(r) <= k) PROVE FALSE
  <2>1. k + 1 \in k + 1 .. Len(r) /\ k + 1 \in 1 .. Len(r)
    BY <1>2, <1>3
  <2>2. r[k + 1] \in Events
    BY <2>1, ElementOfSeq
  <2> QED BY <1>1, <2>1, <2>2
<1> QED BY <1>3

(***************************************************************************)
(* What a step does to what is held.                                       *)
(***************************************************************************)

\* The program records an item.
LEMMA HeldGains ==
  ASSUME TypeOK, NEW t \in Threads, NEW e \in Items,
         UNCHANGED <<last_event, todo>>,
         buffer' = [buffer EXCEPT ![t] = Append(@, e)]
  PROVE  \A u \in Threads :
           Held(u)' = IF u = t THEN Append(Held(t), e) ELSE Held(u)
<1>1. buffer \in [Threads -> Seq(Items)]
  BY DEF TypeOK, ProgramTypeOK
<1>2. ASSUME NEW u \in Threads, u # t PROVE Held(u)' = Held(u)
  BY <1>1, <1>2 DEF Held
<1>3. Held(t)' = Append(Held(t), e)
  <2> DEFINE x == last_event[t]
             a == todo[t]
             b == buffer[t]
  <2>1. Held(t)' = <<x>> \o a \o Append(b, e) /\ Held(t) = <<x>> \o a \o b
    BY <1>1 DEF Held
  <2>2. x \in HeldItems /\ a \in Seq(Items) /\ b \in Seq(Items)
    BY HeldParts
  <2> HIDE DEF x, a, b
  <2>3. <<x>> \o a \o Append(b, e) = Append(<<x>> \o a \o b, e)
    BY <2>2, JoinedAppend
  <2> QED BY <2>1, <2>3
<1> QED BY <1>2, <1>3

\* A Buf brings its header's stamp; that of a thread without any is decoded.
LEMMA HeldBuf ==
  ASSUME TypeOK, NEW t \in Threads, NEW s \in Stamps, Buf(t, s)
  PROVE  /\ \A u \in Threads : u # t => Held(u)' = Held(u)
         /\ \/ Held(t)' = Append(Held(t), s)
            \/ /\ todo[t] = <<>>
               /\ \E d \in Nat : d > 0 /\ DropsFront(Held(t)', Append(Held(t), s), d)
<1> DEFINE x == last_event[t]
           a == todo[t]
           b == buffer[t]
           items == Append(b, s)
           h == <<x>> \o a \o b
<1>1. x \in HeldItems /\ a \in Seq(Items) /\ b \in Seq(Items)
  BY HeldParts
<1>2. h = Held(t)
  BY DEF Held
<1>3. /\ last_event \in [Threads -> Events \cup {NoEvent}]
      /\ todo \in [Threads -> Seq(Items)]
      /\ buffer \in [Threads -> Seq(Items)]
  BY DEF TypeOK, SerializerTypeOK, ProgramTypeOK
<1>4. ASSUME NEW u \in Threads, u # t PROVE Held(u)' = Held(u)
  BY <1>3, <1>4 DEF Buf, Flush, ReadBuf, AppendBuf, StartBuf, UpdateLastEvent, Held
<1>5. buffer'[t] = <<>>
  BY <1>3 DEF Buf, Flush
<1>6. CASE AppendBuf(t, items)
  <2>1. Held(t)' = <<x>> \o (a \o items) \o <<>>
    BY <1>3, <1>5, <1>6 DEF AppendBuf, Held
  <2> HIDE DEF x, a, b
  <2>2. <<x>> \o (a \o items) \o <<>> = Append(h, s)
    BY <1>1, JoinedBuf
  <2> QED BY <1>2, <1>4, <2>1, <2>2
<1>7. CASE StartBuf(t, items)
  <2> DEFINE next == <<NextEvent(items)>> \o AfterEvent(items) \o <<>>
             mid == <<x>> \o items \o <<>>
  <2>1. Held(t)' = next
    BY <1>3, <1>5, <1>7 DEF StartBuf, UpdateLastEvent, Held
  <2>2. items \in Seq(Items) /\ items # <<>>
    BY <1>1, AppendProperties DEF Items
  <2>3. PICK d \in Nat : d > 0 /\ DropsFront(next, mid, d)
    <3> HIDE DEF items, x
    <3> QED BY <1>1, <2>2, EmptySeq, DecodingDrops
  <2>4. a = <<>>
    BY <1>7 DEF StartBuf
  <2> HIDE DEF x, a, b
  <2>5. <<x>> \o (a \o items) \o <<>> = Append(h, s)
    BY <1>1, JoinedBuf
  <2> HIDE DEF items
  <2>6. a \o items = items
    BY <2>2, <2>4, ConcatEmptySeq
  <2>7. mid = Append(h, s)
    BY <2>5, <2>6
  <2> HIDE DEF next, mid, h
  <2>8. DropsFront(Held(t)', Append(Held(t), s), d)
    BY <1>2, <2>1, <2>3, <2>7
  <2>9. todo[t] = <<>>
    BY <2>4 DEF a
  <2> QED BY <1>4, <2>3, <2>8, <2>9
<1> QED BY <1>6, <1>7 DEF Buf, ReadBuf, BufOf

\* Processing the top of the heap takes its decoded event away.
LEMMA HeldProcess ==
  ASSUME TypeOK, NEW t \in Threads, Process(t, allocated),
         UNCHANGED program_vars, todo[t] # <<>>
  PROVE  /\ \A u \in Threads : u # t => Held(u)' = Held(u)
         /\ \E d \in Nat : d > 0 /\ DropsFront(Held(t)', Held(t), d)
<1> DEFINE x == last_event[t]
           a == todo[t]
           b == buffer[t]
<1>1. x \in HeldItems /\ a \in Seq(Items) /\ b \in Seq(Items) /\ a # <<>>
  BY HeldParts
<1>2. /\ last_event \in [Threads -> Events \cup {NoEvent}]
      /\ todo \in [Threads -> Seq(Items)]
  BY DEF TypeOK, SerializerTypeOK
<1>3. Held(t)' = <<NextEvent(a)>> \o AfterEvent(a) \o b
  BY <1>2 DEF Process, UpdateLastEvent, program_vars, Held
<1>4. Held(t) = <<x>> \o a \o b
  BY DEF Held
<1>5. ASSUME NEW u \in Threads, u # t PROVE Held(u)' = Held(u)
  BY <1>2, <1>5 DEF Process, UpdateLastEvent, program_vars, Held
<1> HIDE DEF x, a, b
<1>6. \E d \in Nat : d > 0 /\ DropsFront(<<NextEvent(a)>> \o AfterEvent(a) \o b,
                                        <<x>> \o a \o b, d)
  BY <1>1, DecodingDrops
<1> QED BY <1>3, <1>4, <1>5, <1>6

(***************************************************************************)
(* NextIsDecoded.                                                          *)
(***************************************************************************)

\* Decoding leaves an event exactly if it leaves items behind it.
LEMMA DecodedWithRest ==
  ASSUME NEW items \in Seq(Items), items # <<>>, items[Len(items)] \in Stamps
  PROVE  NextEvent(items) \in Events <=> AfterEvent(items) # <<>>
<1>1. CASE HasEvent(items)
  BY <1>1, FirstEventFound, DecodingKeepsEnd DEF NextEvent
<1>2. CASE ~HasEvent(items)
  BY <1>2 DEF NextEvent, AfterEvent, Events
<1> QED BY <1>1, <1>2

\* No step leaves items behind without the event in front of them.
LEMMA NextIsDecodedStep ==
  ASSUME IInv, NextIsDecoded, [Next]_vars PROVE NextIsDecoded'
<1>0. /\ TypeOK /\ EndsInStamp
      /\ last_event \in [Threads -> Events \cup {NoEvent}]
      /\ todo \in [Threads -> Seq(Items)]
  BY DEF IInv, ProgramInv, TypeOK, SerializerTypeOK
<1>1. ASSUME NEW t \in Threads, NEW s \in Stamps, Buf(t, s)
      PROVE  NextIsDecoded'
  <2> DEFINE items == BufOf(t, s)
  <2>1. /\ items \in Seq(Items) /\ items # <<>>
        /\ items[Len(items)] \in Stamps
    BY <1>0, BufType DEF TypeOK
  <2>2. CASE AppendBuf(t, items)
    <3>1. todo[t] \o items # <<>>
      BY <1>0, <2>1, ConcatSimplifications!concIsEmpty
    <3> QED BY <1>0, <2>2, <3>1 DEF AppendBuf, NextIsDecoded
  <2>3. CASE StartBuf(t, items)
    <3>1. NextEvent(items) \in Events <=> AfterEvent(items) # <<>>
      BY <2>1, DecodedWithRest
    <3> QED BY <1>0, <2>3, <3>1 DEF StartBuf, UpdateLastEvent, NextIsDecoded
  <2> QED BY <1>1, <2>2, <2>3 DEF Buf, ReadBuf
<1>2. ASSUME NEW t \in Threads, Process(t, allocated)
      PROVE  NextIsDecoded'
  <2>1. todo[t] # <<>>
    BY <1>2 DEF IInv, ThreadPlaces, Process, IsTop
  <2>2. NextEvent(todo[t]) \in Events <=> AfterEvent(todo[t]) # <<>>
    BY <1>0, <2>1, DecodedWithRest DEF EndsInStamp
  <2> QED BY <1>0, <1>2, <2>2 DEF Process, UpdateLastEvent, NextIsDecoded
<1>3. CASE UNCHANGED <<last_event, todo>>
  BY <1>3 DEF NextIsDecoded
<1>4. ASSUME NEW t \in Threads, Drain(t)
      PROVE  Process(t, allocated) \/ UNCHANGED <<last_event, todo>>
  BY <1>4 DEF Drain, Wait, thread_vars
<1>5. ASSUME NEW t \in Threads, \/ \E e \in Events : ProgramRecord(t, e)
                                \/ \E s \in Stamps : ProgramRecordTok(t, s)
                                \/ Death(t) \/ Bury(t)
      PROVE  UNCHANGED <<last_event, todo>>
  BY <1>5 DEF ProgramRecord, ProgramRecordTok, Death, ReadDeath, Bury, Defer,
              Reap, serializer_vars, thread_vars
<1>6. SyncBarrier \/ End \/ FinishDrain \/ FinishReap \/ UNCHANGED vars
        => UNCHANGED <<last_event, todo>>
  BY DEF SyncBarrier, End, ReadBarrier, FinishDrain, EndDrain, FinishReap,
         EndReap, vars, serializer_vars, thread_vars
<1> QED BY <1>1, <1>2, <1>3, <1>4, <1>5, <1>6
        DEF Next, Program, Serialize, Finished

(***************************************************************************)
(* What the receiver makes of a step's calls.                              *)
(***************************************************************************)

\* What a sequence holds after an Append.
LEMMA RangeOfAppend ==
  ASSUME NEW S, NEW s \in Seq(S), NEW e \in S
  PROVE  Range(Append(s, e)) = Range(s) \cup {e}
<1>1. /\ DOMAIN s = 1 .. Len(s) /\ Len(s) \in Nat
      /\ DOMAIN Append(s, e) = 1 .. Len(s) + 1
      /\ \A i \in 1 .. Len(s) : Append(s, e)[i] = s[i]
      /\ Append(s, e)[Len(s) + 1] = e
  BY AppendProperties, LenProperties
<1> DEFINE a == Append(s, e)
<1> HIDE DEF a
<1>2. \A i \in 1 .. Len(s) : i \in 1 .. Len(s) + 1
  BY <1>1
<1>3. \A i \in 1 .. Len(s) + 1 : i \in 1 .. Len(s) \/ i = Len(s) + 1
  BY <1>1
<1>4. Len(s) + 1 \in 1 .. Len(s) + 1
  BY <1>1
<1>5. Range(a) \subseteq Range(s) \cup {e}
  BY <1>1, <1>3 DEF Range, a
<1>6. Range(s) \cup {e} \subseteq Range(a)
  BY <1>1, <1>2, <1>4 DEF Range, a
<1> QED BY <1>5, <1>6 DEF a

\* Calls without an event leave what has come out as it is.
LEMMA NoEventReceived ==
  ASSUME TypeOK, NEW calls, calls.event = NoEvent, Receive(calls)
  PROVE  UNCHANGED <<emitted, allocated>>
BY TokensAssumption DEF Receive, Hear, NoEvent, TypeOK, ReceiverTypeOK

\* Burying makes nothing come out; it kills unless the thread still waits or
\* its kill was signalled before.
LEMMA BuryReceived ==
  ASSUME TypeOK, NEW t \in Threads, Bury(t)
  PROVE  /\ UNCHANGED <<emitted, allocated>>
         /\ t \in in_pending_frees \cup signalled => UNCHANGED <<killed, current>>
         /\ t \notin in_pending_frees \cup signalled =>
              killed' = Append(killed, t) /\ current' = NoThread
<1>1. ReapCalls(t).event = NoEvent /\ Receive(ReapCalls(t))
  BY DEF Bury, ReapCalls, NoCalls
<1>2. UNCHANGED <<emitted, allocated>>
  BY <1>1, NoEventReceived
<1>3. ASSUME t \in in_pending_frees \cup signalled PROVE UNCHANGED <<killed, current>>
  <2>1. ~ReapCalls(t).switch /\ ~ReapCalls(t).kill
    BY <1>3 DEF ReapCalls, NoCalls
  <2> QED BY <1>1, <2>1 DEF Receive, Hear
<1>4. ASSUME t \notin in_pending_frees \cup signalled
      PROVE  killed' = Append(killed, t) /\ current' = NoThread
  <2>1. ReapCalls(t).switch /\ ReapCalls(t).kill /\ ReapCalls(t).thread = t
    BY <1>4 DEF ReapCalls, NoCalls
  <2> QED BY <1>1, <2>1 DEF Receive, Hear
<1> QED BY <1>2, <1>3, <1>4

\* A Barrier changes nothing of what the receiver keeps.
LEMMA BarrierReceived ==
  ASSUME TypeOK, FinishReap PROVE UNCHANGED receiver_vars
<1>1. /\ BarrierCalls.event = NoEvent /\ ~BarrierCalls.switch /\ ~BarrierCalls.kill
      /\ Receive(BarrierCalls)
  BY DEF FinishReap, BarrierCalls, NoCalls
<1>2. UNCHANGED <<emitted, allocated>>
  BY <1>1, NoEventReceived
<1>3. UNCHANGED <<current, killed>>
  BY <1>1 DEF Receive, Hear
<1> QED BY <1>2, <1>3 DEF receiver_vars

\* A thread that is processed has an event, and has not been killed.
LEMMA TopHasEvent ==
  ASSUME IInv, NextIsDecoded, DeadThreads, NEW t \in Threads, IsTop(t)
  PROVE  todo[t] # <<>> /\ last_event[t] \in Events /\ t \notin Range(killed)
<1>1. todo[t] # <<>>
  BY DEF IInv, ThreadPlaces, IsTop
<1> QED BY <1>1 DEF NextIsDecoded, DeadThreads

\* Its event comes out under its own id, and so does its kill: the receiver is
\* with it, or is sent to it.
LEMMA ProcessReceived ==
  ASSUME MergeInv, NEW t \in Threads,
         Process(t, allocated), Receive(ProcessCalls(t))
  PROVE  /\ emitted' = [emitted EXCEPT ![t] = Append(@, last_event[t])]
         /\ allocated' = (allocated \ {last_event[t].old})
                           \cup ({last_event[t].new} \ {NoTok})
         /\ LET kill == t \in dead /\ ~HasEvent(todo[t])
            IN /\ killed' = IF kill THEN Append(killed, t) ELSE killed
               /\ current' = IF kill THEN NoThread ELSE t
               /\ signalled' = IF kill THEN signalled \cup {t} ELSE signalled
<1> DEFINE kill == t \in dead /\ ~HasEvent(todo[t])
           calls == ProcessCalls(t)
<1>1. last_event[t] \in Events /\ t \notin Range(killed)
  BY TopHasEvent DEF MergeInv, Process
<1>2. /\ calls.switch = (t # recv_thread_id) /\ calls.thread = t
      /\ calls.event = last_event[t] /\ calls.kill = kill
  BY DEF ProcessCalls, NoCalls
<1>3. (IF calls.switch THEN calls.thread ELSE current) = t
  BY <1>1, <1>2 DEF MergeInv, ReceiverFollows
<1>4. last_event[t] # NoEvent
  BY <1>1 DEF Events
<1>5. signalled' = IF kill THEN signalled \cup {t} ELSE signalled
  BY <1>2 DEF Process
<1> HIDE DEF calls, kill
<1>6. /\ emitted' = [emitted EXCEPT ![t] = Append(@, last_event[t])]
      /\ allocated' = (allocated \ {last_event[t].old})
                        \cup ({last_event[t].new} \ {NoTok})
      /\ killed' = IF kill THEN Append(killed, t) ELSE killed
      /\ current' = IF kill THEN NoThread ELSE t
  BY <1>2, <1>3, <1>4 DEF Receive, Hear, calls
<1> QED BY <1>5, <1>6 DEF kill

(***************************************************************************)
(* MadeOnce.                                                               *)
(***************************************************************************)

\* A step that shifts what is held gives no event a new twin.
LEMMA MadeShift ==
  ASSUME TypeOK, TypeOK', MadeOnce,
         \A u \in Threads : ShiftOf(Held(u)', Held(u)),
         \A tok \in Tokens : \A u \in Threads : \A i \in DOMAIN Held(u)' :
           Makes(u, i, tok)' => tok \notin allocated' \cup fresh'
  PROVE  MadeOnce'
<1> SUFFICES ASSUME NEW tok \in Tokens,
                    NEW t \in Threads, NEW i \in DOMAIN Held(t)', Makes(t, i, tok)',
                    NEW u \in Threads, NEW j \in DOMAIN Held(u)', Makes(u, j, tok)'
             PROVE  u = t /\ j = i
  BY DEF MadeOnce
<1>1. i \in Nat /\ j \in Nat
  BY HeldTypeNext
<1>2. PICK d \in Nat : \A k \in DOMAIN Held(t)' :
        Held(t)'[k] \in Events =>
          k + d \in DOMAIN Held(t) /\ Held(t)[k + d] = Held(t)'[k]
  BY DEF ShiftOf
<1>3. i + d \in DOMAIN Held(t) /\ Makes(t, i + d, tok)
  BY <1>2 DEF Makes
<1>4. \A v \in Threads : \A k \in DOMAIN Held(v) :
        Makes(v, k, tok) => v = t /\ k = i + d
  BY <1>3 DEF MadeOnce
<1>5. PICK e \in Nat : \A k \in DOMAIN Held(u)' :
        Held(u)'[k] \in Events =>
          k + e \in DOMAIN Held(u) /\ Held(u)[k + e] = Held(u)'[k]
  BY DEF ShiftOf
<1>6. j + e \in DOMAIN Held(u) /\ Makes(u, j + e, tok)
  BY <1>5 DEF Makes
<1>7. u = t
  BY <1>4, <1>6
<1>8. j + d \in DOMAIN Held(t) /\ Makes(t, j + d, tok)
  BY <1>2, <1>7 DEF Makes
<1>9. j + d = i + d
  BY <1>4, <1>8
<1> QED BY <1>1, <1>7, <1>9

\* A step that only shifts, and allocates nothing.
LEMMA MadeQuiet ==
  ASSUME TypeOK, TypeOK', MadeOnce,
         \A u \in Threads : ShiftOf(Held(u)', Held(u)),
         allocated' \cup fresh' \subseteq allocated \cup fresh
  PROVE  MadeOnce'
<1>1. ASSUME NEW tok \in Tokens, NEW u \in Threads, NEW i \in DOMAIN Held(u)',
             Makes(u, i, tok)'
      PROVE  tok \notin allocated' \cup fresh'
  <2>1. PICK d \in Nat : \A k \in DOMAIN Held(u)' :
          Held(u)'[k] \in Events =>
            k + d \in DOMAIN Held(u) /\ Held(u)[k + d] = Held(u)'[k]
    BY DEF ShiftOf
  <2>2. i + d \in DOMAIN Held(u) /\ Makes(u, i + d, tok)
    BY <1>1, <2>1 DEF Makes
  <2>3. tok \notin allocated \cup fresh
    BY <2>2 DEF MadeOnce
  <2> QED BY <2>3
<1> QED BY <1>1, MadeShift

\* A recorded event makes a token that was not handed out before.
LEMMA MadeRecord ==
  ASSUME TypeOK, TypeOK', MadeOnce, AllocatedNotFresh,
         NEW t \in Threads, NEW e \in Events, ProgramRecord(t, e)
  PROVE  MadeOnce'
<1> DEFINE n == Len(Held(t))
<1>1. /\ buffer' = [buffer EXCEPT ![t] = Append(@, e)]
      /\ UNCHANGED <<last_event, todo, allocated>>
      /\ e.new \in fresh \cup {NoTok} /\ fresh' = fresh \ {e.new}
  BY DEF ProgramRecord, Record, serializer_vars, receiver_vars
<1>2. e \in Items /\ e \in HeldItems
  BY DEF Items, HeldItems
<1>3. \A u \in Threads :
        Held(u)' = IF u = t THEN Append(Held(t), e) ELSE Held(u)
  BY <1>1, <1>2, HeldGains
<1>4. /\ DOMAIN Held(t) = 1 .. n /\ n \in Nat
      /\ DOMAIN Held(t)' = 1 .. n + 1
      /\ \A i \in 1 .. n : Held(t)'[i] = Held(t)[i]
      /\ Held(t)'[n + 1] = e
  BY <1>2, <1>3, HeldType, AppendProperties, LenProperties
<1>5. ASSUME NEW tok \in Tokens, NEW u \in Threads, NEW i \in DOMAIN Held(u)',
             Makes(u, i, tok)'
      PROVE  \/ i \in DOMAIN Held(u) /\ Makes(u, i, tok)
             \/ u = t /\ i = n + 1 /\ e.new = tok
  <2>1. CASE u # t
    BY <1>3, <1>5, <2>1 DEF Makes
  <2>2. CASE u = t /\ i = n + 1
    BY <1>4, <1>5, <2>2 DEF Makes
  <2>3. CASE u = t /\ i # n + 1
    <3>1. i \in 1 .. n
      BY <1>4, <1>5, <2>3
    <3> QED BY <1>4, <1>5, <2>3, <3>1 DEF Makes
  <2> QED BY <2>1, <2>2, <2>3
<1> HIDE DEF n
<1>6. ASSUME NEW tok \in Tokens, NEW u \in Threads, NEW i \in DOMAIN Held(u)',
             Makes(u, i, tok)'
      PROVE  tok \notin allocated' \cup fresh'
  <2>1. CASE i \in DOMAIN Held(u) /\ Makes(u, i, tok)
    BY <1>1, <2>1 DEF MadeOnce
  <2>2. CASE e.new = tok
    BY <1>1, <2>2, TokensAssumption DEF AllocatedNotFresh
  <2> QED BY <1>5, <1>6, <2>1, <2>2
<1>7. ASSUME NEW tok \in Tokens,
             NEW u \in Threads, NEW i \in DOMAIN Held(u)', Makes(u, i, tok)',
             NEW v \in Threads, NEW j \in DOMAIN Held(v)', Makes(v, j, tok)'
      PROVE  v = u /\ j = i
  <2>1. CASE e.new = tok
    <3>1. tok \in fresh
      BY <1>1, <2>1, TokensAssumption
    <3>2. \A w \in Threads : \A k \in DOMAIN Held(w) : ~Makes(w, k, tok)
      BY <3>1 DEF MadeOnce
    <3> QED BY <1>5, <1>7, <3>2
  <2>2. CASE e.new # tok
    <3>1. i \in DOMAIN Held(u) /\ Makes(u, i, tok)
      BY <1>5, <1>7, <2>2
    <3>2. j \in DOMAIN Held(v) /\ Makes(v, j, tok)
      BY <1>5, <1>7, <2>2
    <3> QED BY <3>1, <3>2 DEF MadeOnce
  <2> QED BY <2>1, <2>2
<1> QED BY <1>6, <1>7 DEF MadeOnce

\* A processed event makes its token, and is held no more.
LEMMA MadeProcess ==
  ASSUME TypeOK', MergeInv, NEW t \in Threads,
         Process(t, allocated), Receive(ProcessCalls(t)), UNCHANGED program_vars
  PROVE  MadeOnce' /\ AllocatedNotFresh'
<1> DEFINE new == last_event[t].new
<1>0. TypeOK /\ MadeOnce /\ AllocatedNotFresh
  BY DEF MergeInv, IInv, ProgramInv
<1>1. todo[t] # <<>> /\ last_event[t] \in Events
  BY TopHasEvent DEF MergeInv, Process
<1>2. allocated' \subseteq allocated \cup ({new} \ {NoTok})
  BY ProcessReceived
<1>3. fresh' = fresh
  BY DEF program_vars
<1>4. 1 \in DOMAIN Held(t) /\ Held(t)[1] = last_event[t]
  BY <1>0, HeldType
<1>5. new \in Tokens => /\ Makes(t, 1, new) /\ new \notin fresh
                        /\ \A u \in Threads : \A j \in DOMAIN Held(u) :
                             Makes(u, j, new) => u = t /\ j = 1
  BY <1>0, <1>1, <1>4 DEF Makes, MadeOnce
<1>6. new \in Tokens \cup {NoTok}
  BY <1>1 DEF Events
<1>7. AllocatedNotFresh'
  BY <1>0, <1>2, <1>3, <1>5, <1>6 DEF AllocatedNotFresh
<1>8. \A u \in Threads : ShiftOf(Held(u)', Held(u))
  BY <1>0, ProcessShifts
<1>9. PICK d \in Nat : d > 0 /\ DropsFront(Held(t)', Held(t), d)
  BY <1>0, <1>1, HeldProcess
<1>10. ASSUME NEW tok \in Tokens, NEW u \in Threads, NEW i \in DOMAIN Held(u)',
              Makes(u, i, tok)'
       PROVE  tok \notin allocated' \cup fresh'
  <2>1. PICK k \in DOMAIN Held(u) : Makes(u, k, tok) /\ ~(u = t /\ k = 1)
    <3>1. CASE u = t
      <4>1. i + d \in DOMAIN Held(t) /\ Makes(t, i + d, tok)
        BY <1>9, <1>10, <3>1 DEF DropsFront, Makes
      <4>2. i \in Nat /\ i + d # 1
        <5>1. i \in DOMAIN Held(t)' /\ DOMAIN Held(t)' \in SUBSET Nat
          BY <3>1, HeldTypeNext
        <5>2. 0 \notin DOMAIN Held(t)'
          <6>1. DOMAIN Held(t)' = 1 .. Len(Held(t)')
            BY HeldTypeNext, LenProperties
          <6> QED BY <6>1, HeldTypeNext
        <5> QED BY <1>9, <5>1, <5>2
      <4> QED BY <3>1, <4>1, <4>2
    <3>2. CASE u # t
      <4>1. Held(u)' = Held(u)
        BY <1>0, <1>1, <3>2, HeldProcess
      <4> QED BY <1>10, <3>2, <4>1 DEF Makes
    <3> QED BY <3>1, <3>2
  <2>2. tok # new
    BY <1>5, <2>1
  <2>3. tok \notin allocated \cup fresh
    BY <1>0, <2>1 DEF MadeOnce
  <2> QED BY <1>2, <1>3, <2>2, <2>3
<1>11. MadeOnce'
  BY <1>0, <1>8, <1>10, MadeShift
<1> QED BY <1>7, <1>11

\* Every step keeps tokens made once.
LEMMA MadeStep ==
  ASSUME TypeOK', MergeInv, [Next]_vars
  PROVE  MadeOnce' /\ AllocatedNotFresh'
<1>0. TypeOK /\ MadeOnce /\ AllocatedNotFresh
  BY DEF MergeInv, IInv, ProgramInv
<1>1. ASSUME NEW t \in Threads, NEW e \in Events, ProgramRecord(t, e)
      PROVE  MadeOnce' /\ AllocatedNotFresh'
  <2>1. AllocatedNotFresh'
    BY <1>0, <1>1 DEF ProgramRecord, Record, receiver_vars, AllocatedNotFresh
  <2> QED BY <1>0, <1>1, <2>1, MadeRecord
<1>2. ASSUME NEW t \in Threads, NEW s \in Stamps, ProgramRecordTok(t, s)
      PROVE  MadeOnce' /\ AllocatedNotFresh'
  <2>1. /\ buffer' = [buffer EXCEPT ![t] = Append(@, s)] /\ s \in Items
        /\ UNCHANGED <<last_event, todo, allocated, fresh>>
    BY <1>2 DEF ProgramRecordTok, RecordTok, serializer_vars, receiver_vars, Items
  <2>2. \A u \in Threads :
          Held(u)' = IF u = t THEN Append(Held(t), s) ELSE Held(u)
    BY <1>0, <2>1, HeldGains
  <2>3. \A u \in Threads : ShiftOf(Held(u)', Held(u))
    BY <1>0, <2>2, HeldType, AppendStampShifts, ShiftReflexive
  <2> QED BY <1>0, <2>1, <2>3, MadeQuiet DEF AllocatedNotFresh
<1>3. ASSUME NEW t \in Threads, NEW s \in Stamps, Buf(t, s)
      PROVE  MadeOnce' /\ AllocatedNotFresh'
  <2>1. UNCHANGED <<allocated, fresh>>
    BY <1>3 DEF Buf, Flush, receiver_vars
  <2>2. \A u \in Threads : ShiftOf(Held(u)', Held(u))
    BY <1>0, <1>3, BufShifts
  <2> QED BY <1>0, <2>1, <2>2, MadeQuiet DEF AllocatedNotFresh
<1>4. ASSUME NEW t \in Threads, Process(t, allocated), Receive(ProcessCalls(t)),
             UNCHANGED program_vars
      PROVE  MadeOnce' /\ AllocatedNotFresh'
  BY <1>4, MadeProcess
<1>5. CASE UNCHANGED <<last_event, todo, buffer, allocated, fresh>>
  <2>1. ASSUME NEW u \in Threads PROVE ShiftOf(Held(u)', Held(u))
    <3>1. Held(u)' = Held(u)
      BY <1>5 DEF Held
    <3> QED BY <1>0, <3>1, HeldType, ShiftReflexive
  <2> QED BY <1>0, <1>5, <2>1, MadeQuiet DEF AllocatedNotFresh
<1>6. ASSUME NEW t \in Threads, Death(t)
      PROVE  UNCHANGED <<last_event, todo, buffer, allocated, fresh>>
  BY <1>6 DEF Death, Exit, ReadDeath, thread_vars, receiver_vars
<1>7. ASSUME NEW t \in Threads, Bury(t)
      PROVE  UNCHANGED <<last_event, todo, buffer, allocated, fresh>>
  <2>1. UNCHANGED allocated
    BY <1>0, <1>7, BuryReceived
  <2> QED BY <1>7, <2>1 DEF Bury, Defer, Reap, thread_vars, program_vars
<1>8. ASSUME NEW t \in Threads, Drain(t)
      PROVE  \/ /\ Process(t, allocated) /\ Receive(ProcessCalls(t))
                /\ UNCHANGED program_vars
             \/ UNCHANGED <<last_event, todo, buffer, allocated, fresh>>
  BY <1>8 DEF Drain, Wait, thread_vars, program_vars, receiver_vars
<1>9. FinishReap => UNCHANGED <<last_event, todo, buffer, allocated, fresh>>
  BY <1>0, BarrierReceived DEF FinishReap, EndReap, thread_vars, program_vars,
                               receiver_vars
<1>10. SyncBarrier \/ End \/ FinishDrain \/ UNCHANGED vars
         => UNCHANGED <<last_event, todo, buffer, allocated, fresh>>
  BY DEF SyncBarrier, End, ReadBarrier, FinishDrain, EndDrain,
         vars, serializer_vars, thread_vars, program_vars, receiver_vars
<1> QED BY <1>1, <1>2, <1>3, <1>4, <1>5, <1>6, <1>7, <1>8, <1>9, <1>10
        DEF Next, Program, Serialize, Finished

(***************************************************************************)
(* HeldIsTheRest.                                                          *)
(***************************************************************************)

\* What of it is about one thread.
ThreadHeld(t) ==
  /\ Len(emitted[t]) <= Len(recorded[t])
  /\ \A n \in 1 .. Len(emitted[t]) : emitted[t][n] = recorded[t][n]
  /\ Continues(Held(t), recorded[t], Len(emitted[t]))

\* The sequences of a thread.
LEMMA ThreadParts ==
  ASSUME TypeOK, NEW t \in Threads
  PROVE  /\ Held(t) \in Seq(HeldItems)
         /\ recorded[t] \in Seq(Events) /\ Len(recorded[t]) \in Nat
         /\ emitted[t] \in Seq(Events) /\ Len(emitted[t]) \in Nat
BY HeldType, LenProperties DEF TypeOK, ProgramTypeOK, ReceiverTypeOK

\* Recording adds the event to both sides.
LEMMA RestRecord ==
  ASSUME TypeOK, HeldIsTheRest, NEW t \in Threads, NEW e \in Events,
         ProgramRecord(t, e)
  PROVE  HeldIsTheRest'
<1>1. /\ buffer' = [buffer EXCEPT ![t] = Append(@, e)] /\ e \in Items
      /\ recorded' = [recorded EXCEPT ![t] = Append(@, e)]
      /\ UNCHANGED <<last_event, todo, emitted>>
  BY DEF ProgramRecord, Record, serializer_vars, receiver_vars, Items
<1>2. \A u \in Threads :
        /\ Held(u)' = IF u = t THEN Append(Held(t), e) ELSE Held(u)
        /\ recorded'[u] = IF u = t THEN Append(recorded[t], e) ELSE recorded[u]
  BY <1>1, HeldGains DEF TypeOK, ProgramTypeOK
<1>3. ASSUME NEW u \in Threads, u # t PROVE ThreadHeld(u)'
  BY <1>1, <1>2, <1>3 DEF HeldIsTheRest, ThreadHeld
<1>4. ThreadHeld(t)'
  <2> DEFINE h == Held(t)
             r == recorded[t]
             k == Len(emitted[t])
  <2>1. h \in Seq(HeldItems) /\ r \in Seq(Events) /\ k \in Nat /\ Len(r) \in Nat
    BY ThreadParts
  <2>2. k <= Len(r) /\ Continues(h, r, k)
    BY DEF HeldIsTheRest
  <2> HIDE DEF h, r, k
  <2>3. Continues(Append(h, e), Append(r, e), k)
    BY <2>1, <2>2, ContinuesAppendEvent
  <2>4. /\ Len(Append(r, e)) = Len(r) + 1
        /\ \A i \in 1 .. Len(r) : Append(r, e)[i] = r[i]
    BY <2>1, AppendProperties
  <2>5. k <= Len(Append(r, e)) /\ \A n \in 1 .. k : n \in 1 .. Len(r)
    BY <2>1, <2>2, <2>4
  <2>6. \A n \in 1 .. k : emitted[t][n] = r[n]
    BY DEF HeldIsTheRest, r, k
  <2>7. /\ Held(t)' = Append(h, e) /\ recorded'[t] = Append(r, e)
        /\ Len(emitted'[t]) = k /\ emitted'[t] = emitted[t]
    BY <1>1, <1>2 DEF h, r, k
  <2> QED BY <2>3, <2>4, <2>5, <2>6, <2>7 DEF ThreadHeld
<1> QED BY <1>3, <1>4 DEF HeldIsTheRest, ThreadHeld

\* A step that leaves recorded and emitted alone.
LEMMA RestQuiet ==
  ASSUME HeldIsTheRest, UNCHANGED <<recorded, emitted>>, NEW t \in Threads,
         \A u \in Threads : u # t => Held(u)' = Held(u),
         Continues(Held(t)', recorded[t], Len(emitted[t]))
  PROVE  HeldIsTheRest'
<1>1. ASSUME NEW u \in Threads PROVE ThreadHeld(u)'
  BY DEF HeldIsTheRest, ThreadHeld
<1> QED BY <1>1 DEF HeldIsTheRest, ThreadHeld

\* Reading a Buf only moves what is held.
LEMMA RestBuf ==
  ASSUME TypeOK, TypeOK', HeldIsTheRest, NextIsDecoded,
         NEW t \in Threads, NEW s \in Stamps, Buf(t, s)
  PROVE  HeldIsTheRest'
<1> DEFINE h == Held(t)
           r == recorded[t]
           k == Len(emitted[t])
           g == Held(t)'
<1>1. h \in Seq(HeldItems) /\ r \in Seq(Events) /\ k \in Nat /\ g \in Seq(HeldItems)
  BY ThreadParts, HeldTypeNext
<1>2. Continues(h, r, k)
  BY DEF HeldIsTheRest
<1>3. UNCHANGED <<recorded, emitted>> /\ \A u \in Threads : u # t => Held(u)' = Held(u)
  BY HeldBuf DEF Buf, Flush, receiver_vars
<1>4. \/ g = Append(h, s)
      \/ todo[t] = <<>> /\ \E d \in Nat : d > 0 /\ DropsFront(g, Append(h, s), d)
  BY HeldBuf
<1>5. h[1] = last_event[t] /\ 1 \in DOMAIN h
  BY HeldType
<1> HIDE DEF h, r, k, g
<1>6. Continues(Append(h, s), r, k)
  BY <1>1, <1>2, ContinuesAppendStamp
<1>7. Continues(g, r, k)
  <2>1. CASE g = Append(h, s)
    BY <1>6, <2>1
  <2>2. CASE todo[t] = <<>> /\ \E d \in Nat : d > 0 /\ DropsFront(g, Append(h, s), d)
    <3>1. PICK d \in Nat : d > 0 /\ DropsFront(g, Append(h, s), d)
      BY <2>2
    <3>2. s \in HeldItems
      BY DEF HeldItems, Items
    <3>3. Append(h, s) \in Seq(HeldItems) /\ Append(h, s)[1] = h[1]
      BY <1>1, <1>5, <3>2, AppendProperties, LenProperties
    <3>4. h[1] \notin Events
      BY <1>5, <2>2 DEF NextIsDecoded
    <3> QED BY <1>1, <1>6, <3>1, <3>3, <3>4, ContinuesDecode
  <2> QED BY <1>4, <2>1, <2>2
<1>8. Continues(Held(t)', recorded[t], Len(emitted[t]))
  BY <1>7 DEF g, r, k
<1> QED BY <1>3, <1>8, RestQuiet

\* The event that comes out is the next of those recorded.
LEMMA RestProcess ==
  ASSUME TypeOK', MergeInv, NEW t \in Threads,
         Process(t, allocated), Receive(ProcessCalls(t)), UNCHANGED program_vars
  PROVE  /\ HeldIsTheRest'
         /\ Len(emitted[t]) + 1 \in DOMAIN recorded[t]
         /\ recorded[t][Len(emitted[t]) + 1] = last_event[t]
<1> DEFINE h == Held(t)
           r == recorded[t]
           k == Len(emitted[t])
           g == Held(t)'
<1>0. TypeOK /\ HeldIsTheRest
  BY DEF MergeInv, IInv, ProgramInv
<1>1. /\ h \in Seq(HeldItems) /\ r \in Seq(Events) /\ k \in Nat
      /\ g \in Seq(HeldItems) /\ emitted[t] \in Seq(Events)
      /\ DOMAIN r = 1 .. Len(r) /\ Len(r) \in Nat
  BY <1>0, ThreadParts, HeldTypeNext, LenProperties
<1>2. Continues(h, r, k) /\ \A n \in 1 .. k : emitted[t][n] = r[n]
  BY <1>0 DEF HeldIsTheRest
<1>3. todo[t] # <<>> /\ last_event[t] \in Events
  BY TopHasEvent DEF MergeInv, Process
<1>4. h[1] = last_event[t] /\ 1 \in DOMAIN h
  BY <1>0, HeldType
<1>5. /\ \A u \in Threads : u # t => Held(u)' = Held(u)
      /\ \E d \in Nat : d > 0 /\ DropsFront(g, h, d)
  BY <1>0, <1>3, HeldProcess
<1>6. emitted' = [emitted EXCEPT ![t] = Append(@, last_event[t])]
  BY ProcessReceived
<1>7. /\ emitted'[t] = Append(emitted[t], last_event[t])
      /\ \A u \in Threads : u # t => emitted'[u] = emitted[u]
  BY <1>0, <1>6 DEF TypeOK, ReceiverTypeOK
<1>8. recorded' = recorded
  BY DEF program_vars
<1>9. /\ Len(emitted'[t]) = k + 1
      /\ \A i \in 1 .. k : emitted'[t][i] = emitted[t][i]
      /\ emitted'[t][k + 1] = last_event[t]
  BY <1>1, <1>3, <1>7, AppendProperties
<1> HIDE DEF h, r, k, g
<1>10. /\ k + 1 \in 1 .. Len(r) /\ r[k + 1] = h[1]
       /\ Continues(g, r, k + 1)
  BY <1>1, <1>2, <1>3, <1>4, <1>5, ContinuesEmit
<1>11. ThreadHeld(t)'
  <2>1. Held(t)' = g /\ recorded'[t] = r
    BY <1>8 DEF g, r
  <2>2. k + 1 <= Len(r)
    BY <1>10, <1>1
  <2>3. \A n \in 1 .. k + 1 : n \in 1 .. k \/ n = k + 1
    BY <1>1
  <2>4. \A n \in 1 .. k + 1 : emitted'[t][n] = r[n]
    BY <1>2, <1>4, <1>9, <1>10, <2>3
  <2> QED BY <1>9, <1>10, <2>1, <2>2, <2>4 DEF ThreadHeld
<1>12. ASSUME NEW u \in Threads, u # t PROVE ThreadHeld(u)'
  BY <1>0, <1>5, <1>7, <1>8, <1>12 DEF HeldIsTheRest, ThreadHeld
<1>13. HeldIsTheRest'
  BY <1>11, <1>12 DEF HeldIsTheRest, ThreadHeld
<1> QED BY <1>1, <1>4, <1>10, <1>13 DEF r, k

\* Every step keeps what is held equal to what has not come out.
LEMMA RestStep ==
  ASSUME TypeOK', MergeInv, [Next]_vars PROVE HeldIsTheRest'
<1>0. TypeOK /\ HeldIsTheRest /\ NextIsDecoded
  BY DEF MergeInv, IInv, ProgramInv
<1>1. ASSUME NEW t \in Threads, NEW e \in Events, ProgramRecord(t, e)
      PROVE  HeldIsTheRest'
  BY <1>0, <1>1, RestRecord
<1>2. ASSUME NEW t \in Threads, NEW s \in Stamps, ProgramRecordTok(t, s)
      PROVE  HeldIsTheRest'
  <2>1. /\ buffer' = [buffer EXCEPT ![t] = Append(@, s)] /\ s \in Items
        /\ UNCHANGED <<last_event, todo, recorded, emitted>>
    BY <1>2 DEF ProgramRecordTok, RecordTok, serializer_vars, receiver_vars, Items
  <2>2. \A u \in Threads :
          Held(u)' = IF u = t THEN Append(Held(t), s) ELSE Held(u)
    BY <1>0, <2>1, HeldGains
  <2>3. Continues(Append(Held(t), s), recorded[t], Len(emitted[t]))
    BY <1>0, ThreadParts, ContinuesAppendStamp DEF HeldIsTheRest
  <2> QED BY <1>0, <2>1, <2>2, <2>3, RestQuiet
<1>3. ASSUME NEW t \in Threads, NEW s \in Stamps, Buf(t, s)
      PROVE  HeldIsTheRest'
  BY <1>0, <1>3, RestBuf
<1>4. ASSUME NEW t \in Threads, Process(t, allocated), Receive(ProcessCalls(t)),
             UNCHANGED program_vars
      PROVE  HeldIsTheRest'
  BY <1>4, RestProcess
<1>5. CASE UNCHANGED <<last_event, todo, buffer, recorded, emitted>>
  <2>1. ASSUME NEW u \in Threads PROVE ThreadHeld(u)'
    <3>1. Held(u)' = Held(u)
      BY <1>5 DEF Held
    <3> QED BY <1>0, <1>5, <3>1 DEF HeldIsTheRest, ThreadHeld
  <2> QED BY <2>1 DEF HeldIsTheRest, ThreadHeld
<1>6. ASSUME NEW t \in Threads, Death(t)
      PROVE  UNCHANGED <<last_event, todo, buffer, recorded, emitted>>
  BY <1>6 DEF Death, Exit, ReadDeath, thread_vars, receiver_vars
<1>7. ASSUME NEW t \in Threads, Bury(t)
      PROVE  UNCHANGED <<last_event, todo, buffer, recorded, emitted>>
  <2>1. UNCHANGED emitted
    BY <1>0, <1>7, BuryReceived
  <2> QED BY <1>7, <2>1 DEF Bury, Defer, Reap, thread_vars, program_vars
<1>8. ASSUME NEW t \in Threads, Drain(t)
      PROVE  \/ /\ Process(t, allocated) /\ Receive(ProcessCalls(t))
                /\ UNCHANGED program_vars
             \/ UNCHANGED <<last_event, todo, buffer, recorded, emitted>>
  BY <1>8 DEF Drain, Wait, thread_vars, program_vars, receiver_vars
<1>9. FinishReap => UNCHANGED <<last_event, todo, buffer, recorded, emitted>>
  BY <1>0, BarrierReceived DEF FinishReap, EndReap, thread_vars, program_vars,
                               receiver_vars
<1>10. SyncBarrier \/ End \/ FinishDrain \/ UNCHANGED vars
         => UNCHANGED <<last_event, todo, buffer, recorded, emitted>>
  BY DEF SyncBarrier, End, ReadBarrier, FinishDrain, EndDrain,
         vars, serializer_vars, thread_vars, program_vars, receiver_vars
<1> QED BY <1>1, <1>2, <1>3, <1>4, <1>5, <1>6, <1>7, <1>8, <1>9, <1>10
        DEF Next, Program, Serialize, Finished

(***************************************************************************)
(* DeadThreads.                                                            *)
(***************************************************************************)

\* A new element at the end keeps a sequence free of repetitions.
LEMMA InjectiveAppend ==
  ASSUME NEW S, NEW s \in Seq(S), NEW e \in S, IsInjective(s), e \notin Range(s)
  PROVE  IsInjective(Append(s, e))
<1>1. /\ DOMAIN s = 1 .. Len(s) /\ Len(s) \in Nat
      /\ DOMAIN Append(s, e) = 1 .. Len(s) + 1
      /\ \A i \in 1 .. Len(s) : Append(s, e)[i] = s[i]
      /\ Append(s, e)[Len(s) + 1] = e
  BY AppendProperties, LenProperties
<1> DEFINE a == Append(s, e)
<1> HIDE DEF a
<1> SUFFICES ASSUME NEW i \in DOMAIN a, NEW j \in DOMAIN a, a[i] = a[j]
             PROVE  i = j
  BY DEF IsInjective, a
<1>2. \A k \in DOMAIN a : k \in 1 .. Len(s) \/ k = Len(s) + 1
  BY <1>1 DEF a
<1>3. \A k \in 1 .. Len(s) : a[k] = s[k] /\ s[k] \in Range(s)
  BY <1>1 DEF Range, a
<1>4. a[Len(s) + 1] = e
  BY <1>1 DEF a
<1> QED BY <1>1, <1>2, <1>3, <1>4 DEF IsInjective

\* The tail of a sequence without repetitions lacks its head.
LEMMA TailOfInjective ==
  ASSUME NEW S, NEW s \in Seq(S), s # <<>>, IsInjective(s)
  PROVE  /\ IsInjective(Tail(s))
         /\ Head(s) \in Range(s)
         /\ Range(Tail(s)) = Range(s) \ {Head(s)}
<1> DEFINE a == Tail(s)
<1>1. /\ DOMAIN s = 1 .. Len(s) /\ Len(s) \in Nat \ {0}
      /\ DOMAIN a = 1 .. Len(s) - 1
      /\ \A i \in 1 .. Len(s) - 1 : a[i] = s[i + 1]
      /\ Head(s) = s[1]
  <2>1. /\ a \in Seq(S) /\ Len(a) = Len(s) - 1
        /\ \A i \in 1 .. Len(a) : a[i] = s[i + 1]
    BY HeadTailProperties
  <2>2. DOMAIN a = 1 .. Len(a)
    BY <2>1, LenProperties
  <2>3. DOMAIN s = 1 .. Len(s) /\ Len(s) \in Nat \ {0}
    BY EmptySeq, LenProperties
  <2> QED BY <2>1, <2>2, <2>3
<1> HIDE DEF a
<1>2. \A i \in 1 .. Len(s) - 1 : i + 1 \in 1 .. Len(s) /\ i + 1 # 1
  BY <1>1
<1>3. \A i \in 1 .. Len(s) : i # 1 => i - 1 \in 1 .. Len(s) - 1 /\ (i - 1) + 1 = i
  BY <1>1
<1>4. 1 \in 1 .. Len(s)
  BY <1>1
<1>5. \A i, j \in 1 .. Len(s) - 1 : i + 1 = j + 1 => i = j
  BY <1>1
<1>6. IsInjective(a)
  BY <1>1, <1>2, <1>5 DEF IsInjective
<1>7. Head(s) \in Range(s)
  BY <1>1, <1>4 DEF Range
<1>8. Range(a) \subseteq Range(s) \ {Head(s)}
  BY <1>1, <1>2, <1>4 DEF Range, IsInjective
<1>9. Range(s) \ {Head(s)} \subseteq Range(a)
  <2> SUFFICES ASSUME NEW i \in 1 .. Len(s), s[i] # Head(s)
               PROVE  s[i] \in Range(a)
    BY <1>1 DEF Range
  <2>1. i # 1
    BY <1>1
  <2>2. i - 1 \in DOMAIN a /\ a[i - 1] = s[i]
    BY <1>1, <1>3, <2>1
  <2> QED BY <2>2 DEF Range
<1> QED BY <1>6, <1>7, <1>8, <1>9 DEF a

\* The empty sequence holds nothing.
LEMMA NothingRange == Range(<<>>) = {} /\ IsInjective(<<>>)
BY DEF Range, IsInjective

\* What a running thread does concerns no dead one.
LEMMA DeadBuf ==
  ASSUME TypeOK, DeadThreads, NEW t \in Threads, NEW s \in Stamps, Buf(t, s)
  PROVE  DeadThreads'
<1>1. /\ t \notin exited /\ written' = [written EXCEPT ![t] = @ + 1]
      /\ buffer' = [buffer EXCEPT ![t] = <<>>]
      /\ UNCHANGED <<exited, dead, to_die, next_to_die, signalled, killed>>
  BY DEF Buf, Flush, Running, ReadBuf, AppendBuf, StartBuf, receiver_vars
<1>2. /\ written \in [Threads -> Nat] /\ buffer \in [Threads -> Seq(Items)]
      /\ todo \in [Threads -> Seq(Items)] /\ exited \subseteq Threads
  BY DEF TypeOK, ProgramTypeOK, SerializerTypeOK
<1>3. /\ written'[t] > 0
      /\ \A u \in Threads : u # t => written'[u] = written[u] /\ todo'[u] = todo[u]
  BY <1>1, <1>2 DEF Buf, ReadBuf, AppendBuf, StartBuf, UpdateLastEvent
<1>4. threads' = threads \cup {t}
  <2>1. CASE AppendBuf(t, BufOf(t, s))
    <3>1. written[t] > 0 /\ threads' = threads
      BY <2>1 DEF AppendBuf, DeadThreads
    <3> QED BY <1>1, <3>1 DEF DeadThreads
  <2>2. CASE StartBuf(t, BufOf(t, s))
    BY <2>2 DEF StartBuf
  <2> QED BY <2>1, <2>2 DEF Buf, ReadBuf
<1>5. threads' = {u \in Threads : written'[u] > 0} \ (exited \ dead)
  BY <1>1, <1>3, <1>4 DEF DeadThreads
<1>6. \A u \in exited : buffer'[u] = <<>>
  BY <1>1, <1>2 DEF DeadThreads
<1>7. \A u \in Range(killed) : todo'[u] = <<>>
  BY <1>1, <1>2, <1>3 DEF DeadThreads
<1>8. \A u \in Threads : todo'[u] # <<>> => written'[u] > 0
  BY <1>3 DEF DeadThreads
<1> QED BY <1>1, <1>5, <1>6, <1>7, <1>8 DEF DeadThreads

\* A Death puts its thread at the end of to_die.
LEMMA DeadDeath ==
  ASSUME TypeOK, DeadThreads, NEW t \in Threads, Death(t)
  PROVE  DeadThreads'
<1>1. /\ t \notin exited /\ buffer[t] = <<>> /\ written[t] > 0
      /\ exited' = exited \cup {t} /\ dead' = dead \cup {t}
      /\ to_die' = Append(to_die, t)
      /\ UNCHANGED <<buffer, written, todo, threads, next_to_die, signalled, killed>>
  BY DEF Death, Exit, ReadDeath, thread_vars, receiver_vars
<1>2. to_die \in Seq(Threads)
  BY DEF TypeOK, SerializerTypeOK
<1>3. t \notin Range(to_die) /\ t \notin Range(next_to_die) /\ t \notin Range(killed)
      /\ t \notin dead
  BY <1>1 DEF DeadThreads
<1>4. Range(to_die') = Range(to_die) \cup {t} /\ IsInjective(to_die')
  BY <1>1, <1>2, <1>3, RangeOfAppend, InjectiveAppend DEF DeadThreads
<1> QED BY <1>1, <1>3, <1>4 DEF DeadThreads

\* A dead thread that is killed after its last event is signalled.
LEMMA DeadProcess ==
  ASSUME MergeInv, NEW t \in Threads,
         Process(t, allocated), Receive(ProcessCalls(t)), UNCHANGED program_vars
  PROVE  DeadThreads'
<1> DEFINE kill == t \in dead /\ ~HasEvent(todo[t])
<1>0. TypeOK /\ DeadThreads /\ NextIsDecoded /\ IInv
  BY DEF MergeInv, IInv, ProgramInv
<1>1. todo[t] # <<>> /\ t \notin Range(killed)
  BY <1>0, TopHasEvent DEF Process
<1>2. /\ killed' = IF kill THEN Append(killed, t) ELSE killed
      /\ signalled' = IF kill THEN signalled \cup {t} ELSE signalled
  BY ProcessReceived
<1>3. /\ killed \in Seq(Threads \cup {NoThread})
      /\ todo \in [Threads -> Seq(Items)]
  BY <1>0 DEF TypeOK, ReceiverTypeOK, SerializerTypeOK
<1>4. UNCHANGED <<written, exited, buffer, dead, to_die, next_to_die, threads>>
  BY DEF Process, program_vars
<1>5. todo' = [todo EXCEPT ![t] = AfterEvent(todo[t])]
  BY DEF Process, UpdateLastEvent
<1>6. /\ \A u \in Threads : u # t => todo'[u] = todo[u]
      /\ kill => todo'[t] = <<>>
  BY <1>3, <1>5 DEF AfterEvent
<1>7. Range(killed') = IF kill THEN Range(killed) \cup {t} ELSE Range(killed)
  <2>1. Range(Append(killed, t)) = Range(killed) \cup {t}
    BY <1>3, RangeOfAppend
  <2> QED BY <1>2, <2>1
<1>8. kill => t \in dead
  OBVIOUS
<1> HIDE DEF kill
<1>9. \A u \in Range(killed') : todo'[u] = <<>>
  <2>1. exited \subseteq Threads
    BY <1>0 DEF TypeOK, ProgramTypeOK
  <2> QED BY <1>0, <1>1, <1>6, <1>7, <2>1 DEF DeadThreads
<1>10. \A u \in Threads : todo'[u] # <<>> => written'[u] > 0
  BY <1>0, <1>1, <1>4, <1>6 DEF DeadThreads
<1> QED BY <1>0, <1>2, <1>4, <1>7, <1>8, <1>9, <1>10 DEF DeadThreads

\* A thread to be reaped that does not wait has nothing left.
LEMMA ReapedIsEmpty ==
  ASSUME MergeInv, NEW t \in Threads, phase = "reap", t \notin in_pending_frees
  PROVE  todo[t] = <<>>
BY DEF MergeInv, IInv, ThreadPlaces, DrainedBeforeReap

\* Reaping moves the head of to_die to next_to_die, or forgets it.
LEMMA DeadBury ==
  ASSUME MergeInv, NEW t \in Threads, Bury(t)
  PROVE  DeadThreads'
<1>0. TypeOK /\ DeadThreads
  BY DEF MergeInv, IInv, ProgramInv
<1>1. /\ to_die \in Seq(Threads) /\ next_to_die \in Seq(Threads)
      /\ killed \in Seq(Threads \cup {NoThread})
  BY <1>0 DEF TypeOK, SerializerTypeOK, ReceiverTypeOK
<1>2. /\ phase = "reap" /\ to_die # <<>> /\ t = Head(to_die)
      /\ to_die' = Tail(to_die)
      /\ UNCHANGED <<written, exited, buffer, todo>>
  BY DEF Bury, Defer, Reap, program_vars, thread_vars
<1>3. /\ IsInjective(to_die') /\ Range(to_die') = Range(to_die) \ {t}
      /\ t \in Range(to_die) /\ t \notin Range(next_to_die) /\ t \in dead
  BY <1>0, <1>1, <1>2, TailOfInjective DEF DeadThreads
<1>4. CASE Defer(t)
  <2>1. /\ t \in in_pending_frees /\ next_to_die' = Append(next_to_die, t)
        /\ UNCHANGED <<dead, signalled, threads>>
    BY <1>4 DEF Defer, thread_vars
  <2>2. UNCHANGED killed
    BY <1>0, <2>1, BuryReceived
  <2>3. Range(next_to_die') = Range(next_to_die) \cup {t} /\ IsInjective(next_to_die')
    BY <1>0, <1>1, <1>3, <2>1, RangeOfAppend, InjectiveAppend DEF DeadThreads
  <2> QED BY <1>0, <1>2, <1>3, <2>1, <2>2, <2>3 DEF DeadThreads
<1>5. CASE Reap(t)
  <2>1. /\ t \notin in_pending_frees /\ threads' = threads \ {t}
        /\ dead' = dead \ {t} /\ signalled' = signalled \ {t}
        /\ next_to_die' = next_to_die
    BY <1>5 DEF Reap
  <2>2. Range(killed') = Range(killed) \cup {t}
    <3>1. CASE t \in signalled
      <4>1. killed' = killed
        BY <1>0, <3>1, BuryReceived
      <4> QED BY <1>0, <3>1, <4>1 DEF DeadThreads
    <3>2. CASE t \notin signalled
      <4>1. killed' = Append(killed, t)
        BY <1>0, <2>1, <3>2, BuryReceived
      <4> QED BY <1>1, <4>1, RangeOfAppend
    <3> QED BY <3>1, <3>2
  <2>3. todo[t] = <<>>
    BY <1>2, <2>1, ReapedIsEmpty
  <2>4. /\ dead' = Range(to_die') \cup Range(next_to_die')
        /\ Range(to_die') \cap Range(next_to_die') = {}
        /\ exited' = dead' \cup Range(killed')
        /\ signalled' = dead' \cap Range(killed')
    BY <1>0, <1>2, <1>3, <2>1, <2>2 DEF DeadThreads
  <2>5. threads' = {u \in Threads : written'[u] > 0} \ (exited' \ dead')
    BY <1>0, <1>2, <1>3, <2>1 DEF DeadThreads
  <2>6. /\ IsInjective(to_die') /\ IsInjective(next_to_die')
        /\ \A u \in exited' : buffer'[u] = <<>>
        /\ \A u \in Range(killed') : todo'[u] = <<>>
        /\ \A u \in Threads : todo'[u] # <<>> => written'[u] > 0
    BY <1>0, <1>2, <1>3, <2>1, <2>2, <2>3 DEF DeadThreads
  <2> QED BY <2>4, <2>5, <2>6 DEF DeadThreads
<1> QED BY <1>4, <1>5 DEF Bury

\* Every step keeps the places of the dead.
LEMMA DeadStep ==
  ASSUME MergeInv, [Next]_vars PROVE DeadThreads'
<1>0. TypeOK /\ DeadThreads
  BY DEF MergeInv, IInv, ProgramInv
<1>1. ASSUME NEW t \in Threads, \/ \E e \in Events : ProgramRecord(t, e)
                                \/ \E s \in Stamps : ProgramRecordTok(t, s)
      PROVE  DeadThreads'
  <2>1. /\ t \notin exited
        /\ \E i \in Items : buffer' = [buffer EXCEPT ![t] = Append(@, i)]
        /\ UNCHANGED <<written, exited, serializer_vars, receiver_vars>>
    BY <1>1 DEF ProgramRecord, Record, ProgramRecordTok, RecordTok, Running, Items
  <2>2. \A u \in exited : buffer'[u] = buffer[u]
    BY <1>0, <2>1 DEF TypeOK, ProgramTypeOK
  <2> QED BY <1>0, <2>1, <2>2 DEF DeadThreads, serializer_vars, thread_vars, receiver_vars
<1>2. CASE UNCHANGED <<written, exited, buffer, todo, threads, dead, signalled,
                       to_die, next_to_die, killed>>
  BY <1>0, <1>2 DEF DeadThreads
<1>3. ASSUME NEW t \in Threads, Wait(t, allocated), UNCHANGED <<receiver_vars, program_vars>>
      PROVE  DeadThreads'
  BY <1>2, <1>3 DEF Wait, thread_vars, receiver_vars, program_vars
<1>4. CASE FinishReap
  <2>1. UNCHANGED receiver_vars
    BY <1>0, <1>4, BarrierReceived
  <2>2. /\ to_die = <<>> /\ to_die' = next_to_die /\ next_to_die' = <<>>
        /\ UNCHANGED <<written, exited, buffer, todo, threads, dead, signalled, killed>>
    BY <1>4, <2>1 DEF FinishReap, EndReap, thread_vars, program_vars, receiver_vars
  <2> QED BY <1>0, <2>2, NothingRange DEF DeadThreads
<1>5. SyncBarrier \/ End \/ FinishDrain \/ UNCHANGED vars => DeadThreads'
  BY <1>2 DEF SyncBarrier, End, ReadBarrier, FinishDrain, EndDrain,
              vars, serializer_vars, thread_vars, program_vars, receiver_vars
<1> QED BY <1>0, <1>1, <1>3, <1>4, <1>5, DeadBuf, DeadDeath, DeadProcess, DeadBury
        DEF Next, Program, Serialize, Drain, Finished

(***************************************************************************)
(* The invariant holds.                                                    *)
(***************************************************************************)

\* The heap is filled while reading and emptied before the reaping.
LEMMA DrainedStep ==
  ASSUME MergeInv, [Next]_vars PROVE DrainedBeforeReap'
<1>0. DrainedBeforeReap
  BY DEF MergeInv
<1>1. ASSUME phase' \notin {"reap", "done"} PROVE DrainedBeforeReap'
  BY <1>1 DEF DrainedBeforeReap
<1>2. ASSUME NEW t \in Threads,
             \/ \E e \in Events : ProgramRecord(t, e)
             \/ \E s \in Stamps : ProgramRecordTok(t, s) \/ Buf(t, s)
             \/ Death(t) \/ Drain(t)
      PROVE  phase' \notin {"reap", "done"}
  BY <1>2 DEF ProgramRecord, ProgramRecordTok, Buf, ReadBuf, AppendBuf, StartBuf,
              Death, ReadDeath, Drain, Process, Wait, Asserting, serializer_vars
<1>3. SyncBarrier \/ End => phase' \notin {"reap", "done"}
  BY DEF SyncBarrier, End, ReadBarrier
<1>4. FinishDrain => DrainedBeforeReap'
  BY DEF FinishDrain, EndDrain, DrainedBeforeReap
<1>5. ASSUME NEW t \in Threads, Bury(t) PROVE DrainedBeforeReap'
  BY <1>0, <1>5 DEF Bury, Defer, Reap, DrainedBeforeReap
<1>6. FinishReap \/ UNCHANGED vars => DrainedBeforeReap'
  BY <1>0 DEF FinishReap, EndReap, vars, serializer_vars, DrainedBeforeReap
<1> QED BY <1>1, <1>2, <1>3, <1>4, <1>5, <1>6
        DEF Next, Program, Serialize, Finished

\* The receiver's thread changes only with recv_thread_id.
LEMMA ReceiverFollowsStep ==
  ASSUME MergeInv, [Next]_vars PROVE ReceiverFollows'
<1>0. TypeOK /\ ReceiverFollows /\ DeadThreads
  BY DEF MergeInv, IInv, ProgramInv
<1>1. killed \in Seq(Threads \cup {NoThread})
  BY <1>0 DEF TypeOK, ReceiverTypeOK
<1>2. ASSUME NEW t \in Threads, Process(t, allocated), Receive(ProcessCalls(t))
      PROVE  ReceiverFollows'
  <2> DEFINE kill == t \in dead /\ ~HasEvent(todo[t])
  <2>1. /\ killed' = IF kill THEN Append(killed, t) ELSE killed
        /\ current' = IF kill THEN NoThread ELSE t
    BY <1>2, ProcessReceived
  <2>2. recv_thread_id' = t
    BY <1>2 DEF Process
  <2>3. Range(Append(killed, t)) = Range(killed) \cup {t}
    BY <1>1, RangeOfAppend
  <2> HIDE DEF kill
  <2> QED BY <2>1, <2>2, <2>3 DEF ReceiverFollows
<1>3. ASSUME NEW t \in Threads, Defer(t), Bury(t) PROVE ReceiverFollows'
  <2>1. t \in in_pending_frees /\ UNCHANGED recv_thread_id
    BY <1>3 DEF Defer
  <2>2. UNCHANGED <<killed, current>>
    BY <1>0, <1>3, <2>1, BuryReceived
  <2> QED BY <1>0, <2>1, <2>2 DEF ReceiverFollows
<1>4. ASSUME NEW t \in Threads, Reap(t), Bury(t) PROVE ReceiverFollows'
  <2>1. t \notin in_pending_frees
        /\ recv_thread_id' = IF t \in signalled THEN recv_thread_id ELSE NoThread
    BY <1>4 DEF Reap, RecvThreadAfterReap
  <2>2. CASE t \in signalled
    <3>1. UNCHANGED <<killed, current>>
      BY <1>0, <1>4, <2>2, BuryReceived
    <3> QED BY <1>0, <2>1, <2>2, <3>1 DEF ReceiverFollows
  <2>3. CASE t \notin signalled
    <3>1. current' = NoThread
      BY <1>0, <1>4, <2>1, <2>3, BuryReceived
    <3> QED BY <2>1, <2>3, <3>1 DEF ReceiverFollows
  <2> QED BY <2>2, <2>3
<1>5. CASE UNCHANGED <<recv_thread_id, current, killed>>
  BY <1>0, <1>5 DEF ReceiverFollows
<1>6. ASSUME NEW t \in Threads,
             \/ \E e \in Events : ProgramRecord(t, e)
             \/ \E s \in Stamps : ProgramRecordTok(t, s) \/ Buf(t, s)
             \/ Death(t)
             \/ Wait(t, allocated) /\ UNCHANGED receiver_vars
      PROVE  UNCHANGED <<recv_thread_id, current, killed>>
  BY <1>6 DEF ProgramRecord, ProgramRecordTok, Buf, ReadBuf, AppendBuf, StartBuf,
              Death, ReadDeath, Wait, serializer_vars, receiver_vars
<1>7. FinishReap => UNCHANGED <<recv_thread_id, current, killed>>
  BY <1>0, BarrierReceived DEF FinishReap, EndReap, receiver_vars
<1>8. SyncBarrier \/ End \/ FinishDrain \/ UNCHANGED vars
        => UNCHANGED <<recv_thread_id, current, killed>>
  BY DEF SyncBarrier, End, ReadBarrier, FinishDrain, EndDrain, vars,
         serializer_vars, receiver_vars
<1> QED BY <1>2, <1>3, <1>4, <1>5, <1>6, <1>7, <1>8
        DEF Next, Program, Serialize, Drain, Bury, Finished

\* The invariant holds at the start, when there is nothing yet.
LEMMA MergeInvInit == Init => MergeInv
<1> SUFFICES ASSUME Init PROVE MergeInv
  OBVIOUS
<1>1. IInv
  BY ProgramInvInit, PlacesInit DEF IInv
<1>2. TypeOK
  BY <1>1 DEF IInv, ProgramInv
<1>3. ASSUME NEW t \in Threads
      PROVE  /\ last_event[t] = NoEvent /\ todo[t] = <<>> /\ buffer[t] = <<>>
             /\ recorded[t] = <<>> /\ emitted[t] = <<>>
             /\ \A i \in DOMAIN Held(t) : Held(t)[i] \notin Events
  <2>1. /\ last_event[t] = NoEvent /\ todo[t] = <<>> /\ buffer[t] = <<>>
        /\ recorded[t] = <<>> /\ emitted[t] = <<>>
    BY DEF Init, ProgramInit, SerializerInit, ReceiverInit, NotCalled
  <2>2. NoEvent \in HeldItems /\ <<>> \in Seq(Items)
    BY DEF HeldItems
  <2>3. /\ DOMAIN (<<NoEvent>> \o <<>> \o <<>>) = 1 .. 1 + Len(<<>>) + Len(<<>>)
        /\ (<<NoEvent>> \o <<>> \o <<>>)[1] = NoEvent
    BY <2>2, JoinedType
  <2>4. DOMAIN Held(t) = 1 .. 1 /\ Held(t)[1] = NoEvent
    BY <2>1, <2>3 DEF Held
  <2> QED BY <2>1, <2>4 DEF Events
<1>4. NextIsDecoded
  BY <1>3 DEF NextIsDecoded, Events
<1>5. MadeOnce /\ AllocatedNotFresh
  BY <1>3 DEF MadeOnce, Makes, AllocatedNotFresh, Init, ReceiverInit, NotCalled
<1>6. HeldIsTheRest
  <2> SUFFICES ASSUME NEW t \in Threads PROVE ThreadHeld(t)
    BY DEF HeldIsTheRest, ThreadHeld
  <2>1. Len(recorded[t]) = 0 /\ Len(emitted[t]) = 0
    BY <1>3
  <2> DEFINE h == Held(t)
             f == [n \in 1 .. 0 |-> 1]
  <2>2. \A i \in DOMAIN h : h[i] \notin Events
    BY <1>3
  <2> HIDE DEF h
  <2>3. \A n \in 0 + 1 .. 0 : FALSE
    OBVIOUS
  <2>4. f \in [0 + 1 .. 0 -> DOMAIN h]
    OBVIOUS
  <2> HIDE DEF f
  <2>5. Continues(h, recorded[t], Len(emitted[t]))
    BY <2>1, <2>2, <2>3, <2>4 DEF Continues
  <2> QED BY <2>1, <2>5 DEF ThreadHeld, h
<1>7. DeadThreads
  BY <1>3, NothingRange DEF DeadThreads, Init, ProgramInit, SerializerInit, ReceiverInit, NotCalled
<1>8. DrainedBeforeReap /\ ReceiverFollows
  BY DEF DrainedBeforeReap, ReceiverFollows, Init, SerializerInit, ReceiverInit, NotCalled
<1> QED BY <1>1, <1>4, <1>5, <1>6, <1>7, <1>8 DEF MergeInv

\* Every step keeps the invariant.
LEMMA MergeInvStep == MergeInv /\ [Next]_vars => MergeInv'
<1> SUFFICES ASSUME MergeInv, [Next]_vars PROVE MergeInv'
  OBVIOUS
<1>1. IInv'
  BY ProgramInvStep, PlacesStep, WakeupStep DEF MergeInv, IInv, ProgramInv
<1>2. TypeOK'
  BY <1>1 DEF IInv, ProgramInv
<1>3. NextIsDecoded'
  BY NextIsDecodedStep DEF MergeInv
<1> QED BY <1>1, <1>2, <1>3, MadeStep, RestStep, DeadStep, DrainedStep,
           ReceiverFollowsStep DEF MergeInv

\* The invariant of the merge holds of every behaviour of the specification.
THEOREM MergeInvariance == Spec => []MergeInv
BY MergeInvInit, MergeInvStep, PTL DEF Spec

(***************************************************************************)
(* The refinement.                                                         *)
(***************************************************************************)

\* A thread of which no event is held has nothing that has not come out.
LEMMA NothingHeld ==
  ASSUME NEW x \in HeldItems, x \notin Events,
         NEW r \in Seq(Events), NEW e \in Seq(Events),
         Len(e) <= Len(r), \A n \in 1 .. Len(e) : e[n] = r[n],
         Continues(<<x>> \o <<>> \o <<>>, r, Len(e))
  PROVE  e = r
<1> DEFINE h == <<x>> \o <<>> \o <<>>
<1>1. Len(e) \in Nat /\ Len(r) \in Nat
  BY LenProperties
<1>2. \A i \in DOMAIN h : h[i] \notin Events
  <2>1. <<>> \in Seq(Items) /\ Len(<<>>) = 0
    BY EmptySeq
  <2>2. DOMAIN h = 1 .. 1 + Len(<<>>) + Len(<<>>) /\ h[1] = x
    BY <2>1, JoinedType
  <2> HIDE DEF h
  <2>3. DOMAIN h = 1 .. 1 /\ h[1] = x
    BY <2>1, <2>2
  <2> QED BY <2>3
<1> HIDE DEF h
<1>3. Len(r) <= Len(e)
  BY <1>1, <1>2, ContinuesNone DEF h
<1>4. Len(e) = Len(r)
  BY <1>1, <1>3
<1> QED BY <1>4, SeqEqual

\* Such a thread after a step.
LEMMA AllCameOut ==
  ASSUME TypeOK', HeldIsTheRest', NextIsDecoded', NEW t \in Threads,
         todo'[t] = <<>>, buffer'[t] = <<>>
  PROVE  emitted'[t] = recorded'[t]
<1> DEFINE x == last_event'[t]
           r == recorded'[t]
           e == emitted'[t]
<1>1. x \in HeldItems /\ x \notin Events
  BY DEF NextIsDecoded, TypeOK, SerializerTypeOK, HeldItems, Items
<1>2. r \in Seq(Events) /\ e \in Seq(Events)
  BY DEF TypeOK, ProgramTypeOK, ReceiverTypeOK
<1>3. /\ Len(e) <= Len(r)
      /\ \A n \in 1 .. Len(e) : e[n] = r[n]
      /\ Continues(<<x>> \o <<>> \o <<>>, r, Len(e))
  BY DEF HeldIsTheRest, Held
<1> HIDE DEF x, r, e
<1>4. e = r
  BY <1>1, <1>2, <1>3, NothingHeld
<1> QED BY <1>4 DEF e, r

\* The specification and MergedTrace name the same events and the same threads.
LEMMA MergedNames == Merged!Events = Events /\ Range(killed) = Merged!Range(killed)
BY DEF Events, NoEvent, Merged!Events, Merged!NoEvent, Range, Merged!Range

\* Nothing has been recorded, has come out, or been killed.
LEMMA InitMerged == Init => Merged!Init
BY DEF Init, ProgramInit, ReceiverInit, NotCalled, Merged!Init

\* What the program records the abstract specification records.
LEMMA RecordMerged ==
  ASSUME MergeInv, NEW t \in Threads, NEW e \in Events, ProgramRecord(t, e)
  PROVE  Merged!Next
<1>1. t \notin Range(killed)
  BY DEF ProgramRecord, Record, Running, MergeInv, DeadThreads
<1>2. Merged!Record(t, e)
  BY <1>1, MergedNames DEF ProgramRecord, Record, receiver_vars, Merged!Record
<1> QED BY <1>2, MergedNames DEF Merged!Next

\* The event that is processed is the next one its thread recorded; what it
\* releases is allocated, what it makes is not; and its thread has not been
\* killed, nor will be before all that it recorded has come out.
LEMMA ProcessedIsNext ==
  ASSUME MergeInv, MergeInv', NEW t \in Threads,
         Process(t, allocated), Receive(ProcessCalls(t)), UNCHANGED program_vars
  PROVE  LET e == last_event[t]
             next == Len(emitted[t]) + 1
         IN /\ t \notin Range(killed) /\ e \in Events
            /\ next \in DOMAIN recorded[t] /\ recorded[t][next] = e
            /\ e.old \in allocated \cup {NoTok}
            /\ e.new \notin allocated
            /\ t \in dead /\ ~HasEvent(todo[t]) => emitted'[t] = recorded[t]
<1> DEFINE e == last_event[t]
           next == Len(emitted[t]) + 1
<1>0. /\ TypeOK /\ MadeOnce /\ DeadThreads
      /\ TypeOK' /\ HeldIsTheRest' /\ NextIsDecoded'
  BY DEF MergeInv, IInv, ProgramInv
<1>1. emitted' = [emitted EXCEPT ![t] = Append(@, e)]
  BY ProcessReceived
<1>2. todo[t] # <<>> /\ e \in Events /\ t \notin Range(killed)
  BY TopHasEvent DEF MergeInv, Process
<1>3. next \in DOMAIN recorded[t] /\ recorded[t][next] = e
  BY <1>0, <1>1, RestProcess, ProcessReceived
<1>4. e.old \in allocated \cup {NoTok}
  BY DEF Process, Ready
<1>5. e.new \notin allocated
  <2>1. 1 \in DOMAIN Held(t) /\ Held(t)[1] = e
    BY <1>0, HeldType
  <2>2. e.new \in Tokens => Makes(t, 1, e.new)
    BY <1>2, <2>1 DEF Makes
  <2>3. e.new \in Tokens => e.new \notin allocated
    BY <1>0, <2>1, <2>2 DEF MadeOnce
  <2> QED BY <1>0, <2>3 DEF TypeOK, ReceiverTypeOK
<1>6. t \in dead /\ ~HasEvent(todo[t]) => emitted'[t] = recorded[t]
  <2> SUFFICES ASSUME t \in dead, ~HasEvent(todo[t]) PROVE emitted'[t] = recorded[t]
    OBVIOUS
  <2>1. buffer'[t] = <<>> /\ recorded' = recorded
    BY <1>0 DEF DeadThreads, program_vars
  <2>2. todo'[t] = <<>>
    BY <1>0 DEF Process, UpdateLastEvent, AfterEvent, TypeOK, SerializerTypeOK
  <2> QED BY <1>0, <2>1, <2>2, AllCameOut
<1> QED BY <1>2, <1>3, <1>4, <1>5, <1>6

\* Processing an event emits it, and kills its thread if that is dead and has
\* nothing left.
LEMMA ProcessMerged ==
  ASSUME MergeInv, MergeInv', NEW t \in Threads,
         Process(t, allocated), Receive(ProcessCalls(t)), UNCHANGED program_vars
  PROVE  Merged!Next
<1> DEFINE kill == t \in dead /\ ~HasEvent(todo[t])
           e == last_event[t]
           next == Len(emitted[t]) + 1
<1>1. /\ emitted' = [emitted EXCEPT ![t] = Append(@, e)]
      /\ allocated' = (allocated \ {e.old}) \cup ({e.new} \ {NoTok})
      /\ killed' = IF kill THEN Append(killed, t) ELSE killed
  BY ProcessReceived
<1>2. /\ t \notin Range(killed)
      /\ next \in DOMAIN recorded[t] /\ recorded[t][next] = e
      /\ e.old \in allocated \cup {NoTok}
      /\ e.new \notin allocated
      /\ kill => emitted'[t] = recorded[t]
  BY ProcessedIsNext
<1>3. UNCHANGED recorded
  BY DEF program_vars
<1> HIDE DEF kill, e, next
<1>4. Merged!Emit(t)
  BY <1>1, <1>2, <1>3, MergedNames DEF Merged!Emit, next
<1>5. Merged!Kill(t) \/ UNCHANGED killed
  BY <1>1, <1>2, MergedNames DEF Merged!Kill
<1> QED BY <1>4, <1>5 DEF Merged!Next

\* A thread that is killed when it is reaped had not been killed, and all that
\* it recorded has come out.
LEMMA ReapedIsComplete ==
  ASSUME MergeInv, MergeInv', NEW t \in Threads, Bury(t),
         t \notin in_pending_frees \cup signalled
  PROVE  t \notin Range(killed) /\ emitted'[t] = recorded[t]
<1>0. /\ TypeOK /\ DeadThreads
      /\ TypeOK' /\ HeldIsTheRest' /\ NextIsDecoded'
  BY DEF MergeInv, IInv, ProgramInv
<1>1. phase = "reap" /\ to_die # <<>> /\ t = Head(to_die)
      /\ UNCHANGED <<recorded, todo, buffer>>
  BY DEF Bury, Defer, Reap, thread_vars, program_vars
<1>2. t \in dead
  BY <1>0, <1>1, TailOfInjective DEF DeadThreads, TypeOK, SerializerTypeOK
<1>3. t \notin Range(killed) /\ buffer[t] = <<>>
  BY <1>0, <1>2 DEF DeadThreads
<1>4. todo[t] = <<>>
  BY <1>1, ReapedIsEmpty
<1>5. emitted'[t] = recorded[t]
  BY <1>0, <1>1, <1>3, <1>4, AllCameOut
<1> QED BY <1>3, <1>5

\* Burying a thread kills it, unless that was done or it still waits.
LEMMA BuryMerged ==
  ASSUME MergeInv, MergeInv', NEW t \in Threads, Bury(t)
  PROVE  [Merged!Next]_<<recorded, emitted, allocated, killed>>
<1>0. TypeOK
  BY DEF MergeInv, IInv, ProgramInv
<1>1. UNCHANGED <<recorded, emitted, allocated>>
  BY <1>0, BuryReceived DEF Bury, program_vars
<1>2. CASE t \in in_pending_frees \cup signalled
  <2>1. UNCHANGED killed
    BY <1>0, <1>2, BuryReceived
  <2> QED BY <1>1, <2>1
<1>3. CASE t \notin in_pending_frees \cup signalled
  <2>1. killed' = Append(killed, t)
    BY <1>0, <1>3, BuryReceived
  <2>2. Merged!Kill(t)
    BY <1>3, <2>1, ReapedIsComplete, MergedNames DEF Merged!Kill
  <2> QED BY <1>1, <2>2 DEF Merged!Next
<1> QED BY <1>2, <1>3

\* Every step is one of MergedTrace, or changes nothing that it speaks of.
LEMMA StepMerged ==
  ASSUME MergeInv, MergeInv', [Next]_vars
  PROVE  [Merged!Next]_<<recorded, emitted, allocated, killed>>
<1>0. TypeOK
  BY DEF MergeInv, IInv, ProgramInv
<1>1. ASSUME NEW t \in Threads,
             \/ \E s \in Stamps : ProgramRecordTok(t, s) \/ Buf(t, s)
             \/ Death(t)
             \/ Wait(t, allocated) /\ UNCHANGED <<program_vars, receiver_vars>>
      PROVE  UNCHANGED <<recorded, emitted, allocated, killed>>
  BY <1>1 DEF ProgramRecordTok, RecordTok, Buf, Flush, Death, Exit, program_vars,
              receiver_vars
<1>2. FinishReap => UNCHANGED <<recorded, emitted, allocated, killed>>
  BY <1>0, BarrierReceived DEF FinishReap, program_vars, receiver_vars
<1>3. SyncBarrier \/ End \/ FinishDrain \/ UNCHANGED vars
        => UNCHANGED <<recorded, emitted, allocated, killed>>
  BY DEF SyncBarrier, End, FinishDrain, vars, program_vars, receiver_vars
<1> QED BY <1>1, <1>2, <1>3, RecordMerged, ProcessMerged, BuryMerged
        DEF Next, Program, Serialize, Drain, Finished

\* The serializer implements MergedTrace: whatever the Bufs, their order and
\* their stamps, the events of a thread come out in its order and once each,
\* no token is released before its allocation, and a thread is killed once,
\* after all that it recorded (SerializeMallocEvents).
THEOREM ImplementsMergedTrace == Spec => MergesTraces
<1>1. Init => Merged!Init
  BY InitMerged
<1>2. MergeInv /\ MergeInv' /\ [Next]_vars
        => [Merged!Next]_<<recorded, emitted, allocated, killed>>
  BY StepMerged
<1> QED BY <1>1, <1>2, MergeInvariance, PTL
        DEF Spec, MergesTraces, Merged!Spec, Merged!merged_vars

(***************************************************************************)
(* The assertions.                                                         *)
(***************************************************************************)

\* No assertion fails, no Death is of an unknown thread and no thread is in
\* the heap without an event, but for a thread that ended while one of its
\* events waits (the assertions of SerializeMallocEvents, the panics on a Death
\* and on an unknown event).
THEOREM OnlyWaitersAbort == Spec => OnlyWaitingDeathsAbort
<1>1. ASSUME MergeInv, [Next]_vars
      PROVE  [phase' = "aborted" => \E t \in in_pending_frees : Defer(t)]_vars
  <2> SUFFICES ASSUME Next, phase' = "aborted", vars' # vars
               PROVE  \E t \in in_pending_frees : Defer(t)
    BY <1>1
  <2>0. /\ TypeOK /\ DeadThreads /\ ReleasedOnce /\ ThreadPlaces
        /\ NextIsDecoded
    BY <1>1 DEF MergeInv, IInv, ProgramInv
  <2>1. ASSUME NEW t \in Threads, IsTop(t)
        PROVE  todo[t] # <<>> /\ last_event[t] # NoEvent
    BY <2>0, <2>1 DEF IsTop, ThreadPlaces, NextIsDecoded, Events
  <2>2. ASSUME NEW t \in Threads,
               \/ \E e \in Events : ProgramRecord(t, e)
               \/ \E s \in Stamps : ProgramRecordTok(t, s)
        PROVE  FALSE
    BY <2>2 DEF ProgramRecord, ProgramRecordTok, serializer_vars
  <2>3. ASSUME NEW t \in Threads, Process(t, allocated) PROVE FALSE
    <3>1. todo[t] # <<>> /\ last_event[t] # NoEvent
      BY <2>1, <2>3 DEF Process
    <3> QED BY <2>3, <3>1 DEF Process, Asserting
  <2>4. ASSUME NEW t \in Threads, NEW s \in Stamps, Buf(t, s) PROVE FALSE
    <3>1. t \notin dead
      BY <2>0, <2>4 DEF Buf, Flush, Running, DeadThreads
    <3> QED BY <2>4, <3>1 DEF Buf, ReadBuf, AppendBuf, StartBuf, Asserting
  <2>5. ASSUME NEW t \in Threads, Death(t) PROVE FALSE
    <3>1. t \notin exited /\ written[t] > 0
      BY <2>5 DEF Death, Exit
    <3>2. t \in threads /\ t \notin dead
      BY <2>0, <3>1 DEF DeadThreads
    <3> QED BY <2>5, <3>2 DEF Death, ReadDeath, Asserting
  <2>6. ASSUME NEW t \in Threads, Wait(t, allocated) PROVE FALSE
    <3>1. last_event[t].old \notin DOMAIN pending_frees
      BY <2>0, <2>6, NobodyWaits
    <3>2. todo[t] # <<>>
      BY <2>1, <2>6 DEF Wait
    <3>3. NewTok(t, allocated) = NoTok
      BY <2>6 DEF Wait, NewTok
    <3> QED BY <2>6, <3>1, <3>2, <3>3 DEF Wait, Asserting
  <2>7. ASSUME NEW t \in Threads, Reap(t) PROVE FALSE
    <3>1. phase = "reap" /\ to_die # <<>> /\ t = Head(to_die) /\ t \notin in_pending_frees
      BY <2>7 DEF Reap
    <3>2. t \in dead
      BY <2>0, <3>1, TailOfInjective DEF DeadThreads, TypeOK, SerializerTypeOK
    <3>3. todo[t] = <<>>
      BY <1>1, <3>1, ReapedIsEmpty
    <3> QED BY <2>7, <3>1, <3>2, <3>3 DEF Reap, ReapAssertions, Asserting
  <2>8. SyncBarrier \/ End \/ FinishDrain \/ FinishReap \/ Finished => FALSE
    BY DEF SyncBarrier, End, ReadBarrier, FinishDrain, EndDrain, FinishReap, EndReap,
           Finished
  <2>9. PICK t \in Threads : Defer(t)
    BY <2>2, <2>4, <2>5, <2>6, <2>7, <2>8, <2>3
       DEF Next, Program, Serialize, Drain, Bury
  <2>10. t \in in_pending_frees
    BY <2>9 DEF Defer
  <2> QED BY <2>9, <2>10
<1> QED BY <1>1, MergeInvariance, PTL DEF Spec, OnlyWaitingDeathsAbort

-------------------------------------------------------------------------------
(***************************************************************************)
(* That a trace which lacks nothing comes out whole: when the serializer   *)
(* is done with it no thread waits, whatever the rounds in which events,   *)
(* Deaths and the tokens they needed had arrived.                          *)
(*                                                                         *)
(* A thread that waits at the end waits for an event of another thread     *)
(* that has not come out either, and so that one waits too.  Following     *)
(* this backwards ends, because the program recorded an allocation before  *)
(* its release; so every recorded event is given a time at which it was    *)
(* recorded, and the earliest event that has not come out is looked at.    *)
(***************************************************************************)

\* The n-th event of t in s, what was recorded or has come out, makes or
\* releases tok.
Gives(s, t, n, tok) == n \in DOMAIN s[t] /\ s[t][n].new = tok
Takes(s, t, n, tok) == n \in DOMAIN s[t] /\ s[t][n].old = tok

\* The program releases a token once.
RecordedOnce ==
  \A tok \in Tokens : \A t \in Threads : \A n \in DOMAIN recorded[t] :
    Takes(recorded, t, n, tok) =>
      /\ tok \notin live \cup fresh
      /\ \A u \in Threads : \A m \in DOMAIN recorded[u] :
           Takes(recorded, u, m, tok) => u = t /\ m = n

\* A live token was made by a recorded event.
LiveWasMade ==
  \A tok \in live : \E t \in Threads : \E n \in DOMAIN recorded[t] :
    Gives(recorded, t, n, tok)

\* `at' gives recorded events times before `now', later ones within a thread
\* and for a release than for the allocation.
RecordedAt(at, now) ==
  /\ \A t \in Threads : \A n \in DOMAIN recorded[t] : at[t][n] < now
  /\ \A t \in Threads : \A m, n \in DOMAIN recorded[t] :
       m < n => at[t][m] < at[t][n]
  /\ \A tok \in Tokens : \A t \in Threads : \A n \in DOMAIN recorded[t] :
       Takes(recorded, t, n, tok) =>
         \E u \in Threads : \E m \in DOMAIN recorded[u] :
           Gives(recorded, u, m, tok) /\ at[u][m] < at[t][n]

CausesPrecede ==
  \E now \in Nat : \E at \in [Threads -> [Nat -> Nat]] : RecordedAt(at, now)

\* What has been made by an event that has come out is allocated, until an
\* event that has come out releases it.
MadeIsAllocated ==
  \A tok \in Tokens : \A t \in Threads : \A n \in DOMAIN emitted[t] :
    Gives(emitted, t, n, tok) =>
      \/ tok \in allocated
      \/ \E u \in Threads : \E m \in DOMAIN emitted[u] : Takes(emitted, u, m, tok)

\* Only a thread that waits is kept for another round.
OnlyWaitersAreKept ==
  /\ phase \in {"read", "drain", "done"} => next_to_die = <<>>
  /\ phase = "reap" => Range(next_to_die) \subseteq in_pending_frees
  /\ phase = "done" => Range(to_die) \subseteq in_pending_frees

CompleteInv ==
  /\ MergeInv
  /\ RecordedOnce /\ LiveWasMade /\ CausesPrecede
  /\ MadeIsAllocated
  /\ OnlyWaitersAreKept

(***************************************************************************)
(* Recording.                                                              *)
(***************************************************************************)

\* What was recorded before is there at the same place, and e at the end.
LEMMA RecordedGains ==
  ASSUME TypeOK, NEW t \in Threads, NEW e \in Events, ProgramRecord(t, e)
  PROVE  \E N \in Nat :
            /\ \A u \in Threads : DOMAIN recorded[u] \in SUBSET Nat
            /\ \A u \in Threads : u # t => recorded'[u] = recorded[u]
            /\ DOMAIN recorded'[t] = DOMAIN recorded[t] \cup {N}
            /\ \A n \in DOMAIN recorded[t] :
                 n < N /\ recorded'[t][n] = recorded[t][n]
            /\ recorded'[t][N] = e
            /\ e.new \in fresh \cup {NoTok} /\ e.old \in live \cup {NoTok}
            /\ live' = (live \ {e.old}) \cup ({e.new} \ {NoTok})
            /\ fresh' = fresh \ {e.new}
<1> DEFINE N == Len(recorded[t]) + 1
<1>1. recorded \in [Threads -> Seq(Events)]
  BY DEF TypeOK, ProgramTypeOK
<1>2. recorded' = [recorded EXCEPT ![t] = Append(@, e)]
  BY DEF ProgramRecord, Record
<1>3. recorded'[t] = Append(recorded[t], e)
      /\ \A u \in Threads : u # t => recorded'[u] = recorded[u]
  BY <1>1, <1>2
<1>4. \A u \in Threads : DOMAIN recorded[u] = 1 .. Len(recorded[u])
                         /\ Len(recorded[u]) \in Nat
  BY <1>1, LenProperties
<1>5. /\ DOMAIN recorded'[t] = 1 .. N
      /\ \A n \in 1 .. Len(recorded[t]) : recorded'[t][n] = recorded[t][n]
      /\ recorded'[t][N] = e
  <2>1. recorded[t] \in Seq(Events)
    BY <1>1
  <2>2. /\ Append(recorded[t], e) \in Seq(Events)
        /\ Len(Append(recorded[t], e)) = N
        /\ \A n \in 1 .. Len(recorded[t]) : Append(recorded[t], e)[n] = recorded[t][n]
        /\ Append(recorded[t], e)[N] = e
    BY <2>1, AppendProperties
  <2> QED BY <1>3, <2>2, LenProperties
<1>6. /\ N \in Nat /\ 1 .. N = (1 .. Len(recorded[t])) \cup {N}
      /\ \A n \in 1 .. Len(recorded[t]) : n < N
      /\ \A u \in Threads : 1 .. Len(recorded[u]) \in SUBSET Nat
  BY <1>4
<1> HIDE DEF N
<1>7. /\ e.new \in fresh \cup {NoTok} /\ e.old \in live \cup {NoTok}
      /\ live' = (live \ {e.old}) \cup ({e.new} \ {NoTok})
      /\ fresh' = fresh \ {e.new}
  BY DEF ProgramRecord, Record
<1> QED BY <1>3, <1>4, <1>5, <1>6, <1>7 DEF N

\* A recorded release has a live token, which is not live afterwards; the new
\* token has not been released.
LEMMA OnceRecord ==
  ASSUME TypeOK, LiveNotFresh, RecordedOnce, NEW t \in Threads, NEW e \in Events,
         ProgramRecord(t, e)
  PROVE  RecordedOnce'
<1>1. PICK N \in Nat :
      /\ \A u \in Threads : u # t => recorded'[u] = recorded[u]
      /\ DOMAIN recorded'[t] = DOMAIN recorded[t] \cup {N}
      /\ \A n \in DOMAIN recorded[t] : recorded'[t][n] = recorded[t][n]
      /\ recorded'[t][N] = e
      /\ e.new \in fresh \cup {NoTok} /\ e.old \in live \cup {NoTok}
      /\ live' = (live \ {e.old}) \cup ({e.new} \ {NoTok})
      /\ fresh' = fresh \ {e.new}
  BY RecordedGains
<1>2. ASSUME NEW tok \in Tokens, NEW u \in Threads, NEW n \in DOMAIN recorded'[u],
             Takes(recorded, u, n, tok)'
      PROVE  \/ n \in DOMAIN recorded[u] /\ Takes(recorded, u, n, tok)
             \/ u = t /\ n = N /\ e.old = tok
  BY <1>1, <1>2 DEF Takes
<1>3. ASSUME NEW tok \in Tokens, NEW u \in Threads, NEW n \in DOMAIN recorded[u],
             Takes(recorded, u, n, tok)
      PROVE  tok \notin live \cup fresh /\ tok # e.old /\ tok # e.new
  BY <1>1, <1>3, TokensAssumption DEF RecordedOnce
<1>4. ASSUME NEW tok \in Tokens, NEW u \in Threads, NEW n \in DOMAIN recorded'[u],
             Takes(recorded, u, n, tok)'
      PROVE  tok \notin live' \cup fresh'
  <2>1. CASE n \in DOMAIN recorded[u] /\ Takes(recorded, u, n, tok)
    BY <1>1, <1>3, <2>1
  <2>2. CASE e.old = tok
    BY <1>1, <2>2, TokensAssumption DEF LiveNotFresh
  <2> QED BY <1>2, <1>4, <2>1, <2>2
<1>5. ASSUME NEW tok \in Tokens,
             NEW u \in Threads, NEW n \in DOMAIN recorded'[u],
             Takes(recorded, u, n, tok)',
             NEW v \in Threads, NEW m \in DOMAIN recorded'[v],
             Takes(recorded, v, m, tok)'
      PROVE  v = u /\ m = n
  <2>1. CASE e.old = tok
    BY <1>2, <1>3, <1>5, <2>1
  <2>2. CASE e.old # tok
    BY <1>2, <1>5, <2>2 DEF RecordedOnce
  <2> QED BY <2>1, <2>2
<1> QED BY <1>4, <1>5 DEF RecordedOnce

\* What is live was so before, or is made by the recorded event.
LEMMA LiveRecord ==
  ASSUME TypeOK, LiveWasMade, NEW t \in Threads, NEW e \in Events,
         ProgramRecord(t, e)
  PROVE  LiveWasMade'
<1>1. PICK N \in Nat :
      /\ \A u \in Threads : u # t => recorded'[u] = recorded[u]
      /\ DOMAIN recorded'[t] = DOMAIN recorded[t] \cup {N}
      /\ \A n \in DOMAIN recorded[t] : recorded'[t][n] = recorded[t][n]
      /\ recorded'[t][N] = e
      /\ live' = (live \ {e.old}) \cup ({e.new} \ {NoTok})
  BY RecordedGains
<1> SUFFICES ASSUME NEW tok \in live'
             PROVE  \E u \in Threads : \E n \in DOMAIN recorded'[u] :
                      Gives(recorded, u, n, tok)'
  BY DEF LiveWasMade
<1>2. CASE tok = e.new
  BY <1>1, <1>2 DEF Gives
<1>3. CASE tok \in live
  <2>1. PICK u, n : u \in Threads /\ n \in DOMAIN recorded[u]
                 /\ Gives(recorded, u, n, tok)
    BY <1>3 DEF LiveWasMade
  <2>2. n \in DOMAIN recorded'[u] /\ recorded'[u][n] = recorded[u][n]
    BY <1>1, <2>1
  <2>3. Gives(recorded, u, n, tok)'
    BY <2>1, <2>2 DEF Gives
  <2> QED BY <2>1, <2>2, <2>3
<1> QED BY <1>1, <1>2, <1>3

\* The recorded event is the latest.
LEMMA CausesRecord ==
  ASSUME TypeOK, LiveWasMade, CausesPrecede, NEW t \in Threads, NEW e \in Events,
         ProgramRecord(t, e)
  PROVE  CausesPrecede'
<1>1. PICK N \in Nat :
      /\ \A u \in Threads : DOMAIN recorded[u] \in SUBSET Nat
      /\ \A u \in Threads : u # t => recorded'[u] = recorded[u]
      /\ DOMAIN recorded'[t] = DOMAIN recorded[t] \cup {N}
      /\ \A n \in DOMAIN recorded[t] : n < N /\ recorded'[t][n] = recorded[t][n]
      /\ recorded'[t][N] = e
      /\ e.old \in live \cup {NoTok}
  BY RecordedGains
<1>2. PICK now \in Nat, at \in [Threads -> [Nat -> Nat]] : RecordedAt(at, now)
  BY DEF CausesPrecede
<1> DEFINE next == [at EXCEPT ![t] = [@ EXCEPT ![N] = now]]
<1>3. next \in [Threads -> [Nat -> Nat]]
  BY <1>1
<1>4. /\ next[t][N] = now
      /\ \A u \in Threads : \A n \in DOMAIN recorded[u] :
           /\ next[u][n] = at[u][n] /\ at[u][n] < now /\ at[u][n] \in Nat
           /\ n \in DOMAIN recorded'[u] /\ recorded'[u][n] = recorded[u][n]
  <2>1. at[t] \in [Nat -> Nat] /\ next[t] = [at[t] EXCEPT ![N] = now]
    OBVIOUS
  <2>2. next[t][N] = now
    BY <1>1, <2>1
  <2>3. ASSUME NEW u \in Threads, NEW n \in DOMAIN recorded[u]
        PROVE  next[u][n] = at[u][n] /\ at[u][n] < now /\ at[u][n] \in Nat
    <3>1. n \in Nat /\ at[u] \in [Nat -> Nat]
      BY <1>1
    <3>2. at[u][n] < now /\ at[u][n] \in Nat
      BY <1>2, <3>1 DEF RecordedAt
    <3>3. CASE u = t
      <4>1. n < N
        BY <1>1, <3>3
      <4>2. n # N
        BY <1>1, <3>1, <4>1
      <4> QED BY <2>1, <3>1, <3>2, <3>3, <4>2
    <3>4. CASE u # t
      BY <3>2, <3>4
    <3> QED BY <3>3, <3>4
  <2> QED BY <1>1, <2>2, <2>3
<1> HIDE DEF next
<1>5. \A u \in Threads : \A n \in DOMAIN recorded'[u] :
        n \in DOMAIN recorded[u] \/ (u = t /\ n = N)
  BY <1>1
<1>6. \A u \in Threads : \A n \in DOMAIN recorded'[u] : next[u][n] < now + 1
  BY <1>4, <1>5
<1>7. ASSUME NEW u \in Threads, NEW m \in DOMAIN recorded'[u],
             NEW n \in DOMAIN recorded'[u], m < n
      PROVE  next[u][m] < next[u][n]
  <2>1. CASE m \in DOMAIN recorded[u] /\ n \in DOMAIN recorded[u]
    BY <1>2, <1>4, <1>7, <2>1 DEF RecordedAt
  <2>2. CASE m \in DOMAIN recorded[u] /\ u = t /\ n = N
    BY <1>4, <2>2
  <2>3. CASE u = t /\ m = N
    <3>1. ~(N < n)
      BY <1>1, <1>5, <2>3
    <3> QED BY <1>7, <2>3, <3>1
  <2> QED BY <1>5, <2>1, <2>2, <2>3
<1>8. ASSUME NEW tok \in Tokens, NEW u \in Threads, NEW n \in DOMAIN recorded'[u],
             Takes(recorded, u, n, tok)'
      PROVE  \E v \in Threads : \E m \in DOMAIN recorded'[v] :
               Gives(recorded, v, m, tok)' /\ next[v][m] < next[u][n]
  <2>1. PICK v, m : v \in Threads /\ m \in DOMAIN recorded[v]
                    /\ Gives(recorded, v, m, tok) /\ next[v][m] < next[u][n]
    <3>1. CASE n \in DOMAIN recorded[u]
      <4>1. Takes(recorded, u, n, tok)
        BY <1>4, <1>8, <3>1 DEF Takes
      <4>2. PICK v, m : v \in Threads /\ m \in DOMAIN recorded[v]
                        /\ Gives(recorded, v, m, tok) /\ at[v][m] < at[u][n]
        BY <1>2, <3>1, <4>1 DEF RecordedAt
      <4> QED BY <1>4, <3>1, <4>2
    <3>2. CASE u = t /\ n = N
      <4>1. tok \in live
        BY <1>1, <1>8, <3>2, TokensAssumption DEF Takes
      <4>2. PICK v, m : v \in Threads /\ m \in DOMAIN recorded[v]
                        /\ Gives(recorded, v, m, tok)
        BY <4>1 DEF LiveWasMade
      <4> QED BY <1>4, <3>2, <4>2
    <3> QED BY <1>5, <3>1, <3>2
  <2>2. m \in DOMAIN recorded'[v] /\ Gives(recorded, v, m, tok)'
    BY <1>4, <2>1 DEF Gives
  <2> QED BY <2>1, <2>2
<1>9. RecordedAt(next, now + 1)'
  BY <1>6, <1>7, <1>8 DEF RecordedAt
<1>10. now + 1 \in Nat
  OBVIOUS
<1> QED BY <1>3, <1>9, <1>10 DEF CausesPrecede, RecordedAt

(***************************************************************************)
(* Coming out.                                                             *)
(***************************************************************************)

\* The token of the event that comes out is allocated then; the one that it
\* releases is released by an event that has come out.
LEMMA MadeEmitted ==
  ASSUME TypeOK, MadeIsAllocated, NEW t \in Threads, NEW e \in Events,
         emitted' = [emitted EXCEPT ![t] = Append(@, e)],
         allocated' = (allocated \ {e.old}) \cup ({e.new} \ {NoTok})
  PROVE  MadeIsAllocated'
<1>1. emitted \in [Threads -> Seq(Events)]
  BY DEF TypeOK, ReceiverTypeOK
<1>2. PICK N :
      /\ \A u \in Threads : u # t => emitted'[u] = emitted[u]
      /\ DOMAIN emitted'[t] = DOMAIN emitted[t] \cup {N}
      /\ \A n \in DOMAIN emitted[t] : emitted'[t][n] = emitted[t][n]
      /\ emitted'[t][N] = e
  <2> DEFINE N == Len(emitted[t]) + 1
  <2>1. emitted[t] \in Seq(Events) /\ emitted'[t] = Append(emitted[t], e)
    BY <1>1
  <2>2. /\ Append(emitted[t], e) \in Seq(Events)
        /\ Len(Append(emitted[t], e)) = N
        /\ \A n \in 1 .. Len(emitted[t]) : Append(emitted[t], e)[n] = emitted[t][n]
        /\ Append(emitted[t], e)[N] = e
    BY <2>1, AppendProperties
  <2>3. /\ DOMAIN emitted[t] = 1 .. Len(emitted[t]) /\ Len(emitted[t]) \in Nat
        /\ DOMAIN Append(emitted[t], e) = 1 .. N
    BY <2>1, <2>2, LenProperties
  <2>4. 1 .. N = (1 .. Len(emitted[t])) \cup {N}
    BY <2>3
  <2> QED BY <1>1, <2>1, <2>2, <2>3, <2>4
<1>3. \A u \in Threads : \A n \in DOMAIN emitted[u] :
        n \in DOMAIN emitted'[u] /\ emitted'[u][n] = emitted[u][n]
  BY <1>2
<1> SUFFICES ASSUME NEW tok \in Tokens, NEW u \in Threads,
                    NEW n \in DOMAIN emitted'[u], Gives(emitted, u, n, tok)',
                    tok \notin allocated'
             PROVE  \E v \in Threads : \E m \in DOMAIN emitted'[v] :
                      Takes(emitted, v, m, tok)'
  BY DEF MadeIsAllocated
<1>4. tok # e.new
  BY TokensAssumption
<1>5. n \in DOMAIN emitted[u] /\ Gives(emitted, u, n, tok)
  BY <1>2, <1>4 DEF Gives
<1>6. CASE tok = e.old
  <2>1. Takes(emitted, t, N, tok)'
    BY <1>2, <1>6 DEF Takes
  <2> QED BY <1>2, <2>1
<1>7. CASE tok \notin allocated
  <2>1. PICK v, m : v \in Threads /\ m \in DOMAIN emitted[v] /\ Takes(emitted, v, m, tok)
    BY <1>5, <1>7 DEF MadeIsAllocated
  <2>2. m \in DOMAIN emitted'[v] /\ Takes(emitted, v, m, tok)'
    BY <1>3, <2>1 DEF Takes
  <2> QED BY <2>1, <2>2
<1> QED BY <1>6, <1>7

(***************************************************************************)
(* The invariance.                                                         *)
(***************************************************************************)

\* All of it but what MergeInv says.
TraceInv ==
  RecordedOnce /\ LiveWasMade /\ CausesPrecede /\ MadeIsAllocated

\* A step that records nothing and makes nothing come out.
LEMMA TraceQuiet ==
  ASSUME TraceInv, UNCHANGED <<recorded, live, fresh, emitted, allocated>>
  PROVE  TraceInv'
<1>1. RecordedOnce' /\ LiveWasMade'
  BY DEF TraceInv, RecordedOnce, LiveWasMade, Takes, Gives
<1>2. CausesPrecede'
  BY DEF TraceInv, CausesPrecede, RecordedAt, Takes, Gives
<1>3. MadeIsAllocated'
  BY DEF TraceInv, MadeIsAllocated, Takes, Gives
<1> QED BY <1>1, <1>2, <1>3 DEF TraceInv

\* Every step keeps what is said of recorded events and of those come out.
LEMMA TraceStep ==
  ASSUME MergeInv, TraceInv, [Next]_vars PROVE TraceInv'
<1>0. TypeOK /\ LiveNotFresh
  BY DEF MergeInv, IInv, ProgramInv
<1>1. ASSUME NEW t \in Threads, NEW e \in Events, ProgramRecord(t, e)
      PROVE  TraceInv'
  <2>1. RecordedOnce' /\ LiveWasMade' /\ CausesPrecede'
    BY <1>0, <1>1, OnceRecord, LiveRecord, CausesRecord DEF TraceInv
  <2>2. MadeIsAllocated'
    BY <1>1 DEF TraceInv, ProgramRecord, receiver_vars, MadeIsAllocated, Gives,
                Takes
  <2> QED BY <2>1, <2>2 DEF TraceInv
<1>2. ASSUME NEW t \in Threads, Process(t, allocated), Receive(ProcessCalls(t)),
             UNCHANGED program_vars
      PROVE  TraceInv'
  <2>1. RecordedOnce' /\ LiveWasMade' /\ CausesPrecede'
    <3>1. RecordedOnce' /\ LiveWasMade'
      BY <1>2 DEF TraceInv, program_vars, RecordedOnce, LiveWasMade, Gives, Takes
    <3>2. CausesPrecede'
      BY <1>2 DEF TraceInv, program_vars, CausesPrecede, RecordedAt, Gives, Takes
    <3> QED BY <3>1, <3>2
  <2>2. last_event[t] \in Events
    BY <1>2, TopHasEvent DEF MergeInv, Process
  <2>3. MadeIsAllocated'
    BY <1>0, <1>2, <2>2, ProcessReceived, MadeEmitted DEF TraceInv
  <2> QED BY <2>1, <2>3 DEF TraceInv
<1>3. ASSUME NEW t \in Threads,
             \/ \E s \in Stamps : ProgramRecordTok(t, s) \/ Buf(t, s)
             \/ Death(t)
             \/ Wait(t, allocated) /\ UNCHANGED <<program_vars, receiver_vars>>
      PROVE  UNCHANGED <<recorded, live, fresh, emitted, allocated>>
  BY <1>3 DEF ProgramRecordTok, RecordTok, Buf, Flush, Death, Exit, program_vars,
              receiver_vars
<1>4. ASSUME NEW t \in Threads, Bury(t)
      PROVE  UNCHANGED <<recorded, live, fresh, emitted, allocated>>
  BY <1>0, <1>4, BuryReceived DEF Bury, program_vars
<1>5. FinishReap => UNCHANGED <<recorded, live, fresh, emitted, allocated>>
  BY <1>0, BarrierReceived DEF FinishReap, program_vars, receiver_vars
<1>6. SyncBarrier \/ End \/ FinishDrain \/ UNCHANGED vars
        => UNCHANGED <<recorded, live, fresh, emitted, allocated>>
  BY DEF SyncBarrier, End, FinishDrain, vars, program_vars, receiver_vars
<1> QED BY <1>1, <1>2, <1>3, <1>4, <1>5, <1>6, TraceQuiet
        DEF Next, Program, Serialize, Drain, Finished

\* A thread is kept while reaping only if it waits, and what is kept is to be
\* reaped in the next round.
LEMMA KeptStep ==
  ASSUME TypeOK, OnlyWaitersAreKept, [Next]_vars PROVE OnlyWaitersAreKept'
<1>1. ASSUME NEW t \in Threads, Defer(t) PROVE OnlyWaitersAreKept'
  <2>1. /\ phase = "reap" /\ phase' \in {"reap", "aborted"}
        /\ t \in in_pending_frees /\ next_to_die' = Append(next_to_die, t)
        /\ in_pending_frees' = in_pending_frees
    BY <1>1 DEF Defer, Asserting
  <2>2. Range(next_to_die') = Range(next_to_die) \cup {t}
    BY <2>1, RangeOfAppend DEF TypeOK, SerializerTypeOK
  <2> QED BY <2>1, <2>2 DEF OnlyWaitersAreKept
<1>2. ASSUME NEW t \in Threads, Reap(t) PROVE OnlyWaitersAreKept'
  BY <1>2 DEF Reap, Asserting, OnlyWaitersAreKept
<1>3. CASE EndDrain
  BY <1>3, NothingRange DEF EndDrain, OnlyWaitersAreKept
<1>4. CASE EndReap
  BY <1>4 DEF EndReap, OnlyWaitersAreKept
<1>5. ASSUME phase \in {"read", "drain"}, phase' \in {"read", "drain", "aborted"},
             UNCHANGED next_to_die
      PROVE  OnlyWaitersAreKept'
  BY <1>5 DEF OnlyWaitersAreKept
<1>6. ASSUME NEW t \in Threads,
             \/ \E e \in Events : ProgramRecord(t, e)
             \/ \E s \in Stamps : ProgramRecordTok(t, s) \/ Buf(t, s)
             \/ Death(t) \/ Process(t, allocated) \/ Wait(t, allocated)
      PROVE  /\ phase \in {"read", "drain"}
             /\ phase' \in {"read", "drain", "aborted"}
             /\ UNCHANGED next_to_die
  BY <1>6 DEF ProgramRecord, ProgramRecordTok, Buf, ReadBuf, AppendBuf, StartBuf,
              Death, ReadDeath, Process, Wait, Asserting, serializer_vars
<1>7. SyncBarrier \/ End => /\ phase = "read" /\ phase' = "drain"
                            /\ UNCHANGED next_to_die
  BY DEF SyncBarrier, End, ReadBarrier
<1>8. UNCHANGED vars => OnlyWaitersAreKept'
  BY DEF vars, serializer_vars, OnlyWaitersAreKept
<1> QED BY <1>1, <1>2, <1>3, <1>4, <1>5, <1>6, <1>7, <1>8
        DEF Next, Program, Serialize, Drain, FinishDrain, Bury, FinishReap, Finished

\* Nothing has been recorded at the start.
LEMMA CompleteInit == Init => CompleteInv
<1> SUFFICES ASSUME Init PROVE CompleteInv
  OBVIOUS
<1>1. ASSUME NEW t \in Threads
      PROVE  recorded[t] = <<>> /\ emitted[t] = <<>>
             /\ DOMAIN recorded[t] = {} /\ DOMAIN emitted[t] = {}
  BY DEF Init, ProgramInit, ReceiverInit, NotCalled
<1>2. RecordedOnce /\ MadeIsAllocated
  BY <1>1 DEF RecordedOnce, MadeIsAllocated
<1>3. LiveWasMade
  BY DEF LiveWasMade, Init, ProgramInit
<1>4. CausesPrecede
  <2> DEFINE at == [t \in Threads |-> [n \in Nat |-> 0]]
  <2>1. at \in [Threads -> [Nat -> Nat]] /\ 0 \in Nat
    OBVIOUS
  <2> HIDE DEF at
  <2>2. RecordedAt(at, 0)
    BY <1>1 DEF RecordedAt
  <2> QED BY <2>1, <2>2 DEF CausesPrecede
<1>5. OnlyWaitersAreKept
  BY DEF OnlyWaitersAreKept, Init, SerializerInit
<1> QED BY <1>2, <1>3, <1>4, <1>5, MergeInvInit DEF CompleteInv

\* The invariant holds of every behaviour of the specification.
THEOREM CompleteInvariance == Spec => []CompleteInv
<1>1. Init => CompleteInv
  BY CompleteInit
<1>2. CompleteInv /\ [Next]_vars => CompleteInv'
  <2> SUFFICES ASSUME CompleteInv, [Next]_vars PROVE CompleteInv'
    OBVIOUS
  <2>1. MergeInv'
    BY MergeInvStep DEF CompleteInv
  <2>2. TraceInv'
    BY TraceStep DEF CompleteInv, TraceInv
  <2>3. OnlyWaitersAreKept'
    BY KeptStep DEF CompleteInv, MergeInv, IInv, ProgramInv
  <2> QED BY <2>1, <2>2, <2>3 DEF CompleteInv, TraceInv
<1> QED BY <1>1, <1>2, PTL DEF Spec

(***************************************************************************)
(* The end of a complete trace.                                            *)
(***************************************************************************)

\* A thread with events left at the end waits for the token that the first of
\* them releases.
LEMMA LeftWaits ==
  ASSUME MergeInv, phase = "done", AllWritten, NEW t \in Threads,
         Len(emitted[t]) # Len(recorded[t])
  PROVE  LET k == Len(emitted[t]) + 1
         IN /\ k \in DOMAIN recorded[t]
            /\ recorded[t][k].old \in Tokens \ allocated
            /\ todo[t] # <<>>
<1> DEFINE x == last_event[t]
           r == recorded[t]
           e == emitted[t]
           h == Held(t)
<1>0. TypeOK /\ HeldIsTheRest /\ NextIsDecoded /\ ThreadPlaces /\ NoLostWakeup
  BY DEF MergeInv, IInv, ProgramInv
<1>1. /\ r \in Seq(Events) /\ e \in Seq(Events) /\ h \in Seq(HeldItems)
      /\ Len(e) \in Nat /\ DOMAIN r = 1 .. Len(r)
  BY <1>0, ThreadParts, LenProperties
<1>2. /\ Len(e) <= Len(r) /\ \A n \in 1 .. Len(e) : e[n] = r[n]
      /\ Continues(h, r, Len(e))
  BY <1>0 DEF HeldIsTheRest
<1>3. /\ x \in HeldItems /\ h = <<x>> \o todo[t] \o <<>>
      /\ 1 \in DOMAIN h /\ h[1] = x
  BY <1>0, HeldType DEF Held, AllWritten, TypeOK, SerializerTypeOK, HeldItems, Items
<1>4. todo[t] # <<>>
  <2> SUFFICES ASSUME todo[t] = <<>> PROVE FALSE
    OBVIOUS
  <2>1. x \notin Events /\ h = <<x>> \o <<>> \o <<>>
    BY <1>0, <1>3 DEF NextIsDecoded
  <2> HIDE DEF x, r, e, h
  <2>2. e = r
    BY <1>1, <1>2, <1>3, <2>1, NothingHeld
  <2> QED BY <2>2 DEF e, r
<1>5. x \in Events
  BY <1>0, <1>4 DEF NextIsDecoded
<1>6. Len(e) + 1 \in 1 .. Len(r) /\ r[Len(e) + 1] = x
  <2> HIDE DEF x, r, e, h
  <2> QED BY <1>1, <1>2, <1>3, <1>5, NextRecorded
<1>7. x.old \in Tokens \ allocated
  <2>1. DOMAIN heap = {}
    BY DEF MergeInv, DrainedBeforeReap
  <2>2. PICK tok \in DOMAIN pending_frees : pending_frees[tok] = t
    BY <1>0, <1>4, <2>1 DEF ThreadPlaces
  <2>3. x.old = tok /\ tok \notin allocated
    BY <1>0, <2>2 DEF ThreadPlaces, NoLostWakeup
  <2> QED BY <1>0, <2>2, <2>3 DEF TypeOK, SerializerTypeOK
<1> QED BY <1>1, <1>4, <1>6, <1>7

\* No event is left: the earliest that is would wait for a token that has come
\* out, and that no other event has released.
LEMMA NothingLeft ==
  ASSUME CompleteInv, phase = "done", AllWritten
  PROVE  \A t \in Threads : Len(emitted[t]) = Len(recorded[t])
<1> SUFFICES ASSUME NEW t0 \in Threads, Len(emitted[t0]) # Len(recorded[t0])
             PROVE  FALSE
  OBVIOUS
<1>0. /\ MergeInv /\ TypeOK /\ HeldIsTheRest
      /\ RecordedOnce /\ CausesPrecede /\ MadeIsAllocated
  BY DEF CompleteInv, MergeInv, IInv, ProgramInv
<1>1. \A t \in Threads :
        /\ DOMAIN recorded[t] \in SUBSET Nat
        /\ \A n \in DOMAIN emitted[t] :
             n \in DOMAIN recorded[t] /\ emitted[t][n] = recorded[t][n]
        /\ Len(emitted[t]) + 1 \notin DOMAIN emitted[t]
        /\ \A n \in DOMAIN recorded[t] :
             \/ n \in DOMAIN emitted[t]
             \/ n = Len(emitted[t]) + 1
             \/ Len(emitted[t]) + 1 < n
  <2> SUFFICES ASSUME NEW t \in Threads
               PROVE  LET e == emitted[t]
                          r == recorded[t]
                      IN /\ DOMAIN r \in SUBSET Nat
                         /\ \A n \in DOMAIN e : n \in DOMAIN r /\ e[n] = r[n]
                         /\ Len(e) + 1 \notin DOMAIN e
                         /\ \A n \in DOMAIN r :
                              \/ n \in DOMAIN e
                              \/ n = Len(e) + 1
                              \/ Len(e) + 1 < n
    OBVIOUS
  <2> DEFINE e == emitted[t]
             r == recorded[t]
  <2>1. /\ Len(e) \in Nat /\ Len(r) \in Nat /\ Len(e) <= Len(r)
        /\ DOMAIN e = 1 .. Len(e) /\ DOMAIN r = 1 .. Len(r)
        /\ \A n \in 1 .. Len(e) : e[n] = r[n]
    BY <1>0, ThreadParts, LenProperties DEF HeldIsTheRest
  <2> HIDE DEF e, r
  <2>2. /\ \A n \in 1 .. Len(e) : n \in 1 .. Len(r)
        /\ Len(e) + 1 \notin 1 .. Len(e) /\ 1 .. Len(r) \in SUBSET Nat
        /\ \A n \in 1 .. Len(r) :
             \/ n \in 1 .. Len(e)
             \/ n = Len(e) + 1
             \/ Len(e) + 1 < n
    BY <2>1
  <2>3. /\ DOMAIN r \in SUBSET Nat
        /\ \A n \in DOMAIN e : n \in DOMAIN r /\ e[n] = r[n]
        /\ Len(e) + 1 \notin DOMAIN e
        /\ \A n \in DOMAIN r :
             \/ n \in DOMAIN e
             \/ n = Len(e) + 1
             \/ Len(e) + 1 < n
    BY <2>1, <2>2
  <2> QED BY <2>3 DEF e, r
<1>2. PICK now \in Nat, at \in [Threads -> [Nat -> Nat]] : RecordedAt(at, now)
  BY <1>0 DEF CausesPrecede
<1> DEFINE Left(t, n) == n \in DOMAIN recorded[t] /\ n \notin DOMAIN emitted[t]
           S == {c \in Nat :
                   \E t \in Threads : \E n \in Nat : Left(t, n) /\ c = at[t][n]}
<1>3. \A t \in Threads : \A n \in DOMAIN recorded[t] : n \in Nat /\ at[t][n] \in Nat
  <2> SUFFICES ASSUME NEW t \in Threads, NEW n \in DOMAIN recorded[t]
               PROVE  n \in Nat /\ at[t][n] \in Nat
    OBVIOUS
  <2>1. n \in Nat /\ at[t] \in [Nat -> Nat]
    BY <1>1
  <2> QED BY <2>1
<1>4. S # {}
  <2>1. Len(emitted[t0]) + 1 \in DOMAIN recorded[t0]
    BY <1>0, LeftWaits
  <2>2. Left(t0, Len(emitted[t0]) + 1)
    BY <1>1, <2>1
  <2> HIDE DEF Left
  <2> QED BY <1>3, <2>1, <2>2
<1>5. PICK c \in S : \A d \in S : c <= d
  <2> HIDE DEF S
  <2>1. S \subseteq Nat
    BY DEF S
  <2> QED BY <1>4, <2>1, LeastNumber
<1>6. PICK t \in Threads, n \in Nat : Left(t, n) /\ c = at[t][n]
  OBVIOUS
<1>7. \A u \in Threads : \A m \in DOMAIN recorded[u] :
        at[u][m] < at[t][n] => m \in DOMAIN emitted[u]
  <2> SUFFICES ASSUME NEW u \in Threads, NEW m \in DOMAIN recorded[u],
                      at[u][m] < at[t][n], ~(m \in DOMAIN emitted[u])
               PROVE  FALSE
    OBVIOUS
  <2>1. at[u][m] \in S
    BY <1>3
  <2>2. c <= at[u][m] /\ at[u][m] \in Nat /\ c \in Nat
    BY <1>3, <1>5, <2>1
  <2>3. at[u][m] < c
    BY <1>6
  <2> DEFINE a == at[u][m]
  <2>4. a \in Nat /\ c \in Nat /\ c <= a /\ a < c
    BY <2>2, <2>3
  <2> HIDE DEF a, S
  <2> QED BY <2>4
<1> HIDE DEF S
<1> DEFINE k == Len(emitted[t]) + 1
<1>8. k \in DOMAIN recorded[t] /\ recorded[t][k].old \in Tokens \ allocated
  <2>1. Len(emitted[t]) # Len(recorded[t])
    <3>1. ASSUME Len(emitted[t]) = Len(recorded[t]) PROVE FALSE
      <4>1. DOMAIN recorded[t] = DOMAIN emitted[t]
        BY <1>0, <3>1, ThreadParts, LenProperties
      <4> QED BY <1>6, <4>1
    <3> QED BY <3>1
  <2> QED BY <1>0, <2>1, LeftWaits
<1>9. n = k
  <2> SUFFICES ASSUME n # k PROVE FALSE
    OBVIOUS
  <2>1. k < n /\ k \notin DOMAIN emitted[t]
    BY <1>1, <1>6
  <2>2. at[t][k] < at[t][n]
    BY <1>2, <1>6, <1>8, <2>1 DEF RecordedAt
  <2> QED BY <1>7, <1>8, <2>1, <2>2
<1> DEFINE tok == recorded[t][k].old
<1>10. tok \in Tokens /\ tok \notin allocated /\ Takes(recorded, t, k, tok)
  BY <1>8 DEF Takes
<1> HIDE DEF k, tok
<1>11. PICK u \in Threads : \E m \in DOMAIN recorded[u] :
         Gives(recorded, u, m, tok) /\ at[u][m] < at[t][k]
  BY <1>2, <1>8, <1>10 DEF RecordedAt
<1>12. PICK m \in DOMAIN recorded[u] :
         Gives(recorded, u, m, tok) /\ at[u][m] < at[t][k]
  BY <1>11
<1>13. m \in DOMAIN emitted[u] /\ Gives(emitted, u, m, tok)
  <2>1. m \in DOMAIN emitted[u]
    BY <1>7, <1>9, <1>12
  <2> QED BY <1>1, <1>12, <2>1 DEF Gives
<1>14. PICK v \in Threads : \E i \in DOMAIN emitted[v] : Takes(emitted, v, i, tok)
  BY <1>0, <1>10, <1>13 DEF MadeIsAllocated
<1>15. PICK i \in DOMAIN emitted[v] : Takes(emitted, v, i, tok)
  BY <1>14
<1>16. i \in DOMAIN recorded[v] /\ Takes(recorded, v, i, tok)
  BY <1>1, <1>15 DEF Takes
<1>17. v = t /\ i = k
  BY <1>0, <1>8, <1>10, <1>16 DEF RecordedOnce
<1>18. k \notin DOMAIN emitted[t]
  BY <1>6, <1>9
<1> QED BY <1>15, <1>17, <1>18

\* When the serializer is done with a trace that lacks nothing, everything in
\* it has come out, no thread waits, and the threads that ended are killed and
\* forgotten, and no others (SerializeMallocEvents: no event is stuck in
\* pending_frees, no dead thread is carried from round to round forever).
THEOREM CompleteTracesDrain == Spec => []CompleteTraceDrained
<1>1. CompleteInv => CompleteTraceDrained
  <2> SUFFICES ASSUME CompleteInv, phase = "done", AllWritten
               PROVE  /\ emitted = recorded
                      /\ DOMAIN pending_frees = {}
                      /\ Range(killed) = exited
                      /\ threads = {t \in Threads : written[t] > 0} \ exited
    BY DEF CompleteTraceDrained
  <2>0. /\ MergeInv /\ TypeOK /\ HeldIsTheRest /\ ThreadPlaces /\ DeadThreads
        /\ NextIsDecoded /\ OnlyWaitersAreKept
    BY DEF CompleteInv, MergeInv, IInv, ProgramInv
  <2>1. \A t \in Threads : Len(emitted[t]) = Len(recorded[t])
    BY NothingLeft
  <2>2. emitted = recorded
    <3>1. ASSUME NEW t \in Threads PROVE emitted[t] = recorded[t]
      <4>1. \A n \in 1 .. Len(emitted[t]) : emitted[t][n] = recorded[t][n]
        BY <2>0 DEF HeldIsTheRest
      <4> QED BY <2>0, <2>1, <4>1, ThreadParts, SeqEqual
    <3> QED BY <2>0, <3>1 DEF TypeOK, ProgramTypeOK, ReceiverTypeOK
  <2>3. ASSUME NEW t \in Threads, todo[t] # <<>> PROVE FALSE
    <3>1. last_event[t] \in Events
      BY <2>0, <2>3 DEF NextIsDecoded
    <3> DEFINE h == Held(t)
               r == recorded[t]
               k == Len(emitted[t])
    <3>2. /\ h \in Seq(HeldItems) /\ r \in Seq(Events) /\ k \in Nat
          /\ 1 \in DOMAIN h /\ h[1] \in Events /\ Continues(h, r, k)
      BY <2>0, <3>1, ThreadParts, HeldType DEF HeldIsTheRest
    <3>3. k = Len(r) /\ Len(r) \in Nat
      BY <2>0, <2>1, ThreadParts
    <3> HIDE DEF h, r, k
    <3>4. k + 1 \in 1 .. Len(r)
      BY <3>2, NextRecorded
    <3> QED BY <3>3, <3>4
  <2>4. DOMAIN pending_frees = {} /\ in_pending_frees = {}
    BY <2>0, <2>3 DEF ThreadPlaces, TypeOK, SerializerTypeOK
  <2>5. dead = {}
    BY <2>0, <2>4, NothingRange DEF OnlyWaitersAreKept, DeadThreads
  <2> QED BY <2>0, <2>2, <2>4, <2>5 DEF DeadThreads
<1> QED BY <1>1, CompleteInvariance, PTL
=============================================================================
