-------------------------- MODULE InputStream_proof --------------------------
(***************************************************************************)
(* Proofs about InputStream, for every trace, every size of the window and *)
(* every place at which the input ends: the types, and that the Bufs of    *)
(* two rounds stay mapped, however little a read() returns; when each      *)
(* read() returns all it can, also that nothing is misread and no record   *)
(* is lost.                                                                *)
(***************************************************************************)
EXTENDS InputStream, FiniteSetTheorems, WellFoundedInduction, TLAPS

(***************************************************************************)
(* The inductive invariant.                                                *)
(***************************************************************************)

InputOK == input \in Inputs /\ size \in 0 .. Offset[Len(input) + 1]

Running == pc \in {"magic", "has_more", "varint", "payload", "barrier"}

\* The window ends where what has been read ends, unless unrealize_up_to has
\* just moved its end behind the position; the position and the noted ones
\* have been read, and while there are records to come no more has been read
\* than the stream would ask for at its position.
WindowInv ==
  /\ end <= last_end /\ ptr <= last_end
  /\ pc = "has_more" => end = last_end \/ end <= ptr
  /\ pc \notin {"has_more", "done"} => end = last_end
  /\ \A k \in 0 .. 1 : last_barriers[k] <= last_end
  /\ Running => last_end <= PageUp(ptr + RealizeSize)

\* The position is that of the part of the record that comes next.
AtPart ==
  /\ pc = "magic" => returned = 0 /\ ptr = 0
  /\ pc \in {"has_more", "barrier"} => ptr = Offset[returned + 1]
  /\ pc = "varint" =>
       /\ returned < Len(input) /\ word <= Len(Record.words)
       /\ ptr = Offset[returned + 1] + Ends(0, Record.words)[word - 1]
  /\ pc = "payload" =>
       /\ returned < Len(input) /\ Record.type = "Buf"
       /\ ptr + Record.payload = Offset[returned + 2]

\* What has been returned was all there, and had no End but the last.
ReturnedInv ==
  /\ returned # 0 => Offset[returned + 1] <= size
  /\ \A i \in 1 .. returned : input[i].type = "End" => i = returned /\ pc = "done"
  /\ pc = "barrier" => returned # 0 /\ input[returned].type = "SyncBarrier"

\* The barriers that SerializeMallocEvents has noted.
Noted == Round(returned + 1) - IF pc = "barrier" THEN 1 ELSE 0

\* Records after the last barrier, the one before it, and the one before that
\* are after the places noted of the first two and what has been dropped.
BarrierInv ==
  /\ Running => /\ last_start <= Offset[returned + 1]
                /\ \A k \in 0 .. 1 : last_barriers[k] <= Offset[returned + 1]
  /\ \A i \in 1 .. returned :
       IF pc = "done" THEN Round(i) >= Noted - 1 => last_start <= Offset[i]
       ELSE /\ Round(i) >= Noted => last_barriers[last_barriers_index] <= Offset[i]
            /\ Round(i) >= Noted - 1 =>
                 last_barriers[1 - last_barriers_index] <= Offset[i]
            /\ Round(i) >= Noted - 2 => last_start <= Offset[i]

\* Every read() returns all it can, as that of a file does.
FromFile == size <= MinRead

\* Then, when the input is given up there is nothing left to read.
NextIsCutOff == returned = Len(input) \/ size < Offset[returned + 2]

GivesUpLast ==
  /\ pc \in {"ended", "panicked"} => last_end = size /\ NextIsCutOff
  /\ PanicsOnCutDeath
  /\ pc = "done" => NextIsCutOff \/ (returned # 0 /\ input[returned].type = "End")
  /\ pc # "garbled"

StreamInv ==
  /\ TypeOK /\ InputOK /\ WindowInv /\ AtPart /\ ReturnedInv /\ BarrierInv
  /\ pc # "aborted"
  /\ FromFile => GivesUpLast

(***************************************************************************)
(* Numbers.                                                                *)
(***************************************************************************)

\* Numbers of which there are any have a least one.
LEMMA LeastMember ==
  ASSUME NEW S \in SUBSET Nat, S # {}
  PROVE  \E m \in S : \A n \in S : m <= n
<1>1. PICK m \in S : \A n \in S : <<n, m>> \notin OpToRel(<, Nat)
  BY NatLessThanWellFounded, WFMin
<1>2. \A n \in S : ~(n < m)
  BY <1>1 DEF OpToRel
<1> QED BY <1>2

\* Min and Max of two, as the code has them.
LEMMA MinOfTwo ==
  ASSUME NEW a \in Int, NEW b \in Int
  PROVE  Min({a, b}) = IF a <= b THEN a ELSE b
<1> DEFINE m == IF a <= b THEN a ELSE b
<1>1. m \in {a, b} /\ \A x \in {a, b} : m <= x
  OBVIOUS
<1>2. Min({a, b}) \in {a, b} /\ \A x \in {a, b} : Min({a, b}) <= x
  BY <1>1, Zenon DEF Min
<1> QED BY <1>2

LEMMA MaxOfTwo ==
  ASSUME NEW a \in Int, NEW b \in Int
  PROVE  Max({a, b}) = IF a >= b THEN a ELSE b
<1> DEFINE m == IF a >= b THEN a ELSE b
<1>1. m \in {a, b} /\ \A x \in {a, b} : m >= x
  OBVIOUS
<1>2. Max({a, b}) \in {a, b} /\ \A x \in {a, b} : Max({a, b}) >= x
  BY <1>1, Zenon DEF Max
<1> QED BY <1>2

\* Pages.
LEMMA PageParts ==
  ASSUME NEW x \in Nat
  PROVE  \E q \in Nat, r \in 0 .. Page - 1 :
           x = q * Page + r /\ PageDown(x) = q * Page
<1>1. /\ x \div Page \in Nat /\ x % Page \in 0 .. Page - 1
      /\ x = (x \div Page) * Page + (x % Page)
  BY PageAssumption
<1>2. PageDown(x) = (x \div Page) * Page
  BY <1>1, PageAssumption DEF PageDown
<1> QED BY <1>1, <1>2

\* Whole pages are ordered as their numbers.
LEMMA PagesOrdered ==
  ASSUME NEW p \in Nat, NEW q \in Nat, p < q
  PROVE  p * Page + Page <= q * Page
<1>1. PICK d \in Nat : q = p + 1 + d
  <2>1. q - p - 1 \in Nat /\ q = p + 1 + (q - p - 1)
    OBVIOUS
  <2> QED BY <2>1
<1>2. q * Page = p * Page + Page + d * Page /\ d * Page \in Nat /\ p * Page \in Nat
  BY <1>1, PageAssumption
<1> QED BY <1>2, PageAssumption

LEMMA PageDownIs ==
  ASSUME NEW x \in Nat
  PROVE  /\ PageDown(x) \in Nat /\ PageDown(x) % Page = 0
         /\ PageDown(x) <= x /\ x < PageDown(x) + Page
<1>1. PICK q \in Nat, r \in 0 .. Page - 1 : x = q * Page + r /\ PageDown(x) = q * Page
  BY PageParts
<1>2. q * Page \in Nat
  BY PageAssumption
<1>3. (q * Page) % Page = 0
  BY PageAssumption
<1> QED BY <1>1, <1>2, <1>3, PageAssumption

LEMMA PageUpIs ==
  ASSUME NEW x \in Nat
  PROVE  PageUp(x) \in Nat /\ x <= PageUp(x)
<1>1. x + (Page - 1) \in Nat
  BY PageAssumption
<1> QED BY <1>1, PageDownIs, PageAssumption DEF PageUp

\* What is below the end of a page has its page end there, or before.
LEMMA PageUpBelow ==
  ASSUME NEW x \in Nat, NEW y \in Nat, y <= PageUp(x)
  PROVE  PageUp(y) <= PageUp(x)
<1>1. x + (Page - 1) \in Nat /\ y + (Page - 1) \in Nat /\ Page \in Nat \ {0}
  BY PageAssumption
<1>2. PICK p \in Nat, r \in 0 .. Page - 1 :
        x + (Page - 1) = p * Page + r /\ PageUp(x) = p * Page
  BY <1>1, PageParts DEF PageUp
<1>3. PICK q \in Nat, s \in 0 .. Page - 1 :
        y + (Page - 1) = q * Page + s /\ PageUp(y) = q * Page
  BY <1>1, PageParts DEF PageUp
<1>4. p * Page \in Nat /\ q * Page \in Nat
  BY <1>1
<1>5. ~(p < q)
  <2>1. SUFFICES ASSUME p < q PROVE FALSE
    OBVIOUS
  <2>2. p * Page + Page <= q * Page
    BY <2>1, PagesOrdered
  <2> QED BY <1>1, <1>2, <1>3, <1>4, <2>2
<1>6. CASE q = p
  BY <1>2, <1>3, <1>4, <1>6
<1>7. CASE q < p
  <2>1. q * Page + Page <= p * Page
    BY <1>7, PagesOrdered
  <2> QED BY <1>1, <1>2, <1>3, <1>4, <2>1
<1> QED BY <1>5, <1>6, <1>7

LEMMA PageUpOrdered ==
  ASSUME NEW x \in Nat, NEW y \in Nat, y <= x
  PROVE  PageUp(y) <= PageUp(x)
<1>1. y <= PageUp(x)
  BY PageUpIs
<1> QED BY <1>1, PageUpBelow

(***************************************************************************)
(* Places.  Ends is a recursive function, which has to be shown to exist   *)
(* before anything else can be known of it.                                *)
(***************************************************************************)

EndsUpTo(e, place, lengths, n) ==
  /\ e \in [0 .. n -> Nat]
  /\ e[0] = place
  /\ \A i \in 1 .. n : e[i] = e[i - 1] + lengths[i]

LEMMA EndsExist ==
  ASSUME NEW place \in Nat, NEW n \in Nat, NEW lengths,
         \A i \in 1 .. n : lengths[i] \in Nat
  PROVE  \E e : EndsUpTo(e, place, lengths, n)
<1> DEFINE Bad == {k \in 0 .. n : ~\E e : EndsUpTo(e, place, lengths, k)}
<1>1. SUFFICES ASSUME n \in Bad PROVE FALSE
  OBVIOUS
<1>2. PICK k \in Bad : \A j \in Bad : k <= j
  <2>1. Bad \in SUBSET Nat /\ Bad # {}
    BY <1>1
  <2> HIDE DEF Bad
  <2> QED BY <2>1, LeastMember
<1>3. k \in 0 .. n /\ ~\E e : EndsUpTo(e, place, lengths, k)
  BY <1>2
<1>4. k # 0
  <2>1. SUFFICES ASSUME k = 0 PROVE FALSE
    OBVIOUS
  <2> DEFINE e == [i \in 0 .. 0 |-> place]
  <2>2. EndsUpTo(e, place, lengths, 0)
    BY DEF EndsUpTo
  <2> QED BY <1>3, <2>1, <2>2
<1>5. k - 1 \in 0 .. n /\ k \in 1 .. n /\ ~(k <= k - 1)
  BY <1>3, <1>4
<1>6. PICK d : EndsUpTo(d, place, lengths, k - 1)
  <2>1. k - 1 \notin Bad
    BY <1>2, <1>5
  <2> QED BY <1>5, <2>1
<1> DEFINE e == [i \in 0 .. k |-> IF i = k THEN d[k - 1] + lengths[k] ELSE d[i]]
<1>7. d \in [0 .. k - 1 -> Nat] /\ lengths[k] \in Nat
  BY <1>5, <1>6 DEF EndsUpTo
<1>8. /\ \A i \in 0 .. k - 1 : e[i] = d[i]
      /\ e[k] = d[k - 1] + lengths[k]
  BY <1>3
<1>9. e \in [0 .. k -> Nat]
  <2>1. d[k - 1] \in Nat
    BY <1>5, <1>7
  <2>2. \A i \in 0 .. k : i # k => i \in 0 .. k - 1
    BY <1>3
  <2> QED BY <1>7, <2>1, <2>2
<1> HIDE DEF e
<1>10. ASSUME NEW i \in 1 .. k PROVE e[i] = e[i - 1] + lengths[i]
  <2>1. CASE i = k
    <3>1. k - 1 \in 0 .. k - 1
      BY <1>5
    <3> QED BY <1>8, <2>1, <3>1
  <2>2. CASE i # k
    <3>1. i \in 1 .. k - 1 /\ i \in 0 .. k - 1 /\ i - 1 \in 0 .. k - 1
      BY <1>3, <2>2
    <3> QED BY <1>6, <1>8, <3>1 DEF EndsUpTo
  <2> QED BY <2>1, <2>2
<1>11. e[0] = place
  <2>1. 0 \in 0 .. k - 1
    BY <1>5
  <2> QED BY <1>6, <1>8, <2>1 DEF EndsUpTo
<1>12. EndsUpTo(e, place, lengths, k)
  BY <1>9, <1>10, <1>11 DEF EndsUpTo
<1> QED BY <1>3, <1>12

\* What its definition says of Ends.
LEMMA EndsIs ==
  ASSUME NEW place \in Nat, NEW lengths, Len(lengths) \in Nat,
         \A i \in 1 .. Len(lengths) : lengths[i] \in Nat
  PROVE  EndsUpTo(Ends(place, lengths), place, lengths, Len(lengths))
<1> DEFINE n == Len(lengths)
           Equal(e) == e = [i \in 0 .. n |->
                              IF i = 0 THEN place ELSE e[i - 1] + lengths[i]]
           f == Ends(place, lengths)
<1>1. PICK e : EndsUpTo(e, place, lengths, n)
  BY EndsExist
<1>2. Equal(e)
  <2>1. e = [i \in 0 .. n |-> e[i]]
    BY <1>1 DEF EndsUpTo
  <2>2. \A i \in 0 .. n : i # 0 => i \in 1 .. n
    OBVIOUS
  <2> HIDE DEF n
  <2>3. \A i \in 0 .. n : e[i] = IF i = 0 THEN place ELSE e[i - 1] + lengths[i]
    BY <1>1, <2>2 DEF EndsUpTo
  <2> QED BY <2>1, <2>3
<1>3. Equal(f)
  <2>1. f = CHOOSE g : Equal(g)
    BY DEF Ends
  <2> HIDE DEF f, Equal
  <2> QED BY <1>2, <2>1
<1> HIDE DEF f
<1>4. /\ f = [i \in 0 .. n |-> f[i]]
      /\ f[0] = place
      /\ \A i \in 1 .. n : f[i] = f[i - 1] + lengths[i]
  <2>1. \A i \in 1 .. n : i \in 0 .. n /\ i # 0
    OBVIOUS
  <2>2. 0 \in 0 .. n
    OBVIOUS
  <2> HIDE DEF n
  <2>3. \A i \in 0 .. n : f[i] = IF i = 0 THEN place ELSE f[i - 1] + lengths[i]
    BY <1>3
  <2>4. f = [i \in 0 .. n |-> f[i]]
    BY <1>3
  <2> QED BY <2>1, <2>2, <2>3, <2>4
<1> DEFINE Bad == {i \in 0 .. n : f[i] \notin Nat}
<1>5. Bad = {}
  <2>1. SUFFICES ASSUME Bad # {} PROVE FALSE
    OBVIOUS
  <2>2. PICK k \in Bad : \A j \in Bad : k <= j
    <3>1. Bad \in SUBSET Nat
      OBVIOUS
    <3> HIDE DEF Bad
    <3> QED BY <2>1, <3>1, LeastMember
  <2>3. k \in 1 .. n /\ k - 1 \in 0 .. n /\ ~(k <= k - 1)
    BY <1>4, <2>2
  <2>4. f[k - 1] \in Nat
    BY <2>2, <2>3
  <2>5. f[k] = f[k - 1] + lengths[k] /\ lengths[k] \in Nat
    BY <1>4, <2>3
  <2> QED BY <2>2, <2>4, <2>5
<1>6. f \in [0 .. n -> Nat]
  BY <1>4, <1>5
<1> QED BY <1>4, <1>6 DEF EndsUpTo, f

\* What lies behind has a later place.
LEMMA EndsOrdered ==
  ASSUME NEW n \in Nat, NEW e, NEW place \in Nat, NEW lengths,
         EndsUpTo(e, place, lengths, n),
         \A i \in 1 .. n : lengths[i] \in Nat,
         NEW i \in 0 .. n, NEW j \in 0 .. n, i <= j
  PROVE  e[i] <= e[j]
<1> DEFINE Bad == {k \in i .. n : e[k] < e[i]}
<1>1. e \in [0 .. n -> Nat] /\ \A k \in 1 .. n : e[k] = e[k - 1] + lengths[k]
  BY DEF EndsUpTo
<1>2. Bad = {}
  <2>1. SUFFICES ASSUME Bad # {} PROVE FALSE
    OBVIOUS
  <2>2. PICK k \in Bad : \A m \in Bad : k <= m
    <3>1. Bad \in SUBSET Nat
      OBVIOUS
    <3> HIDE DEF Bad
    <3> QED BY <2>1, <3>1, LeastMember
  <2>3. k # i
    BY <1>1, <2>2
  <2>4. k - 1 \in i .. n /\ k \in 1 .. n /\ k - 1 \in 0 .. n /\ ~(k <= k - 1)
    BY <2>2, <2>3
  <2>5. ~(e[k - 1] < e[i])
    BY <2>2, <2>4
  <2>6. e[k] = e[k - 1] + lengths[k] /\ lengths[k] \in Nat
        /\ e[k - 1] \in Nat /\ e[i] \in Nat
    BY <1>1, <2>4
  <2> QED BY <2>2, <2>5, <2>6
<1>3. j \in i .. n /\ e[i] \in Nat /\ e[j] \in Nat
  BY <1>1
<1> QED BY <1>2, <1>3

\* The parts of a record.
LEMMA RecordParts ==
  ASSUME InputOK, NEW i \in 1 .. Len(input)
  PROVE  LET record == input[i]
             n == Len(record.words)
             ends == Ends(0, record.words)
         IN /\ record.type \in {"SyncBarrier", "Death", "Buf", "End"}
            /\ n \in 1 .. 3 /\ n = WordCounts[record.type]
            /\ \A w \in 1 .. n : record.words[w] \in 1 .. MaxSize
            /\ record.payload \in Nat
            /\ record.type # "Buf" => record.payload = 0
            /\ EndsUpTo(ends, 0, record.words, n)
            /\ RecordLength(record) = ends[n] + record.payload
            /\ RecordLength(record) \in Nat \ {0}
<1> DEFINE record == input[i]
           n == Len(record.words)
           ends == Ends(0, record.words)
<1>1. /\ record \in Records
      /\ n = WordCounts[record.type]
      /\ record.type # "Buf" => record.payload = 0
  BY InputsAssumption DEF InputOK
<1>2. /\ record.type \in {"SyncBarrier", "Death", "Buf", "End"}
      /\ record.words \in Seq(1 .. MaxSize)
      /\ record.payload \in Nat
  BY <1>1 DEF Records, WordCounts
<1>3. n \in 1 .. 3
  BY <1>1, <1>2 DEF WordCounts
<1>4. \A w \in 1 .. n : record.words[w] \in 1 .. MaxSize
  <2> DEFINE S == 1 .. MaxSize
             words == record.words
  <2>1. words \in Seq(S)
    BY <1>2
  <2> HIDE DEF S, words
  <2>2. \A w \in 1 .. Len(words) : words[w] \in S
    BY <2>1
  <2> QED BY <2>2 DEF S, words
<1>5. \A w \in 1 .. n : record.words[w] \in Nat /\ record.words[w] >= 1
  BY <1>4, MaxSizeAssumption
<1>6. EndsUpTo(ends, 0, record.words, n)
  <2>1. n \in Nat
    BY <1>3
  <2> QED BY <1>5, <2>1, EndsIs
<1>7. RecordLength(record) = ends[n] + record.payload
  BY DEF RecordLength
<1>8. ends[n] \in Nat \ {0}
  <2> HIDE DEF n, ends, record
  <2>1. n \in 1 .. n /\ n - 1 \in 0 .. n
    BY <1>3
  <2>2. ends[n] = ends[n - 1] + record.words[n] /\ ends[n - 1] \in Nat
    BY <1>6, <2>1 DEF EndsUpTo
  <2> QED BY <1>5, <2>1, <2>2
<1> QED BY <1>1, <1>2, <1>3, <1>4, <1>6, <1>7, <1>8

\* Where the records start.
LEMMA Offsets ==
  ASSUME InputOK
  PROVE  /\ Len(input) \in Nat
         /\ Offset[1] = MagicSize
         /\ \A i \in 1 .. Len(input) + 1 : Offset[i] \in Nat
         /\ \A i \in 1 .. Len(input) :
              Offset[i + 1] = Offset[i] + RecordLength(input[i])
         /\ \A i, j \in 1 .. Len(input) + 1 : i <= j => Offset[i] <= Offset[j]
<1> DEFINE n == Len(input)
           lengths == [i \in 1 .. n |-> RecordLength(input[i])]
           ends == Ends(MagicSize, lengths)
<1>1. n \in Nat
  BY InputsAssumption DEF InputOK
<1>2. Len(lengths) = n /\ \A i \in 1 .. n : lengths[i] = RecordLength(input[i])
  <2> HIDE DEF n
  <2> QED BY <1>1
<1>3. \A i \in 1 .. n : lengths[i] \in Nat
  BY <1>2, RecordParts
<1>4. EndsUpTo(ends, MagicSize, lengths, n)
  <2> HIDE DEF lengths, n
  <2> QED BY <1>1, <1>2, <1>3, EndsIs, MagicSizeAssumption
<1>5. Offset = [i \in 1 .. n + 1 |-> ends[i - 1]]
  BY DEF Offset
<1> HIDE DEF lengths, n, ends
<1>6. \A i \in 1 .. n + 1 : i - 1 \in 0 .. n /\ Offset[i] = ends[i - 1]
  BY <1>1, <1>5
<1>7. ASSUME NEW i \in 1 .. n PROVE Offset[i + 1] = Offset[i] + RecordLength(input[i])
  <2>1. i \in 1 .. n + 1 /\ i + 1 \in 1 .. n + 1 /\ (i + 1) - 1 = i
    BY <1>1
  <2>2. Offset[i] = ends[i - 1] /\ Offset[i + 1] = ends[i]
    BY <1>6, <2>1
  <2> QED BY <1>2, <1>4, <2>2 DEF EndsUpTo
<1>8. ASSUME NEW i \in 1 .. n + 1, NEW j \in 1 .. n + 1, i <= j
      PROVE  Offset[i] <= Offset[j]
  <2>1. i - 1 \in 0 .. n /\ j - 1 \in 0 .. n /\ i - 1 <= j - 1
    BY <1>1, <1>8
  <2>2. ends[i - 1] <= ends[j - 1]
    BY <1>1, <1>3, <1>4, <2>1, EndsOrdered, MagicSizeAssumption
  <2> QED BY <1>6, <2>2
<1>9. Offset[1] = MagicSize
  <2>1. 1 \in 1 .. n + 1
    BY <1>1
  <2> QED BY <1>4, <1>6, <2>1 DEF EndsUpTo
<1>10. \A i \in 1 .. n + 1 : Offset[i] \in Nat
  BY <1>4, <1>6 DEF EndsUpTo
<1> QED BY <1>1, <1>7, <1>8, <1>9, <1>10 DEF n

(***************************************************************************)
(* What one read() gets.                                                   *)
(***************************************************************************)
LEMMA ReadIs ==
  ASSUME NEW place \in Nat, NEW l \in Nat, size \in Nat, l <= size,
         NEW last \in ReadTo(place, l)
  PROVE  /\ last \in Nat /\ l <= last /\ last <= size
         /\ last <= PageUp(place) \/ last = l
         /\ FromFile => last = size \/ PageUp(place) <= last
<1>1. PageUp(place) \in Nat
  BY PageUpIs
<1>2. CASE PageUp(place) > l
  <2> DEFINE room == PageUp(place) - l
             most == Min({room, size - l})
             least == Min({MinRead, most})
  <2>1. /\ room \in Nat \ {0} /\ size - l \in Nat
        /\ most = IF room <= size - l THEN room ELSE size - l
    BY <1>1, <1>2, MinOfTwo
  <2>2. most \in Nat /\ least = IF MinRead <= most THEN MinRead ELSE most
    BY <2>1, MinOfTwo, MinReadAssumption
  <2>3. PICK n \in least .. most : last = l + n
    BY <1>2 DEF ReadTo, Read
  <2> HIDE DEF room, most, least
  <2>4. n \in Nat /\ n <= room /\ n <= size - l
    BY <2>1, <2>2, <2>3, MinReadAssumption
  <2>5. last \in Nat /\ l <= last /\ last <= size /\ last <= l + room
    BY <2>1, <2>3, <2>4
  <2>6. ASSUME FromFile PROVE n = most
    <3>1. most <= MinRead
      BY <2>1, <2>2, <2>6, MinReadAssumption DEF FromFile
    <3> QED BY <2>2, <2>3, <3>1, MinReadAssumption
  <2> QED BY <1>1, <2>1, <2>3, <2>5, <2>6 DEF room
<1>3. CASE ~(PageUp(place) > l)
  <2>1. last = l
    BY <1>3 DEF ReadTo
  <2> QED BY <1>1, <1>3, <2>1
<1> QED BY <1>2, <1>3

\* What a realize_more gets, when what has been read is not far ahead of the
\* position: all it asked for, if each read() returns all it can and the input
\* has as much.  It never asks for less than is mapped.
LEMMA RealizeIs ==
  ASSUME ptr \in Nat, size \in Nat, NEW l \in Nat,
         l <= size, l <= PageUp(ptr + RealizeSize),
         NEW m \in Nat, NEW last \in RealizeMore(m, l)
  PROVE  /\ ~MapFails(Wanted(m), l)
         /\ last \in Nat /\ l <= last /\ last <= size
         /\ last <= PageUp(ptr + m) \/ last <= PageUp(ptr + RealizeSize)
         /\ FromFile => last = size \/ (ptr + m <= last /\ ptr + RealizeSize <= last)
<1> DEFINE ahead == IF m >= RealizeSize THEN m ELSE RealizeSize
<1>1. /\ Wanted(m) = ptr + ahead /\ ptr + ahead \in Nat
      /\ ptr + m <= ptr + ahead /\ ptr + RealizeSize <= ptr + ahead
      /\ ahead = m \/ ahead = RealizeSize
      /\ ptr + RealizeSize \in Nat
  BY MaxOfTwo, RealizeSizeAssumption DEF Wanted
<1> HIDE DEF ahead
<1>2. last \in ReadTo(ptr + ahead, l)
  BY <1>1 DEF RealizeMore
<1>3. /\ last \in Nat /\ l <= last /\ last <= size
      /\ last <= PageUp(ptr + ahead) \/ last = l
      /\ FromFile => last = size \/ PageUp(ptr + ahead) <= last
  BY <1>1, <1>2, ReadIs
<1>4. /\ PageUp(l) \in Nat /\ PageUp(ptr + RealizeSize) \in Nat
      /\ PageUp(ptr + ahead) \in Nat /\ ptr + ahead <= PageUp(ptr + ahead)
      /\ PageUp(l) <= PageUp(ptr + RealizeSize)
      /\ PageUp(ptr + RealizeSize) <= PageUp(ptr + ahead)
  BY <1>1, PageUpIs, PageUpBelow, PageUpOrdered
<1>5. ~MapFails(Wanted(m), l)
  BY <1>1, <1>4 DEF MapFails
<1>6. last <= PageUp(ptr + m) \/ last <= PageUp(ptr + RealizeSize)
  BY <1>1, <1>3, <1>4
<1>7. FromFile => last = size \/ (ptr + m <= last /\ ptr + RealizeSize <= last)
  BY <1>1, <1>3, <1>4
<1> QED BY <1>3, <1>5, <1>6, <1>7

(***************************************************************************)
(* Rounds.                                                                 *)
(***************************************************************************)
IsBarrier(i) == input[i].type = "SyncBarrier"

LEMMA RoundAfter ==
  ASSUME NEW i \in Nat \ {0}
  PROVE  /\ Round(i) \in Nat
         /\ Round(i + 1) = IF IsBarrier(i) THEN Round(i) + 1 ELSE Round(i)
<1> DEFINE Before == {j \in 1 .. i - 1 : input[j].type = "SyncBarrier"}
           UpTo == {j \in 1 .. (i + 1) - 1 : input[j].type = "SyncBarrier"}
<1>1. IsFiniteSet(Before)
  <2>1. IsFiniteSet(1 .. i - 1)
    BY FS_Interval
  <2> QED BY <2>1, FS_Subset
<1>2. Round(i) = Cardinality(Before) /\ Round(i + 1) = Cardinality(UpTo)
  BY DEF Round
<1>3. Cardinality(Before) \in Nat
  BY <1>1, FS_CardinalityType
<1>4. CASE IsBarrier(i)
  <2>1. UpTo = Before \cup {i} /\ i \notin Before
    BY <1>4 DEF IsBarrier
  <2> HIDE DEF Before, UpTo
  <2>2. Cardinality(Before \cup {i}) = Cardinality(Before) + 1
    BY <1>1, <2>1, FS_AddElement
  <2> QED BY <1>2, <1>3, <1>4, <2>1, <2>2
<1>5. CASE ~IsBarrier(i)
  <2>1. UpTo = Before
    BY <1>5 DEF IsBarrier
  <2> QED BY <1>2, <1>3, <1>5, <2>1
<1> QED BY <1>4, <1>5

LEMMA RoundsOrdered ==
  ASSUME NEW i \in Nat, NEW j \in Nat, i <= j
  PROVE  Round(i) \in Nat /\ Round(j) \in Nat /\ Round(i) <= Round(j)
<1> DEFINE A == {k \in 1 .. i - 1 : input[k].type = "SyncBarrier"}
           C == {k \in 1 .. j - 1 : input[k].type = "SyncBarrier"}
<1>1. IsFiniteSet(C)
  <2>1. IsFiniteSet(1 .. j - 1)
    BY FS_Interval
  <2> QED BY <2>1, FS_Subset
<1>2. A \subseteq C
  OBVIOUS
<1>3. Round(i) = Cardinality(A) /\ Round(j) = Cardinality(C)
  BY DEF Round
<1> HIDE DEF A, C
<1> QED BY <1>1, <1>2, <1>3, FS_Subset, FS_CardinalityType

(***************************************************************************)
(* Parts of steps.                                                         *)
(***************************************************************************)

\* What the invariant says, in numbers.
LEMMA Numbers ==
  ASSUME TypeOK, InputOK, WindowInv
  PROVE  /\ ptr \in Nat /\ end \in Nat /\ last_end \in Nat /\ size \in Nat
         /\ last_end <= size /\ ptr <= size
         /\ Running => last_end <= PageUp(ptr + RealizeSize)
         /\ Len(input) \in Nat /\ returned \in Nat /\ returned <= Len(input)
         /\ last_start \in Nat
         /\ \A k \in 0 .. 1 : last_barriers[k] \in Nat
         /\ last_barriers_index \in 0 .. 1 /\ word \in 1 .. 3
<1>1. size \in Nat
  <2>1. Offset[Len(input) + 1] \in Nat
    BY Offsets
  <2> QED BY <2>1 DEF InputOK
<1>2. Len(input) \in Nat
  BY Offsets
<1>3. \A k \in 0 .. 1 : last_barriers[k] \in 0 .. size
  BY DEF TypeOK
<1> QED BY <1>1, <1>2, <1>3 DEF TypeOK, WindowInv

LEMMA SameTrace ==
  ASSUME UNCHANGED trace_vars
  PROVE  /\ Offset' = Offset /\ InputOK' = InputOK /\ FromFile' = FromFile
         /\ size' = size /\ input' = input
         /\ \A i : Round(i)' = Round(i)
<1>1. input' = input /\ size' = size
  BY DEF trace_vars
<1>2. Offset' = Offset
  BY <1>1 DEF Offset
<1>3. \A i : Round(i)' = Round(i)
  BY <1>1 DEF Round
<1> QED BY <1>1, <1>2, <1>3 DEF InputOK, FromFile

\* The position moves on at least as far as what was read for it.
LEMMA WindowKept ==
  ASSUME NEW place \in Nat, ptr \in Nat, NEW m \in Nat, NEW last \in Nat,
         ptr <= place, ptr + m <= place + RealizeSize,
         last <= PageUp(ptr + m) \/ last <= PageUp(ptr + RealizeSize)
  PROVE  last <= PageUp(place + RealizeSize)
<1>1. /\ ptr + m \in Nat /\ ptr + RealizeSize \in Nat /\ place + RealizeSize \in Nat
      /\ ptr + RealizeSize <= place + RealizeSize
  BY RealizeSizeAssumption
<1>2. /\ PageUp(ptr + m) <= PageUp(place + RealizeSize)
      /\ PageUp(ptr + RealizeSize) <= PageUp(place + RealizeSize)
      /\ PageUp(ptr + m) \in Nat /\ PageUp(ptr + RealizeSize) \in Nat
      /\ PageUp(place + RealizeSize) \in Nat
  BY <1>1, PageUpOrdered, PageUpIs
<1> QED BY <1>2

\* Steps that return no record, note no barrier and end no round.
LEMMA NoneReturned ==
  ASSUME StreamInv, UNCHANGED <<trace_vars, barrier_vars>>,
         pc \notin {"barrier", "done"}, pc' \notin {"barrier", "done"},
         Running \/ ~Running', returned' = returned
  PROVE  /\ InputOK' /\ ReturnedInv' /\ BarrierInv'
         /\ returned' \in 0 .. Len(input)'
         /\ Offset' = Offset /\ input' = input /\ size' = size
         /\ FromFile' = FromFile
<1>1. /\ last_start' = last_start /\ last_barriers' = last_barriers
      /\ last_barriers_index' = last_barriers_index
  BY DEF barrier_vars
<1>2. /\ Offset' = Offset /\ input' = input /\ size' = size /\ InputOK
      /\ InputOK' /\ FromFile' = FromFile
      /\ \A i : Round(i)' = Round(i)
  BY SameTrace DEF StreamInv
<1>3. ReturnedInv'
  BY <1>2 DEF StreamInv, ReturnedInv
<1>4. Noted' = Noted
  BY <1>2 DEF Noted
<1>5. BarrierInv'
  BY <1>1, <1>2, <1>4 DEF StreamInv, BarrierInv
<1> QED BY <1>2, <1>3, <1>5 DEF StreamInv, TypeOK

\* Steps that return a record, and leave the position behind it.
LEMMA RecordReturned ==
  ASSUME StreamInv, UNCHANGED <<trace_vars, barrier_vars>>,
         pc \in {"varint", "payload"}, returned < Len(input),
         returned' = returned + 1, pc' = NextStep,
         ptr' = Offset[returned + 2], ptr' <= size
  PROVE  /\ InputOK' /\ AtPart' /\ ReturnedInv' /\ BarrierInv'
         /\ returned' \in 0 .. Len(input)'
         /\ input' = input /\ size' = size
         /\ FromFile' = FromFile
         /\ pc' \in {"has_more", "barrier", "done"}
         /\ pc' = "done" => input'[returned'].type = "End"
<1> DEFINE r == returned + 1
<1>1. /\ last_start' = last_start /\ last_barriers' = last_barriers
      /\ last_barriers_index' = last_barriers_index
  BY DEF barrier_vars
<1>2. /\ Offset' = Offset /\ input' = input /\ size' = size /\ InputOK
      /\ InputOK' /\ FromFile' = FromFile
      /\ \A i : Round(i)' = Round(i)
  BY SameTrace DEF StreamInv
<1>3. /\ r \in 1 .. Len(input) /\ Len(input) \in Nat /\ returned \in Nat
      /\ r \in Nat \ {0} /\ Record = input[r]
      /\ \A i \in 1 .. r : i \in 1 .. returned \/ i = r
      /\ last_start \in Nat /\ \A k \in 0 .. 1 : last_barriers[k] \in Nat
      /\ last_barriers_index \in 0 .. 1
  <2>1. /\ Len(input) \in Nat /\ returned \in Nat /\ last_start \in Nat
        /\ \A k \in 0 .. 1 : last_barriers[k] \in Nat
        /\ last_barriers_index \in 0 .. 1
    BY Numbers DEF StreamInv
  <2>2. Record = input[r]
    BY DEF Record
  <2>3. /\ r \in 1 .. Len(input) /\ r \in Nat \ {0}
        /\ \A i \in 1 .. r : i \in 1 .. returned \/ i = r
    BY <2>1
  <2> QED BY <2>1, <2>2, <2>3
<1>4. /\ pc' \in {"has_more", "barrier", "done"}
      /\ pc' = "done" <=> input[r].type = "End"
      /\ pc' = "barrier" <=> IsBarrier(r)
  BY <1>3 DEF NextStep, IsBarrier
<1>5. returned + 2 = r + 1 /\ returned' = r
  BY <1>3
<1> HIDE DEF r
<1>6. Running /\ pc \notin {"barrier", "done"}
  BY DEF Running
<1>7. AtPart'
  BY <1>2, <1>4, <1>5 DEF AtPart
<1>8. ReturnedInv'
  <2>1. ASSUME NEW i \in 1 .. r, input[i].type = "End"
        PROVE  i = r /\ pc' = "done"
    BY <1>3, <1>4, <1>6, <2>1 DEF StreamInv, ReturnedInv
  <2>2. pc' = "barrier" => r # 0 /\ input[r].type = "SyncBarrier"
    BY <1>3, <1>4 DEF IsBarrier
  <2> QED BY <1>2, <1>5, <2>1, <2>2 DEF ReturnedInv
<1>9. Noted' = Noted /\ Noted = Round(r) /\ Round(r) \in Nat
  <2>1. /\ Round(r) \in Nat
        /\ Round(r + 1) = IF IsBarrier(r) THEN Round(r) + 1 ELSE Round(r)
    BY <1>3, RoundAfter
  <2>2. Noted = Round(r)
    BY <1>6, <2>1 DEF Noted, r
  <2>3. Noted' = Round(r + 1) - IF pc' = "barrier" THEN 1 ELSE 0
    BY <1>2, <1>5 DEF Noted
  <2> QED BY <1>4, <2>1, <2>2, <2>3
<1>10. /\ last_start <= Offset[r]
       /\ \A k \in 0 .. 1 : last_barriers[k] <= Offset[r]
  BY <1>6 DEF StreamInv, BarrierInv, r
<1>11. Offset[r] \in Nat /\ Offset[r + 1] \in Nat /\ Offset[r] <= Offset[r + 1]
  <2>1. r \in 1 .. Len(input) + 1 /\ r + 1 \in 1 .. Len(input) + 1 /\ r <= r + 1
    BY <1>3
  <2> QED BY <1>2, <2>1, Offsets
<1>12. BarrierInv'
  <2>1. /\ last_start <= Offset[r + 1]
        /\ \A k \in 0 .. 1 : last_barriers[k] <= Offset[r + 1]
    <3>1. \A x \in Nat : x <= Offset[r] => x <= Offset[r + 1]
      BY <1>11
    <3>2. last_start \in Nat /\ \A k \in 0 .. 1 : last_barriers[k] \in Nat
      BY <1>3
    <3> QED BY <1>10, <3>1, <3>2
  <2>2. ASSUME NEW i \in 1 .. r
        PROVE  /\ Round(i) >= Noted => last_barriers[last_barriers_index] <= Offset[i]
               /\ Round(i) >= Noted - 1 =>
                    last_barriers[1 - last_barriers_index] <= Offset[i]
               /\ Round(i) >= Noted - 2 => last_start <= Offset[i]
    <3>1. CASE i = r
      BY <1>3, <1>10, <3>1
    <3>2. CASE i \in 1 .. returned
      BY <1>6, <3>2 DEF StreamInv, BarrierInv
    <3> QED BY <1>3, <3>1, <3>2
  <2>3. ASSUME NEW i \in 1 .. r, Round(i) >= Noted - 1
        PROVE  last_start <= Offset[i]
    <3>1. Round(i) \in Nat
      <4>1. i \in Nat /\ i <= i
        BY <1>3
      <4> QED BY <4>1, RoundsOrdered
    <3>2. Round(i) >= Noted - 2
      BY <1>9, <2>3, <3>1
    <3> QED BY <2>2, <3>2
  <2> QED BY <1>1, <1>2, <1>5, <1>9, <2>1, <2>2, <2>3 DEF BarrierInv
<1> QED BY <1>2, <1>3, <1>4, <1>5, <1>7, <1>8, <1>12

\* The next part of a record: where its varint ends.
LEMMA VarintEnds ==
  ASSUME StreamInv, pc = "varint"
  PROVE  LET n == Len(Record.words)
             place == ptr + Record.words[word]
         IN /\ returned + 1 \in 1 .. Len(input) /\ returned < Len(input)
            /\ word \in 1 .. n /\ n \in 1 .. 3
            /\ Record.words[word] \in 1 .. MaxSize
            /\ place \in Nat /\ ptr <= place
            /\ place = Offset[returned + 1] + Ends(0, Record.words)[word]
            /\ place <= Offset[returned + 2]
            /\ word = n => place + Record.payload = Offset[returned + 2]
            /\ Record.type # "Buf" => Record.payload = 0
            /\ Record.payload \in Nat
<1> DEFINE n == Len(Record.words)
           ends == Ends(0, Record.words)
           r == returned + 1
<1>1. /\ returned < Len(input) /\ word <= n /\ word \in 1 .. 3
      /\ ptr = Offset[r] + ends[word - 1]
      /\ ptr \in Nat /\ returned \in Nat /\ Len(input) \in Nat /\ InputOK
  BY Numbers DEF StreamInv, AtPart
<1>2. r \in 1 .. Len(input) /\ r \in 1 .. Len(input) + 1 /\ r + 1 = returned + 2
  BY <1>1
<1>3. Record = input[r]
  BY DEF Record
<1>4. /\ n \in 1 .. 3
      /\ \A w \in 1 .. n : Record.words[w] \in 1 .. MaxSize
      /\ Record.payload \in Nat
      /\ Record.type # "Buf" => Record.payload = 0
      /\ EndsUpTo(ends, 0, Record.words, n)
      /\ RecordLength(Record) = ends[n] + Record.payload
  BY <1>1, <1>2, <1>3, RecordParts
<1>5. Offset[r] \in Nat /\ Offset[r + 1] = Offset[r] + RecordLength(Record)
  BY <1>1, <1>2, <1>3, Offsets
<1> HIDE DEF r, n, ends
<1>6. /\ word \in 1 .. n /\ word - 1 \in 0 .. n /\ word \in 0 .. n /\ n \in 0 .. n
      /\ word <= n /\ n \in Nat
  BY <1>1, <1>4
<1>7. ends[word] = ends[word - 1] + Record.words[word]
      /\ ends[word] \in Nat /\ ends[word - 1] \in Nat /\ ends[n] \in Nat
  BY <1>4, <1>6 DEF EndsUpTo
<1>8. Record.words[word] \in Nat /\ \A w \in 1 .. n : Record.words[w] \in Nat
  BY <1>4, <1>6, MaxSizeAssumption
<1>9. ends[word] <= ends[n]
  BY <1>4, <1>6, <1>8, EndsOrdered
<1>10. /\ ptr + Record.words[word] \in Nat /\ ptr <= ptr + Record.words[word]
       /\ ptr + Record.words[word] = Offset[r] + ends[word]
       /\ ptr + Record.words[word] <= Offset[r + 1]
       /\ word = n => ptr + Record.words[word] + Record.payload = Offset[r + 1]
  <2> DEFINE d == Record.words[word]
             load == Record.payload
             start == Offset[r]
             after == Offset[r + 1]
             before == ends[word - 1]
             there == ends[word]
             all == ends[n]
  <2>1. /\ d \in Nat /\ load \in Nat /\ start \in Nat /\ before \in Nat
        /\ there \in Nat /\ all \in Nat
        /\ ptr = start + before /\ there = before + d /\ there <= all
        /\ after = start + (all + load)
        /\ word = n => there = all
    BY <1>1, <1>4, <1>5, <1>6, <1>7, <1>8, <1>9
  <2> HIDE DEF d, load, start, after, before, there, all
  <2>2. /\ ptr + d \in Nat /\ ptr <= ptr + d
        /\ ptr + d = start + there
        /\ ptr + d <= after
        /\ word = n => ptr + d + load = after
    BY <2>1
  <2> QED BY <2>2 DEF d, load, start, after, there
<1> QED BY <1>1, <1>2, <1>4, <1>6, <1>10 DEF r, n, ends

\* The position is behind the magic, once a record is read.
LEMMA MagicBefore ==
  ASSUME StreamInv, pc \in {"varint", "payload"}
  PROVE  MagicSize <= ptr
<1> DEFINE ends == Ends(0, Record.words)
           start == Offset[returned + 1]
           n == Len(Record.words)
<1>1. /\ returned < Len(input) /\ Len(input) \in Nat /\ returned \in Nat
      /\ ptr \in Nat /\ word \in 1 .. 3 /\ InputOK
  BY Numbers DEF StreamInv, AtPart
<1>2. /\ returned + 1 \in 1 .. Len(input) /\ Record = input[returned + 1]
      /\ returned + 1 \in 1 .. Len(input) + 1 /\ 1 \in 1 .. Len(input) + 1
      /\ 1 <= returned + 1 /\ (returned + 1) + 1 = returned + 2
  BY <1>1 DEF Record
<1>3. MagicSize <= start /\ start \in Nat
  BY <1>1, <1>2, Offsets
<1>4. /\ n \in 1 .. 3 /\ EndsUpTo(ends, 0, Record.words, n)
      /\ Record.payload \in Nat
      /\ RecordLength(Record) = ends[n] + Record.payload
  BY <1>1, <1>2, RecordParts
<1>5. Offset[returned + 2] = start + RecordLength(Record)
  BY <1>1, <1>2, Offsets
<1> HIDE DEF ends, start, n
<1>6. \A k \in 0 .. n : ends[k] \in Nat
  BY <1>4 DEF EndsUpTo
<1>7. CASE pc = "varint"
  <2>1. word <= n /\ ptr = start + ends[word - 1]
    BY <1>7 DEF StreamInv, AtPart, start, ends, n
  <2>2. word - 1 \in 0 .. n
    BY <1>1, <1>4, <2>1
  <2>3. ends[word - 1] \in Nat
    BY <1>6, <2>2
  <2> QED BY <1>3, <2>1, <2>3, MagicSizeAssumption
<1>8. CASE pc = "payload"
  <2>1. ptr + Record.payload = Offset[returned + 2]
    BY <1>8 DEF StreamInv, AtPart
  <2>2. n \in 0 .. n
    BY <1>4
  <2>3. ends[n] \in Nat
    BY <1>6, <2>2
  <2>4. ptr + Record.payload = start + (ends[n] + Record.payload)
    BY <1>4, <1>5, <2>1
  <2>5. ptr \in Nat /\ start \in Nat /\ Record.payload \in Nat
    BY <1>1, <1>3, <1>4
  <2>6. ptr = start + ends[n]
    BY ONLY <2>3, <2>4, <2>5
  <2> QED BY <1>3, <2>3, <2>6, MagicSizeAssumption
<1> QED BY <1>7, <1>8

\* A Death's second word lies behind its first, which has been read.
LEMMA DeathWords ==
  ASSUME StreamInv, pc = "varint", Record.type = "Death"
  PROVE  LET second == Offset[returned + 1] + Record.words[1]
         IN /\ second \in Nat
            /\ MustRead => second = ptr
            /\ ~MustRead => second = ptr + Record.words[word]
<1> DEFINE ends == Ends(0, Record.words)
           start == Offset[returned + 1]
<1>1. /\ returned + 1 \in 1 .. Len(input)
      /\ returned + 1 \in 1 .. Len(input) + 1 /\ InputOK
      /\ word \in 1 .. 3 /\ word <= Len(Record.words)
      /\ ptr = start + ends[word - 1]
  BY Numbers DEF StreamInv, AtPart
<1>2. Record = input[returned + 1]
  BY DEF Record
<1>3. Len(Record.words) = 2
  <2>1. Len(Record.words) = WordCounts["Death"]
    BY <1>1, <1>2, RecordParts
  <2> QED BY ONLY <2>1 DEF WordCounts
<1>4. /\ EndsUpTo(ends, 0, Record.words, 2) /\ start \in Nat
      /\ \A w \in 1 .. 2 : Record.words[w] \in 1 .. MaxSize
  BY <1>1, <1>2, <1>3, RecordParts, Offsets
<1>5. word \in 1 .. 2
  BY <1>1, <1>3
<1>6. ptr + Record.words[word] = start + ends[word]
  BY <1>1, <1>2, <1>3, VarintEnds
<1> HIDE DEF ends, start
<1>7. Record.words[1] \in Nat /\ ends[1] = Record.words[1]
  <2>1. 1 - 1 = 0 /\ 1 \in 1 .. 2
    OBVIOUS
  <2>2. ends[1] = ends[1 - 1] + Record.words[1] /\ ends[0] = 0
    BY <1>4, <2>1 DEF EndsUpTo
  <2>3. Record.words[1] \in Nat
    BY <1>4, <2>1, MaxSizeAssumption
  <2> QED BY <2>1, <2>2, <2>3
<1>8. word = 2 => word - 1 = 1
  OBVIOUS
<1>9. word # 2 => word = 1
  BY <1>5
<1>10. (MustRead <=> word = 2) /\ start + ends[1] \in Nat
  BY <1>4, <1>7 DEF MustRead
<1> QED BY <1>1, <1>6, <1>7, <1>8, <1>9, <1>10 DEF start

\* A varint that is there is decoded.
LEMMA VarintDecoded ==
  ASSUME StreamInv, pc = "varint", UNCHANGED <<trace_vars, barrier_vars>>,
         ptr + Record.words[word] <= size, Decoded(ptr + Record.words[word])
  PROVE  /\ InputOK' /\ AtPart' /\ ReturnedInv' /\ BarrierInv'
         /\ returned' \in 0 .. Len(input)'
         /\ input' = input /\ size' = size
         /\ FromFile' = FromFile
         /\ pc' \in {"varint", "payload", "has_more", "barrier", "done"}
         /\ pc' = "done" => input'[returned'].type = "End"
         /\ word' \in 1 .. 3
         /\ ptr' = ptr + Record.words[word]
<1> DEFINE place == ptr + Record.words[word]
           n == Len(Record.words)
<1>1. /\ returned + 1 \in 1 .. Len(input) /\ returned < Len(input)
      /\ word \in 1 .. n /\ n \in 1 .. 3
      /\ place = Offset[returned + 1] + Ends(0, Record.words)[word]
      /\ word = n => place + Record.payload = Offset[returned + 2]
      /\ Record.type # "Buf" => Record.payload = 0
      /\ place \in Nat
  BY VarintEnds
<1>2. ptr' = place /\ place <= size
  BY DEF Decoded
<1>3. Offset' = Offset /\ input' = input
  BY SameTrace
<1> HIDE DEF place
<1>4. CASE word # n
  <2>1. word' = word + 1 /\ pc' = "varint" /\ returned' = returned
    BY <1>4 DEF Decoded, IsLastWord
  <2>2. /\ InputOK' /\ ReturnedInv' /\ BarrierInv'
        /\ returned' \in 0 .. Len(input)'
        /\ input' = input /\ size' = size /\ FromFile' = FromFile
    BY <2>1, NoneReturned DEF Running
  <2>3. Record' = Record /\ word' - 1 = word /\ word' <= n
    BY <1>1, <1>3, <1>4, <2>1 DEF Record
  <2>4. AtPart'
    BY <1>1, <1>2, <1>3, <2>1, <2>3 DEF AtPart
  <2>5. word' \in 1 .. 3
    <3> HIDE DEF n
    <3> QED BY <1>1, <1>4, <2>1
  <2> QED BY <1>2, <2>1, <2>2, <2>4, <2>5 DEF place
<1>5. CASE word = n /\ Record.type = "Buf"
  <2>1. word' = word /\ pc' = "payload" /\ returned' = returned
    BY <1>5 DEF Decoded, IsLastWord
  <2>2. /\ InputOK' /\ ReturnedInv' /\ BarrierInv'
        /\ returned' \in 0 .. Len(input)'
        /\ input' = input /\ size' = size /\ FromFile' = FromFile
    BY <2>1, NoneReturned DEF Running
  <2>3. Record' = Record
    BY <1>3, <2>1 DEF Record
  <2>4. AtPart'
    BY <1>1, <1>2, <1>3, <1>5, <2>1, <2>3 DEF AtPart
  <2>5. word' \in 1 .. 3
    BY <1>1, <2>1
  <2> QED BY <1>2, <2>1, <2>2, <2>4, <2>5 DEF place
<1>6. CASE word = n /\ Record.type # "Buf"
  <2>1. word' = word /\ pc' = NextStep /\ returned' = returned + 1
    BY <1>6 DEF Decoded, IsLastWord
  <2>2. ptr' = Offset[returned + 2] /\ ptr' <= size
    BY <1>1, <1>2, <1>6
  <2>3. /\ InputOK' /\ AtPart' /\ ReturnedInv' /\ BarrierInv'
        /\ returned' \in 0 .. Len(input)'
        /\ input' = input /\ size' = size /\ FromFile' = FromFile
        /\ pc' \in {"has_more", "barrier", "done"}
        /\ pc' = "done" => input'[returned'].type = "End"
    BY <1>1, <2>1, <2>2, RecordReturned
  <2>4. word' \in 1 .. 3
    BY <1>1, <2>1
  <2> QED BY <1>2, <2>3, <2>4 DEF place
<1> QED BY <1>4, <1>5, <1>6

\* What has been read stays behind the noted positions.
LEMMA BarriersRead ==
  ASSUME StreamInv, last_end' \in Nat, last_end <= last_end'
  PROVE  \A k \in 0 .. 1 : last_barriers[k] <= last_end'
<1>1. /\ last_end \in Nat /\ \A k \in 0 .. 1 : last_barriers[k] \in Nat
      /\ \A k \in 0 .. 1 : last_barriers[k] <= last_end
  BY Numbers DEF StreamInv, WindowInv
<1> QED BY <1>1

\* What is left to show of a step after which the input has not been given up.
LEMMA GoesOn ==
  ASSUME StreamInv, UNCHANGED barrier_vars, input' = input, size' = size,
         InputOK', AtPart', ReturnedInv', BarrierInv',
         returned' \in 0 .. Len(input)', word' \in 1 .. 3,
         ptr' \in Nat, ptr' <= last_end',
         last_end' \in Nat, last_end <= last_end', last_end' <= size,
         end' = last_end',
         Running' => last_end' <= PageUp(ptr' + RealizeSize),
         pc' \in {"has_more", "varint", "payload", "barrier", "done"},
         pc' = "done" => returned' # 0 /\ input'[returned'].type = "End"
  PROVE  StreamInv'
<1>1. /\ last_start' = last_start /\ last_barriers' = last_barriers
      /\ last_barriers_index' = last_barriers_index
  BY DEF barrier_vars
<1>2. size \in Nat
  BY Numbers DEF StreamInv
<1>3. TypeOK'
  <2>1. ptr' \in 0 .. size' /\ end' \in 0 .. size' /\ last_end' \in 0 .. size'
    BY <1>2
  <2>2. /\ last_start' \in Nat /\ last_start' % Page = 0
        /\ last_barriers' \in [0 .. 1 -> 0 .. size']
        /\ last_barriers_index' \in 0 .. 1
    BY <1>1 DEF StreamInv, TypeOK
  <2>3. pc' \in Steps
    BY DEF Steps
  <2> QED BY <2>1, <2>2, <2>3 DEF TypeOK
<1>4. WindowInv'
  <2>1. PageUp(ptr + RealizeSize)' = PageUp(ptr' + RealizeSize)
    BY DEF PageUp, PageDown
  <2>2. \A k \in 0 .. 1 : last_barriers'[k] <= last_end'
    BY <1>1, BarriersRead
  <2> QED BY <2>1, <2>2 DEF WindowInv
<1>5. GivesUpLast'
  BY DEF GivesUpLast, PanicsOnCutDeath
<1> QED BY <1>3, <1>4, <1>5 DEF StreamInv

(***************************************************************************)
(* The steps.                                                              *)
(***************************************************************************)

\* What is left to show of a step that gives up the input.
LEMMA GivesUp ==
  ASSUME StreamInv, UNCHANGED <<trace_vars, barrier_vars>>,
         Running, pc \notin {"barrier", "done"},
         pc' \in {"ended", "panicked", "garbled"},
         returned' = returned, word' \in 1 .. 3,
         ptr' \in Nat, ptr' <= last_end',
         last_end' \in Nat, last_end <= last_end', last_end' <= size,
         end' = last_end',
         FromFile => /\ last_end' = size /\ pc' # "garbled" /\ NextIsCutOff
                     /\ pc' = "panicked" => size < MagicSize \/ CutInDeath
                     /\ pc' = "ended" => size >= MagicSize /\ ~CutInDeath
  PROVE  StreamInv'
<1>1. /\ last_start' = last_start /\ last_barriers' = last_barriers
      /\ last_barriers_index' = last_barriers_index
  BY DEF barrier_vars
<1>2. /\ InputOK' /\ ReturnedInv' /\ BarrierInv'
      /\ returned' \in 0 .. Len(input)'
      /\ Offset' = Offset /\ input' = input /\ size' = size
      /\ FromFile' = FromFile
      /\ ~Running'
  BY NoneReturned DEF Running
<1>3. size \in Nat
  BY Numbers DEF StreamInv
<1>4. TypeOK'
  <2>1. ptr' \in 0 .. size' /\ end' \in 0 .. size' /\ last_end' \in 0 .. size'
    BY <1>2, <1>3
  <2>2. /\ last_start' \in Nat /\ last_start' % Page = 0
        /\ last_barriers' \in [0 .. 1 -> 0 .. size']
        /\ last_barriers_index' \in 0 .. 1
    BY <1>1, <1>2 DEF StreamInv, TypeOK
  <2>3. pc' \in Steps
    BY DEF Steps
  <2> QED BY <1>2, <2>1, <2>2, <2>3 DEF TypeOK
<1>5. WindowInv'
  <2>1. \A k \in 0 .. 1 : last_barriers'[k] <= last_end'
    BY <1>1, BarriersRead
  <2> QED BY <1>2, <2>1 DEF WindowInv
<1>6. AtPart'
  BY DEF AtPart
<1>7. NextIsCutOff' = NextIsCutOff /\ CutInDeath' = CutInDeath
  BY <1>2 DEF NextIsCutOff, CutInDeath, Record
<1>8. FromFile' => GivesUpLast'
  BY <1>2, <1>7 DEF GivesUpLast, PanicsOnCutDeath
<1> QED BY <1>2, <1>4, <1>5, <1>6, <1>8 DEF StreamInv

LEMMA SkipMagicStep == StreamInv /\ SkipMagic => StreamInv'
<1> SUFFICES ASSUME StreamInv, SkipMagic PROVE StreamInv'
  OBVIOUS
<1>1. /\ pc = "magic" /\ Running /\ returned = 0 /\ ptr = 0
      /\ returned' = returned /\ word' = word
      /\ UNCHANGED <<trace_vars, barrier_vars>>
  BY DEF SkipMagic, Running, StreamInv, AtPart
<1>2. PICK last \in RealizeMore(MagicSize, last_end) :
        /\ Window(last)
        /\ IF ptr + MagicSize <= last
           THEN ptr' = ptr + MagicSize /\ pc' = After(MagicSize, last_end, "has_more")
           ELSE ptr' = ptr /\ pc' = After(MagicSize, last_end, "panicked")
  BY DEF SkipMagic
<1>3. /\ ptr \in Nat /\ size \in Nat /\ last_end \in Nat /\ last_end <= size
      /\ last_end <= PageUp(ptr + RealizeSize) /\ word \in 1 .. 3
      /\ MagicSize \in Nat
  BY <1>1, Numbers, MagicSizeAssumption DEF StreamInv
<1>4. /\ ~MapFails(Wanted(MagicSize), last_end)
      /\ last \in Nat /\ last_end <= last /\ last <= size
      /\ last <= PageUp(ptr + MagicSize) \/ last <= PageUp(ptr + RealizeSize)
      /\ FromFile => last = size \/ ptr + MagicSize <= last
  BY <1>3, RealizeIs
<1>5. last_end' = last /\ end' = last
  BY <1>2 DEF Window
<1>6. CASE ptr + MagicSize <= last
  <2>1. ptr' = ptr + MagicSize /\ pc' = "has_more"
    BY <1>2, <1>4, <1>6 DEF After
  <2>2. /\ InputOK' /\ ReturnedInv' /\ BarrierInv'
        /\ returned' \in 0 .. Len(input)'
        /\ Offset' = Offset /\ input' = input /\ size' = size
    BY <1>1, <2>1, NoneReturned
  <2>3. AtPart'
    <3>1. Offset[1] = MagicSize
      BY Offsets DEF StreamInv
    <3> QED BY <1>1, <1>3, <2>1, <2>2, <3>1 DEF AtPart
  <2>4. last <= PageUp(ptr' + RealizeSize)
    <3>1. /\ ptr + MagicSize \in Nat /\ ptr <= ptr + MagicSize
          /\ ptr + MagicSize <= (ptr + MagicSize) + RealizeSize
      BY <1>3, RealizeSizeAssumption
    <3> QED BY <1>3, <1>4, <2>1, <3>1, WindowKept
  <2> QED BY <1>1, <1>3, <1>4, <1>5, <1>6, <2>1, <2>2, <2>3, <2>4, GoesOn
<1>7. CASE ~(ptr + MagicSize <= last)
  <2>1. ptr' = ptr /\ pc' = "panicked"
    BY <1>2, <1>4, <1>7 DEF After
  <2>2. ptr <= last
    BY <1>1, <1>4
  <2>3. ASSUME FromFile PROVE last = size /\ size < MagicSize /\ NextIsCutOff
    <3>1. last = size /\ size < MagicSize
      BY <1>1, <1>3, <1>4, <1>7, <2>3
    <3>2. CASE Len(input) = 0
      BY <1>1, <3>1, <3>2 DEF NextIsCutOff
    <3>3. CASE Len(input) # 0
      <4>1. Len(input) \in Nat /\ InputOK
        BY Numbers DEF StreamInv
      <4>2. 1 \in 1 .. Len(input) + 1 /\ 2 \in 1 .. Len(input) + 1
        BY <3>3, <4>1
      <4>3. Offset[1] = MagicSize /\ Offset[1] <= Offset[2] /\ Offset[2] \in Nat
        BY <4>1, <4>2, Offsets
      <4>4. size < Offset[2] /\ returned + 2 = 2
        BY <1>1, <1>3, <3>1, <4>3
      <4> QED BY <3>1, <4>4 DEF NextIsCutOff
    <3> QED BY <3>1, <3>2, <3>3
  <2> QED BY <1>1, <1>3, <1>4, <1>5, <1>7, <2>1, <2>2, <2>3, GivesUp
<1> QED BY <1>6, <1>7

LEMMA HasMoreStep == StreamInv /\ HasMore => StreamInv'
<1> SUFFICES ASSUME StreamInv, HasMore PROVE StreamInv'
  OBVIOUS
<1>1. /\ pc = "has_more" /\ Running
      /\ returned' = returned /\ word' = 1 /\ ptr' = ptr
      /\ UNCHANGED <<trace_vars, barrier_vars>>
      /\ ptr = Offset[returned + 1]
  BY DEF HasMore, Running, StreamInv, AtPart
<1>2. /\ ptr \in Nat /\ size \in Nat /\ last_end \in Nat /\ last_end <= size
      /\ last_end <= PageUp(ptr + RealizeSize) /\ end \in Nat
      /\ end <= last_end /\ ptr <= last_end
      /\ returned \in Nat /\ Len(input) \in Nat /\ returned <= Len(input)
      /\ InputOK
  BY <1>1, Numbers DEF StreamInv, WindowInv
<1>3. ASSUME ptr < size PROVE returned < Len(input)
  <2>1. SUFFICES ASSUME returned = Len(input) PROVE FALSE
    BY <1>2
  <2>2. size <= Offset[returned + 1]
    BY <1>2, <2>1, Offsets DEF InputOK
  <2> QED BY <1>1, <1>2, <1>3, <2>2
<1>4. ASSUME NEW last \in Nat, last_end' = last, last_end <= last,
             end' = last, ptr < last, last <= size, pc' = "varint",
             last <= PageUp(ptr + RealizeSize)
      PROVE  StreamInv'
  <2>1. /\ InputOK' /\ ReturnedInv' /\ BarrierInv'
        /\ returned' \in 0 .. Len(input)'
        /\ Offset' = Offset /\ input' = input /\ size' = size
    BY <1>1, <1>4, NoneReturned
  <2>2. returned < Len(input)
    BY <1>2, <1>3, <1>4
  <2>3. AtPart'
    <3>1. returned + 1 \in 1 .. Len(input) /\ Record = input[returned + 1]
      BY <1>2, <2>2 DEF Record
    <3>2. Len(Record.words) \in 1 .. 3 /\ Ends(0, Record.words)[0] = 0
      BY <1>2, <3>1, RecordParts DEF EndsUpTo
    <3>3. Record' = Record
      BY <1>1, <2>1 DEF Record
    <3>4. word' - 1 = 0 /\ word' <= Len(Record.words)
      <4> DEFINE n == Len(Record.words)
      <4>1. word' = 1 /\ n \in 1 .. 3
        BY <1>1, <3>2
      <4> HIDE DEF n
      <4>2. word' - 1 = 0 /\ word' <= n
        BY <4>1
      <4> QED BY <4>2 DEF n
    <3>5. ptr = Offset[returned + 1] + Ends(0, Record.words)[word' - 1]
      <4>1. Offset[returned + 1] + 0 = Offset[returned + 1]
        BY <1>1, <1>2
      <4> QED BY <1>1, <3>2, <3>4, <4>1
    <3>6. /\ returned' = returned /\ ptr' = ptr /\ pc' = "varint"
          /\ Offset' = Offset /\ input' = input
      BY <1>1, <1>4, <2>1
    <3> QED BY <2>2, <3>3, <3>4, <3>5, <3>6 DEF AtPart
  <2> QED BY <1>1, <1>2, <1>4, <2>1, <2>3, GoesOn
<1>5. CASE ptr < end
  <2>1. pc' = "varint" /\ last_end' = last_end /\ end' = last_end
    <3>1. end = last_end
      BY <1>1, <1>2, <1>5 DEF StreamInv, WindowInv
    <3> QED BY <1>2, <1>5, <3>1 DEF HasMore
  <2> QED BY <1>2, <1>4, <1>5, <2>1
<1>6. CASE ptr >= end
  <2>1. PICK last \in RealizeMore(0, last_end) :
          /\ Window(last)
          /\ pc' = After(0, last_end, IF ptr < last THEN "varint" ELSE "ended")
    BY <1>2, <1>6 DEF HasMore
  <2>2. /\ ~MapFails(Wanted(0), last_end)
        /\ last \in Nat /\ last_end <= last /\ last <= size
        /\ last <= PageUp(ptr + 0) \/ last <= PageUp(ptr + RealizeSize)
        /\ FromFile => last = size \/ ptr + RealizeSize <= last
    BY <1>2, RealizeIs
  <2>3. last_end' = last /\ end' = last
        /\ pc' = IF ptr < last THEN "varint" ELSE "ended"
    BY <2>1, <2>2 DEF Window, After
  <2>4. CASE ptr < last
    <3>1. last <= PageUp(ptr + RealizeSize)
      <4>1. ptr + 0 <= ptr + RealizeSize
        BY <1>2, RealizeSizeAssumption
      <4> QED BY <1>2, <2>2, <4>1, WindowKept
    <3> QED BY <1>4, <2>2, <2>3, <2>4, <3>1
  <2>5. CASE ~(ptr < last)
    <3>1. ptr <= last
      BY <1>2, <2>2
    <3>2. ASSUME FromFile PROVE last = size /\ ptr = size
      <4>1. RealizeSize \in Nat \ {0}
        BY RealizeSizeAssumption, MaxSizeAssumption
      <4> QED BY <1>2, <2>2, <2>5, <3>1, <3>2, <4>1
    <3>3. ASSUME FromFile PROVE NextIsCutOff
      <4>1. CASE returned = Len(input)
        BY <4>1 DEF NextIsCutOff
      <4>2. CASE returned < Len(input)
        <5>1. returned + 1 \in 1 .. Len(input) /\ (returned + 1) + 1 = returned + 2
          BY <1>2, <4>2
        <5>2. /\ RecordLength(input[returned + 1]) \in Nat \ {0}
              /\ Offset[returned + 2]
                   = Offset[returned + 1] + RecordLength(input[returned + 1])
          BY <1>2, <5>1, RecordParts, Offsets
        <5> QED BY <1>1, <1>2, <3>2, <3>3, <5>2 DEF NextIsCutOff
      <4> QED BY <1>2, <4>1, <4>2
    <3>4. ASSUME FromFile PROVE size >= MagicSize /\ ~CutInDeath
      <4>1. returned + 1 \in 1 .. Len(input) + 1 /\ 1 \in 1 .. Len(input) + 1
            /\ 1 <= returned + 1
        BY <1>2
      <4>2. MagicSize <= Offset[returned + 1]
        BY <1>2, <4>1, Offsets
      <4>3. size >= MagicSize
        BY <1>1, <1>2, <3>2, <3>4, <4>2, MagicSizeAssumption
      <4>4. SUFFICES ASSUME CutInDeath PROVE FALSE
        BY <4>3
      <4>5. returned + 1 \in 1 .. Len(input) /\ Record = input[returned + 1]
            /\ Record.type = "Death"
        BY <1>2, <4>4 DEF CutInDeath, Record
      <4>6. 1 \in 1 .. Len(Record.words)
        BY <1>2, <4>5, RecordParts DEF WordCounts
      <4>7. Record.words[1] \in Nat \ {0}
        BY <1>2, <4>5, <4>6, RecordParts, MaxSizeAssumption
      <4>8. Offset[returned + 1] + Record.words[1] <= size
        BY <4>4 DEF CutInDeath
      <4> QED BY <1>1, <1>2, <3>2, <3>4, <4>7, <4>8
    <3> QED BY <1>1, <1>2, <2>2, <2>3, <2>5, <3>1, <3>2, <3>3, <3>4, GivesUp
  <2> QED BY <2>4, <2>5
<1> QED BY <1>2, <1>5, <1>6

LEMMA ReadVarintStep == StreamInv /\ ReadVarint => StreamInv'
<1> SUFFICES ASSUME StreamInv, ReadVarint PROVE StreamInv'
  OBVIOUS
<1> DEFINE length == Record.words[word]
           place == ptr + length
<1>1. pc = "varint" /\ Running /\ UNCHANGED <<trace_vars, barrier_vars>>
  BY DEF ReadVarint, Running
<1>2. /\ ptr \in Nat /\ size \in Nat /\ last_end \in Nat /\ last_end <= size
      /\ last_end <= PageUp(ptr + RealizeSize) /\ end \in Nat
      /\ end <= last_end /\ ptr <= last_end
      /\ MaxSize \in Nat /\ RealizeSize \in Nat /\ MaxSize <= RealizeSize
      /\ returned \in Nat /\ word \in 1 .. 3
  BY <1>1, Numbers, MaxSizeAssumption, RealizeSizeAssumption
  DEF StreamInv, WindowInv
<1>3. /\ length \in 1 .. MaxSize /\ place \in Nat /\ ptr <= place
      /\ place = ptr + length
      /\ place <= Offset[returned + 2]
      /\ returned + 1 \in 1 .. Len(input)
  BY <1>1, VarintEnds
<1> HIDE DEF place, length
<1>4. ASSUME NEW last \in Nat, last_end' = last, last_end <= last, last <= size,
             last <= PageUp(ptr + 0) \/ last <= PageUp(ptr + RealizeSize),
             end' = last, place <= last, Decoded(place)
      PROVE  StreamInv'
  <2>1. place <= size
    BY <1>2, <1>3, <1>4
  <2>2. /\ InputOK' /\ AtPart' /\ ReturnedInv' /\ BarrierInv'
        /\ returned' \in 0 .. Len(input)'
        /\ input' = input /\ size' = size
        /\ pc' \in {"varint", "payload", "has_more", "barrier", "done"}
        /\ pc' = "done" => input'[returned'].type = "End"
        /\ word' \in 1 .. 3
        /\ ptr' = place
    BY <1>1, <1>4, <2>1, VarintDecoded DEF place, length
  <2>3. last <= PageUp(place + RealizeSize)
    <3>1. ptr + 0 <= place + RealizeSize
      BY <1>2, <1>3
    <3> QED BY <1>2, <1>3, <1>4, <3>1, WindowKept
  <2>4. pc' = "done" => returned' # 0
    <3>1. pc' = "done" => returned' = returned + 1
      BY <1>1, <1>4 DEF Decoded
    <3> QED BY <1>2, <3>1
  <2> QED BY <1>1, <1>3, <1>4, <2>2, <2>3, <2>4, GoesOn
<1>5. CASE ptr + MaxSize <= end
  <2>1. Decoded(place) /\ last_end' = last_end /\ end' = last_end
    <3>1. end = last_end
      BY <1>1 DEF StreamInv, WindowInv
    <3> QED BY <1>2, <1>5, <3>1 DEF ReadVarint, place, length
  <2>2. place <= last_end
    BY <1>2, <1>3, <1>5
  <2> QED BY <1>2, <1>4, <2>1, <2>2
<1>6. CASE ptr + MaxSize > end
  <2>1. PICK last \in RealizeMore(0, last_end) :
          \/ /\ place <= last
             /\ Window(last)
             /\ IF MapFails(Wanted(0), last_end)
                THEN pc' = "aborted" /\ UNCHANGED <<ptr, word, returned>>
                ELSE Decoded(place)
          \/ /\ place > last
             /\ \E advance \in IF ptr < last THEN {length} ELSE 1 .. MaxSize :
                \E more \in RealizeMore(advance, last) :
                  /\ Window(more)
                  /\ LET there == ptr + advance <= more
                         step == IF there THEN "garbled"
                                 ELSE IF MustRead THEN "panicked" ELSE "ended"
                     IN /\ ptr' = IF there THEN ptr + advance ELSE more
                        /\ pc' = After(0, last_end, After(advance, last, step))
             /\ UNCHANGED <<word, returned>>
    BY <1>2, <1>6 DEF ReadVarint, ReadVarintSlow, place, length
  <2>2. /\ ~MapFails(Wanted(0), last_end)
        /\ last \in Nat /\ last_end <= last /\ last <= size
        /\ last <= PageUp(ptr + 0) \/ last <= PageUp(ptr + RealizeSize)
        /\ FromFile => last = size \/ ptr + RealizeSize <= last
    BY <1>2, RealizeIs
  <2>3. CASE place <= last
    <3>1. Window(last) /\ Decoded(place)
      <4>1. ~(place > last)
        BY <1>3, <2>2, <2>3
      <4> QED BY <2>1, <2>2, <4>1, Zenon
    <3>2. last_end' = last /\ end' = last
      BY <3>1 DEF Window
    <3> QED BY <1>4, <2>2, <2>3, <3>1, <3>2
  <2>4. CASE place > last
    <3> DEFINE Step(advance, more) ==
          /\ Window(more)
          /\ ptr' = IF ptr + advance <= more THEN ptr + advance ELSE more
          /\ pc' = After(0, last_end, After(advance, last,
                     IF ptr + advance <= more THEN "garbled"
                     ELSE IF MustRead THEN "panicked" ELSE "ended"))
    <3>b. ~(place <= last)
      BY <1>3, <2>2, <2>4
    <3>0. PICK advance \in IF ptr < last THEN {length} ELSE 1 .. MaxSize :
            \E more \in RealizeMore(advance, last) : Step(advance, more)
      BY <2>1, <3>b
    <3>1. PICK more \in RealizeMore(advance, last) : Step(advance, more)
      BY <3>0
    <3>2. word' = word /\ returned' = returned
      BY <2>1, <3>b
    <3>3. advance \in 1 .. MaxSize /\ advance \in Nat
      BY <1>3, <3>0
    <3>4. last <= PageUp(ptr + RealizeSize)
      <4>1. ptr + 0 <= ptr + RealizeSize
        BY <1>2
      <4> QED BY <1>2, <2>2, <4>1, WindowKept
    <3>5. /\ ~MapFails(Wanted(advance), last)
          /\ more \in Nat /\ last <= more /\ more <= size
      BY <1>2, <2>2, <3>1, <3>3, <3>4, RealizeIs
    <3>6. /\ last_end' = more /\ end' = more
          /\ pc' = IF ptr + advance <= more THEN "garbled"
                   ELSE IF MustRead THEN "panicked" ELSE "ended"
      BY <2>2, <3>1, <3>5 DEF Window, After
    <3>7. /\ pc' \in {"ended", "panicked", "garbled"}
          /\ pc' = "garbled" => ptr + advance <= more
      BY <3>6
    <3>8. ptr' \in Nat /\ ptr' <= more
      BY <1>2, <3>1, <3>3, <3>5
    <3>9. last_end <= more
      BY <1>2, <2>2, <3>5
    <3>10. ASSUME FromFile PROVE more = size /\ pc' # "garbled" /\ NextIsCutOff
      <4>1. last = size
        BY <1>2, <1>3, <2>2, <2>4, <3>10
      <4>2. more = size
        BY <1>2, <3>5, <4>1
      <4>3. ~(ptr + advance <= more)
        <5>1. CASE ptr < last
          <6>1. advance = length
            BY <3>0, <5>1
          <6> QED BY <1>2, <1>3, <2>2, <2>4, <4>1, <4>2, <6>1
        <5>2. CASE ~(ptr < last)
          BY <1>2, <2>2, <3>3, <4>1, <4>2, <5>2
        <5> QED BY <5>1, <5>2
      <4>4. size < Offset[returned + 2]
        <5>1. Offset[returned + 2] \in Nat
          <6>1. Len(input) \in Nat /\ InputOK
            BY Numbers DEF StreamInv
          <6>2. returned + 2 \in 1 .. Len(input) + 1
            BY <1>2, <1>3, <6>1
          <6> QED BY <6>1, <6>2, Offsets
        <5> QED BY <1>2, <1>3, <2>4, <4>1, <5>1
      <4> QED BY <3>7, <4>2, <4>3, <4>4 DEF NextIsCutOff
    <3>11. ASSUME FromFile, pc' = "panicked" PROVE CutInDeath
      <4>1. MustRead /\ Record.type = "Death"
        BY <3>6, <3>11 DEF MustRead
      <4>2. Offset[returned + 1] + Record.words[1] = ptr
        BY <1>1, <4>1, DeathWords
      <4>3. Offset[returned + 1] + Record.words[1] <= size
        BY <1>2, <4>2
      <4>4. returned < Len(input)
        BY <1>1, VarintEnds
      <4>5. size < Offset[returned + 2]
        BY <3>10, <3>11, <4>4 DEF NextIsCutOff
      <4> QED BY <4>1, <4>3, <4>4, <4>5 DEF CutInDeath
    <3>12. ASSUME FromFile, pc' = "ended" PROVE size >= MagicSize /\ ~CutInDeath
      <4>1. MagicSize <= ptr
        BY <1>1, MagicBefore
      <4>2. size >= MagicSize
        BY <1>2, <4>1, MagicSizeAssumption
      <4>3. SUFFICES ASSUME CutInDeath PROVE FALSE
        BY <4>2
      <4>4. /\ Record.type = "Death"
            /\ Offset[returned + 1] + Record.words[1] <= size
        BY <4>3 DEF CutInDeath
      <4>5. ~MustRead
        BY <3>6, <3>12
      <4>6. Offset[returned + 1] + Record.words[1] = place
        BY <1>1, <4>4, <4>5, DeathWords DEF place, length
      <4>7. last = size
        BY <1>2, <1>3, <2>2, <2>4, <3>12
      <4> QED BY <1>2, <1>3, <2>2, <2>4, <4>4, <4>6, <4>7
    <3> HIDE DEF Step
    <3> QED
      BY <1>1, <1>2, <3>2, <3>5, <3>6, <3>7, <3>8, <3>9, <3>10, <3>11, <3>12, GivesUp
  <2> QED BY <1>2, <1>3, <2>2, <2>3, <2>4
<1> QED BY <1>2, <1>5, <1>6

LEMMA AdvancePayloadStep == StreamInv /\ AdvancePayload => StreamInv'
<1> SUFFICES ASSUME StreamInv, AdvancePayload PROVE StreamInv'
  OBVIOUS
<1> DEFINE load == Record.payload
           place == ptr + load
<1>1. /\ pc = "payload" /\ Running /\ UNCHANGED <<trace_vars, barrier_vars>>
      /\ word' = word
  BY DEF AdvancePayload, Running
<1>2. /\ ptr \in Nat /\ size \in Nat /\ last_end \in Nat /\ last_end <= size
      /\ last_end <= PageUp(ptr + RealizeSize) /\ end \in Nat
      /\ end <= last_end /\ ptr <= last_end
      /\ RealizeSize \in Nat /\ word \in 1 .. 3
      /\ returned \in Nat /\ Len(input) \in Nat /\ InputOK
  BY <1>1, Numbers, RealizeSizeAssumption DEF StreamInv, WindowInv
<1>3. /\ returned < Len(input) /\ Record.type = "Buf"
      /\ place = Offset[returned + 2]
  BY <1>1 DEF StreamInv, AtPart
<1>4. load \in Nat
  <2>1. returned + 1 \in 1 .. Len(input)
    BY <1>2, <1>3
  <2> QED BY <1>2, <2>1, RecordParts DEF Record
<1>5. place \in Nat /\ ptr <= place
  <2> HIDE DEF load
  <2> QED BY <1>2, <1>4
<1>6. NextStep = "has_more"
  BY <1>3 DEF NextStep
<1>7. ASSUME NEW last \in Nat, last_end' = last, last_end <= last, last <= size,
             last <= PageUp(ptr + load) \/ last <= PageUp(ptr + RealizeSize),
             end' = last, place <= last,
             ptr' = place, pc' = "has_more", returned' = returned + 1
      PROVE  StreamInv'
  <2>1. ptr' <= size
    BY <1>2, <1>5, <1>7
  <2>2. /\ InputOK' /\ AtPart' /\ ReturnedInv' /\ BarrierInv'
        /\ returned' \in 0 .. Len(input)'
        /\ input' = input /\ size' = size
    BY <1>1, <1>3, <1>6, <1>7, <2>1, RecordReturned
  <2>3. last <= PageUp(place + RealizeSize)
    <3>1. ptr + load <= place + RealizeSize
      <4> HIDE DEF load
      <4> QED BY <1>2, <1>4
    <3> HIDE DEF place, load
    <3> QED BY <1>2, <1>4, <1>5, <1>7, <3>1, WindowKept
  <2> HIDE DEF place
  <2> QED BY <1>1, <1>2, <1>5, <1>7, <2>2, <2>3, GoesOn
<1>8. CASE place <= end
  <2>1. /\ ptr' = place /\ pc' = "has_more" /\ returned' = returned + 1
        /\ last_end' = last_end /\ end' = last_end
    <3>1. ~(place > end)
      BY <1>2, <1>5, <1>8
    <3>2. end = last_end
      BY <1>1 DEF StreamInv, WindowInv
    <3> HIDE DEF place
    <3> QED BY <3>1, <3>2 DEF AdvancePayload, place
  <2>2. place <= last_end
    BY <1>2, <1>5, <1>8
  <2> HIDE DEF place
  <2> QED BY <1>2, <1>7, <2>1, <2>2
<1>9. CASE place > end
  <2>1. PICK last \in RealizeMore(load, last_end) :
          /\ Window(last)
          /\ ptr' = IF place <= last THEN place ELSE last
          /\ returned' = IF place <= last THEN returned + 1 ELSE returned
          /\ pc' = After(load, last_end,
                         IF place <= last THEN "has_more" ELSE "ended")
    <3>1. ~(place <= end)
      BY <1>2, <1>5, <1>9
    <3> QED BY <3>1 DEF AdvancePayload
  <2>2. /\ ~MapFails(Wanted(load), last_end)
        /\ last \in Nat /\ last_end <= last /\ last <= size
        /\ last <= PageUp(ptr + load) \/ last <= PageUp(ptr + RealizeSize)
        /\ FromFile => last = size \/ place <= last
    BY <1>2, <1>4, RealizeIs
  <2>3. /\ last_end' = last /\ end' = last
        /\ pc' = IF place <= last THEN "has_more" ELSE "ended"
    BY <2>1, <2>2 DEF Window, After
  <2> HIDE DEF place
  <2>4. CASE place <= last
    BY <1>7, <2>1, <2>2, <2>3, <2>4
  <2>5. CASE ~(place <= last)
    <3>1. /\ ptr' = last /\ returned' = returned /\ pc' = "ended"
      BY <2>1, <2>3, <2>5
    <3>2. ASSUME FromFile PROVE last = size /\ NextIsCutOff
      BY <1>2, <1>3, <1>5, <2>2, <2>5, <3>2 DEF NextIsCutOff
    <3>3. ~CutInDeath
      BY <1>3 DEF CutInDeath
    <3>4. size >= MagicSize
      BY <1>1, <1>2, MagicBefore, MagicSizeAssumption
    <3> QED BY <1>1, <1>2, <2>2, <2>3, <3>1, <3>2, <3>3, <3>4, GivesUp
  <2> QED BY <2>4, <2>5
<1> QED BY <1>2, <1>5, <1>8, <1>9

\* The round that ends at a barrier had it as its last record.
LEMMA RoundEnds ==
  ASSUME StreamInv, pc \in {"barrier", "ended"}, NEW i \in 1 .. returned
  PROVE  /\ Round(i) \in Nat /\ Noted \in Int
         /\ pc = "barrier" => Round(i) <= Noted
<1>1. /\ returned \in Nat /\ i \in Nat /\ i <= returned
      /\ returned + 1 \in Nat /\ i <= returned + 1
  BY Numbers DEF StreamInv
<1>2. Round(i) \in Nat /\ Round(returned + 1) \in Nat
  BY <1>1, RoundsOrdered
<1>3. ASSUME pc = "barrier" PROVE Round(i) <= Noted
  <2>1. returned # 0 /\ IsBarrier(returned)
    BY <1>3 DEF StreamInv, ReturnedInv, IsBarrier
  <2>2. Round(returned + 1) = Round(returned) + 1 /\ Round(returned) \in Nat
    BY <1>1, <2>1, RoundAfter
  <2>3. Round(i) <= Round(returned)
    BY <1>1, RoundsOrdered
  <2>4. Noted = Round(returned + 1) - 1
    BY <1>3 DEF Noted
  <2> QED BY <1>2, <2>2, <2>3, <2>4
<1> QED BY <1>2, <1>3 DEF Noted

\* What unrealize_up_to leaves.
LEMMA Unrealized ==
  ASSUME TypeOK, InputOK, WindowInv, Barrier
  PROVE  LET up_to == last_barriers[1 - last_barriers_index]
         IN /\ last_start' \in Nat /\ last_start' % Page = 0
            /\ last_start' = last_start \/ last_start' <= up_to
            /\ last_end' \in Nat /\ last_end <= last_end' /\ last_end' <= size
            /\ last_end' = last_end \/ last_end' <= PageUp(end)
            /\ end' \in Nat /\ end' <= last_end'
            /\ end' = last_end' \/ (Running => end' <= ptr)
            /\ pc' = IF pc = "barrier" THEN "has_more" ELSE "done"
<1> DEFINE index == (last_barriers_index + 1) % 2
           up_to == last_barriers[1 - last_barriers_index]
<1>1. /\ last_start \in Nat /\ last_start % Page = 0
      /\ last_end \in Nat /\ last_end <= size /\ size \in Nat
      /\ end \in Nat /\ end = last_end /\ up_to \in Nat
      /\ up_to <= last_end /\ last_barriers_index \in 0 .. 1
  BY Numbers DEF TypeOK, WindowInv, Barrier
<1>2. index = 1 - last_barriers_index
  BY <1>1
<1>3. last_barriers[DropBarrier(index)] = up_to
  BY <1>2 DEF DropBarrier
<1> DEFINE step == IF pc = "barrier" THEN "has_more" ELSE "done"
           Drops(place, last) ==
             /\ pc' = IF UnrealizeFails(place, last) THEN "aborted" ELSE step
             /\ last_start' = Max({last_start, DropTo(place)})
             /\ last_end' = last /\ end' = last - place
<1>4. \/ pc' = step /\ UNCHANGED <<last_start, last_end, end>>
      \/ /\ up_to >= UnrealizeStep
         /\ \E place \in {up_to - Page, up_to} :
            \E last \in ReadTo(end, last_end) : Drops(place, last)
  BY <1>3 DEF Barrier, KeptTo
<1>5. CASE pc' = step /\ UNCHANGED <<last_start, last_end, end>>
  BY <1>1, <1>5
<1>6. CASE /\ up_to >= UnrealizeStep
           /\ \E place \in {up_to - Page, up_to} :
              \E last \in ReadTo(end, last_end) : Drops(place, last)
  <2> HIDE DEF up_to, Drops, step
  <2>1. PICK place \in {up_to - Page, up_to} :
          \E last \in ReadTo(end, last_end) : Drops(place, last)
    BY <1>6
  <2>2. PICK last \in ReadTo(end, last_end) : Drops(place, last)
    BY <2>1
  <2>3. place \in Nat /\ place <= up_to
    BY <1>1, <1>6, <2>1, UnrealizeStepAssumption, RealizeSizeAssumption, PageAssumption
  <2>4. /\ last \in Nat /\ last_end <= last /\ last <= size
        /\ last <= PageUp(end) \/ last = last_end
    BY <1>1, ReadIs
  <2>5. last - place \in Nat /\ last - place <= last
    BY <1>1, <2>3, <2>4
  <2>6. ~UnrealizeFails(place, last)
    BY <1>1, <2>3, <2>4, PageUpIs DEF UnrealizeFails, KeptTo, MapFails
  <2>7. pc' = step /\ last_end' = last /\ end' = last - place
    BY <2>2, <2>6 DEF Drops
  <2>8. ASSUME Running PROVE last - place <= ptr
    <3> DEFINE ahead == ptr + RealizeSize
    <3>1. ptr \in Nat /\ ahead \in Nat /\ last_end <= PageUp(ahead)
      BY <2>8, Numbers, RealizeSizeAssumption
    <3>2. PageUp(ahead) \in Nat /\ PageUp(end) <= PageUp(ahead) /\ PageUp(end) \in Nat
      BY <1>1, <3>1, PageUpBelow, PageUpIs
    <3>3. last <= PageUp(ahead)
      BY <1>1, <2>4, <3>1, <3>2
    <3>4. PageUp(ahead) <= ahead + (Page - 1)
      <4>1. ahead + (Page - 1) \in Nat
        BY <3>1, PageAssumption
      <4> QED BY <4>1, PageDownIs DEF PageUp
    <3>5. RealizeSize + 2 * Page <= up_to /\ up_to - Page <= place
      BY <1>1, <1>6, <2>1, UnrealizeStepAssumption, RealizeSizeAssumption, PageAssumption
    <3> QED
      BY <1>1, <2>3, <2>4, <3>1, <3>2, <3>3, <3>4, <3>5, RealizeSizeAssumption,
         PageAssumption
  <2>9. /\ PageDown(place) \in Nat /\ PageDown(place) % Page = 0
        /\ PageDown(place) <= place
    BY <2>3, PageDownIs
  <2>10. /\ last_start' = last_start \/ last_start' = PageDown(place)
    <3>1. last_start' = Max({last_start, PageDown(place)})
      BY <2>2 DEF Drops, DropTo
    <3> QED BY <1>1, <2>9, <3>1, MaxOfTwo
  <2>11. PageDown(place) <= up_to
    BY <1>1, <2>3, <2>9
  <2> QED BY <1>1, <2>4, <2>5, <2>9, <2>10, <2>11, <2>7, <2>8 DEF up_to, step
<1> QED BY <1>4, <1>5, <1>6

LEMMA BarrierStep == StreamInv /\ Barrier => StreamInv'
<1> SUFFICES ASSUME StreamInv, Barrier PROVE StreamInv'
  OBVIOUS
<1> DEFINE old == last_barriers_index
           new == 1 - last_barriers_index
<1>1. /\ pc \in {"barrier", "ended"}
      /\ pc' = IF pc = "barrier" THEN "has_more" ELSE "done"
      /\ UNCHANGED <<trace_vars, ptr, word, returned>>
  BY Unrealized DEF Barrier, StreamInv
<1>2. /\ TypeOK /\ InputOK /\ WindowInv
      /\ ptr \in Nat /\ size \in Nat /\ last_end \in Nat /\ last_end <= size
      /\ ptr <= size /\ end \in Nat /\ end <= last_end /\ ptr <= last_end
      /\ old \in 0 .. 1 /\ new \in 0 .. 1 /\ word \in 1 .. 3
      /\ returned \in Nat /\ Len(input) \in Nat /\ returned <= Len(input)
      /\ last_start \in Nat /\ \A k \in 0 .. 1 : last_barriers[k] \in Nat
  BY Numbers DEF StreamInv, WindowInv
<1>3. /\ last_start' \in Nat /\ last_start' % Page = 0
      /\ last_start' = last_start \/ last_start' <= last_barriers[new]
      /\ last_end' \in Nat /\ last_end <= last_end' /\ last_end' <= size
      /\ last_end' = last_end \/ last_end' <= PageUp(end)
      /\ end' \in Nat /\ end' <= last_end'
      /\ end' = last_end' \/ (Running => end' <= ptr)
  BY <1>2, Unrealized
<1>4. /\ last_barriers' = [last_barriers EXCEPT ![new] = ptr]
      /\ last_barriers_index' = new
  <2>1. (last_barriers_index + 1) % 2 = new
    BY <1>2
  <2> HIDE DEF new
  <2> QED BY <2>1 DEF Barrier
<1>5. /\ last_barriers \in [0 .. 1 -> 0 .. size]
      /\ \A k \in 0 .. 1 : k = old \/ k = new
      /\ old # new /\ 1 - new = old
  BY <1>2 DEF TypeOK
<1>6. /\ Offset' = Offset /\ InputOK' /\ FromFile' = FromFile
      /\ size' = size /\ input' = input
      /\ \A i : Round(i)' = Round(i)
      /\ ptr' = ptr /\ word' = word /\ returned' = returned
  BY <1>1, <1>2, SameTrace
<1> HIDE DEF old, new
<1>7. /\ last_barriers'[new] = ptr /\ last_barriers'[old] = last_barriers[old]
      /\ last_barriers' \in [0 .. 1 -> 0 .. size]
  BY <1>2, <1>4, <1>5
<1>8. TypeOK'
  <2>1. pc' \in Steps
    BY <1>1 DEF Steps
  <2>2. /\ ptr \in 0 .. size /\ end' \in 0 .. size /\ last_end' \in 0 .. size
        /\ returned \in 0 .. Len(input)
    BY <1>2, <1>3
  <2> QED BY <1>2, <1>3, <1>4, <1>6, <1>7, <2>1, <2>2 DEF TypeOK
<1>9. WindowInv'
  <2>1. ptr' <= last_end'
    BY <1>2, <1>3, <1>6
  <2>2. \A k \in 0 .. 1 : last_barriers'[k] <= last_end'
    <3>1. last_barriers[old] <= last_end
      BY <1>2 DEF WindowInv
    <3>2. last_barriers[old] <= last_end'
      BY <1>2, <1>3, <3>1
    <3> QED BY <1>5, <1>6, <1>7, <2>1, <3>2
  <2>3. ASSUME Running' PROVE last_end' <= PageUp(ptr + RealizeSize)'
    <3>1. Running
      BY <1>1, <2>3 DEF Running
    <3>2. /\ ptr + RealizeSize \in Nat
          /\ last_end <= PageUp(ptr + RealizeSize) /\ end <= PageUp(ptr + RealizeSize)
      <4>1. ptr + RealizeSize \in Nat
        BY <1>2, RealizeSizeAssumption
      <4>2. PageUp(ptr + RealizeSize) \in Nat /\ last_end <= PageUp(ptr + RealizeSize)
        BY <1>2, <3>1, <4>1, PageUpIs DEF WindowInv
      <4> QED BY <1>2, <4>1, <4>2
    <3>3. /\ PageUp(end) <= PageUp(ptr + RealizeSize)
          /\ PageUp(end) \in Nat /\ PageUp(ptr + RealizeSize) \in Nat
      BY <1>2, <3>2, PageUpBelow, PageUpIs
    <3>4. last_end' <= PageUp(ptr + RealizeSize)
      BY <1>3, <3>2, <3>3
    <3> QED BY <1>6, <3>4 DEF PageUp, PageDown
  <2>4. pc' = "has_more" => end' = last_end' \/ end' <= ptr'
    BY <1>1, <1>3, <1>6 DEF Running
  <2> QED BY <1>1, <1>3, <2>1, <2>2, <2>3, <2>4 DEF WindowInv
<1>10. AtPart'
  BY <1>1, <1>6 DEF StreamInv, AtPart
<1>11. ReturnedInv'
  BY <1>1, <1>6 DEF StreamInv, ReturnedInv
<1>12. ASSUME NEW i \in 1 .. returned
       PROVE  /\ Round(i) \in Nat /\ Noted \in Int /\ Offset[i] \in Nat
              /\ Round(i) >= Noted => last_barriers[old] <= Offset[i]
              /\ Round(i) >= Noted - 1 => last_start' <= Offset[i]
  <2>1. Round(i) \in Nat /\ Noted \in Int
    BY <1>1, RoundEnds
  <2>2. Offset[i] \in Nat
    <3>1. i \in 1 .. Len(input) + 1
      BY <1>2
    <3> QED BY <1>2, <3>1, Offsets
  <2>3. /\ Round(i) >= Noted => last_barriers[old] <= Offset[i]
        /\ Round(i) >= Noted - 1 => last_barriers[new] <= Offset[i]
        /\ Round(i) >= Noted - 2 => last_start <= Offset[i]
    BY <1>1 DEF StreamInv, BarrierInv, old, new
  <2>4. ASSUME Round(i) >= Noted - 1 PROVE last_start' <= Offset[i]
    <3>1. Round(i) >= Noted - 2
      BY <2>1, <2>4
    <3>2. last_start <= Offset[i] /\ last_barriers[new] <= Offset[i]
      BY <2>3, <2>4, <3>1
    <3>3. last_barriers[new] \in Nat /\ last_start \in Nat
      BY <1>2
    <3> QED BY <1>3, <2>2, <3>2, <3>3
  <2> QED BY <2>1, <2>2, <2>3, <2>4
<1>13. BarrierInv'
  <2>1. CASE pc = "barrier"
    <3>1. pc' = "has_more" /\ Running /\ ptr = Offset[returned + 1]
      BY <1>1, <2>1 DEF Running, StreamInv, AtPart
    <3>2. Noted' = Noted + 1
      <4>1. Round(returned + 1) \in Nat
        <5>1. returned + 1 \in Nat
          BY <1>2
        <5> QED BY <5>1, RoundsOrdered
      <4>2. Noted = Round(returned + 1) - 1
        BY <2>1 DEF Noted
      <4>3. Noted' = Round(returned + 1) - 0
        BY <1>6, <3>1 DEF Noted
      <4> QED BY <4>1, <4>2, <4>3
    <3>3. /\ last_start' <= Offset[returned + 1]
          /\ \A k \in 0 .. 1 : last_barriers'[k] <= Offset[returned + 1]
      <4>1. /\ last_start <= Offset[returned + 1]
            /\ last_barriers[new] <= Offset[returned + 1]
            /\ last_barriers[old] <= Offset[returned + 1]
        BY <1>2, <3>1 DEF StreamInv, BarrierInv
      <4>2. last_start' <= Offset[returned + 1]
        <5>1. last_barriers[new] \in Nat /\ last_start \in Nat /\ ptr \in Nat
          BY <1>2
        <5> QED BY <1>3, <3>1, <4>1, <5>1
      <4>3. ptr <= Offset[returned + 1]
        BY <1>2, <3>1
      <4> QED BY <1>5, <1>7, <4>1, <4>2, <4>3
    <3>4. ASSUME NEW i \in 1 .. returned
          PROVE  /\ ~(Round(i) >= Noted')
                 /\ Round(i) >= Noted' - 1 => last_barriers'[1 - new] <= Offset[i]
                 /\ Round(i) >= Noted' - 2 => last_start' <= Offset[i]
      <4>1. /\ Round(i) \in Nat /\ Noted \in Int /\ Round(i) <= Noted
        BY <1>1, <2>1, RoundEnds
      <4>2. Noted' - 1 = Noted /\ Noted' - 2 = Noted - 1 /\ ~(Round(i) >= Noted')
        BY <3>2, <4>1
      <4> QED BY <1>5, <1>7, <1>12, <4>2
    <3> QED BY <1>4, <1>6, <3>1, <3>3, <3>4 DEF BarrierInv
  <2>2. CASE pc = "ended"
    <3>1. pc' = "done" /\ ~Running'
      BY <1>1, <2>2 DEF Running
    <3>2. Noted' = Noted
      BY <1>6, <2>2, <3>1 DEF Noted
    <3> QED BY <1>6, <1>12, <3>1, <3>2 DEF BarrierInv
  <2> QED BY <1>1, <2>1, <2>2
<1>14. ASSUME FromFile' PROVE GivesUpLast'
  <2>1. CASE pc = "barrier"
    <3>1. pc' = "has_more"
      BY <1>1, <2>1
    <3> QED BY <3>1 DEF GivesUpLast, PanicsOnCutDeath
  <2>2. CASE pc = "ended"
    <3>1. pc' = "done" /\ NextIsCutOff
      BY <1>1, <1>6, <1>14, <2>2 DEF StreamInv, GivesUpLast
    <3> QED BY <1>6, <3>1 DEF GivesUpLast, NextIsCutOff, PanicsOnCutDeath
  <2> QED BY <1>1, <2>1, <2>2
<1>15. pc' # "aborted"
  BY <1>1
<1> QED BY <1>6, <1>8, <1>9, <1>10, <1>11, <1>13, <1>14, <1>15 DEF StreamInv

LEMMA UnsetEventStep == StreamInv /\ UnsetEvent => StreamInv'
<1> SUFFICES ASSUME StreamInv, UnsetEvent PROVE StreamInv'
  OBVIOUS
<1>1. /\ pc = "ended" /\ pc' = "done" /\ ~Running'
      /\ UNCHANGED <<trace_vars, barrier_vars, last_end, ptr, end, word, returned>>
  BY DEF UnsetEvent, Running
<1>2. /\ Offset' = Offset /\ InputOK' /\ FromFile' = FromFile
      /\ size' = size /\ input' = input
      /\ \A i : Round(i)' = Round(i)
  BY <1>1, SameTrace DEF StreamInv
<1>3. /\ last_start' = last_start /\ last_barriers' = last_barriers
      /\ last_barriers_index' = last_barriers_index
  BY <1>1 DEF barrier_vars
<1>4. TypeOK'
  BY <1>1, <1>2, <1>3 DEF StreamInv, TypeOK, Steps
<1>5. WindowInv' /\ AtPart'
  BY <1>1, <1>3 DEF StreamInv, WindowInv, AtPart
<1>6. ReturnedInv'
  BY <1>1, <1>2 DEF StreamInv, ReturnedInv
<1>7. BarrierInv'
  <2>1. Noted' = Noted
    BY <1>1, <1>2 DEF Noted
  <2>2. ASSUME NEW i \in 1 .. returned, Round(i) >= Noted - 1
        PROVE  last_start <= Offset[i]
    <3>1. Round(i) \in Nat /\ Noted \in Int
      BY <1>1, RoundEnds
    <3>2. Round(i) >= Noted - 2
      BY <2>2, <3>1
    <3> QED BY <1>1, <3>2 DEF StreamInv, BarrierInv
  <2> QED BY <1>1, <1>2, <1>3, <2>1, <2>2 DEF BarrierInv
<1>8. ASSUME FromFile' PROVE GivesUpLast'
  <2>1. NextIsCutOff
    BY <1>1, <1>2, <1>8 DEF StreamInv, GivesUpLast
  <2> QED BY <1>1, <1>2, <2>1 DEF GivesUpLast, NextIsCutOff, PanicsOnCutDeath
<1> QED BY <1>1, <1>2, <1>4, <1>5, <1>6, <1>7, <1>8 DEF StreamInv

LEMMA StreamUnchanged == StreamInv /\ UNCHANGED vars => StreamInv'
<1> SUFFICES ASSUME StreamInv, UNCHANGED vars PROVE StreamInv'
  OBVIOUS
<1>1. /\ UNCHANGED trace_vars
      /\ input' = input /\ size' = size /\ last_start' = last_start
      /\ last_barriers' = last_barriers
      /\ last_barriers_index' = last_barriers_index /\ last_end' = last_end
      /\ ptr' = ptr /\ end' = end /\ pc' = pc /\ word' = word
      /\ returned' = returned
  BY DEF vars, trace_vars, barrier_vars
<1>2. /\ Offset' = Offset /\ InputOK' = InputOK /\ FromFile' = FromFile
      /\ \A i : Round(i)' = Round(i)
  BY <1>1, SameTrace
<1>3. TypeOK' = TypeOK
  BY <1>1 DEF TypeOK
<1>4. WindowInv' = WindowInv
  BY <1>1 DEF WindowInv, Running, PageUp, PageDown
<1>5. AtPart' = AtPart
  BY <1>1, <1>2 DEF AtPart, Record
<1>6. ReturnedInv' = ReturnedInv
  BY <1>1, <1>2 DEF ReturnedInv
<1>7. BarrierInv' = BarrierInv
  <2>1. Noted' = Noted
    BY <1>1, <1>2 DEF Noted
  <2> QED BY <1>1, <1>2, <2>1 DEF BarrierInv, Running
<1>8. GivesUpLast' = GivesUpLast
  BY <1>1, <1>2 DEF GivesUpLast, NextIsCutOff, PanicsOnCutDeath, CutInDeath, Record
<1> QED BY <1>1, <1>2, <1>3, <1>4, <1>5, <1>6, <1>7, <1>8 DEF StreamInv

LEMMA StreamStep == StreamInv /\ [Next]_vars => StreamInv'
<1> SUFFICES ASSUME StreamInv, [Next]_vars PROVE StreamInv'
  OBVIOUS
<1>1. CASE SkipMagic BY <1>1, SkipMagicStep
<1>2. CASE HasMore BY <1>2, HasMoreStep
<1>3. CASE ReadVarint BY <1>3, ReadVarintStep
<1>4. CASE AdvancePayload BY <1>4, AdvancePayloadStep
<1>5. CASE Barrier BY <1>5, BarrierStep
<1>6. CASE UnsetEvent BY <1>6, UnsetEventStep
<1>7. CASE Finished \/ UNCHANGED vars BY <1>7, StreamUnchanged DEF Finished
<1> QED BY <1>1, <1>2, <1>3, <1>4, <1>5, <1>6, <1>7 DEF Next

LEMMA StreamInit == Init => StreamInv
<1> SUFFICES ASSUME Init PROVE StreamInv
  OBVIOUS
<1>1. /\ InputOK /\ last_start = 0 /\ last_end = 0 /\ ptr = 0 /\ end = 0
      /\ pc = "magic" /\ word = 1 /\ returned = 0
      /\ last_barriers = [i \in 0 .. 1 |-> 0]
      /\ last_barriers_index = 0
  BY DEF Init, InputOK
<1>2. /\ Len(input) \in Nat /\ size \in Nat
      /\ Offset[1] = MagicSize /\ MagicSize \in Nat
  <2>1. Offset[Len(input) + 1] \in Nat /\ Len(input) \in Nat
    BY <1>1, Offsets
  <2> QED BY <1>1, <2>1, Offsets, MagicSizeAssumption DEF InputOK
<1>3. \A k \in 0 .. 1 : last_barriers[k] = 0
  BY <1>1
<1>4. TypeOK
  <2>1. last_start % Page = 0
    <3>1. /\ PageDown(0) \in Nat /\ PageDown(0) % Page = 0 /\ PageDown(0) <= 0
      BY PageDownIs
    <3>2. PageDown(0) = 0
      BY <3>1
    <3> QED BY <1>1, <3>1, <3>2
  <2>2. last_barriers \in [0 .. 1 -> 0 .. size]
    BY <1>1, <1>2
  <2> QED BY <1>1, <1>2, <2>1, <2>2 DEF TypeOK, Steps
<1>5. WindowInv
  <2>1. PageUp(0 + RealizeSize) \in Nat
    BY RealizeSizeAssumption, PageUpIs
  <2> QED BY <1>1, <1>3, <2>1 DEF WindowInv
<1>6. AtPart /\ ReturnedInv
  BY <1>1 DEF AtPart, ReturnedInv
<1>7. BarrierInv
  <2>1. returned + 1 = 1 /\ 1 .. returned = {}
    BY <1>1
  <2> QED BY <1>1, <1>2, <1>3, <2>1 DEF BarrierInv
<1>8. GivesUpLast
  BY <1>1 DEF GivesUpLast, PanicsOnCutDeath
<1> QED BY <1>1, <1>4, <1>5, <1>6, <1>7, <1>8 DEF StreamInv

(***************************************************************************)
(* What it gives.                                                          *)
(***************************************************************************)

\* The inductive invariant: what SerializeMallocEvents' input keeps true from
\* one step of OuterEvStream, MemStream and FDInputMapper to the next.
THEOREM StreamInvariance == Spec => []StreamInv
<1> QED BY StreamInit, StreamStep, PTL DEF Spec

\* The places stay inside what the input has, and what is mapped starts at a
\* page (FDInputMapper and MemStream).
THEOREM StreamTypeCorrect == Spec => []TypeOK
<1>1. StreamInv => TypeOK
  BY DEF StreamInv
<1> QED BY <1>1, StreamInvariance, PTL

\* However little each read() returns, unrealize_up_to leaves the payloads of
\* the Bufs of the last round, and of the one before it, mapped.
THEOREM BufsOfTwoRoundsMapped == Spec => []BufsStayMapped
<1>1. StreamInv => BufsStayMapped
  <2> SUFFICES ASSUME StreamInv, NEW i \in 1 .. returned, Round(i) >= Rounds - 2
               PROVE  Offset[i + 1] - input[i].payload >= last_start
    BY DEF BufsStayMapped
  <2>1. /\ returned \in Nat /\ Len(input) \in Nat /\ returned <= Len(input)
        /\ last_start \in Nat /\ InputOK
    BY Numbers DEF StreamInv
  <2>2. i \in 1 .. Len(input) /\ i \in 1 .. Len(input) + 1 /\ i \in Nat
    BY <2>1
  <2>3. Round(i) \in Nat /\ Round(returned + 1) \in Nat
    <3>1. returned + 1 \in Nat /\ i <= returned + 1
      BY <2>1
    <3> QED BY <2>2, <3>1, RoundsOrdered
  <2>4. last_start <= Offset[i]
    <3>1. CASE pc = "done"
      <4>1. Rounds = Round(returned + 1) + 1 /\ Noted = Round(returned + 1) - 0
        BY <3>1 DEF Rounds, Noted
      <4>2. Round(i) >= Noted - 1
        BY <2>3, <4>1
      <4> QED BY <3>1, <4>2 DEF StreamInv, BarrierInv
    <3>2. CASE pc # "done"
      <4>1. /\ Rounds = Round(returned + 1) + 0
            /\ Noted = Round(returned + 1) - IF pc = "barrier" THEN 1 ELSE 0
        BY <3>2 DEF Rounds, Noted
      <4>2. Round(i) >= Noted - 2
        BY <2>3, <4>1
      <4> QED BY <3>2, <4>2 DEF StreamInv, BarrierInv
    <3> QED BY <3>1, <3>2
  <2> DEFINE record == input[i]
             n == Len(record.words)
             head == Ends(0, record.words)[n]
             load == record.payload
  <2>5. /\ Offset[i] \in Nat /\ Offset[i + 1] = Offset[i] + (head + load)
        /\ head \in Nat /\ load \in Nat
    <3>1. /\ n \in 1 .. 3 /\ EndsUpTo(Ends(0, record.words), 0, record.words, n)
          /\ RecordLength(record) = head + load /\ load \in Nat
      BY <2>1, <2>2, RecordParts
    <3>2. head \in Nat
      <4> HIDE DEF n
      <4>1. n \in 0 .. n
        BY <3>1
      <4> QED BY <3>1, <4>1 DEF EndsUpTo
    <3> QED BY <2>1, <2>2, <3>1, <3>2, Offsets
  <2> HIDE DEF head, load
  <2>6. Offset[i + 1] - load >= last_start
    BY <2>1, <2>4, <2>5
  <2> QED BY <2>6 DEF load
<1> QED BY <1>1, StreamInvariance, PTL

\* The input does not change.
LEMMA StaysFromFile == FromFile /\ [][Next]_vars => []FromFile
<1>1. FromFile /\ [Next]_vars => FromFile'
  <2>1. [Next]_vars => size' = size
    BY DEF Next, SkipMagic, HasMore, ReadVarint, AdvancePayload, Barrier,
           UnsetEvent, Finished, trace_vars, vars
  <2> QED BY <2>1 DEF FromFile
<1> QED BY <1>1, PTL

\* When each read() returns all it can, as that of a file does, no varint is
\* decoded from bytes that were not there, and no Realize fails, that of
\* unrealize_up_to included.
THEOREM NothingMisreadFromFile == FromFile /\ Spec => []NothingMisread
<1>1. FromFile /\ StreamInv => NothingMisread
  BY DEF StreamInv, GivesUpLast, NothingMisread
<1> QED BY <1>1, StaysFromFile, StreamInvariance, PTL DEF Spec

\* Then OuterEvStream::next panics only where the input ends inside the magic
\* or the second word of a Death, and there it does.
THEOREM PanicsOnCutDeathFromFile == FromFile /\ Spec => []PanicsOnCutDeath
<1>1. FromFile /\ StreamInv => PanicsOnCutDeath
  BY DEF StreamInv, GivesUpLast
<1> QED BY <1>1, StaysFromFile, StreamInvariance, PTL DEF Spec

\* Then OuterEvStream::next gives an input up, with a panic or without, only
\* where the input has ended.
THEOREM GivesUpAtEndOfFile == FromFile /\ Spec => []GivesUpAtEndOfData
<1>1. FromFile /\ StreamInv => GivesUpAtEndOfData
  BY DEF StreamInv, GivesUpLast, GivesUpAtEndOfData
<1> QED BY <1>1, StaysFromFile, StreamInvariance, PTL DEF Spec

\* The records returned are those that the input has in full, up to its End,
\* once the input has been given up because there is no more of it.
LEMMA ReturnedIsComplete ==
  ASSUME StreamInv, FromFile, pc \in {"ended", "done", "panicked"}
  PROVE  returned = Cardinality(Complete)
<1>1. /\ returned \in Nat /\ Len(input) \in Nat /\ returned <= Len(input)
      /\ size \in Nat /\ InputOK
  BY Numbers DEF StreamInv
<1>2. \/ returned = Len(input) \/ size < Offset[returned + 2]
      \/ returned # 0 /\ input[returned].type = "End"
  BY DEF StreamInv, GivesUpLast, NextIsCutOff
<1>3. /\ \A i \in 1 .. Len(input) + 1 : Offset[i] \in Nat
      /\ \A i, j \in 1 .. Len(input) + 1 : i <= j => Offset[i] <= Offset[j]
  BY <1>1, Offsets
<1>4. ASSUME NEW i \in 1 .. returned PROVE i \in Complete
  <2>1. /\ i \in 1 .. Len(input) /\ i + 1 \in 1 .. Len(input) + 1
        /\ returned + 1 \in 1 .. Len(input) + 1 /\ i + 1 <= returned + 1
        /\ returned # 0
    BY <1>1
  <2>2. Offset[i + 1] <= size
    <3>1. Offset[returned + 1] <= size
      BY <2>1 DEF StreamInv, ReturnedInv
    <3>2. /\ Offset[i + 1] <= Offset[returned + 1]
          /\ Offset[i + 1] \in Nat /\ Offset[returned + 1] \in Nat
      BY <1>3, <2>1
    <3> QED BY <1>1, <3>1, <3>2
  <2>3. ASSUME NEW j \in 1 .. i - 1 PROVE input[j].type # "End"
    <3>1. j \in 1 .. returned /\ j # returned
      BY <1>1
    <3> QED BY <3>1 DEF StreamInv, ReturnedInv
  <2> QED BY <2>1, <2>2, <2>3 DEF Complete
<1>5. ASSUME NEW i \in Complete PROVE i \in 1 .. returned
  <2>1. /\ i \in 1 .. Len(input) /\ Offset[i + 1] <= size
        /\ \A j \in 1 .. i - 1 : input[j].type # "End"
    BY DEF Complete
  <2>2. SUFFICES ASSUME returned < i PROVE FALSE
    BY <1>1, <2>1
  <2>3. returned # Len(input)
    BY <1>1, <2>1, <2>2
  <2>4. ~(size < Offset[returned + 2])
    <3>1. /\ i + 1 \in 1 .. Len(input) + 1 /\ returned + 2 \in 1 .. Len(input) + 1
          /\ returned + 2 <= i + 1
      BY <1>1, <2>1, <2>2
    <3>2. /\ Offset[returned + 2] <= Offset[i + 1]
          /\ Offset[i + 1] \in Nat /\ Offset[returned + 2] \in Nat
      BY <1>3, <3>1
    <3> QED BY <1>1, <2>1, <3>2
  <2>5. ~(returned # 0 /\ input[returned].type = "End")
    <3>1. returned # 0 => returned \in 1 .. i - 1
      BY <1>1, <2>1, <2>2
    <3> QED BY <2>1, <3>1
  <2> QED BY <1>2, <2>3, <2>4, <2>5
<1>6. Complete = 1 .. returned
  BY <1>4, <1>5
<1>7. Cardinality(1 .. returned) = returned
  <2>1. Cardinality(1 .. returned)
          = IF 1 > returned THEN 0 ELSE returned - 1 + 1
    BY <1>1, FS_Interval
  <2> QED BY <1>1, <2>1
<1> QED BY <1>6, <1>7

\* Then neither the window that unrealize_up_to leaves behind the position nor
\* an input that ends inside a record loses one.
THEOREM EveryRecordReadFromFile == FromFile /\ Spec => []ReadsEveryRecord
<1>1. FromFile /\ StreamInv => ReadsEveryRecord
  BY ReturnedIsComplete DEF ReadsEveryRecord
<1> QED BY <1>1, StaysFromFile, StreamInvariance, PTL DEF Spec
=============================================================================
