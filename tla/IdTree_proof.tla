----------------------------- MODULE IdTree_proof -----------------------------
(***************************************************************************)
(* Proofs about IdTree, for every width of a word: the summaries are       *)
(* right, the tree grows by the next word of each level, and the id that   *)
(* is handed out is the least one that is free.                            *)
(*                                                                         *)
(* The four levels are related in pairs, a level and the one above it; the *)
(* lemmas are about such a pair.                                           *)
(***************************************************************************)
EXTENDS IdTree, FiniteSetTheorems, WellFoundedInduction, TLAPS

(***************************************************************************)
(* Places.  A bit's place in a level is W times the place of its word,     *)
(* plus its place there.                                                   *)
(***************************************************************************)

\* A word has a bit.
LEMMA FirstBit == 0 \in Bits
BY WAssumption DEF Bits

\* Bits are numbers.
LEMMA BitsAreNat == Bits \subseteq Nat
BY WAssumption DEF Bits

\* The word and the bit of a place (the / 64 and % 64 of set_bit_vector).
LEMMA PlaceParts ==
  ASSUME NEW i \in Nat
  PROVE  /\ i \div W \in Nat /\ i % W \in Bits
         /\ i = (i \div W) * W + (i % W)
BY WAssumption DEF Bits

\* A place is that of one word and one bit.
LEMMA PlaceIs ==
  ASSUME NEW p \in Nat, NEW b \in Bits
  PROVE  /\ p * W + b \in Nat
         /\ (p * W + b) \div W = p
         /\ (p * W + b) % W = b
BY WAssumption DEF Bits

\* Places in the first n words.
LEMMA PlacesBelow ==
  ASSUME NEW n \in Nat, NEW i \in Nat
  PROVE  i < W * n <=> i \div W < n
BY WAssumption DEF Bits

\* Places before one: they are in a word before, or before it in its word.
LEMMA PlacesBefore ==
  ASSUME NEW p \in Nat, NEW b \in Bits, NEW q \in Nat, q = p * W + b,
         NEW i \in Nat, i < q
  PROVE  i \div W < p \/ (i \div W = p /\ i % W < b)
<1>1. /\ i \div W \in Nat /\ i % W \in Nat /\ i = (i \div W) * W + (i % W)
      /\ b \in Nat /\ b < W /\ W \in Nat
  BY PlaceParts, WAssumption DEF Bits
<1>2. i \div W < p + 1
  <2>1. i < W * (p + 1)
    BY <1>1
  <2> QED BY <2>1, PlacesBelow
<1>3. i \div W = p => i % W < b
  BY <1>1
<1> QED BY <1>1, <1>2, <1>3

\* Numbers of which there are any have a least one, and that is their Min.
LEMMA LeastOne ==
  ASSUME NEW S \in SUBSET Nat, S # {}
  PROVE  Min(S) \in S /\ \A n \in S : Min(S) <= n
<1>1. PICK m \in S : \A n \in S : <<n, m>> \notin OpToRel(<, Nat)
  BY NatLessThanWellFounded, WFMin
<1>2. \A n \in S : ~(n < m)
  BY <1>1 DEF OpToRel
<1>3. \A n \in S : m <= n
  BY <1>2
<1> QED BY <1>3 DEF Min

(***************************************************************************)
(* Two levels.                                                             *)
(***************************************************************************)

Vectors == Seq(SUBSET Bits)

\* The bits of hi say which words of lo are not zero, or not there; there is a
\* bit for each that is.
Summarizes(hi, lo) ==
  \A i \in Nat :
    /\ i < Len(lo) => i \div W < Len(hi)
    /\ i \div W < Len(hi) =>
         (i % W \in hi[i \div W + 1] <=> i >= Len(lo) \/ lo[i + 1] # {})

TreeInv ==
  /\ TypeOK
  /\ \A k \in Levels \ {3} : Summarizes(level[k + 1], level[k])

\* No word before place p is zero, the one there is not.
Reached(v, p) ==
  /\ p \in 0 .. Len(v)
  /\ \A i \in 0 .. p - 1 : v[i + 1] = {}
  /\ p < Len(v) => v[p + 1] # {}

\* The first word (find_set_bit).
LEMMA FirstWordReached ==
  ASSUME NEW v \in Vectors
  PROVE  Reached(v, FirstWord(v))
<1> DEFINE S == {i \in 0 .. Len(v) : i = Len(v) \/ v[i + 1] # {}}
           p == FirstWord(v)
<1>1. S \in SUBSET Nat /\ Len(v) \in S /\ p = Min(S)
  BY DEF Vectors, FirstWord
<1>2. p \in S /\ \A n \in S : p <= n
  <2> HIDE DEF S, p
  <2> QED BY <1>1, LeastOne
<1> HIDE DEF p
<1>3. p \in 0 .. Len(v) /\ (p < Len(v) => v[p + 1] # {})
  BY <1>2 DEF Vectors
<1>4. \A i \in 0 .. p - 1 : i \notin S
  BY <1>2, <1>3 DEF Vectors
<1> QED BY <1>3, <1>4 DEF Reached, Vectors, p

\* The bit chosen is one of the word, the first one that is set if there is
\* the word.
LEMMA BitChosen ==
  ASSUME TypeOK, NEW k \in Levels, NEW p \in Nat, Reached(level[k], p)
  PROVE  /\ Bsf(k, p) \in Bits
         /\ Missing(k, p) => Bsf(k, p) = 0
         /\ ~Missing(k, p) => /\ Bsf(k, p) \in level[k][p + 1]
                              /\ \A b \in level[k][p + 1] : Bsf(k, p) <= b
<1>1. level[k] \in Vectors
  BY DEF TypeOK, Vectors
<1>2. CASE Missing(k, p)
  BY <1>2, WAssumption DEF Bsf, Bits
<1>3. CASE ~Missing(k, p)
  <2>1. level[k][p + 1] \in SUBSET Bits /\ level[k][p + 1] # {}
    BY <1>1, <1>3 DEF Missing, Reached, Vectors
  <2>2. level[k][p + 1] \in SUBSET Nat
    BY <2>1 DEF Bits
  <2> QED BY <1>3, <2>1, <2>2, LeastOne DEF Bsf
<1> QED BY <1>2, <1>3

\* The way from the first word of a level that is not zero leads to that of the
\* level under it.  From a word that is missing it leads to one that is
\* missing, and the level under it has all its words.
LEMMA WayDown ==
  ASSUME NEW hi \in Vectors, NEW lo \in Vectors, Summarizes(hi, lo),
         NEW p \in Nat, Reached(hi, p),
         NEW b \in Bits, p = Len(hi) => b = 0,
         p < Len(hi) => b \in hi[p + 1] /\ \A c \in hi[p + 1] : b <= c
  PROVE  /\ p * W + b \in Nat
         /\ Reached(lo, p * W + b)
         /\ p = Len(hi) => p * W + b = Len(lo) /\ Len(lo) = W * Len(hi)
<1>1. PICK q \in Nat : q = p * W + b
  BY PlaceIs
<1>2. /\ Len(hi) \in Nat /\ Len(lo) \in Nat /\ W \in Nat /\ p <= Len(hi)
      /\ \A i \in 0 .. p - 1 : hi[i + 1] = {}
  <2>1. Len(hi) \in Nat /\ Len(lo) \in Nat
    BY DEF Vectors
  <2>2. p \in 0 .. Len(hi) /\ \A i \in 0 .. p - 1 : hi[i + 1] = {}
    BY DEF Reached
  <2>3. p <= Len(hi)
    BY <2>1, <2>2
  <2>4. W \in Nat
    BY WAssumption
  <2> QED BY <2>1, <2>2, <2>3, <2>4, Zenon
<1>3. q \div W = p /\ q % W = b
  BY <1>1, PlaceIs
<1>4. ASSUME NEW i \in 0 .. q - 1 PROVE i < Len(lo) /\ lo[i + 1] = {}
  <2>1. i \in Nat /\ i \div W \in Nat /\ i % W \in Nat /\ b \in Nat
    <3>1. i \in Nat
      OBVIOUS
    <3>2. i \div W \in Nat /\ i % W \in Bits
      BY <3>1, PlaceParts
    <3> QED BY <3>1, <3>2, BitsAreNat
  <2>2. i \div W < p \/ (i \div W = p /\ i % W < b)
    <3>1. i < q
      BY <2>1
    <3> QED BY <1>1, <2>1, <3>1, PlacesBefore
  <2>3. i \div W < Len(hi) /\ i % W \notin hi[i \div W + 1]
    <3>1. CASE i \div W < p
      <4>1. hi[i \div W + 1] = {}
        BY <1>2, <2>1, <3>1
      <4> QED BY <1>2, <2>1, <3>1, <4>1
    <3>2. CASE i \div W = p /\ i % W < b
      BY <1>2, <2>1, <3>2
    <3> QED BY <2>2, <3>1, <3>2
  <2>4. ~ (i >= Len(lo) \/ lo[i + 1] # {})
    BY <2>1, <2>3, Zenon DEF Summarizes
  <2> QED BY <1>2, <2>1, <2>4
<1>5. q <= Len(lo)
  <2>1. CASE q = 0
    BY <1>2, <2>1
  <2>2. CASE q # 0
    <3>1. q - 1 \in 0 .. q - 1
      BY <2>2
    <3> QED BY <1>2, <1>4, <3>1
  <2> QED BY <2>1, <2>2
<1>6. ASSUME q < Len(lo) PROVE p < Len(hi) /\ lo[q + 1] # {}
  BY <1>2, <1>3, <1>6 DEF Summarizes
<1>7. ASSUME p = Len(hi) PROVE q = Len(lo) /\ Len(lo) = W * Len(hi)
  <2>1. q = Len(lo)
    BY <1>2, <1>5, <1>6, <1>7
  <2> QED BY <1>1, <1>2, <1>7, <2>1
<1>8. Reached(lo, q)
  BY <1>2, <1>4, <1>5, <1>6 DEF Reached
<1> QED BY <1>1, <1>7, <1>8, Zenon

(***************************************************************************)
(* The way down all levels.                                                *)
(***************************************************************************)

\* Path is what it says it is.
LEMMA PathIs ==
  Path = [k \in Levels |->
            IF k = 3 THEN FirstWord(level[3])
            ELSE Path[k + 1] * W + Bsf(k + 1, Path[k + 1])]
<1> DEFINE p3 == FirstWord(level[3])
           p2 == p3 * W + Bsf(3, p3)
           p1 == p2 * W + Bsf(2, p2)
           p0 == p1 * W + Bsf(1, p1)
           path == [k \in Levels |-> IF k = 3 THEN p3 ELSE IF k = 2 THEN p2
                                     ELSE IF k = 1 THEN p1 ELSE p0]
<1> HIDE DEF p0, p1, p2, p3
<1>1. path = [k \in Levels |->
                IF k = 3 THEN FirstWord(level[3])
                ELSE path[k + 1] * W + Bsf(k + 1, path[k + 1])]
  <2>1. /\ path[0] = p0 /\ path[1] = p1 /\ path[2] = p2 /\ path[3] = p3
    BY DEF Levels
  <2>2. \A k \in Levels : k = 0 \/ k = 1 \/ k = 2 \/ k = 3
    BY DEF Levels
  <2>3. ASSUME NEW k \in Levels
        PROVE  path[k] = IF k = 3 THEN FirstWord(level[3])
                         ELSE path[k + 1] * W + Bsf(k + 1, path[k + 1])
    <3>1. CASE k = 3
      BY <2>1, <3>1 DEF p3
    <3>2. CASE k = 2
      BY <2>1, <3>2 DEF p2
    <3>3. CASE k = 1
      BY <2>1, <3>3 DEF p1
    <3>4. CASE k = 0
      BY <2>1, <3>4 DEF p0
    <3> QED BY <2>2, <3>1, <3>2, <3>3, <3>4
  <2> QED BY <2>3
<1> HIDE DEF path
<1>2. \E word : word = [k \in Levels |->
                IF k = 3 THEN FirstWord(level[3])
                ELSE word[k + 1] * W + Bsf(k + 1, word[k + 1])]
  BY <1>1
<1> QED BY <1>2 DEF Path

\* Where allocate_id gets to: at each level to the first word that is not
\* zero, and from one level to the next by the bit that is chosen.
LEMMA PathReaches ==
  ASSUME TreeInv
  PROVE  \A k \in Levels :
           /\ Path[k] \in Nat /\ Bsf(k, Path[k]) \in Bits
           /\ Reached(level[k], Path[k])
           /\ k # 3 => /\ Path[k] = Path[k + 1] * W + Bsf(k + 1, Path[k + 1])
                       /\ Missing(k + 1, Path[k + 1]) =>
                            /\ Path[k] = Len(level[k])
                            /\ Len(level[k]) = W * Len(level[k + 1])
<1> DEFINE AtLevel(k) == Path[k] \in Nat /\ Reached(level[k], Path[k])
           Down(k) ==
             /\ Path[k] = Path[k + 1] * W + Bsf(k + 1, Path[k + 1])
             /\ Missing(k + 1, Path[k + 1]) =>
                  /\ Path[k] = Len(level[k])
                  /\ Len(level[k]) = W * Len(level[k + 1])
<1>1. \A k \in Levels : level[k] \in Vectors /\ Len(level[k]) \in Nat
  BY DEF TreeInv, TypeOK, Vectors
<1>2. AtLevel(3)
  <2>1. Path[3] = FirstWord(level[3])
    BY PathIs DEF Levels
  <2>2. 3 \in Levels
    BY DEF Levels
  <2> QED BY <1>1, <2>1, <2>2, FirstWordReached DEF Reached
<1>3. ASSUME NEW k \in Levels \ {3}, AtLevel(k + 1)
      PROVE  AtLevel(k) /\ Down(k)
  <2>1. k + 1 \in Levels /\ k \in Levels
    BY DEF Levels
  <2>2. Path[k] = Path[k + 1] * W + Bsf(k + 1, Path[k + 1])
    BY PathIs
  <2> DEFINE p == Path[k + 1]
             hi == level[k + 1]
             b == Bsf(k + 1, p)
  <2>3. /\ p \in Nat /\ Reached(hi, p) /\ p <= Len(hi)
        /\ Missing(k + 1, p) <=> p = Len(hi)
    BY <1>1, <1>3, <2>1 DEF Reached, Missing
  <2>4. /\ b \in Bits
        /\ p = Len(hi) => b = 0
        /\ p < Len(hi) => b \in hi[p + 1] /\ \A c \in hi[p + 1] : b <= c
    BY <1>1, <2>1, <2>3, BitChosen DEF TreeInv
  <2>5. /\ hi \in Vectors /\ level[k] \in Vectors /\ Summarizes(hi, level[k])
    BY <1>1, <2>1 DEF TreeInv
  <2> HIDE DEF p, hi, b
  <2>6. /\ p * W + b \in Nat
        /\ Reached(level[k], p * W + b)
        /\ p = Len(hi) => /\ p * W + b = Len(level[k])
                          /\ Len(level[k]) = W * Len(hi)
    BY <2>3, <2>4, <2>5, WayDown
  <2> QED BY <2>2, <2>3, <2>6 DEF p, hi, b
<1>4. AtLevel(2) /\ Down(2)
  BY <1>2, <1>3 DEF Levels
<1>5. AtLevel(1) /\ Down(1)
  BY <1>3, <1>4 DEF Levels
<1>6. AtLevel(0) /\ Down(0)
  BY <1>3, <1>5 DEF Levels
<1>7. \A k \in Levels : AtLevel(k) /\ (k # 3 => Down(k))
  <2>1. \A k \in Levels : k = 0 \/ k = 1 \/ k = 2 \/ k = 3
    BY DEF Levels
  <2> HIDE DEF AtLevel, Down
  <2> QED BY <1>2, <1>4, <1>5, <1>6, <2>1
<1>8. \A k \in Levels : Bsf(k, Path[k]) \in Bits
  BY <1>7, BitChosen DEF TreeInv
<1> QED BY <1>7, <1>8

\* The place of the id in each level (set_bit).
LEMMA PosIs ==
  ASSUME NEW id \in Nat
  PROVE  /\ Pos(id)[0] = id
         /\ \A k \in Levels \ {3} : Pos(id)[k + 1] = Pos(id)[k] \div W
<1> DEFINE x1 == id \div W
           x2 == x1 \div W
           x3 == x2 \div W
           place == [k \in Levels |-> IF k = 0 THEN id ELSE IF k = 1 THEN x1
                                      ELSE IF k = 2 THEN x2 ELSE x3]
<1>0. x1 \in Nat /\ x2 \in Nat /\ x3 \in Nat
  BY PlaceParts
<1> HIDE DEF x1, x2, x3
<1>1. place = [k \in Levels |-> IF k = 0 THEN id ELSE place[k - 1] \div W]
  <2>1. /\ place[0] = id /\ place[1] = x1 /\ place[2] = x2 /\ place[3] = x3
    BY DEF Levels
  <2>2. \A k \in Levels : k = 0 \/ k = 1 \/ k = 2 \/ k = 3
    BY DEF Levels
  <2> HIDE DEF place
  <2>3. ASSUME NEW k \in Levels
        PROVE  place[k] = IF k = 0 THEN id ELSE place[k - 1] \div W
    <3>1. CASE k = 0
      BY <2>1, <3>1
    <3>2. CASE k = 1
      BY <1>0, <2>1, <3>2 DEF x1
    <3>3. CASE k = 2
      BY <1>0, <2>1, <3>3 DEF x2
    <3>4. CASE k = 3
      BY <1>0, <2>1, <3>4 DEF x3
    <3> QED BY <2>2, <3>1, <3>2, <3>3, <3>4
  <2> QED BY <2>3 DEF place
<1> HIDE DEF place
<1>2. \E pos : pos = [k \in Levels |-> IF k = 0 THEN id ELSE pos[k - 1] \div W]
  BY <1>1
<1>3. Pos(id) = [k \in Levels |-> IF k = 0 THEN id ELSE Pos(id)[k - 1] \div W]
  BY <1>2 DEF Pos
<1>4. /\ 0 \in Levels
      /\ \A k \in Levels \ {3} : k + 1 \in Levels /\ k + 1 # 0 /\ (k + 1) - 1 = k
  BY DEF Levels
<1> HIDE DEF place
<1>5. \A k \in Levels : Pos(id)[k] = IF k = 0 THEN id ELSE Pos(id)[k - 1] \div W
  BY <1>3
<1> QED BY <1>4, <1>5

\* The id handed out is the bit chosen at level 0, and its places in the other
\* levels are the bits chosen there.
LEMMA IdPlaces ==
  ASSUME TreeInv
  PROVE  LET id == IdAt(Path)
         IN /\ id \in Nat
            /\ \A k \in Levels :
                 /\ Pos(id)[k] = Path[k] * W + Bsf(k, Path[k])
                 /\ Pos(id)[k] \div W = Path[k]
                 /\ BitOf(id, k) = Bsf(k, Path[k])
<1> DEFINE id == IdAt(Path)
           b(k) == Bsf(k, Path[k])
           AtPlace(k) == Pos(id)[k] = Path[k] * W + b(k)
<1>1. \A k \in Levels : /\ Path[k] * W + b(k) \in Nat
                        /\ (Path[k] * W + b(k)) \div W = Path[k]
                        /\ (Path[k] * W + b(k)) % W = b(k)
  BY PathReaches, PlaceIs
<1>2. id \in Nat
  <2>1. 0 \in Levels
    BY DEF Levels
  <2> QED BY <1>1, <2>1 DEF IdAt
<1>3. AtPlace(0)
  BY <1>2, PosIs DEF IdAt
<1>4. ASSUME NEW k \in Levels \ {3}, AtPlace(k) PROVE AtPlace(k + 1)
  BY <1>1, <1>2, <1>4, PosIs, PathReaches
<1>5. AtPlace(1)
  BY <1>3, <1>4 DEF Levels
<1>6. AtPlace(2)
  BY <1>4, <1>5 DEF Levels
<1>7. AtPlace(3)
  BY <1>4, <1>6 DEF Levels
<1>8. \A k \in Levels : AtPlace(k)
  <2>1. \A k \in Levels : k = 0 \/ k = 1 \/ k = 2 \/ k = 3
    BY DEF Levels
  <2> HIDE DEF AtPlace
  <2> QED BY <1>3, <1>5, <1>6, <1>7, <2>1
<1> QED BY <1>1, <1>2, <1>8 DEF BitOf

(***************************************************************************)
(* Trees, and what a step does to one.                                     *)
(***************************************************************************)

\* Four levels that summarize each other.
IsTree(tree) ==
  /\ tree \in [Levels -> Vectors]
  /\ \A k \in Levels \ {3} : Summarizes(tree[k + 1], tree[k])

\* The invariant is that the levels are such a tree.
LEMMA TreeInvIs == TreeInv <=> IsTree(level)
BY DEF TreeInv, IsTree, TypeOK, Vectors

\* A word that is pushed where the level above says that it is missing.
LEMMA PushBelow ==
  ASSUME NEW hi \in Vectors, NEW lo \in Vectors, Summarizes(hi, lo),
         Len(lo) \div W < Len(hi)
  PROVE  Summarizes(hi, Append(lo, Bits))
<1> DEFINE lo2 == Append(lo, Bits)
<1>1. /\ Len(hi) \in Nat /\ Len(lo) \in Nat /\ Len(lo2) = Len(lo) + 1
      /\ lo2[Len(lo) + 1] = Bits
      /\ \A i \in Nat : i < Len(lo) => lo2[i + 1] = lo[i + 1]
  BY DEF Vectors
<1>2. Bits # {}
  BY FirstBit
<1> HIDE DEF lo2
<1>3. ASSUME NEW i \in Nat
      PROVE  /\ i < Len(lo2) => i \div W < Len(hi)
             /\ i \div W < Len(hi) =>
                  (i % W \in hi[i \div W + 1] <=> i >= Len(lo2) \/ lo2[i + 1] # {})
  <2>1. /\ i < Len(lo) => i \div W < Len(hi)
        /\ i \div W < Len(hi) =>
             (i % W \in hi[i \div W + 1] <=> i >= Len(lo) \/ lo[i + 1] # {})
    BY Zenon DEF Summarizes
  <2>2. CASE i < Len(lo)
    BY <1>1, <2>1, <2>2
  <2>3. CASE i = Len(lo)
    BY <1>1, <1>2, <2>1, <2>3
  <2>4. CASE i > Len(lo)
    BY <1>1, <2>1, <2>4
  <2> QED BY <1>1, <2>2, <2>3, <2>4
<1> QED BY <1>3, Zenon DEF Summarizes, lo2

\* A word pushed to each of two levels, the lower of which has all its words.
LEMMA PushBoth ==
  ASSUME NEW hi \in Vectors, NEW lo \in Vectors, Summarizes(hi, lo),
         Len(lo) = W * Len(hi)
  PROVE  Summarizes(Append(hi, Bits), Append(lo, Bits))
<1> DEFINE hi2 == Append(hi, Bits)
           lo2 == Append(lo, Bits)
<1>1. /\ Len(hi) \in Nat /\ Len(lo) \in Nat
      /\ Len(lo2) = Len(lo) + 1 /\ Len(hi2) = Len(hi) + 1
      /\ lo2[Len(lo) + 1] = Bits /\ hi2[Len(hi) + 1] = Bits
      /\ \A i \in Nat : i < Len(lo) => lo2[i + 1] = lo[i + 1]
      /\ \A i \in Nat : i < Len(hi) => hi2[i + 1] = hi[i + 1]
  BY DEF Vectors
<1>2. Bits # {}
  BY FirstBit
<1> HIDE DEF lo2, hi2
<1>3. ASSUME NEW i \in Nat
      PROVE  /\ i < Len(lo2) => i \div W < Len(hi2)
             /\ i \div W < Len(hi2) =>
                  (i % W \in hi2[i \div W + 1] <=> i >= Len(lo2) \/ lo2[i + 1] # {})
  <2>1. i \div W \in Nat /\ i % W \in Bits
    BY PlaceParts
  <2>2. i < Len(lo) <=> i \div W < Len(hi)
    BY <1>1, PlacesBelow
  <2>3. CASE i < Len(lo)
    <3>1. i % W \in hi[i \div W + 1] <=> i >= Len(lo) \/ lo[i + 1] # {}
      BY <2>2, <2>3, Zenon DEF Summarizes
    <3> QED BY <1>1, <2>1, <2>2, <2>3, <3>1
  <2>4. CASE i = Len(lo)
    <3>1. i \div W = Len(hi)
      <4>1. 0 \in Bits /\ W \in Nat
        BY WAssumption DEF Bits
      <4>2. (Len(hi) * W + 0) \div W = Len(hi)
        BY <1>1, <4>1, PlaceIs
      <4>3. i = Len(hi) * W + 0
        BY <1>1, <2>4, <4>1
      <4> QED BY <4>2, <4>3
    <3> QED BY <1>1, <1>2, <2>1, <2>4, <3>1
  <2>5. CASE i > Len(lo)
    <3>1. i \div W >= Len(hi)
      BY <1>1, <2>1, <2>2, <2>5
    <3>2. i \div W < Len(hi2) => i \div W = Len(hi)
      BY <1>1, <2>1, <3>1
    <3> QED BY <1>1, <2>1, <2>5, <3>2
  <2> QED BY <1>1, <2>3, <2>4, <2>5
<1> QED BY <1>3, Zenon DEF Summarizes, hi2, lo2

\* Word q of lo and its bit in hi have been changed.
WordChanged(hi, lo, hi2, lo2, q) ==
  /\ Len(hi2) = Len(hi) /\ Len(lo2) = Len(lo) /\ q < Len(lo)
  /\ \A i \in Nat : i # q => lo2[i + 1] = lo[i + 1]
  /\ \A i \in Nat : i # q \div W => hi2[i + 1] = hi[i + 1]
  /\ \A c \in Bits : c # q % W =>
       (c \in hi2[q \div W + 1] <=> c \in hi[q \div W + 1])
  /\ q % W \in hi2[q \div W + 1] <=> lo2[q + 1] # {}

\* A change of one word and of its bit in the level above.
LEMMA ChangeWord ==
  ASSUME NEW hi \in Vectors, NEW lo \in Vectors, Summarizes(hi, lo),
         NEW hi2 \in Vectors, NEW lo2 \in Vectors, NEW q \in Nat,
         WordChanged(hi, lo, hi2, lo2, q)
  PROVE  Summarizes(hi2, lo2)
<1> USE DEF WordChanged
<1>1. Len(hi) \in Nat /\ Len(lo) \in Nat
  BY DEF Vectors
<1>2. ASSUME NEW i \in Nat
      PROVE  /\ i < Len(lo) => i \div W < Len(hi)
             /\ i \div W < Len(hi) =>
                  (i % W \in hi2[i \div W + 1] <=> i >= Len(lo) \/ lo2[i + 1] # {})
  <2>1. /\ i < Len(lo) => i \div W < Len(hi)
        /\ i \div W < Len(hi) =>
             (i % W \in hi[i \div W + 1] <=> i >= Len(lo) \/ lo[i + 1] # {})
    BY Zenon DEF Summarizes
  <2>2. /\ i \div W \in Nat /\ i % W \in Bits
        /\ q \div W \in Nat /\ q % W \in Bits
    BY PlaceParts
  <2>3. CASE i = q
    BY <1>1, <2>1, <2>3
  <2>4. CASE i # q
    <3>1. lo2[i + 1] = lo[i + 1]
      BY <2>4
    <3>2. i % W \in hi2[i \div W + 1] <=> i % W \in hi[i \div W + 1]
      <4>1. CASE i \div W = q \div W
        <5>1. i % W # q % W
          BY <2>4, <4>1, PlaceParts
        <5> QED BY <2>2, <4>1, <5>1
      <4>2. CASE i \div W # q \div W
        BY <2>2, <4>2
      <4> QED BY <4>1, <4>2
    <3> QED BY <2>1, <3>1, <3>2
  <2> QED BY <2>3, <2>4
<1> QED BY <1>2, Zenon DEF Summarizes

\* With the missing words of the path pushed it is a tree still, which has
\* all words of the path, and in them the bits that were chosen (allocate_id,
\* before its set_bit).
LEMMA GrownIsTree ==
  ASSUME TreeInv
  PROVE  /\ IsTree(Grown(Path))
         /\ \A k \in Levels :
              /\ Path[k] < Len(Grown(Path)[k])
              /\ Bsf(k, Path[k]) \in Grown(Path)[k][Path[k] + 1]
<1> DEFINE T == Grown(Path)
<1>1. \A k \in Levels : level[k] \in Vectors /\ Len(level[k]) \in Nat
  BY DEF TreeInv, TypeOK, Vectors
<1>2. \A k \in Levels :
        /\ Path[k] \in Nat /\ Path[k] <= Len(level[k])
        /\ Bsf(k, Path[k]) \in Bits
        /\ Missing(k, Path[k]) <=> Path[k] = Len(level[k])
  BY <1>1, PathReaches DEF Reached, Missing
<1>3. ASSUME NEW k \in Levels
      PROVE  /\ Missing(k, Path[k]) => T[k] = Append(level[k], Bits)
             /\ ~Missing(k, Path[k]) => T[k] = level[k]
  BY DEF Grown
<1>4. \A k \in Levels : Append(level[k], Bits) \in Vectors
  BY <1>1 DEF Vectors
<1>5. T \in [Levels -> Vectors]
  BY <1>1, <1>4 DEF Grown
<1> HIDE DEF T
<1>6. ASSUME NEW k \in Levels
      PROVE  Path[k] < Len(T[k]) /\ Bsf(k, Path[k]) \in T[k][Path[k] + 1]
  <2>1. CASE Missing(k, Path[k])
    BY <1>1, <1>2, <1>3, <2>1 DEF Vectors
  <2>2. CASE ~Missing(k, Path[k])
    <3>1. Bsf(k, Path[k]) \in level[k][Path[k] + 1]
      BY <1>2, <2>2, PathReaches, BitChosen DEF TreeInv
    <3> QED BY <1>1, <1>2, <1>3, <2>2, <3>1
  <2> QED BY <2>1, <2>2
<1>7. ASSUME NEW k \in Levels \ {3} PROVE Summarizes(T[k + 1], T[k])
  <2>1. k + 1 \in Levels /\ k \in Levels
    BY DEF Levels
  <2>2. Summarizes(level[k + 1], level[k])
    BY <2>1 DEF TreeInv
  <2>3. Path[k] \div W = Path[k + 1]
    <3>1. Path[k] = Path[k + 1] * W + Bsf(k + 1, Path[k + 1])
      BY PathReaches
    <3>2. Path[k + 1] \in Nat /\ Bsf(k + 1, Path[k + 1]) \in Bits
      BY <1>2, <2>1
    <3> QED BY <3>1, <3>2, PlaceIs, Zenon
  <2>4. CASE Missing(k + 1, Path[k + 1])
    <3>1. /\ Len(level[k]) = W * Len(level[k + 1])
          /\ Missing(k, Path[k])
      BY <1>2, <2>1, <2>4, PathReaches
    <3>2. /\ T[k + 1] = Append(level[k + 1], Bits)
          /\ T[k] = Append(level[k], Bits)
      BY <1>3, <2>1, <2>4, <3>1
    <3> QED BY <1>1, <2>1, <2>2, <3>1, <3>2, PushBoth
  <2>5. CASE ~Missing(k + 1, Path[k + 1]) /\ Missing(k, Path[k])
    <3>1. Len(level[k]) \div W < Len(level[k + 1])
      <4>1. /\ Path[k] = Len(level[k])
            /\ Path[k + 1] < Len(level[k + 1])
        BY <1>1, <1>2, <2>1, <2>5
      <4> QED BY <2>3, <4>1
    <3>2. T[k + 1] = level[k + 1] /\ T[k] = Append(level[k], Bits)
      BY <1>3, <2>1, <2>5
    <3> QED BY <1>1, <2>1, <2>2, <3>1, <3>2, PushBelow
  <2>6. CASE ~Missing(k + 1, Path[k + 1]) /\ ~Missing(k, Path[k])
    BY <1>3, <2>1, <2>2, <2>6
  <2> QED BY <2>4, <2>5, <2>6
<1> QED BY <1>5, <1>6, <1>7 DEF IsTree, T

\* The tree has the words of an id, ...
HasWords(tree, id) ==
  \A k \in Levels : Pos(id)[k] \in Nat /\ Pos(id)[k] \div W < Len(tree[k])

\* ... and nothing but these have been changed, ...
OnlyWordsChanged(tree, changed, id) ==
  \A k \in Levels :
    /\ Len(changed[k]) = Len(tree[k])
    /\ \A i \in Nat : i # Pos(id)[k] \div W =>
         changed[k][i + 1] = tree[k][i + 1]

\* ... in them nothing but the id's bits, ...
OnlyBitsChanged(tree, changed, id) ==
  \A k \in Levels : \A c \in Bits : c # BitOf(id, k) =>
    (c \in WordOf(changed, id, k) <=> c \in WordOf(tree, id, k))

\* ... and these say of the words under them whether they are zero.
BitsTellWords(changed, id) ==
  \A k \in Levels \ {3} :
    BitOf(id, k + 1) \in WordOf(changed, id, k + 1)
      <=> WordOf(changed, id, k) # {}

\* A tree in which one word has been changed at each level that the change
\* reaches: where a word has become zero, or was zero, the bit above says so.
LEMMA ChangedIsTree ==
  ASSUME NEW tree, IsTree(tree),
         NEW changed \in [Levels -> Vectors],
         NEW id \in Nat, HasWords(tree, id),
         OnlyWordsChanged(tree, changed, id),
         OnlyBitsChanged(tree, changed, id),
         BitsTellWords(changed, id)
  PROVE  IsTree(changed)
<1> USE DEF HasWords, OnlyWordsChanged, OnlyBitsChanged, BitsTellWords
<1>1. ASSUME NEW k \in Levels \ {3}
      PROVE  Summarizes(changed[k + 1], changed[k])
  <2> DEFINE q == Pos(id)[k] \div W
             hi == tree[k + 1]
             lo == tree[k]
             hi2 == changed[k + 1]
             lo2 == changed[k]
  <2>1. /\ k \in Levels /\ k + 1 \in Levels
        /\ Pos(id)[k + 1] = q
    BY PosIs DEF Levels
  <2>2. /\ hi \in Vectors /\ lo \in Vectors
        /\ hi2 \in Vectors /\ lo2 \in Vectors
        /\ Summarizes(hi, lo)
    BY <2>1 DEF IsTree
  <2>3. /\ q \in Nat /\ q < Len(lo)
        /\ Len(lo2) = Len(lo)
        /\ Len(hi2) = Len(hi)
        /\ \A i \in Nat : i # q => lo2[i + 1] = lo[i + 1]
    BY <2>1
  <2>4. \A i \in Nat : i # q \div W =>
          hi2[i + 1] = hi[i + 1]
    BY <2>1
  <2>5. \A c \in Bits : c # q % W =>
          (c \in hi2[q \div W + 1] <=> c \in hi[q \div W + 1])
    BY <2>1 DEF WordOf, BitOf
  <2>6. q % W \in hi2[q \div W + 1] <=> lo2[q + 1] # {}
    BY <2>1 DEF WordOf, BitOf
  <2> HIDE DEF q, hi, lo, hi2, lo2
  <2>7. WordChanged(hi, lo, hi2, lo2, q)
    BY <2>3, <2>4, <2>5, <2>6 DEF WordChanged
  <2>8. Summarizes(hi2, lo2)
    BY <2>2, <2>3, <2>7, ChangeWord
  <2> QED BY <2>8 DEF hi2, lo2
<1> QED BY <1>1 DEF IsTree

\* The words of an id in a tree that has them.
LEMMA IdWords ==
  ASSUME NEW tree \in [Levels -> Vectors], NEW id \in Nat,
         HasWords(tree, id), NEW k \in Levels
  PROVE  /\ WordOf(tree, id, k) \in SUBSET Bits
         /\ BitOf(id, k) \in Bits
         /\ Pos(id)[k] \div W + 1 \in DOMAIN tree[k]
<1> USE DEF HasWords
<1>1. /\ Pos(id)[k] \div W \in Nat /\ BitOf(id, k) \in Bits
      /\ tree[k] \in Vectors
  BY PlaceParts DEF BitOf
<1>2. Pos(id)[k] \div W + 1 \in DOMAIN tree[k]
  BY <1>1 DEF Vectors
<1> QED BY <1>1, <1>2 DEF WordOf, Vectors

\* The levels once a word of some of them has been replaced.
Replaced(tree, id, reached, word) ==
  [k \in Levels |->
     IF k \in reached
     THEN [tree[k] EXCEPT ![Pos(id)[k] \div W + 1] = word[k]]
     ELSE tree[k]]

\* It has the levels' types, and changes those words.
LEMMA WordsReplaced ==
  ASSUME NEW tree \in [Levels -> Vectors], NEW id \in Nat,
         HasWords(tree, id),
         NEW reached, NEW word \in [Levels -> SUBSET Bits],
         NEW changed, changed = Replaced(tree, id, reached, word)
  PROVE  /\ changed \in [Levels -> Vectors]
         /\ OnlyWordsChanged(tree, changed, id)
         /\ \A k \in Levels :
              WordOf(changed, id, k) =
                IF k \in reached THEN word[k] ELSE WordOf(tree, id, k)
<1>1. ASSUME NEW k \in Levels
      PROVE  /\ changed[k] \in Vectors
             /\ Len(changed[k]) = Len(tree[k])
             /\ \A i \in Nat : i # Pos(id)[k] \div W =>
                  changed[k][i + 1] = tree[k][i + 1]
             /\ WordOf(changed, id, k) =
                  IF k \in reached THEN word[k] ELSE WordOf(tree, id, k)
  <2> DEFINE p == Pos(id)[k] \div W + 1
             v == tree[k]
             w == word[k]
  <2>1. v \in Vectors /\ p \in DOMAIN v /\ w \in SUBSET Bits /\ p \in Nat
    <3>1. Pos(id)[k] \div W \in Nat
      BY PlaceParts DEF HasWords
    <3>2. p \in DOMAIN v
      BY IdWords
    <3> QED BY <3>1, <3>2
  <2>2. /\ k \in reached => changed[k] = [v EXCEPT ![p] = w]
        /\ k \notin reached => changed[k] = v
    BY DEF Replaced
  <2>3. \A i \in Nat : i # Pos(id)[k] \div W => i + 1 # p
    <3>1. Pos(id)[k] \div W \in Nat
      BY PlaceParts DEF HasWords
    <3> QED BY <3>1
  <2> HIDE DEF p, v, w
  <2>4. /\ [v EXCEPT ![p] = w] \in Vectors
        /\ Len([v EXCEPT ![p] = w]) = Len(v)
        /\ [v EXCEPT ![p] = w][p] = w
        /\ \A i \in Nat : i + 1 # p => [v EXCEPT ![p] = w][i + 1] = v[i + 1]
    BY <2>1 DEF Vectors
  <2>5. /\ changed[k] \in Vectors /\ Len(changed[k]) = Len(v)
        /\ \A i \in Nat : i + 1 # p => changed[k][i + 1] = v[i + 1]
        /\ changed[k][p] = IF k \in reached THEN w ELSE v[p]
    BY <2>1, <2>2, <2>4
  <2> QED BY <2>3, <2>5 DEF p, v, w, WordOf
<1>2. changed = [k \in Levels |-> changed[k]]
  BY DEF Replaced
<1> HIDE DEF WordOf
<1> QED BY <1>1, <1>2 DEF OnlyWordsChanged

(***************************************************************************)
(* set_bit.                                                                *)
(***************************************************************************)

\* What a step does to level 0: to the word of the id, and to no other.
OnlyWord(tree, changed, id, word) ==
  /\ Len(changed[0]) = Len(tree[0])
  /\ \A i \in Nat : i # id \div W => changed[0][i + 1] = tree[0][i + 1]
  /\ changed[0][id \div W + 1] = word

\* A bit is cleared in every level in which it was set (set_bit with false).
LEMMA ClearIsTree ==
  ASSUME NEW tree, IsTree(tree), NEW id \in Nat, HasWords(tree, id),
         \A k \in Levels : BitOf(id, k) \in WordOf(tree, id, k)
  PROVE  /\ IsTree(ClearBit(tree, id))
         /\ OnlyWord(tree, ClearBit(tree, id), id,
                     tree[0][id \div W + 1] \ {id % W})
<1> DEFINE changed == ClearBit(tree, id)
           reached == {k \in Levels : ClearReaches(tree, id, k)}
           word == [k \in Levels |-> Cleared(tree, id, k)]
<1>1. tree \in [Levels -> Vectors]
  BY DEF IsTree
<1>2. \A k \in Levels : /\ WordOf(tree, id, k) \in SUBSET Bits
                        /\ BitOf(id, k) \in Bits
  BY <1>1, IdWords DEF HasWords
<1>3. /\ word \in [Levels -> SUBSET Bits]
      /\ \A k \in Levels : word[k] = WordOf(tree, id, k) \ {BitOf(id, k)}
  BY <1>2 DEF Cleared
<1>4. changed = Replaced(tree, id, reached, word)
  BY DEF Replaced, ClearBit
<1>5. ASSUME NEW k \in Levels \ {3}
      PROVE  k + 1 \in reached <=> k \in reached /\ word[k] = {}
  <2>1. /\ k \in Levels /\ k + 1 \in Levels
        /\ \A j \in Levels : j < k + 1 <=> j < k \/ j = k
    BY DEF Levels
  <2> QED BY <2>1 DEF ClearReaches
<1> HIDE DEF changed, reached, word
<1>6. /\ changed \in [Levels -> Vectors]
      /\ OnlyWordsChanged(tree, changed, id)
      /\ \A k \in Levels :
           WordOf(changed, id, k) =
             IF k \in reached THEN word[k] ELSE WordOf(tree, id, k)
  BY <1>1, <1>3, <1>4, WordsReplaced
<1>7. ASSUME NEW k \in Levels \ {3}
      PROVE  BitOf(id, k + 1) \in WordOf(changed, id, k + 1)
               <=> WordOf(changed, id, k) # {}
  <2>1. k \in Levels /\ k + 1 \in Levels
    BY DEF Levels
  <2>2. /\ BitOf(id, k + 1) \in WordOf(tree, id, k + 1)
        /\ WordOf(tree, id, k) # {}
    BY <2>1
  <2> QED BY <1>3, <1>5, <1>6, <2>1, <2>2
<1>8. IsTree(changed)
  <2>1. OnlyBitsChanged(tree, changed, id) /\ BitsTellWords(changed, id)
    BY <1>3, <1>6, <1>7 DEF OnlyBitsChanged, BitsTellWords
  <2> QED BY <1>6, <2>1, ChangedIsTree
<1>9. OnlyWord(tree, changed, id, tree[0][id \div W + 1] \ {id % W})
  <2>1. 0 \in Levels /\ Pos(id)[0] = id
    BY PosIs DEF Levels
  <2>2. 0 \in reached
    BY <2>1 DEF reached, ClearReaches, Levels
  <2> QED BY <1>3, <1>6, <2>1, <2>2
          DEF OnlyWord, OnlyWordsChanged, WordOf, BitOf
<1> QED BY <1>8, <1>9 DEF changed

\* A bit is set in every level in which it was clear (set_bit with true).
LEMMA SetIsTree ==
  ASSUME NEW tree, IsTree(tree), NEW id \in Nat, HasWords(tree, id)
  PROVE  /\ IsTree(SetBit(tree, id))
         /\ OnlyWord(tree, SetBit(tree, id), id,
                     tree[0][id \div W + 1] \cup {id % W})
<1> DEFINE changed == SetBit(tree, id)
           reached == {k \in Levels : SetReaches(tree, id, k)}
           word == [k \in Levels |-> Set(tree, id, k)]
<1>1. tree \in [Levels -> Vectors]
  BY DEF IsTree
<1>2. \A k \in Levels : /\ WordOf(tree, id, k) \in SUBSET Bits
                        /\ BitOf(id, k) \in Bits
  BY <1>1, IdWords DEF HasWords
<1>3. /\ word \in [Levels -> SUBSET Bits]
      /\ \A k \in Levels : word[k] = WordOf(tree, id, k) \cup {BitOf(id, k)}
  BY <1>2 DEF Set
<1>4. changed = Replaced(tree, id, reached, word)
  BY DEF Replaced, SetBit
<1>5. ASSUME NEW k \in Levels \ {3}
      PROVE  k + 1 \in reached <=> k \in reached /\ WordOf(tree, id, k) = {}
  <2>1. /\ k \in Levels /\ k + 1 \in Levels
        /\ \A j \in Levels : j < k + 1 <=> j < k \/ j = k
    BY DEF Levels
  <2> QED BY <2>1 DEF SetReaches
<1> HIDE DEF changed, reached, word
<1>6. /\ changed \in [Levels -> Vectors]
      /\ OnlyWordsChanged(tree, changed, id)
      /\ \A k \in Levels :
           WordOf(changed, id, k) =
             IF k \in reached THEN word[k] ELSE WordOf(tree, id, k)
  BY <1>1, <1>3, <1>4, WordsReplaced
<1>7. ASSUME NEW k \in Levels \ {3}
      PROVE  BitOf(id, k + 1) \in WordOf(changed, id, k + 1)
               <=> WordOf(changed, id, k) # {}
  <2> DEFINE q == Pos(id)[k] \div W
  <2>1. /\ k \in Levels /\ k + 1 \in Levels
        /\ Pos(id)[k + 1] = q
    BY PosIs DEF Levels
  <2>2. /\ q \in Nat /\ q < Len(tree[k]) /\ Len(tree[k]) \in Nat
        /\ Summarizes(tree[k + 1], tree[k])
    BY <1>1, <2>1 DEF HasWords, IsTree, Vectors
  <2>3. /\ q < Len(tree[k]) => q \div W < Len(tree[k + 1])
        /\ q \div W < Len(tree[k + 1]) =>
             (q % W \in tree[k + 1][q \div W + 1]
                <=> q >= Len(tree[k]) \/ tree[k][q + 1] # {})
    <3> HIDE DEF q
    <3> QED BY <2>2, Zenon DEF Summarizes
  <2>4. q % W \in tree[k + 1][q \div W + 1] <=> tree[k][q + 1] # {}
    <3> HIDE DEF q
    <3> QED BY <2>2, <2>3
  <2>5. BitOf(id, k + 1) \in WordOf(tree, id, k + 1) <=> WordOf(tree, id, k) # {}
    BY <2>1, <2>4 DEF BitOf, WordOf
  <2>6. BitOf(id, k) \in Bits
    BY <1>2, <2>1
  <2> HIDE DEF q
  <2>7. CASE k \in reached /\ WordOf(tree, id, k) = {}
    BY <1>3, <1>5, <1>6, <2>1, <2>7
  <2>8. CASE ~ (k \in reached /\ WordOf(tree, id, k) = {})
    BY <1>3, <1>5, <1>6, <2>1, <2>5, <2>8
  <2> QED BY <2>7, <2>8
<1>8. IsTree(changed)
  <2>1. OnlyBitsChanged(tree, changed, id) /\ BitsTellWords(changed, id)
    BY <1>3, <1>6, <1>7 DEF OnlyBitsChanged, BitsTellWords
  <2> QED BY <1>6, <2>1, ChangedIsTree
<1>9. OnlyWord(tree, changed, id, tree[0][id \div W + 1] \cup {id % W})
  <2>1. 0 \in Levels /\ Pos(id)[0] = id
    BY PosIs DEF Levels
  <2>2. 0 \in reached
    BY <2>1 DEF reached, SetReaches, Levels
  <2> QED BY <1>3, <1>6, <2>1, <2>2
          DEF OnlyWord, OnlyWordsChanged, WordOf, BitOf
<1> QED BY <1>8, <1>9 DEF changed

(***************************************************************************)
(* The invariant.                                                          *)
(***************************************************************************)

\* The id that is handed out has words, and a bit in each, once the missing
\* ones are pushed.
LEMMA AllocatedHasWords ==
  ASSUME TreeInv
  PROVE  /\ HasWords(Grown(Path), IdAt(Path))
         /\ \A k \in Levels :
              BitOf(IdAt(Path), k) \in WordOf(Grown(Path), IdAt(Path), k)
<1> DEFINE id == IdAt(Path)
<1>1. ASSUME NEW k \in Levels
      PROVE  /\ Pos(id)[k] \in Nat /\ Pos(id)[k] \div W < Len(Grown(Path)[k])
             /\ BitOf(id, k) \in WordOf(Grown(Path), id, k)
  <2>1. /\ Pos(id)[k] = Path[k] * W + Bsf(k, Path[k])
        /\ Pos(id)[k] \div W = Path[k]
        /\ BitOf(id, k) = Bsf(k, Path[k])
    BY IdPlaces
  <2>2. Path[k] * W + Bsf(k, Path[k]) \in Nat
    BY PathReaches, PlaceIs
  <2> QED BY <2>1, <2>2, GrownIsTree DEF WordOf
<1> QED BY <1>1 DEF HasWords

\* An id of the tree has words.
LEMMA IdHasWords ==
  ASSUME TreeInv, NEW id \in Ids
  PROVE  id \in Nat /\ id \div W < Len(level[0]) /\ HasWords(level, id)
<1>1. /\ \A k \in Levels : Len(level[k]) \in Nat
      /\ 0 \in Levels /\ W \in Nat
  BY WAssumption DEF TreeInv, TypeOK, Levels
<1>2. id \in Nat /\ id \div W < Len(level[0])
  <2>1. id \in Nat /\ id < W * Len(level[0])
    BY <1>1 DEF Ids
  <2> QED BY <1>1, <2>1, PlacesBelow
<1> DEFINE At(k) == Pos(id)[k] \in Nat /\ Pos(id)[k] \div W < Len(level[k])
<1>3. At(0)
  BY <1>2, PosIs
<1>4. ASSUME NEW k \in Levels \ {3}, At(k) PROVE At(k + 1)
  <2>1. Pos(id)[k + 1] = Pos(id)[k] \div W
    BY <1>2, PosIs
  <2>2. Pos(id)[k + 1] \in Nat
    BY <1>4, <2>1, PlaceParts
  <2>3. Pos(id)[k + 1] < Len(level[k]) =>
          Pos(id)[k + 1] \div W < Len(level[k + 1])
    BY <2>2, Zenon DEF TreeInv, Summarizes
  <2> QED BY <1>4, <2>1, <2>2, <2>3
<1>5. At(1)
  BY <1>3, <1>4 DEF Levels
<1>6. At(2)
  BY <1>4, <1>5 DEF Levels
<1>7. At(3)
  BY <1>4, <1>6 DEF Levels
<1>8. \A k \in Levels : At(k)
  <2>1. \A k \in Levels : k = 0 \/ k = 1 \/ k = 2 \/ k = 3
    BY DEF Levels
  <2> HIDE DEF At
  <2> QED BY <1>3, <1>5, <1>6, <1>7, <2>1
<1> QED BY <1>2, <1>8 DEF HasWords

\* allocate_id makes a tree of a tree, and clears the id's bit (set_bit with
\* false).
LEMMA AllocateStep ==
  ASSUME TreeInv, allocate_id
  PROVE  /\ TreeInv'
         /\ OnlyWord(Grown(Path), level', IdAt(Path),
                     Grown(Path)[0][IdAt(Path) \div W + 1] \ {IdAt(Path) % W})
<1> DEFINE id == IdAt(Path)
           T == Grown(Path)
<1>1. level' = ClearBit(T, id) /\ id \in Nat
  BY IdPlaces DEF allocate_id
<1>2. /\ IsTree(T) /\ HasWords(T, id)
      /\ \A k \in Levels : BitOf(id, k) \in WordOf(T, id, k)
  BY GrownIsTree, AllocatedHasWords
<1> HIDE DEF id, T
<1>3. /\ IsTree(ClearBit(T, id))
      /\ OnlyWord(T, ClearBit(T, id), id, T[0][id \div W + 1] \ {id % W})
  BY <1>1, <1>2, ClearIsTree
<1> QED BY <1>1, <1>3 DEF TreeInv, IsTree, TypeOK, Vectors, id, T

\* free_id makes one too, and sets the id's bit (set_bit with true).
LEMMA FreeStep ==
  ASSUME TreeInv, NEW id \in Ids, free_id(id)
  PROVE  /\ TreeInv'
         /\ OnlyWord(level, level', id, level[0][id \div W + 1] \cup {id % W})
<1>1. level' = SetBit(level, id) /\ IsTree(level)
  BY TreeInvIs DEF free_id
<1>2. id \in Nat /\ HasWords(level, id)
  BY IdHasWords
<1>3. /\ IsTree(SetBit(level, id))
      /\ OnlyWord(level, SetBit(level, id), id,
                  level[0][id \div W + 1] \cup {id % W})
  BY <1>1, <1>2, SetIsTree
<1> QED BY <1>1, <1>3 DEF TreeInv, IsTree, TypeOK, Vectors

\* At the start there are no words.
LEMMA TreeInit == Init => TreeInv
<1> SUFFICES ASSUME Init PROVE TreeInv
  OBVIOUS
<1>1. \A k \in Levels : level[k] = <<>>
  BY DEF Init
<1>2. TypeOK
  BY DEF Init, TypeOK
<1>3. ASSUME NEW k \in Levels \ {3} PROVE Summarizes(level[k + 1], level[k])
  <2>1. level[k + 1] = <<>> /\ level[k] = <<>>
    BY <1>1 DEF Levels
  <2>2. \A i \in Nat : ~(i < Len(<<>>)) /\ ~(i \div W < Len(<<>>))
    BY PlaceParts
  <2> QED BY <2>1, <2>2 DEF Summarizes
<1> QED BY <1>2, <1>3 DEF TreeInv

\* Every step keeps the invariant.
LEMMA TreeStep == TreeInv /\ [Next]_level => TreeInv'
<1>1. ASSUME TreeInv, UNCHANGED level PROVE TreeInv'
  BY <1>1 DEF TreeInv, TypeOK
<1> QED BY <1>1, AllocateStep, FreeStep DEF Next

\* The tree is one of vectors of words, and a summary bit says of a word under
\* it whether it is zero, in every reachable state.
THEOREM TreeInvariance == Spec => []TreeInv
BY TreeInit, TreeStep, PTL DEF Spec

\* Words have no bits beyond W, and levels no holes (the vectors of IdTree).
THEOREM TreeTypeCorrect == Spec => []TypeOK
<1>1. TreeInv => TypeOK
  BY DEF TreeInv
<1> QED BY <1>1, TreeInvariance, PTL

\* A bit of level 1, 2 or 3 is set just when the word under it has a set bit
\* or does not exist yet, after any mix of allocate_id and free_id.
THEOREM SummariesRight == Spec => []SummaryBits
<1>1. ASSUME TreeInv PROVE SummaryBits
  <2>1. SUFFICES ASSUME NEW k \in Levels \ {3},
                        NEW i \in 0 .. W * Len(level[k + 1]) - 1
                 PROVE  i % W \in level[k + 1][i \div W + 1]
                          <=> i >= Len(level[k]) \/ level[k][i + 1] # {}
    BY DEF SummaryBits
  <2>2. /\ k + 1 \in Levels /\ Len(level[k + 1]) \in Nat
        /\ Summarizes(level[k + 1], level[k])
    BY <1>1 DEF TreeInv, TypeOK, Levels
  <2>3. i \in Nat /\ i < W * Len(level[k + 1])
    BY <2>2, WAssumption
  <2>4. i \div W < Len(level[k + 1])
    BY <2>2, <2>3, PlacesBelow
  <2> QED BY <2>2, <2>3, <2>4, Zenon DEF Summarizes
<1> QED BY <1>1, TreeInvariance, PTL

\* The assertions of allocate_id hold: what is missing on its way is the next
\* word of its level, under which all levels are full; and the id is free.
THEOREM GrowsByNextWord == Spec => []GrowthAssertions
<1>1. ASSUME TreeInv PROVE GrowthAssertions
  <2> DEFINE Full(k) == /\ Missing(k, Path[k])
                        /\ \A j \in Levels :
                             j < k => Len(level[j]) = W * Len(level[j + 1])
  <2>1. \A k \in Levels : /\ Path[k] \in Nat /\ Path[k] <= Len(level[k])
                          /\ Len(level[k]) \in Nat
    BY <1>1, PathReaches DEF Reached, TreeInv, TypeOK
  <2>2. ASSUME NEW k \in Levels \ {3}, Missing(k + 1, Path[k + 1])
        PROVE  Missing(k, Path[k]) /\ Len(level[k]) = W * Len(level[k + 1])
    BY <1>1, <2>1, <2>2, PathReaches DEF Missing
  <2>3. Missing(0, Path[0]) => Full(0)
    BY DEF Levels
  <2>4. ASSUME NEW k \in Levels \ {3}, Missing(k, Path[k]) => Full(k)
        PROVE  Missing(k + 1, Path[k + 1]) => Full(k + 1)
    <3>1. k \in Levels /\ \A j \in Levels : j < k + 1 => j < k \/ j = k
      BY DEF Levels
    <3> QED BY <2>2, <2>4, <3>1
  <2>5. Missing(1, Path[1]) => Full(1)
    BY <2>3, <2>4 DEF Levels
  <2>6. Missing(2, Path[2]) => Full(2)
    BY <2>4, <2>5 DEF Levels
  <2>7. Missing(3, Path[3]) => Full(3)
    BY <2>4, <2>6 DEF Levels
  <2>8. \A k \in Levels : Missing(k, Path[k]) => Full(k)
    <3>1. \A k \in Levels : k = 0 \/ k = 1 \/ k = 2 \/ k = 3
      BY DEF Levels
    <3> HIDE DEF Full
    <3> QED BY <2>3, <2>5, <2>6, <2>7, <3>1
  <2>9. \A k \in Levels : Missing(k, Path[k]) => Path[k] = Len(level[k])
    BY <2>1 DEF Missing
  <2>10. BitOf(IdAt(Path), 0) \in WordOf(Grown(Path), IdAt(Path), 0)
    BY <1>1, AllocatedHasWords DEF Levels
  <2> QED BY <2>8, <2>9, <2>10 DEF GrowthAssertions
<1> QED BY <1>1, TreeInvariance, PTL

(***************************************************************************)
(* The refinement of IdSpace.                                              *)
(***************************************************************************)

\* The places of v whose bits are clear.
Clear(v) == {i \in Nat : i \div W < Len(v) /\ i % W \notin v[i \div W + 1]}

\* They are among the places that there are.
LEMMA ClearIs ==
  ASSUME NEW v, Len(v) \in Nat
  PROVE  Clear(v) = {i \in 0 .. W * Len(v) - 1 : ~ (i % W \in v[i \div W + 1])}
<1>1. ASSUME NEW i \in Nat
      PROVE  i \in 0 .. W * Len(v) - 1 <=> i \div W < Len(v)
  BY PlacesBelow, WAssumption
<1>2. \A i \in 0 .. W * Len(v) - 1 : i \in Nat
  BY WAssumption
<1> QED BY <1>1, <1>2 DEF Clear

\* The ids in use are those, and they are finitely many.
LEMMA UsedIs ==
  ASSUME TypeOK
  PROVE  Used = Clear(level[0]) /\ IsFiniteSet(Used)
<1>1. Len(level[0]) \in Nat /\ W * Len(level[0]) - 1 \in Int
  BY WAssumption DEF TypeOK, Levels
<1>2. Used = Clear(level[0])
  BY <1>1, ClearIs DEF Used, Ids, IsFreeAt
<1>3. IsFiniteSet(0 .. W * Len(level[0]) - 1)
  BY <1>1, FS_Interval
<1>4. Used \subseteq 0 .. W * Len(level[0]) - 1
  BY DEF Used, Ids
<1> QED BY <1>2, <1>3, <1>4, FS_Subset

\* The least number that is not used is where LeastFree looks for it.
LEMMA LeastFreeIs ==
  ASSUME IsFiniteSet(Used), NEW id \in Nat, id \notin Used,
         \A lower \in 0 .. id - 1 : lower \in Used
  PROVE  Space!LeastFree = id
<1>1. id <= Cardinality(Used) /\ Cardinality(Used) \in Nat
  <2>1. 0 .. id - 1 \subseteq Used
    OBVIOUS
  <2>2. Cardinality(0 .. id - 1) = id
    BY FS_Interval
  <2>3. Cardinality(0 .. id - 1) <= Cardinality(Used)
    BY <2>1, FS_Subset
  <2> QED BY <2>2, <2>3, FS_CardinalityType
<1>2. Space!Cardinality(Used) = Cardinality(Used)
  BY Zenon DEF Cardinality, Space!Cardinality
<1> DEFINE Least(n) == /\ n \in 0 .. Cardinality(Used) /\ n \notin Used
                       /\ \A lower \in 0 .. n - 1 : lower \in Used
<1>3. Least(id)
  BY <1>1
<1>4. \A n : Least(n) => n = id
  BY <1>1
<1>5. Space!LeastFree = CHOOSE n \in 0 .. Cardinality(Used) :
                          /\ n \notin Used
                          /\ \A lower \in 0 .. n - 1 : lower \in Used
  BY <1>2, Zenon DEF Space!LeastFree
<1> QED BY <1>3, <1>4, <1>5

\* The id that is handed out is free, and those before it are not.
LEMMA AllocatedIsLeast ==
  ASSUME TreeInv
  PROVE  /\ IdAt(Path) \notin Used
         /\ \A lower \in 0 .. IdAt(Path) - 1 : lower \in Used
<1> DEFINE v == level[0]
           p == Path[0]
           b == Bsf(0, Path[0])
           id == IdAt(Path)
<1>1. /\ 0 \in Levels /\ v \in Vectors /\ Len(v) \in Nat
      /\ Used = Clear(v)
  BY UsedIs DEF TreeInv, TypeOK, Vectors, Levels
<1>2. /\ p \in Nat /\ b \in Bits /\ Reached(v, p)
      /\ Missing(0, p) <=> p = Len(v)
  BY <1>1, PathReaches DEF Missing, Reached
<1>3. /\ p = Len(v) => b = 0
      /\ p < Len(v) => b \in v[p + 1] /\ \A c \in v[p + 1] : b <= c
  BY <1>1, <1>2, BitChosen DEF TreeInv
<1>4. /\ p <= Len(v)
      /\ \A i \in 0 .. p - 1 : v[i + 1] = {}
  BY <1>2 DEF Reached
<1>5. id = p * W + b /\ id \in Nat /\ id \div W = p /\ id % W = b
  BY <1>2, PlaceIs DEF IdAt
<1> HIDE DEF v, p, b, id
<1>6. id \notin Clear(v)
  BY <1>1, <1>3, <1>5 DEF Clear
<1>7. ASSUME NEW lower \in 0 .. id - 1 PROVE lower \in Clear(v)
  <2>1. /\ lower \in Nat /\ lower \div W \in Nat /\ lower % W \in Nat
        /\ b \in Nat /\ lower < id
    <3>1. lower \in Nat /\ lower < id
      BY <1>5
    <3>2. lower \div W \in Nat /\ lower % W \in Bits
      BY <3>1, PlaceParts
    <3> QED BY <1>2, <3>1, <3>2, BitsAreNat
  <2>2. CASE lower \div W < p
    <3>1. v[lower \div W + 1] = {}
      BY <1>2, <1>4, <2>1, <2>2
    <3> QED BY <1>1, <1>2, <1>4, <2>1, <2>2, <3>1 DEF Clear
  <2>3. CASE lower \div W = p /\ lower % W < b
    BY <1>1, <1>3, <1>4, <2>1, <2>3 DEF Clear
  <2>4. lower \div W < p \/ (lower \div W = p /\ lower % W < b)
    BY <1>2, <1>5, <2>1, PlacesBefore
  <2> QED BY <2>2, <2>3, <2>4
<1> QED BY <1>1, <1>6, <1>7 DEF v, id

\* Pushing words of free ids uses none of them.
LEMMA GrownUsesNone ==
  ASSUME TreeInv
  PROVE  Clear(Grown(Path)[0]) = Clear(level[0])
<1> DEFINE v == level[0]
<1>1. /\ v \in Vectors /\ Len(v) \in Nat
      /\ Grown(Path)[0] = v \/ Grown(Path)[0] = Append(v, Bits)
  BY DEF TreeInv, TypeOK, Vectors, Levels, Grown
<1> HIDE DEF v
<1>2. Clear(Append(v, Bits)) = Clear(v)
  <2>1. /\ Len(Append(v, Bits)) = Len(v) + 1
        /\ Append(v, Bits)[Len(v) + 1] = Bits
        /\ \A i \in Nat : i < Len(v) => Append(v, Bits)[i + 1] = v[i + 1]
    BY <1>1 DEF Vectors
  <2>2. ASSUME NEW i \in Nat
        PROVE  i \in Clear(Append(v, Bits)) <=> i \in Clear(v)
    <3>1. i \div W \in Nat /\ i % W \in Bits
      BY PlaceParts
    <3>2. CASE i \div W < Len(v)
      BY <1>1, <2>1, <3>1, <3>2 DEF Clear
    <3>3. CASE i \div W = Len(v)
      BY <1>1, <2>1, <3>1, <3>3 DEF Clear
    <3>4. CASE i \div W > Len(v)
      BY <1>1, <2>1, <3>1, <3>4 DEF Clear
    <3> QED BY <1>1, <3>1, <3>2, <3>3, <3>4
  <2> QED BY <2>2 DEF Clear
<1> QED BY <1>1, <1>2 DEF v

\* An id handed out is in use, besides those that were.
LEMMA BitCleared ==
  ASSUME NEW tree, NEW changed, Len(tree[0]) \in Nat,
         NEW id \in Nat, id \div W < Len(tree[0]),
         OnlyWord(tree, changed, id, tree[0][id \div W + 1] \ {id % W})
  PROVE  Clear(changed[0]) = Clear(tree[0]) \cup {id}
<1>1. ASSUME NEW i \in Nat
      PROVE  i \in Clear(changed[0]) <=> i \in Clear(tree[0]) \/ i = id
  <2>1. i \div W \in Nat /\ (i \div W = id \div W /\ i % W = id % W => i = id)
    BY PlaceParts
  <2>2. CASE i \div W = id \div W
    BY <2>1, <2>2 DEF Clear, OnlyWord
  <2>3. CASE i \div W # id \div W
    BY <2>1, <2>3 DEF Clear, OnlyWord
  <2> QED BY <2>2, <2>3
<1> QED BY <1>1 DEF Clear

\* An id given back is in use no longer.
LEMMA BitSet ==
  ASSUME NEW tree, NEW changed, Len(tree[0]) \in Nat, NEW id \in Nat,
         OnlyWord(tree, changed, id, tree[0][id \div W + 1] \cup {id % W})
  PROVE  Clear(changed[0]) = Clear(tree[0]) \ {id}
<1>1. ASSUME NEW i \in Nat
      PROVE  i \in Clear(changed[0]) <=> i \in Clear(tree[0]) /\ i # id
  <2>1. i \div W \in Nat /\ (i \div W = id \div W /\ i % W = id % W => i = id)
    BY PlaceParts
  <2>2. CASE i \div W = id \div W
    BY <2>1, <2>2 DEF Clear, OnlyWord
  <2>3. CASE i \div W # id \div W
    BY <2>1, <2>3 DEF Clear, OnlyWord
  <2> QED BY <2>2, <2>3
<1> QED BY <1>1 DEF Clear

\* At the start no id is in use.
LEMMA InitSpace == Init => Space!Init
<1> SUFFICES ASSUME Init PROVE Used = {}
  BY DEF Space!Init
<1>1. Used = Clear(level[0]) /\ level[0] = <<>>
  BY TreeInit, UsedIs DEF TreeInv, Init, Levels
<1>2. \A i \in Nat : ~(i \div W < Len(<<>>))
  BY PlaceParts
<1> QED BY <1>1, <1>2 DEF Clear

\* allocate_id is the abstract Allocate, free_id is Free.
LEMMA StepSpace == TreeInv /\ [Next]_level => [Space!Next]_Used
<1> SUFFICES ASSUME TreeInv, [Next]_level PROVE [Space!Next]_Used
  OBVIOUS
<1>1. /\ TypeOK /\ TypeOK' /\ Used = Clear(level[0]) /\ IsFiniteSet(Used)
      /\ Len(level[0]) \in Nat
  BY TreeStep, UsedIs DEF TreeInv, TypeOK, Levels
<1>2. Used' = Clear(level'[0])
  <2>1. Len(level'[0]) \in Nat
    BY <1>1 DEF TypeOK, Levels
  <2> QED BY <2>1, ClearIs DEF Used, Ids, IsFreeAt
<1>3. CASE allocate_id
  <2> DEFINE id == IdAt(Path)
             T == Grown(Path)
  <2>1. /\ id \in Nat /\ id \div W < Len(T[0]) /\ Len(T[0]) \in Nat
    <3>1. /\ 0 \in Levels /\ Path[0] < Len(T[0]) /\ T[0] \in Vectors
      BY GrownIsTree DEF IsTree, Levels
    <3>2. id \in Nat /\ Pos(id)[0] = id /\ Pos(id)[0] \div W = Path[0]
      BY <3>1, IdPlaces, PosIs
    <3> QED BY <3>1, <3>2 DEF Vectors
  <2>2. OnlyWord(T, level', id, T[0][id \div W + 1] \ {id % W})
    BY <1>3, AllocateStep
  <2>3. Clear(T[0]) = Used
    BY <1>1, GrownUsesNone
  <2>4. id \notin Used /\ \A lower \in 0 .. id - 1 : lower \in Used
    BY AllocatedIsLeast
  <2> HIDE DEF id, T
  <2>5. Used' = Used \cup {id}
    BY <1>2, <2>1, <2>2, <2>3, BitCleared
  <2>6. Space!LeastFree = id
    BY <1>1, <2>1, <2>4, LeastFreeIs
  <2> QED BY <2>5, <2>6 DEF Space!Next, Space!Allocate
<1>4. ASSUME NEW id \in Ids, free_id(id) PROVE Space!Next
  <2>1. id \in Nat /\ id \in Used
    BY <1>4, IdHasWords DEF free_id, Used
  <2>2. OnlyWord(level, level', id, level[0][id \div W + 1] \cup {id % W})
    BY <1>4, FreeStep
  <2>3. Used' = Used \ {id}
    BY <1>1, <1>2, <2>1, <2>2, BitSet
  <2> QED BY <2>1, <2>3 DEF Space!Next, Space!Free
<1>5. CASE UNCHANGED level
  BY <1>5 DEF Used, Ids, IsFreeAt
<1> QED BY <1>3, <1>4, <1>5 DEF Next

\* The tree hands out the least id that is free, whatever was given back in
\* between and at whichever levels it has to grow (allocate_id, free_id).
THEOREM TreeHandsOutLeastId == Spec => HandsOutLeastId
<1>1. Init => Space!Init
  BY InitSpace
<1>2. TreeInv /\ [Next]_level => [Space!Next]_Used
  BY StepSpace
<1> QED BY <1>1, <1>2, TreeInvariance, PTL DEF Spec, HandsOutLeastId, Space!Spec
=============================================================================
