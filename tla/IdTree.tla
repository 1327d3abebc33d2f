-------------------------------- MODULE IdTree --------------------------------
(***************************************************************************)
(* id_tree.h: register ids kept in a tree of bitmaps, four levels deep.    *)
(* Level 0 has a bit per id, set when the id is free; level k + 1 has a    *)
(* bit per word of level k, set when that word has a set bit, or does not  *)
(* exist yet.  A word is the set of its bits that are set.                 *)
(***************************************************************************)
EXTENDS Naturals, Sequences, FiniteSetsExt

CONSTANTS
  W,     \* the bits of a word, 64 in the code
  MaxIds \* bound: the ids in use at any time

ASSUME WAssumption == W \in Nat \ {0}
ASSUME MaxIdsAssumption == MaxIds \in Nat

Levels == 0 .. 3
Bits == 0 .. W - 1

VARIABLE level \* level[k] is the vector levelk, counted from 1

TypeOK == level \in [Levels -> Seq(SUBSET Bits)]

Init == level = [k \in Levels |-> <<>>]

\* The ids out of use, and those in use.
IsFreeAt(id) == id % W \in level[0][id \div W + 1]
Ids == 0 .. W * Len(level[0]) - 1
Used == {i \in Ids : ~IsFreeAt(i)}

(***************************************************************************)
(* The way down of allocate_id.                                            *)
(***************************************************************************)

\* find_set_bit: the first word of v that is not zero, or the one after the
\* last.
FirstWord(v) ==
  Min({i \in 0 .. Len(v) : i = Len(v) \/ v[i + 1] # {}})

Missing(k, word) == word >= Len(level[k])

\* The bit chosen in a word: bsf of one that exists, else the first one of
\* the word that is about to be pushed.
\* Mistake: the last set bit is taken, not the first.
Bsr(k, word) == IF Missing(k, word) THEN 0 ELSE Max(level[k][word + 1])

Bsf(k, word) == IF Missing(k, word) THEN 0 ELSE Min(level[k][word + 1])

\* The word chosen at each level: the first with a set bit at the top, and
\* below it the one whose bit was chosen above.  The bit chosen at
\* level 0 is the id.
Path ==
  LET word[k \in Levels] ==
        IF k = 3 THEN FirstWord(level[3])
        ELSE word[k + 1] * W + Bsf(k + 1, word[k + 1])
  IN word

IdAt(path) == path[0] * W + Bsf(0, path[0])

\* The levels once the missing words of the path have been pushed, all ones.
Grown(path) ==
  [k \in Levels |->
     IF Missing(k, path[k]) THEN Append(level[k], Bits) ELSE level[k]]

(***************************************************************************)
(* The way up of set_bit, over the levels `tree'.  A level is changed when *)
(* the word changed in the one below has become zero, or has been zero.    *)
(***************************************************************************)

\* pos of set_bit, the place of a bit in each level: it starts as the id.
Pos(id) ==
  LET pos[k \in Levels] == IF k = 0 THEN id ELSE pos[k - 1] \div W
  IN pos

WordOf(tree, id, k) == tree[k][Pos(id)[k] \div W + 1]
BitOf(id, k) == Pos(id)[k] % W

Cleared(tree, id, k) == WordOf(tree, id, k) \ {BitOf(id, k)}
\* Mistake: the bit is not reduced to its word.
SetUnreduced(tree, id, k) == WordOf(tree, id, k) \cup {Pos(id)[k]}
Set(tree, id, k) == WordOf(tree, id, k) \cup {BitOf(id, k)}

\* Mistakes: the word is tested before its bit is cleared; only level 0 is set.
ClearTestsBefore(tree, id, k) ==
  \A j \in Levels : j < k => WordOf(tree, id, j) = {}
SetStops(tree, id, k) == k = 0

ClearReaches(tree, id, k) == \A j \in Levels : j < k => Cleared(tree, id, j) = {}
SetReaches(tree, id, k) == \A j \in Levels : j < k => WordOf(tree, id, j) = {}

ClearBit(tree, id) ==
  [k \in Levels |->
     IF ClearReaches(tree, id, k)
     THEN [tree[k] EXCEPT ![Pos(id)[k] \div W + 1] = Cleared(tree, id, k)]
     ELSE tree[k]]

SetBit(tree, id) ==
  [k \in Levels |->
     IF SetReaches(tree, id, k)
     THEN [tree[k] EXCEPT ![Pos(id)[k] \div W + 1] = Set(tree, id, k)]
     ELSE tree[k]]

allocate_id ==
  LET path == Path
  IN /\ IdAt(path) < MaxIds
     /\ level' = ClearBit(Grown(path), IdAt(path))

free_id(id) ==
  /\ ~IsFreeAt(id)
  /\ level' = SetBit(level, id)

Next == allocate_id \/ \E id \in Ids : free_id(id)

Spec == Init /\ [][Next]_level

-------------------------------------------------------------------------------
\* A bit of level 1, 2 or 3 is set just when the word under it has a set bit
\* or does not exist yet (id_tree.h:24-27): otherwise allocate_id would miss a
\* free id, or run into a zero word.
SummaryBits ==
  \A k \in Levels \ {3} : \A i \in 0 .. W * Len(level[k + 1]) - 1 :
    i % W \in level[k + 1][i \div W + 1]
      <=> i >= Len(level[k]) \/ level[k][i + 1] # {}

\* The assertions of allocate_id about the sizes: a word that is missing on
\* the path is the next one of its level, and when a level grows every level
\* under it has all the words of the one above it (lines 84-126); and the id it returns is free.
GrowthAssertions ==
  LET path == Path
      id == IdAt(path)
  IN /\ \A k \in Levels :
          Missing(k, path[k]) =>
            /\ path[k] = Len(level[k])
            /\ \A j \in Levels :
                 j < k => Len(level[j]) = W * Len(level[j + 1])
     /\ BitOf(id, 0) \in WordOf(Grown(path), id, 0)

\* The tree is an id space: it always hands out the least free id, so that
\* the number of registers stays at the most that were live at once.
Space == INSTANCE IdSpace WITH used <- Used
HandsOutLeastId == Space!Spec
=============================================================================
