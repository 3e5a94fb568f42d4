--------------------------- MODULE FreeQueueProof ---------------------------
(***************************************************************************)
(* The linked list of FreeKVCacheBlockQueue is well formed after every     *)
(* call and implements the abstract queue, for every number of blocks.     *)
(*                                                                         *)
(* The inductive invariant is TypeOK /\ WellLinked.  Every call is one of  *)
(* three changes to the list q the links spell out: its first n blocks are *)
(* dropped (lemma DropList), its k-th block is unlinked (UnlinkList) or    *)
(* blocks are added at its end (ExtendList).  The list is unique           *)
(* (WalkUnique), so it is what get_all_free_blocks returns, and the same   *)
(* three lemmas give both the invariance and the refinement.               *)
(***************************************************************************)
EXTENDS FreeKVCacheBlockQueue, SequenceTheorems, FiniteSetTheorems,
        WellFoundedInduction, TLAPS

(***************************************************************************)
(* A non-empty set of naturals has a least element.  The library's         *)
(* induction theorems take an operator; this one, obtained from the        *)
(* well-founded order of finite sets under inclusion, does not.            *)
(***************************************************************************)
LEMMA LeastNat ==
    ASSUME NEW T \in SUBSET Nat, T # {}
    PROVE  \E x \in T : \A y \in T : x <= y
<1> DEFINE Segs == {1 .. k : k \in T}
<1>1. Segs \subseteq FiniteSubsetsOf(Nat)
  <2>1. \A k \in T : IsFiniteSet(1 .. k)
    BY FS_Interval
  <2> QED BY <2>1 DEF FiniteSubsetsOf
<1>2. Segs # {}
  OBVIOUS
<1> HIDE DEF Segs
<1>3. PICK s \in Segs : \A u \in Segs : ~(<<u, s>> \in StrictSubsetOrdering(Nat))
  BY <1>1, <1>2, WFMin, FS_StrictSubsetOrderingWellFounded
<1>4. PICK x \in T : s = 1 .. x
  BY DEF Segs
<1>5. ASSUME NEW y \in T, ~(x <= y)
      PROVE  FALSE
  <2>1. 1 .. y \in Segs
    BY DEF Segs
  <2>2. 1 .. y \in SUBSET Nat /\ 1 .. x \in SUBSET Nat
    OBVIOUS
  <2>3. 1 .. y \subseteq 1 .. x
    BY <1>5
  <2>4. x \in 1 .. x /\ x \notin 1 .. y
    BY <1>5
  <2>5. <<1 .. y, s>> \in StrictSubsetOrdering(Nat)
    BY <1>4, <2>2, <2>3, <2>4 DEF StrictSubsetOrdering
  <2> QED BY <1>3, <2>1, <2>5
<1> QED BY <1>5

-----------------------------------------------------------------------------
(***************************************************************************)
(* A list of distinct blocks is no longer than there are blocks.           *)
(***************************************************************************)
LEMMA InjectiveBound ==
    ASSUME NEW n \in Nat, NEW q \in [1 .. n -> Block], IsInjective(q)
    PROVE  n <= NumBlocks
<1>1. q \in Injection(1 .. n, Block)
  BY DEF Injection
<1>2. IsFiniteSet(Block) /\ Cardinality(Block) = NumBlocks
  BY FS_Interval, NumBlocksAssumption DEF Block
<1>3. Cardinality(1 .. n) = n
  BY FS_Interval
<1>4. Cardinality(1 .. n) <= Cardinality(Block)
  BY <1>1, <1>2, FS_Injection
<1> QED BY <1>2, <1>3, <1>4

(***************************************************************************)
(* The members of BlockLists, as functions and as sequences.               *)
(***************************************************************************)
LEMMA BlockListsType ==
    ASSUME NEW q \in BlockLists
    PROVE  /\ Len(q) \in 0 .. NumBlocks
           /\ q \in [1 .. Len(q) -> Block]
           /\ q \in Seq(Block)
<1>1. PICK n \in 0 .. NumBlocks : q \in [1 .. n -> Block]
  BY DEF BlockLists
<1>2. n \in Nat
  BY NumBlocksAssumption
<1>3. q \in Seq(Block) /\ Len(q) = n
  BY <1>1, <1>2, SeqDef, LenProperties
<1> QED BY <1>1, <1>3

\* Functions from 1 .. n to the blocks are block lists.
LEMMA BlockListsIntro ==
    ASSUME NEW n \in Nat, NEW q \in [1 .. n -> Block], n <= NumBlocks
    PROVE  /\ q \in BlockLists
           /\ Len(q) = n
<1>1. q \in BlockLists
  BY NumBlocksAssumption DEF BlockLists
<1>2. q \in Seq(Block)
  BY SeqDef
<1> QED BY <1>1, <1>2, LenProperties

(***************************************************************************)
(* The nodes of a list: every index up to Len(q) + 1 has one, the fakes    *)
(* are at the ends only and no node is met twice.                          *)
(***************************************************************************)
LEMMA AtFacts ==
    ASSUME NEW q \in BlockLists
    PROVE  /\ At(q, 0) = FakeHead
           /\ At(q, Len(q) + 1) = FakeTail
           /\ \A i \in 1 .. Len(q) : At(q, i) = q[i] /\ At(q, i) \in Block
           /\ \A i \in 0 .. Len(q) + 1 : At(q, i) \in Node
           /\ IsInjective(q) =>
                \A i, j \in 0 .. Len(q) + 1 : At(q, i) = At(q, j) => i = j
           /\ \A b : b \in Range(q) <=> \E i \in 1 .. Len(q) : b = At(q, i)
<1>1. Len(q) \in Nat /\ q \in [1 .. Len(q) -> Block]
  BY BlockListsType, NumBlocksAssumption
<1>2. \A i \in 1 .. Len(q) : At(q, i) = q[i] /\ At(q, i) \in Block
  BY <1>1 DEF At
<1>3. At(q, 0) = FakeHead /\ At(q, Len(q) + 1) = FakeTail
  BY <1>1 DEF At
<1>4. \A i \in 0 .. Len(q) + 1 : At(q, i) \in Node
  BY <1>1, <1>2, <1>3 DEF Node
<1>5. ASSUME IsInjective(q), NEW i \in 0 .. Len(q) + 1, NEW j \in 0 .. Len(q) + 1,
             At(q, i) = At(q, j)
      PROVE  i = j
  BY <1>1, <1>5, NumBlocksAssumption DEF At, IsInjective, Block, FakeHead, FakeTail
<1>6. \A b : b \in Range(q) <=> \E i \in 1 .. Len(q) : b = At(q, i)
  BY <1>1, <1>2 DEF Range
<1> QED BY <1>2, <1>3, <1>4, <1>5, <1>6

(***************************************************************************)
(* Two walks along next_free_block visit the same blocks: the first index  *)
(* at which they differed would have the same predecessor in both.         *)
(***************************************************************************)
Follows(q, nxt) == \A i \in 0 .. Len(q) : nxt[At(q, i)] = At(q, i + 1)

\* Two lists spelled out by the same next_free_block links are equal.
LEMMA WalkUnique ==
    ASSUME NEW q \in BlockLists, NEW r \in BlockLists,
           NEW nxt, Follows(q, nxt), Follows(r, nxt)
    PROVE  q = r
<1>1. /\ Len(q) \in Nat /\ q \in [1 .. Len(q) -> Block]
      /\ Len(r) \in Nat /\ r \in [1 .. Len(r) -> Block]
  BY BlockListsType, NumBlocksAssumption
<1> DEFINE D == {i \in Nat : i <= Len(q) + 1 /\ i <= Len(r) + 1 /\ At(q, i) # At(r, i)}
<1>2. D = {}
  <2> SUFFICES ASSUME D # {} PROVE FALSE
    OBVIOUS
  <2>1. PICK d \in D : \A e \in D : d <= e
    BY LeastNat
  <2>2. d # 0
    BY AtFacts
  <2>3. d - 1 \in Nat /\ d - 1 \notin D /\ d - 1 \in 0 .. Len(q) /\ d - 1 \in 0 .. Len(r)
    BY <1>1, <2>1, <2>2
  <2>4. At(q, d - 1) = At(r, d - 1)
    BY <1>1, <2>3
  <2>5. At(q, (d - 1) + 1) = At(r, (d - 1) + 1)
    BY <2>3, <2>4 DEF Follows
  <2>6. (d - 1) + 1 = d
    BY <2>1
  <2> QED BY <2>1, <2>5, <2>6
<1>3. \A i \in Nat : i <= Len(q) + 1 /\ i <= Len(r) + 1 => At(q, i) = At(r, i)
  BY <1>2
<1> HIDE DEF D
<1>4. Len(q) = Len(r)
  <2>1. CASE Len(q) < Len(r)
    <3>1. At(q, Len(q) + 1) = At(r, Len(q) + 1) /\ Len(q) + 1 \in 1 .. Len(r)
      BY <1>1, <1>3, <2>1
    <3>2. At(r, Len(q) + 1) \in Block /\ At(q, Len(q) + 1) = FakeTail
      BY <3>1, AtFacts
    <3> QED BY <3>1, <3>2, NumBlocksAssumption DEF Block, FakeTail
  <2>2. CASE Len(r) < Len(q)
    <3>1. At(q, Len(r) + 1) = At(r, Len(r) + 1) /\ Len(r) + 1 \in 1 .. Len(q)
      BY <1>1, <1>3, <2>2
    <3>2. At(q, Len(r) + 1) \in Block /\ At(r, Len(r) + 1) = FakeTail
      BY <3>1, AtFacts
    <3> QED BY <3>1, <3>2, NumBlocksAssumption DEF Block, FakeTail
  <2>3. \A m, n \in Nat : m < n \/ n < m \/ m = n
    OBVIOUS
  <2> QED BY <1>1, <2>1, <2>2, <2>3
<1>5. \A i \in 1 .. Len(q) : q[i] = r[i]
  BY <1>1, <1>3, <1>4, AtFacts
<1> QED BY <1>1, <1>4, <1>5

\* The list the links spell out is what get_all_free_blocks returns.
LEMMA WalkIsFreeBlocks ==
    ASSUME NEW q \in BlockLists, IsWalk(q)
    PROVE  get_all_free_blocks = q
<1>1. get_all_free_blocks \in BlockLists /\ IsWalk(get_all_free_blocks)
  BY DEF get_all_free_blocks
<1>2. Follows(q, next_free_block) /\ Follows(get_all_free_blocks, next_free_block)
  BY <1>1 DEF IsWalk, Follows
<1> QED BY <1>1, <1>2, WalkUnique

\* The same in the next state.
LEMMA WalkIsFreeBlocksPrime ==
    ASSUME NEW q \in BlockLists, IsWalk(q)'
    PROVE  get_all_free_blocks' = q
<1> DEFINE W(x) == \A i \in 0 .. Len(x) : next_free_block'[At(x, i)] = At(x, i + 1)
           g == CHOOSE x \in BlockLists : W(x)
<1>1. get_all_free_blocks' = g
  BY DEF get_all_free_blocks, IsWalk
<1>2. W(q)
  BY DEF IsWalk
<1>3. g \in BlockLists /\ W(g)
  BY <1>2
<1>4. Follows(q, next_free_block') /\ Follows(g, next_free_block')
  BY <1>2, <1>3 DEF Follows
<1> HIDE DEF g
<1> QED BY <1>1, <1>3, <1>4, WalkUnique

-----------------------------------------------------------------------------
(***************************************************************************)
(* What IsList says, in terms of At.                                       *)
(***************************************************************************)
LinksOf(q, nxt, prv) ==
    /\ \A i \in 0 .. Len(q) : nxt[At(q, i)] = At(q, i + 1) /\ prv[At(q, i + 1)] = At(q, i)
    /\ \A b \in Block : (\A i \in 1 .. Len(q) : b # At(q, i)) => nxt[b] = None /\ prv[b] = None
    /\ nxt[FakeTail] = None
    /\ prv[FakeHead] = None

\* LinksOf, with "is not a node of the list" said as IsList says it.
LEMMA LinksOfRange ==
    ASSUME NEW q \in BlockLists, NEW nxt, NEW prv
    PROVE  LinksOf(q, nxt, prv) <=>
             /\ \A i \in 0 .. Len(q) : nxt[At(q, i)] = At(q, i + 1)
             /\ \A i \in 0 .. Len(q) : prv[At(q, i + 1)] = At(q, i)
             /\ \A b \in Block \ Range(q) : nxt[b] = None /\ prv[b] = None
             /\ nxt[FakeTail] = None
             /\ prv[FakeHead] = None
<1>1. \A b : b \in Range(q) <=> \E i \in 1 .. Len(q) : b = At(q, i)
  BY AtFacts
<1> QED BY <1>1 DEF LinksOf

\* IsList, in terms of LinksOf.
LEMMA IsListLinks ==
    ASSUME NEW q \in BlockLists
    PROVE  IsList(q) <=> /\ Len(q) = num_free_blocks
                         /\ IsInjective(q)
                         /\ LinksOf(q, next_free_block, prev_free_block)
BY LinksOfRange DEF IsList, IsWalk

\* What has to be shown of a list for IsList to hold in the next state.
LEMMA IsListLinksPrime ==
    ASSUME NEW q \in BlockLists,
           Len(q) = num_free_blocks',
           IsInjective(q),
           LinksOf(q, next_free_block', prev_free_block')
    PROVE  IsList(q)'
BY LinksOfRange DEF IsList, IsWalk

(***************************************************************************)
(* A suffix of a list of distinct blocks is one, and its nodes are those   *)
(* of the list from n + 1 on.                                              *)
(***************************************************************************)
LEMMA SuffixList ==
    ASSUME NEW q \in BlockLists, IsInjective(q), NEW n \in 0 .. Len(q),
           NEW r, r = SubSeq(q, n + 1, Len(q))
    PROVE  /\ r \in BlockLists
           /\ Len(r) = Len(q) - n
           /\ IsInjective(r)
           /\ At(r, 0) = FakeHead
           /\ \A i \in 1 .. Len(r) + 1 : At(r, i) = At(q, n + i)
<1>1. PICK L \in Nat : L = Len(q) /\ L <= NumBlocks /\ q \in [1 .. L -> Block]
  BY BlockListsType, NumBlocksAssumption
<1> DEFINE m == L - n
<1>2. m \in Nat /\ m = L - n /\ m <= NumBlocks
  BY <1>1, NumBlocksAssumption
<1>3. n \in Nat /\ n <= L /\ n + 1 \in Int /\ L \in Int /\ r = SubSeq(q, n + 1, L)
  BY <1>1
<1> HIDE DEF m
<1>4. \A i \in n + 1 .. L : q[i] \in Block
  BY <1>1, <1>3
<1>5. r \in Seq(Block) /\ Len(r) = IF n + 1 <= L THEN L - (n + 1) + 1 ELSE 0
  BY <1>3, <1>4, SubSeqProperties
<1>6. \A i \in 1 .. L - (n + 1) + 1 : r[i] = q[n + 1 + i - 1]
  BY <1>3, <1>4, SubSeqProperties
<1>7. Len(r) = m
  <2>1. (IF n + 1 <= L THEN L - (n + 1) + 1 ELSE 0) = m
    BY <1>2, <1>3
  <2> QED BY <1>5, <2>1
<1>8. ASSUME NEW i \in 1 .. m
      PROVE  r[i] = q[n + i] /\ n + i \in 1 .. L
  <2>1. i \in 1 .. L - (n + 1) + 1 /\ n + 1 + i - 1 = n + i /\ n + i \in 1 .. L
    BY <1>2, <1>3
  <2>2. r[i] = q[n + 1 + i - 1]
    BY <1>6, <2>1
  <2> QED BY <2>1, <2>2
<1>9. r \in [1 .. m -> Block]
  BY <1>5, <1>7, LenProperties
<1>10. r \in BlockLists
  BY <1>2, <1>9, BlockListsIntro
<1>11. IsInjective(r)
  <2> SUFFICES ASSUME NEW i \in 1 .. m, NEW j \in 1 .. m, r[i] = r[j] PROVE i = j
    BY <1>9 DEF IsInjective
  <2>1. n + i = n + j
    BY <1>1, <1>8 DEF IsInjective
  <2> QED BY <1>2, <1>3, <2>1
<1>12. At(r, 0) = FakeHead
  BY DEF At
<1>13. ASSUME NEW i \in 1 .. m + 1
       PROVE  At(r, i) = At(q, n + i)
  <2>1. CASE i = m + 1
    <3>1. i # 0 /\ n + i # 0 /\ n + i = L + 1
      BY <1>2, <1>3, <2>1
    <3> QED BY <1>1, <1>7, <2>1, <3>1 DEF At
  <2>2. CASE i # m + 1
    <3>1. i \in 1 .. m /\ i # 0 /\ n + i # 0 /\ n + i # L + 1
      BY <1>2, <1>3, <2>2
    <3>2. r[i] = q[n + i]
      BY <1>8, <3>1
    <3> QED BY <1>1, <1>7, <2>2, <3>1, <3>2 DEF At
  <2> QED BY <2>1, <2>2
<1>14. Len(r) = Len(q) - n
  BY <1>1, <1>2, <1>7
<1> QED BY <1>7, <1>10, <1>11, <1>12, <1>13, <1>14

(***************************************************************************)
(* Dropping the first n blocks of a list: what popleft and popleft_n do to *)
(* the links.                                                              *)
(***************************************************************************)
Dropped(q, n, nxt, prv, nxt2, prv2) ==
    /\ nxt2[FakeHead] = At(q, n + 1)
    /\ \A i \in 1 .. n : nxt2[At(q, i)] = None
    /\ \A x \in Node : x # FakeHead /\ (\A i \in 1 .. n : x # At(q, i)) => nxt2[x] = nxt[x]
    /\ prv2[At(q, n + 1)] = FakeHead
    /\ \A i \in 1 .. n : prv2[At(q, i)] = None
    /\ \A x \in Node : x # At(q, n + 1) /\ (\A i \in 1 .. n : x # At(q, i)) => prv2[x] = prv[x]

\* popleft and popleft_n: dropping the first n blocks leaves the links of the
\* rest of the list.
LEMMA DropList ==
    ASSUME NEW q \in BlockLists, IsInjective(q),
           NEW nxt, NEW prv, LinksOf(q, nxt, prv),
           NEW n \in 1 .. Len(q),
           NEW nxt2, NEW prv2, Dropped(q, n, nxt, prv, nxt2, prv2),
           NEW r, r = SubSeq(q, n + 1, Len(q))
    PROVE  LinksOf(r, nxt2, prv2)
<1>1. PICK L \in Nat : L = Len(q) /\ n \in 1 .. L
  BY BlockListsType, NumBlocksAssumption
<1>2. /\ Len(r) = L - n
      /\ At(r, 0) = FakeHead
      /\ \A i \in 1 .. (L - n) + 1 : At(r, i) = At(q, n + i)
  <2>1. n \in 0 .. Len(q)
    BY <1>1
  <2>2. /\ Len(r) = Len(q) - n
        /\ At(r, 0) = FakeHead
        /\ \A i \in 1 .. Len(r) + 1 : At(r, i) = At(q, n + i)
    BY <2>1, SuffixList
  <2> QED BY <1>1, <2>2
<1>3. /\ At(q, 0) = FakeHead
      /\ \A i \in 1 .. L : At(q, i) \in Block
      /\ At(q, L + 1) = FakeTail
      /\ \A i \in 0 .. L + 1 : At(q, i) \in Node
      /\ \A i, j \in 0 .. L + 1 : At(q, i) = At(q, j) => i = j
  BY <1>1, AtFacts
<1>4. /\ \A i \in 0 .. L : nxt[At(q, i)] = At(q, i + 1) /\ prv[At(q, i + 1)] = At(q, i)
      /\ \A b \in Block : (\A i \in 1 .. L : b # At(q, i)) => nxt[b] = None /\ prv[b] = None
      /\ nxt[FakeTail] = None
      /\ prv[FakeHead] = None
  BY <1>1 DEF LinksOf
<1>5. /\ \A i \in 0 .. L + 1 : i # 0 /\ i \notin 1 .. n => nxt2[At(q, i)] = nxt[At(q, i)]
      /\ \A i \in 0 .. L + 1 : i # n + 1 /\ i \notin 1 .. n => prv2[At(q, i)] = prv[At(q, i)]
  <2>1. \A i \in 1 .. n : i \in 0 .. L + 1
    BY <1>1
  <2>2. n + 1 \in 0 .. L + 1 /\ 0 \in 0 .. L + 1
    BY <1>1
  <2>3. ASSUME NEW i \in 0 .. L + 1, i # 0, i \notin 1 .. n
        PROVE  nxt2[At(q, i)] = nxt[At(q, i)]
    BY <1>3, <2>1, <2>2, <2>3 DEF Dropped
  <2>4. ASSUME NEW i \in 0 .. L + 1, i # n + 1, i \notin 1 .. n
        PROVE  prv2[At(q, i)] = prv[At(q, i)]
    BY <1>3, <2>1, <2>2, <2>4 DEF Dropped
  <2> QED BY <2>3, <2>4
<1>6. ASSUME NEW i \in 0 .. L - n
      PROVE  nxt2[At(r, i)] = At(r, i + 1) /\ prv2[At(r, i + 1)] = At(r, i)
  <2>1. CASE i = 0
    <3>1. 1 \in 1 .. (L - n) + 1 /\ 0 + 1 = 1
      BY <1>1
    <3>2. At(r, i + 1) = At(q, n + 1)
      BY <1>2, <2>1, <3>1
    <3> QED BY <1>2, <2>1, <3>2 DEF Dropped
  <2>2. CASE i # 0
    <3>1. /\ i \in 1 .. (L - n) + 1 /\ i + 1 \in 1 .. (L - n) + 1
          /\ n + (i + 1) = (n + i) + 1
          /\ n + i \in 0 .. L /\ n + i \in 0 .. L + 1 /\ (n + i) + 1 \in 0 .. L + 1
          /\ n + i \notin 1 .. n /\ n + i # 0 /\ (n + i) + 1 # n + 1 /\ (n + i) + 1 \notin 1 .. n
      BY <1>1, <2>2
    <3>2. At(r, i) = At(q, n + i) /\ At(r, i + 1) = At(q, (n + i) + 1)
      BY <1>2, <3>1
    <3>3. nxt[At(q, n + i)] = At(q, (n + i) + 1) /\ prv[At(q, (n + i) + 1)] = At(q, n + i)
      BY <1>4, <3>1
    <3>4. nxt2[At(q, n + i)] = nxt[At(q, n + i)]
      BY <1>5, <3>1
    <3>5. prv2[At(q, (n + i) + 1)] = prv[At(q, (n + i) + 1)]
      BY <1>5, <3>1
    <3> QED BY <3>2, <3>3, <3>4, <3>5
  <2> QED BY <2>1, <2>2
<1>7. ASSUME NEW b \in Block, \A i \in 1 .. L - n : b # At(r, i)
      PROVE  nxt2[b] = None /\ prv2[b] = None
  <2>1. b \in Node /\ b # FakeHead /\ b # FakeTail
    BY NumBlocksAssumption DEF Node, Block, FakeHead, FakeTail
  <2>2. CASE \E i \in 1 .. n : b = At(q, i)
    BY <2>2 DEF Dropped
  <2>3. CASE ~ \E i \in 1 .. n : b = At(q, i)
    <3>1. ASSUME NEW i \in 1 .. L, b = At(q, i)
          PROVE  FALSE
      <4>1. i \notin 1 .. n
        BY <2>3, <3>1
      <4>2. i - n \in 1 .. L - n /\ i - n \in 1 .. (L - n) + 1 /\ n + (i - n) = i
        BY <1>1, <4>1
      <4>3. At(r, i - n) = At(q, n + (i - n))
        BY <1>2, <4>2
      <4> QED BY <1>7, <3>1, <4>2, <4>3
    <3>2. nxt[b] = None /\ prv[b] = None
      BY <1>4, <3>1
    <3>3. n + 1 \in 1 .. L \/ n + 1 = L + 1
      BY <1>1
    <3>4. b # At(q, n + 1)
      BY <1>3, <2>1, <3>1, <3>3
    <3> QED BY <2>1, <2>3, <3>2, <3>4 DEF Dropped
  <2> QED BY <2>2, <2>3
<1>8. nxt2[FakeTail] = None /\ prv2[FakeHead] = None
  <2>1. /\ L + 1 \in 0 .. L + 1 /\ L + 1 # 0 /\ L + 1 \notin 1 .. n
        /\ 0 \in 0 .. L + 1 /\ 0 # n + 1 /\ 0 \notin 1 .. n
    BY <1>1
  <2> QED BY <1>3, <1>4, <1>5, <2>1
<1> QED BY <1>2, <1>6, <1>7, <1>8 DEF LinksOf

(***************************************************************************)
(* A list without its k-th block.                                          *)
(***************************************************************************)
LEMMA WithoutList ==
    ASSUME NEW q \in BlockLists, IsInjective(q), NEW k \in 1 .. Len(q),
           NEW r, r = SubSeq(q, 1, k - 1) \o SubSeq(q, k + 1, Len(q))
    PROVE  /\ r \in BlockLists
           /\ Len(r) = Len(q) - 1
           /\ IsInjective(r)
           /\ \A i \in 0 .. Len(q) : At(r, i) = IF i < k THEN At(q, i) ELSE At(q, i + 1)
<1>1. PICK L \in Nat : L = Len(q) /\ L <= NumBlocks /\ q \in [1 .. L -> Block]
  BY BlockListsType, NumBlocksAssumption
<1> DEFINE m == L - 1
           u == SubSeq(q, 1, k - 1)
           v == SubSeq(q, k + 1, L)
<1>2. /\ k \in Nat /\ 1 <= k /\ k <= L /\ k - 1 \in Int /\ k + 1 \in Int /\ L \in Int
      /\ m \in Nat /\ m = L - 1 /\ m <= NumBlocks /\ r = u \o v
  BY <1>1, NumBlocksAssumption
<1>3. /\ \A i \in 1 .. k - 1 : q[i] \in Block
      /\ \A i \in k + 1 .. L : q[i] \in Block
  BY <1>1, <1>2
<1>4. u \in Seq(Block) /\ Len(u) = IF 1 <= k - 1 THEN (k - 1) - 1 + 1 ELSE 0
  BY <1>2, <1>3, SubSeqProperties
<1>5. \A i \in 1 .. (k - 1) - 1 + 1 : u[i] = q[1 + i - 1]
  BY <1>2, <1>3, SubSeqProperties
<1>6. v \in Seq(Block) /\ Len(v) = IF k + 1 <= L THEN L - (k + 1) + 1 ELSE 0
  BY <1>2, <1>3, SubSeqProperties
<1>7. \A i \in 1 .. L - (k + 1) + 1 : v[i] = q[k + 1 + i - 1]
  BY <1>2, <1>3, SubSeqProperties
<1> HIDE DEF m, u, v
<1>8. Len(u) = k - 1
  <2>1. (IF 1 <= k - 1 THEN (k - 1) - 1 + 1 ELSE 0) = k - 1
    BY <1>2
  <2> QED BY <1>4, <2>1
<1>9. Len(v) = L - k
  <2>1. (IF k + 1 <= L THEN L - (k + 1) + 1 ELSE 0) = L - k
    BY <1>2
  <2> QED BY <1>6, <2>1
<1>10. /\ r \in Seq(Block) /\ Len(r) = Len(u) + Len(v)
       /\ \A i \in 1 .. Len(u) + Len(v) : r[i] = IF i <= Len(u) THEN u[i] ELSE v[i - Len(u)]
  <2>1. u \o v \in Seq(Block) /\ Len(u \o v) = Len(u) + Len(v)
    BY <1>4, <1>6, ConcatProperties
  <2>2. \A i \in 1 .. Len(u) + Len(v) : (u \o v)[i] = IF i <= Len(u) THEN u[i] ELSE v[i - Len(u)]
    BY <1>4, <1>6, ConcatProperties
  <2>3. r = u \o v
    BY <1>2
  <2> QED BY <2>1, <2>2, <2>3
<1>11. Len(u) + Len(v) = m
  BY <1>2, <1>8, <1>9
<1>12. Len(r) = m
  BY <1>10, <1>11
<1>13. ASSUME NEW i \in 1 .. m
       PROVE  r[i] = IF i < k THEN q[i] ELSE q[i + 1]
  <2>1. r[i] = IF i <= k - 1 THEN u[i] ELSE v[i - (k - 1)]
    BY <1>8, <1>10, <1>11
  <2>2. CASE i < k
    <3>1. i <= k - 1 /\ i \in 1 .. (k - 1) - 1 + 1 /\ 1 + i - 1 = i
      BY <1>2, <2>2
    <3>2. u[i] = q[1 + i - 1]
      BY <1>5, <3>1
    <3> QED BY <2>1, <2>2, <3>1, <3>2
  <2>3. CASE ~(i < k)
    <3>1. /\ ~(i <= k - 1) /\ i - (k - 1) \in 1 .. L - (k + 1) + 1
          /\ k + 1 + (i - (k - 1)) - 1 = i + 1
      BY <1>2, <2>3
    <3>2. v[i - (k - 1)] = q[k + 1 + (i - (k - 1)) - 1]
      BY <1>7, <3>1
    <3> QED BY <2>1, <2>3, <3>1, <3>2
  <2> QED BY <2>2, <2>3
<1>14. r \in [1 .. m -> Block]
  BY <1>10, <1>12, LenProperties
<1>15. r \in BlockLists
  BY <1>2, <1>14, BlockListsIntro
<1>16. IsInjective(r)
  <2> SUFFICES ASSUME NEW i \in 1 .. m, NEW j \in 1 .. m, r[i] = r[j] PROVE i = j
    BY <1>14 DEF IsInjective
  <2> DEFINE ii == IF i < k THEN i ELSE i + 1
             jj == IF j < k THEN j ELSE j + 1
  <2>1. r[i] = q[ii] /\ r[j] = q[jj]
    BY <1>13
  <2>2. ii \in 1 .. L /\ jj \in 1 .. L
    BY <1>2
  <2>3. ii = jj
    BY <1>1, <2>1, <2>2 DEF IsInjective
  <2> QED BY <1>2, <2>3
<1>17. ASSUME NEW i \in 0 .. L
       PROVE  At(r, i) = IF i < k THEN At(q, i) ELSE At(q, i + 1)
  <2>1. CASE i = 0
    BY <1>2, <2>1 DEF At
  <2>2. CASE i = L
    <3>1. ~(i < k) /\ i # 0 /\ i = m + 1 /\ i + 1 # 0 /\ i + 1 = L + 1
      BY <1>2, <2>2
    <3> QED BY <1>1, <1>12, <3>1 DEF At
  <2>3. CASE i # 0 /\ i # L
    <3>1. /\ i \in 1 .. m /\ i # 0 /\ i # m + 1 /\ i # L + 1
          /\ i + 1 # 0 /\ i + 1 # L + 1
      BY <1>2, <2>3
    <3>2. r[i] = IF i < k THEN q[i] ELSE q[i + 1]
      BY <1>13, <3>1
    <3> QED BY <1>1, <1>12, <3>1, <3>2 DEF At
  <2> QED BY <2>1, <2>2, <2>3
<1>18. Len(r) = Len(q) - 1
  BY <1>1, <1>2, <1>12
<1> QED BY <1>1, <1>15, <1>16, <1>17, <1>18

(***************************************************************************)
(* Unlinking the k-th block, as remove does.                               *)
(***************************************************************************)
Unlinked(q, k, nxt, prv, nxt2, prv2) ==
    /\ nxt2[At(q, k)] = None /\ prv2[At(q, k)] = None
    /\ nxt2[At(q, k - 1)] = At(q, k + 1)
    /\ prv2[At(q, k + 1)] = At(q, k - 1)
    /\ \A x \in Node : x # At(q, k) /\ x # At(q, k - 1) => nxt2[x] = nxt[x]
    /\ \A x \in Node : x # At(q, k) /\ x # At(q, k + 1) => prv2[x] = prv[x]

\* remove: unlinking the k-th block leaves the links of the list without it.
LEMMA UnlinkList ==
    ASSUME NEW q \in BlockLists, IsInjective(q),
           NEW nxt, NEW prv, LinksOf(q, nxt, prv),
           NEW k \in 1 .. Len(q),
           NEW nxt2, NEW prv2, Unlinked(q, k, nxt, prv, nxt2, prv2),
           NEW r, r = SubSeq(q, 1, k - 1) \o SubSeq(q, k + 1, Len(q))
    PROVE  LinksOf(r, nxt2, prv2)
<1>1. PICK L \in Nat : L = Len(q) /\ k \in 1 .. L
  BY BlockListsType, NumBlocksAssumption
<1>2. /\ Len(r) = L - 1
      /\ \A i \in 0 .. L : At(r, i) = IF i < k THEN At(q, i) ELSE At(q, i + 1)
  BY <1>1, WithoutList
<1>3. /\ At(q, 0) = FakeHead
      /\ \A i \in 1 .. L : At(q, i) \in Block
      /\ At(q, L + 1) = FakeTail
      /\ \A i \in 0 .. L + 1 : At(q, i) \in Node
      /\ \A i, j \in 0 .. L + 1 : At(q, i) = At(q, j) => i = j
  BY <1>1, AtFacts
<1>4. /\ \A i \in 0 .. L : nxt[At(q, i)] = At(q, i + 1) /\ prv[At(q, i + 1)] = At(q, i)
      /\ \A b \in Block : (\A i \in 1 .. L : b # At(q, i)) => nxt[b] = None /\ prv[b] = None
      /\ nxt[FakeTail] = None
      /\ prv[FakeHead] = None
  BY <1>1 DEF LinksOf
<1>5. k - 1 \in 0 .. L + 1 /\ k \in 0 .. L + 1 /\ k + 1 \in 0 .. L + 1 /\ k - 1 # k /\ k + 1 # k
  BY <1>1
<1>6. /\ nxt2[At(q, k)] = None /\ prv2[At(q, k)] = None
      /\ nxt2[At(q, k - 1)] = At(q, k + 1)
      /\ prv2[At(q, k + 1)] = At(q, k - 1)
      /\ \A i \in 0 .. L + 1 : i # k /\ i # k - 1 => nxt2[At(q, i)] = nxt[At(q, i)]
      /\ \A i \in 0 .. L + 1 : i # k /\ i # k + 1 => prv2[At(q, i)] = prv[At(q, i)]
      /\ \A b \in Node : (\A i \in 0 .. L + 1 : b # At(q, i)) =>
             nxt2[b] = nxt[b] /\ prv2[b] = prv[b]
  BY <1>3, <1>5 DEF Unlinked
<1>7. ASSUME NEW i \in 0 .. L - 1
      PROVE  nxt2[At(r, i)] = At(r, i + 1) /\ prv2[At(r, i + 1)] = At(r, i)
  <2>0. i \in 0 .. L /\ i + 1 \in 0 .. L
    BY <1>1
  <2>1. CASE i < k - 1
    <3>1. At(r, i) = At(q, i) /\ At(r, i + 1) = At(q, i + 1)
      BY <1>1, <1>2, <2>0, <2>1
    <3>2. nxt2[At(q, i)] = nxt[At(q, i)] /\ prv2[At(q, i + 1)] = prv[At(q, i + 1)]
      <4>1. /\ i \in 0 .. L + 1 /\ i # k /\ i # k - 1
            /\ i + 1 \in 0 .. L + 1 /\ i + 1 # k /\ i + 1 # k + 1
        BY <1>1, <2>0, <2>1
      <4> QED BY <1>6, <4>1
    <3> QED BY <1>4, <2>0, <3>1, <3>2
  <2>2. CASE i = k - 1
    <3>1. At(r, i) = At(q, k - 1) /\ At(r, i + 1) = At(q, k + 1)
      BY <1>1, <1>2, <2>0, <2>2
    <3> QED BY <1>6, <3>1
  <2>3. CASE i > k - 1
    <3>1. At(r, i) = At(q, i + 1) /\ At(r, i + 1) = At(q, i + 1 + 1)
      BY <1>1, <1>2, <2>0, <2>3
    <3>2. nxt2[At(q, i + 1)] = nxt[At(q, i + 1)] /\ prv2[At(q, i + 1 + 1)] = prv[At(q, i + 1 + 1)]
      <4>1. /\ i + 1 \in 0 .. L + 1 /\ i + 1 # k /\ i + 1 # k - 1
            /\ i + 1 + 1 \in 0 .. L + 1 /\ i + 1 + 1 # k /\ i + 1 + 1 # k + 1
        BY <1>1, <2>0, <2>3
      <4> QED BY <1>6, <4>1
    <3> QED BY <1>4, <2>0, <3>1, <3>2
  <2> QED BY <1>1, <2>1, <2>2, <2>3
<1>8. ASSUME NEW b \in Block, \A i \in 1 .. L - 1 : b # At(r, i)
      PROVE  nxt2[b] = None /\ prv2[b] = None
  <2>1. b \in Node /\ b # FakeHead /\ b # FakeTail
    BY NumBlocksAssumption DEF Node, Block, FakeHead, FakeTail
  <2>2. CASE b = At(q, k)
    BY <1>6, <2>2
  <2>3. CASE b # At(q, k)
    <3>1. ASSUME NEW i \in 1 .. L, b = At(q, i)
          PROVE  FALSE
      <4>1. CASE i < k
        <5>1. i \in 1 .. L - 1 /\ i \in 0 .. L
          BY <1>1, <4>1
        <5> QED BY <1>2, <1>8, <3>1, <4>1, <5>1
      <4>2. CASE i > k
        <5>1. i - 1 \in 1 .. L - 1 /\ i - 1 \in 0 .. L /\ ~(i - 1 < k) /\ (i - 1) + 1 = i
          BY <1>1, <4>2
        <5>2. At(r, i - 1) = At(q, (i - 1) + 1)
          BY <1>2, <5>1
        <5> QED BY <1>8, <3>1, <5>1, <5>2
      <4> QED BY <1>1, <2>3, <3>1, <4>1, <4>2
    <3>2. \A i \in 0 .. L + 1 : b # At(q, i)
      BY <1>1, <1>3, <2>1, <3>1
    <3>3. nxt[b] = None /\ prv[b] = None
      BY <1>4, <3>1
    <3> QED BY <1>6, <2>1, <3>2, <3>3
  <2> QED BY <2>2, <2>3
<1>9. nxt2[FakeTail] = None /\ prv2[FakeHead] = None
  <2>1. L + 1 \in 0 .. L + 1 /\ 0 \in 0 .. L + 1 /\ L + 1 # k /\ L + 1 # k - 1 /\ 0 # k /\ 0 # k + 1
    BY <1>1
  <2> QED BY <1>3, <1>4, <1>6, <2>1
<1> QED BY <1>2, <1>7, <1>8, <1>9 DEF LinksOf

(***************************************************************************)
(* r is the concatenation of two lists of blocks.                          *)
(***************************************************************************)
Concatenation(q, bs, r) ==
    /\ r \in Seq(Block)
    /\ Len(r) = Len(q) + Len(bs)
    /\ \A i \in 1 .. Len(q) + Len(bs) : r[i] = IF i <= Len(q) THEN q[i] ELSE bs[i - Len(q)]

\* Concatenation describes q \o bs.
LEMMA ConcatenationIs ==
    ASSUME NEW q \in BlockLists, NEW bs \in BlockLists
    PROVE  Concatenation(q, bs, q \o bs)
<1>1. q \in Seq(Block) /\ bs \in Seq(Block)
  BY BlockListsType
<1> QED BY <1>1, ConcatProperties DEF Concatenation

(***************************************************************************)
(* A list with other blocks at its end; that there is room for them        *)
(* follows from the number of blocks.                                      *)
(***************************************************************************)
LEMMA LongerList ==
    ASSUME NEW q \in BlockLists, IsInjective(q), NEW bs \in BlockLists, IsInjective(bs),
           Range(q) \cap Range(bs) = {},
           NEW r, Concatenation(q, bs, r)
    PROVE  /\ r \in BlockLists
           /\ Len(r) = Len(q) + Len(bs)
           /\ IsInjective(r)
           /\ \A i \in 0 .. Len(q) : At(r, i) = At(q, i)
           /\ \A j \in 1 .. Len(bs) + 1 : At(r, Len(q) + j) = At(bs, j)
<1>1. PICK L \in Nat : L = Len(q) /\ q \in [1 .. L -> Block] /\ q \in Seq(Block)
  BY BlockListsType, NumBlocksAssumption
<1>2. PICK n \in Nat : n = Len(bs) /\ bs \in [1 .. n -> Block] /\ bs \in Seq(Block)
  BY BlockListsType, NumBlocksAssumption
<1>3. /\ r \in Seq(Block) /\ Len(r) = L + n
      /\ \A i \in 1 .. L + n : r[i] = IF i <= L THEN q[i] ELSE bs[i - L]
  BY <1>1, <1>2 DEF Concatenation
<1>4. r \in [1 .. L + n -> Block]
  BY <1>3, LenProperties
<1>5. ASSUME NEW i \in 1 .. L + n
      PROVE  \/ i \in 1 .. L /\ r[i] = q[i]
             \/ i - L \in 1 .. n /\ r[i] = bs[i - L]
  <2>1. CASE i <= L
    <3>1. i \in 1 .. L
      BY <1>1, <2>1
    <3> QED BY <1>1, <1>3, <2>1, <3>1
  <2>2. CASE ~(i <= L)
    <3>1. i - L \in 1 .. n
      BY <1>1, <1>2, <2>2
    <3> QED BY <1>2, <1>3, <2>2, <3>1
  <2> QED BY <2>1, <2>2
<1>6. IsInjective(r)
  <2>0. \A i \in 1 .. L, j \in 1 .. n : q[i] # bs[j]
    BY <1>1, <1>2 DEF Range
  <2> SUFFICES ASSUME NEW i \in 1 .. L + n, NEW j \in 1 .. L + n, r[i] = r[j] PROVE i = j
    BY <1>4 DEF IsInjective
  <2>1. CASE i \in 1 .. L /\ r[i] = q[i]
    <3>1. j \in 1 .. L /\ r[j] = q[j]
      BY <1>5, <2>0, <2>1
    <3> QED BY <1>1, <2>1, <3>1 DEF IsInjective
  <2>2. CASE i - L \in 1 .. n /\ r[i] = bs[i - L]
    <3>1. j - L \in 1 .. n /\ r[j] = bs[j - L]
      BY <1>5, <2>0, <2>2
    <3>2. i - L = j - L
      BY <1>2, <2>2, <3>1 DEF IsInjective
    <3> QED BY <1>1, <3>2
  <2> QED BY <1>5, <2>1, <2>2
<1>7. r \in BlockLists
  <2>1. L + n \in Nat
    BY <1>1, <1>2
  <2>2. L + n <= NumBlocks
    BY <1>4, <1>6, <2>1, InjectiveBound
  <2> QED BY <1>4, <2>1, <2>2, BlockListsIntro
<1>8. ASSUME NEW i \in 0 .. L
      PROVE  At(r, i) = At(q, i)
  <2>1. CASE i = 0
    BY <2>1 DEF At
  <2>2. CASE i # 0
    <3>1. i \in 1 .. L + n /\ i <= L /\ i # L + n + 1 /\ i # L + 1
      BY <1>1, <1>2, <2>2
    <3> QED BY <1>1, <1>3, <2>2, <3>1 DEF At
  <2> QED BY <2>1, <2>2
<1>9. ASSUME NEW j \in 1 .. n + 1
      PROVE  At(r, L + j) = At(bs, j)
  <2>1. CASE j = n + 1
    <3>1. j # 0 /\ L + j # 0 /\ L + j = L + n + 1
      BY <1>1, <1>2, <2>1
    <3> QED BY <1>2, <1>3, <2>1, <3>1 DEF At
  <2>2. CASE j # n + 1
    <3>1. /\ j # 0 /\ L + j # 0 /\ L + j # L + n + 1
          /\ L + j \in 1 .. L + n /\ ~(L + j <= L) /\ L + j - L = j
      BY <1>1, <1>2, <2>2
    <3>2. r[L + j] = bs[L + j - L]
      BY <1>3, <3>1
    <3>3. r[L + j] = bs[j]
      BY <3>1, <3>2
    <3> QED BY <1>2, <1>3, <2>2, <3>1, <3>3 DEF At
  <2> QED BY <2>1, <2>2
<1> QED BY <1>1, <1>2, <1>3, <1>6, <1>7, <1>8, <1>9

(***************************************************************************)
(* Linking detached blocks in before the fake tail: append and append_n.   *)
(***************************************************************************)
Extended(q, bs, nxt, prv, nxt2, prv2) ==
    /\ nxt2[At(q, Len(q))] = bs[1]
    /\ \A j \in 1 .. Len(bs) : nxt2[bs[j]] = At(bs, j + 1)
    /\ \A x \in Node : x # At(q, Len(q)) /\ (\A j \in 1 .. Len(bs) : x # bs[j])
                          => nxt2[x] = nxt[x]
    /\ prv2[bs[1]] = At(q, Len(q))
    /\ \A j \in 2 .. Len(bs) + 1 : prv2[At(bs, j)] = bs[j - 1]
    /\ \A x \in Node : x # FakeTail /\ (\A j \in 1 .. Len(bs) : x # bs[j])
                          => prv2[x] = prv[x]

\* append and append_n: hooking the blocks of bs in before the fake tail gives
\* the links of the longer list.
LEMMA ExtendList ==
    ASSUME NEW q \in BlockLists, IsInjective(q),
           NEW nxt, NEW prv, LinksOf(q, nxt, prv),
           NEW bs \in BlockLists, IsInjective(bs), Len(bs) # 0,
           \A b \in Range(bs) : nxt[b] = None /\ prv[b] = None,
           NEW nxt2, NEW prv2, Extended(q, bs, nxt, prv, nxt2, prv2),
           NEW r, Concatenation(q, bs, r)
    PROVE  /\ r \in BlockLists
           /\ Len(r) = Len(q) + Len(bs)
           /\ IsInjective(r)
           /\ LinksOf(r, nxt2, prv2)
<1>1. PICK L \in Nat : L = Len(q)
  BY BlockListsType, NumBlocksAssumption
<1>2. PICK n \in Nat : n = Len(bs) /\ n # 0
  BY BlockListsType, NumBlocksAssumption
<1>3. /\ At(q, 0) = FakeHead
      /\ \A i \in 1 .. L : At(q, i) \in Block /\ At(q, i) = q[i]
      /\ At(q, L + 1) = FakeTail
      /\ \A i \in 0 .. L + 1 : At(q, i) \in Node
      /\ \A i, j \in 0 .. L + 1 : At(q, i) = At(q, j) => i = j
  BY <1>1, AtFacts
<1>4. /\ \A i \in 0 .. L : nxt[At(q, i)] = At(q, i + 1) /\ prv[At(q, i + 1)] = At(q, i)
      /\ \A b \in Block : (\A i \in 1 .. L : b # At(q, i)) => nxt[b] = None /\ prv[b] = None
      /\ nxt[FakeTail] = None
      /\ prv[FakeHead] = None
  BY <1>1 DEF LinksOf
<1>5. /\ \A j \in 1 .. n : At(bs, j) = bs[j] /\ bs[j] \in Block
      /\ At(bs, n + 1) = FakeTail
  BY <1>2, AtFacts
<1>6. None \notin Node /\ FakeHead \notin Block /\ FakeTail \notin Block /\ FakeHead # FakeTail
  BY NumBlocksAssumption DEF Node, Block, None, FakeHead, FakeTail
<1>7. \A i \in 0 .. L : nxt[At(q, i)] \in Node /\ nxt[At(q, i)] # None
  BY <1>1, <1>3, <1>4, <1>6
<1>8. \A i \in 0 .. L : \A j \in 1 .. n : At(q, i) # bs[j]
  <2>1. \A j \in 1 .. n : bs[j] \in Range(bs)
    BY <1>2, <1>5, AtFacts
  <2> QED BY <1>7, <2>1
<1>9. /\ r \in BlockLists
      /\ Len(r) = L + n
      /\ IsInjective(r)
      /\ \A i \in 0 .. L : At(r, i) = At(q, i)
      /\ \A j \in 1 .. n + 1 : At(r, L + j) = At(bs, j)
  <2>1. Range(q) \cap Range(bs) = {}
    <3>1. \A b : b \in Range(q) <=> \E i \in 1 .. L : b = At(q, i)
      BY <1>1, AtFacts
    <3>2. \A b : b \in Range(bs) <=> \E j \in 1 .. n : b = bs[j]
      BY <1>2, <1>5, AtFacts
    <3>3. \A i \in 1 .. L : i \in 0 .. L
      BY <1>1
    <3> QED BY <1>8, <3>1, <3>2, <3>3
  <2>2. /\ r \in BlockLists
        /\ Len(r) = Len(q) + Len(bs)
        /\ IsInjective(r)
        /\ \A i \in 0 .. Len(q) : At(r, i) = At(q, i)
        /\ \A j \in 1 .. Len(bs) + 1 : At(r, Len(q) + j) = At(bs, j)
    BY <2>1, LongerList
  <2> QED BY <1>1, <1>2, <2>2
<1> USE DEF Extended
<1>10. ASSUME NEW i \in 0 .. L + n
       PROVE  nxt2[At(r, i)] = At(r, i + 1) /\ prv2[At(r, i + 1)] = At(r, i)
  <2>1. CASE i < L
    <3>1. /\ i \in 0 .. L /\ i + 1 \in 0 .. L /\ i # L /\ i + 1 # L + 1
          /\ L \in 0 .. L + 1 /\ i \in 0 .. L + 1
          /\ i + 1 \in 0 .. L + 1 /\ L + 1 \in 0 .. L + 1
      BY <1>1, <2>1
    <3>2. At(r, i) = At(q, i) /\ At(r, i + 1) = At(q, i + 1)
      BY <1>9, <3>1
    <3>3. nxt2[At(q, i)] = nxt[At(q, i)]
      BY <1>1, <1>2, <1>3, <1>8, <3>1
    <3>4. prv2[At(q, i + 1)] = prv[At(q, i + 1)]
      BY <1>1, <1>2, <1>3, <1>8, <3>1
    <3> QED BY <1>4, <3>1, <3>2, <3>3, <3>4
  <2>2. CASE i = L
    <3>1. 1 \in 1 .. n /\ 1 \in 1 .. n + 1 /\ L \in 0 .. L
      BY <1>2, <1>1
    <3>2. At(r, i) = At(q, L) /\ At(r, i + 1) = bs[1]
      BY <1>5, <1>9, <2>2, <3>1
    <3> QED BY <1>1, <3>2
  <2>3. CASE i > L
    <3>1. /\ i - L \in 1 .. n /\ (i - L) + 1 \in 2 .. n + 1 /\ (i - L) + 1 \in 1 .. n + 1
          /\ i - L \in 1 .. n + 1 /\ L + (i - L) = i /\ L + ((i - L) + 1) = i + 1
          /\ (i - L) + 1 - 1 = i - L
      BY <1>1, <1>2, <2>3
    <3>2. At(r, i) = bs[i - L] /\ At(r, i + 1) = At(bs, (i - L) + 1)
      BY <1>5, <1>9, <3>1
    <3>3. nxt2[bs[i - L]] = At(bs, (i - L) + 1)
      BY <1>2, <3>1
    <3>4. prv2[At(bs, (i - L) + 1)] = bs[i - L]
      BY <1>2, <3>1
    <3> QED BY <3>2, <3>3, <3>4
  <2> QED BY <1>1, <2>1, <2>2, <2>3
<1>11. ASSUME NEW b \in Block, \A i \in 1 .. L + n : b # At(r, i)
       PROVE  nxt2[b] = None /\ prv2[b] = None
  <2>1. b \in Node /\ b # FakeHead /\ b # FakeTail
    BY <1>6 DEF Node
  <2>2. ASSUME NEW i \in 1 .. L PROVE b # At(q, i)
    <3>1. i \in 1 .. L + n /\ i \in 0 .. L
      BY <1>1, <1>2
    <3> QED BY <1>9, <1>11, <3>1
  <2>3. ASSUME NEW j \in 1 .. n PROVE b # bs[j]
    <3>1. L + j \in 1 .. L + n /\ j \in 1 .. n + 1
      BY <1>1, <1>2
    <3> QED BY <1>5, <1>9, <1>11, <3>1
  <2>4. b # At(q, L)
    BY <1>1, <1>3, <2>1, <2>2
  <2>5. nxt[b] = None /\ prv[b] = None
    BY <1>4, <2>2
  <2> QED BY <1>1, <1>2, <2>1, <2>3, <2>4, <2>5
<1>12. nxt2[FakeTail] = None /\ prv2[FakeHead] = None
  <2>1. FakeTail \in Node /\ FakeHead \in Node
    BY DEF Node
  <2>2. FakeTail # At(q, L)
    BY <1>1, <1>3, <1>6
  <2> QED BY <1>1, <1>2, <1>4, <1>5, <1>6, <2>1, <2>2
<1> QED BY <1>1, <1>2, <1>9, <1>10, <1>11, <1>12 DEF LinksOf

-----------------------------------------------------------------------------
(***************************************************************************)
(* The effect of every call on the list q that the links spell out, with   *)
(* what it returns or raises.                                              *)
(***************************************************************************)
LEMMA InitList ==
    ASSUME Init
    PROVE  /\ TypeOK
           /\ [i \in 1 .. NumBlocks |-> i - 1] \in BlockLists
           /\ IsList([i \in 1 .. NumBlocks |-> i - 1])
<1> DEFINE q == [i \in 1 .. NumBlocks |-> i - 1]
<1>1. q \in [1 .. NumBlocks -> Block] /\ NumBlocks \in Nat
  BY NumBlocksAssumption DEF Block
<1>2. q \in BlockLists /\ Len(q) = NumBlocks
  BY <1>1, BlockListsIntro
<1>3. IsInjective(q)
  BY NumBlocksAssumption DEF IsInjective
<1>4. \A i \in 0 .. NumBlocks + 1 :
          At(q, i) = IF i = 0 THEN FakeHead ELSE IF i = NumBlocks + 1 THEN FakeTail ELSE i - 1
  BY <1>2, NumBlocksAssumption DEF At
<1> HIDE DEF q
<1>5. ASSUME NEW i \in 0 .. NumBlocks
      PROVE  next_free_block[At(q, i)] = At(q, i + 1) /\ prev_free_block[At(q, i + 1)] = At(q, i)
  <2>1. CASE i = 0
    BY <1>4, <2>1, NumBlocksAssumption DEF Init, Node, Block, FakeHead, FakeTail
  <2>2. CASE i # 0 /\ i = NumBlocks
    BY <1>4, <2>2, NumBlocksAssumption DEF Init, Node, Block, FakeHead, FakeTail
  <2>3. CASE i # 0 /\ i # NumBlocks
    BY <1>4, <2>3, NumBlocksAssumption DEF Init, Node, Block, FakeHead, FakeTail
  <2> QED BY <2>1, <2>2, <2>3
<1>6. ASSUME NEW b \in Block
      PROVE  \E i \in 1 .. NumBlocks : b = At(q, i)
  <2>1. b + 1 \in 1 .. NumBlocks /\ At(q, b + 1) = b
    BY <1>4, NumBlocksAssumption DEF Block
  <2> QED BY <2>1
<1>7. next_free_block[FakeTail] = None /\ prev_free_block[FakeHead] = None
  <2>1. FakeTail \in Node /\ FakeHead \in Node /\ FakeTail # FakeHead
    BY DEF Node, FakeHead, FakeTail
  <2>2. next_free_block[FakeTail] = None
    <3>1. next_free_block =
            [x \in Node |->
                CASE x = FakeHead -> IF NumBlocks > 0 THEN 0 ELSE FakeTail
                  [] x = FakeTail -> None
                  [] x = NumBlocks - 1 -> FakeTail
                  [] OTHER -> x + 1]
      BY DEF Init
    <3>2. NumBlocks - 1 # FakeTail
      BY NumBlocksAssumption DEF FakeTail
    <3> QED BY <2>1, <3>1, <3>2
  <2>3. prev_free_block[FakeHead] = None
    BY <2>1 DEF Init
  <2> QED BY <2>2, <2>3
<1>8. LinksOf(q, next_free_block, prev_free_block)
  BY <1>2, <1>5, <1>6, <1>7 DEF LinksOf
<1>9. IsList(q)
  BY <1>2, <1>3, <1>8, IsListLinks DEF Init
<1>10. <<>> \in BlockLists
  BY NumBlocksAssumption DEF BlockLists
<1>11. TypeOK
  BY <1>10, NumBlocksAssumption DEF TypeOK, Init, Node, Block, FakeHead, FakeTail, None
<1> QED BY <1>2, <1>9, <1>11 DEF q

\* What popleft does to the list q it finds.
LEMMA PopleftList ==
    ASSUME TypeOK, NEW q \in BlockLists, IsList(q), popleft
    PROVE  \/ /\ q = <<>>
              /\ raised' = "ValueError" /\ ret' = <<>>
              /\ UNCHANGED <<next_free_block, prev_free_block, num_free_blocks>>
           \/ /\ q # <<>>
              /\ raised' = "none" /\ ret' = <<q[1]>>
              /\ SubSeq(q, 2, Len(q)) \in BlockLists
              /\ IsList(SubSeq(q, 2, Len(q)))'
              /\ num_free_blocks' \in 0 .. NumBlocks
              /\ next_free_block' \in [Node -> Node \cup {None}]
              /\ prev_free_block' \in [Node -> Node \cup {None}]
<1>1. PICK L \in Nat : L = Len(q) /\ L <= NumBlocks /\ q \in Seq(Block) /\ q \in [1 .. L -> Block]
  BY BlockListsType, NumBlocksAssumption
<1>2. L = num_free_blocks /\ IsInjective(q) /\ LinksOf(q, next_free_block, prev_free_block)
  BY <1>1, IsListLinks
<1>3. /\ At(q, 0) = FakeHead /\ At(q, L + 1) = FakeTail
      /\ \A i \in 1 .. L : At(q, i) \in Block /\ At(q, i) = q[i]
      /\ \A i \in 0 .. L + 1 : At(q, i) \in Node
      /\ \A i, j \in 0 .. L + 1 : At(q, i) = At(q, j) => i = j
  BY <1>1, <1>2, AtFacts
<1>4. next_free_block[FakeHead] = At(q, 1)
  <2>1. 0 \in 0 .. Len(q)
    BY <1>1
  <2> QED BY <1>3, <2>1 DEF LinksOf, IsList, IsWalk
<1>5. CASE L = 0
  <2>1. q = <<>>
    BY <1>1, <1>5
  <2>2. next_free_block[FakeHead] = FakeTail
    BY <1>3, <1>4, <1>5
  <2> QED BY <1>2, <1>5, <2>1, <2>2 DEF popleft, Raise
<1>6. CASE L # 0
  <2>1. 1 \in 1 .. L /\ 1 \in 0 .. L /\ 2 \in 0 .. L + 1
    BY <1>1, <1>6
  <2>2. /\ At(q, 1) \in Block /\ At(q, 1) = q[1]
        /\ next_free_block[At(q, 1)] = At(q, 2)
        /\ At(q, 2) \in Node /\ At(q, 2) # At(q, 1) /\ At(q, 2) # FakeHead
    BY <1>1, <1>3, <2>1 DEF IsList, IsWalk
  <2>3. /\ At(q, 1) \notin {FakeTail, None} /\ At(q, 2) # None
        /\ At(q, 1) # FakeHead /\ At(q, 1) \in Node /\ FakeHead \in Node
    BY <2>2, NumBlocksAssumption DEF Node, Block, FakeHead, FakeTail, None
  <2>4. /\ next_free_block' = [next_free_block EXCEPT ![FakeHead] = At(q, 2), ![At(q, 1)] = None]
        /\ prev_free_block' = [prev_free_block EXCEPT ![At(q, 2)] = FakeHead, ![At(q, 1)] = None]
        /\ num_free_blocks' = num_free_blocks - 1
        /\ ret' = <<q[1]>> /\ raised' = "none"
    BY <1>4, <2>2, <2>3 DEF popleft, Raise, Return
  <2>5. /\ next_free_block \in [Node -> Node \cup {None}]
        /\ prev_free_block \in [Node -> Node \cup {None}]
        /\ 1 \in 1 .. Len(q) /\ 1 + 1 = 2
    BY <1>1, <2>1 DEF TypeOK
  <2>6. /\ next_free_block'[FakeHead] = At(q, 2)
        /\ next_free_block'[At(q, 1)] = None
        /\ \A x \in Node : x # FakeHead /\ x # At(q, 1) => next_free_block'[x] = next_free_block[x]
        /\ next_free_block' \in [Node -> Node \cup {None}]
    BY <2>2, <2>3, <2>4, <2>5
  <2>7. /\ prev_free_block'[At(q, 2)] = FakeHead
        /\ prev_free_block'[At(q, 1)] = None
        /\ \A x \in Node : x # At(q, 2) /\ x # At(q, 1) => prev_free_block'[x] = prev_free_block[x]
        /\ prev_free_block' \in [Node -> Node \cup {None}]
    BY <2>2, <2>3, <2>4, <2>5
  <2>8. Dropped(q, 1, next_free_block, prev_free_block, next_free_block', prev_free_block')
    BY <2>6, <2>7 DEF Dropped
  <2> DEFINE r == SubSeq(q, 2, Len(q))
  <2>9. r \in BlockLists /\ Len(r) = Len(q) - 1 /\ IsInjective(r)
    <3>1. 1 \in 0 .. Len(q) /\ r = SubSeq(q, 1 + 1, Len(q))
      BY <2>5
    <3> QED BY <1>2, <3>1, SuffixList
  <2>10. IsList(r)'
    <3>1. LinksOf(r, next_free_block', prev_free_block')
      BY <1>2, <2>5, <2>8, DropList
    <3> QED BY <1>1, <1>2, <2>4, <2>9, <3>1, IsListLinksPrime
  <2>11. num_free_blocks' \in 0 .. NumBlocks
    BY <1>1, <1>2, <1>6, <2>4, NumBlocksAssumption
  <2>12. q # <<>>
    BY <1>1, <1>6
  <2> QED BY <2>4, <2>6, <2>7, <2>9, <2>10, <2>11, <2>12
<1> QED BY <1>5, <1>6

(***************************************************************************)
(* The chain of n nodes that the loop of popleft_n follows is the list's   *)
(* first n blocks.                                                         *)
(***************************************************************************)
LEMMA ChainIsPrefix ==
    ASSUME NEW q \in BlockLists, IsWalk(q), NEW n \in 1 .. Len(q),
           NEW c \in [1 .. n -> Block],
           \A i \in 1 .. n : c[i] = next_free_block[At(c, i - 1)]
    PROVE  /\ \A i \in 1 .. n : c[i] = At(q, i)
           /\ c = SubSeq(q, 1, n)
           /\ c \in BlockLists
<1>1. PICK L \in Nat : L = Len(q) /\ L <= NumBlocks /\ n \in 1 .. L /\ n \in Nat
  BY BlockListsType, NumBlocksAssumption
<1>2. c \in BlockLists /\ Len(c) = n
  <2>1. n <= NumBlocks
    BY <1>1, NumBlocksAssumption
  <2> QED BY <1>1, <2>1, BlockListsIntro
<1>3. At(c, 0) = At(q, 0) /\ \A i \in 1 .. n : At(c, i) = c[i]
  BY <1>2, AtFacts
<1>4. \A i \in 0 .. L : next_free_block[At(q, i)] = At(q, i + 1)
  BY <1>1 DEF IsWalk
<1> DEFINE D == {i \in Nat : i <= n /\ At(c, i) # At(q, i)}
<1>5. D = {}
  <2> SUFFICES ASSUME D # {} PROVE FALSE
    OBVIOUS
  <2>1. PICK d \in D : \A e \in D : d <= e
    BY LeastNat
  <2>2. d \in Nat /\ d <= n /\ At(c, d) # At(q, d) /\ d # 0
    BY <1>3, <2>1
  <2>3. d - 1 \in Nat /\ d - 1 \notin D /\ d - 1 <= n /\ d - 1 \in 0 .. L /\ d \in 1 .. n
        /\ (d - 1) + 1 = d
    BY <1>1, <2>1, <2>2
  <2>4. At(c, d - 1) = At(q, d - 1)
    BY <2>3
  <2>5. c[d] = At(q, (d - 1) + 1)
    BY <1>4, <2>3, <2>4
  <2> QED BY <1>3, <2>2, <2>3, <2>5
<1>6. \A i \in 1 .. n : c[i] = At(q, i)
  <2>1. \A i \in 1 .. n : i \in Nat /\ i <= n
    BY <1>1
  <2> QED BY <1>3, <1>5, <2>1
<1>7. c = SubSeq(q, 1, n)
  <2>1. \A i \in 1 .. n : q[i] \in Block /\ q[i] = At(q, i)
    BY <1>1, AtFacts
  <2>2. /\ SubSeq(q, 1, n) \in Seq(Block)
        /\ Len(SubSeq(q, 1, n)) = IF 1 <= n THEN n - 1 + 1 ELSE 0
    BY <1>1, <2>1, SubSeqProperties
  <2>3. \A i \in 1 .. n - 1 + 1 : SubSeq(q, 1, n)[i] = q[1 + i - 1]
    BY <1>1, <2>1, SubSeqProperties
  <2>4. (IF 1 <= n THEN n - 1 + 1 ELSE 0) = n /\ n - 1 + 1 = n /\ \A i \in 1 .. n : 1 + i - 1 = i
    BY <1>1
  <2>5. Len(SubSeq(q, 1, n)) = n /\ \A i \in 1 .. n : SubSeq(q, 1, n)[i] = q[i]
    BY <2>2, <2>3, <2>4
  <2>6. SubSeq(q, 1, n) \in [1 .. n -> Block]
    BY <2>2, <2>5, LenProperties
  <2> QED BY <1>6, <2>1, <2>5, <2>6
<1> QED BY <1>2, <1>6, <1>7

\* The shortest and the longest prefix of a list.
LEMMA EmptyPrefix ==
    ASSUME NEW q \in BlockLists
    PROVE  SubSeq(q, 1, 0) = <<>> /\ SubSeq(q, 1, Len(q)) = q
<1>1. q \in Seq(Block)
  BY BlockListsType
<1> QED BY <1>1, SubSeqEmpty, SubSeqFull

\* What popleft_n does to the list q it finds.
LEMMA PopleftNList ==
    ASSUME TypeOK, NEW q \in BlockLists, IsList(q), NEW n \in 0 .. NumBlocks, popleft_n(n)
    PROVE  \/ /\ n > Len(q)
              /\ raised' = "AssertionError" /\ ret' = <<>>
              /\ UNCHANGED <<next_free_block, prev_free_block, num_free_blocks>>
           \/ /\ n <= Len(q)
              /\ raised' = "none" /\ ret' = SubSeq(q, 1, n) /\ ret' \in BlockLists
              /\ SubSeq(q, n + 1, Len(q)) \in BlockLists
              /\ IsList(SubSeq(q, n + 1, Len(q)))'
              /\ num_free_blocks' \in 0 .. NumBlocks
              /\ next_free_block' \in [Node -> Node \cup {None}]
              /\ prev_free_block' \in [Node -> Node \cup {None}]
<1>1. PICK L \in Nat : L = Len(q) /\ L <= NumBlocks /\ q \in Seq(Block) /\ q \in [1 .. L -> Block]
  BY BlockListsType, NumBlocksAssumption
<1>2. L = num_free_blocks /\ IsInjective(q) /\ LinksOf(q, next_free_block, prev_free_block)
  BY <1>1, IsListLinks
<1>3. n \in Nat
  BY NumBlocksAssumption
<1>4. CASE n > L
  BY <1>1, <1>2, <1>3, <1>4 DEF popleft_n, Raise
<1>5. CASE n = 0
  <2>1. /\ ret' = <<>> /\ raised' = "none"
        /\ UNCHANGED <<next_free_block, prev_free_block, num_free_blocks>>
    BY <1>1, <1>2, <1>5 DEF popleft_n, Raise, Return
  <2>2. SubSeq(q, 1, n) = <<>> /\ SubSeq(q, n + 1, Len(q)) = q
    BY <1>5, EmptyPrefix
  <2>3. IsList(q)'
    BY <2>1 DEF IsList, IsWalk
  <2>4. <<>> \in BlockLists
    BY NumBlocksAssumption DEF BlockLists
  <2>5. /\ num_free_blocks' \in 0 .. NumBlocks
        /\ next_free_block' \in [Node -> Node \cup {None}]
        /\ prev_free_block' \in [Node -> Node \cup {None}]
    BY <2>1 DEF TypeOK
  <2>6. n <= Len(q)
    BY <1>1, <1>5
  <2> QED BY <2>1, <2>2, <2>3, <2>4, <2>5, <2>6
<1>6. CASE n # 0 /\ n <= L
  <2>1. PICK c \in [1 .. n -> Block] :
            /\ \A i \in 1 .. n : c[i] = next_free_block[At(c, i - 1)]
            /\ next_free_block' =
                 [x \in Node |-> IF x \in Range(c) THEN None
                                 ELSE IF x = FakeHead /\ next_free_block[c[n]] # None
                                      THEN next_free_block[c[n]]
                                 ELSE next_free_block[x]]
            /\ prev_free_block' =
                 [x \in Node |-> IF x = next_free_block[c[n]] THEN FakeHead
                                 ELSE IF x \in Range(c) THEN None
                                 ELSE prev_free_block[x]]
            /\ ret' = c /\ raised' = "none"
            /\ num_free_blocks' = num_free_blocks - n
    BY <1>2, <1>3, <1>6 DEF popleft_n, Return
  <2>2. n \in 1 .. Len(q) /\ n \in 0 .. Len(q) /\ n \in 0 .. L /\ n \in 1 .. L /\ n \in 1 .. n
    BY <1>1, <1>3, <1>6
  <2>3. /\ \A i \in 1 .. n : c[i] = At(q, i)
        /\ c = SubSeq(q, 1, n)
        /\ c \in BlockLists
    BY <2>1, <2>2, ChainIsPrefix DEF IsList
  <2>4. /\ At(q, L + 1) = FakeTail
        /\ \A i \in 1 .. L : At(q, i) \in Block
        /\ \A i \in 0 .. L + 1 : At(q, i) \in Node
        /\ \A i, j \in 0 .. L + 1 : At(q, i) = At(q, j) => i = j
    BY <1>1, <1>2, AtFacts
  <2>5. n + 1 \in 0 .. L + 1 /\ \A i \in 1 .. n : i \in 0 .. L + 1 /\ i \in 1 .. L /\ i # n + 1
    BY <1>1, <1>3, <1>6
  <2>6. next_free_block[c[n]] = At(q, n + 1) /\ At(q, n + 1) \in Node
    BY <1>1, <2>2, <2>3, <2>4, <2>5 DEF IsList, IsWalk
  <2>7. FakeHead \in Node /\ None \notin Node /\ FakeHead \notin Block
    BY NumBlocksAssumption DEF Node, Block, FakeHead, FakeTail, None
  <2>8. \A x : x \in Range(c) <=> \E i \in 1 .. n : x = At(q, i)
    BY <2>1, <2>3 DEF Range
  <2>9. \A i \in 1 .. n : At(q, i) \in Node /\ At(q, i) \in Block /\ At(q, i) # At(q, n + 1)
    BY <2>4, <2>5
  <2>10. Dropped(q, n, next_free_block, prev_free_block, next_free_block', prev_free_block')
    <3>1. next_free_block' = [x \in Node |-> IF x \in Range(c) THEN None
                                 ELSE IF x = FakeHead THEN At(q, n + 1)
                                 ELSE next_free_block[x]]
      BY <2>1, <2>6, <2>7
    <3>2. prev_free_block' = [x \in Node |-> IF x = At(q, n + 1) THEN FakeHead
                                 ELSE IF x \in Range(c) THEN None
                                 ELSE prev_free_block[x]]
      BY <2>1, <2>6
    <3>3. FakeHead \notin Range(c)
      BY <2>7, <2>8, <2>9
    <3>4. next_free_block'[FakeHead] = At(q, n + 1)
      BY <2>7, <3>1, <3>3
    <3>5. \A i \in 1 .. n : next_free_block'[At(q, i)] = None /\ prev_free_block'[At(q, i)] = None
      BY <2>8, <2>9, <3>1, <3>2
    <3>6. prev_free_block'[At(q, n + 1)] = FakeHead
      BY <2>6, <3>2
    <3>7. ASSUME NEW x \in Node, \A i \in 1 .. n : x # At(q, i)
          PROVE  /\ x # FakeHead => next_free_block'[x] = next_free_block[x]
                 /\ x # At(q, n + 1) => prev_free_block'[x] = prev_free_block[x]
      <4>1. x \notin Range(c)
        BY <2>8, <3>7
      <4> QED BY <3>1, <3>2, <4>1
    <3> QED BY <3>4, <3>5, <3>6, <3>7 DEF Dropped
  <2> DEFINE r == SubSeq(q, n + 1, Len(q))
  <2>11. r \in BlockLists /\ Len(r) = Len(q) - n /\ IsInjective(r)
    BY <1>2, <2>2, SuffixList
  <2>12. LinksOf(r, next_free_block', prev_free_block')
    BY <1>2, <2>2, <2>10, DropList
  <2>13. IsList(r)'
    <3>1. Len(r) = num_free_blocks'
      BY <1>1, <1>2, <2>1, <2>11
    <3> QED BY <2>11, <2>12, <3>1, IsListLinksPrime
  <2>14. num_free_blocks' \in 0 .. NumBlocks
    BY <1>1, <1>2, <1>3, <1>6, <2>1, NumBlocksAssumption
  <2>15. /\ next_free_block' \in [Node -> Node \cup {None}]
         /\ prev_free_block' \in [Node -> Node \cup {None}]
    BY <2>1, <2>6, <2>7 DEF TypeOK
  <2> QED BY <1>1, <1>6, <2>1, <2>3, <2>11, <2>13, <2>14, <2>15
<1> QED BY <1>1, <1>3, <1>4, <1>5, <1>6

\* What remove does to the list q it finds.
LEMMA RemoveList ==
    ASSUME TypeOK, NEW q \in BlockLists, IsList(q), NEW b \in Block, remove(b)
    PROVE  \/ /\ b \notin Range(q)
              /\ raised' = "RuntimeError" /\ ret' = <<>>
              /\ UNCHANGED <<next_free_block, prev_free_block, num_free_blocks>>
           \/ \E k \in 1 .. Len(q) :
              LET r == SubSeq(q, 1, k - 1) \o SubSeq(q, k + 1, Len(q)) IN
              /\ q[k] = b
              /\ raised' = "none" /\ ret' = <<>>
              /\ r \in BlockLists
              /\ IsList(r)'
              /\ num_free_blocks' \in 0 .. NumBlocks
              /\ next_free_block' \in [Node -> Node \cup {None}]
              /\ prev_free_block' \in [Node -> Node \cup {None}]
<1>1. PICK L \in Nat : L = Len(q) /\ L <= NumBlocks
  BY BlockListsType, NumBlocksAssumption
<1>2. L = num_free_blocks /\ IsInjective(q) /\ LinksOf(q, next_free_block, prev_free_block)
  BY <1>1, IsListLinks
<1>3. CASE b \notin Range(q)
  <2>1. prev_free_block[b] = None
    BY <1>3 DEF IsList
  <2> QED BY <1>3, <2>1 DEF remove, Raise
<1>4. CASE b \in Range(q)
  <2>1. PICK k \in 1 .. Len(q) : b = At(q, k) /\ At(q, k) = q[k]
    BY <1>4, AtFacts
  <2>2. /\ k \in 1 .. L /\ k - 1 \in 0 .. L /\ k \in 0 .. L /\ (k - 1) + 1 = k
        /\ k - 1 \in 0 .. L + 1 /\ k \in 0 .. L + 1 /\ k + 1 \in 0 .. L + 1
        /\ k # k - 1 /\ k # k + 1
    BY <1>1, <2>1
  <2>3. /\ \A i \in 0 .. L + 1 : At(q, i) \in Node
        /\ \A i, j \in 0 .. L + 1 : At(q, i) = At(q, j) => i = j
    BY <1>1, <1>2, AtFacts
  <2>4. /\ prev_free_block[b] = At(q, k - 1)
        /\ next_free_block[b] = At(q, k + 1)
    BY <1>1, <1>2, <2>1, <2>2 DEF LinksOf
  <2>5. /\ At(q, k - 1) \in Node /\ At(q, k) \in Node /\ At(q, k + 1) \in Node
        /\ At(q, k) # At(q, k - 1) /\ At(q, k) # At(q, k + 1)
    BY <2>2, <2>3
  <2>6. None \notin Node
    BY NumBlocksAssumption DEF Node, Block, FakeHead, FakeTail, None
  <2>7. /\ next_free_block' =
             [next_free_block EXCEPT ![At(q, k - 1)] = At(q, k + 1), ![At(q, k)] = None]
        /\ prev_free_block' =
             [prev_free_block EXCEPT ![At(q, k + 1)] = At(q, k - 1), ![At(q, k)] = None]
        /\ num_free_blocks' = num_free_blocks - 1
        /\ ret' = <<>> /\ raised' = "none"
    BY <2>1, <2>4, <2>5, <2>6 DEF remove, Return
  <2>8. /\ next_free_block \in [Node -> Node \cup {None}]
        /\ prev_free_block \in [Node -> Node \cup {None}]
    BY DEF TypeOK
  <2>9. /\ next_free_block'[At(q, k)] = None
        /\ next_free_block'[At(q, k - 1)] = At(q, k + 1)
        /\ \A x \in Node : x # At(q, k) /\ x # At(q, k - 1)
                            => next_free_block'[x] = next_free_block[x]
        /\ next_free_block' \in [Node -> Node \cup {None}]
    BY <2>5, <2>7, <2>8
  <2>10. /\ prev_free_block'[At(q, k)] = None
         /\ prev_free_block'[At(q, k + 1)] = At(q, k - 1)
         /\ \A x \in Node : x # At(q, k) /\ x # At(q, k + 1)
                            => prev_free_block'[x] = prev_free_block[x]
         /\ prev_free_block' \in [Node -> Node \cup {None}]
    BY <2>5, <2>7, <2>8
  <2>11. Unlinked(q, k, next_free_block, prev_free_block, next_free_block', prev_free_block')
    BY <2>9, <2>10 DEF Unlinked
  <2> DEFINE r == SubSeq(q, 1, k - 1) \o SubSeq(q, k + 1, Len(q))
  <2>12. r \in BlockLists /\ Len(r) = Len(q) - 1 /\ IsInjective(r)
    BY <1>2, WithoutList
  <2>13. LinksOf(r, next_free_block', prev_free_block')
    BY <1>2, <2>11, UnlinkList
  <2>14. IsList(r)'
    <3>1. Len(r) = num_free_blocks'
      BY <1>1, <1>2, <2>7, <2>12
    <3> QED BY <2>12, <2>13, <3>1, IsListLinksPrime
  <2>15. num_free_blocks' \in 0 .. NumBlocks
    BY <1>1, <1>2, <2>2, <2>7, NumBlocksAssumption
  <2> QED BY <2>1, <2>7, <2>9, <2>10, <2>12, <2>14, <2>15
<1> QED BY <1>3, <1>4

(***************************************************************************)
(* append and append_n with at least one block.                            *)
(***************************************************************************)
LEMMA LinkedInList ==
    ASSUME TypeOK, NEW q \in BlockLists, IsList(q),
           NEW bs \in BlockLists, Len(bs) # 0, Detached(bs),
           Extended(q, bs, next_free_block, prev_free_block, next_free_block', prev_free_block'),
           num_free_blocks' = num_free_blocks + Len(bs)
    PROVE  /\ q \o bs \in BlockLists
           /\ Range(bs) \cap Range(q) = {}
           /\ IsList(q \o bs)'
           /\ num_free_blocks' \in 0 .. NumBlocks
<1>1. Len(q) = num_free_blocks /\ IsInjective(q) /\ LinksOf(q, next_free_block, prev_free_block)
  BY IsListLinks
<1>2. Concatenation(q, bs, q \o bs)
  BY ConcatenationIs
<1>3. IsInjective(bs) /\ \A b \in Range(bs) : next_free_block[b] = None /\ prev_free_block[b] = None
  BY DEF Detached
<1>4. /\ q \o bs \in BlockLists
      /\ Len(q \o bs) = Len(q) + Len(bs)
      /\ IsInjective(q \o bs)
      /\ LinksOf(q \o bs, next_free_block', prev_free_block')
  BY <1>1, <1>2, <1>3, ExtendList
<1>5. Len(q \o bs) = num_free_blocks'
  BY <1>1, <1>4
<1>6. IsList(q \o bs)'
  BY <1>4, <1>5, IsListLinksPrime
<1>7. Len(q \o bs) \in 0 .. NumBlocks
  BY <1>4, BlockListsType
<1>8. Range(bs) \cap Range(q) = {}
  <2> SUFFICES ASSUME NEW b \in Range(bs), b \in Range(q) PROVE FALSE
    OBVIOUS
  <2>1. Len(q) \in Nat
    BY BlockListsType, NumBlocksAssumption
  <2>2. PICK i \in 1 .. Len(q) : b = At(q, i)
    BY AtFacts
  <2>3. i \in 0 .. Len(q) /\ i + 1 \in 0 .. Len(q) + 1
    BY <2>1
  <2>4. next_free_block[b] = At(q, i + 1) /\ At(q, i + 1) \in Node
    BY <1>1, <2>2, <2>3, AtFacts DEF LinksOf
  <2>5. None \notin Node
    BY NumBlocksAssumption DEF Node, Block, FakeHead, FakeTail, None
  <2> QED BY <1>3, <2>4, <2>5
<1> QED BY <1>4, <1>5, <1>6, <1>7, <1>8

\* The node before the fake tail is the last node of the list.
LEMMA LastNode ==
    ASSUME NEW q \in BlockLists, IsList(q)
    PROVE  /\ prev_free_block[FakeTail] = At(q, Len(q))
           /\ At(q, Len(q)) \in Node
           /\ next_free_block[At(q, Len(q))] # None
           /\ At(q, Len(q)) # FakeTail
<1>1. PICK L \in Nat : L = Len(q)
  BY BlockListsType, NumBlocksAssumption
<1>2. L \in 0 .. L /\ L \in 0 .. L + 1 /\ L + 1 \in 0 .. L + 1 /\ L # L + 1
  BY <1>1
<1>3. /\ At(q, L + 1) = FakeTail
      /\ \A i \in 0 .. L + 1 : At(q, i) \in Node
      /\ \A i, j \in 0 .. L + 1 : At(q, i) = At(q, j) => i = j
  BY <1>1, AtFacts DEF IsList
<1>4. next_free_block[At(q, L)] = At(q, L + 1) /\ prev_free_block[At(q, L + 1)] = At(q, L)
  BY <1>1, <1>2 DEF IsList, IsWalk
<1>5. FakeTail # None
  BY DEF FakeTail, None
<1> QED BY <1>1, <1>2, <1>3, <1>4, <1>5

\* What append does to the list q it finds.
LEMMA AppendList ==
    ASSUME TypeOK, NEW q \in BlockLists, IsList(q), NEW b \in Block, append(b)
    PROVE  /\ <<b>> \in BlockLists /\ IsInjective(<<b>>)
           /\ Range(<<b>>) \cap Range(q) = {}
           /\ raised' = "none" /\ ret' = <<>>
           /\ q \o <<b>> \in BlockLists
           /\ IsList(q \o <<b>>)'
           /\ num_free_blocks' \in 0 .. NumBlocks
           /\ next_free_block' \in [Node -> Node \cup {None}]
           /\ prev_free_block' \in [Node -> Node \cup {None}]
<1> DEFINE bs == <<b>>
           last == At(q, Len(q))
<1>1. bs \in [1 .. 1 -> Block] /\ bs[1] = b /\ IsInjective(bs)
  BY DEF IsInjective
<1>2. 1 <= NumBlocks
  BY <1>1, InjectiveBound
<1>3. bs \in BlockLists /\ Len(bs) = 1
  BY <1>1, <1>2, BlockListsIntro
<1>4. b \in Range(bs) /\ At(bs, 2) = FakeTail
  BY <1>1, <1>3 DEF Range, At
<1> HIDE DEF bs
<1>5. /\ prev_free_block[FakeTail] = last /\ last \in Node
      /\ next_free_block[last] # None /\ last # FakeTail
  BY LastNode
<1> HIDE DEF last
<1>6. /\ Detached(bs)
      /\ next_free_block' = [next_free_block EXCEPT ![last] = b, ![b] = FakeTail]
      /\ prev_free_block' = [prev_free_block EXCEPT ![b] = last, ![FakeTail] = b]
      /\ num_free_blocks' = num_free_blocks + 1
      /\ ret' = <<>> /\ raised' = "none"
  BY <1>5 DEF append, Return, bs
<1>7. b # last /\ b \in Node /\ b # FakeTail /\ FakeTail \in Node
  <2>1. next_free_block[b] = None
    BY <1>4, <1>6 DEF Detached
  <2> QED BY <1>5, <2>1, NumBlocksAssumption DEF Node, Block, FakeTail
<1>8. /\ next_free_block \in [Node -> Node \cup {None}]
      /\ prev_free_block \in [Node -> Node \cup {None}]
  BY DEF TypeOK
<1>9. /\ next_free_block'[last] = b /\ next_free_block'[b] = FakeTail
      /\ \A x \in Node : x # last /\ x # b => next_free_block'[x] = next_free_block[x]
      /\ next_free_block' \in [Node -> Node \cup {None}]
  BY <1>5, <1>6, <1>7, <1>8
<1>10. /\ prev_free_block'[b] = last /\ prev_free_block'[FakeTail] = b
       /\ \A x \in Node : x # FakeTail /\ x # b => prev_free_block'[x] = prev_free_block[x]
       /\ prev_free_block' \in [Node -> Node \cup {None}]
  BY <1>5, <1>6, <1>7, <1>8
<1>11. Extended(q, bs, next_free_block, prev_free_block, next_free_block', prev_free_block')
  <2>1. \A j \in 1 .. Len(bs) : j = 1
    BY <1>3
  <2>2. \A j \in 2 .. Len(bs) + 1 : j = 2 /\ j - 1 = 1
    BY <1>3
  <2>3. 1 \in 1 .. Len(bs) /\ 1 + 1 = 2
    BY <1>3
  <2> QED BY <1>1, <1>4, <1>9, <1>10, <2>1, <2>2, <2>3 DEF Extended, last
<1>12. num_free_blocks' = num_free_blocks + Len(bs) /\ Len(bs) # 0
  BY <1>3, <1>6
<1>13. /\ q \o bs \in BlockLists
       /\ Range(bs) \cap Range(q) = {}
       /\ IsList(q \o bs)'
       /\ num_free_blocks' \in 0 .. NumBlocks
  BY <1>3, <1>6, <1>11, <1>12, LinkedInList
<1> QED BY <1>1, <1>3, <1>6, <1>9, <1>10, <1>13 DEF bs

\* What append_n does to the list q it finds.
LEMMA AppendNList ==
    ASSUME TypeOK, NEW q \in BlockLists, IsList(q), NEW bs \in BlockLists, append_n(bs)
    PROVE  /\ IsInjective(bs)
           /\ Range(bs) \cap Range(q) = {}
           /\ raised' = "none" /\ ret' = <<>>
           /\ q \o bs \in BlockLists
           /\ IsList(q \o bs)'
           /\ num_free_blocks' \in 0 .. NumBlocks
           /\ next_free_block' \in [Node -> Node \cup {None}]
           /\ prev_free_block' \in [Node -> Node \cup {None}]
<1> DEFINE last == At(q, Len(q))
<1>1. PICK n \in Nat : n = Len(bs) /\ bs \in [1 .. n -> Block] /\ bs \in Seq(Block)
  BY BlockListsType, NumBlocksAssumption
<1>2. /\ Detached(bs) /\ IsInjective(bs) /\ ret' = <<>> /\ raised' = "none"
      /\ \A b \in Range(bs) : next_free_block[b] = None /\ prev_free_block[b] = None
  BY DEF append_n, Return, Detached
<1>3. CASE n = 0
  <2>1. bs = <<>>
    BY <1>1, <1>3
  <2>2. q \o bs = q
    <3>1. q \in Seq(Block)
      BY BlockListsType
    <3> QED BY <2>1, <3>1, ConcatEmptySeq
  <2>3. UNCHANGED <<next_free_block, prev_free_block, num_free_blocks>>
    BY <1>1, <1>3 DEF append_n
  <2>4. IsList(q)'
    BY <2>3 DEF IsList, IsWalk
  <2>5. Range(bs) = {}
    BY <2>1 DEF Range
  <2>6. /\ num_free_blocks' \in 0 .. NumBlocks
        /\ next_free_block' \in [Node -> Node \cup {None}]
        /\ prev_free_block' \in [Node -> Node \cup {None}]
    BY <2>3 DEF TypeOK
  <2> QED BY <1>2, <2>2, <2>4, <2>5, <2>6
<1>4. CASE n # 0
  <2>1. /\ prev_free_block[FakeTail] = last /\ last \in Node
        /\ next_free_block[last] # None /\ last # FakeTail
    BY LastNode
  <2> HIDE DEF last
  <2>2. /\ next_free_block' =
               [x \in Node |-> IF x \in Range(bs) THEN At(bs, IndexOf(bs, x) + 1)
                               ELSE IF x = last THEN bs[1]
                               ELSE next_free_block[x]]
        /\ prev_free_block' =
               [x \in Node |-> IF x = FakeTail THEN bs[n]
                               ELSE IF x \in Range(bs) /\ x # bs[1] THEN bs[IndexOf(bs, x) - 1]
                               ELSE IF x = bs[1] THEN last
                               ELSE prev_free_block[x]]
        /\ num_free_blocks' = num_free_blocks + n
    BY <1>1, <1>4, <2>1 DEF append_n
  <2>3. /\ \A j \in 1 .. n : At(bs, j) = bs[j] /\ bs[j] \in Block
        /\ At(bs, n + 1) = FakeTail
        /\ \A i \in 0 .. n + 1 : At(bs, i) \in Node
        /\ \A b : b \in Range(bs) <=> \E i \in 1 .. n : b = bs[i]
    BY <1>1, AtFacts
  <2>4. /\ \A b \in Block : b \in Node /\ b # FakeTail
        /\ FakeTail \in Node /\ FakeTail \notin Range(bs)
    BY <2>3, NumBlocksAssumption DEF Node, Block, FakeTail
  <2>5. \A j \in 1 .. n : IndexOf(bs, bs[j]) = j
    BY <1>1, <1>2 DEF IndexOf, IsInjective
  <2>6. last \notin Range(bs)
    BY <1>2, <2>1
  <2>7. 1 \in 1 .. n /\ n \in 1 .. n /\ \A i, j \in 1 .. n : bs[i] = bs[j] => i = j
    BY <1>1, <1>2, <1>4 DEF IsInjective
  <2>8. Extended(q, bs, next_free_block, prev_free_block, next_free_block', prev_free_block')
    <3>1. next_free_block'[last] = bs[1]
      BY <2>1, <2>2, <2>6
    <3>2. ASSUME NEW j \in 1 .. n
          PROVE  next_free_block'[bs[j]] = At(bs, j + 1)
      <4>1. bs[j] \in Node /\ bs[j] \in Range(bs)
        BY <2>3, <2>4
      <4> QED BY <2>2, <2>5, <4>1
    <3>3. prev_free_block'[bs[1]] = last
      <4>1. bs[1] \in Node /\ bs[1] # FakeTail
        BY <2>3, <2>4, <2>7
      <4> QED BY <2>2, <4>1
    <3>4. ASSUME NEW j \in 2 .. n + 1
          PROVE  prev_free_block'[At(bs, j)] = bs[j - 1]
      <4>1. CASE j = n + 1
        <5>1. j - 1 = n
          BY <1>1, <4>1
        <5> QED BY <2>2, <2>3, <2>4, <4>1, <5>1
      <4>2. CASE j # n + 1
        <5>1. j \in 1 .. n /\ j # 1
          BY <1>1, <4>2
        <5>2. At(bs, j) = bs[j] /\ bs[j] \in Node /\ bs[j] # FakeTail
              /\ bs[j] \in Range(bs) /\ bs[j] # bs[1]
          BY <2>3, <2>4, <2>7, <5>1
        <5> QED BY <2>2, <2>5, <5>1, <5>2
      <4> QED BY <4>1, <4>2
    <3>5. ASSUME NEW x \in Node, \A j \in 1 .. n : x # bs[j]
          PROVE  /\ x # last => next_free_block'[x] = next_free_block[x]
                 /\ x # FakeTail => prev_free_block'[x] = prev_free_block[x]
      <4>1. x \notin Range(bs) /\ x # bs[1]
        BY <2>3, <2>7, <3>5
      <4> QED BY <2>2, <4>1
    <3> QED BY <1>1, <3>1, <3>2, <3>3, <3>4, <3>5 DEF Extended, last
  <2>9. /\ q \o bs \in BlockLists
        /\ Range(bs) \cap Range(q) = {}
        /\ IsList(q \o bs)'
        /\ num_free_blocks' \in 0 .. NumBlocks
    BY <1>1, <1>2, <1>4, <2>2, <2>8, LinkedInList
  <2>10. /\ next_free_block \in [Node -> Node \cup {None}]
         /\ prev_free_block \in [Node -> Node \cup {None}]
    BY DEF TypeOK
  <2>11. next_free_block' \in [Node -> Node \cup {None}]
    <3>1. ASSUME NEW x \in Node PROVE next_free_block'[x] \in Node \cup {None}
      <4>1. CASE x \in Range(bs)
        <5>1. PICK j \in 1 .. n : x = bs[j]
          BY <2>3, <4>1
        <5>2. j + 1 \in 0 .. n + 1
          BY <1>1
        <5> QED BY <2>2, <2>3, <2>5, <4>1, <5>1, <5>2
      <4>2. CASE x \notin Range(bs)
        BY <2>2, <2>3, <2>4, <2>7, <2>10, <4>2
      <4> QED BY <4>1, <4>2
    <3> QED BY <2>2, <3>1
  <2>12. prev_free_block' \in [Node -> Node \cup {None}]
    <3>1. ASSUME NEW x \in Node PROVE prev_free_block'[x] \in Node \cup {None}
      <4>1. CASE x \in Range(bs) /\ x # bs[1]
        <5>1. PICK j \in 1 .. n : x = bs[j]
          BY <2>3, <4>1
        <5>2. j - 1 \in 1 .. n
          BY <1>1, <4>1, <5>1
        <5> QED BY <2>2, <2>3, <2>4, <2>5, <4>1, <5>1, <5>2
      <4>2. CASE ~(x \in Range(bs) /\ x # bs[1])
        BY <2>1, <2>2, <2>3, <2>4, <2>7, <2>10, <4>2
      <4> QED BY <4>1, <4>2
    <3> QED BY <2>2, <3>1
  <2> QED BY <1>2, <2>9, <2>11, <2>12
<1> QED BY <1>3, <1>4

-----------------------------------------------------------------------------
(***************************************************************************)
(* One step of the linked list is one step of the queue: if the links      *)
(* spell out q, some call of the abstract queue leads from q to the list   *)
(* they spell out afterwards, with the same result.                        *)
(***************************************************************************)
LEMMA StepList ==
    ASSUME TypeOK, NEW q \in BlockLists, IsList(q), Next
    PROVE  /\ TypeOK'
           /\ \E r \in BlockLists :
                 /\ IsList(r)'
                 /\ \/ q = <<>> /\ r = q /\ ret' = <<>> /\ raised' = "ValueError"
                    \/ /\ q # <<>> /\ r = SubSeq(q, 2, Len(q))
                       /\ ret' = <<q[1]>> /\ raised' = "none"
                    \/ \E n \in 0 .. NumBlocks :
                          \/ n > Len(q) /\ r = q /\ ret' = <<>> /\ raised' = "AssertionError"
                          \/ /\ n <= Len(q) /\ r = SubSeq(q, n + 1, Len(q))
                             /\ ret' = SubSeq(q, 1, n) /\ raised' = "none"
                    \/ \E b \in Block :
                          \/ b \notin Range(q) /\ r = q /\ ret' = <<>> /\ raised' = "RuntimeError"
                          \/ \E k \in 1 .. Len(q) :
                                /\ q[k] = b
                                /\ r = SubSeq(q, 1, k - 1) \o SubSeq(q, k + 1, Len(q))
                                /\ ret' = <<>> /\ raised' = "none"
                    \/ \E bs \in BlockLists :
                          /\ IsInjective(bs) /\ Range(bs) \cap Range(q) = {}
                          /\ r = q \o bs /\ ret' = <<>> /\ raised' = "none"
<1>1. <<>> \in BlockLists
  BY NumBlocksAssumption DEF BlockLists
<1>2. ASSUME UNCHANGED <<next_free_block, prev_free_block, num_free_blocks>>
      PROVE  IsList(q)'
  BY <1>2 DEF IsList, IsWalk
<1>3. CASE popleft
  <2>1. CASE q = <<>>
    <3>1. raised' = "ValueError" /\ ret' = <<>>
          /\ UNCHANGED <<next_free_block, prev_free_block, num_free_blocks>>
      BY <1>3, <2>1, PopleftList
    <3>2. TypeOK'
      BY <1>1, <3>1 DEF TypeOK
    <3> QED BY <1>2, <2>1, <3>1, <3>2
  <2>2. CASE q # <<>>
    <3>1. /\ raised' = "none" /\ ret' = <<q[1]>>
          /\ SubSeq(q, 2, Len(q)) \in BlockLists
          /\ IsList(SubSeq(q, 2, Len(q)))'
          /\ num_free_blocks' \in 0 .. NumBlocks
          /\ next_free_block' \in [Node -> Node \cup {None}]
          /\ prev_free_block' \in [Node -> Node \cup {None}]
      BY <1>3, <2>2, PopleftList
    <3>2. <<q[1]>> \in BlockLists
      <4>1. Len(q) \in Nat /\ Len(q) <= NumBlocks /\ q \in [1 .. Len(q) -> Block]
        BY BlockListsType, NumBlocksAssumption
      <4>2. Len(q) # 0
        BY <2>2, <4>1
      <4>3. 1 <= NumBlocks /\ q[1] \in Block
        BY <4>1, <4>2, NumBlocksAssumption
      <4>4. <<q[1]>> \in [1 .. 1 -> Block]
        BY <4>3
      <4> QED BY <4>3, <4>4, BlockListsIntro
    <3>3. TypeOK'
      BY <3>1, <3>2 DEF TypeOK
    <3> QED BY <2>2, <3>1, <3>3
  <2> QED BY <2>1, <2>2
<1>4. ASSUME NEW n \in 0 .. NumBlocks, popleft_n(n)
      PROVE  /\ TypeOK'
             /\ \E r \in BlockLists :
                   /\ IsList(r)'
                   /\ \/ n > Len(q) /\ r = q /\ ret' = <<>> /\ raised' = "AssertionError"
                      \/ /\ n <= Len(q) /\ r = SubSeq(q, n + 1, Len(q))
                         /\ ret' = SubSeq(q, 1, n) /\ raised' = "none"
  <2>1. CASE /\ n > Len(q)
             /\ raised' = "AssertionError" /\ ret' = <<>>
             /\ UNCHANGED <<next_free_block, prev_free_block, num_free_blocks>>
    <3>1. TypeOK'
      BY <1>1, <2>1 DEF TypeOK
    <3> QED BY <1>2, <2>1, <3>1
  <2>2. CASE /\ n <= Len(q)
             /\ raised' = "none" /\ ret' = SubSeq(q, 1, n) /\ ret' \in BlockLists
             /\ SubSeq(q, n + 1, Len(q)) \in BlockLists
             /\ IsList(SubSeq(q, n + 1, Len(q)))'
             /\ num_free_blocks' \in 0 .. NumBlocks
             /\ next_free_block' \in [Node -> Node \cup {None}]
             /\ prev_free_block' \in [Node -> Node \cup {None}]
    <3>1. TypeOK'
      BY <2>2 DEF TypeOK
    <3> QED BY <2>2, <3>1
  <2> QED BY <1>4, <2>1, <2>2, PopleftNList
<1>5. ASSUME NEW b \in Block, remove(b)
      PROVE  /\ TypeOK'
             /\ \E r \in BlockLists :
                   /\ IsList(r)'
                   /\ \/ b \notin Range(q) /\ r = q /\ ret' = <<>> /\ raised' = "RuntimeError"
                      \/ \E k \in 1 .. Len(q) :
                            /\ q[k] = b
                            /\ r = SubSeq(q, 1, k - 1) \o SubSeq(q, k + 1, Len(q))
                            /\ ret' = <<>> /\ raised' = "none"
  <2>1. CASE /\ b \notin Range(q)
             /\ raised' = "RuntimeError" /\ ret' = <<>>
             /\ UNCHANGED <<next_free_block, prev_free_block, num_free_blocks>>
    <3>1. TypeOK'
      BY <1>1, <2>1 DEF TypeOK
    <3> QED BY <1>2, <2>1, <3>1
  <2>2. ASSUME NEW k \in 1 .. Len(q),
               LET r == SubSeq(q, 1, k - 1) \o SubSeq(q, k + 1, Len(q)) IN
               /\ q[k] = b
               /\ raised' = "none" /\ ret' = <<>>
               /\ r \in BlockLists
               /\ IsList(r)'
               /\ num_free_blocks' \in 0 .. NumBlocks
               /\ next_free_block' \in [Node -> Node \cup {None}]
               /\ prev_free_block' \in [Node -> Node \cup {None}]
        PROVE  /\ TypeOK'
               /\ \E r \in BlockLists :
                     /\ IsList(r)'
                     /\ q[k] = b
                     /\ r = SubSeq(q, 1, k - 1) \o SubSeq(q, k + 1, Len(q))
                     /\ ret' = <<>> /\ raised' = "none"
    <3>1. TypeOK'
      BY <1>1, <2>2 DEF TypeOK
    <3> QED BY <2>2, <3>1
  <2> QED BY <1>5, <2>1, <2>2, RemoveList
<1>6. ASSUME NEW bs \in BlockLists, append_n(bs)
      PROVE  /\ TypeOK'
             /\ \E r \in BlockLists :
                   /\ IsList(r)'
                   /\ IsInjective(bs) /\ Range(bs) \cap Range(q) = {}
                   /\ r = q \o bs /\ ret' = <<>> /\ raised' = "none"
  <2>1. /\ IsInjective(bs)
        /\ Range(bs) \cap Range(q) = {}
        /\ raised' = "none" /\ ret' = <<>>
        /\ q \o bs \in BlockLists
        /\ IsList(q \o bs)'
        /\ num_free_blocks' \in 0 .. NumBlocks
        /\ next_free_block' \in [Node -> Node \cup {None}]
        /\ prev_free_block' \in [Node -> Node \cup {None}]
    BY <1>6, AppendNList
  <2>2. TypeOK'
    BY <1>1, <2>1 DEF TypeOK
  <2> QED BY <2>1, <2>2
<1>7. ASSUME NEW b \in Block, append(b)
      PROVE  /\ TypeOK'
             /\ \E r \in BlockLists, bs \in BlockLists :
                   /\ IsList(r)'
                   /\ IsInjective(bs) /\ Range(bs) \cap Range(q) = {}
                   /\ r = q \o bs /\ ret' = <<>> /\ raised' = "none"
  <2>1. /\ <<b>> \in BlockLists /\ IsInjective(<<b>>)
        /\ Range(<<b>>) \cap Range(q) = {}
        /\ raised' = "none" /\ ret' = <<>>
        /\ q \o <<b>> \in BlockLists
        /\ IsList(q \o <<b>>)'
        /\ num_free_blocks' \in 0 .. NumBlocks
        /\ next_free_block' \in [Node -> Node \cup {None}]
        /\ prev_free_block' \in [Node -> Node \cup {None}]
    BY <1>7, AppendList
  <2>2. TypeOK'
    BY <1>1, <2>1 DEF TypeOK
  <2> QED BY <2>1, <2>2
<1>8. CASE \E n \in 0 .. NumBlocks : popleft_n(n)
  BY <1>4, <1>8
<1>9. CASE \E b \in Block : remove(b)
  BY <1>5, <1>9
<1>10. CASE \E b \in Block : append(b)
  BY <1>7, <1>10
<1>11. CASE \E bs \in BlockLists : append_n(bs)
  BY <1>6, <1>11
<1> QED BY <1>3, <1>8, <1>9, <1>10, <1>11 DEF Next

(***************************************************************************)
(* The links of the free list stay well typed and well formed over every   *)
(* sequence of calls: no call leaves a block half linked, leaves the       *)
(* counter out of step with the list or loses a block from it.             *)
(***************************************************************************)
THEOREM ListWellLinked == Spec => [](TypeOK /\ WellLinked)
<1>1. Init => TypeOK /\ WellLinked
  BY InitList DEF WellLinked
<1>2. TypeOK /\ WellLinked /\ [Next]_vars => (TypeOK /\ WellLinked)'
  <2> SUFFICES ASSUME TypeOK, WellLinked, [Next]_vars
               PROVE  (TypeOK /\ WellLinked)'
    OBVIOUS
  <2>1. PICK q \in BlockLists : IsList(q)
    BY DEF WellLinked
  <2>2. CASE Next
    <3>1. TypeOK' /\ \E r \in BlockLists : IsList(r)'
      BY <2>1, <2>2, StepList
    <3> QED BY <3>1 DEF WellLinked, BlockLists, Block
  <2>3. CASE UNCHANGED vars
    BY <2>3 DEF vars, TypeOK, WellLinked, IsList, IsWalk
  <2> QED BY <2>2, <2>3
<1> QED BY <1>1, <1>2, PTL DEF Spec

(***************************************************************************)
(* FreeKVCacheBlockQueue implements the queue its client relies on: every  *)
(* call changes what get_all_free_blocks returns, and returns or raises,   *)
(* as the abstract operation does, for every number of blocks.             *)
(***************************************************************************)
THEOREM ListImplementsQueue == Spec => ImplementsQueue
<1>1. Init => Queue!AQInit
  <2> SUFFICES ASSUME Init PROVE Queue!AQInit
    OBVIOUS
  <2> DEFINE q == [i \in 1 .. NumBlocks |-> i - 1]
  <2>1. q \in BlockLists /\ IsWalk(q)
    BY InitList DEF IsList
  <2>2. get_all_free_blocks = q
    BY <2>1, WalkIsFreeBlocks
  <2> QED BY <2>2 DEF Queue!AQInit, Init
<1>2. TypeOK /\ WellLinked /\ (TypeOK /\ WellLinked)' /\ [Next]_vars
        => [Queue!AQNext]_Queue!aqVars
  <2> SUFFICES ASSUME TypeOK, WellLinked, [Next]_vars
               PROVE  [Queue!AQNext]_Queue!aqVars
    OBVIOUS
  <2>1. PICK q \in BlockLists : IsList(q)
    BY DEF WellLinked
  <2>2. get_all_free_blocks = q
    BY <2>1, WalkIsFreeBlocks DEF IsList
  <2>3. CASE UNCHANGED vars
    <3>1. get_all_free_blocks' = get_all_free_blocks
      BY <2>3 DEF get_all_free_blocks, IsWalk, vars
    <3> QED BY <2>3, <3>1 DEF Queue!aqVars, vars
  <2>4. CASE Next
    <3>1. PICK r \in BlockLists :
            /\ IsList(r)'
            /\ \/ q = <<>> /\ r = q /\ ret' = <<>> /\ raised' = "ValueError"
               \/ /\ q # <<>> /\ r = SubSeq(q, 2, Len(q))
                  /\ ret' = <<q[1]>> /\ raised' = "none"
               \/ \E n \in 0 .. NumBlocks :
                     \/ n > Len(q) /\ r = q /\ ret' = <<>> /\ raised' = "AssertionError"
                     \/ /\ n <= Len(q) /\ r = SubSeq(q, n + 1, Len(q))
                        /\ ret' = SubSeq(q, 1, n) /\ raised' = "none"
               \/ \E b \in Block :
                     \/ b \notin Range(q) /\ r = q /\ ret' = <<>> /\ raised' = "RuntimeError"
                     \/ \E k \in 1 .. Len(q) :
                           /\ q[k] = b
                           /\ r = SubSeq(q, 1, k - 1) \o SubSeq(q, k + 1, Len(q))
                           /\ ret' = <<>> /\ raised' = "none"
               \/ \E bs \in BlockLists :
                     /\ IsInjective(bs) /\ Range(bs) \cap Range(q) = {}
                     /\ r = q \o bs /\ ret' = <<>> /\ raised' = "none"
      BY <2>1, <2>4, StepList
    <3>2. get_all_free_blocks' = r
      BY <3>1, WalkIsFreeBlocksPrime DEF IsList
    <3>3. CASE q = <<>> /\ r = q /\ ret' = <<>> /\ raised' = "ValueError"
      <4>1. Queue!AQPopleft
        BY <2>2, <3>2, <3>3 DEF Queue!AQPopleft, Queue!Raise
      <4> QED BY <4>1 DEF Queue!AQNext
    <3>4. CASE q # <<>> /\ r = SubSeq(q, 2, Len(q)) /\ ret' = <<q[1]>> /\ raised' = "none"
      <4>1. Queue!AQPopleft
        BY <2>2, <3>2, <3>4 DEF Queue!AQPopleft, Queue!Return
      <4> QED BY <4>1 DEF Queue!AQNext
    <3>5. ASSUME NEW n \in 0 .. NumBlocks,
                 \/ n > Len(q) /\ r = q /\ ret' = <<>> /\ raised' = "AssertionError"
                 \/ /\ n <= Len(q) /\ r = SubSeq(q, n + 1, Len(q))
                    /\ ret' = SubSeq(q, 1, n) /\ raised' = "none"
          PROVE  Queue!AQNext
      <4>1. Queue!AQPopleftN(n)
        BY <2>2, <3>2, <3>5 DEF Queue!AQPopleftN, Queue!Raise, Queue!Return
      <4> QED BY <4>1 DEF Queue!AQNext
    <3>6. ASSUME NEW b \in Block,
                 b \notin Range(q) /\ r = q /\ ret' = <<>> /\ raised' = "RuntimeError"
          PROVE  Queue!AQNext
      <4>1. Queue!AQRemove(b)
        BY <2>2, <3>2, <3>6 DEF Queue!AQRemove, Queue!Raise, Queue!Range, Range
      <4>2. b \in Queue!QBlock
        BY DEF Block, Queue!QBlock
      <4> QED BY <4>1, <4>2 DEF Queue!AQNext
    <3>7. ASSUME NEW b \in Block, NEW k \in 1 .. Len(q),
                 /\ q[k] = b
                 /\ r = SubSeq(q, 1, k - 1) \o SubSeq(q, k + 1, Len(q))
                 /\ ret' = <<>> /\ raised' = "none"
          PROVE  Queue!AQNext
      <4>1. Queue!AQRemove(b)
        BY <2>2, <3>2, <3>7 DEF Queue!AQRemove, Queue!Return
      <4>2. b \in Queue!QBlock
        BY DEF Block, Queue!QBlock
      <4> QED BY <4>1, <4>2 DEF Queue!AQNext
    <3>8. ASSUME NEW bs \in BlockLists,
                 /\ IsInjective(bs) /\ Range(bs) \cap Range(q) = {}
                 /\ r = q \o bs /\ ret' = <<>> /\ raised' = "none"
          PROVE  Queue!AQNext
      <4>1. Queue!AQAppendN(bs)
        BY <2>2, <3>2, <3>8 DEF Queue!AQAppendN, Queue!Return, Queue!Range, Range,
                                    Queue!IsInjective, IsInjective
      <4>2. bs \in Queue!BlockLists
        BY DEF BlockLists, Block, Queue!BlockLists, Queue!QBlock
      <4> QED BY <4>1, <4>2 DEF Queue!AQNext
    <3> QED BY <3>1, <3>3, <3>4, <3>5, <3>6, <3>7, <3>8
  <2> QED BY <2>3, <2>4
<1> QED BY <1>1, <1>2, ListWellLinked, PTL DEF Spec, ImplementsQueue, Queue!AQSpec
=============================================================================
