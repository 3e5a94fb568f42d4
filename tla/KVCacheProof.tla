---------------------------- MODULE KVCacheProof ----------------------------
(***************************************************************************)
(* What the operations of the block pool and the KV cache manager          *)
(* preserve, for any number of blocks and requests, and the facts about    *)
(* sequences this needs. A manager is OK when every block's reference      *)
(* count is the number of requests that hold it, the free queue has the    *)
(* blocks nobody holds, and the prefix cache has each block under the hash *)
(* it carries.                                                             *)
(***************************************************************************)
EXTENDS KVCacheManager, SequenceTheorems, FiniteSetTheorems, WellFoundedInduction, TLAPS

(***************************************************************************)
(* A non-empty set of naturals has a least element.  The library's         *)
(* induction theorems take an operator; this one, obtained from the        *)
(* well-founded order of finite sets under inclusion, does not.            *)
(***************************************************************************)
LEMMA LeastNat ==
    ASSUME NEW T \in SUBSET Nat, T # {}
    PROVE  \E x \in T : \A y \in T : x <= y
<1> DEFINE Segs == {1 .. k : k \in T}
<1>1. Segs \subseteq FiniteSubsetsOf(Nat)
  <2>1. \A k \in T : IsFiniteSet(1 .. k)
    BY FS_Interval
  <2> QED BY <2>1 DEF FiniteSubsetsOf
<1>2. Segs # {}
  OBVIOUS
<1> HIDE DEF Segs
<1>3. PICK s \in Segs : \A u \in Segs : ~(<<u, s>> \in StrictSubsetOrdering(Nat))
  BY <1>1, <1>2, WFMin, FS_StrictSubsetOrderingWellFounded
<1>4. PICK x \in T : s = 1 .. x
  BY DEF Segs
<1>5. ASSUME NEW y \in T, ~(x <= y)
      PROVE  FALSE
  <2>1. 1 .. y \in Segs
    BY DEF Segs
  <2>2. 1 .. y \in SUBSET Nat /\ 1 .. x \in SUBSET Nat
    OBVIOUS
  <2>3. 1 .. y \subseteq 1 .. x
    BY <1>5
  <2>4. x \in 1 .. x /\ x \notin 1 .. y
    BY <1>5
  <2>5. <<1 .. y, s>> \in StrictSubsetOrdering(Nat)
    BY <1>4, <2>2, <2>3, <2>4 DEF StrictSubsetOrdering
  <2> QED BY <1>3, <2>1, <2>5
<1> QED BY <1>5

-----------------------------------------------------------------------------
(* Sequences *)

\* s is a sequence, of whatever it holds.
IsSeq(s) == s \in Seq(Range(s))

(***************************************************************************)
(* The sequence operators of the model give sequences.                     *)
(***************************************************************************)
LEMMA SeqIs ==
    ASSUME NEW T, NEW s \in Seq(T)
    PROVE  IsSeq(s)
BY DEF IsSeq, Range

\* f is the function that Keep(s, S) is defined by.
KeptBy(f, s, S, n) ==
    f = [i \in 0 .. n |->
           IF i = 0 THEN <<>> ELSE IF s[i] \in S THEN Append(f[i - 1], s[i]) ELSE f[i - 1]]

(***************************************************************************)
(* Keep is well defined: the function it is defined by exists.             *)
(***************************************************************************)
LEMMA KeepExists ==
    ASSUME NEW s, NEW S, NEW n \in Nat
    PROVE  \E f : KeptBy(f, s, S, n)
<1> DEFINE P(m) == \E f : KeptBy(f, s, S, m)
           Bad == {m \in Nat : ~P(m)}
<1> SUFFICES ASSUME ~P(n) PROVE FALSE
  OBVIOUS
<1>1. PICK x \in Bad : \A y \in Bad : x <= y
  <2> HIDE DEF P
  <2> QED BY LeastNat
<1>2. P(0)
  <2> DEFINE f == [i \in 0 .. 0 |-> <<>>]
  <2>1. KeptBy(f, s, S, 0)
    BY DEF KeptBy
  <2> QED BY <2>1
<1>3. x \in Nat /\ x # 0 /\ ~P(x)
  <2> HIDE DEF P
  <2> QED BY <1>1, <1>2
<1>4. P(x - 1)
  <2> HIDE DEF P
  <2>1. x - 1 \in Nat /\ ~(x <= x - 1)
    BY <1>3
  <2> QED BY <1>1, <2>1
<1>5. PICK g : KeptBy(g, s, S, x - 1)
  BY <1>4
<1> DEFINE last == IF s[x] \in S THEN Append(g[x - 1], s[x]) ELSE g[x - 1]
           h == [i \in 0 .. x |-> IF i < x THEN g[i] ELSE last]
           G(f, i) == IF i = 0 THEN <<>>
                      ELSE IF s[i] \in S THEN Append(f[i - 1], s[i]) ELSE f[i - 1]
<1>6. \A i \in 0 .. x : h[i] = G(h, i)
  <2> SUFFICES ASSUME NEW i \in 0 .. x PROVE h[i] = G(h, i)
    OBVIOUS
  <2>1. CASE i = 0
    <3>1. h[0] = g[0] /\ g[0] = <<>>
      BY <1>3, <1>5 DEF KeptBy
    <3> QED BY <2>1, <3>1
  <2>2. CASE i # 0
    <3>1. h[i - 1] = g[i - 1]
      BY <1>3, <2>2
    <3>2. CASE i < x
      <4>1. h[i] = g[i]
        BY <3>2
      <4>2. i \in 0 .. (x - 1)
        BY <1>3, <3>2
      <4>3. g[i] = G(g, i)
        BY <1>5, <4>2 DEF KeptBy
      <4> QED BY <2>2, <3>1, <4>1, <4>3
    <3>3. CASE i = x
      <4>1. h[i] = last
        BY <1>3, <3>3
      <4> QED BY <2>2, <3>1, <3>3, <4>1
    <3> QED BY <1>3, <3>2, <3>3
  <2> QED BY <2>1, <2>2
<1>7. KeptBy(h, s, S, x)
  BY <1>6 DEF KeptBy
<1> QED BY <1>3, <1>7

(***************************************************************************)
(* What Keep keeps.                                                        *)
(***************************************************************************)
LEMMA KeepFacts ==
    ASSUME NEW T, NEW s \in Seq(T), NEW S
    PROVE  /\ Keep(s, S) \in Seq(T)
           /\ Range(Keep(s, S)) = Range(s) \cap S
           /\ IsInjective(s) => IsInjective(Keep(s, S))
           /\ Len(Keep(s, S)) <= Len(s)
           /\ (\E j \in DOMAIN s : s[j] \notin S) => Len(Keep(s, S)) < Len(s)
<1> DEFINE n == Len(s)
           G(f, i) == IF i = 0 THEN <<>>
                      ELSE IF s[i] \in S THEN Append(f[i - 1], s[i]) ELSE f[i - 1]
           kept == CHOOSE f : KeptBy(f, s, S, n)
<1>1. n \in Nat /\ DOMAIN s = 1 .. n /\ \A i \in 1 .. n : s[i] \in T
  OBVIOUS
<1>2. Keep(s, S) = kept[n]
  BY DEF Keep, KeptBy
<1>3. kept = [i \in 0 .. n |-> G(kept, i)]
  <2>1. KeptBy(kept, s, S, n)
    BY <1>1, KeepExists
  <2> HIDE DEF kept
  <2> QED BY <2>1 DEF KeptBy
<1> HIDE DEF kept
<1>4. \A i \in 0 .. n : kept[i] = G(kept, i)
  BY <1>3
<1> DEFINE Good(i) ==
              /\ kept[i] \in Seq(T)
              /\ \A x : x \in Range(kept[i]) <=> (x \in S /\ \E j \in 1 .. i : s[j] = x)
              /\ IsInjective(s) => IsInjective(kept[i])
              /\ Len(kept[i]) <= i
              /\ (\E j \in 1 .. i : s[j] \notin S) => Len(kept[i]) < i
           Bad == {i \in 0 .. n : ~Good(i)}
<1>5. Good(0)
  <2>1. kept[0] = <<>>
    BY <1>1, <1>4
  <2> QED BY <2>1 DEF Range, IsInjective
<1>6. ASSUME NEW i \in 1 .. n, Good(i - 1) PROVE Good(i)
  <2> DEFINE q == kept[i - 1]
  <2>1. q \in Seq(T) /\ s[i] \in T
    BY <1>1, <1>6
  <2>2. /\ \A x : x \in Range(q) <=> (x \in S /\ \E j \in 1 .. (i - 1) : s[j] = x)
        /\ IsInjective(s) => IsInjective(q)
        /\ Len(q) <= i - 1
        /\ (\E j \in 1 .. (i - 1) : s[j] \notin S) => Len(q) < i - 1
    BY <1>6
  <2>3. kept[i] = IF s[i] \in S THEN Append(q, s[i]) ELSE q
    BY <1>1, <1>4
  <2>4. \A x : (\E j \in 1 .. i : s[j] = x) <=> (s[i] = x \/ \E j \in 1 .. (i - 1) : s[j] = x)
    <3> SUFFICES ASSUME NEW x
                 PROVE  (\E j \in 1 .. i : s[j] = x)
                            <=> (s[i] = x \/ \E j \in 1 .. (i - 1) : s[j] = x)
      OBVIOUS
    <3>1. 1 .. i = 1 .. (i - 1) \cup {i}
      BY <1>1
    <3> QED BY <3>1
  <2>5. (\E j \in 1 .. i : s[j] \notin S)
            <=> (s[i] \notin S \/ \E j \in 1 .. (i - 1) : s[j] \notin S)
    <3>1. 1 .. i = 1 .. (i - 1) \cup {i}
      BY <1>1
    <3> QED BY <3>1
  <2> HIDE DEF q
  <2>6. Len(q) \in Nat /\ i \in Nat
    BY <2>1, <1>1
  <2>7. CASE s[i] \in S
    <3>1. kept[i] = Append(q, s[i])
      BY <2>3, <2>7
    <3>2. /\ Append(q, s[i]) \in Seq(T)
          /\ Len(Append(q, s[i])) = Len(q) + 1
          /\ DOMAIN Append(q, s[i]) = 1 .. (Len(q) + 1) /\ DOMAIN q = 1 .. Len(q)
          /\ \A k \in 1 .. Len(q) : Append(q, s[i])[k] = q[k]
          /\ Append(q, s[i])[Len(q) + 1] = s[i]
      BY <2>1
    <3>3. Range(Append(q, s[i])) = Range(q) \cup {s[i]}
      <4>1. 1 .. (Len(q) + 1) = 1 .. Len(q) \cup {Len(q) + 1}
        BY <2>6
      <4> QED BY <3>2, <4>1 DEF Range
    <3>4. \A x : x \in Range(kept[i]) <=> (x \in S /\ \E j \in 1 .. i : s[j] = x)
      BY <2>2, <2>4, <2>7, <3>1, <3>3
    <3>5. ASSUME IsInjective(s) PROVE IsInjective(kept[i])
      <4>1. s[i] \notin Range(q)
        <5>1. ~\E j \in 1 .. (i - 1) : s[j] = s[i]
          BY <1>1, <3>5 DEF IsInjective
        <5> QED BY <2>2, <5>1
      <4>2. IsInjective(q)
        BY <2>2, <3>5
      <4>3. \A k \in 1 .. Len(q) : q[k] # s[i]
        BY <3>2, <4>1 DEF Range
      <4>4. \A k, l \in 1 .. (Len(q) + 1) : Append(q, s[i])[k] = Append(q, s[i])[l] => k = l
        <5> SUFFICES ASSUME NEW k \in 1 .. (Len(q) + 1), NEW l \in 1 .. (Len(q) + 1),
                            Append(q, s[i])[k] = Append(q, s[i])[l]
                     PROVE  k = l
          OBVIOUS
        <5>1. CASE k \in 1 .. Len(q) /\ l \in 1 .. Len(q)
          BY <3>2, <4>2, <5>1 DEF IsInjective
        <5>2. CASE k = Len(q) + 1 \/ l = Len(q) + 1
          BY <2>6, <3>2, <4>3, <5>2
        <5> QED BY <2>6, <5>1, <5>2
      <4> QED BY <3>1, <3>2, <4>4 DEF IsInjective
    <3> QED BY <2>2, <2>5, <2>6, <2>7, <3>1, <3>2, <3>4, <3>5
  <2>8. CASE s[i] \notin S
    BY <2>1, <2>2, <2>3, <2>4, <2>6, <2>8
  <2> QED BY <2>7, <2>8
<1>7. Good(n)
  <2> SUFFICES ASSUME ~Good(n) PROVE FALSE
    OBVIOUS
  <2> HIDE DEF Good
  <2>1. Bad \in SUBSET Nat /\ n \in Bad
    BY <1>1
  <2>2. PICK x \in Bad : \A y \in Bad : x <= y
    BY <2>1, LeastNat
  <2>3. x \in 0 .. n /\ ~Good(x) /\ x # 0
    BY <1>5
  <2>4. x \in 1 .. n /\ x - 1 \in 0 .. n /\ ~(x <= x - 1)
    BY <1>1, <2>3
  <2>5. Good(x - 1)
    BY <2>2, <2>4
  <2> QED BY <1>6, <2>3, <2>4, <2>5
<1>8. \A x : x \in Range(s) <=> \E j \in 1 .. n : s[j] = x
  BY <1>1 DEF Range
<1> QED BY <1>1, <1>2, <1>7, <1>8

(***************************************************************************)
(* Concatenation.                                                          *)
(***************************************************************************)
LEMMA ConcatFacts ==
    ASSUME NEW T, NEW s \in Seq(T), NEW t \in Seq(T)
    PROVE  /\ s \o t \in Seq(T)
           /\ Range(s \o t) = Range(s) \cup Range(t)
           /\ IsInjective(s) /\ IsInjective(t) /\ Range(s) \cap Range(t) = {}
                 => IsInjective(s \o t)
<1> DEFINE u == s \o t
           m == Len(s)
           n == Len(t)
<1>1. /\ u \in Seq(T) /\ Len(u) = m + n /\ m \in Nat /\ n \in Nat
      /\ DOMAIN u = 1 .. (m + n) /\ DOMAIN s = 1 .. m /\ DOMAIN t = 1 .. n
  OBVIOUS
<1>2. \A i \in 1 .. m : u[i] = s[i]
  BY <1>1
<1>3. \A i \in (m + 1) .. (m + n) : u[i] = t[i - m]
  BY <1>1
<1> HIDE DEF u, m, n
<1>4. \A i \in 1 .. n : u[m + i] = t[i] /\ m + i \in 1 .. (m + n)
  <2> SUFFICES ASSUME NEW i \in 1 .. n PROVE u[m + i] = t[i] /\ m + i \in 1 .. (m + n)
    OBVIOUS
  <2>1. m + i \in (m + 1) .. (m + n) /\ (m + i) - m = i /\ m + i \in 1 .. (m + n)
    BY <1>1
  <2> QED BY <1>3, <2>1
<1>5. \A i \in 1 .. (m + n) : i \in 1 .. m \/ (i - m \in 1 .. n /\ u[i] = t[i - m])
  BY <1>1, <1>3
<1>6. \A i \in 1 .. m : i \in 1 .. (m + n)
  BY <1>1
<1>7. Range(u) = Range(s) \cup Range(t)
  <2>1. ASSUME NEW x \in Range(u) PROVE x \in Range(s) \cup Range(t)
    <3>1. PICK i \in 1 .. (m + n) : u[i] = x
      BY <1>1, <2>1 DEF Range
    <3>2. CASE i \in 1 .. m
      BY <1>1, <1>2, <3>1, <3>2 DEF Range
    <3>3. CASE i - m \in 1 .. n /\ u[i] = t[i - m]
      BY <1>1, <3>1, <3>3 DEF Range
    <3> QED BY <1>5, <3>2, <3>3
  <2>2. ASSUME NEW x \in Range(s) PROVE x \in Range(u)
    BY <1>1, <1>2, <1>6 DEF Range
  <2>3. ASSUME NEW x \in Range(t) PROVE x \in Range(u)
    <3>1. PICK i \in 1 .. n : t[i] = x
      BY <1>1, <2>3 DEF Range
    <3> QED BY <1>1, <1>4, <3>1 DEF Range
  <2> QED BY <2>1, <2>2, <2>3
<1>8. ASSUME IsInjective(s), IsInjective(t), Range(s) \cap Range(t) = {}
      PROVE  IsInjective(u)
  <2>1. \A i \in 1 .. m, j \in 1 .. n : s[i] # t[j]
    BY <1>1, <1>8 DEF Range
  <2> SUFFICES ASSUME NEW i \in 1 .. (m + n), NEW j \in 1 .. (m + n), u[i] = u[j]
               PROVE  i = j
    BY <1>1 DEF IsInjective
  <2>2. CASE i \in 1 .. m /\ j \in 1 .. m
    BY <1>1, <1>2, <1>8, <2>2 DEF IsInjective
  <2>3. CASE i \notin 1 .. m /\ j \notin 1 .. m
    <3>1. i - m \in 1 .. n /\ j - m \in 1 .. n /\ t[i - m] = t[j - m]
      BY <1>5, <2>3
    <3>2. i - m = j - m
      BY <1>1, <1>8, <3>1 DEF IsInjective
    <3> QED BY <1>1, <3>2
  <2>4. CASE i \in 1 .. m /\ j \notin 1 .. m
    BY <1>2, <1>5, <2>1, <2>4
  <2>5. CASE i \notin 1 .. m /\ j \in 1 .. m
    BY <1>2, <1>5, <2>1, <2>5
  <2> QED BY <2>2, <2>3, <2>4, <2>5
<1> QED BY <1>1, <1>7, <1>8 DEF u

(***************************************************************************)
(* A sequence of one element, added at the end or at the beginning.        *)
(***************************************************************************)
LEMMA OneFacts ==
    ASSUME NEW T, NEW e \in T
    PROVE  <<e>> \in Seq(T) /\ Range(<<e>>) = {e} /\ IsInjective(<<e>>)
BY DEF Range, IsInjective

(***************************************************************************)
(* What Append gives, in the terms the pool and the queues use.            *)
(***************************************************************************)
LEMMA AppendFacts ==
    ASSUME NEW T, NEW s \in Seq(T), NEW e \in T
    PROVE  /\ Append(s, e) \in Seq(T)
           /\ Len(Append(s, e)) = Len(s) + 1
           /\ Range(Append(s, e)) = Range(s) \cup {e}
           /\ IsInjective(s) /\ e \notin Range(s) => IsInjective(Append(s, e))
           /\ Append(s, e) # <<>>
           /\ \A i \in DOMAIN s : i \in DOMAIN Append(s, e) /\ Append(s, e)[i] = s[i]
<1>1. Append(s, e) = s \o <<e>>
  OBVIOUS
<1>2. <<e>> \in Seq(T) /\ Range(<<e>>) = {e} /\ IsInjective(<<e>>)
  BY OneFacts
<1>3. /\ Append(s, e) \in Seq(T)
      /\ Range(Append(s, e)) = Range(s) \cup {e}
      /\ IsInjective(s) /\ Range(s) \cap {e} = {} => IsInjective(Append(s, e))
  <2> DEFINE t == <<e>>
  <2> HIDE DEF t
  <2>1. t \in Seq(T) /\ Range(t) = {e} /\ IsInjective(t) /\ Append(s, e) = s \o t
    BY <1>1, <1>2 DEF t
  <2> QED BY <2>1, ConcatFacts
<1>4. /\ Len(Append(s, e)) = Len(s) + 1 /\ Append(s, e) # <<>>
      /\ \A i \in DOMAIN s : i \in DOMAIN Append(s, e) /\ Append(s, e)[i] = s[i]
  OBVIOUS
<1> QED BY <1>3, <1>4

(***************************************************************************)
(* The first n elements of a sequence and the rest.                        *)
(***************************************************************************)
LEMMA SplitFacts ==
    ASSUME NEW T, NEW s \in Seq(T), NEW n \in 0 .. Len(s)
    PROVE  LET p == SubSeq(s, 1, n)
               q == SubSeq(s, n + 1, Len(s))
           IN  /\ p \in Seq(T) /\ q \in Seq(T) /\ Len(p) = n
               /\ Range(s) = Range(p) \cup Range(q)
               /\ IsInjective(s) => /\ IsInjective(p) /\ IsInjective(q)
                                    /\ Range(p) \cap Range(q) = {}
<1> DEFINE p == SubSeq(s, 1, n)
           q == SubSeq(s, n + 1, Len(s))
           m == Len(s)
<1>1. m \in Nat /\ n \in Nat /\ n <= m /\ DOMAIN s = 1 .. m /\ \A i \in 1 .. m : s[i] \in T
  OBVIOUS
<1>2. p \in Seq(T) /\ Len(p) = n /\ DOMAIN p = 1 .. n /\ \A i \in 1 .. n : p[i] = s[i]
  BY <1>1
<1>3. /\ q \in Seq(T) /\ Len(q) = m - n /\ DOMAIN q = 1 .. (m - n)
      /\ \A i \in 1 .. (m - n) : q[i] = s[n + i]
  <2> HIDE DEF m
  <2>1. q = SubSeq(s, n + 1, m)
    BY DEF m
  <2> HIDE DEF q
  <2>2. \A i \in (n + 1) .. m : s[i] \in T
    BY <1>1
  <2>3. n + 1 \in Int /\ m \in Int
    BY <1>1
  <2>4. /\ q \in Seq(T) /\ Len(q) = IF n + 1 <= m THEN m - (n + 1) + 1 ELSE 0
        /\ \A i \in 1 .. m - (n + 1) + 1 : q[i] = s[(n + 1) + i - 1]
    BY <2>1, <2>2, <2>3, SubSeqProperties
  <2>5. Len(q) = m - n /\ DOMAIN q = 1 .. Len(q)
    BY <1>1, <2>4
  <2>6. \A i \in 1 .. (m - n) : q[i] = s[n + i]
    <3> SUFFICES ASSUME NEW i \in 1 .. (m - n) PROVE q[i] = s[n + i]
      OBVIOUS
    <3>1. i \in 1 .. m - (n + 1) + 1 /\ (n + 1) + i - 1 = n + i
      BY <1>1
    <3> QED BY <2>4, <3>1
  <2> QED BY <2>4, <2>5, <2>6
<1> HIDE DEF p, q, m
<1>4. \A i \in 1 .. (m - n) : n + i \in 1 .. m /\ n + i > n
  BY <1>1
<1>5. \A i \in 1 .. m : i \in 1 .. n \/ (i - n \in 1 .. (m - n) /\ n + (i - n) = i)
  BY <1>1
<1>6. \A i \in 1 .. n : i \in 1 .. m /\ i <= n
  BY <1>1
<1>7. Range(s) = Range(p) \cup Range(q)
  <2>1. ASSUME NEW x \in Range(s) PROVE x \in Range(p) \cup Range(q)
    <3>1. PICK i \in 1 .. m : s[i] = x
      BY <1>1, <2>1 DEF Range
    <3>2. CASE i \in 1 .. n
      BY <1>2, <3>1, <3>2 DEF Range
    <3>3. CASE i - n \in 1 .. (m - n) /\ n + (i - n) = i
      BY <1>3, <3>1, <3>3 DEF Range
    <3> QED BY <1>5, <3>2, <3>3
  <2>2. ASSUME NEW x \in Range(p) PROVE x \in Range(s)
    BY <1>1, <1>2, <1>6 DEF Range
  <2>3. ASSUME NEW x \in Range(q) PROVE x \in Range(s)
    BY <1>1, <1>3, <1>4 DEF Range
  <2> QED BY <2>1, <2>2, <2>3
<1>8. ASSUME IsInjective(s)
      PROVE  IsInjective(p) /\ IsInjective(q) /\ Range(p) \cap Range(q) = {}
  <2>1. \A i, j \in 1 .. m : s[i] = s[j] => i = j
    BY <1>1, <1>8 DEF IsInjective
  <2>2. IsInjective(p)
    BY <1>2, <1>6, <2>1 DEF IsInjective
  <2>3. IsInjective(q)
    <3> SUFFICES ASSUME NEW i \in 1 .. (m - n), NEW j \in 1 .. (m - n), q[i] = q[j]
                 PROVE  i = j
      BY <1>3 DEF IsInjective
    <3>1. n + i = n + j
      BY <1>3, <1>4, <2>1
    <3> QED BY <1>1, <3>1
  <2>4. ASSUME NEW x, x \in Range(p), x \in Range(q) PROVE FALSE
    <3>1. PICK i \in 1 .. n : p[i] = x
      BY <1>2, <2>4 DEF Range
    <3>2. PICK j \in 1 .. (m - n) : q[j] = x
      BY <1>3, <2>4 DEF Range
    <3>3. i = n + j
      BY <1>2, <1>3, <1>4, <1>6, <2>1, <3>1, <3>2
    <3> QED BY <1>1, <1>4, <1>6, <3>3
  <2> QED BY <2>2, <2>3, <2>4
<1> QED BY <1>2, <1>3, <1>7, <1>8 DEF p, q, m

(***************************************************************************)
(* Reversal.                                                               *)
(***************************************************************************)
LEMMA ReverseFacts ==
    ASSUME NEW T, NEW s \in Seq(T)
    PROVE  LET r == [i \in 1 .. Len(s) |-> s[Len(s) + 1 - i]]
           IN  r \in Seq(T) /\ Range(r) = Range(s) /\ (IsInjective(s) => IsInjective(r))
<1> DEFINE m == Len(s)
           r == [i \in 1 .. m |-> s[m + 1 - i]]
<1>1. m \in Nat /\ DOMAIN s = 1 .. m /\ \A i \in 1 .. m : s[i] \in T
  OBVIOUS
<1> HIDE DEF m
<1>2. \A i \in 1 .. m : m + 1 - i \in 1 .. m /\ m + 1 - (m + 1 - i) = i
  BY <1>1
<1>3. DOMAIN r = 1 .. m /\ \A i \in 1 .. m : r[i] = s[m + 1 - i] /\ r[i] \in T
  BY <1>1, <1>2
<1>4. r \in Seq(T)
  <2>1. \A i \in 1 .. m : s[m + 1 - i] \in T
    BY <1>1, <1>2
  <2> QED BY <1>1, <2>1
<1> HIDE DEF r
<1>5. Range(r) = Range(s)
  <2>1. ASSUME NEW x \in Range(r) PROVE x \in Range(s)
    BY <1>1, <1>2, <1>3 DEF Range
  <2>2. ASSUME NEW x \in Range(s) PROVE x \in Range(r)
    <3>1. PICK i \in 1 .. m : s[i] = x
      BY <1>1, <2>2 DEF Range
    <3>2. r[m + 1 - i] = x
      BY <1>2, <1>3, <3>1
    <3> QED BY <1>2, <1>3, <3>2 DEF Range
  <2> QED BY <2>1, <2>2
<1>6. ASSUME IsInjective(s) PROVE IsInjective(r)
  <2> SUFFICES ASSUME NEW i \in 1 .. m, NEW j \in 1 .. m, r[i] = r[j]
               PROVE  i = j
    BY <1>3 DEF IsInjective
  <2>1. m + 1 - i = m + 1 - j
    BY <1>1, <1>2, <1>3, <1>6 DEF IsInjective
  <2> QED BY <1>1, <2>1
<1> QED BY <1>4, <1>5, <1>6 DEF r, m

(***************************************************************************)
(* A sequence without repetitions holds each of its elements once.         *)
(***************************************************************************)
LEMMA OccurrencesOnce ==
    ASSUME NEW T, NEW s \in Seq(T), IsInjective(s), NEW b
    PROVE  Occurrences(s, b) = IF b \in Range(s) THEN 1 ELSE 0
<1>1. CASE b \in Range(s)
  <2>1. PICK i \in DOMAIN s : s[i] = b
    BY <1>1 DEF Range
  <2>2. {j \in DOMAIN s : s[j] = b} = {i}
    BY <2>1 DEF IsInjective
  <2> QED BY <1>1, <2>2, FS_Singleton DEF Occurrences
<1>2. CASE b \notin Range(s)
  <2>1. {j \in DOMAIN s : s[j] = b} = {}
    BY <1>2 DEF Range
  <2> QED BY <1>2, <2>1, FS_EmptySet DEF Occurrences
<1> QED BY <1>1, <1>2

-----------------------------------------------------------------------------
(* What holds of a pool and of a manager between operations *)

RealBlock == Block \ {NullBlock}

Holders(m, b) == {r \in Request : b \in Range(m.req_to_blocks[r])}

IsPool(p) ==
    /\ DOMAIN p = {"free", "ref_cnt", "block_hash", "cached", "error"}
    /\ p.free \in Seq(RealBlock)
    /\ p.ref_cnt \in [Block -> Int]
    /\ \A h \in DOMAIN p.cached : p.cached[h] \in Seq(RealBlock)

IsManager(m) ==
    /\ DOMAIN m = {"pool", "req_to_blocks", "num_cached_block"}
    /\ IsPool(m.pool)
    /\ m.req_to_blocks \in [Request -> Seq(RealBlock)]
    /\ m.num_cached_block \in [Request -> Nat \cup {NoEntry}]

\* A block is in the index under exactly the hash it carries, and the index has
\* no empty entries.
Indexed(p) ==
    /\ \A h \in DOMAIN p.cached : p.cached[h] # <<>> /\ IsInjective(p.cached[h])
    /\ \A b \in Block : \A h \in DOMAIN p.cached :
          b \in Range(p.cached[h]) <=> (p.block_hash[b] = h)
    /\ \A b \in Block : p.block_hash[b] # NoHash => p.block_hash[b] \in DOMAIN p.cached
    /\ NoHash \notin DOMAIN p.cached

\* The count of a block says how many requests hold it, and the free queue has
\* those nobody holds.
Counted(m, b) ==
    /\ IsFiniteSet(Holders(m, b))
    /\ m.pool.ref_cnt[b] = Cardinality(Holders(m, b))
    /\ b \in Range(m.pool.free) <=> Holders(m, b) = {}

Accounted(m) ==
    /\ \A b \in RealBlock : Counted(m, b)
    /\ IsInjective(m.pool.free)
    /\ \A r \in Request : IsInjective(m.req_to_blocks[r])

ManagerOK(m) == IsManager(m) /\ Indexed(m.pool) /\ Accounted(m)

(***************************************************************************)
(* A failed assertion leaves everything but the error alone.               *)
(***************************************************************************)
LEMMA FailFacts ==
    ASSUME NEW p, NEW e, IsPool(p)
    PROVE  /\ IsPool(Fail(p, e))
           /\ Fail(p, e).free = p.free /\ Fail(p, e).ref_cnt = p.ref_cnt
           /\ Fail(p, e).block_hash = p.block_hash /\ Fail(p, e).cached = p.cached
           /\ Indexed(p) => Indexed(Fail(p, e))
<1>1. /\ DOMAIN Fail(p, e) = DOMAIN p
      /\ Fail(p, e).free = p.free /\ Fail(p, e).ref_cnt = p.ref_cnt
      /\ Fail(p, e).block_hash = p.block_hash /\ Fail(p, e).cached = p.cached
  BY DEF Fail, IsPool
<1> QED BY <1>1 DEF IsPool, Indexed

(***************************************************************************)
(* A manager that differs in the pool only, and there neither in the free  *)
(* queue nor in the counts.                                                *)
(***************************************************************************)
LEMMA PoolReplaced ==
    ASSUME NEW m, ManagerOK(m), NEW p, IsPool(p), Indexed(p),
           p.free = m.pool.free, p.ref_cnt = m.pool.ref_cnt,
           NEW n, IsManager(n), n.pool = p, n.req_to_blocks = m.req_to_blocks
    PROVE  ManagerOK(n)
<1>1. \A b : Holders(n, b) = Holders(m, b)
  BY DEF Holders
<1>2. Accounted(n)
  BY <1>1 DEF ManagerOK, Accounted, Counted
<1> QED BY <1>2 DEF ManagerOK

(***************************************************************************)
(* A manager whose pool records a failed assertion accounts for its blocks *)
(* as before.                                                              *)
(***************************************************************************)
LEMMA FailOK ==
    ASSUME NEW m, ManagerOK(m), NEW e
    PROVE  ManagerOK([m EXCEPT !.pool = Fail(@, e)])
<1> DEFINE n == [m EXCEPT !.pool = Fail(@, e)]
<1>1. IsManager(m) /\ IsPool(m.pool) /\ Indexed(m.pool)
  BY DEF ManagerOK, IsManager
<1>2. /\ IsPool(Fail(m.pool, e)) /\ Indexed(Fail(m.pool, e))
      /\ Fail(m.pool, e).free = m.pool.free /\ Fail(m.pool, e).ref_cnt = m.pool.ref_cnt
  BY <1>1, FailFacts
<1>3. /\ DOMAIN n = DOMAIN m /\ n.pool = Fail(m.pool, e)
      /\ n.req_to_blocks = m.req_to_blocks /\ n.num_cached_block = m.num_cached_block
  BY <1>1 DEF IsManager
<1>4. IsManager(n)
  BY <1>1, <1>2, <1>3 DEF IsManager
<1> QED BY <1>2, <1>3, <1>4, PoolReplaced

(***************************************************************************)
(* Eviction.                                                               *)
(***************************************************************************)
LEMMA EvictFacts ==
    ASSUME NEW p, IsPool(p), Indexed(p), NEW bs
    PROVE  LET q == EvictBlocks(p, bs)
           IN  IsPool(q) /\ Indexed(q) /\ q.free = p.free /\ q.ref_cnt = p.ref_cnt
<1> DEFINE found == {b \in bs : /\ p.block_hash[b] \in DOMAIN p.cached
                                /\ b \in Range(p.cached[p.block_hash[b]])}
           left(h) == Keep(p.cached[h], {b \in Block : b \notin found \/ p.block_hash[b] # h})
           q == EvictBlocks(p, bs)
           cached == [h \in {g \in DOMAIN p.cached : left(g) # <<>>} |-> left(h)]
           block_hash == [b \in Block |-> IF b \in found THEN NoHash ELSE p.block_hash[b]]
<1>1. q = [p EXCEPT !.cached = cached, !.block_hash = block_hash]
  BY DEF EvictBlocks, pop
<1> HIDE DEF found, left
<1>2. /\ DOMAIN q = DOMAIN p /\ q.free = p.free /\ q.ref_cnt = p.ref_cnt
      /\ q.cached = cached /\ q.block_hash = block_hash
  BY <1>1 DEF IsPool
<1> HIDE DEF q
<1>3. \A h \in DOMAIN p.cached :
          /\ left(h) \in Seq(RealBlock) /\ IsInjective(left(h))
          /\ \A b \in Block : b \in Range(left(h)) <=> (p.block_hash[b] = h /\ b \notin found)
  <2> SUFFICES ASSUME NEW h \in DOMAIN p.cached
               PROVE  /\ left(h) \in Seq(RealBlock) /\ IsInjective(left(h))
                      /\ \A b \in Block :
                            b \in Range(left(h)) <=> (p.block_hash[b] = h /\ b \notin found)
    OBVIOUS
  <2>1. p.cached[h] \in Seq(RealBlock) /\ IsInjective(p.cached[h])
    BY DEF IsPool, Indexed
  <2> DEFINE K == {b \in Block : b \notin found \/ p.block_hash[b] # h}
  <2>2. left(h) = Keep(p.cached[h], K)
    BY DEF left
  <2> HIDE DEF K
  <2>3. /\ left(h) \in Seq(RealBlock) /\ IsInjective(left(h))
        /\ Range(left(h)) = Range(p.cached[h]) \cap K
    BY <2>1, <2>2, KeepFacts
  <2>4. \A b \in Block : b \in Range(p.cached[h]) <=> p.block_hash[b] = h
    BY DEF Indexed
  <2> QED BY <2>3, <2>4 DEF K
<1>4. DOMAIN q.cached = {g \in DOMAIN p.cached : left(g) # <<>>}
      /\ \A h \in DOMAIN q.cached : q.cached[h] = left(h)
  BY <1>2
<1>5. IsPool(q)
  BY <1>2, <1>3, <1>4 DEF IsPool
<1>6. \A b \in Block : q.block_hash[b] = IF b \in found THEN NoHash ELSE p.block_hash[b]
  BY <1>2
<1>7. Indexed(q)
  <2>1. \A h \in DOMAIN q.cached : q.cached[h] # <<>> /\ IsInjective(q.cached[h])
    BY <1>3, <1>4
  <2>2. NoHash \notin DOMAIN q.cached
    BY <1>4 DEF Indexed
  <2>3. ASSUME NEW b \in Block, NEW h \in DOMAIN q.cached
        PROVE  b \in Range(q.cached[h]) <=> (q.block_hash[b] = h)
    BY <1>3, <1>4, <1>6, <2>2
  <2>4. ASSUME NEW b \in Block, q.block_hash[b] # NoHash
        PROVE  q.block_hash[b] \in DOMAIN q.cached
    <3>1. b \notin found /\ q.block_hash[b] = p.block_hash[b]
      BY <1>6, <2>4
    <3>2. p.block_hash[b] \in DOMAIN p.cached
      BY <2>4, <3>1 DEF Indexed
    <3>3. b \in Range(left(p.block_hash[b]))
      BY <1>3, <3>1, <3>2
    <3>4. left(p.block_hash[b]) # <<>>
      BY <3>3 DEF Range
    <3> QED BY <1>4, <3>1, <3>2, <3>4
  <2> QED BY <2>1, <2>2, <2>3, <2>4 DEF Indexed
<1> QED BY <1>2, <1>5, <1>7 DEF q

-----------------------------------------------------------------------------
(* Taking and returning blocks *)

(***************************************************************************)
(* A request without blocks takes blocks it found in the prefix cache:     *)
(* those that nobody holds leave the free queue.                           *)
(***************************************************************************)
LEMMA TouchOK ==
    ASSUME NEW m, ManagerOK(m), NEW r \in Request, m.req_to_blocks[r] = <<>>,
           NEW blocks \in Seq(RealBlock), IsInjective(blocks)
    PROVE  ManagerOK([m EXCEPT !.pool = touch(@, blocks),
                               !.req_to_blocks[r] = blocks,
                               !.num_cached_block[r] = Len(blocks)])
<1> DEFINE p == m.pool
           q == touch(p, blocks)
           n == [m EXCEPT !.pool = touch(@, blocks),
                          !.req_to_blocks[r] = blocks,
                          !.num_cached_block[r] = Len(blocks)]
           revived == {b \in Range(blocks) : p.ref_cnt[b] = 0 /\ b # NullBlock}
           ref_cnt == [b \in Block |-> p.ref_cnt[b] + Occurrences(blocks, b)]
<1>1. IsManager(m) /\ IsPool(p) /\ Indexed(p) /\ Accounted(m)
  BY DEF ManagerOK, IsManager
<1>2. Range(blocks) \subseteq RealBlock
  BY DEF Range
<1>3. ASSUME NEW b \in RealBlock
      PROVE  /\ IsFiniteSet(Holders(m, b)) /\ p.ref_cnt[b] = Cardinality(Holders(m, b))
             /\ b \in Range(p.free) <=> Holders(m, b) = {}
             /\ p.ref_cnt[b] = 0 <=> Holders(m, b) = {}
  BY <1>1, <1>3, FS_EmptySet DEF Accounted, Counted
<1>4. revived \subseteq Range(p.free)
  BY <1>2, <1>3
<1>5. q = [p EXCEPT !.free = Keep(@, Block \ revived), !.ref_cnt = ref_cnt]
  BY <1>4 DEF touch
<1>6. /\ DOMAIN q = DOMAIN p /\ q.free = Keep(p.free, Block \ revived) /\ q.ref_cnt = ref_cnt
      /\ q.cached = p.cached /\ q.block_hash = p.block_hash
  BY <1>1, <1>5 DEF IsPool
<1>7. DOMAIN n = DOMAIN m /\ n.pool = q
      /\ n.req_to_blocks = [m.req_to_blocks EXCEPT ![r] = blocks]
      /\ n.num_cached_block = [m.num_cached_block EXCEPT ![r] = Len(blocks)]
  BY <1>1 DEF IsManager
<1> HIDE DEF q, n, revived
<1>8. /\ q.free \in Seq(RealBlock) /\ IsInjective(q.free)
      /\ Range(q.free) = Range(p.free) \cap (Block \ revived)
  BY <1>1, <1>6, KeepFacts DEF IsPool, Accounted
<1>9. \A b \in Block : q.ref_cnt[b] = p.ref_cnt[b] + (IF b \in Range(blocks) THEN 1 ELSE 0)
  BY <1>6, OccurrencesOnce
<1>10. q.ref_cnt \in [Block -> Int]
  <2>1. \A b \in Block : p.ref_cnt[b] \in Int
    BY <1>1 DEF IsPool
  <2>2. \A b \in Block : q.ref_cnt[b] \in Int
    BY <1>9, <2>1
  <2> QED BY <1>6, <2>2
<1>11. IsPool(q) /\ Indexed(q)
  BY <1>1, <1>6, <1>8, <1>10 DEF IsPool, Indexed
<1>12. IsManager(n)
  <2>1. Len(blocks) \in Nat
    OBVIOUS
  <2> QED BY <1>1, <1>7, <1>11, <2>1 DEF IsManager
<1>13. ASSUME NEW b \in RealBlock PROVE Counted(n, b)
  <2>1. b \in Block /\ b # NullBlock
    BY DEF RealBlock
  <2>2. r \notin Holders(m, b)
    BY DEF Holders, Range
  <2>5. m.req_to_blocks \in [Request -> Seq(RealBlock)]
    BY <1>1 DEF IsManager
  <2>6. Holders(n, b) = IF b \in Range(blocks) THEN Holders(m, b) \cup {r}
                        ELSE Holders(m, b) \ {r}
    <3>1. /\ \A t \in Request : t # r => n.req_to_blocks[t] = m.req_to_blocks[t]
          /\ Range(n.req_to_blocks[r]) = Range(blocks)
      BY <1>7, <2>5
    <3> QED BY <3>1 DEF Holders
  <2>3. CASE b \in Range(blocks)
    <3>1. Holders(n, b) = Holders(m, b) \cup {r}
      BY <2>3, <2>6
    <3>2. IsFiniteSet(Holders(n, b)) /\ Cardinality(Holders(n, b)) = Cardinality(Holders(m, b)) + 1
      BY <1>3, <2>2, <3>1, FS_AddElement
    <3>3. q.ref_cnt[b] = p.ref_cnt[b] + 1
      BY <1>9, <2>1, <2>3
    <3>4. b \notin Range(q.free)
      <4>1. b \in Range(p.free) => b \in revived
        BY <1>3, <2>1, <2>3 DEF revived
      <4> QED BY <1>8, <4>1
    <3> QED BY <1>3, <1>7, <3>1, <3>2, <3>3, <3>4 DEF Counted
  <2>4. CASE b \notin Range(blocks)
    <3>1. Holders(n, b) = Holders(m, b)
      BY <2>2, <2>4, <2>6
    <3>2. q.ref_cnt[b] = p.ref_cnt[b]
      <4>1. p.ref_cnt[b] \in Int
        BY <1>1, <2>1 DEF IsPool
      <4> QED BY <1>9, <2>1, <2>4, <4>1
    <3>3. b \in Range(q.free) <=> b \in Range(p.free)
      BY <1>8, <2>1, <2>4 DEF revived
    <3> QED BY <1>3, <1>7, <3>1, <3>2, <3>3 DEF Counted
  <2> QED BY <2>3, <2>4
<1>14. \A s \in Request : IsInjective(n.req_to_blocks[s])
  BY <1>1, <1>7 DEF IsManager, Accounted
<1>15. Accounted(n)
  BY <1>7, <1>8, <1>13, <1>14 DEF Accounted
<1> QED BY <1>7, <1>11, <1>12, <1>15 DEF ManagerOK, n

(***************************************************************************)
(* A request takes the first blocks of the free queue.                     *)
(***************************************************************************)
LEMMA NewBlocksOK ==
    ASSUME NEW m, ManagerOK(m), NEW r \in Request, NEW k \in Nat
    PROVE  ManagerOK([m EXCEPT !.pool = get_new_blocks(@, k),
                               !.req_to_blocks[r] = @ \o NewBlocks(m.pool, k)])
<1> DEFINE p == m.pool
           q == get_new_blocks(p, k)
           n == [m EXCEPT !.pool = get_new_blocks(@, k),
                          !.req_to_blocks[r] = @ \o NewBlocks(m.pool, k)]
           taken == NewBlocks(p, k)
           new == Range(taken)
           held == m.req_to_blocks[r]
<1>1. IsManager(m) /\ IsPool(p) /\ Indexed(p) /\ Accounted(m)
  BY DEF ManagerOK, IsManager
<1>2. DOMAIN n = DOMAIN m /\ n.pool = q
      /\ n.req_to_blocks = [m.req_to_blocks EXCEPT ![r] = held \o taken]
      /\ n.num_cached_block = m.num_cached_block
  BY <1>1 DEF IsManager
<1>3. p.free \in Seq(RealBlock) /\ IsInjective(p.free) /\ held \in Seq(RealBlock) /\ Len(p.free) \in Nat
  BY <1>1 DEF IsPool, IsManager, Accounted
<1>4. CASE k > Len(p.free)
  <2>1. taken = <<>>
    <3>1. taken = SubSeq(p.free, 1, 0)
      BY <1>3, <1>4 DEF NewBlocks
    <3> QED BY <3>1, SubSeqEmpty
  <2>2. q = Fail(p, "get_new_blocks: ValueError")
    BY <1>4 DEF get_new_blocks
  <2>3. held \o <<>> = held
    BY <1>3
  <2>4. n.req_to_blocks = m.req_to_blocks
    BY <1>1, <1>2, <2>1, <2>3 DEF IsManager
  <2> HIDE DEF p, q, n, taken, held
  <2>5. /\ IsPool(q) /\ Indexed(q) /\ q.free = p.free /\ q.ref_cnt = p.ref_cnt
    BY <1>1, <2>2, FailFacts
  <2>6. IsManager(n)
    BY <1>1, <1>2, <2>4, <2>5 DEF IsManager
  <2>7. ManagerOK(n)
    BY <1>2, <2>4, <2>5, <2>6, PoolReplaced DEF p
  <2> QED BY <2>7 DEF n
<1>5. CASE k <= Len(p.free)
  <2> DEFINE e == EvictBlocks(p, new)
             rest == SubSeq(p.free, k + 1, Len(p.free))
             ref_cnt == [b \in Block |-> IF b \in new THEN p.ref_cnt[b] + 1 ELSE p.ref_cnt[b]]
  <2>1. taken = SubSeq(p.free, 1, k) /\ k \in 0 .. Len(p.free)
    BY <1>3, <1>5 DEF NewBlocks
  <2> HIDE DEF taken
  <2>2. /\ taken \in Seq(RealBlock) /\ rest \in Seq(RealBlock)
        /\ Range(p.free) = new \cup Range(rest)
        /\ IsInjective(taken) /\ IsInjective(rest) /\ new \cap Range(rest) = {}
    BY <1>3, <2>1, SplitFacts
  <2>3. new \subseteq RealBlock
    BY <2>2 DEF Range
  <2>4. ASSUME NEW b \in RealBlock
        PROVE  /\ IsFiniteSet(Holders(m, b)) /\ p.ref_cnt[b] = Cardinality(Holders(m, b))
               /\ b \in Range(p.free) <=> Holders(m, b) = {}
               /\ p.ref_cnt[b] = 0 <=> Holders(m, b) = {}
    BY <1>1, <2>4, FS_EmptySet DEF Accounted, Counted
  <2>5. \A b \in new : Holders(m, b) = {} /\ p.ref_cnt[b] = 0
    BY <2>2, <2>3, <2>4
  <2>6. IsPool(e) /\ Indexed(e) /\ e.free = p.free /\ e.ref_cnt = p.ref_cnt
    BY <1>1, EvictFacts
  <2> DEFINE given == [e EXCEPT !.free = SubSeq(@, k + 1, Len(@)),
                                !.ref_cnt = [b \in Block |->
                                               IF b \in new THEN @[b] + 1 ELSE @[b]]]
  <2>18. q = IF k > Len(p.free) THEN Fail(p, "get_new_blocks: ValueError")
             ELSE IF \E b \in new : p.ref_cnt[b] # 0
                  THEN Fail(p, "get_new_blocks: ref_cnt != 0")
             ELSE given
    BY DEF get_new_blocks, taken
  <2>7. q = given
    <3> HIDE DEF given, new, q, p
    <3>1. ~(k > Len(p.free))
      BY <1>3, <1>5
    <3> QED BY <2>5, <2>18, <3>1
  <2> HIDE DEF e, q
  <2>8. /\ DOMAIN q = DOMAIN e /\ q.free = rest /\ q.ref_cnt = ref_cnt
        /\ q.cached = e.cached /\ q.block_hash = e.block_hash
    BY <2>6, <2>7 DEF IsPool
  <2> HIDE DEF p, n, rest, new
  <2>9. q.ref_cnt \in [Block -> Int]
    <3>1. \A b \in Block : p.ref_cnt[b] \in Int
      BY <1>1 DEF IsPool
    <3> QED BY <2>8, <3>1
  <2>10. IsPool(q) /\ Indexed(q)
    BY <2>2, <2>6, <2>8, <2>9 DEF IsPool, Indexed
  <2>11. Range(held) \cap new = {}
    <3>1. ASSUME NEW b \in Range(held), b \in new PROVE FALSE
      <4>1. r \in Holders(m, b)
        BY <3>1 DEF Holders
      <4> QED BY <2>5, <3>1, <4>1
    <3> QED BY <3>1
  <2>12. IsInjective(held)
    BY <1>1 DEF Accounted
  <2> HIDE DEF held
  <2>13. /\ held \o taken \in Seq(RealBlock)
         /\ Range(held \o taken) = Range(held) \cup new
         /\ IsInjective(held \o taken)
    BY <1>3, <2>2, <2>11, <2>12, ConcatFacts DEF new
  <2>14. IsManager(n)
    BY <1>1, <1>2, <2>10, <2>13 DEF IsManager
  <2> HIDE DEF ref_cnt, taken
  <2>19. m.req_to_blocks \in [Request -> Seq(RealBlock)]
    BY <1>1 DEF IsManager
  <2>15. ASSUME NEW b \in RealBlock PROVE Counted(n, b)
    <3>1. b \in Block /\ b # NullBlock
      BY DEF RealBlock
    <3>4. Holders(n, b) = IF b \in Range(held) \cup new THEN Holders(m, b) \cup {r}
                          ELSE Holders(m, b) \ {r}
      <4>1. /\ \A t \in Request : t # r => n.req_to_blocks[t] = m.req_to_blocks[t]
            /\ Range(n.req_to_blocks[r]) = Range(held) \cup new
        BY <1>2, <2>13, <2>19
      <4> QED BY <4>1 DEF Holders
    <3>2. CASE b \in new
      <4>1. Holders(n, b) = {r}
        BY <2>5, <3>2, <3>4
      <4>2. q.ref_cnt[b] = 1
        BY <2>5, <2>8, <3>1, <3>2 DEF ref_cnt
      <4>3. b \notin Range(q.free)
        BY <2>2, <2>8, <3>2
      <4>4. IsFiniteSet({r}) /\ Cardinality({r}) = 1 /\ {r} # {}
        BY FS_Singleton
      <4> QED BY <1>2, <4>1, <4>2, <4>3, <4>4 DEF Counted
    <3>3. CASE b \notin new
      <4>1. Holders(n, b) = IF b \in Range(held) THEN Holders(m, b) \cup {r}
                            ELSE Holders(m, b) \ {r}
        BY <3>3, <3>4
      <4>2. b \in Range(held) <=> r \in Holders(m, b)
        BY DEF Holders, held
      <4>3. Holders(n, b) = Holders(m, b)
        BY <4>1, <4>2
      <4>4. q.ref_cnt[b] = p.ref_cnt[b]
        BY <2>8, <3>1, <3>3 DEF ref_cnt
      <4>5. b \in Range(q.free) <=> b \in Range(p.free)
        BY <2>2, <2>8, <3>3
      <4> QED BY <1>2, <2>4, <4>3, <4>4, <4>5 DEF Counted
    <3> QED BY <3>2, <3>3
  <2>16. \A s \in Request : IsInjective(n.req_to_blocks[s])
    BY <1>1, <1>2, <2>13 DEF IsManager, Accounted
  <2>17. Accounted(n)
    BY <1>2, <2>2, <2>8, <2>15, <2>16 DEF Accounted
  <2> QED BY <1>2, <2>10, <2>14, <2>17 DEF ManagerOK, n
<1> QED BY <1>3, <1>4, <1>5

(***************************************************************************)
(* free: the request gives all its blocks back.                            *)
(***************************************************************************)
LEMMA FreeOK ==
    ASSUME NEW m, ManagerOK(m), NEW r \in Request
    PROVE  /\ ManagerOK(free(m, r))
           /\ free(m, r).req_to_blocks = [m.req_to_blocks EXCEPT ![r] = <<>>]
<1> DEFINE p == m.pool
           blocks == m.req_to_blocks[r]
           reversed == [i \in 1 .. Len(blocks) |-> blocks[Len(blocks) + 1 - i]]
           q == free_blocks(p, reversed)
           n == free(m, r)
           ref_cnt == [b \in Block |-> p.ref_cnt[b] - Occurrences(reversed, b)]
           back == Keep(reversed, {b \in Block : ref_cnt[b] = 0 /\ b # NullBlock})
<1>1. IsManager(m) /\ IsPool(p) /\ Indexed(p) /\ Accounted(m)
  BY DEF ManagerOK, IsManager
<1>2. n = [m EXCEPT !.pool = free_blocks(@, reversed),
                    !.req_to_blocks[r] = <<>>,
                    !.num_cached_block[r] = NoEntry]
  BY DEF free
<1> HIDE DEF n
<1>3. DOMAIN n = DOMAIN m /\ n.pool = q
      /\ n.req_to_blocks = [m.req_to_blocks EXCEPT ![r] = <<>>]
      /\ n.num_cached_block = [m.num_cached_block EXCEPT ![r] = NoEntry]
  BY <1>1, <1>2 DEF IsManager
<1>4. blocks \in Seq(RealBlock) /\ IsInjective(blocks)
  BY <1>1 DEF IsManager, Accounted
<1>5. reversed \in Seq(RealBlock) /\ Range(reversed) = Range(blocks) /\ IsInjective(reversed)
  <2> HIDE DEF blocks
  <2> QED BY <1>4, ReverseFacts
<1>6. q = [p EXCEPT !.ref_cnt = ref_cnt, !.free = @ \o back]
  BY DEF free_blocks
<1> HIDE DEF q, reversed, back
<1>7. /\ DOMAIN q = DOMAIN p /\ q.free = p.free \o back /\ q.ref_cnt = ref_cnt
      /\ q.cached = p.cached /\ q.block_hash = p.block_hash
  BY <1>1, <1>6 DEF IsPool
<1>8. \A b \in Block : ref_cnt[b] = p.ref_cnt[b] - (IF b \in Range(blocks) THEN 1 ELSE 0)
  BY <1>5, OccurrencesOnce
<1>9. \A b \in Block : p.ref_cnt[b] \in Int
  BY <1>1 DEF IsPool
<1>10. ref_cnt \in [Block -> Int]
  BY <1>8, <1>9
<1> HIDE DEF ref_cnt
<1>11. /\ back \in Seq(RealBlock) /\ IsInjective(back)
       /\ Range(back) = Range(blocks) \cap {b \in Block : ref_cnt[b] = 0 /\ b # NullBlock}
  BY <1>5, KeepFacts DEF back
<1>12. ASSUME NEW b \in RealBlock
       PROVE  /\ IsFiniteSet(Holders(m, b)) /\ p.ref_cnt[b] = Cardinality(Holders(m, b))
              /\ b \in Range(p.free) <=> Holders(m, b) = {}
              /\ b \in Range(blocks) <=> r \in Holders(m, b)
  BY <1>1, <1>12 DEF Accounted, Counted, Holders
<1>13. Range(blocks) \subseteq RealBlock
  BY <1>4 DEF Range
<1>14. Range(p.free) \cap Range(back) = {}
  BY <1>11, <1>12, <1>13
<1>15. /\ q.free \in Seq(RealBlock) /\ Range(q.free) = Range(p.free) \cup Range(back)
       /\ IsInjective(q.free)
  BY <1>1, <1>7, <1>11, <1>14, ConcatFacts DEF IsPool, Accounted
<1>16. IsPool(q) /\ Indexed(q)
  BY <1>1, <1>7, <1>10, <1>15 DEF IsPool, Indexed
<1>17. IsManager(n)
  <2>1. <<>> \in Seq(RealBlock)
    OBVIOUS
  <2> QED BY <1>1, <1>3, <1>16, <2>1 DEF IsManager
<1>18. ASSUME NEW b \in RealBlock PROVE Counted(n, b)
  <2>1. b \in Block /\ b # NullBlock
    BY DEF RealBlock
  <2>2. <<>> \in Seq(RealBlock) /\ Range(<<>>) = {}
    BY DEF Range
  <2>3. Holders(n, b) = Holders(m, b) \ {r}
    <3>1. m.req_to_blocks \in [Request -> Seq(RealBlock)]
      BY <1>1 DEF IsManager
    <3>2. Holders(n, b) = IF b \in {} THEN Holders(m, b) \cup {r} ELSE Holders(m, b) \ {r}
      <4>1. /\ \A t \in Request : t # r => n.req_to_blocks[t] = m.req_to_blocks[t]
            /\ Range(n.req_to_blocks[r]) = {}
        BY <1>3, <2>2, <3>1
      <4> QED BY <4>1 DEF Holders
    <3> QED BY <3>2
  <2>4. /\ IsFiniteSet(Holders(n, b))
        /\ Cardinality(Holders(n, b)) = IF r \in Holders(m, b) THEN Cardinality(Holders(m, b)) - 1
                                        ELSE Cardinality(Holders(m, b))
    BY <1>12, <2>3, FS_RemoveElement
  <2>5. q.ref_cnt[b] = Cardinality(Holders(n, b))
    <3>1. CASE b \in Range(blocks)
      BY <1>7, <1>8, <1>12, <2>1, <2>4, <3>1
    <3>2. CASE b \notin Range(blocks)
      BY <1>7, <1>8, <1>9, <1>12, <2>1, <2>4, <3>2
    <3> QED BY <3>1, <3>2
  <2>6. b \in Range(q.free) <=> Holders(n, b) = {}
    <3>1. Holders(n, b) = {} <=> ref_cnt[b] = 0
      BY <1>7, <2>4, <2>5, FS_EmptySet
    <3>2. CASE b \in Range(blocks)
      <4>1. b \notin Range(p.free)
        BY <1>12, <3>2
      <4> QED BY <1>11, <1>15, <2>1, <3>1, <3>2, <4>1
    <3>3. CASE b \notin Range(blocks)
      <4>1. Holders(n, b) = Holders(m, b)
        BY <1>12, <2>3, <3>3
      <4> QED BY <1>11, <1>12, <1>15, <3>3, <4>1
    <3> QED BY <3>2, <3>3
  <2> QED BY <1>3, <2>4, <2>5, <2>6 DEF Counted
<1>19. \A s \in Request : IsInjective(n.req_to_blocks[s])
  <2>1. IsInjective(<<>>)
    BY DEF IsInjective
  <2> QED BY <1>1, <1>3, <2>1 DEF IsManager, Accounted
<1>20. Accounted(n)
  BY <1>3, <1>15, <1>18, <1>19 DEF Accounted
<1> QED BY <1>3, <1>16, <1>17, <1>20 DEF ManagerOK, n

-----------------------------------------------------------------------------
(* The prefix cache *)

(***************************************************************************)
(* Arithmetic of block boundaries.                                         *)
(***************************************************************************)
LEMMA BlockEnds ==
    ASSUME NEW n \in Nat, NEW i \in 1 .. (n \div BlockSize)
    PROVE  i * BlockSize \in 1 .. n
<1> DEFINE d == n \div BlockSize
<1>1. BlockSize \in Nat /\ BlockSize > 0
  BY SizesAssumption
<1>2. d \in Nat /\ d * BlockSize <= n
  BY <1>1
<1> HIDE DEF d
<1>3. i \in Nat /\ 1 <= i /\ i <= d
  BY <1>2 DEF d
<1>4. i * BlockSize <= d * BlockSize /\ 1 <= i * BlockSize /\ i * BlockSize \in Nat
  BY <1>1, <1>2, <1>3
<1> DEFINE e == i * BlockSize
           f == d * BlockSize
<1>5. f \in Int
  BY <1>1, <1>2
<1> HIDE DEF e, f
<1>6. e \in Nat /\ f \in Int /\ 1 <= e /\ e <= f /\ f <= n
  BY <1>2, <1>4, <1>5 DEF e, f
<1>7. e \in 1 .. n
  BY <1>6
<1> QED BY <1>7 DEF e

(***************************************************************************)
(* Different full blocks of a request end at different tokens, so their    *)
(* hashes differ.                                                          *)
(***************************************************************************)
LEMMA BlockEndsDiffer ==
    ASSUME NEW i \in Nat, NEW j \in Nat, i * BlockSize = j * BlockSize
    PROVE  i = j
BY SizesAssumption

(***************************************************************************)
(* The block hashes of a request are different and none is NoHash.         *)
(***************************************************************************)
LEMMA HashFacts ==
    ASSUME NEW T, NEW tokens \in Seq(T)
    PROVE  LET hs == block_hashes(tokens)
           IN  /\ Len(hs) = Len(tokens) \div BlockSize /\ Len(hs) \in Nat
               /\ IsInjective(hs) /\ DOMAIN hs = 1 .. Len(hs)
               /\ \A i \in 1 .. Len(hs) : hs[i] # NoHash
<1> DEFINE n == Len(tokens) \div BlockSize
           hs == block_hashes(tokens)
<1>1. n \in Nat
  BY SizesAssumption
<1>2. hs = [i \in 1 .. n |-> SubSeq(tokens, 1, i * BlockSize)]
  BY DEF block_hashes
<1> HIDE DEF hs
<1>3. ASSUME NEW i \in 1 .. n
      PROVE  /\ SubSeq(tokens, 1, i * BlockSize) \in Seq(T)
             /\ Len(SubSeq(tokens, 1, i * BlockSize)) = i * BlockSize
             /\ i * BlockSize \in Nat \ {0}
  <2>1. i * BlockSize \in 1 .. Len(tokens)
    BY BlockEnds
  <2> DEFINE k == i * BlockSize
  <2> HIDE DEF k
  <2>2. SubSeq(tokens, 1, k) \in Seq(T) /\ Len(SubSeq(tokens, 1, k)) = k
    <3>1. k \in 1 .. Len(tokens)
      BY <2>1 DEF k
    <3> QED BY <3>1
  <2> QED BY <2>1, <2>2 DEF k
<1> HIDE DEF n
<1>4. hs \in Seq(Seq(T)) /\ Len(hs) = n /\ DOMAIN hs = 1 .. n
  <2>1. hs \in [1 .. n -> Seq(T)]
    BY <1>2, <1>3
  <2> QED BY <1>1, <1>2, <2>1
<1>5. \A i \in 1 .. n : Len(hs[i]) = i * BlockSize /\ hs[i] # NoHash
  <2> SUFFICES ASSUME NEW i \in 1 .. n PROVE Len(hs[i]) = i * BlockSize /\ hs[i] # NoHash
    OBVIOUS
  <2>1. hs[i] = SubSeq(tokens, 1, i * BlockSize)
    BY <1>2
  <2>2. Len(hs[i]) = i * BlockSize /\ i * BlockSize \in Nat \ {0}
    BY <1>3, <2>1
  <2> QED BY <2>2 DEF NoHash
<1>6. IsInjective(hs)
  <2> SUFFICES ASSUME NEW i \in 1 .. n, NEW j \in 1 .. n, hs[i] = hs[j] PROVE i = j
    BY <1>4 DEF IsInjective
  <2>1. i * BlockSize = j * BlockSize
    BY <1>5
  <2> QED BY <1>1, <2>1, BlockEndsDiffer
<1> QED BY <1>1, <1>4, <1>5, <1>6 DEF n, hs

\* Different hashes, of one block or more.
AreHashes(hs) ==
    /\ IsInjective(hs) /\ Len(hs) \in Nat /\ DOMAIN hs = 1 .. Len(hs)
    /\ \A i \in 1 .. Len(hs) : hs[i] # NoHash

\* Pool q is consistent and differs from p neither in the free queue nor in
\* the counts.
SameCounts(q, p) == IsPool(q) /\ Indexed(q) /\ q.free = p.free /\ q.ref_cnt = p.ref_cnt

(***************************************************************************)
(* cache_full_blocks: blocks that had no hash get different ones.          *)
(***************************************************************************)
LEMMA CacheFullFacts ==
    ASSUME NEW p, IsPool(p), Indexed(p), NEW hs, AreHashes(hs),
           NEW blocks \in Seq(RealBlock), IsInjective(blocks),
           NEW num_cached \in Nat, NEW num_full \in Int
    PROVE  SameCounts(cache_full_blocks(p, hs, blocks, num_cached, num_full), p)
<1> USE DEF AreHashes
<1> SUFFICES LET q == cache_full_blocks(p, hs, blocks, num_cached, num_full)
             IN  IsPool(q) /\ Indexed(q) /\ q.free = p.free /\ q.ref_cnt = p.ref_cnt
  BY DEF SameCounts
<1> DEFINE q == cache_full_blocks(p, hs, blocks, num_cached, num_full)
           last == IF num_full <= Len(blocks) THEN num_full ELSE Len(blocks)
           new == {i \in (num_cached + 1) .. last : blocks[i] # NullBlock}
           added == {hs[i] : i \in new}
           block_of == [h \in added |-> blocks[CHOOSE i \in new : hs[i] = h]]
           cached == insert(p.cached, block_of)
           block_hash == [b \in Block |-> IF \E i \in new : blocks[i] = b
                                          THEN hs[CHOOSE i \in new : blocks[i] = b]
                                          ELSE p.block_hash[b]]
           inserted == [p EXCEPT !.cached = insert(@, block_of),
                                 !.block_hash = [b \in Block |->
                                    IF \E i \in new : blocks[i] = b
                                    THEN hs[CHOOSE i \in new : blocks[i] = b] ELSE @[b]]]
<1>1. q = IF num_cached >= num_full THEN p
          ELSE IF Len(hs) < num_full THEN Fail(p, "cache_full_blocks: block_hashes")
          ELSE IF \E i \in new : p.block_hash[blocks[i]] # NoHash
               THEN Fail(p, "cache_full_blocks: block_hash is not None")
          ELSE inserted
  BY DEF cache_full_blocks
<1>2. \A e : /\ IsPool(Fail(p, e)) /\ Indexed(Fail(p, e))
             /\ Fail(p, e).free = p.free /\ Fail(p, e).ref_cnt = p.ref_cnt
  BY FailFacts
<1> HIDE DEF q
<1>3. CASE num_cached < num_full /\ num_full <= Len(hs)
           /\ \A i \in new : p.block_hash[blocks[i]] = NoHash
  <2>1. q = inserted
    <3>1. /\ ~(num_cached >= num_full) /\ ~(Len(hs) < num_full)
          /\ ~\E i \in new : p.block_hash[blocks[i]] # NoHash
      BY <1>3
    <3> HIDE DEF inserted, new
    <3> QED BY <1>1, <3>1, Zenon
  <2>2. Len(blocks) \in Nat /\ DOMAIN blocks = 1 .. Len(blocks)
    OBVIOUS
  <2>3. \A i \in new : i \in 1 .. Len(blocks) /\ i \in 1 .. Len(hs)
    BY <1>3, <2>2
  <2> HIDE DEF new
  <2>4. \A i, j \in new : (hs[i] = hs[j] => i = j) /\ (blocks[i] = blocks[j] => i = j)
    BY <2>2, <2>3 DEF IsInjective
  <2>5. \A i \in new : hs[i] # NoHash /\ blocks[i] \in RealBlock /\ blocks[i] \in Block
    BY <2>3 DEF RealBlock
  <2>6. \A i \in new : block_of[hs[i]] = blocks[i]
    <3> SUFFICES ASSUME NEW i \in new PROVE block_of[hs[i]] = blocks[i]
      OBVIOUS
    <3>1. hs[i] \in added
      OBVIOUS
    <3>2. (CHOOSE j \in new : hs[j] = hs[i]) = i
      BY <2>4
    <3> QED BY <3>1, <3>2
  <2>7. DOMAIN block_of = added
    OBVIOUS
  <2> HIDE DEF block_of
  <2>8. /\ DOMAIN q = DOMAIN p /\ q.free = p.free /\ q.ref_cnt = p.ref_cnt
        /\ q.cached = cached /\ q.block_hash = block_hash
    BY <2>1 DEF IsPool
  <2>9. \A i \in new : q.block_hash[blocks[i]] = hs[i]
    <3> SUFFICES ASSUME NEW i \in new PROVE q.block_hash[blocks[i]] = hs[i]
      OBVIOUS
    <3>1. (CHOOSE j \in new : blocks[j] = blocks[i]) = i
      BY <2>4
    <3> QED BY <2>5, <2>8, <3>1
  <2>10. \A b \in Block : (\A i \in new : blocks[i] # b) => q.block_hash[b] = p.block_hash[b]
    BY <2>8
  <2>11. /\ DOMAIN q.cached = DOMAIN p.cached \cup added
         /\ \A h \in DOMAIN p.cached : h \notin added => q.cached[h] = p.cached[h]
         /\ \A i \in new : q.cached[hs[i]] =
               IF hs[i] \in DOMAIN p.cached THEN Append(p.cached[hs[i]], blocks[i])
               ELSE <<blocks[i]>>
    BY <2>6, <2>7, <2>8 DEF insert
  <2> HIDE DEF cached, block_hash, inserted
  <2>12. ASSUME NEW i \in new
         PROVE  /\ q.cached[hs[i]] \in Seq(RealBlock) /\ q.cached[hs[i]] # <<>>
                /\ IsInjective(q.cached[hs[i]])
                /\ \A b \in Block : b \in Range(q.cached[hs[i]]) <=>
                                       (b = blocks[i] \/ p.block_hash[b] = hs[i])
    <3>1. blocks[i] \in RealBlock
      BY <2>5
    <3>2. CASE hs[i] \in DOMAIN p.cached
      <4> DEFINE s == p.cached[hs[i]]
      <4>1. s \in Seq(RealBlock) /\ IsInjective(s)
        BY <3>2 DEF IsPool, Indexed
      <4>2. blocks[i] \notin Range(s)
        <5>1. p.block_hash[blocks[i]] # hs[i]
          BY <1>3, <2>5
        <5> QED BY <2>5, <3>2, <5>1 DEF Indexed
      <4>3. \A b \in Block : b \in Range(s) <=> p.block_hash[b] = hs[i]
        BY <3>2 DEF Indexed
      <4>4. q.cached[hs[i]] = Append(s, blocks[i])
        BY <2>11, <3>2
      <4> HIDE DEF s
      <4>5. /\ Append(s, blocks[i]) \in Seq(RealBlock) /\ Append(s, blocks[i]) # <<>>
            /\ IsInjective(Append(s, blocks[i]))
            /\ Range(Append(s, blocks[i])) = Range(s) \cup {blocks[i]}
        BY <3>1, <4>1, <4>2, AppendFacts
      <4> QED BY <4>3, <4>4, <4>5
    <3>3. CASE hs[i] \notin DOMAIN p.cached
      <4>1. q.cached[hs[i]] = <<blocks[i]>>
        BY <2>11, <3>3
      <4>2. /\ <<blocks[i]>> \in Seq(RealBlock) /\ IsInjective(<<blocks[i]>>)
            /\ Range(<<blocks[i]>>) = {blocks[i]} /\ <<blocks[i]>> # <<>>
        BY <3>1, OneFacts
      <4>3. \A b \in Block : p.block_hash[b] # hs[i]
        BY <2>5, <3>3 DEF Indexed
      <4> QED BY <4>1, <4>2, <4>3
    <3> QED BY <3>2, <3>3
  <2>13. IsPool(q)
    <3>1. \A h \in DOMAIN q.cached : q.cached[h] \in Seq(RealBlock)
      BY <2>11, <2>12 DEF IsPool
    <3> QED BY <2>8, <3>1 DEF IsPool
  <2>14. \A h \in DOMAIN q.cached : q.cached[h] # <<>> /\ IsInjective(q.cached[h])
    BY <2>11, <2>12 DEF Indexed
  <2>15. NoHash \notin DOMAIN q.cached
    BY <2>5, <2>11 DEF Indexed
  <2>16. ASSUME NEW b \in Block, NEW h \in DOMAIN q.cached
         PROVE  b \in Range(q.cached[h]) <=> (q.block_hash[b] = h)
    <3>1. CASE h \in added
      <4>1. PICK i \in new : h = hs[i]
        BY <3>1
      <4>2. b \in Range(q.cached[h]) <=> (b = blocks[i] \/ p.block_hash[b] = h)
        BY <2>12, <4>1
      <4>3. CASE \E j \in new : blocks[j] = b
        <5>1. PICK j \in new : blocks[j] = b
          BY <4>3
        <5>2. q.block_hash[b] = hs[j] /\ p.block_hash[b] = NoHash
          BY <1>3, <2>9, <5>1
        <5> QED BY <2>4, <2>5, <4>1, <4>2, <5>1, <5>2
      <4>4. CASE \A j \in new : blocks[j] # b
        BY <2>10, <4>2, <4>4
      <4> QED BY <4>3, <4>4
    <3>2. CASE h \notin added
      <4>1. h \in DOMAIN p.cached /\ q.cached[h] = p.cached[h]
        BY <2>11, <3>2
      <4>2. b \in Range(q.cached[h]) <=> p.block_hash[b] = h
        BY <4>1 DEF Indexed
      <4>3. h # NoHash
        BY <4>1 DEF Indexed
      <4>4. CASE \E j \in new : blocks[j] = b
        <5>1. PICK j \in new : blocks[j] = b
          BY <4>4
        <5>2. q.block_hash[b] = hs[j] /\ p.block_hash[b] = NoHash
          BY <1>3, <2>9, <5>1
        <5>3. hs[j] # h
          BY <3>2
        <5> QED BY <4>2, <4>3, <5>2, <5>3
      <4>5. CASE \A j \in new : blocks[j] # b
        BY <2>10, <4>2, <4>5
      <4> QED BY <4>4, <4>5
    <3> QED BY <3>1, <3>2
  <2>17. ASSUME NEW b \in Block, q.block_hash[b] # NoHash
         PROVE  q.block_hash[b] \in DOMAIN q.cached
    <3>1. CASE \E j \in new : blocks[j] = b
      BY <2>9, <2>11, <3>1
    <3>2. CASE \A j \in new : blocks[j] # b
      BY <2>10, <2>11, <2>17, <3>2 DEF Indexed
    <3> QED BY <3>1, <3>2
  <2>18. Indexed(q)
    BY <2>14, <2>15, <2>16, <2>17 DEF Indexed
  <2> QED BY <2>8, <2>13, <2>18 DEF q
<1>4. CASE ~(num_cached < num_full /\ num_full <= Len(hs)
             /\ \A i \in new : p.block_hash[blocks[i]] = NoHash)
  <2>1. q = p \/ \E e : q = Fail(p, e)
    <3>1. \/ num_cached >= num_full
          \/ Len(hs) < num_full
          \/ \E i \in new : p.block_hash[blocks[i]] # NoHash
      BY <1>4
    <3> HIDE DEF inserted, new
    <3> QED BY <1>1, <3>1, Zenon
  <2> QED BY <1>2, <2>1 DEF q
<1> QED BY <1>3, <1>4

(***************************************************************************)
(* cache_blocks.                                                           *)
(***************************************************************************)
LEMMA CacheBlocksOK ==
    ASSUME NEW m, ManagerOK(m), NEW r \in Request, NEW T, NEW tokens \in Seq(T),
           NEW num_tokens \in Int
    PROVE  /\ ManagerOK(cache_blocks(m, r, tokens, num_tokens))
           /\ cache_blocks(m, r, tokens, num_tokens).req_to_blocks = m.req_to_blocks
<1> DEFINE num_cached == IF m.num_cached_block[r] = NoEntry THEN 0 ELSE m.num_cached_block[r]
           num_full == num_tokens \div BlockSize
           hs == block_hashes(tokens)
           blocks == m.req_to_blocks[r]
           q == cache_full_blocks(m.pool, hs, blocks, num_cached, num_full)
           n == [m EXCEPT !.pool = cache_full_blocks(@, hs, blocks, num_cached, num_full),
                          !.num_cached_block[r] = num_full]
<1>1. cache_blocks(m, r, tokens, num_tokens) = IF num_cached >= num_full THEN m ELSE n
  BY DEF cache_blocks
<1>2. IsManager(m) /\ IsPool(m.pool) /\ Indexed(m.pool)
  BY DEF ManagerOK, IsManager
<1>3. num_cached \in Nat /\ num_full \in Int
  BY <1>2, SizesAssumption DEF IsManager, NoEntry
<1>4. blocks \in Seq(RealBlock) /\ IsInjective(blocks)
  BY DEF ManagerOK, IsManager, Accounted
<1>5. AreHashes(hs)
  BY HashFacts DEF AreHashes
<1> HIDE DEF num_cached, num_full, hs, blocks
<1>6. IsPool(q) /\ Indexed(q) /\ q.free = m.pool.free /\ q.ref_cnt = m.pool.ref_cnt
  <2>1. SameCounts(cache_full_blocks(m.pool, hs, blocks, num_cached, num_full), m.pool)
    BY <1>2, <1>3, <1>4, <1>5, CacheFullFacts
  <2> QED BY <2>1 DEF SameCounts
<1>7. /\ DOMAIN n = DOMAIN m /\ n.pool = q /\ n.req_to_blocks = m.req_to_blocks
      /\ n.num_cached_block = [m.num_cached_block EXCEPT ![r] = num_full]
  BY <1>2 DEF IsManager
<1> HIDE DEF q, n
<1>8. CASE num_cached >= num_full
  BY <1>1, <1>8
<1>9. CASE ~(num_cached >= num_full)
  <2>1. num_full \in Nat
    BY <1>3, <1>9
  <2>2. IsManager(n)
    BY <1>2, <1>6, <1>7, <2>1 DEF IsManager
  <2>3. ManagerOK(n)
    BY <1>6, <1>7, <2>2, PoolReplaced
  <2> QED BY <1>1, <1>7, <1>9, <2>3
<1> QED BY <1>8, <1>9

(***************************************************************************)
(* The hits are different blocks, as they carry different hashes, and they *)
(* leave the last token to compute.                                        *)
(***************************************************************************)
LEMMA HitFacts ==
    ASSUME NEW p, IsPool(p), Indexed(p), NEW T, NEW tokens \in Seq(T), tokens # <<>>
    PROVE  LET hits == find_longest_cache_hit(p, block_hashes(tokens), Len(tokens) - 1)
           IN  /\ hits \in Seq(RealBlock) /\ IsInjective(hits)
               /\ Len(hits) <= (Len(tokens) - 1) \div BlockSize
               /\ \A i \in 1 .. Len(hits) : p.block_hash[hits[i]] = block_hashes(tokens)[i]
<1> DEFINE hs == block_hashes(tokens)
           max == LesserOf((Len(tokens) - 1) \div BlockSize, Len(hs))
           hit(n) == \A i \in 1 .. n : get_cached_block(p, hs[i]) # NullBlock
           Last(k) == hit(k) /\ (k < max => ~ hit(k + 1))
           n == CHOOSE k \in 0 .. max : Last(k)
           hits == find_longest_cache_hit(p, hs, Len(tokens) - 1)
<1>1. hits = [i \in 1 .. n |-> get_cached_block(p, hs[i])]
  BY DEF find_longest_cache_hit
<1>2. /\ IsInjective(hs) /\ Len(hs) \in Nat /\ DOMAIN hs = 1 .. Len(hs)
  BY HashFacts
<1> HIDE DEF hs
<1>3. /\ max \in Nat /\ max <= Len(hs) /\ max <= (Len(tokens) - 1) \div BlockSize
      /\ (Len(tokens) - 1) \div BlockSize \in Nat
  <2>1. Len(tokens) - 1 \in Nat
    OBVIOUS
  <2>2. (Len(tokens) - 1) \div BlockSize \in Nat
    BY <2>1, SizesAssumption
  <2> QED BY <1>2, <2>2 DEF LesserOf
<1> HIDE DEF max
<1>4. \E k \in 0 .. max : Last(k)
  <2> DEFINE Stop == {k \in 0 .. max : k < max => ~ hit(k + 1)}
  <2> HIDE DEF hit
  <2>1. max \in Stop /\ Stop \subseteq Nat
    BY <1>3
  <2>2. PICK k \in Stop : \A j \in Stop : k <= j
    BY <2>1, LeastNat
  <2>3. CASE k = 0
    <3>1. hit(0)
      BY DEF hit
    <3> QED BY <2>2, <2>3, <3>1
  <2>4. CASE k # 0
    <3>1. k \in 0 .. max /\ k - 1 \in 0 .. max /\ ~(k <= k - 1) /\ k - 1 < max /\ (k - 1) + 1 = k
      BY <1>3, <2>4
    <3>2. k - 1 \notin Stop
      BY <2>2, <3>1
    <3>3. hit(k)
      BY <3>1, <3>2
    <3> QED BY <3>3
  <2> QED BY <2>3, <2>4
<1>5. n \in 0 .. max /\ Last(n)
  <2> HIDE DEF Last
  <2> QED BY <1>4
<1> HIDE DEF n, hits
<1>6. hit(n) /\ n \in Nat /\ n <= Len(hs)
  BY <1>2, <1>3, <1>5
<1>7. ASSUME NEW i \in 1 .. n
      PROVE  /\ hits[i] \in RealBlock /\ i \in DOMAIN hs
             /\ p.block_hash[hits[i]] = hs[i]
  <2>1. i \in DOMAIN hs
    BY <1>2, <1>6
  <2>2. hits[i] = get_cached_block(p, hs[i]) /\ hits[i] # NullBlock
    BY <1>1, <1>6
  <2>3. hs[i] \in DOMAIN p.cached /\ hits[i] = p.cached[hs[i]][1]
    BY <2>2 DEF get_cached_block, get_one_block
  <2>4. p.cached[hs[i]] \in Seq(RealBlock) /\ p.cached[hs[i]] # <<>>
    BY <2>3 DEF IsPool, Indexed
  <2>5. 1 \in DOMAIN p.cached[hs[i]] /\ hits[i] \in RealBlock
    BY <2>3, <2>4
  <2>6. hits[i] \in Range(p.cached[hs[i]])
    BY <2>3, <2>5 DEF Range
  <2>7. hits[i] \in Block
    BY <2>5 DEF RealBlock
  <2> QED BY <2>1, <2>3, <2>5, <2>6, <2>7 DEF Indexed
<1>8. hits \in Seq(RealBlock) /\ DOMAIN hits = 1 .. n
  <2>1. hits \in [1 .. n -> RealBlock]
    BY <1>1, <1>7
  <2> QED BY <1>1, <1>6, <2>1
<1>9. IsInjective(hits)
  BY <1>2, <1>7, <1>8 DEF IsInjective
<1>10. Len(hits) = n /\ n <= (Len(tokens) - 1) \div BlockSize
  <2>1. Len(hits) = n
    BY <1>6, <1>8
  <2> DEFINE x == (Len(tokens) - 1) \div BlockSize
  <2> HIDE DEF x
  <2>2. max <= x /\ x \in Nat
    BY <1>3 DEF x
  <2>3. n <= x
    BY <1>3, <1>5, <2>2
  <2> QED BY <2>1, <2>3 DEF x
<1>11. \A i \in 1 .. Len(hits) : p.block_hash[hits[i]] = hs[i]
  BY <1>7, <1>10
<1> QED BY <1>8, <1>9, <1>10, <1>11 DEF hits, hs

(***************************************************************************)
(* allocate_slots.                                                         *)
(***************************************************************************)
LEMMA AllocateSlotsOK ==
    ASSUME NEW m, ManagerOK(m), NEW r \in Request, NEW T, NEW tokens \in Seq(T),
           NEW computed \in Int, NEW num_new \in Int,
           NEW hits \in Seq(RealBlock), IsInjective(hits),
           hits = <<>> \/ m.req_to_blocks[r] = <<>>
    PROVE  LET n == allocate_slots(m, r, tokens, computed, num_new, hits)
           IN  /\ ManagerOK(n)
               /\ \A s \in Request : s # r => n.req_to_blocks[s] = m.req_to_blocks[s]
<1> DEFINE h == allocate_new_computed_blocks(m, r, hits)
           slots == NeedsSlots(computed, num_new)
           a == allocate_new_blocks(h, r, slots)
           full == LesserOf(LesserOf(computed, MaxModelLen) + num_new, Len(tokens))
           n == allocate_slots(m, r, tokens, computed, num_new, hits)
<1>1. n = cache_blocks(a, r, tokens, full)
  BY DEF allocate_slots
<1>2. slots \in Int /\ full \in Int
  BY SizesAssumption DEF NeedsSlots, LesserOf
<1> HIDE DEF slots, full, h, a, n
<1>3. /\ ManagerOK(h)
      /\ \A s \in Request : s # r => h.req_to_blocks[s] = m.req_to_blocks[s]
  <2>1. CASE hits = <<>>
    BY <2>1 DEF allocate_new_computed_blocks, h
  <2>2. CASE hits # <<>> /\ m.num_cached_block[r] # NoEntry
    <3>1. h = [m EXCEPT !.pool = Fail(@, "allocate_new_computed_blocks: not a new request")]
      BY <2>2 DEF allocate_new_computed_blocks, h
    <3>2. h.req_to_blocks = m.req_to_blocks
      BY <3>1 DEF ManagerOK, IsManager
    <3>3. ManagerOK(h)
      BY <3>1, FailOK, Zenon
    <3> QED BY <3>2, <3>3
  <2>3. CASE hits # <<>> /\ m.num_cached_block[r] = NoEntry
    <3>1. h = [m EXCEPT !.pool = touch(@, hits), !.req_to_blocks[r] = hits,
                        !.num_cached_block[r] = Len(hits)]
      BY <2>3 DEF allocate_new_computed_blocks, h
    <3>2. ManagerOK(h)
      BY <2>3, <3>1, TouchOK, Zenon
    <3>3. h.req_to_blocks = [m.req_to_blocks EXCEPT ![r] = hits]
      BY <3>1 DEF ManagerOK, IsManager
    <3> QED BY <3>2, <3>3 DEF ManagerOK, IsManager
  <2> QED BY <2>1, <2>2, <2>3
<1>4. /\ ManagerOK(a)
      /\ \A s \in Request : s # r => a.req_to_blocks[s] = h.req_to_blocks[s]
  <2> DEFINE k == NumNewBlocks(h, r, slots)
  <2>1. k \in Int
    <3>1. Len(h.req_to_blocks[r]) \in Nat
      BY <1>3 DEF ManagerOK, IsManager
    <3>2. cdiv(slots, BlockSize) \in Int
      BY <1>2, SizesAssumption DEF cdiv
    <3> QED BY <3>1, <3>2 DEF NumNewBlocks
  <2>2. a = IF k <= 0 THEN h
            ELSE [h EXCEPT !.pool = get_new_blocks(@, k),
                           !.req_to_blocks[r] = @ \o NewBlocks(h.pool, k)]
    BY DEF allocate_new_blocks, a
  <2> HIDE DEF k
  <2>3. CASE k <= 0
    BY <1>3, <2>2, <2>3
  <2>4. CASE k > 0
    <3>1. k \in Nat /\ ~(k <= 0)
      BY <2>1, <2>4
    <3>2. a = [h EXCEPT !.pool = get_new_blocks(@, k),
                        !.req_to_blocks[r] = @ \o NewBlocks(h.pool, k)]
      BY <2>2, <3>1
    <3>3. ManagerOK(a)
      BY <1>3, <3>1, <3>2, NewBlocksOK, Zenon
    <3>4. a.req_to_blocks = [h.req_to_blocks EXCEPT
                                ![r] = h.req_to_blocks[r] \o NewBlocks(h.pool, k)]
      BY <1>3, <3>2 DEF ManagerOK, IsManager
    <3>5. h.req_to_blocks \in [Request -> Seq(RealBlock)]
      BY <1>3 DEF ManagerOK, IsManager
    <3> QED BY <3>3, <3>4, <3>5
  <2> QED BY <2>1, <2>3, <2>4
<1>5. ManagerOK(n) /\ n.req_to_blocks = a.req_to_blocks
  BY <1>1, <1>2, <1>4, CacheBlocksOK, Zenon
<1> QED BY <1>3, <1>4, <1>5 DEF n

(***************************************************************************)
(* reset_prefix_cache.                                                     *)
(***************************************************************************)
LEMMA ResetOK ==
    ASSUME NEW m, ManagerOK(m)
    PROVE  /\ ManagerOK(reset_prefix_cache(m))
           /\ reset_prefix_cache(m).req_to_blocks = m.req_to_blocks
<1> DEFINE p == m.pool
           q == ResetPool(p)
           n == reset_prefix_cache(m)
<1>1. IsManager(m) /\ IsPool(p) /\ Indexed(p)
  BY DEF ManagerOK, IsManager
<1>2. IsPool(q) /\ Indexed(q) /\ q.free = p.free /\ q.ref_cnt = p.ref_cnt
  <2>1. CASE CanReset(p)
    <3>1. q = [p EXCEPT !.cached = <<>>, !.block_hash = [b \in Block |-> NoHash]]
      BY <2>1 DEF ResetPool
    <3> HIDE DEF q
    <3>2. /\ DOMAIN q = DOMAIN p /\ q.free = p.free /\ q.ref_cnt = p.ref_cnt
          /\ q.cached = <<>> /\ q.block_hash = [b \in Block |-> NoHash]
      BY <1>1, <3>1 DEF IsPool
    <3>3. DOMAIN q.cached = {} /\ \A b \in Block : q.block_hash[b] = NoHash
      BY <3>2
    <3> QED BY <1>1, <3>2, <3>3 DEF IsPool, Indexed
  <2>2. CASE ~CanReset(p)
    BY <1>1, <2>2 DEF ResetPool
  <2> QED BY <2>1, <2>2
<1>3. /\ DOMAIN n = DOMAIN m /\ n.pool = q /\ n.req_to_blocks = m.req_to_blocks
      /\ n.num_cached_block = m.num_cached_block
  BY <1>1 DEF reset_prefix_cache, IsManager
<1> HIDE DEF q, n
<1>4. IsManager(n)
  BY <1>1, <1>2, <1>3 DEF IsManager
<1>5. ManagerOK(n)
  BY <1>2, <1>3, <1>4, PoolReplaced
<1> QED BY <1>3, <1>5 DEF n

(***************************************************************************)
(* At first no block is held or cached.                                    *)
(***************************************************************************)
LEMMA InitOK == ManagerOK(InitManager)
<1> DEFINE m == InitManager
           p == InitPool
<1>1. /\ DOMAIN m = {"pool", "req_to_blocks", "num_cached_block"} /\ m.pool = p
      /\ m.req_to_blocks = [r \in Request |-> <<>>]
      /\ m.num_cached_block = [r \in Request |-> NoEntry]
  BY DEF InitManager
<1>2. /\ DOMAIN p = {"free", "ref_cnt", "block_hash", "cached", "error"}
      /\ p.free = [i \in 1 .. (NumGpuBlocks - 1) |-> i]
      /\ p.ref_cnt = [b \in Block |-> 0]
      /\ p.block_hash = [b \in Block |-> NoHash]
      /\ p.cached = <<>>
  BY DEF InitPool
<1> HIDE DEF m, p
<1>3. RealBlock = 1 .. (NumGpuBlocks - 1)
  BY NumGpuBlocksAssumption DEF RealBlock, Block, NullBlock
<1>4. p.free \in Seq(RealBlock) /\ Range(p.free) = RealBlock /\ IsInjective(p.free)
  BY <1>2, <1>3, NumGpuBlocksAssumption DEF Range, IsInjective
<1>5. DOMAIN p.cached = {}
  BY <1>2
<1>6. IsPool(p) /\ Indexed(p)
  BY <1>2, <1>4, <1>5 DEF IsPool, Indexed
<1>7. <<>> \in Seq(RealBlock) /\ Range(<<>>) = {} /\ IsInjective(<<>>)
  BY DEF Range, IsInjective
<1>8. IsManager(m)
  BY <1>1, <1>6, <1>7 DEF IsManager
<1>9. \A b : Holders(m, b) = {}
  BY <1>1, <1>7 DEF Holders
<1>10. \A b \in RealBlock : Counted(m, b)
  BY <1>1, <1>2, <1>4, <1>9, FS_EmptySet DEF Counted, RealBlock
<1>11. Accounted(m)
  BY <1>1, <1>4, <1>7, <1>10 DEF Accounted
<1> QED BY <1>1, <1>6, <1>8, <1>11 DEF ManagerOK, m

-----------------------------------------------------------------------------
(***************************************************************************)
(* The prefix cache as chains of blocks, for any number of blocks and      *)
(* requests: the hash of a block is the token prefix that ends in it, the  *)
(* blocks of a request are in the order of its tokens, and a block of a    *)
(* chain is freed, and so evicted, no sooner than the blocks after it.  The *)
(* operations of the KV cache manager preserve this, none of their         *)
(* assertions fails, and it makes every prefix of a cached chain cached.   *)
(***************************************************************************)

-----------------------------------------------------------------------------
(* The order of a sequence *)

\* x comes before y in s.
Earlier(s, x, y) == \E i, j \in DOMAIN s : i < j /\ s[i] = x /\ s[j] = y

\* p, a beginning of k, has the elements of S among the first n of s.
Begins(p, k, s, S, n) ==
    /\ Len(p) <= n /\ Len(p) <= Len(k)
    /\ (\E j \in 1 .. n : s[j] \notin S) => Len(p) < n
    /\ \A i \in 1 .. Len(p) : k[i] = p[i]
    /\ Range(p) = {s[i] : i \in 1 .. n} \cap S

(***************************************************************************)
(* What Keep keeps of the first n elements comes first in what it keeps of *)
(* all.                                                                    *)
(***************************************************************************)
LEMMA KeepPrefix ==
    ASSUME NEW T, NEW s \in Seq(T), NEW S, NEW n \in 0 .. Len(s)
    PROVE  \E p \in Seq(T) : Begins(p, Keep(s, S), s, S, n)
<1> DEFINE m == Len(s)
           G(f, i) == IF i = 0 THEN <<>>
                      ELSE IF s[i] \in S THEN Append(f[i - 1], s[i]) ELSE f[i - 1]
           kept == CHOOSE f : KeptBy(f, s, S, m)
<1>1. m \in Nat /\ DOMAIN s = 1 .. m /\ \A i \in 1 .. m : s[i] \in T
  OBVIOUS
<1>2. Keep(s, S) = kept[m]
  BY DEF Keep, KeptBy
<1>3. kept = [i \in 0 .. m |-> G(kept, i)]
  <2>1. KeptBy(kept, s, S, m)
    BY <1>1, KeepExists
  <2> HIDE DEF kept
  <2> QED BY <2>1 DEF KeptBy
<1> HIDE DEF kept
<1>4. \A i \in 0 .. m : kept[i] = G(kept, i)
  BY <1>3
<1> DEFINE Good(i) ==
              /\ kept[i] \in Seq(T)
              /\ Len(kept[i]) <= i
              /\ (\E j \in 1 .. i : s[j] \notin S) => Len(kept[i]) < i
              /\ \A x : x \in Range(kept[i]) <=> (x \in S /\ \E j \in 1 .. i : s[j] = x)
              /\ i >= n => /\ Len(kept[n]) <= Len(kept[i])
                           /\ \A k \in 1 .. Len(kept[n]) : kept[i][k] = kept[n][k]
           Bad == {i \in 0 .. m : ~Good(i)}
<1>5. Good(0)
  <2>1. kept[0] = <<>>
    BY <1>1, <1>4
  <2>2. Len(kept[0]) = 0 /\ (0 >= n => n = 0)
    BY <2>1
  <2> QED BY <2>1, <2>2 DEF Range
<1>6. ASSUME NEW i \in 1 .. m, Good(i - 1) PROVE Good(i)
  <2> DEFINE q == kept[i - 1]
  <2>1. /\ q \in Seq(T) /\ s[i] \in T /\ Len(q) <= i - 1 /\ Len(q) \in Nat
        /\ \A x : x \in Range(q) <=> (x \in S /\ \E j \in 1 .. (i - 1) : s[j] = x)
    BY <1>1, <1>6
  <2>2. kept[i] = IF s[i] \in S THEN Append(q, s[i]) ELSE q
    BY <1>1, <1>4
  <2>3. 1 .. i = 1 .. (i - 1) \cup {i}
    BY <1>1
  <2>4. \A x : (\E j \in 1 .. i : s[j] = x) <=> (s[i] = x \/ \E j \in 1 .. (i - 1) : s[j] = x)
    BY <2>3
  <2>5. /\ (\E j \in 1 .. (i - 1) : s[j] \notin S) => Len(q) < i - 1
        /\ (\E j \in 1 .. i : s[j] \notin S)
              <=> (s[i] \notin S \/ \E j \in 1 .. (i - 1) : s[j] \notin S)
    BY <1>6, <2>3
  <2>6. i - 1 >= n => /\ Len(kept[n]) <= Len(q)
                      /\ \A k \in 1 .. Len(kept[n]) : q[k] = kept[n][k]
    BY <1>6
  <2> HIDE DEF q
  <2>7. /\ kept[i] \in Seq(T) /\ Len(kept[i]) \in Nat /\ Len(q) <= Len(kept[i])
        /\ \A k \in 1 .. Len(q) : kept[i][k] = q[k]
        /\ Len(kept[i]) = Len(q) + (IF s[i] \in S THEN 1 ELSE 0)
        /\ \A x : x \in Range(kept[i]) <=> (x \in Range(q) \/ (s[i] \in S /\ x = s[i]))
    <3>1. CASE s[i] \in S
      <4>1. kept[i] = Append(q, s[i])
        BY <2>2, <3>1
      <4>2. /\ Append(q, s[i]) \in Seq(T) /\ Len(Append(q, s[i])) = Len(q) + 1
            /\ \A k \in 1 .. Len(q) : Append(q, s[i])[k] = q[k]
        BY <2>1
      <4>3. Range(Append(q, s[i])) = Range(q) \cup {s[i]}
        BY <2>1, AppendFacts
      <4> QED BY <2>1, <3>1, <4>1, <4>2, <4>3
    <3>2. CASE s[i] \notin S
      BY <2>1, <2>2, <3>2
    <3> QED BY <3>1, <3>2
  <2>8. \A x : x \in Range(kept[i]) <=> (x \in S /\ \E j \in 1 .. i : s[j] = x)
    BY <2>1, <2>4, <2>7
  <2>9. Len(kept[i]) <= i
    BY <1>1, <2>1, <2>7
  <2>10. i >= n => /\ Len(kept[n]) <= Len(kept[i])
                   /\ \A k \in 1 .. Len(kept[n]) : kept[i][k] = kept[n][k]
    <3>1. CASE i = n
      <4>1. Len(kept[n]) \in Nat
        BY <2>7, <3>1
      <4> QED BY <3>1, <4>1
    <3>2. CASE i - 1 >= n
      <4>1. Len(kept[n]) <= Len(q) /\ Len(q) <= Len(kept[i])
        BY <2>6, <2>7, <3>2
      <4>2. CASE n = i - 1
        BY <2>7, <4>2 DEF q
      <4>3. ASSUME NEW k \in 1 .. Len(kept[n]), Len(kept[n]) \in Nat PROVE kept[i][k] = kept[n][k]
        <5>1. k \in 1 .. Len(q)
          BY <2>1, <4>1, <4>3
        <5> QED BY <2>6, <2>7, <3>2, <5>1
      <4>4. CASE Len(kept[n]) \notin Nat
        <5>1. kept[n] = G(kept, n)
          BY <1>4
        <5> QED BY <2>1, <2>7, <4>1, <4>4
      <4> QED BY <2>1, <2>7, <4>1, <4>3, <4>4
    <3> QED BY <1>1, <3>1, <3>2
  <2>11. (\E j \in 1 .. i : s[j] \notin S) => Len(kept[i]) < i
    BY <1>1, <2>1, <2>5, <2>7
  <2> QED BY <2>7, <2>8, <2>9, <2>10, <2>11
<1>7. \A i \in 0 .. m : Good(i)
  <2> HIDE DEF Good
  <2> SUFFICES ASSUME Bad # {} PROVE FALSE
    OBVIOUS
  <2>1. PICK i \in Bad : \A j \in Bad : i <= j
    <3>1. Bad \subseteq Nat
      BY <1>1
    <3> QED BY <3>1, LeastNat
  <2>2. i \in 1 .. m /\ i - 1 \in 0 .. m /\ ~(i <= i - 1)
    BY <1>1, <1>5, <2>1
  <2>3. Good(i - 1)
    BY <2>1, <2>2
  <2> QED BY <1>6, <2>1, <2>2, <2>3
<1>8. Good(n) /\ Good(m)
  <2> HIDE DEF Good
  <2>1. n \in 0 .. m /\ m \in 0 .. m
    BY <1>1
  <2> QED BY <1>7, <2>1
<1>9. /\ kept[n] \in Seq(T) /\ Len(kept[n]) <= n
      /\ (\E j \in 1 .. n : s[j] \notin S) => Len(kept[n]) < n
      /\ Len(kept[n]) <= Len(kept[m]) /\ \A i \in 1 .. Len(kept[n]) : kept[m][i] = kept[n][i]
  BY <1>1, <1>8
<1>10. Range(kept[n]) = {s[i] : i \in 1 .. n} \cap S
  BY <1>8
<1> HIDE DEF Good
<1>11. Begins(kept[n], Keep(s, S), s, S, n)
  BY <1>2, <1>9, <1>10 DEF Begins
<1> QED BY <1>9, <1>11, Zenon

(***************************************************************************)
(* Keep keeps the order.                                                   *)
(***************************************************************************)
LEMMA KeepEarlier ==
    ASSUME NEW T, NEW s \in Seq(T), IsInjective(s), NEW S, NEW x \in S, NEW y \in S,
           Earlier(s, x, y)
    PROVE  Earlier(Keep(s, S), x, y)
<1>1. PICK i \in DOMAIN s, j \in DOMAIN s : i < j /\ s[i] = x /\ s[j] = y
  BY DEF Earlier
<1>2. DOMAIN s = 1 .. Len(s) /\ Len(s) \in Nat
  OBVIOUS
<1>3. i \in 0 .. Len(s)
  BY <1>1, <1>2
<1>0. PICK p \in Seq(T) : Begins(p, Keep(s, S), s, S, i)
  BY <1>3, KeepPrefix
<1>4. /\ Len(p) <= i /\ Len(p) <= Len(Keep(s, S))
      /\ \A k \in 1 .. Len(p) : Keep(s, S)[k] = p[k]
      /\ Range(p) = {s[k] : k \in 1 .. i} \cap S
  BY <1>0 DEF Begins
<1>5. Keep(s, S) \in Seq(T) /\ Range(Keep(s, S)) = Range(s) \cap S
  BY KeepFacts
<1>6. x \in Range(p)
  BY <1>1, <1>2, <1>4
<1>7. y \notin Range(p)
  <2>1. \A k \in 1 .. i : s[k] # y
    BY <1>1, <1>2 DEF IsInjective
  <2> QED BY <1>4, <2>1
<1>8. PICK k \in 1 .. Len(p) : p[k] = x
  BY <1>6 DEF Range
<1>9. y \in Range(Keep(s, S))
  BY <1>1, <1>5 DEF Range
<1>10. PICK l \in DOMAIN Keep(s, S) : Keep(s, S)[l] = y
  BY <1>9 DEF Range
<1> DEFINE K == Keep(s, S)
<1> HIDE DEF K
<1>11. K \in Seq(T) /\ DOMAIN K = 1 .. Len(K) /\ Len(K) \in Nat
  BY <1>5 DEF K
<1>12. k \in DOMAIN K /\ K[k] = x
  BY <1>4, <1>8, <1>11 DEF K
<1>13. l \notin 1 .. Len(p)
  <2>1. \A t \in 1 .. Len(p) : K[t] # y
    <3>1. \A t \in 1 .. Len(p) : K[t] = p[t] /\ p[t] \in Range(p)
      BY <1>4 DEF K, Range
    <3> QED BY <1>7, <3>1
  <2> QED BY <1>10, <2>1 DEF K
<1>14. k < l /\ l \in DOMAIN K
  BY <1>8, <1>10, <1>11, <1>13 DEF K
<1> QED BY <1>10, <1>12, <1>14 DEF Earlier, K

(***************************************************************************)
(* Order in a sequence that is extended at the end, or whose beginning is  *)
(* taken away.                                                             *)
(***************************************************************************)
LEMMA ConcatEarlier ==
    ASSUME NEW T, NEW s \in Seq(T), NEW t \in Seq(T), NEW x, NEW y,
           \/ Earlier(s, x, y)
           \/ x \in Range(s) /\ y \in Range(t)
           \/ Earlier(t, x, y)
    PROVE  Earlier(s \o t, x, y)
<1> DEFINE u == s \o t
           m == Len(s)
           n == Len(t)
<1>1. /\ m \in Nat /\ n \in Nat
      /\ DOMAIN u = 1 .. (m + n) /\ DOMAIN s = 1 .. m /\ DOMAIN t = 1 .. n
  OBVIOUS
<1>2. \A i \in 1 .. m : u[i] = s[i]
  BY <1>1
<1>3. \A i \in (m + 1) .. (m + n) : u[i] = t[i - m]
  BY <1>1
<1> HIDE DEF u, m, n
<1>4. \A i \in 1 .. m : i \in DOMAIN u /\ u[i] = s[i]
  BY <1>1, <1>2
<1>5. \A i \in 1 .. n : m + i \in DOMAIN u /\ u[m + i] = t[i] /\ m + i > m
  <2> SUFFICES ASSUME NEW i \in 1 .. n PROVE m + i \in DOMAIN u /\ u[m + i] = t[i] /\ m + i > m
    OBVIOUS
  <2>1. m + i \in (m + 1) .. (m + n) /\ (m + i) - m = i /\ m + i \in 1 .. (m + n)
    BY <1>1
  <2> QED BY <1>1, <1>3, <2>1
<1>6. CASE Earlier(s, x, y)
  <2>1. PICK i \in 1 .. m, j \in 1 .. m : i < j /\ s[i] = x /\ s[j] = y
    BY <1>1, <1>6 DEF Earlier
  <2> QED BY <1>4, <2>1 DEF Earlier, u
<1>7. CASE x \in Range(s) /\ y \in Range(t)
  <2>1. PICK i \in 1 .. m : s[i] = x
    BY <1>1, <1>7 DEF Range
  <2>2. PICK j \in 1 .. n : t[j] = y
    BY <1>1, <1>7 DEF Range
  <2>3. i < m + j
    BY <1>1
  <2> QED BY <1>4, <1>5, <2>1, <2>2, <2>3 DEF Earlier, u
<1>8. CASE Earlier(t, x, y)
  <2>1. PICK i \in 1 .. n, j \in 1 .. n : i < j /\ t[i] = x /\ t[j] = y
    BY <1>1, <1>8 DEF Earlier
  <2>2. m + i < m + j
    BY <1>1, <2>1
  <2> QED BY <1>5, <2>1, <2>2 DEF Earlier, u
<1> QED BY <1>6, <1>7, <1>8

(***************************************************************************)
(* What comes after an element that is left is left too.                   *)
(***************************************************************************)
LEMMA RestEarlier ==
    ASSUME NEW T, NEW s \in Seq(T), IsInjective(s), NEW n \in 0 .. Len(s), NEW x, NEW y,
           Earlier(s, x, y), x \notin Range(SubSeq(s, 1, n))
    PROVE  Earlier(SubSeq(s, n + 1, Len(s)), x, y) /\ y \notin Range(SubSeq(s, 1, n))
<1> DEFINE p == SubSeq(s, 1, n)
           q == SubSeq(s, n + 1, Len(s))
           m == Len(s)
<1>1. m \in Nat /\ n \in Nat /\ n <= m /\ DOMAIN s = 1 .. m /\ \A i \in 1 .. m : s[i] \in T
  OBVIOUS
<1>2. DOMAIN p = 1 .. n /\ \A i \in 1 .. n : p[i] = s[i]
  BY <1>1
<1>3. DOMAIN q = 1 .. (m - n) /\ \A i \in 1 .. (m - n) : q[i] = s[n + i]
  <2> HIDE DEF m
  <2>1. q = SubSeq(s, n + 1, m)
    BY DEF m
  <2> HIDE DEF q
  <2>2. \A i \in (n + 1) .. m : s[i] \in T
    BY <1>1
  <2>3. n + 1 \in Int /\ m \in Int
    BY <1>1
  <2>4. /\ q \in Seq(T) /\ Len(q) = IF n + 1 <= m THEN m - (n + 1) + 1 ELSE 0
        /\ \A i \in 1 .. m - (n + 1) + 1 : q[i] = s[(n + 1) + i - 1]
    BY <2>1, <2>2, <2>3, SubSeqProperties
  <2>5. Len(q) = m - n /\ DOMAIN q = 1 .. Len(q)
    BY <1>1, <2>4
  <2>6. \A i \in 1 .. (m - n) : q[i] = s[n + i]
    <3> SUFFICES ASSUME NEW i \in 1 .. (m - n) PROVE q[i] = s[n + i]
      OBVIOUS
    <3>1. i \in 1 .. m - (n + 1) + 1 /\ (n + 1) + i - 1 = n + i
      BY <1>1
    <3> QED BY <2>4, <3>1
  <2> QED BY <2>5, <2>6
<1> HIDE DEF p, q, m
<1>4. PICK i \in 1 .. m, j \in 1 .. m : i < j /\ s[i] = x /\ s[j] = y
  BY <1>1 DEF Earlier
<1>5. i \notin 1 .. n
  BY <1>2, <1>4 DEF Range, p
<1>6. /\ i - n \in DOMAIN q /\ j - n \in DOMAIN q /\ i - n < j - n
      /\ n + (i - n) = i /\ n + (j - n) = j
  BY <1>1, <1>3, <1>4, <1>5
<1>7. q[i - n] = x /\ q[j - n] = y
  BY <1>3, <1>4, <1>6
<1>8. ASSUME y \in Range(p) PROVE FALSE
  <2>1. PICK k \in 1 .. n : p[k] = y
    BY <1>2, <1>8 DEF Range
  <2>2. k \in 1 .. m /\ s[k] = s[j]
    BY <1>1, <1>2, <1>4, <2>1
  <2>3. k = j
    BY <1>1, <2>2 DEF IsInjective
  <2> QED BY <1>1, <1>4, <1>5, <2>3
<1> QED BY <1>6, <1>7, <1>8 DEF Earlier, p, q, m

(***************************************************************************)
(* A reversed sequence has the later elements earlier.                     *)
(***************************************************************************)
LEMMA ReverseEarlier ==
    ASSUME NEW T, NEW s \in Seq(T), NEW j \in 2 .. Len(s)
    PROVE  Earlier([i \in 1 .. Len(s) |-> s[Len(s) + 1 - i]], s[j], s[j - 1])
<1> DEFINE n == Len(s)
           r == [i \in 1 .. n |-> s[n + 1 - i]]
<1>1. n \in Nat
  OBVIOUS
<1> HIDE DEF n
<1>2. /\ j \in 2 .. n /\ n + 1 - j \in 1 .. n /\ n + 2 - j \in 1 .. n /\ n + 1 - j < n + 2 - j
      /\ n + 1 - (n + 1 - j) = j /\ n + 1 - (n + 2 - j) = j - 1
  BY <1>1 DEF n
<1>3. DOMAIN r = 1 .. n /\ r[n + 1 - j] = s[j] /\ r[n + 2 - j] = s[j - 1]
  BY <1>2
<1>4. Earlier(r, s[j], s[j - 1])
  <2> HIDE DEF r
  <2> QED BY <1>2, <1>3 DEF Earlier
<1> QED BY <1>4 DEF n

(***************************************************************************)
(* A sequence without repetitions is as long as the set of its elements.   *)
(***************************************************************************)
LEMMA InjectiveLen ==
    ASSUME NEW T, NEW s \in Seq(T), IsInjective(s)
    PROVE  IsFiniteSet(Range(s)) /\ Cardinality(Range(s)) = Len(s)
<1> DEFINE n == Len(s)
           R == Range(s)
           f == [i \in 1 .. n |-> s[i]]
<1>1. n \in Nat /\ DOMAIN s = 1 .. n
  OBVIOUS
<1>2. \A i \in 1 .. n : s[i] \in R
  BY <1>1 DEF Range
<1>3. \A x \in R : \E i \in 1 .. n : s[i] = x
  BY <1>1 DEF Range
<1> HIDE DEF R, n
<1>4. f \in [1 .. n -> R] /\ \A i \in 1 .. n : f[i] = s[i]
  BY <1>2
<1>5. f \in Surjection(1 .. n, R)
  BY <1>3, <1>4 DEF Surjection
<1>6. f \in Injection(1 .. n, R)
  BY <1>1, <1>4 DEF Injection, IsInjective
<1>7. IsFiniteSet(1 .. n) /\ Cardinality(1 .. n) = n
  <2>1. 1 \in Int /\ n \in Int
    BY <1>1
  <2> QED BY <1>1, <2>1, FS_Interval
<1>8. IsFiniteSet(R) /\ Cardinality(R) = Cardinality(1 .. n)
  <2>1. f \in Bijection(1 .. n, R)
    BY <1>5, <1>6 DEF Bijection
  <2> HIDE DEF f
  <2>2. ExistsBijection(1 .. n, R)
    BY <2>1 DEF ExistsBijection
  <2> QED BY <1>7, <2>2, FS_Bijection
<1> QED BY <1>7, <1>8 DEF R, n

-----------------------------------------------------------------------------
(* The chain of hashes *)

Prefix(tokens, i) == SubSeq(tokens, 1, i * BlockSize)

\* The hash of the block before the one with hash h.
Parent(h) == SubSeq(h, 1, Len(h) - BlockSize)

IsHash(h) == IsSeq(h) /\ \E k \in Nat \ {0} : Len(h) = k * BlockSize

(***************************************************************************)
(* The beginning of a beginning.                                           *)
(***************************************************************************)
LEMMA SubSeqSubSeq ==
    ASSUME NEW s, IsSeq(s), NEW n \in 0 .. Len(s), NEW k \in 0 .. n
    PROVE  /\ IsSeq(SubSeq(s, 1, n)) /\ Len(SubSeq(s, 1, n)) = n
           /\ SubSeq(SubSeq(s, 1, n), 1, k) = SubSeq(s, 1, k)
<1> DEFINE T == Range(s)
           t == SubSeq(s, 1, n)
           u == SubSeq(t, 1, k)
           v == SubSeq(s, 1, k)
<1>1. s \in Seq(T) /\ Len(s) \in Nat
  BY DEF IsSeq
<1> HIDE DEF T
<1>2. t \in Seq(T) /\ Len(t) = n /\ \A i \in 1 .. n : t[i] = s[i]
  BY <1>1
<1>3. v \in Seq(T) /\ Len(v) = k /\ \A i \in 1 .. k : v[i] = s[i]
  BY <1>1
<1> HIDE DEF t, v
<1>4. u \in Seq(T) /\ Len(u) = k /\ \A i \in 1 .. k : u[i] = t[i]
  BY <1>2
<1> HIDE DEF u
<1>5. u = v
  <2>1. \A i \in 1 .. k : u[i] = v[i]
    BY <1>2, <1>3, <1>4
  <2> QED BY <1>3, <1>4, <2>1
<1>6. IsSeq(t)
  BY <1>2, SeqIs
<1> QED BY <1>2, <1>5, <1>6 DEF t, u, v

(***************************************************************************)
(* The hash of block i of a request, and that its parent is the hash of    *)
(* block i - 1.                                                            *)
(***************************************************************************)
LEMMA PrefixFacts ==
    ASSUME NEW s, IsSeq(s), NEW i \in Nat \ {0}, i * BlockSize <= Len(s)
    PROVE  /\ IsHash(Prefix(s, i)) /\ Len(Prefix(s, i)) = i * BlockSize
           /\ Prefix(s, i) # NoHash
           /\ i = 1 => ~(Len(Prefix(s, i)) > BlockSize)
           /\ i > 1 => Parent(Prefix(s, i)) = Prefix(s, i - 1)
<1> DEFINE n == i * BlockSize
<1>1. BlockSize \in Nat /\ BlockSize > 0 /\ Len(s) \in Nat
  BY SizesAssumption DEF IsSeq
<1>2. n \in Nat /\ n > 0
  BY <1>1
<1>3. n \in 0 .. Len(s)
  <2> HIDE DEF n
  <2>1. n <= Len(s)
    BY DEF n
  <2> QED BY <1>1, <1>2, <2>1
<1>4. IsSeq(SubSeq(s, 1, n)) /\ Len(SubSeq(s, 1, n)) = n
  <2> HIDE DEF n
  <2> QED BY <1>2, <1>3, SubSeqSubSeq
<1>5. Prefix(s, i) = SubSeq(s, 1, n)
  BY DEF Prefix
<1>6. IsHash(Prefix(s, i)) /\ Len(Prefix(s, i)) = i * BlockSize
  BY <1>4, <1>5 DEF IsHash
<1>7. Prefix(s, i) # NoHash
  BY <1>2, <1>4, <1>5 DEF NoHash
<1>8. i = 1 => n = BlockSize
  BY <1>1
<1>9. ASSUME i > 1 PROVE Parent(Prefix(s, i)) = Prefix(s, i - 1)
  <2> DEFINE k == (i - 1) * BlockSize
  <2>1. k = n - BlockSize
    BY <1>1
  <2>2. k \in Nat
    BY <1>1, <1>9
  <2> HIDE DEF n, k
  <2>3. k \in 0 .. n
    BY <1>1, <1>2, <2>1, <2>2
  <2>4. SubSeq(SubSeq(s, 1, n), 1, k) = SubSeq(s, 1, k)
    BY <1>3, <2>3, SubSeqSubSeq
  <2> QED BY <1>4, <1>5, <2>1, <2>4 DEF Parent, Prefix, k
<1> QED BY <1>1, <1>6, <1>7, <1>8, <1>9 DEF n

(***************************************************************************)
(* New tokens leave the hashes of the full blocks alone.                   *)
(***************************************************************************)
LEMMA PrefixAppend ==
    ASSUME NEW s, IsSeq(s), NEW t, IsSeq(t), NEW i \in Nat, i * BlockSize <= Len(s)
    PROVE  Prefix(s \o t, i) = Prefix(s, i)
<1> DEFINE n == i * BlockSize
           T == Range(s) \cup Range(t)
<1>1. s \in Seq(T) /\ t \in Seq(T)
  BY DEF IsSeq, Range
<1>2. BlockSize \in Nat
  BY SizesAssumption
<1>3. n \in Nat /\ n <= Len(s)
  BY <1>2
<1>4. Prefix(s \o t, i) = SubSeq(s \o t, 1, n) /\ Prefix(s, i) = SubSeq(s, 1, n)
  BY DEF Prefix
<1> HIDE DEF n, T
<1>5. SubSeq(s \o t, 1, n) = SubSeq(s, 1, n)
  <2> DEFINE u == s \o t
             x == SubSeq(u, 1, n)
             y == SubSeq(s, 1, n)
  <2>1. /\ u \in Seq(T) /\ Len(u) = Len(s) + Len(t) /\ Len(s) \in Nat /\ Len(t) \in Nat
        /\ \A j \in 1 .. Len(s) : u[j] = s[j]
    BY <1>1
  <2> HIDE DEF u
  <2>2. x \in Seq(T) /\ Len(x) = n /\ \A j \in 1 .. n : x[j] = u[j]
    BY <1>3, <2>1
  <2>3. y \in Seq(T) /\ Len(y) = n /\ \A j \in 1 .. n : y[j] = s[j]
    BY <1>1, <1>3
  <2> HIDE DEF x, y
  <2>4. \A j \in 1 .. n : x[j] = y[j]
    BY <1>3, <2>1, <2>2, <2>3
  <2>5. x = y
    BY <2>2, <2>3, <2>4
  <2> QED BY <2>5 DEF x, y, u
<1> QED BY <1>4, <1>5

(***************************************************************************)
(* A hash of more than one block has a parent.                             *)
(***************************************************************************)
LEMMA ParentIsHash ==
    ASSUME NEW h, IsHash(h), Len(h) > BlockSize
    PROVE  Parent(h) # NoHash
<1> DEFINE n == Len(h)
           k == n - BlockSize
<1>1. IsSeq(h) /\ n \in Nat /\ BlockSize \in Nat
  BY SizesAssumption DEF IsHash, IsSeq
<1>2. k \in 0 .. Len(h) /\ k > 0
  BY <1>1
<1>3. Parent(h) = SubSeq(h, 1, k)
  BY DEF Parent
<1> HIDE DEF n, k
<1>4. Len(SubSeq(h, 1, k)) = k
  <2>1. 0 \in 0 .. k
    BY <1>2
  <2> QED BY <1>1, <1>2, <2>1, SubSeqSubSeq
<1> QED BY <1>2, <1>3, <1>4 DEF NoHash

NumCached(m, r) == IF m.num_cached_block[r] = NoEntry THEN 0 ELSE m.num_cached_block[r]

\* Block i of request r carries the hash of the tokens up to its end once
\* cache_blocks has passed it; before that it has none and is the request's own.
Labelled(m, r, tokens, i) ==
    LET b == m.req_to_blocks[r][i]
    IN IF i <= NumCached(m, r) THEN m.pool.block_hash[b] = Prefix(tokens, i)
       ELSE m.pool.block_hash[b] = NoHash /\ Holders(m, b) = {r}

Tagged(m, r, tokens) ==
    /\ m.num_cached_block[r] # 0
    /\ NumCached(m, r) <= Len(m.req_to_blocks[r])
    /\ NumCached(m, r) * BlockSize <= Len(tokens)
    /\ \A i \in DOMAIN m.req_to_blocks[r] : Labelled(m, r, tokens, i)

\* The block before b in its chain is cached, and it is in use or will be
\* evicted after b.
Backed(p, b) ==
    \E c \in RealBlock : /\ p.block_hash[c] = Parent(p.block_hash[b])
                         /\ c \in Range(p.free) => Earlier(p.free, b, c)

\* The free queue evicts a chain from its end.
Chained(p) ==
    \A b \in Range(p.free) :
        p.block_hash[b] # NoHash => /\ IsHash(p.block_hash[b])
                                    /\ Len(p.block_hash[b]) > BlockSize => Backed(p, b)

\* No assertion of the manager or the pool has failed, and the hashes that the
\* blocks carry are chained; q has the requests' tokens.
Linked(m, q) ==
    /\ m.pool.error = "none"
    /\ \A r \in Request : Tagged(m, r, q[r].tokens)
    /\ Chained(m.pool)

HasTokens(q) == \A r \in Request : IsSeq(q[r].tokens)

(***************************************************************************)
(* The cached blocks of a request end within its tokens.                   *)
(***************************************************************************)
LEMMA TaggedFacts ==
    ASSUME NEW m, ManagerOK(m), NEW r \in Request, NEW s, IsSeq(s), Tagged(m, r, s)
    PROVE  /\ NumCached(m, r) \in 0 .. Len(m.req_to_blocks[r])
           /\ m.req_to_blocks[r] \in Seq(RealBlock)
           /\ DOMAIN m.req_to_blocks[r] = 1 .. Len(m.req_to_blocks[r])
           /\ Len(m.req_to_blocks[r]) \in Nat
           /\ \A i \in 1 .. NumCached(m, r) :
                 /\ i * BlockSize <= Len(s) /\ i \in Nat \ {0}
                 /\ m.pool.block_hash[m.req_to_blocks[r][i]] = Prefix(s, i)
           /\ \A i \in 1 .. Len(m.req_to_blocks[r]) : ~(i <= NumCached(m, r)) =>
                 /\ m.pool.block_hash[m.req_to_blocks[r][i]] = NoHash
                 /\ Holders(m, m.req_to_blocks[r][i]) = {r}
<1> DEFINE n == NumCached(m, r)
           blocks == m.req_to_blocks[r]
<1>1. /\ blocks \in Seq(RealBlock) /\ DOMAIN blocks = 1 .. Len(blocks) /\ Len(blocks) \in Nat
      /\ n \in Nat /\ Len(s) \in Nat
  BY DEF ManagerOK, IsManager, NumCached, NoEntry, IsSeq
<1>2. /\ n <= Len(blocks) /\ n * BlockSize <= Len(s)
      /\ \A i \in 1 .. Len(blocks) : Labelled(m, r, s, i)
  BY <1>1 DEF Tagged
<1> HIDE DEF n, blocks
<1>3. n \in 0 .. Len(blocks)
  BY <1>1, <1>2
<1>4. ASSUME NEW i \in 1 .. n
      PROVE  i * BlockSize <= Len(s) /\ i \in Nat \ {0}
  <2>1. BlockSize \in Nat /\ i \in Nat /\ i <= n /\ i # 0
    BY <1>1, SizesAssumption
  <2>2. i * BlockSize <= n * BlockSize /\ i * BlockSize \in Int /\ n * BlockSize \in Int
    BY <1>1, <2>1
  <2> DEFINE x == i * BlockSize
             y == n * BlockSize
  <2> HIDE DEF x, y
  <2>3. x <= y /\ x \in Int /\ y \in Int /\ y <= Len(s)
    BY <1>2, <2>2 DEF x, y
  <2>4. x <= Len(s)
    BY <1>1, <2>3
  <2> QED BY <2>1, <2>4 DEF x
<1>5. ASSUME NEW i \in 1 .. Len(blocks)
      PROVE  /\ i <= n => m.pool.block_hash[blocks[i]] = Prefix(s, i)
             /\ ~(i <= n) => /\ m.pool.block_hash[blocks[i]] = NoHash
                             /\ Holders(m, blocks[i]) = {r}
  BY <1>2 DEF Labelled, n, blocks
<1>6. \A i \in 1 .. n : i \in 1 .. Len(blocks) /\ i <= n
  BY <1>1, <1>3
<1> QED BY <1>1, <1>3, <1>4, <1>5, <1>6 DEF n, blocks

\* The same as one predicate.
TagsOf(m, r, s) ==
    /\ NumCached(m, r) \in 0 .. Len(m.req_to_blocks[r])
    /\ m.req_to_blocks[r] \in Seq(RealBlock)
    /\ DOMAIN m.req_to_blocks[r] = 1 .. Len(m.req_to_blocks[r])
    /\ Len(m.req_to_blocks[r]) \in Nat
    /\ \A i \in 1 .. NumCached(m, r) : i * BlockSize <= Len(s)
    /\ \A i \in 1 .. NumCached(m, r) : m.pool.block_hash[m.req_to_blocks[r][i]] = Prefix(s, i)
    /\ \A i \in 1 .. Len(m.req_to_blocks[r]) : ~(i <= NumCached(m, r)) =>
          m.pool.block_hash[m.req_to_blocks[r][i]] = NoHash
    /\ \A i \in 1 .. Len(m.req_to_blocks[r]) : ~(i <= NumCached(m, r)) =>
          Holders(m, m.req_to_blocks[r][i]) = {r}

LEMMA TagsFacts ==
    ASSUME NEW m, ManagerOK(m), NEW r \in Request, NEW s, IsSeq(s), Tagged(m, r, s)
    PROVE  TagsOf(m, r, s)
<1> DEFINE n == NumCached(m, r)
           blocks == m.req_to_blocks[r]
           hash(x) == m.pool.block_hash[x]
           end(i) == i * BlockSize
<1>1. /\ n \in 0 .. Len(blocks) /\ blocks \in Seq(RealBlock)
      /\ DOMAIN blocks = 1 .. Len(blocks) /\ Len(blocks) \in Nat
  BY TaggedFacts
<1>2. \A i \in 1 .. n : end(i) <= Len(s)
  BY TaggedFacts
<1>3. \A i \in 1 .. n : hash(blocks[i]) = Prefix(s, i)
  BY TaggedFacts
<1>4. \A i \in 1 .. Len(blocks) : ~(i <= n) => hash(blocks[i]) = NoHash
  BY TaggedFacts
<1>5. \A i \in 1 .. Len(blocks) : ~(i <= n) => Holders(m, blocks[i]) = {r}
  BY TaggedFacts
<1> QED BY <1>1, <1>2, <1>3, <1>4, <1>5 DEF TagsOf

(***************************************************************************)
(* The block before a hashed block of a request is the request's too.      *)
(***************************************************************************)
LEMMA HeldBacked ==
    ASSUME NEW m, ManagerOK(m), NEW r \in Request, NEW s, IsSeq(s), Tagged(m, r, s),
           NEW b \in Range(m.req_to_blocks[r]), m.pool.block_hash[b] # NoHash
    PROVE  /\ IsHash(m.pool.block_hash[b])
           /\ Len(m.pool.block_hash[b]) > BlockSize =>
                \E c \in Range(m.req_to_blocks[r]) :
                    m.pool.block_hash[c] = Parent(m.pool.block_hash[b])
<1> DEFINE n == NumCached(m, r)
           blocks == m.req_to_blocks[r]
           hash(x) == m.pool.block_hash[x]
<1>1. /\ n \in 0 .. Len(blocks) /\ DOMAIN blocks = 1 .. Len(blocks) /\ Len(blocks) \in Nat
      /\ \A i \in 1 .. n : /\ i * BlockSize <= Len(s) /\ i \in Nat \ {0}
                           /\ hash(blocks[i]) = Prefix(s, i)
      /\ \A i \in 1 .. Len(blocks) : ~(i <= n) => hash(blocks[i]) = NoHash
  BY TaggedFacts
<1> HIDE DEF n, hash
<1>2. PICK j \in 1 .. Len(blocks) : blocks[j] = b
  BY <1>1 DEF Range
<1>3. hash(b) # NoHash
  BY DEF hash
<1>4. j \in 1 .. n /\ j \in Nat \ {0} /\ j * BlockSize <= Len(s)
  BY <1>1, <1>2, <1>3
<1>5. hash(b) = Prefix(s, j)
  BY <1>1, <1>2, <1>4
<1>6. /\ IsHash(hash(b)) /\ (j = 1 => ~(Len(hash(b)) > BlockSize))
      /\ j > 1 => Parent(hash(b)) = Prefix(s, j - 1)
  BY <1>4, <1>5, PrefixFacts
<1>7. ASSUME Len(hash(b)) > BlockSize
      PROVE  \E c \in Range(blocks) : hash(c) = Parent(hash(b))
  <2>1. j > 1 /\ j - 1 \in 1 .. n /\ j - 1 \in 1 .. Len(blocks)
    BY <1>1, <1>4, <1>6, <1>7
  <2>2. hash(blocks[j - 1]) = Parent(hash(b)) /\ blocks[j - 1] \in Range(blocks)
    BY <1>1, <1>6, <2>1 DEF Range
  <2> QED BY <2>2
<1> QED BY <1>6, <1>7 DEF hash

(***************************************************************************)
(* Of every cached hash, the parent is cached.                             *)
(***************************************************************************)
LEMMA ParentCached ==
    ASSUME NEW m, ManagerOK(m), NEW q, HasTokens(q), Linked(m, q),
           NEW h \in DOMAIN m.pool.cached
    PROVE  IsHash(h) /\ (Len(h) > BlockSize => Parent(h) \in DOMAIN m.pool.cached)
<1> DEFINE p == m.pool
<1>1. IsPool(p) /\ Indexed(p) /\ Accounted(m)
  BY DEF ManagerOK, IsManager
<1>2. PICK b \in RealBlock : p.block_hash[b] = h
  <2>1. p.cached[h] \in Seq(RealBlock) /\ p.cached[h] # <<>>
    BY <1>1 DEF IsPool, Indexed
  <2>2. 1 \in DOMAIN p.cached[h] /\ p.cached[h][1] \in RealBlock
    BY <2>1
  <2>3. p.cached[h][1] \in Range(p.cached[h])
    BY <2>2 DEF Range
  <2>4. \A b \in RealBlock : b \in Block
    BY DEF RealBlock
  <2> QED BY <1>1, <2>2, <2>3, <2>4 DEF Indexed
<1>3. h # NoHash
  BY <1>1 DEF Indexed
<1>4. \A c \in RealBlock : c \in Block
  BY DEF RealBlock
<1>5. /\ IsHash(h)
      /\ Len(h) > BlockSize => \E c \in RealBlock : p.block_hash[c] = Parent(h)
  <2>1. CASE b \in Range(p.free)
    BY <1>2, <1>3, <2>1 DEF Linked, Chained, Backed
  <2>2. CASE b \notin Range(p.free)
    <3>1. Holders(m, b) # {}
      BY <1>1, <1>2, <2>2 DEF Accounted, Counted
    <3>2. PICK r \in Request : b \in Range(m.req_to_blocks[r])
      BY <3>1 DEF Holders
    <3>3. Tagged(m, r, q[r].tokens) /\ IsSeq(q[r].tokens)
      BY DEF Linked, HasTokens
    <3>4. /\ IsHash(h)
          /\ Len(h) > BlockSize =>
               \E c \in Range(m.req_to_blocks[r]) : p.block_hash[c] = Parent(h)
      BY <1>2, <1>3, <3>2, <3>3, HeldBacked
    <3>5. Range(m.req_to_blocks[r]) \subseteq RealBlock
      BY DEF ManagerOK, IsManager, Range
    <3> QED BY <3>4, <3>5
  <2> QED BY <2>1, <2>2
<1>6. ASSUME Len(h) > BlockSize PROVE Parent(h) \in DOMAIN p.cached
  <2>1. PICK c \in RealBlock : p.block_hash[c] = Parent(h)
    BY <1>5, <1>6
  <2>2. Parent(h) # NoHash
    BY <1>5, <1>6, ParentIsHash
  <2> QED BY <1>1, <1>4, <2>1, <2>2 DEF Indexed
<1> QED BY <1>5, <1>6

\* Whenever a block is cached, so is every block before it in its chain.
Closed(p) ==
    \A h \in DOMAIN p.cached :
        \A k \in 1 .. ((Len(h) \div BlockSize) - 1) : SubSeq(h, 1, k * BlockSize) \in DOMAIN p.cached

(***************************************************************************)
(* Hence every prefix of a cached hash is cached.                          *)
(***************************************************************************)
LEMMA LinkedClosed ==
    ASSUME NEW m, ManagerOK(m), NEW q, HasTokens(q), Linked(m, q)
    PROVE  Closed(m.pool)
<1> DEFINE C == DOMAIN m.pool.cached
<1> SUFFICES ASSUME NEW h \in C, NEW k0 \in 1 .. ((Len(h) \div BlockSize) - 1),
                    Prefix(h, k0) \notin C
             PROVE  FALSE
  BY DEF Closed, Prefix
<1>1. \A g \in C : IsHash(g) /\ (Len(g) > BlockSize => Parent(g) \in C)
  BY ParentCached
<1> HIDE DEF C
<1>2. BlockSize \in Nat /\ BlockSize > 0 /\ IsSeq(h) /\ Len(h) \in Nat
  BY <1>1, SizesAssumption DEF IsHash, IsSeq
<1>3. PICK n \in Nat \ {0} : Len(h) = n * BlockSize
  BY <1>1 DEF IsHash
<1>4. Len(h) \div BlockSize = n
  BY <1>2, <1>3
<1>5. k0 \in 1 .. (n - 1)
  BY <1>4
<1> DEFINE Bad == {j \in 1 .. (n - 1) : Prefix(h, n - j) \notin C}
<1>6. n - k0 \in Bad
  <2>1. n - k0 \in 1 .. (n - 1) /\ n - (n - k0) = k0
    BY <1>5
  <2> QED BY <2>1
<1>7. PICK j \in Bad : \A i \in Bad : j <= i
  <2>1. Bad \in SUBSET Nat
    OBVIOUS
  <2> HIDE DEF Bad
  <2> QED BY <1>6, <2>1, LeastNat
<1> DEFINE k == n - j
<1>8. /\ j \in 1 .. (n - 1) /\ k \in 1 .. (n - 1) /\ Prefix(h, k) \notin C
      /\ k + 1 \in Nat \ {0} /\ k + 1 <= n /\ k + 1 > 1 /\ (k + 1) - 1 = k
  BY <1>7
<1>9. (k + 1) * BlockSize <= Len(h)
  <2> DEFINE l == k + 1
  <2>1. l \in Nat /\ l <= n
    BY <1>8
  <2> HIDE DEF l, k
  <2>2. l * BlockSize <= n * BlockSize
    BY <1>2, <2>1
  <2> QED BY <1>3, <2>2 DEF l
<1>10. Prefix(h, k + 1) \in C
  <2>1. CASE j = 1
    <3>1. k + 1 = n
      BY <1>8, <2>1
    <3>2. Prefix(h, n) = SubSeq(h, 1, Len(h))
      BY <1>3 DEF Prefix
    <3>3. SubSeq(h, 1, Len(h)) = h
      <4>1. h \in Seq(Range(h))
        BY <1>2 DEF IsSeq
      <4> QED BY <4>1
    <3> QED BY <3>1, <3>2, <3>3
  <2>2. CASE j # 1
    <3>1. j - 1 \in 1 .. (n - 1) /\ n - (j - 1) = k + 1 /\ ~(j <= j - 1)
      BY <1>8, <2>2
    <3>2. j - 1 \notin Bad
      BY <1>7, <3>1
    <3>3. Prefix(h, n - (j - 1)) \in C
      BY <3>1, <3>2
    <3> QED BY <3>1, <3>3
  <2> QED BY <2>1, <2>2
<1> HIDE DEF k
<1>11. /\ Len(Prefix(h, k + 1)) = (k + 1) * BlockSize
       /\ Parent(Prefix(h, k + 1)) = Prefix(h, (k + 1) - 1)
  BY <1>2, <1>8, <1>9, PrefixFacts
<1>12. Len(Prefix(h, k + 1)) > BlockSize
  <2>1. k \in Nat /\ k >= 1
    BY <1>8
  <2>2. (k + 1) * BlockSize > BlockSize
    BY <1>2, <2>1
  <2> QED BY <1>11, <2>2
<1> QED BY <1>1, <1>8, <1>10, <1>11, <1>12

-----------------------------------------------------------------------------
(* What the operations do to the chains *)

\* The requests of p have the tokens of those of q, but for r.
SameTokens(q, p, r) == HasTokens(p) /\ \A s \in Request : s # r => p[s].tokens = q[s].tokens

Reversed(s) == [i \in 1 .. Len(s) |-> s[Len(s) + 1 - i]]

\* Manager n is what is left of m when r has given back its blocks, the last
\* first: the free queue gets some of them at its end.
GivenBack(n, m, r) ==
    /\ n.pool.error = m.pool.error /\ n.pool.block_hash = m.pool.block_hash
    /\ n.num_cached_block = [m.num_cached_block EXCEPT ![r] = NoEntry]
    /\ \E Z : n.pool.free = m.pool.free \o Keep(Reversed(m.req_to_blocks[r]), Z)

(***************************************************************************)
(* What free leaves.                                                       *)
(***************************************************************************)
LEMMA FreeFacts ==
    ASSUME NEW m, ManagerOK(m), NEW r \in Request
    PROVE  GivenBack(free(m, r), m, r)
<1> DEFINE blocks == m.req_to_blocks[r]
           reversed == [i \in 1 .. Len(blocks) |-> blocks[Len(blocks) + 1 - i]]
           n == free(m, r)
           p == free_blocks(m.pool, reversed)
           ref_cnt == [b \in Block |-> m.pool.ref_cnt[b] - Occurrences(reversed, b)]
           Z == {b \in Block : ref_cnt[b] = 0 /\ b # NullBlock}
<1>1. /\ DOMAIN m = {"pool", "req_to_blocks", "num_cached_block"}
      /\ DOMAIN m.pool = {"free", "ref_cnt", "block_hash", "cached", "error"}
  BY DEF ManagerOK, IsManager, IsPool
<1>2. n = [m EXCEPT !.pool = free_blocks(@, reversed),
                    !.req_to_blocks[r] = <<>>,
                    !.num_cached_block[r] = NoEntry]
  BY DEF free
<1> HIDE DEF n
<1>3. /\ n.pool = p
      /\ n.num_cached_block = [m.num_cached_block EXCEPT ![r] = NoEntry]
  BY <1>1, <1>2
<1>4. p = [m.pool EXCEPT !.ref_cnt = ref_cnt, !.free = @ \o Keep(reversed, Z)]
  BY DEF free_blocks
<1> HIDE DEF reversed, p, ref_cnt, Z
<1>5. /\ p.free = m.pool.free \o Keep(reversed, Z) /\ p.error = m.pool.error
      /\ p.block_hash = m.pool.block_hash
  BY <1>1, <1>4
<1>6. \E z : n.pool.free = m.pool.free \o Keep(reversed, z)
  BY <1>3, <1>5
<1>7. reversed = Reversed(m.req_to_blocks[r])
  BY DEF Reversed, reversed
<1> QED BY <1>3, <1>5, <1>6, <1>7 DEF n, GivenBack

(***************************************************************************)
(* free puts the tail blocks of a chain into the free queue before the     *)
(* blocks they extend: whatever is evicted first, the chains stay closed.  *)
(***************************************************************************)
LEMMA FreeLinked ==
    ASSUME NEW m, ManagerOK(m), NEW q, HasTokens(q), Linked(m, q), NEW r \in Request,
           NEW p, SameTokens(q, p, r)
    PROVE  Linked(free(m, r), p)
<1> DEFINE n == free(m, r)
           blocks == m.req_to_blocks[r]
           rev == [i \in 1 .. Len(blocks) |-> blocks[Len(blocks) + 1 - i]]
           hash == m.pool.block_hash
           old == m.pool.free
<1>1. /\ n.pool.error = m.pool.error /\ n.pool.block_hash = hash
      /\ n.num_cached_block = [m.num_cached_block EXCEPT ![r] = NoEntry]
      /\ \E Z : n.pool.free = old \o Keep(rev, Z)
  <2>1. GivenBack(n, m, r)
    BY FreeFacts
  <2> QED BY <2>1 DEF GivenBack, Reversed
<1>2. ManagerOK(n) /\ n.req_to_blocks = [m.req_to_blocks EXCEPT ![r] = <<>>]
  BY FreeOK
<1>3. /\ m.req_to_blocks \in [Request -> Seq(RealBlock)] /\ old \in Seq(RealBlock)
      /\ DOMAIN m.num_cached_block = Request
      /\ \A s \in Request : IsInjective(m.req_to_blocks[s])
      /\ \A b \in RealBlock : b \in Range(old) <=> Holders(m, b) = {}
      /\ IsInjective(old)
  BY DEF ManagerOK, IsManager, IsPool, Accounted, Counted
<1> HIDE DEF n
<1>4. PICK Z : n.pool.free = old \o Keep(rev, Z)
  BY <1>1
<1> DEFINE back == Keep(rev, Z)
<1>5. blocks \in Seq(RealBlock) /\ IsInjective(blocks) /\ Len(blocks) \in Nat
      /\ DOMAIN blocks = 1 .. Len(blocks)
  BY <1>3
<1>6. rev \in Seq(RealBlock) /\ Range(rev) = Range(blocks) /\ IsInjective(rev)
  <2> HIDE DEF blocks
  <2> QED BY <1>5, ReverseFacts
<1>7. \A j \in 2 .. Len(blocks) : Earlier(rev, blocks[j], blocks[j - 1])
  <2> HIDE DEF blocks
  <2> QED BY <1>5, ReverseEarlier
<1> HIDE DEF rev, blocks
<1>8. back \in Seq(RealBlock) /\ Range(back) = Range(blocks) \cap Z
  BY <1>6, KeepFacts
<1>9. n.pool.free = old \o back
  BY <1>4
<1> HIDE DEF back, hash, old
<1>10. Range(n.pool.free) = Range(old) \cup Range(back)
  BY <1>3, <1>8, <1>9, ConcatFacts
<1>11. /\ Tagged(m, r, q[r].tokens) /\ IsSeq(q[r].tokens) /\ m.pool.error = "none"
       /\ Chained(m.pool)
  BY DEF Linked, HasTokens
<1>12. ASSUME NEW s \in Request PROVE Tagged(n, s, p[s].tokens)
  <2>1. CASE s = r
    <3>1. n.num_cached_block[r] = NoEntry /\ n.req_to_blocks[r] = <<>>
      BY <1>1, <1>2, <1>3
    <3>2. NumCached(n, r) = 0 /\ NoEntry # 0 /\ 0 * BlockSize = 0 /\ Len(p[r].tokens) \in Nat
      BY <3>1, SizesAssumption DEF NumCached, NoEntry, SameTokens, HasTokens, IsSeq
    <3>3. Len(<<>>) = 0 /\ DOMAIN <<>> = {}
      OBVIOUS
    <3>4. 0 <= Len(p[r].tokens) /\ 0 <= 0
      BY <3>2
    <3> QED BY <2>1, <3>1, <3>2, <3>3, <3>4 DEF Tagged
  <2>2. CASE s # r
    <3>1. /\ n.num_cached_block[s] = m.num_cached_block[s]
          /\ n.req_to_blocks[s] = m.req_to_blocks[s] /\ p[s].tokens = q[s].tokens
      BY <1>1, <1>2, <1>3, <2>2 DEF SameTokens
    <3>2. NumCached(n, s) = NumCached(m, s)
      BY <3>1 DEF NumCached
    <3>3. Tagged(m, s, q[s].tokens)
      BY DEF Linked
    <3>4. ASSUME NEW i \in DOMAIN m.req_to_blocks[s]
          PROVE  Labelled(n, s, p[s].tokens, i)
      <4> DEFINE b == m.req_to_blocks[s][i]
      <4>1. Labelled(m, s, q[s].tokens, i)
        BY <3>3 DEF Tagged
      <4>2. Holders(m, b) = {s} => Holders(n, b) = {s}
        <5>1. b \in Range(n.req_to_blocks[s])
          BY <3>1 DEF Range
        <5>2. \A t \in Request : b \in Range(n.req_to_blocks[t]) => b \in Range(m.req_to_blocks[t])
          <6>1. Range(<<>>) = {}
            BY DEF Range
          <6>2. \A t \in Request : n.req_to_blocks[t] = IF t = r THEN <<>> ELSE m.req_to_blocks[t]
            BY <1>2, <1>3
          <6> QED BY <6>1, <6>2
        <5> QED BY <5>1, <5>2 DEF Holders
      <4> QED BY <1>1, <3>1, <3>2, <4>1, <4>2 DEF Labelled, hash
    <3> QED BY <3>1, <3>2, <3>3, <3>4 DEF Tagged
  <2> QED BY <2>1, <2>2
<1>13. ASSUME NEW b \in Range(n.pool.free), n.pool.block_hash[b] # NoHash
       PROVE  /\ IsHash(n.pool.block_hash[b])
              /\ Len(n.pool.block_hash[b]) > BlockSize => Backed(n.pool, b)
  <2>1. hash[b] # NoHash /\ n.pool.block_hash[b] = hash[b]
    BY <1>1, <1>13
  <2>2. CASE b \in Range(old)
    <3>1. /\ IsHash(hash[b])
          /\ Len(hash[b]) > BlockSize => Backed(m.pool, b)
      BY <1>11, <2>1, <2>2 DEF Chained, hash, old
    <3>2. ASSUME Len(hash[b]) > BlockSize PROVE Backed(n.pool, b)
      <4>1. PICK c \in RealBlock : /\ hash[c] = Parent(hash[b])
                                   /\ c \in Range(old) => Earlier(old, b, c)
        BY <3>1, <3>2 DEF Backed, hash, old
      <4>2. c \in Range(n.pool.free) => Earlier(n.pool.free, b, c)
        BY <1>3, <1>8, <1>9, <1>10, <2>2, <4>1, ConcatEarlier
      <4> QED BY <1>1, <4>1, <4>2 DEF Backed
    <3> QED BY <2>1, <3>1, <3>2
  <2>3. CASE b \in Range(back)
    <3>1. b \in Range(blocks)
      BY <1>8, <2>3
    <3> DEFINE k == NumCached(m, r)
               s == q[r].tokens
    <3>2. /\ k \in 0 .. Len(blocks)
          /\ \A i \in 1 .. k : /\ i * BlockSize <= Len(s) /\ i \in Nat \ {0}
                               /\ hash[blocks[i]] = Prefix(s, i)
          /\ \A i \in 1 .. Len(blocks) : ~(i <= k) => hash[blocks[i]] = NoHash
      BY <1>11, TaggedFacts DEF hash, blocks
    <3> HIDE DEF k
    <3>3. PICK j \in 1 .. Len(blocks) : blocks[j] = b
      BY <1>5, <3>1 DEF Range
    <3>4. j \in 1 .. k
      BY <1>5, <2>1, <3>2, <3>3
    <3>5. hash[b] = Prefix(s, j) /\ j \in Nat \ {0} /\ j * BlockSize <= Len(s)
      BY <3>2, <3>3, <3>4
    <3>6. /\ IsHash(hash[b]) /\ (j = 1 => ~(Len(hash[b]) > BlockSize))
          /\ j > 1 => Parent(hash[b]) = Prefix(s, j - 1)
      BY <1>11, <3>5, PrefixFacts
    <3>7. ASSUME Len(hash[b]) > BlockSize PROVE Backed(n.pool, b)
      <4> DEFINE c == blocks[j - 1]
      <4>1. j > 1 /\ j - 1 \in 1 .. k /\ j - 1 \in 1 .. Len(blocks) /\ j \in 2 .. Len(blocks)
        BY <1>5, <3>2, <3>4, <3>5, <3>6, <3>7
      <4>2. hash[c] = Parent(hash[b]) /\ c \in RealBlock /\ c \in Range(blocks)
        BY <1>5, <3>2, <3>6, <4>1 DEF Range
      <4>3. c \notin Range(old)
        BY <1>3, <4>2 DEF Holders, blocks
      <4>4. Earlier(rev, b, c)
        BY <1>7, <3>3, <4>1
      <4> HIDE DEF c
      <4>5. ASSUME c \in Range(back) PROVE Earlier(back, b, c)
        <5>1. b \in Z /\ c \in Z
          BY <1>8, <2>3, <4>5
        <5> QED BY <1>6, <4>4, <5>1, KeepEarlier DEF back
      <4>6. c \in Range(n.pool.free) => Earlier(n.pool.free, b, c)
        BY <1>3, <1>8, <1>9, <1>10, <4>3, <4>5, ConcatEarlier
      <4> QED BY <1>1, <4>2, <4>6 DEF Backed
    <3> QED BY <2>1, <3>6, <3>7
  <2> QED BY <1>10, <2>2, <2>3
<1>14. Chained(n.pool)
  BY <1>13 DEF Chained
<1>15. n.pool.error = "none"
  BY <1>1, <1>11
<1> QED BY <1>12, <1>14, <1>15 DEF Linked, n

\* The hits of a request with these tokens.
AreHits(hits, p, tokens) ==
    /\ hits \in Seq(RealBlock) /\ IsInjective(hits)
    /\ Len(hits) * BlockSize <= Len(tokens)
    /\ \A i \in 1 .. Len(hits) : p.block_hash[hits[i]] = Prefix(tokens, i)

Touched(m, r, hits) ==
    [m EXCEPT !.pool = touch(@, hits), !.req_to_blocks[r] = hits,
              !.num_cached_block[r] = Len(hits)]

\* The hits that touch takes out of the free queue.
Evictable(m, hits) ==
    {i \in DOMAIN hits : m.pool.ref_cnt[hits[i]] = 0 /\ hits[i] # NullBlock}

\* Manager n is what is left of m when r has been given the hits.
GivenHits(n, m, r, hits) ==
    /\ n.pool.error = m.pool.error /\ n.pool.block_hash = m.pool.block_hash
    /\ n.req_to_blocks = [m.req_to_blocks EXCEPT ![r] = hits]
    /\ n.num_cached_block = [m.num_cached_block EXCEPT ![r] = Len(hits)]
    /\ \E Z : n.pool.free = Keep(m.pool.free, Z)
    /\ Len(n.pool.free) \in Nat /\ Cardinality(Evictable(m, hits)) \in Nat
    /\ Len(n.pool.free) = Len(m.pool.free) - Cardinality(Evictable(m, hits))

(***************************************************************************)
(* What touch leaves: the hits nobody held are out of the free queue, and  *)
(* they were counted by get_num_blocks_to_allocate.                        *)
(***************************************************************************)
LEMMA TouchFacts ==
    ASSUME NEW m, ManagerOK(m), NEW r \in Request,
           NEW hits \in Seq(RealBlock), IsInjective(hits)
    PROVE  GivenHits(Touched(m, r, hits), m, r, hits)
<1> DEFINE p == m.pool
           q == touch(p, hits)
           n == Touched(m, r, hits)
           revived == {b \in Range(hits) : p.ref_cnt[b] = 0 /\ b # NullBlock}
           evictable == {i \in DOMAIN hits : p.ref_cnt[hits[i]] = 0 /\ hits[i] # NullBlock}
           ref_cnt == [b \in Block |-> p.ref_cnt[b] + Occurrences(hits, b)]
<1>1. IsManager(m) /\ IsPool(p) /\ Accounted(m)
  BY DEF ManagerOK, IsManager
<1>2. Range(hits) \subseteq RealBlock
  BY DEF Range
<1>3. \A b \in RealBlock : p.ref_cnt[b] = 0 => b \in Range(p.free)
  <2>1. ASSUME NEW b \in RealBlock, p.ref_cnt[b] = 0 PROVE b \in Range(p.free)
    <3>1. IsFiniteSet(Holders(m, b)) /\ Cardinality(Holders(m, b)) = 0
      BY <1>1, <2>1 DEF Accounted, Counted
    <3>2. Holders(m, b) = {}
      BY <3>1, FS_EmptySet
    <3> QED BY <1>1, <3>2 DEF Accounted, Counted
  <2> QED BY <2>1
<1>4. revived \subseteq Range(p.free)
  BY <1>2, <1>3
<1>5. q = [p EXCEPT !.free = Keep(@, Block \ revived), !.ref_cnt = ref_cnt]
  BY <1>4 DEF touch
<1>6. n.pool = q /\ n.req_to_blocks = [m.req_to_blocks EXCEPT ![r] = hits]
      /\ n.num_cached_block = [m.num_cached_block EXCEPT ![r] = Len(hits)]
  BY <1>1 DEF IsManager, Touched
<1> HIDE DEF q, n
<1>7. /\ q.free = Keep(p.free, Block \ revived) /\ q.error = p.error
      /\ q.block_hash = p.block_hash
  BY <1>1, <1>5 DEF IsPool
<1>8. p.free \in Seq(RealBlock) /\ IsInjective(p.free) /\ Len(p.free) \in Nat
  BY <1>1 DEF IsPool, Accounted
<1> HIDE DEF p
<1>9. /\ q.free \in Seq(RealBlock) /\ Range(q.free) = Range(p.free) \cap (Block \ revived)
      /\ IsInjective(q.free) /\ Len(q.free) \in Nat
  BY <1>7, <1>8, KeepFacts
<1>10. /\ IsFiniteSet(Range(p.free)) /\ Cardinality(Range(p.free)) = Len(p.free)
       /\ Cardinality(Range(q.free)) = Len(q.free)
  BY <1>8, <1>9, InjectiveLen
<1>11. Range(q.free) = Range(p.free) \ revived
  <2>1. Range(p.free) \subseteq Block
    BY <1>8 DEF Range, RealBlock
  <2> QED BY <1>9, <2>1
<1> HIDE DEF revived
<1>12. Range(p.free) \cap revived = revived
  BY <1>4
<1>13. Cardinality(Range(q.free)) = Cardinality(Range(p.free)) - Cardinality(revived)
  BY <1>10, <1>11, <1>12, FS_Difference
<1>14. IsFiniteSet(evictable) /\ Cardinality(revived) = Cardinality(evictable)
  <2> DEFINE f == [i \in evictable |-> hits[i]]
  <2>1. DOMAIN hits = 1 .. Len(hits) /\ Len(hits) \in Nat
    OBVIOUS
  <2>2. IsFiniteSet(evictable)
    <3>1. IsFiniteSet(1 .. Len(hits))
      BY <2>1, FS_Interval
    <3> QED BY <2>1, <3>1, FS_Subset
  <2>3. \A i \in evictable : i \in DOMAIN hits /\ hits[i] \in revived
    BY DEF revived, Range
  <2>4. \A b \in revived : \E i \in evictable : hits[i] = b
    BY DEF revived, Range
  <2> HIDE DEF evictable
  <2>5. f \in [evictable -> revived] /\ \A i \in evictable : f[i] = hits[i]
    BY <2>3
  <2>6. f \in Injection(evictable, revived)
    BY <2>3, <2>5 DEF Injection, IsInjective
  <2>7. f \in Surjection(evictable, revived)
    BY <2>4, <2>5 DEF Surjection
  <2>8. f \in Bijection(evictable, revived)
    BY <2>6, <2>7 DEF Bijection
  <2> HIDE DEF f
  <2>9. ExistsBijection(evictable, revived)
    BY <2>8 DEF ExistsBijection
  <2> QED BY <2>2, <2>9, FS_Bijection
<1>15. Cardinality(evictable) \in Nat
  BY <1>14, FS_CardinalityType
<1>16. \E Z : n.pool.free = Keep(p.free, Z)
  BY <1>6, <1>7
<1> HIDE DEF evictable
<1>17. /\ n.pool.error = p.error /\ n.pool.block_hash = p.block_hash
       /\ Len(n.pool.free) \in Nat /\ Len(n.pool.free) = Len(p.free) - Cardinality(evictable)
  BY <1>6, <1>7, <1>9, <1>10, <1>13, <1>14
<1>18. evictable = Evictable(m, hits)
  BY DEF evictable, Evictable, p
<1> QED BY <1>6, <1>15, <1>16, <1>17, <1>18 DEF p, n, GivenHits

(***************************************************************************)
(* A request that takes its hits leaves the chains linked: what is left in *)
(* the free queue keeps its order.                                         *)
(***************************************************************************)
LEMMA TouchLinked ==
    ASSUME NEW m, ManagerOK(m), NEW q, HasTokens(q), Linked(m, q), NEW r \in Request,
           m.req_to_blocks[r] = <<>>, NEW hits, hits # <<>>,
           AreHits(hits, m.pool, q[r].tokens)
    PROVE  Linked(Touched(m, r, hits), q)
<1> DEFINE n == Touched(m, r, hits)
           hash == m.pool.block_hash
           old == m.pool.free
<1>1. /\ hits \in Seq(RealBlock) /\ IsInjective(hits) /\ Len(hits) \in Nat /\ Len(hits) # 0
      /\ DOMAIN hits = 1 .. Len(hits)
      /\ Len(hits) * BlockSize <= Len(q[r].tokens)
      /\ \A i \in 1 .. Len(hits) : hash[hits[i]] = Prefix(q[r].tokens, i)
  BY DEF AreHits
<1>2. GivenHits(n, m, r, hits)
  BY <1>1, TouchFacts
<1>3. ManagerOK(n)
  BY <1>1, TouchOK DEF Touched
<1>4. /\ m.req_to_blocks \in [Request -> Seq(RealBlock)] /\ old \in Seq(RealBlock)
      /\ DOMAIN m.num_cached_block = Request /\ IsInjective(old)
  BY DEF ManagerOK, IsManager, IsPool, Accounted
<1> HIDE DEF n
<1>5. /\ n.pool.error = m.pool.error /\ n.pool.block_hash = hash
      /\ n.req_to_blocks = [m.req_to_blocks EXCEPT ![r] = hits]
      /\ n.num_cached_block = [m.num_cached_block EXCEPT ![r] = Len(hits)]
  BY <1>2 DEF GivenHits
<1>6. PICK Z : n.pool.free = Keep(old, Z)
  BY <1>2 DEF GivenHits
<1>7. /\ n.req_to_blocks[r] = hits /\ n.num_cached_block[r] = Len(hits)
      /\ \A s \in Request : s # r => /\ n.req_to_blocks[s] = m.req_to_blocks[s]
                                     /\ n.num_cached_block[s] = m.num_cached_block[s]
  BY <1>4, <1>5
<1> HIDE DEF old, hash
<1>8. ASSUME NEW s \in Request PROVE Tagged(n, s, q[s].tokens)
  <2>1. CASE s = r
    <3>1. NumCached(n, r) = Len(hits)
      BY <1>1, <1>7 DEF NumCached, NoEntry
    <3>2. \A i \in 1 .. Len(hits) : Labelled(n, r, q[r].tokens, i)
      BY <1>1, <1>5, <1>7, <3>1 DEF Labelled
    <3>3. Len(hits) <= Len(hits)
      BY <1>1
    <3> QED BY <1>1, <1>7, <2>1, <3>1, <3>2, <3>3 DEF Tagged
  <2>2. CASE s # r
    <3> DEFINE blocks == m.req_to_blocks[s]
               tokens == q[s].tokens
    <3>1. n.req_to_blocks[s] = blocks /\ NumCached(n, s) = NumCached(m, s)
          /\ n.num_cached_block[s] = m.num_cached_block[s]
      BY <1>7, <2>2 DEF NumCached
    <3>2. Tagged(m, s, tokens)
      BY DEF Linked
    <3>3. ASSUME NEW i \in DOMAIN blocks PROVE Labelled(n, s, tokens, i)
      <4>1. Labelled(m, s, tokens, i)
        BY <3>2 DEF Tagged
      <4>2. CASE i <= NumCached(m, s)
        BY <1>5, <3>1, <4>1, <4>2 DEF Labelled, hash
      <4>3. CASE ~(i <= NumCached(m, s))
        <5> DEFINE b == blocks[i]
        <5>1. hash[b] = NoHash /\ Holders(m, b) = {s}
          BY <4>1, <4>3 DEF Labelled, hash
        <5>2. b \notin Range(hits)
          <6>1. ASSUME NEW j \in 1 .. Len(hits), hits[j] = b PROVE FALSE
            <7>1. j \in Nat \ {0} /\ j * BlockSize <= Len(q[r].tokens)
              <8>1. Len(q[r].tokens) \in Nat
                BY DEF HasTokens, IsSeq
              <8> DEFINE x == j * BlockSize
                         y == Len(hits) * BlockSize
              <8>2. x <= y /\ x \in Int /\ y \in Int
                BY <1>1, SizesAssumption
              <8> HIDE DEF x, y
              <8>3. y <= Len(q[r].tokens)
                BY <1>1 DEF y
              <8>4. x <= Len(q[r].tokens)
                BY <8>1, <8>2, <8>3
              <8> QED BY <1>1, <8>4 DEF x
            <7>2. Prefix(q[r].tokens, j) # NoHash
              BY <7>1, PrefixFacts DEF HasTokens
            <7> QED BY <1>1, <5>1, <6>1, <7>2
          <6> QED BY <1>1, <6>1 DEF Range
        <5>3. Holders(n, b) = {s}
          <6>1. \A t \in Request : b \in Range(n.req_to_blocks[t]) <=> b \in Range(m.req_to_blocks[t])
            <7>1. b \notin Range(m.req_to_blocks[r])
              BY <2>2, <5>1 DEF Holders
            <7> QED BY <1>7, <5>2, <7>1
          <6>2. Holders(n, b) = Holders(m, b)
            BY <6>1 DEF Holders
          <6> QED BY <5>1, <6>2
        <5> QED BY <1>5, <3>1, <4>3, <5>1, <5>3 DEF Labelled
      <4> QED BY <4>2, <4>3
    <3> HIDE DEF blocks, tokens
    <3>4. Tagged(n, s, tokens)
      BY <3>1, <3>2, <3>3 DEF Tagged, blocks
    <3> QED BY <3>4 DEF tokens
  <2> QED BY <2>1, <2>2
<1>9. Range(n.pool.free) = Range(old) \cap Z
  BY <1>4, <1>6, KeepFacts
<1>10. ASSUME NEW b \in Range(n.pool.free), n.pool.block_hash[b] # NoHash
       PROVE  /\ IsHash(n.pool.block_hash[b])
              /\ Len(n.pool.block_hash[b]) > BlockSize => Backed(n.pool, b)
  <2>1. b \in Range(old) /\ b \in Z /\ hash[b] # NoHash
    BY <1>5, <1>9, <1>10
  <2>2. IsHash(hash[b]) /\ (Len(hash[b]) > BlockSize => Backed(m.pool, b))
    BY <2>1 DEF Linked, Chained, hash, old
  <2>3. ASSUME Len(hash[b]) > BlockSize PROVE Backed(n.pool, b)
    <3>1. PICK c \in RealBlock : /\ hash[c] = Parent(hash[b])
                                 /\ c \in Range(old) => Earlier(old, b, c)
      BY <2>2, <2>3 DEF Backed, hash, old
    <3>2. ASSUME c \in Range(n.pool.free) PROVE Earlier(n.pool.free, b, c)
      BY <1>4, <1>6, <1>9, <2>1, <3>1, <3>2, KeepEarlier
    <3> QED BY <1>5, <3>1, <3>2 DEF Backed
  <2> QED BY <1>5, <2>2, <2>3
<1>11. Chained(n.pool)
  BY <1>10 DEF Chained
<1>12. n.pool.error = "none"
  BY <1>5 DEF Linked
<1> QED BY <1>8, <1>11, <1>12 DEF Linked, n

Given(m, r, k) ==
    [m EXCEPT !.pool = get_new_blocks(@, k), !.req_to_blocks[r] = @ \o NewBlocks(m.pool, k)]

\* Manager n is what is left of m when r has been given the first k blocks of
\* the free queue.
GivenNew(n, m, r, k) ==
    LET taken == SubSeq(m.pool.free, 1, k)
    IN  /\ n.pool.error = m.pool.error
        /\ n.pool.free = SubSeq(m.pool.free, k + 1, Len(m.pool.free))
        /\ \A b \in Block : n.pool.block_hash[b] = IF b \in Range(taken) THEN NoHash
                                                   ELSE m.pool.block_hash[b]
        /\ n.req_to_blocks = [m.req_to_blocks EXCEPT ![r] = @ \o taken]
        /\ n.num_cached_block = m.num_cached_block

(***************************************************************************)
(* What get_new_blocks leaves when there are enough blocks: none of its    *)
(* assertions fails, and the blocks it hands out are in the prefix cache   *)
(* no more.                                                                *)
(***************************************************************************)
LEMMA NewBlocksFacts ==
    ASSUME NEW m, ManagerOK(m), NEW r \in Request, NEW k \in Nat, k <= Len(m.pool.free)
    PROVE  GivenNew(Given(m, r, k), m, r, k)
<1> DEFINE p == m.pool
           q == get_new_blocks(p, k)
           n == Given(m, r, k)
           taken == SubSeq(p.free, 1, k)
           new == Range(taken)
           e == EvictBlocks(p, new)
           found == {b \in new : /\ p.block_hash[b] \in DOMAIN p.cached
                                 /\ b \in Range(p.cached[p.block_hash[b]])}
<1>1. IsManager(m) /\ IsPool(p) /\ Indexed(p) /\ Accounted(m)
  BY DEF ManagerOK, IsManager
<1>2. p.free \in Seq(RealBlock) /\ IsInjective(p.free) /\ Len(p.free) \in Nat /\ k \in 0 .. Len(p.free)
  BY <1>1 DEF IsPool, Accounted
<1>3. NewBlocks(p, k) = taken
  BY <1>2 DEF NewBlocks
<1>4. n.pool = q /\ n.req_to_blocks = [m.req_to_blocks EXCEPT ![r] = @ \o taken]
      /\ n.num_cached_block = m.num_cached_block
  BY <1>1, <1>3 DEF IsManager, Given
<1>5. taken \in Seq(RealBlock) /\ new \subseteq Range(p.free)
  BY <1>2, SplitFacts
<1>6. new \subseteq RealBlock
  BY <1>5 DEF Range
<1>7. \A b \in new : p.ref_cnt[b] = 0
  BY <1>1, <1>5, <1>6, FS_EmptySet DEF Accounted, Counted
<1> DEFINE given == [e EXCEPT !.free = SubSeq(@, k + 1, Len(@)),
                              !.ref_cnt = [b \in Block |->
                                             IF b \in new THEN @[b] + 1 ELSE @[b]]]
<1>8. q = IF k > Len(p.free) THEN Fail(p, "get_new_blocks: ValueError")
          ELSE IF \E b \in new : p.ref_cnt[b] # 0
               THEN Fail(p, "get_new_blocks: ref_cnt != 0")
          ELSE given
  BY <1>3 DEF get_new_blocks
<1>9. q = given
  <2> HIDE DEF given, new, q, p
  <2>1. ~(k > Len(p.free))
    BY <1>2
  <2> QED BY <1>7, <1>8, <2>1
<1>10. IsPool(e) /\ e.free = p.free
  BY <1>1, EvictFacts
<1>11. e.error = p.error /\ e.block_hash = [b \in Block |-> IF b \in found THEN NoHash ELSE p.block_hash[b]]
  BY <1>1 DEF EvictBlocks, IsPool
<1> HIDE DEF e, q, n
<1>12. /\ q.free = SubSeq(e.free, k + 1, Len(e.free)) /\ q.error = e.error
       /\ q.block_hash = e.block_hash
  BY <1>9, <1>10 DEF IsPool
<1>13. ASSUME NEW b \in Block
       PROVE  q.block_hash[b] = IF b \in new THEN NoHash ELSE p.block_hash[b]
  <2>1. q.block_hash[b] = IF b \in found THEN NoHash ELSE p.block_hash[b]
    BY <1>11, <1>12
  <2>2. b \in new /\ b \notin found => p.block_hash[b] = NoHash
    BY <1>1 DEF Indexed
  <2> QED BY <2>1, <2>2
<1> HIDE DEF taken, new
<1> QED BY <1>4, <1>10, <1>11, <1>12, <1>13 DEF GivenNew, n, p, new, taken

(***************************************************************************)
(* New blocks leave the chains linked: they come from the head of the free *)
(* queue, so what they were the prefix of is gone before them.             *)
(***************************************************************************)
LEMMA NewBlocksLinked ==
    ASSUME NEW m, ManagerOK(m), NEW q, HasTokens(q), Linked(m, q), NEW r \in Request,
           NEW k \in Nat, k <= Len(m.pool.free)
    PROVE  /\ Linked(Given(m, r, k), q)
           /\ Len(Given(m, r, k).req_to_blocks[r]) = Len(m.req_to_blocks[r]) + k
<1> DEFINE n == Given(m, r, k)
           hash == m.pool.block_hash
           old == m.pool.free
           taken == SubSeq(old, 1, k)
           rest == SubSeq(old, k + 1, Len(old))
           held == m.req_to_blocks[r]
<1>1. GivenNew(n, m, r, k)
  BY NewBlocksFacts
<1>2. ManagerOK(n)
  BY NewBlocksOK DEF Given
<1>3. /\ m.req_to_blocks \in [Request -> Seq(RealBlock)] /\ old \in Seq(RealBlock)
      /\ DOMAIN m.num_cached_block = Request /\ IsInjective(old) /\ k \in 0 .. Len(old)
      /\ \A b \in RealBlock : b \in Range(old) <=> Holders(m, b) = {}
  BY DEF ManagerOK, IsManager, IsPool, Accounted, Counted
<1> HIDE DEF n
<1>4. /\ n.pool.error = m.pool.error /\ n.pool.free = rest
      /\ \A b \in Block : n.pool.block_hash[b] = IF b \in Range(taken) THEN NoHash ELSE hash[b]
      /\ n.req_to_blocks = [m.req_to_blocks EXCEPT ![r] = @ \o taken]
      /\ n.num_cached_block = m.num_cached_block
  BY <1>1 DEF GivenNew
<1>5. /\ taken \in Seq(RealBlock) /\ rest \in Seq(RealBlock) /\ Len(taken) = k
      /\ Range(old) = Range(taken) \cup Range(rest) /\ Range(taken) \cap Range(rest) = {}
  BY <1>3, SplitFacts
<1>6. \A x, y : (Earlier(old, x, y) /\ x \notin Range(taken)) =>
                  (Earlier(rest, x, y) /\ y \notin Range(taken))
  BY <1>3, RestEarlier
<1>7. \A b \in RealBlock : b \in Block
  BY DEF RealBlock
<1> HIDE DEF taken, rest, old, hash
<1>8. held \in Seq(RealBlock) /\ Len(held) \in Nat /\ DOMAIN held = 1 .. Len(held)
  BY <1>3
<1>9. /\ n.req_to_blocks[r] = held \o taken
      /\ \A s \in Request : s # r => n.req_to_blocks[s] = m.req_to_blocks[s]
  BY <1>3, <1>4
<1> HIDE DEF held
<1>10. /\ Len(held \o taken) = Len(held) + k /\ DOMAIN (held \o taken) = 1 .. (Len(held) + k)
       /\ \A i \in 1 .. Len(held) : (held \o taken)[i] = held[i]
       /\ \A i \in (Len(held) + 1) .. (Len(held) + k) : (held \o taken)[i] = taken[i - Len(held)]
       /\ Range(held \o taken) = Range(held) \cup Range(taken)
  <2>1. Range(held \o taken) = Range(held) \cup Range(taken)
    BY <1>5, <1>8, ConcatFacts
  <2> QED BY <1>5, <1>8, <2>1
<1>11. ASSUME NEW s \in Request, NEW b \in Range(m.req_to_blocks[s])
       PROVE  b \in RealBlock /\ b \notin Range(taken) /\ n.pool.block_hash[b] = hash[b]
              /\ Holders(n, b) = Holders(m, b)
  <2>1. b \in RealBlock
    BY <1>3 DEF Range
  <2>2. b \notin Range(old)
    BY <1>3, <2>1 DEF Holders
  <2>3. b \notin Range(taken)
    BY <1>5, <2>2
  <2>4. \A t \in Request : b \in Range(n.req_to_blocks[t]) <=> b \in Range(m.req_to_blocks[t])
    BY <1>9, <1>10, <2>3 DEF held
  <2> QED BY <1>4, <1>7, <2>1, <2>3, <2>4 DEF Holders
<1>12. \A s \in Request : NumCached(n, s) = NumCached(m, s) /\ Tagged(m, s, q[s].tokens)
  BY <1>4 DEF NumCached, Linked
<1>13. ASSUME NEW s \in Request, NEW i \in DOMAIN m.req_to_blocks[s],
              n.req_to_blocks[s][i] = m.req_to_blocks[s][i]
       PROVE  Labelled(n, s, q[s].tokens, i)
  <2>1. Labelled(m, s, q[s].tokens, i)
    BY <1>12 DEF Tagged
  <2>2. m.req_to_blocks[s][i] \in Range(m.req_to_blocks[s])
    BY DEF Range
  <2>3. /\ n.pool.block_hash[m.req_to_blocks[s][i]] = hash[m.req_to_blocks[s][i]]
        /\ Holders(n, m.req_to_blocks[s][i]) = Holders(m, m.req_to_blocks[s][i])
    BY <1>11, <2>2
  <2> QED BY <1>12, <1>13, <2>1, <2>3 DEF Labelled, hash
<1>14. ASSUME NEW s \in Request PROVE Tagged(n, s, q[s].tokens)
  <2>1. CASE s # r
    <3>1. n.req_to_blocks[s] = m.req_to_blocks[s] /\ n.num_cached_block[s] = m.num_cached_block[s]
      BY <1>4, <1>9, <2>1
    <3>2. \A i \in DOMAIN m.req_to_blocks[s] : Labelled(n, s, q[s].tokens, i)
      BY <1>13, <3>1
    <3> QED BY <1>12, <3>1, <3>2 DEF Tagged
  <2>2. CASE s = r
    <3>1. /\ NumCached(m, r) \in 0 .. Len(held)
      BY <1>2, <1>12, TaggedFacts DEF held, HasTokens
    <3>2. ASSUME NEW i \in 1 .. Len(held) PROVE Labelled(n, r, q[r].tokens, i)
      BY <1>8, <1>9, <1>10, <1>13 DEF held
    <3>3. ASSUME NEW i \in (Len(held) + 1) .. (Len(held) + k)
          PROVE  Labelled(n, r, q[r].tokens, i)
      <4> DEFINE b == taken[i - Len(held)]
      <4>1. i - Len(held) \in DOMAIN taken
        BY <1>5, <1>8
      <4>2. b \in RealBlock /\ b \in Range(taken)
        BY <1>5, <4>1 DEF Range
      <4>3. n.req_to_blocks[r][i] = b
        BY <1>9, <1>10
      <4>4. n.pool.block_hash[b] = NoHash
        BY <1>4, <1>7, <4>2
      <4>5. Holders(n, b) = {r}
        <5>1. \A t \in Request : b \notin Range(m.req_to_blocks[t])
          BY <1>11, <4>2
        <5>2. \A t \in Request : b \in Range(n.req_to_blocks[t]) <=> t = r
          BY <1>9, <1>10, <4>2, <5>1
        <5> QED BY <5>2 DEF Holders
      <4>6. ~(i <= NumCached(n, r))
        BY <1>8, <1>12, <3>1
      <4> QED BY <4>3, <4>4, <4>5, <4>6 DEF Labelled
    <3>4. \A i \in DOMAIN n.req_to_blocks[r] : Labelled(n, r, q[r].tokens, i)
      <4>1. \A i \in DOMAIN n.req_to_blocks[r] : \/ i \in 1 .. Len(held)
                                                 \/ i \in (Len(held) + 1) .. (Len(held) + k)
        BY <1>8, <1>9, <1>10
      <4> QED BY <3>2, <3>3, <4>1
    <3>5. NumCached(n, r) <= Len(n.req_to_blocks[r])
      BY <1>8, <1>9, <1>10, <1>12, <3>1
    <3> QED BY <1>4, <1>12, <2>2, <3>4, <3>5 DEF Tagged
  <2> QED BY <2>1, <2>2
<1>15. ASSUME NEW b \in Range(n.pool.free), n.pool.block_hash[b] # NoHash
       PROVE  /\ IsHash(n.pool.block_hash[b])
              /\ Len(n.pool.block_hash[b]) > BlockSize => Backed(n.pool, b)
  <2>1. b \in Range(rest) /\ b \in RealBlock
    BY <1>4, <1>5 DEF Range
  <2>2. b \in Range(old) /\ b \notin Range(taken) /\ n.pool.block_hash[b] = hash[b]
    BY <1>4, <1>5, <1>7, <2>1
  <2>3. IsHash(hash[b]) /\ (Len(hash[b]) > BlockSize => Backed(m.pool, b))
    BY <1>15, <2>2 DEF Linked, Chained, hash, old
  <2>4. ASSUME Len(hash[b]) > BlockSize PROVE Backed(n.pool, b)
    <3>1. PICK c \in RealBlock : /\ hash[c] = Parent(hash[b])
                                 /\ c \in Range(old) => Earlier(old, b, c)
      BY <2>3, <2>4 DEF Backed, hash, old
    <3>2. c \notin Range(taken) /\ (c \in Range(rest) => Earlier(rest, b, c))
      BY <1>5, <1>6, <2>2, <3>1
    <3>3. n.pool.block_hash[c] = hash[c]
      BY <1>4, <1>7, <3>2
    <3> QED BY <1>4, <2>2, <3>1, <3>2, <3>3 DEF Backed
  <2> QED BY <2>2, <2>3, <2>4
<1>16. Chained(n.pool)
  BY <1>15 DEF Chained
<1>17. n.pool.error = "none"
  BY <1>4 DEF Linked
<1>18. Len(n.req_to_blocks[r]) = Len(held) + k
  BY <1>9, <1>10
<1> QED BY <1>14, <1>16, <1>17, <1>18 DEF Linked, n, held

(***************************************************************************)
(* The full blocks of n tokens.                                            *)
(***************************************************************************)
LEMMA FullBlocks ==
    ASSUME NEW n \in Int
    PROVE  /\ n \div BlockSize \in Int
           /\ (n \div BlockSize) * BlockSize <= n
           /\ \A k \in Int : n <= k * BlockSize => n \div BlockSize <= k
           /\ \A k \in Int : n <= k => n \div BlockSize <= k \div BlockSize
<1>1. BlockSize \in Nat /\ BlockSize > 0
  BY SizesAssumption
<1> DEFINE d == n \div BlockSize
<1>2. d \in Int /\ d * BlockSize <= n /\ n < (d + 1) * BlockSize
  BY <1>1
<1> HIDE DEF d
<1>3. ASSUME NEW k \in Int, n <= k * BlockSize PROVE d <= k
  <2> SUFFICES ASSUME ~(d <= k) PROVE FALSE
    OBVIOUS
  <2>1. k + 1 <= d
    BY <1>2
  <2> DEFINE x == k * BlockSize
             y == d * BlockSize
  <2>2. x + BlockSize <= y /\ x \in Int /\ y \in Int
    BY <1>1, <1>2, <2>1
  <2> HIDE DEF x, y
  <2>3. y <= n /\ n <= x
    BY <1>2, <1>3 DEF x, y
  <2> QED BY <1>1, <2>2, <2>3
<1>4. ASSUME NEW k \in Int, n <= k PROVE d <= k \div BlockSize
  <2> DEFINE e == k \div BlockSize
  <2>1. e \in Int /\ k < (e + 1) * BlockSize
    BY <1>1
  <2> HIDE DEF e
  <2> SUFFICES ASSUME ~(d <= e) PROVE FALSE
    BY DEF e
  <2>2. e + 1 <= d
    BY <1>2, <2>1
  <2> DEFINE f == e + 1
             x == f * BlockSize
             y == d * BlockSize
  <2>3. f \in Int /\ f <= d
    BY <2>1, <2>2
  <2>4. k < x
    BY <2>1
  <2> HIDE DEF f
  <2>5. x <= y /\ x \in Int /\ y \in Int
    BY <1>1, <1>2, <2>3
  <2>6. y <= n
    BY <1>2
  <2> HIDE DEF x, y
  <2> QED BY <1>4, <2>4, <2>5, <2>6
<1> QED BY <1>2, <1>3, <1>4 DEF d

\* Manager n is what is left of m when blocks of r are cached up to the one
\* with number full, as far as r has them.
GivenHashes(n, m, r, s, full) ==
    /\ n.pool.error = m.pool.error /\ n.pool.free = m.pool.free
    /\ n.req_to_blocks = m.req_to_blocks
    /\ n.num_cached_block = [m.num_cached_block EXCEPT ![r] = full]
    /\ \A i \in 1 .. Len(m.req_to_blocks[r]) : (~(i <= NumCached(m, r)) /\ i <= full) =>
          n.pool.block_hash[m.req_to_blocks[r][i]] = Prefix(s, i)
    /\ \A b \in Block :
          \/ n.pool.block_hash[b] = m.pool.block_hash[b]
          \/ \E i \in 1 .. Len(m.req_to_blocks[r]) :
                ~(i <= NumCached(m, r)) /\ i <= full /\ m.req_to_blocks[r][i] = b

(***************************************************************************)
(* What cache_blocks leaves, for no more tokens than the request has: none *)
(* of its assertions fails.                                                *)
(***************************************************************************)
LEMMA CacheFacts ==
    ASSUME NEW m, ManagerOK(m), NEW r \in Request, NEW s, IsSeq(s), Tagged(m, r, s),
           NEW num_tokens \in Int, num_tokens <= Len(s)
    PROVE  LET n == cache_blocks(m, r, s, num_tokens)
               full == num_tokens \div BlockSize
           IN  IF NumCached(m, r) >= full THEN n = m ELSE GivenHashes(n, m, r, s, full)
<1> DEFINE n == cache_blocks(m, r, s, num_tokens)
           full == num_tokens \div BlockSize
           num_cached == NumCached(m, r)
           hs == block_hashes(s)
           blocks == m.req_to_blocks[r]
           p == m.pool
           q == cache_full_blocks(p, hs, blocks, num_cached, full)
           last == IF full <= Len(blocks) THEN full ELSE Len(blocks)
           new == {i \in (num_cached + 1) .. last : blocks[i] # NullBlock}
           block_of == [h \in {hs[i] : i \in new} |-> blocks[CHOOSE i \in new : hs[i] = h]]
           inserted == [p EXCEPT !.cached = insert(@, block_of),
                                 !.block_hash = [b \in Block |->
                                    IF \E i \in new : blocks[i] = b
                                    THEN hs[CHOOSE i \in new : blocks[i] = b] ELSE @[b]]]
           block_hash == [b \in Block |-> IF \E i \in new : blocks[i] = b
                                          THEN hs[CHOOSE i \in new : blocks[i] = b]
                                          ELSE p.block_hash[b]]
<1>1. n = IF num_cached >= full THEN m
          ELSE [m EXCEPT !.pool = cache_full_blocks(@, hs, blocks, num_cached, full),
                         !.num_cached_block[r] = full]
  BY DEF cache_blocks, NumCached
<1>2. /\ DOMAIN m = {"pool", "req_to_blocks", "num_cached_block"}
      /\ DOMAIN p = {"free", "ref_cnt", "block_hash", "cached", "error"}
  BY DEF ManagerOK, IsManager, IsPool
<1>3. /\ num_cached \in 0 .. Len(blocks) /\ DOMAIN blocks = 1 .. Len(blocks)
      /\ Len(blocks) \in Nat /\ blocks \in Seq(RealBlock)
      /\ \A i \in 1 .. Len(blocks) : ~(i <= num_cached) => p.block_hash[blocks[i]] = NoHash
  BY TaggedFacts
<1>4. IsInjective(blocks)
  BY DEF ManagerOK, Accounted
<1>5. /\ full \in Int /\ full <= Len(s) \div BlockSize
  <2>1. Len(s) \in Int
    BY DEF IsSeq
  <2> QED BY <2>1, FullBlocks
<1>6. /\ Len(hs) = Len(s) \div BlockSize /\ Len(hs) \in Nat
      /\ \A i \in 1 .. Len(hs) : hs[i] = Prefix(s, i)
  <2>1. s \in Seq(Range(s))
    BY DEF IsSeq
  <2>2. Len(hs) = Len(s) \div BlockSize /\ Len(hs) \in Nat
    BY <2>1, HashFacts
  <2> QED BY <2>2 DEF block_hashes, Prefix
<1> HIDE DEF hs, full, num_cached, blocks
<1>7. CASE num_cached >= full
  BY <1>1, <1>7 DEF full, num_cached
<1>8. CASE ~(num_cached >= full)
  <2>1. /\ \A i \in new : /\ i \in 1 .. Len(blocks) /\ ~(i <= num_cached) /\ i <= full
                          /\ i \in 1 .. Len(hs)
    BY <1>3, <1>5, <1>6, <1>8
  <2>2. \A i \in 1 .. Len(blocks) : (~(i <= num_cached) /\ i <= full) => i \in new
    <3>1. \A i \in 1 .. Len(blocks) : blocks[i] # NullBlock
      BY <1>3 DEF RealBlock
    <3> QED BY <1>3, <1>5, <3>1
  <2>3. q = IF num_cached >= full THEN p
            ELSE IF Len(hs) < full THEN Fail(p, "cache_full_blocks: block_hashes")
            ELSE IF \E i \in new : p.block_hash[blocks[i]] # NoHash
                 THEN Fail(p, "cache_full_blocks: block_hash is not None")
            ELSE inserted
    BY DEF cache_full_blocks
  <2>4. q = inserted
    <3>1. ~(Len(hs) < full) /\ ~\E i \in new : p.block_hash[blocks[i]] # NoHash
      BY <1>3, <1>5, <1>6, <2>1
    <3> HIDE DEF inserted, new
    <3> QED BY <1>8, <2>3, <3>1, Zenon
  <2> HIDE DEF new
  <2>5. q.error = p.error /\ q.free = p.free /\ q.block_hash = block_hash
    <3> HIDE DEF block_of
    <3> QED BY <1>2, <2>4
  <2> HIDE DEF q
  <2>6. n = [m EXCEPT !.pool = cache_full_blocks(@, hs, blocks, num_cached, full),
                      !.num_cached_block[r] = full]
    BY <1>1, <1>8
  <2> HIDE DEF n
  <2>7. /\ n.pool = q /\ n.req_to_blocks = m.req_to_blocks
        /\ n.num_cached_block = [m.num_cached_block EXCEPT ![r] = full]
    BY <1>2, <2>6 DEF q
  <2>8. ASSUME NEW i \in new PROVE block_hash[blocks[i]] = Prefix(s, i)
    <3>1. (CHOOSE j \in new : blocks[j] = blocks[i]) = i
      BY <1>3, <1>4, <2>1 DEF IsInjective
    <3>2. blocks[i] \in Block
      BY <1>3, <2>1 DEF RealBlock
    <3> QED BY <1>6, <2>1, <3>1, <3>2
  <2>9. \A b \in Block : block_hash[b] = p.block_hash[b] \/ \E i \in new : blocks[i] = b
    OBVIOUS
  <2> HIDE DEF block_hash
  <2>10. GivenHashes(n, m, r, s, full)
    BY <2>1, <2>2, <2>5, <2>7, <2>8, <2>9 DEF GivenHashes, blocks, num_cached
  <2> QED BY <1>8, <2>10 DEF n, full, num_cached
<1> QED BY <1>7, <1>8

(***************************************************************************)
(* cache_blocks leaves the chains linked: the block before one that is     *)
(* cached is the request's as well, and nobody else has the new ones.      *)
(***************************************************************************)
LEMMA CacheLinked ==
    ASSUME NEW m, ManagerOK(m), NEW q, HasTokens(q), Linked(m, q), NEW r \in Request,
           NEW num_tokens \in Int, num_tokens <= Len(q[r].tokens),
           num_tokens <= Len(m.req_to_blocks[r]) * BlockSize
    PROVE  Linked(cache_blocks(m, r, q[r].tokens, num_tokens), q)
<1> DEFINE s == q[r].tokens
           n == cache_blocks(m, r, s, num_tokens)
           full == num_tokens \div BlockSize
           blocks == m.req_to_blocks[r]
           hash == m.pool.block_hash
<1>1. IsSeq(s) /\ Tagged(m, r, s)
  BY DEF HasTokens, Linked
<1>2. IF NumCached(m, r) >= full THEN n = m ELSE GivenHashes(n, m, r, s, full)
  BY <1>1, CacheFacts
<1>3. CASE NumCached(m, r) >= full
  BY <1>2, <1>3
<1>4. CASE ~(NumCached(m, r) >= full)
  <2>1. GivenHashes(n, m, r, s, full)
    BY <1>2, <1>4
  <2> HIDE DEF n
  <2>2. /\ NumCached(m, r) \in 0 .. Len(blocks) /\ DOMAIN blocks = 1 .. Len(blocks)
        /\ Len(blocks) \in Nat /\ blocks \in Seq(RealBlock)
        /\ \A i \in 1 .. NumCached(m, r) : hash[blocks[i]] = Prefix(s, i)
        /\ \A i \in 1 .. NumCached(m, r) : i * BlockSize <= Len(s)
        /\ \A i \in 1 .. Len(blocks) : ~(i <= NumCached(m, r)) => hash[blocks[i]] = NoHash
        /\ \A i \in 1 .. Len(blocks) : ~(i <= NumCached(m, r)) => Holders(m, blocks[i]) = {r}
    <3> HIDE DEF s, full
    <3>1. TagsOf(m, r, s)
      BY <1>1, TagsFacts, Zenon
    <3> QED BY <3>1 DEF TagsOf
  <2>3. full \in Int /\ full * BlockSize <= num_tokens /\ full <= Len(blocks)
    <3>1. Len(blocks) \in Int
      BY <2>2
    <3> HIDE DEF blocks
    <3>2. num_tokens <= Len(blocks) * BlockSize
      BY DEF blocks
    <3> QED BY <3>1, <3>2, FullBlocks
  <2> HIDE DEF full
  <2>4. full * BlockSize <= Len(s)
    <3> DEFINE x == full * BlockSize
    <3>1. x \in Int /\ x <= num_tokens /\ Len(s) \in Int
      BY <1>1, <2>3, SizesAssumption DEF IsSeq
    <3> HIDE DEF x
    <3>2. x <= Len(s)
      BY <3>1
    <3> QED BY <3>2 DEF x
  <2>5. /\ n.pool.error = m.pool.error /\ n.pool.free = m.pool.free
        /\ n.req_to_blocks = m.req_to_blocks
        /\ n.num_cached_block = [m.num_cached_block EXCEPT ![r] = full]
        /\ \A i \in 1 .. Len(blocks) : (~(i <= NumCached(m, r)) /\ i <= full) =>
              n.pool.block_hash[blocks[i]] = Prefix(s, i)
        /\ \A b \in Block :
              \/ n.pool.block_hash[b] = hash[b]
              \/ \E i \in 1 .. Len(blocks) : ~(i <= NumCached(m, r)) /\ i <= full /\ blocks[i] = b
    BY <2>1 DEF GivenHashes
  <2>6. /\ DOMAIN m.num_cached_block = Request /\ m.num_cached_block[r] \in Nat \cup {NoEntry}
        /\ m.req_to_blocks \in [Request -> Seq(RealBlock)]
        /\ m.pool.free \in Seq(RealBlock)
        /\ \A b \in RealBlock : b \in Range(m.pool.free) <=> Holders(m, b) = {}
        /\ \A t \in Request : IsInjective(m.req_to_blocks[t])
        /\ RealBlock \subseteq Block
    BY DEF ManagerOK, IsManager, IsPool, Accounted, Counted, RealBlock
  <2> HIDE DEF hash
  <2>7. \A b \in RealBlock : (hash[b] # NoHash \/ Holders(m, b) # {r}) => n.pool.block_hash[b] = hash[b]
    <3>1. \A i \in 1 .. Len(blocks) : ~(i <= NumCached(m, r)) =>
             hash[blocks[i]] = NoHash /\ Holders(m, blocks[i]) = {r}
      BY <2>2
    <3> HIDE DEF blocks
    <3>2. ASSUME NEW b \in RealBlock, hash[b] # NoHash \/ Holders(m, b) # {r}
          PROVE  n.pool.block_hash[b] = hash[b]
      <4>1. b \in Block
        BY <2>6
      <4>2. ~\E i \in 1 .. Len(blocks) : ~(i <= NumCached(m, r)) /\ i <= full /\ blocks[i] = b
        BY <3>1, <3>2
      <4> QED BY <2>5, <4>1, <4>2
    <3> QED BY <3>2
  <2>8. \A b : Holders(n, b) = Holders(m, b)
    BY <2>5 DEF Holders
  <2>9. ASSUME NEW t \in Request PROVE Tagged(n, t, q[t].tokens)
    <3>1. Tagged(m, t, q[t].tokens)
      BY DEF Linked
    <3>2. CASE t = r
      <4>1. n.num_cached_block[r] = full /\ NumCached(n, r) = full /\ full # 0
        BY <1>4, <2>2, <2>3, <2>5, <2>6 DEF NumCached, NoEntry
      <4>2. ASSUME NEW i \in 1 .. Len(blocks) PROVE Labelled(n, r, s, i)
        <5>1. CASE i <= NumCached(m, r)
          <6>1. i \in 1 .. NumCached(m, r) /\ i <= full /\ i \in Nat \ {0}
            BY <1>4, <2>2, <2>3, <5>1
          <6>2. hash[blocks[i]] = Prefix(s, i) /\ blocks[i] \in RealBlock
            BY <2>2, <6>1
          <6>3. Prefix(s, i) # NoHash
            <7>1. i * BlockSize <= Len(s)
              BY <2>2, <6>1
            <7> QED BY <1>1, <6>1, <7>1, PrefixFacts
          <6>4. n.pool.block_hash[blocks[i]] = Prefix(s, i)
            BY <2>7, <6>2, <6>3
          <6> QED BY <2>5, <4>1, <6>1, <6>4 DEF Labelled
        <5>2. CASE ~(i <= NumCached(m, r)) /\ i <= full
          <6>1. n.pool.block_hash[blocks[i]] = Prefix(s, i)
            BY <2>5, <5>2
          <6> QED BY <2>5, <4>1, <5>2, <6>1 DEF Labelled
        <5>3. CASE ~(i <= NumCached(m, r)) /\ ~(i <= full)
          <6>1. hash[blocks[i]] = NoHash /\ Holders(m, blocks[i]) = {r} /\ blocks[i] \in Block
            <7>1. blocks[i] \in RealBlock
              BY <2>2
            <7>2. hash[blocks[i]] = NoHash
              BY <2>2, <5>3
            <7>3. Holders(m, blocks[i]) = {r}
              BY <2>2, <5>3
            <7> QED BY <2>6, <7>1, <7>2, <7>3
          <6>2. \A j \in 1 .. Len(blocks) : blocks[j] = blocks[i] => j = i
            BY <2>2, <2>6 DEF IsInjective
          <6>3. n.pool.block_hash[blocks[i]] = hash[blocks[i]]
            BY <2>5, <5>3, <6>1, <6>2
          <6> QED BY <2>5, <2>8, <4>1, <5>3, <6>1, <6>3 DEF Labelled
        <5> QED BY <5>1, <5>2, <5>3
      <4>3. \A i \in DOMAIN n.req_to_blocks[r] : Labelled(n, r, s, i)
        BY <2>2, <2>5, <4>2
      <4> HIDE DEF s
      <4>4. Tagged(n, r, s)
        BY <2>3, <2>4, <2>5, <4>1, <4>3 DEF Tagged
      <4> QED BY <3>2, <4>4 DEF s
    <3>3. CASE t # r
      <4>1. /\ n.num_cached_block[t] = m.num_cached_block[t] /\ NumCached(n, t) = NumCached(m, t)
            /\ n.req_to_blocks[t] = m.req_to_blocks[t]
        BY <2>5, <2>6, <3>3 DEF NumCached
      <4>2. ASSUME NEW i \in DOMAIN m.req_to_blocks[t] PROVE Labelled(n, t, q[t].tokens, i)
        <5> DEFINE b == m.req_to_blocks[t][i]
        <5>1. Labelled(m, t, q[t].tokens, i) /\ b \in RealBlock
          BY <2>6, <3>1 DEF Tagged
        <5>2. t \in Holders(m, b)
          BY DEF Holders, Range
        <5>3. Holders(m, b) # {r}
          BY <3>3, <5>2
        <5>4. n.pool.block_hash[b] = hash[b]
          BY <2>7, <5>1, <5>3
        <5> QED BY <2>5, <2>8, <4>1, <5>1, <5>4 DEF Labelled, hash
      <4> QED BY <3>1, <4>1, <4>2 DEF Tagged
    <3> QED BY <3>2, <3>3
  <2>10. ASSUME NEW b \in Range(n.pool.free), n.pool.block_hash[b] # NoHash
         PROVE  /\ IsHash(n.pool.block_hash[b])
                /\ Len(n.pool.block_hash[b]) > BlockSize => Backed(n.pool, b)
    <3>1. b \in RealBlock /\ b \in Range(m.pool.free) /\ Holders(m, b) = {}
      <4>1. b \in Range(m.pool.free)
        BY <2>5
      <4>2. Range(m.pool.free) \subseteq RealBlock
        BY <2>6 DEF Range
      <4>3. b \in RealBlock
        BY <4>1, <4>2
      <4> QED BY <2>6, <4>1, <4>3
    <3>2. n.pool.block_hash[b] = hash[b] /\ hash[b] # NoHash
      BY <2>7, <2>10, <3>1
    <3>3. IsHash(hash[b]) /\ (Len(hash[b]) > BlockSize => Backed(m.pool, b))
      BY <3>1, <3>2 DEF Linked, Chained, hash
    <3>4. ASSUME Len(hash[b]) > BlockSize PROVE Backed(n.pool, b)
      <4>1. PICK c \in RealBlock : /\ hash[c] = Parent(hash[b])
                                   /\ c \in Range(m.pool.free) => Earlier(m.pool.free, b, c)
        BY <3>3, <3>4 DEF Backed, hash
      <4>2. Parent(hash[b]) # NoHash
        BY <3>3, <3>4, ParentIsHash
      <4>3. n.pool.block_hash[c] = hash[c]
        BY <2>7, <4>1, <4>2
      <4> QED BY <2>5, <3>2, <4>1, <4>3 DEF Backed
    <3> QED BY <3>2, <3>3, <3>4
  <2>11. Chained(n.pool)
    BY <2>10 DEF Chained
  <2>12. n.pool.error = "none"
    BY <2>5 DEF Linked
  <2> QED BY <2>9, <2>11, <2>12 DEF Linked, n
<1> QED BY <1>3, <1>4

(***************************************************************************)
(* The hits that get_computed_blocks finds: the blocks cached for the      *)
(* first blocks of the tokens, the last token left out.                    *)
(***************************************************************************)
LEMMA ComputedBlocksFacts ==
    ASSUME NEW m, ManagerOK(m), NEW s, IsSeq(s), s # <<>>
    PROVE  /\ AreHits(get_computed_blocks(m, s), m.pool, s)
           /\ Len(get_computed_blocks(m, s)) * BlockSize <= Len(s) - 1
<1> DEFINE hits == find_longest_cache_hit(m.pool, block_hashes(s), Len(s) - 1)
           T == Range(s)
           d == (Len(s) - 1) \div BlockSize
<1>1. IsPool(m.pool) /\ Indexed(m.pool)
  BY DEF ManagerOK, IsManager
<1>2. s \in Seq(T) /\ Len(s) \in Nat /\ Len(s) # 0
  BY DEF IsSeq
<1> HIDE DEF T
<1>3. hits \in Seq(RealBlock) /\ IsInjective(hits)
  BY <1>1, <1>2, HitFacts
<1>4. Len(hits) <= d
  BY <1>1, <1>2, HitFacts
<1>5. \A i \in 1 .. Len(hits) : m.pool.block_hash[hits[i]] = block_hashes(s)[i]
  BY <1>1, <1>2, HitFacts
<1>6. hits = get_computed_blocks(m, s)
  BY DEF get_computed_blocks
<1> HIDE DEF hits
<1>7. Len(hits) \in Nat
  BY <1>3
<1>8. d \in Int /\ d * BlockSize <= Len(s) - 1 /\ d <= Len(s) \div BlockSize
  <2> DEFINE l == Len(s) - 1
             k == Len(s)
  <2>1. l \in Int /\ k \in Int /\ l <= k
    BY <1>2
  <2>2. d = l \div BlockSize
    OBVIOUS
  <2> HIDE DEF d, l, k
  <2>3. d \in Int /\ d * BlockSize <= l /\ d <= k \div BlockSize
    BY <2>1, <2>2, FullBlocks
  <2> QED BY <2>3 DEF l, k
<1> HIDE DEF d
<1>9. Len(hits) * BlockSize <= Len(s) - 1 /\ Len(hits) * BlockSize <= Len(s)
  <2> DEFINE n == Len(hits)
             x == n * BlockSize
             y == d * BlockSize
  <2>1. n \in Nat /\ n <= d
    BY <1>4, <1>7
  <2> HIDE DEF n
  <2>2. x <= y /\ x \in Int /\ y \in Int
    BY <1>8, <2>1, SizesAssumption
  <2>3. y <= Len(s) - 1
    BY <1>8
  <2> HIDE DEF x, y
  <2>4. x <= Len(s) - 1 /\ x <= Len(s)
    BY <1>2, <2>2, <2>3
  <2> QED BY <2>4 DEF x, n
<1>10. ASSUME NEW i \in 1 .. Len(hits) PROVE m.pool.block_hash[hits[i]] = Prefix(s, i)
  <2> DEFINE k == Len(s) \div BlockSize
  <2>1. k \in Int
    BY <1>2, SizesAssumption
  <2>2. d <= k
    BY <1>8
  <2>3. block_hashes(s) = [j \in 1 .. k |-> SubSeq(s, 1, j * BlockSize)]
    BY DEF block_hashes
  <2> HIDE DEF k
  <2>4. i \in 1 .. k
    BY <1>4, <1>7, <1>8, <2>1, <2>2
  <2> QED BY <1>5, <2>3, <2>4 DEF Prefix
<1>11. AreHits(hits, m.pool, s)
  BY <1>3, <1>9, <1>10 DEF AreHits
<1> QED BY <1>6, <1>9, <1>11

(***************************************************************************)
(* Enough blocks for n tokens.                                             *)
(***************************************************************************)
LEMMA CdivFacts ==
    ASSUME NEW n \in Int
    PROVE  cdiv(n, BlockSize) \in Int /\ n <= cdiv(n, BlockSize) * BlockSize
<1>1. BlockSize \in Nat /\ BlockSize > 0
  BY SizesAssumption
<1> DEFINE a == n + BlockSize - 1
           d == a \div BlockSize
<1>2. a \in Int
  BY <1>1
<1> HIDE DEF a
<1>3. d \in Int /\ a < (d + 1) * BlockSize
  BY <1>1, <1>2
<1> HIDE DEF d
<1>4. (d + 1) * BlockSize = d * BlockSize + BlockSize /\ d * BlockSize \in Int
  BY <1>1, <1>3
<1> DEFINE x == d * BlockSize
<1> HIDE DEF x
<1>5. x \in Int /\ a < x + BlockSize
  BY <1>3, <1>4 DEF x
<1>6. n <= x
  BY <1>1, <1>5 DEF a
<1> QED BY <1>3, <1>6 DEF x, d, a, cdiv

\* Request r has the slots for n tokens and the chains are linked.
Served(m, q, r, n) == Linked(m, q) /\ n <= Len(m.req_to_blocks[r]) * BlockSize

\* The hits, if any, are for a request without blocks.
MayHit(m, q, r, hits) ==
    hits = <<>> \/ (m.req_to_blocks[r] = <<>> /\ AreHits(hits, m.pool, q[r].tokens))

\* The blocks that allocate_new_blocks asks for are in the free queue.
Affordable(m, r, required) ==
    Len(m.req_to_blocks[r]) \in Nat /\ required - Len(m.req_to_blocks[r]) <= Len(m.pool.free)

(***************************************************************************)
(* allocate_new_computed_blocks leaves as many free blocks as              *)
(* get_num_blocks_to_allocate said are needed besides the hits.            *)
(***************************************************************************)
LEMMA HitsLinked ==
    ASSUME NEW m, ManagerOK(m), NEW q, HasTokens(q), Linked(m, q), NEW r \in Request,
           NEW slots \in Int, NEW hits, MayHit(m, q, r, hits),
           get_num_blocks_to_allocate(m, r, slots, hits) <= Len(m.pool.free)
    PROVE  LET h == allocate_new_computed_blocks(m, r, hits)
           IN  /\ ManagerOK(h) /\ Linked(h, q)
               /\ Affordable(h, r, cdiv(slots, BlockSize))
<1> DEFINE h == allocate_new_computed_blocks(m, r, hits)
           required == cdiv(slots, BlockSize)
           held == Len(m.req_to_blocks[r])
           missing(have) == IF required > have THEN required - have ELSE 0
<1>1. required \in Int /\ held \in Nat /\ Len(m.pool.free) \in Nat
  BY CdivFacts DEF ManagerOK, IsManager, IsPool
<1>2. get_num_blocks_to_allocate(m, r, slots, hits)
        = IF m.num_cached_block[r] # NoEntry THEN missing(held)
          ELSE missing(held + Len(hits)) + Cardinality(Evictable(m, hits))
  BY DEF get_num_blocks_to_allocate, Evictable
<1> HIDE DEF required, held
<1>3. CASE hits = <<>>
  <2>1. h = m
    BY <1>3 DEF allocate_new_computed_blocks
  <2>2. Evictable(m, hits) = {} /\ Len(hits) = 0
    BY <1>3 DEF Evictable
  <2>3. Cardinality(Evictable(m, hits)) = 0
    BY <2>2, FS_EmptySet
  <2>4. missing(held) <= Len(m.pool.free)
    <3>1. held + Len(hits) = held
      BY <1>1, <2>2
    <3>2. missing(held) \in Int /\ missing(held) + 0 = missing(held)
      BY <1>1
    <3> HIDE DEF missing
    <3> QED BY <1>2, <2>3, <3>1, <3>2
  <2>5. required - held <= Len(m.pool.free)
    BY <1>1, <2>4
  <2> QED BY <1>1, <2>1, <2>5 DEF Affordable, required, held
<1>4. CASE hits # <<>>
  <2>1. /\ m.req_to_blocks[r] = <<>> /\ AreHits(hits, m.pool, q[r].tokens)
        /\ hits \in Seq(RealBlock) /\ IsInjective(hits) /\ Len(hits) \in Nat
    BY <1>4 DEF MayHit, AreHits
  <2>2. m.num_cached_block[r] = NoEntry
    <3>1. Tagged(m, r, q[r].tokens)
      BY DEF Linked
    <3>2. NumCached(m, r) <= 0 /\ m.num_cached_block[r] # 0
      BY <2>1, <3>1 DEF Tagged
    <3>3. m.num_cached_block[r] \in Nat \cup {NoEntry}
      BY DEF ManagerOK, IsManager
    <3> QED BY <3>2, <3>3 DEF NumCached
  <2>3. h = Touched(m, r, hits)
    BY <1>4, <2>1, <2>2 DEF allocate_new_computed_blocks, Touched
  <2>4. ManagerOK(h)
    <3>1. h = [m EXCEPT !.pool = touch(@, hits), !.req_to_blocks[r] = hits,
                        !.num_cached_block[r] = Len(hits)]
      BY <2>3 DEF Touched
    <3> HIDE DEF h
    <3> QED BY <2>1, <2>2, <3>1, TouchOK, Zenon
  <2>5. Linked(h, q)
    BY <1>4, <2>1, <2>3, TouchLinked
  <2>6. GivenHits(h, m, r, hits)
    BY <2>1, <2>3, TouchFacts
  <2> HIDE DEF h
  <2>7. h.req_to_blocks[r] = hits
    <3>1. DOMAIN m.req_to_blocks = Request
      BY DEF ManagerOK, IsManager
    <3> QED BY <2>6, <3>1 DEF GivenHits
  <2> DEFINE c == Cardinality(Evictable(m, hits))
  <2>8. c \in Nat /\ Len(h.pool.free) = Len(m.pool.free) - c /\ Len(h.pool.free) \in Nat
    BY <2>6 DEF GivenHits
  <2> HIDE DEF c
  <2>9. held + Len(hits) = Len(hits)
    BY <2>1 DEF held
  <2>10. missing(Len(hits)) + c <= Len(m.pool.free)
    <3> HIDE DEF missing
    <3> QED BY <1>2, <2>2, <2>9 DEF c
  <2>11. required - Len(hits) <= Len(h.pool.free)
    BY <1>1, <2>1, <2>8, <2>10
  <2>12. Affordable(h, r, required)
    BY <2>1, <2>7, <2>11 DEF Affordable
  <2> QED BY <2>4, <2>5, <2>12 DEF h, required
<1> QED BY <1>3, <1>4

(***************************************************************************)
(* allocate_slots, when it finds that there are enough free blocks, raises *)
(* nothing, leaves the chains linked and the request with its slots.       *)
(***************************************************************************)
LEMMA AllocateLinked ==
    ASSUME NEW m, ManagerOK(m), NEW q, HasTokens(q), Linked(m, q), NEW r \in Request,
           NEW computed \in Nat, NEW num_new \in Nat, computed + num_new <= MaxModelLen,
           NEW hits, MayHit(m, q, r, hits), CanAllocate(m, r, computed, num_new, hits)
    PROVE  Served(allocate_slots(m, r, q[r].tokens, computed, num_new, hits), q, r,
                  computed + num_new)
<1> DEFINE slots == computed + num_new
           s == q[r].tokens
           h == allocate_new_computed_blocks(m, r, hits)
           required == cdiv(slots, BlockSize)
           k == required - Len(h.req_to_blocks[r])
           a == allocate_new_blocks(h, r, slots)
           full == LesserOf(slots, Len(s))
           n == allocate_slots(m, r, s, computed, num_new, hits)
<1>1. /\ slots \in Int /\ LesserOf(computed, MaxModelLen) + num_new = slots
      /\ NeedsSlots(computed, num_new) = slots
  BY SizesAssumption DEF LesserOf, NeedsSlots
<1>2. IsSeq(s) /\ Len(s) \in Nat
  BY DEF HasTokens, IsSeq
<1>3. n = cache_blocks(a, r, s, full)
  BY <1>1 DEF allocate_slots
<1>4. full \in Int /\ full <= slots /\ full <= Len(s)
  BY <1>1, <1>2 DEF LesserOf
<1>5. get_num_blocks_to_allocate(m, r, slots, hits) <= Len(m.pool.free)
  BY <1>1 DEF CanAllocate
<1> HIDE DEF slots, full
<1>6. required \in Int /\ slots <= required * BlockSize
  BY <1>1, CdivFacts
<1>7. ManagerOK(h) /\ Linked(h, q) /\ Affordable(h, r, required)
  BY <1>1, <1>5, HitsLinked
<1> HIDE DEF required, h
<1>8. Len(h.req_to_blocks[r]) \in Nat /\ k \in Int /\ k <= Len(h.pool.free)
  <2>1. Len(h.req_to_blocks[r]) \in Nat /\ k <= Len(h.pool.free)
    BY <1>7 DEF Affordable
  <2>2. required \in Int
    BY <1>6
  <2>3. k \in Int
    BY <2>1, <2>2
  <2> HIDE DEF k
  <2> QED BY <2>1, <2>3
<1>9. a = IF k <= 0 THEN h ELSE Given(h, r, k)
  BY DEF allocate_new_blocks, Given, NumNewBlocks, required
<1> HIDE DEF k, a
<1>10. ManagerOK(a) /\ Linked(a, q) /\ Len(a.req_to_blocks[r]) \in Nat /\ required <= Len(a.req_to_blocks[r])
  <2>1. CASE k <= 0
    <3>1. a = h
      BY <1>9, <2>1
    <3>2. required <= Len(h.req_to_blocks[r])
      BY <1>6, <1>8, <2>1 DEF k
    <3> QED BY <1>7, <1>8, <3>1, <3>2
  <2>2. CASE ~(k <= 0)
    <3>1. a = Given(h, r, k) /\ k \in Nat
      BY <1>8, <1>9, <2>2
    <3>2. Linked(a, q) /\ Len(a.req_to_blocks[r]) = Len(h.req_to_blocks[r]) + k
      BY <1>7, <1>8, <3>1, NewBlocksLinked
    <3>3. ManagerOK(a)
      BY <1>7, <1>8, <3>1, NewBlocksOK DEF Given
    <3>4. Len(h.req_to_blocks[r]) + k = required
      BY <1>6, <1>8 DEF k
    <3>5. Len(a.req_to_blocks[r]) \in Nat
      BY <1>8, <3>1, <3>2
    <3> QED BY <1>6, <3>2, <3>3, <3>4, <3>5
  <2> QED BY <2>1, <2>2
<1>11. slots <= Len(a.req_to_blocks[r]) * BlockSize
  <2> DEFINE l == Len(a.req_to_blocks[r])
             x == required * BlockSize
             y == l * BlockSize
  <2>1. l \in Nat /\ required <= l
    BY <1>10
  <2> HIDE DEF l
  <2>2. x <= y /\ x \in Int /\ y \in Int
    BY <1>6, <2>1, SizesAssumption
  <2>3. slots <= x
    BY <1>6
  <2> HIDE DEF x, y
  <2>4. slots <= y
    BY <1>1, <2>2, <2>3
  <2> QED BY <2>4 DEF y, l
<1>12. full <= Len(a.req_to_blocks[r]) * BlockSize
  <2> DEFINE y == Len(a.req_to_blocks[r]) * BlockSize
  <2>1. y \in Int
    BY <1>10, SizesAssumption
  <2>2. slots <= y
    BY <1>11
  <2> HIDE DEF y
  <2>3. full <= y
    BY <1>1, <1>4, <2>1, <2>2
  <2> QED BY <2>3 DEF y
<1>13. Linked(cache_blocks(a, r, s, full), q)
  BY <1>4, <1>10, <1>12, CacheLinked
<1>14. cache_blocks(a, r, s, full).req_to_blocks = a.req_to_blocks
  BY <1>2, <1>4, <1>10, CacheBlocksOK DEF IsSeq
<1> HIDE DEF n, s
<1>15. Linked(n, q) /\ n.req_to_blocks = a.req_to_blocks
  BY <1>3, <1>13, <1>14
<1> QED BY <1>11, <1>15 DEF Served, n, slots, s

(***************************************************************************)
(* There are NumGpuBlocks - 1 blocks besides the null block.               *)
(***************************************************************************)
LEMMA RealBlocks ==
    IsFiniteSet(RealBlock) /\ Cardinality(RealBlock) = NumGpuBlocks - 1
<1> DEFINE n == NumGpuBlocks - 1
<1>1. RealBlock = 1 .. n
  BY NumGpuBlocksAssumption DEF RealBlock, Block, NullBlock
<1>2. n \in Nat
  BY NumGpuBlocksAssumption
<1>3. IsFiniteSet(1 .. n) /\ Cardinality(1 .. n) = IF 1 > n THEN 0 ELSE n - 1 + 1
  BY <1>2, FS_Interval
<1> HIDE DEF n
<1>4. Cardinality(1 .. n) = n
  BY <1>2, <1>3
<1> QED BY <1>1, <1>3, <1>4 DEF n

(***************************************************************************)
(* BlockPool.reset_prefix_cache may reset exactly when no request holds a  *)
(* block.                                                                  *)
(***************************************************************************)
LEMMA ResetWhenFree ==
    ASSUME NEW m, ManagerOK(m)
    PROVE  CanReset(m.pool) <=> \A r \in Request : m.req_to_blocks[r] = <<>>
<1> DEFINE F == m.pool.free
           R == Range(F)
<1>1. /\ F \in Seq(RealBlock) /\ IsInjective(F) /\ Len(F) \in Nat
      /\ m.req_to_blocks \in [Request -> Seq(RealBlock)]
      /\ \A b \in RealBlock : b \in R <=> Holders(m, b) = {}
  BY DEF ManagerOK, IsManager, IsPool, Accounted, Counted
<1>2. R \subseteq RealBlock
  BY <1>1 DEF Range
<1>3. Cardinality(R) = Len(F)
  BY <1>1, InjectiveLen
<1> HIDE DEF R
<1>4. R = RealBlock <=> Len(F) = NumGpuBlocks - 1
  BY <1>2, <1>3, RealBlocks, FS_Subset
<1>5. CanReset(m.pool) <=> Len(F) = NumGpuBlocks - 1
  BY <1>1, NumGpuBlocksAssumption DEF CanReset
<1>6. ASSUME R = RealBlock, NEW r \in Request PROVE m.req_to_blocks[r] = <<>>
  <2> SUFFICES ASSUME m.req_to_blocks[r] # <<>> PROVE FALSE
    OBVIOUS
  <2> DEFINE blocks == m.req_to_blocks[r]
  <2>1. blocks \in Seq(RealBlock) /\ blocks # <<>>
    BY <1>1
  <2> HIDE DEF blocks
  <2>2. blocks[1] \in RealBlock /\ 1 \in DOMAIN blocks
    BY <2>1
  <2>3. r \in Holders(m, blocks[1])
    BY <2>2 DEF Holders, Range, blocks
  <2> QED BY <1>1, <1>6, <2>2, <2>3
<1>7. ASSUME \A r \in Request : m.req_to_blocks[r] = <<>> PROVE R = RealBlock
  <2>1. \A b : Holders(m, b) = {}
    BY <1>7 DEF Holders, Range
  <2> QED BY <1>1, <1>2, <2>1
<1> QED BY <1>4, <1>5, <1>6, <1>7

(***************************************************************************)
(* A manager without hashes and without held blocks.                       *)
(***************************************************************************)
LEMMA EmptyLinked ==
    ASSUME NEW m, ManagerOK(m), NEW q, HasTokens(q), m.pool.error = "none",
           \A r \in Request : m.req_to_blocks[r] = <<>> /\ m.num_cached_block[r] = NoEntry,
           \A b \in Block : m.pool.block_hash[b] = NoHash
    PROVE  Linked(m, q)
<1>1. ASSUME NEW r \in Request PROVE Tagged(m, r, q[r].tokens)
  <2>1. NumCached(m, r) = 0 /\ m.num_cached_block[r] # 0
    BY DEF NumCached, NoEntry
  <2>2. m.req_to_blocks[r] = <<>> /\ Len(<<>>) = 0 /\ DOMAIN <<>> = {}
    OBVIOUS
  <2>3. 0 * BlockSize <= Len(q[r].tokens)
    <3>1. Len(q[r].tokens) \in Nat
      BY DEF HasTokens, IsSeq
    <3>2. 0 * BlockSize = 0
      BY SizesAssumption
    <3> QED BY <3>1, <3>2
  <2> QED BY <2>1, <2>2, <2>3 DEF Tagged
<1>2. Range(m.pool.free) \subseteq Block
  BY DEF ManagerOK, IsManager, IsPool, RealBlock, Range
<1>3. Chained(m.pool)
  BY <1>2 DEF Chained
<1> QED BY <1>1, <1>3 DEF Linked

(***************************************************************************)
(* At first nothing is cached.                                             *)
(***************************************************************************)
LEMMA InitLinked ==
    ASSUME NEW q, HasTokens(q)
    PROVE  Linked(InitManager, q)
<1>1. ManagerOK(InitManager)
  BY InitOK
<1>2. /\ InitManager.pool.error = "none"
      /\ \A r \in Request : /\ InitManager.req_to_blocks[r] = <<>>
                            /\ InitManager.num_cached_block[r] = NoEntry
      /\ \A b \in Block : InitManager.pool.block_hash[b] = NoHash
  BY DEF InitManager, InitPool
<1> QED BY <1>1, <1>2, EmptyLinked

(***************************************************************************)
(* reset_prefix_cache leaves the chains linked: all of them are gone, or   *)
(* none.                                                                   *)
(***************************************************************************)
LEMMA ResetLinked ==
    ASSUME NEW m, ManagerOK(m), NEW q, HasTokens(q), Linked(m, q)
    PROVE  Linked(reset_prefix_cache(m), q)
<1> DEFINE n == reset_prefix_cache(m)
           p == ResetPool(m.pool)
<1>1. /\ DOMAIN m = {"pool", "req_to_blocks", "num_cached_block"}
      /\ DOMAIN m.pool = {"free", "ref_cnt", "block_hash", "cached", "error"}
  BY DEF ManagerOK, IsManager, IsPool
<1>2. /\ n.pool = p /\ n.req_to_blocks = m.req_to_blocks
      /\ n.num_cached_block = m.num_cached_block
  BY <1>1 DEF reset_prefix_cache
<1>3. CASE CanReset(m.pool)
  <2>1. p.error = m.pool.error /\ p.block_hash = [b \in Block |-> NoHash]
    BY <1>1, <1>3 DEF ResetPool
  <2>2. ManagerOK(n)
    BY ResetOK
  <2>3. \A r \in Request : m.req_to_blocks[r] = <<>>
    BY <1>3, ResetWhenFree
  <2>4. \A r \in Request : m.num_cached_block[r] = NoEntry
    <3>1. ASSUME NEW r \in Request PROVE m.num_cached_block[r] = NoEntry
      <4>1. Tagged(m, r, q[r].tokens)
        BY DEF Linked
      <4>2. NumCached(m, r) <= 0 /\ m.num_cached_block[r] # 0
        BY <2>3, <4>1 DEF Tagged
      <4>3. m.num_cached_block[r] \in Nat \cup {NoEntry}
        BY DEF ManagerOK, IsManager
      <4> QED BY <4>2, <4>3 DEF NumCached
    <3> QED BY <3>1
  <2> HIDE DEF n, p
  <2>5. n.pool.error = "none"
    BY <1>2, <2>1 DEF Linked
  <2>6. /\ \A r \in Request : n.req_to_blocks[r] = <<>> /\ n.num_cached_block[r] = NoEntry
        /\ \A b \in Block : n.pool.block_hash[b] = NoHash
    BY <1>2, <2>1, <2>3, <2>4
  <2>7. Linked(n, q)
    BY <2>2, <2>5, <2>6, EmptyLinked
  <2> QED BY <2>7 DEF n
<1>4. CASE ~CanReset(m.pool)
  <2>1. p = m.pool
    BY <1>4 DEF ResetPool
  <2> HIDE DEF n, p
  <2>2. \A b : Holders(n, b) = Holders(m, b)
    BY <1>2 DEF Holders
  <2>3. \A r : NumCached(n, r) = NumCached(m, r)
    BY <1>2 DEF NumCached
  <2>4. Linked(n, q)
    <3>1. n.pool = m.pool
      BY <1>2, <2>1
    <3>2. ASSUME NEW r \in Request PROVE Tagged(n, r, q[r].tokens)
      <4>1. Tagged(m, r, q[r].tokens)
        BY DEF Linked
      <4>2. \A i : Labelled(n, r, q[r].tokens, i) <=> Labelled(m, r, q[r].tokens, i)
        BY <1>2, <2>2, <2>3, <3>1 DEF Labelled
      <4> QED BY <1>2, <2>3, <4>1, <4>2 DEF Tagged
    <3> QED BY <3>1, <3>2 DEF Linked
  <2> QED BY <2>4 DEF n
<1> QED BY <1>3, <1>4

(***************************************************************************)
(* A request without blocks may have any tokens.                           *)
(***************************************************************************)
LEMMA NoBlocksLinked ==
    ASSUME NEW m, ManagerOK(m), NEW q, HasTokens(q), Linked(m, q), NEW r \in Request,
           m.req_to_blocks[r] = <<>>, NEW p, SameTokens(q, p, r)
    PROVE  Linked(m, p)
<1>1. Tagged(m, r, p[r].tokens)
  <2>1. Tagged(m, r, q[r].tokens)
    BY DEF Linked
  <2>2. NumCached(m, r) <= 0 /\ m.num_cached_block[r] # 0 /\ DOMAIN m.req_to_blocks[r] = {}
    BY <2>1 DEF Tagged
  <2>3. NumCached(m, r) = 0
    <3>1. m.num_cached_block[r] \in Nat \cup {NoEntry}
      BY DEF ManagerOK, IsManager
    <3> QED BY <2>2, <3>1 DEF NumCached
  <2>4. 0 * BlockSize <= Len(p[r].tokens)
    <3>1. Len(p[r].tokens) \in Nat
      BY DEF SameTokens, HasTokens, IsSeq
    <3>2. 0 * BlockSize = 0
      BY SizesAssumption
    <3> QED BY <3>1, <3>2
  <2> QED BY <2>1, <2>2, <2>3, <2>4 DEF Tagged
<1>2. \A s \in Request : s # r => Tagged(m, s, p[s].tokens)
  BY DEF Linked, SameTokens
<1> QED BY <1>1, <1>2 DEF Linked

(***************************************************************************)
(* New tokens of a request leave the chains linked.                        *)
(***************************************************************************)
LEMMA AppendLinked ==
    ASSUME NEW m, ManagerOK(m), NEW q, HasTokens(q), Linked(m, q), NEW r \in Request,
           NEW t, IsSeq(t), NEW p, SameTokens(q, p, r), p[r].tokens = q[r].tokens \o t
    PROVE  Linked(m, p)
<1> DEFINE s == q[r].tokens
           u == s \o t
           n == NumCached(m, r)
<1>1. IsSeq(s) /\ Tagged(m, r, s)
  BY DEF HasTokens, Linked
<1>2. Len(s) \in Nat /\ Len(u) \in Nat /\ Len(s) <= Len(u)
  <2> DEFINE T == Range(s) \cup Range(t)
  <2>1. s \in Seq(T) /\ t \in Seq(T)
    BY <1>1 DEF IsSeq, Range
  <2> HIDE DEF T, s
  <2> QED BY <2>1
<1> HIDE DEF s, u
<1>3. TagsOf(m, r, s)
  BY <1>1, TagsFacts
<1>4. n \in Nat /\ n * BlockSize <= Len(s) /\ m.num_cached_block[r] # 0 /\ n <= Len(m.req_to_blocks[r])
  <2>1. n \in Nat
    BY <1>3 DEF TagsOf
  <2> HIDE DEF n
  <2> QED BY <1>1, <2>1 DEF Tagged, n
<1>5. n * BlockSize <= Len(u)
  <2> DEFINE x == n * BlockSize
  <2>1. x \in Int
    BY <1>4, SizesAssumption
  <2>2. x <= Len(s)
    BY <1>4
  <2> HIDE DEF x
  <2>3. x <= Len(u)
    BY <1>2, <2>1, <2>2
  <2> QED BY <2>3 DEF x
<1>6. ASSUME NEW i \in DOMAIN m.req_to_blocks[r] PROVE Labelled(m, r, u, i)
  <2>1. Labelled(m, r, s, i)
    BY <1>1 DEF Tagged
  <2>2. i \in Nat /\ (i <= n => i \in 1 .. n)
    <3>1. i \in 1 .. Len(m.req_to_blocks[r]) /\ Len(m.req_to_blocks[r]) \in Nat
      BY <1>3 DEF TagsOf
    <3> QED BY <1>4, <3>1
  <2>3. i <= n => Prefix(u, i) = Prefix(s, i)
    <3>1. ASSUME i <= n PROVE i * BlockSize <= Len(s)
      BY <1>3, <2>2, <3>1 DEF TagsOf
    <3> QED BY <1>1, <2>2, <3>1, PrefixAppend DEF u
  <2> QED BY <2>1, <2>3 DEF Labelled, n
<1>7. Tagged(m, r, u)
  BY <1>4, <1>5, <1>6 DEF Tagged, n
<1>8. p[r].tokens = u
  BY DEF u, s
<1>9. \A x \in Request : x # r => Tagged(m, x, p[x].tokens)
  BY DEF Linked, SameTokens
<1> QED BY <1>7, <1>8, <1>9 DEF Linked

-----------------------------------------------------------------------------
(* A failed assertion is not forgotten *)

PoolBroken(p, e) == "error" \in DOMAIN p /\ p.error = e /\ e # "none"

\* Error e is the first that was raised.
Broken(m, e) == "pool" \in DOMAIN m /\ PoolBroken(m.pool, e)

(***************************************************************************)
(* The operations of the pool that can raise keep the first error.         *)
(***************************************************************************)
LEMMA PoolStaysBroken ==
    ASSUME NEW p, NEW e, PoolBroken(p, e)
    PROVE  /\ \A f : PoolBroken(Fail(p, f), e)
           /\ \A blocks : PoolBroken(touch(p, blocks), e)
           /\ \A k : PoolBroken(get_new_blocks(p, k), e)
           /\ \A hs, blocks, c, f : PoolBroken(cache_full_blocks(p, hs, blocks, c, f), e)
           /\ PoolBroken(ResetPool(p), e)
<1>1. \A f : PoolBroken(Fail(p, f), e)
  BY DEF PoolBroken, Fail
<1>2. ASSUME NEW blocks PROVE PoolBroken(touch(p, blocks), e)
  <2> DEFINE revived == {b \in Range(blocks) : p.ref_cnt[b] = 0 /\ b # NullBlock}
             x == Keep(p.free, Block \ revived)
             y == [b \in Block |-> p.ref_cnt[b] + Occurrences(blocks, b)]
  <2>1. touch(p, blocks) = IF ~(revived \subseteq Range(p.free)) THEN Fail(p, "remove: RuntimeError")
                           ELSE [p EXCEPT !.free = x, !.ref_cnt = y]
    BY DEF touch
  <2> HIDE DEF revived, x, y
  <2>2. PoolBroken([p EXCEPT !.free = x, !.ref_cnt = y], e)
    BY DEF PoolBroken
  <2> QED BY <1>1, <2>1, <2>2
<1>3. ASSUME NEW k PROVE PoolBroken(get_new_blocks(p, k), e)
  <2> DEFINE new == Range(NewBlocks(p, k))
             q == EvictBlocks(p, new)
             x == SubSeq(q.free, k + 1, Len(q.free))
             y == [b \in Block |-> IF b \in new THEN q.ref_cnt[b] + 1 ELSE q.ref_cnt[b]]
             found == {b \in new : /\ p.block_hash[b] \in DOMAIN p.cached
                                   /\ b \in Range(p.cached[p.block_hash[b]])}
             c == pop(p.cached, p.block_hash, found)
             h == [b \in Block |-> IF b \in found THEN NoHash ELSE p.block_hash[b]]
  <2>1. get_new_blocks(p, k) = IF k > Len(p.free) THEN Fail(p, "get_new_blocks: ValueError")
                               ELSE IF \E b \in new : p.ref_cnt[b] # 0
                                    THEN Fail(p, "get_new_blocks: ref_cnt != 0")
                               ELSE [q EXCEPT !.free = x, !.ref_cnt = y]
    BY DEF get_new_blocks
  <2>2. q = [p EXCEPT !.cached = c, !.block_hash = h]
    BY DEF EvictBlocks
  <2> HIDE DEF c, h, new, x, y, q
  <2>3. PoolBroken(q, e)
    BY <2>2 DEF PoolBroken
  <2>4. PoolBroken([q EXCEPT !.free = x, !.ref_cnt = y], e)
    BY <2>3 DEF PoolBroken
  <2> QED BY <1>1, <2>1, <2>4
<1>4. ASSUME NEW hs, NEW blocks, NEW c, NEW f PROVE PoolBroken(cache_full_blocks(p, hs, blocks, c, f), e)
  <2> DEFINE last == IF f <= Len(blocks) THEN f ELSE Len(blocks)
             new == {i \in (c + 1) .. last : blocks[i] # NullBlock}
             block_of == [h \in {hs[i] : i \in new} |-> blocks[CHOOSE i \in new : hs[i] = h]]
             x == insert(p.cached, block_of)
             y == [b \in Block |-> IF \E i \in new : blocks[i] = b
                                   THEN hs[CHOOSE i \in new : blocks[i] = b] ELSE p.block_hash[b]]
  <2>1. cache_full_blocks(p, hs, blocks, c, f) =
            IF c >= f THEN p
            ELSE IF Len(hs) < f THEN Fail(p, "cache_full_blocks: block_hashes")
            ELSE IF \E i \in new : p.block_hash[blocks[i]] # NoHash
                 THEN Fail(p, "cache_full_blocks: block_hash is not None")
            ELSE [p EXCEPT !.cached = x, !.block_hash = y]
    BY DEF cache_full_blocks
  <2> HIDE DEF new, x, y
  <2>2. PoolBroken([p EXCEPT !.cached = x, !.block_hash = y], e)
    BY DEF PoolBroken
  <2> QED BY <1>1, <2>1, <2>2
<1>5. PoolBroken(ResetPool(p), e)
  <2> DEFINE x == <<>>
             y == [b \in Block |-> NoHash]
  <2>1. ResetPool(p) = IF CanReset(p) THEN [p EXCEPT !.cached = x, !.block_hash = y] ELSE p
    BY DEF ResetPool
  <2> HIDE DEF x, y
  <2>2. PoolBroken([p EXCEPT !.cached = x, !.block_hash = y], e)
    BY DEF PoolBroken
  <2> QED BY <2>1, <2>2
<1> QED BY <1>1, <1>2, <1>3, <1>4, <1>5

(***************************************************************************)
(* The operations of the manager keep the first error.                     *)
(***************************************************************************)
LEMMA StaysBroken ==
    ASSUME NEW m, NEW e, Broken(m, e), NEW r, NEW tokens
    PROVE  /\ \A f : Broken([m EXCEPT !.pool = Fail(@, f)], e)
           /\ \A hits : Broken(allocate_new_computed_blocks(m, r, hits), e)
           /\ \A k : Broken(allocate_new_blocks(m, r, k), e)
           /\ \A k : Broken(cache_blocks(m, r, tokens, k), e)
           /\ Broken(reset_prefix_cache(m), e)
<1>1. /\ \A f : PoolBroken(Fail(m.pool, f), e)
      /\ \A blocks : PoolBroken(touch(m.pool, blocks), e)
      /\ \A k : PoolBroken(get_new_blocks(m.pool, k), e)
      /\ \A hs, blocks, c, f : PoolBroken(cache_full_blocks(m.pool, hs, blocks, c, f), e)
      /\ PoolBroken(ResetPool(m.pool), e)
  BY PoolStaysBroken DEF Broken
<1>2. \A f : Broken([m EXCEPT !.pool = Fail(@, f)], e)
  BY <1>1 DEF Broken
<1>3. ASSUME NEW hits PROVE Broken(allocate_new_computed_blocks(m, r, hits), e)
  <2> DEFINE f == "allocate_new_computed_blocks: not a new request"
             p == touch(m.pool, hits)
             x == [m.req_to_blocks EXCEPT ![r] = hits]
             y == [m.num_cached_block EXCEPT ![r] = Len(hits)]
  <2>1. allocate_new_computed_blocks(m, r, hits) =
            IF hits = <<>> THEN m
            ELSE IF m.num_cached_block[r] # NoEntry \/ m.req_to_blocks[r] # <<>>
                 THEN [m EXCEPT !.pool = Fail(@, f)]
            ELSE [m EXCEPT !.pool = p, !.req_to_blocks = x, !.num_cached_block = y]
    BY DEF allocate_new_computed_blocks
  <2>2. PoolBroken(p, e)
    BY <1>1
  <2> HIDE DEF f, p, x, y
  <2>3. Broken([m EXCEPT !.pool = p, !.req_to_blocks = x, !.num_cached_block = y], e)
    BY <2>2 DEF Broken
  <2> QED BY <1>2, <2>1, <2>3
<1>4. ASSUME NEW k PROVE Broken(allocate_new_blocks(m, r, k), e)
  <2> DEFINE n == NumNewBlocks(m, r, k)
             p == get_new_blocks(m.pool, n)
             x == [m.req_to_blocks EXCEPT ![r] = @ \o NewBlocks(m.pool, n)]
  <2>1. allocate_new_blocks(m, r, k) =
            IF n <= 0 THEN m ELSE [m EXCEPT !.pool = p, !.req_to_blocks = x]
    BY DEF allocate_new_blocks
  <2>2. PoolBroken(p, e)
    BY <1>1
  <2> HIDE DEF n, p, x
  <2>3. Broken([m EXCEPT !.pool = p, !.req_to_blocks = x], e)
    BY <2>2 DEF Broken
  <2> QED BY <2>1, <2>3
<1>5. ASSUME NEW k PROVE Broken(cache_blocks(m, r, tokens, k), e)
  <2> DEFINE c == IF m.num_cached_block[r] = NoEntry THEN 0 ELSE m.num_cached_block[r]
             f == k \div BlockSize
             p == cache_full_blocks(m.pool, block_hashes(tokens), m.req_to_blocks[r], c, f)
             y == [m.num_cached_block EXCEPT ![r] = f]
  <2>1. cache_blocks(m, r, tokens, k) =
            IF c >= f THEN m ELSE [m EXCEPT !.pool = p, !.num_cached_block = y]
    BY DEF cache_blocks
  <2>2. PoolBroken(p, e)
    BY <1>1
  <2> HIDE DEF c, f, p, y
  <2>3. Broken([m EXCEPT !.pool = p, !.num_cached_block = y], e)
    BY <2>2 DEF Broken
  <2> QED BY <2>1, <2>3
<1>6. Broken(reset_prefix_cache(m), e)
  BY <1>1 DEF reset_prefix_cache, Broken
<1> QED BY <1>2, <1>3, <1>4, <1>5, <1>6

(***************************************************************************)
(* And so does allocate_slots.                                             *)
(***************************************************************************)
LEMMA AllocateBroken ==
    ASSUME NEW m, NEW e, Broken(m, e), NEW r, NEW tokens, NEW computed, NEW num_new, NEW hits
    PROVE  Broken(allocate_slots(m, r, tokens, computed, num_new, hits), e)
<1> DEFINE h == allocate_new_computed_blocks(m, r, hits)
           k == NeedsSlots(computed, num_new)
           a == allocate_new_blocks(h, r, k)
           full == LesserOf(LesserOf(computed, MaxModelLen) + num_new, Len(tokens))
<1>1. allocate_slots(m, r, tokens, computed, num_new, hits) = cache_blocks(a, r, tokens, full)
  BY DEF allocate_slots
<1> HIDE DEF k, full
<1>2. Broken(h, e)
  BY StaysBroken
<1> HIDE DEF h
<1>3. Broken(a, e)
  BY <1>2, StaysBroken
<1> HIDE DEF a
<1>4. Broken(cache_blocks(a, r, tokens, full), e)
  BY <1>3, StaysBroken
<1> QED BY <1>1, <1>4
=============================================================================
