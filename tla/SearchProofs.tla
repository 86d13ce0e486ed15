---------------------------- MODULE SearchProofs ----------------------------
(***************************************************************************)
(* Proofs about Search, for every catalog, every listing and every limit   *)
(* of the results.                                                         *)
(***************************************************************************)
EXTENDS Search, FiniteSetTheorems, SequenceTheorems, TLAPS

-----------------------------------------------------------------------------
(* The elements at some positions of a sequence.                           *)

\* Where an element stands among those at the positions I.
Rank(I, i) == Cardinality({j \in I : j <= i})

\* The position of the k-th of them.
Position(I, k) == CHOOSE i \in I : Rank(I, i) = k

LEMMA Ranks ==
  ASSUME NEW n \in Nat, NEW I \in SUBSET (1..n)
  PROVE  /\ Cardinality(I) \in Nat
         /\ \A i \in I : Rank(I, i) \in 1..Cardinality(I)
         /\ \A i, j \in I : Rank(I, i) = Rank(I, j) => i = j
         /\ \A k \in 1..Cardinality(I) : \E i \in I : Rank(I, i) = k
<1> DEFINE upTo(i) == {j \in I : j <= i}
           rank == [i \in I |-> Rank(I, i)]
           C == Cardinality(I)
<1>1. IsFiniteSet(I) /\ C \in Nat
  <2>1. IsFiniteSet(1..n)
    BY FS_Interval
  <2>2. IsFiniteSet(I)
    BY <2>1, FS_Subset
  <2> QED BY <2>2, FS_CardinalityType
<1>2. \A i \in I : /\ IsFiniteSet(upTo(i))
                   /\ Rank(I, i) \in Nat /\ Rank(I, i) <= C
                   /\ Rank(I, i) # 0
  <2> TAKE i \in I
  <2>1. upTo(i) \in SUBSET I /\ i \in upTo(i)
    OBVIOUS
  <2>2. IsFiniteSet(upTo(i)) /\ Cardinality(upTo(i)) <= C
    BY <1>1, <2>1, FS_Subset
  <2>3. Cardinality(upTo(i)) \in Nat /\ Cardinality(upTo(i)) # 0
    BY <2>1, <2>2, FS_CardinalityType, FS_EmptySet
  <2>4. Rank(I, i) = Cardinality(upTo(i))
    BY DEF Rank
  <2> QED BY <2>2, <2>3, <2>4
<1>3. \A i \in I : Rank(I, i) \in 1..C
  <2> HIDE DEF C, upTo, rank
  <2>1. \A k \in Nat : k <= C /\ k # 0 => k \in 1..C
    BY <1>1
  <2> QED BY <1>2, <2>1
<1>4. ASSUME NEW i \in I, NEW j \in I, i < j
      PROVE  Rank(I, i) # Rank(I, j)
  <2>1. upTo(i) \in SUBSET upTo(j) /\ upTo(i) # upTo(j)
    <3>1. j \in upTo(j) /\ j \notin upTo(i)
      BY <1>4
    <3>2. \A k \in I : k <= i => k <= j
      BY <1>4
    <3> QED BY <3>1, <3>2
  <2>2. Rank(I, i) = Cardinality(upTo(i)) /\ Rank(I, j) = Cardinality(upTo(j))
    BY DEF Rank
  <2> HIDE DEF upTo
  <2> QED BY <1>2, <2>1, <2>2, FS_Subset
<1>5. \A i, j \in I : Rank(I, i) = Rank(I, j) => i = j
  <2> TAKE i \in I, j \in I
  <2>1. i < j \/ j < i \/ i = j
    OBVIOUS
  <2> QED BY <1>4, <2>1
<1>6. rank \in Injection(I, 1..C)
  BY <1>3, <1>5 DEF Injection, IsInjective
<1>7. rank \in Surjection(I, 1..C)
  <2>1. IsFiniteSet(1..C) /\ Cardinality(1..C) = C
    BY <1>1, FS_Interval
  <2> QED BY <1>6, <2>1, FS_Injection
<1>8. \A k \in 1..C : \E i \in I : Rank(I, i) = k
  BY <1>7 DEF Surjection
<1> QED BY <1>1, <1>3, <1>5, <1>8

\* At takes every position of I once.
LEMMA AtPositions ==
  ASSUME NEW T, NEW s \in Seq(T), NEW I \in SUBSET DOMAIN s
  PROVE  /\ Cardinality(I) \in Nat
         /\ At(s, I) \in Seq(T)
         /\ Len(At(s, I)) = Cardinality(I)
         /\ \A k \in 1..Cardinality(I) :
              Position(I, k) \in I /\ At(s, I)[k] = s[Position(I, k)]
         /\ \A k, l \in 1..Cardinality(I) :
              Position(I, k) = Position(I, l) => k = l
         /\ \A i \in I : \E k \in 1..Cardinality(I) : Position(I, k) = i
<1> DEFINE C == Cardinality(I)
<1>1. Len(s) \in Nat /\ I \in SUBSET (1..Len(s))
  OBVIOUS
<1>2. /\ C \in Nat
      /\ \A i \in I : Rank(I, i) \in 1..C
      /\ \A i, j \in I : Rank(I, i) = Rank(I, j) => i = j
      /\ \A k \in 1..C : \E i \in I : Rank(I, i) = k
  BY <1>1, Ranks
<1>3. \A k \in 1..C : Position(I, k) \in I /\ Rank(I, Position(I, k)) = k
  BY <1>2 DEF Position
<1>4. \A i \in I : Position(I, Rank(I, i)) = i
  BY <1>2, <1>3
<1>5. At(s, I) = [k \in 1..C |-> s[Position(I, k)]]
  BY DEF At, Position, Rank
<1>6. \A k \in 1..C : s[Position(I, k)] \in T
  BY <1>1, <1>3
<1> HIDE DEF C
<1>7. At(s, I) \in [1..C -> T]
  BY <1>5, <1>6
<1>8. At(s, I) \in Seq(T) /\ Len(At(s, I)) = C
  BY <1>2, <1>7
<1> QED BY <1>2, <1>3, <1>4, <1>5, <1>8 DEF C

\* What At has, and that it repeats nothing that I does not repeat.
LEMMA AtElements ==
  ASSUME NEW T, NEW s \in Seq(T), NEW I \in SUBSET DOMAIN s
  PROVE  /\ At(s, I) \in Seq(T)
         /\ \A x : x \in ToSet(At(s, I)) <=> \E i \in I : s[i] = x
         /\ (\A i, j \in I : s[i] = s[j] => i = j) => IsInjective(At(s, I))
<1> DEFINE a == At(s, I)
           C == Cardinality(I)
<1>1. /\ a \in Seq(T) /\ Len(a) = C /\ C \in Nat
      /\ \A k \in 1..C : Position(I, k) \in I /\ a[k] = s[Position(I, k)]
      /\ \A k, l \in 1..C : Position(I, k) = Position(I, l) => k = l
      /\ \A i \in I : \E k \in 1..C : Position(I, k) = i
  BY AtPositions
<1> HIDE DEF a, C
<1>2. DOMAIN a = 1..C
  BY <1>1
<1>3. ASSUME NEW x PROVE x \in ToSet(a) <=> \E i \in I : s[i] = x
  BY <1>1, <1>2 DEF ToSet
<1>4. (\A i, j \in I : s[i] = s[j] => i = j) => IsInjective(a)
  BY <1>1, <1>2 DEF IsInjective
<1> QED BY <1>1, <1>3, <1>4 DEF a

LEMMA LeastIndex ==
  ASSUME NEW S \in SUBSET Nat, S # {}
  PROVE  \E i \in S : \A j \in S : i <= j
<1>1. PICK i \in S : \A j \in S : <<j, i>> \notin OpToRel(<, Nat)
  BY NatLessThanWellFounded, WFMin
<1>2. \A j \in S : ~(j < i)
  BY <1>1 DEF OpToRel
<1> QED BY <1>2

-----------------------------------------------------------------------------
(* What a step finds.                                                      *)

\* New has no object twice, and of each that is new the first position.
LEMMA NewOnes ==
  ASSUME NEW objs \in Seq(Objects)
  PROVE  /\ At(objs, New(objs)) \in Seq(Objects)
         /\ IsInjective(At(objs, New(objs)))
         /\ \A o : o \in ToSet(At(objs, New(objs))) <=>
                    o \in ToSet(objs) /\ Wanted(o) /\ o \notin ToSet(results)
<1>1. New(objs) \in SUBSET DOMAIN objs /\ DOMAIN objs \in SUBSET Nat
  BY DEF New
<1>2. /\ At(objs, New(objs)) \in Seq(Objects)
      /\ \A o : o \in ToSet(At(objs, New(objs)))
                 <=> \E i \in New(objs) : objs[i] = o
  BY <1>1, AtElements
<1>3. ASSUME NEW i \in New(objs), NEW j \in New(objs), objs[i] = objs[j]
      PROVE  i = j
  <2>1. i \in 1..Len(objs) /\ j \in 1..Len(objs)
    BY DEF New
  <2>2. ~(i < j) /\ ~(j < i)
    BY <1>3, <2>1 DEF New
  <2> QED BY <2>1, <2>2
<1>4. IsInjective(At(objs, New(objs)))
  BY <1>1, <1>3, AtElements
<1>5. ASSUME NEW o, o \in ToSet(objs), Wanted(o), o \notin ToSet(results)
      PROVE  \E i \in New(objs) : objs[i] = o
  <2> DEFINE I == {i \in DOMAIN objs : objs[i] = o}
  <2>1. I \in SUBSET Nat /\ I # {}
    BY <1>5 DEF ToSet
  <2>2. PICK i \in I : \A j \in I : i <= j
    BY <2>1, LeastIndex
  <2>3. i \in 1..Len(objs) /\ objs[i] = o
    OBVIOUS
  <2>4. ASSUME NEW j \in 1..(i - 1), objs[j] = o PROVE FALSE
    <3>1. j \in DOMAIN objs /\ j < i
      BY <2>3
    <3>2. i <= j
      BY <2>2, <2>4, <3>1
    <3> QED BY <2>3, <3>1, <3>2
  <2>5. i \in New(objs)
    BY <1>5, <2>3, <2>4 DEF New
  <2> QED BY <2>3, <2>5
<1>6. \A o : (\E i \in New(objs) : objs[i] = o) =>
             o \in ToSet(objs) /\ Wanted(o) /\ o \notin ToSet(results)
  BY DEF New, ToSet
<1> QED BY <1>2, <1>4, <1>5, <1>6

\* The results at any time: none is twice there, nor are there too many.
Limited == results \in Seq(Objects) /\ Len(results) <= MaxResults /\ IsInjective(results)

LEMMA WithResults ==
  ASSUME Limited, NEW objs \in Seq(Objects)
  PROVE  LET w == With(objs) IN
         /\ w \in Seq(Objects) /\ Len(w) <= MaxResults /\ IsInjective(w)
         /\ ToSet(results) \subseteq ToSet(w) /\ Len(results) <= Len(w)
         /\ \A o \in ToSet(w) \ ToSet(results) : o \in ToSet(objs) /\ Wanted(o)
         /\ Len(w) >= MaxResults
              \/ \A o \in ToSet(objs) : Wanted(o) => o \in ToSet(w)
<1> DEFINE new == At(objs, New(objs))
           all == results \o new
           m   == IF Len(all) > MaxResults THEN MaxResults ELSE Len(all)
           w   == With(objs)
<1>1. /\ new \in Seq(Objects) /\ IsInjective(new)
      /\ \A o : o \in ToSet(new) <=>
                 o \in ToSet(objs) /\ Wanted(o) /\ o \notin ToSet(results)
  BY NewOnes
<1>2. w = SubSeq(all, 1, m)
  BY DEF With
<1> HIDE DEF new, w
<1>3. /\ Len(results) \in Nat /\ Len(new) \in Nat /\ MaxResults \in Nat
      /\ DOMAIN results = 1..Len(results) /\ DOMAIN new = 1..Len(new)
  BY <1>1, ConstantsAssumption DEF Limited
<1>4. /\ all \in Seq(Objects)
      /\ Len(all) = Len(results) + Len(new)
      /\ \A i \in 1..(Len(results) + Len(new)) :
           all[i] = IF i <= Len(results) THEN results[i]
                                         ELSE new[i - Len(results)]
  BY <1>1, ConcatProperties DEF Limited
<1> HIDE DEF all
<1>5. m \in Nat /\ Len(results) <= m /\ m <= MaxResults /\ m <= Len(all)
  BY <1>3, <1>4 DEF Limited
<1> HIDE DEF m
<1>6. /\ w \in Seq(Objects) /\ Len(w) = m /\ DOMAIN w = 1..m
      /\ \A i \in 1..m : w[i] = all[i]
  <2>1. \A i \in 1..m : all[i] \in Objects
    BY <1>4, <1>5
  <2>2. /\ SubSeq(all, 1, m) \in Seq(Objects)
        /\ Len(SubSeq(all, 1, m)) = IF 1 <= m THEN m - 1 + 1 ELSE 0
        /\ \A i \in 1..(m - 1 + 1) : SubSeq(all, 1, m)[i] = all[1 + i - 1]
    BY <1>5, <2>1, SubSeqProperties
  <2> QED BY <1>2, <1>5, <2>2
<1>7. \A i \in 1..m : \/ i \in DOMAIN results /\ w[i] = results[i]
                      \/ i - Len(results) \in DOMAIN new /\ w[i] = new[i - Len(results)]
  BY <1>3, <1>4, <1>5, <1>6
<1>8. IsInjective(w)
  <2> SUFFICES ASSUME NEW i \in 1..m, NEW j \in 1..m, w[i] = w[j]
               PROVE  i = j
    BY <1>6 DEF IsInjective
  <2>1. \A k \in DOMAIN results, l \in DOMAIN new : results[k] # new[l]
    BY <1>1 DEF ToSet
  <2>2. \A k, l \in DOMAIN new : new[k] = new[l] => k = l
    BY <1>1 DEF IsInjective
  <2>3. \A k, l \in DOMAIN results : results[k] = results[l] => k = l
    BY DEF Limited, IsInjective
  <2>4. i - Len(results) = j - Len(results) => i = j
    BY <1>3, <1>5
  <2> QED BY <1>7, <2>1, <2>2, <2>3, <2>4
<1>9. ToSet(results) \subseteq ToSet(w)
  <2>1. \A i \in DOMAIN results : i \in 1..m /\ w[i] = results[i]
    BY <1>3, <1>4, <1>5, <1>6
  <2> QED BY <1>6, <2>1 DEF ToSet
<1>10. ASSUME NEW o \in ToSet(w) \ ToSet(results)
       PROVE  o \in ToSet(objs) /\ Wanted(o)
  <2>1. PICK i \in 1..m : w[i] = o
    BY <1>6 DEF ToSet
  <2>2. o \in ToSet(new)
    BY <1>7, <2>1 DEF ToSet
  <2> QED BY <1>1, <2>2
<1>11. ASSUME Len(w) < MaxResults, NEW o \in ToSet(objs), Wanted(o)
       PROVE  o \in ToSet(w)
  <2>1. m = Len(all)
    BY <1>3, <1>4, <1>5, <1>6, <1>11 DEF m
  <2>2. CASE o \in ToSet(new)
    <3>1. PICK k \in 1..Len(new) : new[k] = o
      BY <1>3, <2>2 DEF ToSet
    <3>2. /\ k + Len(results) \in 1..m
          /\ ~(k + Len(results) <= Len(results))
          /\ k + Len(results) - Len(results) = k
      BY <1>3, <1>4, <2>1, <3>1
    <3>3. w[k + Len(results)] = all[k + Len(results)]
      BY <1>6, <3>2
    <3>4. all[k + Len(results)] = new[k]
      BY <1>4, <2>1, <3>2
    <3> QED BY <1>6, <3>1, <3>2, <3>3, <3>4 DEF ToSet
  <2> QED BY <1>1, <1>9, <1>11, <2>2
<1> QED
  <2>1. Len(w) \in Nat /\ Len(w) <= MaxResults /\ Len(results) <= Len(w)
    BY <1>5, <1>6
  <2> QED BY <1>3, <1>6, <1>8, <1>9, <1>10, <1>11, <2>1 DEF w

\* The objects of a description.
LEMMA DescribedColumns ==
  ASSUME NEW t \in Tables, NEW d \in SUBSET Columns
  PROVE  /\ ColumnObjects(t, d) \in Seq(Objects)
         /\ \A o : o \in ToSet(ColumnObjects(t, d)) <=>
                    \E c \in d : o = [table |-> t, column |-> c]
<1> DEFINE I == {i \in DOMAIN ColumnOrder : ColumnOrder[i] \in d}
           shown == At(ColumnOrder, I)
           obj(c) == [table |-> t, column |-> c]
<1>1. /\ ColumnOrder \in Seq(Columns)
      /\ \A c \in Columns : \E i \in DOMAIN ColumnOrder : ColumnOrder[i] = c
  BY ConstantsAssumption DEF ToSet
<1>2. /\ shown \in Seq(Columns)
      /\ \A c : c \in ToSet(shown) <=> \E i \in I : ColumnOrder[i] = c
  BY <1>1, AtElements
<1>3. ToSet(shown) = d
  BY <1>1, <1>2
<1>4. ColumnObjects(t, d) = [i \in DOMAIN shown |-> obj(shown[i])]
  BY DEF ColumnObjects
<1> HIDE DEF shown
<1>5. \A c \in Columns : obj(c) \in Objects
  BY DEF Objects
<1>6. DOMAIN shown = 1..Len(shown) /\ Len(shown) \in Nat
      /\ \A i \in DOMAIN shown : shown[i] \in Columns
  BY <1>2
<1>7. ColumnObjects(t, d) \in Seq(Objects)
  <2>1. ColumnObjects(t, d) \in [1..Len(shown) -> Objects]
    BY <1>4, <1>5, <1>6
  <2> QED BY <1>6, <2>1
<1>8. \A o : o \in ToSet(ColumnObjects(t, d)) <=> \E i \in DOMAIN shown : o = obj(shown[i])
  BY <1>4 DEF ToSet
<1>9. \A o : (\E i \in DOMAIN shown : o = obj(shown[i])) <=> (\E c \in d : o = obj(c))
  BY <1>3 DEF ToSet
<1> QED BY <1>7, <1>8, <1>9

\* What ListTables answers.
LEMMA ListedTables ==
  ASSUME NEW s \in DOMAIN Listing
  PROVE  /\ Listed(s) \in Seq(Tables)
         /\ \A t : t \in ToSet(Listed(s)) <=>
                    t \in ToSet(Listing[s]) /\ catalog[t] # Absent
<1> DEFINE I == {i \in DOMAIN Listing[s] : catalog[Listing[s][i]] # Absent}
<1>1. Listing[s] \in Seq(Tables)
  BY ConstantsAssumption
<1>2. /\ Listed(s) \in Seq(Tables)
      /\ \A t : t \in ToSet(Listed(s)) <=> \E i \in I : Listing[s][i] = t
  BY <1>1, AtElements DEF Listed
<1>3. \A t : (\E i \in I : Listing[s][i] = t) <=>
             t \in ToSet(Listing[s]) /\ catalog[t] # Absent
  BY DEF ToSet
<1> QED BY <1>2, <1>3

\* The schemas still to be visited are the last ones of all.
LEMMA SuffixElements ==
  ASSUME NEW T, NEW s \in Seq(T), NEW t \in Seq(T)
  PROVE  IsSuffix(s, t) <=>
           /\ Len(s) <= Len(t)
           /\ \A i \in 1..Len(s) : s[i] = t[Len(t) - Len(s) + i]
<1> DEFINE m == Len(s)
           n == Len(t)
           rs == Reverse(s)
           rt == Reverse(t)
<1>1. /\ m \in Nat /\ n \in Nat
      /\ \A i \in 1..m : s[i] \in T
      /\ \A i \in 1..n : t[i] \in T
  OBVIOUS
<1> HIDE DEF m, n
<1>2. /\ rs \in [1..m -> T] /\ \A i \in 1..m : rs[i] = s[m - i + 1]
      /\ rt \in [1..n -> T] /\ \A i \in 1..n : rt[i] = t[n - i + 1]
  <2>1. rs = [i \in 1..m |-> s[m - i + 1]] /\ rt = [i \in 1..n |-> t[n - i + 1]]
    BY DEF Reverse, m, n
  <2>2. /\ \A i \in 1..m : m - i + 1 \in 1..m
        /\ \A i \in 1..n : n - i + 1 \in 1..n
    BY <1>1
  <2> QED BY <1>1, <2>1, <2>2
<1> HIDE DEF rs, rt
<1>3. rs \in Seq(T) /\ Len(rs) = m /\ rt \in Seq(T) /\ Len(rt) = n
  BY <1>1, <1>2
<1>4. IsSuffix(s, t) <=> m <= n /\ SubSeq(rs, 1, m) = SubSeq(rt, 1, m)
  BY <1>3 DEF IsSuffix, IsPrefix, rs, rt
<1>5. ASSUME m <= n
      PROVE  SubSeq(rs, 1, m) = SubSeq(rt, 1, m) <=> \A i \in 1..m : rs[i] = rt[i]
  <2>1. /\ SubSeq(rs, 1, m) \in Seq(T) /\ Len(SubSeq(rs, 1, m)) = m
        /\ \A i \in 1..m : SubSeq(rs, 1, m)[i] = rs[i]
    <3>1. \A i \in 1..m : rs[i] \in T
      BY <1>2
    <3>2. /\ SubSeq(rs, 1, m) \in Seq(T)
          /\ Len(SubSeq(rs, 1, m)) = IF 1 <= m THEN m - 1 + 1 ELSE 0
          /\ \A i \in 1..(m - 1 + 1) : SubSeq(rs, 1, m)[i] = rs[1 + i - 1]
      BY <1>1, <3>1, SubSeqProperties
    <3> QED BY <1>1, <3>2
  <2>2. /\ SubSeq(rt, 1, m) \in Seq(T) /\ Len(SubSeq(rt, 1, m)) = m
        /\ \A i \in 1..m : SubSeq(rt, 1, m)[i] = rt[i]
    <3>1. \A i \in 1..m : rt[i] \in T
      BY <1>1, <1>2, <1>5
    <3>2. /\ SubSeq(rt, 1, m) \in Seq(T)
          /\ Len(SubSeq(rt, 1, m)) = IF 1 <= m THEN m - 1 + 1 ELSE 0
          /\ \A i \in 1..(m - 1 + 1) : SubSeq(rt, 1, m)[i] = rt[1 + i - 1]
      BY <1>1, <3>1, SubSeqProperties
    <3> QED BY <1>1, <3>2
  <2>3. (\A i \in 1..m : rs[i] = rt[i]) => SubSeq(rs, 1, m) = SubSeq(rt, 1, m)
    <3> SUFFICES ASSUME \A i \in 1..m : rs[i] = rt[i]
                 PROVE  SubSeq(rs, 1, m) = SubSeq(rt, 1, m)
      OBVIOUS
    <3> QED BY <2>1, <2>2, SeqEqual
  <2> QED BY <2>1, <2>2, <2>3
<1>6. ASSUME m <= n
      PROVE  (\A i \in 1..m : rs[i] = rt[i]) <=> (\A i \in 1..m : s[i] = t[n - m + i])
  <2>1. \A i \in 1..m : /\ m - i + 1 \in 1..m /\ i \in 1..n
                        /\ m - (m - i + 1) + 1 = i
                        /\ n - m + (m - i + 1) = n - i + 1
                        /\ n - (m - i + 1) + 1 = n - m + i
    BY <1>1, <1>6
  <2>2. ASSUME \A i \in 1..m : rs[i] = rt[i], NEW i \in 1..m
        PROVE  s[i] = t[n - m + i]
    <3>1. m - i + 1 \in 1..m /\ m - i + 1 \in 1..n
      BY <2>1
    <3>2. rs[m - i + 1] = s[i] /\ rt[m - i + 1] = t[n - m + i]
      BY <1>2, <2>1, <3>1
    <3> QED BY <2>2, <3>1, <3>2
  <2>3. ASSUME \A i \in 1..m : s[i] = t[n - m + i], NEW i \in 1..m
        PROVE  rs[i] = rt[i]
    BY <1>2, <2>1, <2>3
  <2> QED BY <2>2, <2>3
<1>7. IsSuffix(s, t) <=> m <= n /\ \A i \in 1..m : s[i] = t[n - m + i]
  BY <1>4, <1>5, <1>6
<1> QED BY <1>7 DEF m, n

LEMMA TailSuffix ==
  ASSUME NEW T, NEW s \in Seq(T), NEW t \in Seq(T), IsSuffix(s, t), s # << >>
  PROVE  IsSuffix(Tail(s), t)
<1>1. Tail(s) \in Seq(T) /\ Len(Tail(s)) = Len(s) - 1
      /\ \A i \in 1..Len(Tail(s)) : Tail(s)[i] = s[i + 1]
  BY HeadTailProperties
<1>2. Len(s) <= Len(t) /\ \A i \in 1..Len(s) : s[i] = t[Len(t) - Len(s) + i]
  BY SuffixElements
<1>3. Len(s) \in Nat /\ Len(t) \in Nat
  OBVIOUS
<1>4. \A i \in 1..Len(Tail(s)) : /\ i + 1 \in 1..Len(s)
                                  /\ Len(t) - Len(s) + (i + 1) = Len(t) - Len(Tail(s)) + i
  BY <1>1, <1>3
<1>5. \A i \in 1..Len(Tail(s)) : Tail(s)[i] = t[Len(t) - Len(Tail(s)) + i]
  BY <1>1, <1>2, <1>4
<1>6. Len(Tail(s)) <= Len(t)
  BY <1>1, <1>2, <1>3
<1> QED BY <1>1, <1>5, <1>6, SuffixElements

-----------------------------------------------------------------------------
(* Types, and the limit.                                                   *)

LEMMA HeadAndTail ==
  ASSUME NEW T, NEW s \in Seq(T), s # << >>
  PROVE  /\ Head(s) \in T /\ Tail(s) \in Seq(T)
         /\ ToSet(s) = {Head(s)} \cup ToSet(Tail(s))
<1>1. /\ Head(s) \in T /\ Tail(s) \in Seq(T)
      /\ Len(Tail(s)) = Len(s) - 1
      /\ \A i \in 1..Len(Tail(s)) : Tail(s)[i] = s[i + 1]
  BY HeadTailProperties
<1>2. Len(s) \in Nat /\ Len(s) # 0 /\ Head(s) = s[1]
  BY EmptySeq
<1>3. \A i \in 1..Len(s) : i = 1 \/ (i - 1 \in 1..Len(Tail(s)) /\ (i - 1) + 1 = i)
  BY <1>1, <1>2
<1>4. \A i \in 1..Len(Tail(s)) : i + 1 \in 1..Len(s)
  BY <1>1, <1>2
<1>5. 1 \in 1..Len(s)
  BY <1>2
<1>6. DOMAIN s = 1..Len(s) /\ DOMAIN Tail(s) = 1..Len(Tail(s))
  BY <1>1
<1>7. ASSUME NEW x PROVE x \in ToSet(s) <=> x \in {Head(s)} \cup ToSet(Tail(s))
  <2>1. x \in ToSet(s) => x = Head(s) \/ x \in ToSet(Tail(s))
    <3> SUFFICES ASSUME NEW i \in 1..Len(s), x = s[i]
                 PROVE  x = Head(s) \/ x \in ToSet(Tail(s))
      BY <1>6 DEF ToSet
    <3>1. CASE i = 1
      BY <1>2, <3>1
    <3>2. CASE i - 1 \in 1..Len(Tail(s)) /\ (i - 1) + 1 = i
      <4>1. Tail(s)[i - 1] = s[i]
        BY <1>1, <3>2
      <4> QED BY <1>6, <3>2, <4>1 DEF ToSet
    <3> QED BY <1>3, <3>1, <3>2
  <2>2. x \in ToSet(Tail(s)) => x \in ToSet(s)
    BY <1>1, <1>4, <1>6 DEF ToSet
  <2>3. Head(s) \in ToSet(s)
    BY <1>2, <1>5, <1>6 DEF ToSet
  <2> QED BY <2>1, <2>2, <2>3
<1> QED BY <1>1, <1>7

LEMMA NoObject == TableObject(NoTable) \notin Objects
BY ConstantsAssumption DEF TableObject, Objects

LEMMA ObjectParts ==
  ASSUME NEW o \in Objects
  PROVE  /\ o.table \in Tables /\ o.column \in Columns \cup {NoColumn}
         /\ o = [table |-> o.table, column |-> o.column]
BY DEF Objects

\* What Find does, whatever it is given.
LEMMA Finds ==
  ASSUME Limited, NEW objs \in Seq(Objects), Find(objs)
  PROVE  /\ Limited'
         /\ ToSet(results) \subseteq ToSet(results') /\ (Full => Full')
         /\ \A o \in ToSet(results') \ ToSet(results) : o \in ToSet(objs) /\ Wanted(o)
         /\ Len(results') >= MaxResults
              \/ \A o \in ToSet(objs) : Wanted(o) => o \in ToSet(results')
         /\ kept' \subseteq kept \cup Existing(catalog)
<1>1. results' = With(objs) /\ kept' \subseteq kept \cup Existing(catalog)
  BY DEF Find
<1>2. Len(results) <= Len(results')
  BY <1>1, WithResults
<1>3. Limited'
  BY <1>1, WithResults DEF Limited
<1>4. Full => Full'
  BY <1>2, <1>3, ConstantsAssumption DEF Full, Limited
<1> QED BY <1>1, <1>3, <1>4, WithResults

LEMMA OneTable ==
  ASSUME NEW t \in Tables
  PROVE  /\ <<TableObject(t)>> \in Seq(Objects)
         /\ ToSet(<<TableObject(t)>>) = {TableObject(t)}
BY DEF TableObject, Objects, ToSet

LEMMA Uses ==
  ASSUME TypeOK, Limited, NEW d \in SUBSET Columns, table \in Tables, Use(d)
  PROVE  /\ Limited' /\ kept' \subseteq Objects
         /\ answer' \in {"none", "found", "missing"}
         /\ pc' \in {"schema", "table", "answered"}
         /\ Fetching => pc' = "answered"
<1>1. ColumnObjects(table, d) \in Seq(Objects)
  BY DescribedColumns
<1>2. CASE Fetching
  BY <1>2 DEF Use, Limited, TypeOK
<1>3. CASE ~Fetching
  <2>1. Find(ColumnObjects(table, d))
    BY <1>3 DEF Use
  <2>2. Limited' /\ kept' \subseteq kept \cup Existing(catalog)
    BY <1>1, <2>1, Finds
  <2> QED BY <1>3, <2>2 DEF Use, TypeOK, Existing
<1> QED BY <1>2, <1>3

LEMMA Descriptions ==
  ASSUME TypeOK
  PROVE  /\ \A t \in Tables : Described(catalog[t]) \in SUBSET Columns
         /\ \A t \in Tables : cache[t] # NoEntry => cache[t] \in SUBSET Columns
BY DEF TypeOK, Described

LEMMA SchemaSuffixes ==
  IsSuffix(<< >>, Schemas) /\ IsSuffix(Schemas, Schemas)
<1> DEFINE none == << >>
<1>1. Schemas \in Seq(DOMAIN Listing) /\ Len(Schemas) \in Nat
  BY ConstantsAssumption
<1>2. none \in Seq(DOMAIN Listing) /\ Len(none) = 0
  OBVIOUS
<1> HIDE DEF none
<1>3. \A i \in 1..Len(none) : none[i] = Schemas[Len(Schemas) - Len(none) + i]
  <2>1. \A i \in 1..0 : FALSE
    OBVIOUS
  <2> QED BY <1>2, <2>1
<1>4. IsSuffix(none, Schemas)
  <2>1. Len(none) <= Len(Schemas)
    BY <1>1, <1>2
  <2> QED BY <1>1, <1>2, <1>3, <2>1, SuffixElements
<1>5. \A i \in 1..Len(Schemas) : Len(Schemas) - Len(Schemas) + i = i
  BY <1>1
<1>6. IsSuffix(Schemas, Schemas)
  BY <1>1, <1>5, SuffixElements
<1> QED BY <1>4, <1>6 DEF none

LEMMA InitTyped == Init => TypeOK /\ Limited
<1> SUFFICES ASSUME Init PROVE TypeOK /\ Limited
  OBVIOUS
<1>1. /\ << >> \in Seq(Objects) /\ << >> \in Seq(Tables)
      /\ << >> \in Seq(DOMAIN Listing)
      /\ Len(<< >>) = 0 /\ IsInjective(<< >>)
  BY DEF IsInjective
<1>2. IsSuffix(<< >>, Schemas)
  BY SchemaSuffixes
<1>3. Limited
  BY <1>1, ConstantsAssumption DEF Init, Limited
<1>4. past \in [Tables -> SUBSET SUBSET Columns]
  BY DEF Init, Described
<1>5. TypeOK
  BY <1>1, <1>2, <1>4, ConstantsAssumption DEF Init, TypeOK, Fetching
<1> QED BY <1>3, <1>5

LEMMA StepTyped == TypeOK /\ Limited /\ [Next]_vars => TypeOK' /\ Limited'
<1> SUFFICES ASSUME TypeOK, Limited, [Next]_vars
             PROVE  TypeOK' /\ Limited'
  OBVIOUS
<1>1. ASSUME UNCHANGED results PROVE Limited'
  BY <1>1 DEF Limited
<1>2. ASSUME NEW M \in Queries, Start(M) PROVE TypeOK' /\ Limited'
  <2>1. IsSuffix(Schemas, Schemas) /\ Schemas \in Seq(DOMAIN Listing)
    BY SchemaSuffixes, ConstantsAssumption
  <2> QED BY <1>1, <1>2, <2>1 DEF Start, Trans, TypeOK, Existing, Fetching
<1>3. CASE ListTables
  <2>1. schemas \in Seq(DOMAIN Listing) /\ Schemas \in Seq(DOMAIN Listing) /\ schemas # << >>
    BY <1>3, ConstantsAssumption DEF ListTables, TypeOK
  <2>2. /\ Head(schemas) \in DOMAIN Listing
        /\ Tail(schemas) \in Seq(DOMAIN Listing)
        /\ IsSuffix(Tail(schemas), Schemas)
    BY <2>1, HeadAndTail, TailSuffix DEF TypeOK
  <2>3. tables' \in Seq(Tables)
    BY <1>3, <2>2, ListedTables DEF ListTables
  <2> QED BY <1>1, <1>3, <2>2, <2>3 DEF ListTables, Trans, TypeOK, Fetching
<1>4. CASE Finish
  <2>1. << >> \in Seq(DOMAIN Listing) /\ IsSuffix(<< >>, Schemas)
    BY SchemaSuffixes
  <2> QED BY <1>1, <1>4, <2>1 DEF Finish, Trans, TypeOK, Fetching
<1>5. CASE NextTable
  <2>1. Head(tables) \in Tables /\ Tail(tables) \in Seq(Tables)
    BY <1>5, HeadAndTail DEF NextTable, TypeOK
  <2>2. Limited' /\ kept' \subseteq kept \cup Existing(catalog)
    BY <1>5, <2>1, OneTable, Finds DEF NextTable
  <2> QED BY <1>5, <2>1, <2>2, ConstantsAssumption
          DEF NextTable, TypeOK, Limited, Fetching, Existing
<1>6. CASE NoMoreTables
  BY <1>1, <1>6 DEF NoMoreTables, Trans, TypeOK, Fetching
<1>7. CASE Hit
  <2>1. table \in Tables /\ cache[table] \in SUBSET Columns
    BY <1>7, Descriptions DEF Hit, TypeOK
  <2>2. /\ Limited' /\ kept' \subseteq Objects
        /\ answer' \in {"none", "found", "missing"}
        /\ pc' \in {"schema", "table", "answered"}
        /\ Fetching => pc' = "answered"
    BY <1>7, <2>1, Uses DEF Hit
  <2> QED BY <1>7, <2>1, <2>2 DEF Hit, TypeOK, Limited, Fetching
<1>8. CASE Miss
  BY <1>1, <1>8 DEF Miss, Trans, TypeOK, Fetching
<1>9. CASE ReadColumns
  <2>1. Described(catalog[table]) \in SUBSET Columns
    BY <1>9, Descriptions DEF ReadColumns, Trans, TypeOK
  <2> QED BY <1>1, <1>9, <2>1 DEF ReadColumns, Trans, TypeOK, Fetching
<1>10. CASE Store
  <2>1. table \in Tables /\ desc \in SUBSET Columns
    BY <1>10 DEF Store, TypeOK
  <2>2. /\ Limited' /\ kept' \subseteq Objects
        /\ answer' \in {"none", "found", "missing"}
        /\ pc' \in {"schema", "table", "answered"}
        /\ Fetching => pc' = "answered"
    BY <1>10, <2>1, Uses DEF Store
  <2> QED BY <1>10, <2>1, <2>2 DEF Store, TypeOK, Limited, Fetching
<1>11. CASE Fails
  BY <1>1, <1>11 DEF Fails, TypeOK, Fetching
<1>12. ASSUME NEW o \in Objects, Fetch(o) PROVE TypeOK' /\ Limited'
  <2>1. o.table \in Tables /\ o # TableObject(NoTable)
    BY ObjectParts, NoObject
  <2> QED BY <1>1, <1>12, <2>1, ConstantsAssumption
          DEF Fetch, Trans, TypeOK, Fetching
<1>13. ASSUME NEW t \in Tables, NEW d \in {Absent} \cup SUBSET Columns, Change(t, d)
       PROVE  TypeOK' /\ Limited'
  <2>1. UNCHANGED <<cache, pc, matches, schemas, tables, table, desc, results, goal,
                    answer, stale>>
    BY <1>13 DEF Change, search
  <2>2. /\ DOMAIN catalog' = Tables
        /\ \A u \in Tables : catalog'[u] = Absent \/ catalog'[u] \subseteq Columns
    BY <1>13 DEF Change, TypeOK
  <2>3. past' \in [Tables -> SUBSET SUBSET Columns]
    <3>1. Described(d) \in SUBSET Columns
      BY <1>13 DEF Described
    <3> QED BY <1>13, <3>1 DEF Change, TypeOK
  <2>4. steady' \cup kept' \cup seenAt' \subseteq Objects
    BY <1>13 DEF Change, TypeOK, Existing
  <2>5. changes' \in 0..MaxChanges
    BY <1>13, ConstantsAssumption DEF Change, TypeOK
  <2> QED BY <1>1, <2>1, <2>2, <2>3, <2>4, <2>5 DEF TypeOK, Fetching
<1>14. CASE ClearCache
  BY <1>1, <1>14 DEF ClearCache, search, TypeOK, Fetching
<1>15. ASSUME NEW t \in Tables, NEW d \in SUBSET Columns, OtherStores(t, d)
       PROVE  TypeOK' /\ Limited'
  BY <1>1, <1>15 DEF OtherStores, search, TypeOK, Fetching
<1>16. CASE UNCHANGED vars
  BY <1>1, <1>16 DEF vars, TypeOK, Fetching
<1> QED
  BY <1>2, <1>3, <1>4, <1>5, <1>6, <1>7, <1>8, <1>9, <1>10, <1>11, <1>12,
     <1>13, <1>14, <1>15, <1>16 DEF Next

\* The type invariant of Search.
THEOREM TypeCorrect == Spec => []TypeOK
<1>1. TypeOK /\ Limited => TypeOK
  OBVIOUS
<1> QED
  BY <1>1, InitTyped, StepTyped, PTL DEF Spec

-----------------------------------------------------------------------------
(* The invariant.  While a search runs, whatever it will have to find lies *)
(* in what it has found or in what it has still to visit.                  *)

Describing == pc \in {"lookup", "read", "store"}
Searching  == pc \in {"schema", "table", "lookup", "read", "store"} /\ ~Fetching

\* What is remembered of the objects is true of the catalog.
History ==
  /\ steady \cup kept \subseteq Existing(catalog)
  /\ pc = "idle" => steady = {} /\ kept = {} /\ results = << >> /\ tables = << >>
  /\ pc # "idle" => Existing(catalog) \subseteq seenAt

\* The tables listed have existed since the search began; none is left when
\* the next schema is due, unless there are enough results.
Listings ==
  /\ \A t \in ToSet(tables) : TableObject(t) \in seenAt
  /\ pc = "schema" => tables = << >> \/ Full

\* What has been read of the table being described has existed, and has the
\* columns that have existed ever since.
Description ==
  pc = "store" =>
    /\ ~Fetching => \A c \in desc : [table |-> table, column |-> c] \in seenAt
    /\ \A o \in steady \cup (kept \cap {goal}) :
         o.table = table /\ o.column # NoColumn => o.column \in desc

Remaining(o) ==
  \/ \E s \in ToSet(schemas) : o.table \in ToSet(Listing[s])
  \/ o.table \in ToSet(tables)
  \/ Describing /\ o.table = table /\ o.column # NoColumn

\* While a search is not cut off, it has found or has still to visit what is due.
Progress ==
  Searching /\ ~Full =>
    \A o \in steady : Due(o) => o \in ToSet(results) \/ Remaining(o)

Answering ==
  /\ Fetching /\ Describing => table = goal.table
  /\ answer # "none" => pc = "answered"
  /\ pc = "answered" => Fetching

Inv == TypeOK /\ Limited /\ History

IInv ==
  /\ Inv /\ Listings /\ Description /\ Progress /\ Answering
  /\ Complete /\ Sound /\ FoundIsFetched

-----------------------------------------------------------------------------

LEMMA Existence ==
  ASSUME TypeOK, NEW t \in Tables
  PROVE  /\ TableObject(t) \in Existing(catalog) <=> catalog[t] # Absent
         /\ \A c \in Described(catalog[t]) : [table |-> t, column |-> c] \in Existing(catalog)
         /\ \A o \in Existing(catalog) :
              o.table = t => /\ catalog[t] # Absent
                             /\ o.column # NoColumn => o.column \in Described(catalog[t])
<1>1. catalog[t] = Absent \/ catalog[t] \in SUBSET Columns
  BY DEF TypeOK
<1>2. \A c \in Columns \cup {NoColumn} :
        /\ [table |-> t, column |-> c] \in Objects
        /\ [table |-> t, column |-> c].table = t
        /\ [table |-> t, column |-> c].column = c
  BY DEF Objects
<1>3. TableObject(t) \in Existing(catalog) <=> catalog[t] # Absent
  BY <1>2 DEF TableObject, Existing
<1>4. ASSUME NEW c \in Described(catalog[t])
      PROVE  [table |-> t, column |-> c] \in Existing(catalog)
  <2>1. catalog[t] # Absent /\ c \in catalog[t] /\ c \in Columns
    BY <1>1, <1>4 DEF Described
  <2> QED BY <1>2, <2>1 DEF Existing
<1>5. ASSUME NEW o \in Existing(catalog), o.table = t
      PROVE  /\ catalog[t] # Absent
             /\ o.column # NoColumn => o.column \in Described(catalog[t])
  BY <1>5 DEF Existing, Described
<1> QED BY <1>3, <1>4, <1>5

LEMMA SameWanted ==
  ASSUME UNCHANGED matches, NEW o
  PROVE  Wanted(o)' <=> Wanted(o)
BY DEF Wanted, SchemaMatches

\* The steps of the others, and none.
World ==
  \/ \E t \in Tables, d \in {Absent} \cup SUBSET Columns : Change(t, d)
  \/ ClearCache
  \/ \E t \in Tables, d \in SUBSET Columns : OtherStores(t, d)
  \/ UNCHANGED vars

LEMMA WorldSteps ==
  ASSUME World
  PROVE  /\ UNCHANGED <<pc, matches, schemas, tables, table, desc, results, goal,
                        answer, stale>>
         /\ steady' \subseteq steady /\ kept' \subseteq kept /\ seenAt \subseteq seenAt'
         /\ UNCHANGED <<catalog, steady, kept, seenAt>>
              \/ /\ steady' \cup kept' \subseteq Existing(catalog')
                 /\ Existing(catalog') \subseteq seenAt'
<1>1. ASSUME NEW t \in Tables, NEW d \in {Absent} \cup SUBSET Columns, Change(t, d)
      PROVE  /\ UNCHANGED <<pc, matches, schemas, tables, table, desc, results, goal,
                            answer, stale>>
             /\ steady' = steady \cap Existing(catalog')
             /\ kept' = kept \cap Existing(catalog')
             /\ seenAt' = seenAt \cup Existing(catalog')
  BY <1>1 DEF Change, search
<1>2. CASE \E t \in Tables, d \in {Absent} \cup SUBSET Columns : Change(t, d)
  BY <1>1, <1>2
<1>3. CASE ClearCache
  BY <1>3 DEF ClearCache, search
<1>4. CASE \E t \in Tables, d \in SUBSET Columns : OtherStores(t, d)
  BY <1>4 DEF OtherStores, search
<1>5. CASE UNCHANGED vars
  BY <1>5 DEF vars
<1> QED BY <1>2, <1>3, <1>4, <1>5 DEF World

\* Which steps there are.
LEMMA Steps ==
  ASSUME [Next]_vars
  PROVE  \/ \E M \in Queries : Start(M)
         \/ ListTables \/ Finish \/ NextTable \/ NoMoreTables
         \/ Hit \/ Miss \/ ReadColumns \/ Store \/ Fails
         \/ \E o \in Objects : Fetch(o)
         \/ World
BY DEF Next, World

LEMMA HistoryStep == Inv /\ [Next]_vars => History'
<1> SUFFICES ASSUME TypeOK, Limited, History, [Next]_vars PROVE History'
  BY DEF Inv
<1>1. ASSUME UNCHANGED <<catalog, steady, seenAt>>, kept' \subseteq kept \cup Existing(catalog),
             pc # "idle", pc' # "idle"
      PROVE  History'
  BY <1>1 DEF History
<1>2. ASSUME NEW M \in Queries, Start(M) PROVE History'
  BY <1>2 DEF Start, Trans, History
<1>3. CASE ListTables \/ Finish \/ NoMoreTables \/ Miss \/ ReadColumns \/ Fails
  BY <1>1, <1>3 DEF ListTables, Finish, NoMoreTables, Miss, ReadColumns, Fails, Trans
<1>4. CASE NextTable
  <2>1. Head(tables) \in Tables
    BY <1>4, HeadAndTail DEF NextTable, TypeOK
  <2>2. kept' \subseteq kept \cup Existing(catalog)
    BY <1>4, <2>1, OneTable, Finds DEF NextTable
  <2> QED BY <1>1, <1>4, <2>2 DEF NextTable
<1>5. ASSUME NEW d, Use(d) PROVE kept' \subseteq kept \cup Existing(catalog) /\ pc' # "idle"
  BY <1>5 DEF Use, Find
<1>6. CASE Hit
  BY <1>1, <1>5, <1>6 DEF Hit
<1>7. CASE Store
  BY <1>1, <1>5, <1>7 DEF Store
<1>8. ASSUME NEW o \in Objects, Fetch(o) PROVE History'
  BY <1>1, <1>8 DEF Fetch, Trans
<1>9. CASE World
  BY <1>9, WorldSteps DEF History
<1> QED BY <1>2, <1>3, <1>4, <1>6, <1>7, <1>8, <1>9, Steps

\* What a search makes of a description.
LEMMA SearchUses ==
  ASSUME TypeOK, Limited, ~Fetching, table \in Tables, NEW d \in SUBSET Columns, Use(d)
  PROVE  /\ ToSet(results) \subseteq ToSet(results') /\ (Full => Full')
         /\ \A o \in ToSet(results') \ ToSet(results) :
              Wanted(o) /\ \E c \in d : o = [table |-> table, column |-> c]
         /\ Full' \/ \A c \in d : Wanted([table |-> table, column |-> c])
                               => [table |-> table, column |-> c] \in ToSet(results')
         /\ pc' = IF Full' THEN "schema" ELSE "table"
         /\ UNCHANGED answer
<1> DEFINE objs == ColumnObjects(table, d)
<1>1. /\ objs \in Seq(Objects)
      /\ \A o : o \in ToSet(objs) <=> \E c \in d : o = [table |-> table, column |-> c]
  BY DescribedColumns
<1>2. /\ Find(objs) /\ UNCHANGED answer
      /\ pc' = IF Len(results') >= MaxResults THEN "schema" ELSE "table"
  BY DEF Use
<1> HIDE DEF objs
<1> QED BY <1>1, <1>2, Finds DEF Full

\* What a search makes of the next table.
LEMMA TableFinds ==
  ASSUME TypeOK, Limited, NextTable
  PROVE  LET t == Head(tables) IN
         /\ t \in Tables /\ ToSet(tables) = {t} \cup ToSet(tables') /\ table' = t
         /\ ToSet(results) \subseteq ToSet(results') /\ (Full => Full')
         /\ \A o \in ToSet(results') \ ToSet(results) : Wanted(o) /\ o = TableObject(t)
         /\ Full' \/ (Wanted(TableObject(t)) => TableObject(t) \in ToSet(results'))
         /\ pc' = IF Full' THEN "schema" ELSE "lookup"
<1> DEFINE t == Head(tables)
<1>1. t \in Tables /\ ToSet(tables) = {t} \cup ToSet(Tail(tables))
  BY HeadAndTail DEF NextTable, TypeOK
<1>2. <<TableObject(t)>> \in Seq(Objects) /\ ToSet(<<TableObject(t)>>) = {TableObject(t)}
  BY <1>1, OneTable
<1>3. /\ Find(<<TableObject(t)>>) /\ table' = t /\ tables' = Tail(tables)
      /\ pc' = IF Full' THEN "schema" ELSE "lookup"
  BY DEF NextTable, Full
<1> DEFINE objs == <<TableObject(t)>>
<1>4. Full' <=> Len(results') >= MaxResults
  BY DEF Full
<1> HIDE DEF t, objs
<1>5. objs \in Seq(Objects) /\ Find(objs) /\ ToSet(objs) = {TableObject(t)}
  BY <1>2, <1>3 DEF objs
<1>6. /\ ToSet(results) \subseteq ToSet(results') /\ (Full => Full')
      /\ \A o \in ToSet(results') \ ToSet(results) : o \in ToSet(objs) /\ Wanted(o)
      /\ Full' \/ \A o \in ToSet(objs) : Wanted(o) => o \in ToSet(results')
  BY <1>4, <1>5, Finds
<1>7. Full' \/ (Wanted(TableObject(t)) => TableObject(t) \in ToSet(results'))
  BY <1>5, <1>6
<1>8. \A o \in ToSet(results') \ ToSet(results) : Wanted(o) /\ o = TableObject(t)
  BY <1>5, <1>6
<1> QED BY <1>1, <1>3, <1>6, <1>7, <1>8 DEF t

LEMMA HitTyped ==
  ASSUME TypeOK, Hit
  PROVE  /\ table \in Tables /\ cache[table] \in SUBSET Columns
         /\ stale \subseteq stale'
         /\ table \in stale' \/ cache[table] = Described(catalog[table])
BY Descriptions DEF Hit, TypeOK

LEMMA StoreTyped ==
  ASSUME TypeOK, Store
  PROVE  table \in Tables /\ desc \in SUBSET Columns
BY DEF Store, TypeOK

LEMMA ListingsStep == Inv /\ Listings /\ [Next]_vars => Listings'
<1> SUFFICES ASSUME TypeOK, Limited, History, Listings, [Next]_vars
             PROVE  Listings'
  BY DEF Inv
<1>1. ASSUME UNCHANGED <<tables, seenAt>>, pc' # "schema" PROVE Listings'
  BY <1>1 DEF Listings
<1>2. ASSUME NEW M \in Queries, Start(M) PROVE Listings'
  <2>1. tables' = << >> /\ ToSet(tables') = {}
    BY <1>2 DEF Start, Trans, History, ToSet
  <2> QED BY <2>1 DEF Listings
<1>3. CASE ListTables
  <2>1. Head(schemas) \in DOMAIN Listing /\ tables' = Listed(Head(schemas))
    BY <1>3, HeadAndTail DEF ListTables, TypeOK
  <2>2. ASSUME NEW t \in ToSet(tables') PROVE TableObject(t) \in seenAt'
    <3>1. tables' \in Seq(Tables) /\ catalog[t] # Absent
      BY <2>1, <2>2, ListedTables
    <3>2. t \in Tables
      BY <2>2, <3>1 DEF ToSet
    <3>3. TableObject(t) \in Existing(catalog)
      BY <3>1, <3>2, Existence
    <3> QED BY <1>3, <3>3 DEF ListTables, Trans, History
  <2> QED BY <1>3, <2>2 DEF ListTables, Trans, Listings
<1>4. CASE Finish \/ Miss \/ ReadColumns \/ Fails
  BY <1>1, <1>4 DEF Finish, Miss, ReadColumns, Fails, Trans
<1>5. CASE NextTable
  BY <1>5, TableFinds DEF NextTable, Listings
<1>6. CASE NoMoreTables
  BY <1>6 DEF NoMoreTables, Trans, Listings
<1>7. ASSUME NEW d \in SUBSET Columns, table \in Tables, Use(d), UNCHANGED <<tables, seenAt>>
      PROVE  Listings'
  <2>1. pc' # "schema" \/ Full'
    BY <1>7, SearchUses DEF Use
  <2> QED BY <1>7, <2>1 DEF Listings
<1>8. CASE Hit
  BY <1>7, <1>8, HitTyped DEF Hit
<1>9. CASE Store
  BY <1>7, <1>9, StoreTyped DEF Store
<1>10. ASSUME NEW o \in Objects, Fetch(o) PROVE Listings'
  BY <1>1, <1>10 DEF Fetch, Trans
<1>11. CASE World
  BY <1>11, WorldSteps DEF Listings, Full
<1> QED
  BY <1>2, <1>3, <1>4, <1>5, <1>6, <1>8, <1>9, <1>10, <1>11, Steps

LEMMA DescriptionStep == Inv /\ Description /\ [Next]_vars => Description'
<1> SUFFICES ASSUME TypeOK, Limited, History, Description, [Next]_vars
             PROVE  Description'
  BY DEF Inv
<1>1. ASSUME pc' # "store" PROVE Description'
  BY <1>1 DEF Description
<1>2. CASE ReadColumns
  <2>1. /\ pc = "read" /\ table \in Tables /\ desc' = Described(catalog[table])
        /\ UNCHANGED <<table, goal, steady, kept, seenAt>>
    BY <1>2 DEF ReadColumns, Trans, TypeOK
  <2>2. \A c \in desc' : [table |-> table, column |-> c] \in seenAt
    BY <2>1, Existence DEF History
  <2>3. \A o \in steady \cup kept :
          o.table = table /\ o.column # NoColumn => o.column \in desc'
    BY <2>1, Existence DEF History
  <2> QED BY <2>1, <2>2, <2>3 DEF Description
<1>3. ASSUME NEW d, Use(d) PROVE pc' # "store"
  BY <1>3 DEF Use
<1>4. CASE World
  BY <1>4, WorldSteps DEF Description, Fetching
<1>5. CASE \E M \in Queries : Start(M)
  BY <1>1, <1>5 DEF Start, Trans
<1>6. CASE ListTables \/ Finish \/ NoMoreTables \/ Miss \/ Fails
  BY <1>1, <1>6 DEF ListTables, Finish, NoMoreTables, Miss, Fails, Trans
<1>7. CASE NextTable
  BY <1>1, <1>7 DEF NextTable
<1>8. CASE Hit \/ Store
  BY <1>1, <1>3, <1>8 DEF Hit, Store
<1>9. CASE \E o \in Objects : Fetch(o)
  BY <1>1, <1>9 DEF Fetch, Trans
<1> QED BY <1>2, <1>4, <1>5, <1>6, <1>7, <1>8, <1>9, Steps

LEMMA AnsweringStep == Inv /\ Answering /\ [Next]_vars => Answering'
<1> SUFFICES ASSUME TypeOK, Limited, Answering, [Next]_vars PROVE Answering'
  BY DEF Inv
<1>1. \A o \in Objects : o # TableObject(NoTable)
  BY NoObject
<1>2. ASSUME NEW d \in SUBSET Columns, table \in Tables, Use(d),
             pc \in {"lookup", "store"}, UNCHANGED <<table, goal>>
      PROVE  Answering'
  <2>1. CASE Fetching
    BY <1>2, <2>1 DEF Use, Answering, Fetching, Describing
  <2>2. CASE ~Fetching
    BY <1>2, <2>2, SearchUses DEF Answering, Fetching, Describing
  <2> QED BY <2>1, <2>2
<1>3. CASE Hit
  BY <1>2, <1>3, HitTyped DEF Hit
<1>4. CASE Store
  BY <1>2, <1>4, StoreTyped DEF Store
<1>5. CASE \E M \in Queries : Start(M)
  BY <1>5 DEF Start, Trans, Answering, Fetching, Describing, TypeOK
<1>6. CASE ListTables \/ Finish \/ NoMoreTables \/ Miss \/ ReadColumns \/ Fails
  BY <1>6 DEF ListTables, Finish, NoMoreTables, Miss, ReadColumns, Fails, Trans,
              Answering, Fetching, Describing
<1>7. CASE NextTable
  BY <1>7 DEF NextTable, Answering, Fetching, Describing, TypeOK
<1>8. ASSUME NEW o \in Objects, Fetch(o) PROVE Answering'
  BY <1>1, <1>8 DEF Fetch, Trans, Answering, Fetching, Describing
<1>9. CASE World
  BY <1>9, WorldSteps DEF Answering, Fetching, Describing
<1> QED BY <1>3, <1>4, <1>5, <1>6, <1>7, <1>8, <1>9, Steps

LEMMA SameDue ==
  ASSUME UNCHANGED matches, stale \subseteq stale', NEW o, Due(o)'
  PROVE  Due(o)
BY SameWanted DEF Due

LEMMA ProgressStep ==
  Inv /\ Listings /\ Description /\ Progress /\ [Next]_vars => Progress'
<1> SUFFICES ASSUME TypeOK, Limited, History, Listings, Description, Progress,
                    [Next]_vars, Searching', ~Full',
                    NEW o \in steady', Due(o)'
             PROVE  o \in ToSet(results') \/ Remaining(o)'
  BY DEF Inv, Progress
<1>0. o \in steady => /\ o \in Objects /\ o \in Existing(catalog)
                     /\ o.table \in Tables /\ o.column \in Columns \cup {NoColumn}
                     /\ o = [table |-> o.table, column |-> o.column]
  BY ObjectParts DEF History, TypeOK
<1>1. ASSUME UNCHANGED <<results, matches, tables, steady, stale, goal>>,
             Searching, Remaining(o) => Remaining(o)'
      PROVE  o \in ToSet(results') \/ Remaining(o)'
  BY <1>1, SameDue DEF Progress, Full
<1>2. ASSUME NEW M \in Queries, Start(M)
      PROVE  Remaining(o)'
  <2>1. schemas' = Schemas
    BY <1>2 DEF Start
  <2> QED BY <2>1 DEF Due, Remaining, ToSet
<1>3. CASE ListTables
  <2>1. /\ pc = "schema" /\ schemas # << >> /\ ~Full /\ tables = << >>
        /\ schemas' = Tail(schemas) /\ tables' = Listed(Head(schemas))
        /\ UNCHANGED <<results, matches, steady, stale, goal>>
    BY <1>3 DEF ListTables, Trans, Listings
  <2>2. o \in ToSet(results) \/ Remaining(o)
    BY <2>1, SameDue DEF Progress, Searching, Fetching
  <2>3. Head(schemas) \in DOMAIN Listing /\ ToSet(schemas) = {Head(schemas)} \cup ToSet(schemas')
    BY <2>1, HeadAndTail DEF TypeOK
  <2>4. ToSet(tables) = {} /\ ~Describing
    BY <2>1 DEF ToSet, Describing
  <2>5. ASSUME o.table \in ToSet(Listing[Head(schemas)])
        PROVE  o.table \in ToSet(tables')
    <3>1. catalog[o.table] # Absent
      BY <1>0, <2>1, Existence
    <3> QED BY <2>1, <2>3, <2>5, <3>1, ListedTables
  <2> QED BY <2>1, <2>2, <2>3, <2>4, <2>5 DEF Remaining
<1>4. CASE NextTable
  <2> DEFINE t == Head(tables)
  <2>1. /\ t \in Tables /\ ToSet(tables) = {t} \cup ToSet(tables') /\ table' = t
        /\ ToSet(results) \subseteq ToSet(results') /\ ~Full
        /\ Wanted(TableObject(t)) => TableObject(t) \in ToSet(results')
        /\ pc' = "lookup"
    BY <1>4, TableFinds
  <2>2. pc = "table" /\ UNCHANGED <<schemas, matches, steady, stale, goal>>
    BY <1>4 DEF NextTable
  <2> HIDE DEF t
  <2>3. Due(o) /\ (o \in ToSet(results) \/ Remaining(o))
    BY <2>1, <2>2, SameDue DEF Progress, Searching, Fetching
  <2>4. CASE o.table = t /\ o.column = NoColumn
    <3>1. o = TableObject(t)
      BY <1>0, <2>2, <2>4 DEF TableObject
    <3> QED BY <2>1, <2>3, <3>1 DEF Due
  <2>5. CASE o.table = t /\ o.column # NoColumn
    BY <2>1, <2>5 DEF Remaining, Describing
  <2>6. CASE o.table # t
    BY <2>1, <2>2, <2>3, <2>6 DEF Remaining, Describing
  <2> QED BY <2>4, <2>5, <2>6
<1>5. CASE NoMoreTables
  BY <1>1, <1>5 DEF NoMoreTables, Trans, Searching, Fetching, Remaining, Describing
<1>6. ASSUME NEW d \in SUBSET Columns, table \in Tables, Use(d), pc \in {"lookup", "store"},
             UNCHANGED <<schemas, matches, tables, steady, goal>>, stale \subseteq stale',
             o \in Existing(catalog) /\ o.table = table /\ o.column # NoColumn
               => o.column \in d \/ o.table \in stale'
      PROVE  o \in ToSet(results') \/ Remaining(o)'
  <2>1. ~Fetching
    BY <1>6 DEF Searching, Fetching
  <2>2. /\ ToSet(results) \subseteq ToSet(results') /\ ~Full /\ pc' = "table"
        /\ \A c \in d : Wanted([table |-> table, column |-> c])
                      => [table |-> table, column |-> c] \in ToSet(results')
    BY <1>6, <2>1, SearchUses
  <2>3. Due(o) /\ (o \in ToSet(results) \/ Remaining(o))
    BY <1>6, <2>1, <2>2, SameDue DEF Progress, Searching
  <2>4. CASE o.table = table /\ o.column # NoColumn
    <3>1. o.table \notin stale'
      BY <2>4 DEF Due
    <3>2. o.column \in d /\ o = [table |-> table, column |-> o.column]
      BY <1>0, <1>6, <2>4, <3>1
    <3> QED BY <2>2, <2>3, <3>2 DEF Due
  <2>5. CASE ~(o.table = table /\ o.column # NoColumn)
    BY <1>6, <2>2, <2>3, <2>5 DEF Remaining, Describing
  <2> QED BY <2>4, <2>5
<1>7. CASE Hit
  <2>1. /\ table \in Tables /\ cache[table] \in SUBSET Columns
        /\ stale \subseteq stale'
        /\ table \in stale' \/ cache[table] = Described(catalog[table])
    BY <1>7, HitTyped
  <2>2. o \in Existing(catalog) /\ o.table = table /\ o.column # NoColumn
          => o.column \in cache[table] \/ o.table \in stale'
    BY <2>1, Existence
  <2> QED BY <1>6, <1>7, <2>1, <2>2 DEF Hit
<1>8. CASE Store
  <2>1. table \in Tables /\ desc \in SUBSET Columns
    BY <1>8, StoreTyped
  <2>2. o.table = table /\ o.column # NoColumn => o.column \in desc
    BY <1>8 DEF Store, Description
  <2> QED BY <1>6, <1>8, <2>1, <2>2 DEF Store
<1>9. CASE Miss \/ ReadColumns
  BY <1>1, <1>9 DEF Miss, ReadColumns, Trans, Searching, Fetching, Remaining, Describing
<1>10. CASE Finish \/ Fails
  BY <1>10 DEF Finish, Fails, Trans, Searching
<1>11. ASSUME NEW p \in Objects, Fetch(p) PROVE FALSE
  BY <1>11, NoObject DEF Fetch, Searching, Fetching
<1>12. CASE World
  <2>1. /\ UNCHANGED <<pc, matches, schemas, tables, table, results, goal, stale>>
        /\ o \in steady
    BY <1>12, WorldSteps
  <2>2. Due(o) /\ Searching /\ ~Full
    BY <2>1, SameDue DEF Searching, Fetching, Full
  <2>3. o \in ToSet(results) \/ Remaining(o)
    BY <2>1, <2>2 DEF Progress
  <2> QED BY <2>1, <2>3 DEF Remaining, Describing
<1> QED
  BY <1>2, <1>3, <1>4, <1>5, <1>7, <1>8, <1>9, <1>10, <1>11, <1>12, Steps

LEMMA CompleteStep ==
  Inv /\ Listings /\ Progress /\ Complete /\ [Next]_vars => Complete'
<1> SUFFICES ASSUME TypeOK, Limited, History, Listings, Progress, Complete,
                    [Next]_vars, Searched', ~Full', NEW o \in steady', Due(o)'
             PROVE  o \in ToSet(results')
  BY DEF Inv, Complete
<1>1. ASSUME Searched, UNCHANGED <<results, matches>>, steady' \subseteq steady,
             stale \subseteq stale'
      PROVE  o \in ToSet(results')
  BY <1>1, SameDue DEF Complete, Full
<1>2. CASE Finish
  <2>1. /\ pc = "schema" /\ UNCHANGED <<results, matches, steady, stale>>
        /\ ~Full /\ schemas = << >> /\ tables = << >>
    BY <1>2 DEF Finish, Trans, Listings, Full
  <2>2. Searching /\ ~Describing /\ ToSet(schemas) = {} /\ ToSet(tables) = {}
    BY <2>1 DEF Searching, Describing, TypeOK, ToSet
  <2>3. o \in ToSet(results) \/ Remaining(o)
    BY <2>1, <2>2, SameDue DEF Progress
  <2> QED BY <2>1, <2>2, <2>3 DEF Remaining
<1>3. ASSUME UNCHANGED goal, pc' # "done", pc # "done"
      PROVE  Fetching /\ Searched
  BY <1>3 DEF Searched, Fetching
<1>4. CASE Miss \/ ReadColumns \/ Fails
  BY <1>1, <1>3, <1>4 DEF Miss, ReadColumns, Fails, Trans
<1>5. CASE Hit \/ Store
  <2>1. pc # "done" /\ pc' # "done" /\ UNCHANGED <<goal, matches, steady>> /\ stale \subseteq stale'
    BY <1>5 DEF Hit, Store, Use
  <2>2. Fetching /\ Searched
    BY <1>3, <2>1
  <2>3. UNCHANGED results
    BY <1>5, <2>2 DEF Hit, Store, Use
  <2> QED BY <1>1, <2>1, <2>2, <2>3
<1>6. ASSUME NEW p \in Objects, Fetch(p) PROVE o \in ToSet(results')
  BY <1>1, <1>6 DEF Fetch, Trans, Searched
<1>7. CASE World
  BY <1>1, <1>7, WorldSteps DEF Searched, Fetching
<1>8. ASSUME NEW M \in Queries, Start(M) PROVE FALSE
  BY <1>3, <1>8 DEF Start, Trans, TypeOK
<1>9. CASE ListTables \/ NextTable \/ NoMoreTables
  BY <1>3, <1>9 DEF ListTables, NextTable, NoMoreTables, Trans, TypeOK
<1> QED BY <1>2, <1>4, <1>5, <1>6, <1>7, <1>8, <1>9, Steps

\* What Sound says of each object found.
Founded(o) == Wanted(o) /\ (o \in seenAt \/ (o.column # NoColumn /\ o.table \in stale))

LEMMA SoundStep ==
  Inv /\ Listings /\ Description /\ Sound /\ [Next]_vars /\ Limited' => Sound'
<1> SUFFICES ASSUME TypeOK, Limited, History, Listings, Description, Sound,
                    [Next]_vars, NEW o \in ToSet(results')
             PROVE  Founded(o)'
  BY DEF Inv, Sound, Limited, Founded
<1>1. ASSUME UNCHANGED matches, seenAt \subseteq seenAt', stale \subseteq stale',
             o \in ToSet(results)
      PROVE  Founded(o)'
  BY <1>1, SameWanted DEF Sound, Founded
<1>2. ASSUME NEW M \in Queries, Start(M) PROVE FALSE
  BY <1>2 DEF Start, Trans, History, ToSet
<1>3. CASE ListTables \/ Finish \/ NoMoreTables \/ Miss \/ ReadColumns \/ Fails
  BY <1>1, <1>3 DEF ListTables, Finish, NoMoreTables, Miss, ReadColumns, Fails, Trans
<1>4. CASE NextTable
  <2>1. UNCHANGED <<matches, seenAt, stale>> /\ o \notin ToSet(results)
          => Wanted(o)' /\ o \in seenAt'
    BY <1>4, TableFinds, SameWanted DEF Listings
  <2> QED BY <1>1, <1>4, <2>1 DEF NextTable, Founded
<1>5. ASSUME NEW d \in SUBSET Columns, table \in Tables, Use(d),
             UNCHANGED <<matches, seenAt>>, stale \subseteq stale',
             ~Fetching => \A c \in d : [table |-> table, column |-> c] \in seenAt
                                     \/ table \in stale'
      PROVE  Founded(o)'
  <2>1. CASE o \in ToSet(results)
    BY <1>1, <1>5, <2>1
  <2>2. CASE o \notin ToSet(results)
    <3>1. ~Fetching
      BY <1>5, <2>2 DEF Use
    <3>2. Wanted(o) /\ \E c \in d : o = [table |-> table, column |-> c]
      BY <1>5, <2>2, <3>1, SearchUses
    <3>3. PICK c \in d : o = [table |-> table, column |-> c]
      BY <3>2
    <3>4. o.table = table /\ o.column # NoColumn
      BY <3>3, ConstantsAssumption
    <3> QED BY <1>5, <3>1, <3>2, <3>3, <3>4, SameWanted DEF Founded
  <2> QED BY <2>1, <2>2
<1>6. CASE Hit
  <2>1. /\ table \in Tables /\ cache[table] \in SUBSET Columns
        /\ stale \subseteq stale'
        /\ table \in stale' \/ cache[table] = Described(catalog[table])
    BY <1>6, HitTyped
  <2>2. \A c \in cache[table] : [table |-> table, column |-> c] \in seenAt \/ table \in stale'
    BY <1>6, <2>1, Existence DEF Hit, History
  <2> QED BY <1>5, <1>6, <2>1, <2>2 DEF Hit
<1>7. CASE Store
  BY <1>5, <1>7, StoreTyped DEF Store, Description
<1>8. ASSUME NEW p \in Objects, Fetch(p) PROVE Founded(o)'
  BY <1>1, <1>8 DEF Fetch, Trans
<1>9. CASE World
  BY <1>1, <1>9, WorldSteps
<1> QED BY <1>2, <1>3, <1>4, <1>6, <1>7, <1>8, <1>9, Steps

LEMMA FoundStep ==
  Inv /\ Description /\ Answering /\ FoundIsFetched /\ [Next]_vars => FoundIsFetched'
<1> SUFFICES ASSUME TypeOK, Limited, History, Description, Answering, FoundIsFetched,
                    [Next]_vars, answer' = "missing", goal' \in kept'
             PROVE  goal'.table \in stale'
  BY DEF Inv, FoundIsFetched
<1>1. ASSUME UNCHANGED <<answer, goal>>, kept' \subseteq kept, stale \subseteq stale'
      PROVE  goal'.table \in stale'
  BY <1>1 DEF FoundIsFetched
<1>2. ASSUME UNCHANGED answer PROVE pc = "answered"
  BY <1>2 DEF Answering
<1>3. ASSUME NEW d \in SUBSET Columns, table \in Tables, Use(d), pc \in {"lookup", "store"},
             UNCHANGED goal,
             Fetching /\ goal \in kept /\ goal.table = table /\ goal.column # NoColumn
               => goal.column \in d \/ table \in stale'
      PROVE  goal'.table \in stale'
  <2>1. Fetching
    BY <1>2, <1>3 DEF Use
  <2>2. /\ goal.column \notin d \cup {NoColumn} /\ UNCHANGED kept
    BY <1>3, <2>1 DEF Use
  <2>3. goal.table = table
    BY <1>3, <2>1 DEF Answering, Describing
  <2> QED BY <1>3, <2>1, <2>2, <2>3
<1>4. CASE Hit
  <2>1. /\ table \in Tables /\ cache[table] \in SUBSET Columns
        /\ table \in stale' \/ cache[table] = Described(catalog[table])
    BY <1>4, HitTyped
  <2>2. goal \in kept /\ goal.table = table /\ goal.column # NoColumn
          => goal.column \in cache[table] \/ table \in stale'
    BY <2>1, Existence DEF History
  <2> QED BY <1>3, <1>4, <2>1, <2>2 DEF Hit
<1>5. CASE Store
  BY <1>3, <1>5, StoreTyped DEF Store, Description
<1>6. CASE World
  BY <1>1, <1>6, WorldSteps
<1>7. CASE \E M \in Queries : Start(M)
  BY <1>2, <1>7 DEF Start, Trans
<1>8. CASE ListTables \/ Finish \/ NoMoreTables \/ Miss \/ ReadColumns \/ Fails
  BY <1>2, <1>8 DEF ListTables, Finish, NoMoreTables, Miss, ReadColumns, Fails, Trans
<1>9. CASE NextTable
  BY <1>2, <1>9 DEF NextTable
<1>10. CASE \E p \in Objects : Fetch(p)
  BY <1>2, <1>10 DEF Fetch, Trans
<1> QED BY <1>4, <1>5, <1>6, <1>7, <1>8, <1>9, <1>10, Steps

-----------------------------------------------------------------------------

\* The invariant holds of Search.
THEOREM Invariance == Spec => []IInv
<1>1. Init => IInv
  <2> SUFFICES ASSUME Init PROVE IInv
    OBVIOUS
  <2>1. TypeOK /\ Limited
    BY InitTyped
  <2>2. ~Fetching /\ pc = "idle" /\ answer = "none" /\ ToSet(results) = {}
          /\ ToSet(tables) = {}
    BY DEF Init, Fetching, ToSet
  <2>3. History
    BY DEF Init, History
  <2>4. Listings /\ Description /\ Progress /\ Answering
    BY <2>2 DEF Listings, Description, Progress, Searching, Answering
  <2>5. Complete /\ Sound /\ FoundIsFetched
    BY <2>1, <2>2 DEF Complete, Searched, Sound, Limited, FoundIsFetched
  <2> QED BY <2>1, <2>3, <2>4, <2>5 DEF IInv, Inv
<1>2. IInv /\ [Next]_vars => IInv'
  BY StepTyped, HistoryStep, ListingsStep, DescriptionStep, ProgressStep,
     AnsweringStep, CompleteStep, SoundStep, FoundStep DEF IInv, Inv
<1> QED
  BY <1>1, <1>2, PTL DEF Spec

\* A search that the limit has not cut off has found all it looks for that
\* existed all the while, in however many schemas and tables the loops of
\* search and searchInSchema visit (server.go:569-674).
THEOREM SearchComplete == Spec => []Complete
<1>1. IInv => Complete
  BY DEF IInv
<1> QED
  BY <1>1, Invariance, PTL

\* Nothing is found twice, whatever is visited twice, beyond the limit, or
\* without having existed during the search (server.go:633-669).
THEOREM SearchSound == Spec => []Sound
<1>1. IInv => Sound
  BY DEF IInv
<1> QED
  BY <1>1, Invariance, PTL

\* What was found is fetched for as long as it exists, unless an entry of the
\* cache that is out of date denies it (server.go:676-806, 855-866).
THEOREM FetchFinds == Spec => []FoundIsFetched
<1>1. IInv => FoundIsFetched
  BY DEF IInv
<1> QED
  BY <1>1, Invariance, PTL

-----------------------------------------------------------------------------
(* What a search takes for granted of the schema cache, and adds to it.    *)

Cached == INSTANCE CachedDescriptions WITH
            entry <- [t \in Tables |-> IF cache[t] = NoEntry THEN {}
                                       ELSE {cache[t]}]

\* What is remembered of the tables includes what they are, and what has
\* been read of the one to be stored.
Remembered ==
  /\ \A t \in Tables : Described(catalog[t]) \in past[t]
  /\ pc = "store" => desc \in past[table]

\* What the steps other than those of the others leave alone.
LEMMA OwnSteps ==
  ASSUME [Next]_vars, ~World
  PROVE  /\ UNCHANGED <<catalog, past>>
         /\ cache' = cache \/ Store
         /\ pc' # "store" \/ ReadColumns
<1>1. ASSUME NEW d, Use(d) PROVE pc' # "store"
  BY <1>1 DEF Use
<1>2. CASE Hit
  BY <1>1, <1>2 DEF Hit
<1>3. CASE Store
  BY <1>1, <1>3 DEF Store
<1>4. CASE \E M \in Queries : Start(M)
  BY <1>4 DEF Start, Trans
<1>5. CASE ListTables \/ Finish \/ NoMoreTables \/ Miss \/ ReadColumns \/ Fails
  BY <1>5 DEF ListTables, Finish, NoMoreTables, Miss, ReadColumns, Fails, Trans
<1>6. CASE NextTable
  BY <1>6 DEF NextTable
<1>7. CASE \E o \in Objects : Fetch(o)
  BY <1>7 DEF Fetch, Trans
<1> QED BY <1>2, <1>3, <1>4, <1>5, <1>6, <1>7, Steps

LEMMA RememberedInit == Init => Remembered
<1> SUFFICES ASSUME Init PROVE Remembered
  OBVIOUS
<1>1. \A t \in Tables : past[t] = {Described(catalog[t])} /\ pc = "idle"
  BY DEF Init
<1> QED BY <1>1 DEF Remembered, Init

\* How the others change what is remembered.
LEMMA ChangeRemembers ==
  ASSUME TypeOK, NEW t \in Tables, NEW d \in {Absent} \cup SUBSET Columns, Change(t, d)
  PROVE  /\ \A k \in Tables : past[k] \subseteq past'[k]
         /\ \A k \in Tables : k # t => catalog'[k] = catalog[k]
         /\ Described(catalog'[t]) \in past'[t]
         /\ UNCHANGED <<cache, pc, table, desc>>
BY DEF Change, TypeOK, search

LEMMA RememberedStep == TypeOK /\ Remembered /\ [Next]_vars => Remembered'
<1> SUFFICES ASSUME TypeOK, Remembered, [Next]_vars PROVE Remembered'
  OBVIOUS
<1>1. CASE ~World
  <2>1. \A t \in Tables : Described(catalog'[t]) \in past'[t]
    BY <1>1, OwnSteps DEF Remembered
  <2>2. pc' = "store" => desc' \in past'[table']
    <3>1. CASE ReadColumns
      BY <3>1 DEF ReadColumns, Trans, TypeOK, Remembered
    <3> QED BY <1>1, <3>1, OwnSteps
  <2> QED BY <2>1, <2>2 DEF Remembered
<1>2. ASSUME NEW t \in Tables, NEW d \in {Absent} \cup SUBSET Columns, Change(t, d)
      PROVE  Remembered'
  <2>1. \A k \in Tables : Described(catalog'[k]) \in past'[k]
    BY <1>2, ChangeRemembers DEF Remembered
  <2>2. pc = "store" => table \in Tables
    BY DEF TypeOK
  <2>3. pc' = "store" => desc' \in past'[table']
    BY <1>2, <2>2, ChangeRemembers DEF Remembered
  <2> QED BY <2>1, <2>3 DEF Remembered
<1>3. CASE ClearCache \/ \E t \in Tables, d \in SUBSET Columns : OtherStores(t, d)
  BY <1>3 DEF ClearCache, OtherStores, search, Remembered
<1>4. CASE UNCHANGED vars
  BY <1>4 DEF vars, Remembered
<1> QED BY <1>1, <1>2, <1>3, <1>4 DEF World

LEMMA CachedInit == Init => Cached!Init
<1> SUFFICES ASSUME Init PROVE Cached!Init
  OBVIOUS
<1>1. \A t \in Tables : past[t] = {Described(catalog[t])} /\ cache[t] = NoEntry
  BY DEF Init
<1> QED BY <1>1 DEF Cached!Init

\* A description that is stored becomes the entry of its table.
LEMMA StoringIsStore ==
  ASSUME TypeOK, NEW t \in Tables, NEW d \in past[t], UNCHANGED past,
         cache' = [cache EXCEPT ![t] = d]
  PROVE  Cached!Store(t)
<1> DEFINE entry == [k \in Tables |-> IF cache[k] = NoEntry THEN {}
                                      ELSE {cache[k]}]
<1>1. d \in SUBSET Columns
  BY DEF TypeOK
<1>2. d # NoEntry
  BY <1>1, ConstantsAssumption
<1>3. \A k \in Tables : cache'[k] = IF k = t THEN d ELSE cache[k]
  BY DEF TypeOK
<1>4. entry' = [entry EXCEPT ![t] = {d}]
  BY <1>2, <1>3
<1> QED BY <1>4 DEF Cached!Store

LEMMA CachedStep == TypeOK /\ Remembered /\ [Next]_vars => [Cached!Next]_(Cached!vars)
<1> SUFFICES ASSUME TypeOK, Remembered, [Next]_vars PROVE Cached!Next
  BY DEF Cached!Next
<1>1. ASSUME UNCHANGED cache, \A t \in Tables : past[t] \subseteq past'[t]
      PROVE  Cached!Next
  BY <1>1 DEF Cached!Next, Cached!Change
<1>2. CASE ~World
  <2>1. CASE cache' = cache
    BY <1>1, <1>2, <2>1, OwnSteps
  <2>2. CASE Store
    <3>1. PICK t \in Tables : t = table
      BY <2>2, StoreTyped
    <3>2. /\ desc \in past[t] /\ cache' = [cache EXCEPT ![t] = desc]
          /\ UNCHANGED past
      BY <1>2, <2>2, <3>1, OwnSteps DEF Store, Remembered
    <3>3. Cached!Store(t)
      BY <3>2, StoringIsStore
    <3> QED BY <3>3 DEF Cached!Next
  <2> QED BY <1>2, <2>1, <2>2, OwnSteps
<1>3. ASSUME NEW t \in Tables, NEW d \in {Absent} \cup SUBSET Columns, Change(t, d)
      PROVE  Cached!Next
  BY <1>1, <1>3, ChangeRemembers
<1>4. ASSUME NEW t \in Tables, NEW d \in SUBSET Columns, OtherStores(t, d)
      PROVE  Cached!Next
  <2>1. Cached!Store(t)
    BY <1>4, StoringIsStore DEF OtherStores
  <2> QED BY <2>1 DEF Cached!Next
<1>5. CASE ClearCache
  <2>1. \A t \in Tables : cache'[t] = NoEntry
    BY <1>5 DEF ClearCache
  <2> QED BY <1>5, <2>1 DEF ClearCache, Cached!Next, Cached!Clear
<1>6. CASE UNCHANGED vars
  BY <1>1, <1>6 DEF vars
<1> QED BY <1>2, <1>3, <1>4, <1>5, <1>6 DEF World

\* The cache Search has is the one that SchemaCache, too, is an
\* implementation of: of any table it holds what the table has been
\* (store.go:209-211, 253-255).
THEOREM CacheOfThePast == Spec => Cached!Spec
<1> QED
  BY InitTyped, StepTyped, RememberedInit, RememberedStep, CachedInit, CachedStep, PTL
     DEF Spec, Cached!Spec
=============================================================================
