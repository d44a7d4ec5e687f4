--------------------------- MODULE FeaturesProofs ---------------------------
(***************************************************************************)
(* What a call of Up or Build puts into the image and into the lockfile,   *)
(* for every set of features.                                              *)
(***************************************************************************)
EXTENDS Features, FiniteSetTheorems, SequenceTheorems, WellFoundedInduction, TLAPS

-----------------------------------------------------------------------------
(* Sorting. *)

StrictOrder(S, R) ==
    /\ \A x \in S : <<x, x>> \notin R
    /\ \A x, y, z \in S : <<x, y>> \in R /\ <<y, z>> \in R => <<x, z>> \in R
    /\ \A x, y \in S : x = y \/ <<x, y>> \in R \/ <<y, x>> \in R

(* s lists the members of S, each of them once.                            *)
Lists(s, S) ==
    /\ s \in Seq(S) /\ Len(s) = Cardinality(S)
    /\ \A x \in S : \E n \in DOMAIN s : s[n] = x
    /\ \A n, k \in DOMAIN s : s[n] = s[k] => n = k

LEMMA SortedByLists ==
    ASSUME NEW S, IsFiniteSet(S), NEW R, StrictOrder(S, R)
    PROVE  Lists(SortedBy(S, R), S) /\ DOMAIN SortedBy(S, R) = 1 .. Cardinality(S)
  <1> DEFINE N == Cardinality(S)
             below == [x \in S |-> {y \in S : <<y, x>> \in R}]
             rank == [x \in S |-> Cardinality(below[x])]
             s == SortedBy(S, R)
  <1>a. /\ \A x \in S : below[x] \subseteq S \ {x}
        /\ \A x, y \in S : <<x, y>> \in R => below[x] \subseteq below[y] /\ x \in below[y] \ below[x]
        /\ \A x \in S : rank[x] = Cardinality(below[x])
        /\ \A n \in 1 .. N : (\E x \in S : rank[x] = n - 1) => s[n] \in S /\ rank[s[n]] = n - 1
    <2>1. \A x \in S : below[x] \subseteq S \ {x}
      BY DEF StrictOrder
    <2>2. \A x, y \in S : <<x, y>> \in R => below[x] \subseteq below[y] /\ x \in below[y] \ below[x]
      BY DEF StrictOrder
    <2>3. ASSUME NEW n \in 1 .. N, NEW x \in S, rank[x] = n - 1
          PROVE  s[n] \in S /\ rank[s[n]] = n - 1
      <3>1. s[n] = CHOOSE z \in S : Cardinality({y \in S : <<y, z>> \in R}) = n - 1
        BY DEF SortedBy
      <3>2. Cardinality({y \in S : <<y, x>> \in R}) = n - 1
        BY <2>3
      <3>3. s[n] \in S /\ Cardinality({y \in S : <<y, s[n]>> \in R}) = n - 1
        BY <3>1, <3>2, Zenon
      <3>4. QED
        BY <3>3
    <2>4. QED
      BY <2>1, <2>2, <2>3
  <1>b. \A x, y \in S : x = y \/ <<x, y>> \in R \/ <<y, x>> \in R
    BY DEF StrictOrder
  <1>1. N \in Nat
    BY FS_CardinalityType
  <1>c. \A x \in S : IsFiniteSet(S \ {x}) /\ Cardinality(S \ {x}) = N - 1
    BY FS_RemoveElement
  <1>d. rank = [x \in S |-> rank[x]]
    OBVIOUS
  <1> HIDE DEF below, rank, s, N
  <1>2. \A x \in S : IsFiniteSet(below[x]) /\ rank[x] \in 0 .. N - 1
    <2> SUFFICES ASSUME NEW x \in S
                 PROVE  IsFiniteSet(below[x]) /\ rank[x] \in 0 .. N - 1
      OBVIOUS
    <2>1. IsFiniteSet(below[x]) /\ Cardinality(below[x]) <= N - 1
      <3>1. below[x] \in SUBSET (S \ {x})
        BY <1>a
      <3>2. IsFiniteSet(S \ {x}) /\ Cardinality(S \ {x}) = N - 1
        BY <1>c
      <3>3. IsFiniteSet(below[x]) /\ Cardinality(below[x]) <= Cardinality(S \ {x})
        BY <3>1, <3>2, FS_Subset
      <3>4. QED
        BY <3>2, <3>3
    <2>2. Cardinality(below[x]) \in Nat
      BY <2>1, FS_CardinalityType
    <2>3. QED
      BY <1>1, <1>a, <2>1, <2>2
  <1>3. \A x, y \in S : <<x, y>> \in R => rank[x] < rank[y]
    <2> SUFFICES ASSUME NEW x \in S, NEW y \in S, <<x, y>> \in R
                 PROVE  rank[x] < rank[y]
      OBVIOUS
    <2>1. below[x] \in SUBSET below[y] /\ below[x] # below[y] /\ IsFiniteSet(below[y])
      BY <1>a, <1>2
    <2>2. Cardinality(below[x]) <= Cardinality(below[y]) /\ Cardinality(below[x]) # Cardinality(below[y])
      BY <2>1, FS_Subset
    <2>3. rank[x] \in Int /\ rank[y] \in Int
      BY <1>1, <1>2
    <2>4. QED
      BY <2>2, <2>3, <1>a
  <1>4. \A x, y \in S : rank[x] = rank[y] => x = y
    <2> SUFFICES ASSUME NEW x \in S, NEW y \in S, rank[x] = rank[y], x # y
                 PROVE  FALSE
      OBVIOUS
    <2>1. rank[x] < rank[y] \/ rank[y] < rank[x]
      BY <1>3, <1>b
    <2>2. rank[x] \in Int /\ rank[y] \in Int
      BY <1>1, <1>2
    <2>3. QED
      BY <2>1, <2>2
  <1>5. \A m \in 0 .. N - 1 : \E x \in S : rank[x] = m
    <2>1. rank \in [S -> 0 .. N - 1]
      BY <1>2, <1>d
    <2>2. rank \in Injection(S, 0 .. N - 1)
      BY <2>1, <1>4 DEF Injection, IsInjective
    <2>3. IsFiniteSet(0 .. N - 1) /\ Cardinality(0 .. N - 1) = N
      BY <1>1, FS_Interval
    <2>4. rank \in Surjection(S, 0 .. N - 1)
      BY <2>2, <2>3, FS_Injection DEF N
    <2>5. QED
      BY <2>4 DEF Surjection
  <1>6. \A n \in 1 .. N : s[n] \in S /\ rank[s[n]] = n - 1
    <2> SUFFICES ASSUME NEW n \in 1 .. N
                 PROVE  s[n] \in S /\ rank[s[n]] = n - 1
      OBVIOUS
    <2>1. n - 1 \in 0 .. N - 1
      BY <1>1
    <2>2. QED
      BY <2>1, <1>5, <1>a
  <1>7. s \in [1 .. N -> S] /\ DOMAIN s = 1 .. N
    <2>1. DOMAIN s = 1 .. N
      BY Zenon DEF SortedBy, s, N
    <2>2. ASSUME NEW n \in 1 .. N
          PROVE  (CHOOSE x \in S : Cardinality({y \in S : <<y, x>> \in R}) = n - 1) \in S
      <3>1. s[n] = CHOOSE x \in S : Cardinality({y \in S : <<y, x>> \in R}) = n - 1
        BY Zenon DEF SortedBy, s, N
      <3>2. QED
        BY <3>1, <1>6
    <2>3. s \in [1 .. N -> S]
      BY <2>2, Zenon DEF SortedBy, s, N
    <2>4. QED
      BY <2>1, <2>3
  <1>8. s \in Seq(S) /\ Len(s) = N
    BY <1>1, <1>7
  <1>9. \A x \in S : \E n \in DOMAIN s : s[n] = x
    <2> SUFFICES ASSUME NEW x \in S
                 PROVE  \E n \in DOMAIN s : s[n] = x
      OBVIOUS
    <2>1. PICK n \in 1 .. N : n - 1 = rank[x]
      <3>1. rank[x] + 1 \in 1 .. N /\ (rank[x] + 1) - 1 = rank[x]
        BY <1>1, <1>2
      <3>2. QED
        BY <3>1
    <2>2. QED
      BY <2>1, <1>4, <1>6, <1>7
  <1>10. \A n, k \in DOMAIN s : s[n] = s[k] => n = k
    <2> SUFFICES ASSUME NEW n \in 1 .. N, NEW k \in 1 .. N, s[n] = s[k]
                 PROVE  n = k
      BY <1>7
    <2>1. n - 1 = k - 1
      BY <1>6
    <2>2. QED
      BY <2>1, <1>1
  <1>11. QED
    BY <1>7, <1>8, <1>9, <1>10 DEF Lists, s, N

(* A sequence made of another's entries has those and no others.           *)
LEMMA EntriesList ==
    ASSUME NEW T, NEW s \in Seq(T), NEW S \in SUBSET DOMAIN s, NEW R, StrictOrder(S, R)
    PROVE  /\ Lists(SortedBy(S, R), S)
           /\ Entries(s, S, R) \in Seq(T)
           /\ DOMAIN Entries(s, S, R) = DOMAIN SortedBy(S, R)
           /\ \A n \in DOMAIN SortedBy(S, R) : Entries(s, S, R)[n] = s[SortedBy(S, R)[n]]
  <1>1. IsFiniteSet(S)
    <2>1. IsFiniteSet(1 .. Len(s))
      BY FS_Interval
    <2>2. QED
      BY <2>1, FS_Subset
  <1>2. Lists(SortedBy(S, R), S) /\ DOMAIN SortedBy(S, R) = 1 .. Cardinality(S)
    BY <1>1, SortedByLists
  <1>3. Cardinality(S) \in Nat
    BY <1>1, FS_CardinalityType
  <1> DEFINE p == SortedBy(S, R)
             N == Cardinality(S)
  <1>4. Entries(s, S, R) = [n \in 1 .. N |-> s[p[n]]]
    BY DEF Entries
  <1>5. \A n \in 1 .. N : p[n] \in S
    BY <1>2 DEF Lists
  <1> HIDE DEF p, N
  <1>6. \A n \in 1 .. N : s[p[n]] \in T
    BY <1>5
  <1>7. QED
    BY <1>2, <1>3, <1>4, <1>6 DEF p, N

(* The same, for the entries as they came.                                 *)
LEMMA KeptList ==
    ASSUME NEW T, NEW s \in Seq(T), NEW S \in SUBSET DOMAIN s
    PROVE  Kept(s, S) \in Seq(T) /\ Range(Kept(s, S)) = {s[n] : n \in S}
  <1>0. PICK R : R = {e \in S \X S : e[1] < e[2]}
    OBVIOUS
  <1>1. StrictOrder(S, R) /\ Kept(s, S) = Entries(s, S, R)
    BY <1>0 DEF StrictOrder, Kept
  <1>2. PICK p : p = SortedBy(S, R)
    OBVIOUS
  <1>3. /\ Lists(p, S) /\ Kept(s, S) \in Seq(T) /\ DOMAIN Kept(s, S) = DOMAIN p
        /\ \A n \in DOMAIN p : Kept(s, S)[n] = s[p[n]]
    BY <1>1, <1>2, EntriesList
  <1>4. (\A n \in DOMAIN p : p[n] \in S) /\ \A x \in S : \E n \in DOMAIN p : p[n] = x
    BY <1>3 DEF Lists
  <1>5. QED
    BY <1>3, <1>4 DEF Range

(* Entries in the order of featureLess.                                    *)
LEMMA SortedLists ==
    ASSUME NEW features \in Seq(Feature), NEW S \in SUBSET DOMAIN features
    PROVE  Lists(Sorted(features, S), S)
  <1> DEFINE R == {e \in S \X S :
                     \/ featureLess(features[e[1]], features[e[2]])
                     \/ ~featureLess(features[e[2]], features[e[1]]) /\ e[1] < e[2]}
  <1>1. IsFiniteSet(S)
    <2>1. IsFiniteSet(1 .. Len(features))
      BY FS_Interval
    <2>2. QED
      BY <2>1, FS_Subset
  <1>2. \A x \in S : features[x].ref \in Nat /\ features[x].opts \in Nat /\ x \in Nat
    <2>1. \A x \in S : features[x] \in Feature /\ x \in Nat
      OBVIOUS
    <2>2. \A f \in Feature : f.ref \in Ref /\ f.opts \in Option
      BY DEF Feature
    <2>3. Ref \subseteq Nat /\ Option \subseteq Nat
      BY OrderAssumption
    <2>4. QED
      BY <2>1, <2>2, <2>3
  <1> DEFINE ref == [x \in S |-> features[x].ref]
             opt == [x \in S |-> features[x].opts]
             less(x, y) == \/ ref[x] < ref[y]
                           \/ ref[x] = ref[y] /\ opt[x] # 0 /\ (opt[y] = 0 \/ opt[x] < opt[y])
  <1>a. \A x, y \in S : <<x, y>> \in R <=> less(x, y) \/ (~less(y, x) /\ x < y)
    BY DEF featureLess
  <1>b. \A x \in S : ref[x] \in Nat /\ opt[x] \in Nat /\ x \in Nat
    BY <1>2
  <1> HIDE DEF R, ref, opt
  <1>3. StrictOrder(S, R)
    <2>1. \A x \in S : <<x, x>> \notin R
      BY <1>a, <1>b
    <2>2. ASSUME NEW x \in S, NEW y \in S, x # y, <<x, y>> \notin R
          PROVE  <<y, x>> \in R
      <3>1. ~(less(x, y) \/ (~less(y, x) /\ x < y)) /\ x \in Nat /\ y \in Nat
        BY <1>a, <1>b, <2>2
      <3>2. less(y, x) \/ (~less(x, y) /\ y < x)
        BY <2>2, <3>1
      <3>3. QED
        BY <1>a, <3>2
    <2>3. ASSUME NEW x \in S, NEW y \in S, NEW z \in S, <<x, y>> \in R, <<y, z>> \in R
          PROVE  <<x, z>> \in R
      <3>1. /\ less(x, y) \/ (~less(y, x) /\ x < y)
            /\ less(y, z) \/ (~less(z, y) /\ y < z)
        BY <1>a, <2>3
      <3>2. /\ ref[x] \in Nat /\ opt[x] \in Nat /\ ref[y] \in Nat /\ opt[y] \in Nat
            /\ ref[z] \in Nat /\ opt[z] \in Nat /\ x \in Nat /\ y \in Nat /\ z \in Nat
        BY <1>b
      <3>3. less(x, z) \/ (~less(z, x) /\ x < z)
        <4>1. /\ ref[x] < ref[y] \/ ref[x] = ref[y]
              /\ ref[y] < ref[z] \/ ref[y] = ref[z]
          BY <3>1, <3>2
        <4>2. CASE ref[x] < ref[z]
          BY <4>2
        <4>3. CASE ref[x] = ref[y] /\ ref[y] = ref[z]
          BY <3>1, <3>2, <4>3
        <4>4. QED
          BY <3>2, <4>1, <4>2, <4>3
      <3>4. QED
        BY <1>a, <3>3
    <2>4. QED
      BY <2>1, <2>2, <2>3 DEF StrictOrder
  <1>4. QED
    BY <1>1, <1>3, SortedByLists DEF Sorted, R

(* Members of a sequence put together or taken apart.                      *)
LEMMA RangeConcat ==
    ASSUME NEW T, NEW s \in Seq(T), NEW t \in Seq(T)
    PROVE  Range(s \o t) = Range(s) \cup Range(t)
  <1>1. Len(s) \in Nat /\ Len(t) \in Nat /\ s \o t \in Seq(T) /\ Len(s \o t) = Len(s) + Len(t)
    OBVIOUS
  <1>2. \A n \in 1 .. Len(s) : (s \o t)[n] = s[n]
    OBVIOUS
  <1>3. \A n \in 1 .. Len(t) : (s \o t)[Len(s) + n] = t[n]
    OBVIOUS
  <1>4. \A n \in 1 .. Len(s) + Len(t) : n > Len(s) => n - Len(s) \in 1 .. Len(t)
    BY <1>1
  <1>5. ASSUME NEW n \in 1 .. Len(s) + Len(t)
        PROVE  (s \o t)[n] \in Range(s) \cup Range(t)
    <2>1. CASE n <= Len(s)
      BY <1>1, <1>2, <2>1 DEF Range
    <2>2. CASE n > Len(s)
      BY <1>1, <1>4, <2>2 DEF Range
    <2>3. QED
      BY <1>1, <2>1, <2>2
  <1>6. \A n \in 1 .. Len(s) : s[n] \in Range(s \o t)
    BY <1>1, <1>2 DEF Range
  <1>7. ASSUME NEW n \in 1 .. Len(t)
        PROVE  t[n] \in Range(s \o t)
    <2>1. Len(s) + n \in 1 .. Len(s) + Len(t) /\ (s \o t)[Len(s) + n] = t[n]
      BY <1>1, <1>3
    <2>2. DOMAIN (s \o t) = 1 .. Len(s) + Len(t)
      BY <1>1
    <2>3. QED
      BY <2>1, <2>2 DEF Range
  <1>8. /\ Range(s \o t) = {(s \o t)[n] : n \in 1 .. Len(s) + Len(t)}
        /\ Range(s) = {s[n] : n \in 1 .. Len(s)} /\ Range(t) = {t[n] : n \in 1 .. Len(t)}
    BY <1>1 DEF Range
  <1>9. QED
    BY <1>5, <1>6, <1>7, <1>8

LEMMA RangeAppend ==
    ASSUME NEW T, NEW s \in Seq(T), NEW x \in T
    PROVE  Range(Append(s, x)) = Range(s) \cup {x}
  <1>1. Append(s, x) \in Seq(T) /\ Len(Append(s, x)) = Len(s) + 1
    OBVIOUS
  <1>2. \A n \in 1 .. Len(s) + 1 : Append(s, x)[n] = IF n = Len(s) + 1 THEN x ELSE s[n]
    OBVIOUS
  <1>3. \A n \in 1 .. Len(s) : Append(s, x)[n] = s[n]
    OBVIOUS
  <1>4. QED
    BY <1>1, <1>2, <1>3 DEF Range

(* No entry twice: the tail has all but the head.                          *)
LEMMA RangeTail ==
    ASSUME NEW T, NEW s \in Seq(T), s # <<>>, \A n, k \in DOMAIN s : s[n] = s[k] => n = k
    PROVE  /\ Range(Tail(s)) = Range(s) \ {Head(s)}
           /\ Head(s) \in Range(s) /\ Tail(s) \in Seq(T)
           /\ \A n, k \in DOMAIN Tail(s) : Tail(s)[n] = Tail(s)[k] => n = k
  <1>1. /\ Tail(s) \in Seq(T) /\ Len(Tail(s)) = Len(s) - 1 /\ Head(s) = s[1] /\ Len(s) \in Nat
        /\ Len(s) # 0
    OBVIOUS
  <1>2. \A n \in 1 .. Len(s) - 1 : Tail(s)[n] = s[n + 1]
    OBVIOUS
  <1>3. DOMAIN s = 1 .. Len(s) /\ DOMAIN Tail(s) = 1 .. Len(s) - 1
    BY <1>1
  <1>4. \A n \in 1 .. Len(s) - 1 : n + 1 \in 1 .. Len(s) /\ n + 1 # 1
    BY <1>1
  <1>5. \A n \in 1 .. Len(s) : n # 1 => n - 1 \in 1 .. Len(s) - 1 /\ (n - 1) + 1 = n
    BY <1>1
  <1>6. 1 \in 1 .. Len(s)
    BY <1>1
  <1>7. Range(Tail(s)) \subseteq Range(s) \ {Head(s)}
    BY <1>1, <1>2, <1>3, <1>4, <1>6 DEF Range
  <1>8. ASSUME NEW n \in 1 .. Len(s), s[n] # Head(s)
        PROVE  s[n] \in Range(Tail(s))
    <2>1. n # 1
      BY <1>1, <1>8
    <2>2. n - 1 \in 1 .. Len(s) - 1 /\ Tail(s)[n - 1] = s[n]
      BY <1>2, <1>5, <2>1
    <2>3. QED
      BY <1>3, <2>2 DEF Range
  <1>9. ASSUME NEW n \in DOMAIN Tail(s), NEW k \in DOMAIN Tail(s), Tail(s)[n] = Tail(s)[k]
        PROVE  n = k
    <2>1. s[n + 1] = s[k + 1] /\ n + 1 \in DOMAIN s /\ k + 1 \in DOMAIN s
      BY <1>2, <1>3, <1>4, <1>9
    <2>2. n + 1 = k + 1
      BY <2>1
    <2>3. QED
      BY <1>1, <1>3, <2>2
  <1>10. QED
    BY <1>1, <1>3, <1>6, <1>7, <1>8, <1>9 DEF Range

(* Entries of two sequences without a common one.                          *)
LEMMA DistinctConcat ==
    ASSUME NEW T, NEW s \in Seq(T), NEW t \in Seq(T), Range(s) \cap Range(t) = {},
           \A n, k \in DOMAIN s : s[n] = s[k] => n = k,
           \A n, k \in DOMAIN t : t[n] = t[k] => n = k
    PROVE  \A n, k \in DOMAIN (s \o t) : (s \o t)[n] = (s \o t)[k] => n = k
  <1> DEFINE L == Len(s)
             M == Len(t)
             u == s \o t
  <1>1. L \in Nat /\ M \in Nat /\ DOMAIN u = 1 .. L + M /\ DOMAIN s = 1 .. L /\ DOMAIN t = 1 .. M
    OBVIOUS
  <1>2. /\ \A n \in 1 .. L : u[n] = s[n]
        /\ \A n \in 1 .. L + M : n > L => u[n] = t[n - L]
    OBVIOUS
  <1>3. \A n \in 1 .. L : \A k \in 1 .. M : s[n] # t[k]
    BY <1>1 DEF Range
  <1> HIDE DEF L, M, u
  <1>4. ASSUME NEW n \in 1 .. L + M, NEW k \in 1 .. L + M, u[n] = u[k]
        PROVE  n = k
    <2>1. CASE n <= L /\ k <= L
      BY <1>1, <1>2, <1>4, <2>1
    <2>2. CASE n > L /\ k > L
      <3>1. n - L \in 1 .. M /\ k - L \in 1 .. M /\ t[n - L] = t[k - L]
        BY <1>1, <1>2, <1>4, <2>2
      <3>2. n - L = k - L
        BY <1>1, <3>1
      <3>3. QED
        BY <1>1, <3>2
    <2>3. CASE n <= L /\ k > L
      <3>1. n \in 1 .. L /\ k - L \in 1 .. M /\ s[n] = t[k - L]
        BY <1>1, <1>2, <1>4, <2>3
      <3>2. QED
        BY <1>3, <3>1
    <2>4. CASE n > L /\ k <= L
      <3>1. k \in 1 .. L /\ n - L \in 1 .. M /\ s[k] = t[n - L]
        BY <1>1, <1>2, <1>4, <2>4
      <3>2. QED
        BY <1>3, <3>1
    <2>5. QED
      BY <1>1, <2>1, <2>2, <2>3, <2>4
  <1>5. QED
    BY <1>1, <1>4 DEF u

-----------------------------------------------------------------------------
(* Kahn's algorithm. *)

(* What holds at first and from one number to the next holds up to N.      *)
LEMMA UpTo ==
    ASSUME NEW N \in Nat, NEW S, 0 \in S, \A n \in 1 .. N : n - 1 \in S => n \in S
    PROVE  0 .. N \subseteq S
  <1> SUFFICES ASSUME NEW m \in (0 .. N) \ S
               PROVE  FALSE
    OBVIOUS
  <1> DEFINE B == {n \in Nat : n \in (0 .. N) \ S}
  <1>1. B # {} /\ B \subseteq Nat
    OBVIOUS
  <1>2. PICK n \in B : \A k \in B : ~(<<k, n>> \in OpToRel(<, Nat))
    BY <1>1, NatLessThanWellFounded, WFMin, Zenon
  <1>3. \A k \in B : ~(k < n)
    BY <1>2, <1>1 DEF OpToRel
  <1>4. n \in 1 .. N /\ n - 1 \notin B
    BY <1>3
  <1>5. QED
    BY <1>4

(* A definition by recursion up to N, and that it has a solution.          *)
Follows(f, N, V, v, step) ==
    f \in [0 .. N -> V] /\ f[0] = v /\ \A n \in 1 .. N : f[n] = step[f[n - 1]]

LEMMA Recursion ==
    ASSUME NEW N \in Nat, NEW V, NEW v \in V, NEW step \in [V -> V]
    PROVE  \E f : Follows(f, N, V, v, step)
  <1> DEFINE Good == {m \in 0 .. N : \E f \in [0 .. m -> V] :
                        f[0] = v /\ \A n \in 1 .. m : f[n] = step[f[n - 1]]}
  <1>1. 0 \in Good
    <2> DEFINE f == [n \in 0 .. 0 |-> v]
    <2>1. f \in [0 .. 0 -> V] /\ f[0] = v /\ \A n \in 1 .. 0 : f[n] = step[f[n - 1]]
      OBVIOUS
    <2> HIDE DEF f
    <2>2. QED
      BY <2>1
  <1>2. ASSUME NEW m \in 1 .. N, m - 1 \in Good
        PROVE  m \in Good
    <2>1. PICK f \in [0 .. m - 1 -> V] :
            f[0] = v /\ \A n \in 1 .. m - 1 : f[n] = step[f[n - 1]]
      BY <1>2
    <2> DEFINE g == [n \in 0 .. m |-> IF n = m THEN step[f[m - 1]] ELSE f[n]]
    <2>2. step[f[m - 1]] \in V
      OBVIOUS
    <2>3. g \in [0 .. m -> V]
      BY <2>2
    <2>4. g[0] = v
      BY <2>1
    <2>5. ASSUME NEW n \in 1 .. m
          PROVE  g[n] = step[g[n - 1]]
      <3>1. g[n - 1] = f[n - 1]
        OBVIOUS
      <3>2. CASE n = m
        BY <3>1, <3>2
      <3>3. CASE n # m
        BY <2>1, <3>1, <3>3
      <3>4. QED
        BY <3>2, <3>3
    <2> HIDE DEF g
    <2>6. QED
      BY <2>3, <2>4, <2>5
  <1>3. N \in 0 .. N
    OBVIOUS
  <1> HIDE DEF Good
  <1>4. 0 .. N \subseteq Good
    BY <1>1, <1>2, UpTo
  <1>5. N \in Good
    BY <1>3, <1>4
  <1>6. QED
    BY <1>5 DEF Good, Follows

KahnState(D) ==
    [edges : SUBSET (D \X D), waits : [D -> SUBSET D], ready : Seq(D), depth : [D -> Nat],
     out : Seq(D)]

(* Between two rounds: an entry waits for those of its predecessors that   *)
(* are not installed, it is ready or installed once it waits for none, and *)
(* what is installed came after its predecessors.                          *)
KahnOK(D, E, s) ==
    /\ s \in KahnState(D) /\ s.edges = E
    /\ \A j \in D : s.waits[j] = {k \in D : <<k, j>> \in E} \ Range(s.out)
    /\ \A j \in D : s.waits[j] = {} <=> j \in Range(s.out) \cup Range(s.ready)
    /\ \A n, k \in DOMAIN s.out : s.out[n] = s.out[k] => n = k
    /\ \A n, k \in DOMAIN s.ready : s.ready[n] = s.ready[k] => n = k
    /\ Range(s.out) \cap Range(s.ready) = {}
    /\ \A n \in DOMAIN s.out : \A j \in D :
         <<j, s.out[n]>> \in E => \E k \in DOMAIN s.out : k < n /\ s.out[k] = j

(* The depth of an entry is one more than that of its deepest predecessor  *)
(* among those installed.                                                  *)
DepthOK(D, E, s) ==
    \A j \in D :
        /\ \A k \in Range(s.out) : <<k, j>> \in E => s.depth[k] < s.depth[j]
        /\ s.depth[j] # 0 =>
             \E k \in Range(s.out) : <<k, j>> \in E /\ s.depth[j] = s.depth[k] + 1

LEMMA KahnStarts ==
    ASSUME NEW F \in Seq(Feature), NEW E \in SUBSET ((DOMAIN F) \X (DOMAIN F))
    PROVE  /\ KahnOK(DOMAIN F, E, KahnStart(F, E)) /\ DepthOK(DOMAIN F, E, KahnStart(F, E))
           /\ KahnStart(F, E).out = <<>>
  <1> DEFINE D == DOMAIN F
             first == {x \in D : \A j \in D : <<j, x>> \notin E}
             s == KahnStart(F, E)
  <1>1. Lists(Sorted(F, first), first)
    BY SortedLists
  <1>2. /\ s.edges = E /\ s.waits = [x \in D |-> {j \in D : <<j, x>> \in E}]
        /\ s.ready = Sorted(F, first) /\ s.depth = [x \in D |-> 0] /\ s.out = <<>>
        /\ s = [edges |-> s.edges, waits |-> s.waits, ready |-> s.ready, depth |-> s.depth,
                out |-> s.out]
    BY DEF KahnStart
  <1> HIDE DEF s, D
  <1>3. s.ready \in Seq(D) /\ Range(s.ready) = first
    <2>1. s.ready \in Seq(first) /\ \A x \in first : \E n \in DOMAIN s.ready : s.ready[n] = x
      BY <1>1, <1>2 DEF Lists
    <2>2. QED
      BY <2>1 DEF Range
  <1>4. s \in KahnState(D)
    <2>1. /\ s.edges \in SUBSET (D \X D) /\ s.waits \in [D -> SUBSET D]
          /\ s.depth \in [D -> Nat] /\ s.out \in Seq(D)
      BY <1>2 DEF D
    <2>2. QED
      BY <1>2, <1>3, <2>1 DEF KahnState
  <1>5. Range(s.out) = {} /\ DOMAIN s.out = {}
    BY <1>2 DEF Range
  <1>6. \A j \in D : s.waits[j] = {} <=> j \in first
    BY <1>2
  <1>7. KahnOK(D, E, s)
    <2>1. \A j \in D : s.waits[j] = {k \in D : <<k, j>> \in E} \ Range(s.out)
      BY <1>2, <1>5
    <2>2. \A n, k \in DOMAIN s.ready : s.ready[n] = s.ready[k] => n = k
      BY <1>1, <1>2 DEF Lists
    <2>3. QED
      BY <1>2, <1>3, <1>4, <1>5, <1>6, <2>1, <2>2 DEF KahnOK
  <1>8. DepthOK(D, E, s)
    BY <1>2, <1>5 DEF DepthOK
  <1>9. QED
    BY <1>2, <1>7, <1>8 DEF s, D

LEMMA KahnSteps ==
    ASSUME NEW F \in Seq(Feature), NEW E \in SUBSET ((DOMAIN F) \X (DOMAIN F)),
           NEW s, KahnOK(DOMAIN F, E, s), s.ready # <<>>
    PROVE  /\ KahnOK(DOMAIN F, E, KahnStep(F, s))
           /\ DepthOK(DOMAIN F, E, s) => DepthOK(DOMAIN F, E, KahnStep(F, s))
           /\ Len(KahnStep(F, s).out) = Len(s.out) + 1
  <1> DEFINE D == DOMAIN F
             h == Head(s.ready)
             next == Sorted(F, Released(s))
             t == KahnStep(F, s)
  <1>1. /\ s \in KahnState(D) /\ s.edges = E
        /\ s.waits \in [D -> SUBSET D] /\ s.ready \in Seq(D) /\ s.depth \in [D -> Nat]
        /\ s.out \in Seq(D)
    BY DEF KahnOK, KahnState
  <1>2. /\ Range(Tail(s.ready)) = Range(s.ready) \ {h} /\ h \in Range(s.ready)
        /\ Tail(s.ready) \in Seq(D)
        /\ \A n, k \in DOMAIN Tail(s.ready) : Tail(s.ready)[n] = Tail(s.ready)[k] => n = k
    BY <1>1, RangeTail DEF KahnOK
  <1>3. h \in D
    BY <1>1
  <1>4. \A j \in D : j \in Released(s) <=> <<h, j>> \in E /\ s.waits[j] \subseteq {h}
    BY <1>1 DEF Released
  <1>5. Released(s) \subseteq D
    BY <1>1 DEF Released
  <1>6. Lists(next, Released(s))
    BY <1>5, SortedLists
  <1>7. /\ next \in Seq(D) /\ Range(next) = Released(s)
        /\ \A n, k \in DOMAIN next : next[n] = next[k] => n = k
    <2>1. next \in Seq(Released(s)) /\ \A x \in Released(s) : \E n \in DOMAIN next : next[n] = x
      BY <1>6 DEF Lists
    <2>2. \A n, k \in DOMAIN next : next[n] = next[k] => n = k
      BY <1>6 DEF Lists
    <2> HIDE DEF next
    <2>3. next \in Seq(D) /\ Range(next) = Released(s)
      BY <1>5, <2>1 DEF Range
    <2>4. QED
      BY <2>2, <2>3
  <1>8. /\ t.edges = E
        /\ t.waits = [j \in D |-> s.waits[j] \ {h}]
        /\ t.ready = Tail(s.ready) \o next
        /\ t.depth = [j \in D |-> IF <<h, j>> \in E /\ s.depth[h] + 1 > s.depth[j]
                                  THEN s.depth[h] + 1 ELSE s.depth[j]]
        /\ t.out = Append(s.out, h)
        /\ t = [edges |-> t.edges, waits |-> t.waits, ready |-> t.ready, depth |-> t.depth,
                out |-> t.out]
    <2>1. DOMAIN s = {"edges", "waits", "ready", "depth", "out"} /\ DOMAIN s.waits = D
          /\ DOMAIN s.depth = D
      BY <1>1 DEF KahnState
    <2>2. t = [s EXCEPT !.waits = [j \in D |-> s.waits[j] \ {h}],
                        !.ready = Tail(s.ready) \o next,
                        !.depth = [j \in D |->
                                     IF <<h, j>> \in E /\ s.depth[h] + 1 > s.depth[j]
                                     THEN s.depth[h] + 1 ELSE s.depth[j]],
                        !.out   = Append(s.out, h)]
      BY <1>1, <2>1 DEF KahnStep, Install
    <2> HIDE DEF next, t, h
    <2>3. /\ DOMAIN t = {"edges", "waits", "ready", "depth", "out"}
          /\ t.edges = E /\ t.ready = Tail(s.ready) \o next /\ t.out = Append(s.out, h)
      BY <1>1, <2>1, <2>2
    <2>4. t.waits = [j \in D |-> s.waits[j] \ {h}]
      BY <2>1, <2>2
    <2>5. t.depth = [j \in D |-> IF <<h, j>> \in E /\ s.depth[h] + 1 > s.depth[j]
                                THEN s.depth[h] + 1 ELSE s.depth[j]]
      BY <2>1, <2>2
    <2>6. t = [edges |-> t.edges, waits |-> t.waits, ready |-> t.ready, depth |-> t.depth,
               out |-> t.out]
      BY <2>1, <2>2
    <2>7. QED
      BY <2>3, <2>4, <2>5, <2>6
  <1> HIDE DEF next, t, h
  <1>9. t \in KahnState(D)
    <2>0. s.depth[h] + 1 \in Nat /\ \A j \in D : s.depth[j] \in Nat /\ s.waits[j] \ {h} \subseteq D
      <3>1. PICK d \in [D -> Nat] : d = s.depth
        BY <1>1
      <3>2. PICK w \in [D -> SUBSET D] : w = s.waits
        BY <1>1
      <3>3. \A j \in D : d[j] \in Nat /\ w[j] \in SUBSET D
        BY <3>1, <3>2
      <3>4. d[h] + 1 \in Nat
        BY <1>3, <3>3
      <3>5. \A j \in D : w[j] \ {h} \subseteq D
        BY <3>3
      <3>6. QED
        BY <3>1, <3>2, <3>3, <3>4, <3>5
    <2>1. t.waits \in [D -> SUBSET D] /\ t.depth \in [D -> Nat]
      BY <1>8, <2>0
    <2>2. t.ready \in Seq(D) /\ t.out \in Seq(D)
      BY <1>1, <1>2, <1>3, <1>7, <1>8
    <2>3. QED
      BY <1>8, <2>1, <2>2 DEF KahnState
  <1>10. Range(t.out) = Range(s.out) \cup {h}
    BY <1>1, <1>3, <1>8, RangeAppend
  <1>11. Range(t.ready) = (Range(s.ready) \ {h}) \cup Released(s)
    BY <1>2, <1>7, <1>8, RangeConcat
  <1>12. h \notin Range(s.out)
    BY <1>2 DEF KahnOK
  <1>13. \A j \in D : s.waits[j] = {k \in D : <<k, j>> \in E} \ Range(s.out)
    BY DEF KahnOK
  <1>14. \A j \in D : s.waits[j] = {} <=> j \in Range(s.out) \cup Range(s.ready)
    BY DEF KahnOK
  <1>15. \A j \in Released(s) : j \notin Range(s.out) \cup Range(s.ready)
    BY <1>3, <1>4, <1>5, <1>12, <1>13, <1>14
  <1>16. \A j \in D : t.waits[j] = {k \in D : <<k, j>> \in E} \ Range(t.out)
    BY <1>8, <1>10, <1>13
  <1>17. \A j \in D : t.waits[j] = {} <=> j \in Range(t.out) \cup Range(t.ready)
    <2> SUFFICES ASSUME NEW j \in D
                 PROVE  t.waits[j] = {} <=> j \in Range(t.out) \cup Range(t.ready)
      OBVIOUS
    <2>1. t.waits[j] = s.waits[j] \ {h}
      BY <1>8
    <2>2. CASE s.waits[j] = {}
      BY <1>10, <1>11, <1>14, <2>1, <2>2
    <2>3. CASE s.waits[j] # {} /\ s.waits[j] \subseteq {h}
      <3>1. <<h, j>> \in E
        BY <1>13, <2>3
      <3>2. j \in Released(s)
        BY <1>4, <2>3, <3>1
      <3>3. QED
        BY <1>11, <2>1, <2>3, <3>2
    <2>4. CASE ~(s.waits[j] \subseteq {h})
      <3>1. j \notin Released(s) /\ j \notin Range(s.out) \cup Range(s.ready)
        BY <1>4, <1>14, <2>4
      <3>2. QED
        BY <1>2, <1>10, <1>11, <2>1, <2>4, <3>1
    <2>5. QED
      BY <2>2, <2>3, <2>4
  <1>18. DOMAIN t.out = 1 .. Len(s.out) + 1 /\ DOMAIN s.out = 1 .. Len(s.out) /\ Len(s.out) \in Nat
    BY <1>1, <1>3, <1>8
  <1>19. t.out[Len(s.out) + 1] = h /\ \A n \in DOMAIN s.out : t.out[n] = s.out[n]
    <2>1. PICK u \in Seq(D) : u = s.out
      BY <1>1
    <2>2. Append(u, h)[Len(u) + 1] = h /\ \A n \in DOMAIN u : Append(u, h)[n] = u[n]
      BY <1>3
    <2>3. QED
      BY <1>8, <2>1, <2>2
  <1>20. \A n \in DOMAIN s.out : t.out[n] # h
    BY <1>12, <1>19 DEF Range
  <1>21. \A n, k \in DOMAIN t.out : t.out[n] = t.out[k] => n = k
    BY <1>18, <1>19, <1>20 DEF KahnOK
  <1>22. \A n, k \in DOMAIN t.ready : t.ready[n] = t.ready[k] => n = k
    <2>1. Range(Tail(s.ready)) \cap Range(next) = {}
      BY <1>2, <1>7, <1>15
    <2>2. PICK u \in Seq(D) : u = Tail(s.ready)
      BY <1>2
    <2>3. /\ next \in Seq(D) /\ Range(u) \cap Range(next) = {}
          /\ \A n, k \in DOMAIN u : u[n] = u[k] => n = k
          /\ \A n, k \in DOMAIN next : next[n] = next[k] => n = k
      BY <1>2, <1>7, <2>1, <2>2
    <2>4. \A n, k \in DOMAIN (u \o next) : (u \o next)[n] = (u \o next)[k] => n = k
      BY <2>3, DistinctConcat, Zenon
    <2>5. QED
      BY <1>8, <2>2, <2>4
  <1>23. Range(t.out) \cap Range(t.ready) = {}
    BY <1>2, <1>10, <1>11, <1>15 DEF KahnOK
  <1>24. ASSUME NEW n \in DOMAIN t.out, NEW j \in D, <<j, t.out[n]>> \in E
         PROVE  \E k \in DOMAIN t.out : k < n /\ t.out[k] = j
    <2>1. CASE n \in DOMAIN s.out
      <3>1. PICK k \in DOMAIN s.out : k < n /\ s.out[k] = j
        BY <1>19, <1>24, <2>1 DEF KahnOK
      <3>2. QED
        BY <1>18, <1>19, <3>1
    <2>2. CASE n = Len(s.out) + 1
      <3>1. s.waits[h] = {}
        BY <1>2, <1>3, <1>14
      <3>2. j \in Range(s.out)
        BY <1>3, <1>13, <1>19, <1>24, <2>2, <3>1
      <3>3. PICK k \in DOMAIN s.out : s.out[k] = j
        BY <3>2 DEF Range
      <3>4. k < n /\ k \in DOMAIN t.out
        BY <1>18, <2>2
      <3>5. QED
        BY <1>19, <3>3, <3>4
    <2>3. QED
      BY <1>18, <2>1, <2>2
  <1>25. KahnOK(D, E, t)
    BY <1>8, <1>9, <1>16, <1>17, <1>21, <1>22, <1>23, <1>24 DEF KahnOK
  <1>26. ASSUME DepthOK(D, E, s)
         PROVE  DepthOK(D, E, t)
    <2>1. <<h, h>> \notin E /\ \A k \in Range(s.out) : k \in D /\ <<h, k>> \notin E
      <3>1. s.waits[h] = {} /\ \A k \in Range(s.out) : k \in D /\ s.waits[k] = {}
        <4>1. Range(s.out) \subseteq D
          BY <1>1 DEF Range
        <4>2. QED
          BY <1>2, <1>3, <1>14, <4>1
      <3>2. QED
        BY <1>3, <1>12, <1>13, <3>1
    <2>2. t.depth[h] = s.depth[h] /\ \A k \in Range(s.out) : t.depth[k] = s.depth[k]
      BY <1>3, <1>8, <2>1
    <2>3. \A j \in D : s.depth[j] \in Nat
      BY <1>1
    <2>4. ASSUME NEW j \in D
          PROVE  /\ \A k \in Range(t.out) : <<k, j>> \in E => t.depth[k] < t.depth[j]
                 /\ t.depth[j] # 0 =>
                      \E k \in Range(t.out) : <<k, j>> \in E /\ t.depth[j] = t.depth[k] + 1
      <3>1. t.depth[j] = IF <<h, j>> \in E /\ s.depth[h] + 1 > s.depth[j]
                         THEN s.depth[h] + 1 ELSE s.depth[j]
        BY <1>8
      <3>2. /\ \A k \in Range(s.out) : <<k, j>> \in E => s.depth[k] < s.depth[j]
            /\ s.depth[j] # 0 =>
                 \E k \in Range(s.out) : <<k, j>> \in E /\ s.depth[j] = s.depth[k] + 1
        BY <1>26 DEF DepthOK
      <3>3. ASSUME NEW k \in Range(t.out), <<k, j>> \in E
            PROVE  t.depth[k] < t.depth[j]
        <4>1. CASE k = h
          BY <1>3, <2>2, <2>3, <3>1, <3>3, <4>1
        <4>2. CASE k \in Range(s.out)
          <5>1. t.depth[k] = s.depth[k] /\ s.depth[k] < s.depth[j] /\ k \in D
            BY <2>1, <2>2, <3>2, <3>3, <4>2
          <5>2. s.depth[j] \in Nat /\ s.depth[h] \in Nat /\ s.depth[k] \in Nat
            BY <1>3, <2>3, <5>1
          <5>3. s.depth[j] <= t.depth[j] /\ t.depth[j] \in Nat
            <6>1. PICK a \in Nat, b \in Nat : a = s.depth[j] /\ b = s.depth[h]
              BY <5>2
            <6>2. t.depth[j] = a \/ (t.depth[j] = b + 1 /\ b + 1 > a)
              BY <3>1, <6>1
            <6>3. QED
              BY <6>1, <6>2
          <5>4. QED
            BY <5>1, <5>2, <5>3
        <4>3. QED
          BY <1>10, <4>1, <4>2
      <3>4. ASSUME t.depth[j] # 0
            PROVE  \E k \in Range(t.out) : <<k, j>> \in E /\ t.depth[j] = t.depth[k] + 1
        <4>1. CASE <<h, j>> \in E /\ s.depth[h] + 1 > s.depth[j]
          BY <1>10, <2>2, <3>1, <4>1
        <4>2. CASE ~(<<h, j>> \in E /\ s.depth[h] + 1 > s.depth[j])
          <5>1. PICK k \in Range(s.out) : <<k, j>> \in E /\ s.depth[j] = s.depth[k] + 1
            BY <3>1, <3>2, <3>4, <4>2
          <5>2. QED
            BY <1>10, <2>2, <3>1, <4>2, <5>1
        <4>3. QED
          BY <4>1, <4>2
      <3>5. QED
        BY <3>3, <3>4
    <2>5. QED
      BY <2>4 DEF DepthOK
  <1>27. Len(t.out) = Len(s.out) + 1
    BY <1>1, <1>3, <1>8
  <1>28. QED
    BY <1>25, <1>26, <1>27 DEF t

(* One state at the end: all entries are installed, or none is ready.      *)
LEMMA KahnEnds ==
    ASSUME NEW F \in Seq(Feature)
    PROVE  \E s : /\ Kahn(F) = {s} /\ KahnOK(DOMAIN F, Edges(F), s)
                  /\ DepthOK(DOMAIN F, Edges(F), s)
                  /\ Len(s.out) = Len(F) \/ s.ready = <<>>
  <1> DEFINE D == DOMAIN F
             L == Len(F)
             E == Edges(F)
             OK == {s \in KahnState(D) : KahnOK(D, E, s) /\ DepthOK(D, E, s)}
             V == {{s} : s \in OK}
             first == {KahnStart(F, edges) : edges \in {Edges(F)}}
             round(X) == {IF s.ready = <<>> THEN s ELSE KahnStep(F, s) : s \in X}
             rounds == CHOOSE g : g = [n \in 0 .. L |-> IF n = 0 THEN first ELSE round(g[n - 1])]
  <1>1. L \in Nat /\ E \in SUBSET (D \X D)
    BY DEF Edges
  <1>2. KahnStart(F, E) \in OK /\ KahnStart(F, E).out = <<>> /\ first = {KahnStart(F, E)}
    <2>1. KahnOK(D, E, KahnStart(F, E)) /\ DepthOK(D, E, KahnStart(F, E)) /\ KahnStart(F, E).out = <<>>
      <3> HIDE DEF E
      <3>1. QED
        BY <1>1, KahnStarts
    <2>2. KahnStart(F, E) \in KahnState(D)
      BY <2>1 DEF KahnOK
    <2>3. QED
      BY <2>1, <2>2
  <1>3. ASSUME NEW s \in OK
        PROVE  LET t == IF s.ready = <<>> THEN s ELSE KahnStep(F, s)
               IN  round({s}) = {t} /\ t \in OK
    <2>1. round({s}) = {IF s.ready = <<>> THEN s ELSE KahnStep(F, s)}
      OBVIOUS
    <2>2. ASSUME s.ready # <<>>
          PROVE  KahnStep(F, s) \in OK
      <3>1. KahnOK(D, E, s) /\ DepthOK(D, E, s)
        OBVIOUS
      <3>2. KahnOK(D, E, KahnStep(F, s)) /\ DepthOK(D, E, KahnStep(F, s))
        <4> HIDE DEF E, OK
        <4>1. QED
          BY <1>1, <2>2, <3>1, KahnSteps
      <3>3. KahnStep(F, s) \in KahnState(D)
        BY <3>2 DEF KahnOK
      <3>4. QED
        BY <3>2, <3>3
    <2>3. QED
      BY <2>1, <2>2
  <1>4. Kahn(F) = rounds[L]
    BY Zenon DEF Kahn
  <1> HIDE DEF E, OK, first, round
  <1>5. \E g : g = [n \in 0 .. L |-> IF n = 0 THEN first ELSE round(g[n - 1])]
    <2> DEFINE step == [X \in V |-> round(X)]
    <2>1. first \in V
      BY <1>2
    <2>2. ASSUME NEW X \in V
          PROVE  round(X) \in V
      BY <1>3
    <2>3. step \in [V -> V]
      BY <2>2
    <2> HIDE DEF V
    <2> HIDE DEF step
    <2>b. PICK f : Follows(f, L, V, first, step)
      <3> HIDE DEF L
      <3>1. QED
        BY <1>1, <2>1, <2>3, Recursion
    <2>4. f \in [0 .. L -> V] /\ f[0] = first /\ \A n \in 1 .. L : f[n] = step[f[n - 1]]
      BY <2>b DEF Follows
    <2>5. ASSUME NEW n \in 0 .. L
          PROVE  f[n] = IF n = 0 THEN first ELSE round(f[n - 1])
      <3>1. CASE n = 0
        BY <2>4, <3>1
      <3>2. CASE n # 0
        <4>1. n \in 1 .. L /\ n - 1 \in 0 .. L
          BY <1>1, <3>2
        <4>2. f[n] = step[f[n - 1]] /\ f[n - 1] \in V
          BY <2>4, <4>1
        <4>3. QED
          BY <3>2, <4>2 DEF step
      <3>3. QED
        BY <3>1, <3>2
    <2>6. f = [n \in 0 .. L |-> IF n = 0 THEN first ELSE round(f[n - 1])]
      <3>1. f = [n \in 0 .. L |-> f[n]]
        BY <2>4
      <3>2. QED
        BY <2>5, <3>1, Zenon
    <2>7. QED
      BY <2>6
  <1>6. rounds = [n \in 0 .. L |-> IF n = 0 THEN first ELSE round(rounds[n - 1])]
    BY <1>5, Zenon
  <1> HIDE DEF rounds
  <1>7. rounds[0] = first /\ \A n \in 1 .. L : rounds[n] = round(rounds[n - 1])
    BY <1>1, <1>6
  <1> DEFINE S == {n \in 0 .. L : \E s \in OK : rounds[n] = {s} /\ (Len(s.out) = n \/ s.ready = <<>>)}
  <1>8. 0 \in S
    <2>1. Len(KahnStart(F, E).out) = 0
      BY <1>2
    <2>2. QED
      BY <1>1, <1>2, <1>7, <2>1
  <1>9. ASSUME NEW n \in 1 .. L, n - 1 \in S
        PROVE  n \in S
    <2>1. PICK s \in OK : rounds[n - 1] = {s} /\ (Len(s.out) = n - 1 \/ s.ready = <<>>)
      BY <1>9
    <2>2. rounds[n] = round({s})
      BY <1>7, <2>1
    <2>3. CASE s.ready = <<>>
      BY <1>1, <1>3, <2>2, <2>3
    <2>4. CASE s.ready # <<>>
      <3>1. Len(KahnStep(F, s).out) = Len(s.out) + 1
        BY <1>1, <2>4, KahnSteps DEF OK
      <3>2. Len(KahnStep(F, s).out) = n
        BY <2>1, <2>4, <3>1
      <3>3. rounds[n] = {KahnStep(F, s)} /\ KahnStep(F, s) \in OK
        BY <1>3, <2>2, <2>4
      <3>4. QED
        BY <1>1, <3>2, <3>3
    <2>5. QED
      BY <2>3, <2>4
  <1> HIDE DEF S, L
  <1>10. 0 .. L \subseteq S
    BY <1>1, <1>8, <1>9, UpTo
  <1>11. PICK s \in OK : rounds[L] = {s} /\ (Len(s.out) = L \/ s.ready = <<>>)
    BY <1>1, <1>10 DEF S
  <1>12. QED
    BY <1>4, <1>11 DEF OK, E, L

(* p puts the entries of F into an order that follows the edges.           *)
Arranges(p, F) ==
    /\ p \in [DOMAIN F -> DOMAIN F]
    /\ \A j \in DOMAIN F : \E n \in DOMAIN F : p[n] = j
    /\ \A n, k \in DOMAIN F : p[n] = p[k] => n = k
    /\ \A n, k \in DOMAIN F : <<p[k], p[n]>> \in Edges(F) => k <= n

IsOrdered(r) == r = [outcome |-> r.outcome, features |-> r.features]

Rearranged(F, p) == [n \in DOMAIN F |-> F[p[n]]]

OutcomeOf(F, s) ==
    IF Len(s.out) < Len(F) THEN "cycle"
    ELSE IF \E n \in DOMAIN F : s.depth[n] >= dagErrorDepth THEN "too deep"
    ELSE "ok"

LEMMA SortingFields ==
    ASSUME NEW F, NEW s
    PROVE  /\ IsOrdered(Sorting(F, s))
           /\ Sorting(F, s).outcome = OutcomeOf(F, s)
           /\ Sorting(F, s).outcome = "ok" => Sorting(F, s).features = Rearranged(F, s.out)
  <1> DEFINE r == Sorting(F, s)
             all == [n \in DOMAIN F |-> F[s.out[n]]]
             deep == \E n \in DOMAIN F : s.depth[n] >= dagErrorDepth
  <1>1. r = IF Len(s.out) < Len(F) THEN Ordered("cycle", <<>>)
            ELSE IF deep THEN Ordered("too deep", <<>>) ELSE Ordered("ok", all)
    BY Zenon DEF Sorting
  <1> HIDE DEF all, deep, r
  <1>2. \A o, f : /\ Ordered(o, f) = [outcome |-> o, features |-> f]
                  /\ Ordered(o, f).outcome = o /\ Ordered(o, f).features = f
    BY DEF Ordered
  <1>3. CASE Len(s.out) < Len(F)
    <2>1. r = Ordered("cycle", <<>>)
      BY <1>1, <1>3
    <2>2. r.outcome = "cycle" /\ r = [outcome |-> r.outcome, features |-> r.features]
      BY <1>2, <2>1
    <2>3. QED
      BY <1>3, <2>2 DEF r, deep, OutcomeOf, IsOrdered, Rearranged
  <1>4. CASE ~(Len(s.out) < Len(F)) /\ deep
    <2>1. r = Ordered("too deep", <<>>)
      BY <1>1, <1>4
    <2>2. r.outcome = "too deep" /\ r = [outcome |-> r.outcome, features |-> r.features]
      BY <1>2, <2>1
    <2>3. QED
      BY <1>4, <2>2 DEF r, deep, OutcomeOf, IsOrdered, Rearranged
  <1>5. CASE ~(Len(s.out) < Len(F)) /\ ~deep
    <2>1. r = Ordered("ok", all)
      BY <1>1, <1>5
    <2>2. r.outcome = "ok" /\ r.features = all /\ r = [outcome |-> r.outcome, features |-> r.features]
      BY <1>2, <2>1
    <2>3. QED
      BY <1>5, <2>2 DEF r, deep, all, OutcomeOf, IsOrdered, Rearranged
  <1>6. QED
    BY <1>3, <1>4, <1>5

LEMMA TopoSortArranges ==
    ASSUME NEW F \in Seq(Feature), topoSort(F).outcome = "ok"
    PROVE  \E p : /\ Arranges(p, F)
                  /\ topoSort(F).features = Rearranged(F, p)
  <1> DEFINE D == DOMAIN F
  <1>0. Len(F) \in Nat /\ D = 1 .. Len(F)
    OBVIOUS
  <1>1. CASE Len(F) <= 1
    <2> DEFINE p == [n \in D |-> n]
    <2>1. topoSort(F).features = F
      BY <1>1 DEF topoSort, Ordered
    <2>2. F = [n \in D |-> F[p[n]]]
      OBVIOUS
    <2>3. Arranges(p, F)
      BY <1>0, <1>1 DEF Arranges
    <2>4. QED
      BY <2>1, <2>2, <2>3 DEF Rearranged
  <1>2. CASE Len(F) > 1
    <2>1. PICK s : /\ Kahn(F) = {s} /\ KahnOK(D, Edges(F), s)
                   /\ Len(s.out) = Len(F) \/ s.ready = <<>>
      BY KahnEnds
    <2>2. topoSort(F) = Sorting(F, s)
      <3>1. {Sorting(F, t) : t \in Kahn(F)} = {Sorting(F, s)}
        BY <2>1
      <3>2. QED
        BY <1>0, <1>2, <3>1 DEF topoSort
    <2>3. s.out \in Seq(D)
      BY <2>1 DEF KahnOK, KahnState
    <2>4. Len(s.out) >= Len(F) /\ Sorting(F, s).features = [n \in D |-> F[s.out[n]]]
      <3>1. Len(s.out) \in Nat
        BY <2>3
      <3>2. QED
        <4>1. Sorting(F, s).outcome = "ok"
          BY <2>2
        <4>2. Sorting(F, s).features = [n \in D |-> F[s.out[n]]]
          BY <4>1, SortingFields DEF Rearranged
        <4>3. ~(Len(s.out) < Len(F))
          BY <4>1, SortingFields DEF OutcomeOf
        <4>4. QED
          BY <1>0, <3>1, <4>2, <4>3
    <2>5. \A n, k \in DOMAIN s.out : s.out[n] = s.out[k] => n = k
      BY <2>1 DEF KahnOK
    <2>6. s.out \in Injection(D, D) /\ DOMAIN s.out = D
      <3>1. Len(s.out) <= Len(F)
        <4>1. s.out \in Injection(1 .. Len(s.out), D)
          BY <2>3, <2>5 DEF Injection, IsInjective
        <4>2. /\ IsFiniteSet(1 .. Len(F))
              /\ Cardinality(1 .. Len(F)) = IF 1 > Len(F) THEN 0 ELSE Len(F) - 1 + 1
          <5>1. PICK M \in Nat : M = Len(F)
            BY <1>0
          <5>2. 1 \in Int /\ M \in Int
            BY <5>1
          <5>3. IsFiniteSet(1 .. M) /\ Cardinality(1 .. M) = IF 1 > M THEN 0 ELSE M - 1 + 1
            BY <5>2, FS_Interval
          <5>4. QED
            BY <5>1, <5>3
        <4>3. Cardinality(1 .. Len(s.out)) = IF 1 > Len(s.out) THEN 0 ELSE Len(s.out) - 1 + 1
          BY <2>3, FS_Interval
        <4>4. Cardinality(1 .. Len(s.out)) <= Cardinality(D)
          BY <1>0, <4>1, <4>2, FS_Injection
        <4>5. QED
          BY <1>0, <2>3, <4>2, <4>3, <4>4
      <3>2. DOMAIN s.out = D
        BY <1>0, <2>3, <2>4, <3>1
      <3>3. QED
        BY <2>3, <2>5, <3>2 DEF Injection, IsInjective
    <2>7. s.out \in Surjection(D, D)
      <3>1. IsFiniteSet(D)
        BY <1>0, FS_Interval
      <3>2. QED
        BY <2>6, <3>1, FS_Injection
    <2>8. \A n \in D : \A j \in D : <<j, s.out[n]>> \in Edges(F)
            => \E k \in D : k < n /\ s.out[k] = j
      BY <2>1, <2>6 DEF KahnOK
    <2>9. ASSUME NEW n \in D, NEW k \in D, <<s.out[k], s.out[n]>> \in Edges(F)
          PROVE  k <= n
      <3>1. PICK l \in D : l < n /\ s.out[l] = s.out[k]
        BY <2>6, <2>8, <2>9 DEF Injection
      <3>2. QED
        BY <1>0, <2>5, <2>6, <3>1
    <2>10. Arranges(s.out, F)
      BY <2>5, <2>6, <2>7, <2>9 DEF Arranges, Injection, Surjection
    <2>11. QED
      BY <2>2, <2>4, <2>10 DEF Rearranged
  <1>3. QED
    BY <1>0, <1>1, <1>2

LEMMA OrderArranges ==
    ASSUME NEW F \in Seq(Feature), Order(F, <<>>).outcome = "ok"
    PROVE  \E p : /\ Arranges(p, F)
                  /\ Order(F, <<>>).features = Rearranged(F, p)
  <1> DEFINE r == topoSort(F)
             result(x) == [x EXCEPT !.features = IF x.outcome = "ok" THEN <<>> \o @ ELSE <<>>]
  <1>1. Order(F, <<>>) = result(r)
    <2>1. splitByOverride(F, <<>>) = [overridden |-> <<>>, remaining |-> F]
      BY DEF splitByOverride
    <2> DEFINE split == splitByOverride(F, <<>>)
               sorted == {topoSort(remaining) : remaining \in {split.remaining}}
               results == {[x EXCEPT !.features = IF x.outcome = "ok"
                                                  THEN split.overridden \o @ ELSE <<>>] :
                            x \in sorted}
    <2>4. Order(F, <<>>) = CHOOSE x \in results : TRUE
      BY Zenon DEF Order
    <2>5. split.overridden = <<>> /\ split.remaining = F
      BY <2>1
    <2>6. sorted = {r}
      BY <2>5
    <2> HIDE DEF split, sorted, r
    <2>7. results = {[r EXCEPT !.features = IF r.outcome = "ok"
                                            THEN split.overridden \o @ ELSE <<>>]}
      BY <2>6
    <2>8. results = {result(r)}
      BY <2>5, <2>7
    <2> HIDE DEF results, result
    <2>9. QED
      BY <2>4, <2>8
  <1>2. r = [outcome |-> r.outcome, features |-> r.features]
    <2>1. CASE Len(F) <= 1
      BY <2>1 DEF topoSort, Ordered
    <2>2. CASE ~(Len(F) <= 1)
      <3>1. PICK s : Kahn(F) = {s}
        BY KahnEnds
      <3>2. {Sorting(F, t) : t \in Kahn(F)} = {Sorting(F, s)}
        BY <3>1
      <3>3. r = Sorting(F, s)
        BY <2>2, <3>2 DEF topoSort
      <3>4. QED
        BY <3>3, SortingFields DEF IsOrdered
    <2>3. QED
      BY <2>1, <2>2
  <1> HIDE DEF r
  <1>3. r.outcome = "ok" /\ Order(F, <<>>).features = <<>> \o r.features
    BY <1>1, <1>2
  <1>4. PICK p : Arranges(p, F) /\ r.features = [n \in DOMAIN F |-> F[p[n]]]
    BY <1>3, TopoSortArranges DEF r, Rearranged
  <1>5. r.features \in Seq(Feature)
    <2>1. \A n \in DOMAIN F : F[p[n]] \in Feature
      BY <1>4 DEF Arranges
    <2>2. QED
      BY <1>4, <2>1
  <1>6. <<>> \o r.features = r.features
    BY <1>5
  <1>7. Order(F, <<>>).features = [n \in DOMAIN F |-> F[p[n]]]
    BY <1>3, <1>4, <1>6
  <1>8. QED
    BY <1>4, <1>7 DEF Rearranged

-----------------------------------------------------------------------------
(* The features of a call before anything is known of them. *)

LEMMA RequestedType ==
    ASSUME NEW r \in Ref, NEW opts \in Option
    PROVE  /\ Requested(r, opts) \in Feature
           /\ Requested(r, opts).ref = r /\ Requested(r, opts).opts = opts
  <1>1. NoMeta \in Metadata
    <2>1. 0 \in Option /\ {} \in DependsOn
      BY OrderAssumption DEF DependsOn
    <2>2. QED
      BY <2>1 DEF NoMeta, Metadata
  <1>2. NoResolvedRef \in ResolvedRefs
    BY DEF NoResolvedRef, ResolvedRefs
  <1>3. QED
    BY <1>1, <1>2 DEF Requested, Feature

(* A nonempty set of natural numbers has a least member.                   *)
LEMMA MinMember ==
    ASSUME NEW S \in SUBSET Nat, S # {}
    PROVE  Min(S) \in S
  <1>1. PICK n \in S : \A k \in S : ~(<<k, n>> \in OpToRel(<, Nat))
    BY NatLessThanWellFounded, WFMin, Zenon
  <1>2. \A k \in S : ~(k < n)
    BY <1>1 DEF OpToRel
  <1>3. \A k \in S : n <= k
    BY <1>2
  <1>4. QED
    BY <1>3 DEF Min

(* Every feature asked for is there once, however the override puts them.  *)
LEMMA SplitCovers ==
    ASSUME NEW F \in Seq(Feature), NEW override \in Seq(Nat)
    PROVE  LET split == splitByOverride(F, override)
           IN  /\ split.overridden \in Seq(Feature) /\ split.remaining \in Seq(Feature)
               /\ Range(split.overridden) \cup Range(split.remaining) = Range(F)
  <1>1. CASE override = <<>>
    <2>1. splitByOverride(F, override) = [overridden |-> <<>>, remaining |-> F]
      BY <1>1 DEF splitByOverride
    <2>2. Range(<<>>) = {} /\ <<>> \in Seq(Feature)
      BY DEF Range
    <2>3. QED
      BY <2>1, <2>2
  <1>2. CASE override # <<>>
    <2> DEFINE S == Named(F, override)
               at == [k \in S |-> Min({n \in DOMAIN override :
                                         override[n] = normalizeID(F[k].ref)})]
               R == {e \in S \X S :
                       \/ at[e[1]] < at[e[2]]
                       \/ at[e[1]] = at[e[2]] /\ e[1] < e[2]}
    <2>1. Overridden(F, override) = Entries(F, S, R)
      BY Zenon DEF Overridden
    <2>2. S \in SUBSET DOMAIN F
      BY DEF Named
    <2>3. \A k \in S : at[k] \in Nat /\ k \in Nat
      <3> SUFFICES ASSUME NEW k \in S
                   PROVE  at[k] \in Nat /\ k \in Nat
        OBVIOUS
      <3>1. PICK T : T = {n \in DOMAIN override : override[n] = normalizeID(F[k].ref)}
        OBVIOUS
      <3>2. T \subseteq Nat
        BY <3>1
      <3>3. T # {}
        BY <3>1 DEF Named, Range
      <3>4. Min(T) \in Nat
        BY <3>2, <3>3, MinMember
      <3>5. at[k] = Min(T)
        BY <3>1
      <3>6. QED
        BY <2>2, <3>4, <3>5
    <2> HIDE DEF S, at
    <2>4. \A x, y \in S : <<x, y>> \in R <=> at[x] < at[y] \/ (at[x] = at[y] /\ x < y)
      OBVIOUS
    <2> HIDE DEF R
    <2>5. StrictOrder(S, R)
      <3>1. \A x \in S : <<x, x>> \notin R
        BY <2>3, <2>4
      <3>2. ASSUME NEW x \in S, NEW y \in S
            PROVE  x = y \/ <<x, y>> \in R \/ <<y, x>> \in R
        <4>1. at[x] \in Nat /\ at[y] \in Nat /\ x \in Nat /\ y \in Nat
          BY <2>3
        <4>2. x = y \/ (at[x] < at[y] \/ (at[x] = at[y] /\ x < y))
                    \/ (at[y] < at[x] \/ (at[y] = at[x] /\ y < x))
          BY <4>1
        <4>3. QED
          BY <2>4, <4>2
      <3>3. ASSUME NEW x \in S, NEW y \in S, NEW z \in S, <<x, y>> \in R, <<y, z>> \in R
            PROVE  <<x, z>> \in R
        <4>1. /\ at[x] < at[y] \/ (at[x] = at[y] /\ x < y)
              /\ at[y] < at[z] \/ (at[y] = at[z] /\ y < z)
          BY <2>4, <3>3
        <4>2. at[x] < at[z] \/ (at[x] = at[z] /\ x < z)
          BY <2>3, <4>1
        <4>3. QED
          BY <2>4, <4>2
      <3>4. QED
        BY <3>1, <3>2, <3>3 DEF StrictOrder
    <2>7. PICK p : p = SortedBy(S, R)
      OBVIOUS
    <2>8. /\ Lists(p, S) /\ Overridden(F, override) \in Seq(Feature)
          /\ DOMAIN Overridden(F, override) = DOMAIN p
          /\ \A n \in DOMAIN p : Overridden(F, override)[n] = F[p[n]]
      BY <2>1, <2>2, <2>5, <2>7, EntriesList
    <2>9. Range(Overridden(F, override)) = {F[n] : n \in S}
      <3>1. (\A n \in DOMAIN p : p[n] \in S) /\ \A x \in S : \E n \in DOMAIN p : p[n] = x
        BY <2>8 DEF Lists
      <3>2. PICK o : o = Overridden(F, override)
        OBVIOUS
      <3>3. DOMAIN o = DOMAIN p /\ \A n \in DOMAIN p : o[n] = F[p[n]]
        BY <2>8, <3>2
      <3>4. \A n \in DOMAIN o : \E x \in S : o[n] = F[x]
        BY <3>1, <3>3
      <3>5. \A x \in S : \E n \in DOMAIN o : o[n] = F[x]
        BY <3>1, <3>3
      <3>6. {o[n] : n \in DOMAIN o} = {F[n] : n \in S}
        BY <3>4, <3>5
      <3>7. QED
        BY <3>2, <3>6 DEF Range
    <2>10. /\ Kept(F, DOMAIN F \ S) \in Seq(Feature)
           /\ Range(Kept(F, DOMAIN F \ S)) = {F[n] : n \in DOMAIN F \ S}
      BY KeptList
    <2>11. splitByOverride(F, override) = [overridden |-> Overridden(F, override),
                                           remaining |-> Kept(F, DOMAIN F \ S)]
      BY <1>2 DEF splitByOverride, S
    <2>12. {F[n] : n \in S} \cup {F[n] : n \in DOMAIN F \ S} = Range(F)
      BY <2>2 DEF Range
    <2>13. PICK split : split = splitByOverride(F, override)
      OBVIOUS
    <2>14. /\ split.overridden = Overridden(F, override)
           /\ split.remaining = Kept(F, DOMAIN F \ S)
      BY <2>11, <2>13
    <2>15. QED
      BY <2>8, <2>9, <2>10, <2>12, <2>13, <2>14
  <1>3. QED
    BY <1>1, <1>2

LEMMA PartialFeatures ==
    ASSUME NEW config \in Configs
    PROVE  /\ buildPartialFeatures(config) \in Seq(Feature)
           /\ Range(buildPartialFeatures(config)) =
                {Requested(r, config.asks[r]) : r \in DOMAIN config.asks}
  <1>1. PICK asks : asks = config.asks
    OBVIOUS
  <1>2. /\ DOMAIN asks \subseteq Ref /\ asks \in [DOMAIN asks -> Option]
        /\ config.override \in Seq(Nat)
    BY <1>1, FeaturesAssumption
  <1>3. PICK asked : asked = {Requested(r, asks[r]) : r \in DOMAIN asks}
    OBVIOUS
  <1>4. /\ asked \subseteq Feature
        /\ \A f \in asked : f.ref \in DOMAIN asks /\ f.ref \in Nat /\ f = Requested(f.ref, asks[f.ref])
    <2>1. \A r \in DOMAIN asks : r \in Ref /\ asks[r] \in Option /\ r \in Nat
      BY <1>2, OrderAssumption
    <2>2. \A r \in DOMAIN asks : /\ Requested(r, asks[r]) \in Feature
                                /\ Requested(r, asks[r]).ref = r
      BY <2>1, RequestedType
    <2>3. QED
      BY <1>3, <2>1, <2>2
  <1>5. IsFiniteSet(asked)
    <2> DEFINE g == [r \in DOMAIN asks |-> Requested(r, asks[r])]
    <2>1. g \in Surjection(DOMAIN asks, asked)
      BY <1>3 DEF Surjection
    <2>2. IsFiniteSet(DOMAIN asks)
      BY <1>2, OrderAssumption, FS_Subset
    <2>3. QED
      BY <2>1, <2>2, FS_Surjection
  <1>6. PICK R : R = {e \in asked \X asked : featureLess(e[1], e[2])}
    OBVIOUS
  <1>7. StrictOrder(asked, R)
    <2>1. \A f, g \in asked : <<f, g>> \in R <=> f.ref < g.ref
      <3>1. \A f, g \in asked : f.ref = g.ref => f = g
        BY <1>4
      <3>2. \A f \in asked : f.opts \in Nat
        BY <1>4, OrderAssumption DEF Feature
      <3>3. QED
        BY <1>4, <1>6, <3>1, <3>2 DEF featureLess
    <2>2. \A f, g \in asked : f = g \/ f.ref < g.ref \/ g.ref < f.ref
      BY <1>4
    <2>3. QED
      BY <1>4, <2>1, <2>2 DEF StrictOrder
  <1>8. PICK all : all = SortedBy(asked, R)
    OBVIOUS
  <1>9. Lists(all, asked)
    BY <1>5, <1>7, <1>8, SortedByLists
  <1>10. all \in Seq(Feature) /\ Range(all) = asked
    <2>1. all \in Seq(asked) /\ \A x \in asked : \E n \in DOMAIN all : all[n] = x
      BY <1>9 DEF Lists
    <2>2. QED
      BY <1>4, <2>1 DEF Range
  <1>11. PICK split : split = splitByOverride(all, config.override)
    OBVIOUS
  <1>12. /\ split.overridden \in Seq(Feature) /\ split.remaining \in Seq(Feature)
         /\ Range(split.overridden) \cup Range(split.remaining) = asked
    BY <1>2, <1>10, <1>11, SplitCovers
  <1>13. buildPartialFeatures(config) = split.overridden \o split.remaining
    BY <1>1, <1>3, <1>6, <1>8, <1>11, Zenon DEF buildPartialFeatures
  <1>14. Range(split.overridden \o split.remaining) = asked
    <2>1. PICK o, m : o = split.overridden /\ m = split.remaining
      OBVIOUS
    <2>2. Range(o \o m) = Range(o) \cup Range(m)
      BY <1>12, <2>1, RangeConcat
    <2>3. QED
      BY <1>12, <2>1, <2>2
  <1>15. QED
    BY <1>1, <1>3, <1>12, <1>13, <1>14

(* What an entry lacks is appended, each dependency once.                  *)
LEMMA DependenciesList ==
    ASSUME NEW F \in Seq(Feature), NEW f \in Feature
    PROVE  /\ dependencies(F, f) \in Seq(Feature)
           /\ Range(dependencies(F, f)) =
                {Requested(dep.key, dep.opts) :
                   dep \in {dep \in f.meta.dependsOn : ~requested(F, dep)}}
  <1>1. PICK missing : missing = {dep \in f.meta.dependsOn : ~requested(F, dep)}
    OBVIOUS
  <1>2. /\ missing \subseteq Dependency
        /\ \A x, y \in missing : x.key = y.key => x = y
        /\ \A x \in missing : x.key \in Ref /\ x.opts \in Option /\ x.key \in Nat
    <2>1. f.meta.dependsOn \in DependsOn
      BY DEF Feature, Metadata
    <2>2. QED
      BY <1>1, <2>1, OrderAssumption DEF DependsOn, Dependency
  <1>3. IsFiniteSet(missing)
    <2>1. IsFiniteSet(Ref)
      BY OrderAssumption
    <2> DEFINE g == [x \in missing |-> x.key]
    <2>2. g \in Injection(missing, Ref)
      BY <1>2 DEF Injection, IsInjective
    <2>3. QED
      BY <2>1, <2>2, FS_Injection
  <1>4. PICK R : R = {e \in missing \X missing : e[1].key < e[2].key}
    OBVIOUS
  <1>5. StrictOrder(missing, R)
    <2>1. \A x, y \in missing : <<x, y>> \in R <=> x.key < y.key
      BY <1>4
    <2>2. \A x, y \in missing : x = y \/ x.key < y.key \/ y.key < x.key
      BY <1>2
    <2>3. QED
      BY <1>2, <2>1, <2>2 DEF StrictOrder
  <1>6. PICK keys : keys = SortedBy(missing, R)
    OBVIOUS
  <1>7. Lists(keys, missing) /\ DOMAIN keys = 1 .. Cardinality(missing)
    BY <1>3, <1>5, <1>6, SortedByLists
  <1>8. Cardinality(missing) \in Nat
    BY <1>3, FS_CardinalityType
  <1>9. dependencies(F, f) = [n \in 1 .. Cardinality(missing) |-> Requested(keys[n].key, keys[n].opts)]
    BY <1>1, <1>4, <1>6, Zenon DEF dependencies
  <1>10. \A n \in 1 .. Cardinality(missing) : keys[n] \in missing
    BY <1>7 DEF Lists
  <1>11. \A x \in missing : \E n \in 1 .. Cardinality(missing) : keys[n] = x
    BY <1>7 DEF Lists
  <1>12. \A n \in 1 .. Cardinality(missing) : Requested(keys[n].key, keys[n].opts) \in Feature
    BY <1>2, <1>10, RequestedType
  <1>13. dependencies(F, f) \in Seq(Feature)
    BY <1>8, <1>9, <1>12
  <1>14. Range(dependencies(F, f)) = {Requested(dep.key, dep.opts) : dep \in missing}
    <2>1. DOMAIN dependencies(F, f) = 1 .. Cardinality(missing)
      BY <1>9
    <2>2. QED
      BY <1>9, <1>10, <1>11, <2>1 DEF Range
  <1>15. QED
    BY <1>1, <1>13, <1>14

LEMMA RawProvides ==
    ASSUME NEW r \in Ref, NEW opts \in Option, NEW o \in Option
    PROVE  SameOptions(Requested(r, opts), o) <=> o = opts
  <1>1. Requested(r, opts).opts = opts /\ Requested(r, opts).meta = NoMeta
    BY DEF Requested
  <1>2. MergeOptions(NoMeta, o) = o
    BY OrderAssumption DEF MergeOptions, NoMeta
  <1>3. QED
    BY <1>1, <1>2 DEF SameOptions

(* One round of the loop that keeps its entry, now f.                      *)
Extended(F, m, f) == [F EXCEPT ![m] = f] \o dependencies([F EXCEPT ![m] = f], f)

(* G is F with f at m, and what f depends on and F lacks after it.         *)
Extends(G, F, m, f) ==
    /\ \A n \in DOMAIN F : n \in DOMAIN G /\ G[n] = IF n = m THEN f ELSE F[n]
    /\ \A n \in DOMAIN G \ DOMAIN F :
         \E dep \in f.meta.dependsOn : G[n] = Requested(dep.key, dep.opts)
    /\ \A dep \in f.meta.dependsOn : \E n \in DOMAIN G :
         G[n].ref = dep.key /\ SameOptions(G[n], dep.opts)

LEMMA ExtendedList ==
    ASSUME NEW F \in Seq(Feature), NEW m \in DOMAIN F, NEW f \in Feature
    PROVE  /\ Extended(F, m, f) \in Seq(Feature)
           /\ Extends(Extended(F, m, f), F, m, f)
  <1>1. PICK G : G = [F EXCEPT ![m] = f]
    OBVIOUS
  <1>2. /\ G \in Seq(Feature) /\ DOMAIN G = DOMAIN F /\ Len(G) = Len(F)
        /\ \A n \in DOMAIN F : G[n] = IF n = m THEN f ELSE F[n]
    BY <1>1
  <1>3. PICK deps : deps = dependencies(G, f)
    OBVIOUS
  <1>4. /\ deps \in Seq(Feature)
        /\ Range(deps) = {Requested(dep.key, dep.opts) :
                            dep \in {dep \in f.meta.dependsOn : ~requested(G, dep)}}
    BY <1>2, <1>3, DependenciesList
  <1>5. PICK H : H = Extended(F, m, f)
    OBVIOUS
  <1>6. H = G \o deps
    BY <1>1, <1>3, <1>5 DEF Extended
  <1>7. /\ H \in Seq(Feature) /\ Len(F) \in Nat /\ Len(deps) \in Nat
        /\ DOMAIN F = 1 .. Len(F) /\ DOMAIN deps = 1 .. Len(deps)
        /\ DOMAIN H = 1 .. Len(F) + Len(deps)
    <2>1. H \in Seq(Feature) /\ Len(H) = Len(G) + Len(deps) /\ Len(G) \in Nat /\ Len(deps) \in Nat
      <3>1. G \in Seq(Feature) /\ deps \in Seq(Feature)
        BY <1>2, <1>4
      <3>2. /\ G \o deps \in Seq(Feature) /\ Len(G \o deps) = Len(G) + Len(deps)
            /\ Len(G) \in Nat /\ Len(deps) \in Nat
        BY <3>1
      <3>3. QED
        BY <1>6, <3>2
    <2>2. DOMAIN H = 1 .. Len(H) /\ DOMAIN deps = 1 .. Len(deps) /\ DOMAIN F = 1 .. Len(F)
      BY <1>4, <2>1
    <2>3. QED
      BY <1>2, <2>1, <2>2
  <1>8. /\ \A n \in 1 .. Len(F) : H[n] = G[n]
        /\ \A n \in 1 .. Len(F) + Len(deps) : n > Len(F) => H[n] = deps[n - Len(F)]
    BY <1>2, <1>4, <1>6
  <1>9. \A n \in DOMAIN F : n \in DOMAIN H /\ H[n] = IF n = m THEN f ELSE F[n]
    BY <1>2, <1>7, <1>8
  <1>10. ASSUME NEW n \in DOMAIN H \ DOMAIN F
         PROVE  \E dep \in f.meta.dependsOn : H[n] = Requested(dep.key, dep.opts)
    <2>0. n \in 1 .. Len(F) + Len(deps) /\ n > Len(F)
      BY <1>7
    <2>1. n - Len(F) \in DOMAIN deps /\ H[n] = deps[n - Len(F)]
      BY <1>7, <1>8, <2>0
    <2>2. H[n] \in Range(deps)
      BY <2>1 DEF Range
    <2>3. QED
      BY <1>4, <2>2
  <1>11. ASSUME NEW dep \in f.meta.dependsOn
         PROVE  \E n \in DOMAIN H : H[n].ref = dep.key /\ SameOptions(H[n], dep.opts)
    <2>1. CASE requested(G, dep)
      BY <1>2, <1>7, <1>8, <2>1 DEF requested
    <2>2. CASE ~requested(G, dep)
      <3>1. Requested(dep.key, dep.opts) \in Range(deps)
        BY <1>4, <2>2
      <3>2. PICK k \in DOMAIN deps : deps[k] = Requested(dep.key, dep.opts)
        BY <3>1 DEF Range
      <3>3. Len(F) + k \in DOMAIN H /\ H[Len(F) + k] = deps[k]
        <4>1. k \in 1 .. Len(deps)
          BY <1>7
        <4>2. /\ Len(F) + k \in 1 .. Len(F) + Len(deps) /\ Len(F) + k > Len(F)
              /\ (Len(F) + k) - Len(F) = k
          BY <1>7, <4>1
        <4>3. QED
          BY <1>7, <1>8, <4>2
      <3>4. dep.key \in Ref /\ dep.opts \in Option
        BY DEF Feature, Metadata, DependsOn, Dependency
      <3>5. H[Len(F) + k].ref = dep.key /\ SameOptions(H[Len(F) + k], dep.opts)
        BY <3>2, <3>3, <3>4, RawProvides, RequestedType
      <3>6. QED
        BY <3>3, <3>5
    <2>3. QED
      BY <2>1, <2>2
  <1>12. QED
    BY <1>5, <1>7, <1>9, <1>10, <1>11 DEF Extends

(* One that drops it.                                                      *)
Without(F, m) == SubSeq(F, 1, m - 1) \o SubSeq(F, m + 1, Len(F))

LEMMA WithoutList ==
    ASSUME NEW F \in Seq(Feature), NEW m \in DOMAIN F
    PROVE  /\ Without(F, m) \in Seq(Feature) /\ Len(Without(F, m)) = Len(F) - 1
           /\ \A n \in 1 .. Len(F) - 1 : Without(F, m)[n] = F[IF n < m THEN n ELSE n + 1]
  <1>1. Len(F) \in Nat /\ m \in 1 .. Len(F)
    OBVIOUS
  <1>2. PICK s : s = SubSeq(F, 1, m - 1)
    OBVIOUS
  <1>3. PICK t : t = SubSeq(F, m + 1, Len(F))
    OBVIOUS
  <1>4. /\ s \in Seq(Feature) /\ Len(s) = m - 1
        /\ \A n \in 1 .. m - 1 : s[n] = F[n]
    BY <1>1, <1>2
  <1>5. /\ t \in Seq(Feature) /\ Len(t) = Len(F) - m
        /\ \A n \in 1 .. Len(F) - m : t[n] = F[n + m]
    BY <1>1, <1>3
  <1>6. /\ s \o t \in Seq(Feature) /\ Len(s \o t) = Len(F) - 1
        /\ \A n \in 1 .. m - 1 : (s \o t)[n] = s[n]
        /\ \A n \in m .. Len(F) - 1 : (s \o t)[n] = t[n - (m - 1)]
    <2>1. s \o t \in Seq(Feature) /\ Len(s \o t) = Len(s) + Len(t)
      BY <1>4, <1>5, ConcatProperties
    <2>2. \A n \in 1 .. Len(s) + Len(t) :
            (s \o t)[n] = IF n <= Len(s) THEN s[n] ELSE t[n - Len(s)]
      BY <1>4, <1>5, ConcatProperties
    <2>3. PICK u : u = s \o t
      OBVIOUS
    <2>b. PICK L \in Nat : L = Len(F)
      BY <1>1
    <2>a. /\ m \in 1 .. L /\ Len(u) = m - 1 + (L - m)
          /\ \A n \in 1 .. m - 1 + (L - m) : u[n] = IF n <= m - 1 THEN s[n] ELSE t[n - (m - 1)]
      BY <1>1, <1>4, <1>5, <2>1, <2>2, <2>3, <2>b
    <2>4. \A n \in 1 .. m - 1 : u[n] = s[n]
      BY <2>a, <2>b
    <2>5. \A n \in m .. Len(F) - 1 : u[n] = t[n - (m - 1)]
      BY <2>a, <2>b
    <2>6. Len(u) = Len(F) - 1
      BY <2>a, <2>b
    <2>7. QED
      BY <2>1, <2>3, <2>4, <2>5, <2>6
  <1>7. ASSUME NEW n \in 1 .. Len(F) - 1
        PROVE  (s \o t)[n] = F[IF n < m THEN n ELSE n + 1]
    <2>1. CASE n < m
      BY <1>1, <1>4, <1>6, <2>1
    <2>2. CASE ~(n < m)
      <3>1. n - (m - 1) \in 1 .. Len(F) - m /\ (n - (m - 1)) + m = n + 1
        BY <1>1, <2>2
      <3>2. n \in m .. Len(F) - 1
        BY <1>1, <2>2
      <3>3. QED
        BY <1>5, <1>6, <2>2, <3>1, <3>2
    <2>3. QED
      BY <2>1, <2>2
  <1>8. QED
    BY <1>2, <1>3, <1>6, <1>7 DEF Without

-----------------------------------------------------------------------------
(* The inductive invariant. *)

(* The entries below Upto have been through the loop.                      *)
Upto == IF pc = "idle" THEN Len(feats) + 1 ELSE i

Raw(f) == f = Requested(f.ref, f.opts)

(* Nothing but the pinned content.                                         *)
AsPinned(f) == \A p \in pin(f) : CheckIntegrity(f.resolved, p)

IsBaked(f) ==
    /\ f.baked /\ f.meta.default = 0 /\ f.meta.enum = Option
    /\ f.resolved \in Labelled(call.base.label) \cup {NoResolvedRef}
    /\ call.mode # "disabled" => AsPinned(f)

IsFetched(f) ==
    /\ ~f.baked /\ AsPinned(f)
    /\ \E d \in Contents(f.ref) : f.resolved = ResolvedRef(f.ref, d) /\ f.meta = Artifact[d]

(* The call goes on, or has succeeded.                                     *)
Alive == pc # "idle" \/ last = "ok"

WorldInv ==
    /\ \A r \in Ref : names[r] \in Range(Serves[r])
    /\ \A img \in built : img.contents = Labelled(img.label)

PositionInv ==
    /\ pc \in {"idle", "load", "mark"} => i = 1 /\ aliases = <<>>
    /\ pc \in {"commit", "write", "order", "build", "tag"} => i = Len(feats) + 1

EntriesInv ==
    /\ \A f \in Range(aliases) : IsFetched(f)
    /\ pc \in {"load", "mark"} => \A n \in DOMAIN feats : Raw(feats[n])
    /\ Alive => \A n \in DOMAIN feats :
          /\ n < Upto => IsBaked(feats[n]) \/ IsFetched(feats[n])
          /\ n >= Upto => IsBaked(feats[n]) \/ Raw(feats[n])

(* What was asked for, and what the entries before m depend on.            *)
AskedFor == {[key |-> r, opts |-> call.config.asks[r]] : r \in DOMAIN call.config.asks}

Wanted(m) == AskedFor \cup UNION {feats[n].meta.dependsOn : n \in {n \in DOMAIN feats : n < m}}

WantedInv ==
    Alive => \A w \in Wanted(Upto) : \E n \in DOMAIN feats : Provides(feats[n], w)

Mentioned(r) ==
    (\E n \in DOMAIN feats : feats[n].ref = r) \/ \E f \in Range(aliases) : f.ref = r

RefsInv ==
    pc # "idle" => \A r \in Ref : Mentioned(r) <=> \E w \in Wanted(i) : w.key = r

DistinctInv ==
    Alive => \A n, k \in DOMAIN feats :
        (/\ n < Upto /\ k < Upto /\ ~feats[n].baked /\ ~feats[k].baked
         /\ feats[n].resolved = feats[k].resolved /\ feats[n].opts = feats[k].opts) => n = k

FrozenIsLocked ==
    (call.mode = "frozen" /\ feats # <<>>)
    => /\ lockfile.state = "whole"
       /\ \A f \in Remote(feats) :
            /\ f.ref \in DOMAIN lockfile.entries
            /\ f.resolved.digest = lockfile.entries[f.ref].integrity

LockInv ==
    /\ pc \in {"mark", "loop", "commit"} =>
         /\ lock = IF call.mode = "disabled" THEN NoLock ELSE ReadLockfile
         /\ call.mode = "frozen" => lock.state = "whole"
    /\ pc \in {"commit", "write"} => call.mode # "disabled"
    /\ pc = "write" => call.mode # "frozen"
    /\ LockIsExact
    /\ (pc \in {"order", "build", "tag"} \/ Succeeded) => FrozenIsLocked

ImageInv ==
    /\ pc \notin {"idle", "tag"} =>
         image.label = call.base.label /\ image.contents = call.base.contents
    /\ (pc = "tag" \/ Succeeded) =>
         /\ image.contents = Labelled(image.label)
         /\ \A n \in DOMAIN feats : feats[n].resolved # NoResolvedRef
                                   => feats[n].resolved \in image.contents
    /\ Succeeded => (call.name # "" => image.tag = call.name)

IInv ==
    /\ TypeOK /\ WorldInv /\ PositionInv /\ EntriesInv /\ WantedInv /\ RefsInv
    /\ DistinctInv /\ LockInv /\ ImageInv

(* Two references that may name the same content have the same id.         *)
OneName ==
    \A r, q \in Ref :
        (\E d \in Contents(r), e \in Contents(q) : ResolvedRef(r, d) = ResolvedRef(q, e))
        => IdOf[r] = IdOf[q]

OrderInv ==
    (pc \in {"build", "tag"} \/ Succeeded) =>
        \A n \in DOMAIN feats : \A dep \in feats[n].meta.dependsOn :
            \/ feats[n].baked
            \/ \E k \in DOMAIN feats : (feats[k].baked \/ k <= n) /\ Provides(feats[k], dep)

-----------------------------------------------------------------------------
(* What becomes of one entry. *)

LEMMA ContentsResolve ==
    ASSUME NEW r \in Ref, NEW d \in Contents(r)
    PROVE  /\ d \in Digest /\ ResolvedRef(r, d) \in ResolvedRefs
           /\ ResolvedRef(r, d) # NoResolvedRef /\ Artifact[d] \in Metadata
  <1>1. PICK q \in Ref : d \in Range(Serves[q])
    BY DEF Contents
  <1>2. d \in Digest
    <2>1. Serves[q] \in Seq(Digest)
      BY FeaturesAssumption
    <2>2. QED
      BY <1>1, <2>1 DEF Range
  <1>3. /\ d # 0 /\ Place[r] # 0 /\ Place[r] \in Range(Place) /\ Kind[r] \in {"oci", "https", "local"}
        /\ Artifact[d] \in Metadata
    <2>1. DOMAIN Place = Ref
      BY FeaturesAssumption
    <2>2. Place[r] \in Range(Place)
      BY <2>1 DEF Range
    <2>3. QED
      BY <1>2, <2>2, FeaturesAssumption
  <1>4. ResolvedRef(r, d).at = IF Kind[r] = "https" THEN 0 ELSE Place[r]
    BY DEF ResolvedRef
  <1>5. ResolvedRef(r, d).digest = IF Kind[r] = "local" THEN 0 ELSE d
    BY DEF ResolvedRef
  <1>6. ResolvedRef(r, d) # NoResolvedRef
    <2>1. NoResolvedRef.at = 0 /\ NoResolvedRef.digest = 0
      BY DEF NoResolvedRef
    <2>2. QED
      BY <1>3, <1>4, <1>5, <2>1
  <1>7. ResolvedRef(r, d) \in ResolvedRefs
    BY <1>2, <1>3 DEF ResolvedRef, ResolvedRefs
  <1>8. QED
    BY <1>2, <1>3, <1>6, <1>7

(* The kind is known from what was resolved.                               *)
LEMMA ResolvedContent ==
    ASSUME NEW r \in Ref, NEW q \in Ref, NEW d \in Contents(r), NEW e \in Contents(q),
           ResolvedRef(r, d) = ResolvedRef(q, e)
    PROVE  d = e
  <1>1. /\ d \in Digest /\ e \in Digest /\ d # 0 /\ e # 0 /\ Place[r] # 0 /\ Place[q] # 0
    <2>1. d \in Digest /\ e \in Digest
      BY ContentsResolve
    <2>2. 0 \notin Digest /\ Place \in [Ref -> Nat \ {0}]
      BY FeaturesAssumption
    <2>3. QED
      BY <2>1, <2>2
  <1>2. /\ ResolvedRef(r, d).at = IF Kind[r] = "https" THEN 0 ELSE Place[r]
        /\ ResolvedRef(r, d).digest = IF Kind[r] = "local" THEN 0 ELSE d
        /\ ResolvedRef(q, e).at = IF Kind[q] = "https" THEN 0 ELSE Place[q]
        /\ ResolvedRef(q, e).digest = IF Kind[q] = "local" THEN 0 ELSE e
    BY DEF ResolvedRef
  <1>3. CASE Kind[r] # "local"
    BY <1>1, <1>2, <1>3
  <1>4. CASE Kind[r] = "local"
    <2>1. Place[r] = Place[q]
      BY <1>1, <1>2, <1>4
    <2>2. Contents(r) = Contents(q)
      BY <2>1 DEF Contents
    <2>3. QED
      BY <1>4, <2>2, FeaturesAssumption
  <1>5. QED
    BY <1>3, <1>4

(* Options of an entry without declarations are what was asked for.        *)
Undeclared(f) == f.meta.default = 0 /\ f.meta.enum = Option

LEMMA UndeclaredProvides ==
    ASSUME NEW f, Undeclared(f), NEW o \in Option
    PROVE  SameOptions(f, o) <=> f.opts = o
  BY OrderAssumption DEF Undeclared, SameOptions, MergeOptions

LEMMA RawFacts ==
    ASSUME NEW f \in Feature, Raw(f)
    PROVE  /\ Undeclared(f) /\ ~f.baked /\ f.resolved = NoResolvedRef
           /\ \A w \in Dependency : Provides(f, w) <=> f.ref = w.key /\ f.opts = w.opts
  <1>1. /\ f.meta = NoMeta /\ ~f.baked /\ f.resolved = NoResolvedRef
    BY DEF Raw, Requested
  <1>2. Undeclared(f)
    BY <1>1 DEF Undeclared, NoMeta
  <1>3. ASSUME NEW w \in Dependency
        PROVE  Provides(f, w) <=> f.ref = w.key /\ f.opts = w.opts
    <2>1. w.key \in Ref /\ w.opts \in Option
      BY DEF Dependency
    <2>2. \A d \in Contents(w.key) : f.resolved # ResolvedRef(w.key, d)
      BY <1>1, <2>1, ContentsResolve
    <2>3. SameOptions(f, w.opts) <=> f.opts = w.opts
      BY <1>2, <2>1, UndeclaredProvides
    <2>4. QED
      BY <2>2, <2>3 DEF Provides
  <1>4. QED
    BY <1>1, <1>2, <1>3

LEMMA MergeType ==
    ASSUME NEW meta \in Metadata, NEW o \in Option, MergeOptions(meta, o) # Invalid
    PROVE  MergeOptions(meta, o) \in Option
  BY DEF MergeOptions, Metadata

(* An entry that was fetched still provides what it was asked for.         *)
LEMMA FetchedEntry ==
    ASSUME TypeOK, WorldInv, NEW f \in Feature, Raw(f), NEW d \in Fetch(f),
           FetchedAs(f, d).opts # Invalid,
           \A p \in pin(f) : CheckIntegrity(FetchedAs(f, d).resolved, p)
    PROVE  /\ d \in Contents(f.ref) /\ FetchedAs(f, d) \in Feature
           /\ IsFetched(FetchedAs(f, d)) /\ FetchedAs(f, d).ref = f.ref
           /\ FetchedAs(f, d).resolved = ResolvedRef(f.ref, d)
           /\ FetchedAs(f, d).meta = Artifact[d]
           /\ FetchedAs(f, d).opts = MergeOptions(Artifact[d], f.opts)
           /\ \A w \in Dependency : Provides(f, w) => Provides(FetchedAs(f, d), w)
  <1> DEFINE g == FetchedAs(f, d)
  <1>1. f.ref \in Ref /\ f.opts \in Option
    BY DEF Feature
  <1>2. d \in Contents(f.ref)
    <2>1. names[f.ref] \in Range(Serves[f.ref])
      BY <1>1 DEF WorldInv
    <2>2. d \in Range(Serves[f.ref]) \/ \E r \in Ref : Place[r] = Place[f.ref] /\ d \in Range(Serves[r])
      BY <2>1 DEF Fetch
    <2>3. QED
      BY <1>1, <2>2 DEF Contents
  <1>3. /\ d \in Digest /\ ResolvedRef(f.ref, d) \in ResolvedRefs /\ Artifact[d] \in Metadata
    BY <1>1, <1>2, ContentsResolve
  <1>4. /\ g.ref = f.ref /\ g.resolved = ResolvedRef(f.ref, d) /\ g.meta = Artifact[d]
        /\ g.opts = MergeOptions(Artifact[d], f.opts) /\ g.baked = f.baked
        /\ g.dir = TRUE /\ g.known = TRUE
        /\ g = [ref |-> g.ref, opts |-> g.opts, dir |-> g.dir, baked |-> g.baked,
                resolved |-> g.resolved, meta |-> g.meta, known |-> g.known]
    <2>1. DOMAIN f = {"ref", "opts", "dir", "baked", "resolved", "meta", "known"}
      BY DEF Feature
    <2>2. g = [f EXCEPT !.dir = TRUE, !.resolved = ResolvedRef(f.ref, d),
                        !.meta = Artifact[d], !.known = TRUE,
                        !.opts = MergeOptions(Artifact[d], f.opts)]
      BY DEF FetchedAs
    <2> HIDE DEF g
    <2>3. DOMAIN g = {"ref", "opts", "dir", "baked", "resolved", "meta", "known"}
      BY <2>1, <2>2
    <2>4. g = [ref |-> g.ref, opts |-> g.opts, dir |-> g.dir, baked |-> g.baked,
               resolved |-> g.resolved, meta |-> g.meta, known |-> g.known]
      BY <2>1, <2>2
    <2>5. /\ g.ref = f.ref /\ g.resolved = ResolvedRef(f.ref, d) /\ g.meta = Artifact[d]
          /\ g.opts = MergeOptions(Artifact[d], f.opts) /\ g.baked = f.baked
          /\ g.dir = TRUE /\ g.known = TRUE
      BY <2>1, <2>2
    <2>6. QED
      BY <2>4, <2>5
  <1> HIDE DEF g
  <1>5. g.opts \in Option
    <2>1. MergeOptions(Artifact[d], f.opts) # Invalid
      BY <1>4 DEF g
    <2>2. QED
      BY <1>1, <1>3, <1>4, <2>1, MergeType
  <1>6. g \in Feature
    <2>1. f.baked \in BOOLEAN
      BY DEF Feature
    <2>2. QED
      BY <1>1, <1>3, <1>4, <1>5, <2>1 DEF Feature
  <1>7. IsFetched(g)
    <2>1. AsPinned(g)
      BY <1>4 DEF AsPinned, pin, g
    <2>2. ~g.baked
      BY <1>4, RawFacts
    <2>3. QED
      BY <1>2, <1>4, <2>1, <2>2 DEF IsFetched
  <1>8. \A w \in Dependency : Provides(f, w) => Provides(g, w)
    BY <1>4, RawFacts DEF Provides, SameOptions
  <1>9. QED
    BY <1>2, <1>4, <1>6, <1>7, <1>8 DEF g

LEMMA FeatsType ==
    ASSUME TypeOK
    PROVE  /\ feats \in Seq(Feature) /\ Len(feats) \in Nat /\ DOMAIN feats = 1 .. Len(feats)
           /\ i \in 1 .. Len(feats) + 1 /\ aliases \in Seq(Feature)
           /\ \A n \in DOMAIN feats : feats[n] \in Feature
           /\ \A f \in Range(aliases) : f \in Feature
  <1>1. feats \in Seq(Feature) /\ i \in 1 .. Len(feats) + 1 /\ aliases \in Seq(Feature)
    BY DEF TypeOK
  <1>2. \A f \in Range(aliases) : f \in Feature
    BY <1>1 DEF Range
  <1>3. QED
    BY <1>1, <1>2

LEMMA BaseType ==
    ASSUME TypeOK
    PROVE  call.base \in BaseImage /\ call.base.label \in Seq(LabelEntries)
           /\ call.base.contents \subseteq ResolvedRefs
  <1>1. call.base \in Bases \cup built /\ built \subseteq BaseImage
    BY DEF TypeOK
  <1>2. call.base \in BaseImage
    BY <1>1, FeaturesAssumption
  <1>3. QED
    BY <1>2 DEF BaseImage

(* An entry that the base image has is as its label says.                  *)
LEMMA MarkedEntry ==
    ASSUME TypeOK, NEW n \in DOMAIN feats, Raw(feats[n])
    PROVE  LET g == markAlreadyInstalled(feats)[n]
           IN  /\ g \in Feature
               /\ Raw(g) \/ IsBaked(g)
               /\ g.ref = feats[n].ref /\ g.opts = feats[n].opts
               /\ \A w \in Dependency : Provides(feats[n], w) => Provides(g, w)
  <1>1. PICK f : f = feats[n]
    OBVIOUS
  <1>2. PICK g : g = markAlreadyInstalled(feats)[n]
    OBVIOUS
  <1>3. f \in Feature /\ Raw(f)
    <2>1. feats \in Seq(Feature)
      BY DEF TypeOK
    <2>2. feats[n] \in Feature
      BY <2>1
    <2>3. QED
      BY <1>1, <2>2
  <1> DEFINE found == bakedFeature(f)
             k == CHOOSE x \in found : \A l \in found : x <= l
             b == call.base.label[k]
  <1>4. g = IF found = {} THEN f
            ELSE [f EXCEPT !.baked = TRUE, !.resolved = b.resolved,
                           !.meta = BakedMeta(b), !.known = b.known]
    BY <1>1, <1>2 DEF markAlreadyInstalled
  <1>5. CASE found = {}
    BY <1>1, <1>2, <1>3, <1>4, <1>5
  <1>6. CASE found # {}
    <2>1. call.base.label \in Seq(LabelEntries)
      BY BaseType
    <2>2. k \in found
      <3>1. found \in SUBSET Nat
        BY <2>1 DEF bakedFeature
      <3>2. k = Min(found)
        BY DEF Min
      <3>3. Min(found) \in found
        BY <1>6, <3>1, MinMember
      <3>4. QED
        BY <3>2, <3>3
    <2>3. k \in DOMAIN call.base.label /\ acceptsBaked(f, b)
      <3>1. \A x \in found : x \in DOMAIN call.base.label /\ acceptsBaked(f, call.base.label[x])
        BY DEF bakedFeature
      <3>2. QED
        BY <2>2, <3>1
    <2> HIDE DEF found, k
    <2>4. b \in LabelEntries
      BY <2>1, <2>3
    <2>5. b.resolved \in Labelled(call.base.label) \cup {NoResolvedRef}
      BY <2>3 DEF Labelled, Range
    <2> HIDE DEF b
    <2>6. DOMAIN f = {"ref", "opts", "dir", "baked", "resolved", "meta", "known"}
      BY <1>3 DEF Feature
    <2>7. g = [f EXCEPT !.baked = TRUE, !.resolved = b.resolved,
                        !.meta = BakedMeta(b), !.known = b.known]
      BY <1>4, <1>6
    <2>8. /\ DOMAIN g = {"ref", "opts", "dir", "baked", "resolved", "meta", "known"}
          /\ g.ref = f.ref /\ g.opts = f.opts /\ g.dir = f.dir /\ g.baked /\ g.baked = TRUE
          /\ g.resolved = b.resolved /\ g.meta = BakedMeta(b) /\ g.known = b.known
      BY <2>6, <2>7
    <2>9. g = [ref |-> g.ref, opts |-> g.opts, dir |-> g.dir, baked |-> g.baked,
               resolved |-> g.resolved, meta |-> g.meta, known |-> g.known]
      BY <2>6, <2>7
    <2>10. /\ BakedMeta(b) \in Metadata
           /\ BakedMeta(b).default = 0 /\ BakedMeta(b).enum = Option
      <3>1. PICK meta : meta = BakedMeta(b)
        OBVIOUS
      <3>2. meta = [NoMeta EXCEPT !.id = b.id, !.version = b.version, !.dependsOn = b.dependsOn]
        BY <3>1 DEF BakedMeta
      <3>3. /\ meta.id = b.id /\ meta.version = b.version /\ meta.dependsOn = b.dependsOn
            /\ meta.default = 0 /\ meta.enum = Option /\ meta.installsAfter = {}
            /\ meta = [id |-> meta.id, version |-> meta.version, default |-> meta.default,
                       enum |-> meta.enum, dependsOn |-> meta.dependsOn,
                       installsAfter |-> meta.installsAfter]
        BY <3>2 DEF NoMeta
      <3>4. b.id \in Nat /\ b.version \in Nat /\ b.dependsOn \in DependsOn
        BY <2>4 DEF LabelEntries
      <3>5. QED
        BY <3>1, <3>3, <3>4, OrderAssumption DEF Metadata
    <2>11. g \in Feature
      <3>1. b.resolved \in ResolvedRefs /\ b.known \in BOOLEAN
        BY <2>4 DEF LabelEntries
      <3>2. f.ref \in Ref /\ f.opts \in Option /\ f.dir \in BOOLEAN
        BY <1>3 DEF Feature
      <3>3. QED
        BY <2>8, <2>9, <2>10, <3>1, <3>2 DEF Feature
    <2>12. IsBaked(g)
      <3>1. ASSUME call.mode # "disabled"
            PROVE  AsPinned(g)
        <4>1. \A p \in pin(f) : CheckIntegrity(b.resolved, p)
          BY <2>3, <3>1 DEF acceptsBaked, b
        <4>2. pin(g) = pin(f)
          BY <2>8 DEF pin
        <4>3. QED
          BY <2>8, <4>1, <4>2 DEF AsPinned
      <3>2. QED
        BY <2>5, <2>8, <2>10, <3>1 DEF IsBaked
    <2>13. ASSUME NEW w \in Dependency, Provides(f, w)
           PROVE  Provides(g, w)
      <3>1. f.ref = w.key /\ f.opts = w.opts
        BY <1>3, <2>13, RawFacts
      <3>2. Undeclared(g)
        BY <2>8, <2>10 DEF Undeclared
      <3>3. w.opts \in Option
        BY DEF Dependency
      <3>4. SameOptions(g, w.opts)
        BY <2>8, <3>1, <3>2, <3>3, UndeclaredProvides
      <3>5. QED
        BY <2>8, <3>1, <3>4 DEF Provides
    <2>14. QED
      BY <1>1, <1>2, <2>8, <2>11, <2>12, <2>13
  <1>7. QED
    BY <1>5, <1>6

(* Nothing else changes when its dependencies become known.                *)
LEMMA BakedEntry ==
    ASSUME TypeOK, NEW f \in Feature, IsBaked(f), NEW deps \in bakedDependsOn(f)
    PROVE  LET g == [f EXCEPT !.meta.dependsOn = deps, !.known = TRUE]
           IN  /\ g \in Feature /\ IsBaked(g) /\ g.ref = f.ref /\ g.meta.dependsOn = deps
               /\ \A w : Provides(f, w) => Provides(g, w)
  <1>1. PICK g : g = [f EXCEPT !.meta.dependsOn = deps, !.known = TRUE]
    OBVIOUS
  <1>2. deps \in DependsOn
    <2>1. f.meta.dependsOn \in DependsOn /\ f.ref \in Ref
      BY DEF Feature, Metadata
    <2>2. names[f.ref] \in Digest
      BY <2>1 DEF TypeOK
    <2>3. \A d \in Digest : Artifact[d].dependsOn \in DependsOn
      BY FeaturesAssumption DEF Metadata
    <2>4. QED
      BY <2>1, <2>2, <2>3 DEF bakedDependsOn
  <1>3. /\ DOMAIN f = {"ref", "opts", "dir", "baked", "resolved", "meta", "known"}
        /\ DOMAIN f.meta = {"id", "version", "default", "enum", "dependsOn", "installsAfter"}
    BY DEF Feature, Metadata
  <1>4. /\ DOMAIN g = {"ref", "opts", "dir", "baked", "resolved", "meta", "known"}
        /\ g.ref = f.ref /\ g.opts = f.opts /\ g.dir = f.dir /\ g.baked = f.baked
        /\ g.resolved = f.resolved /\ g.known = TRUE
        /\ g.meta = [f.meta EXCEPT !.dependsOn = deps]
        /\ g = [ref |-> g.ref, opts |-> g.opts, dir |-> g.dir, baked |-> g.baked,
                resolved |-> g.resolved, meta |-> g.meta, known |-> g.known]
    BY <1>1, <1>3
  <1>5. /\ g.meta.dependsOn = deps /\ g.meta.default = f.meta.default /\ g.meta.enum = f.meta.enum
        /\ g.meta.id = f.meta.id /\ g.meta.version = f.meta.version
        /\ g.meta.installsAfter = f.meta.installsAfter
        /\ g.meta = [id |-> g.meta.id, version |-> g.meta.version, default |-> g.meta.default,
                     enum |-> g.meta.enum, dependsOn |-> g.meta.dependsOn,
                     installsAfter |-> g.meta.installsAfter]
    BY <1>3, <1>4
  <1>6. g.meta \in Metadata
    <2>1. f.meta \in Metadata
      BY DEF Feature
    <2>2. QED
      BY <1>2, <1>5, <2>1 DEF Metadata
  <1>7. g \in Feature
    <2>1. /\ f.ref \in Ref /\ f.opts \in Option /\ f.dir \in BOOLEAN /\ f.baked \in BOOLEAN
          /\ f.resolved \in ResolvedRefs
      BY DEF Feature
    <2>2. QED
      BY <1>4, <1>6, <2>1 DEF Feature
  <1>8. pin(g) = pin(f)
    BY <1>4 DEF pin
  <1>9. IsBaked(g)
    BY <1>4, <1>5, <1>8 DEF IsBaked, AsPinned
  <1>10. \A w : Provides(f, w) => Provides(g, w)
    BY <1>4, <1>5 DEF Provides, SameOptions, MergeOptions
  <1>11. QED
    BY <1>1, <1>4, <1>5, <1>7, <1>9, <1>10

-----------------------------------------------------------------------------
(* What a step may do. *)

(* The call fails: only the lockfile may have changed.                     *)
Abandon ==
    /\ pc' = "idle" /\ last' # "ok" /\ lock' = NoLock /\ i' = 1 /\ aliases' = <<>>
    /\ lockfile' \in {lockfile, TornLock}
    /\ UNCHANGED <<names, moves, calls, built, call, feats, image>>

LEMMA ErrorAbandons ==
    ASSUME NEW outcome, outcome # "ok", Error(outcome)
    PROVE  Abandon
  BY DEF Error, Abandon, worldVars

(* f is what the entry the loop is at turned out to be.                    *)
Resolves(f) ==
    /\ pc = "loop" /\ i \in DOMAIN feats /\ f \in Feature /\ f.ref = feats[i].ref
    /\ IsBaked(f) \/ IsFetched(f)
    /\ \A w \in Dependency : Provides(feats[i], w) => Provides(f, w)

Alike(f, g) == f.resolved = g.resolved /\ f.opts = g.opts

KeepRound(f) ==
    /\ Resolves(f)
    /\ f.baked \/ \A k \in 1 .. i - 1 : ~Alike(feats[k], f)
    /\ feats' = Extended(feats, i, f) /\ i' = i + 1
    /\ UNCHANGED <<names, moves, calls, lockfile, built, pc, call, lock, aliases, image, last>>

DropRound(f) ==
    /\ Resolves(f) /\ IsFetched(f)
    /\ \E k \in 1 .. i - 1 : Alike(feats[k], f)
    /\ \A w \in Dependency, g \in Feature :
         Provides(feats[i], w) /\ Alike(g, f) => Provides(g, w)
    /\ feats' = Without(feats, i) /\ aliases' = Append(aliases, f)
    /\ UNCHANGED <<names, moves, calls, lockfile, built, pc, call, lock, i, image, last>>

LEMMA KeepKeeps ==
    ASSUME NEW f, Keep(f)
    PROVE  \/ Abandon
           \/ /\ feats' = Extended(feats, i, f) /\ i' = i + 1
              /\ UNCHANGED <<names, moves, calls, lockfile, built, pc, call, lock, aliases,
                             image, last>>
  <1>1. PICK features : features = [feats EXCEPT ![i] = f]
    OBVIOUS
  <1>2. PICK deps : deps = dependencies(features, f)
    OBVIOUS
  <1>3. IF \E dep \in Range(deps) : Kind[dep.ref] = "local" /\ ~checkLocalDependency(f, dep.ref)
        THEN Error("local dependency")
        ELSE /\ feats' = features \o deps
             /\ i' = i + 1
             /\ UNCHANGED <<worldVars, calls, lockfile, built, pc, call, lock, aliases,
                            image, still, last, locked>>
    BY <1>1, <1>2, Zenon DEF Keep
  <1>4. CASE Error("local dependency")
    BY <1>4, ErrorAbandons
  <1>5. CASE ~Error("local dependency")
    <2>1. features \o deps = Extended(feats, i, f)
      BY <1>1, <1>2 DEF Extended
    <2>2. QED
      BY <1>3, <1>5, <2>1 DEF worldVars
  <1>6. QED
    BY <1>4, <1>5

LEMMA BakedRound ==
    ASSUME TypeOK, EntriesInv, LoopBaked
    PROVE  Abandon \/ \E f : KeepRound(f)
  <1>1. /\ pc = "loop" /\ i \in DOMAIN feats /\ feats[i].baked /\ feats[i] \in Feature
        /\ i \in Nat
    <2>1. feats \in Seq(Feature) /\ i \in 1 .. Len(feats) + 1
      BY DEF TypeOK
    <2>2. pc = "loop" /\ i <= Len(feats) /\ feats[i].baked
      BY DEF LoopBaked, Current
    <2>3. QED
      BY <2>1, <2>2
  <1>2. IsBaked(feats[i])
    <2>1. Upto = i /\ Alive
      BY <1>1 DEF Upto, Alive
    <2>2. IsBaked(feats[i]) \/ Raw(feats[i])
      BY <1>1, <2>1 DEF EntriesInv
    <2>3. QED
      BY <1>1, <2>2, RawFacts
  <1>3. CASE Error("fetch")
    BY <1>3, ErrorAbandons
  <1>4. CASE ~Error("fetch")
    <2>1. PICK deps \in bakedDependsOn(feats[i]) :
            Keep([feats[i] EXCEPT !.meta.dependsOn = deps, !.known = TRUE])
      BY <1>4 DEF LoopBaked
    <2>2. PICK f : f = [feats[i] EXCEPT !.meta.dependsOn = deps, !.known = TRUE]
      OBVIOUS
    <2>3. /\ f \in Feature /\ IsBaked(f) /\ f.ref = feats[i].ref
          /\ \A w : Provides(feats[i], w) => Provides(f, w)
      BY <1>1, <1>2, <2>2, BakedEntry
    <2>4. f.baked /\ Keep(f)
      BY <2>1, <2>2, <2>3 DEF IsBaked
    <2>5. CASE Abandon
      BY <2>5
    <2>6. CASE ~Abandon
      <3>1. /\ feats' = Extended(feats, i, f) /\ i' = i + 1
            /\ UNCHANGED <<names, moves, calls, lockfile, built, pc, call, lock, aliases,
                           image, last>>
        BY <2>4, <2>6, KeepKeeps
      <3>2. KeepRound(f)
        BY <1>1, <2>3, <2>4, <3>1 DEF KeepRound, Resolves
      <3>3. QED
        BY <3>2
    <2>7. QED
      BY <2>5, <2>6
  <1>5. QED
    BY <1>3, <1>4

LEMMA FetchedRound ==
    ASSUME TypeOK, WorldInv, EntriesInv, LoopFetched
    PROVE  Abandon \/ (\E f : KeepRound(f)) \/ \E f : DropRound(f)
  <1>1. /\ pc = "loop" /\ i \in DOMAIN feats /\ ~feats[i].baked /\ feats[i] \in Feature
        /\ i \in 1 .. Len(feats) /\ feats \in Seq(Feature) /\ Len(feats) \in Nat
    <2>1. feats \in Seq(Feature) /\ i \in 1 .. Len(feats) + 1
      BY DEF TypeOK
    <2>2. QED
      BY <2>1 DEF LoopFetched, Current
  <1>2. Raw(feats[i])
    <2>1. Upto = i /\ Alive
      BY <1>1 DEF Upto, Alive
    <2>2. IsBaked(feats[i]) \/ Raw(feats[i])
      BY <1>1, <2>1 DEF EntriesInv
    <2>3. QED
      BY <1>1, <2>2 DEF IsBaked
  <1>3. CASE Error("fetch") \/ Error("integrity") \/ Error("options")
    BY <1>3, ErrorAbandons
  <1>4. CASE ~(Error("fetch") \/ Error("integrity") \/ Error("options"))
    <2>1. PICK f \in {FetchedAs(feats[i], d) : d \in Fetch(feats[i])} :
            /\ \A p \in pin(feats[i]) : CheckIntegrity(f.resolved, p)
            /\ f.opts # Invalid
            /\ IF duplicateFeature(SubSeq(feats, 1, i - 1), f) THEN Drop(f) ELSE Keep(f)
      BY <1>4 DEF LoopFetched
    <2>2. PICK d \in Fetch(feats[i]) : f = FetchedAs(feats[i], d)
      BY <2>1
    <2>3. /\ d \in Contents(feats[i].ref) /\ f \in Feature
          /\ IsFetched(f) /\ f.ref = feats[i].ref
          /\ f.resolved = ResolvedRef(f.ref, d)
          /\ f.opts = MergeOptions(Artifact[d], feats[i].opts)
          /\ \A w \in Dependency : Provides(feats[i], w) => Provides(f, w)
      BY <1>1, <1>2, <2>1, <2>2, FetchedEntry
    <2>4. f.resolved # NoResolvedRef /\ ~f.baked
      <3>1. f.ref \in Ref /\ d \in Contents(f.ref)
        BY <2>3 DEF Feature
      <3>2. QED
        BY <2>3, <3>1, ContentsResolve DEF IsFetched
    <2>5. duplicateFeature(SubSeq(feats, 1, i - 1), f) <=> \E k \in 1 .. i - 1 : Alike(feats[k], f)
      <3>1. PICK s : s = SubSeq(feats, 1, i - 1)
        OBVIOUS
      <3>2. DOMAIN s = 1 .. i - 1 /\ \A k \in 1 .. i - 1 : s[k] = feats[k]
        BY <1>1, <3>1
      <3>3. QED
        BY <2>4, <3>1, <3>2 DEF duplicateFeature, Alike
    <2>6. Resolves(f)
      BY <1>1, <2>3 DEF Resolves
    <2>7. CASE duplicateFeature(SubSeq(feats, 1, i - 1), f)
      <3>1. ASSUME NEW w \in Dependency, NEW g \in Feature, Provides(feats[i], w), Alike(g, f)
            PROVE  Provides(g, w)
        <4>1. feats[i].ref = w.key /\ feats[i].opts = w.opts
          BY <1>1, <1>2, <3>1, RawFacts
        <4>2. g.resolved = ResolvedRef(w.key, d) /\ g.opts = MergeOptions(Artifact[d], w.opts)
          BY <2>3, <3>1, <4>1 DEF Alike
        <4>3. QED
          BY <2>3, <4>1, <4>2 DEF Provides
      <3>2. DropRound(f)
        BY <2>1, <2>3, <2>5, <2>6, <2>7, <3>1 DEF DropRound, Drop, Without, worldVars
      <3>3. QED
        BY <3>2
    <2>8. CASE ~duplicateFeature(SubSeq(feats, 1, i - 1), f)
      <3>1. Keep(f)
        BY <2>1, <2>8
      <3>2. CASE Abandon
        BY <3>2
      <3>3. CASE ~Abandon
        <4>1. /\ feats' = Extended(feats, i, f) /\ i' = i + 1
              /\ UNCHANGED <<names, moves, calls, lockfile, built, pc, call, lock, aliases,
                             image, last>>
          BY <3>1, <3>3, KeepKeeps
        <4>2. KeepRound(f)
          BY <2>5, <2>6, <2>8, <4>1 DEF KeepRound
        <4>3. QED
          BY <4>2
      <3>4. QED
        BY <3>2, <3>3
    <2>9. QED
      BY <2>7, <2>8
  <1>5. QED
    BY <1>3, <1>4

-----------------------------------------------------------------------------
(* Types. *)

LEMMA NoLockType ==
    /\ LockfileOK(NoLock) /\ LockfileOK(BlankLock) /\ LockfileOK(TornLock)
    /\ NoLock.state = "none" /\ DOMAIN NoLock.entries = {}
  <1>1. DOMAIN <<>> = {}
    OBVIOUS
  <1>2. <<>> \in [{} -> LockEntry]
    OBVIOUS
  <1>3. QED
    BY <1>1, <1>2 DEF LockfileOK, NoLock, BlankLock, TornLock

(* The last entry with a reference.                                        *)
LEMMA LastMember ==
    ASSUME NEW N \in Nat, NEW S \in SUBSET (1 .. N), S # {}
    PROVE  \E n \in S : \A k \in S : k <= n
  <1> DEFINE B == {N - n : n \in S}
  <1>1. B # {} /\ B \subseteq Nat
    <2>1. \A n \in S : n \in 1 .. N
      OBVIOUS
    <2>2. \A n \in 1 .. N : N - n \in Nat
      OBVIOUS
    <2>3. QED
      BY <2>1, <2>2
  <1>2. PICK m \in B : \A k \in B : ~(<<k, m>> \in OpToRel(<, Nat))
    BY <1>1, NatLessThanWellFounded, WFMin, Zenon
  <1>3. \A k \in B : ~(k < m)
    BY <1>1, <1>2 DEF OpToRel
  <1>4. PICK n \in S : m = N - n
    OBVIOUS
  <1>5. \A k \in S : ~(N - k < N - n)
    BY <1>3, <1>4
  <1>6. QED
    BY <1>5

LEMMA EntryType ==
    ASSUME TypeOK, NEW f \in Feature
    PROVE  /\ pin(f) \subseteq LockEntry /\ Entry(f) \in LockEntry
           /\ AsPinned(f) => Entry(f).integrity = f.resolved.digest
  <1>1. pin(f) \subseteq LockEntry
    <2>1. PICK entries : entries = lock.entries
      OBVIOUS
    <2>2. entries \in [DOMAIN entries -> LockEntry]
      BY <2>1 DEF TypeOK, LockfileOK
    <2>3. pin(f) \subseteq {entries[r] : r \in DOMAIN entries}
      BY <2>1 DEF pin
    <2>4. \A r \in DOMAIN entries : entries[r] \in LockEntry
      BY <2>2
    <2>5. QED
      BY <2>3, <2>4
  <1>2. Lock(f) \in LockEntry /\ Lock(f).integrity = f.resolved.digest
    <2>1. /\ f.meta.version \in Nat /\ f.resolved.at \in {0} \cup Range(Place)
          /\ f.resolved.digest \in {0} \cup Digest
      BY DEF Feature, Metadata, ResolvedRefs
    <2>2. {dep.key : dep \in f.meta.dependsOn} \subseteq Ref
      BY DEF Feature, Metadata, DependsOn, Dependency
    <2>3. QED
      BY <2>1, <2>2 DEF Lock, LockEntry
  <1>3. CASE f.baked /\ pin(f) # {}
    <2>1. Entry(f) \in pin(f)
      <3>1. PICK p : p = CHOOSE x \in pin(f) : TRUE
        OBVIOUS
      <3>2. p \in pin(f)
        BY <1>3, <3>1
      <3>3. QED
        BY <1>3, <3>1, <3>2 DEF Entry
    <2>2. AsPinned(f) => f.resolved.digest = Entry(f).integrity
      BY <2>1 DEF AsPinned, CheckIntegrity
    <2>3. QED
      BY <1>1, <2>1, <2>2
  <1>4. CASE ~(f.baked /\ pin(f) # {})
    BY <1>1, <1>2, <1>4 DEF Entry
  <1>5. QED
    BY <1>3, <1>4

(* A lockfile has one entry for a remote reference, of a feature with it.  *)
LEMMA LockedByEntries ==
    ASSUME NEW F \in Seq(Feature)
    PROVE  /\ DOMAIN LockedBy(F) = {f.ref : f \in Remote(F)}
           /\ \A r \in DOMAIN LockedBy(F) : \E f \in Remote(F) :
                f.ref = r /\ LockedBy(F)[r] = Entry(f)
  <1> DEFINE refs == {f.ref : f \in Remote(F)}
             with(r) == {n \in DOMAIN F : F[n].ref = r}
             last1(r) == CHOOSE n \in DOMAIN F :
                          /\ F[n].ref = r
                          /\ \A k \in DOMAIN F : F[k].ref = r => k <= n
  <1>1. LockedBy(F) = [r \in refs |-> Entry(F[last1(r)])]
    BY DEF LockedBy
  <1>2. ASSUME NEW r \in refs
        PROVE  F[last1(r)] \in Remote(F) /\ F[last1(r)].ref = r
    <2>1. PICK f \in Remote(F) : f.ref = r
      OBVIOUS
    <2>2. PICK m \in DOMAIN F : F[m] = f
      BY <2>1 DEF Remote, Range
    <2>3. Len(F) \in Nat /\ with(r) \in SUBSET (1 .. Len(F)) /\ with(r) # {}
      BY <2>1, <2>2
    <2>4. PICK n \in with(r) : \A k \in with(r) : k <= n
      BY <2>3, LastMember
    <2>5. PICK l : l = last1(r)
      OBVIOUS
    <2>6. l \in DOMAIN F /\ F[l].ref = r
      BY <2>4, <2>5
    <2>7. Kind[F[l].ref] # "local"
      BY <2>1, <2>6 DEF Remote
    <2>8. QED
      BY <2>5, <2>6, <2>7 DEF Remote, Range
  <1> HIDE DEF last1
  <1>3. QED
    BY <1>1, <1>2

LEMMA NextLockType ==
    ASSUME TypeOK
    PROVE  /\ LockfileOK(Lockfile(NextLock))
           /\ DOMAIN NextLock = {f.ref : f \in Remote(feats \o aliases)}
           /\ \A r \in DOMAIN NextLock : \E f \in Remote(feats \o aliases) :
                f.ref = r /\ NextLock[r] = Entry(f)
  <1>1. feats \o aliases \in Seq(Feature)
    <2>1. feats \in Seq(Feature) /\ aliases \in Seq(Feature)
      BY DEF TypeOK
    <2>2. QED
      BY <2>1
  <1>2. PICK F : F = feats \o aliases
    OBVIOUS
  <1>3. /\ DOMAIN LockedBy(F) = {f.ref : f \in Remote(F)}
        /\ \A r \in DOMAIN LockedBy(F) : \E f \in Remote(F) : f.ref = r /\ LockedBy(F)[r] = Entry(f)
    BY <1>1, <1>2, LockedByEntries
  <1>4. \A f \in Remote(F) : f \in Feature /\ f.ref \in Ref /\ Kind[f.ref] # "local"
    <2>1. \A f \in Range(F) : f \in Feature
      BY <1>1, <1>2 DEF Range
    <2>2. \A f \in Feature : f.ref \in Ref
      BY DEF Feature
    <2>3. QED
      BY <2>1, <2>2 DEF Remote
  <1>5. \A r \in DOMAIN LockedBy(F) : r \in Ref /\ Kind[r] # "local" /\ LockedBy(F)[r] \in LockEntry
    BY <1>3, <1>4, EntryType
  <1>6. LockedBy(F) \in [DOMAIN LockedBy(F) -> LockEntry]
    <2>1. \E h : LockedBy(F) = [r \in {f.ref : f \in Remote(F)} |-> h[r]]
      <3>1. WITNESS [r \in {f.ref : f \in Remote(F)} |->
                      Entry(F[CHOOSE n \in DOMAIN F :
                                /\ F[n].ref = r
                                /\ \A k \in DOMAIN F : F[k].ref = r => k <= n])]
      <3>2. QED
        BY DEF LockedBy
    <2>2. QED
      BY <1>5, <2>1
  <1>7. LockfileOK(Lockfile(LockedBy(F)))
    BY <1>5, <1>6 DEF LockfileOK, Lockfile
  <1>8. QED
    BY <1>2, <1>3, <1>7 DEF NextLock

-----------------------------------------------------------------------------
(* The steps, one by one. *)

(* The lockfile has been read, or there is nothing to do.                  *)
Loaded ==
    /\ pc = "load"
    /\ \/ pc' = "tag" /\ lock' = lock /\ feats = <<>>
       \/ /\ lock' = IF call.mode = "disabled" THEN NoLock ELSE ReadLockfile
          /\ call.mode = "frozen" => ReadLockfile # NoLock
          /\ \/ feats = <<>> /\ call.mode # "disabled" /\ pc' = "commit"
             \/ feats # <<>> /\ pc' = "mark"
    /\ UNCHANGED <<names, moves, calls, lockfile, built, call, feats, i, aliases, image, last>>

Committed ==
    /\ pc = "commit"
    /\ \/ Lockfile(NextLock) = lock /\ pc' = AfterCommit /\ lockfile' = lockfile
       \/ call.mode # "frozen" /\ pc' = "write" /\ lockfile' = BlankLock
    /\ UNCHANGED <<names, moves, calls, built, call, lock, feats, i, aliases, image, last>>

Arranged ==
    /\ pc = "order"
    /\ \E p : Arranges(p, feats) /\ feats' = Rearranged(feats, p)
    /\ pc' = IF HasWork THEN "build" ELSE "tag"
    /\ UNCHANGED <<names, moves, calls, lockfile, built, call, lock, i, aliases, image, last>>

LEMMA LoadCases ==
    ASSUME loadFeatureLock
    PROVE  Abandon \/ Loaded
  <1>1. CASE Error("parse") \/ Error("missing")
    BY <1>1, ErrorAbandons
  <1>2. CASE ~(Error("parse") \/ Error("missing"))
    <2>1. CASE feats = <<>> /\ (call.mode = "disabled" \/ ReadLockfile = NoLock)
      <3>1. pc = "load" /\ Move("tag")
        BY <1>2, <2>1 DEF loadFeatureLock
      <3>2. QED
        BY <2>1, <3>1 DEF Move, Loaded, worldVars, callVars
    <2>2. CASE ~(feats = <<>> /\ (call.mode = "disabled" \/ ReadLockfile = NoLock))
      <3>1. /\ pc = "load"
            /\ ~(call.mode = "frozen" /\ ReadLockfile = NoLock)
            /\ pc' = IF feats = <<>> THEN "commit" ELSE "mark"
            /\ lock' = IF call.mode = "disabled" THEN NoLock ELSE ReadLockfile
            /\ UNCHANGED <<worldVars, calls, lockfile, built, call, feats, i, aliases,
                           image, still, last, locked>>
        BY <1>2, <2>2, Zenon DEF loadFeatureLock
      <3>2. QED
        BY <2>2, <3>1 DEF Loaded, worldVars
    <2>3. QED
      BY <2>1, <2>2
  <1>3. QED
    BY <1>1, <1>2

LEMMA OrderCases ==
    ASSUME TypeOK, OrderFeatures
    PROVE  Abandon \/ Arranged
  <1>1. feats \in Seq(Feature) /\ pc = "order"
    BY DEF TypeOK, OrderFeatures
  <1>2. PICK ordered : ordered = Order(feats, <<>>)
    OBVIOUS
  <1>3. IF ordered.outcome # "ok" THEN Error(ordered.outcome)
        ELSE /\ feats' = ordered.features
             /\ pc' = IF HasWork THEN "build" ELSE "tag"
             /\ UNCHANGED <<worldVars, calls, lockfile, built, call, lock, i,
                            aliases, image, still, last, locked>>
    BY <1>2, Zenon DEF OrderFeatures
  <1>4. CASE ordered.outcome # "ok"
    BY <1>3, <1>4, ErrorAbandons
  <1>5. CASE ordered.outcome = "ok"
    <2>1. PICK p : Arranges(p, feats) /\ ordered.features = Rearranged(feats, p)
      BY <1>1, <1>2, <1>5, OrderArranges
    <2>2. QED
      BY <1>1, <1>3, <1>5, <2>1 DEF Arranged, worldVars
  <1>6. QED
    BY <1>4, <1>5

LEMMA Steps ==
    ASSUME TypeOK, WorldInv, EntriesInv, [Next]_vars
    PROVE  \/ UNCHANGED vars \/ Begin \/ Abandon \/ Loaded \/ Mark
           \/ (\E f : KeepRound(f)) \/ (\E f : DropRound(f)) \/ LoopEnds
           \/ Committed \/ WriteLockfile \/ Arranged \/ BuildFeatures \/ Finish
           \/ \E r \in Ref : Republish(r)
  <1>1. CASE loadFeatureLock
    BY <1>1, LoadCases
  <1>2. CASE LoopBaked
    BY <1>2, BakedRound
  <1>3. CASE LoopFetched
    BY <1>3, FetchedRound
  <1>4. CASE commit
    <2>1. CASE Error("mismatch")
      BY <2>1, ErrorAbandons
    <2>2. CASE ~Error("mismatch")
      BY <1>4, <2>2 DEF commit, Move, Committed, worldVars, callVars
    <2>3. QED
      BY <2>1, <2>2
  <1>5. CASE OrderFeatures
    BY <1>5, OrderCases
  <1>6. CASE LoopFetchFails
    BY <1>6, ErrorAbandons DEF LoopFetchFails
  <1>7. CASE WriteIsCutShort
    BY <1>7 DEF WriteIsCutShort, Abandon, worldVars
  <1>8. CASE BuildFails
    BY <1>8, ErrorAbandons DEF BuildFails
  <1>9. CASE Crash
    BY <1>9, ErrorAbandons DEF Crash
  <1>10. CASE Begin \/ Mark \/ LoopEnds \/ WriteLockfile \/ BuildFeatures \/ Finish
              \/ (\E r \in Ref : Republish(r)) \/ UNCHANGED vars
    BY <1>10
  <1>11. QED
    BY <1>1, <1>2, <1>3, <1>4, <1>5, <1>6, <1>7, <1>8, <1>9, <1>10 DEF Next, Step, Fault

-----------------------------------------------------------------------------
(* Steps that make something new. *)

LEMMA BaseContents ==
    ASSUME TypeOK, WorldInv, NEW base \in Bases \cup built
    PROVE  /\ base.label \in Seq(LabelEntries) /\ base.contents \in SUBSET ResolvedRefs
           /\ base.contents = Labelled(base.label) /\ base.source \in {"image", "build"}
  <1>1. base \in BaseImage /\ base.contents = Labelled(base.label)
    BY FeaturesAssumption DEF TypeOK, WorldInv
  <1>2. QED
    BY <1>1 DEF BaseImage

(* What a call begins with.                                                *)
Begins(config, base) ==
    /\ pc = "idle" /\ pc' = "load" /\ last' = "" /\ calls' \in 0 .. MaxCalls
    /\ call' \in [config : Configs, base : Bases \cup built, mode : Mode, strict : BOOLEAN,
                  name : {"", "name"}]
    /\ call'.config = config /\ call'.base = base
    /\ image' \in [tag : {"", "name", "image", "dc-go-base", "dc-go-final"},
                   label : Seq(LabelEntries), contents : SUBSET ResolvedRefs]
    /\ image'.label = base.label /\ image'.contents = base.contents
    /\ feats' = buildPartialFeatures(config)
    /\ UNCHANGED <<names, moves, lockfile, built, lock, i, aliases>>

LEMMA BeginCases ==
    ASSUME TypeOK, WorldInv, Begin
    PROVE  \E config \in Configs, base \in Bases \cup built : Begins(config, base)
  <1>1. PICK config \in Configs, base \in Bases \cup built, opts \in Options :
          prepareBaseImage(config, base, opts)
    BY DEF Begin
  <1>2. opts.mode \in Mode /\ opts.strict \in BOOLEAN /\ opts.name \in {"", "name"}
    BY FeaturesAssumption
  <1>3. base.label \in Seq(LabelEntries) /\ base.contents \in SUBSET ResolvedRefs
    BY BaseContents
  <1>4. BaseTag(base, config, opts.name) \in {"", "name", "image", "dc-go-base", "dc-go-final"}
    BY <1>2 DEF BaseTag
  <1>5. pc = "idle" /\ pc' = "load" /\ last' = "" /\ calls' \in 0 .. MaxCalls
    <2>1. MaxCalls \in Nat
      BY FeaturesAssumption
    <2>2. calls \in 0 .. MaxCalls
      BY DEF TypeOK
    <2>3. calls < MaxCalls /\ calls' = calls + 1
      BY <1>1 DEF prepareBaseImage
    <2>4. calls' \in 0 .. MaxCalls
      BY <2>1, <2>2, <2>3
    <2>5. pc = "idle" /\ pc' = "load" /\ last' = ""
      BY <1>1 DEF prepareBaseImage
    <2>6. QED
      BY <2>4, <2>5
  <1>6. call' = [config |-> config, base |-> base, mode |-> opts.mode,
                 strict |-> opts.strict, name |-> opts.name]
    BY <1>1 DEF prepareBaseImage
  <1>7. image' = [tag |-> BaseTag(base, config, opts.name), label |-> base.label,
                  contents |-> base.contents]
    BY <1>1 DEF prepareBaseImage
  <1>8. /\ feats' = buildPartialFeatures(config)
        /\ UNCHANGED <<names, moves, lockfile, built, lock, i, aliases>>
    BY <1>1 DEF prepareBaseImage, worldVars
  <1>9. Begins(config, base)
    BY <1>2, <1>3, <1>4, <1>5, <1>6, <1>7, <1>8 DEF Begins
  <1>10. QED
    BY <1>9

LEMMA InstalledList ==
    ASSUME TypeOK
    PROVE  /\ Installed \in Seq(Feature)
           /\ \A f : f \in Range(Installed) <=>
                \E n \in DOMAIN feats : ~feats[n].baked /\ f = feats[n]
  <1>1. feats \in Seq(Feature)
    BY DEF TypeOK
  <1>2. PICK S : S = {n \in DOMAIN feats : ~feats[n].baked}
    OBVIOUS
  <1>3. Installed = Kept(feats, S)
    BY <1>2 DEF Installed
  <1>4. Kept(feats, S) \in Seq(Feature) /\ Range(Kept(feats, S)) = {feats[n] : n \in S}
    BY <1>1, <1>2, KeptList
  <1>5. QED
    BY <1>2, <1>3, <1>4

LEMMA ImageBuilt ==
    ASSUME TypeOK, BuildFeatures
    PROVE  /\ image' \in [tag : {"", "name", "image", "dc-go-base", "dc-go-final"},
                          label : Seq(LabelEntries), contents : SUBSET ResolvedRefs]
           /\ \A x : x \in image'.contents <=>
                \/ x \in image.contents
                \/ \E n \in DOMAIN feats : ~feats[n].baked /\ x = feats[n].resolved
           /\ \A x : x \in Labelled(image'.label) <=>
                \/ x \in Labelled(call.base.label)
                \/ \E n \in DOMAIN feats : ~feats[n].baked /\ x = feats[n].resolved
                                          /\ x # NoResolvedRef
  <1>1. Installed \in Seq(Feature)
    BY InstalledList
  <1>2. PICK inst : inst = Installed
    OBVIOUS
  <1>3. PICK entries : entries = [n \in DOMAIN inst |-> LabelEntry(inst[n])]
    OBVIOUS
  <1>4. /\ image' = [tag |-> IF call.name # "" THEN call.name ELSE "dc-go-final",
                     label |-> buildMetadataLabel(inst),
                     contents |-> image.contents \cup {f.resolved : f \in Range(inst)}]
    BY <1>2 DEF BuildFeatures
  <1>5. buildMetadataLabel(inst) = call.base.label \o entries
    BY <1>3 DEF buildMetadataLabel
  <1>6. ASSUME NEW f \in Feature
        PROVE  LabelEntry(f) \in LabelEntries /\ LabelEntry(f).resolved = f.resolved
               /\ f.resolved \in ResolvedRefs
    BY DEF LabelEntry, LabelEntries, Feature, Metadata
  <1>7. \A n \in DOMAIN inst : inst[n] \in Feature
    BY <1>1, <1>2
  <1>8. entries \in Seq(LabelEntries) /\ DOMAIN entries = DOMAIN inst
    <2>1. \A n \in DOMAIN inst : entries[n] \in LabelEntries
      BY <1>3, <1>6, <1>7
    <2>2. Len(inst) \in Nat /\ DOMAIN inst = 1 .. Len(inst)
      BY <1>1, <1>2
    <2>3. QED
      BY <1>3, <2>1, <2>2
  <1>9. call.base.label \in Seq(LabelEntries)
    BY BaseType
  <1>10. call.base.label \o entries \in Seq(LabelEntries)
    BY <1>8, <1>9
  <1>11. Range(call.base.label \o entries) = Range(call.base.label) \cup Range(entries)
    BY <1>8, <1>9, RangeConcat
  <1>12. \A f \in Range(inst) : f.resolved \in ResolvedRefs
    BY <1>6, <1>7 DEF Range
  <1>13. image.contents \subseteq ResolvedRefs /\ call.name \in {"", "name"}
    BY DEF TypeOK
  <1>14. image' \in [tag : {"", "name", "image", "dc-go-base", "dc-go-final"},
                     label : Seq(LabelEntries), contents : SUBSET ResolvedRefs]
    BY <1>4, <1>5, <1>10, <1>12, <1>13
  <1>15. \A f : f \in Range(inst) <=> \E n \in DOMAIN feats : ~feats[n].baked /\ f = feats[n]
    BY <1>2, InstalledList
  <1>16. \A x : (\E f \in Range(inst) : x = f.resolved) <=>
                \E n \in DOMAIN feats : ~feats[n].baked /\ x = feats[n].resolved
    BY <1>15
  <1>17. image'.contents = image.contents \cup {f.resolved : f \in Range(inst)}
    BY <1>4
  <1>18. \A x : (\E e \in Range(entries) : x = e.resolved) <=> \E f \in Range(inst) : x = f.resolved
    <2>1. \A n \in DOMAIN inst : entries[n].resolved = inst[n].resolved
      BY <1>3, <1>6, <1>7
    <2>2. QED
      BY <1>8, <2>1 DEF Range
  <1>19. image'.label = call.base.label \o entries
    BY <1>4, <1>5
  <1>20. \A x : x \in Labelled(image'.label) <=>
           x # NoResolvedRef /\ (\/ \E e \in Range(call.base.label) : x = e.resolved
                                 \/ \E e \in Range(entries) : x = e.resolved)
    BY <1>11, <1>19 DEF Labelled
  <1>21. \A x : x \in Labelled(call.base.label) <=>
           x # NoResolvedRef /\ \E e \in Range(call.base.label) : x = e.resolved
    BY DEF Labelled
  <1>22. \A x : x \in image'.contents <=>
           \/ x \in image.contents
           \/ \E n \in DOMAIN feats : ~feats[n].baked /\ x = feats[n].resolved
    <2>1. \A x : x \in image'.contents <=>
            x \in image.contents \/ \E f \in Range(inst) : x = f.resolved
      BY <1>17
    <2>2. QED
      BY <1>16, <2>1
  <1>23. \A x : x \in Labelled(image'.label) <=>
           \/ x \in Labelled(call.base.label)
           \/ \E n \in DOMAIN feats : ~feats[n].baked /\ x = feats[n].resolved
                                     /\ x # NoResolvedRef
    <2>1. \A x : x \in Labelled(image'.label) <=>
            x # NoResolvedRef /\ (\/ \E e \in Range(call.base.label) : x = e.resolved
                                  \/ \E n \in DOMAIN feats : ~feats[n].baked /\ x = feats[n].resolved)
      BY <1>16, <1>18, <1>20, Zenon
    <2>2. QED
      BY <1>21, <2>1, Zenon
  <1>24. QED
    BY <1>14, <1>22, <1>23, Zenon

LEMMA ImageNamed ==
    ASSUME TypeOK, Finish
    PROVE  /\ image' \in [tag : {"", "name", "image", "dc-go-base", "dc-go-final"},
                          label : Seq(LabelEntries), contents : SUBSET ResolvedRefs]
           /\ image'.label = image.label /\ image'.contents = image.contents
           /\ call.name # "" => image'.tag = call.name
           /\ built' = built \cup {[source |-> "image", label |-> image.label,
                                    contents |-> image.contents]}
  <1>1. image' = [image EXCEPT !.tag = IF call.name # "" THEN call.name ELSE @]
    BY DEF Finish, retagImage
  <1>2. /\ image \in [tag : {"", "name", "image", "dc-go-base", "dc-go-final"},
                      label : Seq(LabelEntries), contents : SUBSET ResolvedRefs]
        /\ call.name \in {"", "name"}
    BY DEF TypeOK
  <1>3. /\ image'.label = image.label /\ image'.contents = image.contents
        /\ image'.tag = IF call.name # "" THEN call.name ELSE image.tag
        /\ image' = [tag |-> image'.tag, label |-> image'.label, contents |-> image'.contents]
    BY <1>1, <1>2
  <1>4. retagImage.label = image.label /\ retagImage.contents = image.contents
    BY <1>2 DEF retagImage
  <1>5. built' = built \cup {[source |-> "image", label |-> retagImage.label,
                              contents |-> retagImage.contents]}
    BY DEF Finish, Publish
  <1>6. QED
    BY <1>2, <1>3, <1>4, <1>5

-----------------------------------------------------------------------------
(* The invariant holds at first and from step to step: types. *)

LEMMA ArrangedFacts ==
    ASSUME TypeOK, NEW p, Arranges(p, feats), feats' = Rearranged(feats, p)
    PROVE  /\ feats' \in Seq(Feature) /\ DOMAIN feats' = DOMAIN feats
           /\ Len(feats') = Len(feats)
           /\ \A n \in DOMAIN feats : p[n] \in DOMAIN feats /\ feats'[n] = feats[p[n]]
           /\ \A k \in DOMAIN feats : \E n \in DOMAIN feats : feats'[n] = feats[k]
           /\ Range(feats') = Range(feats)
  <1>1. feats \in Seq(Feature) /\ DOMAIN feats = 1 .. Len(feats) /\ Len(feats) \in Nat
    <2>1. feats \in Seq(Feature)
      BY DEF TypeOK
    <2>2. QED
      BY <2>1
  <1>2. \A n \in DOMAIN feats : p[n] \in DOMAIN feats /\ feats[p[n]] \in Feature
    BY <1>1 DEF Arranges
  <1>3. feats' = [n \in DOMAIN feats |-> feats[p[n]]]
    BY DEF Rearranged
  <1>4. \A k \in DOMAIN feats : \E n \in DOMAIN feats : p[n] = k
    BY DEF Arranges
  <1>5. feats' \in Seq(Feature) /\ DOMAIN feats' = DOMAIN feats /\ Len(feats') = Len(feats)
    BY <1>1, <1>2, <1>3
  <1>6. \A k \in DOMAIN feats : \E n \in DOMAIN feats : feats'[n] = feats[k]
    BY <1>3, <1>4
  <1>7. Range(feats') = Range(feats)
    <2>1. PICK G : G = feats'
      OBVIOUS
    <2>2. /\ DOMAIN G = DOMAIN feats
          /\ \A n \in DOMAIN feats : p[n] \in DOMAIN feats /\ G[n] = feats[p[n]]
          /\ \A k \in DOMAIN feats : \E n \in DOMAIN feats : G[n] = feats[k]
      BY <1>2, <1>3, <1>5, <1>6, <2>1
    <2>3. Range(G) = Range(feats)
      BY <2>2 DEF Range
    <2>4. QED
      BY <2>1, <2>3
  <1>8. QED
    BY <1>2, <1>3, <1>5, <1>6, <1>7

LEMMA MarkedList ==
    ASSUME TypeOK, EntriesInv, Mark
    PROVE  /\ feats' \in Seq(Feature) /\ DOMAIN feats' = DOMAIN feats
           /\ Len(feats') = Len(feats)
           /\ \A n \in DOMAIN feats :
                /\ Raw(feats'[n]) \/ IsBaked(feats'[n])
                /\ feats'[n].ref = feats[n].ref
                /\ \A w \in Dependency : Provides(feats[n], w) => Provides(feats'[n], w)
  <1>1. pc = "mark" /\ feats' = markAlreadyInstalled(feats) /\ feats \in Seq(Feature)
    BY DEF Mark, TypeOK
  <1> DEFINE marked(n) ==
               LET f == feats[n]
                   found == bakedFeature(f)
                   b == call.base.label[CHOOSE k \in found : \A l \in found : k <= l]
               IN  IF found = {} THEN f
                   ELSE [f EXCEPT !.baked = TRUE, !.resolved = b.resolved,
                                  !.meta = BakedMeta(b), !.known = b.known]
  <1>a. feats' = [n \in DOMAIN feats |-> marked(n)]
    BY <1>1, Zenon DEF markAlreadyInstalled
  <1> HIDE DEF marked
  <1>2. DOMAIN feats' = DOMAIN feats /\ DOMAIN feats = 1 .. Len(feats) /\ Len(feats) \in Nat
    BY <1>1, <1>a
  <1>3. \A n \in DOMAIN feats : Raw(feats[n])
    BY <1>1 DEF EntriesInv
  <1>4. ASSUME NEW n \in DOMAIN feats
        PROVE  /\ feats'[n] \in Feature
               /\ Raw(feats'[n]) \/ IsBaked(feats'[n])
               /\ feats'[n].ref = feats[n].ref
               /\ \A w \in Dependency : Provides(feats[n], w) => Provides(feats'[n], w)
    <2>1. Raw(feats[n])
      BY <1>3
    <2>2. PICK g : g = markAlreadyInstalled(feats)[n]
      OBVIOUS
    <2>3. /\ g \in Feature /\ g.ref = feats[n].ref
          /\ Raw(g) \/ IsBaked(g)
          /\ \A w \in Dependency : Provides(feats[n], w) => Provides(g, w)
      BY <2>1, <2>2, MarkedEntry
    <2>4. feats'[n] = g
      BY <1>1, <2>2
    <2>5. QED
      BY <2>3, <2>4
  <1>5. feats' \in Seq(Feature)
    BY <1>2, <1>4, <1>a
  <1>6. QED
    BY <1>2, <1>4, <1>5

LEMMA TypeStep ==
    ASSUME TypeOK, WorldInv, PositionInv, EntriesInv, [Next]_vars
    PROVE  TypeOK'
  <1>1. /\ feats \in Seq(Feature) /\ Len(feats) \in Nat /\ i \in 1 .. Len(feats) + 1
        /\ DOMAIN feats = 1 .. Len(feats) /\ aliases \in Seq(Feature)
        /\ LockfileOK(lockfile) /\ LockfileOK(lock)
    <2>1. feats \in Seq(Feature) /\ i \in 1 .. Len(feats) + 1 /\ aliases \in Seq(Feature)
          /\ LockfileOK(lockfile) /\ LockfileOK(lock)
      BY DEF TypeOK
    <2>2. QED
      BY <2>1
  <1>2. 1 \in 1 .. Len(feats) + 1
    BY <1>1
  <1>3. CASE UNCHANGED vars
    BY <1>3 DEF TypeOK, vars, worldVars, callVars
  <1>4. CASE Begin
    <2>1. PICK config \in Configs, base \in Bases \cup built : Begins(config, base)
      BY <1>4, BeginCases
    <2>2. feats' \in Seq(Feature)
      BY <2>1, PartialFeatures DEF Begins
    <2>3. i' \in 1 .. Len(feats') + 1
      <3>1. i' = 1
        BY <2>1 DEF Begins, PositionInv
      <3>2. Len(feats') \in Nat
        BY <2>2
      <3>3. QED
        BY <3>1, <3>2
    <2>4. QED
      BY <2>1, <2>2, <2>3 DEF Begins, TypeOK
  <1>5. CASE Abandon
    <2>1. LockfileOK(lockfile') /\ LockfileOK(lock')
      BY <1>1, <1>5, NoLockType DEF Abandon
    <2>2. aliases' \in Seq(Feature) /\ i' \in 1 .. Len(feats') + 1
      BY <1>2, <1>5 DEF Abandon
    <2>3. QED
      BY <1>5, <2>1, <2>2 DEF Abandon, TypeOK
  <1>6. CASE Loaded
    <2>1. LockfileOK(lock')
      BY <1>1, <1>6, NoLockType DEF Loaded, ReadLockfile
    <2>2. QED
      BY <1>6, <2>1 DEF Loaded, TypeOK
  <1>7. CASE Mark
    <2>1. feats' \in Seq(Feature) /\ Len(feats') = Len(feats)
      BY <1>7, MarkedList
    <2>2. QED
      BY <1>7, <2>1 DEF Mark, TypeOK, worldVars
  <1>8. ASSUME NEW f, KeepRound(f)
        PROVE  TypeOK'
    <2>1. i \in DOMAIN feats /\ f \in Feature /\ feats' = Extended(feats, i, f) /\ i' = i + 1
      BY <1>8 DEF KeepRound, Resolves
    <2>2. feats' \in Seq(Feature) /\ i \in DOMAIN feats'
      BY <1>1, <2>1, ExtendedList DEF Extends
    <2>3. i' \in 1 .. Len(feats') + 1
      BY <1>1, <2>1, <2>2
    <2>4. QED
      BY <1>8, <2>2, <2>3 DEF KeepRound, TypeOK
  <1>9. ASSUME NEW f, DropRound(f)
        PROVE  TypeOK'
    <2>1. /\ i \in DOMAIN feats /\ f \in Feature /\ feats' = Without(feats, i)
          /\ aliases' = Append(aliases, f) /\ i' = i
      BY <1>9 DEF DropRound, Resolves
    <2>2. feats' \in Seq(Feature) /\ Len(feats') = Len(feats) - 1
      BY <1>1, <2>1, WithoutList
    <2>3. aliases' \in Seq(Feature) /\ i' \in 1 .. Len(feats') + 1
      BY <1>1, <2>1, <2>2
    <2>4. QED
      BY <1>9, <2>2, <2>3 DEF DropRound, TypeOK
  <1>10. CASE LoopEnds
    BY <1>10 DEF LoopEnds, Move, TypeOK, worldVars, callVars
  <1>11. CASE Committed
    <2>1. LockfileOK(lockfile')
      BY <1>1, <1>11, NoLockType DEF Committed
    <2>2. pc' \in {"tag", "order", "write"}
      BY <1>11 DEF Committed, AfterCommit
    <2>3. QED
      BY <1>11, <2>1, <2>2 DEF Committed, TypeOK
  <1>12. CASE WriteLockfile
    <2>1. LockfileOK(lockfile')
      BY <1>12, NextLockType DEF WriteLockfile
    <2>2. pc' \in {"tag", "order"}
      BY <1>12 DEF WriteLockfile, AfterCommit
    <2>3. QED
      BY <1>12, <2>1, <2>2 DEF WriteLockfile, TypeOK, worldVars, callVars
  <1>13. CASE Arranged
    <2>1. PICK p : Arranges(p, feats) /\ feats' = Rearranged(feats, p)
      BY <1>13 DEF Arranged
    <2>2. feats' \in Seq(Feature) /\ Len(feats') = Len(feats)
      BY <2>1, ArrangedFacts
    <2>3. pc' \in {"build", "tag"}
      BY <1>13 DEF Arranged
    <2>4. QED
      BY <1>13, <2>2, <2>3 DEF Arranged, TypeOK
  <1>14. CASE BuildFeatures
    <2>1. image' \in [tag : {"", "name", "image", "dc-go-base", "dc-go-final"},
                      label : Seq(LabelEntries), contents : SUBSET ResolvedRefs]
      BY <1>14, ImageBuilt
    <2>2. QED
      BY <1>14, <2>1 DEF BuildFeatures, TypeOK, worldVars
  <1>15. CASE Finish
    <2>1. image' \in [tag : {"", "name", "image", "dc-go-base", "dc-go-final"},
                      label : Seq(LabelEntries), contents : SUBSET ResolvedRefs]
          /\ built' = built \cup {[source |-> "image", label |-> image.label,
                                   contents |-> image.contents]}
      BY <1>15, ImageNamed
    <2>2. image.label \in Seq(LabelEntries) /\ image.contents \in SUBSET ResolvedRefs
      BY DEF TypeOK
    <2>3. built' \subseteq BaseImage /\ built \subseteq built'
      <3>1. built \subseteq BaseImage
        BY DEF TypeOK
      <3>2. [source |-> "image", label |-> image.label, contents |-> image.contents] \in BaseImage
        BY <2>2 DEF BaseImage
      <3>3. QED
        BY <2>1, <3>1, <3>2
    <2>4. LockfileOK(lock') /\ aliases' \in Seq(Feature) /\ i' \in 1 .. Len(feats') + 1
      BY <1>2, <1>15, NoLockType DEF Finish
    <2>5. call' \in [config : Configs, base : Bases \cup built', mode : Mode, strict : BOOLEAN,
                     name : {"", "name"}]
      BY <1>15, <2>3 DEF Finish, TypeOK
    <2>6. QED
      BY <1>15, <2>1, <2>3, <2>4, <2>5 DEF Finish, TypeOK, worldVars
  <1>16. ASSUME NEW r \in Ref, Republish(r)
         PROVE  TypeOK'
    <2>1. names' \in [Ref -> Digest]
      <3>1. PICK d \in Range(Serves[r]) : names' = [names EXCEPT ![r] = d]
        BY <1>16 DEF Republish
      <3>2. Serves[r] \in Seq(Digest)
        BY FeaturesAssumption
      <3>3. d \in Digest
        BY <3>1, <3>2 DEF Range
      <3>4. QED
        BY <3>1, <3>3 DEF TypeOK
    <2>2. moves' \in 0 .. MaxMoves
      <3>1. MaxMoves \in Nat
        BY FeaturesAssumption
      <3>2. moves \in 0 .. MaxMoves
        BY DEF TypeOK
      <3>3. moves < MaxMoves /\ moves' = moves + 1
        BY <1>16 DEF Republish
      <3>4. QED
        BY <3>1, <3>2, <3>3
    <2>3. QED
      BY <1>16, <2>1, <2>2 DEF Republish, TypeOK
  <1>17. QED
    BY <1>3, <1>4, <1>5, <1>6, <1>7, <1>8, <1>9, <1>10, <1>11, <1>12, <1>13, <1>14, <1>15,
       <1>16, Steps

-----------------------------------------------------------------------------
(* The world, the loop's position, and the entries. *)

LEMMA WorldStep ==
    ASSUME TypeOK, WorldInv, EntriesInv, ImageInv, [Next]_vars
    PROVE  WorldInv'
  <1>1. CASE names' = names /\ built' = built
    BY <1>1 DEF WorldInv
  <1>2. CASE Finish
    <2>1. built' = built \cup {[source |-> "image", label |-> image.label,
                                contents |-> image.contents]}
      BY <1>2, ImageNamed
    <2>2. image.contents = Labelled(image.label) /\ names' = names
      BY <1>2 DEF Finish, ImageInv, worldVars
    <2>3. QED
      BY <2>1, <2>2 DEF WorldInv
  <1>3. ASSUME NEW r \in Ref, Republish(r)
        PROVE  WorldInv'
    <2>1. PICK d \in Range(Serves[r]) : names' = [names EXCEPT ![r] = d]
      BY <1>3 DEF Republish
    <2>2. \A q \in Ref : names'[q] = IF q = r THEN d ELSE names[q]
      BY <2>1 DEF TypeOK
    <2>3. built' = built
      BY <1>3 DEF Republish
    <2>4. QED
      BY <2>1, <2>2, <2>3 DEF WorldInv
  <1>4. CASE Begin
    BY <1>1, <1>4, BeginCases DEF Begins
  <1>5. QED
    BY <1>1, <1>2, <1>3, <1>4, Steps
    DEF vars, worldVars, callVars, Abandon, Loaded, Mark, KeepRound, DropRound, LoopEnds, Move,
        Committed, WriteLockfile, Arranged, BuildFeatures

LEMMA PositionStep ==
    ASSUME TypeOK, WorldInv, PositionInv, EntriesInv, [Next]_vars
    PROVE  PositionInv'
  <1>1. feats \in Seq(Feature) /\ Len(feats) \in Nat /\ i \in 1 .. Len(feats) + 1
    <2>1. feats \in Seq(Feature) /\ i \in 1 .. Len(feats) + 1
      BY DEF TypeOK
    <2>2. QED
      BY <2>1
  <1>2. CASE UNCHANGED vars \/ (\E r \in Ref : Republish(r)) \/ BuildFeatures
    BY <1>2 DEF vars, worldVars, callVars, Republish, BuildFeatures, PositionInv
  <1>3. CASE Begin
    BY <1>3, BeginCases DEF Begins, PositionInv
  <1>4. CASE Abandon \/ Finish
    BY <1>4 DEF Abandon, Finish, PositionInv
  <1>5. CASE Loaded
    <2>1. feats = <<>> => Len(feats) = 0
      OBVIOUS
    <2>2. i = 1 /\ aliases = <<>> /\ i' = i /\ aliases' = aliases /\ feats' = feats
      BY <1>5 DEF Loaded, PositionInv
    <2>3. \/ feats = <<>> /\ pc' \in {"tag", "commit"}
          \/ pc' = "mark"
      BY <1>5 DEF Loaded
    <2>4. feats = <<>> => i = Len(feats) + 1
      BY <2>1, <2>2
    <2>5. QED
      BY <2>2, <2>3, <2>4 DEF PositionInv
  <1>6. CASE Mark
    BY <1>6 DEF Mark, PositionInv
  <1>7. CASE (\E f : KeepRound(f)) \/ \E f : DropRound(f)
    BY <1>7 DEF KeepRound, DropRound, Resolves, PositionInv
  <1>8. CASE LoopEnds
    <2>1. i = Len(feats) + 1
      BY <1>1, <1>8 DEF LoopEnds
    <2>2. QED
      BY <1>8, <2>1 DEF LoopEnds, Move, callVars, PositionInv
  <1>9. CASE Committed \/ WriteLockfile
    BY <1>9 DEF Committed, WriteLockfile, AfterCommit, callVars, PositionInv
  <1>10. CASE Arranged
    <2>1. PICK p : Arranges(p, feats) /\ feats' = Rearranged(feats, p)
      BY <1>10 DEF Arranged
    <2>2. Len(feats') = Len(feats)
      BY <2>1, ArrangedFacts
    <2>3. QED
      BY <1>10, <2>2 DEF Arranged, PositionInv
  <1>11. QED
    BY <1>2, <1>3, <1>4, <1>5, <1>6, <1>7, <1>8, <1>9, <1>10, Steps

(* What is known of an entry does not change within a call.                *)
LEMMA SameCall ==
    ASSUME call' = call, lock' = lock \/ lock' = NoLock
    PROVE  \A f : /\ AsPinned(f) => AsPinned(f)'
                  /\ IsBaked(f) => IsBaked(f)'
                  /\ IsFetched(f) => IsFetched(f)'
  <1>1. ASSUME NEW f
        PROVE  pin(f)' \subseteq pin(f)
    <2>1. CASE lock' = lock
      BY <2>1 DEF pin
    <2>2. CASE lock' = NoLock
      <3>1. DOMAIN lock'.entries = {}
        BY <2>2, NoLockType
      <3>2. QED
        BY <3>1 DEF pin
    <2>3. QED
      BY <2>1, <2>2
  <1>2. ASSUME NEW f
        PROVE  AsPinned(f) => AsPinned(f)'
    BY <1>1 DEF AsPinned
  <1>3. QED
    BY <1>2 DEF IsBaked, IsFetched

(* EntriesInv, in the middle of a call.                                    *)
Known(F, m) ==
    \A n \in DOMAIN F :
        /\ n < m => IsBaked(F[n]) \/ IsFetched(F[n])
        /\ n >= m => IsBaked(F[n]) \/ Raw(F[n])

LEMMA AllKnown ==
    ASSUME TypeOK, PositionInv, EntriesInv,
           Alive, pc \in {"idle", "commit", "write", "order", "build", "tag"}
    PROVE  \A n \in DOMAIN feats : IsBaked(feats[n]) \/ IsFetched(feats[n])
  <1>1. feats \in Seq(Feature)
    BY DEF TypeOK
  <1>2. Upto = Len(feats) + 1
    BY DEF Upto, PositionInv
  <1>3. \A n \in DOMAIN feats : n < Upto
    BY <1>1, <1>2
  <1>4. QED
    BY <1>3 DEF EntriesInv

LEMMA EntriesStep ==
    ASSUME TypeOK, WorldInv, PositionInv, EntriesInv, [Next]_vars
    PROVE  EntriesInv'
  <1>1. /\ feats \in Seq(Feature) /\ Len(feats) \in Nat /\ i \in 1 .. Len(feats) + 1
        /\ DOMAIN feats = 1 .. Len(feats) /\ aliases \in Seq(Feature)
    <2>1. feats \in Seq(Feature) /\ i \in 1 .. Len(feats) + 1 /\ aliases \in Seq(Feature)
      BY DEF TypeOK
    <2>2. QED
      BY <2>1
  <1>2. /\ \A f \in Range(aliases) : IsFetched(f)
        /\ pc # "idle" => Known(feats, i)
    BY DEF EntriesInv, Known, Upto, Alive
  <1>3. Range(<<>>) = {}
    BY DEF Range
  <1>4. CASE Abandon
    <2>1. pc' = "idle" /\ last' # "ok" /\ aliases' = <<>>
      BY <1>4 DEF Abandon
    <2>2. QED
      BY <1>3, <2>1 DEF EntriesInv, Alive
  <1>5. CASE Begin
    <2>1. PICK config \in Configs, base \in Bases \cup built : Begins(config, base)
      BY <1>5, BeginCases
    <2>2. pc' = "load" /\ i' = 1 /\ aliases' = <<>>
      BY <2>1 DEF Begins, PositionInv
    <2>3. /\ feats' \in Seq(Feature)
          /\ Range(feats') = {Requested(r, config.asks[r]) : r \in DOMAIN config.asks}
      BY <2>1, PartialFeatures DEF Begins
    <2>4. \A n \in DOMAIN feats' : Raw(feats'[n])
      <3>1. \A n \in DOMAIN feats' : feats'[n] \in Range(feats')
        BY DEF Range
      <3>2. \A r, o : Requested(r, o).ref = r /\ Requested(r, o).opts = o
        BY DEF Requested
      <3>3. QED
        BY <2>3, <3>1, <3>2 DEF Raw
    <2>5. \A n \in DOMAIN feats' : n >= i' /\ ~(n < i')
      BY <2>2, <2>3
    <2>6. Upto' = i'
      BY <2>2 DEF Upto
    <2>7. QED
      BY <1>3, <2>2, <2>4, <2>5, <2>6 DEF EntriesInv, Raw
  <1>6. CASE Loaded
    <2>1. pc = "load" /\ pc' \in {"tag", "commit", "mark"} /\ i' = i /\ feats' = feats
          /\ aliases' = aliases
      BY <1>6 DEF Loaded
    <2>2. i = 1 /\ aliases = <<>> /\ \A n \in DOMAIN feats : Raw(feats[n])
      BY <2>1 DEF EntriesInv, PositionInv
    <2>3. \A n \in DOMAIN feats : n >= i /\ ~(n < i)
      BY <1>1, <2>2
    <2>4. Upto' = i
      BY <2>1 DEF Upto
    <2>5. QED
      BY <1>3, <2>1, <2>2, <2>3, <2>4 DEF EntriesInv, Raw
  <1>7. CASE Mark
    <2>1. /\ pc = "mark" /\ pc' = "loop" /\ i' = i /\ call' = call /\ lock' = lock
          /\ aliases' = aliases
      BY <1>7 DEF Mark
    <2>2. i = 1 /\ aliases = <<>>
      BY <2>1 DEF PositionInv
    <2>3. /\ DOMAIN feats' = DOMAIN feats
          /\ \A n \in DOMAIN feats : Raw(feats'[n]) \/ IsBaked(feats'[n])
      BY <1>7, MarkedList
    <2>4. \A n \in DOMAIN feats : n >= i /\ ~(n < i)
      BY <1>1, <2>2
    <2>5. Upto' = i
      BY <2>1 DEF Upto
    <2>6. \A f : IsBaked(f) => IsBaked(f)'
      BY <2>1, SameCall
    <2>7. QED
      BY <1>3, <2>1, <2>2, <2>3, <2>4, <2>5, <2>6 DEF EntriesInv, Raw
  <1>8. ASSUME NEW f, KeepRound(f)
        PROVE  EntriesInv'
    <2>1. /\ i \in DOMAIN feats /\ f \in Feature /\ feats' = Extended(feats, i, f)
          /\ i' = i + 1 /\ pc = "loop" /\ pc' = "loop" /\ call' = call /\ lock' = lock
          /\ aliases' = aliases
          /\ IsBaked(f) \/ IsFetched(f)
      BY <1>8 DEF KeepRound, Resolves
    <2>2. /\ feats' \in Seq(Feature)
          /\ \A n \in DOMAIN feats : n \in DOMAIN feats' /\ feats'[n] = IF n = i THEN f ELSE feats[n]
          /\ \A n \in DOMAIN feats' \ DOMAIN feats :
               \E dep \in f.meta.dependsOn : feats'[n] = Requested(dep.key, dep.opts)
      <3>1. feats' \in Seq(Feature) /\ Extends(feats', feats, i, f)
        BY <1>1, <2>1, ExtendedList
      <3>2. QED
        BY <3>1 DEF Extends
    <2>3. \A n \in DOMAIN feats' \ DOMAIN feats : Raw(feats'[n]) /\ n >= i + 1
      <3>1. \A r, o : Raw(Requested(r, o))
        BY DEF Requested, Raw
      <3>2. \A n \in DOMAIN feats' : n \in 1 .. Len(feats')
        BY <2>2
      <3>3. \A n \in DOMAIN feats' \ DOMAIN feats : n >= i + 1
        BY <1>1, <2>1, <3>2
      <3>4. QED
        BY <2>2, <3>1, <3>3
    <2>4. Known(feats', i + 1)
      <3>1. ASSUME NEW n \in DOMAIN feats', n < i + 1
            PROVE  IsBaked(feats'[n]) \/ IsFetched(feats'[n])
        <4>1. n \in DOMAIN feats /\ i \in Nat /\ n \in Nat
          BY <1>1, <2>1, <2>2, <2>3, <3>1
        <4>2. CASE n = i
          BY <2>1, <2>2, <4>1, <4>2
        <4>3. CASE n # i
          <5>1. n < i /\ feats'[n] = feats[n]
            BY <2>2, <3>1, <4>1, <4>3
          <5>2. QED
            BY <1>2, <2>1, <4>1, <5>1 DEF Known
        <4>4. QED
          BY <4>2, <4>3
      <3>2. ASSUME NEW n \in DOMAIN feats', n >= i + 1
            PROVE  IsBaked(feats'[n]) \/ Raw(feats'[n])
        <4>1. CASE n \in DOMAIN feats
          <5>1. n >= i /\ n # i
            BY <1>1, <3>2, <4>1
          <5>2. QED
            BY <1>2, <2>1, <2>2, <4>1, <5>1 DEF Known
        <4>2. CASE n \notin DOMAIN feats
          BY <2>3, <4>2
        <4>3. QED
          BY <4>1, <4>2
      <3>3. QED
        BY <3>1, <3>2 DEF Known
    <2>5. \A g : (IsBaked(g) => IsBaked(g)') /\ (IsFetched(g) => IsFetched(g)')
      BY <2>1, SameCall
    <2>6. Upto' = i + 1
      BY <2>1 DEF Upto
    <2>7. QED
      BY <1>2, <2>1, <2>4, <2>5, <2>6 DEF EntriesInv, Known, Raw
  <1>9. ASSUME NEW f, DropRound(f)
        PROVE  EntriesInv'
    <2>1. /\ i \in DOMAIN feats /\ f \in Feature /\ feats' = Without(feats, i)
          /\ i' = i /\ pc = "loop" /\ pc' = "loop" /\ call' = call /\ lock' = lock
          /\ aliases' = Append(aliases, f) /\ IsFetched(f)
      BY <1>9 DEF DropRound, Resolves
    <2>2. /\ feats' \in Seq(Feature) /\ Len(feats') = Len(feats) - 1
          /\ \A n \in 1 .. Len(feats) - 1 : feats'[n] = feats[IF n < i THEN n ELSE n + 1]
      BY <1>1, <2>1, WithoutList
    <2>3. Known(feats', i)
      <3>1. DOMAIN feats' = 1 .. Len(feats) - 1
        BY <2>2
      <3>2. ASSUME NEW n \in 1 .. Len(feats) - 1
            PROVE  /\ n < i => feats'[n] = feats[n] /\ n \in DOMAIN feats
                   /\ n >= i => feats'[n] = feats[n + 1] /\ n + 1 \in DOMAIN feats /\ n + 1 >= i
        BY <1>1, <2>1, <2>2
      <3>3. \A n \in DOMAIN feats :
              /\ n < i => IsBaked(feats[n]) \/ IsFetched(feats[n])
              /\ n >= i => IsBaked(feats[n]) \/ Raw(feats[n])
        BY <1>2, <2>1 DEF Known
      <3>4. ASSUME NEW n \in DOMAIN feats'
            PROVE  /\ n < i => IsBaked(feats'[n]) \/ IsFetched(feats'[n])
                   /\ n >= i => IsBaked(feats'[n]) \/ Raw(feats'[n])
        <4>1. n \in 1 .. Len(feats) - 1
          BY <3>1
        <4>2. CASE n < i
          <5>1. feats'[n] = feats[n] /\ n \in DOMAIN feats /\ ~(n >= i)
            BY <1>1, <3>2, <4>1, <4>2
          <5>2. IsBaked(feats[n]) \/ IsFetched(feats[n])
            BY <3>3, <4>2, <5>1
          <5>3. QED
            BY <5>1, <5>2
        <4>3. CASE ~(n < i)
          <5>1. n >= i
            BY <1>1, <4>1, <4>3
          <5>2. feats'[n] = feats[n + 1] /\ n + 1 \in DOMAIN feats /\ n + 1 >= i
            BY <3>2, <4>1, <5>1
          <5>3. IsBaked(feats[n + 1]) \/ Raw(feats[n + 1])
            BY <3>3, <5>2
          <5>4. QED
            BY <4>3, <5>2, <5>3
        <4>4. QED
          BY <4>2, <4>3
      <3>5. QED
        BY <3>4 DEF Known
    <2>4. \A g : (IsBaked(g) => IsBaked(g)') /\ (IsFetched(g) => IsFetched(g)')
      BY <2>1, SameCall
    <2>5. Upto' = i
      BY <2>1 DEF Upto
    <2>6. Range(aliases') = Range(aliases) \cup {f}
      BY <1>1, <2>1, RangeAppend
    <2>7. \A g \in Range(aliases') : IsFetched(g)'
      BY <1>2, <2>1, <2>4, <2>6
    <2>8. QED
      BY <2>1, <2>3, <2>4, <2>5, <2>7 DEF EntriesInv, Known, Raw
  <1>10. CASE Arranged
    <2>1. PICK p : Arranges(p, feats) /\ feats' = Rearranged(feats, p)
      BY <1>10 DEF Arranged
    <2>2. /\ feats' \in Seq(Feature) /\ DOMAIN feats' = DOMAIN feats /\ Len(feats') = Len(feats)
          /\ \A n \in DOMAIN feats : p[n] \in DOMAIN feats /\ feats'[n] = feats[p[n]]
      BY <2>1, ArrangedFacts
    <2>3. /\ pc = "order" /\ pc' \in {"build", "tag"} /\ i' = i /\ call' = call /\ lock' = lock
          /\ aliases' = aliases
      BY <1>10 DEF Arranged
    <2>4. \A n \in DOMAIN feats' : IsBaked(feats'[n]) \/ IsFetched(feats'[n])
      BY <2>2, <2>3, AllKnown DEF Alive
    <2>5. Upto' = Len(feats) + 1
      BY <2>3 DEF Upto, PositionInv
    <2>6. \A n \in DOMAIN feats' : n < Upto' /\ ~(n >= Upto')
      BY <1>1, <2>2, <2>5
    <2>7. \A g : (IsBaked(g) => IsBaked(g)') /\ (IsFetched(g) => IsFetched(g)')
      BY <2>3, SameCall
    <2>8. QED
      BY <1>2, <2>3, <2>4, <2>6, <2>7 DEF EntriesInv
  <1>11. CASE Finish
    <2>1. /\ pc = "tag" /\ pc' = "idle" /\ feats' = feats /\ call' = call /\ lock' = NoLock
          /\ aliases' = <<>>
      BY <1>11 DEF Finish
    <2>2. \A n \in DOMAIN feats : IsBaked(feats[n]) \/ IsFetched(feats[n])
      BY <2>1, AllKnown DEF Alive
    <2>3. Upto' = Len(feats) + 1
      BY <2>1 DEF Upto
    <2>4. \A n \in DOMAIN feats' : n < Upto' /\ ~(n >= Upto')
      BY <1>1, <2>1, <2>3
    <2>5. \A g : (IsBaked(g) => IsBaked(g)') /\ (IsFetched(g) => IsFetched(g)')
      BY <2>1, SameCall
    <2>6. QED
      BY <1>3, <2>1, <2>2, <2>4, <2>5 DEF EntriesInv
  <1>12. CASE LoopEnds \/ Committed \/ WriteLockfile \/ BuildFeatures
    <2>1. /\ pc \notin {"idle", "load", "mark"} /\ pc' \notin {"idle", "load", "mark"}
          /\ i' = i /\ feats' = feats /\ call' = call /\ lock' = lock /\ aliases' = aliases
      BY <1>12 DEF LoopEnds, Move, Committed, WriteLockfile, BuildFeatures, AfterCommit, callVars
    <2>2. \A g : (IsBaked(g) => IsBaked(g)') /\ (IsFetched(g) => IsFetched(g)')
      BY <2>1, SameCall
    <2>3. Upto' = i
      BY <2>1 DEF Upto
    <2>4. QED
      BY <1>2, <2>1, <2>2, <2>3 DEF EntriesInv, Known, Raw
  <1>13. CASE UNCHANGED vars \/ \E r \in Ref : Republish(r)
    <2>1. /\ pc' = pc /\ last' = last /\ i' = i /\ feats' = feats /\ call' = call /\ lock' = lock
          /\ aliases' = aliases
      BY <1>13 DEF vars, callVars, Republish
    <2>2. \A g : (IsBaked(g) => IsBaked(g)') /\ (IsFetched(g) => IsFetched(g)')
      BY <2>1, SameCall
    <2>3. Upto' = Upto /\ Alive' = Alive
      BY <2>1 DEF Upto, Alive
    <2>4. QED
      BY <2>1, <2>2, <2>3 DEF EntriesInv, Raw
  <1>14. QED
    BY <1>4, <1>5, <1>6, <1>7, <1>8, <1>9, <1>10, <1>11, <1>12, <1>13, Steps

-----------------------------------------------------------------------------
(* What is wanted is there, once. *)

LEMMA WantedMembers ==
    ASSUME TypeOK, NEW m
    PROVE  /\ Wanted(m) \subseteq Dependency
           /\ \A w : w \in Wanted(m) <=>
                \/ w \in AskedFor
                \/ \E n \in DOMAIN feats : n < m /\ w \in feats[n].meta.dependsOn
  <1>1. AskedFor \subseteq Dependency
    <2>1. PICK asks : asks = call.config.asks
      OBVIOUS
    <2>2. call.config \in Configs
      BY DEF TypeOK
    <2>3. DOMAIN asks \subseteq Ref /\ asks \in [DOMAIN asks -> Option]
      BY <2>1, <2>2, FeaturesAssumption
    <2>4. \A r \in DOMAIN asks : [key |-> r, opts |-> asks[r]] \in Dependency
      BY <2>3 DEF Dependency
    <2>5. QED
      BY <2>1, <2>4 DEF AskedFor
  <1>2. \A n \in DOMAIN feats : feats[n].meta.dependsOn \subseteq Dependency
    <2>1. \A n \in DOMAIN feats : feats[n] \in Feature
      BY FeatsType
    <2>2. \A f \in Feature : f.meta.dependsOn \subseteq Dependency
      BY DEF Feature, Metadata, DependsOn
    <2>3. QED
      BY <2>1, <2>2
  <1>3. \A w : w \in Wanted(m) <=>
          \/ w \in AskedFor
          \/ \E n \in DOMAIN feats : n < m /\ w \in feats[n].meta.dependsOn
    BY DEF Wanted
  <1>4. QED
    BY <1>1, <1>2, <1>3

LEMMA WantedNext ==
    /\ \A w : w \in Wanted(Upto)' <=>
         \/ w \in AskedFor'
         \/ \E n \in DOMAIN feats' : n < Upto' /\ w \in feats'[n].meta.dependsOn
    /\ \A w : w \in Wanted(i)' <=>
         \/ w \in AskedFor'
         \/ \E n \in DOMAIN feats' : n < i' /\ w \in feats'[n].meta.dependsOn
    /\ call' = call => AskedFor' = AskedFor
  BY DEF Wanted, AskedFor

(* Positions once the loop is over.                                        *)
LEMMA AllWanted ==
    ASSUME TypeOK
    PROVE  \A w : w \in Wanted(Len(feats) + 1) <=>
                \/ w \in AskedFor
                \/ \E n \in DOMAIN feats : w \in feats[n].meta.dependsOn
  <1>1. \A n \in DOMAIN feats : n < Len(feats) + 1
    <2>1. feats \in Seq(Feature)
      BY DEF TypeOK
    <2>2. QED
      BY <2>1
  <1>2. QED
    BY <1>1, WantedMembers

(* One round of the loop.                                                  *)
LEMMA KeepFacts ==
    ASSUME TypeOK, NEW f, KeepRound(f)
    PROVE  /\ i \in DOMAIN feats /\ i' = i + 1 /\ f \in Feature /\ f.ref = feats[i].ref
           /\ feats' \in Seq(Feature)
           /\ \A n \in DOMAIN feats : n \in DOMAIN feats' /\ feats'[n] = IF n = i THEN f ELSE feats[n]
           /\ \A n \in DOMAIN feats' \ DOMAIN feats :
                \E dep \in f.meta.dependsOn : feats'[n] = Requested(dep.key, dep.opts)
           /\ \A dep \in f.meta.dependsOn : \E n \in DOMAIN feats' :
                feats'[n].ref = dep.key /\ SameOptions(feats'[n], dep.opts)
           /\ \A n \in DOMAIN feats' : n < i' => n = i \/ (n \in DOMAIN feats /\ n < i)
           /\ \A n \in DOMAIN feats' : n = i \/ (n \in DOMAIN feats /\ n # i)
                                      \/ n \in DOMAIN feats' \ DOMAIN feats
           /\ pc = "loop" /\ pc' = "loop" /\ aliases' = aliases /\ call' = call
  <1>1. /\ i \in DOMAIN feats /\ i' = i + 1 /\ f \in Feature /\ f.ref = feats[i].ref
        /\ feats' = Extended(feats, i, f)
        /\ pc = "loop" /\ pc' = "loop" /\ aliases' = aliases /\ call' = call
    BY DEF KeepRound, Resolves
  <1>2. feats' \in Seq(Feature) /\ Extends(feats', feats, i, f)
    BY <1>1, FeatsType, ExtendedList
  <1>3. \A n \in DOMAIN feats' : n < i' => n = i \/ (n \in DOMAIN feats /\ n < i)
    <2>1. DOMAIN feats' = 1 .. Len(feats') /\ Len(feats') \in Nat
      BY <1>2
    <2>2. DOMAIN feats = 1 .. Len(feats) /\ Len(feats) \in Nat
      BY FeatsType
    <2>3. QED
      <3>1. i \in Nat /\ \A n \in DOMAIN feats' : n \in Nat /\ 1 <= n
        BY <1>1, <2>1, <2>2
      <3>2. \A n \in DOMAIN feats' : n < i' => n <= i
        BY <1>1, <3>1
      <3>3. \A n \in DOMAIN feats' : n <= i => n \in DOMAIN feats
        BY <1>1, <2>2, <3>1
      <3>4. QED
        BY <3>1, <3>2, <3>3
  <1>4. QED
    BY <1>1, <1>2, <1>3 DEF Extends

LEMMA DropFacts ==
    ASSUME TypeOK, NEW f, DropRound(f)
    PROVE  /\ i \in DOMAIN feats /\ i' = i /\ f \in Feature /\ f.ref = feats[i].ref
           /\ feats' \in Seq(Feature)
           /\ \A n \in DOMAIN feats : n < i => n \in DOMAIN feats' /\ feats'[n] = feats[n]
           /\ \A n \in DOMAIN feats : n # i => \E k \in DOMAIN feats' : feats'[k] = feats[n]
           /\ \A n \in DOMAIN feats' : \E k \in DOMAIN feats : k # i /\ feats'[n] = feats[k]
           /\ \A n \in DOMAIN feats' : n < i => n \in DOMAIN feats
           /\ pc = "loop" /\ pc' = "loop" /\ aliases' = Append(aliases, f) /\ call' = call
  <1>1. /\ i \in DOMAIN feats /\ i' = i /\ f \in Feature /\ f.ref = feats[i].ref
        /\ feats' = Without(feats, i)
        /\ pc = "loop" /\ pc' = "loop" /\ aliases' = Append(aliases, f) /\ call' = call
    BY DEF DropRound, Resolves
  <1>2. PICK N : N = Len(feats)
    OBVIOUS
  <1>3. N \in Nat /\ DOMAIN feats = 1 .. N /\ i \in 1 .. N
    BY <1>1, <1>2, FeatsType
  <1>4. /\ feats' \in Seq(Feature) /\ Len(feats') = N - 1
        /\ \A n \in 1 .. N - 1 : feats'[n] = feats[IF n < i THEN n ELSE n + 1]
    BY <1>1, <1>2, FeatsType, WithoutList
  <1>5. DOMAIN feats' = 1 .. N - 1
    BY <1>4
  <1>6. \A n \in DOMAIN feats : n < i => n \in DOMAIN feats' /\ feats'[n] = feats[n]
    BY <1>3, <1>4, <1>5
  <1>7. ASSUME NEW n \in DOMAIN feats, n # i
        PROVE  \E k \in DOMAIN feats' : feats'[k] = feats[n]
    <2>1. CASE n < i
      BY <1>6, <2>1
    <2>2. CASE ~(n < i)
      <3>1. n - 1 \in 1 .. N - 1 /\ ~(n - 1 < i) /\ (n - 1) + 1 = n
        BY <1>3, <1>7, <2>2
      <3>2. feats'[n - 1] = feats[n]
        BY <1>4, <3>1
      <3>3. QED
        BY <1>5, <3>1, <3>2
    <2>3. QED
      BY <2>1, <2>2
  <1>8. ASSUME NEW n \in DOMAIN feats'
        PROVE  \E k \in DOMAIN feats : k # i /\ feats'[n] = feats[k]
    <2>1. n \in 1 .. N - 1
      BY <1>5
    <2>2. CASE n < i
      BY <1>3, <1>4, <2>1, <2>2
    <2>3. CASE ~(n < i)
      <3>1. n + 1 \in 1 .. N /\ n + 1 # i
        BY <1>3, <2>1, <2>3
      <3>2. QED
        BY <1>3, <1>4, <2>1, <2>3, <3>1
    <2>4. QED
      BY <2>2, <2>3
  <1>9. \A n \in DOMAIN feats' : n < i => n \in DOMAIN feats
    BY <1>3, <1>5
  <1>10. QED
    BY <1>1, <1>4, <1>6, <1>7, <1>8, <1>9

LEMMA WantedStep ==
    ASSUME TypeOK, WorldInv, PositionInv, EntriesInv, WantedInv, [Next]_vars
    PROVE  WantedInv'
  <1>1. CASE Abandon
    BY <1>1 DEF Abandon, WantedInv, Alive
  <1>2. CASE Begin
    <2>1. PICK config \in Configs, base \in Bases \cup built : Begins(config, base)
      BY <1>2, BeginCases
    <2>2. pc' = "load" /\ i' = 1 /\ call'.config = config /\ feats' = buildPartialFeatures(config)
      BY <2>1 DEF Begins, PositionInv
    <2>3. /\ feats' \in Seq(Feature)
          /\ Range(feats') = {Requested(r, config.asks[r]) : r \in DOMAIN config.asks}
      BY <2>2, PartialFeatures
    <2>4. \A n \in DOMAIN feats' : ~(n < Upto')
      BY <2>2, <2>3 DEF Upto
    <2>5. PICK asks : asks = config.asks
      OBVIOUS
    <2>6. AskedFor' = {[key |-> r, opts |-> asks[r]] : r \in DOMAIN asks}
      BY <2>2, <2>5 DEF AskedFor
    <2>7. ASSUME NEW r \in DOMAIN asks
          PROVE  \E n \in DOMAIN feats' : Provides(feats'[n], [key |-> r, opts |-> asks[r]])
      <3>1. r \in Ref /\ asks[r] \in Option
        BY <2>5, FeaturesAssumption
      <3>2. Requested(r, asks[r]) \in Range(feats')
        BY <2>3, <2>5
      <3>3. PICK n \in DOMAIN feats' : feats'[n] = Requested(r, asks[r])
        BY <3>2 DEF Range
      <3>4. feats'[n].ref = r /\ SameOptions(feats'[n], asks[r])
        BY <3>1, <3>3, RequestedType, RawProvides
      <3>5. QED
        BY <3>4 DEF Provides
    <2>8. \A w \in Wanted(Upto)' : \E n \in DOMAIN feats' : Provides(feats'[n], w)
      BY <2>4, <2>6, <2>7, WantedNext
    <2>9. QED
      BY <2>8 DEF WantedInv
  <1>3. CASE Mark
    <2>1. /\ pc = "mark" /\ pc' = "loop" /\ i' = i /\ call' = call /\ i = 1
      BY <1>3 DEF Mark, PositionInv
    <2>2. /\ feats' \in Seq(Feature) /\ DOMAIN feats' = DOMAIN feats
          /\ \A n \in DOMAIN feats : \A w \in Dependency :
               Provides(feats[n], w) => Provides(feats'[n], w)
      BY <1>3, MarkedList
    <2>3. \A n \in DOMAIN feats' : ~(n < Upto')
      BY <2>1, <2>2 DEF Upto
    <2>4. Alive /\ \A w \in AskedFor : w \in Wanted(Upto) /\ w \in Dependency
      BY <2>1, WantedMembers DEF Alive
    <2>5. \A w \in Wanted(Upto)' : w \in AskedFor
      BY <2>1, <2>3, WantedNext
    <2>6. QED
      BY <2>2, <2>4, <2>5 DEF WantedInv
  <1>4. ASSUME NEW f, KeepRound(f)
        PROVE  WantedInv'
    <2>1. Upto = i /\ Upto' = i' /\ Alive
      BY <1>4, KeepFacts DEF Upto, Alive
    <2>2. \A w \in Wanted(Upto)' : w \in Wanted(i) \/ w \in f.meta.dependsOn
      <3>1. \A n \in DOMAIN feats' : n < i' => n = i \/ (n \in DOMAIN feats /\ n < i /\ n # i)
        BY <1>4, KeepFacts, FeatsType
      <3>2. feats'[i] = f /\ \A n \in DOMAIN feats : n # i => feats'[n] = feats[n]
        BY <1>4, KeepFacts
      <3>3. AskedFor' = AskedFor
        BY <1>4, KeepFacts, WantedNext
      <3>4. QED
        BY <2>1, <3>1, <3>2, <3>3, WantedNext, WantedMembers
    <2>3. ASSUME NEW w \in Wanted(i)
          PROVE  \E n \in DOMAIN feats' : Provides(feats'[n], w)
      <3>1. PICK n \in DOMAIN feats : Provides(feats[n], w)
        BY <2>1, <2>3 DEF WantedInv
      <3>2. CASE n = i
        <4>1. w \in Dependency
          BY <2>3, WantedMembers
        <4>2. Provides(f, w)
          BY <1>4, <3>1, <3>2, <4>1 DEF KeepRound, Resolves
        <4>3. i \in DOMAIN feats' /\ feats'[i] = f
          BY <1>4, KeepFacts
        <4>4. QED
          BY <4>2, <4>3
      <3>3. CASE n # i
        BY <1>4, <3>1, <3>3, KeepFacts
      <3>4. QED
        BY <3>2, <3>3
    <2>4. ASSUME NEW w \in f.meta.dependsOn
          PROVE  \E n \in DOMAIN feats' : Provides(feats'[n], w)
      <3>1. PICK n \in DOMAIN feats' : feats'[n].ref = w.key /\ SameOptions(feats'[n], w.opts)
        BY <1>4, KeepFacts
      <3>2. QED
        BY <3>1 DEF Provides
    <2>5. QED
      BY <2>2, <2>3, <2>4 DEF WantedInv
  <1>5. ASSUME NEW f, DropRound(f)
        PROVE  WantedInv'
    <2>1. Upto = i /\ Upto' = i /\ Alive
      BY <1>5, DropFacts DEF Upto, Alive
    <2>2. \A w \in Wanted(Upto)' : w \in Wanted(i)
      <3>1. \A n \in DOMAIN feats' : n < i => n \in DOMAIN feats /\ feats'[n] = feats[n]
        BY <1>5, DropFacts
      <3>2. AskedFor' = AskedFor
        BY <1>5, DropFacts, WantedNext
      <3>3. QED
        BY <2>1, <3>1, <3>2, WantedNext, WantedMembers
    <2>3. ASSUME NEW w \in Wanted(i)
          PROVE  \E n \in DOMAIN feats' : Provides(feats'[n], w)
      <3>1. PICK n \in DOMAIN feats : Provides(feats[n], w)
        BY <2>1, <2>3 DEF WantedInv
      <3>2. CASE n = i
        <4>1. w \in Dependency
          BY <2>3, WantedMembers
        <4>2. PICK k \in 1 .. i - 1 : Alike(feats[k], f)
          BY <1>5 DEF DropRound
        <4>3. k \in DOMAIN feats /\ k < i
          BY <1>5, <4>2, DropFacts, FeatsType
        <4>4. Provides(feats[k], w)
          BY <1>5, <3>1, <3>2, <4>1, <4>2, <4>3, FeatsType DEF DropRound
        <4>5. QED
          BY <1>5, <4>3, <4>4, DropFacts
      <3>3. CASE n # i
        BY <1>5, <3>1, <3>3, DropFacts
      <3>4. QED
        BY <3>2, <3>3
    <2>4. QED
      BY <2>2, <2>3 DEF WantedInv
  <1>6. CASE Arranged
    <2>1. PICK p : Arranges(p, feats) /\ feats' = Rearranged(feats, p)
      BY <1>6 DEF Arranged
    <2>2. /\ DOMAIN feats' = DOMAIN feats /\ Len(feats') = Len(feats)
          /\ \A n \in DOMAIN feats : p[n] \in DOMAIN feats /\ feats'[n] = feats[p[n]]
          /\ \A k \in DOMAIN feats : \E n \in DOMAIN feats : feats'[n] = feats[k]
      BY <2>1, ArrangedFacts
    <2>3. pc = "order" /\ call' = call
      BY <1>6 DEF Arranged
    <2>4. Upto = Len(feats) + 1 /\ Alive
      BY <2>3 DEF Upto, Alive, PositionInv
    <2>5. ASSUME NEW w \in Wanted(Upto)'
          PROVE  w \in Wanted(Upto)
      <3>1. \/ w \in AskedFor
            \/ \E n \in DOMAIN feats' : w \in feats'[n].meta.dependsOn
        BY <2>3, WantedNext
      <3>2. \/ w \in AskedFor
            \/ \E n \in DOMAIN feats : w \in feats[n].meta.dependsOn
        BY <2>2, <3>1
      <3>3. QED
        BY <2>4, <3>2, AllWanted
    <2>6. QED
      BY <2>2, <2>4, <2>5 DEF WantedInv
  <1>7. CASE Finish
    <2>1. /\ pc = "tag" /\ pc' = "idle" /\ feats' = feats /\ call' = call
      BY <1>7 DEF Finish
    <2>2. Upto = Len(feats) + 1 /\ Upto' = Len(feats) + 1 /\ Alive
      BY <2>1 DEF Upto, Alive, PositionInv
    <2>3. \A w \in Wanted(Upto)' : w \in Wanted(Upto)
      BY <2>1, <2>2, WantedNext, WantedMembers
    <2>4. QED
      BY <2>1, <2>2, <2>3 DEF WantedInv
  <1>8. CASE \/ UNCHANGED vars \/ Loaded \/ LoopEnds \/ Committed \/ WriteLockfile
             \/ BuildFeatures \/ \E r \in Ref : Republish(r)
    <2>1. call' = call /\ feats' = feats /\ Upto' = Upto /\ Alive' = Alive
      BY <1>8 DEF vars, callVars, Loaded, LoopEnds, Move, Committed, WriteLockfile, AfterCommit,
                  BuildFeatures, Republish, Upto, Alive
    <2>2. \A w \in Wanted(Upto)' : w \in Wanted(Upto)
      BY <2>1, WantedNext, WantedMembers
    <2>3. QED
      BY <2>1, <2>2 DEF WantedInv
  <1>9. QED
    BY <1>1, <1>2, <1>3, <1>4, <1>5, <1>6, <1>7, <1>8, Steps

LEMMA RefsStep ==
    ASSUME TypeOK, WorldInv, PositionInv, EntriesInv, RefsInv, [Next]_vars
    PROVE  RefsInv'
  <1>1. CASE Abandon \/ Finish
    BY <1>1 DEF Abandon, Finish, RefsInv
  <1>2. CASE Begin
    <2>1. PICK config \in Configs, base \in Bases \cup built : Begins(config, base)
      BY <1>2, BeginCases
    <2>2. /\ pc' = "load" /\ i' = 1 /\ aliases' = <<>> /\ call'.config = config
          /\ feats' = buildPartialFeatures(config)
      BY <2>1 DEF Begins, PositionInv
    <2>3. /\ feats' \in Seq(Feature)
          /\ Range(feats') = {Requested(r, config.asks[r]) : r \in DOMAIN config.asks}
      BY <2>2, PartialFeatures
    <2>4. \A n \in DOMAIN feats' : ~(n < i')
      BY <2>2, <2>3
    <2>5. PICK asks : asks = config.asks
      OBVIOUS
    <2>6. AskedFor' = {[key |-> r, opts |-> asks[r]] : r \in DOMAIN asks}
      BY <2>2, <2>5 DEF AskedFor
    <2>7. \A r : (\E w \in Wanted(i)' : w.key = r) <=> r \in DOMAIN asks
      <3>1. \A w : w \in Wanted(i)' <=> w \in AskedFor'
        BY <2>4, WantedNext
      <3>2. \A r \in DOMAIN asks : [key |-> r, opts |-> asks[r]].key = r
        OBVIOUS
      <3>3. \A r : (\E w \in AskedFor' : w.key = r) <=> r \in DOMAIN asks
        BY <2>6, <3>2
      <3>4. QED
        BY <3>1, <3>3, Zenon
    <2>8. \A r : (\E n \in DOMAIN feats' : feats'[n].ref = r) <=> r \in DOMAIN asks
      <3>1. \A r \in DOMAIN asks : Requested(r, asks[r]).ref = r
        BY DEF Requested
      <3>2. Range(feats') = {feats'[n] : n \in DOMAIN feats'}
        BY DEF Range
      <3>3. \A n \in DOMAIN feats' : \E r \in DOMAIN asks : feats'[n] = Requested(r, asks[r])
        BY <2>3, <2>5, <3>2
      <3>4. \A r \in DOMAIN asks : \E n \in DOMAIN feats' : feats'[n] = Requested(r, asks[r])
        BY <2>3, <2>5, <3>2
      <3>5. QED
        BY <3>1, <3>3, <3>4
    <2>9. Range(aliases') = {}
      BY <2>2 DEF Range
    <2>10. QED
      BY <2>7, <2>8, <2>9 DEF RefsInv, Mentioned
  <1>3. CASE Mark
    <2>1. /\ pc = "mark" /\ pc' = "loop" /\ i' = i /\ call' = call /\ i = 1 /\ aliases' = aliases
      BY <1>3 DEF Mark, PositionInv
    <2>2. /\ DOMAIN feats' = DOMAIN feats
          /\ \A n \in DOMAIN feats : feats'[n].ref = feats[n].ref
      BY <1>3, MarkedList
    <2>3. \A n \in DOMAIN feats : ~(n < i)
      BY <2>1, FeatsType
    <2>4. \A w : w \in Wanted(i)' <=> w \in AskedFor
      BY <2>1, <2>2, <2>3, WantedNext
    <2>5. \A w : w \in Wanted(i) <=> w \in AskedFor
      BY <2>3, WantedMembers
    <2>6. \A r : Mentioned(r)' <=> Mentioned(r)
      BY <2>1, <2>2 DEF Mentioned
    <2>7. QED
      BY <2>1, <2>4, <2>5, <2>6 DEF RefsInv
  <1>4. ASSUME NEW f, KeepRound(f)
        PROVE  RefsInv'
    <2>1. /\ i \in DOMAIN feats /\ i' = i + 1 /\ f.ref = feats[i].ref /\ pc = "loop"
          /\ aliases' = aliases /\ AskedFor' = AskedFor
      BY <1>4, KeepFacts, WantedNext
    <2>2. /\ i \in DOMAIN feats' /\ feats'[i] = f
          /\ \A n \in DOMAIN feats : n # i => n \in DOMAIN feats' /\ feats'[n] = feats[n]
          /\ \A n \in DOMAIN feats' : \/ n = i
                                      \/ n \in DOMAIN feats /\ n # i
                                      \/ n \in DOMAIN feats' \ DOMAIN feats
      BY <1>4, KeepFacts
    <2>3. \A n \in DOMAIN feats' \ DOMAIN feats : \E dep \in f.meta.dependsOn : feats'[n].ref = dep.key
      <3>1. \A r, o : Requested(r, o).ref = r
        BY DEF Requested
      <3>2. QED
        BY <1>4, <3>1, KeepFacts
    <2>4. \A dep \in f.meta.dependsOn : \E n \in DOMAIN feats' : feats'[n].ref = dep.key
      BY <1>4, KeepFacts
    <2>5. \A r : (\E n \in DOMAIN feats' : feats'[n].ref = r) <=>
                   \/ \E n \in DOMAIN feats : feats[n].ref = r
                   \/ \E dep \in f.meta.dependsOn : dep.key = r
      BY <2>1, <2>2, <2>3, <2>4
    <2>6. \A w : w \in Wanted(i)' <=> w \in Wanted(i) \/ w \in f.meta.dependsOn
      <3>1. \A n \in DOMAIN feats' : n < i' => n = i \/ (n \in DOMAIN feats /\ n < i /\ n # i)
        BY <1>4, KeepFacts, FeatsType
      <3>2. i < i' /\ \A n \in DOMAIN feats : n < i => n < i' /\ n # i
        BY <2>1, FeatsType
      <3>3. QED
        BY <2>1, <2>2, <3>1, <3>2, WantedNext, WantedMembers
    <2>7. \A r \in Ref : Mentioned(r) <=> \E w \in Wanted(i) : w.key = r
      BY <2>1 DEF RefsInv
    <2>8. \A r : Mentioned(r)' <=> Mentioned(r) \/ \E dep \in f.meta.dependsOn : dep.key = r
      BY <2>1, <2>5 DEF Mentioned
    <2>9. QED
      BY <2>6, <2>7, <2>8 DEF RefsInv
  <1>5. ASSUME NEW f, DropRound(f)
        PROVE  RefsInv'
    <2>1. /\ i \in DOMAIN feats /\ i' = i /\ f.ref = feats[i].ref /\ pc = "loop" /\ f \in Feature
          /\ aliases' = Append(aliases, f) /\ AskedFor' = AskedFor
      BY <1>5, DropFacts, WantedNext
    <2>2. Range(aliases') = Range(aliases) \cup {f}
      BY <2>1, FeatsType, RangeAppend
    <2>3. /\ \A n \in DOMAIN feats : n # i => \E k \in DOMAIN feats' : feats'[k] = feats[n]
          /\ \A n \in DOMAIN feats' : \E k \in DOMAIN feats : feats'[n] = feats[k]
      BY <1>5, DropFacts
    <2>4. \A r : Mentioned(r)' <=> Mentioned(r)
      BY <2>1, <2>2, <2>3 DEF Mentioned
    <2>5. \A w : w \in Wanted(i)' <=> w \in Wanted(i)
      <3>1. /\ \A n \in DOMAIN feats' : n < i => n \in DOMAIN feats
            /\ \A n \in DOMAIN feats : n < i => n \in DOMAIN feats' /\ feats'[n] = feats[n]
        BY <1>5, DropFacts
      <3>2. QED
        BY <2>1, <3>1, WantedNext, WantedMembers
    <2>6. QED
      BY <2>1, <2>4, <2>5 DEF RefsInv
  <1>6. CASE Arranged
    <2>1. PICK p : Arranges(p, feats) /\ feats' = Rearranged(feats, p)
      BY <1>6 DEF Arranged
    <2>2. /\ DOMAIN feats' = DOMAIN feats /\ Len(feats') = Len(feats)
          /\ \A n \in DOMAIN feats : p[n] \in DOMAIN feats /\ feats'[n] = feats[p[n]]
          /\ \A k \in DOMAIN feats : \E n \in DOMAIN feats : feats'[n] = feats[k]
      BY <2>1, ArrangedFacts
    <2>3. pc = "order" /\ call' = call /\ aliases' = aliases /\ i' = i /\ i = Len(feats) + 1
      BY <1>6 DEF Arranged, PositionInv
    <2>4. \A n \in DOMAIN feats : n < i
      BY <2>3, FeatsType
    <2>5. \A w : w \in Wanted(i)' <=> w \in Wanted(i)
      <3>1. \A w : w \in Wanted(i)' <=>
              \/ w \in AskedFor
              \/ \E n \in DOMAIN feats' : w \in feats'[n].meta.dependsOn
        BY <2>2, <2>3, <2>4, WantedNext
      <3>2. \A w : w \in Wanted(i) <=>
              \/ w \in AskedFor
              \/ \E n \in DOMAIN feats : w \in feats[n].meta.dependsOn
        BY <2>4, WantedMembers
      <3>3. \A w : (\E n \in DOMAIN feats' : w \in feats'[n].meta.dependsOn) <=>
                   \E n \in DOMAIN feats : w \in feats[n].meta.dependsOn
        BY <2>2
      <3>4. QED
        BY <3>1, <3>2, <3>3
    <2>6. \A r : Mentioned(r)' <=> Mentioned(r)
      <3>1. \A n \in DOMAIN feats' : \E k \in DOMAIN feats : feats'[n] = feats[k]
        BY <2>2
      <3>2. \A k \in DOMAIN feats : \E n \in DOMAIN feats' : feats'[n] = feats[k]
        BY <2>2
      <3>3. QED
        BY <2>3, <3>1, <3>2 DEF Mentioned
    <2>7. QED
      BY <2>3, <2>5, <2>6 DEF RefsInv
  <1>7. CASE \/ UNCHANGED vars \/ Loaded \/ LoopEnds \/ Committed \/ WriteLockfile
             \/ BuildFeatures \/ \E r \in Ref : Republish(r)
    <2>1. /\ call' = call /\ feats' = feats /\ i' = i /\ aliases' = aliases
          /\ pc' # "idle" => pc # "idle"
      BY <1>7 DEF vars, callVars, Loaded, LoopEnds, Move, Committed, WriteLockfile, AfterCommit,
                  BuildFeatures, Republish
    <2>2. \A w : w \in Wanted(i)' <=> w \in Wanted(i)
      BY <2>1, WantedNext, WantedMembers
    <2>3. \A r : Mentioned(r)' <=> Mentioned(r)
      BY <2>1 DEF Mentioned
    <2>4. QED
      BY <2>1, <2>2, <2>3 DEF RefsInv
  <1>8. QED
    BY <1>1, <1>2, <1>3, <1>4, <1>5, <1>6, <1>7, Steps

(* What has been fetched is not fetched again.                             *)
LEMMA FetchedResolved ==
    ASSUME NEW f \in Feature, IsFetched(f)
    PROVE  f.resolved # NoResolvedRef
  <1>1. PICK d \in Contents(f.ref) : f.resolved = ResolvedRef(f.ref, d)
    BY DEF IsFetched
  <1>2. f.ref \in Ref
    BY DEF Feature
  <1>3. QED
    BY <1>1, <1>2, ContentsResolve

LEMMA DistinctStep ==
    ASSUME TypeOK, WorldInv, PositionInv, EntriesInv, DistinctInv, [Next]_vars
    PROVE  DistinctInv'
  <1>1. CASE Abandon
    BY <1>1 DEF Abandon, DistinctInv, Alive
  <1>2. CASE Begin \/ Mark
    <2>1. pc' \in {"load", "loop"} /\ i' = 1 /\ feats' \in Seq(Feature)
      <3>1. CASE Begin
        <4>1. PICK config \in Configs, base \in Bases \cup built : Begins(config, base)
          BY <3>1, BeginCases
        <4>2. feats' \in Seq(Feature)
          BY <4>1, PartialFeatures DEF Begins
        <4>3. QED
          BY <4>1, <4>2 DEF Begins, PositionInv
      <3>2. CASE Mark
        BY <3>2, MarkedList DEF Mark, PositionInv
      <3>3. QED
        BY <1>2, <3>1, <3>2
    <2>2. \A n \in DOMAIN feats' : ~(n < Upto')
      BY <2>1 DEF Upto
    <2>3. QED
      BY <2>2 DEF DistinctInv
  <1>3. ASSUME NEW f, KeepRound(f)
        PROVE  DistinctInv'
    <2>1. Upto = i /\ Upto' = i' /\ Alive
      BY <1>3, KeepFacts DEF Upto, Alive
    <2>2. \A n \in DOMAIN feats' : n < i' => n = i \/ (n \in DOMAIN feats /\ n < i /\ n # i)
      BY <1>3, KeepFacts, FeatsType
    <2>3. feats'[i] = f /\ \A n \in DOMAIN feats : n # i => feats'[n] = feats[n]
      BY <1>3, KeepFacts
    <2>4. f.baked \/ \A k \in DOMAIN feats : k < i => ~Alike(feats[k], f)
      <3>1. \A k \in DOMAIN feats : k < i => k \in 1 .. i - 1
        BY FeatsType
      <3>2. QED
        BY <1>3, <3>1 DEF KeepRound
    <2>5. QED
      BY <2>1, <2>2, <2>3, <2>4 DEF DistinctInv, Alike
  <1>4. ASSUME NEW f, DropRound(f)
        PROVE  DistinctInv'
    <2>1. Upto = i /\ Upto' = i /\ Alive
      BY <1>4, DropFacts DEF Upto, Alive
    <2>2. \A n \in DOMAIN feats' : n < i => n \in DOMAIN feats /\ feats'[n] = feats[n]
      BY <1>4, DropFacts
    <2>3. QED
      BY <2>1, <2>2 DEF DistinctInv
  <1>5. CASE Arranged
    <2>1. PICK p : Arranges(p, feats) /\ feats' = Rearranged(feats, p)
      BY <1>5 DEF Arranged
    <2>2. /\ DOMAIN feats' = DOMAIN feats
          /\ \A n \in DOMAIN feats : p[n] \in DOMAIN feats /\ feats'[n] = feats[p[n]]
      BY <2>1, ArrangedFacts
    <2>3. \A n, k \in DOMAIN feats : p[n] = p[k] => n = k
      BY <2>1 DEF Arranges
    <2>4. pc = "order" /\ i = Len(feats) + 1
      BY <1>5 DEF Arranged, PositionInv
    <2>5. Alive /\ \A n \in DOMAIN feats : n < Upto
      BY <2>4, FeatsType DEF Alive, Upto
    <2>6. QED
      BY <2>2, <2>3, <2>5 DEF DistinctInv
  <1>6. CASE Finish
    <2>1. /\ pc = "tag" /\ pc' = "idle" /\ feats' = feats /\ Alive
      BY <1>6 DEF Finish, Alive
    <2>2. Upto = Len(feats) + 1 /\ Upto' = Len(feats) + 1
      BY <2>1 DEF Upto, PositionInv
    <2>3. QED
      BY <2>1, <2>2 DEF DistinctInv
  <1>7. CASE \/ UNCHANGED vars \/ Loaded \/ LoopEnds \/ Committed \/ WriteLockfile
             \/ BuildFeatures \/ \E r \in Ref : Republish(r)
    <2>1. feats' = feats /\ Upto' = Upto /\ Alive' = Alive
      BY <1>7 DEF vars, callVars, Loaded, LoopEnds, Move, Committed, WriteLockfile, AfterCommit,
                  BuildFeatures, Republish, Upto, Alive
    <2>2. QED
      BY <2>1 DEF DistinctInv
  <1>8. QED
    BY <1>1, <1>2, <1>3, <1>4, <1>5, <1>6, <1>7, Steps

-----------------------------------------------------------------------------
(* The lockfile. *)

LEMMA RemoteMembers ==
    ASSUME NEW F \in Seq(Feature), NEW A \in Seq(Feature)
    PROVE  \A f : f \in Remote(F \o A) <=>
             (f \in Range(F) \/ f \in Range(A)) /\ Kind[f.ref] # "local"
  <1>1. Range(F \o A) = Range(F) \cup Range(A)
    BY RangeConcat
  <1>2. QED
    BY <1>1 DEF Remote

(* The entries that a lockfile should have.                                *)
IsExact(entries) ==
    /\ DOMAIN entries = {r \in DOMAIN call.config.asks \cup Needed(feats) : Kind[r] # "local"}
    /\ \A r \in DOMAIN entries : \E f \in Remote(feats \o aliases) :
         f.ref = r /\ f.resolved.digest = entries[r].integrity

LEMMA NextLockIsExact ==
    ASSUME TypeOK, PositionInv, EntriesInv, RefsInv, pc \in {"commit", "write"},
           call.mode # "disabled"
    PROVE  IsExact(NextLock)
  <1>1. /\ DOMAIN NextLock = {f.ref : f \in Remote(feats \o aliases)}
        /\ \A r \in DOMAIN NextLock : \E f \in Remote(feats \o aliases) :
             f.ref = r /\ NextLock[r] = Entry(f)
    BY NextLockType
  <1>2. \A f : f \in Remote(feats \o aliases) <=>
          (f \in Range(feats) \/ f \in Range(aliases)) /\ Kind[f.ref] # "local"
    BY FeatsType, RemoteMembers
  <1>3. \A f \in Range(feats) : f \in Feature /\ AsPinned(f)
    <2>1. \A n \in DOMAIN feats : feats[n] \in Feature /\ AsPinned(feats[n])
      BY FeatsType, AllKnown DEF Alive, IsBaked, IsFetched
    <2>2. QED
      BY <2>1 DEF Range
  <1>4. \A f \in Range(aliases) : f \in Feature /\ AsPinned(f)
    BY FeatsType DEF EntriesInv, IsFetched
  <1>5. \A r \in DOMAIN NextLock : \E f \in Remote(feats \o aliases) :
          f.ref = r /\ f.resolved.digest = NextLock[r].integrity
    BY <1>1, <1>2, <1>3, <1>4, EntryType
  <1>6. \A r : r \in DOMAIN NextLock <=> Mentioned(r) /\ Kind[r] # "local"
    <2>1. \A r : Mentioned(r) <=> \E f : (f \in Range(feats) \/ f \in Range(aliases)) /\ f.ref = r
      BY DEF Mentioned, Range
    <2>2. QED
      BY <1>1, <1>2, <2>1
  <1>7. \A r : Mentioned(r) => r \in Ref
    BY FeatsType DEF Mentioned, Feature
  <1>8. \A r \in Ref : Mentioned(r) <=> \E w \in Wanted(i) : w.key = r
    BY DEF RefsInv
  <1>9. \A w : w \in Wanted(i) <=>
          \/ w \in AskedFor
          \/ \E n \in DOMAIN feats : w \in feats[n].meta.dependsOn
    BY AllWanted DEF PositionInv
  <1>10. \A r : (\E w \in AskedFor : w.key = r) <=> r \in DOMAIN call.config.asks
    <2>1. PICK asks : asks = call.config.asks
      OBVIOUS
    <2>2. AskedFor = {[key |-> r, opts |-> asks[r]] : r \in DOMAIN asks}
      BY <2>1 DEF AskedFor
    <2>3. \A r \in DOMAIN asks : [key |-> r, opts |-> asks[r]].key = r
      OBVIOUS
    <2>4. QED
      BY <2>1, <2>2, <2>3
  <1>11. \A r : r \in Needed(feats) <=>
           \E n \in DOMAIN feats : \E w \in feats[n].meta.dependsOn : w.key = r
    BY DEF Needed, Range
  <1>12. \A r : (\E w \in Wanted(i) : w.key = r) <=>
           r \in DOMAIN call.config.asks \cup Needed(feats)
    BY <1>9, <1>10, <1>11
  <1>13. \A w \in Wanted(i) : w.key \in Ref
    BY WantedMembers DEF Dependency
  <1>14. \A r : r \in DOMAIN NextLock <=>
           r \in DOMAIN call.config.asks \cup Needed(feats) /\ Kind[r] # "local"
    BY <1>6, <1>7, <1>8, <1>12, <1>13
  <1>15. DOMAIN NextLock = {r \in DOMAIN call.config.asks \cup Needed(feats) : Kind[r] # "local"}
    BY <1>14
  <1>16. QED
    BY <1>5, <1>15, Zenon DEF IsExact

(* The lockfile is left alone only where it is what would be written.      *)
LEMMA CommitFacts ==
    ASSUME TypeOK, LockInv, pc = "commit", Lockfile(NextLock) = lock
    PROVE  lockfile.state = "whole" /\ lock = lockfile /\ lockfile.entries = NextLock
  <1>1. lock.state = "whole" /\ lock.entries = NextLock
    BY DEF Lockfile
  <1>2. lock = ReadLockfile
    BY DEF LockInv
  <1>3. NoLock.state # "whole"
    BY NoLockType
  <1>4. QED
    BY <1>1, <1>2, <1>3 DEF ReadLockfile

LEMMA LockStep ==
    ASSUME TypeOK, WorldInv, PositionInv, EntriesInv, RefsInv, LockInv, [Next]_vars
    PROVE  LockInv'
  <1>1. CASE Abandon
    BY <1>1 DEF Abandon, LockInv, LockIsExact, Succeeded
  <1>2. CASE Begin
    <2>1. pc' = "load"
      BY <1>2, BeginCases DEF Begins
    <2>2. QED
      BY <2>1 DEF LockInv, LockIsExact, Succeeded
  <1>3. CASE Loaded
    <2>1. CASE pc' = "tag"
      <3>1. feats' = <<>>
        BY <1>3, <2>1 DEF Loaded
      <3>2. QED
        BY <2>1, <3>1 DEF LockInv, LockIsExact, Succeeded, FrozenIsLocked
    <2>2. CASE pc' # "tag"
      <3>1. /\ lock' = IF call.mode = "disabled" THEN NoLock ELSE ReadLockfile
            /\ call.mode = "frozen" => ReadLockfile # NoLock
            /\ pc' \in {"commit", "mark"}
            /\ pc' = "commit" => call.mode # "disabled"
            /\ call' = call /\ lockfile' = lockfile
        BY <1>3, <2>2 DEF Loaded
      <3>2. call.mode = "frozen" => lock'.state = "whole"
        BY <3>1 DEF ReadLockfile
      <3>3. ReadLockfile' = ReadLockfile
        BY <3>1 DEF ReadLockfile
      <3>4. QED
        BY <3>1, <3>2, <3>3 DEF LockInv, LockIsExact, Succeeded
    <2>3. QED
      BY <2>1, <2>2
  <1>4. CASE Mark \/ (\E f : KeepRound(f)) \/ (\E f : DropRound(f))
    <2>1. /\ pc \in {"mark", "loop"} /\ pc' = "loop" /\ call' = call /\ lockfile' = lockfile
          /\ lock' = lock
      BY <1>4 DEF Mark, KeepRound, DropRound, Resolves
    <2>2. ReadLockfile' = ReadLockfile
      BY <2>1 DEF ReadLockfile
    <2>3. QED
      BY <2>1, <2>2 DEF LockInv, LockIsExact, Succeeded
  <1>5. CASE LoopEnds
    <2>1. /\ pc = "loop" /\ call' = call /\ lockfile' = lockfile /\ lock' = lock
          /\ pc' = IF call.mode = "disabled" THEN "order" ELSE "commit"
      BY <1>5 DEF LoopEnds, Move, callVars
    <2>2. ReadLockfile' = ReadLockfile
      BY <2>1 DEF ReadLockfile
    <2>3. QED
      BY <2>1, <2>2 DEF LockInv, LockIsExact, Succeeded, FrozenIsLocked
  <1>6. CASE Committed
    <2>1. /\ pc = "commit" /\ call' = call /\ feats' = feats /\ aliases' = aliases
          /\ call.mode # "disabled" /\ (call.mode = "frozen" => lock.state = "whole")
      BY <1>6 DEF Committed, LockInv
    <2>2. CASE Lockfile(NextLock) = lock /\ pc' = AfterCommit /\ lockfile' = lockfile
      <3>1. lockfile'.state = "whole" /\ lockfile'.entries = NextLock /\ lock.entries = NextLock
        BY <2>1, <2>2, CommitFacts
      <3>2. IsExact(lockfile'.entries)
        BY <2>1, <3>1, NextLockIsExact
      <3>3. LockIsExact'
        BY <2>1, <3>1, <3>2 DEF LockIsExact, IsExact
      <3>4. ASSUME call.mode = "frozen", NEW f \in Remote(feats)
            PROVE  f.ref \in DOMAIN NextLock /\ f.resolved.digest = NextLock[f.ref].integrity
        <4>1. PICK n \in DOMAIN feats : f = feats[n]
          BY DEF Remote, Range
        <4>2. f \in Feature /\ AsPinned(f)
          BY <2>1, <4>1, FeatsType, AllKnown DEF Alive, IsBaked, IsFetched
        <4>3. f \in Remote(feats \o aliases)
          BY FeatsType, RemoteMembers DEF Remote
        <4>4. f.ref \in DOMAIN lock.entries /\ lock.entries = NextLock
          BY <3>1, <4>3, NextLockType
        <4>5. lock.entries[f.ref] \in pin(f)
          BY <3>4, <4>4 DEF pin, Remote
        <4>6. QED
          BY <4>2, <4>4, <4>5 DEF AsPinned, CheckIntegrity
      <3>5. FrozenIsLocked'
        BY <2>1, <3>1, <3>4 DEF FrozenIsLocked
      <3>6. pc' \in {"tag", "order"}
        BY <2>2 DEF AfterCommit
      <3>7. QED
        BY <3>3, <3>5, <3>6 DEF LockInv
    <2>3. CASE call.mode # "frozen" /\ pc' = "write" /\ lockfile' = BlankLock
      BY <2>1, <2>3 DEF LockInv, LockIsExact, Succeeded
    <2>4. QED
      BY <1>6, <2>2, <2>3 DEF Committed
  <1>7. CASE WriteLockfile
    <2>1. /\ pc = "write" /\ pc' \in {"tag", "order"} /\ lockfile' = Lockfile(NextLock)
          /\ call' = call /\ feats' = feats /\ aliases' = aliases
          /\ call.mode \notin {"disabled", "frozen"}
      BY <1>7 DEF WriteLockfile, AfterCommit, callVars, LockInv
    <2>2. lockfile'.state = "whole" /\ lockfile'.entries = NextLock
      BY <2>1 DEF Lockfile
    <2>3. IsExact(NextLock)
      BY <2>1, NextLockIsExact
    <2>4. LockIsExact'
      BY <2>1, <2>2, <2>3 DEF LockIsExact, IsExact
    <2>5. FrozenIsLocked'
      BY <2>1 DEF FrozenIsLocked
    <2>6. QED
      BY <2>1, <2>4, <2>5 DEF LockInv
  <1>8. CASE Arranged
    <2>1. PICK p : Arranges(p, feats) /\ feats' = Rearranged(feats, p)
      BY <1>8 DEF Arranged
    <2>2. feats' \in Seq(Feature) /\ Range(feats') = Range(feats) /\ Len(feats') = Len(feats)
      BY <2>1, ArrangedFacts
    <2>3. /\ pc = "order" /\ pc' \in {"build", "tag"} /\ call' = call /\ aliases' = aliases
          /\ lockfile' = lockfile
      BY <1>8 DEF Arranged
    <2>4. feats' # <<>> => feats # <<>>
      BY <2>2, FeatsType
    <2>5. Needed(feats') = Needed(feats) /\ Remote(feats') = Remote(feats)
      BY <2>2 DEF Needed, Remote
    <2>6. \A f : f \in Remote(feats' \o aliases') <=> f \in Remote(feats \o aliases)
      BY <2>2, <2>3, FeatsType, RemoteMembers
    <2>7. LockIsExact'
      BY <2>3, <2>4, <2>5, <2>6 DEF LockInv, LockIsExact
    <2>8. FrozenIsLocked'
      BY <2>3, <2>4, <2>5 DEF LockInv, FrozenIsLocked
    <2>9. QED
      BY <2>3, <2>7, <2>8 DEF LockInv
  <1>9. CASE BuildFeatures \/ Finish
    <2>1. /\ pc \in {"build", "tag"} /\ pc' \in {"tag", "idle"} /\ call' = call /\ feats' = feats
          /\ lockfile' = lockfile
          /\ pc' = "tag" => aliases' = aliases
      BY <1>9 DEF BuildFeatures, Finish
    <2>2. FrozenIsLocked'
      BY <2>1 DEF LockInv, FrozenIsLocked
    <2>3. LockIsExact'
      BY <2>1 DEF LockInv, LockIsExact
    <2>4. QED
      BY <2>1, <2>2, <2>3 DEF LockInv
  <1>10. CASE UNCHANGED vars \/ \E r \in Ref : Republish(r)
    <2>1. UNCHANGED <<pc, call, feats, aliases, lock, lockfile, last>>
      BY <1>10 DEF vars, callVars, Republish
    <2>2. ReadLockfile' = ReadLockfile /\ FrozenIsLocked' = FrozenIsLocked
      BY <2>1 DEF ReadLockfile, FrozenIsLocked
    <2>3. LockIsExact'
      BY <2>1 DEF LockInv, LockIsExact
    <2>4. QED
      BY <2>1, <2>2, <2>3 DEF LockInv, Succeeded
  <1>11. QED
    BY <1>1, <1>2, <1>3, <1>4, <1>5, <1>6, <1>7, <1>8, <1>9, <1>10, Steps

-----------------------------------------------------------------------------
(* The image. *)

LEMMA CallBase ==
    ASSUME TypeOK, WorldInv
    PROVE  call.base.contents = Labelled(call.base.label)
  <1>1. call.base \in Bases \cup built
    BY DEF TypeOK
  <1>2. QED
    BY <1>1, BaseContents

LEMMA ImageStep ==
    ASSUME TypeOK, WorldInv, PositionInv, EntriesInv, ImageInv, [Next]_vars
    PROVE  ImageInv'
  <1>1. CASE Abandon
    BY <1>1 DEF Abandon, ImageInv, Succeeded
  <1>2. CASE Begin
    BY <1>2, BeginCases DEF Begins, ImageInv, Succeeded
  <1>3. CASE Loaded \/ Committed \/ WriteLockfile
    <2>1. /\ pc \in {"load", "commit", "write"} /\ UNCHANGED <<call, feats, image>>
          /\ pc' \in {"tag", "commit", "mark", "order", "write"}
          /\ pc' = "tag" => feats = <<>>
      BY <1>3 DEF Loaded, Committed, WriteLockfile, AfterCommit, callVars
    <2>2. image.label = call.base.label /\ image.contents = call.base.contents
      BY <2>1 DEF ImageInv
    <2>3. image.contents = Labelled(image.label)
      BY <2>2, CallBase
    <2>4. DOMAIN <<>> = {}
      OBVIOUS
    <2>5. QED
      BY <2>1, <2>2, <2>3, <2>4 DEF ImageInv, Succeeded
  <1>4. CASE Mark \/ (\E f : KeepRound(f)) \/ (\E f : DropRound(f)) \/ LoopEnds
    <2>1. /\ pc \in {"mark", "loop"} /\ pc' \in {"loop", "order", "commit"}
          /\ call' = call /\ image' = image
      BY <1>4 DEF Mark, KeepRound, DropRound, Resolves, LoopEnds, Move, callVars
    <2>2. QED
      BY <2>1 DEF ImageInv, Succeeded
  <1>5. CASE Arranged
    <2>1. PICK p : Arranges(p, feats) /\ feats' = Rearranged(feats, p)
      BY <1>5 DEF Arranged
    <2>2. /\ DOMAIN feats' = DOMAIN feats
          /\ \A n \in DOMAIN feats : p[n] \in DOMAIN feats /\ feats'[n] = feats[p[n]]
      BY <2>1, ArrangedFacts
    <2>3. /\ pc = "order" /\ UNCHANGED <<call, image>>
          /\ pc' = IF HasWork THEN "build" ELSE "tag"
      BY <1>5 DEF Arranged
    <2>4. image.label = call.base.label /\ image.contents = call.base.contents
      BY <2>3 DEF ImageInv
    <2>5. image.contents = Labelled(image.label)
      BY <2>4, CallBase
    <2>6. ASSUME pc' = "tag", NEW n \in DOMAIN feats', feats'[n].resolved # NoResolvedRef
          PROVE  feats'[n].resolved \in image.contents
      <3>1. feats[p[n]].baked
        BY <2>2, <2>3, <2>6 DEF HasWork
      <3>2. IsBaked(feats[p[n]])
        BY <2>2, <2>3, <3>1, AllKnown DEF Alive, IsFetched
      <3>3. QED
        BY <2>2, <2>4, <2>5, <2>6, <3>2 DEF IsBaked
    <2>7. QED
      BY <2>3, <2>4, <2>5, <2>6 DEF ImageInv, Succeeded
  <1>6. CASE BuildFeatures
    <2>1. pc = "build" /\ pc' = "tag" /\ UNCHANGED <<call, feats>>
      BY <1>6 DEF BuildFeatures
    <2>2. /\ \A x : x \in image'.contents <=>
               \/ x \in image.contents
               \/ \E n \in DOMAIN feats : ~feats[n].baked /\ x = feats[n].resolved
          /\ \A x : x \in Labelled(image'.label) <=>
               \/ x \in Labelled(call.base.label)
               \/ \E n \in DOMAIN feats : ~feats[n].baked /\ x = feats[n].resolved
                                         /\ x # NoResolvedRef
      BY <1>6, ImageBuilt
    <2>3. image.contents = Labelled(call.base.label)
      BY <2>1, CallBase DEF ImageInv
    <2>4. ASSUME NEW n \in DOMAIN feats
          PROVE  /\ feats[n].baked => feats[n].resolved \in image.contents \cup {NoResolvedRef}
                 /\ ~feats[n].baked => feats[n].resolved # NoResolvedRef
      <3>1. (IsBaked(feats[n]) \/ IsFetched(feats[n])) /\ feats[n] \in Feature
        BY <2>1, AllKnown, FeatsType DEF Alive
      <3>2. QED
        BY <2>3, <3>1, FetchedResolved DEF IsBaked, IsFetched
    <2>5. \A x : x \in image'.contents <=> x \in Labelled(image'.label)
      BY <2>2, <2>3, <2>4
    <2>6. image'.contents = Labelled(image'.label)
      <3>1. Labelled(image'.label) = {e.resolved : e \in Range(image'.label)} \ {NoResolvedRef}
        BY DEF Labelled
      <3>2. image'.contents \in SUBSET ResolvedRefs
        BY <1>6, ImageBuilt
      <3>3. QED
        BY <2>5, <3>1, <3>2
    <2>7. \A n \in DOMAIN feats : feats[n].resolved # NoResolvedRef
                                  => feats[n].resolved \in image'.contents
      BY <2>2, <2>4
    <2>8. QED
      BY <2>1, <2>6, <2>7 DEF ImageInv, Succeeded
  <1>7. CASE Finish
    <2>1. /\ pc = "tag" /\ pc' = "idle" /\ UNCHANGED <<call, feats>>
          /\ image'.label = image.label /\ image'.contents = image.contents
          /\ call.name # "" => image'.tag = call.name
      BY <1>7, ImageNamed DEF Finish
    <2>2. QED
      BY <2>1 DEF ImageInv, Succeeded
  <1>8. CASE UNCHANGED vars \/ \E r \in Ref : Republish(r)
    <2>1. UNCHANGED <<pc, last, call, feats, image>>
      BY <1>8 DEF vars, callVars, Republish
    <2>2. QED
      BY <2>1 DEF ImageInv, Succeeded
  <1>9. QED
    BY <1>1, <1>2, <1>3, <1>4, <1>5, <1>6, <1>7, <1>8, Steps

-----------------------------------------------------------------------------
(* Theorems. *)

LEMMA Initially ==
    ASSUME Init
    PROVE  IInv
  <1>1. feats = <<>> /\ aliases = <<>> /\ i = 1 /\ pc = "idle" /\ last = "" /\ lock = NoLock
        /\ lockfile = NoLock /\ built = {} /\ call = NoCall /\ image = NoImage
    BY DEF Init
  <1>2. DOMAIN <<>> = {} /\ Range(<<>>) = {} /\ Len(<<>>) = 0
    BY DEF Range
  <1>3. \A r \in Ref : Serves[r][1] \in Range(Serves[r]) /\ Serves[r][1] \in Digest
    <2>1. \A r \in Ref : Serves[r] \in Seq(Digest) /\ Serves[r] # <<>>
      BY FeaturesAssumption
    <2>2. ASSUME NEW r \in Ref
          PROVE  1 \in DOMAIN Serves[r] /\ Serves[r][1] \in Digest
      BY <2>1
    <2>3. QED
      BY <2>2 DEF Range
  <1>4. names = [r \in Ref |-> Serves[r][1]] /\ moves = 0 /\ calls = 0
    BY DEF Init
  <1>5. call \in [config : Configs, base : Bases, mode : Mode, strict : BOOLEAN,
                  name : {"", "name"}]
    <2>1. PICK config : config = CHOOSE c \in Configs : TRUE
      OBVIOUS
    <2>2. PICK base : base = CHOOSE b \in Bases : TRUE
      OBVIOUS
    <2>3. config \in Configs /\ base \in Bases
      BY <2>1, <2>2, FeaturesAssumption
    <2>4. call = [mode |-> "default", config |-> config, base |-> base, strict |-> FALSE,
                  name |-> ""]
      BY <1>1, <2>1, <2>2 DEF NoCall
    <2>5. QED
      BY <2>3, <2>4 DEF Mode
  <1>6. TypeOK
    <2>1. names \in [Ref -> Digest]
      BY <1>3, <1>4
    <2>2. moves \in 0 .. MaxMoves /\ calls \in 0 .. MaxCalls
      <3>1. MaxMoves \in Nat /\ MaxCalls \in Nat
        BY FeaturesAssumption
      <3>2. 0 \in 0 .. MaxMoves /\ 0 \in 0 .. MaxCalls
        BY <3>1
      <3>3. QED
        BY <1>4, <3>2
    <2>3. feats \in Seq(Feature) /\ aliases \in Seq(Feature) /\ i \in 1 .. Len(feats) + 1
      <3>1. <<>> \in Seq(Feature) /\ 1 \in 1 .. 0 + 1
        OBVIOUS
      <3>2. QED
        BY <1>1, <1>2, <3>1
    <2>4. image \in [tag : {"", "name", "image", "dc-go-base", "dc-go-final"},
                     label : Seq(LabelEntries), contents : SUBSET ResolvedRefs]
      <3>1. <<>> \in Seq(LabelEntries) /\ {} \in SUBSET ResolvedRefs
        OBVIOUS
      <3>2. QED
        BY <1>1, <3>1 DEF NoImage
    <2>5. QED
      BY <1>1, <1>5, <2>1, <2>2, <2>3, <2>4, NoLockType DEF TypeOK
  <1>7. WorldInv
    BY <1>1, <1>3, <1>4 DEF WorldInv
  <1>8. QED
    BY <1>1, <1>2, <1>6, <1>7
    DEF IInv, PositionInv, EntriesInv, WantedInv, RefsInv, DistinctInv, LockInv, LockIsExact,
        ImageInv, Alive, Succeeded

LEMMA InvariantStep ==
    ASSUME IInv, [Next]_vars
    PROVE  IInv'
  <1>1. /\ TypeOK /\ WorldInv /\ PositionInv /\ EntriesInv /\ WantedInv /\ RefsInv
        /\ DistinctInv /\ LockInv /\ ImageInv
    BY DEF IInv
  <1>2. TypeOK' /\ WorldInv' /\ PositionInv' /\ EntriesInv'
    BY <1>1, TypeStep, WorldStep, PositionStep, EntriesStep
  <1>3. WantedInv' /\ RefsInv' /\ DistinctInv'
    BY <1>1, WantedStep, RefsStep, DistinctStep
  <1>4. LockInv' /\ ImageInv'
    BY <1>1, LockStep, ImageStep
  <1>5. QED
    BY <1>2, <1>3, <1>4 DEF IInv

THEOREM Invariance == Spec => []IInv
  <1>1. Init => IInv
    BY Initially
  <1>2. IInv /\ [Next]_vars => IInv'
    BY InvariantStep
  <1>3. QED
    BY <1>1, <1>2, PTL DEF Spec

(* Each variable stays in the set it is meant for: every entry of the loop *)
(* is a well-formed feature, the loop's position is within or just behind  *)
(* them, and both lockfiles name remote references only.                   *)
THEOREM FeaturesType == Spec => []TypeOK
  <1>1. IInv => TypeOK
    BY DEF IInv
  <1>2. QED
    BY <1>1, Invariance, PTL

(* The lockfile a default or upgrade call leaves has an entry for every    *)
(* remote feature asked for or depended on, duplicates dropped on the way  *)
(* included, and none besides, with the digest of what the reference was   *)
(* resolved to (featureLock.commit).                                       *)
THEOREM LockIsExactTheorem == Spec => []LockIsExact
  <1>1. IInv => LockIsExact
    BY DEF IInv, LockInv
  <1>2. QED
    BY <1>1, Invariance, PTL

(* What a frozen call puts into the image is what the lockfile says,       *)
(* whatever tags and URLs name by now (featureLock.commit, fetchFeature).  *)
THEOREM FrozenInstallsTheLockTheorem == Spec => []FrozenInstallsTheLock
  <1>1. IInv => FrozenInstallsTheLock
    BY DEF IInv, LockInv, FrozenIsLocked, FrozenInstallsTheLock
  <1>2. QED
    BY <1>1, Invariance, PTL

(* No content is installed twice with the same options, everything asked   *)
(* for is in the image, which has the name the caller chose, and the label *)
(* of every image lists what is installed in it (layerFeatures,            *)
(* buildMetadataLabel).                                                    *)
THEOREM ImageIsAsAskedTheorem == Spec => []ImageIsAsAsked
  <1>1. IInv => ImageIsAsAsked
    <2> SUFFICES ASSUME IInv
                 PROVE  ImageIsAsAsked
      OBVIOUS
    <2>1. /\ TypeOK /\ WorldInv /\ WantedInv /\ DistinctInv /\ ImageInv
      BY DEF IInv
    <2>2. \A img \in built : img.contents = Labelled(img.label)
      BY <2>1 DEF WorldInv
    <2>3. CASE Succeeded
      <3>1. Alive /\ Upto = Len(feats) + 1
        BY <2>3 DEF Succeeded, Alive, Upto
      <3>2. \A n \in DOMAIN feats : n < Upto
        BY <2>1, <3>1, FeatsType
      <3>3. \A n, k \in DOMAIN feats :
              ~feats[n].baked /\ ~feats[k].baked /\ feats[n].resolved = feats[k].resolved
              /\ feats[n].opts = feats[k].opts => n = k
        BY <2>1, <3>1, <3>2 DEF DistinctInv
      <3>4. \A f \in Range(feats) : f.resolved # NoResolvedRef => f.resolved \in image.contents
        BY <2>1, <2>3 DEF ImageInv, Range
      <3>5. ASSUME NEW r \in DOMAIN call.config.asks
            PROVE  \E f \in Range(feats) : Provides(f, [key |-> r, opts |-> call.config.asks[r]])
        <4>1. PICK w : w = [key |-> r, opts |-> call.config.asks[r]]
          OBVIOUS
        <4>2. w \in AskedFor
          BY <4>1 DEF AskedFor
        <4>3. w \in Wanted(Upto)
          BY <2>1, <4>2, WantedMembers
        <4>4. PICK n \in DOMAIN feats : Provides(feats[n], w)
          BY <2>1, <3>1, <4>3 DEF WantedInv
        <4>5. QED
          BY <4>1, <4>4 DEF Range
      <3>6. call.name # "" => image.tag = call.name
        BY <2>1, <2>3 DEF ImageInv
      <3>7. QED
        BY <2>2, <3>3, <3>4, <3>5, <3>6 DEF ImageIsAsAsked
    <2>4. CASE ~Succeeded
      BY <2>2, <2>4 DEF ImageIsAsAsked
    <2>5. QED
      BY <2>3, <2>4
  <1>2. QED
    BY <1>1, Invariance, PTL

-----------------------------------------------------------------------------
(* The order. *)

(* What provides a dependency is among the entries that its key stands     *)
(* for: topoSort goes by references, duplicateFeature by content.          *)
LEMMA ProviderEdge ==
    ASSUME OneName, TypeOK, NEW m \in DOMAIN feats, NEW j \in DOMAIN feats, IsFetched(feats[m]),
           NEW dep \in feats[j].meta.dependsOn, Provides(feats[m], dep)
    PROVE  <<m, j>> \in Edges(feats)
  <1>1. PICK f : f = feats[m]
    OBVIOUS
  <1>2. f \in Feature /\ f.ref \in Ref /\ feats[j] \in Feature
    BY <1>1, FeatsType DEF Feature
  <1>3. dep.key \in Ref /\ dep.opts \in Option
    BY <1>2 DEF Feature, Metadata, DependsOn, Dependency
  <1>4. normalizeID(f.ref) = normalizeID(dep.key) /\ SameOptions(f, dep.opts)
    <2>1. CASE f.ref = dep.key /\ SameOptions(f, dep.opts)
      BY <2>1
    <2>2. CASE ~(f.ref = dep.key /\ SameOptions(f, dep.opts))
      <3>1. PICK d \in Contents(dep.key) :
              f.resolved = ResolvedRef(dep.key, d) /\ f.opts = MergeOptions(Artifact[d], dep.opts)
        BY <1>1, <2>2 DEF Provides
      <3>2. PICK e \in Contents(f.ref) : f.resolved = ResolvedRef(f.ref, e) /\ f.meta = Artifact[e]
        BY <1>1 DEF IsFetched
      <3>3. d = e
        BY <1>2, <1>3, <3>1, <3>2, ResolvedContent
      <3>4. IdOf[f.ref] = IdOf[dep.key]
        <4>1. \E c \in Contents(f.ref), b \in Contents(dep.key) :
                ResolvedRef(f.ref, c) = ResolvedRef(dep.key, b)
          BY <3>1, <3>2
        <4>2. QED
          BY <1>2, <1>3, <4>1, Zenon DEF OneName
      <3>5. QED
        BY <3>1, <3>2, <3>3, <3>4 DEF normalizeID, SameOptions
    <2>3. QED
      BY <2>1, <2>2
  <1>5. m \in dependencyEntries(feats, dep)
    BY <1>1, <1>4 DEF dependencyEntries
  <1>6. QED
    BY <1>5 DEF Edges

LEMMA OrderStep ==
    ASSUME OneName, IInv, OrderInv, [Next]_vars
    PROVE  OrderInv'
  <1>0. TypeOK /\ WorldInv /\ PositionInv /\ EntriesInv /\ WantedInv
    BY DEF IInv
  <1>1. CASE \/ Abandon \/ Begin \/ Mark \/ (\E f : KeepRound(f)) \/ (\E f : DropRound(f))
             \/ LoopEnds
    <2>1. pc' \notin {"build", "tag"} /\ ~Succeeded'
      BY <1>0, <1>1, BeginCases
      DEF Abandon, Begins, Mark, KeepRound, DropRound, Resolves, LoopEnds, Move, Succeeded
    <2>2. QED
      BY <2>1 DEF OrderInv
  <1>2. CASE Loaded \/ Committed \/ WriteLockfile
    <2>1. /\ feats' = feats /\ pc' \notin {"build", "idle"}
          /\ pc' = "tag" => feats = <<>>
      BY <1>2 DEF Loaded, Committed, WriteLockfile, AfterCommit, callVars
    <2>2. DOMAIN <<>> = {}
      OBVIOUS
    <2>3. QED
      BY <2>1, <2>2 DEF OrderInv, Succeeded
  <1>3. CASE Arranged
    <2>1. PICK p : Arranges(p, feats) /\ feats' = Rearranged(feats, p)
      BY <1>3 DEF Arranged
    <2>2. /\ DOMAIN feats' = DOMAIN feats
          /\ \A n \in DOMAIN feats : p[n] \in DOMAIN feats /\ feats'[n] = feats[p[n]]
      BY <1>0, <2>1, ArrangedFacts
    <2>3. /\ \A j \in DOMAIN feats : \E n \in DOMAIN feats : p[n] = j
          /\ \A n, k \in DOMAIN feats : <<p[k], p[n]>> \in Edges(feats) => k <= n
      BY <2>1 DEF Arranges
    <2>4. pc = "order" /\ Alive /\ Upto = Len(feats) + 1
      BY <1>0, <1>3 DEF Arranged, Alive, Upto, PositionInv
    <2>5. ASSUME NEW n \in DOMAIN feats', NEW dep \in feats'[n].meta.dependsOn
          PROVE  \E k \in DOMAIN feats' : (feats'[k].baked \/ k <= n) /\ Provides(feats'[k], dep)
      <3>1. p[n] \in DOMAIN feats /\ dep \in feats[p[n]].meta.dependsOn
        BY <2>2, <2>5
      <3>2. dep \in Wanted(Upto)
        BY <1>0, <2>4, <3>1, AllWanted
      <3>3. PICK m \in DOMAIN feats : Provides(feats[m], dep)
        BY <1>0, <2>4, <3>2 DEF WantedInv
      <3>4. PICK k \in DOMAIN feats : p[k] = m
        BY <2>3
      <3>5. CASE feats[m].baked
        BY <2>2, <3>3, <3>4, <3>5
      <3>6. CASE ~feats[m].baked
        <4>1. IsFetched(feats[m])
          BY <1>0, <2>4, <3>6, AllKnown DEF IsBaked
        <4>2. <<p[k], p[n]>> \in Edges(feats)
          BY <1>0, <3>1, <3>3, <3>4, <4>1, ProviderEdge
        <4>3. k <= n
          BY <2>2, <2>3, <4>2
        <4>4. QED
          BY <2>2, <3>3, <3>4, <4>3
      <3>7. QED
        BY <3>5, <3>6
    <2>6. QED
      BY <2>5 DEF OrderInv
  <1>4. CASE BuildFeatures \/ Finish \/ UNCHANGED vars \/ \E r \in Ref : Republish(r)
    <2>1. /\ feats' = feats
          /\ (pc' \in {"build", "tag"} \/ Succeeded') => (pc \in {"build", "tag"} \/ Succeeded)
      BY <1>4 DEF BuildFeatures, Finish, vars, callVars, Republish, Succeeded
    <2>2. QED
      BY <2>1 DEF OrderInv
  <1>5. QED
    BY <1>0, <1>1, <1>2, <1>3, <1>4, Steps

(* No feature is installed before one it depends on (topoSort), where      *)
(* references that may name the same content are the same but for tag and  *)
(* digest: a dependency that duplicateFeature drops in favour of an entry  *)
(* with another id is not one that topoSort finds.                         *)
THEOREM DependenciesFirstTheorem ==
    ASSUME OneName
    PROVE  Spec => []DependenciesFirst
  <1>1. Init => OrderInv
    BY DEF Init, OrderInv, Succeeded
  <1>2. IInv /\ OrderInv /\ [Next]_vars => OrderInv'
    BY OrderStep
  <1>3. OrderInv => DependenciesFirst
    BY DEF OrderInv, DependenciesFirst
  <1>4. QED
    BY <1>1, <1>2, <1>3, Invariance, PTL DEF Spec

(* All entries are installed when the algorithm ends, or some wait for     *)
(* each other for ever.                                                    *)
LEMMA KahnFinds ==
    ASSUME NEW F \in Seq(Feature), NEW E \in SUBSET ((DOMAIN F) \X (DOMAIN F)), NEW s,
           KahnOK(DOMAIN F, E, s), Len(s.out) = Len(F) \/ s.ready = <<>>
    PROVE  /\ s.out \in Seq(DOMAIN F) /\ Len(s.out) \in Nat
           /\ Len(s.out) < Len(F) <=> Cyclic(DOMAIN F, E)
           /\ ~(Len(s.out) < Len(F)) => DOMAIN s.out = DOMAIN F /\ Range(s.out) = DOMAIN F
  <1> DEFINE D == DOMAIN F
  <1>1. Len(F) \in Nat /\ D = 1 .. Len(F)
    OBVIOUS
  <1>2. s.out \in Seq(D) /\ Len(s.out) \in Nat /\ DOMAIN s.out = 1 .. Len(s.out)
    <2>1. s.out \in Seq(D)
      BY DEF KahnOK, KahnState
    <2>2. QED
      BY <2>1
  <1>3. \A n, k \in DOMAIN s.out : s.out[n] = s.out[k] => n = k
    BY DEF KahnOK
  <1>4. s.out \in Injection(1 .. Len(s.out), D)
    <2>1. s.out \in Seq(D)
      BY <1>2
    <2>2. QED
      BY <2>1, <1>3 DEF Injection, IsInjective
  <1>5. IsFiniteSet(D) /\ Cardinality(D) = Len(F)
    <2>1. PICK M \in Nat : M = Len(F)
      BY <1>1
    <2>2. 1 \in Int /\ M \in Int
      BY <2>1
    <2>3. IsFiniteSet(1 .. M) /\ Cardinality(1 .. M) = IF 1 > M THEN 0 ELSE M - 1 + 1
      BY <2>2, FS_Interval
    <2>4. QED
      BY <1>1, <2>1, <2>3
  <1>6. /\ IsFiniteSet(1 .. Len(s.out)) /\ Cardinality(1 .. Len(s.out)) = Len(s.out)
    <2>1. /\ IsFiniteSet(1 .. Len(s.out))
          /\ Cardinality(1 .. Len(s.out)) = IF 1 > Len(s.out) THEN 0 ELSE Len(s.out) - 1 + 1
      <3>1. PICK M \in Nat : M = Len(s.out)
        BY <1>2
      <3>2. 1 \in Int /\ M \in Int
        BY <3>1
      <3>3. /\ IsFiniteSet(1 .. M)
            /\ Cardinality(1 .. M) = IF 1 > M THEN 0 ELSE M - 1 + 1
        BY <3>2, FS_Interval
      <3>4. QED
        BY <3>1, <3>3
    <2>2. PICK M \in Nat : M = Len(s.out)
      BY <1>2
    <2>3. QED
      BY <2>1, <2>2
  <1>7. Len(s.out) <= Len(F)
    BY <1>4, <1>5, <1>6, FS_Injection
  <1>8. ASSUME ~(Len(s.out) < Len(F))
        PROVE  DOMAIN s.out = D /\ Range(s.out) = D
    <2>1. Len(s.out) = Len(F)
      BY <1>1, <1>2, <1>7, <1>8
    <2>2. DOMAIN s.out = D
      BY <1>1, <1>2, <2>1
    <2>3. s.out \in Injection(D, D)
      BY <1>1, <1>4, <2>1
    <2>4. s.out \in Surjection(D, D)
      BY <1>5, <2>3, FS_Injection
    <2>5. QED
      BY <2>2, <2>4 DEF Surjection, Range
  <1>9. ASSUME Len(s.out) < Len(F)
        PROVE  Cyclic(D, E)
    <2>1. PICK S : S = D \ Range(s.out)
      OBVIOUS
    <2>2. s.ready = <<>> /\ Range(s.ready) = {}
      BY <1>1, <1>2, <1>9 DEF Range
    <2>3. S # {}
      <3>1. SUFFICES ASSUME D \subseteq Range(s.out)
                     PROVE  FALSE
        BY <2>1
      <3>2. s.out \in Surjection(1 .. Len(s.out), D)
        BY <1>2, <1>4, <3>1 DEF Surjection, Injection, Range
      <3>3. Cardinality(D) <= Cardinality(1 .. Len(s.out))
        BY <1>6, <3>2, FS_Surjection
      <3>4. QED
        BY <1>1, <1>2, <1>5, <1>6, <1>9, <3>3
    <2>4. \A x \in S : \E y \in S : <<y, x>> \in E
      <3>1. /\ \A x \in D : s.waits[x] = {k \in D : <<k, x>> \in E} \ Range(s.out)
            /\ \A x \in D : s.waits[x] = {} <=> x \in Range(s.out) \cup Range(s.ready)
        BY DEF KahnOK
      <3>2. QED
        BY <2>1, <2>2, <3>1
    <2>5. S \in (SUBSET D) \ {{}}
      BY <2>1, <2>3
    <2>6. QED
      BY <2>4, <2>5 DEF Cyclic
  <1>10. ASSUME ~(Len(s.out) < Len(F))
         PROVE  ~Cyclic(D, E)
    <2>1. SUFFICES ASSUME NEW S \in (SUBSET D) \ {{}},
                          \A x \in S : \E y \in S : <<y, x>> \in E
                   PROVE  FALSE
      BY DEF Cyclic
    <2>2. PICK T : T = {n \in D : s.out[n] \in S}
      OBVIOUS
    <2>3. DOMAIN s.out = D /\ \A x \in D : \E n \in D : s.out[n] = x
      BY <1>8, <1>10 DEF Range
    <2>4. T \in SUBSET Nat /\ T # {}
      BY <1>1, <2>2, <2>3
    <2>5. PICK n \in T : \A k \in T : ~(<<k, n>> \in OpToRel(<, Nat))
      BY <2>4, NatLessThanWellFounded, WFMin, Zenon
    <2>6. \A k \in T : ~(k < n)
      BY <2>4, <2>5 DEF OpToRel
    <2>7. n \in DOMAIN s.out /\ s.out[n] \in S
      BY <2>2, <2>3
    <2>8. PICK y \in S : <<y, s.out[n]>> \in E
      BY <2>1, <2>7
    <2>9. PICK k \in DOMAIN s.out : k < n /\ s.out[k] = y
      BY <2>7, <2>8 DEF KahnOK
    <2>10. k \in T
      BY <2>2, <2>3, <2>9
    <2>11. QED
      BY <2>6, <2>9, <2>10
  <1>11. QED
    BY <1>2, <1>8, <1>9, <1>10

(* The depth of an entry is the length of the longest chain to it.         *)
LEMMA DepthCounts ==
    ASSUME NEW D, NEW E, NEW s, s.depth \in [D -> Nat], Range(s.out) = D, DepthOK(D, E, s)
    PROVE  ChainEnds(D, E) # {} <=> \E x \in D : s.depth[x] >= dagErrorDepth
  <1> DEFINE N == dagErrorDepth
             after(X) == {x \in D : \E y \in X : <<y, x>> \in E}
             ends == CHOOSE g : g = [n \in 0 .. N |-> IF n = 0 THEN D ELSE after(g[n - 1])]
             step == [X \in SUBSET D |-> after(X)]
  <1>1. N \in Nat
    BY OrderAssumption
  <1>2. ChainEnds(D, E) = ends[N]
    BY Zenon DEF ChainEnds
  <1>3. D \in SUBSET D /\ step \in [SUBSET D -> SUBSET D] /\ \A X \in SUBSET D : step[X] = after(X)
    OBVIOUS
  <1> HIDE DEF step, after
  <1>4. PICK f : Follows(f, N, SUBSET D, D, step)
    <2> HIDE DEF N
    <2>1. QED
      BY <1>1, <1>3, Recursion
  <1>5. f \in [0 .. N -> SUBSET D] /\ f[0] = D /\ \A n \in 1 .. N : f[n] = step[f[n - 1]]
    BY <1>4 DEF Follows
  <1> HIDE DEF N
  <1>6. f = [n \in 0 .. N |-> IF n = 0 THEN D ELSE after(f[n - 1])]
    <2>1. ASSUME NEW n \in 0 .. N
          PROVE  f[n] = IF n = 0 THEN D ELSE after(f[n - 1])
      <3>1. CASE n = 0
        BY <1>5, <3>1
      <3>2. CASE n # 0
        <4>1. n \in 1 .. N /\ n - 1 \in 0 .. N
          BY <1>1, <3>2
        <4>2. f[n] = step[f[n - 1]] /\ f[n - 1] \in SUBSET D
          BY <1>5, <4>1
        <4>3. QED
          BY <1>3, <3>2, <4>2
      <3>3. QED
        BY <3>1, <3>2
    <2>2. f = [n \in 0 .. N |-> f[n]]
      BY <1>5
    <2>3. QED
      BY <2>1, <2>2, Zenon
  <1>7. ends = [n \in 0 .. N |-> IF n = 0 THEN D ELSE after(ends[n - 1])]
    BY <1>6, Zenon
  <1> HIDE DEF ends
  <1>8. ends[0] = D /\ \A n \in 1 .. N : ends[n] = after(ends[n - 1])
    BY <1>1, <1>7
  <1>9. /\ \A x, y \in D : <<y, x>> \in E => s.depth[y] < s.depth[x]
        /\ \A x \in D : s.depth[x] # 0 =>
             \E y \in D : <<y, x>> \in E /\ s.depth[x] = s.depth[y] + 1
        /\ \A x \in D : s.depth[x] \in Nat
    BY DEF DepthOK
  <1> DEFINE S == {n \in 0 .. N : ends[n] = {x \in D : s.depth[x] >= n}}
  <1>10. 0 \in S
    BY <1>1, <1>8, <1>9
  <1>11. ASSUME NEW n \in 1 .. N, n - 1 \in S
         PROVE  n \in S
    <2>1. ends[n] = {x \in D : \E y \in D : s.depth[y] >= n - 1 /\ <<y, x>> \in E}
      <3>1. ends[n - 1] = {x \in D : s.depth[x] >= n - 1}
        BY <1>11
      <3>2. PICK X : X = ends[n - 1]
        OBVIOUS
      <3>3. ends[n] = after(X)
        BY <1>8, <3>2
      <3>4. after(X) = {x \in D : \E y \in X : <<y, x>> \in E}
        BY DEF after
      <3>5. QED
        BY <3>1, <3>2, <3>3, <3>4
    <2>2. ASSUME NEW x \in D
          PROVE  (\E y \in D : s.depth[y] >= n - 1 /\ <<y, x>> \in E) <=> s.depth[x] >= n
      <3>1. ASSUME NEW y \in D, s.depth[y] >= n - 1, <<y, x>> \in E
            PROVE  s.depth[x] >= n
        BY <1>9, <3>1
      <3>2. ASSUME s.depth[x] >= n
            PROVE  \E y \in D : s.depth[y] >= n - 1 /\ <<y, x>> \in E
        <4>1. s.depth[x] # 0
          BY <1>9, <3>2
        <4>2. PICK y \in D : <<y, x>> \in E /\ s.depth[x] = s.depth[y] + 1
          BY <1>9, <4>1
        <4>3. s.depth[y] >= n - 1
          BY <1>9, <3>2, <4>2
        <4>4. QED
          BY <4>2, <4>3
      <3>3. QED
        BY <3>1, <3>2
    <2>3. n \in 0 .. N
      BY <1>1
    <2>4. QED
      BY <2>1, <2>2, <2>3
  <1> HIDE DEF S
  <1>12. 0 .. N \subseteq S
    BY <1>1, <1>10, <1>11, UpTo
  <1>13. N \in S
    BY <1>1, <1>12
  <1>14. ends[N] = {x \in D : s.depth[x] >= N}
    BY <1>13 DEF S
  <1>15. QED
    BY <1>2, <1>14 DEF N

(* An order is found unless features wait for each other or a chain of     *)
(* dependencies is too long, and it follows every edge (topoSort).         *)
THEOREM OrderIsSoundTheorem == Spec => []OrderIsSound
  <1>1. TypeOK => OrderIsSound
    <2> SUFFICES ASSUME TypeOK, pc = "order", Len(feats) > 1
                 PROVE  OrderIsSound
      BY DEF OrderIsSound
    <2>1. PICK F : F = feats
      OBVIOUS
    <2>2. F \in Seq(Feature) /\ Len(F) \in Nat
      BY <2>1, FeatsType
    <2>3. PICK E : E = Edges(F)
      OBVIOUS
    <2>4. PICK s : /\ Kahn(F) = {s} /\ KahnOK(DOMAIN F, E, s) /\ DepthOK(DOMAIN F, E, s)
                   /\ Len(s.out) = Len(F) \/ s.ready = <<>>
      BY <2>2, <2>3, KahnEnds
    <2>5. PICK res : res = topoSort(F)
      OBVIOUS
    <2>6. res = Sorting(F, s)
      <3>1. {Sorting(F, t) : t \in Kahn(F)} = {Sorting(F, s)}
        BY <2>4
      <3>2. ~(Len(F) <= 1)
        BY <2>1, <2>2
      <3>3. QED
        BY <2>5, <3>1, <3>2 DEF topoSort
    <2>7. E \in SUBSET ((DOMAIN F) \X (DOMAIN F))
      BY <2>3 DEF Edges
    <2>8. /\ s.out \in Seq(DOMAIN F) /\ Len(s.out) \in Nat
          /\ Len(s.out) < Len(F) <=> Cyclic(DOMAIN F, E)
          /\ ~(Len(s.out) < Len(F)) => DOMAIN s.out = DOMAIN F /\ Range(s.out) = DOMAIN F
      BY <2>2, <2>4, <2>7, KahnFinds
    <2>9. res.outcome = OutcomeOf(F, s)
      BY <2>6, SortingFields
    <2>10. res.outcome = IF Cyclic(DOMAIN F, E) THEN "cycle"
                         ELSE IF ChainEnds(DOMAIN F, E) # {} THEN "too deep"
                         ELSE "ok"
      <3>1. CASE Cyclic(DOMAIN F, E)
        BY <2>8, <2>9, <3>1 DEF OutcomeOf
      <3>2. CASE ~Cyclic(DOMAIN F, E)
        <4>1. s.depth \in [DOMAIN F -> Nat]
          BY <2>4 DEF KahnOK, KahnState
        <4>2. ChainEnds(DOMAIN F, E) # {} <=> \E x \in DOMAIN F : s.depth[x] >= dagErrorDepth
          BY <2>4, <2>8, <3>2, <4>1, DepthCounts
        <4>3. QED
          BY <2>8, <2>9, <3>2, <4>2 DEF OutcomeOf
      <3>3. QED
        BY <3>1, <3>2
    <2>11. ASSUME res.outcome = "ok", NEW e \in E
           PROVE  \E n, k \in DOMAIN F :
                    n < k /\ res.features[n] = F[e[1]] /\ res.features[k] = F[e[2]]
      <3>1. DOMAIN s.out = DOMAIN F /\ Range(s.out) = DOMAIN F
        BY <2>8, <2>9, <2>11 DEF OutcomeOf
      <3>2. res.features = [n \in DOMAIN F |-> F[s.out[n]]]
        BY <2>6, <2>11, SortingFields DEF Rearranged
      <3>3. PICK x \in DOMAIN F, y \in DOMAIN F : e = <<x, y>>
        BY <2>7
      <3>4. PICK k \in DOMAIN F : s.out[k] = y
        BY <3>1 DEF Range
      <3>5. PICK n \in DOMAIN F : n < k /\ s.out[n] = x
        BY <2>4, <2>11, <3>1, <3>3, <3>4 DEF KahnOK
      <3>6. e[1] = x /\ e[2] = y
        BY <3>3
      <3>7. QED
        BY <3>2, <3>4, <3>5, <3>6
    <2> DEFINE Sound(r, edges) ==
                 /\ r.outcome = IF Cyclic(DOMAIN feats, edges) THEN "cycle"
                                ELSE IF ChainEnds(DOMAIN feats, edges) # {} THEN "too deep"
                                ELSE "ok"
                 /\ r.outcome = "ok" =>
                      \A e \in edges : \E n, k \in DOMAIN feats :
                         n < k /\ r.features[n] = feats[e[1]] /\ r.features[k] = feats[e[2]]
    <2>12. Sound(res, E)
      BY <2>1, <2>10, <2>11
    <2> HIDE DEF Sound
    <2>13. \A r \in {topoSort(feats)}, edges \in {Edges(feats)} : Sound(r, edges)
      <3>1. topoSort(feats) = res /\ Edges(feats) = E
        BY <2>1, <2>3, <2>5
      <3>2. QED
        BY <2>12, <3>1
    <2>14. QED
      BY <2>13, Zenon DEF OrderIsSound, Sound
  <1>2. QED
    BY <1>1, FeaturesType, PTL

=============================================================================
