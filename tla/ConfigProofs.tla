---------------------------- MODULE ConfigProofs ----------------------------
(***************************************************************************)
(* What a container is created with and what a caller is told of it, for   *)
(* every devcontainer.json, every set of features and every label.         *)
(***************************************************************************)
EXTENDS Config, SequenceTheorems, WellFoundedInduction, TLAPS

-----------------------------------------------------------------------------
(* Recursion on the members of a sequence. *)

(* What holds at first and from one number to the next holds up to N.      *)
LEMMA UpTo ==
    ASSUME NEW N \in Nat, NEW S, 0 \in S, \A n \in 1 .. N : n - 1 \in S => n \in S
    PROVE  0 .. N \subseteq S
  <1> SUFFICES ASSUME NEW m \in (0 .. N) \ S
               PROVE  FALSE
    OBVIOUS
  <1> DEFINE B == {n \in Nat : n \in (0 .. N) \ S}
  <1>1. B # {} /\ B \subseteq Nat
    OBVIOUS
  <1>2. PICK n \in B : \A k \in B : ~(<<k, n>> \in OpToRel(<, Nat))
    BY <1>1, NatLessThanWellFounded, WFMin, Zenon
  <1>3. \A k \in B : ~(k < n)
    BY <1>2, <1>1 DEF OpToRel
  <1>4. n \in 1 .. N /\ n - 1 \notin B
    BY <1>3
  <1>5. QED
    BY <1>4

(* f follows the steps, one for each number up to N, from v on.            *)
Follows(f, N, V, v, step) ==
    f \in [0 .. N -> V] /\ f[0] = v /\ \A n \in 1 .. N : f[n] = step[<<n, f[n - 1]>>]

LEMMA Recursion ==
    ASSUME NEW N \in Nat, NEW V, NEW v \in V, NEW step \in [(1 .. N) \X V -> V]
    PROVE  \E f : Follows(f, N, V, v, step)
  <1> DEFINE Good == {m \in 0 .. N : \E f \in [0 .. m -> V] :
                        f[0] = v /\ \A n \in 1 .. m : f[n] = step[<<n, f[n - 1]>>]}
  <1>1. 0 \in Good
    <2> DEFINE f == [n \in 0 .. 0 |-> v]
    <2>1. f \in [0 .. 0 -> V] /\ f[0] = v /\ \A n \in 1 .. 0 : f[n] = step[<<n, f[n - 1]>>]
      OBVIOUS
    <2> HIDE DEF f
    <2>2. QED
      BY <2>1
  <1>2. ASSUME NEW m \in 1 .. N, m - 1 \in Good
        PROVE  m \in Good
    <2>1. PICK f \in [0 .. m - 1 -> V] :
            f[0] = v /\ \A n \in 1 .. m - 1 : f[n] = step[<<n, f[n - 1]>>]
      BY <1>2
    <2> DEFINE g == [n \in 0 .. m |-> IF n = m THEN step[<<m, f[m - 1]>>] ELSE f[n]]
    <2>2. step[<<m, f[m - 1]>>] \in V
      <3>1. f[m - 1] \in V /\ <<m, f[m - 1]>> \in (1 .. N) \X V
        OBVIOUS
      <3>2. QED
        BY <3>1
    <2>3. g \in [0 .. m -> V]
      BY <2>2
    <2>4. g[0] = v
      BY <2>1
    <2>5. ASSUME NEW n \in 1 .. m
          PROVE  g[n] = step[<<n, g[n - 1]>>]
      <3>1. g[n - 1] = f[n - 1] /\ m \in 0 .. m
        OBVIOUS
      <3>2. CASE n = m
        <4>1. g[m] = step[<<m, f[m - 1]>>]
          BY <3>1
        <4>2. QED
          BY <3>1, <3>2, <4>1
      <3>3. CASE n # m
        BY <2>1, <3>1, <3>3
      <3>4. QED
        BY <3>2, <3>3
    <2> HIDE DEF g
    <2>6. QED
      BY <2>3, <2>4, <2>5
  <1>3. N \in 0 .. N
    OBVIOUS
  <1> HIDE DEF Good
  <1>4. 0 .. N \subseteq Good
    BY <1>1, <1>2, UpTo
  <1>5. N \in Good
    BY <1>3, <1>4
  <1>6. QED
    BY <1>5 DEF Good, Follows

(* The one function that does is the one the recursion defines.            *)
LEMMA Unfolds ==
    ASSUME NEW N \in Nat, NEW V, NEW v \in V, NEW step \in [(1 .. N) \X V -> V],
           NEW f, f = [n \in 0 .. N |-> f[n]], f[0] = v,
           \A n \in 1 .. N : f[n - 1] \in V => f[n] = step[<<n, f[n - 1]>>]
    PROVE  Follows(f, N, V, v, step)
  <1> DEFINE S == {n \in 0 .. N : f[n] \in V}
  <1>1. 0 \in S
    OBVIOUS
  <1>2. ASSUME NEW n \in 1 .. N, n - 1 \in S
        PROVE  n \in S
    <2>1. f[n - 1] \in V /\ <<n, f[n - 1]>> \in (1 .. N) \X V
      BY <1>2
    <2>2. step[<<n, f[n - 1]>>] \in V /\ f[n] = step[<<n, f[n - 1]>>]
      BY <2>1
    <2>3. QED
      BY <2>2
  <1> HIDE DEF S
  <1>3. 0 .. N \subseteq S
    BY <1>1, <1>2, UpTo
  <1>4. \A n \in 0 .. N : f[n] \in V
    BY <1>3 DEF S
  <1>5. \A n \in 1 .. N : f[n] = step[<<n, f[n - 1]>>]
    <2>1. \A n \in 1 .. N : n - 1 \in 0 .. N
      OBVIOUS
    <2>2. QED
      BY <1>4, <2>1
  <1>6. QED
    BY <1>4, <1>5 DEF Follows

(* The members of a sequence at some of its indices.                       *)
Keeps(f, T, s, S) ==
    /\ f \in [0 .. Len(s) -> Seq(T)]
    /\ f[0] = <<>> /\ Kept(s, S) = f[Len(s)]
    /\ \A n \in 1 .. Len(s) :
         f[n] = IF n \in S THEN Append(f[n - 1], s[n]) ELSE f[n - 1]

LEMMA KeptUnfolds ==
    ASSUME NEW T, NEW s \in Seq(T), NEW S
    PROVE  \E f : Keeps(f, T, s, S)
  <1> DEFINE V == Seq(T)
             L == Len(s)
             v == <<>>
             next(n, x) == IF n \in S THEN Append(x, s[n]) ELSE x
             out == CHOOSE g : g = [n \in 0 .. L |->
                       IF n = 0 THEN v ELSE IF n \in S THEN Append(g[n - 1], s[n]) ELSE g[n - 1]]
             step == [e \in (1 .. L) \X V |-> next(e[1], e[2])]
  <1>1. L \in Nat /\ v \in V
    OBVIOUS
  <1>2. Kept(s, S) = out[L]
    BY Zenon DEF Kept
  <1>3. \A n \in 1 .. L : \A x \in V : next(n, x) \in V
    OBVIOUS
  <1>4. step \in [(1 .. L) \X V -> V] /\ \A n \in 1 .. L : \A x \in V : step[<<n, x>>] = next(n, x)
    BY <1>3
  <1>5. PICK f : Follows(f, L, V, v, step)
    <2> HIDE DEF L, V, v, step
    <2>1. QED
      BY <1>1, <1>4, Recursion
  <1> HIDE DEF L, V, v, step
  <1>6. f \in [0 .. L -> V] /\ f[0] = v /\ \A n \in 1 .. L : f[n] = step[<<n, f[n - 1]>>]
    BY <1>5 DEF Follows
  <1>7. f = [n \in 0 .. L |-> IF n = 0 THEN v ELSE IF n \in S THEN Append(f[n - 1], s[n]) ELSE f[n - 1]]
    <2>1. ASSUME NEW n \in 0 .. L
          PROVE  f[n] = IF n = 0 THEN v ELSE IF n \in S THEN Append(f[n - 1], s[n]) ELSE f[n - 1]
      <3>1. CASE n = 0
        BY <1>6, <3>1
      <3>2. CASE n # 0
        <4>1. n \in 1 .. L /\ n - 1 \in 0 .. L
          BY <1>1, <3>2
        <4>2. f[n] = step[<<n, f[n - 1]>>] /\ f[n - 1] \in V
          BY <1>6, <4>1
        <4>3. f[n] = next(n, f[n - 1])
          <5> HIDE DEF next
          <5>1. QED
            BY <1>4, <4>1, <4>2
        <4>4. QED
          BY <3>2, <4>3
      <3>3. QED
        BY <3>1, <3>2
    <2>2. f = [n \in 0 .. L |-> f[n]]
      BY <1>6
    <2>3. QED
      BY <2>1, <2>2, Zenon
  <1>8. out = [n \in 0 .. L |-> IF n = 0 THEN v ELSE IF n \in S THEN Append(out[n - 1], s[n]) ELSE out[n - 1]]
    BY <1>7, Zenon
  <1> HIDE DEF out
  <1>9. out = [n \in 0 .. L |-> out[n]] /\ out[0] = v
    BY <1>1, <1>8
  <1>10. ASSUME NEW n \in 1 .. L
         PROVE  out[n] = next(n, out[n - 1])
    <2>1. n \in 0 .. L /\ n # 0
      BY <1>1
    <2>2. QED
      BY <1>8, <2>1, Zenon
  <1>11. \A n \in 1 .. L : out[n - 1] \in V => out[n] = step[<<n, out[n - 1]>>]
    <2> HIDE DEF next
    <2>1. QED
      BY <1>4, <1>10
  <1>12. Follows(out, L, V, v, step)
    BY <1>1, <1>4, <1>9, <1>11, Unfolds
  <1>13. out \in [0 .. L -> V]
    BY <1>12 DEF Follows
  <1>14. QED
    BY <1>2, <1>9, <1>10, <1>13 DEF V, L, v, Keeps

(* The last value that is set. *)
LEMMA PickUnfolds ==
    ASSUME NEW T, NEW unset \in T, NEW own \in T, NEW values \in Seq(T)
    PROVE  \E f \in [0 .. Len(values) -> T] :
             /\ f[0] = unset /\ pick(own, values, unset) = (IF own # unset THEN own ELSE f[Len(values)])
             /\ \A n \in 1 .. Len(values) :
                  f[n] = IF values[n] # unset THEN values[n] ELSE f[n - 1]
  <1> DEFINE V == T
             L == Len(values)
             v == unset
             next(n, x) == IF values[n] # unset THEN values[n] ELSE x
             out == CHOOSE g : g = [n \in 0 .. L |->
                       IF n = 0 THEN v ELSE IF values[n] # unset THEN values[n] ELSE g[n - 1]]
             step == [e \in (1 .. L) \X V |-> next(e[1], e[2])]
  <1>1. L \in Nat /\ v \in V
    OBVIOUS
  <1>2. pick(own, values, unset) = (IF own # unset THEN own ELSE out[L])
    BY Zenon DEF pick
  <1>3. \A n \in 1 .. L : \A x \in V : next(n, x) \in V
    OBVIOUS
  <1>4. step \in [(1 .. L) \X V -> V] /\ \A n \in 1 .. L : \A x \in V : step[<<n, x>>] = next(n, x)
    BY <1>3
  <1>5. PICK f : Follows(f, L, V, v, step)
    <2> HIDE DEF L, V, v, step
    <2>1. QED
      BY <1>1, <1>4, Recursion
  <1> HIDE DEF L, V, v, step
  <1>6. f \in [0 .. L -> V] /\ f[0] = v /\ \A n \in 1 .. L : f[n] = step[<<n, f[n - 1]>>]
    BY <1>5 DEF Follows
  <1>7. f = [n \in 0 .. L |-> IF n = 0 THEN v ELSE IF values[n] # unset THEN values[n] ELSE f[n - 1]]
    <2>1. ASSUME NEW n \in 0 .. L
          PROVE  f[n] = IF n = 0 THEN v ELSE IF values[n] # unset THEN values[n] ELSE f[n - 1]
      <3>1. CASE n = 0
        BY <1>6, <3>1
      <3>2. CASE n # 0
        <4>1. n \in 1 .. L /\ n - 1 \in 0 .. L
          BY <1>1, <3>2
        <4>2. f[n] = step[<<n, f[n - 1]>>] /\ f[n - 1] \in V
          BY <1>6, <4>1
        <4>3. f[n] = next(n, f[n - 1])
          <5> HIDE DEF next
          <5>1. QED
            BY <1>4, <4>1, <4>2
        <4>4. QED
          BY <3>2, <4>3
      <3>3. QED
        BY <3>1, <3>2
    <2>2. f = [n \in 0 .. L |-> f[n]]
      BY <1>6
    <2>3. QED
      BY <2>1, <2>2, Zenon
  <1>8. out = [n \in 0 .. L |-> IF n = 0 THEN v ELSE IF values[n] # unset THEN values[n] ELSE out[n - 1]]
    BY <1>7, Zenon
  <1> HIDE DEF out
  <1>9. out = [n \in 0 .. L |-> out[n]] /\ out[0] = v
    BY <1>1, <1>8
  <1>10. ASSUME NEW n \in 1 .. L
         PROVE  out[n] = next(n, out[n - 1])
    <2>1. n \in 0 .. L /\ n # 0
      BY <1>1
    <2>2. QED
      BY <1>8, <2>1, Zenon
  <1>11. \A n \in 1 .. L : out[n - 1] \in V => out[n] = step[<<n, out[n - 1]>>]
    <2> HIDE DEF next
    <2>1. QED
      BY <1>4, <1>10
  <1>12. Follows(out, L, V, v, step)
    BY <1>1, <1>4, <1>9, <1>11, Unfolds
  <1>13. out \in [0 .. L -> V]
    BY <1>12 DEF Follows
  <1>14. QED
    BY <1>2, <1>9, <1>10, <1>13 DEF V, L, v

(* The members of a list without repetitions. *)
LEMMA UnionUnfolds ==
    ASSUME NEW T, NEW s \in Seq(T)
    PROVE  \E f \in [0 .. Len(s) -> Seq(T)] :
             /\ f[0] = <<>> /\ unionDedup(s) = f[Len(s)]
             /\ \A n \in 1 .. Len(s) :
                  f[n] = IF s[n] \in Range(f[n - 1]) THEN f[n - 1] ELSE Append(f[n - 1], s[n])
  <1> DEFINE V == Seq(T)
             L == Len(s)
             v == <<>>
             next(n, x) == IF s[n] \in Range(x) THEN x ELSE Append(x, s[n])
             out == CHOOSE g : g = [n \in 0 .. L |->
                       IF n = 0 THEN v ELSE IF s[n] \in Range(g[n - 1]) THEN g[n - 1] ELSE Append(g[n - 1], s[n])]
             step == [e \in (1 .. L) \X V |-> next(e[1], e[2])]
  <1>1. L \in Nat /\ v \in V
    OBVIOUS
  <1>2. unionDedup(s) = out[L]
    BY Zenon DEF unionDedup
  <1>3. \A n \in 1 .. L : \A x \in V : next(n, x) \in V
    OBVIOUS
  <1>4. step \in [(1 .. L) \X V -> V] /\ \A n \in 1 .. L : \A x \in V : step[<<n, x>>] = next(n, x)
    BY <1>3
  <1>5. PICK f : Follows(f, L, V, v, step)
    <2> HIDE DEF L, V, v, step
    <2>1. QED
      BY <1>1, <1>4, Recursion
  <1> HIDE DEF L, V, v, step
  <1>6. f \in [0 .. L -> V] /\ f[0] = v /\ \A n \in 1 .. L : f[n] = step[<<n, f[n - 1]>>]
    BY <1>5 DEF Follows
  <1>7. f = [n \in 0 .. L |-> IF n = 0 THEN v ELSE IF s[n] \in Range(f[n - 1]) THEN f[n - 1] ELSE Append(f[n - 1], s[n])]
    <2>1. ASSUME NEW n \in 0 .. L
          PROVE  f[n] = IF n = 0 THEN v ELSE IF s[n] \in Range(f[n - 1]) THEN f[n - 1] ELSE Append(f[n - 1], s[n])
      <3>1. CASE n = 0
        BY <1>6, <3>1
      <3>2. CASE n # 0
        <4>1. n \in 1 .. L /\ n - 1 \in 0 .. L
          BY <1>1, <3>2
        <4>2. f[n] = step[<<n, f[n - 1]>>] /\ f[n - 1] \in V
          BY <1>6, <4>1
        <4>3. f[n] = next(n, f[n - 1])
          <5> HIDE DEF next
          <5>1. QED
            BY <1>4, <4>1, <4>2
        <4>4. QED
          BY <3>2, <4>3
      <3>3. QED
        BY <3>1, <3>2
    <2>2. f = [n \in 0 .. L |-> f[n]]
      BY <1>6
    <2>3. QED
      BY <2>1, <2>2, Zenon
  <1>8. out = [n \in 0 .. L |-> IF n = 0 THEN v ELSE IF s[n] \in Range(out[n - 1]) THEN out[n - 1] ELSE Append(out[n - 1], s[n])]
    BY <1>7, Zenon
  <1> HIDE DEF out
  <1>9. out = [n \in 0 .. L |-> out[n]] /\ out[0] = v
    BY <1>1, <1>8
  <1>10. ASSUME NEW n \in 1 .. L
         PROVE  out[n] = next(n, out[n - 1])
    <2>1. n \in 0 .. L /\ n # 0
      BY <1>1
    <2>2. QED
      BY <1>8, <2>1, Zenon
  <1>11. \A n \in 1 .. L : out[n - 1] \in V => out[n] = step[<<n, out[n - 1]>>]
    <2> HIDE DEF next
    <2>1. QED
      BY <1>4, <1>10
  <1>12. Follows(out, L, V, v, step)
    BY <1>1, <1>4, <1>9, <1>11, Unfolds
  <1>13. out \in [0 .. L -> V]
    BY <1>12 DEF Follows
  <1>14. QED
    BY <1>2, <1>9, <1>10, <1>13 DEF V, L, v

(* Maps laid over one another. *)
LEMMA MapsUnfold ==
    ASSUME NEW maps \in Seq(Env), NEW own \in Env
    PROVE  \E f \in [0 .. Len(maps) -> Env] :
             /\ f[0] = NoEnv /\ mergeStringMaps(maps, own) = Overlay(f[Len(maps)], own)
             /\ \A n \in 1 .. Len(maps) :
                  f[n] = Overlay(f[n - 1], maps[n])
  <1> DEFINE V == Env
             L == Len(maps)
             v == NoEnv
             next(n, x) == Overlay(x, maps[n])
             out == CHOOSE g : g = [n \in 0 .. L |->
                       IF n = 0 THEN v ELSE Overlay(g[n - 1], maps[n])]
             step == [e \in (1 .. L) \X V |-> next(e[1], e[2])]
  <1>1. L \in Nat /\ v \in V
    <2>1. NoEnv \in Env
      BY ConfigAssumption DEF NoEnv, Env
    <2>2. QED
      BY <2>1
  <1>2. mergeStringMaps(maps, own) = Overlay(out[L], own)
    BY Zenon DEF mergeStringMaps
  <1>3. \A n \in 1 .. L : \A x \in V : next(n, x) \in V
    BY DEF Overlay, Env
  <1>4. step \in [(1 .. L) \X V -> V] /\ \A n \in 1 .. L : \A x \in V : step[<<n, x>>] = next(n, x)
    BY <1>3
  <1>5. PICK f : Follows(f, L, V, v, step)
    <2> HIDE DEF L, V, v, step
    <2>1. QED
      BY <1>1, <1>4, Recursion
  <1> HIDE DEF L, V, v, step
  <1>6. f \in [0 .. L -> V] /\ f[0] = v /\ \A n \in 1 .. L : f[n] = step[<<n, f[n - 1]>>]
    BY <1>5 DEF Follows
  <1>7. f = [n \in 0 .. L |-> IF n = 0 THEN v ELSE Overlay(f[n - 1], maps[n])]
    <2>1. ASSUME NEW n \in 0 .. L
          PROVE  f[n] = IF n = 0 THEN v ELSE Overlay(f[n - 1], maps[n])
      <3>1. CASE n = 0
        BY <1>6, <3>1
      <3>2. CASE n # 0
        <4>1. n \in 1 .. L /\ n - 1 \in 0 .. L
          BY <1>1, <3>2
        <4>2. f[n] = step[<<n, f[n - 1]>>] /\ f[n - 1] \in V
          BY <1>6, <4>1
        <4>3. f[n] = next(n, f[n - 1])
          <5> HIDE DEF next
          <5>1. QED
            BY <1>4, <4>1, <4>2
        <4>4. QED
          BY <3>2, <4>3
      <3>3. QED
        BY <3>1, <3>2
    <2>2. f = [n \in 0 .. L |-> f[n]]
      BY <1>6
    <2>3. QED
      BY <2>1, <2>2, Zenon
  <1>8. out = [n \in 0 .. L |-> IF n = 0 THEN v ELSE Overlay(out[n - 1], maps[n])]
    BY <1>7, Zenon
  <1> HIDE DEF out
  <1>9. out = [n \in 0 .. L |-> out[n]] /\ out[0] = v
    BY <1>1, <1>8
  <1>10. ASSUME NEW n \in 1 .. L
         PROVE  out[n] = next(n, out[n - 1])
    <2>1. n \in 0 .. L /\ n # 0
      BY <1>1
    <2>2. QED
      BY <1>8, <2>1, Zenon
  <1>11. \A n \in 1 .. L : out[n - 1] \in V => out[n] = step[<<n, out[n - 1]>>]
    <2> HIDE DEF next
    <2>1. QED
      BY <1>4, <1>10
  <1>12. Follows(out, L, V, v, step)
    BY <1>1, <1>4, <1>9, <1>11, Unfolds
  <1>13. out \in [0 .. L -> V]
    BY <1>12 DEF Follows
  <1>14. QED
    BY <1>2, <1>9, <1>10, <1>13 DEF V, L, v

(* Mounts added where no other is. *)
LEMMA MissingUnfolds ==
    ASSUME NEW volumes \in Seq(MountType), NEW more \in Seq(MountType)
    PROVE  \E f \in [0 .. Len(more) -> Seq(MountType)] :
             /\ f[0] = volumes /\ AddMissing(volumes, more) = f[Len(more)]
             /\ \A n \in 1 .. Len(more) :
                  f[n] = IF more[n].target \in Targets(f[n - 1]) THEN f[n - 1] ELSE Append(f[n - 1], more[n])
  <1> DEFINE V == Seq(MountType)
             L == Len(more)
             v == volumes
             next(n, x) == IF more[n].target \in Targets(x) THEN x ELSE Append(x, more[n])
             out == CHOOSE g : g = [n \in 0 .. L |->
                       IF n = 0 THEN v ELSE IF more[n].target \in Targets(g[n - 1]) THEN g[n - 1] ELSE Append(g[n - 1], more[n])]
             step == [e \in (1 .. L) \X V |-> next(e[1], e[2])]
  <1>1. L \in Nat /\ v \in V
    OBVIOUS
  <1>2. AddMissing(volumes, more) = out[L]
    BY Zenon DEF AddMissing
  <1>3. \A n \in 1 .. L : \A x \in V : next(n, x) \in V
    OBVIOUS
  <1>4. step \in [(1 .. L) \X V -> V] /\ \A n \in 1 .. L : \A x \in V : step[<<n, x>>] = next(n, x)
    BY <1>3
  <1>5. PICK f : Follows(f, L, V, v, step)
    <2> HIDE DEF L, V, v, step
    <2>1. QED
      BY <1>1, <1>4, Recursion
  <1> HIDE DEF L, V, v, step
  <1>6. f \in [0 .. L -> V] /\ f[0] = v /\ \A n \in 1 .. L : f[n] = step[<<n, f[n - 1]>>]
    BY <1>5 DEF Follows
  <1>7. f = [n \in 0 .. L |-> IF n = 0 THEN v ELSE IF more[n].target \in Targets(f[n - 1]) THEN f[n - 1] ELSE Append(f[n - 1], more[n])]
    <2>1. ASSUME NEW n \in 0 .. L
          PROVE  f[n] = IF n = 0 THEN v ELSE IF more[n].target \in Targets(f[n - 1]) THEN f[n - 1] ELSE Append(f[n - 1], more[n])
      <3>1. CASE n = 0
        BY <1>6, <3>1
      <3>2. CASE n # 0
        <4>1. n \in 1 .. L /\ n - 1 \in 0 .. L
          BY <1>1, <3>2
        <4>2. f[n] = step[<<n, f[n - 1]>>] /\ f[n - 1] \in V
          BY <1>6, <4>1
        <4>3. f[n] = next(n, f[n - 1])
          <5> HIDE DEF next
          <5>1. QED
            BY <1>4, <4>1, <4>2
        <4>4. QED
          BY <3>2, <4>3
      <3>3. QED
        BY <3>1, <3>2
    <2>2. f = [n \in 0 .. L |-> f[n]]
      BY <1>6
    <2>3. QED
      BY <2>1, <2>2, Zenon
  <1>8. out = [n \in 0 .. L |-> IF n = 0 THEN v ELSE IF more[n].target \in Targets(out[n - 1]) THEN out[n - 1] ELSE Append(out[n - 1], more[n])]
    BY <1>7, Zenon
  <1> HIDE DEF out
  <1>9. out = [n \in 0 .. L |-> out[n]] /\ out[0] = v
    BY <1>1, <1>8
  <1>10. ASSUME NEW n \in 1 .. L
         PROVE  out[n] = next(n, out[n - 1])
    <2>1. n \in 0 .. L /\ n # 0
      BY <1>1
    <2>2. QED
      BY <1>8, <2>1, Zenon
  <1>11. \A n \in 1 .. L : out[n - 1] \in V => out[n] = step[<<n, out[n - 1]>>]
    <2> HIDE DEF next
    <2>1. QED
      BY <1>4, <1>10
  <1>12. Follows(out, L, V, v, step)
    BY <1>1, <1>4, <1>9, <1>11, Unfolds
  <1>13. out \in [0 .. L -> V]
    BY <1>12 DEF Follows
  <1>14. QED
    BY <1>2, <1>9, <1>10, <1>13 DEF V, L, v


(* Sequences put one after another.                                        *)
LEMMA FlattenUnfolds ==
    ASSUME NEW T, NEW ss \in Seq(Seq(T))
    PROVE  \E f \in [0 .. Len(ss) -> Seq(T)] :
             /\ f[0] = <<>> /\ FlattenSeq(ss) = f[Len(ss)]
             /\ \A n \in 1 .. Len(ss) : f[n] = f[n - 1] \o ss[n]
  <1> DEFINE V == Seq(T)
             L == Len(ss)
             step == [e \in (1 .. L) \X V |-> e[2] \o ss[e[1]]]
             out == CHOOSE g : g = [i \in 1 .. L |->
                                      IF i = 1 THEN ss[i] ELSE g[i - 1] \o ss[i]]
  <1>1. L \in Nat /\ <<>> \in V /\ \A n \in 1 .. L : ss[n] \in V
    OBVIOUS
  <1>2. FlattenSeq(ss) = IF L = 0 THEN ss ELSE out[L]
    BY Zenon DEF FlattenSeq
  <1>3. \A n \in 1 .. L : \A x \in V : x \o ss[n] \in V
    OBVIOUS
  <1>4. step \in [(1 .. L) \X V -> V] /\ \A n \in 1 .. L : \A x \in V : step[<<n, x>>] = x \o ss[n]
    BY <1>3
  <1>5. PICK f : Follows(f, L, V, <<>>, step)
    <2> HIDE DEF L, V, step
    <2>1. QED
      BY <1>1, <1>4, Recursion
  <1>6. f \in [0 .. L -> V] /\ f[0] = <<>> /\ \A n \in 1 .. L : f[n] = step[<<n, f[n - 1]>>]
    BY <1>5 DEF Follows
  <1>a. \A x \in V : <<>> \o x = x
    OBVIOUS
  <1> HIDE DEF step, V, L
  <1>7. \A n \in 1 .. L : f[n] = f[n - 1] \o ss[n]
    <2>1. \A n \in 1 .. L : f[n - 1] \in V
      BY <1>1, <1>6
    <2>2. QED
      BY <1>4, <1>6, <2>1
  <1> DEFINE g == [i \in 1 .. L |-> f[i]]
  <1>8. g = [i \in 1 .. L |-> IF i = 1 THEN ss[i] ELSE g[i - 1] \o ss[i]]
    <2>1. ASSUME NEW i \in 1 .. L
          PROVE  f[i] = IF i = 1 THEN ss[i] ELSE g[i - 1] \o ss[i]
      <3>1. CASE i = 1
        <4>1. f[i] = f[i - 1] \o ss[i]
          BY <1>7
        <4>0. i - 1 = 0
          BY <3>1
        <4>2. ss[i] \in V /\ f[i - 1] = <<>>
          BY <1>1, <1>6, <4>0
        <4>3. QED
          BY <1>a, <3>1, <4>1, <4>2
      <3>2. CASE i # 1
        <4>1. i - 1 \in 1 .. L
          BY <1>1, <3>2
        <4>2. g[i - 1] = f[i - 1]
          BY <4>1
        <4>3. QED
          BY <1>7, <3>2, <4>2
      <3>3. QED
        BY <3>1, <3>2
    <2>2. QED
      BY <2>1, Zenon
  <1>9. out = [i \in 1 .. L |-> IF i = 1 THEN ss[i] ELSE out[i - 1] \o ss[i]]
    BY <1>8, Zenon
  <1> HIDE DEF out, g
  <1>10. ASSUME NEW i \in 1 .. L
         PROVE  out[i] = IF i = 1 THEN ss[i] ELSE out[i - 1] \o ss[i]
    BY <1>9, Zenon
  <1> DEFINE S == {n \in 0 .. L : n = 0 \/ out[n] = f[n]}
  <1>11. 0 \in S
    BY <1>1
  <1>12. ASSUME NEW n \in 1 .. L, n - 1 \in S
         PROVE  n \in S
    <2>1. CASE n = 1
      <3>1. out[n] = ss[n] /\ ss[n] \in V
        BY <1>1, <1>10, <2>1
      <3>2. f[n] = f[n - 1] \o ss[n]
        BY <1>7
      <3>0. n - 1 = 0
        BY <2>1
      <3>3. f[n] = ss[n]
        BY <1>6, <1>a, <3>0, <3>1, <3>2
      <3>4. QED
        BY <1>1, <3>1, <3>3
    <2>2. CASE n # 1
      <3>1. out[n] = out[n - 1] \o ss[n]
        BY <1>10, <2>2
      <3>2. n - 1 # 0
        BY <2>2
      <3>3. out[n - 1] = f[n - 1]
        BY <1>12, <3>2
      <3>4. out[n] = f[n]
        BY <1>7, <3>1, <3>3
      <3>5. n \in 0 .. L
        BY <1>1
      <3>6. QED
        BY <3>4, <3>5
    <2>3. QED
      BY <2>1, <2>2
  <1> HIDE DEF S
  <1>13. 0 .. L \subseteq S
    BY <1>1, <1>11, <1>12, UpTo
  <1>14. FlattenSeq(ss) = f[L]
    <2>1. CASE L = 0
      <3>1. ss = <<>>
        BY <2>1 DEF L
      <3>2. QED
        BY <1>2, <1>6, <2>1, <3>1
    <2>2. CASE L # 0
      <3>1. L \in 0 .. L
        BY <1>1
      <3>2. QED
        BY <1>2, <1>13, <2>2, <3>1 DEF S
    <2>3. QED
      BY <2>1, <2>2
  <1>15. QED
    BY <1>6, <1>7, <1>14 DEF V, L

LEMMA RangeAppend ==
    ASSUME NEW T, NEW s \in Seq(T), NEW x \in T
    PROVE  Range(Append(s, x)) = Range(s) \cup {x}
  <1>1. Append(s, x) \in Seq(T) /\ Len(Append(s, x)) = Len(s) + 1
    OBVIOUS
  <1>2. \A n \in 1 .. Len(s) + 1 : Append(s, x)[n] = IF n = Len(s) + 1 THEN x ELSE s[n]
    OBVIOUS
  <1>3. \A n \in 1 .. Len(s) : Append(s, x)[n] = s[n]
    OBVIOUS
  <1>4. QED
    BY <1>1, <1>2, <1>3 DEF Range

LEMMA KeptMembers ==
    ASSUME NEW T, NEW s \in Seq(T), NEW S
    PROVE  Kept(s, S) \in Seq(T) /\ Range(Kept(s, S)) = {s[n] : n \in S \cap DOMAIN s}
  <1>1. PICK f : Keeps(f, T, s, S)
    BY KeptUnfolds
  <1>2. PICK L \in Nat : L = Len(s)
    OBVIOUS
  <1> DEFINE G == {n \in 0 .. L : Range(f[n]) = {s[k] : k \in S \cap (1 .. n)}}
  <1>a. /\ f \in [0 .. L -> Seq(T)] /\ f[0] = <<>> /\ Kept(s, S) = f[L]
        /\ \A n \in 1 .. L :
             f[n] = IF n \in S THEN Append(f[n - 1], s[n]) ELSE f[n - 1]
    BY <1>1, <1>2 DEF Keeps
  <1>3. 0 \in G
    <2>1. Range(<<>>) = {}
      BY DEF Range
    <2>2. QED
      BY <1>a, <2>1
  <1>4. ASSUME NEW n \in 1 .. L, n - 1 \in G
        PROVE  n \in G
    <2>1. f[n - 1] \in Seq(T) /\ s[n] \in T
      BY <1>2, <1>a, SMTT(30)
    <2>2. f[n] = IF n \in S THEN Append(f[n - 1], s[n]) ELSE f[n - 1]
      BY <1>a
    <2>3. Range(Append(f[n - 1], s[n])) = Range(f[n - 1]) \cup {s[n]}
      BY <2>1, RangeAppend
    <2>4. 1 .. n = (1 .. n - 1) \cup {n}
      BY <1>2
    <2>5. Range(f[n - 1]) = {s[k] : k \in S \cap (1 .. n - 1)}
      BY <1>4
    <2>6. QED
      BY <2>2, <2>3, <2>4, <2>5
  <1> HIDE DEF G
  <1>5. 0 .. L \subseteq G
    BY <1>3, <1>4, UpTo
  <1>6. L \in G
    BY <1>5
  <1>7. DOMAIN s = 1 .. L
    BY <1>2
  <1>8. QED
    BY <1>a, <1>2, <1>6, <1>7 DEF G

(* Sequences that agree at these indices.                                  *)
LEMMA KeptAgree ==
    ASSUME NEW T, NEW s \in Seq(T), NEW t \in Seq(T), Len(s) = Len(t), NEW S, NEW R,
           \A n \in DOMAIN s : (n \in S <=> n \in R) /\ (n \in S => s[n] = t[n])
    PROVE  Kept(s, S) = Kept(t, R)
  <1>1. PICK f : Keeps(f, T, s, S)
    BY KeptUnfolds
  <1>2. PICK g : Keeps(g, T, t, R)
    BY KeptUnfolds
  <1>3. PICK L \in Nat : L = Len(s) /\ DOMAIN s = 1 .. L
    OBVIOUS
  <1>a. /\ f \in [0 .. L -> Seq(T)] /\ f[0] = <<>> /\ Kept(s, S) = f[L]
        /\ \A n \in 1 .. L :
             f[n] = IF n \in S THEN Append(f[n - 1], s[n]) ELSE f[n - 1]
    BY <1>1, <1>3 DEF Keeps
  <1>b. /\ g \in [0 .. L -> Seq(T)] /\ g[0] = <<>> /\ Kept(t, R) = g[L]
        /\ \A n \in 1 .. L :
             g[n] = IF n \in R THEN Append(g[n - 1], t[n]) ELSE g[n - 1]
    BY <1>2, <1>3 DEF Keeps
  <1> DEFINE G == {n \in 0 .. L : f[n] = g[n]}
  <1>4. 0 \in G
    BY <1>a, <1>b
  <1>5. ASSUME NEW n \in 1 .. L, n - 1 \in G
        PROVE  n \in G
    <2>1. f[n] = IF n \in S THEN Append(f[n - 1], s[n]) ELSE f[n - 1]
      BY <1>a
    <2>2. g[n] = IF n \in R THEN Append(g[n - 1], t[n]) ELSE g[n - 1]
      BY <1>b
    <2>3. f[n - 1] = g[n - 1] /\ (n \in S <=> n \in R) /\ (n \in S => s[n] = t[n])
      BY <1>3, <1>5
    <2>4. QED
      BY <2>1, <2>2, <2>3
  <1> HIDE DEF G
  <1>6. 0 .. L \subseteq G
    BY <1>4, <1>5, UpTo
  <1>7. L \in G
    BY <1>6
  <1>8. QED
    BY <1>a, <1>b, <1>7 DEF G

LEMMA KeptAppend ==
    ASSUME NEW T, NEW s \in Seq(T), NEW x \in T, NEW S
    PROVE  Kept(Append(s, x), S) = IF Len(s) + 1 \in S THEN Append(Kept(s, S), x) ELSE Kept(s, S)
  <1>1. PICK f : Keeps(f, T, s, S)
    BY KeptUnfolds
  <1>2. PICK t \in Seq(T) : t = Append(s, x)
    <2>1. Append(s, x) \in Seq(T)
      OBVIOUS
    <2>2. QED
      BY <2>1
  <1>3. PICK g : Keeps(g, T, t, S)
    BY KeptUnfolds
  <1>4. PICK L \in Nat : L = Len(s)
    OBVIOUS
  <1>5. Len(t) = L + 1 /\ t[L + 1] = x /\ \A n \in 1 .. L : t[n] = s[n]
    BY <1>2, <1>4
  <1>a. /\ f \in [0 .. L -> Seq(T)] /\ f[0] = <<>> /\ Kept(s, S) = f[L]
        /\ \A n \in 1 .. L :
             f[n] = IF n \in S THEN Append(f[n - 1], s[n]) ELSE f[n - 1]
    BY <1>1, <1>4 DEF Keeps
  <1>b. /\ g \in [0 .. L + 1 -> Seq(T)] /\ g[0] = <<>> /\ Kept(t, S) = g[L + 1]
        /\ \A n \in 1 .. L + 1 :
             g[n] = IF n \in S THEN Append(g[n - 1], t[n]) ELSE g[n - 1]
    BY <1>3, <1>5 DEF Keeps
  <1> DEFINE G == {n \in 0 .. L : f[n] = g[n]}
  <1>6. 0 \in G
    BY <1>a, <1>b
  <1>7. ASSUME NEW n \in 1 .. L, n - 1 \in G
        PROVE  n \in G
    <2>1. f[n] = IF n \in S THEN Append(f[n - 1], s[n]) ELSE f[n - 1]
      BY <1>a
    <2>2. g[n] = IF n \in S THEN Append(g[n - 1], s[n]) ELSE g[n - 1]
      <3>1. n \in 1 .. L + 1
        BY <1>4
      <3>2. QED
        BY <1>b, <1>5, <3>1
    <2>3. f[n - 1] = g[n - 1]
      BY <1>7
    <2>4. QED
      BY <2>1, <2>2, <2>3
  <1> HIDE DEF G
  <1>8. 0 .. L \subseteq G
    BY <1>6, <1>7, UpTo
  <1>9. f[L] = g[L]
    BY <1>8 DEF G
  <1>10. g[L + 1] = IF L + 1 \in S THEN Append(g[L], x) ELSE g[L]
    <2>1. L + 1 \in 1 .. L + 1 /\ (L + 1) - 1 = L
      BY <1>4
    <2>2. QED
      BY <1>b, <1>5, <2>1
  <1>11. QED
    BY <1>a, <1>b, <1>2, <1>4, <1>9, <1>10

LEMMA KeptAll ==
    ASSUME NEW T, NEW s \in Seq(T), NEW S, DOMAIN s \subseteq S
    PROVE  Kept(s, S) = s
  <1>1. PICK f : Keeps(f, T, s, S)
    BY KeptUnfolds
  <1>2. PICK L \in Nat : L = Len(s) /\ DOMAIN s = 1 .. L
    OBVIOUS
  <1>a. /\ f \in [0 .. L -> Seq(T)] /\ f[0] = <<>> /\ Kept(s, S) = f[L]
        /\ \A n \in 1 .. L :
             f[n] = IF n \in S THEN Append(f[n - 1], s[n]) ELSE f[n - 1]
    BY <1>1, <1>2 DEF Keeps
  <1> DEFINE G == {n \in 0 .. L : Len(f[n]) = n /\ \A k \in 1 .. n : f[n][k] = s[k]}
  <1>3. 0 \in G
    BY <1>a
  <1>4. ASSUME NEW n \in 1 .. L, n - 1 \in G
        PROVE  n \in G
    <2>1. PICK q \in Seq(T) : q = f[n - 1]
      BY <1>a
    <2>2. f[n] = Append(q, s[n]) /\ s[n] \in T
      <3>1. n \in S /\ n \in DOMAIN s
        BY <1>2
      <3>2. f[n] = Append(f[n - 1], s[n])
        BY <1>a, <3>1
      <3>3. QED
        BY <2>1, <3>1, <3>2
    <2>3. Len(q) = n - 1 /\ \A k \in 1 .. n - 1 : q[k] = s[k]
      BY <1>4, <2>1
    <2>4. Len(Append(q, s[n])) = n /\ \A k \in 1 .. n : Append(q, s[n])[k] = IF k = n THEN s[n] ELSE q[k]
      BY <2>2, <2>3
    <2>5. \A k \in 1 .. n : Append(q, s[n])[k] = s[k]
      BY <2>3, <2>4
    <2>6. Len(f[n]) = n /\ \A k \in 1 .. n : f[n][k] = s[k]
      BY <2>2, <2>4, <2>5, Zenon
    <2>7. n \in 0 .. L
      OBVIOUS
    <2>8. QED
      BY <2>6, <2>7, Zenon
  <1> HIDE DEF G
  <1>5. 0 .. L \subseteq G
    BY <1>3, <1>4, UpTo
  <1>6. PICK r \in Seq(T) : r = f[L]
    BY <1>a
  <1>7. Len(r) = L /\ \A k \in 1 .. L : r[k] = s[k]
    BY <1>5, <1>6 DEF G
  <1>8. r = s
    BY <1>2, <1>7, SeqEqual
  <1>9. QED
    BY <1>a, <1>6, <1>8

LEMMA WithMounts ==
    ASSUME NEW out \in Seq(MountType), NEW m \in MountType
    PROVE  /\ WithMount(out, m) \in Seq(MountType)
           /\ Range(WithMount(out, m)) =
                {x \in Range(out) : m.target = "" \/ x.target # m.target} \cup {m}
  <1> DEFINE S == {k \in DOMAIN out : m.target = "" \/ out[k].target # m.target}
  <1>1. /\ Kept(out, S) \in Seq(MountType)
        /\ Range(Kept(out, S)) = {out[n] : n \in S \cap DOMAIN out}
    BY KeptMembers
  <1>2. WithMount(out, m) = Append(Kept(out, S), m)
    BY DEF WithMount
  <1>3. {out[n] : n \in S \cap DOMAIN out}
          = {x \in Range(out) : m.target = "" \/ x.target # m.target}
    BY DEF Range
  <1> HIDE DEF S
  <1>4. PICK q \in Seq(MountType) : q = Kept(out, S)
    BY <1>1
  <1>5. Range(Append(q, m)) = Range(q) \cup {m} /\ Append(q, m) \in Seq(MountType)
    BY RangeAppend
  <1>6. QED
    BY <1>1, <1>2, <1>3, <1>4, <1>5

(* Mounts of which a later one puts out an earlier one of its target.      *)
LEMMA DedupUnfolds ==
    ASSUME NEW s \in Seq(MountType)
    PROVE  \E f \in [0 .. Len(s) -> Seq(MountType)] :
             /\ f[0] = <<>> /\ dedupMountsByTarget(s) = f[Len(s)]
             /\ \A n \in 1 .. Len(s) :
                  f[n] = WithMount(f[n - 1], s[n])
  <1> DEFINE V == Seq(MountType)
             L == Len(s)
             v == <<>>
             next(n, x) == WithMount(x, s[n])
             out == CHOOSE g : g = [n \in 0 .. L |->
                       IF n = 0 THEN v ELSE WithMount(g[n - 1], s[n])]
             step == [e \in (1 .. L) \X V |-> next(e[1], e[2])]
  <1>1. L \in Nat /\ v \in V
    OBVIOUS
  <1>2. dedupMountsByTarget(s) = out[L]
    BY Zenon DEF dedupMountsByTarget
  <1>3. ASSUME NEW n \in 1 .. L, NEW x \in V
        PROVE  next(n, x) \in V
    <2>1. s[n] \in MountType
      OBVIOUS
    <2>2. QED
      BY <2>1, WithMounts
  <1>4. step \in [(1 .. L) \X V -> V] /\ \A n \in 1 .. L : \A x \in V : step[<<n, x>>] = next(n, x)
    BY <1>3
  <1>5. PICK f : Follows(f, L, V, v, step)
    <2> HIDE DEF L, V, v, step
    <2>1. QED
      BY <1>1, <1>4, Recursion
  <1> HIDE DEF L, V, v, step
  <1>6. f \in [0 .. L -> V] /\ f[0] = v /\ \A n \in 1 .. L : f[n] = step[<<n, f[n - 1]>>]
    BY <1>5 DEF Follows
  <1>7. f = [n \in 0 .. L |-> IF n = 0 THEN v ELSE WithMount(f[n - 1], s[n])]
    <2>1. ASSUME NEW n \in 0 .. L
          PROVE  f[n] = IF n = 0 THEN v ELSE WithMount(f[n - 1], s[n])
      <3>1. CASE n = 0
        BY <1>6, <3>1
      <3>2. CASE n # 0
        <4>1. n \in 1 .. L /\ n - 1 \in 0 .. L
          BY <1>1, <3>2
        <4>2. f[n] = step[<<n, f[n - 1]>>] /\ f[n - 1] \in V
          BY <1>6, <4>1
        <4>3. f[n] = next(n, f[n - 1])
          <5> HIDE DEF next
          <5>1. QED
            BY <1>4, <4>1, <4>2
        <4>4. QED
          BY <3>2, <4>3
      <3>3. QED
        BY <3>1, <3>2
    <2>2. f = [n \in 0 .. L |-> f[n]]
      BY <1>6
    <2>3. QED
      BY <2>1, <2>2, Zenon
  <1>8. out = [n \in 0 .. L |-> IF n = 0 THEN v ELSE WithMount(out[n - 1], s[n])]
    BY <1>7, Zenon
  <1> HIDE DEF out
  <1>9. out = [n \in 0 .. L |-> out[n]] /\ out[0] = v
    BY <1>1, <1>8
  <1>10. ASSUME NEW n \in 1 .. L
         PROVE  out[n] = next(n, out[n - 1])
    <2>1. n \in 0 .. L /\ n # 0
      BY <1>1
    <2>2. QED
      BY <1>8, <2>1, Zenon
  <1>11. \A n \in 1 .. L : out[n - 1] \in V => out[n] = step[<<n, out[n - 1]>>]
    <2> HIDE DEF next
    <2>1. QED
      BY <1>4, <1>10
  <1>12. Follows(out, L, V, v, step)
    BY <1>1, <1>4, <1>9, <1>11, Unfolds
  <1>13. out \in [0 .. L -> V]
    BY <1>12 DEF Follows
  <1>14. QED
    BY <1>2, <1>9, <1>10, <1>13 DEF V, L, v


LEMMA DedupMembers ==
    ASSUME NEW s \in Seq(MountType)
    PROVE  /\ dedupMountsByTarget(s) \in Seq(MountType)
           /\ Range(dedupMountsByTarget(s)) =
                {s[i] : i \in {i \in DOMAIN s :
                   s[i].target # "" => \A j \in DOMAIN s : j > i => s[j].target # s[i].target}}
  <1>1. PICK f \in [0 .. Len(s) -> Seq(MountType)] :
          /\ f[0] = <<>> /\ dedupMountsByTarget(s) = f[Len(s)]
          /\ \A n \in 1 .. Len(s) : f[n] = WithMount(f[n - 1], s[n])
    BY DedupUnfolds
  <1>2. PICK L \in Nat : L = Len(s) /\ DOMAIN s = 1 .. L
    OBVIOUS
  <1> DEFINE Latest(n) == {i \in 1 .. n :
                s[i].target # "" => \A j \in 1 .. n : j > i => s[j].target # s[i].target}
             G == {n \in 0 .. L : Range(f[n]) = {s[i] : i \in Latest(n)}}
  <1>3. 0 \in G
    <2>1. Range(<<>>) = {}
      BY DEF Range
    <2>2. Latest(0) = {}
      OBVIOUS
    <2>3. {s[i] : i \in Latest(0)} = {}
      BY <2>2
    <2>4. f[0] = <<>>
      BY <1>1
    <2> HIDE DEF Latest
    <2>5. Range(f[0]) = {s[i] : i \in Latest(0)}
      BY <2>1, <2>3, <2>4, Zenon
    <2>6. 0 \in 0 .. L
      OBVIOUS
    <2>7. QED
      BY <2>5, <2>6
  <1>4. ASSUME NEW n \in 1 .. L, n - 1 \in G
        PROVE  n \in G
    <2>1. f[n] = WithMount(f[n - 1], s[n]) /\ f[n - 1] \in Seq(MountType) /\ s[n] \in MountType
      BY <1>1, <1>2
    <2>2. Range(f[n]) =
            {x \in Range(f[n - 1]) : s[n].target = "" \/ x.target # s[n].target} \cup {s[n]}
      BY <2>1, WithMounts
    <2>3. Range(f[n - 1]) = {s[i] : i \in Latest(n - 1)}
      BY <1>4
    <2>4. Latest(n) = {i \in Latest(n - 1) : s[n].target = "" \/ s[i].target # s[n].target} \cup {n}
      <3>1. 1 .. n = (1 .. n - 1) \cup {n} /\ \A i \in 1 .. n - 1 : i < n
        OBVIOUS
      <3>2. \A j \in 1 .. n : ~(j > n)
        OBVIOUS
      <3>3. n \in Latest(n)
        <4>1. n \in 1 .. n
          OBVIOUS
        <4>2. QED
          BY <3>2, <4>1
      <3>4. ASSUME NEW i \in 1 .. n - 1
            PROVE  i \in Latest(n) <=>
                     i \in Latest(n - 1) /\ (s[n].target = "" \/ s[i].target # s[n].target)
        <4>1. i \in 1 .. n /\ n > i
          OBVIOUS
        <4>2. (\A j \in 1 .. n : j > i => s[j].target # s[i].target) <=>
                /\ \A j \in 1 .. n - 1 : j > i => s[j].target # s[i].target
                /\ s[n].target # s[i].target
          BY <3>1, <4>1
        <4>3. QED
          BY <4>1, <4>2
      <3> HIDE DEF Latest
      <3>5. Latest(n) \subseteq 1 .. n /\ Latest(n - 1) \subseteq 1 .. n - 1
        BY DEF Latest
      <3>6. QED
        BY <3>1, <3>3, <3>4, <3>5
    <2> HIDE DEF Latest
    <2>5. {s[i] : i \in Latest(n)} =
            {x \in Range(f[n - 1]) : s[n].target = "" \/ x.target # s[n].target} \cup {s[n]}
      BY <2>3, <2>4
    <2>6. n \in 0 .. L
      OBVIOUS
    <2>7. QED
      BY <2>2, <2>5, <2>6
  <1> HIDE DEF G
  <1>5. 0 .. L \subseteq G
    BY <1>3, <1>4, UpTo
  <1>6. L \in G
    BY <1>5
  <1>7. f[L] \in Seq(MountType)
    BY <1>1, <1>2
  <1>8. QED
    BY <1>1, <1>2, <1>6, <1>7 DEF G

LEMMA UnionMembers ==
    ASSUME NEW T, NEW s \in Seq(T)
    PROVE  /\ unionDedup(s) \in Seq(T) /\ Range(unionDedup(s)) = Range(s)
           /\ IsInjective(unionDedup(s))
  <1>1. PICK f \in [0 .. Len(s) -> Seq(T)] :
          /\ f[0] = <<>> /\ unionDedup(s) = f[Len(s)]
          /\ \A n \in 1 .. Len(s) :
               f[n] = IF s[n] \in Range(f[n - 1]) THEN f[n - 1] ELSE Append(f[n - 1], s[n])
    BY UnionUnfolds
  <1>2. PICK L \in Nat : L = Len(s) /\ DOMAIN s = 1 .. L
    OBVIOUS
  <1> DEFINE G == {n \in 0 .. L : Range(f[n]) = {s[i] : i \in 1 .. n} /\ IsInjective(f[n])}
  <1>3. 0 \in G
    <2>1. Range(<<>>) = {} /\ IsInjective(<<>>)
      BY DEF Range, IsInjective
    <2>2. QED
      BY <1>1, <2>1
  <1>4. ASSUME NEW n \in 1 .. L, n - 1 \in G
        PROVE  n \in G
    <2>1. PICK q \in Seq(T) : q = f[n - 1]
      BY <1>1, <1>2
    <2>2. s[n] \in T /\ f[n] = IF s[n] \in Range(q) THEN q ELSE Append(q, s[n])
      BY <1>1, <1>2, <2>1
    <2>3. Range(q) = {s[i] : i \in 1 .. n - 1} /\ IsInjective(q)
      BY <1>4, <2>1
    <2>4. 1 .. n = (1 .. n - 1) \cup {n}
      OBVIOUS
    <2>5. CASE s[n] \in Range(q)
      <3>1. Range(q) = {s[i] : i \in 1 .. n}
        BY <2>3, <2>4, <2>5
      <3>2. QED
        BY <2>2, <2>3, <2>5, <3>1
    <2>6. CASE s[n] \notin Range(q)
      <3>1. PICK x : x = s[n]
        OBVIOUS
      <3>2. PICK r : r = Append(q, x)
        OBVIOUS
      <3>3. PICK M \in Nat : M = Len(q)
        OBVIOUS
      <3>4. DOMAIN r = 1 .. M + 1 /\ \A k \in 1 .. M + 1 : r[k] = IF k = M + 1 THEN x ELSE q[k]
        BY <2>2, <3>1, <3>2, <3>3
      <3>5. \A k \in 1 .. M : q[k] # x
        <4>1. DOMAIN q = 1 .. M
          BY <3>3
        <4>2. QED
          BY <2>6, <3>1, <4>1 DEF Range
      <3>6. \A k, j \in 1 .. M : q[k] = q[j] => k = j
        BY <2>3, <3>3 DEF IsInjective
      <3>7. ASSUME NEW k \in 1 .. M + 1, NEW j \in 1 .. M + 1, r[k] = r[j]
            PROVE  k = j
        <4>1. k = M + 1 \/ k \in 1 .. M
          OBVIOUS
        <4>2. j = M + 1 \/ j \in 1 .. M
          OBVIOUS
        <4>3. QED
          BY <3>4, <3>5, <3>6, <3>7, <4>1, <4>2
      <3>8. IsInjective(r)
        BY <3>4, <3>7 DEF IsInjective
      <3>9. Range(r) = Range(q) \cup {x}
        BY <2>2, <3>1, <3>2, RangeAppend
      <3>10. Range(r) = {s[i] : i \in 1 .. n}
        BY <2>3, <2>4, <3>1, <3>9
      <3>11. f[n] = r
        BY <2>2, <2>6, <3>1, <3>2
      <3>12. QED
        BY <3>8, <3>10, <3>11
    <2>7. QED
      BY <2>5, <2>6
  <1> HIDE DEF G
  <1>5. 0 .. L \subseteq G
    BY <1>3, <1>4, UpTo
  <1>6. L \in G
    BY <1>5
  <1>7. f[L] \in Seq(T) /\ Range(s) = {s[i] : i \in 1 .. L}
    BY <1>1, <1>2 DEF Range
  <1>8. QED
    BY <1>1, <1>2, <1>6, <1>7 DEF G

(* The value is the last one that is set.                                  *)
IsLast(x, values, unset) ==
    \/ x = unset /\ \A i \in DOMAIN values : values[i] = unset
    \/ \E i \in DOMAIN values : /\ values[i] # unset /\ x = values[i]
                                /\ \A j \in DOMAIN values : j > i => values[j] = unset

LEMMA LastIsOne ==
    ASSUME NEW T, NEW values \in Seq(T), NEW unset \in T, NEW x, IsLast(x, values, unset)
    PROVE  x = LastSet(values, unset)
  <1>1. CASE \A i \in DOMAIN values : values[i] = unset
    BY <1>1 DEF IsLast, LastSet
  <1>2. CASE ~ \A i \in DOMAIN values : values[i] = unset
    <2>1. PICK i \in DOMAIN values : /\ values[i] # unset /\ x = values[i]
                                     /\ \A j \in DOMAIN values : j > i => values[j] = unset
      BY <1>2 DEF IsLast
    <2> DEFINE k == CHOOSE h \in DOMAIN values :
                      /\ values[h] # unset
                      /\ \A j \in DOMAIN values : j > h => values[j] = unset
    <2>2. /\ k \in DOMAIN values /\ values[k] # unset
          /\ \A j \in DOMAIN values : j > k => values[j] = unset
      BY <2>1, Zenon
    <2>3. LastSet(values, unset) = values[k]
      BY <1>2 DEF LastSet
    <2> HIDE DEF k
    <2>4. ~(k > i) /\ ~(i > k)
      BY <2>1, <2>2
    <2>5. i \in Nat /\ k \in Nat
      BY <2>1, <2>2
    <2>6. i = k
      BY <2>4, <2>5
    <2>7. QED
      BY <2>1, <2>3, <2>6
  <1>3. QED
    BY <1>1, <1>2

LEMMA LastAppend ==
    ASSUME NEW T, NEW values \in Seq(T), NEW unset \in T, NEW x, NEW y \in T,
           IsLast(x, values, unset)
    PROVE  IsLast(IF y # unset THEN y ELSE x, Append(values, y), unset)
  <1>1. PICK L \in Nat : L = Len(values) /\ DOMAIN values = 1 .. L
    OBVIOUS
  <1>2. PICK v : v = Append(values, y)
    OBVIOUS
  <1>3. DOMAIN v = 1 .. L + 1 /\ v[L + 1] = y /\ \A n \in 1 .. L : v[n] = values[n]
    BY <1>1, <1>2
  <1>4. 1 .. L + 1 = (1 .. L) \cup {L + 1} /\ \A n \in 1 .. L : n < L + 1 /\ n \in 1 .. L + 1
    BY <1>1
  <1>5. CASE y # unset
    <2>1. \A j \in 1 .. L + 1 : ~(j > L + 1)
      BY <1>1
    <2>2. L + 1 \in 1 .. L + 1
      BY <1>1
    <2>3. IsLast(y, v, unset)
      BY <1>3, <1>5, <2>1, <2>2 DEF IsLast
    <2>4. QED
      BY <1>2, <1>5, <2>3
  <1>6. CASE y = unset /\ \A i \in DOMAIN values : values[i] = unset
    <2>1. x = unset
      BY <1>6 DEF IsLast
    <2>2. \A i \in 1 .. L + 1 : v[i] = unset
      BY <1>1, <1>3, <1>4, <1>6
    <2>3. IsLast(x, v, unset)
      BY <1>3, <2>1, <2>2 DEF IsLast
    <2>4. QED
      BY <1>2, <1>6, <2>3
  <1>7. CASE y = unset /\ ~ \A i \in DOMAIN values : values[i] = unset
    <2>1. PICK i \in 1 .. L : /\ values[i] # unset /\ x = values[i]
                              /\ \A j \in 1 .. L : j > i => values[j] = unset
      BY <1>1, <1>7 DEF IsLast
    <2>2. i \in 1 .. L + 1 /\ v[i] # unset /\ x = v[i]
      BY <1>3, <1>4, <2>1
    <2>3. \A j \in 1 .. L + 1 : j > i => v[j] = unset
      BY <1>3, <1>4, <1>7, <2>1
    <2>4. IsLast(x, v, unset)
      BY <1>3, <2>2, <2>3 DEF IsLast
    <2>5. QED
      BY <1>2, <1>7, <2>4
  <1>8. QED
    BY <1>5, <1>6, <1>7

(* The same for the first n values.                                        *)
IsLastOf(x, values, n, unset) ==
    \/ x = unset /\ \A i \in 1 .. n : values[i] = unset
    \/ \E i \in 1 .. n : /\ values[i] # unset /\ x = values[i]
                         /\ \A j \in 1 .. n : j > i => values[j] = unset

LEMMA LastOfNext ==
    ASSUME NEW n \in Nat, n # 0, NEW values, NEW unset, NEW x, IsLastOf(x, values, n - 1, unset)
    PROVE  IsLastOf(IF values[n] # unset THEN values[n] ELSE x, values, n, unset)
  <1>1. 1 .. n = (1 .. n - 1) \cup {n} /\ \A i \in 1 .. n - 1 : i < n /\ n > i
    OBVIOUS
  <1>2. (\A j \in 1 .. n : ~(j > n)) /\ n \in 1 .. n
    OBVIOUS
  <1>3. CASE values[n] # unset
    BY <1>2, <1>3 DEF IsLastOf
  <1>4. CASE values[n] = unset /\ \A i \in 1 .. n - 1 : values[i] = unset
    <2>1. x = unset
      BY <1>4 DEF IsLastOf
    <2>2. \A i \in 1 .. n : values[i] = unset
      BY <1>1, <1>4
    <2>3. QED
      BY <1>4, <2>1, <2>2 DEF IsLastOf
  <1>5. CASE values[n] = unset /\ ~ \A i \in 1 .. n - 1 : values[i] = unset
    <2>1. PICK i \in 1 .. n - 1 : /\ values[i] # unset /\ x = values[i]
                                  /\ \A j \in 1 .. n - 1 : j > i => values[j] = unset
      BY <1>5 DEF IsLastOf
    <2>2. i \in 1 .. n /\ \A j \in 1 .. n : j > i => values[j] = unset
      BY <1>1, <1>5, <2>1
    <2>3. QED
      BY <1>5, <2>1, <2>2 DEF IsLastOf
  <1>6. QED
    BY <1>3, <1>4, <1>5

LEMMA PickLast ==
    ASSUME NEW T, NEW unset \in T, NEW own \in T, NEW values \in Seq(T)
    PROVE  /\ pick(own, values, unset) = IF own # unset THEN own ELSE LastSet(values, unset)
           /\ IsLast(LastSet(values, unset), values, unset) /\ LastSet(values, unset) \in T
  <1>1. PICK f \in [0 .. Len(values) -> T] :
          /\ f[0] = unset
          /\ pick(own, values, unset) = IF own # unset THEN own ELSE f[Len(values)]
          /\ \A n \in 1 .. Len(values) :
               f[n] = IF values[n] # unset THEN values[n] ELSE f[n - 1]
    BY PickUnfolds
  <1>2. PICK L \in Nat : L = Len(values) /\ DOMAIN values = 1 .. L
    OBVIOUS
  <1> DEFINE G == {n \in 0 .. L : IsLastOf(f[n], values, n, unset)}
  <1>3. 0 \in G
    <2>1. \A i \in 1 .. 0 : values[i] = unset
      OBVIOUS
    <2>2. QED
      BY <1>1, <2>1 DEF IsLastOf
  <1>4. ASSUME NEW n \in 1 .. L, n - 1 \in G
        PROVE  n \in G
    <2>1. IsLastOf(IF values[n] # unset THEN values[n] ELSE f[n - 1], values, n, unset)
      BY <1>4, LastOfNext
    <2>2. f[n] = IF values[n] # unset THEN values[n] ELSE f[n - 1]
      BY <1>1, <1>2
    <2>3. n \in 0 .. L
      OBVIOUS
    <2>4. QED
      BY <2>1, <2>2, <2>3
  <1> HIDE DEF G
  <1>5. 0 .. L \subseteq G
    BY <1>3, <1>4, UpTo
  <1>6. L \in G
    BY <1>5
  <1>7. IsLast(f[L], values, unset)
    BY <1>2, <1>6 DEF G, IsLast, IsLastOf
  <1>8. f[L] = LastSet(values, unset)
    BY <1>7, LastIsOne
  <1>9. f[L] \in T
    BY <1>1, <1>2
  <1>10. QED
    BY <1>1, <1>2, <1>7, <1>8, <1>9

LEMMA LastSetAppend ==
    ASSUME NEW T, NEW values \in Seq(T), NEW unset \in T, NEW y \in T
    PROVE  LastSet(Append(values, y), unset) = IF y # unset THEN y ELSE LastSet(values, unset)
  <1>1. IsLast(LastSet(values, unset), values, unset)
    BY PickLast
  <1>2. IsLast(IF y # unset THEN y ELSE LastSet(values, unset), Append(values, y), unset)
    BY <1>1, LastAppend
  <1>3. Append(values, y) \in Seq(T)
    OBVIOUS
  <1>4. QED
    BY <1>2, <1>3, LastIsOne

LEMMA MapsLast ==
    ASSUME NEW maps \in Seq(Env), NEW own \in Env
    PROVE  /\ mergeStringMaps(maps, own) \in Env
           /\ \A k \in Variable :
                mergeStringMaps(maps, own)[k] =
                  IF own[k] # "nil" THEN own[k]
                  ELSE LastSet([i \in DOMAIN maps |-> maps[i][k]], "nil")
  <1>1. PICK f \in [0 .. Len(maps) -> Env] :
          /\ f[0] = NoEnv /\ mergeStringMaps(maps, own) = Overlay(f[Len(maps)], own)
          /\ \A n \in 1 .. Len(maps) : f[n] = Overlay(f[n - 1], maps[n])
    BY MapsUnfold
  <1>2. PICK L \in Nat : L = Len(maps) /\ DOMAIN maps = 1 .. L
    OBVIOUS
  <1>3. f[L] \in Env /\ mergeStringMaps(maps, own) = Overlay(f[L], own)
    BY <1>1, <1>2
  <1>4. mergeStringMaps(maps, own) \in Env
    BY <1>3 DEF Overlay, Env
  <1>5. ASSUME NEW k \in Variable
        PROVE  mergeStringMaps(maps, own)[k] =
                  IF own[k] # "nil" THEN own[k]
                  ELSE LastSet([i \in DOMAIN maps |-> maps[i][k]], "nil")
    <2>1. PICK values : values = [i \in DOMAIN maps |-> maps[i][k]]
      OBVIOUS
    <2>2. \A i \in 1 .. L : maps[i][k] \in Text
      BY <1>2 DEF Env
    <2>3. values \in Seq(Text) /\ DOMAIN values = 1 .. L /\ \A i \in 1 .. L : values[i] = maps[i][k]
      BY <1>2, <2>1, <2>2
    <2> DEFINE G == {n \in 0 .. L : IsLastOf(f[n][k], values, n, "nil")}
    <2>4. 0 \in G
      <3>1. \A i \in 1 .. 0 : values[i] = "nil"
        OBVIOUS
      <3>2. f[0][k] = "nil"
        BY <1>1 DEF NoEnv
      <3>3. QED
        BY <3>1, <3>2 DEF IsLastOf
    <2>5. ASSUME NEW n \in 1 .. L, n - 1 \in G
          PROVE  n \in G
      <3>1. IsLastOf(IF values[n] # "nil" THEN values[n] ELSE f[n - 1][k], values, n, "nil")
        BY <2>5, LastOfNext
      <3>2. f[n] = Overlay(f[n - 1], maps[n])
        BY <1>1, <1>2
      <3>3. f[n][k] = IF values[n] # "nil" THEN values[n] ELSE f[n - 1][k]
        BY <2>3, <3>2 DEF Overlay
      <3>4. n \in 0 .. L
        OBVIOUS
      <3>5. QED
        BY <3>1, <3>3, <3>4
    <2> HIDE DEF G
    <2>6. 0 .. L \subseteq G
      BY <2>4, <2>5, UpTo
    <2>7. L \in G
      BY <2>6
    <2>8. IsLast(f[L][k], values, "nil")
      BY <2>3, <2>7 DEF G, IsLast, IsLastOf
    <2>9. f[L][k] = LastSet(values, "nil")
      BY <2>3, <2>8, LastIsOne, ConfigAssumption
    <2>10. mergeStringMaps(maps, own)[k] = IF own[k] # "nil" THEN own[k] ELSE f[L][k]
      BY <1>3 DEF Overlay
    <2>11. QED
      BY <2>1, <2>9, <2>10
  <1>6. QED
    BY <1>4, <1>5

LEMMA FlattenType ==
    ASSUME NEW T, NEW ss \in Seq(Seq(T))
    PROVE  FlattenSeq(ss) \in Seq(T)
  <1>1. PICK f \in [0 .. Len(ss) -> Seq(T)] : FlattenSeq(ss) = f[Len(ss)]
    BY FlattenUnfolds
  <1>2. Len(ss) \in 0 .. Len(ss)
    OBVIOUS
  <1>3. QED
    BY <1>1, <1>2

LEMMA FlattenAppend ==
    ASSUME NEW T, NEW ss \in Seq(Seq(T)), NEW t \in Seq(T)
    PROVE  FlattenSeq(Append(ss, t)) = FlattenSeq(ss) \o t
  <1>1. PICK f \in [0 .. Len(ss) -> Seq(T)] :
          /\ f[0] = <<>> /\ FlattenSeq(ss) = f[Len(ss)]
          /\ \A n \in 1 .. Len(ss) : f[n] = f[n - 1] \o ss[n]
    BY FlattenUnfolds
  <1>2. PICK tt \in Seq(Seq(T)) : tt = Append(ss, t)
    <2>1. Append(ss, t) \in Seq(Seq(T))
      OBVIOUS
    <2>2. QED
      BY <2>1
  <1>3. PICK g \in [0 .. Len(tt) -> Seq(T)] :
          /\ g[0] = <<>> /\ FlattenSeq(tt) = g[Len(tt)]
          /\ \A n \in 1 .. Len(tt) : g[n] = g[n - 1] \o tt[n]
    BY FlattenUnfolds
  <1>4. PICK L \in Nat : L = Len(ss)
    OBVIOUS
  <1>5. Len(tt) = L + 1 /\ tt[L + 1] = t /\ \A n \in 1 .. L : tt[n] = ss[n]
    BY <1>2, <1>4
  <1> DEFINE G == {n \in 0 .. L : f[n] = g[n]}
  <1>6. 0 \in G
    BY <1>1, <1>3
  <1>7. ASSUME NEW n \in 1 .. L, n - 1 \in G
        PROVE  n \in G
    <2>1. f[n] = f[n - 1] \o ss[n]
      BY <1>1, <1>4
    <2>2. n \in 1 .. L + 1
      OBVIOUS
    <2>3. g[n] = g[n - 1] \o tt[n]
      BY <1>3, <1>5, <2>2
    <2>4. tt[n] = ss[n] /\ f[n - 1] = g[n - 1]
      BY <1>5, <1>7
    <2>5. f[n] = g[n]
      BY <2>1, <2>3, <2>4
    <2>6. QED
      BY <2>5
  <1> HIDE DEF G
  <1>8. 0 .. L \subseteq G
    BY <1>6, <1>7, UpTo
  <1>9. f[L] = g[L]
    BY <1>8 DEF G
  <1>10. g[L + 1] = g[L] \o t
    <2>1. L + 1 \in 1 .. L + 1 /\ (L + 1) - 1 = L
      OBVIOUS
    <2>2. g[L + 1] = g[(L + 1) - 1] \o tt[L + 1]
      BY <1>3, <1>5, <2>1
    <2>3. QED
      BY <1>5, <2>1, <2>2
  <1>11. FlattenSeq(tt) = g[L + 1] /\ FlattenSeq(ss) = f[L]
    BY <1>1, <1>3, <1>4, <1>5
  <1>12. QED
    BY <1>2, <1>9, <1>10, <1>11

LEMMA RangeConcat ==
    ASSUME NEW T, NEW s \in Seq(T), NEW t \in Seq(T)
    PROVE  Range(s \o t) = Range(s) \cup Range(t)
  <1>1. PICK u : u = s \o t
    OBVIOUS
  <1>2. PICK L \in Nat : L = Len(s)
    OBVIOUS
  <1>3. PICK M \in Nat : M = Len(t)
    OBVIOUS
  <1>4. /\ DOMAIN s = 1 .. L /\ DOMAIN t = 1 .. M /\ DOMAIN u = 1 .. L + M
        /\ \A n \in 1 .. L + M : u[n] = IF n <= L THEN s[n] ELSE t[n - L]
    BY <1>1, <1>2, <1>3
  <1>5. \A n \in 1 .. L + M : u[n] \in Range(s) \cup Range(t)
    <2> TAKE n \in 1 .. L + M
    <2>1. CASE n <= L
      <3>1. n \in 1 .. L /\ u[n] = s[n]
        BY <1>4, <2>1
      <3>2. QED
        BY <1>4, <3>1 DEF Range
    <2>2. CASE ~(n <= L)
      <3>1. n - L \in 1 .. M /\ u[n] = t[n - L]
        BY <1>4, <2>2
      <3>2. QED
        BY <1>4, <3>1 DEF Range
    <2>3. QED
      BY <2>1, <2>2
  <1>6. \A n \in 1 .. L : s[n] \in Range(u)
    <2> TAKE n \in 1 .. L
    <2>1. n \in 1 .. L + M /\ u[n] = s[n]
      BY <1>4
    <2>2. QED
      BY <1>4, <2>1 DEF Range
  <1>7. \A n \in 1 .. M : t[n] \in Range(u)
    <2> TAKE n \in 1 .. M
    <2>1. L + n \in 1 .. L + M /\ u[L + n] = t[(L + n) - L] /\ (L + n) - L = n
      BY <1>4
    <2>2. QED
      BY <1>4, <2>1 DEF Range
  <1>8. Range(s) \cup Range(t) \subseteq Range(u)
    BY <1>4, <1>6, <1>7 DEF Range
  <1>9. Range(u) \subseteq Range(s) \cup Range(t)
    <2>1. Range(u) = {u[n] : n \in 1 .. L + M}
      BY <1>4 DEF Range
    <2>2. QED
      BY <1>5, <2>1
  <1>10. QED
    BY <1>1, <1>8, <1>9

LEMMA FlattenRange ==
    ASSUME NEW T, NEW ss \in Seq(Seq(T))
    PROVE  Range(FlattenSeq(ss)) = UNION {Range(ss[i]) : i \in DOMAIN ss}
  <1>1. PICK f \in [0 .. Len(ss) -> Seq(T)] :
          /\ f[0] = <<>> /\ FlattenSeq(ss) = f[Len(ss)]
          /\ \A n \in 1 .. Len(ss) : f[n] = f[n - 1] \o ss[n]
    BY FlattenUnfolds
  <1>2. PICK L \in Nat : L = Len(ss) /\ DOMAIN ss = 1 .. L
    OBVIOUS
  <1> DEFINE G == {n \in 0 .. L :
                     \A x : x \in Range(f[n]) <=> \E i \in 1 .. n : x \in Range(ss[i])}
  <1>3. 0 \in G
    <2>1. \A x : x \notin Range(f[0])
      BY <1>1 DEF Range
    <2>2. QED
      BY <2>1
  <1>4. ASSUME NEW n \in 1 .. L, n - 1 \in G
        PROVE  n \in G
    <2>1. f[n] = f[n - 1] \o ss[n]
      BY <1>1, <1>2
    <2>2. f[n - 1] \in Seq(T)
      <3>1. n - 1 \in 0 .. L
        OBVIOUS
      <3>2. f \in [0 .. L -> Seq(T)]
        BY <1>2
      <3>3. QED
        BY <3>1, <3>2
    <2>3. ss[n] \in Seq(T)
      BY <1>2
    <2>4. Range(f[n]) = Range(f[n - 1]) \cup Range(ss[n])
      BY <2>1, <2>2, <2>3, RangeConcat
    <2>5. 1 .. n = (1 .. n - 1) \cup {n} /\ n \in 0 .. L
      OBVIOUS
    <2>6. \A x : x \in Range(f[n - 1]) <=> \E i \in 1 .. n - 1 : x \in Range(ss[i])
      BY <1>4
    <2>7. ASSUME NEW x
          PROVE  x \in Range(f[n]) <=> \E i \in 1 .. n : x \in Range(ss[i])
      <3>1. x \in Range(f[n]) <=> x \in Range(f[n - 1]) \/ x \in Range(ss[n])
        BY <2>4
      <3>2. (\E i \in 1 .. n : x \in Range(ss[i])) <=>
              (\E i \in 1 .. n - 1 : x \in Range(ss[i])) \/ x \in Range(ss[n])
        BY <2>5
      <3>3. QED
        BY <2>6, <3>1, <3>2
    <2>8. QED
      BY <2>5, <2>7
  <1> HIDE DEF G
  <1>5. 0 .. L \subseteq G
    BY <1>3, <1>4, UpTo
  <1>a. L \in G
    BY <1>5
  <1>6. \A x : x \in Range(f[L]) <=> \E i \in 1 .. L : x \in Range(ss[i])
    BY <1>a DEF G
  <1>7. QED
    BY <1>1, <1>2, <1>6

(* A mount is added where its target is not taken.                         *)
LEMMA MissingFacts ==
    ASSUME NEW volumes \in Seq(MountType), NEW more \in Seq(MountType)
    PROVE  LET all == AddMissing(volumes, more)
           IN  /\ all \in Seq(MountType) /\ Len(volumes) <= Len(all)
               /\ \A k \in 1 .. Len(volumes) : all[k] = volumes[k]
               /\ DistinctTargets(volumes) => DistinctTargets(all)
               /\ DistinctTargets(volumes \o more) => all = volumes \o more
  <1>1. PICK f \in [0 .. Len(more) -> Seq(MountType)] :
          /\ f[0] = volumes /\ AddMissing(volumes, more) = f[Len(more)]
          /\ \A n \in 1 .. Len(more) :
               f[n] = IF more[n].target \in Targets(f[n - 1]) THEN f[n - 1]
                      ELSE Append(f[n - 1], more[n])
    BY MissingUnfolds
  <1>2. PICK L \in Nat : L = Len(volumes) /\ DOMAIN volumes = 1 .. L
    OBVIOUS
  <1>3. PICK M \in Nat : M = Len(more) /\ DOMAIN more = 1 .. M
    OBVIOUS
  <1>4. PICK both \in Seq(MountType) : both = volumes \o more
    <2>1. volumes \o more \in Seq(MountType)
      OBVIOUS
    <2>2. QED
      BY <2>1
  <1>5. /\ Len(both) = L + M /\ DOMAIN both = 1 .. L + M
        /\ \A n \in 1 .. L : both[n] = volumes[n]
        /\ \A n \in 1 .. M : both[L + n] = more[n]
    <2>1. \A n \in 1 .. M : both[L + n] = more[(L + n) - L] /\ (L + n) - L = n
      BY <1>2, <1>3, <1>4
    <2>2. QED
      BY <1>2, <1>3, <1>4, <2>1
  <1> DEFINE Good(n) == /\ f[n] \in Seq(MountType)
                        /\ Len(f[n]) >= L /\ \A k \in 1 .. L : f[n][k] = volumes[k]
             Apart(n) == DistinctTargets(volumes) => DistinctTargets(f[n])
             Same(n) == DistinctTargets(both) =>
                          Len(f[n]) = L + n /\ \A k \in 1 .. L + n : f[n][k] = both[k]
             G == {n \in 0 .. M : Good(n) /\ Apart(n) /\ Same(n)}
  <1>6. 0 \in G
    BY <1>1, <1>2, <1>5
  <1>7. ASSUME NEW n \in 1 .. M, n - 1 \in G
        PROVE  n \in G
    <2>1. PICK q \in Seq(MountType) : q = f[n - 1]
      BY <1>1, <1>3, SMTT(30)
    <2>2. PICK m \in MountType : m = more[n]
      BY <1>3
    <2>3. f[n] = IF m.target \in Targets(q) THEN q ELSE Append(q, m)
      BY <1>1, <1>3, <2>1, <2>2
    <2>4. PICK N \in Nat : N = Len(q) /\ DOMAIN q = 1 .. N
      OBVIOUS
    <2>5. N >= L /\ (\A k \in 1 .. L : q[k] = volumes[k])
      BY <1>7, <2>1, <2>4
    <2>6. DistinctTargets(volumes) => DistinctTargets(q)
      BY <1>7, <2>1
    <2>7. DistinctTargets(both) => N = L + (n - 1) /\ \A k \in 1 .. L + (n - 1) : q[k] = both[k]
      BY <1>7, <2>1, <2>4
    <2>8. PICK r \in Seq(MountType) : r = Append(q, m)
      <3>1. Append(q, m) \in Seq(MountType)
        OBVIOUS
      <3>2. QED
        BY <3>1
    <2>9. /\ Len(r) = N + 1 /\ DOMAIN r = 1 .. N + 1
          /\ \A k \in 1 .. N + 1 : r[k] = IF k = N + 1 THEN m ELSE q[k]
      BY <2>4, <2>8
    <2>10. Targets(q) = {q[k].target : k \in 1 .. N}
      BY <2>4 DEF Targets
    <2>11. CASE m.target \in Targets(q)
      <3>1. f[n] = q
        BY <2>3, <2>11
      <3>2. Good(n)
        BY <2>4, <2>5, <3>1
      <3>3. Apart(n)
        BY <2>6, <3>1
      <3>4. ASSUME DistinctTargets(both)
            PROVE  FALSE
        <4>1. PICK k \in 1 .. N : q[k].target = m.target
          BY <2>10, <2>11
        <4>2. N = L + (n - 1) /\ q[k] = both[k]
          BY <2>7, <3>4, <4>1
        <4>3. both[L + n] = m
          BY <1>5, <2>2
        <4>4. k \in 1 .. L + M /\ L + n \in 1 .. L + M /\ k # L + n
          BY <4>1, <4>2
        <4>5. QED
          BY <1>5, <3>4, <4>1, <4>2, <4>3, <4>4 DEF DistinctTargets
      <3>5. n \in 0 .. M
        OBVIOUS
      <3> HIDE DEF Good, Apart
      <3>6. QED
        BY <3>2, <3>3, <3>4, <3>5
    <2>12. CASE m.target \notin Targets(q)
      <3>1. f[n] = r
        BY <2>3, <2>8, <2>12
      <3>2. Good(n)
        <4>1. \A k \in 1 .. L : k \in 1 .. N + 1 /\ k # N + 1
          BY <2>5
        <4>2. \A k \in 1 .. L : r[k] = volumes[k]
          BY <2>5, <2>9, <4>1
        <4>3. Len(r) >= L
          BY <2>5, <2>9
        <4>4. QED
          BY <3>1, <4>2, <4>3
      <3>3. Apart(n)
        <4> SUFFICES ASSUME DistinctTargets(volumes)
                     PROVE  DistinctTargets(r)
          BY <3>1
        <4>1. \A j, k \in 1 .. N : q[j].target = q[k].target => j = k
          BY <2>4, <2>6 DEF DistinctTargets
        <4>2. \A k \in 1 .. N : q[k].target # m.target
          BY <2>10, <2>12
        <4>3. ASSUME NEW j \in 1 .. N + 1, NEW k \in 1 .. N + 1, r[j].target = r[k].target
              PROVE  j = k
          <5>1. (j = N + 1 \/ j \in 1 .. N) /\ (k = N + 1 \/ k \in 1 .. N)
            OBVIOUS
          <5>2. QED
            BY <2>9, <4>1, <4>2, <4>3, <5>1
        <4>4. QED
          BY <2>9, <4>3 DEF DistinctTargets
      <3>4. Same(n)
        <4> SUFFICES ASSUME DistinctTargets(both)
                     PROVE  Len(r) = L + n /\ \A k \in 1 .. L + n : r[k] = both[k]
          BY <3>1
        <4>1. N + 1 = L + n /\ \A k \in 1 .. N : q[k] = both[k]
          BY <2>7
        <4>2. both[L + n] = m
          BY <1>5, <2>2
        <4>3. ASSUME NEW k \in 1 .. N + 1
              PROVE  r[k] = both[k]
          <5>1. k = N + 1 \/ k \in 1 .. N
            OBVIOUS
          <5>2. QED
            BY <2>9, <4>1, <4>2, <5>1
        <4>4. QED
          BY <2>9, <4>1, <4>3
      <3>5. n \in 0 .. M
        OBVIOUS
      <3> HIDE DEF Good, Apart, Same
      <3>6. QED
        BY <3>2, <3>3, <3>4, <3>5
    <2>13. QED
      BY <2>11, <2>12
  <1> HIDE DEF G
  <1>8. 0 .. M \subseteq G
    BY <1>6, <1>7, UpTo
  <1>9. M \in G
    BY <1>8
  <1>10. PICK all : all = AddMissing(volumes, more)
    OBVIOUS
  <1>11. all = f[M]
    BY <1>1, <1>3, <1>10
  <1>12. /\ all \in Seq(MountType) /\ Len(all) >= L /\ \A k \in 1 .. L : all[k] = volumes[k]
    BY <1>9, <1>11 DEF G
  <1>13. DistinctTargets(volumes) => DistinctTargets(all)
    BY <1>9, <1>11 DEF G
  <1>14. DistinctTargets(both) => Len(all) = L + M /\ \A k \in 1 .. L + M : all[k] = both[k]
    BY <1>9, <1>11 DEF G
  <1>15. DistinctTargets(both) => all = both
    BY <1>5, <1>12, <1>14, SeqEqual
  <1>16. Len(volumes) <= Len(all)
    BY <1>2, <1>12
  <1>17. QED
    BY <1>2, <1>4, <1>10, <1>12, <1>13, <1>15, <1>16

-----------------------------------------------------------------------------
(* The label. *)

Blank(m) == m.type = "" /\ m.source = "" /\ m.target = ""
Lost(h) == h.form \in {"shell", "exec"} /\ h.text = ""

(* What is left of a layer that was written into a label and read back.    *)
Named(ms) == Kept(ms, {i \in DOMAIN ms : ~Blank(ms[i])})
Reread(l) == [id |-> l.id, remoteUser |-> l.remoteUser, privileged |-> l.privileged,
              env |-> l.env, capAdd |-> l.capAdd, mounts |-> Named(l.mounts),
              entrypoint |-> l.entrypoint, hook |-> IF Lost(l.hook) THEN NoHook ELSE l.hook,
              waitFor |-> l.waitFor]

(* A layer of which nothing is lost.                                       *)
Plain == {l \in LayerType : ~Lost(l.hook) /\ \A i \in DOMAIN l.mounts : ~Blank(l.mounts[i])}

LEMMA FieldOmitting ==
    ASSUME NEW r, NEW blank, NEW k \in DOMAIN r
    PROVE  Field(Omitting(r, blank), k, blank[k]) = r[k]
  <1>1. CASE r[k] = blank[k]
    BY <1>1 DEF Field, Omitting
  <1>2. CASE r[k] # blank[k]
    BY <1>2 DEF Field, Omitting
  <1>3. QED
    BY <1>1, <1>2

LEMMA MountsReread ==
    ASSUME NEW ms \in Seq(MountType)
    PROVE  /\ decodeMounts(encodeMounts(ms)) = Named(ms)
           /\ Named(ms) \in Seq(MountType)
           /\ \A i \in DOMAIN Named(ms) : ~Blank(Named(ms)[i])
           /\ (\A i \in DOMAIN ms : ~Blank(ms[i])) => Named(ms) = ms
  <1>1. PICK objs : objs = encodeMounts(ms)
    OBVIOUS
  <1>2. DOMAIN objs = DOMAIN ms /\ \A i \in DOMAIN ms : objs[i] = Omitting(ms[i], NoMount)
    BY <1>1 DEF encodeMounts
  <1>3. PICK back : back = [i \in DOMAIN objs |->
                 [type     |-> Field(objs[i], "type", ""),
                  source   |-> Field(objs[i], "source", ""),
                  target   |-> Field(objs[i], "target", ""),
                  readOnly |-> Field(objs[i], "readOnly", FALSE)]]
    OBVIOUS
  <1>4. ASSUME NEW i \in DOMAIN ms
        PROVE  back[i] = ms[i]
    <2>1. PICK m \in MountType : m = ms[i]
      OBVIOUS
    <2>2. /\ m = [type |-> m.type, source |-> m.source, target |-> m.target,
                  readOnly |-> m.readOnly]
          /\ DOMAIN m = {"type", "source", "target", "readOnly"}
      BY DEF MountType
    <2>3. \A k \in DOMAIN m : Field(Omitting(m, NoMount), k, NoMount[k]) = m[k]
      BY FieldOmitting
    <2>4. /\ NoMount["type"] = "" /\ NoMount["source"] = "" /\ NoMount["target"] = ""
          /\ NoMount["readOnly"] = FALSE
      BY DEF NoMount
    <2>5. /\ Field(Omitting(m, NoMount), "type", "") = m.type
          /\ Field(Omitting(m, NoMount), "source", "") = m.source
          /\ Field(Omitting(m, NoMount), "target", "") = m.target
          /\ Field(Omitting(m, NoMount), "readOnly", FALSE) = m.readOnly
      BY <2>2, <2>3, <2>4
    <2>6. objs[i] = Omitting(m, NoMount)
      BY <1>2, <2>1
    <2>7. back[i] = [type     |-> Field(objs[i], "type", ""),
                     source   |-> Field(objs[i], "source", ""),
                     target   |-> Field(objs[i], "target", ""),
                     readOnly |-> Field(objs[i], "readOnly", FALSE)]
      BY <1>2, <1>3
    <2>8. QED
      BY <2>1, <2>2, <2>5, <2>6, <2>7
  <1>5. back = ms
    <2>1. DOMAIN back = DOMAIN ms /\ back = [i \in DOMAIN ms |-> back[i]]
      BY <1>2, <1>3
    <2>2. QED
      BY <1>4, <2>1
  <1>6. decodeMounts(objs) =
          Kept(back, {i \in DOMAIN back :
                        <<back[i].type, back[i].source, back[i].target>> # <<"", "", "">>})
    BY <1>3, Zenon DEF decodeMounts
  <1>7. {i \in DOMAIN ms : <<ms[i].type, ms[i].source, ms[i].target>> # <<"", "", "">>}
          = {i \in DOMAIN ms : ~Blank(ms[i])}
    BY DEF Blank
  <1>8. decodeMounts(encodeMounts(ms)) = Named(ms)
    BY <1>1, <1>5, <1>6, <1>7 DEF Named
  <1> DEFINE S == {i \in DOMAIN ms : ~Blank(ms[i])}
  <1>9. Kept(ms, S) \in Seq(MountType) /\ Range(Kept(ms, S)) = {ms[n] : n \in S \cap DOMAIN ms}
    BY KeptMembers
  <1>10. \A x \in Range(Kept(ms, S)) : ~Blank(x)
    BY <1>9
  <1>11. (DOMAIN ms \subseteq S) => Kept(ms, S) = ms
    BY KeptAll
  <1>12. (\A i \in DOMAIN ms : ~Blank(ms[i])) => DOMAIN ms \subseteq S
    OBVIOUS
  <1>13. Named(ms) = Kept(ms, S)
    BY DEF Named
  <1> HIDE DEF S
  <1>14. \A i \in DOMAIN Named(ms) : ~Blank(Named(ms)[i])
    BY <1>10, <1>13 DEF Range
  <1>15. QED
    BY <1>8, <1>9, <1>11, <1>12, <1>13, <1>14

LEMMA HookReread ==
    ASSUME NEW h \in HookType \cup {NoHook}
    PROVE  /\ decodeLifecycleCommand(encodeLifecycleCommand(h)) = IF Lost(h) THEN NoHook ELSE h
           /\ ~Lost(NoHook)
  <1>1. ~Lost(NoHook)
    BY DEF Lost, NoHook
  <1>2. CASE h = NoHook
    BY <1>1, <1>2 DEF decodeLifecycleCommand, encodeLifecycleCommand, NoHook, NoJSON
  <1>3. CASE h \in HookType
    <2>1. h = [form |-> h.form, text |-> h.text] /\ h.form \in {"shell", "exec", "parallel"}
      BY <1>3 DEF HookType
    <2>2. CASE Lost(h)
      BY <2>1, <2>2 DEF decodeLifecycleCommand, encodeLifecycleCommand, NoHook, NoJSON, Lost
    <2>3. CASE ~Lost(h)
      <3>1. encodeLifecycleCommand(h) =
              [kind |-> CASE h.form = "shell"    -> "string"
                          [] h.form = "exec"     -> "array"
                          [] h.form = "parallel" -> "object"
                          [] h.form = "none"     -> "absent",
               text |-> h.text]
        BY <2>3 DEF encodeLifecycleCommand, Lost
      <3>2. CASE h.form = "shell"
        <4>1. encodeLifecycleCommand(h) = [kind |-> "string", text |-> h.text]
          BY <3>1, <3>2
        <4>2. PICK j : j = encodeLifecycleCommand(h)
          OBVIOUS
        <4>3. j.kind = "string" /\ j.text = h.text
          BY <4>1, <4>2
        <4>4. decodeLifecycleCommand(j) = [form |-> "shell", text |-> h.text]
          BY <4>3 DEF decodeLifecycleCommand
        <4>5. QED
          BY <1>1, <2>1, <2>3, <3>2, <4>2, <4>4
      <3>3. CASE h.form = "exec"
        <4>1. encodeLifecycleCommand(h) = [kind |-> "array", text |-> h.text]
          BY <3>1, <3>3
        <4>2. PICK j : j = encodeLifecycleCommand(h)
          OBVIOUS
        <4>3. j.kind = "array" /\ j.text = h.text
          BY <4>1, <4>2
        <4>4. decodeLifecycleCommand(j) = [form |-> "exec", text |-> h.text]
          BY <4>3 DEF decodeLifecycleCommand
        <4>5. QED
          BY <1>1, <2>1, <2>3, <3>3, <4>2, <4>4
      <3>4. CASE h.form = "parallel"
        <4>1. encodeLifecycleCommand(h) = [kind |-> "object", text |-> h.text]
          BY <3>1, <3>4
        <4>2. PICK j : j = encodeLifecycleCommand(h)
          OBVIOUS
        <4>3. j.kind = "object" /\ j.text = h.text
          BY <4>1, <4>2
        <4>4. decodeLifecycleCommand(j) = [form |-> "parallel", text |-> h.text]
          BY <4>3 DEF decodeLifecycleCommand
        <4>5. QED
          BY <1>1, <2>1, <2>3, <3>4, <4>2, <4>4
      <3>5. QED
        BY <2>1, <3>2, <3>3, <3>4
    <2>4. QED
      BY <2>2, <2>3
  <1>4. QED
    BY <1>1, <1>2, <1>3

LEMMA LayerReread ==
    ASSUME NEW l \in LayerType
    PROVE  /\ toFeatureMetadata(metadataFromFeatureMetadata(l)) = Reread(l)
           /\ Reread(l) \in Plain /\ (l \in Plain => Reread(l) = l)
  <1> DEFINE d == {"id", "remoteUser", "privileged", "env", "capAdd", "mounts", "entrypoint",
                   "hook", "waitFor"}
  <1>1. /\ l.id \in Text /\ l.remoteUser \in Text /\ l.privileged \in Switch /\ l.env \in Env
        /\ l.capAdd \in Seq(Text) /\ l.mounts \in Seq(MountType) /\ l.entrypoint \in Text
        /\ l.hook \in HookType \cup {NoHook} /\ l.waitFor \in Phase
    BY DEF LayerType
  <1>2. /\ DOMAIN l = d
        /\ l = [id |-> l.id, remoteUser |-> l.remoteUser, privileged |-> l.privileged,
                env |-> l.env, capAdd |-> l.capAdd, mounts |-> l.mounts,
                entrypoint |-> l.entrypoint, hook |-> l.hook, waitFor |-> l.waitFor]
    BY DEF LayerType
  <1>3. PICK ms : ms = encodeMounts(l.mounts)
    OBVIOUS
  <1>4. PICK h : h = encodeLifecycleCommand(l.hook)
    OBVIOUS
  <1>5. PICK r : r = [l EXCEPT !.mounts = ms, !.hook = h]
    OBVIOUS
  <1>6. /\ DOMAIN r = d /\ r.mounts = ms /\ r.hook = h
        /\ r.id = l.id /\ r.remoteUser = l.remoteUser /\ r.privileged = l.privileged
        /\ r.env = l.env /\ r.capAdd = l.capAdd /\ r.entrypoint = l.entrypoint
        /\ r.waitFor = l.waitFor
    BY <1>2, <1>5
  <1>7. PICK e : e = Omitting(r, NoEntry)
    OBVIOUS
  <1>8. metadataFromFeatureMetadata(l) = e
    BY <1>3, <1>4, <1>5, <1>7 DEF metadataFromFeatureMetadata
  <1>9. \A k \in d : Field(e, k, NoEntry[k]) = r[k]
    BY <1>6, <1>7, FieldOmitting
  <1>10. /\ NoEntry["id"] = "" /\ NoEntry["remoteUser"] = "" /\ NoEntry["privileged"] = "nil"
         /\ NoEntry["env"] = NoEnv /\ NoEntry["capAdd"] = <<>> /\ NoEntry["mounts"] = <<>>
         /\ NoEntry["entrypoint"] = "" /\ NoEntry["hook"] = NoJSON /\ NoEntry["waitFor"] = ""
    BY DEF NoEntry, NoLayer
  <1>11. /\ Field(e, "id", "") = l.id /\ Field(e, "remoteUser", "") = l.remoteUser
         /\ Field(e, "privileged", "nil") = l.privileged /\ Field(e, "env", NoEnv) = l.env
         /\ Field(e, "capAdd", <<>>) = l.capAdd /\ Field(e, "mounts", <<>>) = ms
         /\ Field(e, "entrypoint", "") = l.entrypoint /\ Field(e, "hook", NoJSON) = h
         /\ Field(e, "waitFor", "") = l.waitFor
    BY <1>6, <1>9, <1>10
  <1>12. /\ decodeMounts(ms) = Named(l.mounts) /\ Named(l.mounts) \in Seq(MountType)
         /\ \A i \in DOMAIN Named(l.mounts) : ~Blank(Named(l.mounts)[i])
         /\ (\A i \in DOMAIN l.mounts : ~Blank(l.mounts[i])) => Named(l.mounts) = l.mounts
    BY <1>1, <1>3, MountsReread
  <1>13. decodeLifecycleCommand(h) = (IF Lost(l.hook) THEN NoHook ELSE l.hook) /\ ~Lost(NoHook)
    BY <1>1, <1>4, HookReread
  <1>14. toFeatureMetadata(e) = Reread(l)
    BY <1>11, <1>12, <1>13 DEF toFeatureMetadata, Reread
  <1>15. Reread(l) \in LayerType
    BY <1>1, <1>12 DEF Reread, LayerType
  <1>16. ~Lost(Reread(l).hook)
    BY <1>13 DEF Reread
  <1>17. Reread(l).mounts = Named(l.mounts)
    BY DEF Reread
  <1>18. Reread(l) \in Plain
    BY <1>12, <1>15, <1>16, <1>17 DEF Plain
  <1>19. ASSUME l \in Plain
         PROVE  Reread(l) = l
    <2>1. ~Lost(l.hook) /\ Named(l.mounts) = l.mounts
      BY <1>12, <1>19 DEF Plain
    <2>2. QED
      BY <1>2, <2>1 DEF Reread
  <1>20. QED
    BY <1>8, <1>14, <1>18, <1>19

-----------------------------------------------------------------------------
(* Substitution. *)

SubEnv(env, h) == [k \in Variable |-> ResolveString(env[k], h)]
SubList(s, h) == [i \in DOMAIN s |-> ResolveString(s[i], h)]
SubMounts(ms, h) == [i \in DOMAIN ms |-> SubstitutedMount(ms[i], h)]
SubHook(k, h) == [k EXCEPT !.text = ResolveString(@, h)]

LEMMA ResolvedText ==
    ASSUME NEW h \in Hosts, NEW s \in Text
    PROVE  ResolveString(s, h) \in Text
  BY ConfigAssumption DEF ResolveString

LEMMA SubstitutedParts ==
    ASSUME NEW h \in Hosts
    PROVE  /\ \A env \in Env : SubEnv(env, h) \in Env
           /\ \A s \in Seq(Text) : SubList(s, h) \in Seq(Text)
           /\ \A ms \in Seq(MountType) : SubMounts(ms, h) \in Seq(MountType)
           /\ \A k \in HookType \cup {NoHook} :
                /\ SubHook(k, h) \in HookType \cup {NoHook}
                /\ SubHook(k, h) = NoHook <=> k = NoHook
  <1>1. \A env \in Env : SubEnv(env, h) \in Env
    <2> SUFFICES ASSUME NEW env \in Env
                 PROVE  SubEnv(env, h) \in Env
      OBVIOUS
    <2>1. \A k \in Variable : ResolveString(env[k], h) \in Text
      BY ResolvedText DEF Env
    <2>2. QED
      BY <2>1 DEF SubEnv, Env
  <1>2. \A s \in Seq(Text) : SubList(s, h) \in Seq(Text)
    <2> SUFFICES ASSUME NEW s \in Seq(Text)
                 PROVE  SubList(s, h) \in Seq(Text)
      OBVIOUS
    <2>1. PICK L \in Nat : L = Len(s) /\ DOMAIN s = 1 .. L
      OBVIOUS
    <2>2. \A i \in 1 .. L : ResolveString(s[i], h) \in Text
      BY <2>1, ResolvedText
    <2>3. QED
      BY <2>1, <2>2 DEF SubList
  <1>3. \A ms \in Seq(MountType) : SubMounts(ms, h) \in Seq(MountType)
    <2> SUFFICES ASSUME NEW ms \in Seq(MountType)
                 PROVE  SubMounts(ms, h) \in Seq(MountType)
      OBVIOUS
    <2>1. PICK L \in Nat : L = Len(ms) /\ DOMAIN ms = 1 .. L
      OBVIOUS
    <2>2. ASSUME NEW m \in MountType
          PROVE  SubstitutedMount(m, h) \in MountType
      <3>1. ResolveString(m.source, h) \in Text /\ ResolveString(m.target, h) \in Text
        BY ResolvedText DEF MountType
      <3>2. QED
        BY <3>1 DEF SubstitutedMount, MountType
    <2>3. \A i \in 1 .. L : SubstitutedMount(ms[i], h) \in MountType
      BY <2>1, <2>2
    <2>4. QED
      BY <2>1, <2>3 DEF SubMounts
  <1>4. ResolveString("", h) = ""
    BY DEF ResolveString, Placeholder
  <1>5. SubHook(NoHook, h) = NoHook
    <2>1. PICK n : n = NoHook
      OBVIOUS
    <2>2. n = [form |-> "none", text |-> ""] /\ n.text = "" /\ DOMAIN n = {"form", "text"}
      BY <2>1 DEF NoHook
    <2>3. [n EXCEPT !.text = ""] = n
      BY <2>2
    <2>4. SubHook(n, h) = [n EXCEPT !.text = ""]
      BY <1>4, <2>2 DEF SubHook
    <2>5. QED
      BY <2>1, <2>3, <2>4
  <1>6. ASSUME NEW k \in HookType
        PROVE  SubHook(k, h) \in HookType /\ SubHook(k, h) # NoHook /\ k # NoHook
    <2>1. k = [form |-> k.form, text |-> k.text] /\ k.text \in Text
          /\ k.form \in {"shell", "exec", "parallel"}
      BY DEF HookType
    <2>2. ResolveString(k.text, h) \in Text
      BY <2>1, ResolvedText
    <2>3. SubHook(k, h) = [form |-> k.form, text |-> ResolveString(k.text, h)]
      BY <2>1 DEF SubHook
    <2>4. SubHook(k, h) \in HookType
      BY <2>1, <2>2, <2>3 DEF HookType
    <2>5. \A j \in HookType : j.form # "none"
      BY DEF HookType
    <2>6. NoHook.form = "none"
      BY DEF NoHook
    <2>7. QED
      BY <2>4, <2>5, <2>6
  <1>7. QED
    BY <1>1, <1>2, <1>3, <1>5, <1>6

LEMMA SubstitutedBlanks ==
    ASSUME NEW h \in Hosts
    PROVE  /\ SubEnv(NoEnv, h) = NoEnv /\ SubList(<<>>, h) = <<>> /\ SubMounts(<<>>, h) = <<>>
           /\ ResolveString("", h) = ""
  <1>1. ResolveString("", h) = ""
    BY DEF ResolveString, Placeholder
  <1>2. SubEnv(NoEnv, h) = NoEnv
    <2>1. ResolveString("nil", h) = "nil"
      BY DEF ResolveString, Placeholder
    <2>2. QED
      BY <2>1 DEF SubEnv, NoEnv
  <1>3. SubList(<<>>, h) = <<>> /\ SubMounts(<<>>, h) = <<>>
    BY DEF SubList, SubMounts
  <1>4. QED
    BY <1>1, <1>2, <1>3

LEMMA SubstitutedFields ==
    ASSUME NEW h \in Hosts, NEW l \in LayerType \cup UserType
    PROVE  LET r == Substituted(l, h)
           IN  /\ DOMAIN r = DOMAIN l
               /\ r.remoteUser = ResolveString(l.remoteUser, h)
               /\ r.privileged = l.privileged /\ r.env = SubEnv(l.env, h)
               /\ r.capAdd = SubList(l.capAdd, h) /\ r.mounts = SubMounts(l.mounts, h)
               /\ r.hook = SubHook(l.hook, h) /\ r.waitFor = l.waitFor
               /\ r.entrypoint = l.entrypoint
               /\ l \in UserType => r.features = l.features
  <1>1. PICK u : u = ResolveString(l.remoteUser, h)
    OBVIOUS
  <1>2. PICK e : e = SubEnv(l.env, h)
    OBVIOUS
  <1>3. PICK c : c = SubList(l.capAdd, h)
    OBVIOUS
  <1>4. PICK ms : ms = SubMounts(l.mounts, h)
    OBVIOUS
  <1>5. PICK k : k = SubHook(l.hook, h)
    OBVIOUS
  <1>6. /\ {"remoteUser", "privileged", "env", "capAdd", "mounts", "entrypoint", "hook",
            "waitFor"} \subseteq DOMAIN l
        /\ l \in UserType => "features" \in DOMAIN l
    BY DEF LayerType, UserType
  <1>7. /\ e = [v \in Variable |-> ResolveString(l.env[v], h)]
        /\ c = [i \in DOMAIN l.capAdd |-> ResolveString(l.capAdd[i], h)]
        /\ ms = [i \in DOMAIN l.mounts |->
                   SubstitutedMount(l.mounts[i], h)]
        /\ k = [l.hook EXCEPT !.text = ResolveString(@, h)]
    BY <1>2, <1>3, <1>4, <1>5, Zenon DEF SubEnv, SubList, SubMounts, SubHook
  <1>8. PICK r : r = Substituted(l, h)
    OBVIOUS
  <1>9. r = [l EXCEPT !.remoteUser = u, !.env = e, !.capAdd = c, !.mounts = ms, !.hook = k]
    BY <1>1, <1>7, <1>8 DEF Substituted
  <1>10. /\ DOMAIN r = DOMAIN l /\ r.remoteUser = u /\ r.env = e /\ r.capAdd = c
         /\ r.mounts = ms /\ r.hook = k
         /\ r.privileged = l.privileged /\ r.waitFor = l.waitFor /\ r.entrypoint = l.entrypoint
         /\ l \in UserType => r.features = l.features
    BY <1>6, <1>9
  <1>11. QED
    BY <1>1, <1>2, <1>3, <1>4, <1>5, <1>8, <1>10


-----------------------------------------------------------------------------
(* The merge. *)

LEMMA Elementwise ==
    ASSUME NEW T, NEW n \in Nat, NEW s, s = [i \in 1 .. n |-> s[i]], \A i \in 1 .. n : s[i] \in T
    PROVE  s \in Seq(T)
  OBVIOUS

LEMMA LayerFields ==
    ASSUME NEW h \in Hosts, NEW l \in LayerType
    PROVE  LET r == [Substituted(l, h) EXCEPT !.entrypoint = ResolveString(@, h)]
           IN  /\ r \in LayerType
               /\ r.remoteUser = ResolveString(l.remoteUser, h)
               /\ r.privileged = l.privileged /\ r.env = SubEnv(l.env, h)
               /\ r.capAdd = SubList(l.capAdd, h) /\ r.mounts = SubMounts(l.mounts, h)
               /\ r.hook = SubHook(l.hook, h) /\ r.waitFor = l.waitFor
               /\ r.entrypoint = ResolveString(l.entrypoint, h)
  <1> DEFINE d == {"id", "remoteUser", "privileged", "env", "capAdd", "mounts", "entrypoint",
                   "hook", "waitFor"}
  <1>1. PICK s : s = Substituted(l, h)
    OBVIOUS
  <1>2. /\ DOMAIN s = DOMAIN l
        /\ s.remoteUser = ResolveString(l.remoteUser, h)
        /\ s.privileged = l.privileged /\ s.env = SubEnv(l.env, h)
        /\ s.capAdd = SubList(l.capAdd, h) /\ s.mounts = SubMounts(l.mounts, h)
        /\ s.hook = SubHook(l.hook, h) /\ s.waitFor = l.waitFor
        /\ s.entrypoint = l.entrypoint
    BY <1>1, SubstitutedFields
  <1>3. /\ l.id \in Text /\ l.remoteUser \in Text /\ l.privileged \in Switch /\ l.env \in Env
        /\ l.capAdd \in Seq(Text) /\ l.mounts \in Seq(MountType) /\ l.entrypoint \in Text
        /\ l.hook \in HookType \cup {NoHook} /\ l.waitFor \in Phase /\ DOMAIN l = d
    BY DEF LayerType
  <1>4. s.id = l.id
    BY <1>1, <1>3 DEF Substituted
  <1>5. PICK e : e = ResolveString(s.entrypoint, h)
    OBVIOUS
  <1>6. PICK r : r = [s EXCEPT !.entrypoint = e]
    OBVIOUS
  <1>7. r = [id |-> s.id, remoteUser |-> s.remoteUser, privileged |-> s.privileged,
             env |-> s.env, capAdd |-> s.capAdd, mounts |-> s.mounts, entrypoint |-> e,
             hook |-> s.hook, waitFor |-> s.waitFor]
    <2>1. DOMAIN s = d
      BY <1>2, <1>3
    <2>2. DOMAIN r = d /\ r = [x \in d |-> r[x]]
      BY <1>6, <2>1
    <2>3. /\ r.id = s.id /\ r.remoteUser = s.remoteUser /\ r.privileged = s.privileged
          /\ r.env = s.env /\ r.capAdd = s.capAdd /\ r.mounts = s.mounts /\ r.entrypoint = e
          /\ r.hook = s.hook /\ r.waitFor = s.waitFor
      BY <1>6, <2>1
    <2>4. QED
      BY <2>2, <2>3
  <1>8. /\ s.id \in Text /\ s.remoteUser \in Text /\ s.privileged \in Switch /\ s.env \in Env
        /\ s.capAdd \in Seq(Text) /\ s.mounts \in Seq(MountType) /\ e \in Text
        /\ s.hook \in HookType \cup {NoHook} /\ s.waitFor \in Phase
    BY <1>2, <1>3, <1>4, <1>5, ResolvedText, SubstitutedParts
  <1>9. r \in LayerType
    BY <1>7, <1>8 DEF LayerType
  <1>10. r = [Substituted(l, h) EXCEPT !.entrypoint = ResolveString(@, h)]
    BY <1>1, <1>5, <1>6
  <1>11. QED
    BY <1>2, <1>5, <1>7, <1>9, <1>10

LEMMA LayersType ==
    ASSUME NEW h \in Hosts, NEW layers \in Seq(LayerType)
    PROVE  /\ substituteLayers(layers, h) \in Seq(LayerType)
           /\ Len(substituteLayers(layers, h)) = Len(layers)
           /\ DOMAIN substituteLayers(layers, h) = DOMAIN layers
           /\ \A i \in DOMAIN layers :
                substituteLayers(layers, h)[i] =
                  [Substituted(layers[i], h) EXCEPT !.entrypoint = ResolveString(@, h)]
  <1>1. PICK L \in Nat : L = Len(layers) /\ DOMAIN layers = 1 .. L
    OBVIOUS
  <1>2. PICK ls : ls = substituteLayers(layers, h)
    OBVIOUS
  <1>3. ls = [i \in DOMAIN layers |->
                [Substituted(layers[i], h) EXCEPT !.entrypoint = ResolveString(@, h)]]
    BY <1>2, Zenon DEF substituteLayers
  <1>4. \A i \in 1 .. L : ls[i] \in LayerType
    <2> SUFFICES ASSUME NEW i \in 1 .. L
                 PROVE  ls[i] \in LayerType
      OBVIOUS
    <2>1. layers[i] \in LayerType
      BY <1>1
    <2>2. ls[i] = [Substituted(layers[i], h) EXCEPT !.entrypoint = ResolveString(@, h)]
      BY <1>1, <1>3
    <2>3. QED
      BY <2>1, <2>2, LayerFields
  <1>5. ls = [i \in 1 .. L |-> ls[i]]
    BY <1>1, <1>3
  <1>6. ls \in Seq(LayerType) /\ Len(ls) = L /\ DOMAIN ls = 1 .. L
    BY <1>4, <1>5
  <1>7. QED
    BY <1>1, <1>2, <1>3, <1>6

LEMMA LayerParts ==
    ASSUME NEW l \in LayerType
    PROVE  /\ l.id \in Text /\ l.remoteUser \in Text /\ l.privileged \in Switch /\ l.env \in Env
           /\ l.capAdd \in Seq(Text) /\ l.mounts \in Seq(MountType) /\ l.entrypoint \in Text
           /\ l.hook \in HookType \cup {NoHook} /\ l.waitFor \in Phase
  BY DEF LayerType

(* A field of every layer.                                                 *)
LEMMA Columns ==
    ASSUME NEW ls \in Seq(LayerType)
    PROVE  /\ [i \in DOMAIN ls |-> ls[i].remoteUser] \in Seq(Text)
           /\ [i \in DOMAIN ls |-> ls[i].privileged] \in Seq(Switch)
           /\ [i \in DOMAIN ls |-> ls[i].waitFor] \in Seq(Phase)
           /\ [i \in DOMAIN ls |-> ls[i].env] \in Seq(Env)
           /\ [i \in DOMAIN ls |-> ls[i].capAdd] \in Seq(Seq(Text))
           /\ [i \in DOMAIN ls |-> ls[i].mounts] \in Seq(Seq(MountType))
           /\ [i \in DOMAIN ls |-> ls[i].entrypoint] \in Seq(Text)
           /\ [i \in DOMAIN ls |-> ls[i].hook] \in Seq(HookType \cup {NoHook})
  <1>1. PICK L \in Nat : L = Len(ls) /\ DOMAIN ls = 1 .. L
    OBVIOUS
  <1>2. \A i \in 1 .. L :
          /\ ls[i].remoteUser \in Text /\ ls[i].privileged \in Switch /\ ls[i].env \in Env
          /\ ls[i].capAdd \in Seq(Text) /\ ls[i].mounts \in Seq(MountType)
          /\ ls[i].entrypoint \in Text /\ ls[i].hook \in HookType \cup {NoHook}
          /\ ls[i].waitFor \in Phase
    <2>1. \A i \in 1 .. L : ls[i] \in LayerType
      BY <1>1
    <2>2. QED
      BY <2>1, LayerParts
  <1>3. [i \in 1 .. L |-> ls[i].remoteUser] \in Seq(Text)
    BY <1>2
  <1>4. [i \in 1 .. L |-> ls[i].privileged] \in Seq(Switch)
    BY <1>2
  <1>5. [i \in 1 .. L |-> ls[i].waitFor] \in Seq(Phase)
    BY <1>2
  <1>6. [i \in 1 .. L |-> ls[i].env] \in Seq(Env)
    BY <1>2
  <1>7. [i \in 1 .. L |-> ls[i].capAdd] \in Seq(Seq(Text))
    BY <1>2
  <1>8. [i \in 1 .. L |-> ls[i].mounts] \in Seq(Seq(MountType))
    BY <1>2
  <1>9. [i \in 1 .. L |-> ls[i].entrypoint] \in Seq(Text)
    BY <1>2
  <1>10. [i \in 1 .. L |-> ls[i].hook] \in Seq(HookType \cup {NoHook})
    BY <1>2
  <1>11. QED
    BY <1>1, <1>3, <1>4, <1>5, <1>6, <1>7, <1>8, <1>9, <1>10

(* The fields of the merged configuration.                                 *)
MergedFields(m, cfg, ls) ==
    /\ m.remoteUser = pick(cfg.remoteUser, [i \in DOMAIN ls |-> ls[i].remoteUser], "")
    /\ m.privileged = pick(cfg.privileged, [i \in DOMAIN ls |-> ls[i].privileged], "nil")
    /\ m.waitFor = pick(cfg.waitFor, [i \in DOMAIN ls |-> ls[i].waitFor], "")
    /\ m.env = mergeStringMaps([i \in DOMAIN ls |-> ls[i].env], cfg.env)
    /\ m.capAdd = unionDedup(FlattenSeq([i \in DOMAIN ls |-> ls[i].capAdd]) \o cfg.capAdd)
    /\ m.mounts = dedupMountsByTarget(FlattenSeq([i \in DOMAIN ls |-> ls[i].mounts]) \o cfg.mounts)
    /\ m.entrypoints = Kept([i \in DOMAIN ls |-> ls[i].entrypoint],
                            {i \in DOMAIN ls : ls[i].entrypoint # ""})
    /\ m.hooks = prependHooks([i \in DOMAIN ls |-> ls[i].hook], cfg.hooks)
    /\ m.features = cfg.features

LEMMA MergeFields ==
    ASSUME NEW h \in Hosts, NEW cfg \in ResolvedType, NEW layers \in Seq(LayerType)
    PROVE  /\ layers = <<>> => MergeMetadata(cfg, h, layers) = cfg
           /\ layers # <<>> =>
                /\ MergedFields(MergeMetadata(cfg, h, layers), cfg, substituteLayers(layers, h))
                /\ MergeMetadata(cfg, h, layers) =
                     [x \in DOMAIN cfg |-> MergeMetadata(cfg, h, layers)[x]]
  <1>1. ASSUME layers = <<>>
        PROVE  MergeMetadata(cfg, h, layers) = cfg
    BY <1>1 DEF MergeMetadata
  <1>2. ASSUME layers # <<>>
        PROVE  /\ MergedFields(MergeMetadata(cfg, h, layers), cfg, substituteLayers(layers, h))
               /\ MergeMetadata(cfg, h, layers) =
                    [x \in DOMAIN cfg |-> MergeMetadata(cfg, h, layers)[x]]
    <2>1. PICK ls : ls = substituteLayers(layers, h)
      OBVIOUS
    <2>2. PICK m : m = MergeMetadata(cfg, h, layers)
      OBVIOUS
    <2>3. PICK es : es = [i \in DOMAIN ls |-> ls[i].entrypoint]
      OBVIOUS
    <2>4. m = [cfg EXCEPT
                !.remoteUser = pick(@, [i \in DOMAIN ls |-> ls[i].remoteUser], ""),
                !.privileged = pick(@, [i \in DOMAIN ls |-> ls[i].privileged], "nil"),
                !.waitFor = pick(@, [i \in DOMAIN ls |-> ls[i].waitFor], ""),
                !.env = mergeStringMaps([i \in DOMAIN ls |-> ls[i].env], @),
                !.capAdd = unionDedup(FlattenSeq([i \in DOMAIN ls |-> ls[i].capAdd]) \o @),
                !.mounts = dedupMountsByTarget(FlattenSeq([i \in DOMAIN ls |-> ls[i].mounts]) \o @),
                !.entrypoints = Kept(es, {i \in DOMAIN ls : es[i] # ""}),
                !.hooks = prependHooks([i \in DOMAIN ls |-> ls[i].hook], @)]
      BY <1>2, <2>1, <2>2, <2>3, ZenonT(30) DEF MergeMetadata
    <2>5. PICK u : u = pick(cfg.remoteUser, [i \in DOMAIN ls |-> ls[i].remoteUser], "")
      OBVIOUS
    <2>6. PICK p : p = pick(cfg.privileged, [i \in DOMAIN ls |-> ls[i].privileged], "nil")
      OBVIOUS
    <2>7. PICK w : w = pick(cfg.waitFor, [i \in DOMAIN ls |-> ls[i].waitFor], "")
      OBVIOUS
    <2>8. PICK e : e = mergeStringMaps([i \in DOMAIN ls |-> ls[i].env], cfg.env)
      OBVIOUS
    <2>9. PICK c : c = unionDedup(FlattenSeq([i \in DOMAIN ls |-> ls[i].capAdd]) \o cfg.capAdd)
      OBVIOUS
    <2>10. PICK ms : ms = dedupMountsByTarget(FlattenSeq([i \in DOMAIN ls |-> ls[i].mounts]) \o cfg.mounts)
      OBVIOUS
    <2>11. PICK k : k = Kept(es, {i \in DOMAIN ls : es[i] # ""})
      OBVIOUS
    <2>12. PICK hs : hs = prependHooks([i \in DOMAIN ls |-> ls[i].hook], cfg.hooks)
      OBVIOUS
    <2>13. m = [cfg EXCEPT !.remoteUser = u, !.privileged = p, !.waitFor = w, !.env = e,
                           !.capAdd = c, !.mounts = ms, !.entrypoints = k, !.hooks = hs]
      BY <2>4, <2>5, <2>6, <2>7, <2>8, <2>9, <2>10, <2>11, <2>12, Zenon
    <2>14. DOMAIN cfg = {"remoteUser", "privileged", "env", "capAdd", "mounts", "entrypoints",
                         "hooks", "waitFor", "features"}
      BY DEF ResolvedType
    <2>15. /\ m.remoteUser = u /\ m.privileged = p /\ m.waitFor = w /\ m.env = e
           /\ m.capAdd = c /\ m.mounts = ms /\ m.entrypoints = k /\ m.hooks = hs
           /\ m.features = cfg.features /\ m = [x \in DOMAIN cfg |-> m[x]]
      BY <2>13, <2>14
    <2>16. {i \in DOMAIN ls : es[i] # ""} = {i \in DOMAIN ls : ls[i].entrypoint # ""}
      BY <2>3
    <2>17. MergedFields(m, cfg, ls)
      BY <2>3, <2>5, <2>6, <2>7, <2>8, <2>9, <2>10, <2>11, <2>12, <2>15, <2>16, Zenon
         DEF MergedFields
    <2>18. QED
      BY <2>1, <2>2, <2>15, <2>17
  <1>3. QED
    BY <1>1, <1>2

LEMMA BlankLayer == NoLayer \in LayerType /\ NoEnv \in Env
  <1>1. NoEnv \in Env
    BY ConfigAssumption DEF NoEnv, Env
  <1>2. PICK t \in Text : t = ""
    BY ConfigAssumption
  <1>3. PICK p \in Switch : p = "nil"
    BY DEF Switch
  <1>4. PICK w \in Phase : w = ""
    BY DEF Phase
  <1>5. NoLayer = [id |-> t, remoteUser |-> t, privileged |-> p, env |-> NoEnv,
                   capAdd |-> <<>>, mounts |-> <<>>, entrypoint |-> t, hook |-> NoHook,
                   waitFor |-> w]
    BY <1>2, <1>3, <1>4, Zenon DEF NoLayer
  <1>6. <<>> \in Seq(Text) /\ <<>> \in Seq(MountType)
    OBVIOUS
  <1>7. QED
    BY <1>1, <1>5, <1>6 DEF LayerType

LEMMA ResolveFields ==
    ASSUME NEW h \in Hosts, NEW u \in UserType
    PROVE  LET r == resolveFromRaw(u, h)
           IN  /\ r \in ResolvedType
               /\ r.remoteUser = ResolveString(u.remoteUser, h) /\ r.privileged = u.privileged
               /\ r.env = SubEnv(u.env, h) /\ r.capAdd = SubList(u.capAdd, h)
               /\ r.mounts = SubMounts(u.mounts, h) /\ r.entrypoints = <<>>
               /\ r.hooks = IF u.hook = NoHook THEN <<>> ELSE <<SubHook(u.hook, h)>>
               /\ r.waitFor = u.waitFor
               /\ Len(r.features) = Len(u.features)
               /\ \A i \in DOMAIN u.features :
                    r.features[i] = [id |-> u.features[i], installed |-> FALSE,
                                     metadata |-> NoLayer]
  <1>1. PICK s : s = Substituted(u, h)
    OBVIOUS
  <1>2. /\ s.remoteUser = ResolveString(u.remoteUser, h)
        /\ s.privileged = u.privileged /\ s.env = SubEnv(u.env, h)
        /\ s.capAdd = SubList(u.capAdd, h) /\ s.mounts = SubMounts(u.mounts, h)
        /\ s.hook = SubHook(u.hook, h) /\ s.waitFor = u.waitFor
        /\ s.features = u.features
    BY <1>1, SubstitutedFields
  <1>3. /\ u.remoteUser \in Text /\ u.privileged \in Switch /\ u.env \in Env
        /\ u.capAdd \in Seq(Text) /\ u.mounts \in Seq(MountType)
        /\ u.hook \in HookType \cup {NoHook} /\ u.waitFor \in Phase
        /\ u.features \in Seq(Feature)
    BY DEF UserType
  <1>4. PICK L \in Nat : L = Len(u.features) /\ DOMAIN u.features = 1 .. L
    BY <1>3
  <1>5. PICK fs : fs = [i \in DOMAIN u.features |->
                          [id |-> u.features[i], installed |-> FALSE, metadata |-> NoLayer]]
    OBVIOUS
  <1>6. PICK hs : hs = IF s.hook = NoHook THEN <<>> ELSE <<s.hook>>
    OBVIOUS
  <1>7. PICK r : r = resolveFromRaw(u, h)
    OBVIOUS
  <1>8. r = [remoteUser |-> s.remoteUser, privileged |-> s.privileged, env |-> s.env,
             capAdd |-> s.capAdd, mounts |-> s.mounts, entrypoints |-> <<>>, hooks |-> hs,
             waitFor |-> s.waitFor, features |-> fs]
    BY <1>1, <1>2, <1>5, <1>6, <1>7, Zenon DEF resolveFromRaw
  <1>9. /\ s.remoteUser \in Text /\ s.privileged \in Switch /\ s.env \in Env
        /\ s.capAdd \in Seq(Text) /\ s.mounts \in Seq(MountType)
        /\ s.hook \in HookType \cup {NoHook} /\ s.waitFor \in Phase
        /\ s.hook = NoHook <=> u.hook = NoHook
    BY <1>2, <1>3, ResolvedText, SubstitutedParts
  <1>10. hs = (IF u.hook = NoHook THEN <<>> ELSE <<SubHook(u.hook, h)>>) /\ hs \in Seq(HookType)
    <2>1. CASE s.hook = NoHook
      BY <1>6, <1>9, <2>1
    <2>2. CASE s.hook # NoHook
      <3>1. hs = <<s.hook>> /\ s.hook \in HookType
        BY <1>6, <1>9, <2>2
      <3>2. <<s.hook>> \in Seq(HookType)
        BY <3>1
      <3>3. QED
        BY <1>2, <1>9, <2>2, <3>1, <3>2
    <2>3. QED
      BY <2>1, <2>2
  <1>11. \A i \in 1 .. L : fs[i] \in ResolvedFeature
    <2> SUFFICES ASSUME NEW i \in 1 .. L
                 PROVE  fs[i] \in ResolvedFeature
      OBVIOUS
    <2>1. fs[i] = [id |-> u.features[i], installed |-> FALSE, metadata |-> NoLayer]
      BY <1>4, <1>5
    <2>2. u.features[i] \in Feature
      BY <1>3, <1>4
    <2>3. QED
      BY <2>1, <2>2, BlankLayer DEF ResolvedFeature
  <1>12. fs = [i \in 1 .. L |-> fs[i]]
    BY <1>4, <1>5
  <1>13. fs \in Seq(ResolvedFeature) /\ Len(fs) = L
    BY <1>11, <1>12
  <1>14. <<>> \in Seq(Text)
    OBVIOUS
  <1>15. r \in ResolvedType
    BY <1>8, <1>9, <1>10, <1>13, <1>14 DEF ResolvedType
  <1>16. /\ r.remoteUser = s.remoteUser /\ r.privileged = s.privileged /\ r.env = s.env
         /\ r.capAdd = s.capAdd /\ r.mounts = s.mounts /\ r.entrypoints = <<>> /\ r.hooks = hs
         /\ r.waitFor = s.waitFor /\ r.features = fs
    BY <1>8
  <1>17. \A i \in DOMAIN u.features :
           fs[i] = [id |-> u.features[i], installed |-> FALSE, metadata |-> NoLayer]
    BY <1>5, Zenon
  <1>18. QED
    BY <1>2, <1>4, <1>7, <1>10, <1>13, <1>15, <1>16, <1>17

LEMMA MergeType ==
    ASSUME NEW h \in Hosts, NEW cfg \in ResolvedType, NEW layers \in Seq(LayerType)
    PROVE  /\ MergeMetadata(cfg, h, layers) \in ResolvedType
           /\ MergeMetadata(cfg, h, layers).features = cfg.features
  <1>1. CASE layers = <<>>
    BY <1>1, MergeFields
  <1>2. CASE layers # <<>>
    <2>1. PICK ls \in Seq(LayerType) : ls = substituteLayers(layers, h)
      BY LayersType
    <2>2. PICK m : m = MergeMetadata(cfg, h, layers)
      OBVIOUS
    <2>3. MergedFields(m, cfg, ls) /\ m = [x \in DOMAIN cfg |-> m[x]]
      BY <1>2, <2>1, <2>2, MergeFields
    <2>4. /\ cfg.remoteUser \in Text /\ cfg.privileged \in Switch /\ cfg.env \in Env
          /\ cfg.capAdd \in Seq(Text) /\ cfg.mounts \in Seq(MountType)
          /\ cfg.hooks \in Seq(HookType) /\ cfg.waitFor \in Phase
          /\ cfg.features \in Seq(ResolvedFeature)
          /\ DOMAIN cfg = {"remoteUser", "privileged", "env", "capAdd", "mounts",
                           "entrypoints", "hooks", "waitFor", "features"}
      BY DEF ResolvedType
    <2>5. PICK us \in Seq(Text) : us = [i \in DOMAIN ls |-> ls[i].remoteUser]
      BY Columns
    <2>6. m.remoteUser \in Text
      <3>1. PICK t \in Text : t = ""
        BY ConfigAssumption
      <3>2. m.remoteUser = pick(cfg.remoteUser, us, t)
        BY <2>3, <2>5, <3>1, Zenon DEF MergedFields
      <3>3. QED
        BY <2>4, <3>2, PickLast, SMTT(30)
    <2>7. PICK ps \in Seq(Switch) : ps = [i \in DOMAIN ls |-> ls[i].privileged]
      BY Columns
    <2>8. m.privileged \in Switch
      <3>1. m.privileged = pick(cfg.privileged, ps, "nil") /\ "nil" \in Switch
        BY <2>3, <2>7 DEF MergedFields, Switch
      <3>2. QED
        BY <2>4, <3>1, PickLast
    <2>9. PICK phs \in Seq(Phase) : phs = [i \in DOMAIN ls |-> ls[i].waitFor]
      BY Columns
    <2>10. m.waitFor \in Phase
      <3>1. PICK t \in Phase : t = ""
        BY DEF Phase
      <3>2. m.waitFor = pick(cfg.waitFor, phs, t)
        BY <2>3, <2>9, <3>1, Zenon DEF MergedFields
      <3>3. QED
        BY <2>4, <3>2, PickLast, SMTT(30)
    <2>11. PICK es \in Seq(Env) : es = [i \in DOMAIN ls |-> ls[i].env]
      BY Columns
    <2>12. m.env \in Env
      <3>1. m.env = mergeStringMaps(es, cfg.env)
        BY <2>3, <2>11 DEF MergedFields
      <3>2. QED
        BY <2>4, <3>1, MapsLast
    <2>13. PICK cs \in Seq(Seq(Text)) : cs = [i \in DOMAIN ls |-> ls[i].capAdd]
      BY Columns
    <2>14. m.capAdd \in Seq(Text)
      <3>1. m.capAdd = unionDedup(FlattenSeq(cs) \o cfg.capAdd)
        BY <2>3, <2>13 DEF MergedFields
      <3>2. FlattenSeq(cs) \o cfg.capAdd \in Seq(Text)
        <4>1. FlattenSeq(cs) \in Seq(Text)
          BY FlattenType
        <4>2. QED
          BY <2>4, <4>1
      <3>3. QED
        BY <3>1, <3>2, UnionMembers
    <2>15. PICK ms \in Seq(Seq(MountType)) : ms = [i \in DOMAIN ls |-> ls[i].mounts]
      BY Columns
    <2>16. m.mounts \in Seq(MountType)
      <3>1. m.mounts = dedupMountsByTarget(FlattenSeq(ms) \o cfg.mounts)
        BY <2>3, <2>15 DEF MergedFields
      <3>2. FlattenSeq(ms) \o cfg.mounts \in Seq(MountType)
        <4>1. FlattenSeq(ms) \in Seq(MountType)
          BY FlattenType
        <4>2. QED
          BY <2>4, <4>1
      <3>3. QED
        BY <3>1, <3>2, DedupMembers
    <2>17. PICK ts \in Seq(Text) : ts = [i \in DOMAIN ls |-> ls[i].entrypoint]
      BY Columns
    <2>18. m.entrypoints \in Seq(Text)
      <3>1. PICK S : S = {i \in DOMAIN ls : ls[i].entrypoint # ""}
        OBVIOUS
      <3>2. m.entrypoints = Kept(ts, S)
        BY <2>3, <2>17, <3>1, Zenon DEF MergedFields
      <3>3. Kept(ts, S) \in Seq(Text)
        BY KeptMembers
      <3>4. QED
        BY <3>2, <3>3, Zenon
    <2>19. PICK hs \in Seq(HookType \cup {NoHook}) : hs = [i \in DOMAIN ls |-> ls[i].hook]
      BY Columns
    <2>20. m.hooks \in Seq(HookType)
      <3>1. m.hooks = prependHooks(hs, cfg.hooks)
        BY <2>3, <2>19 DEF MergedFields
      <3>2. PICK S : S = {i \in DOMAIN hs : hs[i] # NoHook}
        OBVIOUS
      <3>3. PICK k : k = Kept(hs, S)
        OBVIOUS
      <3>4. k \in Seq(HookType \cup {NoHook}) /\ Range(k) = {hs[n] : n \in S \cap DOMAIN hs}
        BY <3>3, KeptMembers
      <3>5. \A x \in Range(k) : x \in HookType
        BY <3>2, <3>4
      <3>6. PICK K \in Nat : DOMAIN k = 1 .. K
        BY <3>4
      <3>7. k \in Seq(HookType)
        <4>1. \A i \in 1 .. K : k[i] \in HookType
          BY <3>5, <3>6 DEF Range
        <4>2. k = [i \in 1 .. K |-> k[i]]
          BY <3>4, <3>6
        <4>3. QED
          BY <4>1, <4>2, Elementwise
      <3>8. m.hooks = k \o cfg.hooks
        BY <3>1, <3>2, <3>3 DEF prependHooks
      <3>9. QED
        BY <2>4, <3>7, <3>8
    <2>21. m.features = cfg.features
      BY <2>3 DEF MergedFields
    <2>22. m = [remoteUser |-> m.remoteUser, privileged |-> m.privileged, env |-> m.env,
                capAdd |-> m.capAdd, mounts |-> m.mounts, entrypoints |-> m.entrypoints,
                hooks |-> m.hooks, waitFor |-> m.waitFor, features |-> m.features]
      BY <2>3, <2>4
    <2>23. m \in ResolvedType
      BY <2>4, <2>6, <2>8, <2>10, <2>12, <2>14, <2>16, <2>18, <2>20, <2>21, <2>22
         DEF ResolvedType
    <2>24. QED
      BY <2>2, <2>21, <2>23
  <1>3. QED
    BY <1>1, <1>2

LEMMA FinalFields ==
    ASSUME NEW cfg \in ResolvedType
    PROVE  LET c == Finalize(cfg)
           IN  /\ c \in FinalType
               /\ c.remoteUser = cfg.remoteUser /\ c.privileged = cfg.privileged
               /\ c.env = cfg.env /\ c.capAdd = cfg.capAdd /\ c.mounts = cfg.mounts
               /\ c.entrypoints = cfg.entrypoints /\ c.hooks = cfg.hooks
               /\ c.features = cfg.features
               /\ c.waitFor = IF cfg.waitFor # "" THEN cfg.waitFor
                              ELSE IF cfg.hooks # <<>> THEN "updateContent" ELSE "postCreate"
  <1>1. PICK w : w = IF cfg.waitFor # "" THEN cfg.waitFor
                     ELSE IF cfg.hooks # <<>> THEN "updateContent" ELSE "postCreate"
    OBVIOUS
  <1>2. PICK c : c = Finalize(cfg)
    OBVIOUS
  <1>3. c = [cfg EXCEPT !.waitFor = w]
    BY <1>1, <1>2 DEF Finalize
  <1>4. /\ cfg.waitFor \in Phase
        /\ cfg = [remoteUser |-> cfg.remoteUser, privileged |-> cfg.privileged, env |-> cfg.env,
                capAdd |-> cfg.capAdd, mounts |-> cfg.mounts, entrypoints |-> cfg.entrypoints,
                hooks |-> cfg.hooks, waitFor |-> cfg.waitFor, features |-> cfg.features]
    BY DEF ResolvedType
  <1>5. w \in Phase /\ w # ""
    BY <1>1, <1>4 DEF Phase
  <1>6. c = [remoteUser |-> cfg.remoteUser, privileged |-> cfg.privileged, env |-> cfg.env,
             capAdd |-> cfg.capAdd, mounts |-> cfg.mounts, entrypoints |-> cfg.entrypoints,
             hooks |-> cfg.hooks, waitFor |-> w, features |-> cfg.features]
    BY <1>3, <1>4
  <1>7. c \in ResolvedType /\ c.waitFor = w
    BY <1>5, <1>6 DEF ResolvedType
  <1>8. /\ c.remoteUser = cfg.remoteUser /\ c.privileged = cfg.privileged
        /\ c.env = cfg.env /\ c.capAdd = cfg.capAdd /\ c.mounts = cfg.mounts
        /\ c.entrypoints = cfg.entrypoints /\ c.hooks = cfg.hooks
        /\ c.features = cfg.features
    BY <1>6
  <1>9. QED
    BY <1>1, <1>2, <1>5, <1>7, <1>8 DEF FinalType

(* The features devcontainer.json asks for, before anything is installed.  *)
Fresh(cfg) == \A i \in DOMAIN cfg.features : ~cfg.features[i].installed

LEMMA AddedType ==
    ASSUME NEW cfg \in ResolvedType
    PROVE  /\ Added(cfg) \in Seq(LayerType)
           /\ \A x \in Range(Added(cfg)) :
                \E i \in DOMAIN cfg.features :
                   ~cfg.features[i].installed /\ x = cfg.features[i].metadata
           /\ Fresh(cfg) => Added(cfg) = [i \in DOMAIN cfg.features |-> cfg.features[i].metadata]
  <1>1. PICK fs \in Seq(ResolvedFeature) :
          fs = cfg.features
    BY DEF ResolvedType
  <1>2. PICK L \in Nat : L = Len(fs) /\ DOMAIN fs = 1 .. L
    OBVIOUS
  <1>3. PICK ms : ms = [i \in DOMAIN fs |-> fs[i].metadata]
    OBVIOUS
  <1>4. \A i \in 1 .. L : fs[i].metadata \in LayerType
    <2>1. \A f \in ResolvedFeature : f.metadata \in LayerType
      BY DEF ResolvedFeature
    <2>2. \A i \in 1 .. L : fs[i] \in ResolvedFeature
      BY <1>2
    <2>3. QED
      BY <2>1, <2>2
  <1>5. \A i \in 1 .. L : ms[i] = fs[i].metadata
    BY <1>2, <1>3
  <1>6. ms = [i \in 1 .. L |-> ms[i]]
    BY <1>2, <1>3
  <1>7. ms \in Seq(LayerType) /\ DOMAIN ms = 1 .. L
    BY <1>4, <1>5, <1>6
  <1>8. PICK S : S = {i \in DOMAIN fs : ~fs[i].installed}
    OBVIOUS
  <1>9. Added(cfg) = Kept(ms, S)
    BY <1>1, <1>3, <1>8, Zenon DEF Added
  <1>10. Kept(ms, S) \in Seq(LayerType) /\ Range(Kept(ms, S)) = {ms[n] : n \in S \cap DOMAIN ms}
    BY <1>7, KeptMembers
  <1>11. \A x \in Range(Kept(ms, S)) : \E i \in DOMAIN fs : ~fs[i].installed /\ x = fs[i].metadata
    BY <1>2, <1>5, <1>7, <1>8, <1>10
  <1>12. ASSUME Fresh(cfg)
         PROVE  Kept(ms, S) = ms
    <2>1. DOMAIN ms \subseteq S
      BY <1>1, <1>2, <1>7, <1>8, <1>12 DEF Fresh
    <2>2. QED
      BY <1>7, <2>1, KeptAll
  <1>13. QED
    BY <1>1, <1>3, <1>9, <1>10, <1>11, <1>12

LEMMA MatchedType ==
    ASSUME NEW f \in ResolvedFeature, NEW base \in Seq(LayerType)
    PROVE  /\ MatchFeature(f, base) \in ResolvedFeature
           /\ ~MatchFeature(f, base).installed => MatchFeature(f, base).metadata = Metadata[f.id]
  <1>1. /\ f = [id |-> f.id, installed |-> f.installed, metadata |-> f.metadata]
        /\ f.id \in Feature /\ f.installed \in BOOLEAN
    BY DEF ResolvedFeature
  <1>2. PICK B : B = {k \in DOMAIN base : base[k].id = f.id}
    OBVIOUS
  <1>3. PICK g : g = MatchFeature(f, base)
    OBVIOUS
  <1>4. CASE B = {}
    <2>1. g = [f EXCEPT !.metadata = Metadata[f.id]]
      BY <1>2, <1>3, <1>4, Zenon DEF MatchFeature
    <2>2. Metadata[f.id] \in LayerType
      BY <1>1, ConfigAssumption
    <2>3. g = [id |-> f.id, installed |-> f.installed, metadata |-> Metadata[f.id]]
      BY <1>1, <2>1
    <2>4. QED
      BY <1>1, <1>3, <2>2, <2>3 DEF ResolvedFeature
  <1>5. CASE B # {}
    <2>1. B \subseteq Nat /\ B \subseteq DOMAIN base
      BY <1>2
    <2>2. PICK k : k = CHOOSE x \in B : \A j \in B : x <= j
      OBVIOUS
    <2>3. PICK n \in B : \A m \in B : <<m, n>> \notin OpToRel(<, Nat)
      BY <1>5, <2>1, NatLessThanWellFounded, WFMin
    <2>4. \A m \in B : ~(m < n)
      BY <2>1, <2>3 DEF OpToRel
    <2>5. \A m \in B : n <= m
      BY <2>1, <2>4
    <2>6. k \in B
      BY <2>2, <2>5, Zenon
    <2>7. base[k] \in LayerType
      BY <2>1, <2>6
    <2>8. g = [f EXCEPT !.installed = TRUE, !.metadata = base[k]]
      BY <1>2, <1>3, <1>5, <2>2, Zenon DEF MatchFeature
    <2>9. g = [id |-> f.id, installed |-> TRUE, metadata |-> base[k]]
      BY <1>1, <2>8
    <2>10. QED
      BY <1>1, <1>3, <2>7, <2>9 DEF ResolvedFeature
  <1>6. QED
    BY <1>4, <1>5

LEMMA MarkFields ==
    ASSUME NEW cfg \in ResolvedType, NEW base \in Seq(LayerType)
    PROVE  LET c == markAlreadyInstalled(cfg, base)
           IN  /\ c \in ResolvedType
               /\ c.remoteUser = cfg.remoteUser /\ c.privileged = cfg.privileged
               /\ c.env = cfg.env /\ c.capAdd = cfg.capAdd /\ c.mounts = cfg.mounts
               /\ c.entrypoints = cfg.entrypoints /\ c.hooks = cfg.hooks
               /\ c.waitFor = cfg.waitFor /\ DOMAIN c.features = DOMAIN cfg.features
               /\ \A i \in DOMAIN cfg.features :
                    ~c.features[i].installed =>
                       c.features[i].metadata = Metadata[cfg.features[i].id]
  <1>1. PICK fs \in Seq(ResolvedFeature) :
          fs = cfg.features
    BY DEF ResolvedType
  <1>2. PICK L \in Nat : L = Len(fs) /\ DOMAIN fs = 1 .. L
    OBVIOUS
  <1>3. PICK gs : gs = [i \in DOMAIN fs |-> MatchFeature(fs[i], base)]
    OBVIOUS
  <1>4. PICK c : c = markAlreadyInstalled(cfg, base)
    OBVIOUS
  <1>5. c = [cfg EXCEPT !.features = gs]
    BY <1>1, <1>3, <1>4, Zenon DEF markAlreadyInstalled
  <1>6. \A f \in ResolvedFeature :
          /\ MatchFeature(f, base) \in ResolvedFeature
          /\ ~MatchFeature(f, base).installed => MatchFeature(f, base).metadata = Metadata[f.id]
    BY MatchedType
  <1>7. \A i \in 1 .. L : gs[i] = MatchFeature(fs[i], base)
    BY <1>2, <1>3
  <1>8. \A i \in 1 .. L :
          /\ gs[i] \in ResolvedFeature
          /\ ~gs[i].installed => gs[i].metadata = Metadata[fs[i].id]
    <2>1. \A i \in 1 .. L : fs[i] \in ResolvedFeature
      BY <1>2
    <2>2. QED
      BY <1>6, <1>7, <2>1
  <1>9. gs = [i \in 1 .. L |-> gs[i]]
    BY <1>2, <1>3
  <1>10. gs \in Seq(ResolvedFeature)
         /\ DOMAIN gs = 1 .. L
    BY <1>8, <1>9, SMTT(30)
  <1>11. /\ cfg.remoteUser \in Text /\ cfg.privileged \in Switch /\ cfg.env \in Env
         /\ cfg.capAdd \in Seq(Text) /\ cfg.mounts \in Seq(MountType)
         /\ cfg.entrypoints \in Seq(Text)
         /\ cfg.hooks \in Seq(HookType) /\ cfg.waitFor \in Phase
         /\ cfg = [remoteUser |-> cfg.remoteUser, privileged |-> cfg.privileged, env |-> cfg.env,
                capAdd |-> cfg.capAdd, mounts |-> cfg.mounts, entrypoints |-> cfg.entrypoints,
                hooks |-> cfg.hooks, waitFor |-> cfg.waitFor, features |-> cfg.features]
    BY DEF ResolvedType
  <1>12. c = [remoteUser |-> cfg.remoteUser, privileged |-> cfg.privileged, env |-> cfg.env,
              capAdd |-> cfg.capAdd, mounts |-> cfg.mounts, entrypoints |-> cfg.entrypoints,
              hooks |-> cfg.hooks, waitFor |-> cfg.waitFor, features |-> gs]
    BY <1>5, <1>11
  <1>13. c \in ResolvedType
    BY <1>10, <1>11, <1>12 DEF ResolvedType
  <1>14. /\ c.remoteUser = cfg.remoteUser /\ c.privileged = cfg.privileged
         /\ c.env = cfg.env /\ c.capAdd = cfg.capAdd /\ c.mounts = cfg.mounts
         /\ c.entrypoints = cfg.entrypoints /\ c.hooks = cfg.hooks
         /\ c.waitFor = cfg.waitFor /\ c.features = gs
    BY <1>12
  <1>15. QED
    BY <1>1, <1>2, <1>4, <1>8, <1>10, <1>13, <1>14

-----------------------------------------------------------------------------
(* What the container is created with. *)

LEMMA WorkspaceMount == defaultWorkspaceMount \in MountType
  BY ConfigAssumption DEF defaultWorkspaceMount, MountType

LEMMA OverrideType ==
    ASSUME NEW cfg \in ResolvedType, NEW e \in BOOLEAN
    PROVE  LET ov == composeRunOverride(cfg, e)
           IN  /\ ov.binds \in Seq(MountType) /\ ov.binds # <<>> /\ ov.mounts \in Seq(MountType)
               /\ ov.env = cfg.env /\ ov.privileged = cfg.privileged /\ ov.capAdd = cfg.capAdd
               /\ ov.entrypoints = cfg.entrypoints
               /\ ov.original \in Seq(Text)
               /\ e /\ ov.original = <<>> =>
                    Service.entrypoint.original = <<>> /\ ImageEntrypoint = <<>>
  <1>1. cfg.mounts \in Seq(MountType) /\ ExtraMounts \in Seq(MountType)
    BY ConfigAssumption DEF ResolvedType
  <1>2. PICK ms \in Seq(MountType) : ms = cfg.mounts \o ExtraMounts
    <2>1. cfg.mounts \o ExtraMounts \in Seq(MountType)
      BY <1>1
    <2>2. QED
      BY <2>1
  <1>3. PICK L \in Nat : L = Len(ms) /\ DOMAIN ms = 1 .. L
    OBVIOUS
  <1>4. composeBindMounts(cfg) \in Seq(MountType) /\ composeBindMounts(cfg) # <<>>
    <2>1. PICK S : S = {i \in DOMAIN ms : /\ ms[i].type = "bind"
                                          /\ ms[i].source # "" /\ ms[i].target # ""}
      OBVIOUS
    <2>2. PICK k \in Seq(MountType) : k = Kept(ms, S)
      BY KeptMembers
    <2>3. PICK w \in MountType : w = defaultWorkspaceMount
      BY WorkspaceMount
    <2>4. composeBindMounts(cfg) = <<w>> \o k
      BY <1>2, <2>1, <2>2, <2>3, Zenon DEF composeBindMounts
    <2>5. <<w>> \in Seq(MountType) /\ Len(<<w>>) = 1
      OBVIOUS
    <2>6. <<w>> \o k \in Seq(MountType) /\ Len(<<w>> \o k) = 1 + Len(k)
      BY <2>5
    <2>7. <<w>> \o k # <<>>
      BY <2>6
    <2>8. QED
      BY <2>4, <2>6, <2>7
  <1>5. composeMounts(cfg) \in Seq(MountType)
    <2>1. PICK S : S = {i \in DOMAIN ms : /\ ms[i].type \in {"volume", "tmpfs"}
                                          /\ ms[i].target # ""}
      OBVIOUS
    <2>2. PICK kept \in Seq(MountType) : kept = Kept(ms, S)
      BY KeptMembers
    <2>3. PICK n \in Nat : DOMAIN kept = 1 .. n
      OBVIOUS
    <2>4. PICK ns : ns = [i \in DOMAIN kept |-> IF kept[i].type = "tmpfs"
                                  THEN [kept[i] EXCEPT !.source = ""] ELSE kept[i]]
      OBVIOUS
    <2>5. \A m \in MountType : [m EXCEPT !.source = ""] \in MountType
      BY ConfigAssumption DEF MountType
    <2>6. \A i \in 1 .. n : ns[i] \in MountType
      <3> SUFFICES ASSUME NEW i \in 1 .. n
                   PROVE  ns[i] \in MountType
        OBVIOUS
      <3>1. kept[i] \in MountType
        BY <2>3
      <3>2. ns[i] = [kept[i] EXCEPT !.source = ""] \/ ns[i] = kept[i]
        BY <2>3, <2>4
      <3>3. QED
        BY <2>5, <3>1, <3>2
    <2>7. ns = [i \in 1 .. n |-> ns[i]]
      BY <2>3, <2>4
    <2>8. ns \in Seq(MountType)
      BY <2>6, <2>7, Elementwise
    <2>9. composeMounts(cfg) = ns
      BY <1>2, <2>1, <2>2, <2>4, Zenon DEF composeMounts
    <2>10. QED
      BY <2>8, <2>9
  <1>6. PICK o : o = IF Service.entrypoint.original # <<>>
                     THEN Service.entrypoint.original
                     ELSE IF e THEN ImageEntrypoint ELSE <<>>
    OBVIOUS
  <1>7. Service.entrypoint.original \in Seq(Text) /\ ImageEntrypoint \in Seq(Text)
    BY ConfigAssumption DEF ServiceType, EntrypointType
  <1>8. /\ o \in Seq(Text)
        /\ e /\ o = <<>> => Service.entrypoint.original = <<>> /\ ImageEntrypoint = <<>>
    BY <1>6, <1>7
  <1>9. PICK b : b = composeBindMounts(cfg)
    OBVIOUS
  <1>10. PICK c : c = composeMounts(cfg)
    OBVIOUS
  <1>11. PICK ov : ov = composeRunOverride(cfg, e)
    OBVIOUS
  <1>12. ov = [binds |-> b, mounts |-> c, env |-> cfg.env, privileged |-> cfg.privileged,
               capAdd |-> cfg.capAdd, entrypoints |-> cfg.entrypoints, original |-> o]
    BY <1>6, <1>9, <1>10, <1>11, Zenon DEF composeRunOverride
  <1>13. /\ ov.binds = b /\ ov.mounts = c /\ ov.env = cfg.env /\ ov.privileged = cfg.privileged
         /\ ov.capAdd = cfg.capAdd /\ ov.entrypoints = cfg.entrypoints /\ ov.original = o
    BY <1>12
  <1>14. QED
    BY <1>4, <1>5, <1>8, <1>9, <1>10, <1>11, <1>13

(* What both backends make of the service, but for its volumes.            *)
WithOverride(volumes, ov) ==
    [volumes |-> volumes, env |-> Overlay(Service.env, ov.env),
     privileged |-> BoolOr(ov.privileged, Service.privileged),
     capAdd |-> IF ov.capAdd = <<>> THEN Service.capAdd
                ELSE unionDedup(Service.capAdd \o ov.capAdd),
     entrypoint |-> IF ov.entrypoints = <<>> THEN Service.entrypoint
                    ELSE RenderEntrypointWrapper(ov.entrypoints, ov.original, FALSE)]

LEMMA WrittenService ==
    ASSUME NEW cfg \in ResolvedType, NEW e \in BOOLEAN
    PROVE  LET ov == composeRunOverride(cfg, e)
           IN  /\ ApplyRunOverride(Service, ov) =
                    WithOverride(AddMissing(AddMissing(Service.volumes, ov.binds), ov.mounts), ov)
               /\ ComposeMerge(Service, WriteRunOverride(Service, ov)) =
                    WithOverride(mergedVolumes(Service, ov), ov)
  <1>1. PICK ov : ov = composeRunOverride(cfg, e)
    OBVIOUS
  <1>2. /\ ov.binds \in Seq(MountType) /\ ov.binds # <<>> /\ ov.mounts \in Seq(MountType)
        /\ ov.env = cfg.env /\ ov.privileged = cfg.privileged /\ ov.capAdd = cfg.capAdd
        /\ ov.entrypoints = cfg.entrypoints /\ ov.original \in Seq(Text)
    BY <1>1, OverrideType
  <1>3. /\ Service.volumes \in Seq(MountType) /\ Service.capAdd \in Seq(Text)
        /\ Service.entrypoint \in EntrypointType
    BY ConfigAssumption DEF ServiceType
  <1>4. cfg.capAdd \in Seq(Text)
    BY DEF ResolvedType
  <1>5. ApplyRunOverride(Service, ov) =
          WithOverride(AddMissing(AddMissing(Service.volumes, ov.binds), ov.mounts), ov)
    BY DEF ApplyRunOverride, WithOverride
  <1>6. PICK v : v = mergedVolumes(Service, ov)
    OBVIOUS
  <1>7. PICK c : c = IF ov.capAdd = <<>> THEN Service.capAdd
                     ELSE unionDedup(Service.capAdd \o ov.capAdd)
    OBVIOUS
  <1>8. PICK n : n = IF ov.entrypoints = <<>> THEN Service.entrypoint
                     ELSE RenderEntrypointWrapper(ov.entrypoints, ov.original, TRUE)
    OBVIOUS
  <1>9. PICK blank : blank = [volumes |-> <<>>, env |-> NoEnv, privileged |-> "nil",
                              capAdd |-> <<>>, entrypoint |-> Service.entrypoint]
    OBVIOUS
  <1>10. PICK r : r = [volumes |-> v, env |-> ov.env, privileged |-> ov.privileged,
                       capAdd |-> c, entrypoint |-> n]
    OBVIOUS
  <1>11. PICK file : file = Omitting(r, blank)
    OBVIOUS
  <1>12. WriteRunOverride(Service, ov) = file
    BY <1>6, <1>7, <1>8, <1>9, <1>10, <1>11, Zenon DEF WriteRunOverride
  <1>13. /\ DOMAIN r = {"volumes", "env", "privileged", "capAdd", "entrypoint"}
         /\ r.volumes = v /\ r.env = ov.env /\ r.privileged = ov.privileged
         /\ r.capAdd = c /\ r.entrypoint = n
         /\ blank.volumes = <<>> /\ blank.env = NoEnv /\ blank.privileged = "nil"
         /\ blank.capAdd = <<>> /\ blank.entrypoint = Service.entrypoint
    BY <1>9, <1>10
  <1>14. \A k \in DOMAIN r : Field(file, k, blank[k]) = r[k]
    BY <1>11, FieldOmitting
  <1>15. /\ Field(file, "env", NoEnv) = ov.env
         /\ Field(file, "privileged", "nil") = ov.privileged
         /\ Field(file, "entrypoint", Service.entrypoint) = n
    BY <1>13, <1>14
  <1>16. \A d : \A k \in DOMAIN r : r[k] # blank[k] => Field(file, k, d) = r[k]
    BY <1>11 DEF Field, Omitting
  <1>17. \A d : \A k \in DOMAIN r : r[k] = blank[k] => Field(file, k, d) = d
    BY <1>11 DEF Field, Omitting
  <1>18. Field(file, "volumes", Service.volumes) = v
    <2>1. PICK s \in Seq(MountType) : s = Service.volumes \o ov.binds
      <3>1. Service.volumes \o ov.binds \in Seq(MountType)
        BY <1>2, <1>3
      <3>2. QED
        BY <3>1
    <2>2. Len(s) = Len(Service.volumes) + Len(ov.binds)
      BY <1>2, <1>3, <2>1
    <2>3. Len(ov.binds) \in Nat /\ Len(ov.binds) # 0 /\ Len(Service.volumes) \in Nat
      BY <1>2, <1>3
    <2>4. Len(s) # 0
      <3>1. PICK x \in Nat, y \in Nat : x = Len(Service.volumes) /\ y = Len(ov.binds)
        BY <2>3
      <3>2. y # 0
        BY <2>3, <3>1
      <3>3. x + y # 0
        BY <3>2
      <3>4. QED
        BY <2>2, <3>1, <3>3
    <2>5. v = AddMissing(s, ov.mounts)
      BY <1>6, <2>1 DEF mergedVolumes
    <2>6. v \in Seq(MountType) /\ Len(s) <= Len(v)
      BY <1>2, <2>5, MissingFacts
    <2>7. Len(v) # 0
      BY <2>4, <2>6
    <2>8. v # <<>>
      BY <2>7
    <2>9. QED
      BY <1>13, <1>16, <2>8
  <1>19. Field(file, "capAdd", Service.capAdd) = c
    <2>1. CASE ov.capAdd = <<>>
      <3>1. c = Service.capAdd
        BY <1>7, <2>1
      <3>2. QED
        BY <1>13, <1>16, <1>17, <3>1
    <2>2. CASE ov.capAdd # <<>>
      <3>1. PICK s \in Seq(Text) : s = Service.capAdd \o ov.capAdd
        <4>1. Service.capAdd \o ov.capAdd \in Seq(Text)
          BY <1>2, <1>3, <1>4
        <4>2. QED
          BY <4>1
      <3>2. c = unionDedup(s) /\ Range(unionDedup(s)) = Range(s)
        BY <1>7, <2>2, <3>1, UnionMembers
      <3>3. Range(s) = Range(Service.capAdd) \cup Range(ov.capAdd)
        BY <1>2, <1>3, <1>4, <3>1, RangeConcat
      <3>4. ov.capAdd[1] \in Range(ov.capAdd)
        <4>1. 1 \in DOMAIN ov.capAdd
          BY <1>2, <1>4, <2>2
        <4>2. QED
          BY <4>1 DEF Range
      <3>5. Range(c) # {}
        BY <3>2, <3>3, <3>4
      <3>6. Range(<<>>) = {}
        BY DEF Range
      <3>7. c # <<>>
        BY <3>5, <3>6
      <3>8. QED
        BY <1>13, <1>16, <3>7
    <2>3. QED
      BY <2>1, <2>2
  <1>20. PICK p : p = IF ov.entrypoints = <<>> THEN Service.entrypoint
                      ELSE RenderEntrypointWrapper(ov.entrypoints, ov.original, FALSE)
    OBVIOUS
  <1>21. [n EXCEPT !.dollar = IF @ = "$$" THEN "$" ELSE ""] = p
    <2>1. CASE ov.entrypoints = <<>>
      <3>1. n = Service.entrypoint /\ p = Service.entrypoint
        BY <1>8, <1>20, <2>1
      <3>2. n = [scripts |-> n.scripts, original |-> n.original, dollar |-> ""]
            /\ n.dollar = ""
        BY <1>3, <3>1, ConfigAssumption DEF EntrypointType
      <3>3. [n EXCEPT !.dollar = ""] = n
        BY <3>2
      <3>4. (IF n.dollar = "$$" THEN "$" ELSE "") = ""
        BY <3>2
      <3>5. QED
        BY <3>1, <3>3, <3>4
    <2>2. CASE ov.entrypoints # <<>>
      <3>1. n = [scripts |-> ov.entrypoints, original |-> ov.original, dollar |-> "$$"]
        BY <1>8, <2>2 DEF RenderEntrypointWrapper
      <3>2. p = [scripts |-> ov.entrypoints, original |-> ov.original, dollar |-> "$"]
        BY <1>20, <2>2 DEF RenderEntrypointWrapper
      <3>3. n.dollar = "$$"
        BY <3>1
      <3>4. (IF n.dollar = "$$" THEN "$" ELSE "") = "$"
        BY <3>3
      <3>5. [n EXCEPT !.dollar = "$"] = p
        BY <3>1, <3>2
      <3>6. QED
        BY <3>4, <3>5
    <2>3. QED
      BY <2>1, <2>2
  <1>22. ComposeMerge(Service, file) =
           [volumes |-> v, env |-> Overlay(Service.env, ov.env),
            privileged |-> BoolOr(ov.privileged, Service.privileged), capAdd |-> c,
            entrypoint |-> p]
    BY <1>15, <1>18, <1>19, <1>21, Zenon DEF ComposeMerge
  <1>23. ComposeMerge(Service, file) = WithOverride(v, ov)
    BY <1>7, <1>20, <1>22, Zenon DEF WithOverride
  <1>24. QED
    BY <1>1, <1>5, <1>6, <1>12, <1>23

LEMMA Overlays ==
    ASSUME NEW m \in Env, NEW n \in Env
    PROVE  /\ Overlay(m, n) \in Env
           /\ \A k \in Variable : n[k] = "nil" => Overlay(m, n)[k] = m[k]
  BY DEF Overlay, Env

LEMMA OverriddenType ==
    ASSUME NEW cfg \in ResolvedType, NEW e \in BOOLEAN, NEW volumes \in Seq(MountType)
    PROVE  WithOverride(volumes, composeRunOverride(cfg, e)) \in ServiceType
  <1>1. PICK ov : ov = composeRunOverride(cfg, e)
    OBVIOUS
  <1>2. /\ ov.env = cfg.env /\ ov.privileged = cfg.privileged /\ ov.capAdd = cfg.capAdd
        /\ ov.entrypoints = cfg.entrypoints /\ ov.original \in Seq(Text)
    BY <1>1, OverrideType
  <1>3. /\ cfg.env \in Env /\ cfg.privileged \in Switch /\ cfg.capAdd \in Seq(Text)
        /\ cfg.entrypoints \in Seq(Text)
    BY DEF ResolvedType
  <1>4. /\ Service.env \in Env /\ Service.privileged \in BOOLEAN /\ Service.capAdd \in Seq(Text)
        /\ Service.entrypoint \in EntrypointType
    BY ConfigAssumption DEF ServiceType
  <1>5. Overlay(Service.env, ov.env) \in Env
    BY <1>2, <1>3, <1>4, Overlays
  <1>6. BoolOr(ov.privileged, Service.privileged) \in BOOLEAN
    BY <1>2, <1>3, <1>4 DEF BoolOr, Switch
  <1>7. PICK c : c = IF ov.capAdd = <<>> THEN Service.capAdd
                     ELSE unionDedup(Service.capAdd \o ov.capAdd)
    OBVIOUS
  <1>8. c \in Seq(Text)
    <2>1. Service.capAdd \o ov.capAdd \in Seq(Text)
      BY <1>2, <1>3, <1>4
    <2>2. unionDedup(Service.capAdd \o ov.capAdd) \in Seq(Text)
      BY <2>1, UnionMembers
    <2>3. QED
      BY <1>4, <1>7, <2>2
  <1>9. PICK n : n = IF ov.entrypoints = <<>> THEN Service.entrypoint
                     ELSE RenderEntrypointWrapper(ov.entrypoints, ov.original, FALSE)
    OBVIOUS
  <1>10. n \in EntrypointType
    BY <1>2, <1>3, <1>4, <1>9 DEF RenderEntrypointWrapper, EntrypointType
  <1>11. PICK v : v = Overlay(Service.env, ov.env)
    OBVIOUS
  <1>12. PICK p : p = BoolOr(ov.privileged, Service.privileged)
    OBVIOUS
  <1>13. WithOverride(volumes, ov) =
           [volumes |-> volumes, env |-> v, privileged |-> p, capAdd |-> c, entrypoint |-> n]
    BY <1>7, <1>9, <1>11, <1>12, Zenon DEF WithOverride
  <1>14. [volumes |-> volumes, env |-> v, privileged |-> p, capAdd |-> c, entrypoint |-> n]
           \in ServiceType
    BY <1>5, <1>6, <1>8, <1>10, <1>11, <1>12 DEF ServiceType
  <1>15. QED
    BY <1>1, <1>13, <1>14

(* The volumes of the container, with either backend.                      *)
LEMMA OverrideVolumes ==
    ASSUME NEW cfg \in ResolvedType, NEW e \in BOOLEAN
    PROVE  LET ov == composeRunOverride(cfg, e)
               mem == AddMissing(AddMissing(Service.volumes, ov.binds), ov.mounts)
               cmp == mergedVolumes(Service, ov)
           IN  /\ mem \in Seq(MountType) /\ cmp \in Seq(MountType)
               /\ Len(Service.volumes) <= Len(mem) /\ Len(Service.volumes) <= Len(cmp)
               /\ \A k \in 1 .. Len(Service.volumes) :
                    mem[k] = Service.volumes[k] /\ cmp[k] = Service.volumes[k]
               /\ DistinctTargets(mem)
               /\ DistinctTargets(Service.volumes \o ov.binds) => mem = cmp
  <1>1. PICK ov : ov = composeRunOverride(cfg, e)
    OBVIOUS
  <1>2. ov.binds \in Seq(MountType) /\ ov.mounts \in Seq(MountType)
    BY <1>1, OverrideType
  <1>3. Service.volumes \in Seq(MountType) /\ DistinctTargets(Service.volumes)
    BY ConfigAssumption DEF ServiceType
  <1>4. PICK b : b = ov.binds
    OBVIOUS
  <1>5. PICK m : m = ov.mounts
    OBVIOUS
  <1>6. PICK s : s = Service.volumes
    OBVIOUS
  <1>7. b \in Seq(MountType) /\ m \in Seq(MountType) /\ s \in Seq(MountType)
        /\ DistinctTargets(s)
    BY <1>2, <1>3, <1>4, <1>5, <1>6
  <1>8. PICK a : a = AddMissing(s, b)
    OBVIOUS
  <1>9. /\ a \in Seq(MountType) /\ Len(s) <= Len(a)
        /\ \A k \in 1 .. Len(s) : a[k] = s[k]
        /\ DistinctTargets(a) /\ (DistinctTargets(s \o b) => a = s \o b)
    BY <1>7, <1>8, MissingFacts
  <1>10. PICK mem : mem = AddMissing(a, m)
    OBVIOUS
  <1>11. /\ mem \in Seq(MountType) /\ Len(a) <= Len(mem)
         /\ \A k \in 1 .. Len(a) : mem[k] = a[k]
         /\ DistinctTargets(mem)
    BY <1>7, <1>9, <1>10, MissingFacts
  <1>12. PICK t \in Seq(MountType) : t = s \o b
    <2>1. s \o b \in Seq(MountType)
      BY <1>7
    <2>2. QED
      BY <2>1
  <1>13. Len(s) <= Len(t) /\ \A k \in 1 .. Len(s) : t[k] = s[k]
    <2>1. Len(t) = Len(s) + Len(b) /\ Len(b) \in Nat /\ Len(s) \in Nat
      BY <1>7, <1>12
    <2>2. \A k \in 1 .. Len(s) : (s \o b)[k] = s[k]
      BY <1>7
    <2>3. QED
      BY <1>12, <2>1, <2>2
  <1>14. PICK cmp : cmp = AddMissing(t, m)
    OBVIOUS
  <1>15. /\ cmp \in Seq(MountType) /\ Len(t) <= Len(cmp)
         /\ \A k \in 1 .. Len(t) : cmp[k] = t[k]
    BY <1>7, <1>14, MissingFacts
  <1>16. mergedVolumes(Service, ov) = cmp
    BY <1>4, <1>5, <1>6, <1>12, <1>14 DEF mergedVolumes
  <1>17. DistinctTargets(s \o b) => mem = cmp
    BY <1>9, <1>10, <1>12, <1>14
  <1>18. Len(s) \in Nat /\ Len(a) \in Nat /\ Len(t) \in Nat /\ Len(mem) \in Nat /\ Len(cmp) \in Nat
    BY <1>7, <1>9, <1>11, <1>15
  <1>19. /\ Len(s) <= Len(mem) /\ Len(s) <= Len(cmp)
         /\ \A k \in 1 .. Len(s) : mem[k] = s[k] /\ cmp[k] = s[k]
    BY <1>9, <1>11, <1>13, <1>15, <1>18
  <1>20. AddMissing(AddMissing(Service.volumes, ov.binds), ov.mounts) = mem
    BY <1>4, <1>5, <1>6, <1>8, <1>10
  <1>21. QED
    BY <1>1, <1>4, <1>6, <1>11, <1>15, <1>16, <1>17, <1>19, <1>20

LEMMA UpType ==
    ASSUME NEW cfg \in ResolvedType, NEW e \in BOOLEAN
    PROVE  upCompose(composeRunOverride(cfg, e)) \in ServiceType
  <1>1. PICK ov : ov = composeRunOverride(cfg, e)
    OBVIOUS
  <1>2. PICK mem \in Seq(MountType) : mem = AddMissing(AddMissing(Service.volumes, ov.binds), ov.mounts)
    BY <1>1, OverrideVolumes
  <1>3. PICK cmp \in Seq(MountType) : cmp = mergedVolumes(Service, ov)
    BY <1>1, OverrideVolumes
  <1>4. /\ ApplyRunOverride(Service, ov) = WithOverride(mem, ov)
        /\ ComposeMerge(Service, WriteRunOverride(Service, ov)) = WithOverride(cmp, ov)
    BY <1>1, <1>2, <1>3, WrittenService
  <1>5. WithOverride(mem, ov) \in ServiceType /\ WithOverride(cmp, ov) \in ServiceType
    BY <1>1, OverriddenType
  <1>6. QED
    BY <1>1, <1>4, <1>5 DEF upCompose

LEMMA RunSpecType ==
    ASSUME NEW cfg \in ResolvedType
    PROVE  buildRunSpec(cfg) \in ServiceType
  <1>1. /\ cfg.mounts \in Seq(MountType) /\ ExtraMounts \in Seq(MountType)
        /\ cfg.env \in Env /\ cfg.privileged \in Switch /\ cfg.capAdd \in Seq(Text)
        /\ ImageEntrypoint \in Seq(Text)
    BY ConfigAssumption DEF ResolvedType
  <1>2. <<defaultWorkspaceMount>> \in Seq(MountType)
    BY WorkspaceMount
  <1>3. buildMounts(cfg) \in Seq(MountType)
    BY <1>1, <1>2 DEF buildMounts
  <1>4. buildMounts(cfg) \o ExtraMounts \in Seq(MountType)
    BY <1>1, <1>3
  <1>5. BoolOr(cfg.privileged, FALSE) \in BOOLEAN
    BY <1>1 DEF BoolOr
  <1>6. PICK n : n = [scripts |-> <<>>, original |-> ImageEntrypoint, dollar |-> ""]
    OBVIOUS
  <1>7. n \in EntrypointType
    <2>1. <<>> \in Seq(Text)
      OBVIOUS
    <2>2. \A s \in Seq(Text) : [scripts |-> <<>>, original |-> s, dollar |-> ""] \in EntrypointType
      BY <2>1 DEF EntrypointType
    <2>3. QED
      BY <1>1, <1>6, <2>2
  <1>8. PICK v : v = buildMounts(cfg) \o ExtraMounts
    OBVIOUS
  <1>9. PICK p : p = BoolOr(cfg.privileged, FALSE)
    OBVIOUS
  <1>10. buildRunSpec(cfg) = [volumes |-> v, env |-> cfg.env, privileged |-> p,
                              capAdd |-> cfg.capAdd, entrypoint |-> n]
    BY <1>6, <1>8, <1>9, Zenon DEF buildRunSpec
  <1>11. [volumes |-> v, env |-> cfg.env, privileged |-> p, capAdd |-> cfg.capAdd,
          entrypoint |-> n] \in ServiceType
    BY <1>1, <1>4, <1>5, <1>7, <1>8, <1>9 DEF ServiceType
  <1>12. QED
    BY <1>10, <1>11

-----------------------------------------------------------------------------
(* The invariant. *)

(* Every id an entry of a label may have.                                  *)
Ids == {Metadata[f].id : f \in Feature} \cup {Published[i].id : i \in DOMAIN Published} \cup {""}

Known == {l \in LayerType : l.id \in Ids}
Entry == {l \in Plain : l.id \in Ids}

Rereads(layers) == [i \in DOMAIN layers |-> Reread(layers[i])]

(* What the label says is what was installed, but for what a label cannot  *)
(* say.                                                                    *)
ImageOK(img) ==
    /\ ParseMetadataLabel(img.label) \in Seq(Entry)
    /\ img.layers \in Seq(Known) /\ img.whole \in BOOLEAN
    /\ img.whole => ParseMetadataLabel(img.label) = Rereads(img.layers)

LEMMA EntryTypes ==
    /\ Entry \subseteq Known /\ Known \subseteq LayerType /\ Entry \subseteq Plain
    /\ \A l \in Known : Reread(l) \in Entry
    /\ \A l \in Entry : Reread(l) = l
    /\ \A T : \A s \in Seq(Known) : (\A i \in DOMAIN s : s[i] \in T) => s \in Seq(T)
  <1>1. Entry \subseteq Known /\ Known \subseteq LayerType /\ Entry \subseteq Plain
    BY DEF Entry, Known, Plain
  <1>2. ASSUME NEW l \in Known
        PROVE  Reread(l) \in Entry
    <2>1. Reread(l) \in Plain /\ l.id \in Ids
      BY LayerReread DEF Known
    <2>2. Reread(l).id = l.id
      BY DEF Reread
    <2>3. QED
      BY <2>1, <2>2 DEF Entry
  <1>3. ASSUME NEW l \in Entry
        PROVE  Reread(l) = l
    BY <1>1, LayerReread
  <1>4. ASSUME NEW T, NEW s \in Seq(Known), \A i \in DOMAIN s : s[i] \in T
        PROVE  s \in Seq(T)
    <2>1. PICK n \in Nat : DOMAIN s = 1 .. n
      OBVIOUS
    <2>2. s = [i \in 1 .. n |-> s[i]] /\ \A i \in 1 .. n : s[i] \in T
      BY <1>4, <2>1
    <2>3. QED
      BY <2>2, Elementwise
  <1>5. QED
    BY <1>1, <1>2, <1>3, <1>4

LEMMA LabelReread ==
    ASSUME NEW layers \in Seq(Known), NEW label,
           label = [i \in DOMAIN layers |-> metadataFromFeatureMetadata(layers[i])]
    PROVE  /\ ParseMetadataLabel(label) = Rereads(layers)
           /\ Rereads(layers) \in Seq(Entry)
  <1>1. PICK n \in Nat : n = Len(layers) /\ DOMAIN layers = 1 .. n
    OBVIOUS
  <1>2. \A i \in 1 .. n : layers[i] \in Known
    BY <1>1
  <1>3. ParseMetadataLabel(label) = [i \in 1 .. n |-> toFeatureMetadata(label[i])]
    BY <1>1 DEF ParseMetadataLabel
  <1>4. \A i \in 1 .. n : label[i] = metadataFromFeatureMetadata(layers[i])
    BY <1>1
  <1>5. \A i \in 1 .. n : toFeatureMetadata(label[i]) = Reread(layers[i])
    <2> SUFFICES ASSUME NEW i \in 1 .. n
                 PROVE  toFeatureMetadata(label[i]) = Reread(layers[i])
      OBVIOUS
    <2>1. layers[i] \in LayerType
      BY <1>2, EntryTypes
    <2>2. toFeatureMetadata(metadataFromFeatureMetadata(layers[i])) = Reread(layers[i])
      BY <2>1, LayerReread
    <2>3. QED
      BY <1>4, <2>2
  <1>6. Rereads(layers) = [i \in 1 .. n |-> Reread(layers[i])]
    BY <1>1 DEF Rereads
  <1>7. ParseMetadataLabel(label) = Rereads(layers)
    BY <1>3, <1>5, <1>6, Zenon
  <1>8. \A i \in 1 .. n : Reread(layers[i]) \in Entry
    BY <1>2, EntryTypes
  <1>9. PICK r : r = Rereads(layers)
    OBVIOUS
  <1>10. r = [i \in 1 .. n |-> r[i]] /\ \A i \in 1 .. n : r[i] = Reread(layers[i])
    BY <1>6, <1>9
  <1>11. \A i \in 1 .. n : r[i] \in Entry
    BY <1>8, <1>10
  <1>12. r \in Seq(Entry)
    BY <1>10, <1>11, Elementwise
  <1>13. QED
    BY <1>7, <1>9, <1>12

(* The last entry, with what devcontainer.json sets.                       *)
Own(name) == [NoLayer EXCEPT !.remoteUser = name]

LEMMA OwnLayer ==
    ASSUME NEW name \in Text
    PROVE  /\ Own(name) \in Entry
           /\ LET o == Own(name)
              IN  /\ o.remoteUser = name /\ o.privileged = "nil" /\ o.env = NoEnv
                  /\ o.capAdd = <<>> /\ o.mounts = <<>> /\ o.entrypoint = ""
                  /\ o.hook = NoHook /\ o.waitFor = ""
  <1>1. PICK b \in LayerType : b = NoLayer
    BY BlankLayer
  <1>2. /\ b.id = "" /\ b.privileged = "nil" /\ b.env = NoEnv
        /\ b.capAdd = <<>> /\ b.mounts = <<>> /\ b.entrypoint = ""
        /\ b.hook = NoHook /\ b.waitFor = ""
    BY <1>1 DEF NoLayer
  <1>3. PICK o : o = [b EXCEPT !.remoteUser = name]
    OBVIOUS
  <1>4. b = [id |-> b.id, remoteUser |-> b.remoteUser, privileged |-> b.privileged,
             env |-> b.env, capAdd |-> b.capAdd, mounts |-> b.mounts,
             entrypoint |-> b.entrypoint, hook |-> b.hook, waitFor |-> b.waitFor]
    BY DEF LayerType
  <1>5. o = [id |-> b.id, remoteUser |-> name, privileged |-> b.privileged,
             env |-> b.env, capAdd |-> b.capAdd, mounts |-> b.mounts,
             entrypoint |-> b.entrypoint, hook |-> b.hook, waitFor |-> b.waitFor]
    BY <1>3, <1>4
  <1>6. /\ o.id = b.id /\ o.remoteUser = name /\ o.privileged = b.privileged /\ o.env = b.env
        /\ o.capAdd = b.capAdd /\ o.mounts = b.mounts /\ o.entrypoint = b.entrypoint
        /\ o.hook = b.hook /\ o.waitFor = b.waitFor
    BY <1>5
  <1>7. o \in LayerType
    BY <1>5, LayerParts DEF LayerType
  <1>8. ~Lost(o.hook) /\ \A i \in DOMAIN o.mounts : ~Blank(o.mounts[i])
    <2>1. ~Lost(NoHook)
      BY DEF Lost, NoHook
    <2>2. o.hook = NoHook /\ o.mounts = <<>>
      BY <1>2, <1>6
    <2>3. DOMAIN o.mounts = {}
      BY <2>2
    <2>4. QED
      BY <2>1, <2>2, <2>3
  <1>9. o.id \in Ids
    BY <1>2, <1>6 DEF Ids
  <1>10. o \in Entry
    BY <1>7, <1>8, <1>9 DEF Entry, Plain
  <1>11. Own(name) = o
    BY <1>1, <1>3 DEF Own
  <1>12. QED
    BY <1>2, <1>6, <1>10, <1>11

LEMMA BuiltLabel ==
    ASSUME NEW base \in Seq(Entry), NEW new \in Seq(Known), NEW cfg, cfg.remoteUser \in Text
    PROVE  LET all == base \o new \o <<Own(cfg.remoteUser)>>
           IN  /\ all \in Seq(Known) /\ Rereads(all) \in Seq(Entry)
               /\ ParseMetadataLabel(buildMetadataLabel(base, new, cfg)) = Rereads(all)
  <1>1. PICK o \in Known : o = Own(cfg.remoteUser)
    BY OwnLayer, EntryTypes
  <1>2. base \in Seq(Known)
    BY EntryTypes
  <1>3. PICK s \in Seq(Known) : s = base \o new
    <2>1. base \o new \in Seq(Known)
      BY <1>2
    <2>2. QED
      BY <2>1
  <1>4. PICK n \in Nat : n = Len(s) /\ DOMAIN s = 1 .. n
    OBVIOUS
  <1>5. PICK all : all = s \o <<o>>
    OBVIOUS
  <1>6. <<o>> \in Seq(Known) /\ Len(<<o>>) = 1
    OBVIOUS
  <1>7. /\ all \in Seq(Known) /\ DOMAIN all = 1 .. n + 1
        /\ (\A i \in 1 .. n : all[i] = s[i]) /\ all[n + 1] = o
    BY <1>4, <1>5, <1>6
  <1>8. PICK t : t = [i \in DOMAIN s |-> metadataFromFeatureMetadata(s[i])]
    OBVIOUS
  <1>9. PICK e : e = metadataFromFeatureMetadata(o)
    OBVIOUS
  <1>10. buildMetadataLabel(base, new, cfg) = t \o <<e>>
    BY <1>1, <1>3, <1>8, <1>9, Zenon DEF buildMetadataLabel, Own
  <1>11. DOMAIN t = 1 .. n /\ t = [i \in 1 .. n |-> t[i]]
    BY <1>4, <1>8
  <1>12. t \in Seq({t[i] : i \in 1 .. n}) /\ Len(t) = n
    <2>1. \A i \in 1 .. n : t[i] \in {t[j] : j \in 1 .. n}
      OBVIOUS
    <2>2. t \in Seq({t[i] : i \in 1 .. n})
      BY <1>11, <2>1, Elementwise
    <2>3. QED
      BY <1>11, <2>2
  <1>13. PICK u : u = t \o <<e>>
    OBVIOUS
  <1>14. /\ u = [i \in 1 .. n + 1 |-> u[i]]
         /\ (\A i \in 1 .. n : u[i] = t[i]) /\ u[n + 1] = e
    BY <1>12, <1>13
  <1>15. \A i \in 1 .. n : u[i] = metadataFromFeatureMetadata(all[i])
    BY <1>4, <1>7, <1>8, <1>14
  <1>16. u[n + 1] = metadataFromFeatureMetadata(all[n + 1])
    BY <1>7, <1>9, <1>14
  <1>17. \A i \in 1 .. n + 1 : u[i] = metadataFromFeatureMetadata(all[i])
    BY <1>15, <1>16
  <1>18. u = [i \in DOMAIN all |-> metadataFromFeatureMetadata(all[i])]
    BY <1>7, <1>14, <1>17
  <1>19. ParseMetadataLabel(u) = Rereads(all) /\ Rereads(all) \in Seq(Entry)
    BY <1>7, <1>18, LabelReread
  <1>20. QED
    BY <1>1, <1>3, <1>5, <1>7, <1>10, <1>13, <1>19

ConfigInv == user \in Configs /\ host \in Hosts /\ changes \in 0..MaxChanges

ImagesInv ==
    /\ images = [k \in {"published", "prebuilt"} |-> images[k]]
    /\ \A k \in {"published", "prebuilt"} : images[k] # NoBox => ImageOK(images[k])

BoxOK(b) ==
    /\ b = [label |-> b.label, layers |-> b.layers, whole |-> b.whole, source |-> b.source,
            inputs |-> b.inputs, base |-> b.base, host |-> b.host,
            inspected |-> b.inspected, cfg |-> b.cfg, spec |-> b.spec]
    /\ ImageOK(b) /\ b.source \in {"image", "compose"} /\ b.host \in Hosts
    /\ b.inputs \in ResolvedType /\ b.inspected \in BOOLEAN
    /\ b.cfg \in FinalType /\ b.spec \in ServiceType

WorkspaceOK(w) ==
    /\ w.kind \in {"created", "attached"} /\ w.inspected \in BOOLEAN /\ w.cfg \in FinalType

(* The service in the container is the one of the configuration its Up     *)
(* returned.                                                               *)
SpecOK(b) ==
    (b.source = "compose" /\ b.inspected) => b.spec = upCompose(composeRunOverride(b.cfg, TRUE))

(* It is also the one made of the label.                                   *)
KeptOK(b) ==
    (b.source = "compose" /\ b.inspected) =>
      b.spec = upCompose(composeRunOverride(
                 applyMetadataMerge(b.inputs, ParseMetadataLabel(b.label), b.host), TRUE))

BoxInv == box # NoBox => BoxOK(box)
WsInv == ws # NoBox => WorkspaceOK(ws)
SpecInv == box # NoBox => SpecOK(box)
KeptInv == box # NoBox => KeptOK(box)

(* A workspace is not moved from an image to a compose file while its      *)
(* container is there.                                                     *)
SourceInv == box # NoBox => box.source = user.source

IInv ==
    /\ ConfigInv /\ ImagesInv /\ BoxInv /\ WsInv /\ SpecInv /\ KeptInv /\ SourceInv

LEMMA MergedType ==
    ASSUME NEW cfg \in ResolvedType, NEW base \in Seq(Entry), NEW h \in Hosts
    PROVE  applyMetadataMerge(cfg, base, h) \in FinalType
  <1>1. Added(cfg) \in Seq(LayerType)
    BY AddedType
  <1>2. base \in Seq(LayerType)
    BY EntryTypes
  <1>3. base \o Added(cfg) \in Seq(LayerType)
    BY <1>1, <1>2
  <1>4. MergeMetadata(cfg, h, base \o Added(cfg)) \in ResolvedType
    BY <1>3, MergeType
  <1>5. QED
    BY <1>4, FinalFields DEF applyMetadataMerge

LEMMA FinalIsResolved == FinalType \subseteq ResolvedType
  BY DEF FinalType

LEMMA InputTypes ==
    ASSUME ConfigInv
    PROVE  /\ user \in UserType /\ user.base \in {"published", "prebuilt"}
           /\ user.source \in {"image", "compose"}
           /\ resolveFromRaw(user, host) \in ResolvedType /\ Fresh(resolveFromRaw(user, host))
  <1>1. user \in UserType /\ host \in Hosts
    BY ConfigAssumption DEF ConfigInv
  <1>2. user.base \in {"published", "prebuilt"} /\ user.source \in {"image", "compose"}
    BY <1>1 DEF UserType
  <1>3. PICK r : r = resolveFromRaw(user, host)
    OBVIOUS
  <1>4. /\ r \in ResolvedType /\ Len(r.features) = Len(user.features)
        /\ \A i \in DOMAIN user.features :
             r.features[i] = [id |-> user.features[i], installed |-> FALSE,
                              metadata |-> NoLayer]
    BY <1>1, <1>3, ResolveFields
  <1>5. user.features \in Seq(Feature) /\ r.features \in Seq(ResolvedFeature)
    BY <1>1, <1>4 DEF UserType, ResolvedType
  <1>6. DOMAIN r.features = DOMAIN user.features
    BY <1>4, <1>5
  <1>7. \A i \in DOMAIN user.features : ~r.features[i].installed
    <2>1. \A f : [id |-> f, installed |-> FALSE, metadata |-> NoLayer].installed = FALSE
      OBVIOUS
    <2>2. QED
      BY <1>4, <2>1, Zenon
  <1>8. Fresh(r)
    BY <1>6, <1>7 DEF Fresh
  <1>9. QED
    BY <1>1, <1>2, <1>3, <1>4, <1>8

LEMMA MatchedTypes ==
    ASSUME ConfigInv, ImagesInv, HasBase, NEW inspected \in BOOLEAN
    PROVE  /\ BaseMetadata(user.base, inspected) \in Seq(Entry)
           /\ Matched(inspected) \in ResolvedType
           /\ Added(Matched(inspected)) \in Seq(Known)
           /\ ImageOK(images[user.base])
  <1>1. ImageOK(images[user.base])
    BY InputTypes DEF ImagesInv, HasBase
  <1>2. PICK base : base = BaseMetadata(user.base, inspected)
    OBVIOUS
  <1>3. base \in Seq(Entry)
    BY <1>1, <1>2 DEF BaseMetadata, ImageOK
  <1>4. base \in Seq(LayerType)
    BY <1>3, EntryTypes
  <1>5. PICK r \in ResolvedType : r = resolveFromRaw(user, host) /\ Fresh(r)
    BY InputTypes
  <1>6. PICK c : c = markAlreadyInstalled(r, base)
    OBVIOUS
  <1>7. Matched(inspected) = c
    BY <1>2, <1>5, <1>6 DEF Matched
  <1>8. /\ c \in ResolvedType /\ DOMAIN c.features = DOMAIN r.features
        /\ \A i \in DOMAIN r.features :
             ~c.features[i].installed => c.features[i].metadata = Metadata[r.features[i].id]
    BY <1>4, <1>6, MarkFields
  <1>9. /\ Added(c) \in Seq(LayerType)
        /\ \A x \in Range(Added(c)) :
             \E i \in DOMAIN c.features : ~c.features[i].installed /\ x = c.features[i].metadata
    BY <1>8, AddedType
  <1>10. \A i \in DOMAIN r.features : r.features[i].id \in Feature
    <2>1. r.features \in Seq(ResolvedFeature)
      BY DEF ResolvedType
    <2>2. \A i \in DOMAIN r.features : r.features[i] \in ResolvedFeature
      BY <2>1
    <2>3. QED
      BY <2>2 DEF ResolvedFeature
  <1>11. \A f \in Feature : Metadata[f] \in Known
    <2>1. \A f \in Feature : Metadata[f] \in LayerType
      BY ConfigAssumption
    <2>2. \A f \in Feature : Metadata[f].id \in Ids
      BY DEF Ids
    <2>3. QED
      BY <2>1, <2>2 DEF Known
  <1>12. \A x \in Range(Added(c)) : x \in Known
    BY <1>8, <1>9, <1>10, <1>11
  <1>13. PICK a : a = Added(c)
    OBVIOUS
  <1>14. a \in Seq(Known)
    <2>1. PICK n \in Nat : DOMAIN a = 1 .. n /\ a = [i \in 1 .. n |-> a[i]]
      BY <1>9, <1>13
    <2>2. \A i \in 1 .. n : a[i] \in Known
      BY <1>12, <1>13, <2>1 DEF Range
    <2>3. QED
      BY <2>1, <2>2, Elementwise
  <1>15. QED
    BY <1>1, <1>2, <1>3, <1>7, <1>8, <1>13, <1>14

LEMMA ImageFields ==
    ASSUME NEW label, NEW layers, NEW whole
    PROVE  LET i == Image(label, layers, whole)
           IN  i.label = label /\ i.whole = whole /\ i.layers = IF whole THEN layers ELSE <<>>
  BY DEF Image

LEMMA LayersBuilt ==
    ASSUME ConfigInv, ImagesInv, HasBase, NEW inspected \in BOOLEAN
    PROVE  /\ ImageOK(layerFeatures(inspected))
           /\ Added(Matched(inspected)) = <<>> => layerFeatures(inspected) = images[user.base]
           /\ Added(Matched(inspected)) # <<>> =>
                ParseMetadataLabel(layerFeatures(inspected).label) =
                  Rereads(BaseMetadata(user.base, inspected) \o Added(Matched(inspected))
                            \o <<Own(Matched(inspected).remoteUser)>>)
  <1>1. PICK base : base = BaseMetadata(user.base, inspected)
    OBVIOUS
  <1>2. PICK c : c = Matched(inspected)
    OBVIOUS
  <1>3. PICK new : new = Added(c)
    OBVIOUS
  <1>4. PICK from : from = images[user.base]
    OBVIOUS
  <1>5. base \in Seq(Entry) /\ c \in ResolvedType /\ new \in Seq(Known) /\ ImageOK(from)
    BY <1>1, <1>2, <1>3, <1>4, MatchedTypes
  <1>6. PICK img : img = layerFeatures(inspected)
    OBVIOUS
  <1>7. CASE new = <<>>
    <2>1. img = from
      BY <1>2, <1>3, <1>4, <1>6, <1>7 DEF layerFeatures
    <2>2. QED
      BY <1>2, <1>3, <1>4, <1>5, <1>6, <1>7, <2>1
  <1>8. CASE new # <<>>
    <2>1. c.remoteUser \in Text
      BY <1>5 DEF ResolvedType
    <2>2. PICK label : label = buildMetadataLabel(base, new, c)
      OBVIOUS
    <2>3. PICK own : own = <<Own(c.remoteUser)>>
      OBVIOUS
    <2>4. PICK all : all = base \o new \o own
      OBVIOUS
    <2>5. all \in Seq(Known) /\ Rereads(all) \in Seq(Entry) /\ ParseMetadataLabel(label) = Rereads(all)
      BY <1>5, <2>1, <2>2, <2>3, <2>4, BuiltLabel
    <2>6. PICK whole : whole = (from.whole /\ inspected)
      OBVIOUS
    <2>7. PICK ls : ls = from.layers \o new \o own
      OBVIOUS
    <2>8. img = Image(label, ls, whole)
      BY <1>1, <1>2, <1>3, <1>4, <1>6, <1>8, <2>2, <2>3, <2>6, <2>7, Zenon
         DEF layerFeatures, Own
    <2>9. img.label = label /\ img.whole = whole /\ img.layers = IF whole THEN ls ELSE <<>>
      BY <2>8, ImageFields
    <2>10. whole \in BOOLEAN
      BY <1>5, <2>6 DEF ImageOK
    <2>11. own \in Seq(Known)
      <3>1. Own(c.remoteUser) \in Known
        BY <2>1, OwnLayer, EntryTypes
      <3>2. QED
        BY <2>3, <3>1
    <2>12. from.layers \in Seq(Known)
      BY <1>5 DEF ImageOK
    <2>13. ls \in Seq(Known)
      <3>1. from.layers \o new \in Seq(Known)
        BY <1>5, <2>12
      <3>2. QED
        BY <2>7, <2>11, <3>1
    <2>14. img.layers \in Seq(Known)
      BY <2>9, <2>13
    <2>15. ASSUME whole
           PROVE  Rereads(all) = Rereads(ls)
      <3>1. inspected /\ from.whole
        BY <2>6, <2>15
      <3>2. base = ParseMetadataLabel(from.label)
        BY <1>1, <1>4, <3>1 DEF BaseMetadata
      <3>3. base = Rereads(from.layers)
        BY <1>5, <3>1, <3>2 DEF ImageOK
      <3>4. PICK fl \in Seq(Known) : fl = from.layers
        BY <2>12
      <3>5. PICK x \in Seq(Known) : x = new \o own
        <4>1. new \o own \in Seq(Known)
          BY <1>5, <2>11
        <4>2. QED
          BY <4>1
      <3>6. base \in Seq(Known)
        BY <1>5, EntryTypes
      <3>7. all = base \o x
        BY <1>5, <2>4, <2>11, <3>5, <3>6, ConcatAssociative, SMTT(30)
      <3>8. ls = fl \o x
        <4>1. ls = fl \o new \o own
          BY <2>7, <3>4
        <4>2. fl \in Seq(Known) /\ new \in Seq(Known) /\ own \in Seq(Known)
          BY <1>5, <2>11, <3>4
        <4>3. fl \o new \o own = fl \o (new \o own)
          BY <4>2, ConcatAssociative, SMTT(30)
        <4>4. QED
          BY <3>5, <4>1, <4>3
      <3>9. PICK n \in Nat : n = Len(fl) /\ DOMAIN fl = 1 .. n
        OBVIOUS
      <3>10. base = [i \in 1 .. n |-> Reread(fl[i])]
        BY <3>3, <3>4, <3>9 DEF Rereads
      <3>11. Len(base) = n /\ \A i \in 1 .. n : base[i] = Reread(fl[i])
        BY <3>10
      <3>12. PICK m \in Nat : m = Len(x)
        OBVIOUS
      <3>13. /\ DOMAIN all = 1 .. n + m
             /\ \A i \in 1 .. n + m : all[i] = IF i <= n THEN base[i] ELSE x[i - n]
        <4>1. /\ Len(base \o x) = Len(base) + Len(x)
              /\ \A i \in 1 .. Len(base) + Len(x) :
                   (base \o x)[i] = IF i <= Len(base) THEN base[i] ELSE x[i - Len(base)]
          BY <3>6, ConcatProperties
        <4>2. /\ Len(all) = n + m
              /\ \A i \in 1 .. n + m : all[i] = IF i <= n THEN base[i] ELSE x[i - n]
          BY <3>7, <3>11, <3>12, <4>1, Zenon
        <4>3. all \in Seq(Known)
          BY <2>5
        <4>4. QED
          BY <4>2, <4>3
      <3>14. /\ DOMAIN ls = 1 .. n + m
             /\ \A i \in 1 .. n + m : ls[i] = IF i <= n THEN fl[i] ELSE x[i - n]
        BY <3>8, <3>9, <3>12
      <3>15. \A i \in 1 .. n + m : Reread(all[i]) = Reread(ls[i])
        <4> SUFFICES ASSUME NEW i \in 1 .. n + m
                     PROVE  Reread(all[i]) = Reread(ls[i])
          OBVIOUS
        <4>1. CASE i <= n
          <5>1. i \in 1 .. n
            BY <4>1
          <5>2. all[i] = Reread(fl[i]) /\ ls[i] = fl[i]
            BY <3>11, <3>13, <3>14, <4>1, <5>1
          <5>3. base[i] \in Entry /\ base[i] = Reread(fl[i])
            BY <1>5, <3>11, <5>1
          <5>4. Reread(base[i]) = base[i]
            BY <5>3, EntryTypes
          <5>5. QED
            BY <5>2, <5>3, <5>4
        <4>2. CASE ~(i <= n)
          <5>1. all[i] = x[i - n] /\ ls[i] = x[i - n]
            BY <3>13, <3>14, <4>2
          <5>2. QED
            BY <5>1
        <4>3. QED
          BY <4>1, <4>2
      <3>16. QED
        BY <3>13, <3>14, <3>15, Zenon DEF Rereads
    <2>16. ImageOK(img)
      <3>1. ParseMetadataLabel(img.label) \in Seq(Entry)
        BY <2>5, <2>9
      <3>2. img.whole => ParseMetadataLabel(img.label) = Rereads(img.layers)
        BY <2>5, <2>9, <2>15
      <3>3. QED
        BY <2>9, <2>10, <2>14, <3>1, <3>2 DEF ImageOK
    <2>17. ParseMetadataLabel(img.label) = Rereads(base \o new \o <<Own(c.remoteUser)>>)
      BY <2>3, <2>4, <2>5, <2>9
    <2>18. QED
      BY <1>1, <1>2, <1>3, <1>6, <1>8, <2>16, <2>17
  <1>9. QED
    BY <1>7, <1>8

-----------------------------------------------------------------------------
(* A mount without a target reaches neither backend, so that it does not   *)
(* matter that the label leaves some of them out. *)

LEMMA OverSequences ==
    ASSUME NEW T, NEW S, <<>> \in S,
           \A s \in Seq(T) : \A x \in T : s \in S => Append(s, x) \in S
    PROVE  Seq(T) \subseteq S
  <1> SUFFICES ASSUME NEW s \in Seq(T)
               PROVE  s \in S
    OBVIOUS
  <1>1. PICK L \in Nat : L = Len(s) /\ DOMAIN s = 1 .. L
    OBVIOUS
  <1>2. PICK p : p = [n \in 0 .. L |-> SubSeq(s, 1, n)]
    OBVIOUS
  <1>3. p[0] = <<>>
    <2>1. SubSeq(s, 1, 0) = <<>>
      BY SubSeqEmpty
    <2>2. 0 \in 0 .. L
      BY <1>1
    <2>3. QED
      BY <1>2, <2>1, <2>2, Zenon
  <1>4. ASSUME NEW n \in 1 .. L
        PROVE  p[n - 1] \in Seq(T) /\ p[n] = Append(p[n - 1], s[n])
    <2>1. PICK t : t = SubSeq(s, 1, n - 1)
      OBVIOUS
    <2>2. t \in Seq(T)
      <3>1. \A i \in 1 .. n - 1 : s[i] \in T
        BY <1>1
      <3>2. QED
        BY <2>1, <3>1, SubSeqProperties
    <2>3. SubSeq(s, 1, n) = t \o << s[n] >>
      <3>1. 1 \in 1 .. Len(s) /\ n \in 1 .. Len(s)
        BY <1>1
      <3>2. QED
        BY <2>1, <3>1, SubSeqRecursiveSecond
    <2>4. s[n] \in T
      BY <1>1
    <2>5. t \o << s[n] >> = Append(t, s[n])
      BY <2>2, <2>4
    <2>6. n \in 0 .. L /\ n - 1 \in 0 .. L
      BY <1>1
    <2>7. p[n] = SubSeq(s, 1, n) /\ p[n - 1] = t
      BY <1>2, <2>1, <2>6, Zenon
    <2>8. QED
      BY <2>2, <2>3, <2>5, <2>7, Zenon
  <1>5. p[L] = s
    <2>1. SubSeq(s, 1, Len(s)) = s
      BY SubSeqFull
    <2>2. L \in 0 .. L
      BY <1>1
    <2>3. QED
      BY <1>1, <1>2, <2>1, <2>2, Zenon
  <1> DEFINE G == {n \in 0 .. L : p[n] \in S}
  <1>6. 0 \in G
    BY <1>1, <1>3
  <1>7. ASSUME NEW n \in 1 .. L, n - 1 \in G
        PROVE  n \in G
    <2>1. p[n - 1] \in S /\ p[n - 1] \in Seq(T) /\ s[n] \in T
      BY <1>1, <1>4, <1>7
    <2>2. Append(p[n - 1], s[n]) \in S
      BY <2>1
    <2>3. p[n] \in S
      BY <1>4, <2>2
    <2>4. QED
      BY <2>3
  <1> HIDE DEF G
  <1>8. 0 .. L \subseteq G
    BY <1>1, <1>6, <1>7, UpTo
  <1>9. p[L] \in S
    BY <1>1, <1>8 DEF G
  <1>10. QED
    BY <1>5, <1>9

(* The members of s in P.                                                  *)
Within(s, P) == Kept(s, {i \in DOMAIN s : s[i] \in P})

LEMMA WithinType ==
    ASSUME NEW T, NEW s \in Seq(T), NEW P
    PROVE  Within(s, P) \in Seq(T)
  BY KeptMembers DEF Within

LEMMA WithinNone ==
    ASSUME NEW P
    PROVE  Within(<<>>, P) = <<>>
  <1>1. <<>> \in Seq({}) /\ DOMAIN <<>> = {}
    OBVIOUS
  <1>2. Kept(<<>>, {i \in DOMAIN <<>> : <<>>[i] \in P}) = <<>>
    BY <1>1, KeptAll
  <1>3. QED
    BY <1>2, Zenon DEF Within

LEMMA WithinAppend ==
    ASSUME NEW T, NEW s \in Seq(T), NEW x \in T, NEW P
    PROVE  Within(Append(s, x), P) = IF x \in P THEN Append(Within(s, P), x) ELSE Within(s, P)
  <1>1. PICK L \in Nat : L = Len(s) /\ DOMAIN s = 1 .. L
    OBVIOUS
  <1>2. PICK t \in Seq(T) : t = Append(s, x)
    <2>1. Append(s, x) \in Seq(T)
      OBVIOUS
    <2>2. QED
      BY <2>1
  <1>3. DOMAIN t = 1 .. L + 1 /\ t[L + 1] = x /\ \A i \in 1 .. L : t[i] = s[i]
    BY <1>1, <1>2
  <1>4. PICK S : S = {i \in DOMAIN t : t[i] \in P}
    OBVIOUS
  <1>5. PICK R : R = {i \in DOMAIN s : s[i] \in P}
    OBVIOUS
  <1>6. Kept(t, S) = IF Len(s) + 1 \in S THEN Append(Kept(s, S), x) ELSE Kept(s, S)
    BY <1>2, KeptAppend
  <1>7. Kept(s, S) = Kept(s, R)
    <2>1. \A n \in DOMAIN s : (n \in S <=> n \in R) /\ (n \in S => s[n] = s[n])
      BY <1>1, <1>3, <1>4, <1>5
    <2>2. QED
      BY <2>1, KeptAgree
  <1>8. Len(s) + 1 \in S <=> x \in P
    BY <1>1, <1>3, <1>4
  <1>9. Within(t, P) = Kept(t, S) /\ Within(s, P) = Kept(s, R)
    BY <1>4, <1>5 DEF Within
  <1>10. QED
    BY <1>2, <1>6, <1>7, <1>8, <1>9

LEMMA WithinConcat ==
    ASSUME NEW T, NEW s \in Seq(T), NEW P, NEW t \in Seq(T)
    PROVE  Within(s \o t, P) = Within(s, P) \o Within(t, P)
  <1> DEFINE S == {u \in Seq(T) : Within(s \o u, P) = Within(s, P) \o Within(u, P)}
  <1>1. Within(s, P) \in Seq(T)
    BY WithinType
  <1>2. <<>> \in S
    <2>1. s \o <<>> = s /\ Within(s, P) \o <<>> = Within(s, P)
      BY <1>1, ConcatEmptySeq
    <2>2. Within(s \o <<>>, P) = Within(s, P) \o Within(<<>>, P)
      BY <2>1, WithinNone, Zenon
    <2>3. <<>> \in Seq(T)
      OBVIOUS
    <2>4. QED
      BY <2>2, <2>3, Zenon
  <1>3. ASSUME NEW u \in Seq(T), NEW x \in T, u \in S
        PROVE  Append(u, x) \in S
    <2>1. s \o Append(u, x) = Append(s \o u, x) /\ s \o u \in Seq(T) /\ Append(u, x) \in Seq(T)
      OBVIOUS
    <2>2. Within(Append(s \o u, x), P) =
            IF x \in P THEN Append(Within(s \o u, P), x) ELSE Within(s \o u, P)
      BY <2>1, WithinAppend
    <2>3. Within(Append(u, x), P) = IF x \in P THEN Append(Within(u, P), x) ELSE Within(u, P)
      BY WithinAppend
    <2>4. Within(u, P) \in Seq(T)
      BY WithinType
    <2>5. \A a, b \in Seq(T) : a \o Append(b, x) = Append(a \o b, x)
      OBVIOUS
    <2>6. Within(s, P) \o Append(Within(u, P), x) = Append(Within(s, P) \o Within(u, P), x)
      BY <1>1, <2>4, <2>5
    <2>7. Within(s \o u, P) = Within(s, P) \o Within(u, P)
      BY <1>3
    <2>8. Within(s \o Append(u, x), P) = Within(s, P) \o Within(Append(u, x), P)
      BY <2>1, <2>2, <2>3, <2>6, <2>7
    <2>9. QED
      BY <2>1, <2>8
  <1> HIDE DEF S
  <1>4. Seq(T) \subseteq S
    BY <1>2, <1>3, OverSequences
  <1>5. QED
    BY <1>4 DEF S

LEMMA WithinTwice ==
    ASSUME NEW T, NEW P, NEW Q, NEW s \in Seq(T)
    PROVE  Within(Within(s, P), Q) = Within(s, P \cap Q)
  <1> DEFINE S == {u \in Seq(T) : Within(Within(u, P), Q) = Within(u, P \cap Q)}
  <1>1. <<>> \in S
    BY WithinNone
  <1>2. ASSUME NEW u \in Seq(T), NEW x \in T, u \in S
        PROVE  Append(u, x) \in S
    <2>1. Within(Append(u, x), P) = IF x \in P THEN Append(Within(u, P), x) ELSE Within(u, P)
      BY WithinAppend
    <2>2. Within(Append(u, x), P \cap Q) =
            IF x \in P \cap Q THEN Append(Within(u, P \cap Q), x) ELSE Within(u, P \cap Q)
      BY WithinAppend
    <2>3. Within(u, P) \in Seq(T)
      BY WithinType
    <2>4. Within(Append(Within(u, P), x), Q) =
            IF x \in Q THEN Append(Within(Within(u, P), Q), x) ELSE Within(Within(u, P), Q)
      BY <2>3, WithinAppend
    <2>5. Within(Within(u, P), Q) = Within(u, P \cap Q)
      BY <1>2
    <2>6. Within(Within(Append(u, x), P), Q) = Within(Append(u, x), P \cap Q)
      <3>1. CASE x \in P /\ x \in Q
        BY <2>1, <2>2, <2>4, <2>5, <3>1, Zenon
      <3>2. CASE x \in P /\ x \notin Q
        BY <2>1, <2>2, <2>4, <2>5, <3>2, Zenon
      <3>3. CASE x \notin P
        BY <2>1, <2>2, <2>5, <3>3, Zenon
      <3>4. QED
        BY <3>1, <3>2, <3>3
    <2>7. Append(u, x) \in Seq(T)
      OBVIOUS
    <2>8. QED
      BY <2>6, <2>7
  <1> HIDE DEF S
  <1>3. Seq(T) \subseteq S
    BY <1>1, <1>2, OverSequences
  <1>4. QED
    BY <1>3 DEF S

LEMMA DedupAppend ==
    ASSUME NEW s \in Seq(MountType), NEW m \in MountType
    PROVE  dedupMountsByTarget(Append(s, m)) = WithMount(dedupMountsByTarget(s), m)
  <1>1. PICK f \in [0 .. Len(s) -> Seq(MountType)] :
          /\ f[0] = <<>> /\ dedupMountsByTarget(s) = f[Len(s)]
          /\ \A n \in 1 .. Len(s) : f[n] = WithMount(f[n - 1], s[n])
    BY DedupUnfolds
  <1>2. PICK t \in Seq(MountType) : t = Append(s, m)
    <2>1. Append(s, m) \in Seq(MountType)
      OBVIOUS
    <2>2. QED
      BY <2>1
  <1>3. PICK g \in [0 .. Len(t) -> Seq(MountType)] :
          /\ g[0] = <<>> /\ dedupMountsByTarget(t) = g[Len(t)]
          /\ \A n \in 1 .. Len(t) : g[n] = WithMount(g[n - 1], t[n])
    BY DedupUnfolds
  <1>4. PICK L \in Nat : L = Len(s)
    OBVIOUS
  <1>5. Len(t) = L + 1 /\ t[L + 1] = m /\ \A n \in 1 .. L : t[n] = s[n]
    BY <1>2, <1>4
  <1> DEFINE G == {n \in 0 .. L : f[n] = g[n]}
  <1>6. 0 \in G
    BY <1>1, <1>3
  <1>7. ASSUME NEW n \in 1 .. L, n - 1 \in G
        PROVE  n \in G
    <2>1. f[n] = WithMount(f[n - 1], s[n])
      BY <1>1, <1>4
    <2>2. n \in 1 .. L + 1
      OBVIOUS
    <2>3. g[n] = WithMount(g[n - 1], t[n])
      BY <1>3, <1>5, <2>2
    <2>4. t[n] = s[n] /\ f[n - 1] = g[n - 1]
      BY <1>5, <1>7
    <2>5. f[n] = g[n]
      BY <2>1, <2>3, <2>4
    <2>6. QED
      BY <2>5
  <1> HIDE DEF G
  <1>8. 0 .. L \subseteq G
    BY <1>6, <1>7, UpTo
  <1>9. f[L] = g[L]
    BY <1>8 DEF G
  <1>10. g[L + 1] = WithMount(g[L], m)
    <2>1. L + 1 \in 1 .. L + 1 /\ (L + 1) - 1 = L
      OBVIOUS
    <2>2. g[L + 1] = WithMount(g[(L + 1) - 1], t[L + 1])
      BY <1>3, <1>5, <2>1
    <2>3. QED
      BY <1>5, <2>1, <2>2
  <1>11. dedupMountsByTarget(t) = g[L + 1] /\ dedupMountsByTarget(s) = f[L]
    BY <1>1, <1>3, <1>4, <1>5
  <1>12. QED
    BY <1>2, <1>9, <1>10, <1>11

Solid == {m \in MountType : m.target # ""}

(* A mount takes away only others at its own target.                       *)
LEMMA SolidMount ==
    ASSUME NEW a \in Seq(MountType), NEW b \in Seq(MountType), NEW m \in MountType,
           Within(a, Solid) = Within(b, Solid)
    PROVE  /\ Within(WithMount(a, m), Solid) = Within(WithMount(b, m), Solid)
           /\ m \notin Solid => Within(WithMount(a, m), Solid) = Within(a, Solid)
  <1>1. PICK O : O = {x \in MountType : m.target = "" \/ x.target # m.target}
    OBVIOUS
  <1>2. ASSUME NEW s \in Seq(MountType)
        PROVE  /\ WithMount(s, m) = Append(Within(s, O), m)
               /\ Within(s, O) \in Seq(MountType)
               /\ Within(Within(s, O), Solid) = Within(Within(s, Solid), O)
    <2>1. \A i \in DOMAIN s : s[i] \in MountType
      OBVIOUS
    <2>2. {k \in DOMAIN s : m.target = "" \/ s[k].target # m.target} = {k \in DOMAIN s : s[k] \in O}
      BY <1>1, <2>1
    <2>3. WithMount(s, m) = Append(Within(s, O), m)
      BY <2>2 DEF WithMount, Within
    <2>4. Within(Within(s, O), Solid) = Within(s, O \cap Solid)
      BY WithinTwice
    <2>5. Within(Within(s, Solid), O) = Within(s, Solid \cap O)
      BY WithinTwice
    <2>6. O \cap Solid = Solid \cap O
      OBVIOUS
    <2>7. Within(s, O) \in Seq(MountType)
      BY WithinType
    <2>8. QED
      BY <2>3, <2>4, <2>5, <2>6, <2>7, Zenon
  <1>3. ASSUME NEW s \in Seq(MountType)
        PROVE  Within(WithMount(s, m), Solid) =
                 IF m \in Solid THEN Append(Within(Within(s, Solid), O), m)
                 ELSE Within(Within(s, Solid), O)
    <2>1. PICK u \in Seq(MountType) : u = Within(s, O)
      BY <1>2
    <2>2. Within(Append(u, m), Solid) =
            IF m \in Solid THEN Append(Within(u, Solid), m) ELSE Within(u, Solid)
      BY WithinAppend
    <2>3. WithMount(s, m) = Append(u, m) /\ Within(u, Solid) = Within(Within(s, Solid), O)
      BY <1>2, <2>1, Zenon
    <2>4. QED
      BY <2>2, <2>3, Zenon
  <1>4. Within(WithMount(a, m), Solid) = Within(WithMount(b, m), Solid)
    BY <1>3, Zenon
  <1>5. ASSUME m \notin Solid
        PROVE  Within(WithMount(a, m), Solid) = Within(a, Solid)
    <2>1. O = MountType
      BY <1>1, <1>5 DEF Solid
    <2>2. PICK w \in Seq(MountType) : w = Within(a, Solid)
      BY WithinType
    <2>3. DOMAIN w \subseteq {i \in DOMAIN w : w[i] \in O}
      BY <2>1
    <2>4. Within(w, O) = w
      BY <2>3, KeptAll DEF Within
    <2>5. QED
      BY <1>3, <1>5, <2>2, <2>4, Zenon
  <1>6. QED
    BY <1>4, <1>5

LEMMA SolidDedup ==
    ASSUME NEW s \in Seq(MountType)
    PROVE  Within(dedupMountsByTarget(s), Solid) =
             Within(dedupMountsByTarget(Within(s, Solid)), Solid)
  <1> DEFINE S == {u \in Seq(MountType) :
                     Within(dedupMountsByTarget(u), Solid) =
                       Within(dedupMountsByTarget(Within(u, Solid)), Solid)}
  <1>1. <<>> \in S
    <2>1. Within(<<>>, Solid) = <<>> /\ <<>> \in Seq(MountType)
      BY WithinNone
    <2>2. QED
      BY <2>1, Zenon
  <1>2. ASSUME NEW u \in Seq(MountType), NEW m \in MountType, u \in S
        PROVE  Append(u, m) \in S
    <2>1. PICK w \in Seq(MountType) : w = Within(u, Solid)
      BY WithinType
    <2>2. PICK a \in Seq(MountType) : a = dedupMountsByTarget(u)
      BY DedupMembers
    <2>3. PICK b \in Seq(MountType) : b = dedupMountsByTarget(w)
      BY DedupMembers
    <2>4. Within(a, Solid) = Within(b, Solid)
      BY <1>2, <2>1, <2>2, <2>3
    <2>5. dedupMountsByTarget(Append(u, m)) = WithMount(a, m)
      BY <2>2, DedupAppend
    <2>6. Within(Append(u, m), Solid) = IF m \in Solid THEN Append(w, m) ELSE w
      BY <2>1, WithinAppend
    <2>7. dedupMountsByTarget(Append(w, m)) = WithMount(b, m)
      BY <2>3, DedupAppend
    <2>8. /\ Within(WithMount(a, m), Solid) = Within(WithMount(b, m), Solid)
          /\ m \notin Solid => Within(WithMount(a, m), Solid) = Within(a, Solid)
      BY <2>4, SolidMount
    <2>9. Append(u, m) \in Seq(MountType)
      OBVIOUS
    <2>10. CASE m \in Solid
      BY <2>5, <2>6, <2>7, <2>8, <2>9, <2>10, Zenon
    <2>11. CASE m \notin Solid
      BY <2>3, <2>4, <2>5, <2>6, <2>8, <2>9, <2>11, Zenon
    <2>12. QED
      BY <2>10, <2>11
  <1> HIDE DEF S
  <1>3. Seq(MountType) \subseteq S
    BY <1>1, <1>2, OverSequences
  <1>4. QED
    BY <1>3 DEF S

LEMMA FlattenWithin ==
    ASSUME NEW T, NEW P, NEW ss \in Seq(Seq(T))
    PROVE  Within(FlattenSeq(ss), P) = FlattenSeq([i \in DOMAIN ss |-> Within(ss[i], P)])
  <1> DEFINE W(u) == [i \in DOMAIN u |-> Within(u[i], P)]
             S == {u \in Seq(Seq(T)) : W(u) \in Seq(Seq(T))
                                         /\ Within(FlattenSeq(u), P) = FlattenSeq(W(u))}
  <1>1. <<>> \in S
    <2>1. PICK e \in Seq(Seq(T)) : e = <<>>
      BY EmptySeq
    <2>2. FlattenSeq(e) = <<>>
      <3>1. PICK f \in [0 .. Len(e) -> Seq(T)] : f[0] = <<>> /\ FlattenSeq(e) = f[Len(e)]
        BY FlattenUnfolds
      <3>2. Len(e) = 0
        BY <2>1
      <3>3. QED
        BY <3>1, <3>2
    <2>3. W(e) = e
      BY <2>1
    <2>4. Within(FlattenSeq(e), P) = FlattenSeq(W(e))
      BY <2>1, <2>2, <2>3, WithinNone, Zenon
    <2>5. QED
      BY <2>1, <2>3, <2>4
  <1>2. ASSUME NEW u \in Seq(Seq(T)), NEW t \in Seq(T), u \in S
        PROVE  Append(u, t) \in S
    <2>1. PICK L \in Nat : L = Len(u) /\ DOMAIN u = 1 .. L
      OBVIOUS
    <2>2. PICK v \in Seq(Seq(T)) : v = Append(u, t)
      <3>1. Append(u, t) \in Seq(Seq(T))
        OBVIOUS
      <3>2. QED
        BY <3>1
    <2>3. DOMAIN v = 1 .. L + 1 /\ v[L + 1] = t /\ \A i \in 1 .. L : v[i] = u[i]
      BY <2>1, <2>2
    <2>4. PICK r \in Seq(T) : r = Within(t, P)
      BY WithinType
    <2>5. PICK w \in Seq(Seq(T)) : w = W(u)
      BY <1>2
    <2>6. DOMAIN w = 1 .. L /\ \A i \in 1 .. L : w[i] = Within(u[i], P)
      BY <2>1, <2>5
    <2>7. PICK x \in Seq(Seq(T)) : x = Append(w, r)
      <3>1. Append(w, r) \in Seq(Seq(T))
        OBVIOUS
      <3>2. QED
        BY <3>1
    <2>8. /\ x = [i \in 1 .. L + 1 |-> x[i]] /\ x[L + 1] = r
          /\ \A i \in 1 .. L : x[i] = w[i]
      <3>1. Len(w) = L
        BY <2>1, <2>6
      <3>2. Len(x) = L + 1 /\ x[L + 1] = r /\ \A i \in 1 .. L : x[i] = w[i]
        BY <2>7, <3>1, AppendProperties
      <3>3. DOMAIN x = 1 .. L + 1 /\ x = [i \in DOMAIN x |-> x[i]]
        BY <3>2
      <3>4. QED
        BY <3>2, <3>3
    <2>9. \A i \in 1 .. L + 1 : x[i] = Within(v[i], P)
      <3> SUFFICES ASSUME NEW i \in 1 .. L + 1
                   PROVE  x[i] = Within(v[i], P)
        OBVIOUS
      <3>1. CASE i = L + 1
        BY <2>3, <2>4, <2>8, <3>1
      <3>2. CASE i # L + 1
        <4>1. i \in 1 .. L
          BY <3>2
        <4>2. QED
          BY <2>3, <2>6, <2>8, <4>1
      <3>3. QED
        BY <3>1, <3>2
    <2>10. W(v) = x
      BY <2>3, <2>8, <2>9
    <2>11. FlattenSeq(v) = FlattenSeq(u) \o t /\ FlattenSeq(x) = FlattenSeq(w) \o r
      BY <2>2, <2>7, FlattenAppend
    <2>12. FlattenSeq(u) \in Seq(T)
      BY FlattenType
    <2>13. Within(FlattenSeq(u) \o t, P) = Within(FlattenSeq(u), P) \o Within(t, P)
      BY <2>12, WithinConcat, SMTT(30)
    <2>14. Within(FlattenSeq(u), P) = FlattenSeq(w)
      BY <1>2, <2>5
    <2>15. Within(FlattenSeq(v), P) = FlattenSeq(x)
      BY <2>4, <2>11, <2>13, <2>14, Zenon
    <2>16. QED
      BY <2>2, <2>10, <2>15
  <1> HIDE DEF S
  <1>3. Seq(Seq(T)) \subseteq S
    BY <1>1, <1>2, OverSequences
  <1>4. QED
    BY <1>3 DEF S

Filled == {m \in MountType : ~Blank(m)}

LEMMA SolidReread ==
    ASSUME NEW h \in Hosts, NEW ms \in Seq(MountType)
    PROVE  Within(SubMounts(Named(ms), h), Solid) = Within(SubMounts(ms, h), Solid)
  <1>1. ASSUME NEW s \in Seq(MountType), NEW m \in MountType
        PROVE  SubMounts(Append(s, m), h) = Append(SubMounts(s, h), SubstitutedMount(m, h))
    <2>1. PICK L \in Nat : L = Len(s) /\ DOMAIN s = 1 .. L
      OBVIOUS
    <2>2. PICK t : t = Append(s, m)
      OBVIOUS
    <2>3. DOMAIN t = 1 .. L + 1 /\ t[L + 1] = m /\ \A i \in 1 .. L : t[i] = s[i]
      BY <2>1, <2>2
    <2>4. PICK u \in Seq(MountType) : u = SubMounts(s, h)
      BY SubstitutedParts
    <2>5. DOMAIN u = 1 .. L /\ \A i \in 1 .. L : u[i] = SubstitutedMount(s[i], h)
      BY <2>1, <2>4 DEF SubMounts
    <2>6. PICK n : n = SubstitutedMount(m, h)
      OBVIOUS
    <2>7. SubMounts(t, h) = [i \in 1 .. L + 1 |-> SubstitutedMount(t[i], h)]
      BY <2>3 DEF SubMounts
    <2>8. n \in MountType
      <3>1. <<m>> \in Seq(MountType) /\ DOMAIN <<m>> = {1} /\ <<m>>[1] = m
        OBVIOUS
      <3>2. SubMounts(<<m>>, h) \in Seq(MountType)
        BY <3>1, SubstitutedParts
      <3>3. SubMounts(<<m>>, h) = [i \in DOMAIN <<m>> |-> SubstitutedMount(<<m>>[i], h)]
        BY DEF SubMounts
      <3>4. PICK q \in Seq(MountType) : q = SubMounts(<<m>>, h)
        BY <3>2
      <3>5. DOMAIN q = {1} /\ q[1] = n
        BY <2>6, <3>1, <3>3, <3>4, Zenon
      <3>6. QED
        BY <3>4, <3>5
    <2>9. PICK v : v = Append(u, n)
      OBVIOUS
    <2>10. Len(u) = L
      BY <2>1, <2>5
    <2>11. Len(v) = L + 1 /\ v[L + 1] = n /\ v \in Seq(MountType)
           /\ \A i \in 1 .. L : v[i] = u[i]
      BY <2>8, <2>9, <2>10, AppendProperties
    <2>12. v = [i \in 1 .. L + 1 |-> v[i]]
      BY <2>11
    <2>13. \A i \in 1 .. L + 1 : v[i] = SubstitutedMount(t[i], h)
      <3> SUFFICES ASSUME NEW i \in 1 .. L + 1
                   PROVE  v[i] = SubstitutedMount(t[i], h)
        OBVIOUS
      <3>1. CASE i = L + 1
        BY <2>3, <2>6, <2>11, <3>1
      <3>2. CASE i # L + 1
        <4>1. i \in 1 .. L
          BY <3>2
        <4>2. QED
          BY <2>3, <2>5, <2>11, <4>1
      <3>3. QED
        BY <3>1, <3>2
    <2>14. SubMounts(t, h) = v
      BY <2>7, <2>12, <2>13, Zenon
    <2>15. QED
      BY <2>2, <2>4, <2>6, <2>9, <2>14
  <1>2. ASSUME NEW m \in MountType, m \notin Filled
        PROVE  SubstitutedMount(m, h) \notin Solid
    <2>1. m.source = "" /\ m.target = ""
      BY <1>2 DEF Filled, Blank
    <2>2. ResolveString("", h) = ""
      BY SubstitutedBlanks
    <2>3. PICK n : n = SubstitutedMount(m, h)
      OBVIOUS
    <2>4. n.target = ResolveString(m.target, h)
      BY <2>3 DEF SubstitutedMount, MountType
    <2>5. n.target = ""
      BY <2>1, <2>2, <2>4
    <2>6. QED
      BY <2>3, <2>5 DEF Solid
  <1> DEFINE S == {s \in Seq(MountType) :
                     Within(SubMounts(Within(s, Filled), h), Solid) = Within(SubMounts(s, h), Solid)}
  <1>3. <<>> \in S
    <2>1. Within(<<>>, Filled) = <<>> /\ <<>> \in Seq(MountType)
      BY WithinNone, EmptySeq
    <2>2. QED
      BY <2>1, Zenon
  <1>4. ASSUME NEW s \in Seq(MountType), NEW m \in MountType, s \in S
        PROVE  Append(s, m) \in S
    <2>1. PICK w \in Seq(MountType) : w = Within(s, Filled)
      BY WithinType
    <2>2. Within(Append(s, m), Filled) = IF m \in Filled THEN Append(w, m) ELSE w
      BY <2>1, WithinAppend
    <2>3. PICK u \in Seq(MountType) : u = SubMounts(s, h)
      BY SubstitutedParts
    <2>4. PICK v \in Seq(MountType) : v = SubMounts(w, h)
      BY SubstitutedParts
    <2>5. PICK n : n = SubstitutedMount(m, h)
      OBVIOUS
    <2>6. SubMounts(Append(s, m), h) = Append(u, n) /\ SubMounts(Append(w, m), h) = Append(v, n)
      BY <1>1, <2>3, <2>4, <2>5
    <2>7. Within(v, Solid) = Within(u, Solid)
      BY <1>4, <2>1, <2>3, <2>4
    <2>8. Append(s, m) \in Seq(MountType) /\ Append(s, m) # <<>>
      BY AppendProperties
    <2>9. n \in MountType
      <3>1. SubMounts(Append(s, m), h) \in Seq(MountType)
        BY <2>8, SubstitutedParts
      <3>2. PICK q \in Seq(MountType) : q = Append(u, n)
        BY <2>6, <3>1
      <3>3. PICK K \in Nat : K = Len(u)
        OBVIOUS
      <3>4. q[K + 1] = n /\ Len(q) = K + 1
        BY <3>2, <3>3
      <3>5. QED
        BY <3>4
    <2>10. /\ Within(Append(u, n), Solid) =
                IF n \in Solid THEN Append(Within(u, Solid), n) ELSE Within(u, Solid)
           /\ Within(Append(v, n), Solid) =
                IF n \in Solid THEN Append(Within(v, Solid), n) ELSE Within(v, Solid)
      BY <2>9, WithinAppend
    <2>11. Within(Append(u, n), Solid) = Within(Append(v, n), Solid)
      BY <2>7, <2>10, Zenon
    <2>12. CASE m \in Filled
      BY <2>2, <2>6, <2>8, <2>11, <2>12, Zenon
    <2>13. CASE m \notin Filled
      <3>1. n \notin Solid
        BY <1>2, <2>5, <2>13
      <3>2. Within(Append(u, n), Solid) = Within(v, Solid)
        BY <2>7, <2>10, <3>1, Zenon
      <3>3. QED
        BY <2>2, <2>4, <2>6, <2>8, <2>13, <3>2, Zenon
    <2>14. QED
      BY <2>12, <2>13
  <1> HIDE DEF S
  <1>5. Seq(MountType) \subseteq S
    BY <1>3, <1>4, OverSequences
  <1>6. Within(SubMounts(Within(ms, Filled), h), Solid) = Within(SubMounts(ms, h), Solid)
    BY <1>5 DEF S
  <1>7. Named(ms) = Within(ms, Filled)
    <2>1. {i \in DOMAIN ms : ~Blank(ms[i])} = {i \in DOMAIN ms : ms[i] \in Filled}
      <3>1. \A i \in DOMAIN ms : ms[i] \in MountType
        OBVIOUS
      <3>2. QED
        BY <3>1 DEF Filled
    <2>2. QED
      BY <2>1 DEF Named, Within
  <1>8. QED
    BY <1>6, <1>7

(* Layers that a compose service cannot tell apart.                        *)
Alike(a, b, h) ==
    /\ a.privileged = b.privileged /\ a.env = b.env /\ a.capAdd = b.capAdd
    /\ a.entrypoint = b.entrypoint
    /\ Within(SubMounts(a.mounts, h), Solid) = Within(SubMounts(b.mounts, h), Solid)

(* A layer that brings nothing to a compose service.                       *)
Nothing(l) ==
    /\ l.privileged = "nil" /\ l.env = NoEnv /\ l.capAdd = <<>>
    /\ l.entrypoint = "" /\ l.mounts = <<>>

(* Configurations that make the same service.                              *)
Agree(c, d) ==
    /\ c.privileged = d.privileged /\ c.env = d.env /\ c.capAdd = d.capAdd
    /\ c.entrypoints = d.entrypoints
    /\ Within(c.mounts, Solid) = Within(d.mounts, Solid)

LEMMA RereadAlike ==
    ASSUME NEW h \in Hosts, NEW l \in LayerType
    PROVE  Alike(Reread(l), l, h)
  <1>1. l.mounts \in Seq(MountType)
    BY LayerParts
  <1>2. PICK r : r = Reread(l)
    OBVIOUS
  <1>3. /\ r.privileged = l.privileged /\ r.env = l.env /\ r.capAdd = l.capAdd
        /\ r.entrypoint = l.entrypoint /\ r.mounts = Named(l.mounts)
    BY <1>2 DEF Reread
  <1>4. Within(SubMounts(r.mounts, h), Solid) = Within(SubMounts(l.mounts, h), Solid)
    BY <1>1, <1>3, SolidReread
  <1>5. QED
    BY <1>2, <1>3, <1>4 DEF Alike

LEMMA AgreeUp ==
    ASSUME NEW c \in ResolvedType, NEW d \in ResolvedType, Agree(c, d), NEW e \in BOOLEAN
    PROVE  upCompose(composeRunOverride(c, e)) = upCompose(composeRunOverride(d, e))
  <1>1. PICK X \in Seq(MountType) : X = ExtraMounts
    BY ConfigAssumption
  <1> DEFINE Binds == {m \in MountType : m.type = "bind" /\ m.source # "" /\ m.target # ""}
             Others == {m \in MountType : m.type \in {"volume", "tmpfs"} /\ m.target # ""}
  <1>2. Solid \cap Binds = Binds /\ Solid \cap Others = Others
    BY DEF Solid
  <1>3. ASSUME NEW s \in Seq(MountType)
        PROVE  /\ Within(s \o X, Binds) = Within(Within(s, Solid), Binds) \o Within(X, Binds)
               /\ Within(s \o X, Others) = Within(Within(s, Solid), Others) \o Within(X, Others)
    <2> HIDE DEF Binds, Others
    <2>1. /\ Within(s \o X, Binds) = Within(s, Binds) \o Within(X, Binds)
          /\ Within(s \o X, Others) = Within(s, Others) \o Within(X, Others)
      <3>1. \A P : Within(s \o X, P) = Within(s, P) \o Within(X, P)
        <4> SUFFICES ASSUME NEW P
                     PROVE  Within(s \o X, P) = Within(s, P) \o Within(X, P)
          OBVIOUS
        <4>1. QED
          BY WithinConcat
      <3>2. QED
        BY <3>1, Zenon
    <2>2. /\ Within(Within(s, Solid), Binds) = Within(s, Solid \cap Binds)
          /\ Within(Within(s, Solid), Others) = Within(s, Solid \cap Others)
      BY WithinTwice
    <2>3. QED
      BY <1>2, <2>1, <2>2, Zenon
  <1>4. c.mounts \in Seq(MountType) /\ d.mounts \in Seq(MountType)
    BY DEF ResolvedType
  <1>5. /\ Within(c.mounts \o X, Binds) = Within(d.mounts \o X, Binds)
        /\ Within(c.mounts \o X, Others) = Within(d.mounts \o X, Others)
    <2> HIDE DEF Binds, Others
    <2>1. Within(c.mounts, Solid) = Within(d.mounts, Solid)
      BY DEF Agree
    <2>2. QED
      BY <1>3, <1>4, <2>1, Zenon
  <1>6. ASSUME NEW s \in Seq(MountType)
        PROVE  /\ {i \in DOMAIN s : s[i].type = "bind" /\ s[i].source # "" /\ s[i].target # ""}
                    = {i \in DOMAIN s : s[i] \in Binds}
               /\ {i \in DOMAIN s : s[i].type \in {"volume", "tmpfs"} /\ s[i].target # ""}
                    = {i \in DOMAIN s : s[i] \in Others}
    <2>1. \A i \in DOMAIN s : s[i] \in MountType
      OBVIOUS
    <2>2. QED
      BY <2>1
  <1>7. ASSUME NEW f \in {c, d}
        PROVE  /\ composeBindMounts(f) = <<defaultWorkspaceMount>> \o Within(f.mounts \o X, Binds)
               /\ composeMounts(f) =
                    LET kept == Within(f.mounts \o X, Others)
                    IN  [i \in DOMAIN kept |-> IF kept[i].type = "tmpfs"
                           THEN [kept[i] EXCEPT !.source = ""] ELSE kept[i]]
    <2>1. PICK s \in Seq(MountType) : s = f.mounts \o X
      <3>1. f.mounts \o X \in Seq(MountType)
        BY <1>4
      <3>2. QED
        BY <3>1
    <2>2. PICK w : w = defaultWorkspaceMount
      OBVIOUS
    <2>3. composeBindMounts(f) =
            <<w>> \o Kept(s, {i \in DOMAIN s : /\ s[i].type = "bind"
                                               /\ s[i].source # "" /\ s[i].target # ""})
      BY <1>1, <2>1, <2>2, Zenon DEF composeBindMounts
    <2>4. PICK k : k = Kept(s, {i \in DOMAIN s : /\ s[i].type \in {"volume", "tmpfs"}
                                                 /\ s[i].target # ""})
      OBVIOUS
    <2>5. composeMounts(f) = [i \in DOMAIN k |-> IF k[i].type = "tmpfs"
                                THEN [k[i] EXCEPT !.source = ""] ELSE k[i]]
      BY <1>1, <2>1, <2>4, Zenon DEF composeMounts
    <2>6. Kept(s, {i \in DOMAIN s : s[i].type = "bind" /\ s[i].source # "" /\ s[i].target # ""})
            = Within(s, Binds)
      BY <1>6, Zenon DEF Within
    <2>7. k = Within(s, Others)
      BY <1>6, <2>4, Zenon DEF Within
    <2> HIDE DEF Binds, Others
    <2>8. QED
      BY <2>1, <2>2, <2>3, <2>5, <2>6, <2>7, Zenon
  <1> HIDE DEF Binds, Others
  <1>8. composeBindMounts(c) = composeBindMounts(d)
    BY <1>5, <1>7, Zenon
  <1>9. composeMounts(c) = composeMounts(d)
    BY <1>5, <1>7, ZenonT(30)
  <1>10. composeRunOverride(c, e) = composeRunOverride(d, e)
    BY <1>8, <1>9, Zenon DEF composeRunOverride, Agree
  <1>11. QED
    BY <1>10

-----------------------------------------------------------------------------
(* The service made of the label is the one made of the layers. *)

(* What layers bring to a compose service, whatever devcontainer.json says. *)
Brought(layers, h) ==
    LET ls == substituteLayers(layers, h)
    IN  [privileged |-> LastSet([i \in DOMAIN ls |-> ls[i].privileged], "nil"),
         env |-> [k \in Variable |-> LastSet([i \in DOMAIN ls |-> ls[i].env[k]], "nil")],
         capAdd |-> FlattenSeq([i \in DOMAIN ls |-> ls[i].capAdd]),
         entrypoints |-> Kept([i \in DOMAIN ls |-> ls[i].entrypoint],
                              {i \in DOMAIN ls : ls[i].entrypoint # ""}),
         mounts |-> Within(FlattenSeq([i \in DOMAIN ls |-> ls[i].mounts]), Solid)]

LEMMA BroughtAlike ==
    ASSUME NEW h \in Hosts, NEW layers \in Seq(LayerType), NEW other \in Seq(LayerType),
           Len(layers) = Len(other), \A i \in DOMAIN layers : Alike(layers[i], other[i], h)
    PROVE  Brought(layers, h) = Brought(other, h)
  <1>1. PICK L \in Nat : L = Len(layers) /\ DOMAIN layers = 1 .. L /\ DOMAIN other = 1 .. L
    OBVIOUS
  <1>2. PICK ls \in Seq(LayerType) : ls = substituteLayers(layers, h)
    BY LayersType
  <1>3. PICK os \in Seq(LayerType) : os = substituteLayers(other, h)
    BY LayersType
  <1>4. /\ DOMAIN ls = 1 .. L /\ DOMAIN os = 1 .. L
        /\ \A i \in 1 .. L :
             /\ ls[i] = [Substituted(layers[i], h) EXCEPT !.entrypoint = ResolveString(@, h)]
             /\ os[i] = [Substituted(other[i], h) EXCEPT !.entrypoint = ResolveString(@, h)]
    BY <1>1, <1>2, <1>3, LayersType
  <1>5. ASSUME NEW i \in 1 .. L
        PROVE  /\ ls[i].privileged = os[i].privileged /\ ls[i].env = os[i].env
               /\ ls[i].capAdd = os[i].capAdd /\ ls[i].entrypoint = os[i].entrypoint
               /\ Within(ls[i].mounts, Solid) = Within(os[i].mounts, Solid)
    <2>1. layers[i] \in LayerType /\ other[i] \in LayerType
      BY <1>1
    <2>2. PICK a \in LayerType : a = layers[i]
      BY <2>1
    <2>3. PICK b \in LayerType : b = other[i]
      BY <2>1
    <2>4. Alike(a, b, h)
      BY <1>1, <2>2, <2>3
    <2>5. /\ ls[i].privileged = a.privileged /\ ls[i].env = SubEnv(a.env, h)
          /\ ls[i].capAdd = SubList(a.capAdd, h) /\ ls[i].mounts = SubMounts(a.mounts, h)
          /\ ls[i].entrypoint = ResolveString(a.entrypoint, h)
      <3>1. PICK z : z = ls[i]
        OBVIOUS
      <3>2. z = [Substituted(a, h) EXCEPT !.entrypoint = ResolveString(@, h)]
        BY <1>4, <2>2, <3>1, Zenon
      <3>3. QED
        BY <3>1, <3>2, LayerFields
    <2>6. /\ os[i].privileged = b.privileged /\ os[i].env = SubEnv(b.env, h)
          /\ os[i].capAdd = SubList(b.capAdd, h) /\ os[i].mounts = SubMounts(b.mounts, h)
          /\ os[i].entrypoint = ResolveString(b.entrypoint, h)
      <3>1. PICK z : z = os[i]
        OBVIOUS
      <3>2. z = [Substituted(b, h) EXCEPT !.entrypoint = ResolveString(@, h)]
        BY <1>4, <2>3, <3>1, Zenon
      <3>3. QED
        BY <3>1, <3>2, LayerFields
    <2>7. QED
      BY <2>4, <2>5, <2>6, Zenon DEF Alike
  <1>6. PICK lm \in Seq(Seq(MountType)) : lm = [i \in DOMAIN ls |-> ls[i].mounts]
    BY Columns
  <1>7. PICK om \in Seq(Seq(MountType)) : om = [i \in DOMAIN os |-> os[i].mounts]
    BY Columns
  <1>8. Within(FlattenSeq(lm), Solid) = Within(FlattenSeq(om), Solid)
    <2>1. DOMAIN lm = 1 .. L /\ DOMAIN om = 1 .. L
          /\ \A i \in 1 .. L : lm[i] = ls[i].mounts /\ om[i] = os[i].mounts
      BY <1>4, <1>6, <1>7
    <2>2. \A i \in 1 .. L : Within(lm[i], Solid) = Within(om[i], Solid)
      BY <1>5, <2>1
    <2>3. [i \in DOMAIN lm |-> Within(lm[i], Solid)] = [i \in DOMAIN om |-> Within(om[i], Solid)]
      BY <2>1, <2>2, Zenon
    <2>4. /\ Within(FlattenSeq(lm), Solid) = FlattenSeq([i \in DOMAIN lm |-> Within(lm[i], Solid)])
          /\ Within(FlattenSeq(om), Solid) = FlattenSeq([i \in DOMAIN om |-> Within(om[i], Solid)])
      BY FlattenWithin
    <2>5. QED
      BY <2>3, <2>4, Zenon
  <1>9. DOMAIN ls = DOMAIN os
    BY <1>4
  <1>10. \A i \in DOMAIN ls :
           /\ ls[i].privileged = os[i].privileged /\ ls[i].env = os[i].env
           /\ ls[i].capAdd = os[i].capAdd /\ ls[i].entrypoint = os[i].entrypoint
    BY <1>4, <1>5
  <1>11. [i \in DOMAIN ls |-> ls[i].privileged] = [i \in DOMAIN os |-> os[i].privileged]
    BY <1>9, <1>10, Zenon
  <1>12. \A k \in Variable :
           [i \in DOMAIN ls |-> ls[i].env[k]] = [i \in DOMAIN os |-> os[i].env[k]]
    BY <1>9, <1>10, Zenon
  <1>13. [i \in DOMAIN ls |-> ls[i].capAdd] = [i \in DOMAIN os |-> os[i].capAdd]
    BY <1>9, <1>10, Zenon
  <1>14. [i \in DOMAIN ls |-> ls[i].entrypoint] = [i \in DOMAIN os |-> os[i].entrypoint]
    BY <1>9, <1>10, Zenon
  <1>15. {i \in DOMAIN ls : ls[i].entrypoint # ""} = {i \in DOMAIN os : os[i].entrypoint # ""}
    BY <1>9, <1>10, Zenon
  <1>16. [k \in Variable |-> LastSet([i \in DOMAIN ls |-> ls[i].env[k]], "nil")]
           = [k \in Variable |-> LastSet([i \in DOMAIN os |-> os[i].env[k]], "nil")]
    BY <1>12, Zenon
  <1>17. QED
    BY <1>2, <1>3, <1>6, <1>7, <1>8, <1>11, <1>13, <1>14, <1>15, <1>16, Zenon DEF Brought

LEMMA IsAppend ==
    ASSUME NEW T, NEW f \in Seq(T), NEW g \in Seq(T), NEW x \in T, Len(g) = Len(f) + 1,
           \A i \in 1 .. Len(f) : g[i] = f[i], g[Len(f) + 1] = x
    PROVE  g = Append(f, x)
  <1>1. PICK L \in Nat : L = Len(f)
    OBVIOUS
  <1>2. PICK q : q = Append(f, x)
    OBVIOUS
  <1>3. Len(q) = L + 1 /\ q \in Seq(T) /\ q[L + 1] = x /\ \A i \in 1 .. L : q[i] = f[i]
    BY <1>1, <1>2, AppendProperties
  <1>4. \A i \in 1 .. L + 1 : q[i] = g[i]
    <2> SUFFICES ASSUME NEW i \in 1 .. L + 1
                 PROVE  q[i] = g[i]
      OBVIOUS
    <2>1. CASE i = L + 1
      BY <1>1, <1>3, <2>1
    <2>2. CASE i # L + 1
      <3>1. i \in 1 .. L
        BY <2>2
      <3>2. QED
        BY <1>1, <1>3, <3>1
    <2>3. QED
      BY <2>1, <2>2
  <1>5. q = g
    BY <1>1, <1>3, <1>4
  <1>6. QED
    BY <1>2, <1>5

LEMMA KeptSame ==
    ASSUME NEW T, NEW s \in Seq(T), NEW S, NEW R, \A n \in DOMAIN s : n \in S <=> n \in R
    PROVE  Kept(s, S) = Kept(s, R)
  <1>1. \A n \in DOMAIN s : (n \in S <=> n \in R) /\ (n \in S => s[n] = s[n])
    OBVIOUS
  <1>2. QED
    BY <1>1, KeptAgree

LEMMA EnvColumn ==
    ASSUME NEW ls \in Seq(LayerType), NEW k \in Variable
    PROVE  [i \in DOMAIN ls |-> ls[i].env[k]] \in Seq(Text)
  <1>1. PICK L \in Nat : L = Len(ls) /\ DOMAIN ls = 1 .. L
    OBVIOUS
  <1>2. \A l \in LayerType : l.env[k] \in Text
    BY DEF LayerType, Env
  <1>3. \A i \in 1 .. L : ls[i] \in LayerType
    BY <1>1
  <1>4. \A i \in 1 .. L : ls[i].env[k] \in Text
    BY <1>2, <1>3
  <1>5. PICK f : f = [i \in DOMAIN ls |-> ls[i].env[k]]
    OBVIOUS
  <1>6. f = [i \in 1 .. L |-> f[i]] /\ \A i \in 1 .. L : f[i] = ls[i].env[k]
    BY <1>1, <1>5
  <1>7. \A i \in 1 .. L : f[i] \in Text
    BY <1>4, <1>6
  <1>8. f \in Seq(Text)
    BY <1>6, <1>7, Elementwise
  <1>9. QED
    BY <1>5, <1>8

LEMMA BroughtMore ==
    ASSUME NEW h \in Hosts, NEW layers \in Seq(LayerType), NEW x \in LayerType, Nothing(x)
    PROVE  Brought(Append(layers, x), h) = Brought(layers, h)
  <1>1. PICK L \in Nat : L = Len(layers) /\ DOMAIN layers = 1 .. L
    OBVIOUS
  <1>2. PICK more \in Seq(LayerType) : more = Append(layers, x)
    <2>1. Append(layers, x) \in Seq(LayerType)
      OBVIOUS
    <2>2. QED
      BY <2>1
  <1>3. DOMAIN more = 1 .. L + 1 /\ more[L + 1] = x /\ \A i \in 1 .. L : more[i] = layers[i]
    BY <1>1, <1>2
  <1>4. PICK ls \in Seq(LayerType) : ls = substituteLayers(layers, h)
    BY LayersType
  <1>5. PICK os \in Seq(LayerType) : os = substituteLayers(more, h)
    BY LayersType
  <1>6. PICK y : y = [Substituted(x, h) EXCEPT !.entrypoint = ResolveString(@, h)]
    OBVIOUS
  <1>7. /\ DOMAIN ls = 1 .. L /\ DOMAIN os = 1 .. L + 1
        /\ \A i \in 1 .. L :
             ls[i] = [Substituted(layers[i], h) EXCEPT !.entrypoint = ResolveString(@, h)]
        /\ \A i \in 1 .. L + 1 :
             os[i] = [Substituted(more[i], h) EXCEPT !.entrypoint = ResolveString(@, h)]
    BY <1>1, <1>3, <1>4, <1>5, LayersType
  <1>8. (\A i \in 1 .. L : os[i] = ls[i]) /\ os[L + 1] = y
    <2>1. ASSUME NEW i \in 1 .. L
          PROVE  os[i] = ls[i]
      <3>1. i \in 1 .. L + 1 /\ more[i] = layers[i]
        BY <1>3
      <3>2. QED
        BY <1>7, <3>1
    <2>2. os[L + 1] = y
      BY <1>3, <1>6, <1>7
    <2>3. QED
      BY <2>1, <2>2
  <1>9. /\ y.privileged = "nil" /\ y.env = NoEnv /\ y.capAdd = <<>>
        /\ y.mounts = <<>> /\ y.entrypoint = ""
    <2>1. /\ y.privileged = x.privileged /\ y.env = SubEnv(x.env, h)
          /\ y.capAdd = SubList(x.capAdd, h) /\ y.mounts = SubMounts(x.mounts, h)
          /\ y.entrypoint = ResolveString(x.entrypoint, h)
      BY <1>6, LayerFields
    <2>2. QED
      BY <2>1, SubstitutedBlanks DEF Nothing
  <1>11. LastSet([i \in DOMAIN os |-> os[i].privileged], "nil")
           = LastSet([i \in DOMAIN ls |-> ls[i].privileged], "nil")
    <2>1. PICK f \in Seq(Switch) : f = [i \in DOMAIN ls |-> ls[i].privileged]
      BY Columns
    <2>2. PICK g \in Seq(Switch) : g = [i \in DOMAIN os |-> os[i].privileged]
      BY Columns
    <2>3. DOMAIN f = 1 .. L /\ Len(f) = L /\ Len(g) = L + 1 /\ g[L + 1] = y.privileged
          /\ \A i \in 1 .. L : g[i] = f[i]
      BY <1>7, <1>8, <2>1, <2>2
    <2>4. PICK t \in Switch : t = "nil"
      BY DEF Switch
    <2>5. g[L + 1] = t
      BY <1>9, <2>3, <2>4, Zenon
    <2>6. g = Append(f, t)
      BY <2>3, <2>5, IsAppend
    <2>7. LastSet(g, t) = LastSet(f, t)
      BY <2>6, LastSetAppend
    <2>8. QED
      BY <2>1, <2>2, <2>4, <2>7, Zenon
  <1>12. \A k \in Variable : LastSet([i \in DOMAIN os |-> os[i].env[k]], "nil")
                               = LastSet([i \in DOMAIN ls |-> ls[i].env[k]], "nil")
    <2> SUFFICES ASSUME NEW k \in Variable
                 PROVE  LastSet([i \in DOMAIN os |-> os[i].env[k]], "nil")
                          = LastSet([i \in DOMAIN ls |-> ls[i].env[k]], "nil")
      OBVIOUS
    <2>1. PICK t \in Text : t = "nil"
      BY ConfigAssumption
    <2>2. PICK f \in Seq(Text) : f = [i \in DOMAIN ls |-> ls[i].env[k]]
      BY EnvColumn
    <2>3. PICK g \in Seq(Text) : g = [i \in DOMAIN os |-> os[i].env[k]]
      BY EnvColumn
    <2>4. DOMAIN f = 1 .. L /\ Len(f) = L /\ Len(g) = L + 1 /\ g[L + 1] = y.env[k]
          /\ \A i \in 1 .. L : g[i] = f[i]
      BY <1>7, <1>8, <2>2, <2>3
    <2>5. y.env[k] = "nil"
      BY <1>9 DEF NoEnv
    <2>6. g[L + 1] = t
      BY <2>1, <2>4, <2>5, Zenon
    <2>7. g = Append(f, t)
      BY <2>4, <2>6, IsAppend
    <2>8. LastSet(g, t) = LastSet(f, t)
      BY <2>7, LastSetAppend
    <2>9. QED
      BY <2>1, <2>2, <2>3, <2>8
  <1>13. FlattenSeq([i \in DOMAIN os |-> os[i].capAdd]) = FlattenSeq([i \in DOMAIN ls |-> ls[i].capAdd])
    <2>1. PICK f \in Seq(Seq(Text)) : f = [i \in DOMAIN ls |-> ls[i].capAdd]
      BY Columns
    <2>2. PICK g \in Seq(Seq(Text)) : g = [i \in DOMAIN os |-> os[i].capAdd]
      BY Columns
    <2>3. DOMAIN f = 1 .. L /\ Len(f) = L /\ Len(g) = L + 1 /\ g[L + 1] = y.capAdd
          /\ \A i \in 1 .. L : g[i] = f[i]
      BY <1>7, <1>8, <2>1, <2>2
    <2>4. PICK e \in Seq(Text) : e = <<>> /\ e = y.capAdd
      <3>1. y.capAdd = <<>>
        BY <1>9
      <3>2. QED
        BY <3>1, EmptySeq
    <2>5. g = Append(f, e)
      BY <2>3, <2>4, IsAppend
    <2>6. FlattenSeq(g) = FlattenSeq(f) \o <<>> /\ FlattenSeq(f) \in Seq(Text)
      BY <2>4, <2>5, FlattenAppend, FlattenType
    <2>7. FlattenSeq(g) = FlattenSeq(f)
      BY <2>6, ConcatEmptySeq
    <2>8. QED
      BY <2>1, <2>2, <2>7
  <1>14. FlattenSeq([i \in DOMAIN os |-> os[i].mounts]) = FlattenSeq([i \in DOMAIN ls |-> ls[i].mounts])
    <2>1. PICK f \in Seq(Seq(MountType)) : f = [i \in DOMAIN ls |-> ls[i].mounts]
      BY Columns
    <2>2. PICK g \in Seq(Seq(MountType)) : g = [i \in DOMAIN os |-> os[i].mounts]
      BY Columns
    <2>3. DOMAIN f = 1 .. L /\ Len(f) = L /\ Len(g) = L + 1 /\ g[L + 1] = y.mounts
          /\ \A i \in 1 .. L : g[i] = f[i]
      BY <1>7, <1>8, <2>1, <2>2
    <2>4. PICK e \in Seq(MountType) : e = <<>> /\ e = y.mounts
      <3>1. y.mounts = <<>>
        BY <1>9
      <3>2. QED
        BY <3>1, EmptySeq
    <2>5. g = Append(f, e)
      BY <2>3, <2>4, IsAppend
    <2>6. FlattenSeq(g) = FlattenSeq(f) \o <<>> /\ FlattenSeq(f) \in Seq(MountType)
      BY <2>4, <2>5, FlattenAppend, FlattenType
    <2>7. FlattenSeq(g) = FlattenSeq(f)
      BY <2>6, ConcatEmptySeq
    <2>8. QED
      BY <2>1, <2>2, <2>7
  <1>15. Kept([i \in DOMAIN os |-> os[i].entrypoint], {i \in DOMAIN os : os[i].entrypoint # ""})
           = Kept([i \in DOMAIN ls |-> ls[i].entrypoint], {i \in DOMAIN ls : ls[i].entrypoint # ""})
    <2>1. PICK f \in Seq(Text) : f = [i \in DOMAIN ls |-> ls[i].entrypoint]
      BY Columns
    <2>2. PICK g \in Seq(Text) : g = [i \in DOMAIN os |-> os[i].entrypoint]
      BY Columns
    <2>3. DOMAIN f = 1 .. L /\ Len(f) = L /\ Len(g) = L + 1
          /\ g[L + 1] = y.entrypoint
          /\ \A i \in 1 .. L : g[i] = f[i]
      BY <1>7, <1>8, <2>1, <2>2
    <2>4. PICK t \in Text : t = "" /\ y.entrypoint = t
      BY <1>9, ConfigAssumption
    <2>5. g = Append(f, t)
      <3>1. g[L + 1] = t
        BY <2>3, <2>4, Zenon
      <3>2. QED
        BY <2>3, <3>1, IsAppend
    <2>6. PICK S : S = {i \in DOMAIN os : os[i].entrypoint # ""}
      OBVIOUS
    <2>7. PICK R : R = {i \in DOMAIN ls : ls[i].entrypoint # ""}
      OBVIOUS
    <2>8. L + 1 \notin S /\ \A i \in 1 .. L : i \in S <=> i \in R
      <3>1. \A i \in 1 .. L : os[i].entrypoint = ls[i].entrypoint
        BY <1>8
      <3>2. L + 1 \notin S
        BY <1>8, <1>9, <2>6
      <3>3. \A i \in 1 .. L : i \in DOMAIN os /\ i \in DOMAIN ls
        BY <1>7
      <3>4. QED
        BY <2>6, <2>7, <3>1, <3>2, <3>3
    <2>9. Len(f) = L
      BY <2>3
    <2>10. Kept(g, S) = Kept(f, S)
      BY <2>5, <2>8, <2>9, KeptAppend
    <2>11. Kept(f, S) = Kept(f, R)
      BY <2>3, <2>8, KeptSame
    <2>12. QED
      BY <2>1, <2>2, <2>6, <2>7, <2>10, <2>11, Zenon
  <1>16. [k \in Variable |-> LastSet([i \in DOMAIN os |-> os[i].env[k]], "nil")]
           = [k \in Variable |-> LastSet([i \in DOMAIN ls |-> ls[i].env[k]], "nil")]
    BY <1>12, Zenon
  <1>17. Brought(more, h) = Brought(layers, h)
    BY <1>4, <1>5, <1>11, <1>13, <1>14, <1>15, <1>16, Zenon DEF Brought
  <1>18. QED
    BY <1>2, <1>17

Quiet == {l \in LayerType : Nothing(l)}

LEMMA BroughtExtras ==
    ASSUME NEW h \in Hosts, NEW layers \in Seq(LayerType), NEW extras \in Seq(Quiet)
    PROVE  layers \o extras \in Seq(LayerType) /\ Brought(layers \o extras, h) = Brought(layers, h)
  <1> DEFINE S == {e \in Seq(Quiet) : /\ layers \o e \in Seq(LayerType)
                                      /\ Brought(layers \o e, h) = Brought(layers, h)}
  <1>1. <<>> \in S
    <2>1. layers \o <<>> = layers /\ <<>> \in Seq(Quiet)
      BY ConcatEmptySeq, EmptySeq
    <2>2. QED
      BY <2>1, Zenon
  <1>2. ASSUME NEW e \in Seq(Quiet), NEW x \in Quiet, e \in S
        PROVE  Append(e, x) \in S
    <2>1. x \in LayerType /\ Nothing(x)
      BY DEF Quiet
    <2>2. PICK s \in Seq(LayerType) : s = layers \o e
      BY <1>2
    <2>3. Brought(s, h) = Brought(layers, h)
      BY <1>2, <2>2
    <2>4. layers \o Append(e, x) = Append(s, x)
      <3>1. layers \o Append(e, x) = Append(layers \o e, x)
        <4>1. Quiet \subseteq LayerType
          BY DEF Quiet
        <4>2. e \in Seq(LayerType)
          <5>1. PICK n \in Nat : n = Len(e) /\ DOMAIN e = 1 .. n /\ e = [i \in 1 .. n |-> e[i]]
            BY SMTT(30)
          <5>2. \A i \in 1 .. n : e[i] \in LayerType
            BY <4>1, <5>1
          <5>3. QED
            BY <5>1, <5>2, Elementwise
        <4>3. QED
          BY <2>1, <4>2
      <3>2. QED
        BY <2>2, <3>1
    <2>5. Append(s, x) \in Seq(LayerType)
      BY <2>1, AppendProperties
    <2>6. Brought(Append(s, x), h) = Brought(s, h)
      BY <2>1, BroughtMore
    <2>7. Append(e, x) \in Seq(Quiet)
      OBVIOUS
    <2>8. QED
      BY <2>3, <2>4, <2>5, <2>6, <2>7, Zenon
  <1> HIDE DEF S
  <1>3. Seq(Quiet) \subseteq S
    BY <1>1, <1>2, OverSequences
  <1>4. QED
    BY <1>3 DEF S

Parts(b, ls) ==
    /\ b.privileged = LastSet([i \in DOMAIN ls |-> ls[i].privileged], "nil")
    /\ \A k \in Variable : b.env[k] = LastSet([i \in DOMAIN ls |-> ls[i].env[k]], "nil")
    /\ b.capAdd = FlattenSeq([i \in DOMAIN ls |-> ls[i].capAdd])
    /\ b.entrypoints = Kept([i \in DOMAIN ls |-> ls[i].entrypoint],
                            {i \in DOMAIN ls : ls[i].entrypoint # ""})
    /\ b.mounts = Within(FlattenSeq([i \in DOMAIN ls |-> ls[i].mounts]), Solid)

LEMMA BroughtFields ==
    ASSUME NEW h, NEW layers
    PROVE  Parts(Brought(layers, h), substituteLayers(layers, h))
  <1> DEFINE l == substituteLayers(layers, h)
  <1>0. PICK b, ls : b = Brought(layers, h) /\ ls = l
    OBVIOUS
  <1>1. PICK p : p = LastSet([i \in DOMAIN ls |-> ls[i].privileged], "nil")
    OBVIOUS
  <1>2. PICK e : e = [k \in Variable |-> LastSet([i \in DOMAIN ls |-> ls[i].env[k]], "nil")]
    OBVIOUS
  <1>3. PICK c : c = FlattenSeq([i \in DOMAIN ls |-> ls[i].capAdd])
    OBVIOUS
  <1>4. PICK n : n = Kept([i \in DOMAIN ls |-> ls[i].entrypoint],
                          {i \in DOMAIN ls : ls[i].entrypoint # ""})
    OBVIOUS
  <1>5. PICK m : m = Within(FlattenSeq([i \in DOMAIN ls |-> ls[i].mounts]), Solid)
    OBVIOUS
  <1>6. b = [privileged |-> p, env |-> e, capAdd |-> c, entrypoints |-> n, mounts |-> m]
    BY <1>0, <1>1, <1>2, <1>3, <1>4, <1>5, Zenon DEF Brought
  <1>7. b.privileged = p /\ b.env = e /\ b.capAdd = c /\ b.entrypoints = n /\ b.mounts = m
    BY <1>6
  <1>8. \A k \in Variable : e[k] = LastSet([i \in DOMAIN ls |-> ls[i].env[k]], "nil")
    BY <1>2, Zenon
  <1>9. QED
    BY <1>0, <1>1, <1>3, <1>4, <1>5, <1>7, <1>8, Zenon DEF Parts

LEMMA SolidConcat ==
    ASSUME NEW s \in Seq(MountType), NEW t \in Seq(MountType)
    PROVE  Within(s \o t, Solid) = Within(s, Solid) \o Within(t, Solid)
  BY WithinConcat

LEMMA MergeAgrees ==
    ASSUME NEW h \in Hosts, NEW c \in ResolvedType, NEW d \in ResolvedType,
           c.privileged = d.privileged, c.env = d.env, c.capAdd = d.capAdd, c.mounts = d.mounts,
           NEW layers \in Seq(LayerType), NEW other \in Seq(LayerType),
           layers # <<>>, other # <<>>, Brought(layers, h) = Brought(other, h)
    PROVE  Agree(MergeMetadata(c, h, layers), MergeMetadata(d, h, other))
  <1>1. PICK ls \in Seq(LayerType) : ls = substituteLayers(layers, h)
    BY LayersType
  <1>2. PICK os \in Seq(LayerType) : os = substituteLayers(other, h)
    BY LayersType
  <1>3. PICK b : b = Brought(layers, h)
    OBVIOUS
  <1>4. PICK m : m = MergeMetadata(c, h, layers)
    OBVIOUS
  <1>5. PICK n : n = MergeMetadata(d, h, other)
    OBVIOUS
  <1>6. MergedFields(m, c, ls) /\ MergedFields(n, d, os)
    BY <1>1, <1>2, <1>4, <1>5, MergeFields
  <1>7. /\ LastSet([i \in DOMAIN ls |-> ls[i].privileged], "nil")
             = LastSet([i \in DOMAIN os |-> os[i].privileged], "nil")
        /\ \A k \in Variable : LastSet([i \in DOMAIN ls |-> ls[i].env[k]], "nil")
                                 = LastSet([i \in DOMAIN os |-> os[i].env[k]], "nil")
        /\ FlattenSeq([i \in DOMAIN ls |-> ls[i].capAdd])
             = FlattenSeq([i \in DOMAIN os |-> os[i].capAdd])
        /\ Kept([i \in DOMAIN ls |-> ls[i].entrypoint], {i \in DOMAIN ls : ls[i].entrypoint # ""})
             = Kept([i \in DOMAIN os |-> os[i].entrypoint], {i \in DOMAIN os : os[i].entrypoint # ""})
        /\ Within(FlattenSeq([i \in DOMAIN ls |-> ls[i].mounts]), Solid)
             = Within(FlattenSeq([i \in DOMAIN os |-> os[i].mounts]), Solid)
    <2>1. b = Brought(other, h)
      BY <1>3
    <2>2. Parts(b, ls) /\ Parts(b, os)
      BY <1>1, <1>2, <1>3, <2>1, BroughtFields, Zenon
    <2>3. QED
      BY <2>2, Zenon DEF Parts
  <1>8. m.privileged = n.privileged
    <2>1. PICK p \in Seq(Switch) : p = [i \in DOMAIN ls |-> ls[i].privileged]
      BY Columns
    <2>2. PICK q \in Seq(Switch) : q = [i \in DOMAIN os |-> os[i].privileged]
      BY Columns
    <2>3. PICK t \in Switch : t = "nil"
      BY DEF Switch
    <2>4. PICK o \in Switch : o = c.privileged
      BY DEF ResolvedType
    <2>5. /\ pick(o, p, t) = (IF o # t THEN o ELSE LastSet(p, t))
          /\ pick(o, q, t) = (IF o # t THEN o ELSE LastSet(q, t))
      BY PickLast
    <2>6. LastSet(p, t) = LastSet(q, t)
      BY <1>7, <2>1, <2>2, <2>3, Zenon
    <2>7. m.privileged = pick(o, p, t) /\ n.privileged = pick(o, q, t)
      BY <1>6, <2>1, <2>2, <2>3, <2>4, Zenon DEF MergedFields
    <2>8. QED
      BY <2>5, <2>6, <2>7, Zenon
  <1>9. m.env = n.env
    <2>1. PICK p \in Seq(Env) : p = [i \in DOMAIN ls |-> ls[i].env]
      BY Columns
    <2>2. PICK q \in Seq(Env) : q = [i \in DOMAIN os |-> os[i].env]
      BY Columns
    <2>3. PICK o \in Env : o = c.env
      BY DEF ResolvedType
    <2>4. m.env = mergeStringMaps(p, o) /\ n.env = mergeStringMaps(q, o)
      BY <1>6, <2>1, <2>2, <2>3, Zenon DEF MergedFields
    <2>5. m.env \in Env /\ n.env \in Env
      BY <2>4, MapsLast
    <2>6. \A k \in Variable : [i \in DOMAIN p |-> p[i][k]] = [i \in DOMAIN ls |-> ls[i].env[k]]
      BY <2>1
    <2>7. \A k \in Variable : [i \in DOMAIN q |-> q[i][k]] = [i \in DOMAIN os |-> os[i].env[k]]
      BY <2>2
    <2>8. ASSUME NEW k \in Variable
          PROVE  m.env[k] = n.env[k]
      <3>1. mergeStringMaps(p, o)[k] =
              IF o[k] # "nil" THEN o[k] ELSE LastSet([i \in DOMAIN p |-> p[i][k]], "nil")
        BY MapsLast, Zenon
      <3>2. mergeStringMaps(q, o)[k] =
              IF o[k] # "nil" THEN o[k] ELSE LastSet([i \in DOMAIN q |-> q[i][k]], "nil")
        BY MapsLast, Zenon
      <3>3. LastSet([i \in DOMAIN p |-> p[i][k]], "nil") = LastSet([i \in DOMAIN q |-> q[i][k]], "nil")
        BY <1>7, <2>6, <2>7, Zenon
      <3>4. mergeStringMaps(p, o)[k] = mergeStringMaps(q, o)[k]
        BY <3>1, <3>2, <3>3, Zenon
      <3>5. QED
        BY <2>4, <3>4, Zenon
    <2>9. QED
      BY <2>5, <2>8 DEF Env
  <1>10. m.capAdd = n.capAdd
    BY <1>6, <1>7, Zenon DEF MergedFields
  <1>11. m.entrypoints = n.entrypoints
    BY <1>6, <1>7, Zenon DEF MergedFields
  <1>12. Within(m.mounts, Solid) = Within(n.mounts, Solid)
    <2>1. PICK p \in Seq(Seq(MountType)) : p = [i \in DOMAIN ls |-> ls[i].mounts]
      BY Columns
    <2>2. PICK q \in Seq(Seq(MountType)) : q = [i \in DOMAIN os |-> os[i].mounts]
      BY Columns
    <2>3. PICK o \in Seq(MountType) : o = c.mounts
      BY DEF ResolvedType
    <2>4. PICK f \in Seq(MountType) : f = FlattenSeq(p)
      BY FlattenType
    <2>5. PICK g \in Seq(MountType) : g = FlattenSeq(q)
      BY FlattenType
    <2>6. Within(f, Solid) = Within(g, Solid)
      BY <1>7, <2>1, <2>2, <2>4, <2>5, Zenon
    <2>7. m.mounts = dedupMountsByTarget(f \o o) /\ n.mounts = dedupMountsByTarget(g \o o)
      BY <1>6, <2>1, <2>2, <2>3, <2>4, <2>5, Zenon DEF MergedFields
    <2>8. /\ Within(f \o o, Solid) = Within(f, Solid) \o Within(o, Solid)
          /\ Within(g \o o, Solid) = Within(g, Solid) \o Within(o, Solid)
      BY SolidConcat, Zenon
    <2>9. f \o o \in Seq(MountType) /\ g \o o \in Seq(MountType)
      BY ConcatProperties
    <2>10. /\ Within(dedupMountsByTarget(f \o o), Solid)
                = Within(dedupMountsByTarget(Within(f \o o, Solid)), Solid)
           /\ Within(dedupMountsByTarget(g \o o), Solid)
                = Within(dedupMountsByTarget(Within(g \o o, Solid)), Solid)
      BY <2>9, SolidDedup
    <2>11. QED
      BY <2>6, <2>7, <2>8, <2>10, Zenon
  <1>13. QED
    BY <1>4, <1>5, <1>8, <1>9, <1>10, <1>11, <1>12 DEF Agree

LEMMA RereadsBrought ==
    ASSUME NEW h \in Hosts, NEW layers \in Seq(Known), Rereads(layers) \in Seq(Entry)
    PROVE  Brought(Rereads(layers), h) = Brought(layers, h)
  <1>1. PICK a \in Seq(LayerType) : a = Rereads(layers)
    BY EntryTypes
  <1>2. PICK b \in Seq(LayerType) : b = layers
    BY EntryTypes
  <1>3. Len(a) = Len(b) /\ \A i \in DOMAIN b : a[i] = Reread(b[i])
    BY <1>1, <1>2 DEF Rereads
  <1>4. ASSUME NEW i \in DOMAIN a
        PROVE  Alike(a[i], b[i], h)
    <2>1. i \in DOMAIN b
      BY <1>3
    <2>2. PICK l \in LayerType : l = b[i]
      BY <2>1
    <2>3. a[i] = Reread(l)
      BY <1>3, <2>1, <2>2
    <2>4. QED
      BY <2>2, <2>3, RereadAlike
  <1>5. Brought(a, h) = Brought(b, h)
    BY <1>3, <1>4, BroughtAlike
  <1>6. QED
    BY <1>1, <1>2, <1>5

LEMMA FinalAgrees ==
    ASSUME NEW c \in ResolvedType, NEW d \in ResolvedType, Agree(c, d)
    PROVE  Agree(Finalize(c), Finalize(d))
  <1>1. PICK f : f = Finalize(c)
    OBVIOUS
  <1>2. PICK g : g = Finalize(d)
    OBVIOUS
  <1>3. /\ f.privileged = c.privileged /\ f.env = c.env /\ f.capAdd = c.capAdd
        /\ f.mounts = c.mounts /\ f.entrypoints = c.entrypoints
    BY <1>1, FinalFields
  <1>4. /\ g.privileged = d.privileged /\ g.env = d.env /\ g.capAdd = d.capAdd
        /\ g.mounts = d.mounts /\ g.entrypoints = d.entrypoints
    BY <1>2, FinalFields
  <1>5. QED
    BY <1>1, <1>2, <1>3, <1>4, Zenon DEF Agree

(* With what was fetched or without: a feature that was not fetched brings *)
(* nothing.                                                                *)
LEMMA UnfetchedQuiet ==
    ASSUME ConfigInv
    PROVE  LET r == resolveFromRaw(user, host)
           IN  Added(r) \in Seq(Quiet) /\ (r.features = <<>> => Added(r) = <<>>)
  <1>1. PICK r \in ResolvedType : r = resolveFromRaw(user, host) /\ Fresh(r)
    BY InputTypes
  <1>2. user \in UserType /\ host \in Hosts
    BY InputTypes DEF ConfigInv
  <1>3. /\ Len(r.features) = Len(user.features)
        /\ \A i \in DOMAIN user.features :
             r.features[i] = [id |-> user.features[i], installed |-> FALSE, metadata |-> NoLayer]
    BY <1>1, <1>2, ResolveFields
  <1>4. user.features \in Seq(Feature) /\ r.features \in Seq(ResolvedFeature)
    BY <1>2 DEF UserType, ResolvedType
  <1>5. PICK n \in Nat : DOMAIN r.features = 1 .. n /\ DOMAIN user.features = 1 .. n
    BY <1>3, <1>4
  <1>6. \A i \in 1 .. n : r.features[i].metadata = NoLayer
    <2>1. \A f : [id |-> f, installed |-> FALSE, metadata |-> NoLayer].metadata = NoLayer
      OBVIOUS
    <2>2. QED
      BY <1>3, <1>5, <2>1, Zenon
  <1>7. PICK a : a = Added(r)
    OBVIOUS
  <1>8. a = [i \in DOMAIN r.features |-> r.features[i].metadata]
    BY <1>1, <1>7, AddedType
  <1>9. a = [i \in 1 .. n |-> a[i]] /\ \A i \in 1 .. n : a[i] = NoLayer
    BY <1>5, <1>6, <1>8
  <1>10. NoLayer \in Quiet
    <2>1. Nothing(NoLayer)
      BY DEF Nothing, NoLayer
    <2>2. QED
      BY <2>1, BlankLayer DEF Quiet
  <1>11. a \in Seq(Quiet)
    BY <1>9, <1>10, Elementwise
  <1>12. r.features = <<>> => a = <<>>
    BY <1>8
  <1>13. QED
    BY <1>1, <1>7, <1>11, <1>12

LEMMA AppliedAgrees ==
    ASSUME NEW h \in Hosts, NEW c \in ResolvedType, NEW d \in ResolvedType,
           c.privileged = d.privileged, c.env = d.env, c.capAdd = d.capAdd, c.mounts = d.mounts,
           NEW a \in Seq(Entry), NEW b \in Seq(Entry),
           a \o Added(c) # <<>>, b \o Added(d) # <<>>,
           Brought(a \o Added(c), h) = Brought(b \o Added(d), h)
    PROVE  Agree(applyMetadataMerge(c, a, h), applyMetadataMerge(d, b, h))
  <1>1. a \in Seq(LayerType) /\ b \in Seq(LayerType)
    BY EntryTypes
  <1>2. Added(c) \in Seq(LayerType) /\ Added(d) \in Seq(LayerType)
    BY AddedType
  <1>3. PICK s \in Seq(LayerType) : s = a \o Added(c)
    <2>1. a \o Added(c) \in Seq(LayerType)
      BY <1>1, <1>2, ConcatProperties
    <2>2. QED
      BY <2>1
  <1>4. PICK t \in Seq(LayerType) : t = b \o Added(d)
    <2>1. b \o Added(d) \in Seq(LayerType)
      BY <1>1, <1>2, ConcatProperties
    <2>2. QED
      BY <2>1
  <1>5. Agree(MergeMetadata(c, h, s), MergeMetadata(d, h, t))
    BY <1>3, <1>4, MergeAgrees
  <1>6. MergeMetadata(c, h, s) \in ResolvedType /\ MergeMetadata(d, h, t) \in ResolvedType
    BY MergeType
  <1>7. Agree(Finalize(MergeMetadata(c, h, s)), Finalize(MergeMetadata(d, h, t)))
    BY <1>5, <1>6, FinalAgrees
  <1>8. QED
    BY <1>3, <1>4, <1>7 DEF applyMetadataMerge

LEMMA SameInputs ==
    ASSUME NEW h \in Hosts, NEW c \in ResolvedType, NEW d \in ResolvedType,
           composeInputs(c) = composeInputs(d), NEW a \in Seq(Entry)
    PROVE  Agree(applyMetadataMerge(c, a, h), applyMetadataMerge(d, a, h))
  <1>1. /\ c.privileged = d.privileged /\ c.env = d.env /\ c.capAdd = d.capAdd
        /\ c.mounts = d.mounts /\ c.entrypoints = d.entrypoints /\ c.features = d.features
    <2>1. PICK x : x = composeInputs(c)
      OBVIOUS
    <2>2. PICK y : y = composeInputs(d)
      OBVIOUS
    <2>3. /\ x.privileged = c.privileged /\ x.env = c.env /\ x.capAdd = c.capAdd
          /\ x.mounts = c.mounts /\ x.entrypoints = c.entrypoints /\ x.features = c.features
      BY <2>1 DEF composeInputs, ResolvedType
    <2>4. /\ y.privileged = d.privileged /\ y.env = d.env /\ y.capAdd = d.capAdd
          /\ y.mounts = d.mounts /\ y.entrypoints = d.entrypoints /\ y.features = d.features
      BY <2>2 DEF composeInputs, ResolvedType
    <2>5. x = y
      BY <2>1, <2>2
    <2>6. QED
      BY <2>3, <2>4, <2>5, Zenon
  <1>2. Added(c) = Added(d)
    BY <1>1, Zenon DEF Added
  <1>3. CASE a \o Added(c) # <<>>
    BY <1>1, <1>2, <1>3, AppliedAgrees
  <1>4. CASE a \o Added(c) = <<>>
    <2>1. MergeMetadata(c, h, a \o Added(c)) = c /\ MergeMetadata(d, h, a \o Added(d)) = d
      BY <1>2, <1>4 DEF MergeMetadata
    <2>2. Agree(c, d)
      BY <1>1, Zenon DEF Agree
    <2>3. Agree(Finalize(c), Finalize(d))
      BY <2>2, FinalAgrees
    <2>4. QED
      BY <2>1, <2>3 DEF applyMetadataMerge
  <1>5. QED
    BY <1>3, <1>4

(* A base without a label has no feature installed.                        *)
LEMMA NothingMatched ==
    ASSUME NEW cfg \in ResolvedType, Fresh(cfg)
    PROVE  Added(markAlreadyInstalled(cfg, <<>>)) = <<>> => cfg.features = <<>>
  <1>1. PICK fs \in Seq(ResolvedFeature) : fs = cfg.features
    BY DEF ResolvedType
  <1>2. PICK L \in Nat : L = Len(fs) /\ DOMAIN fs = 1 .. L
    OBVIOUS
  <1>3. PICK e : e = <<>>
    OBVIOUS
  <1>4. e \in Seq(LayerType) /\ DOMAIN e = {}
    BY <1>3
  <1>5. PICK c : c = markAlreadyInstalled(cfg, e)
    OBVIOUS
  <1>6. c \in ResolvedType /\ DOMAIN c.features = DOMAIN fs
    BY <1>1, <1>4, <1>5, MarkFields
  <1>7. PICK gs : gs = [i \in DOMAIN fs |-> MatchFeature(fs[i], e)]
    OBVIOUS
  <1>8. c = [cfg EXCEPT !.features = gs]
    BY <1>1, <1>5, <1>7, Zenon DEF markAlreadyInstalled
  <1>9. c.features = gs
    BY <1>8 DEF ResolvedType
  <1>10. \A i \in 1 .. L : ~gs[i].installed
    <2> SUFFICES ASSUME NEW i \in 1 .. L
                 PROVE  ~gs[i].installed
      OBVIOUS
    <2>1. PICK f \in ResolvedFeature : f = fs[i]
      BY <1>2
    <2>2. ~f.installed
      BY <1>1, <1>2, <2>1 DEF Fresh
    <2>3. gs[i] = MatchFeature(f, e)
      BY <1>2, <1>7, <2>1
    <2>4. {k \in DOMAIN e : e[k].id = f.id} = {}
      BY <1>4
    <2>5. MatchFeature(f, e) = [f EXCEPT !.metadata = Metadata[f.id]]
      BY <2>4, Zenon DEF MatchFeature
    <2>6. [f EXCEPT !.metadata = Metadata[f.id]].installed = f.installed
      BY DEF ResolvedFeature
    <2>7. QED
      BY <2>2, <2>3, <2>5, <2>6, Zenon
  <1>11. Fresh(c)
    BY <1>2, <1>6, <1>9, <1>10 DEF Fresh
  <1>12. Added(c) = [i \in DOMAIN c.features |-> c.features[i].metadata]
    BY <1>6, <1>11, AddedType
  <1>13. DOMAIN Added(c) = 1 .. L
    BY <1>2, <1>6, <1>12
  <1>14. ASSUME Added(c) = <<>>
         PROVE  fs = <<>>
    <2>1. DOMAIN Added(c) = {}
      BY <1>14
    <2>2. L = 0
      BY <1>13, <2>1
    <2>3. QED
      BY <1>2, <2>2
  <1>15. QED
    BY <1>1, <1>3, <1>5, <1>14

LEMMA KeptAtCreate ==
    ASSUME ConfigInv, ImagesInv, HasBase
    PROVE  Agree(applyMetadataMerge(Matched(TRUE), BaseMetadata(user.base, TRUE), host),
                 applyMetadataMerge(resolveFromRaw(user, host),
                                    ParseMetadataLabel(layerFeatures(TRUE).label), host))
  <1>1. PICK base \in Seq(Entry) : base = BaseMetadata(user.base, TRUE)
    BY MatchedTypes
  <1>2. PICK r \in ResolvedType : r = resolveFromRaw(user, host) /\ Fresh(r)
    BY InputTypes
  <1>3. PICK c \in ResolvedType : c = Matched(TRUE)
    BY MatchedTypes
  <1>4. PICK new \in Seq(Known) : new = Added(c)
    BY <1>3, MatchedTypes
  <1>5. PICK label : label = ParseMetadataLabel(layerFeatures(TRUE).label)
    OBVIOUS
  <1>6. label \in Seq(Entry)
    BY <1>5, LayersBuilt DEF ImageOK
  <1>7. host \in Hosts
    BY DEF ConfigInv
  <1>8. base \in Seq(LayerType) /\ label \in Seq(LayerType) /\ new \in Seq(LayerType)
    BY <1>6, EntryTypes
  <1>9. c = markAlreadyInstalled(r, base)
    BY <1>1, <1>2, <1>3 DEF Matched
  <1>10. /\ c.privileged = r.privileged /\ c.env = r.env /\ c.capAdd = r.capAdd
         /\ c.mounts = r.mounts /\ c.entrypoints = r.entrypoints
    BY <1>8, <1>9, MarkFields
  <1>11. PICK extras \in Seq(Quiet) :
           extras = Added(r) /\ (r.features = <<>> => extras = <<>>)
    BY <1>2, UnfetchedQuiet
  <1>12. Brought(label \o extras, host) = Brought(label, host) /\ label \o extras \in Seq(LayerType)
    BY <1>7, <1>8, BroughtExtras
  <1>13. PICK n \in Nat : n = Len(label)
    BY <1>8
  <1>14. label # <<>> => label \o extras # <<>>
    <2>1. ASSUME label \o extras = <<>>
          PROVE  label = <<>>
      <3>1. extras \in Seq(LayerType)
        BY <1>2, <1>11, AddedType
      <3>2. Len(label \o extras) = Len(label) + Len(extras)
        BY <1>8, <3>1
      <3>3. Len(label \o extras) = 0 /\ Len(label) \in Nat /\ Len(extras) \in Nat
        BY <1>8, <2>1, <3>1
      <3>4. Len(label) = 0
        BY <3>2, <3>3
      <3>5. QED
        BY <1>8, <3>4
    <2>2. QED
      BY <2>1
  <1>15. CASE new = <<>>
    <2>1. label = base
      BY <1>1, <1>3, <1>4, <1>5, <1>15, LayersBuilt DEF BaseMetadata
    <2>2. base \o new = base
      BY <1>8, <1>15, ConcatEmptySeq
    <2>3. CASE base # <<>>
      <3>1. base \o Added(c) # <<>> /\ label \o Added(r) # <<>>
        BY <1>4, <1>11, <1>14, <2>1, <2>2, <2>3
      <3>2. Brought(base \o Added(c), host) = Brought(label \o Added(r), host)
        BY <1>4, <1>11, <1>12, <2>1, <2>2, Zenon
      <3>3. Agree(applyMetadataMerge(c, base, host), applyMetadataMerge(r, label, host))
        BY <1>6, <1>7, <1>10, <3>1, <3>2, AppliedAgrees
      <3>4. QED
        BY <1>1, <1>2, <1>3, <1>5, <3>3
    <2>4. CASE base = <<>>
      <3>1. r.features = <<>>
        BY <1>2, <1>4, <1>9, <1>15, <2>4, NothingMatched
      <3>2. base \o Added(c) = <<>> /\ label \o Added(r) = <<>>
        <4>1. extras = <<>>
          BY <1>11, <3>1
        <4>2. label \o extras = base
          BY <1>8, <2>1, <4>1, ConcatEmptySeq
        <4>3. QED
          BY <1>4, <1>11, <2>2, <2>4, <4>2, Zenon
      <3>3. MergeMetadata(c, host, base \o Added(c)) = c
            /\ MergeMetadata(r, host, label \o Added(r)) = r
        BY <3>2 DEF MergeMetadata
      <3>4. Agree(c, r)
        BY <1>10, Zenon DEF Agree
      <3>5. Agree(Finalize(c), Finalize(r))
        BY <3>4, FinalAgrees
      <3>6. Agree(applyMetadataMerge(c, base, host), applyMetadataMerge(r, label, host))
        BY <3>3, <3>5 DEF applyMetadataMerge
      <3>7. QED
        BY <1>1, <1>2, <1>3, <1>5, <3>6
    <2>5. QED
      BY <2>3, <2>4
  <1>16. CASE new # <<>>
    <2>1. c.remoteUser \in Text
      BY DEF ResolvedType
    <2>2. PICK o \in Entry : o = Own(c.remoteUser)
      BY <2>1, OwnLayer
    <2>3. PICK all : all = base \o new \o <<o>>
      OBVIOUS
    <2>4. all \in Seq(Known) /\ Rereads(all) \in Seq(Entry)
      BY <2>1, <2>2, <2>3, BuiltLabel
    <2>5. label = Rereads(all)
      BY <1>1, <1>3, <1>4, <1>5, <1>16, <2>2, <2>3, LayersBuilt
    <2>6. Brought(label, host) = Brought(all, host)
      BY <1>7, <2>4, <2>5, RereadsBrought
    <2>7. PICK s \in Seq(LayerType) : s = base \o new
      <3>1. base \o new \in Seq(LayerType)
        BY <1>8, ConcatProperties
      <3>2. QED
        BY <3>1
    <2>8. o \in LayerType
      BY EntryTypes
    <2>9. all = Append(s, o)
      <3>1. s \o <<o>> = Append(s, o)
        BY <2>8
      <3>2. QED
        BY <2>3, <2>7, <3>1
    <2>10. Nothing(o)
      BY <2>1, <2>2, OwnLayer DEF Nothing
    <2>11. Brought(all, host) = Brought(s, host)
      BY <1>7, <2>8, <2>9, <2>10, BroughtMore
    <2>12. label # <<>>
      <3>1. Len(all) = Len(s) + 1 /\ Len(s) \in Nat
        BY <2>8, <2>9, AppendProperties
      <3>2. DOMAIN all # {}
        <4>1. PICK l \in Nat : l = Len(s)
          BY <3>1
        <4>2. DOMAIN all = 1 .. l + 1
          BY <2>4, <3>1, <4>1
        <4>3. 1 \in 1 .. l + 1
          OBVIOUS
        <4>4. QED
          BY <4>2, <4>3
      <3>3. DOMAIN label # {}
        BY <2>5, <3>2 DEF Rereads
      <3>4. QED
        BY <3>3
    <2>13. base \o Added(c) # <<>>
      <3>1. Len(base \o new) = Len(base) + Len(new) /\ Len(base) \in Nat /\ Len(new) \in Nat
        BY <1>8
      <3>2. Len(new) # 0
        BY <1>8, <1>16
      <3>3. Len(base \o new) # 0
        BY <3>1, <3>2
      <3>4. base \o new # <<>>
        BY <3>3
      <3>5. QED
        BY <1>4, <3>4
    <2>14. Brought(base \o Added(c), host) = Brought(label \o Added(r), host)
      BY <1>4, <1>11, <1>12, <2>6, <2>7, <2>11, Zenon
    <2>15. label \o Added(r) # <<>>
      BY <1>11, <1>14, <2>12, Zenon
    <2>16. Agree(applyMetadataMerge(c, base, host), applyMetadataMerge(r, label, host))
      BY <1>6, <1>7, <1>10, <2>13, <2>14, <2>15, AppliedAgrees
    <2>17. QED
      BY <1>1, <1>2, <1>3, <1>5, <2>16
  <1>17. QED
    BY <1>15, <1>16

-----------------------------------------------------------------------------
(* The invariant is kept. *)

LEMMA Inspected == Inspects \subseteq BOOLEAN
  BY DEF Inspects

LEMMA InitInv == Init => IInv
  <1> SUFFICES ASSUME Init
               PROVE  IInv
    OBVIOUS
  <1>1. box = NoBox /\ ws = NoBox
    BY DEF Init
  <1>2. BoxInv /\ WsInv /\ SpecInv /\ KeptInv /\ SourceInv
    BY <1>1 DEF BoxInv, WsInv, SpecInv, KeptInv, SourceInv
  <1>3. ConfigInv
    <2>1. MaxChanges \in Nat
      BY ConfigAssumption
    <2>2. QED
      BY <2>1 DEF Init, ConfigInv
  <1>4. PICK ls \in Seq(LayerType) : ls = Published
    BY ConfigAssumption
  <1>5. ls \in Seq(Known)
    <2>1. PICK n \in Nat : DOMAIN ls = 1 .. n /\ ls = [i \in 1 .. n |-> ls[i]]
      OBVIOUS
    <2>2. \A i \in 1 .. n : ls[i] \in LayerType
      BY <2>1
    <2>3. \A i \in 1 .. n : ls[i].id \in Ids
      BY <1>4, <2>1 DEF Ids
    <2>4. \A i \in 1 .. n : ls[i] \in Known
      BY <2>2, <2>3 DEF Known
    <2>5. QED
      BY <2>1, <2>4, Elementwise
  <1>6. PICK label : label = [i \in DOMAIN ls |-> metadataFromFeatureMetadata(ls[i])]
    OBVIOUS
  <1>7. ParseMetadataLabel(label) = Rereads(ls) /\ Rereads(ls) \in Seq(Entry)
    BY <1>5, <1>6, LabelReread
  <1>8. PICK img : img = Image(label, ls, TRUE)
    OBVIOUS
  <1>9. img.label = label /\ img.whole = TRUE /\ img.layers = ls
    <2>1. PICK w : w = TRUE
      OBVIOUS
    <2>2. img = Image(label, ls, w)
      BY <1>8, <2>1
    <2>3. img.label = label /\ img.whole = w /\ img.layers = IF w THEN ls ELSE <<>>
      BY <2>2, ImageFields
    <2>4. QED
      BY <2>1, <2>3
  <1>10. ImageOK(img)
    BY <1>5, <1>7, <1>9 DEF ImageOK
  <1>11. PICK none : none = NoBox
    OBVIOUS
  <1>12. images = [published |-> img, prebuilt |-> none]
    BY <1>4, <1>6, <1>8, <1>11, Zenon DEF Init
  <1>13. /\ images["published"] = img /\ images["prebuilt"] = none
         /\ images = [k \in {"published", "prebuilt"} |-> images[k]]
    BY <1>12
  <1>14. ImagesInv
    BY <1>10, <1>11, <1>13 DEF ImagesInv
  <1>15. QED
    BY <1>2, <1>3, <1>14 DEF IInv

LEMMA BuildKeeps == IInv /\ Build => IInv'
  <1> SUFFICES ASSUME IInv, Build
               PROVE  IInv'
    OBVIOUS
  <1>1. ConfigInv /\ ImagesInv /\ HasBase
    BY DEF IInv, Build
  <1>2. PICK inspected \in BOOLEAN :
          images' = [images EXCEPT !.prebuilt = layerFeatures(inspected)]
    BY Inspected DEF Build
  <1>3. PICK img : img = layerFeatures(inspected)
    OBVIOUS
  <1>4. ImageOK(img)
    BY <1>1, <1>3, LayersBuilt
  <1>5. /\ images'["published"] = images["published"] /\ images'["prebuilt"] = img
        /\ images' = [k \in {"published", "prebuilt"} |-> images'[k]]
    BY <1>1, <1>2, <1>3 DEF ImagesInv
  <1>6. images["published"] # NoBox => ImageOK(images["published"])
    BY <1>1 DEF ImagesInv
  <1>7. ImagesInv'
    BY <1>4, <1>5, <1>6 DEF ImagesInv
  <1>8. UNCHANGED <<user, host, box, ws, changes>>
    BY DEF Build
  <1>9. (ConfigInv /\ BoxInv /\ WsInv /\ SpecInv /\ KeptInv /\ SourceInv)'
    BY <1>8 DEF IInv, ConfigInv, BoxInv, WsInv, SpecInv, KeptInv, SourceInv
  <1>10. QED
    BY <1>7, <1>9 DEF IInv

LEMMA CreateKeeps ==
    ASSUME IInv, HasBase, NEW inspected \in BOOLEAN, NEW entry \in BOOLEAN,
           Create(inspected, entry), UNCHANGED <<user, host, images, changes>>
    PROVE  IInv'
  <1>1. ConfigInv /\ ImagesInv
    BY DEF IInv
  <1>2. PICK img : img = layerFeatures(inspected)
    OBVIOUS
  <1>3. ImageOK(img)
    BY <1>1, <1>2, LayersBuilt
  <1>4. PICK c \in ResolvedType : c = Matched(inspected)
    BY <1>1, MatchedTypes
  <1>5. PICK base \in Seq(Entry) : base = BaseMetadata(user.base, inspected)
    BY <1>1, MatchedTypes
  <1>6. host \in Hosts /\ user.source \in {"image", "compose"}
    BY <1>1, InputTypes DEF ConfigInv
  <1>7. PICK cfg \in FinalType : cfg = applyMetadataMerge(c, base, host)
    BY <1>6, MergedType
  <1>8. cfg \in ResolvedType
    BY FinalIsResolved
  <1>9. PICK r \in ResolvedType : r = resolveFromRaw(user, host)
    BY <1>1, InputTypes
  <1>10. PICK spec : spec = IF user.source = "image" THEN buildRunSpec(cfg)
                            ELSE upCompose(composeRunOverride(cfg, entry))
    OBVIOUS
  <1>11. spec \in ServiceType
    BY <1>8, <1>10, RunSpecType, UpType
  <1>12. PICK old : old = images[user.base]
    OBVIOUS
  <1>13. PICK both \in BOOLEAN : both = (inspected /\ entry)
    OBVIOUS
  <1>14. PICK b : b = [label |-> img.label, layers |-> img.layers, whole |-> img.whole,
                       source |-> user.source, inputs |-> r, base |-> old, host |-> host,
                       inspected |-> both, cfg |-> cfg, spec |-> spec]
    OBVIOUS
  <1>15. box' = b /\ ws' = Workspace("created", cfg, inspected)
    BY <1>2, <1>4, <1>5, <1>7, <1>9, <1>10, <1>12, <1>13, <1>14, Zenon DEF Create
  <1>16. /\ b.label = img.label /\ b.layers = img.layers /\ b.whole = img.whole
         /\ b.source = user.source /\ b.inputs = r /\ b.base = old /\ b.host = host
         /\ b.inspected = both /\ b.cfg = cfg /\ b.spec = spec
    BY <1>14
  <1>17. BoxOK(b)
    <2>1. ImageOK(b)
      BY <1>3, <1>16 DEF ImageOK
    <2>2. b = [label |-> b.label, layers |-> b.layers, whole |-> b.whole, source |-> b.source,
               inputs |-> b.inputs, base |-> b.base, host |-> b.host,
               inspected |-> b.inspected, cfg |-> b.cfg, spec |-> b.spec]
      BY <1>14, <1>16, Zenon
    <2>3. QED
      BY <1>6, <1>11, <1>16, <2>1, <2>2 DEF BoxOK
  <1>18. ASSUME user.source = "compose", both
         PROVE  spec = upCompose(composeRunOverride(cfg, TRUE)) /\ inspected = TRUE
    BY <1>10, <1>13, <1>18
  <1>19. SpecOK(b)
    BY <1>16, <1>18 DEF SpecOK
  <1>20. KeptOK(b)
    <2> SUFFICES ASSUME user.source = "compose", both
                 PROVE  spec = upCompose(composeRunOverride(
                                 applyMetadataMerge(r, ParseMetadataLabel(img.label), host), TRUE))
      BY <1>16 DEF KeptOK
    <2>1. inspected = TRUE /\ spec = upCompose(composeRunOverride(cfg, TRUE))
      BY <1>18
    <2>2. PICK d \in ResolvedType :
            d = applyMetadataMerge(r, ParseMetadataLabel(img.label), host)
      <3>1. ParseMetadataLabel(img.label) \in Seq(Entry)
        BY <1>3 DEF ImageOK
      <3>2. QED
        BY <1>6, <3>1, MergedType, FinalIsResolved
    <2>3. Agree(cfg, d)
      <3>1. Agree(applyMetadataMerge(Matched(TRUE), BaseMetadata(user.base, TRUE), host),
                  applyMetadataMerge(resolveFromRaw(user, host),
                                     ParseMetadataLabel(layerFeatures(TRUE).label), host))
        BY <1>1, KeptAtCreate
      <3>2. QED
        BY <1>2, <1>4, <1>5, <1>7, <1>9, <2>1, <2>2, <3>1, Zenon
    <2>4. upCompose(composeRunOverride(cfg, TRUE)) = upCompose(composeRunOverride(d, TRUE))
      BY <1>8, <2>3, AgreeUp
    <2>5. QED
      BY <2>1, <2>2, <2>4
  <1>21. (BoxInv /\ SpecInv /\ KeptInv /\ SourceInv)'
    BY <1>15, <1>16, <1>17, <1>19, <1>20 DEF BoxInv, SpecInv, KeptInv, SourceInv
  <1>22. WsInv'
    <2>1. WorkspaceOK(Workspace("created", cfg, inspected))
      BY DEF WorkspaceOK, Workspace
    <2>2. QED
      BY <1>15, <2>1 DEF WsInv
  <1>23. (ConfigInv /\ ImagesInv)'
    BY <1>1 DEF ConfigInv, ImagesInv
  <1>24. QED
    BY <1>21, <1>22, <1>23 DEF IInv

LEMMA CreateFreshKeeps == IInv /\ createFresh => IInv'
  <1> SUFFICES ASSUME IInv, createFresh
               PROVE  IInv'
    OBVIOUS
  <1>1. PICK inspected \in BOOLEAN : Create(inspected, TRUE)
    BY Inspected DEF createFresh
  <1>2. HasBase /\ UNCHANGED <<user, host, images, changes>>
    BY DEF createFresh
  <1>3. QED
    BY <1>1, <1>2, CreateKeeps

LEMMA CreateFreshComposeKeeps == IInv /\ createFreshCompose => IInv'
  <1> SUFFICES ASSUME IInv, createFreshCompose
               PROVE  IInv'
    OBVIOUS
  <1>1. PICK inspected \in BOOLEAN, entry \in BOOLEAN : Create(inspected, entry)
    BY Inspected DEF createFreshCompose
  <1>2. HasBase /\ UNCHANGED <<user, host, images, changes>>
    BY DEF createFreshCompose
  <1>3. QED
    BY <1>1, <1>2, CreateKeeps

LEMMA AttachedType ==
    ASSUME ConfigInv, BoxInv, box # NoBox, NEW inspected \in BOOLEAN
    PROVE  Attached(inspected) \in FinalType
  <1>1. PICK r \in ResolvedType : r = resolveFromRaw(user, host)
    BY InputTypes
  <1>2. PICK base : base = IF inspected THEN ParseMetadataLabel(box.label) ELSE <<>>
    OBVIOUS
  <1>3. base \in Seq(Entry)
    <2>1. ParseMetadataLabel(box.label) \in Seq(Entry)
      BY DEF BoxInv, BoxOK, ImageOK
    <2>2. QED
      BY <1>2, <2>1, EmptySeq
  <1>4. applyMetadataMerge(r, base, host) \in FinalType
    BY <1>3, MergedType DEF ConfigInv
  <1>5. QED
    BY <1>1, <1>2, <1>4, Zenon DEF Attached

LEMMA AttachKeeps == IInv /\ attachExisting => IInv'
  <1> SUFFICES ASSUME IInv, attachExisting
               PROVE  IInv'
    OBVIOUS
  <1>1. PICK inspected \in BOOLEAN :
          ws' = Workspace("attached", Attached(inspected), inspected)
    BY Inspected DEF attachExisting
  <1>2. box # NoBox /\ UNCHANGED <<user, host, images, box, changes>>
    BY DEF attachExisting
  <1>3. PICK cfg \in FinalType : cfg = Attached(inspected)
    BY <1>2, AttachedType DEF IInv
  <1>4. WorkspaceOK(Workspace("attached", cfg, inspected))
    BY DEF WorkspaceOK, Workspace
  <1>5. WsInv'
    BY <1>1, <1>3, <1>4 DEF WsInv
  <1>6. (ConfigInv /\ ImagesInv /\ BoxInv /\ SpecInv /\ KeptInv /\ SourceInv)'
    BY <1>2 DEF IInv, ConfigInv, ImagesInv, BoxInv, SpecInv, KeptInv, SourceInv
  <1>7. QED
    BY <1>5, <1>6 DEF IInv

(* The container that is there, or one for the service made of its label.  *)
LEMMA ReattachKeeps == IInv /\ reattachCompose => IInv'
  <1> SUFFICES ASSUME IInv, reattachCompose
               PROVE  IInv'
    OBVIOUS
  <1>1. /\ ConfigInv /\ ImagesInv /\ BoxInv /\ SpecInv /\ KeptInv /\ SourceInv
        /\ box # NoBox /\ Reattaches
    BY DEF IInv, reattachCompose, Reattaches
  <1>2. PICK entry \in BOOLEAN :
          LET cfg  == Attached(TRUE)
              spec == upCompose(composeRunOverride(cfg, entry))
          IN  /\ box' = IF spec = box.spec THEN box
                        ELSE [box EXCEPT !.spec = spec, !.cfg = cfg,
                                         !.host = host, !.inspected = entry]
              /\ ws' = Workspace("attached", cfg, TRUE)
    BY Inspected DEF reattachCompose
  <1>3. PICK cfg \in FinalType : cfg = Attached(TRUE)
    BY <1>1, AttachedType
  <1>4. cfg \in ResolvedType
    BY FinalIsResolved
  <1>5. PICK spec \in ServiceType : spec = upCompose(composeRunOverride(cfg, entry))
    BY <1>4, UpType
  <1>6. WsInv'
    <2>1. WorkspaceOK(Workspace("attached", cfg, TRUE))
      BY DEF WorkspaceOK, Workspace
    <2>2. QED
      BY <1>2, <1>3, <2>1 DEF WsInv
  <1>7. UNCHANGED <<user, host, images, changes>>
    BY DEF reattachCompose
  <1>8. (ConfigInv /\ ImagesInv)'
    BY <1>1, <1>7 DEF ConfigInv, ImagesInv
  <1>9. CASE spec = box.spec
    <2>1. box' = box
      BY <1>2, <1>3, <1>5, <1>9
    <2>2. (BoxInv /\ SpecInv /\ KeptInv /\ SourceInv)'
      BY <1>1, <1>7, <2>1 DEF BoxInv, SpecInv, KeptInv, SourceInv
    <2>3. QED
      BY <1>6, <1>8, <2>2 DEF IInv
  <1>10. CASE spec # box.spec
    <2>1. PICK b : b = box
      OBVIOUS
    <2>2. PICK n : n = [b EXCEPT !.spec = spec, !.cfg = cfg, !.host = host, !.inspected = entry]
      OBVIOUS
    <2>3. box' = n
      BY <1>2, <1>3, <1>5, <1>10, <2>1, <2>2
    <2>4. BoxOK(b)
      BY <1>1, <2>1 DEF BoxInv
    <2>5. n = [label |-> b.label, layers |-> b.layers, whole |-> b.whole, source |-> b.source,
               inputs |-> b.inputs, base |-> b.base, host |-> host,
               inspected |-> entry, cfg |-> cfg, spec |-> spec]
      <3>1. b = [label |-> b.label, layers |-> b.layers, whole |-> b.whole, source |-> b.source,
                 inputs |-> b.inputs, base |-> b.base, host |-> b.host,
                 inspected |-> b.inspected, cfg |-> b.cfg, spec |-> b.spec]
        BY <2>4 DEF BoxOK
      <3>2. QED
        BY <2>2, <3>1
    <2>6. /\ n.label = b.label /\ n.layers = b.layers /\ n.whole = b.whole
          /\ n.source = b.source /\ n.inputs = b.inputs /\ n.base = b.base /\ n.host = host
          /\ n.inspected = entry /\ n.cfg = cfg /\ n.spec = spec
      BY <2>5
    <2>7. BoxOK(n)
      <3>1. ImageOK(n)
        BY <2>4, <2>6 DEF BoxOK, ImageOK
      <3>2. n = [label |-> n.label, layers |-> n.layers, whole |-> n.whole, source |-> n.source,
                 inputs |-> n.inputs, base |-> n.base, host |-> n.host,
                 inspected |-> n.inspected, cfg |-> n.cfg, spec |-> n.spec]
        BY <2>5, <2>6, Zenon
      <3>3. host \in Hosts
        BY <1>1 DEF ConfigInv
      <3>4. b.source \in {"image", "compose"} /\ b.inputs \in ResolvedType
        BY <2>4 DEF BoxOK
      <3>5. QED
        BY <2>6, <3>1, <3>2, <3>3, <3>4 DEF BoxOK
    <2>8. SpecOK(n)
      BY <1>5, <2>6 DEF SpecOK
    <2>9. KeptOK(n)
      <3> SUFFICES ASSUME entry
                   PROVE  spec = upCompose(composeRunOverride(
                             applyMetadataMerge(b.inputs, ParseMetadataLabel(b.label), host), TRUE))
        BY <2>6 DEF KeptOK
      <3>1. PICK label \in Seq(Entry) : label = ParseMetadataLabel(b.label)
        BY <2>4 DEF BoxOK, ImageOK
      <3>2. PICK r \in ResolvedType : r = resolveFromRaw(user, host)
        BY <1>1, InputTypes
      <3>3. composeInputs(r) = composeInputs(b.inputs) /\ b.inputs \in ResolvedType
        BY <1>1, <2>1, <2>4, <3>2 DEF Reattaches, BoxOK
      <3>4. host \in Hosts
        BY <1>1 DEF ConfigInv
      <3>5. cfg = applyMetadataMerge(r, label, host)
        BY <1>3, <2>1, <3>1, <3>2, Zenon DEF Attached
      <3>6. PICK d \in ResolvedType : d = applyMetadataMerge(b.inputs, label, host)
        BY <3>3, <3>4, MergedType, FinalIsResolved
      <3>7. Agree(cfg, d)
        BY <3>3, <3>4, <3>5, <3>6, SameInputs
      <3>8. upCompose(composeRunOverride(cfg, TRUE)) = upCompose(composeRunOverride(d, TRUE))
        BY <1>4, <3>7, AgreeUp
      <3>9. entry = TRUE
        OBVIOUS
      <3>10. QED
        BY <1>5, <3>1, <3>6, <3>8, <3>9, Zenon
    <2>10. (BoxInv /\ SpecInv /\ KeptInv /\ SourceInv)'
      BY <1>1, <1>7, <2>1, <2>3, <2>6, <2>7, <2>8, <2>9 DEF BoxInv, SpecInv, KeptInv, SourceInv
    <2>11. QED
      BY <1>6, <1>8, <2>10 DEF IInv
  <1>11. QED
    BY <1>9, <1>10

LEMMA DownKeeps == IInv /\ Down => IInv'
  <1> SUFFICES ASSUME IInv, Down
               PROVE  IInv'
    OBVIOUS
  <1>1. (ConfigInv /\ ImagesInv)'
    BY DEF IInv, Down, ConfigInv, ImagesInv
  <1>2. (BoxInv /\ WsInv /\ SpecInv /\ KeptInv /\ SourceInv)'
    BY DEF Down, BoxInv, WsInv, SpecInv, KeptInv, SourceInv
  <1>3. QED
    BY <1>1, <1>2 DEF IInv

LEMMA EditKeeps == IInv /\ (Edit \/ HostChanges) => IInv'
  <1> SUFFICES ASSUME IInv, Edit \/ HostChanges
               PROVE  IInv'
    OBVIOUS
  <1>1. ConfigInv'
    <2>1. user' \in Configs /\ host' \in Hosts
      BY DEF IInv, Edit, HostChanges, ConfigInv
    <2>2. changes \in 0 .. MaxChanges /\ changes < MaxChanges /\ changes' = changes + 1
      BY DEF IInv, Edit, HostChanges, ConfigInv
    <2>3. changes' \in 0 .. MaxChanges
      <3>1. MaxChanges \in Nat
        BY ConfigAssumption
      <3>2. QED
        BY <2>2, <3>1
    <2>4. QED
      BY <2>1, <2>3 DEF ConfigInv
  <1>2. ws' = NoBox /\ UNCHANGED <<images, box>>
    BY DEF Edit, HostChanges
  <1>3. (ImagesInv /\ BoxInv /\ WsInv /\ SpecInv /\ KeptInv)'
    BY <1>2 DEF IInv, ImagesInv, BoxInv, WsInv, SpecInv, KeptInv
  <1>4. SourceInv'
    BY DEF IInv, Edit, HostChanges, SourceInv
  <1>5. QED
    BY <1>1, <1>3, <1>4 DEF IInv

(* What IInv says of the images, the container and what Up returned holds  *)
(* after every call of the engine.                                         *)
THEOREM Invariance == Spec => []IInv
  <1>1. IInv /\ [Next]_vars => IInv'
    <2> SUFFICES ASSUME IInv, [Next]_vars
                 PROVE  IInv'
      OBVIOUS
    <2>1. CASE Next
      BY <2>1, BuildKeeps, CreateFreshKeeps, AttachKeeps, CreateFreshComposeKeeps, ReattachKeeps,
         DownKeeps, EditKeeps DEF Next
    <2>2. CASE UNCHANGED vars
      BY <2>2 DEF vars, IInv, ConfigInv, ImagesInv, BoxInv, WsInv, SpecInv, KeptInv, SourceInv
    <2>3. QED
      BY <2>1, <2>2
  <1>2. QED
    BY <1>1, InitInv, PTL DEF Spec

-----------------------------------------------------------------------------
(* The theorems. *)

(* Every configuration handed out is complete, the service in the          *)
(* container is one a backend can run, and a label only has entries for    *)
(* features that exist (Finalize, ParseMetadataLabel).                     *)
THEOREM ConfigType == Spec => []TypeOK
  <1>1. IInv => TypeOK
    <2> SUFFICES ASSUME IInv
                 PROVE  TypeOK
      OBVIOUS
    <2>1. user \in Configs /\ host \in Hosts /\ changes \in 0 .. MaxChanges
      BY DEF IInv, ConfigInv
    <2>2. ws # NoBox => /\ ws.kind \in {"created", "attached"} /\ ws.inspected \in BOOLEAN
                        /\ ws.cfg \in FinalType
      BY DEF IInv, WsInv, WorkspaceOK
    <2>3. ASSUME box # NoBox
          PROVE  /\ box.source \in {"image", "compose"} /\ box.host \in Hosts
                 /\ box.cfg \in FinalType /\ box.spec \in ServiceType
                 /\ ParseMetadataLabel(box.label) \in Seq(LayerType)
                 /\ \A l \in ToSet(ParseMetadataLabel(box.label)) : l.id \in Ids
      <3>1. BoxOK(box)
        BY <2>3 DEF IInv, BoxInv
      <3>2. PICK label \in Seq(Entry) : label = ParseMetadataLabel(box.label)
        BY <3>1 DEF BoxOK, ImageOK
      <3>3. label \in Seq(LayerType)
        BY EntryTypes
      <3>4. \A l \in ToSet(label) : l \in Entry
        BY DEF ToSet
      <3>5. \A l \in ToSet(label) : l.id \in Ids
        BY <3>4 DEF Entry
      <3>6. /\ box.source \in {"image", "compose"} /\ box.host \in Hosts
            /\ box.cfg \in FinalType /\ box.spec \in ServiceType
        BY <3>1 DEF BoxOK
      <3>7. QED
        BY <3>2, <3>3, <3>5, <3>6
    <2>4. QED
      BY <2>1, <2>2, <2>3, Zenon DEF TypeOK, Ids
  <1>2. QED
    BY <1>1, Invariance, PTL

(* The override that is applied in memory and the one that is written,     *)
(* merged and interpolated by docker compose make the same service         *)
(* (ApplyRunOverride, WriteRunOverride).                                   *)
THEOREM BackendsAgreeTheorem == Spec => []BackendsAgree
  <1>1. IInv => BackendsAgree
    <2> SUFFICES ASSUME IInv, box # NoBox
                 PROVE  LET ov  == composeRunOverride(box.cfg, TRUE)
                            mem == ApplyRunOverride(Service, ov)
                            cmp == ComposeMerge(Service, WriteRunOverride(Service, ov))
                        IN  /\ \A k \in DOMAIN mem \ {"volumes"} : mem[k] = cmp[k]
                            /\ DistinctTargets(Service.volumes \o ov.binds) => mem.volumes = cmp.volumes
      BY DEF BackendsAgree
    <2>1. PICK cfg \in ResolvedType : cfg = box.cfg
      BY FinalIsResolved DEF IInv, BoxInv, BoxOK
    <2>2. PICK ov : ov = composeRunOverride(cfg, TRUE)
      OBVIOUS
    <2>3. PICK v : v = AddMissing(AddMissing(Service.volumes, ov.binds), ov.mounts)
      OBVIOUS
    <2>4. PICK w : w = mergedVolumes(Service, ov)
      OBVIOUS
    <2>5. PICK mem : mem = ApplyRunOverride(Service, ov)
      OBVIOUS
    <2>6. PICK cmp : cmp = ComposeMerge(Service, WriteRunOverride(Service, ov))
      OBVIOUS
    <2>7. mem = WithOverride(v, ov) /\ cmp = WithOverride(w, ov)
      BY <2>2, <2>3, <2>4, <2>5, <2>6, WrittenService
    <2>8. PICK e : e = Overlay(Service.env, ov.env)
      OBVIOUS
    <2>9. PICK p : p = BoolOr(ov.privileged, Service.privileged)
      OBVIOUS
    <2>10. PICK c : c = IF ov.capAdd = <<>> THEN Service.capAdd
                        ELSE unionDedup(Service.capAdd \o ov.capAdd)
      OBVIOUS
    <2>11. PICK n : n = IF ov.entrypoints = <<>> THEN Service.entrypoint
                        ELSE RenderEntrypointWrapper(ov.entrypoints, ov.original, FALSE)
      OBVIOUS
    <2>12. /\ mem = [volumes |-> v, env |-> e, privileged |-> p, capAdd |-> c, entrypoint |-> n]
           /\ cmp = [volumes |-> w, env |-> e, privileged |-> p, capAdd |-> c, entrypoint |-> n]
      BY <2>7, <2>8, <2>9, <2>10, <2>11, Zenon DEF WithOverride
    <2>13. /\ \A k \in DOMAIN mem \ {"volumes"} : mem[k] = cmp[k]
           /\ mem.volumes = v /\ cmp.volumes = w
      BY <2>12
    <2>14. DistinctTargets(Service.volumes \o ov.binds) => v = w
      BY <2>2, <2>3, <2>4, OverrideVolumes
    <2>15. QED
      BY <2>1, <2>2, <2>5, <2>6, <2>13, <2>14, Zenon
  <1>2. QED
    BY <1>1, Invariance, PTL

(* The service either backend makes, part by part.                         *)
LEMMA UpParts ==
    ASSUME NEW cfg \in ResolvedType
    PROVE  LET ov == composeRunOverride(cfg, TRUE)
               s == upCompose(ov)
           IN  /\ Native => DistinctTargets(s.volumes)
               /\ IsPrefix(Service.volumes, s.volumes)
               /\ s.env = Overlay(Service.env, ov.env)
               /\ s.privileged = BoolOr(ov.privileged, Service.privileged)
               /\ s.capAdd = IF ov.capAdd = <<>> THEN Service.capAdd
                             ELSE unionDedup(Service.capAdd \o ov.capAdd)
               /\ s.entrypoint = IF ov.entrypoints = <<>> THEN Service.entrypoint
                                 ELSE RenderEntrypointWrapper(ov.entrypoints, ov.original, FALSE)
  <1>1. PICK ov : ov = composeRunOverride(cfg, TRUE)
    OBVIOUS
  <1>2. PICK v : v = AddMissing(AddMissing(Service.volumes, ov.binds), ov.mounts)
    OBVIOUS
  <1>3. PICK w : w = mergedVolumes(Service, ov)
    OBVIOUS
  <1>4. PICK u : u = IF Native THEN v ELSE w
    OBVIOUS
  <1>5. PICK s : s = upCompose(ov)
    OBVIOUS
  <1>6. s = WithOverride(u, ov)
    BY <1>1, <1>2, <1>3, <1>4, <1>5, WrittenService DEF upCompose
  <1>7. PICK sv \in Seq(MountType) : sv = Service.volumes
    BY ConfigAssumption DEF ServiceType
  <1>8. /\ u \in Seq(MountType) /\ Len(sv) <= Len(u) /\ \A k \in 1 .. Len(sv) : u[k] = sv[k]
        /\ Native => DistinctTargets(u)
    BY <1>1, <1>2, <1>3, <1>4, <1>7, OverrideVolumes
  <1>9. IsPrefix(sv, u)
    <2>1. PICK L \in Nat : L = Len(sv)
      OBVIOUS
    <2>2. PICK x : x = SubSeq(sv, 1, L)
      OBVIOUS
    <2>3. PICK y : y = SubSeq(u, 1, L)
      OBVIOUS
    <2>4. \A i \in 1 .. L : sv[i] \in MountType /\ u[i] = sv[i]
      BY <1>8, <2>1
    <2>5. /\ x \in Seq(MountType) /\ Len(x) = L /\ \A i \in 1 .. L : x[i] = sv[i]
      <3>1. 1 \in Int /\ L \in Int /\ \A i \in 1 .. L : sv[i] \in MountType
        BY <2>4
      <3>2. /\ SubSeq(sv, 1, L) \in Seq(MountType)
            /\ Len(SubSeq(sv, 1, L)) = IF 1 <= L THEN L - 1 + 1 ELSE 0
            /\ \A i \in 1 .. L - 1 + 1 : SubSeq(sv, 1, L)[i] = sv[1 + i - 1]
        BY <3>1, SubSeqProperties
      <3>3. QED
        BY <2>2, <3>2
    <2>6. /\ y \in Seq(MountType) /\ Len(y) = L /\ \A i \in 1 .. L : y[i] = u[i]
      <3>1. 1 \in Int /\ L \in Int /\ \A i \in 1 .. L : u[i] \in MountType
        BY <2>4
      <3>2. /\ SubSeq(u, 1, L) \in Seq(MountType)
            /\ Len(SubSeq(u, 1, L)) = IF 1 <= L THEN L - 1 + 1 ELSE 0
            /\ \A i \in 1 .. L - 1 + 1 : SubSeq(u, 1, L)[i] = u[1 + i - 1]
        BY <3>1, SubSeqProperties
      <3>3. QED
        BY <2>3, <3>2
    <2>7. x = y
      BY <2>4, <2>5, <2>6
    <2>8. QED
      BY <1>8, <2>1, <2>2, <2>3, <2>7, Zenon DEF IsPrefix
  <1>10. PICK e : e = Overlay(Service.env, ov.env)
    OBVIOUS
  <1>11. PICK p : p = BoolOr(ov.privileged, Service.privileged)
    OBVIOUS
  <1>12. PICK c : c = IF ov.capAdd = <<>> THEN Service.capAdd
                      ELSE unionDedup(Service.capAdd \o ov.capAdd)
    OBVIOUS
  <1>13. PICK n : n = IF ov.entrypoints = <<>> THEN Service.entrypoint
                      ELSE RenderEntrypointWrapper(ov.entrypoints, ov.original, FALSE)
    OBVIOUS
  <1>14. s = [volumes |-> u, env |-> e, privileged |-> p, capAdd |-> c, entrypoint |-> n]
    BY <1>6, <1>10, <1>11, <1>12, <1>13, Zenon DEF WithOverride
  <1>15. s.volumes = u /\ s.env = e /\ s.privileged = p /\ s.capAdd = c /\ s.entrypoint = n
    BY <1>14
  <1>16. QED
    BY <1>1, <1>5, <1>7, <1>8, <1>9, <1>10, <1>11, <1>12, <1>13, <1>15, Zenon

(* What the compose file says of the service holds for the container: its  *)
(* volumes come first and its capabilities stay, privileged is only taken  *)
(* away by a layer that says so, the original entrypoint runs after those  *)
(* of the layers, and with the native backend no two volumes share a       *)
(* target (ApplyRunOverride, RenderEntrypointWrapper).                     *)
THEOREM ServiceIsKeptTheorem == Spec => []ServiceIsKept
  <1>1. IInv => ServiceIsKept
    <2> SUFFICES ASSUME IInv, box # NoBox, box.source = "compose", box.inspected
                 PROVE  ServiceIsKept
      BY DEF ServiceIsKept
    <2>1. PICK cfg \in ResolvedType : cfg = box.cfg
      BY FinalIsResolved DEF IInv, BoxInv, BoxOK
    <2>2. PICK ov : ov = composeRunOverride(cfg, TRUE)
      OBVIOUS
    <2>3. PICK s : s = box.spec
      OBVIOUS
    <2>4. s = upCompose(ov)
      BY <2>1, <2>2, <2>3 DEF IInv, SpecInv, SpecOK
    <2>5. /\ Native => DistinctTargets(s.volumes)
          /\ IsPrefix(Service.volumes, s.volumes)
          /\ s.env = Overlay(Service.env, ov.env)
          /\ s.privileged = BoolOr(ov.privileged, Service.privileged)
          /\ s.capAdd = IF ov.capAdd = <<>> THEN Service.capAdd
                        ELSE unionDedup(Service.capAdd \o ov.capAdd)
          /\ s.entrypoint = IF ov.entrypoints = <<>> THEN Service.entrypoint
                            ELSE RenderEntrypointWrapper(ov.entrypoints, ov.original, FALSE)
      BY <2>2, <2>4, UpParts
    <2>6. /\ ov.env = cfg.env /\ ov.privileged = cfg.privileged /\ ov.capAdd = cfg.capAdd
          /\ ov.entrypoints = cfg.entrypoints /\ ov.original \in Seq(Text)
          /\ ov.original = <<>> => Service.entrypoint.original = <<>> /\ ImageEntrypoint = <<>>
      BY <2>2, OverrideType
    <2>7. /\ cfg.env \in Env /\ cfg.privileged \in Switch /\ cfg.capAdd \in Seq(Text)
          /\ Service.env \in Env /\ Service.capAdd \in Seq(Text)
      BY ConfigAssumption DEF ResolvedType, ServiceType
    <2>8. ToSet(Service.capAdd) \subseteq ToSet(s.capAdd)
      <3>1. CASE ov.capAdd = <<>>
        BY <2>5, <3>1
      <3>2. CASE ov.capAdd # <<>>
        <4>1. PICK all \in Seq(Text) : all = Service.capAdd \o ov.capAdd
          <5>1. Service.capAdd \o ov.capAdd \in Seq(Text)
            BY <2>6, <2>7, ConcatProperties
          <5>2. QED
            BY <5>1
        <4>2. s.capAdd = unionDedup(all) /\ Range(unionDedup(all)) = Range(all)
          BY <2>5, <3>2, <4>1, UnionMembers
        <4>3. Range(all) = Range(Service.capAdd) \cup Range(ov.capAdd)
          BY <2>6, <2>7, <4>1, RangeConcat
        <4>4. QED
          BY <4>2, <4>3 DEF Range, ToSet
      <3>3. QED
        BY <3>1, <3>2
    <2>9. \A k \in Variable : cfg.env[k] = "nil" => s.env[k] = Service.env[k]
      BY <2>5, <2>6, <2>7, Overlays
    <2>10. (Service.privileged /\ ~s.privileged) => cfg.privileged = "false"
      BY <2>5, <2>6, <2>7 DEF BoolOr, Switch
    <2>11. ASSUME cfg.entrypoints # <<>>
           PROVE  /\ s.entrypoint.scripts = cfg.entrypoints
                  /\ s.entrypoint.original = <<>> =>
                       Service.entrypoint.original = <<>> /\ ImageEntrypoint = <<>>
                  /\ s.entrypoint.dollar = "$"
      <3>1. s.entrypoint = RenderEntrypointWrapper(ov.entrypoints, ov.original, FALSE)
        BY <2>5, <2>6, <2>11
      <3>2. s.entrypoint = [scripts |-> ov.entrypoints, original |-> ov.original, dollar |-> "$"]
        BY <3>1 DEF RenderEntrypointWrapper
      <3>3. QED
        BY <2>6, <3>2
    <2>12. QED
      BY <2>1, <2>3, <2>5, <2>8, <2>9, <2>10, <2>11, Zenon DEF ServiceIsKept
  <1>2. QED
    BY <1>1, Invariance, PTL

(* Put together from the label of the image, by an Up that fetched no      *)
(* feature, the service is still the one the container was created from,   *)
(* for every set of features and every label: a layer that went through a  *)
(* label differs only in an empty hook and in mounts without a target,     *)
(* none of which reaches a compose service (reattachCompose,               *)
(* composeInputsHash, buildMetadataLabel).                                 *)
THEOREM ReattachKeepsServiceTheorem == Spec => []ReattachKeepsService
  <1>1. IInv => ReattachKeepsService
    <2> SUFFICES ASSUME IInv, box # NoBox, user.source = "compose", Reattaches,
                        box.inspected, box.host = host
                 PROVE  upCompose(composeRunOverride(Attached(TRUE), TRUE)) = box.spec
      BY DEF ReattachKeepsService
    <2>1. ConfigInv /\ BoxOK(box) /\ KeptOK(box) /\ box.source = "compose"
      BY DEF IInv, BoxInv, KeptInv, SourceInv
    <2>2. PICK label \in Seq(Entry) : label = ParseMetadataLabel(box.label)
      BY <2>1 DEF BoxOK, ImageOK
    <2>3. PICK r \in ResolvedType : r = resolveFromRaw(user, host)
      BY <2>1, InputTypes
    <2>4. PICK o \in ResolvedType : o = box.inputs
      BY <2>1 DEF BoxOK
    <2>5. composeInputs(r) = composeInputs(o)
      BY <2>3, <2>4 DEF Reattaches
    <2>6. host \in Hosts
      BY <2>1 DEF ConfigInv
    <2>7. PICK c \in ResolvedType : c = applyMetadataMerge(r, label, host)
      BY <2>6, MergedType, FinalIsResolved
    <2>8. PICK d \in ResolvedType : d = applyMetadataMerge(o, label, host)
      BY <2>6, MergedType, FinalIsResolved
    <2>9. Agree(c, d)
      BY <2>5, <2>6, <2>7, <2>8, SameInputs
    <2>10. upCompose(composeRunOverride(c, TRUE)) = upCompose(composeRunOverride(d, TRUE))
      BY <2>9, AgreeUp
    <2>11. box.spec = upCompose(composeRunOverride(d, TRUE))
      BY <2>1, <2>2, <2>4, <2>8 DEF KeptOK
    <2>12. Attached(TRUE) = c
      BY <2>2, <2>3, <2>7, Zenon DEF Attached
    <2>13. QED
      BY <2>10, <2>11, <2>12
  <1>2. QED
    BY <1>1, Invariance, PTL

-----------------------------------------------------------------------------
(* What a list of layers defines, one layer after the other.               *)

(* A field of every layer.                                                 *)
Col(s, g) == [i \in DOMAIN s |-> g[s[i]]]

Extends(V, g, s, x) ==
    /\ Col(s, g) \in Seq(V) /\ Len(Col(s, g)) = Len(s) /\ DOMAIN Col(s, g) = DOMAIN s
    /\ Col(Append(s, x), g) = Append(Col(s, g), g[x])

LEMMA ColAppend ==
    ASSUME NEW T, NEW V, NEW g \in [T -> V], NEW s \in Seq(T), NEW x \in T
    PROVE  Extends(V, g, s, x)
  <1>1. PICK L \in Nat : L = Len(s) /\ DOMAIN s = 1 .. L
    OBVIOUS
  <1>2. PICK q \in Seq(T) : q = Append(s, x)
    <2>1. Append(s, x) \in Seq(T)
      OBVIOUS
    <2>2. QED
      BY <2>1
  <1>3. DOMAIN q = 1 .. L + 1 /\ q[L + 1] = x /\ \A i \in 1 .. L : q[i] = s[i]
    BY <1>1, <1>2
  <1>4. PICK c : c = Col(s, g)
    OBVIOUS
  <1>5. c = [i \in 1 .. L |-> c[i]] /\ \A i \in 1 .. L : c[i] = g[s[i]]
    BY <1>1, <1>4 DEF Col
  <1>6. \A i \in 1 .. L : c[i] \in V
    BY <1>1, <1>5
  <1>7. c \in Seq(V) /\ Len(c) = L
    <2>1. c \in Seq(V)
      BY <1>5, <1>6, Elementwise
    <2>2. QED
      BY <1>5, <2>1
  <1>8. PICK d : d = Col(q, g)
    OBVIOUS
  <1>9. d = [i \in 1 .. L + 1 |-> d[i]] /\ \A i \in 1 .. L + 1 : d[i] = g[q[i]]
    BY <1>3, <1>8 DEF Col
  <1>10. (\A i \in 1 .. L : d[i] = c[i]) /\ d[L + 1] = g[x]
    <2>1. \A i \in 1 .. L : i \in 1 .. L + 1
      OBVIOUS
    <2>2. L + 1 \in 1 .. L + 1
      OBVIOUS
    <2>3. QED
      BY <1>3, <1>5, <1>9, <2>1, <2>2
  <1>11. d \in Seq(V) /\ Len(d) = L + 1
    <2>1. \A i \in 1 .. L + 1 : q[i] \in T
      BY <1>3
    <2>2. \A i \in 1 .. L + 1 : d[i] \in V
      BY <1>9, <2>1
    <2>3. PICK N \in Nat : N = L + 1
      OBVIOUS
    <2>4. d = [i \in 1 .. N |-> d[i]] /\ \A i \in 1 .. N : d[i] \in V
      BY <1>9, <2>2, <2>3, Zenon
    <2>5. d \in Seq(V)
      BY <2>4, Elementwise
    <2>6. QED
      BY <1>9, <2>5
  <1>12. g[x] \in V
    OBVIOUS
  <1>13. d = Append(c, g[x])
    BY <1>7, <1>10, <1>11, <1>12, IsAppend
  <1>14. QED
    BY <1>1, <1>2, <1>4, <1>5, <1>7, <1>8, <1>13 DEF Extends

LEMMA LastColumn ==
    ASSUME NEW T, NEW V, NEW g \in [T -> V], NEW s \in Seq(T), NEW x \in T, NEW unset \in V
    PROVE  LastSet(Col(Append(s, x), g), unset)
             = IF g[x] # unset THEN g[x] ELSE LastSet(Col(s, g), unset)
  <1>1. PICK c \in Seq(V) : c = Col(s, g) /\ Col(Append(s, x), g) = Append(c, g[x])
    <2>1. Extends(V, g, s, x)
      BY ColAppend
    <2>2. QED
      BY <2>1, Zenon DEF Extends
  <1>2. g[x] \in V
    OBVIOUS
  <1>3. QED
    BY <1>1, <1>2, LastSetAppend

Flows(V, g, s, x) ==
    /\ FlattenSeq(Col(s, g)) \in Seq(V)
    /\ FlattenSeq(Col(Append(s, x), g)) = FlattenSeq(Col(s, g)) \o g[x]

LEMMA FlatColumn ==
    ASSUME NEW T, NEW V, NEW g \in [T -> Seq(V)], NEW s \in Seq(T), NEW x \in T
    PROVE  Flows(V, g, s, x)
  <1>1. PICK W : W = Seq(V)
    OBVIOUS
  <1>2. g \in [T -> W]
    BY <1>1
  <1>3. PICK c \in Seq(W) : c = Col(s, g) /\ Col(Append(s, x), g) = Append(c, g[x])
    <2>1. Extends(W, g, s, x)
      BY <1>2, ColAppend
    <2>2. QED
      BY <2>1, Zenon DEF Extends
  <1>4. c \in Seq(Seq(V)) /\ g[x] \in Seq(V)
    BY <1>1, <1>3
  <1>5. QED
    BY <1>3, <1>4, FlattenAppend, FlattenType DEF Flows

(* The values that are set, in their order.                                *)
Set(s, g, unset) == Kept(Col(s, g), {i \in DOMAIN s : g[s[i]] # unset})

Gains(V, g, s, x, unset) ==
    /\ Set(s, g, unset) \in Seq(V)
    /\ Set(Append(s, x), g, unset)
         = IF g[x] # unset THEN Append(Set(s, g, unset), g[x]) ELSE Set(s, g, unset)

LEMMA SetColumn ==
    ASSUME NEW T, NEW V, NEW g \in [T -> V], NEW s \in Seq(T), NEW x \in T, NEW unset
    PROVE  Gains(V, g, s, x, unset)
  <1>1. PICK L \in Nat : L = Len(s) /\ DOMAIN s = 1 .. L
    OBVIOUS
  <1>2. PICK q \in Seq(T) : q = Append(s, x)
    <2>1. Append(s, x) \in Seq(T)
      OBVIOUS
    <2>2. QED
      BY <2>1
  <1>3. DOMAIN q = 1 .. L + 1 /\ q[L + 1] = x /\ \A i \in 1 .. L : q[i] = s[i]
    BY <1>1, <1>2
  <1>4. PICK c \in Seq(V) : c = Col(s, g) /\ Len(c) = L /\ DOMAIN c = 1 .. L
                            /\ Col(q, g) = Append(c, g[x])
    <2>1. Extends(V, g, s, x)
      BY ColAppend
    <2>2. QED
      BY <1>1, <1>2, <2>1, Zenon DEF Extends
  <1>5. PICK S : S = {i \in DOMAIN s : g[s[i]] # unset}
    OBVIOUS
  <1>6. PICK R : R = {i \in DOMAIN q : g[q[i]] # unset}
    OBVIOUS
  <1>7. (\A i \in 1 .. L : i \in S <=> i \in R) /\ (L + 1 \in R <=> g[x] # unset)
    <2>1. \A i \in 1 .. L : i \in S <=> i \in R
      <3>1. \A i \in 1 .. L : i \in DOMAIN q /\ i \in DOMAIN s /\ q[i] = s[i]
        BY <1>1, <1>3
      <3>2. QED
        BY <1>5, <1>6, <3>1, Zenon
    <2>2. L + 1 \in DOMAIN q
      BY <1>3
    <2>3. L + 1 \in R <=> g[x] # unset
      BY <1>3, <1>6, <2>2, Zenon
    <2>4. QED
      BY <2>1, <2>3
  <1>8. g[x] \in V
    OBVIOUS
  <1>9. Kept(Append(c, g[x]), R) = IF L + 1 \in R THEN Append(Kept(c, R), g[x]) ELSE Kept(c, R)
    BY <1>4, <1>8, KeptAppend
  <1>10. Kept(c, S) = Kept(c, R)
    BY <1>4, <1>7, KeptSame
  <1>11. Kept(c, S) \in Seq(V)
    BY KeptMembers
  <1>12. Set(s, g, unset) = Kept(c, S) /\ Set(q, g, unset) = Kept(Append(c, g[x]), R)
    BY <1>4, <1>5, <1>6, Zenon DEF Set
  <1>13. QED
    BY <1>2, <1>7, <1>9, <1>10, <1>11, <1>12, Zenon DEF Gains

UnionOf(s, g) == UNION {g[s[i]] : i \in DOMAIN s}

LEMMA UnionColumn ==
    ASSUME NEW T, NEW g, NEW s \in Seq(T), NEW x \in T
    PROVE  UnionOf(Append(s, x), g) = UnionOf(s, g) \cup g[x]
  <1>1. PICK L \in Nat : L = Len(s) /\ DOMAIN s = 1 .. L
    OBVIOUS
  <1>2. PICK q \in Seq(T) : q = Append(s, x)
    <2>1. Append(s, x) \in Seq(T)
      OBVIOUS
    <2>2. QED
      BY <2>1
  <1>3. DOMAIN q = 1 .. L + 1 /\ q[L + 1] = x /\ \A i \in 1 .. L : q[i] = s[i]
    BY <1>1, <1>2
  <1>4. /\ \A i \in DOMAIN s : i \in DOMAIN q /\ q[i] = s[i]
        /\ \A i \in DOMAIN q : i \in DOMAIN s \/ i = L + 1
        /\ L + 1 \in DOMAIN q
    BY <1>1, <1>3
  <1>5. \A e : e \in UnionOf(s, g) <=> \E i \in DOMAIN s : e \in g[s[i]]
    BY Zenon DEF UnionOf
  <1>6. \A e : e \in UnionOf(q, g) <=> \E i \in DOMAIN q : e \in g[q[i]]
    BY Zenon DEF UnionOf
  <1>7. ASSUME NEW e
        PROVE  e \in UnionOf(q, g) <=> e \in UnionOf(s, g) \/ e \in g[x]
    <2>1. ASSUME e \in UnionOf(q, g)
          PROVE  e \in UnionOf(s, g) \/ e \in g[x]
      <3>1. PICK i \in DOMAIN q : e \in g[q[i]]
        BY <1>6, <2>1, Zenon
      <3>2. CASE i \in DOMAIN s
        BY <1>4, <1>5, <3>1, <3>2, Zenon
      <3>3. CASE i = L + 1
        BY <1>3, <3>1, <3>3, Zenon
      <3>4. QED
        BY <1>4, <3>2, <3>3, Zenon
    <2>2. ASSUME e \in UnionOf(s, g)
          PROVE  e \in UnionOf(q, g)
      <3>1. PICK i \in DOMAIN s : e \in g[s[i]]
        BY <1>5, <2>2, Zenon
      <3>2. i \in DOMAIN q /\ q[i] = s[i]
        BY <1>4, Zenon
      <3>3. QED
        BY <1>6, <3>1, <3>2, Zenon
    <2>3. ASSUME e \in g[x]
          PROVE  e \in UnionOf(q, g)
      BY <1>3, <1>4, <1>6, <2>3, Zenon
    <2>4. QED
      BY <2>1, <2>2, <2>3, Zenon
  <1>8. UnionOf(q, g) = UnionOf(s, g) \cup g[x]
    BY <1>7, Zenon
  <1>9. QED
    BY <1>2, <1>8, Zenon

(* What has the fields of a layer: one, or devcontainer.json.              *)
Layered(l) ==
    /\ l.remoteUser \in Text /\ l.privileged \in Switch /\ l.env \in Env
    /\ l.capAdd \in Seq(Text) /\ l.mounts \in Seq(MountType) /\ l.entrypoint \in Text
    /\ l.hook \in HookType \cup {NoHook} /\ l.waitFor \in Phase

(* What the layers define, field by field.                                 *)
UserOf(s) == LastSet([i \in DOMAIN s |-> s[i].remoteUser], "")
PrivilegeOf(s) == LastSet([i \in DOMAIN s |-> s[i].privileged], "nil")
VariableOf(s, k) == LastSet([i \in DOMAIN s |-> s[i].env[k]], "nil")
CapsOf(s) == UNION {ToSet(s[i].capAdd) : i \in DOMAIN s}
MountsOf(s) == FlattenSeq([i \in DOMAIN s |-> s[i].mounts])
EntrypointsOf(s) ==
    Kept([i \in DOMAIN s |-> s[i].entrypoint], {i \in DOMAIN s : s[i].entrypoint # ""})
HooksOf(s) == Kept([i \in DOMAIN s |-> s[i].hook], {i \in DOMAIN s : s[i].hook # NoHook})
WaitOf(s) == LastSet([i \in DOMAIN s |-> s[i].waitFor], "")

LEMMA UserColumn ==
    ASSUME NEW T, \A l \in T : Layered(l), NEW s \in Seq(T), NEW x \in T
    PROVE  UserOf(Append(s, x)) = IF x.remoteUser # "" THEN x.remoteUser ELSE UserOf(s)
  <1>1. PICK t \in Text : t = ""
    BY ConfigAssumption
  <1>2. PICK g \in [T -> Text] : g = [l \in T |-> l.remoteUser]
    <2>1. \A l \in T : l.remoteUser \in Text
      BY DEF Layered
    <2>2. QED
      BY <2>1
  <1>3. \A q \in Seq(T) : [i \in DOMAIN q |-> q[i].remoteUser] = Col(q, g)
    <2> SUFFICES ASSUME NEW q \in Seq(T)
                 PROVE  [i \in DOMAIN q |-> q[i].remoteUser] = Col(q, g)
      OBVIOUS
    <2>1. \A i \in DOMAIN q : q[i] \in T
      OBVIOUS
    <2>2. \A i \in DOMAIN q : g[q[i]] = q[i].remoteUser
      BY <1>2, <2>1, Zenon
    <2>3. QED
      BY <2>2, Zenon DEF Col
  <1>4. Append(s, x) \in Seq(T)
    OBVIOUS
  <1>5. LastSet(Col(Append(s, x), g), t) = IF g[x] # t THEN g[x] ELSE LastSet(Col(s, g), t)
    BY LastColumn
  <1>6. g[x] = x.remoteUser
    BY <1>2, Zenon
  <1>7. QED
    BY <1>1, <1>3, <1>4, <1>5, <1>6, Zenon DEF UserOf

LEMMA PrivilegeColumn ==
    ASSUME NEW T, \A l \in T : Layered(l), NEW s \in Seq(T), NEW x \in T
    PROVE  PrivilegeOf(Append(s, x)) = IF x.privileged # "nil" THEN x.privileged ELSE PrivilegeOf(s)
  <1>1. PICK t \in Switch : t = "nil"
    BY DEF Switch
  <1>2. PICK g \in [T -> Switch] : g = [l \in T |-> l.privileged]
    <2>1. \A l \in T : l.privileged \in Switch
      BY DEF Layered
    <2>2. QED
      BY <2>1
  <1>3. \A q \in Seq(T) : [i \in DOMAIN q |-> q[i].privileged] = Col(q, g)
    <2> SUFFICES ASSUME NEW q \in Seq(T)
                 PROVE  [i \in DOMAIN q |-> q[i].privileged] = Col(q, g)
      OBVIOUS
    <2>1. \A i \in DOMAIN q : q[i] \in T
      OBVIOUS
    <2>2. \A i \in DOMAIN q : g[q[i]] = q[i].privileged
      BY <1>2, <2>1, Zenon
    <2>3. QED
      BY <2>2, Zenon DEF Col
  <1>4. Append(s, x) \in Seq(T)
    OBVIOUS
  <1>5. LastSet(Col(Append(s, x), g), t) = IF g[x] # t THEN g[x] ELSE LastSet(Col(s, g), t)
    BY LastColumn
  <1>6. g[x] = x.privileged
    BY <1>2, Zenon
  <1>7. QED
    BY <1>1, <1>3, <1>4, <1>5, <1>6, Zenon DEF PrivilegeOf

LEMMA WaitColumn ==
    ASSUME NEW T, \A l \in T : Layered(l), NEW s \in Seq(T), NEW x \in T
    PROVE  WaitOf(Append(s, x)) = IF x.waitFor # "" THEN x.waitFor ELSE WaitOf(s)
  <1>1. PICK t \in Phase : t = ""
    BY DEF Phase
  <1>2. PICK g \in [T -> Phase] : g = [l \in T |-> l.waitFor]
    <2>1. \A l \in T : l.waitFor \in Phase
      BY DEF Layered
    <2>2. QED
      BY <2>1
  <1>3. \A q \in Seq(T) : [i \in DOMAIN q |-> q[i].waitFor] = Col(q, g)
    <2> SUFFICES ASSUME NEW q \in Seq(T)
                 PROVE  [i \in DOMAIN q |-> q[i].waitFor] = Col(q, g)
      OBVIOUS
    <2>1. \A i \in DOMAIN q : q[i] \in T
      OBVIOUS
    <2>2. \A i \in DOMAIN q : g[q[i]] = q[i].waitFor
      BY <1>2, <2>1, Zenon
    <2>3. QED
      BY <2>2, Zenon DEF Col
  <1>4. Append(s, x) \in Seq(T)
    OBVIOUS
  <1>5. LastSet(Col(Append(s, x), g), t) = IF g[x] # t THEN g[x] ELSE LastSet(Col(s, g), t)
    BY LastColumn
  <1>6. g[x] = x.waitFor
    BY <1>2, Zenon
  <1>7. QED
    BY <1>1, <1>3, <1>4, <1>5, <1>6, Zenon DEF WaitOf

LEMMA VariableColumn ==
    ASSUME NEW T, \A l \in T : Layered(l), NEW s \in Seq(T), NEW x \in T, NEW k \in Variable
    PROVE  VariableOf(Append(s, x), k) = IF x.env[k] # "nil" THEN x.env[k] ELSE VariableOf(s, k)
  <1>1. PICK t \in Text : t = "nil"
    BY ConfigAssumption
  <1>2. PICK g \in [T -> Text] : g = [l \in T |-> l.env[k]]
    <2>1. \A l \in T : l.env[k] \in Text
      BY DEF Layered, Env
    <2>2. QED
      BY <2>1
  <1>3. \A q \in Seq(T) : [i \in DOMAIN q |-> q[i].env[k]] = Col(q, g)
    <2> SUFFICES ASSUME NEW q \in Seq(T)
                 PROVE  [i \in DOMAIN q |-> q[i].env[k]] = Col(q, g)
      OBVIOUS
    <2>1. \A i \in DOMAIN q : q[i] \in T
      OBVIOUS
    <2>2. \A i \in DOMAIN q : g[q[i]] = q[i].env[k]
      BY <1>2, <2>1, Zenon
    <2>3. QED
      BY <2>2, Zenon DEF Col
  <1>4. Append(s, x) \in Seq(T)
    OBVIOUS
  <1>5. LastSet(Col(Append(s, x), g), t) = IF g[x] # t THEN g[x] ELSE LastSet(Col(s, g), t)
    BY LastColumn
  <1>6. g[x] = x.env[k]
    BY <1>2, Zenon
  <1>7. QED
    BY <1>1, <1>3, <1>4, <1>5, <1>6, Zenon DEF VariableOf

LEMMA CapsColumn ==
    ASSUME NEW T, NEW s \in Seq(T), NEW x \in T
    PROVE  CapsOf(Append(s, x)) = CapsOf(s) \cup ToSet(x.capAdd)
  <1>1. PICK g : g = [l \in T |-> ToSet(l.capAdd)]
    OBVIOUS
  <1>2. \A q \in Seq(T) : CapsOf(q) = UnionOf(q, g)
    <2> SUFFICES ASSUME NEW q \in Seq(T)
                 PROVE  CapsOf(q) = UnionOf(q, g)
      OBVIOUS
    <2>1. \A i \in DOMAIN q : q[i] \in T
      OBVIOUS
    <2>2. \A i \in DOMAIN q : g[q[i]] = ToSet(q[i].capAdd)
      BY <1>1, <2>1, Zenon
    <2>3. {g[q[i]] : i \in DOMAIN q} = {ToSet(q[i].capAdd) : i \in DOMAIN q}
      BY <2>2, Zenon
    <2>4. QED
      BY <2>3, Zenon DEF CapsOf, UnionOf
  <1>3. Append(s, x) \in Seq(T)
    OBVIOUS
  <1>4. g[x] = ToSet(x.capAdd)
    BY <1>1, Zenon
  <1>5. UnionOf(Append(s, x), g) = UnionOf(s, g) \cup g[x]
    BY UnionColumn
  <1>6. QED
    BY <1>2, <1>3, <1>4, <1>5, Zenon

LEMMA MountsColumn ==
    ASSUME NEW T, \A l \in T : Layered(l), NEW s \in Seq(T), NEW x \in T
    PROVE  /\ MountsOf(s) \in Seq(MountType)
           /\ MountsOf(Append(s, x)) = MountsOf(s) \o x.mounts
  <1>2. PICK g \in [T -> Seq(MountType)] : g = [l \in T |-> l.mounts]
    <2>1. \A l \in T : l.mounts \in Seq(MountType)
      BY DEF Layered
    <2>2. PICK W : W = Seq(MountType)
      OBVIOUS
    <2>3. [l \in T |-> l.mounts] \in [T -> W]
      BY <2>1, <2>2
    <2>4. QED
      BY <2>2, <2>3
  <1>3. \A q \in Seq(T) : [i \in DOMAIN q |-> q[i].mounts] = Col(q, g)
    <2> SUFFICES ASSUME NEW q \in Seq(T)
                 PROVE  [i \in DOMAIN q |-> q[i].mounts] = Col(q, g)
      OBVIOUS
    <2>1. \A i \in DOMAIN q : q[i] \in T
      OBVIOUS
    <2>2. \A i \in DOMAIN q : g[q[i]] = q[i].mounts
      BY <1>2, <2>1, Zenon
    <2>3. QED
      BY <2>2, Zenon DEF Col
  <1>4. Append(s, x) \in Seq(T)
    OBVIOUS
  <1>5. Flows(MountType, g, s, x)
    BY FlatColumn
  <1>6. g[x] = x.mounts
    BY <1>2, Zenon
  <1>7. QED
    BY <1>3, <1>4, <1>5, <1>6, Zenon DEF Flows, MountsOf

LEMMA EntrypointsColumn ==
    ASSUME NEW T, \A l \in T : Layered(l), NEW s \in Seq(T), NEW x \in T
    PROVE  /\ EntrypointsOf(s) \in Seq(Text)
           /\ EntrypointsOf(Append(s, x)) = IF x.entrypoint # "" THEN Append(EntrypointsOf(s), x.entrypoint) ELSE EntrypointsOf(s)
  <1>1. PICK t : t = ""
    OBVIOUS
  <1>2. PICK g \in [T -> Text] : g = [l \in T |-> l.entrypoint]
    <2>1. \A l \in T : l.entrypoint \in Text
      BY DEF Layered
    <2>2. QED
      BY <2>1, Zenon
  <1>3. \A q \in Seq(T) : EntrypointsOf(q) = Set(q, g, t)
    <2> SUFFICES ASSUME NEW q \in Seq(T)
                 PROVE  EntrypointsOf(q) = Set(q, g, t)
      OBVIOUS
    <2>1. \A i \in DOMAIN q : q[i] \in T
      OBVIOUS
    <2>2. \A i \in DOMAIN q : g[q[i]] = q[i].entrypoint
      BY <1>2, <2>1, Zenon
    <2>3. [i \in DOMAIN q |-> q[i].entrypoint] = Col(q, g)
      BY <2>2, Zenon DEF Col
    <2>4. {i \in DOMAIN q : q[i].entrypoint # t} = {i \in DOMAIN q : g[q[i]] # t}
      BY <2>2, Zenon
    <2>5. QED
      BY <1>1, <2>3, <2>4, Zenon DEF Set, EntrypointsOf
  <1>4. Append(s, x) \in Seq(T)
    OBVIOUS
  <1>5. Gains(Text, g, s, x, t)
    BY SetColumn
  <1>6. g[x] = x.entrypoint
    BY <1>2, Zenon
  <1>7. QED
    BY <1>1, <1>3, <1>4, <1>5, <1>6, Zenon DEF Gains

LEMMA HooksColumn ==
    ASSUME NEW T, \A l \in T : Layered(l), NEW s \in Seq(T), NEW x \in T
    PROVE  /\ HooksOf(s) \in Seq((HookType \cup {NoHook}))
           /\ HooksOf(Append(s, x)) = IF x.hook # NoHook THEN Append(HooksOf(s), x.hook) ELSE HooksOf(s)
  <1>1. PICK t : t = NoHook
    OBVIOUS
  <1>2. PICK g \in [T -> (HookType \cup {NoHook})] : g = [l \in T |-> l.hook]
    <2>1. \A l \in T : l.hook \in (HookType \cup {NoHook})
      BY DEF Layered
    <2>2. QED
      BY <2>1, Zenon
  <1>3. \A q \in Seq(T) : HooksOf(q) = Set(q, g, t)
    <2> SUFFICES ASSUME NEW q \in Seq(T)
                 PROVE  HooksOf(q) = Set(q, g, t)
      OBVIOUS
    <2>1. \A i \in DOMAIN q : q[i] \in T
      OBVIOUS
    <2>2. \A i \in DOMAIN q : g[q[i]] = q[i].hook
      BY <1>2, <2>1, Zenon
    <2>3. [i \in DOMAIN q |-> q[i].hook] = Col(q, g)
      BY <2>2, Zenon DEF Col
    <2>4. {i \in DOMAIN q : q[i].hook # t} = {i \in DOMAIN q : g[q[i]] # t}
      BY <2>2, Zenon
    <2>5. QED
      BY <1>1, <2>3, <2>4, Zenon DEF Set, HooksOf
  <1>4. Append(s, x) \in Seq(T)
    OBVIOUS
  <1>5. Gains((HookType \cup {NoHook}), g, s, x, t)
    BY SetColumn
  <1>6. g[x] = x.hook
    BY <1>2, Zenon
  <1>7. QED
    BY <1>1, <1>3, <1>4, <1>5, <1>6, Zenon DEF Gains

View(s) ==
    [remoteUser |-> UserOf(s), privileged |-> PrivilegeOf(s),
     env |-> [k \in Variable |-> VariableOf(s, k)], caps |-> CapsOf(s),
     mounts |-> MountsOf(s), entrypoints |-> EntrypointsOf(s), hooks |-> HooksOf(s),
     waitFor |-> WaitOf(s)]

(* The same with one more layer.                                           *)
Under(v, x) ==
    [remoteUser  |-> IF x.remoteUser # "" THEN x.remoteUser ELSE v.remoteUser,
     privileged  |-> IF x.privileged # "nil" THEN x.privileged ELSE v.privileged,
     env         |-> Overlay(v.env, x.env),
     caps        |-> v.caps \cup ToSet(x.capAdd),
     mounts      |-> v.mounts \o x.mounts,
     entrypoints |-> IF x.entrypoint # "" THEN Append(v.entrypoints, x.entrypoint) ELSE v.entrypoints,
     hooks       |-> IF x.hook # NoHook THEN Append(v.hooks, x.hook) ELSE v.hooks,
     waitFor     |-> IF x.waitFor # "" THEN x.waitFor ELSE v.waitFor]

ViewFields(v, s) ==
    /\ v.remoteUser = UserOf(s) /\ v.privileged = PrivilegeOf(s)
    /\ v.env = [k \in Variable |-> VariableOf(s, k)] /\ v.caps = CapsOf(s)
    /\ v.mounts = MountsOf(s) /\ v.entrypoints = EntrypointsOf(s) /\ v.hooks = HooksOf(s)
    /\ v.waitFor = WaitOf(s)

LEMMA ViewParts == \A s : ViewFields(View(s), s)
  BY DEF View, ViewFields

LEMMA ViewAppend ==
    ASSUME NEW T, \A l \in T : Layered(l), NEW s \in Seq(T), NEW x \in T
    PROVE  View(Append(s, x)) = Under(View(s), x)
  <1>1. PICK q : q = Append(s, x)
    OBVIOUS
  <1>2. PICK v : v = View(s)
    OBVIOUS
  <1>3. ViewFields(v, s)
    BY <1>2, ViewParts
  <1>4. UserOf(q) = IF x.remoteUser # "" THEN x.remoteUser ELSE v.remoteUser
    BY <1>1, <1>3, UserColumn, Zenon DEF ViewFields
  <1>5. PrivilegeOf(q) = IF x.privileged # "nil" THEN x.privileged ELSE v.privileged
    BY <1>1, <1>3, PrivilegeColumn, Zenon DEF ViewFields
  <1>6. [k \in Variable |-> VariableOf(q, k)] = Overlay(v.env, x.env)
    <2>1. \A k \in Variable : VariableOf(q, k) = IF x.env[k] # "nil" THEN x.env[k] ELSE v.env[k]
      <3> SUFFICES ASSUME NEW k \in Variable
                   PROVE  VariableOf(q, k) = IF x.env[k] # "nil" THEN x.env[k] ELSE v.env[k]
        OBVIOUS
      <3>1. VariableOf(q, k) = IF x.env[k] # "nil" THEN x.env[k] ELSE VariableOf(s, k)
        BY <1>1, VariableColumn, Zenon
      <3>2. v.env[k] = VariableOf(s, k)
        BY <1>3, Zenon DEF ViewFields
      <3>3. QED
        BY <3>1, <3>2, Zenon
    <2>2. QED
      BY <2>1, Zenon DEF Overlay
  <1>7. CapsOf(q) = v.caps \cup ToSet(x.capAdd)
    <2>1. CapsOf(q) = CapsOf(s) \cup ToSet(x.capAdd)
      BY <1>1, CapsColumn
    <2>2. v.caps = CapsOf(s)
      BY <1>3, Zenon DEF ViewFields
    <2>3. QED
      BY <2>1, <2>2
  <1>8. MountsOf(q) = v.mounts \o x.mounts
    <2>1. MountsOf(q) = MountsOf(s) \o x.mounts
      BY <1>1, MountsColumn
    <2>2. v.mounts = MountsOf(s)
      BY <1>3, Zenon DEF ViewFields
    <2>3. QED
      BY <2>1, <2>2
  <1>9. EntrypointsOf(q) =
          IF x.entrypoint # "" THEN Append(v.entrypoints, x.entrypoint) ELSE v.entrypoints
    <2>1. EntrypointsOf(q) = IF x.entrypoint # "" THEN Append(EntrypointsOf(s), x.entrypoint) ELSE EntrypointsOf(s)
      BY <1>1, EntrypointsColumn, Zenon
    <2>2. v.entrypoints = EntrypointsOf(s)
      BY <1>3, Zenon DEF ViewFields
    <2>3. QED
      BY <2>1, <2>2, Zenon
  <1>10. HooksOf(q) = IF x.hook # NoHook THEN Append(v.hooks, x.hook) ELSE v.hooks
    <2>1. HooksOf(q) = IF x.hook # NoHook THEN Append(HooksOf(s), x.hook) ELSE HooksOf(s)
      BY <1>1, HooksColumn, Zenon
    <2>2. v.hooks = HooksOf(s)
      BY <1>3, Zenon DEF ViewFields
    <2>3. QED
      BY <2>1, <2>2, Zenon
  <1>11. WaitOf(q) = IF x.waitFor # "" THEN x.waitFor ELSE v.waitFor
    BY <1>1, <1>3, WaitColumn, Zenon DEF ViewFields
  <1>12. View(q) = Under(v, x)
    BY <1>4, <1>5, <1>6, <1>7, <1>8, <1>9, <1>10, <1>11, Zenon DEF View, Under
  <1>13. QED
    BY <1>1, <1>2, <1>12

WithUser(v, name) == [v EXCEPT !.remoteUser = IF name # "" THEN name ELSE @]

(* A layer with no more than a user.                                       *)
Bare(x) ==
    /\ x.privileged = "nil" /\ x.env = NoEnv /\ x.capAdd = <<>> /\ x.mounts = <<>>
    /\ x.entrypoint = "" /\ x.hook = NoHook /\ x.waitFor = ""

LEMMA UnderBare ==
    ASSUME NEW T, \A l \in T : Layered(l), NEW s \in Seq(T), NEW x \in T, Bare(x)
    PROVE  /\ Under(View(s), x) = WithUser(View(s), x.remoteUser)
           /\ x.remoteUser = "" => Under(View(s), x) = View(s)
  <1>1. PICK v : v = View(s)
    OBVIOUS
  <1>2. v = [remoteUser |-> v.remoteUser, privileged |-> v.privileged, env |-> v.env,
             caps |-> v.caps, mounts |-> v.mounts, entrypoints |-> v.entrypoints,
             hooks |-> v.hooks, waitFor |-> v.waitFor]
    BY <1>1 DEF View
  <1>3. Overlay(v.env, x.env) = v.env
    <2>1. v.env = [k \in Variable |-> v.env[k]]
      BY <1>1 DEF View
    <2>2. \A k \in Variable : x.env[k] = "nil"
      BY DEF Bare, NoEnv
    <2>3. [k \in Variable |-> IF x.env[k] # "nil" THEN x.env[k] ELSE v.env[k]]
            = [k \in Variable |-> v.env[k]]
      BY <2>2, Zenon
    <2>4. QED
      BY <2>1, <2>3, Zenon DEF Overlay
  <1>4. v.caps \cup ToSet(x.capAdd) = v.caps
    <2>1. x.capAdd = <<>>
      BY Zenon DEF Bare
    <2>2. ToSet(<<>>) = {}
      BY DEF ToSet
    <2>3. QED
      BY <2>1, <2>2
  <1>5. v.mounts \o x.mounts = v.mounts
    <2>1. v.mounts \in Seq(MountType)
      BY <1>1, MountsColumn, ViewParts DEF ViewFields
    <2>2. x.mounts = <<>>
      BY DEF Bare
    <2>3. QED
      BY <2>1, <2>2, ConcatEmptySeq
  <1>6. PICK n : n = IF x.remoteUser # "" THEN x.remoteUser ELSE v.remoteUser
    OBVIOUS
  <1>7. Under(v, x) = [remoteUser |-> n, privileged |-> v.privileged, env |-> v.env,
                       caps |-> v.caps, mounts |-> v.mounts, entrypoints |-> v.entrypoints,
                       hooks |-> v.hooks, waitFor |-> v.waitFor]
    BY <1>3, <1>4, <1>5, <1>6, Zenon DEF Under, Bare
  <1>8. [v EXCEPT !.remoteUser = n] =
          [remoteUser |-> n, privileged |-> v.privileged, env |-> v.env,
           caps |-> v.caps, mounts |-> v.mounts, entrypoints |-> v.entrypoints,
           hooks |-> v.hooks, waitFor |-> v.waitFor]
    BY <1>2
  <1>9. Under(v, x) = WithUser(v, x.remoteUser)
    BY <1>6, <1>7, <1>8, Zenon DEF WithUser
  <1>10. x.remoteUser = "" => Under(v, x) = v
    BY <1>2, <1>6, <1>7, Zenon
  <1>11. QED
    BY <1>1, <1>9, <1>10, Zenon

(* What devcontainer.json sets hides a layer that only repeats its user.   *)
LEMMA UnderOwn ==
    ASSUME NEW v, NEW w, NEW o, NEW u, o = u.remoteUser,
           v = [remoteUser |-> v.remoteUser, privileged |-> v.privileged, env |-> v.env,
                caps |-> v.caps, mounts |-> v.mounts, entrypoints |-> v.entrypoints,
                hooks |-> v.hooks, waitFor |-> v.waitFor],
           w = WithUser(v, o)
    PROVE  Under(w, u) = Under(v, u)
  <1>1. /\ w.privileged = v.privileged /\ w.env = v.env /\ w.caps = v.caps
        /\ w.mounts = v.mounts /\ w.entrypoints = v.entrypoints /\ w.hooks = v.hooks
        /\ w.waitFor = v.waitFor /\ w.remoteUser = IF o # "" THEN o ELSE v.remoteUser
    BY DEF WithUser
  <1>2. (IF u.remoteUser # "" THEN u.remoteUser ELSE w.remoteUser)
          = (IF u.remoteUser # "" THEN u.remoteUser ELSE v.remoteUser)
    BY <1>1, Zenon
  <1>3. QED
    BY <1>1, <1>2, Zenon DEF Under

(* The view of layers read at h.                                           *)
Read(x, h) == [Substituted(x, h) EXCEPT !.entrypoint = ResolveString(@, h)]
Seen(layers, h) == View(substituteLayers(layers, h))

LEMMA LayersLayered == \A l \in LayerType : Layered(l)
  BY LayerParts DEF Layered

LEMMA SeenAppend ==
    ASSUME NEW h \in Hosts, NEW layers \in Seq(LayerType), NEW x \in LayerType
    PROVE  Seen(Append(layers, x), h) = Under(Seen(layers, h), Read(x, h))
  <1>1. PICK L \in Nat : L = Len(layers) /\ DOMAIN layers = 1 .. L
    OBVIOUS
  <1>2. PICK more \in Seq(LayerType) : more = Append(layers, x)
    <2>1. Append(layers, x) \in Seq(LayerType)
      OBVIOUS
    <2>2. QED
      BY <2>1
  <1>3. DOMAIN more = 1 .. L + 1 /\ more[L + 1] = x /\ \A i \in 1 .. L : more[i] = layers[i]
    BY <1>1, <1>2
  <1>4. PICK ls \in Seq(LayerType) : ls = substituteLayers(layers, h)
    BY LayersType
  <1>5. PICK os \in Seq(LayerType) : os = substituteLayers(more, h)
    BY LayersType
  <1>6. PICK y \in LayerType : y = Read(x, h)
    BY LayerFields DEF Read
  <1>7. /\ DOMAIN ls = 1 .. L /\ DOMAIN os = 1 .. L + 1
        /\ \A i \in 1 .. L : ls[i] = Read(layers[i], h)
        /\ \A i \in 1 .. L + 1 : os[i] = Read(more[i], h)
    BY <1>1, <1>3, <1>4, <1>5, LayersType DEF Read
  <1>8. (\A i \in 1 .. L : os[i] = ls[i]) /\ os[L + 1] = y
    <2>1. ASSUME NEW i \in 1 .. L
          PROVE  os[i] = ls[i]
      <3>1. i \in 1 .. L + 1 /\ more[i] = layers[i]
        BY <1>3
      <3>2. QED
        BY <1>7, <3>1
    <2>2. L + 1 \in 1 .. L + 1
      OBVIOUS
    <2>3. os[L + 1] = y
      BY <1>3, <1>6, <1>7, <2>2, Zenon
    <2>4. QED
      BY <2>1, <2>3
  <1>9. os = Append(ls, y)
    <2>1. Len(ls) = L /\ Len(os) = L + 1
      BY <1>7
    <2>2. QED
      BY <1>8, <2>1, IsAppend
  <1>10. View(os) = Under(View(ls), y)
    BY <1>9, LayersLayered, ViewAppend
  <1>11. QED
    BY <1>2, <1>4, <1>5, <1>6, <1>10, Zenon DEF Seen

LEMMA ReadBare ==
    ASSUME NEW h \in Hosts, NEW x \in LayerType, Bare(x)
    PROVE  /\ Read(x, h) \in LayerType /\ Bare(Read(x, h))
           /\ Read(x, h).remoteUser = ResolveString(x.remoteUser, h)
  <1>1. PICK y : y = Read(x, h)
    OBVIOUS
  <1>2. /\ y \in LayerType /\ y.remoteUser = ResolveString(x.remoteUser, h)
        /\ y.privileged = x.privileged /\ y.env = SubEnv(x.env, h)
        /\ y.capAdd = SubList(x.capAdd, h) /\ y.mounts = SubMounts(x.mounts, h)
        /\ y.hook = SubHook(x.hook, h) /\ y.waitFor = x.waitFor
        /\ y.entrypoint = ResolveString(x.entrypoint, h)
    BY <1>1, LayerFields DEF Read
  <1>3. SubHook(x.hook, h) = NoHook
    <2>1. x.hook = NoHook /\ x.hook \in HookType \cup {NoHook}
      BY DEF Bare
    <2>2. QED
      BY <2>1, SubstitutedParts
  <1>4. Bare(y)
    BY <1>2, <1>3, SubstitutedBlanks, Zenon DEF Bare
  <1>5. QED
    BY <1>1, <1>2, <1>4, Zenon

LEMMA SeenBare ==
    ASSUME NEW h \in Hosts, NEW layers \in Seq(LayerType), NEW x \in LayerType, Bare(x)
    PROVE  /\ Seen(Append(layers, x), h)
                = WithUser(Seen(layers, h), ResolveString(x.remoteUser, h))
           /\ x.remoteUser = "" => Seen(Append(layers, x), h) = Seen(layers, h)
  <1>1. PICK ls \in Seq(LayerType) : ls = substituteLayers(layers, h)
    BY LayersType
  <1>2. PICK y \in LayerType : y = Read(x, h) /\ Bare(y)
                               /\ y.remoteUser = ResolveString(x.remoteUser, h)
    BY ReadBare
  <1>3. Seen(Append(layers, x), h) = Under(View(ls), y) /\ Seen(layers, h) = View(ls)
    BY <1>1, <1>2, SeenAppend DEF Seen
  <1>4. /\ Under(View(ls), y) = WithUser(View(ls), y.remoteUser)
        /\ y.remoteUser = "" => Under(View(ls), y) = View(ls)
    BY <1>2, LayersLayered, UnderBare
  <1>5. x.remoteUser = "" => y.remoteUser = ""
    BY <1>2, SubstitutedBlanks, Zenon
  <1>6. QED
    BY <1>2, <1>3, <1>4, <1>5, Zenon

Idle == {l \in LayerType : Bare(l) /\ l.remoteUser = ""}

LEMMA SeenExtras ==
    ASSUME NEW h \in Hosts, NEW layers \in Seq(LayerType), NEW extras \in Seq(Idle)
    PROVE  layers \o extras \in Seq(LayerType) /\ Seen(layers \o extras, h) = Seen(layers, h)
  <1> DEFINE S == {e \in Seq(Idle) : /\ layers \o e \in Seq(LayerType)
                                     /\ Seen(layers \o e, h) = Seen(layers, h)}
  <1>1. <<>> \in S
    <2>1. layers \o <<>> = layers /\ <<>> \in Seq(Idle)
      BY ConcatEmptySeq, EmptySeq
    <2>2. QED
      BY <2>1, Zenon
  <1>2. ASSUME NEW e \in Seq(Idle), NEW x \in Idle, e \in S
        PROVE  Append(e, x) \in S
    <2>1. x \in LayerType /\ Bare(x) /\ x.remoteUser = ""
      BY Zenon DEF Idle
    <2>2. PICK s \in Seq(LayerType) : s = layers \o e
      BY <1>2
    <2>3. Seen(s, h) = Seen(layers, h)
      BY <1>2, <2>2
    <2>4. layers \o Append(e, x) = Append(s, x)
      <3>1. layers \o Append(e, x) = Append(layers \o e, x)
        <4>1. Idle \subseteq LayerType
          BY Zenon DEF Idle
        <4>2. e \in Seq(LayerType)
          <5>1. PICK n \in Nat : n = Len(e) /\ DOMAIN e = 1 .. n /\ e = [i \in 1 .. n |-> e[i]]
            BY SMTT(30)
          <5>2. \A i \in 1 .. n : e[i] \in LayerType
            BY <4>1, <5>1
          <5>3. QED
            BY <5>1, <5>2, Elementwise
        <4>3. x \in LayerType
          BY <2>1, Zenon
        <4>4. QED
          BY <4>2, <4>3
      <3>2. QED
        BY <2>2, <3>1
    <2>5. Append(s, x) \in Seq(LayerType)
      BY <2>1, AppendProperties
    <2>6. Seen(Append(s, x), h) = Seen(s, h)
      BY <2>1, SeenBare
    <2>7. Append(e, x) \in Seq(Idle)
      OBVIOUS
    <2>8. QED
      BY <2>3, <2>4, <2>5, <2>6, <2>7, Zenon
  <1> HIDE DEF S
  <1>3. Seq(Idle) \subseteq S
    BY <1>1, <1>2, OverSequences
  <1>4. QED
    BY <1>3 DEF S

(* The layer a build adds for devcontainer.json says nothing more.         *)
LEMMA SeenOwn ==
    ASSUME NEW h \in Hosts, NEW layers \in Seq(LayerType), NEW name \in Text, NEW u,
           u.remoteUser = ResolveString(name, h)
    PROVE  Under(Seen(Append(layers, Own(name)), h), u) = Under(Seen(layers, h), u)
  <1>1. PICK x \in LayerType : x = Own(name) /\ Bare(x) /\ x.remoteUser = name
    <2>1. Own(name) \in LayerType
      BY OwnLayer, EntryTypes, Zenon
    <2>2. Bare(Own(name)) /\ Own(name).remoteUser = name
      BY OwnLayer, Zenon DEF Bare
    <2>3. QED
      BY <2>1, <2>2, Zenon
  <1>2. PICK v : v = Seen(layers, h)
    OBVIOUS
  <1>3. PICK w : w = Seen(Append(layers, Own(name)), h)
    OBVIOUS
  <1>4. PICK o : o = ResolveString(name, h)
    OBVIOUS
  <1>5. w = WithUser(v, o)
    BY <1>1, <1>2, <1>3, <1>4, SeenBare, Zenon
  <1>6. v = [remoteUser |-> v.remoteUser, privileged |-> v.privileged, env |-> v.env,
             caps |-> v.caps, mounts |-> v.mounts, entrypoints |-> v.entrypoints,
             hooks |-> v.hooks, waitFor |-> v.waitFor]
    BY <1>2 DEF Seen, View
  <1>7. o = u.remoteUser
    BY <1>4
  <1>8. Under(w, u) = Under(v, u)
    BY <1>5, <1>6, <1>7, UnderOwn
  <1>9. QED
    BY <1>2, <1>3, <1>8

LEMMA ResolvedTwice ==
    ASSUME NEW h \in Hosts, NEW s
    PROVE  ResolveString(ResolveString(s, h), h) = ResolveString(s, h)
  BY ConfigAssumption DEF ResolveString

LEMMA SeenNothing ==
    ASSUME NEW h
    PROVE  LET v == Seen(<<>>, h)
           IN  /\ v.remoteUser = "" /\ v.privileged = "nil" /\ v.env = NoEnv /\ v.caps = {}
               /\ v.mounts = <<>> /\ v.entrypoints = <<>> /\ v.hooks = <<>> /\ v.waitFor = ""
  <1>1. substituteLayers(<<>>, h) = <<>>
    BY DEF substituteLayers
  <1>2. PICK e : e = <<>>
    OBVIOUS
  <1>3. DOMAIN e = {}
    BY <1>2
  <1>4. \A i : i \notin DOMAIN e
    BY <1>3
  <1>5. /\ UserOf(e) = "" /\ PrivilegeOf(e) = "nil" /\ WaitOf(e) = ""
        /\ \A k : VariableOf(e, k) = "nil"
    BY <1>4, Zenon DEF UserOf, PrivilegeOf, WaitOf, VariableOf, LastSet
  <1>6. CapsOf(e) = {}
    BY <1>4, Zenon DEF CapsOf
  <1>7. MountsOf(e) = <<>>
    <2>1. PICK c \in Seq(Seq(MountType)) : c = [i \in DOMAIN e |-> e[i].mounts] /\ Len(c) = 0
      <3>1. [i \in DOMAIN e |-> e[i].mounts] = <<>>
        BY <1>3
      <3>2. <<>> \in Seq(Seq(MountType)) /\ Len(<<>>) = 0
        BY EmptySeq
      <3>3. QED
        BY <3>1, <3>2, Zenon
    <2>2. PICK f : f[0] = <<>> /\ FlattenSeq(c) = f[Len(c)]
      BY FlattenUnfolds, Zenon
    <2>3. QED
      BY <2>1, <2>2, Zenon DEF MountsOf
  <1>8. EntrypointsOf(e) = <<>> /\ HooksOf(e) = <<>>
    <2>1. \A S : Kept(<<>>, S) = <<>>
      <3> SUFFICES ASSUME NEW S
                   PROVE  Kept(<<>>, S) = <<>>
        OBVIOUS
      <3>1. <<>> \in Seq(Text) /\ Len(<<>>) = 0
        OBVIOUS
      <3>2. PICK f : Keeps(f, Text, <<>>, S)
        BY <3>1, KeptUnfolds
      <3>3. QED
        BY <3>1, <3>2, Zenon DEF Keeps
    <2>2. [i \in DOMAIN e |-> e[i].entrypoint] = <<>> /\ [i \in DOMAIN e |-> e[i].hook] = <<>>
      BY <1>3
    <2>3. QED
      BY <2>1, <2>2, Zenon DEF EntrypointsOf, HooksOf
  <1>9. [k \in Variable |-> VariableOf(e, k)] = NoEnv
    BY <1>5, Zenon DEF NoEnv
  <1>10. PICK v : v = Seen(<<>>, h)
    OBVIOUS
  <1>11. ViewFields(v, e)
    BY <1>1, <1>2, <1>10, ViewParts DEF Seen
  <1>12. /\ v.remoteUser = "" /\ v.privileged = "nil" /\ v.env = NoEnv /\ v.caps = {}
         /\ v.mounts = <<>> /\ v.entrypoints = <<>> /\ v.hooks = <<>> /\ v.waitFor = ""
    BY <1>5, <1>6, <1>7, <1>8, <1>9, <1>11, Zenon DEF ViewFields
  <1>13. QED
    BY <1>10, <1>12, Zenon

(* A configuration that is what v says.                                    *)
LastMounts(ms) ==
    {ms[i] : i \in {i \in DOMAIN ms :
       ms[i].target # "" => \A j \in DOMAIN ms : j > i => ms[j].target # ms[i].target}}

Defined(c, some, v) ==
    /\ c.remoteUser = v.remoteUser /\ c.privileged = v.privileged
    /\ \A k \in Variable : c.env[k] = v.env[k]
    /\ some => IsInjective(c.capAdd)
    /\ ToSet(c.capAdd) = v.caps
    /\ some => ToSet(c.mounts) = LastMounts(v.mounts)
    /\ c.entrypoints = v.entrypoints /\ c.hooks = v.hooks
    /\ c.waitFor = IF v.waitFor # "" THEN v.waitFor
                   ELSE IF c.hooks = <<>> THEN "postCreate" ELSE "updateContent"

(* devcontainer.json as the last layer, and as the configuration it makes. *)
FromUser(c, u) ==
    /\ c.remoteUser = u.remoteUser /\ c.privileged = u.privileged /\ c.env = u.env
    /\ c.capAdd = u.capAdd /\ c.mounts = u.mounts /\ c.entrypoints = <<>>
    /\ c.hooks = (IF u.hook = NoHook THEN <<>> ELSE <<u.hook>>) /\ c.waitFor = u.waitFor
    /\ u.entrypoint = ""

LEMMA UserLayer ==
    ASSUME NEW h \in Hosts, NEW r \in UserType
    PROVE  /\ Layered(Substituted(r, h))
           /\ FromUser(resolveFromRaw(r, h), Substituted(r, h))
           /\ \A c : (/\ c.remoteUser = resolveFromRaw(r, h).remoteUser
                      /\ c.privileged = resolveFromRaw(r, h).privileged
                      /\ c.env = resolveFromRaw(r, h).env /\ c.capAdd = resolveFromRaw(r, h).capAdd
                      /\ c.mounts = resolveFromRaw(r, h).mounts
                      /\ c.entrypoints = resolveFromRaw(r, h).entrypoints
                      /\ c.hooks = resolveFromRaw(r, h).hooks
                      /\ c.waitFor = resolveFromRaw(r, h).waitFor)
                     => FromUser(c, Substituted(r, h))
  <1>1. PICK u : u = Substituted(r, h)
    OBVIOUS
  <1>2. /\ u.remoteUser = ResolveString(r.remoteUser, h) /\ u.privileged = r.privileged
        /\ u.env = SubEnv(r.env, h) /\ u.capAdd = SubList(r.capAdd, h)
        /\ u.mounts = SubMounts(r.mounts, h) /\ u.hook = SubHook(r.hook, h)
        /\ u.waitFor = r.waitFor /\ u.entrypoint = r.entrypoint
    BY <1>1, SubstitutedFields
  <1>3. /\ r.remoteUser \in Text /\ r.privileged \in Switch /\ r.env \in Env
        /\ r.capAdd \in Seq(Text) /\ r.mounts \in Seq(MountType)
        /\ r.hook \in HookType \cup {NoHook} /\ r.waitFor \in Phase /\ r.entrypoint \in {""}
    BY DEF UserType
  <1>4. /\ u.remoteUser \in Text /\ u.env \in Env /\ u.capAdd \in Seq(Text)
        /\ u.mounts \in Seq(MountType) /\ u.hook \in HookType \cup {NoHook}
        /\ u.hook = NoHook <=> r.hook = NoHook
    BY <1>2, <1>3, SubstitutedParts, ResolvedText, Zenon
  <1>5. u.entrypoint = "" /\ "" \in Text
    BY <1>2, <1>3, ConfigAssumption
  <1>6. Layered(u)
    BY <1>2, <1>3, <1>4, <1>5, Zenon DEF Layered
  <1>7. PICK c : c = resolveFromRaw(r, h)
    OBVIOUS
  <1>8. /\ c.remoteUser = ResolveString(r.remoteUser, h) /\ c.privileged = r.privileged
        /\ c.env = SubEnv(r.env, h) /\ c.capAdd = SubList(r.capAdd, h)
        /\ c.mounts = SubMounts(r.mounts, h) /\ c.entrypoints = <<>>
        /\ c.hooks = (IF r.hook = NoHook THEN <<>> ELSE <<SubHook(r.hook, h)>>)
        /\ c.waitFor = r.waitFor
    BY <1>7, ResolveFields
  <1>9. FromUser(c, u)
    BY <1>2, <1>4, <1>5, <1>8, Zenon DEF FromUser
  <1>10. QED
    BY <1>1, <1>6, <1>7, <1>9, Zenon DEF FromUser

LEMMA DefinedBy ==
    ASSUME ConfigInv, NEW layers \in Seq(LayerType), NEW c,
           Defined(c, layers # <<>>, Under(Seen(layers, host), Substituted(user, host)))
    PROVE  IsDefinedBy(c, layers)
  <1>1. PICK u : u = Substituted(user, host) /\ Layered(u)
    BY UserLayer, InputTypes DEF ConfigInv
  <1>2. PICK ls \in Seq(LayerType) : ls = substituteLayers(layers, host)
    BY LayersType DEF ConfigInv
  <1>3. PICK T : T = LayerType \cup {u}
    OBVIOUS
  <1>4. (\A l \in T : Layered(l)) /\ u \in T /\ ls \in Seq(T)
    <2>1. \A l \in T : Layered(l)
      BY <1>1, <1>3, LayersLayered, Zenon
    <2>2. u \in T
      BY <1>3
    <2>3. ls \in Seq(T)
      <3>1. PICK n \in Nat : n = Len(ls) /\ DOMAIN ls = 1 .. n /\ ls = [i \in 1 .. n |-> ls[i]]
        BY SMTT(30)
      <3>2. \A i \in 1 .. n : ls[i] \in T
        BY <1>3, <3>1
      <3>3. QED
        BY <3>1, <3>2, Elementwise
    <2>4. QED
      BY <2>1, <2>2, <2>3
  <1> DEFINE all == substituteLayers(layers, host) \o <<Substituted(user, host)>>
  <1>5. all = substituteLayers(layers, host) \o <<Substituted(user, host)>>
    OBVIOUS
  <1> HIDE DEF all
  <1>6. all = Append(ls, u)
    BY <1>1, <1>2, <1>4, <1>5
  <1>7. PICK v : v = Under(Seen(layers, host), Substituted(user, host))
    OBVIOUS
  <1>8. v = View(all)
    <2>1. View(Append(ls, u)) = Under(View(ls), u)
      BY <1>4, ViewAppend
    <2>2. QED
      BY <1>1, <1>2, <1>6, <1>7, <2>1, Zenon DEF Seen
  <1>9. ViewFields(v, all)
    BY <1>8, ViewParts
  <1>10. PICK some \in BOOLEAN : some = (layers # <<>>)
    OBVIOUS
  <1>11. Defined(c, some, v)
    BY <1>7, <1>10
  <1>12. /\ c.remoteUser = LastSet([i \in DOMAIN all |-> all[i].remoteUser], "")
         /\ c.privileged = LastSet([i \in DOMAIN all |-> all[i].privileged], "nil")
    BY <1>9, <1>11, Zenon DEF Defined, ViewFields, UserOf, PrivilegeOf
  <1>13. \A k \in Variable :
           c.env[k] = LastSet([i \in DOMAIN all |-> all[i].env[k]], "nil")
    <2>1. \A k \in Variable : c.env[k] = v.env[k]
      BY <1>11, Zenon DEF Defined
    <2>2. \A k \in Variable : v.env[k] = VariableOf(all, k)
      BY <1>9, Zenon DEF ViewFields
    <2>3. QED
      BY <2>1, <2>2, Zenon DEF VariableOf
  <1>14. /\ layers # <<>> => IsInjective(c.capAdd)
         /\ ToSet(c.capAdd) = UNION {ToSet(all[i].capAdd) : i \in DOMAIN all}
    BY <1>9, <1>10, <1>11, Zenon DEF Defined, ViewFields, CapsOf
  <1> DEFINE mounts == FlattenSeq([i \in DOMAIN all |-> all[i].mounts])
  <1>15. mounts = FlattenSeq([i \in DOMAIN all |-> all[i].mounts])
    OBVIOUS
  <1> HIDE DEF mounts
  <1>16. layers # <<>> =>
           ToSet(c.mounts) =
             {mounts[i] : i \in {i \in DOMAIN mounts :
                mounts[i].target # "" =>
                  \A j \in DOMAIN mounts : j > i => mounts[j].target # mounts[i].target}}
    <2>1. v.mounts = mounts
      BY <1>9, <1>15, Zenon DEF ViewFields, MountsOf
    <2>2. layers # <<>> => ToSet(c.mounts) = LastMounts(mounts)
      BY <1>10, <1>11, <2>1, Zenon DEF Defined
    <2>3. QED
      BY <2>2, Zenon DEF LastMounts
  <1> DEFINE entrypoints == [i \in DOMAIN all |-> all[i].entrypoint]
  <1>17. entrypoints = [i \in DOMAIN all |-> all[i].entrypoint]
    OBVIOUS
  <1> HIDE DEF entrypoints
  <1>18. c.entrypoints = Kept(entrypoints, {i \in DOMAIN all : entrypoints[i] # ""})
    <2>1. {i \in DOMAIN all : entrypoints[i] # ""} = {i \in DOMAIN all : all[i].entrypoint # ""}
      BY <1>17, Zenon
    <2>2. c.entrypoints = EntrypointsOf(all)
      BY <1>9, <1>11, Zenon DEF Defined, ViewFields
    <2>3. QED
      BY <1>17, <2>1, <2>2, Zenon DEF EntrypointsOf
  <1> DEFINE hooks == [i \in DOMAIN all |-> all[i].hook]
  <1>19. hooks = [i \in DOMAIN all |-> all[i].hook]
    OBVIOUS
  <1> HIDE DEF hooks
  <1>20. c.hooks = Kept(hooks, {i \in DOMAIN all : hooks[i] # NoHook})
    <2>1. {i \in DOMAIN all : hooks[i] # NoHook} = {i \in DOMAIN all : all[i].hook # NoHook}
      BY <1>19, Zenon
    <2>2. c.hooks = HooksOf(all)
      BY <1>9, <1>11, Zenon DEF Defined, ViewFields
    <2>3. QED
      BY <1>19, <2>1, <2>2, Zenon DEF HooksOf
  <1>21. c.waitFor = LET w == LastSet([i \in DOMAIN all |-> all[i].waitFor], "") IN
                     IF w # "" THEN w
                     ELSE IF c.hooks = <<>> THEN "postCreate" ELSE "updateContent"
    BY <1>9, <1>11, Zenon DEF Defined, ViewFields, WaitOf
  <1>22. QED
    BY <1>5, <1>12, <1>13, <1>14, <1>15, <1>16, <1>17, <1>18, <1>19, <1>20, <1>21, Zenon
       DEF IsDefinedBy, all, mounts, entrypoints, hooks

(* The merge computes the view of the layers with devcontainer.json last.  *)
LEMMA MergeDefined ==
    ASSUME NEW h \in Hosts, NEW c \in ResolvedType, NEW u, Layered(u), FromUser(c, u),
           NEW layers \in Seq(LayerType)
    PROVE  Defined(Finalize(MergeMetadata(c, h, layers)), layers # <<>>, Under(Seen(layers, h), u))
  <1>1. PICK m \in ResolvedType : m = MergeMetadata(c, h, layers)
    BY MergeType
  <1>2. PICK s : s = Seen(layers, h)
    OBVIOUS
  <1>3. PICK v : v = Under(s, u)
    OBVIOUS
  <1>4. /\ v.remoteUser = (IF u.remoteUser # "" THEN u.remoteUser ELSE s.remoteUser)
        /\ v.privileged = (IF u.privileged # "nil" THEN u.privileged ELSE s.privileged)
        /\ v.env = Overlay(s.env, u.env) /\ v.caps = s.caps \cup ToSet(u.capAdd)
        /\ v.mounts = s.mounts \o u.mounts
        /\ v.entrypoints = (IF u.entrypoint # "" THEN Append(s.entrypoints, u.entrypoint) ELSE s.entrypoints)
        /\ v.hooks = (IF u.hook # NoHook THEN Append(s.hooks, u.hook) ELSE s.hooks)
        /\ v.waitFor = (IF u.waitFor # "" THEN u.waitFor ELSE s.waitFor)
    BY <1>3 DEF Under
  <1>5. v.entrypoints = s.entrypoints
    BY <1>4, Zenon DEF FromUser
  <1>6. PICK some \in BOOLEAN : some = (layers # <<>>)
    OBVIOUS
  <1>7. /\ m.remoteUser = v.remoteUser /\ m.privileged = v.privileged
        /\ \A k \in Variable : m.env[k] = v.env[k]
        /\ some => IsInjective(m.capAdd)
        /\ ToSet(m.capAdd) = v.caps
        /\ some => ToSet(m.mounts) = LastMounts(v.mounts)
        /\ m.entrypoints = v.entrypoints /\ m.hooks = v.hooks /\ m.waitFor = v.waitFor
    <2>1. CASE layers = <<>>
      <3>1. m = c
        BY <1>1, <2>1, MergeFields
      <3>2. /\ s.remoteUser = "" /\ s.privileged = "nil" /\ s.env = NoEnv /\ s.caps = {}
            /\ s.mounts = <<>> /\ s.entrypoints = <<>> /\ s.hooks = <<>> /\ s.waitFor = ""
        BY <1>2, <2>1, SeenNothing, Zenon
      <3>3. /\ c.remoteUser = u.remoteUser /\ c.privileged = u.privileged /\ c.env = u.env
            /\ c.capAdd = u.capAdd /\ c.entrypoints = <<>>
            /\ c.hooks = (IF u.hook = NoHook THEN <<>> ELSE <<u.hook>>) /\ c.waitFor = u.waitFor
        BY Zenon DEF FromUser
      <3>4. ~some
        BY <1>6, <2>1
      <3>5. m.remoteUser = v.remoteUser
        BY <1>4, <3>1, <3>2, <3>3, Zenon
      <3>6. m.privileged = v.privileged
        BY <1>4, <3>1, <3>2, <3>3, Zenon
      <3>7. m.waitFor = v.waitFor
        BY <1>4, <3>1, <3>2, <3>3, Zenon
      <3>8. m.entrypoints = v.entrypoints
        BY <1>5, <3>1, <3>2, <3>3, Zenon
      <3>9. ToSet(m.capAdd) = v.caps
        <4>1. v.caps = {} \cup ToSet(u.capAdd) /\ m.capAdd = u.capAdd
          BY <1>4, <3>1, <3>2, <3>3, Zenon
        <4>2. QED
          BY <4>1
      <3>10. m.hooks = v.hooks
        <4>1. Append(<<>>, u.hook) = <<u.hook>>
          OBVIOUS
        <4>2. QED
          BY <1>4, <3>1, <3>2, <3>3, <4>1, Zenon
      <3>11. \A k \in Variable : m.env[k] = v.env[k]
        <4> SUFFICES ASSUME NEW k \in Variable
                     PROVE  m.env[k] = v.env[k]
          OBVIOUS
        <4>1. v.env[k] = IF u.env[k] # "nil" THEN u.env[k] ELSE NoEnv[k]
          BY <1>4, <3>2, Zenon DEF Overlay
        <4>2. NoEnv[k] = "nil"
          BY Zenon DEF NoEnv
        <4>3. m.env[k] = u.env[k]
          BY <3>1, <3>3, Zenon
        <4>4. QED
          BY <4>1, <4>2, <4>3, Zenon
      <3>12. QED
        BY <3>4, <3>5, <3>6, <3>7, <3>8, <3>9, <3>10, <3>11, Zenon
    <2>2. CASE layers # <<>>
      <3>1. PICK ls \in Seq(LayerType) : ls = substituteLayers(layers, h)
        BY LayersType
      <3>2. MergedFields(m, c, ls)
        BY <1>1, <2>2, <3>1, MergeFields
      <3>3. ViewFields(s, ls)
        BY <1>2, <3>1, ViewParts DEF Seen
      <3>4. m.remoteUser = v.remoteUser
        <4>1. PICK p \in Seq(Text) : p = [i \in DOMAIN ls |-> ls[i].remoteUser]
          BY Columns
        <4>2. PICK t \in Text : t = ""
          BY ConfigAssumption
        <4>3. PICK o \in Text : o = c.remoteUser
          BY DEF ResolvedType
        <4>4. pick(o, p, t) = (IF o # t THEN o ELSE LastSet(p, t))
          BY PickLast
        <4>5. m.remoteUser = pick(o, p, t)
          BY <3>2, <4>1, <4>2, <4>3, Zenon DEF MergedFields
        <4>6. s.remoteUser = LastSet(p, t)
          BY <3>3, <4>1, <4>2, Zenon DEF ViewFields, UserOf
        <4>7. o = u.remoteUser
          BY <4>3, Zenon DEF FromUser
        <4>8. QED
          BY <1>4, <4>2, <4>4, <4>5, <4>6, <4>7, Zenon
      <3>5. m.privileged = v.privileged
        <4>1. PICK p \in Seq(Switch) : p = [i \in DOMAIN ls |-> ls[i].privileged]
          BY Columns
        <4>2. PICK t \in Switch : t = "nil"
          BY DEF Switch
        <4>3. PICK o \in Switch : o = c.privileged
          BY DEF ResolvedType
        <4>4. pick(o, p, t) = (IF o # t THEN o ELSE LastSet(p, t))
          BY PickLast
        <4>5. m.privileged = pick(o, p, t)
          BY <3>2, <4>1, <4>2, <4>3, Zenon DEF MergedFields
        <4>6. s.privileged = LastSet(p, t)
          BY <3>3, <4>1, <4>2, Zenon DEF ViewFields, PrivilegeOf
        <4>7. o = u.privileged
          BY <4>3, Zenon DEF FromUser
        <4>8. QED
          BY <1>4, <4>2, <4>4, <4>5, <4>6, <4>7, Zenon
      <3>6. m.waitFor = v.waitFor
        <4>1. PICK p \in Seq(Phase) : p = [i \in DOMAIN ls |-> ls[i].waitFor]
          BY Columns
        <4>2. PICK t \in Phase : t = ""
          BY DEF Phase
        <4>3. PICK o \in Phase : o = c.waitFor
          BY DEF ResolvedType
        <4>4. pick(o, p, t) = (IF o # t THEN o ELSE LastSet(p, t))
          BY PickLast
        <4>5. m.waitFor = pick(o, p, t)
          BY <3>2, <4>1, <4>2, <4>3, Zenon DEF MergedFields
        <4>6. s.waitFor = LastSet(p, t)
          BY <3>3, <4>1, <4>2, Zenon DEF ViewFields, WaitOf
        <4>7. o = u.waitFor
          BY <4>3, Zenon DEF FromUser
        <4>8. QED
          BY <1>4, <4>2, <4>4, <4>5, <4>6, <4>7, Zenon
      <3>7. \A k \in Variable : m.env[k] = v.env[k]
        <4>1. PICK p \in Seq(Env) : p = [i \in DOMAIN ls |-> ls[i].env]
          BY Columns
        <4>2. PICK o \in Env : o = c.env
          BY DEF ResolvedType
        <4>3. m.env = mergeStringMaps(p, o) /\ o = u.env
          BY <3>2, <4>1, <4>2, Zenon DEF MergedFields, FromUser
        <4>4. \A k \in Variable : [i \in DOMAIN p |-> p[i][k]] = [i \in DOMAIN ls |-> ls[i].env[k]]
          BY <4>1
        <4> SUFFICES ASSUME NEW k \in Variable
                     PROVE  m.env[k] = v.env[k]
          OBVIOUS
        <4>5. mergeStringMaps(p, o)[k] =
                IF o[k] # "nil" THEN o[k] ELSE LastSet([i \in DOMAIN p |-> p[i][k]], "nil")
          BY MapsLast, Zenon
        <4>6. s.env[k] = LastSet([i \in DOMAIN p |-> p[i][k]], "nil")
          <5>1. s.env[k] = VariableOf(ls, k)
            BY <3>3, Zenon DEF ViewFields
          <5>2. QED
            BY <4>4, <5>1, Zenon DEF VariableOf
        <4>7. v.env[k] = IF u.env[k] # "nil" THEN u.env[k] ELSE s.env[k]
          BY <1>4, Zenon DEF Overlay
        <4>8. QED
          BY <4>3, <4>5, <4>6, <4>7, Zenon
      <3>8. IsInjective(m.capAdd) /\ ToSet(m.capAdd) = v.caps
        <4>1. PICK p \in Seq(Seq(Text)) : p = [i \in DOMAIN ls |-> ls[i].capAdd]
          BY Columns
        <4>2. PICK o \in Seq(Text) : o = c.capAdd
          BY DEF ResolvedType
        <4>3. PICK f \in Seq(Text) : f = FlattenSeq(p)
          BY FlattenType
        <4>4. m.capAdd = unionDedup(f \o o) /\ o = u.capAdd
          BY <3>2, <4>1, <4>2, <4>3, Zenon DEF MergedFields, FromUser
        <4>5. f \o o \in Seq(Text)
          BY ConcatProperties
        <4>6. IsInjective(m.capAdd) /\ Range(m.capAdd) = Range(f \o o)
          BY <4>4, <4>5, UnionMembers, Zenon
        <4>7. Range(f \o o) = Range(f) \cup Range(o)
          BY RangeConcat
        <4>8. Range(f) = UNION {Range(p[i]) : i \in DOMAIN p}
          BY <4>3, FlattenRange
        <4>9. \A q : ToSet(q) = Range(q)
          BY DEF ToSet, Range
        <4>10. UNION {Range(p[i]) : i \in DOMAIN p} = CapsOf(ls)
          <5>1. DOMAIN p = DOMAIN ls /\ \A i \in DOMAIN ls : p[i] = ls[i].capAdd
            BY <4>1
          <5>2. \A i \in DOMAIN ls : Range(p[i]) = ToSet(ls[i].capAdd)
            BY <4>9, <5>1, Zenon
          <5>3. {Range(p[i]) : i \in DOMAIN ls} = {ToSet(ls[i].capAdd) : i \in DOMAIN ls}
            BY <5>2, Zenon
          <5>4. QED
            BY <5>1, <5>3, Zenon DEF CapsOf
        <4>11. s.caps = CapsOf(ls)
          BY <3>3, Zenon DEF ViewFields
        <4>12. v.caps = s.caps \cup ToSet(u.capAdd)
          BY <1>4
        <4>13. QED
          BY <4>4, <4>6, <4>7, <4>8, <4>9, <4>10, <4>11, <4>12, Zenon
      <3>9. ToSet(m.mounts) = LastMounts(v.mounts)
        <4>1. PICK p \in Seq(Seq(MountType)) : p = [i \in DOMAIN ls |-> ls[i].mounts]
          BY Columns
        <4>2. PICK o \in Seq(MountType) : o = c.mounts
          BY DEF ResolvedType
        <4>3. PICK f \in Seq(MountType) : f = FlattenSeq(p)
          BY FlattenType
        <4>4. m.mounts = dedupMountsByTarget(f \o o) /\ o = u.mounts
          BY <3>2, <4>1, <4>2, <4>3, Zenon DEF MergedFields, FromUser
        <4>5. PICK a \in Seq(MountType) : a = f \o o
          BY ConcatProperties
        <4>6. Range(dedupMountsByTarget(a)) = LastMounts(a)
          BY DedupMembers DEF LastMounts
        <4>7. ToSet(m.mounts) = Range(m.mounts)
          BY DEF ToSet, Range
        <4>8. s.mounts = f
          BY <3>3, <4>1, <4>3, Zenon DEF ViewFields, MountsOf
        <4>9. v.mounts = a
          BY <1>4, <4>4, <4>5, <4>8, Zenon
        <4>10. QED
          BY <4>4, <4>5, <4>6, <4>7, <4>9, Zenon
      <3>10. m.entrypoints = v.entrypoints
        <4>1. m.entrypoints = EntrypointsOf(ls)
          BY <3>2, Zenon DEF MergedFields, EntrypointsOf
        <4>2. s.entrypoints = EntrypointsOf(ls)
          BY <3>3, Zenon DEF ViewFields
        <4>3. QED
          BY <1>5, <4>1, <4>2, Zenon
      <3>11. m.hooks = v.hooks
        <4>1. PICK p \in Seq(HookType \cup {NoHook}) : p = [i \in DOMAIN ls |-> ls[i].hook]
          BY Columns
        <4>2. {i \in DOMAIN p : p[i] # NoHook} = {i \in DOMAIN ls : ls[i].hook # NoHook}
          <5>1. DOMAIN p = DOMAIN ls /\ \A i \in DOMAIN ls : p[i] = ls[i].hook
            BY <4>1
          <5>2. QED
            BY <5>1, Zenon
        <4>3. PICK g \in Seq(HookType \cup {NoHook}) : g = HooksOf(ls)
          <5>1. HooksOf(ls) \in Seq(HookType \cup {NoHook})
            BY <4>1, KeptMembers, Zenon DEF HooksOf
          <5>2. QED
            BY <5>1
        <4>4. m.hooks = g \o c.hooks
          BY <3>2, <4>1, <4>2, <4>3, Zenon DEF MergedFields, prependHooks, HooksOf
        <4>5. s.hooks = g
          BY <3>3, <4>3, Zenon DEF ViewFields
        <4>6. c.hooks = (IF u.hook = NoHook THEN <<>> ELSE <<u.hook>>)
          BY Zenon DEF FromUser
        <4>7. PICK x \in HookType \cup {NoHook} : x = u.hook
          BY Zenon DEF Layered
        <4>8. g \o <<>> = g
          BY ConcatEmptySeq
        <4>9. g \o <<x>> = Append(g, x)
          OBVIOUS
        <4>10. QED
          BY <1>4, <4>4, <4>5, <4>6, <4>7, <4>8, <4>9, Zenon
      <3>12. QED
        BY <3>4, <3>5, <3>6, <3>7, <3>8, <3>9, <3>10, <3>11, Zenon
    <2>3. QED
      BY <2>1, <2>2
  <1>8. PICK d : d = Finalize(m)
    OBVIOUS
  <1>9. /\ d.remoteUser = m.remoteUser /\ d.privileged = m.privileged /\ d.env = m.env
        /\ d.capAdd = m.capAdd /\ d.mounts = m.mounts /\ d.entrypoints = m.entrypoints
        /\ d.hooks = m.hooks
        /\ d.waitFor = IF m.waitFor # "" THEN m.waitFor
                       ELSE IF m.hooks # <<>> THEN "updateContent" ELSE "postCreate"
    BY <1>8, FinalFields
  <1>10. Defined(d, some, v)
    <2>1. d.waitFor = IF v.waitFor # "" THEN v.waitFor
                      ELSE IF d.hooks = <<>> THEN "postCreate" ELSE "updateContent"
      BY <1>7, <1>9, Zenon
    <2>2. QED
      BY <1>7, <1>9, <2>1, Zenon DEF Defined
  <1>11. QED
    BY <1>1, <1>2, <1>3, <1>6, <1>8, <1>10

-----------------------------------------------------------------------------
(* The configuration Up returns, and what was installed into the image.    *)

(* A feature and the published image bring nothing that the label leaves   *)
(* out: no empty command and no mount without type, source and target.     *)
NothingLost == (\A f \in Feature : Metadata[f] \in Plain) /\ Published \in Seq(Plain)

PlainInv ==
    /\ \A k \in {"published", "prebuilt"} : images[k] # NoBox => images[k].layers \in Seq(Entry)
    /\ box # NoBox => box.layers \in Seq(Entry)
    /\ ws # NoBox => box # NoBox

DefinedInv ==
    (ws # NoBox /\ ws.inspected /\ box.whole) =>
      Defined(ws.cfg, box.layers # <<>>, Under(Seen(box.layers, host), Substituted(user, host)))

LEMMA RereadsSame ==
    ASSUME NEW layers \in Seq(Entry)
    PROVE  Rereads(layers) = layers
  <1>1. PICK n \in Nat : DOMAIN layers = 1 .. n /\ layers = [i \in 1 .. n |-> layers[i]]
    OBVIOUS
  <1>2. \A i \in 1 .. n : layers[i] \in Entry
    BY <1>1
  <1>3. \A i \in 1 .. n : Reread(layers[i]) = layers[i]
    BY <1>2, EntryTypes, Zenon
  <1>4. [i \in 1 .. n |-> Reread(layers[i])] = [i \in 1 .. n |-> layers[i]]
    BY <1>3, Zenon
  <1>5. QED
    BY <1>1, <1>4, Zenon DEF Rereads

LEMMA UnfetchedIdle ==
    ASSUME ConfigInv
    PROVE  Added(resolveFromRaw(user, host)) \in Seq(Idle)
  <1>1. PICK r \in ResolvedType : r = resolveFromRaw(user, host) /\ Fresh(r)
    BY InputTypes
  <1>2. user \in UserType /\ host \in Hosts
    BY InputTypes DEF ConfigInv
  <1>3. /\ Len(r.features) = Len(user.features)
        /\ \A i \in DOMAIN user.features :
             r.features[i] = [id |-> user.features[i], installed |-> FALSE, metadata |-> NoLayer]
    BY <1>1, <1>2, ResolveFields
  <1>4. user.features \in Seq(Feature) /\ r.features \in Seq(ResolvedFeature)
    BY <1>2 DEF UserType, ResolvedType
  <1>5. PICK n \in Nat : DOMAIN r.features = 1 .. n /\ DOMAIN user.features = 1 .. n
    BY <1>3, <1>4
  <1>6. \A i \in 1 .. n : r.features[i].metadata = NoLayer
    <2>1. \A f : [id |-> f, installed |-> FALSE, metadata |-> NoLayer].metadata = NoLayer
      OBVIOUS
    <2>2. QED
      BY <1>3, <1>5, <2>1, Zenon
  <1>7. PICK a : a = Added(r)
    OBVIOUS
  <1>8. a = [i \in DOMAIN r.features |-> r.features[i].metadata]
    BY <1>1, <1>7, AddedType
  <1>9. a = [i \in 1 .. n |-> a[i]] /\ \A i \in 1 .. n : a[i] = NoLayer
    BY <1>5, <1>6, <1>8
  <1>10. NoLayer \in Idle
    <2>1. Bare(NoLayer) /\ NoLayer.remoteUser = ""
      BY DEF Bare, NoLayer
    <2>2. QED
      BY <2>1, BlankLayer, Zenon DEF Idle
  <1>11. a \in Seq(Idle)
    BY <1>9, <1>10, Elementwise
  <1>12. QED
    BY <1>1, <1>7, <1>11

(* The layers of a new image, as they are and as they were merged.         *)
LEMMA AddedPlain ==
    ASSUME NothingLost, ConfigInv, ImagesInv, HasBase, NEW inspected \in BOOLEAN
    PROVE  Added(Matched(inspected)) \in Seq(Entry)
  <1>1. PICK a \in Seq(Known) : a = Added(Matched(inspected))
    BY MatchedTypes
  <1>2. PICK base \in Seq(LayerType) : base = BaseMetadata(user.base, inspected)
    BY MatchedTypes, EntryTypes
  <1>3. PICK r \in ResolvedType : r = resolveFromRaw(user, host)
    BY InputTypes
  <1>4. PICK c \in ResolvedType : c = Matched(inspected) /\ c = markAlreadyInstalled(r, base)
    BY <1>2, <1>3, MatchedTypes DEF Matched
  <1>5. /\ DOMAIN c.features = DOMAIN r.features
        /\ \A i \in DOMAIN r.features :
             ~c.features[i].installed => c.features[i].metadata = Metadata[r.features[i].id]
    BY <1>4, MarkFields
  <1>6. \A x \in Range(a) :
          \E i \in DOMAIN c.features : ~c.features[i].installed /\ x = c.features[i].metadata
    BY <1>1, <1>4, AddedType
  <1>7. \A i \in DOMAIN r.features : r.features[i].id \in Feature
    <2>1. r.features \in Seq(ResolvedFeature)
      BY DEF ResolvedType
    <2>2. \A i \in DOMAIN r.features : r.features[i] \in ResolvedFeature
      BY <2>1
    <2>3. QED
      BY <2>2 DEF ResolvedFeature
  <1>8. \A x \in Range(a) : x \in Plain
    <2> SUFFICES ASSUME NEW x \in Range(a)
                 PROVE  x \in Plain
      OBVIOUS
    <2>1. PICK i \in DOMAIN c.features : ~c.features[i].installed /\ x = c.features[i].metadata
      BY <1>6
    <2>2. r.features[i].id \in Feature /\ x = Metadata[r.features[i].id]
      BY <1>5, <1>7, <2>1
    <2>3. QED
      BY <2>2, Zenon DEF NothingLost
  <1>9. \A i \in DOMAIN a : a[i] \in Entry
    <2> SUFFICES ASSUME NEW i \in DOMAIN a
                 PROVE  a[i] \in Entry
      OBVIOUS
    <2>1. a[i] \in Plain
      BY <1>8 DEF Range
    <2>2. a[i] \in Known
      OBVIOUS
    <2>3. QED
      BY <2>1, <2>2, Zenon DEF Entry, Known
  <1>10. QED
    BY <1>1, <1>9, EntryTypes

LEMMA InstalledDefined ==
    ASSUME NothingLost, ConfigInv, ImagesInv, PlainInv, HasBase, NEW inspected \in BOOLEAN,
           NEW img, img = layerFeatures(inspected)
    PROVE  /\ img.layers \in Seq(Entry)
           /\ (inspected /\ img.whole) =>
                Defined(applyMetadataMerge(Matched(inspected), BaseMetadata(user.base, inspected), host),
                        img.layers # <<>>, Under(Seen(img.layers, host), Substituted(user, host)))
  <1>1. PICK base \in Seq(Entry) : base = BaseMetadata(user.base, inspected)
    BY MatchedTypes
  <1>2. PICK c \in ResolvedType : c = Matched(inspected)
    BY MatchedTypes
  <1>3. PICK new \in Seq(Entry) : new = Added(c)
    BY <1>2, AddedPlain
  <1>4. PICK from : from = images[user.base]
    OBVIOUS
  <1>5. ImageOK(from) /\ from.layers \in Seq(Entry)
    BY <1>4, InputTypes, MatchedTypes DEF PlainInv, HasBase
  <1>6. user \in UserType /\ host \in Hosts
    BY InputTypes DEF ConfigInv
  <1>7. PICK u : u = Substituted(user, host)
    OBVIOUS
  <1>8. PICK r \in ResolvedType : r = resolveFromRaw(user, host)
    BY InputTypes
  <1>9. Layered(u) /\ FromUser(c, u)
    <2>1. base \in Seq(LayerType)
      BY EntryTypes
    <2>2. c = markAlreadyInstalled(r, base)
      BY <1>1, <1>2, <1>8 DEF Matched
    <2>3. /\ c.remoteUser = r.remoteUser /\ c.privileged = r.privileged /\ c.env = r.env
          /\ c.capAdd = r.capAdd /\ c.mounts = r.mounts /\ c.entrypoints = r.entrypoints
          /\ c.hooks = r.hooks /\ c.waitFor = r.waitFor
      BY <2>1, <2>2, MarkFields
    <2>4. QED
      BY <1>6, <1>7, <1>8, <2>3, UserLayer, Zenon
  <1>10. PICK x \in Seq(Entry) : x = base \o new
    <2>1. base \o new \in Seq(Entry)
      BY ConcatProperties
    <2>2. QED
      BY <2>1
  <1>11. PICK cfg : cfg = applyMetadataMerge(c, base, host)
    OBVIOUS
  <1>12. Defined(cfg, x # <<>>, Under(Seen(x, host), u))
    <2>1. cfg = Finalize(MergeMetadata(c, host, x))
      BY <1>3, <1>10, <1>11 DEF applyMetadataMerge
    <2>2. x \in Seq(LayerType)
      BY EntryTypes
    <2>3. QED
      BY <1>6, <1>9, <2>1, <2>2, MergeDefined
  <1>13. ASSUME inspected, from.whole
         PROVE  base = from.layers
    <2>1. base = ParseMetadataLabel(from.label)
      BY <1>1, <1>4, <1>13 DEF BaseMetadata
    <2>2. QED
      BY <1>5, <1>13, <2>1, RereadsSame DEF ImageOK
  <1>14. CASE new = <<>>
    <2>1. img = from
      BY <1>2, <1>3, <1>4, <1>14, LayersBuilt
    <2>2. x = base
      BY <1>10, <1>14, ConcatEmptySeq
    <2>3. ASSUME inspected, img.whole
          PROVE  Defined(cfg, img.layers # <<>>, Under(Seen(img.layers, host), u))
      BY <1>12, <1>13, <2>1, <2>2, <2>3
    <2>4. QED
      BY <1>1, <1>2, <1>5, <1>7, <1>11, <2>1, <2>3
  <1>15. CASE new # <<>>
    <2>1. c.remoteUser \in Text
      BY DEF ResolvedType
    <2>2. PICK o \in Entry : o = Own(c.remoteUser)
      BY <2>1, OwnLayer
    <2>3. PICK label : label = buildMetadataLabel(base, new, c)
      OBVIOUS
    <2>4. PICK whole : whole = (from.whole /\ inspected)
      OBVIOUS
    <2>5. PICK fl \in Seq(Entry) : fl = from.layers
      BY <1>5
    <2>6. PICK ls : ls = fl \o new \o <<o>>
      OBVIOUS
    <2>7. img = Image(label, ls, whole)
      BY <1>1, <1>2, <1>3, <1>4, <1>15, <2>2, <2>3, <2>4, <2>5, <2>6, Zenon
         DEF layerFeatures, Own
    <2>8. img.whole = whole /\ img.layers = IF whole THEN ls ELSE <<>>
      BY <2>7, ImageFields
    <2>9. fl \o new \in Seq(Entry)
      BY ConcatProperties
    <2>10. ls = Append(fl \o new, o) /\ ls \in Seq(Entry) /\ ls # <<>>
      BY <2>6, <2>9
    <2>11. img.layers \in Seq(Entry)
      BY <2>8, <2>10, EmptySeq
    <2>12. ASSUME inspected, img.whole
           PROVE  Defined(cfg, img.layers # <<>>, Under(Seen(img.layers, host), u))
      <3>1. from.whole /\ img.layers = ls
        BY <2>4, <2>8, <2>12
      <3>2. ls = Append(x, o)
        BY <1>10, <1>13, <2>5, <2>10, <2>12, <3>1
      <3>3. u.remoteUser = ResolveString(c.remoteUser, host)
        <4>1. c.remoteUser = u.remoteUser
          BY <1>9, Zenon DEF FromUser
        <4>2. u.remoteUser = ResolveString(user.remoteUser, host)
          BY <1>6, <1>7, SubstitutedFields
        <4>3. QED
          BY <1>6, <4>1, <4>2, ResolvedTwice, Zenon
      <3>4. x \in Seq(LayerType)
        BY EntryTypes
      <3>5. Under(Seen(Append(x, Own(c.remoteUser)), host), u) = Under(Seen(x, host), u)
        BY <1>6, <2>1, <3>3, <3>4, SeenOwn
      <3>6. Under(Seen(img.layers, host), u) = Under(Seen(x, host), u)
        BY <2>2, <3>1, <3>2, <3>5, Zenon
      <3>7. x # <<>>
        BY <1>10, <1>15
      <3>8. QED
        BY <1>12, <2>10, <3>1, <3>6, <3>7
    <2>13. QED
      BY <1>1, <1>2, <1>7, <1>11, <2>11, <2>12
  <1>16. QED
    BY <1>14, <1>15

LEMMA AttachedDefined ==
    ASSUME ConfigInv, BoxInv, PlainInv, box # NoBox, box.whole
    PROVE  Defined(Attached(TRUE), box.layers # <<>>,
                   Under(Seen(box.layers, host), Substituted(user, host)))
  <1>1. ImageOK(box) /\ box.layers \in Seq(Entry)
    BY DEF BoxInv, BoxOK, PlainInv
  <1>2. PICK ls \in Seq(Entry) : ls = box.layers
    BY <1>1
  <1>3. ParseMetadataLabel(box.label) = ls
    BY <1>1, <1>2, RereadsSame DEF ImageOK
  <1>4. user \in UserType /\ host \in Hosts
    BY InputTypes DEF ConfigInv
  <1>5. PICK r \in ResolvedType : r = resolveFromRaw(user, host)
    BY InputTypes
  <1>6. PICK u : u = Substituted(user, host) /\ Layered(u) /\ FromUser(r, u)
    BY <1>4, <1>5, UserLayer, Zenon
  <1>7. PICK new \in Seq(Idle) : new = Added(r)
    BY <1>5, UnfetchedIdle
  <1>8. ls \in Seq(LayerType)
    BY EntryTypes
  <1>9. PICK x \in Seq(LayerType) : x = ls \o new /\ Seen(x, host) = Seen(ls, host)
    BY <1>4, <1>8, SeenExtras
  <1>10. PICK cfg : cfg = Attached(TRUE)
    OBVIOUS
  <1>11. cfg = Finalize(MergeMetadata(r, host, x))
    BY <1>3, <1>5, <1>7, <1>9, <1>10 DEF Attached, applyMetadataMerge
  <1>12. Defined(cfg, x # <<>>, Under(Seen(ls, host), u))
    <2>1. Defined(cfg, x # <<>>, Under(Seen(x, host), u))
      BY <1>4, <1>6, <1>11, MergeDefined
    <2>2. QED
      BY <1>9, <2>1
  <1>13. ls # <<>> => x # <<>>
    <2>1. ls \o new # <<>> \/ ls = <<>>
      BY SMTT(30)
    <2>2. QED
      BY <1>9, <2>1
  <1>14. Defined(cfg, ls # <<>>, Under(Seen(ls, host), u))
    BY <1>12, <1>13, Zenon DEF Defined
  <1>15. QED
    BY <1>2, <1>6, <1>10, <1>14

ViewInv == PlainInv /\ DefinedInv

LEMMA ViewInit ==
    ASSUME NothingLost, Init
    PROVE  ViewInv
  <1>1. box = NoBox /\ ws = NoBox
    BY DEF Init
  <1>2. PICK ls \in Seq(LayerType) : ls = Published
    BY ConfigAssumption
  <1>3. ls \in Seq(Entry)
    <2>1. PICK n \in Nat : DOMAIN ls = 1 .. n /\ ls = [i \in 1 .. n |-> ls[i]]
      OBVIOUS
    <2>2. \A i \in 1 .. n : ls[i].id \in Ids
      BY <1>2, <2>1 DEF Ids
    <2>3. \A i \in 1 .. n : ls[i] \in Plain
      <3>1. ls \in Seq(Plain)
        BY <1>2 DEF NothingLost
      <3>2. QED
        BY <2>1, <3>1
    <2>4. \A i \in 1 .. n : ls[i] \in Entry
      BY <2>2, <2>3, Zenon DEF Entry
    <2>5. QED
      BY <2>1, <2>4, Elementwise
  <1>4. PICK label : label = [i \in DOMAIN ls |-> metadataFromFeatureMetadata(ls[i])]
    OBVIOUS
  <1>5. PICK img : img = Image(label, ls, TRUE)
    OBVIOUS
  <1>6. img.layers = ls
    <2>1. PICK w : w = TRUE
      OBVIOUS
    <2>2. img = Image(label, ls, w)
      BY <1>5, <2>1
    <2>3. img.layers = IF w THEN ls ELSE <<>>
      BY <2>2, ImageFields
    <2>4. QED
      BY <2>1, <2>3
  <1>7. PICK none : none = NoBox
    OBVIOUS
  <1>8. images = [published |-> img, prebuilt |-> none]
    BY <1>2, <1>4, <1>5, <1>7, Zenon DEF Init
  <1>9. images["published"] = img /\ images["prebuilt"] = none
    BY <1>8
  <1>10. PlainInv
    BY <1>1, <1>3, <1>6, <1>7, <1>9 DEF PlainInv
  <1>11. DefinedInv
    BY <1>1 DEF DefinedInv
  <1>12. QED
    BY <1>10, <1>11 DEF ViewInv

LEMMA BuildKeepsView ==
    ASSUME NothingLost, IInv, ViewInv, Build
    PROVE  ViewInv'
  <1>1. ConfigInv /\ ImagesInv /\ HasBase /\ PlainInv /\ DefinedInv
    BY DEF IInv, Build, ViewInv
  <1>2. PICK inspected \in BOOLEAN :
          images' = [images EXCEPT !.prebuilt = layerFeatures(inspected)]
    BY Inspected DEF Build
  <1>3. PICK img : img = layerFeatures(inspected)
    OBVIOUS
  <1>4. img.layers \in Seq(Entry)
    BY <1>1, <1>3, InstalledDefined
  <1>5. images'["published"] = images["published"] /\ images'["prebuilt"] = img
    BY <1>1, <1>2, <1>3 DEF ImagesInv
  <1>6. UNCHANGED <<user, host, box, ws, changes>>
    BY DEF Build
  <1>7. images["published"] # NoBox => images["published"].layers \in Seq(Entry)
    BY <1>1 DEF PlainInv
  <1>8. PlainInv'
    BY <1>1, <1>4, <1>5, <1>6, <1>7 DEF PlainInv
  <1>9. DefinedInv'
    BY <1>1, <1>6 DEF DefinedInv
  <1>10. QED
    BY <1>8, <1>9 DEF ViewInv

LEMMA Boxed ==
    ASSUME NEW b, "layers" \in DOMAIN b
    PROVE  b # NoBox
  <1>1. DOMAIN NoBox = {"label"}
    BY DEF NoBox
  <1>2. QED
    BY <1>1

LEMMA CreateKeepsView ==
    ASSUME NothingLost, IInv, ViewInv, HasBase, NEW inspected \in BOOLEAN, NEW entry \in BOOLEAN,
           Create(inspected, entry), UNCHANGED <<user, host, images, changes>>
    PROVE  ViewInv'
  <1>1. ConfigInv /\ ImagesInv /\ PlainInv
    BY DEF IInv, ViewInv
  <1>2. PICK img : img = layerFeatures(inspected)
    OBVIOUS
  <1>3. PICK cfg : cfg = applyMetadataMerge(Matched(inspected),
                                            BaseMetadata(user.base, inspected), host)
    OBVIOUS
  <1>4. /\ img.layers \in Seq(Entry)
        /\ (inspected /\ img.whole) =>
             Defined(cfg, img.layers # <<>>, Under(Seen(img.layers, host), Substituted(user, host)))
    BY <1>1, <1>2, <1>3, InstalledDefined
  <1>5. PICK rest : rest =
          [source |-> user.source, inputs |-> resolveFromRaw(user, host),
           base |-> images[user.base], inspected |-> inspected /\ entry,
           spec |-> IF user.source = "image" THEN buildRunSpec(cfg)
                    ELSE upCompose(composeRunOverride(cfg, entry))]
    OBVIOUS
  <1>6. PICK b : b = [label |-> img.label, layers |-> img.layers, whole |-> img.whole,
                      source |-> rest.source, inputs |-> rest.inputs, base |-> rest.base,
                      host |-> host, inspected |-> rest.inspected, cfg |-> cfg, spec |-> rest.spec]
    OBVIOUS
  <1>7. box' = b /\ ws' = Workspace("created", cfg, inspected)
    <2>1. /\ rest.source = user.source /\ rest.inputs = resolveFromRaw(user, host)
          /\ rest.base = images[user.base] /\ rest.inspected = (inspected /\ entry)
          /\ rest.spec = (IF user.source = "image" THEN buildRunSpec(cfg)
                          ELSE upCompose(composeRunOverride(cfg, entry)))
      BY <1>5
    <2>2. QED
      BY <1>2, <1>3, <1>6, <2>1, Zenon DEF Create
  <1>8. b.layers = img.layers /\ b.whole = img.whole /\ b # NoBox
    <2>1. "layers" \in DOMAIN b
      BY <1>6
    <2>2. QED
      BY <1>6, <2>1, Boxed
  <1>9. PICK w : w = ws' /\ w.cfg = cfg /\ w.inspected = inspected
    <2>1. PICK x : x = Workspace("created", cfg, inspected)
      OBVIOUS
    <2>2. x.cfg = cfg /\ x.inspected = inspected
      BY <2>1 DEF Workspace
    <2>3. QED
      BY <1>7, <2>1, <2>2, Zenon
  <1>10. PlainInv'
    BY <1>1, <1>4, <1>7, <1>8 DEF PlainInv
  <1>11. DefinedInv'
    BY <1>4, <1>7, <1>8, <1>9, Zenon DEF DefinedInv
  <1>12. QED
    BY <1>10, <1>11 DEF ViewInv

LEMMA AttachKeepsView ==
    ASSUME IInv, ViewInv, attachExisting
    PROVE  ViewInv'
  <1>1. ConfigInv /\ BoxInv /\ PlainInv
    BY DEF IInv, ViewInv
  <1>2. PICK inspected \in BOOLEAN :
          ws' = Workspace("attached", Attached(inspected), inspected)
    BY Inspected DEF attachExisting
  <1>3. box # NoBox /\ UNCHANGED <<user, host, images, box, changes>>
    BY DEF attachExisting
  <1>4. PlainInv'
    BY <1>1, <1>3 DEF PlainInv
  <1>5. PICK w : w = ws' /\ w.cfg = Attached(inspected) /\ w.inspected = inspected
    <2>1. PICK x : x = Workspace("attached", Attached(inspected), inspected)
      OBVIOUS
    <2>2. x.cfg = Attached(inspected) /\ x.inspected = inspected
      BY <2>1 DEF Workspace
    <2>3. QED
      BY <1>2, <2>1, <2>2, Zenon
  <1>6. ASSUME inspected, box.whole
        PROVE  Defined(w.cfg, box.layers # <<>>,
                       Under(Seen(box.layers, host), Substituted(user, host)))
    <2>1. w.cfg = Attached(TRUE)
      BY <1>5, <1>6
    <2>2. QED
      BY <1>1, <1>3, <1>6, <2>1, AttachedDefined
  <1>7. DefinedInv'
    BY <1>3, <1>5, <1>6 DEF DefinedInv
  <1>8. QED
    BY <1>4, <1>7 DEF ViewInv

LEMMA ReattachKeepsView ==
    ASSUME IInv, ViewInv, reattachCompose
    PROVE  ViewInv'
  <1>1. ConfigInv /\ BoxInv /\ PlainInv /\ box # NoBox
    BY DEF IInv, ViewInv, reattachCompose, Reattaches
  <1>2. PICK cfg, spec, entry :
          /\ cfg = Attached(TRUE)
          /\ \/ box' = box
             \/ box' = [box EXCEPT !.spec = spec, !.cfg = cfg, !.host = host, !.inspected = entry]
          /\ ws' = Workspace("attached", cfg, TRUE)
    <2>1. PICK e \in BOOLEAN :
            LET c == Attached(TRUE)
                s == upCompose(composeRunOverride(c, e))
            IN  /\ box' = IF s = box.spec THEN box
                          ELSE [box EXCEPT !.spec = s, !.cfg = c, !.host = host, !.inspected = e]
                /\ ws' = Workspace("attached", c, TRUE)
      BY Inspected DEF reattachCompose
    <2>2. PICK c : c = Attached(TRUE)
      OBVIOUS
    <2>3. PICK s : s = upCompose(composeRunOverride(c, e))
      OBVIOUS
    <2>4. PICK n : n = [box EXCEPT !.spec = s, !.cfg = c, !.host = host, !.inspected = e]
      OBVIOUS
    <2>5. (box' = box \/ box' = n) /\ ws' = Workspace("attached", c, TRUE)
      BY <2>1, <2>2, <2>3, <2>4, Zenon
    <2>6. QED
      BY <2>2, <2>4, <2>5, Zenon
  <1>3. UNCHANGED <<user, host, images, changes>>
    BY DEF reattachCompose
  <1>4. box'.layers = box.layers /\ box'.whole = box.whole /\ box' # NoBox
    <2>1. BoxOK(box)
      BY <1>1 DEF BoxInv
    <2>2. PICK b : b = box
      OBVIOUS
    <2>3. b = [label |-> b.label, layers |-> b.layers, whole |-> b.whole, source |-> b.source,
               inputs |-> b.inputs, base |-> b.base, host |-> b.host,
               inspected |-> b.inspected, cfg |-> b.cfg, spec |-> b.spec]
      BY <2>1, <2>2 DEF BoxOK
    <2>4. PICK n : n = [b EXCEPT !.spec = spec, !.cfg = cfg, !.host = host, !.inspected = entry]
      OBVIOUS
    <2>5. n.layers = b.layers /\ n.whole = b.whole /\ "layers" \in DOMAIN n
      BY <2>3, <2>4
    <2>6. n # NoBox
      BY <2>5, Boxed
    <2>7. QED
      BY <1>1, <1>2, <2>2, <2>4, <2>5, <2>6, Zenon
  <1>5. PlainInv'
    BY <1>1, <1>3, <1>4 DEF PlainInv
  <1>6. PICK w : w = ws' /\ w.cfg = Attached(TRUE)
    <2>1. PICK x : x = Workspace("attached", cfg, TRUE)
      OBVIOUS
    <2>2. x.cfg = cfg
      BY <2>1 DEF Workspace
    <2>3. QED
      BY <1>2, <2>1, <2>2
  <1>7. ASSUME box.whole
        PROVE  Defined(w.cfg, box.layers # <<>>,
                       Under(Seen(box.layers, host), Substituted(user, host)))
    BY <1>1, <1>6, <1>7, AttachedDefined
  <1>8. DefinedInv'
    BY <1>3, <1>4, <1>6, <1>7 DEF DefinedInv
  <1>9. QED
    BY <1>5, <1>8 DEF ViewInv

LEMMA StepKeepsView ==
    ASSUME NothingLost, IInv, ViewInv, Next
    PROVE  ViewInv'
  <1>1. ASSUME createFresh
        PROVE  ViewInv'
    <2>1. PICK inspected \in BOOLEAN : Create(inspected, TRUE)
      BY <1>1, Inspected DEF createFresh
    <2>2. HasBase /\ UNCHANGED <<user, host, images, changes>>
      BY <1>1 DEF createFresh
    <2>3. QED
      BY <2>1, <2>2, CreateKeepsView
  <1>2. ASSUME createFreshCompose
        PROVE  ViewInv'
    <2>1. PICK inspected \in BOOLEAN, entry \in BOOLEAN : Create(inspected, entry)
      BY <1>2, Inspected DEF createFreshCompose
    <2>2. HasBase /\ UNCHANGED <<user, host, images, changes>>
      BY <1>2 DEF createFreshCompose
    <2>3. QED
      BY <2>1, <2>2, CreateKeepsView
  <1>3. ASSUME Down \/ Edit \/ HostChanges
        PROVE  ViewInv'
    <2>1. ws' = NoBox /\ images' = images /\ (box' = NoBox \/ box' = box)
      BY <1>3 DEF Down, Edit, HostChanges
    <2>2. PlainInv'
      BY <2>1 DEF ViewInv, PlainInv
    <2>3. DefinedInv'
      BY <2>1 DEF DefinedInv
    <2>4. QED
      BY <2>2, <2>3 DEF ViewInv
  <1>4. QED
    BY <1>1, <1>2, <1>3, BuildKeepsView, AttachKeepsView, ReattachKeepsView DEF Next

(* However the container came about (a fresh Up, an Up on an image built   *)
(* by Engine.Build elsewhere, an attach, a compose reattach), the          *)
(* configuration Up returns is the one defined by all that was installed   *)
(* into its image and by the present devcontainer.json and host, when no   *)
(* feature and no published layer has an empty command or an empty mount   *)
(* for the label to leave out (MergeMetadata, buildMetadataLabel,          *)
(* ParseMetadataLabel).                                                    *)
THEOREM ViewIsDefinedTheorem ==
    ASSUME NothingLost
    PROVE  Spec => []ViewIsDefined
  <1>1. Init => ViewInv
    BY ViewInit
  <1>2. IInv /\ ViewInv /\ [Next]_vars => ViewInv'
    <2> SUFFICES ASSUME IInv, ViewInv, [Next]_vars
                 PROVE  ViewInv'
      OBVIOUS
    <2>1. CASE Next
      BY <2>1, StepKeepsView
    <2>2. CASE UNCHANGED vars
      BY <2>2 DEF vars, ViewInv, PlainInv, DefinedInv
    <2>3. QED
      BY <2>1, <2>2
  <1>3. IInv /\ ViewInv => ViewIsDefined
    <2> SUFFICES ASSUME IInv, ViewInv, ws # NoBox, ws.inspected, box.whole
                 PROVE  IsDefinedBy(ws.cfg, box.layers)
      BY DEF ViewIsDefined
    <2>1. box.layers \in Seq(LayerType)
      BY EntryTypes DEF ViewInv, PlainInv
    <2>2. Defined(ws.cfg, box.layers # <<>>,
                  Under(Seen(box.layers, host), Substituted(user, host)))
      BY DEF ViewInv, DefinedInv
    <2>3. QED
      BY <2>1, <2>2, DefinedBy DEF IInv
  <1>4. QED
    BY <1>1, <1>2, <1>3, Invariance, PTL DEF Spec
=============================================================================
