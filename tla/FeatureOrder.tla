---------------------------- MODULE FeatureOrder ----------------------------
(***************************************************************************)
(* feature/graph.go, order.go, options.go: the order features are          *)
(* installed in, and what it means for two requests to ask for the same.   *)
(*                                                                         *)
(* A feature reference is a natural number, its place in the bytewise      *)
(* order of references; a feature has one option, "version", a natural     *)
(* number too, and 0 where the options do not set it.  A feature is a      *)
(* ResolvedFeature: what was asked for, and, once it has been fetched (or  *)
(* found in the base image), what it turned out to be.                     *)
(***************************************************************************)
EXTENDS Naturals, Sequences, FiniteSets, SequencesExt

CONSTANTS
    Ref,           \* feature references
    Option,        \* values of the option
    IdOf,          \* IdOf[r]: the reference without tag and digest
    dagErrorDepth  \* chains this long are refused

ASSUME OrderAssumption ==
    /\ Ref \subseteq Nat /\ IsFiniteSet(Ref)
    /\ Option \subseteq Nat /\ IsFiniteSet(Option) /\ 0 \in Option
    /\ IdOf \in [Ref -> Nat]
    /\ dagErrorDepth \in Nat \ {0}

(* normalizeID, featureID.                                                 *)
normalizeID(r) == IdOf[r]

(* One dependsOn entry: the key, and the options it asks for.              *)
Dependency == [key : Ref, opts : Option]

(* A dependsOn object: one entry for a key.                                *)
DependsOn == {D \in SUBSET Dependency : \A x, y \in D : x.key = y.key => x = y}

(***************************************************************************)
(* MergeOptions: defaults, overlaid by what was asked for.  An option with *)
(* an enumeration refuses other values: Invalid.                           *)
(***************************************************************************)
Invalid == Cardinality(Option) + CHOOSE n \in Option : \A k \in Option : k <= n

MergeOptions(meta, opts) ==
    IF opts = 0 THEN meta.default
    ELSE IF opts \in meta.enum THEN opts
    ELSE Invalid

(* An entry that has not been fetched has no metadata: anything goes.      *)
SameOptions(f, opts) == MergeOptions(f.meta, opts) = f.opts

(* By reference, then by options: {"version":...} sorts before {}.         *)
featureLess(f, g) ==
    \/ f.ref < g.ref
    \/ f.ref = g.ref /\ f.opts # 0 /\ (g.opts = 0 \/ f.opts < g.opts)

----------------------------------------------------------------------------
(* Edges of the graph over the entries of a sequence: <<j, i>>, j first.   *)

(* The entries a dependsOn key stands for: those with its options, or all  *)
(* of its id where none has them.                                          *)
dependencyEntries(features, dep) ==
    LET candidates == {j \in DOMAIN features :
                         normalizeID(features[j].ref) = normalizeID(dep.key)}
        same == {j \in candidates : SameOptions(features[j], dep.opts)}
    IN  IF same = {} THEN candidates ELSE same

(* A bug: installsAfter is followed, dependsOn is not.                     *)
EdgesInstallsAfter(features) ==
    {e \in (DOMAIN features) \X (DOMAIN features) :
        normalizeID(features[e[1]].ref) \in features[e[2]].meta.installsAfter}

Edges(features) ==
    {e \in (DOMAIN features) \X (DOMAIN features) :
        \/ normalizeID(features[e[1]].ref) \in features[e[2]].meta.installsAfter
        \/ \E dep \in features[e[2]].meta.dependsOn :
             e[1] \in dependencyEntries(features, dep)}

(* The members of S by a strict total order, a set of pairs.               *)
SortedBy(S, order) ==
    [n \in 1 .. Cardinality(S) |->
        CHOOSE x \in S : Cardinality({y \in S : <<y, x>> \in order}) = n - 1]

(* The members of a sequence at indices in S, by a strict total order.     *)
Entries(s, S, order) ==
    [n \in 1 .. Cardinality(S) |-> s[SortedBy(S, order)[n]]]

(* The same, as they came.                                                 *)
Kept(s, S) == Entries(s, S, {e \in S \X S : e[1] < e[2]})

(* Entries in the order of featureLess, equal ones as they came.           *)
Sorted(features, entries) ==
    SortedBy(entries, {e \in entries \X entries :
                        \/ featureLess(features[e[1]], features[e[2]])
                        \/ ~featureLess(features[e[2]], features[e[1]]) /\ e[1] < e[2]})

(***************************************************************************)
(* Kahn's algorithm.  Entries wait in ready first come first served; those *)
(* that become ready together join it in the order of featureLess.         *)
(***************************************************************************)
KahnStart(features, edges) ==
    LET first == {i \in DOMAIN features : \A j \in DOMAIN features : <<j, i>> \notin edges}
    IN  [edges |-> edges,
         waits |-> [i \in DOMAIN features |-> {j \in DOMAIN features : <<j, i>> \in edges}],
         ready |-> Sorted(features, first),
         depth |-> [i \in DOMAIN features |-> 0],
         out   |-> <<>>]

(* A bug: an entry is ready when the first of its dependencies is in.      *)
ReleasedEarly(s) == {j \in DOMAIN s.waits : <<Head(s.ready), j>> \in s.edges}

(* The entries that wait for nothing but the head of ready.                *)
Released(s) ==
    {j \in DOMAIN s.waits : <<Head(s.ready), j>> \in s.edges
                            /\ s.waits[j] \subseteq {Head(s.ready)}}

(* The head of ready is installed; next becomes ready.                     *)
Install(s, next) ==
    LET i == Head(s.ready)
    IN  [s EXCEPT !.waits = [j \in DOMAIN @ |-> @[j] \ {i}],
                  !.ready = Tail(@) \o next,
                  !.depth = [j \in DOMAIN @ |->
                               IF <<i, j>> \in s.edges /\ @[i] + 1 > @[j]
                               THEN @[i] + 1 ELSE @[j]],
                  !.out   = Append(@, i)]

(* A bug: the children of an entry join in the order of the input.         *)
KahnStepUnsorted(features, s) ==
    Install(s, SortedBy(Released(s), {e \in Released(s) \X Released(s) : e[1] < e[2]}))

KahnStep(features, s) == Install(s, Sorted(features, Released(s)))

(* The one state after n rounds.                                           *)
Kahn(features) ==
    LET states[n \in 0 .. Len(features)] ==
          IF n = 0 THEN {KahnStart(features, edges) : edges \in {Edges(features)}}
          ELSE {IF s.ready = <<>> THEN s ELSE KahnStep(features, s) : s \in states[n - 1]}
    IN  states[Len(features)]

(* The outcome, and the entries in install order.                          *)
Ordered(outcome, features) == [outcome |-> outcome, features |-> features]

Sorting(features, s) ==
    IF Len(s.out) < Len(features) THEN Ordered("cycle", <<>>)
    ELSE IF \E i \in DOMAIN features : s.depth[i] >= dagErrorDepth
    THEN Ordered("too deep", <<>>)
    ELSE Ordered("ok", [n \in DOMAIN features |-> features[s.out[n]]])

topoSort(features) ==
    IF Len(features) <= 1 THEN Ordered("ok", features)
    ELSE CHOOSE r \in {Sorting(features, s) : s \in Kahn(features)} : TRUE

----------------------------------------------------------------------------
(* The entries of features an override names.                              *)
Named(features, override) ==
    {k \in DOMAIN features : normalizeID(features[k].ref) \in Range(override)}

(* They in the order it names them.                                        *)
Overridden(features, override) ==
    LET named == Named(features, override)
        at == [k \in named |-> Min({n \in DOMAIN override :
                                      override[n] = normalizeID(features[k].ref)})]
    IN  Entries(features, named,
                {e \in named \X named :
                    \/ at[e[1]] < at[e[2]]
                    \/ at[e[1]] = at[e[2]] /\ e[1] < e[2]})

(* splitByOverride, and the loop of buildPartialFeatures.                  *)
splitByOverride(features, override) ==
    IF override = <<>> THEN [overridden |-> <<>>, remaining |-> features]
    ELSE [overridden |-> Overridden(features, override),
          remaining  |-> Kept(features, DOMAIN features \ Named(features, override))]

Order(features, override) ==
    LET split == splitByOverride(features, override)
        sorted == {topoSort(remaining) : remaining \in {split.remaining}}
    IN  CHOOSE r \in {[s EXCEPT !.features = IF s.outcome = "ok"
                                             THEN split.overridden \o @ ELSE <<>>] :
                       s \in sorted} : TRUE
=============================================================================
