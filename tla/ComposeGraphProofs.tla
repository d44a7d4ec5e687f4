------------------------- MODULE ComposeGraphProofs -------------------------
(***************************************************************************)
(* TopoSort, findCycle and ServiceClosure are correct on every project.    *)
(***************************************************************************)
EXTENDS ComposeGraph, TLAPS

(* The edges of a plan are services, and Deps keeps those of the project.  *)
LEMMA EdgesType ==
    ASSUME NEW p \in PlanType, NEW s \in Service
    PROVE  /\ serviceEdges(p, s) \subseteq Service
           /\ Deps(p, s) \subseteq p.services
           /\ p.services \subseteq Service
           /\ p.names \subseteq Service
  BY DEF PlanType, serviceEdges, Deps

(* One iteration of Kahn's loop.                                           *)
LEMMA SortLevelInv ==
    ASSUME GraphTypeOK, SortInv, SortLevel
    PROVE  SortInv'
  <1> DEFINE ready == Ready(plan, remaining)
             n == Len(levels)
  <1>1. /\ levels \in Seq(SUBSET Service) /\ remaining \in SUBSET Service
        /\ plan \in PlanType /\ plan' = plan /\ sort' = "run"
        /\ levels' = Append(levels, ready)
        /\ remaining' = remaining \ ready
        /\ ready \subseteq remaining
    BY DEF GraphTypeOK, SortLevel, Ready
  <1>2. /\ n \in Nat /\ Len(levels') = n + 1
        /\ \A i \in 1..n : levels'[i] = levels[i]
        /\ levels'[n + 1] = ready
    BY <1>1
  <1>3. \A s \in ready : Deps(plan, s) \cap remaining = {}
    BY DEF Ready
  <1> HIDE DEF ready, n
  <1>4. remaining' \subseteq plan.services
    BY <1>1 DEF SortInv
  <1>5. \A i \in 1..Len(levels') :
          levels'[i] \subseteq plan.services \ remaining'
    BY <1>1, <1>2 DEF SortInv, n
  <1>6. \A s \in plan.services \ remaining' :
          \E i \in 1..Len(levels') : s \in levels'[i]
    <2> SUFFICES ASSUME NEW s \in plan.services \ remaining'
                 PROVE  \E i \in 1..Len(levels') : s \in levels'[i]
      OBVIOUS
    <2>1. CASE s \in ready
      BY <2>1, <1>2
    <2>2. CASE s \notin remaining
      <3>1. PICK i \in 1..n : s \in levels[i]
        BY <2>2 DEF SortInv, n
      <3>2. QED
        BY <3>1, <1>2
    <2>3. QED
      BY <2>1, <2>2, <1>1
  <1>7. DepsBelow'
    <2> SUFFICES ASSUME NEW i \in 1..(n + 1), NEW s \in levels'[i],
                        NEW d \in Deps(plan, s)
                 PROVE  \E j \in 1..(i - 1) : d \in levels'[j]
      BY <1>1, <1>2 DEF DepsBelow
    <2>1. CASE i \in 1..n
      <3>1. PICK j \in 1..(i - 1) : d \in levels[j]
        BY <2>1, <1>2 DEF SortInv, DepsBelow, n
      <3>2. QED
        BY <3>1, <2>1, <1>2
    <2>2. CASE i = n + 1
      <3>1. s \in ready /\ s \in Service
        BY <2>2, <1>1, <1>2
      <3>2. d \in plan.services \ remaining
        BY <3>1, <1>1, <1>3, EdgesType
      <3>3. PICK j \in 1..n : d \in levels[j]
        BY <3>2 DEF SortInv, n
      <3>4. QED
        BY <3>3, <2>2, <1>2
    <2>3. QED
      BY <2>1, <2>2, <1>2
  <1>8. Disjoint'
    <2> SUFFICES ASSUME NEW i \in 1..(n + 1), NEW j \in 1..(n + 1), i # j
                 PROVE  levels'[i] \cap levels'[j] = {}
      BY <1>2 DEF Disjoint
    <2>1. CASE i \in 1..n /\ j \in 1..n
      BY <2>1, <1>2 DEF SortInv, Disjoint, n
    <2>2. CASE i = n + 1 /\ j \in 1..n
      BY <2>2, <1>1, <1>2 DEF SortInv, n
    <2>3. CASE i \in 1..n /\ j = n + 1
      BY <2>3, <1>1, <1>2 DEF SortInv, n
    <2>4. QED
      BY <2>1, <2>2, <2>3, <1>2
  <1>9. QED
    BY <1>1, <1>4, <1>5, <1>6, <1>7, <1>8 DEF SortInv

(* A step of TopoSort keeps the types and leaves plan and closure alone.   *)
LEMMA SortNextType ==
    ASSUME GraphTypeOK, SortNext
    PROVE  GraphTypeOK' /\ UNCHANGED <<plan, closureVars>>
  <1>1. UNCHANGED <<plan, closureVars>>
    BY DEF SortNext, SortLevel, SortDone, SortStuck, WalkOn, WalkClose
  <1>2. CASE SortLevel
    BY <1>2, <1>1 DEF SortLevel, GraphTypeOK, closureVars, Ready
  <1>3. CASE SortDone
    BY <1>3, <1>1 DEF SortDone, GraphTypeOK, closureVars
  <1>4. CASE SortStuck
    BY <1>4, <1>1 DEF SortStuck, GraphTypeOK, closureVars
  <1>5. CASE WalkOn
    BY <1>5, <1>1 DEF WalkOn, Nexts, GraphTypeOK, closureVars
  <1>6. CASE WalkClose
    <2>1. PICK s \in Nexts, i \in 1..Len(path) :
            path' = Append(SubSeq(path, i, Len(path)), s)
      BY <1>6 DEF WalkClose
    <2>2. s \in Service /\ path \in Seq(Service)
      BY <2>1 DEF Nexts, GraphTypeOK
    <2>3. SubSeq(path, i, Len(path)) \in Seq(Service)
      BY <2>1, <2>2
    <2>4. path' \in Seq(Service)
      BY <2>1, <2>2, <2>3
    <2>5. QED
      BY <1>6, <1>1, <2>4 DEF WalkClose, GraphTypeOK, closureVars
  <1>7. QED
    BY <1>1, <1>2, <1>3, <1>4, <1>5, <1>6 DEF SortNext

(* The other steps of TopoSort do not touch the levels.                    *)
LEMMA SortNextSortInv ==
    ASSUME GraphTypeOK, SortInv, SortNext
    PROVE  SortInv'
  <1>1. CASE SortLevel
    BY <1>1, SortLevelInv
  <1>2. CASE SortDone \/ SortStuck \/ WalkOn \/ WalkClose
    BY <1>2 DEF SortDone, SortStuck, WalkOn, WalkClose, SortInv, DepsBelow,
                Disjoint
  <1>3. QED
    BY <1>1, <1>2 DEF SortNext

(* findCycle follows dependencies among the remaining services.            *)
LEMMA SortNextWalkInv ==
    ASSUME GraphTypeOK, WalkInv, SortNext
    PROVE  WalkInv'
  <1> USE DEF GraphTypeOK
  <1>1. CASE SortLevel \/ SortDone
    BY <1>1 DEF SortLevel, SortDone, WalkInv
  <1>2. CASE SortStuck
    <2>1. PICK s \in remaining : path' = <<s>>
      BY <1>2 DEF SortStuck
    <2>2. Len(path') = 1 /\ path'[1] = s
      BY <2>1
    <2>3. QED
      BY <1>2, <2>1, <2>2 DEF SortStuck, WalkInv
  <1>3. CASE WalkOn
    <2>1. PICK s \in Nexts : path' = Append(path, s)
      BY <1>3 DEF WalkOn
    <2> DEFINE n == Len(path)
    <2>2. /\ n \in Nat /\ n >= 1 /\ Len(path') = n + 1
          /\ \A i \in 1..n : path'[i] = path[i]
          /\ path'[n + 1] = s
      BY <1>3, <2>1 DEF WalkOn, WalkInv, Nexts
    <2>3. s \in Deps(plan, path[n]) /\ s \in remaining
      BY <2>1 DEF Nexts
    <2> HIDE DEF n
    <2>4. /\ sort' = "walk" /\ sort = "walk" /\ plan' = plan
          /\ remaining' = remaining
      BY <1>3 DEF WalkOn
    <2>5. ASSUME NEW i \in 1..n
          PROVE  path'[i + 1] \in Deps(plan, path'[i])
      <3>1. CASE i = n
        BY <3>1, <2>2, <2>3
      <3>2. CASE i \in 1..(n - 1)
        BY <3>2, <2>2, <2>4 DEF WalkInv, n
      <3>3. QED
        BY <3>1, <3>2, <2>2
    <2>6. \A i \in 1..(n + 1) : path'[i] \in remaining
      BY <2>2, <2>3, <2>4 DEF WalkInv, n
    <2>7. QED
      BY <2>2, <2>4, <2>5, <2>6 DEF WalkInv
  <1>4. CASE WalkClose
    <2>1. PICK s \in Nexts, k \in 1..Len(path) :
            path[k] = s /\ path' = Append(SubSeq(path, k, Len(path)), s)
      BY <1>4 DEF WalkClose
    <2> DEFINE n == Len(path)
               m == n - k + 1
               q == SubSeq(path, k, n)
    <2>2. /\ n \in Nat /\ k \in 1..n /\ m \in Nat /\ m >= 1
          /\ q \in Seq(Service) /\ Len(q) = m
          /\ \A i \in 1..m : q[i] = path[k + i - 1]
      BY <2>1
    <2>3. /\ Len(path') = m + 1 /\ path'[m + 1] = s
          /\ \A i \in 1..m : path'[i] = q[i]
      BY <2>1, <2>2 DEF Nexts
    <2>4. s \in Deps(plan, path[n])
      BY <2>1 DEF Nexts
    <2>5. /\ sort' = "cycle" /\ sort = "walk" /\ plan' = plan
      BY <1>4 DEF WalkClose
    <2>6. \A i \in 1..(n - 1) : path[i + 1] \in Deps(plan, path[i])
      BY <2>5 DEF WalkInv
    <2> HIDE DEF n, m, q
    <2>7. ASSUME NEW i \in 1..m
          PROVE  path'[i + 1] \in Deps(plan, path'[i])
      <3>1. CASE i = m
        <4>1. path'[i] = path[n] /\ path'[i + 1] = s
          BY <3>1, <2>2, <2>3 DEF m
        <4>2. QED
          BY <4>1, <2>4
      <3>2. CASE i \in 1..(m - 1)
        <4>1. /\ path'[i] = path[k + i - 1]
              /\ path'[i + 1] = path[(k + i - 1) + 1]
              /\ k + i - 1 \in 1..(n - 1)
          BY <3>2, <2>2, <2>3 DEF m
        <4>2. QED
          BY <4>1, <2>6
      <3>3. QED
        BY <3>1, <3>2, <2>2
    <2>8. path'[1] = s
      BY <2>1, <2>2, <2>3
    <2>9. QED
      BY <2>2, <2>3, <2>5, <2>7, <2>8 DEF WalkInv
  <1>5. QED
    BY <1>1, <1>2, <1>3, <1>4 DEF SortNext

(* A visit queues what a needed service needs, and nothing else.           *)
LEMMA ClosureNextInv ==
    ASSUME GraphTypeOK, ClosureInv, ClosureNext
    PROVE  /\ ClosureInv'
           /\ GraphTypeOK'
           /\ UNCHANGED <<plan, sortVars>>
  <1>1. CASE ClosureSkip
    BY <1>1 DEF ClosureSkip, ClosureInv, GraphTypeOK, sortVars, closureVars
  <1>2. CASE ClosureDone
    BY <1>2 DEF ClosureDone, ClosureInv, GraphTypeOK, sortVars, closureVars
  <1>3. CASE ClosureVisit
    <2> DEFINE new(n) == IF n \in plan.services THEN serviceEdges(plan, n)
                         ELSE {}
    <2>1. PICK n \in queue \ seen :
            /\ seen' = seen \cup {n}
            /\ queue' = (queue \ {n}) \cup new(n)
      BY <1>3 DEF ClosureVisit
    <2>2. /\ plan' = plan /\ closing' = closing /\ closing = "run"
          /\ UNCHANGED sortVars
      BY <1>3 DEF ClosureVisit, sortVars
    <2>3. n \in Service /\ new(n) \subseteq Service
      BY <2>1, EdgesType DEF GraphTypeOK
    <2>4. GraphTypeOK'
      BY <2>1, <2>2, <2>3 DEF GraphTypeOK, sortVars
    <2>5. plan.names \subseteq seen' \cup queue'
      BY <2>1, <2>2 DEF ClosureInv
    <2>6. \A s \in seen' \cap plan.services :
            serviceEdges(plan, s) \subseteq seen' \cup queue'
      BY <2>1, <2>2 DEF ClosureInv
    <2>7. ASSUME NEW T \in SUBSET Service,
                 plan.names \subseteq T, ClosedUnderEdges(plan, T)
          PROVE  seen' \cup queue' \subseteq T
      <3>1. seen \cup queue \subseteq T
        BY <2>2, <2>7 DEF ClosureInv
      <3>2. new(n) \subseteq T
        BY <2>1, <2>7, <3>1 DEF ClosedUnderEdges
      <3>3. QED
        BY <2>1, <3>1, <3>2
    <2>8. QED
      BY <2>2, <2>4, <2>5, <2>6, <2>7 DEF ClosureInv, ClosedUnderEdges
  <1>4. QED
    BY <1>1, <1>2, <1>3 DEF ClosureNext

(* The conjuncts of GraphInv follow from the step lemmas.                  *)
LEMMA GraphInvStep == GraphInv /\ [GraphNext]_graphVars => GraphInv'
  <1> SUFFICES ASSUME GraphInv, [GraphNext]_graphVars
               PROVE  GraphInv'
    OBVIOUS
  <1>1. CASE SortNext
    <2>1. ClosureInv'
      BY <1>1, SortNextType
         DEF GraphInv, ClosureInv, closureVars, ClosedUnderEdges, serviceEdges
    <2>2. QED
      BY <1>1, <2>1, SortNextType, SortNextSortInv, SortNextWalkInv
         DEF GraphInv
  <1>2. CASE ClosureNext
    <2>1. UNCHANGED <<plan, sort, remaining, levels, path>>
      BY <1>2, ClosureNextInv DEF GraphInv, sortVars
    <2>2. SortInv' /\ WalkInv'
      BY <2>1 DEF GraphInv, SortInv, WalkInv, DepsBelow, Disjoint
    <2>3. QED
      BY <1>2, <2>2, ClosureNextInv DEF GraphInv
  <1>3. CASE UNCHANGED graphVars
    BY <1>3 DEF graphVars, GraphInv, GraphTypeOK, SortInv, WalkInv, ClosureInv,
                DepsBelow, Disjoint, ClosedUnderEdges
  <1>4. QED
    BY <1>1, <1>2, <1>3 DEF GraphNext

(* The three results follow from the invariant.                            *)
LEMMA GraphInvImplies ==
    GraphInv => LevelsRespectDeps /\ ReportedCycleIsACycle /\ ClosureIsLeast
  <1> SUFFICES ASSUME GraphInv
               PROVE  /\ LevelsRespectDeps
                      /\ ReportedCycleIsACycle
                      /\ ClosureIsLeast
    OBVIOUS
  <1>1. sort = "ok" => Placed(Len(levels)) = plan.services
    BY DEF GraphInv, SortInv, Placed
  <1>2. LevelsRespectDeps
    BY <1>1 DEF GraphInv, SortInv, DepsBelow, Disjoint, LevelsRespectDeps
  <1>3. ReportedCycleIsACycle
    BY DEF GraphInv, WalkInv, ReportedCycleIsACycle
  <1>4. ClosureIsLeast
    BY DEF GraphInv, ClosureInv, ClosureIsLeast, ClosedUnderEdges
  <1>5. QED
    BY <1>2, <1>3, <1>4

LEMMA GraphInvInit == GraphInit => GraphInv
  <1> SUFFICES ASSUME GraphInit PROVE GraphInv
    OBVIOUS
  <1>1. plan \in PlanType
    BY PlansAssumption DEF GraphInit
  <1>2. GraphTypeOK
    BY <1>1, EdgesType DEF GraphInit, GraphTypeOK, PlanType
  <1>3. Len(levels) = 0 /\ SortInv /\ WalkInv
    BY <1>1 DEF GraphInit, SortInv, WalkInv, DepsBelow, Disjoint
  <1>4. ClosureInv
    BY <1>1 DEF GraphInit, ClosureInv
  <1>5. QED
    BY <1>2, <1>3, <1>4 DEF GraphInv

(***************************************************************************)
(* TopoSort, on every project and whatever its edges: a level depends only *)
(* on earlier levels, and when it succeeds every service is in one level.  *)
(***************************************************************************)
THEOREM LevelsRight == GraphSpec => []LevelsRespectDeps
  BY GraphInvInit, GraphInvStep, GraphInvImplies, PTL DEF GraphSpec

(***************************************************************************)
(* findCycle: what a CycleError reports is a cycle of dependencies, closed *)
(* and of services of the project.                                         *)
(***************************************************************************)
THEOREM CycleRight == GraphSpec => []ReportedCycleIsACycle
  BY GraphInvInit, GraphInvStep, GraphInvImplies, PTL DEF GraphSpec

(***************************************************************************)
(* ServiceClosure returns the least selection that holds the named         *)
(* services and with each of the project's services its dependencies.      *)
(***************************************************************************)
THEOREM ClosureRight == GraphSpec => []ClosureIsLeast
  BY GraphInvInit, GraphInvStep, GraphInvImplies, PTL DEF GraphSpec
=============================================================================
