---------------------------- MODULE ComposeGraph ----------------------------
(***************************************************************************)
(* compose/graph.go: the dependency graph of a compose project.            *)
(*                                                                         *)
(* TopoSort arranges the services in levels (Kahn's algorithm), findCycle  *)
(* recovers one concrete cycle for the error, ServiceClosure follows the   *)
(* same edges from the services a Plan names.  Each iteration of each loop *)
(* is one step here, so that the loops' results are proved by invariants   *)
(* and not by induction over a recursive definition.                       *)
(***************************************************************************)
EXTENDS Naturals, Sequences, FiniteSets

CONSTANTS
    Service,  \* every service name a plan or an edge may mention
    Plans     \* the plans Orchestrator.Up may be called with

(***************************************************************************)
(* depends_on conditions; "no" marks a pair without a depends_on entry.    *)
(***************************************************************************)
Condition == {"no", "service_started", "service_healthy",
              "service_completed_successfully"}

(***************************************************************************)
(* compose.Plan, reduced to what the orchestrator's control depends on.    *)
(*   services      names present in Project.Services                       *)
(*   dependsOn     dependsOn[s][d]: condition of s's depends_on entry on d *)
(*   optional      optional[s]: entries with required: false               *)
(*   nsTargets     nsTargets[s]: the x of network_mode/pid/ipc service:x   *)
(*   names         Plan.Services; {} means every service                   *)
(*   healthcheck   services for which declaresActiveHealthcheck is true    *)
(*   adopt         Plan.AdoptExisting                                      *)
(*   volumes       some service mounts a volume the project declares       *)
(***************************************************************************)
PlanType ==
    [services    : SUBSET Service,
     dependsOn   : [Service -> [Service -> Condition]],
     optional    : [Service -> SUBSET Service],
     nsTargets   : [Service -> SUBSET Service],
     names       : SUBSET Service,
     healthcheck : SUBSET Service,
     adopt       : BOOLEAN,
     volumes     : BOOLEAN]

ASSUME PlansAssumption == Plans \subseteq PlanType

ASSUME ServiceAssumption == IsFiniteSet(Service)

VARIABLES
    plan,       \* the plan at hand
    sort,       \* TopoSort: "idle", "run", "walk" (findCycle), "ok", "cycle"
    remaining,  \* TopoSort's remaining set
    levels,     \* TopoSort's levels, as sets
    path,       \* findCycle's path; the reported cycle once sort = "cycle"
    closing,    \* ServiceClosure: "idle", "run", "ok"
    seen,       \* ServiceClosure's seen set
    queue       \* ServiceClosure's queue; its order does not matter

sortVars    == <<sort, remaining, levels, path>>
closureVars == <<closing, seen, queue>>
graphVars   == <<plan, sort, remaining, levels, path, closing, seen, queue>>

----------------------------------------------------------------------------

serviceEdges(p, s) ==
    {d \in Service : p.dependsOn[s][d] # "no"} \cup p.nsTargets[s]

(***************************************************************************)
(* The deps map of TopoSort: edges to unknown services and self edges are  *)
(* dropped.                                                                *)
(***************************************************************************)
Deps(p, s) == (serviceEdges(p, s) \cap p.services) \ {s}

Ready(p, rem) == {s \in rem : Deps(p, s) \cap rem = {}}

----------------------------------------------------------------------------
(* TopoSort *)

SortStart(p) ==
    /\ sort' = "run"
    /\ remaining' = p.services
    /\ levels' = <<>>
    /\ path' = <<>>

(* A bug: the level's services are taken out one iteration too late.       *)
SortLevelKeepsReady ==
    /\ sort = "run"
    /\ Ready(plan, remaining) # {}
    /\ levels' = Append(levels, Ready(plan, remaining))
    /\ remaining' = remaining \ (IF Len(levels) = 0 THEN {}
                                 ELSE Ready(plan, remaining))
    /\ UNCHANGED <<sort, path, plan, closureVars>>

SortLevel ==
    /\ sort = "run"
    /\ Ready(plan, remaining) # {}
    /\ levels' = Append(levels, Ready(plan, remaining))
    /\ remaining' = remaining \ Ready(plan, remaining)
    /\ UNCHANGED <<sort, path, plan, closureVars>>

SortDone ==
    /\ sort = "run"
    /\ remaining = {}
    /\ sort' = "ok"
    /\ UNCHANGED <<remaining, levels, path, plan, closureVars>>

(***************************************************************************)
(* Everything left has an unsatisfied dependency.  The walk starts at the  *)
(* smallest name and follows the smallest one; any choice is allowed here. *)
(***************************************************************************)
SortStuck ==
    /\ sort = "run"
    /\ remaining # {}
    /\ Ready(plan, remaining) = {}
    /\ sort' = "walk"
    /\ \E s \in remaining : path' = <<s>>
    /\ UNCHANGED <<remaining, levels, plan, closureVars>>

OnPath(s) == \E i \in 1..Len(path) : path[i] = s

Nexts == Deps(plan, path[Len(path)]) \cap remaining

WalkOn ==
    /\ sort = "walk"
    /\ \E s \in Nexts :
         /\ ~OnPath(s)
         /\ path' = Append(path, s)
    /\ UNCHANGED <<sort, remaining, levels, plan, closureVars>>

(* A bug: the reported cycle is the whole walk, its lead-in included.      *)
WalkCloseFromStart ==
    /\ sort = "walk"
    /\ \E s \in Nexts :
         /\ OnPath(s)
         /\ path' = Append(path, s)
    /\ sort' = "cycle"
    /\ UNCHANGED <<remaining, levels, plan, closureVars>>

WalkClose ==
    /\ sort = "walk"
    /\ \E s \in Nexts : \E i \in 1..Len(path) :
         /\ path[i] = s
         /\ path' = Append(SubSeq(path, i, Len(path)), s)
    /\ sort' = "cycle"
    /\ UNCHANGED <<remaining, levels, plan, closureVars>>

SortNext == SortLevel \/ SortDone \/ SortStuck \/ WalkOn \/ WalkClose

----------------------------------------------------------------------------
(* ServiceClosure, for a plan that names its services *)

ClosureStart(p) ==
    /\ closing' = "run"
    /\ seen' = {}
    /\ queue' = p.names

ClosureSkip ==
    /\ closing = "run"
    /\ \E n \in queue \cap seen : queue' = queue \ {n}
    /\ UNCHANGED <<closing, seen, plan, sortVars>>

(* A bug: only depends_on is followed, not the namespace edges.            *)
ClosureVisitDependsOn ==
    /\ closing = "run"
    /\ \E n \in queue \ seen :
         /\ seen' = seen \cup {n}
         /\ queue' = (queue \ {n}) \cup
                       (IF n \in plan.services
                        THEN {d \in Service : plan.dependsOn[n][d] # "no"}
                        ELSE {})
    /\ UNCHANGED <<closing, plan, sortVars>>

(* A bug: a service met again is visited again.                            *)
ClosureVisitAgain ==
    /\ closing = "run"
    /\ \E n \in queue :
         /\ seen' = seen \cup {n}
         /\ queue' = (queue \ {n}) \cup
                       (IF n \in plan.services THEN serviceEdges(plan, n)
                        ELSE {})
    /\ UNCHANGED <<closing, plan, sortVars>>

ClosureVisit ==
    /\ closing = "run"
    /\ \E n \in queue \ seen :
         /\ seen' = seen \cup {n}
         /\ queue' = (queue \ {n}) \cup
                       (IF n \in plan.services THEN serviceEdges(plan, n)
                        ELSE {})
    /\ UNCHANGED <<closing, plan, sortVars>>

ClosureDone ==
    /\ closing = "run"
    /\ queue = {}
    /\ closing' = "ok"
    /\ UNCHANGED <<seen, queue, plan, sortVars>>

ClosureNext == ClosureSkip \/ ClosureVisit \/ ClosureDone

----------------------------------------------------------------------------

GraphInit ==
    /\ plan \in Plans
    /\ sort = "run" /\ remaining = plan.services
    /\ levels = <<>> /\ path = <<>>
    /\ closing = "run" /\ seen = {} /\ queue = plan.names

GraphNext == SortNext \/ ClosureNext

GraphSpec == GraphInit /\ [][GraphNext]_graphVars

(* Both loops are plain sequential code: each takes its next step.         *)
GraphFairSpec ==
    GraphSpec /\ WF_graphVars(SortNext) /\ WF_graphVars(ClosureNext)

----------------------------------------------------------------------------

GraphTypeOK ==
    /\ plan \in PlanType
    /\ sort \in {"idle", "run", "walk", "ok", "cycle"}
    /\ remaining \in SUBSET Service
    /\ levels \in Seq(SUBSET Service)
    /\ path \in Seq(Service)
    /\ closing \in {"idle", "run", "ok"}
    /\ seen \in SUBSET Service
    /\ queue \in SUBSET Service

Placed(n) == UNION {levels[i] : i \in 1..n}

(***************************************************************************)
(* Every level depends only on the levels before it, a service is in at    *)
(* most one level, and the levels hold every service TopoSort has taken    *)
(* out of remaining: the promise in TopoSort's comment that level[i+1]     *)
(* depends only on services in level[<=i].                                 *)
(***************************************************************************)
LevelsRespectDeps ==
    /\ \A i \in 1..Len(levels) : \A s \in levels[i] :
         \A d \in Deps(plan, s) : \E j \in 1..(i - 1) : d \in levels[j]
    /\ \A i, j \in 1..Len(levels) : i # j => levels[i] \cap levels[j] = {}
    /\ sort = "ok" => Placed(Len(levels)) = plan.services

(***************************************************************************)
(* The cycle a CycleError reports is one: every service on it depends on   *)
(* the next, its last is its first, and each is a service of the project   *)
(* (findCycle's contract, and its claim that the dead end is unreachable   *)
(* is what makes the walk always get here).                                *)
(***************************************************************************)
ReportedCycleIsACycle ==
    sort = "cycle" =>
        /\ Len(path) >= 2
        /\ path[1] = path[Len(path)]
        /\ \A i \in 1..(Len(path) - 1) : path[i + 1] \in Deps(plan, path[i])

(***************************************************************************)
(* What ServiceClosure promises: exactly the least set that holds the      *)
(* named services and, with every service of the project in it, the        *)
(* services that one depends on.                                           *)
(***************************************************************************)
ClosedUnderEdges(p, set) ==
    \A s \in set \cap p.services : serviceEdges(p, s) \subseteq set

ClosureIsLeast ==
    closing = "ok" =>
        /\ plan.names \subseteq seen
        /\ ClosedUnderEdges(plan, seen)
        /\ \A T \in SUBSET Service :
             plan.names \subseteq T /\ ClosedUnderEdges(plan, T)
                 => seen \subseteq T

(***************************************************************************)
(* TopoSort and ServiceClosure return on every project, cyclic ones        *)
(* included: neither Kahn's loop nor findCycle's walk nor the closure's    *)
(* queue runs for ever.                                                    *)
(***************************************************************************)
GraphTerminates ==
    <>(sort \in {"ok", "cycle"} /\ closing = "ok")

----------------------------------------------------------------------------
(***************************************************************************)
(* The invariants behind those properties.  SortInv: a service has left    *)
(* remaining exactly when it is in a level, and it left together with its  *)
(* level, after all its dependencies.                                      *)
(***************************************************************************)
DepsBelow ==
    \A i \in 1..Len(levels) : \A s \in levels[i] :
        \A d \in Deps(plan, s) : \E j \in 1..(i - 1) : d \in levels[j]

Disjoint ==
    \A i, j \in 1..Len(levels) : i # j => levels[i] \cap levels[j] = {}

SortInv ==
    /\ remaining \subseteq plan.services
    /\ \A i \in 1..Len(levels) : levels[i] \subseteq plan.services \ remaining
    /\ \A s \in plan.services \ remaining :
         \E i \in 1..Len(levels) : s \in levels[i]
    /\ DepsBelow
    /\ Disjoint
    /\ sort = "ok" => remaining = {}

(* findCycle's walk stays among services that wait for one another.        *)
WalkInv ==
    /\ sort \in {"walk", "cycle"} =>
         /\ Len(path) >= 1
         /\ \A i \in 1..(Len(path) - 1) : path[i + 1] \in Deps(plan, path[i])
    /\ sort = "walk" => \A i \in 1..Len(path) : path[i] \in remaining
    /\ sort = "cycle" => Len(path) >= 2 /\ path[1] = path[Len(path)]

(***************************************************************************)
(* ClosureInv: what has been seen is needed, and what it needs has been    *)
(* seen or is queued.                                                      *)
(***************************************************************************)
ClosureInv ==
    closing # "idle" =>
        /\ plan.names \subseteq seen \cup queue
        /\ \A s \in seen \cap plan.services :
             serviceEdges(plan, s) \subseteq seen \cup queue
        /\ \A T \in SUBSET Service :
             plan.names \subseteq T /\ ClosedUnderEdges(plan, T)
                 => seen \cup queue \subseteq T
        /\ closing = "ok" => queue = {}

GraphInv == GraphTypeOK /\ SortInv /\ WalkInv /\ ClosureInv

=============================================================================
