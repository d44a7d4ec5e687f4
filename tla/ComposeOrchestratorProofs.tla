---------------------- MODULE ComposeOrchestratorProofs ----------------------
(***************************************************************************)
(* Orchestrator.Up is correct for every set of services, every plan and    *)
(* every combination of failing runtime calls.                             *)
(***************************************************************************)
EXTENDS ComposeOrchestrator, ComposeGraphProofs

(* The containers the model builds are containers.                         *)
LEMMA ContainerTypes ==
    /\ NoContainer \in ContainerType
    /\ NoRequirement \in RequirementType
    /\ SomeVersion \in Version
    /\ \A c \in ContainerType : \A code \in {0, 1} :
         Started(c) \in ContainerType /\ Stopped(c, code) \in ContainerType
    /\ OrchTypeOK => \A s \in Service : NewContainer(s) \in ContainerType
  <1>1. SomeVersion \in Version
    BY OrchestratorAssumption DEF SomeVersion
  <1>2. NoHash \in HashType
    BY <1>1 DEF NoHash, HashType, Identity
  <1>3. NoContainer \in ContainerType
    BY <1>1, <1>2 DEF NoContainer, ContainerType, Identity, Health
  <1>4. NoRequirement \in RequirementType
    BY DEF NoRequirement, RequirementType, Condition
  <1>5. \A c \in ContainerType : \A code \in {0, 1} :
          Started(c) \in ContainerType /\ Stopped(c, code) \in ContainerType
    <2> SUFFICES ASSUME NEW c \in ContainerType, NEW code \in {0, 1}
                 PROVE  /\ Started(c) \in ContainerType
                        /\ Stopped(c, code) \in ContainerType
      OBVIOUS
    <2>1. Started(c) \in ContainerType
      BY DEF ContainerType, Started, Health
    <2>2. Stopped(c, code) \in ContainerType
      BY DEF ContainerType, Stopped, Health
    <2>3. QED
      BY <2>1, <2>2
  <1>6. ASSUME OrchTypeOK, NEW s \in Service
        PROVE  NewContainer(s) \in ContainerType
    <2>1. ConfigHash(s, digest[s]) \in HashType
      BY <1>6 DEF OrchTypeOK, GraphTypeOK, PlanType, ConfigHash, HashType
    <2>2. QED
      BY <1>6, <2>1 DEF OrchTypeOK, NewContainer, ContainerType, Health
  <1>7. QED
    BY <1>1, <1>3, <1>4, <1>5, <1>6

(* Every requirement gateLevel may keep is a requirement.                  *)
LEMMA CandidatesType ==
    ASSUME OrchTypeOK, NEW d \in Service
    PROVE  Candidates(d) \subseteq RequirementType
  <1>1. \A s \in Service : Requires(s, d) \in RequirementType
    BY DEF OrchTypeOK, GraphTypeOK, PlanType, Requires, RequirementType
  <1>2. Dependents(d) \subseteq Service
    BY DEF OrchTypeOK, Dependents
  <1>3. QED
    BY <1>1, <1>2, ContainerTypes DEF Candidates

(* A goroutine's step only moves its own service and reports once.         *)
LEMMA EnsureType ==
    ASSUME OrchTypeOK, NEW s \in Service, ensureService(s)
    PROVE  OrchTypeOK'
  <1> USE DEF OrchTypeOK, taskFrame, graphVars, gateVars, downVars, callVars,
              TaskPhase
  <1>0. GraphTypeOK' /\ UNCHANGED taskFrame
    BY DEF ensureService, Probe, InspectContainer, StartExisting, StopDrifted,
           RemoveDrifted, RunContainer, PullImage, StartContainer, GraphTypeOK
  <1>a. \A t \in TaskPhase : Go(s, t) =>
          /\ task' \in [Service -> TaskPhase] /\ ids' = ids /\ failed' = failed
    BY DEF Go
  <1>b. Succeed(s) \/ Fail(s) =>
          /\ task' \in [Service -> TaskPhase]
          /\ ids' \in SUBSET Service /\ failed' \in SUBSET Service
    BY DEF Succeed, Fail
  <1>c. \A x : Adopt(s, x) =>
          /\ task' \in [Service -> TaskPhase]
          /\ ids' \in SUBSET Service /\ failed' \in SUBSET Service
    BY <1>a, <1>b DEF Adopt
  <1>1. CASE Probe(s)
    <2>1. resolveImageDigest(s) \in Identity
      BY DEF resolveImageDigest, Identity
    <2>2. ctr[s].state \in {"none", "created", "running", "exited"}
      BY DEF ContainerType
    <2>3. QED
      BY <1>1, <2>1, <2>2, <1>0, <1>a, <1>b, <1>c DEF Probe, Identity
  <1>2. CASE InspectContainer(s)
    BY <1>2, <1>0, <1>a, <1>b, <1>c DEF InspectContainer
  <1>3. CASE StartExisting(s) \/ StartContainer(s)
    BY <1>3, <1>0, <1>b, ContainerTypes DEF StartExisting, StartContainer
  <1>4. CASE StopDrifted(s)
    BY <1>4, <1>0, <1>a, ContainerTypes DEF StopDrifted
  <1>5. CASE RemoveDrifted(s)
    BY <1>5, <1>0, <1>a, <1>b, ContainerTypes DEF RemoveDrifted
  <1>6. CASE RunContainer(s)
    BY <1>6, <1>0, <1>a, <1>b, ContainerTypes DEF RunContainer
  <1>7. CASE PullImage(s)
    BY <1>7, <1>0, <1>a, <1>b DEF PullImage
  <1>8. QED
    BY <1>1, <1>2, <1>3, <1>4, <1>5, <1>6, <1>7 DEF ensureService

(* The calling goroutine's steps and a crash.                              *)
LEMMA MainType ==
    ASSUME OrchTypeOK,
           \/ Main \/ Tick \/ Crash \/ Environment
           \/ \E s \in Service : GateCancelled(s)
    PROVE  OrchTypeOK'
  <1> USE DEF OrchTypeOK, UpPhase, taskVars, gateVars, downVars, callVars,
              engineVars
  <1>1. CASE UpSort
    BY <1>1, SortNextType DEF UpSort
  <1>2. CASE UpSorted
    BY <1>2 DEF UpSorted, graphVars, GraphTypeOK, Return, Proceed
  <1>3. CASE CreateNetwork
    BY <1>3 DEF CreateNetwork, graphVars, GraphTypeOK, Return, Proceed
  <1>4. CASE ensureNamedVolumes
    BY <1>4 DEF ensureNamedVolumes, ClosureStart, graphVars, GraphTypeOK,
                Return, Proceed, sortVars, closureVars, PlanType
  <1>5. CASE UpClosure
    <2>1. GraphTypeOK'
      BY <1>5 DEF UpClosure, ClosureNext, ClosureSkip, ClosureVisit,
                  ClosureDone, GraphTypeOK, sortVars, closureVars,
                  serviceEdges, PlanType
    <2>2. QED
      BY <1>5, <2>1 DEF UpClosure
  <1>6. CASE makeKeepSet
    <2>1. keep' \in SUBSET Service
      BY <1>6 DEF makeKeepSet, GraphTypeOK, PlanType
    <2>2. task' \in [Service -> TaskPhase] /\ lvl' \in Nat
      BY <1>6 DEF makeKeepSet, LaunchLevel, TaskPhase
    <2>3. GraphTypeOK'
      BY <1>6 DEF makeKeepSet, graphVars, GraphTypeOK
    <2>4. pc' \in {"level", "idle"} /\ outcome' \in {outcome, "ok"}
      BY <1>6 DEF makeKeepSet, LaunchLevel, Return, Proceed
    <2>5. QED
      BY <1>6, <2>1, <2>2, <2>3, <2>4 DEF makeKeepSet
  <1>7. CASE JoinLevel
    <2>1. required' \in [Service -> RequirementType]
      BY <1>7, CandidatesType DEF JoinLevel
    <2>2. GraphTypeOK'
      BY <1>7 DEF JoinLevel, graphVars, GraphTypeOK
    <2>3. task' \in [Service -> TaskPhase]
      BY <1>7 DEF JoinLevel, NextLevel, LaunchLevel, TaskPhase
    <2>4. QED
      BY <1>7, <2>1, <2>2, <2>3
         DEF JoinLevel, NextLevel, LaunchLevel, Return, Proceed, EndTasks,
             Identity
  <1>8. CASE GateDone
    <2>1. task' \in [Service -> TaskPhase]
      BY <1>8 DEF GateDone, NextLevel, LaunchLevel, TaskPhase
    <2>2. GraphTypeOK'
      BY <1>8 DEF GateDone, gateFrame, graphVars, GraphTypeOK
    <2>3. QED
      BY <1>8, <2>1, <2>2, ContainerTypes
         DEF GateDone, NextLevel, LaunchLevel, Return, Proceed, EndGate,
             gateFrame
  <1>9. ASSUME NEW s \in Service, Gate(s) \/ GateCancelled(s)
        PROVE  OrchTypeOK'
    <2>1. GraphTypeOK'
      BY <1>9 DEF Gate, WaitFor, GatePass, GateError, GateCancelled, GiveUp,
                  gateFrame, graphVars, GraphTypeOK
    <2>2. QED
      BY <1>9, <2>1, ContainerTypes
         DEF Gate, WaitFor, GatePass, GateError, GateCancelled, GiveUp,
             gateFrame, Waited, EndGate, Return
  <1>10. CASE DownSort
    <2>1. GraphTypeOK'
      BY <1>10, SortNextType DEF DownSort, graphVars, GraphTypeOK
    <2>2. QED
      BY <1>10, <2>1 DEF DownSort
  <1>11. ASSUME NEW s \in Service, DownContainer(s)
         PROVE  OrchTypeOK'
    BY <1>11, ContainerTypes
       DEF DownContainer, Return, graphVars, GraphTypeOK
  <1>12. CASE DownRest
    BY <1>12 DEF DownRest, Return, graphVars, GraphTypeOK
  <1>13. CASE Tick
    BY <1>13 DEF Tick, envFrame, graphVars, GraphTypeOK
  <1>14. CASE Crash
    BY <1>14, ContainerTypes
       DEF Crash, Return, EndTasks, EndGate, graphVars, GraphTypeOK, TaskPhase,
           Identity
  <1>15. ASSUME NEW s \in Service, ContainerExits(s)
         PROVE  OrchTypeOK'
    BY <1>15, ContainerTypes
       DEF ContainerExits, envFrame, graphVars, GraphTypeOK
  <1>16. ASSUME NEW s \in Service, HealthChanges(s)
         PROVE  OrchTypeOK'
    <2>1. PICK h \in {"healthy", "unhealthy"} :
            ctr' = [ctr EXCEPT ![s].health = h]
      BY <1>16 DEF HealthChanges
    <2>2. [ctr[s] EXCEPT !.health = h] \in ContainerType
      <3>1. ctr[s] \in ContainerType /\ h \in Health
        BY DEF Health
      <3>2. QED
        BY <3>1 DEF ContainerType
    <2>3. ctr' = [ctr EXCEPT ![s] = [ctr[s] EXCEPT !.health = h]]
      BY <2>1
    <2>4. ctr' \in [Service -> ContainerType]
      BY <2>2, <2>3
    <2>5. QED
      BY <1>16, <2>4 DEF HealthChanges, envFrame, graphVars, GraphTypeOK
  <1>17. ASSUME NEW s \in Service, EditEntry(s) \/ Retag(s)
         PROVE  OrchTypeOK'
    BY <1>17 DEF EditEntry, Retag, envFrame, graphVars, GraphTypeOK
  <1>18. QED
    BY <1>1, <1>2, <1>3, <1>4, <1>5, <1>6, <1>7, <1>8, <1>9, <1>10, <1>11,
       <1>12, <1>13, <1>14, <1>15, <1>16, <1>17
       DEF Main, Environment

(* The start of a call.                                                    *)
LEMMA CallType ==
    ASSUME OrchTypeOK,
           \/ \E p \in Plans : UpStart(p) \/ UpRefused(p)
           \/ \E d \in DownPlans : DownStart(d)
    PROVE  OrchTypeOK'
  <1> USE PlansAssumption, OrchestratorAssumption
      DEF OrchTypeOK, GraphTypeOK, UpPhase, TaskPhase, SortStart, gateVars,
          downVars, engineVars, closureVars, sortVars, Call
  <1>1. ASSUME NEW p \in Plans, UpStart(p)
        PROVE  OrchTypeOK'
    <2>1. p \in PlanType /\ p.services \subseteq Service
      BY DEF PlanType
    <2>2. QED
      BY <1>1, <2>1 DEF UpStart
  <1>2. ASSUME NEW d \in DownPlans, DownStart(d)
        PROVE  OrchTypeOK'
    <2>1. d \in DownPlanType
      BY DEF DownPlanType
    <2>2. \A p \in Plans : p \in PlanType /\ p.services \subseteq Service
      BY DEF PlanType
    <2>3. /\ down' \in DownPlanType /\ victims' \in SUBSET Service
          /\ task' \in [Service -> TaskPhase]
          /\ calls' \in Nat
          /\ pc' \in {"idle", "downsort", "down"}
          /\ outcome' \in {"none", "downfail"}
          /\ ids' = {} /\ failed' = {}
      BY <1>2, <2>1 DEF DownStart, Return
    <2>4. GraphTypeOK'
      <3>1. CASE UNCHANGED graphVars
        BY <3>1 DEF graphVars
      <3>2. CASE plan' \in Plans /\ SortStart(plan') /\ UNCHANGED closureVars
        BY <3>2, <2>2
      <3>3. QED
        BY <1>2, <3>1, <3>2 DEF DownStart
    <2>5. UNCHANGED <<engineVars, digest, listed, gateVars, keep, lvl>>
      BY <1>2 DEF DownStart
    <2>6. QED
      BY <2>3, <2>4, <2>5
  <1>3. ASSUME NEW p \in Plans, UpRefused(p)
        PROVE  OrchTypeOK'
    BY <1>3 DEF UpRefused, graphVars, taskVars
  <1>4. QED
    BY <1>1, <1>2, <1>3

(* Type correctness is inductive on its own.                               *)
LEMMA TypeStep == OrchTypeOK /\ [OrchNext]_orchVars => OrchTypeOK'
  <1> SUFFICES ASSUME OrchTypeOK, [OrchNext]_orchVars
               PROVE  OrchTypeOK'
    OBVIOUS
  <1>1. CASE UNCHANGED orchVars
    BY <1>1 DEF orchVars, OrchTypeOK, GraphTypeOK, graphVars, engineVars,
                taskVars, gateVars, downVars, callVars
  <1>2. QED
    BY <1>1, EnsureType, MainType, CallType DEF OrchNext

LEMMA TypeInit == OrchInit => OrchTypeOK
  <1> SUFFICES ASSUME OrchInit PROVE OrchTypeOK
    OBVIOUS
  <1>1. GraphTypeOK
    BY PlansAssumption DEF OrchInit, GraphTypeOK
  <1>2. /\ ctr \in [Service -> ContainerType]
        /\ image \in [Service -> Digest \cup {"absent"}]
    BY InitialAssumption DEF OrchInit
  <1>3. /\ entry \in [Service -> Version]
        /\ required \in [Service -> RequirementType]
    BY ContainerTypes DEF OrchInit
  <1>4. /\ task \in [Service -> TaskPhase]
        /\ digest \in [Service -> Identity]
        /\ listed \in [Service -> {"none", "created", "running", "exited"}]
        /\ met \in [Service -> SUBSET Gated]
    BY DEF OrchInit, TaskPhase, Identity
  <1>5. down \in DownPlanType
    BY DEF OrchInit, DownPlanType
  <1>6. QED
    BY <1>1, <1>2, <1>3, <1>4, <1>5 DEF OrchInit, OrchTypeOK

(***************************************************************************)
(* Type correctness of the orchestrator, for every set of services.        *)
(***************************************************************************)
THEOREM OrchestratorType == OrchSpec => []OrchTypeOK
  BY TypeInit, TypeStep, PTL DEF OrchSpec

----------------------------------------------------------------------------
(***************************************************************************)
(* What one step of a service's goroutine does to the shared state: it     *)
(* moves its own task only, and reports its container once it has been     *)
(* started.                                                                *)
(***************************************************************************)
GoroutineStep(s) ==
    /\ UNCHANGED <<graphVars, gateVars, downVars, callVars>>
    /\ task[s] \notin Finished /\ task'[s] # "none"
    /\ \A t \in Service \ {s} :
         task'[t] = task[t] /\ ctr'[t] = ctr[t] /\ listed'[t] = listed[t]
    /\ \/ task'[s] \notin Finished /\ ids' = ids /\ failed' = failed
       \/ task'[s] = "ok" /\ ids' = ids \cup {s} /\ failed' = failed
       \/ /\ task'[s] = "fail" /\ ids' = ids
          /\ failed' = IF failed = {} THEN {s} ELSE failed
    /\ HealthConsistent(ctr'[s])
    /\ task'[s] = "ok" => ctr'[s].state \in {"running", "exited"}
    /\ task'[s] = "inspect" /\ listed'[s] = "running" =>
         ctr'[s].state \in {"running", "exited"}

LEMMA HealthKept ==
    ASSUME NEW c \in ContainerType
    PROVE  /\ HealthConsistent(Started(c)) /\ HealthConsistent(NoContainer)
           /\ Started(c).state = "running"
           /\ \A code \in {0, 1} : /\ HealthConsistent(Stopped(c, code))
                                   /\ Stopped(c, code).state = "exited"
  <1>1. HealthConsistent(Started(c)) /\ Started(c).state = "running"
    BY DEF HealthConsistent, Started, ContainerType
  <1>2. HealthConsistent(NoContainer)
    BY DEF HealthConsistent, NoContainer
  <1>3. ASSUME NEW code \in {0, 1}
        PROVE  /\ HealthConsistent(Stopped(c, code))
               /\ Stopped(c, code).state = "exited"
    BY DEF HealthConsistent, Stopped, ContainerType
  <1>4. QED
    BY <1>1, <1>2, <1>3

(* Every action of ensureService is such a step.                           *)
LEMMA EnsureStep ==
    ASSUME OrchTypeOK, ContainerPart, NEW s \in Service, ensureService(s)
    PROVE  GoroutineStep(s)
  <1> USE DEF OrchTypeOK, TaskPhase, Finished
  <1>0. UNCHANGED <<graphVars, gateVars, downVars, callVars>>
    BY DEF ensureService, Probe, InspectContainer, StartExisting, StopDrifted,
           RemoveDrifted, RunContainer, PullImage, StartContainer, taskFrame
  <1>1. HealthConsistent(ctr[s]) /\ ctr[s] \in ContainerType
    BY DEF ContainerPart
  <1>2. \A x \in TaskPhase \ Finished : Go(s, x) =>
          /\ task' = [task EXCEPT ![s] = x] /\ ids' = ids /\ failed' = failed
    BY DEF Go
  <1>3. CASE Probe(s)
    BY <1>0, <1>1, <1>3, <1>2
       DEF Probe, Adopt, Go, Succeed, Fail, GoroutineStep, ContainerType
  <1>4. CASE InspectContainer(s)
    BY <1>0, <1>1, <1>4
       DEF InspectContainer, Adopt, Go, Succeed, Fail, GoroutineStep,
           ContainerPart
  <1>5. CASE StartExisting(s) \/ StartContainer(s)
    BY <1>0, <1>1, <1>5, HealthKept
       DEF StartExisting, StartContainer, Succeed, Fail, GoroutineStep
  <1>6. CASE StopDrifted(s)
    BY <1>0, <1>1, <1>6, HealthKept DEF StopDrifted, Go, GoroutineStep
  <1>7. CASE RemoveDrifted(s)
    BY <1>0, <1>1, <1>7, HealthKept DEF RemoveDrifted, Go, Fail, GoroutineStep
  <1>8. CASE RunContainer(s)
    <2>1. HealthConsistent(NewContainer(s))
      BY DEF HealthConsistent, NewContainer
    <2>2. QED
      BY <1>0, <1>1, <1>8, <2>1 DEF RunContainer, Go, Fail, GoroutineStep
  <1>9. CASE PullImage(s)
    BY <1>0, <1>1, <1>9 DEF PullImage, Go, Fail, GoroutineStep
  <1>10. QED
    BY <1>3, <1>4, <1>5, <1>6, <1>7, <1>8, <1>9 DEF ensureService

(* A goroutine's step preserves the invariant.                             *)
LEMMA EnsureInv ==
    ASSUME OrchInv, NEW s \in Service, ensureService(s)
    PROVE  OrchInv'
  <1>1. OrchTypeOK /\ OrchTypeOK'
    BY EnsureType DEF OrchInv
  <1>2. GoroutineStep(s)
    BY EnsureStep DEF OrchInv
  <1>3. /\ pc = "level" /\ pc' = "level" /\ lvl' = lvl /\ keep' = keep
        /\ plan' = plan /\ levels' = levels /\ sort' = sort
        /\ outcome' = outcome
    BY <1>1, <1>2
       DEF OrchInv, TaskPart, GoroutineStep, callVars, graphVars
  <1>4. /\ ids \subseteq ids' /\ s \notin ids
        /\ \A t \in Service : task'[t] = "none" <=> task[t] = "none"
    BY <1>2 DEF OrchInv, TaskPart, GoroutineStep, Finished
  <1>5. GraphPart'
    BY <1>2, <1>3
       DEF OrchInv, GraphPart, GoroutineStep, graphVars, SortInv, DepsBelow,
           Disjoint, Levelled, UpPhase, Validate
  <1>6. TaskPart'
    <2>1. \A t \in Service : task'[t] = "ok" <=> t \in ids'
      BY <1>1, <1>2 DEF OrchInv, TaskPart, GoroutineStep, Finished
    <2>2. /\ \A t \in Service : task'[t] = "fail" => failed' # {}
          /\ \A f \in failed' : task'[f] = "fail"
      <3>1. failed \subseteq Service
        BY <1>1 DEF OrchTypeOK
      <3>2. QED
        BY <1>2, <3>1 DEF OrchInv, TaskPart, GoroutineStep, Finished
    <2>3. QED
      BY <1>3, <1>4, <2>1, <2>2 DEF OrchInv, TaskPart
  <1>7. LevelPart'
    <2>1. Deps(plan, s)' = Deps(plan, s) /\ \A t : Deps(plan', t) = Deps(plan, t)
      BY <1>3
    <2>2. levels \in Seq(SUBSET Service)
      BY <1>1 DEF OrchTypeOK, GraphTypeOK
    <2>3. QED
      BY <1>3, <1>4, <2>2 DEF OrchInv, LevelPart
  <1>8. ContainerPart'
    BY <1>1, <1>2, <1>4
       DEF OrchInv, TaskPart, ContainerPart, GoroutineStep, Finished,
           OrchTypeOK
  <1>9. OutcomePart'
    BY <1>3 DEF OrchInv, OutcomePart
  <1>10. DepsStartedFirst'
    BY <1>3, <1>4 DEF OrchInv, DepsStartedFirst
  <1>11. QED
    BY <1>1, <1>5, <1>6, <1>7, <1>8, <1>9, <1>10 DEF OrchInv

(***************************************************************************)
(* Launching level i: the levels before it are up, so the goroutines it    *)
(* launches find their dependencies; past the last level every selected    *)
(* service is up.                                                          *)
(***************************************************************************)
LEMMA LaunchInv ==
    ASSUME OrchTypeOK, OrchTypeOK', NEW i \in Nat \ {0},
           lvl' = i, LaunchLevel(i, keep'),
           SortInv, sort = "ok", UNCHANGED graphVars,
           ids' = ids, failed' = {}, outcome \notin {"ok", "partial"},
           \A s \in keep' \cap plan.services : Deps(plan, s) \subseteq keep',
           \A j \in 1..Len(levels) : j < i => levels[j] \cap keep' \subseteq ids,
           \A j \in 1..Len(levels) : j >= i =>
               \A s \in levels[j] : task[s] = "none",
           \A s \in Service : task[s] # "none" =>
               s \in keep' \cap plan.services /\ Deps(plan, s) \subseteq ids,
           \A s \in Service : task[s] \in {"none", "ok"},
           \A s \in Service : task[s] = "ok" <=> s \in ids
    PROVE  TaskPart' /\ LevelPart' /\ OutcomePart' /\ DepsStartedFirst'
  <1>0. /\ levels \in Seq(SUBSET Service) /\ plan' = plan /\ levels' = levels
        /\ plan.services \subseteq Service /\ task \in [Service -> TaskPhase]
        /\ ids \subseteq Service /\ Len(levels) \in Nat
    BY EdgesType DEF OrchTypeOK, GraphTypeOK, graphVars, PlanType
  <1>1. CASE i \notin 1..Len(levels)
    <2>1. task' = task /\ pc' = "idle" /\ outcome' = "ok"
      BY <1>1 DEF LaunchLevel, Return
    <2>2. \A s \in keep' \cap plan.services : s \in ids
      BY <1>0, <1>1 DEF SortInv
    <2>3. ids' = keep' \cap plan.services
      BY <1>0, <2>2
    <2>4. TaskPart'
      BY <1>0, <2>1 DEF TaskPart, Finished
    <2>5. LevelPart' /\ OutcomePart'
      BY <1>0, <2>1, <2>3 DEF LevelPart, OutcomePart
    <2>6. DepsStartedFirst'
      BY <1>0, <2>1 DEF DepsStartedFirst
    <2>7. QED
      BY <2>4, <2>5, <2>6
  <1>2. CASE i \in 1..Len(levels)
    <2> DEFINE new == levels[i] \cap keep' \cap plan.services
    <2>1. /\ task' = [s \in Service |-> IF s \in new THEN "probe" ELSE task[s]]
          /\ pc' = "level" /\ outcome' = outcome
      BY <1>2 DEF LaunchLevel, Proceed
    <2>2. levels[i] \subseteq plan.services
      BY <1>2 DEF SortInv
    <2>3. ASSUME NEW s \in new, NEW d \in Deps(plan, s)
          PROVE  d \in ids
      <3>1. PICK j \in 1..(i - 1) : d \in levels[j]
        BY <1>2 DEF SortInv, DepsBelow
      <3>2. j \in 1..Len(levels) /\ j < i
        BY <1>0, <1>2
      <3>3. QED
        BY <3>1, <3>2
    <2>4. /\ \A s \in Service : task'[s] = "ok" <=> s \in ids'
          /\ \A s \in Service : task'[s] # "fail"
      BY <1>0, <1>2, <2>1
    <2>5. TaskPart'
      BY <1>0, <2>1, <2>4 DEF TaskPart
    <2>6. \A s \in Service : task'[s] # "none" =>
            s \in keep' /\ Deps(plan, s) \subseteq ids
      BY <1>0, <2>1, <2>3
    <2>7. DepsStartedFirst'
      BY <1>0, <2>6 DEF DepsStartedFirst
    <2>8. ASSUME NEW j \in (i + 1)..Len(levels), NEW s \in levels[j]
          PROVE  task'[s] = "none"
      <3>1. j \in 1..Len(levels) /\ j >= i /\ j # i
        BY <1>0, <1>2
      <3>2. s \notin levels[i] /\ s \in Service
        BY <1>0, <1>2, <3>1 DEF SortInv, Disjoint
      <3>3. QED
        BY <2>1, <3>1, <3>2
    <2>9. \A s \in levels[i] \cap keep' : task'[s] # "none"
      BY <1>0, <2>1, <2>2
    <2>10. LevelPart'
      <3>1. \A j \in 1..(i - 1) : levels[j] \cap keep' \subseteq ids
        BY <1>0, <1>2
      <3>2. \A s \in keep' \cap plan.services : Deps(plan', s) \subseteq keep'
        BY <1>0
      <3>3. QED
        BY <1>0, <1>2, <2>1, <2>8, <2>9, <3>1, <3>2 DEF LevelPart
    <2>11. OutcomePart'
      BY <2>1 DEF OutcomePart
    <2>12. QED
      BY <2>5, <2>7, <2>10, <2>11
  <1>3. QED
    BY <1>1, <1>2

(* makeKeepSet's selection is closed under dependencies.                   *)
LEMMA KeepClosed ==
    ASSUME OrchTypeOK, GraphPart, makeKeepSet
    PROVE  \A s \in keep' \cap plan.services : Deps(plan, s) \subseteq keep'
  <1>1. pc = "keep" /\ ClosureInv /\ closing # "idle"
    BY DEF GraphPart, makeKeepSet
  <1>2. CASE plan.names = {}
    BY <1>2 DEF makeKeepSet, Deps
  <1>3. CASE plan.names # {}
    <2>1. queue = {} /\ keep' = seen
      BY <1>1, <1>3 DEF makeKeepSet, ClosureInv
    <2>2. QED
      BY <1>1, <2>1 DEF ClosureInv, Deps
  <1>4. QED
    BY <1>2, <1>3

(* The steps before the first level.                                       *)
LEMMA PrepareInv ==
    ASSUME OrchInv,
           UpSort \/ UpSorted \/ CreateNetwork \/ ensureNamedVolumes
             \/ UpClosure \/ makeKeepSet
    PROVE  OrchInv'
  <1> USE DEF OrchInv
  <1>1. OrchTypeOK'
    BY MainType DEF Main
  <1>2. CASE makeKeepSet
    <2>1. /\ pc = "keep" /\ sort = "ok" /\ SortInv /\ lvl' = 1
          /\ LaunchLevel(1, keep') /\ UNCHANGED graphVars
          /\ ids' = ids /\ failed' = failed /\ ctr' = ctr
      BY <1>2 DEF makeKeepSet, GraphPart, Levelled, UpPhase, Validate, engineVars
    <2>2. \A s \in Service : task[s] = "none"
      BY <2>1 DEF TaskPart
    <2>3. ids = {} /\ failed = {}
      BY <2>2 DEF TaskPart, OrchTypeOK
    <2>4. outcome \notin {"ok", "partial"}
      BY <2>1 DEF OutcomePart
    <2>5. TaskPart' /\ LevelPart' /\ OutcomePart' /\ DepsStartedFirst'
      <3>1. /\ \A j \in 1..Len(levels) : j < 1 => levels[j] \cap keep' \subseteq ids
            /\ \A j \in 1..Len(levels) : j >= 1 =>
                 \A s \in levels[j] : task[s] = "none"
        BY <2>2 DEF OrchTypeOK, GraphTypeOK
      <3>2. \A s \in keep' \cap plan.services : Deps(plan, s) \subseteq keep'
        BY <1>2, KeepClosed
      <3>3. 1 \in Nat \ {0} /\ failed' = {}
        BY <2>1, <2>3
      <3>4. /\ \A s \in Service : task[s] # "none" =>
                 s \in keep' \cap plan.services /\ Deps(plan, s) \subseteq ids
            /\ \A s \in Service : task[s] \in {"none", "ok"}
            /\ \A s \in Service : task[s] = "ok" <=> s \in ids
        BY <2>2, <2>3
      <3>5. QED
        BY <1>1, <2>1, <2>4, <3>1, <3>2, <3>3, <3>4, LaunchInv
    <2>6. GraphPart'
      BY <2>1 DEF GraphPart, graphVars, SortInv, DepsBelow, Disjoint,
                  LaunchLevel, Proceed, Return, Levelled, UpPhase, Validate
    <2>7. \A s \in Service : task'[s] # "inspect"
      BY <2>1, <2>2 DEF LaunchLevel
    <2>8. ContainerPart'
      BY <2>1, <2>3, <2>7 DEF ContainerPart
    <2>9. QED
      BY <1>1, <2>5, <2>6, <2>8
  <1>3. CASE UpSort
    <2>1. /\ pc = "sort" /\ pc' = "sort" /\ SortInv' /\ plan' = plan
      BY <1>3, SortNextType, SortNextSortInv
         DEF UpSort, GraphPart, OrchTypeOK, callVars
    <2>2. sort' # "idle"
      BY <1>3 DEF UpSort, SortNext, SortLevel, SortDone, SortStuck, WalkOn,
                  WalkClose
    <2>3. GraphPart'
      BY <2>1, <2>2 DEF GraphPart, Levelled, UpPhase, Validate
    <2>4. UNCHANGED <<ctr, task, listed, ids, failed, pc, keep, lvl, outcome>>
      BY <1>3 DEF UpSort, taskVars, callVars, engineVars
    <2>5. \A s \in Service : task'[s] = "none"
      BY <2>1, <2>4 DEF TaskPart
    <2>6. QED
      BY <1>1, <2>1, <2>3, <2>4, <2>5
         DEF TaskPart, LevelPart, ContainerPart, OutcomePart, DepsStartedFirst
  <1>4. CASE UpSorted \/ CreateNetwork \/ ensureNamedVolumes \/ UpClosure
    <2>1. /\ pc \in {"sort", "network", "volumes", "keep"}
          /\ pc' \in {"network", "volumes", "keep", "idle"}
          /\ pc' # "idle" => outcome' = outcome
          /\ outcome' \in {outcome, "cycle", "infrastructure"}
          /\ UNCHANGED <<plan, sort, remaining, levels>>
          /\ UNCHANGED <<ctr, task, listed, ids, failed, keep, lvl>>
      <3>1. CASE UpClosure
        <4>1. UNCHANGED <<plan, sortVars>>
          BY <3>1 DEF UpClosure, ClosureNext, ClosureSkip, ClosureVisit,
                      ClosureDone
        <4>2. QED
          BY <3>1, <4>1 DEF UpClosure, sortVars, callVars, taskVars, engineVars
      <3>2. QED
        BY <1>4, <3>1
           DEF UpSorted, CreateNetwork, ensureNamedVolumes, Return, Proceed,
               graphVars, sortVars, taskVars, engineVars
    <2>2. \A s \in Service : task[s] = "none"
      BY <2>1 DEF TaskPart
    <2>3. outcome \notin {"ok", "partial"}
      BY <2>1 DEF OutcomePart
    <2>4. TaskPart' /\ LevelPart' /\ OutcomePart' /\ DepsStartedFirst'
      BY <2>1, <2>2, <2>3
         DEF TaskPart, LevelPart, OutcomePart, DepsStartedFirst, Finished
    <2>5. ContainerPart'
      BY <2>1 DEF ContainerPart
    <2>6. pc' \in Levelled => sort = "ok"
      BY <1>4, <2>1
         DEF UpSorted, GraphPart, Levelled, CreateNetwork,
             ensureNamedVolumes, UpClosure, Return, Proceed
    <2>7. pc' = "keep" => ClosureInv' /\ closing' # "idle"
      <3>1. CASE ensureNamedVolumes
        <4>1. SUFFICES ASSUME pc' = "keep" PROVE ClosureInv' /\ closing' # "idle"
          OBVIOUS
        <4>2. plan' = plan /\ closing' = "run" /\ seen' = {} /\ queue' = plan.names
          BY <3>1, <4>1, <2>1
             DEF ensureNamedVolumes, ClosureStart, Return
        <4>3. QED
          BY <4>2 DEF ClosureInv
      <3>2. CASE UpClosure
        <4>1. pc = "keep" /\ ClosureInv /\ ClosureNext
          BY <3>2 DEF UpClosure, GraphPart
        <4>2. closing' # "idle"
          BY <4>1 DEF ClosureNext, ClosureSkip, ClosureVisit, ClosureDone
        <4>3. QED
          BY <4>1, <4>2, ClosureNextInv DEF OrchTypeOK
      <3>3. QED
        BY <1>4, <3>1, <3>2 DEF UpSorted, CreateNetwork, Proceed, Return
    <2>8. GraphPart'
      BY <2>1, <2>6, <2>7
         DEF GraphPart, SortInv, DepsBelow, Disjoint, UpPhase, Validate
    <2>9. QED
      BY <1>1, <2>4, <2>5, <2>8
  <1>5. QED
    BY <1>2, <1>3, <1>4

(* Leaving a level that came up: the next one is launched, or Up is done.  *)
LEMMA NextLevelInv ==
    ASSUME OrchInv, OrchTypeOK', pc \in {"level", "gate"}, failed = {},
           \A s \in Service : task[s] \in Finished,
           NextLevel,
           UNCHANGED <<graphVars, ctr, ids, failed, keep>>
    PROVE  OrchInv'
  <1> USE DEF OrchInv
  <1>1. /\ levels \in Seq(SUBSET Service) /\ Len(levels) \in Nat
        /\ lvl \in 1..Len(levels) /\ sort = "ok" /\ SortInv
        /\ outcome \notin {"ok", "partial"}
    BY DEF OrchTypeOK, GraphTypeOK, LevelPart, GraphPart, Levelled, OutcomePart
  <1>2. \A s \in Service : task[s] \in {"none", "ok"}
    BY DEF TaskPart, Finished
  <1>3. levels[lvl] \cap keep \subseteq ids
    BY <1>1, <1>2 DEF LevelPart, TaskPart
  <1>4. \A j \in 1..Len(levels) : j < lvl + 1 =>
          levels[j] \cap keep \subseteq ids
    <2>1. \A j \in 1..Len(levels) : j < lvl + 1 => j = lvl \/ j \in 1..(lvl - 1)
      BY <1>1
    <2>2. QED
      BY <1>3, <2>1 DEF LevelPart
  <1>5. \A j \in 1..Len(levels) : j >= lvl + 1 =>
          \A s \in levels[j] : task[s] = "none"
    <2>1. \A j \in 1..Len(levels) : j >= lvl + 1 => j \in (lvl + 1)..Len(levels)
      BY <1>1
    <2>2. QED
      BY <2>1 DEF LevelPart
  <1>6. /\ \A s \in keep' \cap plan.services : Deps(plan, s) \subseteq keep'
        /\ \A s \in Service : task[s] # "none" =>
             s \in keep' \cap plan.services /\ Deps(plan, s) \subseteq ids
        /\ \A s \in Service : task[s] = "ok" <=> s \in ids
    BY DEF LevelPart, TaskPart, DepsStartedFirst
  <1>7. /\ lvl + 1 \in Nat \ {0} /\ lvl' = lvl + 1 /\ failed' = {}
        /\ LaunchLevel(lvl + 1, keep') /\ keep' = keep
    BY <1>1 DEF NextLevel
  <1>8. TaskPart' /\ LevelPart' /\ OutcomePart' /\ DepsStartedFirst'
    BY <1>1, <1>2, <1>4, <1>5, <1>6, <1>7, LaunchInv
  <1>9. GraphPart'
    BY <1>1, <1>7
       DEF GraphPart, graphVars, SortInv, DepsBelow, Disjoint, LaunchLevel,
           Proceed, Return, Levelled, UpPhase, Validate
  <1>10. \A s \in Service : task'[s] # "inspect"
    BY <1>2, <1>7 DEF LaunchLevel
  <1>11. ContainerPart'
    BY <1>10 DEF ContainerPart
  <1>12. QED
    BY <1>8, <1>9, <1>11

(* wg.Wait and gateLevel.                                                  *)
LEMMA GateInvStep ==
    ASSUME OrchInv,
           \/ JoinLevel \/ GateDone
           \/ \E s \in Service : Gate(s) \/ GateCancelled(s)
    PROVE  OrchInv'
  <1> USE DEF OrchInv
  <1>1. OrchTypeOK'
    BY MainType DEF Main
  <1>2. CASE GateDone
    <2>1. /\ pc = "gate" /\ failed = {} /\ NextLevel
          /\ \A s \in Service : task[s] \in Finished
          /\ UNCHANGED <<graphVars, ctr, ids, failed, keep>>
      BY <1>2 DEF GateDone, LevelPart, TaskPart, gateFrame, engineVars
    <2>2. QED
      BY <1>1, <2>1, NextLevelInv
  <1>3. CASE JoinLevel /\ NextLevel /\ failed = {}
    <2>1. /\ pc = "level" /\ failed = {} /\ NextLevel
          /\ \A s \in Service : task[s] \in Finished
          /\ UNCHANGED <<graphVars, ctr, ids, failed, keep>>
      BY <1>3 DEF JoinLevel, engineVars
    <2>2. QED
      BY <1>1, <2>1, NextLevelInv
  <1>4. CASE JoinLevel /\ ~(NextLevel /\ failed = {})
    <2>1. /\ pc = "level" /\ \A s \in Service : task[s] \in Finished
          /\ UNCHANGED <<graphVars, ctr, ids, failed, keep, task, lvl>>
          /\ \/ failed # {} /\ pc' = "idle" /\ outcome' = "partial"
             \/ failed = {} /\ pc' = "gate" /\ outcome' = outcome
      BY <1>4 DEF JoinLevel, engineVars, Return, Proceed
    <2>2. UNCHANGED <<plan, sort, remaining, levels>>
      BY <2>1 DEF graphVars
    <2>3. TaskPart' /\ OutcomePart' /\ DepsStartedFirst' /\ ContainerPart'
      BY <2>1, <2>2
         DEF TaskPart, OutcomePart, DepsStartedFirst, ContainerPart, Finished
    <2>4. GraphPart'
      BY <2>1, <2>2 DEF GraphPart, SortInv, DepsBelow, Disjoint, Levelled,
             UpPhase, Validate
    <2>5. levels \in Seq(SUBSET Service)
      BY DEF OrchTypeOK, GraphTypeOK
    <2>6. failed = {} => levels[lvl] \cap keep \subseteq ids
      BY <2>1, <2>5 DEF LevelPart, TaskPart, Finished
    <2>7. LevelPart'
      BY <2>1, <2>2, <2>6 DEF LevelPart
    <2>8. QED
      BY <1>1, <2>3, <2>4, <2>7
  <1>5. ASSUME NEW s \in Service, Gate(s) \/ GateCancelled(s)
        PROVE  OrchInv'
    <2>1. /\ UNCHANGED <<graphVars, ctr, listed, ids, failed, keep, task, lvl>>
          /\ \/ pc' = pc /\ outcome' = outcome
             \/ pc' = "idle" /\ outcome' = "gate"
      BY <1>5
         DEF Gate, WaitFor, GatePass, GateError, GateCancelled, GiveUp,
             gateFrame, engineVars, Return
    <2>2. UNCHANGED <<plan, sort, remaining, levels, closing, seen, queue>>
      BY <2>1 DEF graphVars
    <2>3. pc' = "idle" => \A t \in Service : task[t] \in Finished
      BY <1>5, <2>1
         DEF TaskPart, Gate, WaitFor, GatePass, GateError, GateCancelled,
             GiveUp
    <2>4. TaskPart' /\ DepsStartedFirst' /\ ContainerPart' /\ LevelPart'
      BY <2>1, <2>2, <2>3
         DEF TaskPart, DepsStartedFirst, ContainerPart, LevelPart
    <2>5. GraphPart'
      BY <2>1, <2>2 DEF GraphPart, SortInv, DepsBelow, Disjoint, Levelled,
             UpPhase, Validate,
                        ClosureInv, ClosedUnderEdges
    <2>6. OutcomePart'
      BY <2>1, <2>2 DEF OutcomePart
    <2>7. QED
      BY <1>1, <2>4, <2>5, <2>6
  <1>6. QED
    BY <1>2, <1>3, <1>4, <1>5

(* With no goroutine, nothing reported and no result, little is left.      *)
LEMMA QuietInv ==
    ASSUME OrchTypeOK', GraphPart',
           pc' \notin {"level", "gate"}, outcome' \notin {"ok", "partial"},
           \A s \in Service : task'[s] = "none", ids' = {}, failed' = {},
           \A s \in Service : HealthConsistent(ctr'[s])
    PROVE  OrchInv'
  <1>1. TaskPart'
    BY DEF TaskPart, Finished
  <1>2. LevelPart' /\ OutcomePart' /\ DepsStartedFirst'
    BY DEF LevelPart, OutcomePart, DepsStartedFirst
  <1>3. ContainerPart'
    BY DEF ContainerPart
  <1>4. QED
    BY <1>1, <1>2, <1>3 DEF OrchInv

(* A sort that has just been started.                                      *)
LEMMA FreshSort ==
    ASSUME NEW p \in PlanType, plan' = p, SortStart(p)
    PROVE  SortInv' /\ sort' = "run"
  <1>1. levels' = <<>> /\ remaining' = plan'.services /\ sort' = "run"
    BY DEF SortStart
  <1>2. QED
    BY <1>1 DEF SortInv, DepsBelow, Disjoint

(* The start of Up or Down.                                                *)
LEMMA CallInv ==
    ASSUME OrchInv,
           \/ \E p \in Plans : UpStart(p) \/ UpRefused(p)
           \/ \E d \in DownPlans : DownStart(d)
    PROVE  OrchInv'
  <1> USE DEF OrchInv
  <1>1. OrchTypeOK'
    BY CallType
  <1>2. ASSUME NEW p \in Plans, UpStart(p)
        PROVE  OrchInv'
    <2>1. SortInv' /\ sort' = "run" /\ pc' = "sort"
      BY <1>2, FreshSort, PlansAssumption DEF UpStart
    <2>2. GraphPart'
      BY <1>2, <2>1 DEF GraphPart, Levelled, UpPhase, Validate, UpStart
    <2>3. /\ \A s \in Service : task'[s] = "none" /\ HealthConsistent(ctr'[s])
          /\ ids' = {} /\ failed' = {} /\ outcome' = "none"
      BY <1>2 DEF UpStart, ContainerPart, engineVars
    <2>4. QED
      BY <1>1, <2>1, <2>2, <2>3, QuietInv
  <1>3. ASSUME NEW d \in DownPlans, DownStart(d)
        PROVE  OrchInv'
    <2>1. /\ pc = "idle" /\ pc' \in {"idle", "down", "downsort"}
          /\ \A s \in Service : task'[s] = "none" /\ HealthConsistent(ctr'[s])
          /\ ids' = {} /\ failed' = {} /\ outcome' \in {"none", "downfail"}
      BY <1>3 DEF DownStart, Call, Return, ContainerPart, engineVars
    <2>2. CASE UNCHANGED graphVars /\ pc' # "downsort"
      <3>1. GraphPart'
        BY <2>1, <2>2
           DEF GraphPart, graphVars, SortInv, DepsBelow, Disjoint, Levelled,
             UpPhase, Validate
      <3>2. QED
        BY <1>1, <2>1, <3>1, QuietInv
    <2>3. CASE plan' \in Plans /\ SortStart(plan')
      <3>1. SortInv' /\ sort' = "run"
        BY <2>3, FreshSort, PlansAssumption
      <3>2. GraphPart'
        BY <2>1, <3>1 DEF GraphPart, Levelled, UpPhase, Validate
      <3>3. QED
        BY <1>1, <2>1, <3>2, QuietInv
    <2>4. QED
      BY <1>3, <2>2, <2>3 DEF DownStart, Return
  <1>4. ASSUME NEW p \in Plans, UpRefused(p)
        PROVE  OrchInv'
    <2>1. /\ pc = "idle" /\ outcome' = "refused"
          /\ UNCHANGED <<plan, sort, remaining, levels, closing, seen, queue>>
          /\ UNCHANGED <<ctr, task, listed, ids, failed, pc, keep, lvl>>
      BY <1>4 DEF UpRefused, Call, graphVars, engineVars, taskVars
    <2>2. GraphPart'
      BY <2>1 DEF GraphPart, SortInv, DepsBelow, Disjoint, Levelled, UpPhase
    <2>3. TaskPart' /\ LevelPart' /\ ContainerPart' /\ DepsStartedFirst'
      BY <2>1 DEF TaskPart, LevelPart, ContainerPart, DepsStartedFirst
    <2>4. OutcomePart'
      BY <2>1 DEF OutcomePart
    <2>5. QED
      BY <1>1, <2>2, <2>3, <2>4
  <1>5. QED
    BY <1>2, <1>3, <1>4

(* Down's steps and a crash.                                               *)
LEMMA DownInv ==
    ASSUME OrchInv,
           \/ DownSort \/ DownRest \/ Crash
           \/ \E s \in Service : DownContainer(s)
    PROVE  OrchInv'
  <1> USE DEF OrchInv
  <1>1. OrchTypeOK'
    BY MainType DEF Main
  <1>2. pc \in {"down", "downsort"} =>
          /\ \A s \in Service : task[s] = "none"
          /\ ids = {} /\ failed = {} /\ outcome \notin {"ok", "partial"}
    BY DEF TaskPart, OutcomePart, OrchTypeOK
  <1>3. CASE DownSort
    <2>1. /\ pc = "downsort" /\ pc' \in {"down", "downsort"}
          /\ UNCHANGED <<ctr, task, ids, failed, outcome>>
      BY <1>3 DEF DownSort, engineVars, taskVars
    <2>2. SortInv' /\ sort' # "idle"
      <3>1. CASE UNCHANGED graphVars
        BY <2>1, <3>1
           DEF GraphPart, graphVars, SortInv, DepsBelow, Disjoint
      <3>2. CASE SortNext
        <4>1. SortInv'
          BY <2>1, <3>2, SortNextSortInv DEF GraphPart, OrchTypeOK
        <4>2. sort' # "idle"
          BY <2>1, <3>2 DEF SortNext, SortLevel, SortDone, SortStuck, WalkOn,
                            WalkClose
        <4>3. QED
          BY <4>1, <4>2
      <3>3. QED
        BY <1>3, <3>1, <3>2 DEF DownSort
    <2>3. GraphPart'
      BY <2>1, <2>2 DEF GraphPart, Levelled, UpPhase, Validate
    <2>4. QED
      BY <1>1, <1>2, <2>1, <2>3, QuietInv DEF ContainerPart
  <1>4. CASE DownRest \/ Crash \/ \E s \in Service : DownContainer(s)
    <2>1. /\ UNCHANGED graphVars /\ pc' \in {"down", "idle"}
          /\ outcome' \notin {"ok", "partial"}
          /\ \A s \in Service : task'[s] = "none"
          /\ ids' = {} /\ failed' = {}
      BY <1>2, <1>4 DEF DownRest, DownContainer, Crash, Return, taskVars
    <2>2. GraphPart'
      BY <2>1 DEF GraphPart, graphVars, SortInv, DepsBelow, Disjoint, Levelled,
             UpPhase, Validate
    <2>3. \A s \in Service : HealthConsistent(ctr'[s])
      <3>1. ASSUME NEW s \in Service, DownContainer(s)
            PROVE  \A t \in Service : HealthConsistent(ctr'[t])
        BY <3>1, HealthKept DEF DownContainer, OrchTypeOK, ContainerPart
      <3>2. QED
        BY <1>4, <3>1 DEF DownRest, Crash, engineVars, ContainerPart
    <2>4. QED
      BY <1>1, <2>1, <2>2, <2>3, QuietInv
  <1>5. QED
    BY <1>3, <1>4

(* Containers, users and time.                                             *)
LEMMA EnvInv ==
    ASSUME OrchInv, Environment \/ Tick
    PROVE  OrchInv'
  <1> USE DEF OrchInv
  <1>1. OrchTypeOK'
    BY MainType
  <1>2. UNCHANGED <<graphVars, task, listed, ids, failed, pc, keep, lvl, outcome>>
    BY DEF Environment, ContainerExits, HealthChanges, EditEntry, Retag, Tick,
           envFrame, taskVars, callVars
  <1>3. \A t \in Service :
          /\ HealthConsistent(ctr'[t])
          /\ ctr[t].state \in {"running", "exited"} =>
               ctr'[t].state \in {"running", "exited"}
    <2>1. CASE UNCHANGED ctr
      BY <2>1 DEF ContainerPart
    <2>2. ASSUME NEW s \in Service, ContainerExits(s)
          PROVE  \A t \in Service :
                   /\ HealthConsistent(ctr'[t])
                   /\ ctr[t].state \in {"running", "exited"} =>
                        ctr'[t].state \in {"running", "exited"}
      BY <2>2, HealthKept DEF ContainerExits, OrchTypeOK, ContainerPart
    <2>3. ASSUME NEW s \in Service, HealthChanges(s)
          PROVE  \A t \in Service :
                   /\ HealthConsistent(ctr'[t])
                   /\ ctr[t].state \in {"running", "exited"} =>
                        ctr'[t].state \in {"running", "exited"}
      <3>1. PICK h \in {"healthy", "unhealthy"} :
              ctr' = [ctr EXCEPT ![s].health = h]
        BY <2>3 DEF HealthChanges
      <3>2. /\ ctr'[s].health = h /\ ctr'[s].state = ctr[s].state
            /\ ctr'[s].checked = ctr[s].checked
            /\ \A t \in Service \ {s} : ctr'[t] = ctr[t]
        BY <3>1 DEF OrchTypeOK, ContainerType
      <3>3. QED
        BY <2>3, <3>2 DEF ContainerPart, HealthConsistent, HealthChanges
    <2>4. QED
      BY <2>1, <2>2, <2>3 DEF Environment, EditEntry, Retag, Tick
  <1>4. ContainerPart'
    BY <1>2, <1>3 DEF ContainerPart, OrchTypeOK
  <1>5. UNCHANGED <<plan, sort, remaining, levels, closing, seen, queue>>
    BY <1>2 DEF graphVars
  <1>6. GraphPart'
    BY <1>2, <1>5 DEF GraphPart, SortInv, DepsBelow, Disjoint, ClosureInv,
                      ClosedUnderEdges
  <1>7. TaskPart' /\ LevelPart' /\ OutcomePart' /\ DepsStartedFirst'
    BY <1>2, <1>5 DEF TaskPart, LevelPart, OutcomePart, DepsStartedFirst
  <1>8. QED
    BY <1>1, <1>4, <1>6, <1>7

(* The invariant is inductive.                                             *)
LEMMA OrchInvStep == OrchInv /\ [OrchNext]_orchVars => OrchInv'
  <1> SUFFICES ASSUME OrchInv, [OrchNext]_orchVars
               PROVE  OrchInv'
    OBVIOUS
  <1>1. CASE UNCHANGED orchVars
    <2>1. UNCHANGED <<plan, sort, remaining, levels, path, closing, seen, queue,
                      ctr, task, listed, ids, failed, pc, keep, lvl, outcome>>
      BY <1>1 DEF orchVars, graphVars, engineVars, taskVars, callVars
    <2>2. OrchTypeOK'
      BY TypeStep DEF OrchInv
    <2>3. GraphPart'
      BY <2>1 DEF OrchInv, GraphPart, SortInv, DepsBelow, Disjoint, ClosureInv,
                  ClosedUnderEdges
    <2>4. QED
      BY <2>1, <2>2, <2>3
         DEF OrchInv, TaskPart, LevelPart, ContainerPart, OutcomePart,
             DepsStartedFirst
  <1>2. CASE Main
    BY <1>2, PrepareInv, GateInvStep, DownInv DEF Main
  <1>3. QED
    BY <1>1, <1>2, EnsureInv, CallInv, GateInvStep, DownInv, EnvInv
       DEF OrchNext

LEMMA OrchInvInit == OrchInit => OrchInv
  <1> SUFFICES ASSUME OrchInit PROVE OrchInv
    OBVIOUS
  <1>1. OrchTypeOK
    BY TypeInit
  <1>2. GraphPart /\ LevelPart /\ OutcomePart /\ DepsStartedFirst
    BY DEF OrchInit, GraphPart, LevelPart, OutcomePart, DepsStartedFirst,
           Levelled, UpPhase, Validate
  <1>3. TaskPart
    BY DEF OrchInit, TaskPart, Finished
  <1>4. ContainerPart
    BY InitialAssumption DEF OrchInit, ContainerPart
  <1>5. QED
    BY <1>1, <1>2, <1>3, <1>4 DEF OrchInv

(***************************************************************************)
(* Whatever the plan, the containers found, the failing calls, the exits   *)
(* and the crashes: no service of an Up is touched before everything it    *)
(* depends on is up.                                                       *)
(***************************************************************************)
THEOREM StartOrder == OrchSpec => []DepsStartedFirst
  <1>1. OrchInv => DepsStartedFirst
    BY DEF OrchInv
  <1>2. QED
    BY <1>1, OrchInvInit, OrchInvStep, PTL DEF OrchSpec

(* What Up and its PartialUpError report is what is there.                 *)
THEOREM ReportTrue == OrchSpec => []UpReportIsTrue
  <1>1. ASSUME OrchInv PROVE UpReportIsTrue
    <2>1. \A f \in failed : f \in Service /\ f \notin ids
      BY <1>1 DEF OrchInv, OrchTypeOK, TaskPart
    <2>2. \A f \in failed : \A s \in Service :
            f \in Deps(plan, s) => task[s] = "none"
      BY <1>1, <2>1 DEF OrchInv, DepsStartedFirst
    <2>3. /\ \A s \in ids : ctr[s].state \in {"running", "exited"}
          /\ outcome = "ok" => ids = keep \cap plan.services
          /\ outcome = "partial" => failed # {}
      BY <1>1 DEF OrchInv, ContainerPart, OutcomePart
    <2>4. QED
      BY <2>1, <2>2, <2>3 DEF UpReportIsTrue
  <1>2. QED
    BY <1>1, OrchInvInit, OrchInvStep, PTL DEF OrchSpec

----------------------------------------------------------------------------
(* On a backend that reports health, waitFor lets through only what holds. *)
LEMMA SatisfiedHolds ==
    ASSUME Healthchecks => HealthReported, OrchTypeOK, ContainerPart,
           NEW s \in Service, NEW cond \in Gated, Satisfied(s, cond),
           cond = "service_healthy" => Healthchecks,
           cond = "service_completed_successfully" => ExitCodes
    PROVE  Holds(s, cond)
  <1>1. HealthConsistent(ctr[s]) /\ ctr[s] \in ContainerType
    BY DEF ContainerPart, OrchTypeOK
  <1>2. QED
    BY <1>1 DEF HealthConsistent, Satisfied, ExitCode, Holds, Gated,
                  ContainerType

(* A dependency gateLevel keeps no requirement for needs none.             *)
LEMMA NoneRequired ==
    ASSUME OrchTypeOK, NEW d \in levels[lvl] \cap ids,
           NoRequirement \in Candidates(d)
    PROVE  Met(d)
  <1>1. \A s \in Dependents(d) : Requires(s, d) # NoRequirement
    BY DEF Dependents, Requires, NoRequirement, Gated
  <1>2. Dependents(d) = {}
    BY <1>1 DEF Candidates
  <1>3. QED
    BY <1>2 DEF Met, Strict, Dependents

(* The requirement kept for a dependency covers its strict dependents when *)
(* they agree, and is optional only if there is no strict one.             *)
LEMMA KeptRequirement ==
    ASSUME OrchTypeOK, NEW d \in Service, NEW r \in Candidates(d),
           r # NoRequirement,
           NEW s \in plan.services \cap keep, Strict(s, d), Uniform(d)
    PROVE  ~r.optional /\ r.cond \in Gated /\ r.cond = plan.dependsOn[s][d]
  <1>1. s \in Dependents(d) /\ ~Requires(s, d).optional
    BY DEF Dependents, Strict, Requires
  <1>2. PICK t \in Dependents(d) : r = Requires(t, d) /\ ~r.optional
    BY <1>1 DEF Candidates
  <1>3. /\ t \in plan.services \cap keep /\ d \notin plan.optional[t]
        /\ r.cond = plan.dependsOn[t][d] /\ r.cond \in Gated
    BY <1>2 DEF Requires, Dependents
  <1>4. Strict(t, d)
    BY <1>3 DEF Strict
  <1>5. QED
    BY <1>2, <1>3, <1>4 DEF Uniform

(* Launching a level whose predecessors have been gated.                   *)
LEMMA LaunchGated ==
    ASSUME OrchInv, OrchInv', NEW i \in Nat \ {0},
           lvl' = i, LaunchLevel(i, keep'), pc' # "gate",
           UNCHANGED <<graphVars, met>>,
           \A j \in 1..Len(levels) : j < i =>
               \A d \in levels[j] \cap keep' : Met(d)',
           GatesHoldBeforeStart, keep' = keep \/ \A s \in Service : task[s] = "none"
    PROVE  GatePart' /\ GatesHoldBeforeStart'
  <1>0. /\ levels \in Seq(SUBSET Service) /\ plan' = plan /\ levels' = levels
        /\ Len(levels) \in Nat /\ met' = met
    BY DEF OrchInv, OrchTypeOK, GraphTypeOK, graphVars
  <1>1. GatePart'
    <2>1. pc' = "level" => i \in 1..Len(levels)
      BY DEF LaunchLevel, Return
    <2>2. pc' = "level" => \A j \in 1..(i - 1) : j \in 1..Len(levels) /\ j < i
      BY <1>0, <2>1
    <2>3. QED
      BY <1>0, <2>2 DEF GatePart
  <1>2. ASSUME NEW s \in Service, NEW d \in Deps(plan, s),
               task'[s] # "none", task[s] = "none"
        PROVE  Met(d)'
    <2>1. i \in 1..Len(levels) /\ s \in levels[i] \cap keep'
      BY <1>2 DEF LaunchLevel
    <2>2. sort' = "ok" /\ SortInv'
      BY <1>2, <2>1
         DEF OrchInv, GraphPart, Levelled, UpPhase, Validate, LaunchLevel, Proceed
    <2>3. PICK j \in 1..(i - 1) : d \in levels[j]
      BY <1>0, <2>1, <2>2 DEF SortInv, DepsBelow
    <2>4. d \in keep'
      <3>1. pc' = "level"
        BY <2>1 DEF LaunchLevel, Proceed
      <3>2. Deps(plan, s) \subseteq ids'
        BY <1>0, <1>2 DEF OrchInv, DepsStartedFirst
      <3>3. d \in ids' /\ ids' \subseteq Service
        BY <1>2, <3>2 DEF OrchInv, OrchTypeOK
      <3>4. task'[d] # "none"
        BY <3>3 DEF OrchInv, TaskPart
      <3>5. QED
        BY <3>3, <3>4 DEF OrchInv, TaskPart
    <2>5. j \in 1..Len(levels) /\ j < i
      BY <1>0, <2>1
    <2>6. QED
      BY <2>3, <2>4, <2>5
  <1>3. ASSUME NEW s \in Service, NEW d \in Deps(plan, s),
               task'[s] # "none", Strict(s, d), Uniform(d)'
        PROVE  plan.dependsOn[s][d] \in met[d]
    <2>1. CASE task[s] = "none"
      <3>1. Met(d)'
        BY <1>2, <1>3, <2>1
      <3>2. s \in plan'.services \cap keep'
        BY <1>3 DEF OrchInv, TaskPart
      <3>3. Strict(s, d)'
        BY <1>0, <1>3 DEF Strict
      <3>4. plan'.dependsOn[s][d] \in met'[d]
        BY <1>3, <3>1, <3>2, <3>3 DEF Met
      <3>5. QED
        BY <1>0, <3>4
    <2>2. CASE task[s] # "none"
      <3>1. keep' = keep /\ Uniform(d)
        BY <1>0, <1>3, <2>2 DEF Uniform, Strict
      <3>2. QED
        BY <1>3, <2>2, <3>1 DEF GatesHoldBeforeStart
    <2>3. QED
      BY <2>1, <2>2
  <1>4. GatesHoldBeforeStart'
    BY <1>0, <1>3 DEF GatesHoldBeforeStart, Strict
  <1>5. QED
    BY <1>1, <1>4

(* What a gate has seen stays seen, and depends on nothing else.           *)
LEMMA MetKept ==
    ASSUME UNCHANGED <<plan, keep>>, NEW d, met[d] \subseteq met'[d]
    PROVE  /\ Met(d) => Met(d)'
           /\ Uniform(d)' = Uniform(d)
           /\ \A s : Strict(s, d)' = Strict(s, d)
  <1>1. \A s : Strict(s, d)' = Strict(s, d)
    BY DEF Strict
  <1>2. Uniform(d)' = Uniform(d)
    BY <1>1 DEF Uniform
  <1>3. QED
    BY <1>1, <1>2 DEF Met

(* Steps that launch nothing and leave the gate's variables alone.         *)
LEMMA GateFrame ==
    ASSUME GateInv, OrchInv', UNCHANGED <<plan, levels, keep, met>>,
           pc' \in {"level", "gate"} =>
               pc' = pc /\ lvl' = lvl /\ required' = required,
           pc' = "gate" => ids' = ids,
           \A s \in Service : task'[s] # "none" => task[s] # "none"
    PROVE  GateInv'
  <1>1. \A d : Met(d)' = Met(d) /\ Uniform(d)' = Uniform(d)
    BY DEF Met, Uniform, Strict
  <1>2. \A d \in Service : pc' = "gate" => Candidates(d)' = Candidates(d)
    BY DEF Candidates, Dependents, Requires
  <1>3. levels \in Seq(SUBSET Service)
    BY DEF GateInv, OrchInv, OrchTypeOK, GraphTypeOK
  <1>4. GatePart'
    <2>1. pc' \in {"level", "gate"} =>
            \A i \in 1..(lvl - 1) : \A d \in levels[i] \cap keep : Met(d)'
      BY <1>1 DEF GateInv, GatePart
    <2>2. ASSUME pc' = "gate", NEW d \in levels[lvl] \cap keep
          PROVE  IF required[d] = NoRequirement THEN Met(d)'
                 ELSE required[d] \in Candidates(d)'
      <3>1. d \in Service
        BY <2>2 DEF GateInv, OrchInv, OrchTypeOK
      <3>2. QED
        BY <1>1, <1>2, <2>2, <3>1 DEF GateInv, GatePart
    <2>3. QED
      BY <2>1, <2>2 DEF GatePart
  <1>5. GatesHoldBeforeStart'
    BY <1>1 DEF GateInv, GatesHoldBeforeStart, Strict
  <1>6. QED
    BY <1>4, <1>5 DEF GateInv

(* Steps after which no goroutine exists.                                  *)
LEMMA GateQuiet ==
    ASSUME OrchInv', pc' \notin {"level", "gate"},
           \A s \in Service : task'[s] = "none"
    PROVE  GateInv'
  BY DEF GateInv, GatePart, GatesHoldBeforeStart

(* The gate's own steps.                                                   *)
LEMMA GateStep ==
    ASSUME Healthchecks => HealthReported, GateInv, OrchInv', NEW s \in Service,
           Gate(s) \/ GateCancelled(s)
    PROVE  GateInv'
  <1>0. /\ OrchInv /\ OrchTypeOK /\ ContainerPart /\ pc = "gate"
        /\ levels \in Seq(SUBSET Service) /\ met \in [Service -> SUBSET Gated]
        /\ required \in [Service -> RequirementType] /\ keep \subseteq Service
    BY DEF GateInv, OrchInv, OrchTypeOK, GraphTypeOK, Gate, WaitFor, GatePass,
           GateError, GateCancelled, GiveUp
  <1>1. UNCHANGED <<plan, levels, keep, ids, lvl, task>>
    BY DEF Gate, WaitFor, GatePass, GateError, GateCancelled, GiveUp, gateFrame,
           graphVars
  <1>2. CASE WaitFor(s)
    BY <1>0, <1>1, <1>2, GateFrame DEF WaitFor
  <1>3. CASE GiveUp(s) /\ ~required[s].optional
    BY <1>0, <1>1, <1>3, GateFrame DEF GiveUp, Return
  <1>4. ASSUME pc' = "gate", required' = [required EXCEPT ![s] = NoRequirement],
               \A d \in Service : met[d] \subseteq met'[d],
               s \in keep /\ required[s] # NoRequirement
                 /\ required[s] \in Candidates(s) => Met(s)'
        PROVE  GateInv'
    <2>1. \A d \in Service : Met(d) => Met(d)'
      BY <1>1, <1>4, MetKept
    <2>2. \A d \in Service : Candidates(d)' = Candidates(d)
      BY <1>1 DEF Candidates, Dependents, Requires
    <2>3. \A i \in 1..(lvl - 1) : \A d \in levels[i] \cap keep : Met(d)'
      BY <1>0, <2>1 DEF GateInv, GatePart
    <2>4. ASSUME NEW d \in levels[lvl] \cap keep
          PROVE  IF required'[d] = NoRequirement THEN Met(d)'
                 ELSE required'[d] \in Candidates(d)'
      <3>1. d \in Service
        BY <1>0
      <3>2. IF required[d] = NoRequirement THEN Met(d)
            ELSE required[d] \in Candidates(d)
        BY <1>0 DEF GateInv, GatePart
      <3>3. QED
        BY <1>0, <1>4, <2>1, <2>2, <3>1, <3>2
    <2>5. GatePart'
      BY <1>1, <1>4, <2>3, <2>4 DEF GatePart
    <2>6. GatesHoldBeforeStart'
      <3>1. \A d \in Service : Uniform(d)' = Uniform(d) /\
                \A t : Strict(t, d)' = Strict(t, d)
        BY <1>1, <1>4, MetKept
      <3>2. \A t \in Service : Deps(plan, t) \subseteq Service
        BY <1>0, EdgesType DEF OrchTypeOK, GraphTypeOK
      <3>3. QED
        BY <1>1, <1>4, <3>1, <3>2 DEF GateInv, GatesHoldBeforeStart
    <2>7. QED
      BY <2>5, <2>6 DEF GateInv
  <1>5. CASE GiveUp(s) /\ required[s].optional
    <2>1. /\ pc' = "gate" /\ met' = met
          /\ required' = [required EXCEPT ![s] = NoRequirement]
      BY <1>0, <1>5 DEF GiveUp, Waited
    <2>2. ASSUME required[s] # NoRequirement, required[s] \in Candidates(s)
          PROVE  Met(s)
      BY <1>0, <1>5, <2>2, KeptRequirement DEF Met
    <2>3. QED
      BY <1>1, <1>4, <2>1, <2>2, MetKept
  <1>6. CASE GatePass(s)
    <2>1. /\ pc' = "gate" /\ Satisfied(s, required[s].cond)
          /\ met' = [met EXCEPT ![s] = @ \cup {c \in Gated : Holds(s, c)}]
          /\ required' = [required EXCEPT ![s] = NoRequirement]
      BY <1>0, <1>6 DEF GatePass, Waited
    <2>2. \A d \in Service : met[d] \subseteq met'[d]
      BY <1>0, <2>1
    <2>3. ASSUME required[s] # NoRequirement, required[s] \in Candidates(s),
                 NEW t \in plan.services \cap keep, Strict(t, s), Uniform(s)
          PROVE  plan.dependsOn[t][s] \in met'[s]
      <3>1. required[s].cond \in Gated /\ required[s].cond = plan.dependsOn[t][s]
        BY <1>0, <2>3, KeptRequirement
      <3>2. /\ required[s].cond = "service_healthy" => Healthchecks
            /\ required[s].cond = "service_completed_successfully"
                 => ExitCodes
        BY <1>0, <2>3, <3>1 DEF OrchInv, GraphPart, UpPhase, Validate
      <3>3. Holds(s, required[s].cond)
        BY <1>0, <2>1, <3>1, <3>2, SatisfiedHolds
      <3>4. QED
        BY <1>0, <2>1, <3>1, <3>3
    <2>4. ASSUME required[s] # NoRequirement, required[s] \in Candidates(s)
          PROVE  Met(s)'
      <3>1. Uniform(s)' = Uniform(s) /\ \A t : Strict(t, s)' = Strict(t, s)
        BY <1>1, <2>2, MetKept
      <3>2. QED
        BY <1>1, <2>3, <2>4, <3>1 DEF Met
    <2>5. QED
      BY <1>4, <2>1, <2>2, <2>4
  <1>7. QED
    BY <1>2, <1>3, <1>5, <1>6 DEF Gate, GateError, GateCancelled

(* The joined level is gated, or needs no gate.                            *)
LEMMA JoinGated ==
    ASSUME GateInv, OrchInv', JoinLevel \/ GateDone \/ makeKeepSet
    PROVE  GateInv'
  <1>0. /\ OrchInv /\ OrchTypeOK /\ GatePart /\ GatesHoldBeforeStart
        /\ levels \in Seq(SUBSET Service) /\ Len(levels) \in Nat
        /\ keep \subseteq Service /\ ids \subseteq Service
        /\ met \in [Service -> SUBSET Gated]
    BY DEF GateInv, OrchInv, OrchTypeOK, GraphTypeOK
  <1>1. UNCHANGED <<graphVars, met, ids, failed>> /\ UNCHANGED <<plan, levels>>
    BY DEF JoinLevel, GateDone, gateFrame, makeKeepSet, gateVars, graphVars
  <1>2. CASE makeKeepSet
    <2>1. /\ pc = "keep" /\ lvl' = 1 /\ LaunchLevel(1, keep') /\ pc' # "gate"
          /\ \A s \in Service : task[s] = "none"
      BY <1>0, <1>2
         DEF makeKeepSet, OrchInv, TaskPart, LaunchLevel, Proceed, Return
    <2>2. 1 \in Nat \ {0} /\ \A j \in 1..Len(levels) : ~(j < 1)
      BY <1>0
    <2>3. QED
      BY <1>0, <1>1, <2>1, <2>2, LaunchGated DEF GateInv
  <1>3. ASSUME pc \in {"level", "gate"}, NextLevel, keep' = keep,
               lvl \in 1..Len(levels),
               \A d \in levels[lvl] \cap keep : Met(d)
        PROVE  GateInv'
    <2>1. /\ lvl' = lvl + 1 /\ lvl + 1 \in Nat \ {0}
          /\ LaunchLevel(lvl + 1, keep') /\ pc' # "gate"
      BY <1>3 DEF NextLevel, LaunchLevel, Proceed, Return
    <2>2. ASSUME NEW j \in 1..Len(levels), j < lvl + 1,
                 NEW d \in levels[j] \cap keep'
          PROVE  Met(d)'
      <3>1. j = lvl \/ j \in 1..(lvl - 1)
        BY <1>0, <1>3, <2>2
      <3>2. Met(d)
        BY <1>0, <1>3, <3>1 DEF GatePart
      <3>3. QED
        BY <1>1, <1>3, <3>2, MetKept
    <2>3. QED
      BY <1>0, <1>1, <1>3, <2>1, <2>2, LaunchGated DEF GateInv
  <1>4. CASE GateDone
    <2>1. pc = "gate" /\ NextLevel /\ keep' = keep /\ lvl \in 1..Len(levels)
      BY <1>0, <1>4 DEF GateDone, gateFrame, OrchInv, LevelPart
    <2>2. \A d \in levels[lvl] \cap keep : Met(d)
      BY <1>0, <1>4, <2>1 DEF GateDone, GatePart
    <2>3. QED
      BY <1>3, <2>1, <2>2
  <1>5. CASE JoinLevel
    <2>1. pc = "level" /\ keep' = keep /\ lvl \in 1..Len(levels)
      BY <1>0, <1>5 DEF JoinLevel, OrchInv, LevelPart
    <2>2. failed = {} => levels[lvl] \cap keep \subseteq ids
      BY <1>0, <1>5, <2>1
         DEF JoinLevel, OrchInv, LevelPart, TaskPart, Finished
    <2>3. CASE failed # {}
      <3>1. pc' = "idle" /\ task' = task
        BY <1>5, <2>3 DEF JoinLevel, Return
      <3>2. QED
        BY <1>1, <2>1, <3>1, GateFrame
    <2>4. CASE failed = {} /\ \A d \in Service : Candidates(d) = {NoRequirement}
      <3>1. NextLevel
        BY <1>5, <2>4 DEF JoinLevel
      <3>2. \A d \in levels[lvl] \cap keep : Met(d)
        <4>1. \A d \in levels[lvl] \cap ids : NoRequirement \in Candidates(d)
          BY <1>0, <2>4
        <4>2. QED
          BY <1>0, <2>2, <2>4, <4>1, NoneRequired
      <3>3. QED
        BY <1>3, <2>1, <3>1, <3>2
    <2>5. CASE failed = {} /\ \E d \in Service : Candidates(d) # {NoRequirement}
      <3>1. /\ pc' = "gate" /\ UNCHANGED <<task, lvl>>
            /\ \A d \in Service : required'[d] \in Candidates(d)
        BY <1>5, <2>5 DEF JoinLevel, Proceed
      <3>2. \A d : Met(d) => Met(d)'
        BY <1>1, <2>1, MetKept
      <3>3. \A d \in Service : Candidates(d)' = Candidates(d)
        BY <1>1, <2>1, <3>1 DEF Candidates, Dependents, Requires
      <3>4. ASSUME NEW d \in levels[lvl] \cap keep
            PROVE  IF required'[d] = NoRequirement THEN Met(d)'
                   ELSE required'[d] \in Candidates(d)'
        <4>1. d \in levels[lvl] \cap ids /\ d \in Service
          BY <1>0, <2>2, <2>5
        <4>2. QED
          BY <1>0, <3>1, <3>2, <3>3, <4>1, NoneRequired
      <3>5. \A i \in 1..(lvl - 1) : \A d \in levels[i] \cap keep : Met(d)'
        BY <1>0, <2>1, <3>2 DEF GatePart
      <3>6. GatePart'
        BY <1>1, <2>1, <3>1, <3>4, <3>5 DEF GatePart
      <3>7. GatesHoldBeforeStart'
        <4>1. \A d : Uniform(d)' = Uniform(d) /\
                  \A s : Strict(s, d)' = Strict(s, d)
          BY <1>1, <2>1, MetKept
        <4>2. QED
          BY <1>0, <1>1, <3>1, <4>1 DEF GatesHoldBeforeStart
      <3>8. QED
        BY <3>6, <3>7 DEF GateInv
    <2>6. QED
      BY <2>3, <2>4, <2>5
  <1>6. QED
    BY <1>2, <1>4, <1>5

(* The gate's invariant is inductive on a backend that reports health.     *)
LEMMA GateInvInductive ==
    ASSUME Healthchecks => HealthReported, GateInv, [OrchNext]_orchVars
    PROVE  GateInv'
  <1>1. OrchInv /\ OrchInv'
    BY OrchInvStep DEF GateInv
  <1>2. CASE UNCHANGED orchVars \/ Environment \/ Tick
    <2>1. UNCHANGED <<plan, levels, keep, met, pc, lvl, required, ids, task>>
      BY <1>2
         DEF orchVars, graphVars, gateVars, taskVars, callVars, Environment,
             ContainerExits, HealthChanges, EditEntry, Retag, Tick, envFrame
    <2>2. QED
      BY <1>1, <2>1, GateFrame
  <1>3. ASSUME NEW s \in Service, ensureService(s)
        PROVE  GateInv'
    <2>1. GoroutineStep(s)
      BY <1>1, <1>3, EnsureStep DEF OrchInv
    <2>2. /\ UNCHANGED <<plan, levels, keep, met, pc, lvl, required>>
          /\ pc = "level"
          /\ \A t \in Service : task'[t] # "none" => task[t] # "none"
      BY <1>1, <2>1
         DEF GoroutineStep, graphVars, gateVars, callVars, OrchInv, TaskPart,
             Finished
    <2>3. QED
      BY <1>1, <2>2, GateFrame
  <1>4. CASE UpSort \/ UpSorted \/ CreateNetwork \/ ensureNamedVolumes
               \/ UpClosure \/ DownSort \/ DownRest \/ Crash
               \/ (\E s \in Service : DownContainer(s))
               \/ (\E p \in Plans : UpStart(p))
               \/ (\E d \in DownPlans : DownStart(d))
    <2>1. pc' \notin {"level", "gate"}
      BY <1>4
         DEF UpSort, UpSorted, CreateNetwork, ensureNamedVolumes, UpClosure,
             DownSort, DownRest, Crash, DownContainer, UpStart, DownStart,
             Return, Proceed, callVars
    <2>2. CASE (\E p \in Plans : UpStart(p)) \/ Crash
                 \/ (\E d \in DownPlans : DownStart(d))
      <3>1. \A s \in Service : task'[s] = "none"
        BY <2>2 DEF UpStart, DownStart, Crash
      <3>2. QED
        BY <1>1, <2>1, <3>1, GateQuiet
    <2>3. CASE UpSort \/ UpSorted \/ CreateNetwork \/ ensureNamedVolumes
                 \/ UpClosure \/ DownSort \/ DownRest
                 \/ (\E s \in Service : DownContainer(s))
      <3>1. /\ pc \in {"sort", "network", "volumes", "keep", "down", "downsort"}
            /\ task' = task
        BY <2>3
           DEF UpSort, UpSorted, CreateNetwork, ensureNamedVolumes, UpClosure,
               DownSort, DownRest, DownContainer, taskVars
      <3>2. \A s \in Service : task'[s] = "none"
        BY <1>1, <3>1 DEF OrchInv, TaskPart
      <3>3. QED
        BY <1>1, <2>1, <3>2, GateQuiet
    <2>4. QED
      BY <1>4, <2>2, <2>3
  <1>5. ASSUME NEW p \in Plans, UpRefused(p)
        PROVE  GateInv'
    <2>1. UNCHANGED <<plan, levels, keep, met, pc, lvl, required, ids, task>>
      BY <1>5 DEF UpRefused, graphVars, gateVars, taskVars
    <2>2. QED
      BY <1>1, <2>1, GateFrame
  <1>6. QED
    BY <1>1, <1>2, <1>3, <1>4, <1>5, GateStep, JoinGated DEF OrchNext, Main

(***************************************************************************)
(* On a backend that reports health if it claims to: no service of an Up   *)
(* is touched before each of its strict conditions has been seen to hold,  *)
(* provided the strict dependents of a service ask for the same condition. *)
(***************************************************************************)
THEOREM GatesHold ==
    ASSUME Healthchecks => HealthReported
    PROVE  OrchSpec => []GatesHoldBeforeStart
  <1>1. OrchInit => GateInv
    <2> SUFFICES ASSUME OrchInit PROVE GateInv
      OBVIOUS
    <2>1. pc = "idle" /\ \A s \in Service : task[s] = "none"
      BY DEF OrchInit
    <2>2. QED
      BY <2>1, OrchInvInit DEF GateInv, GatePart, GatesHoldBeforeStart
  <1>2. GateInv /\ [OrchNext]_orchVars => GateInv'
    BY GateInvInductive
  <1>3. GateInv => GatesHoldBeforeStart
    BY DEF GateInv
  <1>4. QED
    BY <1>1, <1>2, <1>3, PTL DEF OrchSpec

----------------------------------------------------------------------------
(***************************************************************************)
(* Down.  It has listed every container there is, and while it removes     *)
(* them nothing else makes one.                                            *)
(***************************************************************************)
DownPart ==
    /\ outcome = "down" =>
         pc = "idle" /\ DownLeavesNothing
    /\ pc \in {"downsort", "down"} =>
         \A s \in Service : ctr[s].state # "none" => s \in victims

DownInvariant == OrchInv /\ DownPart

(* A goroutine of ensureService is at work only while Up runs a level.     *)
LEMMA EnsureInLevel ==
    ASSUME OrchInv, NEW s \in Service, ensureService(s)
    PROVE  /\ pc = "level" /\ UNCHANGED <<plan, sort, pc, outcome, down>>
           /\ \A t \in Service \ {s} :
                task'[t] = task[t] /\ ctr'[t] = ctr[t] /\ listed'[t] = listed[t]
  BY EnsureStep DEF OrchInv, GoroutineStep, TaskPart, callVars, graphVars, downVars

(* What the environment does to a container is not to make one.            *)
LEMMA EnvContainers ==
    ASSUME OrchTypeOK, Environment \/ Tick \/ UNCHANGED orchVars
    PROVE  /\ UNCHANGED <<graphVars, net, taskVars, downVars, callVars>>
           /\ \A t \in Service :
                /\ ctr'[t].state = "none" <=> ctr[t].state = "none"
                /\ ctr'[t].managed = ctr[t].managed /\ ctr'[t].entry = ctr[t].entry
                /\ ctr'[t].image = ctr[t].image /\ ctr'[t].hash = ctr[t].hash
                /\ ctr'[t].digest = ctr[t].digest
  <1>1. UNCHANGED <<graphVars, net, taskVars, downVars, callVars>>
    BY DEF Environment, ContainerExits, HealthChanges, EditEntry, Retag, Tick, envFrame,
           orchVars, engineVars
  <1>2. CASE UNCHANGED ctr
    BY <1>1, <1>2
  <1>3. ASSUME NEW s \in Service, NEW c, ctr' = [ctr EXCEPT ![s] = c],
               /\ c.state # "none" /\ ctr[s].state = "running"
               /\ c.managed = ctr[s].managed /\ c.entry = ctr[s].entry
               /\ c.image = ctr[s].image /\ c.hash = ctr[s].hash
               /\ c.digest = ctr[s].digest
        PROVE  \A t \in Service :
                /\ ctr'[t].state = "none" <=> ctr[t].state = "none"
                /\ ctr'[t].managed = ctr[t].managed /\ ctr'[t].entry = ctr[t].entry
                /\ ctr'[t].image = ctr[t].image /\ ctr'[t].hash = ctr[t].hash
                /\ ctr'[t].digest = ctr[t].digest
    BY <1>3 DEF OrchTypeOK
  <1>4. ASSUME NEW s \in Service, ContainerExits(s)
        PROVE  \E c : /\ ctr' = [ctr EXCEPT ![s] = c]
                      /\ c.state # "none" /\ ctr[s].state = "running"
                      /\ c.managed = ctr[s].managed /\ c.entry = ctr[s].entry
                      /\ c.image = ctr[s].image /\ c.hash = ctr[s].hash
                      /\ c.digest = ctr[s].digest
    <2>1. PICK code \in {0, 1} : ctr' = [ctr EXCEPT ![s] = Stopped(ctr[s], code)]
      BY <1>4 DEF ContainerExits, OrchTypeOK
    <2>2. ctr[s] \in ContainerType
      BY DEF OrchTypeOK
    <2> DEFINE c == Stopped(ctr[s], code)
    <2>3. /\ c.state # "none" /\ c.managed = ctr[s].managed /\ c.entry = ctr[s].entry
          /\ c.image = ctr[s].image /\ c.hash = ctr[s].hash /\ c.digest = ctr[s].digest
      BY <2>2 DEF Stopped, ContainerType
    <2> HIDE DEF c
    <2>4. ctr' = [ctr EXCEPT ![s] = c] /\ ctr[s].state = "running"
      BY <1>4, <2>1 DEF c, ContainerExits
    <2>5. QED
      BY <2>3, <2>4
  <1>5. ASSUME NEW s \in Service, HealthChanges(s)
        PROVE  \E c : /\ ctr' = [ctr EXCEPT ![s] = c]
                      /\ c.state # "none" /\ ctr[s].state = "running"
                      /\ c.managed = ctr[s].managed /\ c.entry = ctr[s].entry
                      /\ c.image = ctr[s].image /\ c.hash = ctr[s].hash
                      /\ c.digest = ctr[s].digest
    <2>1. PICK h : ctr' = [ctr EXCEPT ![s] = [ctr[s] EXCEPT !.health = h]]
      BY <1>5 DEF HealthChanges
    <2>2. ctr[s] \in ContainerType /\ ctr[s].state = "running"
      BY <1>5 DEF OrchTypeOK, HealthChanges
    <2> DEFINE c == [ctr[s] EXCEPT !.health = h]
    <2>3. /\ c.state # "none" /\ c.managed = ctr[s].managed /\ c.entry = ctr[s].entry
          /\ c.image = ctr[s].image /\ c.hash = ctr[s].hash /\ c.digest = ctr[s].digest
      BY <2>2 DEF ContainerType
    <2> HIDE DEF c
    <2>4. ctr' = [ctr EXCEPT ![s] = c]
      BY <2>1 DEF c
    <2>5. QED
      BY <2>2, <2>3, <2>4
  <1>6. QED
    BY <1>1, <1>2, <1>3, <1>4, <1>5
       DEF Environment, EditEntry, Retag, Tick, envFrame, orchVars, engineVars

LEMMA DownPartStep ==
    ASSUME DownInvariant, [OrchNext]_orchVars
    PROVE  DownPart'
  <1> OrchInv /\ DownPart /\ OrchTypeOK
    BY DEF DownInvariant, OrchInv
  <1>1. CASE Environment \/ Tick \/ UNCHANGED orchVars
    <2>1. /\ UNCHANGED <<net, victims, pc, outcome>>
          /\ \A t \in Service : ctr'[t].state = "none" <=> ctr[t].state = "none"
      BY <1>1, EnvContainers DEF downVars, callVars
    <2>2. QED
      BY <2>1 DEF DownPart, DownLeavesNothing
  <1>2. ASSUME NEW s \in Service, ensureService(s) PROVE DownPart'
    <2>1. pc = "level" /\ UNCHANGED <<pc, outcome>>
      BY <1>2, EnsureInLevel
    <2>2. QED
      BY <2>1 DEF DownPart
  <1>3. CASE \/ UpSort \/ UpSorted \/ CreateNetwork \/ ensureNamedVolumes
             \/ UpClosure \/ makeKeepSet \/ JoinLevel \/ GateDone
             \/ (\E s \in Service : Gate(s) \/ GateCancelled(s))
             \/ (\E p \in Plans : UpStart(p) \/ UpRefused(p)) \/ Crash
    <2>1. pc' \notin {"down", "downsort"} /\ outcome' # "down"
      <3>1. CASE \/ UpSort \/ UpSorted \/ CreateNetwork \/ ensureNamedVolumes
                 \/ UpClosure \/ makeKeepSet
        BY <3>1 DEF UpSort, UpSorted, CreateNetwork, ensureNamedVolumes, UpClosure,
                    makeKeepSet, LaunchLevel, Return, Proceed, callVars, DownPart
      <3>2. CASE JoinLevel \/ GateDone
        BY <3>2 DEF JoinLevel, GateDone, NextLevel, LaunchLevel, Return, Proceed, DownPart
      <3>3. CASE \E s \in Service : Gate(s) \/ GateCancelled(s)
        BY <3>3 DEF Gate, WaitFor, GatePass, GateError, GateCancelled, GiveUp, Return, DownPart
      <3>4. CASE (\E p \in Plans : UpStart(p) \/ UpRefused(p)) \/ Crash
        BY <3>4 DEF UpStart, UpRefused, Crash, Call, Return
      <3>5. QED
        BY <1>3, <3>1, <3>2, <3>3, <3>4
    <2>2. QED
      BY <2>1 DEF DownPart
  <1>4. ASSUME NEW d \in DownPlans, DownStart(d) PROVE DownPart'
    BY <1>4 DEF DownStart, Return, engineVars, DownPart
  <1>5. CASE DownSort
    <2>1. /\ pc = "downsort" /\ pc' \in {"down", "downsort"}
          /\ UNCHANGED <<ctr, victims, outcome>>
      BY <1>5 DEF DownSort, engineVars, downVars
    <2>2. QED
      BY <2>1 DEF DownPart
  <1>6. ASSUME NEW s \in Service, DownContainer(s) PROVE DownPart'
    <2>1. pc = "down" /\ outcome # "down"
      BY <1>6 DEF DownContainer, DownPart
    <2>2. CASE /\ ctr' = [ctr EXCEPT ![s] = NoContainer]
               /\ victims' = victims \ {s} /\ UNCHANGED <<pc, outcome>>
      <3>1. NoContainer.state = "none"
        BY DEF NoContainer
      <3>2. QED
        BY <2>1, <2>2, <3>1 DEF DownPart, OrchTypeOK
    <2>3. CASE Return("downfail")
      BY <2>3 DEF Return, DownPart
    <2>4. QED
      BY <1>6, <2>2, <2>3 DEF DownContainer
  <1>7. CASE DownRest
    <2>1. /\ pc = "down" /\ victims = {} /\ UNCHANGED ctr /\ pc' = "idle"
          /\ net' => Fails("network")
      BY <1>7 DEF DownRest, Return
    <2>2. \A s \in Service : ctr'[s].state = "none"
      BY <2>1 DEF DownPart
    <2>3. QED
      BY <2>1, <2>2 DEF DownPart, DownLeavesNothing
  <1>8. QED
    BY <1>1, <1>2, <1>3, <1>4, <1>5, <1>6, <1>7 DEF OrchNext, Main

LEMMA DownInvariantStep == DownInvariant /\ [OrchNext]_orchVars => DownInvariant'
  BY OrchInvStep, DownPartStep DEF DownInvariant

LEMMA DownInvariantInit == OrchInit => DownInvariant
  BY OrchInvInit DEF OrchInit, DownInvariant, DownPart

(***************************************************************************)
(* Orchestrator.Down: one that succeeds leaves no container of the project *)
(* and no network, whatever the calls before it left behind.               *)
(***************************************************************************)
THEOREM DownLeaves == OrchSpec => []DownLeavesNothing
  <1>1. DownInvariant => DownLeavesNothing
    BY DEF DownInvariant, DownPart, DownLeavesNothing
  <1>2. QED
    BY <1>1, DownInvariantInit, DownInvariantStep, PTL DEF OrchSpec

(* The levels of a finished sort give each service one index, above those  *)
(* of the services it depends on.                                          *)
LEMMA LevelIndex ==
    ASSUME OrchInv, down.project, sort = "ok",
           NEW t \in plan.services, NEW s \in Deps(plan, t)
    PROVE  ~(levelIdx(t) <= levelIdx(s))
  <1>1. /\ SortInv /\ remaining = {} /\ levels \in Seq(SUBSET Service)
        /\ Len(levels) \in Nat
    BY DEF OrchInv, GraphPart, SortInv, OrchTypeOK, GraphTypeOK
  <1>2. PICK i \in 1..Len(levels) : t \in levels[i]
    BY <1>1 DEF SortInv
  <1>3. PICK j \in 1..(i - 1) : s \in levels[j]
    BY <1>1, <1>2 DEF SortInv, DepsBelow
  <1>4. j \in 1..Len(levels) /\ i \in Nat /\ j \in Nat /\ j < i
    BY <1>1, <1>2, <1>3
  <1>5. \A k \in 1..Len(levels) : (t \in levels[k] => k = i) /\ (s \in levels[k] => k = j)
    BY <1>1, <1>2, <1>3, <1>4 DEF SortInv, Disjoint
  <1>6. /\ (CHOOSE k \in 1..Len(levels) : t \in levels[k]) = i
        /\ (CHOOSE k \in 1..Len(levels) : s \in levels[k]) = j
    BY <1>2, <1>3, <1>4, <1>5
  <1>7. levelIdx(t) = i - 1 /\ levelIdx(s) = j - 1
    BY <1>2, <1>3, <1>4, <1>6 DEF levelIdx
  <1>8. QED
    BY <1>4, <1>7

(***************************************************************************)
(* orderContainersForTeardown: a Down that knows the project removes the   *)
(* container of a service only when those of its dependents are gone.      *)
(***************************************************************************)
THEOREM DownOrder == OrchSpec => DependentsRemovedFirst
  <1> DEFINE A == \A s \in Service :
                    /\ pc = "down" /\ down.project /\ sort = "ok"
                    /\ ctr[s].state # "none" /\ ctr'[s].state = "none"
                    => \A t \in plan.services : s \in Deps(plan, t) => ctr[t].state = "none"
  <1>1. ASSUME DownInvariant, [OrchNext]_orchVars PROVE A
    <2> SUFFICES ASSUME NEW s \in Service, pc = "down", down.project, sort = "ok",
                        ctr[s].state # "none", ctr'[s].state = "none",
                        NEW t \in plan.services, s \in Deps(plan, t), ctr[t].state # "none"
                 PROVE  FALSE
      OBVIOUS
    <2> OrchInv /\ DownPart /\ OrchTypeOK
      BY <1>1 DEF DownInvariant, OrchInv
    <2>1. t \in Service /\ ctr[s] \in ContainerType
      BY DEF OrchTypeOK, GraphTypeOK, PlanType
    <2>2. PICK q \in Service : DownContainer(q)
      <3>1. ~(Environment \/ Tick \/ UNCHANGED orchVars)
        BY EnvContainers
      <3>2. \A q \in Service : ~ensureService(q)
        BY EnsureInLevel
      <3>3. ctr' # ctr
        OBVIOUS
      <3>4. ~(\E p \in Plans : UpStart(p) \/ UpRefused(p))
            /\ ~(\E d \in DownPlans : DownStart(d)) /\ ~Crash
        BY <3>3 DEF UpStart, UpRefused, DownStart, Call, Crash, engineVars
      <3>5. ~(\E q \in Service : Gate(q) \/ GateCancelled(q))
        BY DEF Gate, WaitFor, GatePass, GateError, GateCancelled, GiveUp
      <3>6. ~(\/ UpSort \/ UpSorted \/ CreateNetwork \/ ensureNamedVolumes
              \/ UpClosure \/ makeKeepSet \/ JoinLevel \/ GateDone \/ DownSort \/ DownRest)
        BY <3>3 DEF UpSort, UpSorted, CreateNetwork, ensureNamedVolumes, UpClosure,
                    makeKeepSet, JoinLevel, GateDone, DownSort, DownRest
      <3>7. QED
        BY <1>1, <3>1, <3>2, <3>4, <3>5, <3>6 DEF OrchNext, Main
    <2>3. q = s /\ TeardownNext(s)
      BY <2>1, <2>2 DEF DownContainer, OrchTypeOK, Stopped
    <2>4. t \in victims
      BY <2>1 DEF DownPart
    <2>5. levelIdx(t) <= levelIdx(s)
      BY <2>3, <2>4 DEF TeardownNext
    <2>6. QED
      BY <2>5, LevelIndex
  <1>2. DownInvariant /\ [OrchNext]_orchVars => [A]_orchVars
    BY <1>1
  <1>3. QED
    BY <1>2, DownInvariantInit, DownInvariantStep, PTL DEF OrchSpec, DependentsRemovedFirst

----------------------------------------------------------------------------
(***************************************************************************)
(* Reuse.  Settled: the case ensureService's comments speak of.  The       *)
(* images are there and are tagged anew between calls only, the service    *)
(* and its image can be looked at, the compose file is edited by way of    *)
(* entry, and a container that carries our labels was made by the code     *)
(* that reads them.                                                        *)
(***************************************************************************)
Honest(p, s, c) ==
    c.managed => /\ c.digest = c.image
                 /\ c.hash = [nsTargets |-> p.nsTargets[s],
                              healthcheck |-> s \in p.healthcheck,
                              image |-> c.image, entry |-> c.entry]

Settled ==
    /\ ~Races /\ ~Fails("inspect")
    /\ \A d \in DownPlans : ~d.images
    /\ \A p, q \in Plans : p.nsTargets = q.nsTargets /\ p.healthcheck = q.healthcheck
    /\ \A i \in Initial, p \in Plans, s \in Service :
         i.image[s] # "absent" /\ Honest(p, s, i.ctr[s])

(* A goroutine that has looked knows the image of its service, and stops   *)
(* or removes only a container of ours that has drifted.                   *)
ReusePart ==
    /\ plan \in Plans /\ ~down.images
    /\ \A s \in Service :
         /\ image[s] # "absent"
         /\ Honest(plan, s, ctr[s])
         /\ task[s] \notin Finished \cup {"probe"} => digest[s] = image[s]
         /\ task[s] \notin {"pull", "retry"}
         /\ task[s] = "inspect" => ~plan.adopt
         /\ task[s] \in {"stop", "remove"} => ~Reusable(s)

ReuseInvariant == OrchInv /\ ReusePart

(* Comparing the labels is comparing the image and the entry.              *)
LEMMA MatchesIsCurrent ==
    ASSUME ReusePart, NEW s \in Service, task[s] = "inspect", ctr[s].managed
    PROVE  Matches(s) <=> ctr[s].entry = entry[s] /\ ctr[s].image = image[s]
  <1>1. digest[s] = image[s] /\ Honest(plan, s, ctr[s])
    BY DEF ReusePart, Finished
  <1>2. QED
    BY <1>1 DEF Matches, Honest, ConfigHash

LEMMA ReuseEnsure ==
    ASSUME Settled, ReuseInvariant, NEW s \in Service, ensureService(s)
    PROVE  ReusePart'
  <1> OrchInv /\ ReusePart /\ OrchTypeOK
    BY DEF ReuseInvariant, OrchInv
  <1>1. /\ UNCHANGED <<plan, down, entry>>
        /\ \A t \in Service \ {s} : task'[t] = task[t] /\ ctr'[t] = ctr[t]
    BY EnsureInLevel
       DEF ensureService, Probe, InspectContainer, StartExisting, StopDrifted,
           RemoveDrifted, RunContainer, PullImage, StartContainer, taskFrame
  <1>2. task[s] # "pull" /\ ~PullImage(s)
    BY DEF ReusePart, PullImage
  <1>3. UNCHANGED image
    BY <1>2 DEF ensureService, Probe, InspectContainer, StartExisting, StopDrifted,
           RemoveDrifted, RunContainer, StartContainer
  <1>4. \A t \in Service \ {s} : digest'[t] = digest[t]
    BY <1>2 DEF ensureService, Probe, InspectContainer, StartExisting, StopDrifted,
           RemoveDrifted, RunContainer, StartContainer, OrchTypeOK
  <1> DEFINE c == ctr[s]
  <1>5. c \in ContainerType /\ Honest(plan, s, c) /\ image[s] # "absent"
    BY DEF OrchTypeOK, ReusePart
  <1>6. ASSUME /\ Honest(plan, s, ctr'[s])
               /\ task'[s] \notin Finished \cup {"probe"} => digest'[s] = image[s]
               /\ task'[s] \notin {"pull", "retry"}
               /\ task'[s] = "inspect" => ~plan.adopt
               /\ task'[s] \in {"stop", "remove"} =>
                    /\ ~plan.adopt /\ ctr'[s].managed
                    /\ ~(ctr'[s].entry = entry[s] /\ ctr'[s].image = image[s])
        PROVE  ReusePart'
    <2>1. ASSUME NEW t \in Service \ {s}
          PROVE  /\ Honest(plan, t, ctr'[t])
                 /\ task'[t] \notin Finished \cup {"probe"} => digest'[t] = image'[t]
                 /\ task'[t] \notin {"pull", "retry"}
                 /\ task'[t] = "inspect" => ~plan.adopt
                 /\ task'[t] \in {"stop", "remove"} => ~Reusable(t)'
      BY <1>1, <1>3, <1>4, <2>1 DEF ReusePart, Reusable
    <2>2. task'[s] \in {"stop", "remove"} => ~Reusable(s)'
      BY <1>1, <1>3, <1>6 DEF Reusable
    <2>3. \A t \in Service : Honest(plan, t, ctr'[t]) => Honest(plan, t, ctr[t])'
      BY <1>1 DEF Honest
    <2>4. plan' \in Plans /\ ~down'.images /\ \A t \in Service : image'[t] # "absent"
      BY <1>1, <1>3 DEF ReusePart
    <2>5. QED
      BY <1>1, <1>3, <1>6, <2>1, <2>2, <2>3, <2>4 DEF ReusePart
  <1>7. CASE Probe(s)
    <2>1. digest'[s] = image[s] /\ ctr'[s] = ctr[s]
      BY <1>5, <1>7 DEF Probe, resolveImageDigest, Settled, OrchTypeOK
    <2>2. /\ task'[s] \in {"fail", "create", "ok", "restart", "inspect"}
          /\ task'[s] = "inspect" => ~plan.adopt
      BY <1>7 DEF Probe, Fail, Go, Adopt, Succeed, OrchTypeOK
    <2>3. QED
      BY <1>5, <1>6, <2>1, <2>2
  <1>8. CASE InspectContainer(s)
    <2>1. task[s] = "inspect" /\ UNCHANGED <<ctr, digest>>
      BY <1>8 DEF InspectContainer
    <2>2. digest[s] = image[s]
      BY <2>1 DEF ReusePart, Finished
    <2>3. CASE ~c.managed \/ Matches(s)
      <3>1. task'[s] \in {"ok", "restart"}
        BY <1>8, <2>3 DEF InspectContainer, Adopt, Succeed, Go, Settled, OrchTypeOK
      <3>2. QED
        BY <1>5, <1>6, <2>1, <2>2, <3>1
    <2>4. CASE c.managed /\ ~Matches(s)
      <3>1. task'[s] = "stop"
        BY <1>8, <2>4 DEF InspectContainer, Go, OrchTypeOK
      <3>2. ~(c.entry = entry[s] /\ c.image = image[s])
        BY <2>1, <2>4, MatchesIsCurrent
      <3>3. ~plan.adopt
        BY <2>1 DEF ReusePart
      <3>4. QED
        BY <1>5, <1>6, <2>1, <2>2, <2>4, <3>1, <3>2, <3>3
    <2>5. QED
      BY <2>3, <2>4
  <1>9. CASE StartExisting(s) \/ StartContainer(s)
    <2>1. task'[s] \in {"ok", "fail"} /\ (ctr'[s] = c \/ ctr'[s] = Started(c))
      BY <1>9 DEF StartExisting, StartContainer, Succeed, Fail, OrchTypeOK
    <2>2. Honest(plan, s, Started(c))
      BY <1>5 DEF Honest, Started, ContainerType
    <2>3. QED
      BY <1>5, <1>6, <2>1, <2>2 DEF Finished
  <1>10. CASE StopDrifted(s)
    <2>1. /\ task[s] = "stop" /\ task'[s] = "remove" /\ UNCHANGED digest
          /\ ctr'[s] = c \/ ctr'[s] = Stopped(c, 1)
      BY <1>10 DEF StopDrifted, Go, OrchTypeOK
    <2>2. /\ Honest(plan, s, Stopped(c, 1)) /\ Stopped(c, 1).managed = c.managed
          /\ Stopped(c, 1).entry = c.entry /\ Stopped(c, 1).image = c.image
      BY <1>5 DEF Honest, Stopped, ContainerType
    <2>3. digest[s] = image[s] /\ ~Reusable(s)
      BY <2>1 DEF ReusePart, Finished
    <2>4. QED
      BY <1>5, <1>6, <2>1, <2>2, <2>3 DEF Reusable
  <1>11. CASE RemoveDrifted(s)
    <2>1. /\ task[s] = "remove" /\ task'[s] \in {"create", "fail"} /\ UNCHANGED digest
          /\ ctr'[s] = c \/ ctr'[s] = NoContainer
      BY <1>11 DEF RemoveDrifted, Go, Fail, OrchTypeOK
    <2>2. Honest(plan, s, NoContainer)
      BY DEF Honest, NoContainer
    <2>3. digest[s] = image[s]
      BY <2>1 DEF ReusePart, Finished
    <2>4. QED
      BY <1>5, <1>6, <2>1, <2>2, <2>3
  <1>12. CASE RunContainer(s)
    <2>1. /\ task[s] \in {"create", "retry"} /\ UNCHANGED digest
          /\ \/ task'[s] = "fail" /\ ctr'[s] = c
             \/ task'[s] = "start" /\ ctr'[s] = NewContainer(s)
      BY <1>5, <1>12 DEF RunContainer, Go, Fail, OrchTypeOK
    <2>2. digest[s] = image[s]
      BY <2>1 DEF ReusePart, Finished
    <2>3. Honest(plan, s, NewContainer(s))
      BY <2>2 DEF Honest, NewContainer, ConfigHash
    <2>4. QED
      BY <1>5, <1>6, <2>1, <2>2, <2>3
  <1>13. QED
    BY <1>2, <1>7, <1>8, <1>9, <1>10, <1>11, <1>12 DEF ensureService

(* Outside a goroutine's own steps: containers keep their labels, images   *)
(* are replaced by images, and a goroutine that is not finished is left    *)
(* alone or gone.                                                          *)
LEMMA ReuseFrame ==
    ASSUME Settled, ReuseInvariant, plan' \in Plans, ~down'.images,
           \A s \in Service :
              /\ image'[s] # "absent"
              /\ Honest(plan, s, ctr'[s])
              /\ task'[s] \in Finished \cup {"probe"}
    PROVE  ReusePart'
  <1>1. plan \in Plans
    BY DEF ReuseInvariant, ReusePart
  <1>2. plan'.nsTargets = plan.nsTargets /\ plan'.healthcheck = plan.healthcheck
    BY <1>1 DEF Settled
  <1>3. \A s \in Service : Honest(plan, s, ctr'[s]) => Honest(plan', s, ctr'[s])
    BY <1>2 DEF Honest
  <1>4. QED
    BY <1>3 DEF ReusePart, Finished

(* A container that is stopped, started or gone keeps what its labels say. *)
LEMMA HonestKept ==
    ASSUME NEW p, NEW s, NEW c \in ContainerType, Honest(p, s, c)
    PROVE  Honest(p, s, Stopped(c, 1)) /\ Honest(p, s, NoContainer)
  BY DEF Honest, Stopped, ContainerType, NoContainer

(* Containers, users and time.                                             *)
LEMMA ReuseEnv ==
    ASSUME Settled, ReuseInvariant, Environment \/ Tick \/ UNCHANGED orchVars
    PROVE  ReusePart'
  <1> OrchInv /\ ReusePart /\ OrchTypeOK
    BY DEF ReuseInvariant, OrchInv
  <1>1. UNCHANGED <<plan, task, digest, down, pc>>
    BY EnvContainers DEF graphVars, taskVars, downVars, callVars
  <1>2. \A t \in Service :
          /\ ctr'[t].managed = ctr[t].managed /\ ctr'[t].entry = ctr[t].entry
          /\ ctr'[t].image = ctr[t].image /\ ctr'[t].hash = ctr[t].hash
          /\ ctr'[t].digest = ctr[t].digest
    BY EnvContainers
  <1>3. \A t \in Service : Honest(plan, t, ctr'[t])
    BY <1>2 DEF Honest, ReusePart
  <1>4. CASE UNCHANGED <<image, entry>>
    BY <1>1, <1>2, <1>3, <1>4 DEF ReusePart, Reusable
  <1>5. CASE \E s \in Service : EditEntry(s) \/ Retag(s)
    <2>1. pc = "idle"
      BY <1>5 DEF EditEntry, Retag, Settled
    <2>2. \A t \in Service : task'[t] \in Finished
      BY <1>1, <2>1 DEF OrchInv, TaskPart
    <2>3. \A t \in Service : image'[t] # "absent"
      BY <1>5, OrchestratorAssumption DEF EditEntry, Retag, Settled, ReusePart, OrchTypeOK
    <2>4. QED
      BY <1>1, <1>3, <2>2, <2>3, ReuseFrame DEF ReusePart
  <1>6. QED
    BY <1>4, <1>5
       DEF Environment, ContainerExits, HealthChanges, Tick, orchVars, engineVars

(* The steps of the calling goroutine before, between and after levels.    *)
LEMMA ReuseMain ==
    ASSUME Settled, ReuseInvariant,
           \/ Main \/ Crash \/ \E s \in Service : GateCancelled(s)
           \/ \E p \in Plans : UpStart(p) \/ UpRefused(p)
           \/ \E d \in DownPlans : DownStart(d)
    PROVE  ReusePart'
  <1> OrchInv /\ ReusePart /\ OrchTypeOK
    BY DEF ReuseInvariant, OrchInv
  <1> USE DEF Finished
  <1>1. ASSUME plan' \in Plans, ~down'.images, UNCHANGED <<ctr, image>>,
               \A s \in Service : task'[s] \in Finished \cup {"probe"}
        PROVE  ReusePart'
    <2>1. \A s \in Service : image'[s] # "absent" /\ Honest(plan, s, ctr'[s])
      BY <1>1 DEF ReusePart
    <2>2. QED
      BY <1>1, <2>1, ReuseFrame
  <1>2. pc # "level" => \A s \in Service : task[s] \in Finished
    BY DEF OrchInv, TaskPart
  <1>3. CASE \/ UpSort \/ UpSorted \/ CreateNetwork \/ ensureNamedVolumes \/ UpClosure
             \/ DownSort \/ (\E s \in Service : Gate(s) \/ GateCancelled(s))
    <2>1. UNCHANGED <<ctr, image, down, task>> /\ pc # "level"
      BY <1>3 DEF UpSort, UpSorted, CreateNetwork, ensureNamedVolumes, UpClosure, DownSort,
                  Gate, WaitFor, GatePass, GateError, GateCancelled, GiveUp, gateFrame,
                  engineVars, downVars, taskVars
    <2>2. UNCHANGED plan
      BY <1>3 DEF UpSort, UpSorted, CreateNetwork, ensureNamedVolumes, UpClosure,
                  DownSort, Gate, WaitFor, GatePass, GateError, GateCancelled, GiveUp,
                  gateFrame, graphVars, SortNext, SortLevel, SortDone, SortStuck, WalkOn,
                  WalkClose, ClosureNext, ClosureSkip, ClosureVisit, ClosureDone
    <2>3. QED
      BY <1>1, <1>2, <2>1, <2>2 DEF ReusePart
  <1>4. CASE makeKeepSet \/ JoinLevel \/ GateDone
    <2>1. UNCHANGED <<ctr, image, down, plan>>
      BY <1>4 DEF makeKeepSet, JoinLevel, GateDone, gateFrame, engineVars, downVars, graphVars
    <2>2. \A s \in Service : task[s] \in Finished
      BY <1>2, <1>4 DEF makeKeepSet, JoinLevel, GateDone
    <2>3. \A s \in Service : task'[s] \in Finished \cup {"probe"}
      BY <1>4, <2>2 DEF makeKeepSet, JoinLevel, GateDone, NextLevel, LaunchLevel
    <2>4. QED
      BY <1>1, <2>1, <2>3 DEF ReusePart
  <1>5. CASE \/ Crash \/ \E p \in Plans : UpStart(p) \/ UpRefused(p)
             \/ \E d \in DownPlans : DownStart(d)
    <2>1. UNCHANGED <<ctr, image>> /\ plan' \in Plans /\ ~down'.images
      BY <1>5 DEF Crash, UpStart, UpRefused, DownStart, engineVars, graphVars, downVars,
                  ReusePart, Settled
    <2>2. \A s \in Service : task'[s] \in Finished
      BY <1>2, <1>5 DEF Crash, UpStart, UpRefused, DownStart, Call, taskVars
    <2>3. QED
      BY <1>1, <2>1, <2>2
  <1>6. ASSUME NEW s \in Service, DownContainer(s) PROVE ReusePart'
    <2>1. pc = "down" /\ UNCHANGED <<plan, image, down, task>>
      BY <1>6 DEF DownContainer, graphVars, taskVars
    <2>2. \A t \in Service : ctr'[t] \in {ctr[t], NoContainer, Stopped(ctr[t], 1)}
      BY <1>6 DEF DownContainer, OrchTypeOK
    <2>3. \A t \in Service : ctr[t] \in ContainerType /\ Honest(plan, t, ctr[t])
      BY DEF OrchTypeOK, ReusePart
    <2>4. \A t \in Service : Honest(plan, t, ctr'[t])
      BY <2>2, <2>3, HonestKept
    <2>5. QED
      BY <1>2, <2>1, <2>4, ReuseFrame DEF ReusePart
  <1>7. CASE DownRest
    <2>1. pc = "down" /\ UNCHANGED <<plan, ctr, down, task>>
      BY <1>7 DEF DownRest, graphVars, taskVars, downVars
    <2>2. \A t \in Service : image'[t] = image[t]
      BY <1>7 DEF DownRest, ReusePart
    <2>3. \A t \in Service : image'[t] # "absent" /\ Honest(plan, t, ctr'[t])
      BY <2>1, <2>2 DEF ReusePart
    <2>4. QED
      BY <1>2, <2>1, <2>3, ReuseFrame DEF ReusePart
  <1>8. QED
    BY <1>3, <1>4, <1>5, <1>6, <1>7 DEF Main

LEMMA ReuseStep == Settled /\ ReuseInvariant /\ [OrchNext]_orchVars => ReuseInvariant'
  <1> SUFFICES ASSUME Settled, ReuseInvariant, [OrchNext]_orchVars
               PROVE  ReusePart'
    BY OrchInvStep DEF ReuseInvariant
  <1>1. QED
    BY ReuseEnsure, ReuseEnv, ReuseMain DEF OrchNext

LEMMA ReuseInit == Settled /\ OrchInit => ReuseInvariant
  <1> SUFFICES ASSUME Settled, OrchInit PROVE ReuseInvariant
    OBVIOUS
  <1>1. PICK i \in Initial : ctr = i.ctr /\ image = i.image
    BY DEF OrchInit
  <1>2. plan \in Plans /\ ~down.images /\ \A s \in Service : task[s] = "none"
    BY DEF OrchInit
  <1>3. \A s \in Service : image[s] # "absent" /\ Honest(plan, s, ctr[s])
    BY <1>1, <1>2 DEF Settled
  <1>4. QED
    BY <1>2, <1>3, OrchInvInit DEF ReuseInvariant, ReusePart, Finished

(* While a level runs only its goroutines stop, start or remove anything.  *)
LEMMA LevelActors ==
    ASSUME OrchInv, [OrchNext]_orchVars, pc = "level"
    PROVE  \/ \E s \in Service : ensureService(s)
           \/ /\ \A s \in Service : ctr'[s].state = "none" <=> ctr[s].state = "none"
              /\ \A s \in Service : task[s] \notin Finished => task'[s] \in {task[s], "none"}
  <1>1. CASE Environment \/ Tick \/ UNCHANGED orchVars
    BY <1>1, EnvContainers DEF OrchInv, taskVars
  <1>2. CASE JoinLevel \/ Crash
    BY <1>2 DEF JoinLevel, Crash, engineVars
  <1>3. ~(UpSort \/ UpSorted \/ CreateNetwork \/ ensureNamedVolumes \/ UpClosure
          \/ makeKeepSet \/ GateDone \/ DownSort \/ DownRest)
    BY DEF UpSort, UpSorted, CreateNetwork, ensureNamedVolumes, UpClosure, makeKeepSet,
           GateDone, DownSort, DownRest
  <1>4. \A s \in Service : ~(Gate(s) \/ GateCancelled(s) \/ DownContainer(s))
    BY DEF Gate, WaitFor, GatePass, GateError, GateCancelled, GiveUp, DownContainer
  <1>5. /\ \A p \in Plans : ~(UpStart(p) \/ UpRefused(p))
        /\ \A d \in DownPlans : ~DownStart(d)
    BY DEF UpStart, UpRefused, DownStart, Call
  <1>6. QED
    BY <1>1, <1>2, <1>3, <1>4, <1>5 DEF OrchNext, Main

(***************************************************************************)
(* ensureService, in the settled case: a container reused after the labels *)
(* were compared runs the service's present entry and image, in every      *)
(* interleaving of the goroutines and after every failed or crashed call.  *)
(***************************************************************************)
THEOREM ReuseCurrent ==
    ASSUME Settled
    PROVE  OrchSpec => ReuseIsCurrent
  <1> DEFINE A == \A s \in Service :
                    /\ task[s] = "inspect" /\ task'[s] \in {"ok", "restart"}
                    /\ ctr[s].managed
                    => ctr[s].entry = entry[s] /\ ctr[s].image = image[s]
  <1>1. ASSUME ReuseInvariant, OrchNext PROVE A
    <2> SUFFICES ASSUME NEW s \in Service, task[s] = "inspect",
                        task'[s] \in {"ok", "restart"}, ctr[s].managed
                 PROVE  ctr[s].entry = entry[s] /\ ctr[s].image = image[s]
      OBVIOUS
    <2> OrchInv /\ ReusePart /\ OrchTypeOK
      BY <1>1 DEF ReuseInvariant, OrchInv
    <2>1. pc = "level"
      BY DEF OrchInv, TaskPart, Finished
    <2>2. PICK t \in Service : ensureService(t)
      BY <1>1, <2>1, LevelActors DEF Finished
    <2>3. t = s
      BY <2>2, EnsureInLevel
    <2>4. InspectContainer(s)
      BY <2>2, <2>3 DEF ensureService, Probe, StartExisting, StopDrifted, RemoveDrifted,
                        RunContainer, PullImage, StartContainer
    <2>5. Matches(s)
      BY <1>1, <2>4 DEF InspectContainer, Go, Settled, OrchTypeOK
    <2>6. QED
      BY <2>5, MatchesIsCurrent
  <1>2. ReuseInvariant /\ [OrchNext]_orchVars => [A]_orchVars
    BY <1>1
  <1>3. OrchInit => ReuseInvariant
    BY ReuseInit
  <1>4. ReuseInvariant /\ [OrchNext]_orchVars => ReuseInvariant'
    BY ReuseStep
  <1>5. QED
    BY <1>2, <1>3, <1>4, PTL DEF OrchSpec, ReuseIsCurrent

(***************************************************************************)
(* ensureService, in the settled case: Up removes no container it should   *)
(* have kept, be it adopted, foreign or up to date.                        *)
(***************************************************************************)
THEOREM ReusableKept ==
    ASSUME Settled
    PROVE  OrchSpec => ReusableSurvivesUp
  <1> DEFINE A == \A s \in Service :
                    pc = "level" /\ ctr[s].state # "none" /\ ctr'[s].state = "none"
                      => ~Reusable(s)
  <1>1. ASSUME ReuseInvariant, OrchNext PROVE A
    <2> SUFFICES ASSUME NEW s \in Service, pc = "level",
                        ctr[s].state # "none", ctr'[s].state = "none"
                 PROVE  ~Reusable(s)
      OBVIOUS
    <2> OrchInv /\ ReusePart /\ OrchTypeOK
      BY <1>1 DEF ReuseInvariant, OrchInv
    <2>1. PICK t \in Service : ensureService(t)
      BY <1>1, LevelActors
    <2>2. t = s
      BY <2>1, EnsureInLevel
    <2>3. ctr[s] \in ContainerType
      BY DEF OrchTypeOK
    <2>4. RemoveDrifted(s)
      <3>1. /\ Started(ctr[s]).state # "none" /\ Stopped(ctr[s], 1).state # "none"
            /\ NewContainer(s).state # "none"
        BY <2>3 DEF Started, Stopped, NewContainer, ContainerType
      <3>2. QED
        BY <2>1, <2>2, <3>1 DEF ensureService, Probe, InspectContainer, StartExisting,
              StopDrifted, RunContainer, PullImage, StartContainer, OrchTypeOK
    <2>5. task[s] = "remove"
      BY <2>4 DEF RemoveDrifted
    <2>6. QED
      BY <2>5 DEF ReusePart
  <1>2. ReuseInvariant /\ [OrchNext]_orchVars => [A]_orchVars
    BY <1>1
  <1>3. OrchInit => ReuseInvariant
    BY ReuseInit
  <1>4. ReuseInvariant /\ [OrchNext]_orchVars => ReuseInvariant'
    BY ReuseStep
  <1>5. QED
    BY <1>2, <1>3, <1>4, PTL DEF OrchSpec, ReusableSurvivesUp
=============================================================================
