------------------------ MODULE ComposeOrchestrator ------------------------
(***************************************************************************)
(* compose/orchestrator.go: Orchestrator.Up and Orchestrator.Down against  *)
(* a container runtime.                                                    *)
(*                                                                         *)
(* Up sorts the project into levels (ComposeGraph), creates the project's  *)
(* network and volumes, and takes the levels in order: one goroutine per   *)
(* selected service runs ensureService, all goroutines of the level are    *)
(* joined, then gateLevel waits for the health and completion conditions   *)
(* later levels depend on.  Between any two runtime calls containers may   *)
(* exit or change health, images may be re-tagged or pruned, calls may     *)
(* fail and the whole process may die.                                     *)
(***************************************************************************)
EXTENDS ComposeGraph, Integers

CONSTANTS
    Version,       \* versions of a service's entry in the compose file
    Digest,        \* image digests a service's tag may point at
    Faults,        \* runtime calls that may fail
    Races,         \* whether images are re-tagged while a call is running
    Healthchecks,  \* Capabilities.Healthchecks of the backend
    ExitCodes,     \* Capabilities.ExitCodes of the backend
    HealthReported, \* whether the backend really reports health
    ImageHealth,   \* services whose image has a HEALTHCHECK of its own
    BuiltImages,   \* services whose image carries the project label
    Initial,       \* the containers and images the first call may find
    HealthTimeout, \* Orchestrator.HealthTimeout, in ticks
    DownPlans,     \* the DownPlans Orchestrator.Down may be called with
    MaxCalls       \* bound on the calls of Up and Down in a behaviour

FaultKind == {"network", "volume", "list", "inspect", "remove", "run",
              "pull", "start", "cancel"}

ASSUME OrchestratorAssumption ==
    /\ Version # {} /\ Digest # {} /\ "absent" \notin Digest
    /\ "ref" \notin Digest
    /\ Faults \subseteq FaultKind
    /\ Races \in BOOLEAN /\ HealthReported \in BOOLEAN
    /\ Healthchecks \in BOOLEAN /\ ExitCodes \in BOOLEAN
    /\ ImageHealth \subseteq Service /\ BuiltImages \subseteq Service
    /\ HealthTimeout \in Nat /\ MaxCalls \in Nat
    /\ DownPlans \subseteq
         [volumes : BOOLEAN, project : BOOLEAN, images : BOOLEAN]

(***************************************************************************)
(* What ConfigHash hashes: the image identity and the service entry with   *)
(* its DependsOn stripped (and the other non-runtime fields left out).     *)
(***************************************************************************)
Identity == Digest \cup {"ref"}

HashType == [nsTargets : SUBSET Service, healthcheck : BOOLEAN,
             image : Identity, entry : Version]

Health == {"none", "starting", "healthy", "unhealthy"}

(***************************************************************************)
(* A container of the project: State, ExitCode and Health as inspect       *)
(* reports them, whether it carries the config-hash label (managed), that  *)
(* label and the image-digest label, whether it has a healthcheck, and the *)
(* image and entry it was really created from.                             *)
(***************************************************************************)
ContainerType ==
    [image : Digest \cup {"absent"},
     state : {"none", "created", "running", "exited"},
     entry : Version, exit : {0, 1}, health : Health, managed : BOOLEAN,
     hash : HashType, digest : Identity, checked : BOOLEAN]

(* A running container with a healthcheck has a status on a backend that   *)
(* reports one, a container without a healthcheck has none.                *)
HealthConsistent(c) ==
    /\ c.state = "running" /\ c.checked /\ HealthReported => c.health # "none"
    /\ ~c.checked => c.health = "none"

ASSUME InitialAssumption ==
    \A i \in Initial :
        /\ i.ctr \in [Service -> ContainerType]
        /\ i.image \in [Service -> Digest \cup {"absent"}]
        /\ \A s \in Service : HealthConsistent(i.ctr[s])

VARIABLES
    ctr,       \* the container of each (project, service)
    image,     \* the local image store: digest of each service's image
    entry,     \* the version of each service's entry in the compose file
    net, vol,  \* the project network and the named volumes exist
    pc,        \* where the Up or Down call stands; "idle" between calls
    keep,      \* makeKeepSet(plan)
    lvl,       \* index of the level at hand
    task,      \* where each service's ensureService goroutine stands
    digest,    \* its imageDigest
    listed,    \* the State its ListContainers returned
    ids,       \* the keys of res.ContainerIDs
    failed,    \* {firstSvc}, or {} while firstErr is nil
    required,  \* gateLevel's required map
    waiting,   \* {the service waitFor polls}, or {}
    clock,     \* ticks since gateLevel computed its deadline
    since,     \* clock when waitFor was entered
    calls,     \* calls made so far
    outcome,   \* how the last call returned
    down,      \* the DownPlan
    victims,   \* containers Down has listed and not yet removed
    met        \* history: conditions seen satisfied during this Up

engineVars == <<ctr, image, entry, net, vol>>
taskVars   == <<task, digest, listed, ids, failed>>
gateVars   == <<required, waiting, clock, since, met>>
downVars   == <<down, victims>>
callVars   == <<pc, keep, lvl, outcome, calls>>
orchVars   == <<graphVars, engineVars, taskVars, gateVars, downVars, callVars>>

SomeVersion == CHOOSE v \in Version : TRUE

NoHash == [nsTargets |-> {}, healthcheck |-> FALSE, image |-> "ref",
           entry |-> SomeVersion]

NoContainer ==
    [image |-> "absent", state |-> "none", entry |-> SomeVersion,
     exit |-> 0, health |-> "none", managed |-> FALSE, hash |-> NoHash,
     digest |-> "ref", checked |-> FALSE]

NoRequirement == [optional |-> FALSE, cond |-> "no"]

RequirementType == [optional : BOOLEAN, cond : Condition]

DownPlanType == [volumes : BOOLEAN, project : BOOLEAN, images : BOOLEAN]

----------------------------------------------------------------------------
(* The runtime's side of a call. *)

Fails(call) == call \in Faults

Started(c) ==
    [c EXCEPT !.state = "running",
              !.health = IF c.checked /\ HealthReported
                         THEN "starting" ELSE "none"]

Stopped(c, code) ==
    [c EXCEPT !.state = "exited", !.exit = code,
              !.health = IF c.checked /\ HealthReported
                         THEN "unhealthy" ELSE "none"]

----------------------------------------------------------------------------
(* Calls come one at a time: concurrent use of one project is the caller's *)
(* responsibility (the type's comment).                                    *)

Call == pc = "idle" /\ calls < MaxCalls /\ calls' = calls + 1

(* A bug: a backend without exit codes is trusted with completions.        *)
ValidateHealthOnly(p) ==
    \A s \in p.services : \A d \in Service :
        p.dependsOn[s][d] = "service_healthy" => Healthchecks

(* The conditions a backend cannot honour are refused before anything is   *)
(* created; the fields refused on every backend are not in a Plan here.    *)
Validate(p) ==
    \A s \in p.services : \A d \in Service :
        /\ p.dependsOn[s][d] = "service_healthy" => Healthchecks
        /\ p.dependsOn[s][d] = "service_completed_successfully" => ExitCodes

UpRefused(p) ==
    /\ Call
    /\ ~Validate(p)
    /\ outcome' = "refused"
    /\ UNCHANGED <<graphVars, engineVars, taskVars, gateVars, downVars, pc,
                   keep, lvl>>

UpStart(p) ==
    /\ Call
    /\ Validate(p)
    /\ plan' = p
    /\ SortStart(p)
    /\ closing' = "idle" /\ seen' = {} /\ queue' = {}
    /\ pc' = "sort" /\ outcome' = "none"
    /\ keep' = {} /\ lvl' = 0
    /\ task' = [s \in Service |-> "none"]
    /\ ids' = {} /\ failed' = {}
    /\ met' = [s \in Service |-> {}]
    /\ UNCHANGED <<engineVars, digest, listed, required, waiting, clock,
                   since, downVars>>

Return(result) == pc' = "idle" /\ outcome' = result

Proceed(next) == pc' = next /\ UNCHANGED outcome

UpSort ==
    /\ pc = "sort"
    /\ SortNext
    /\ UNCHANGED <<engineVars, taskVars, gateVars, downVars, callVars>>

UpSorted ==
    /\ pc = "sort"
    /\ \/ sort = "ok" /\ Proceed("network")
       \/ sort = "cycle" /\ Return("cycle")
    /\ UNCHANGED <<graphVars, engineVars, taskVars, gateVars, downVars, keep,
                   lvl, calls>>

CreateNetwork ==
    /\ pc = "network"
    /\ \/ net' = TRUE /\ Proceed("volumes")
       \/ Fails("network") /\ UNCHANGED net /\ Return("infrastructure")
    /\ UNCHANGED <<graphVars, ctr, image, entry, vol, taskVars, gateVars,
                   downVars, keep, lvl, calls>>

ensureNamedVolumes ==
    /\ pc = "volumes"
    /\ \/ /\ vol' = (vol \/ plan.volumes)
          /\ Proceed("keep")
          /\ ClosureStart(plan)
       \/ /\ plan.volumes /\ Fails("volume")
          /\ Return("infrastructure")
          /\ UNCHANGED <<vol, closureVars>>
    /\ UNCHANGED <<plan, sortVars, ctr, image, entry, net, taskVars, gateVars,
                   downVars, keep, lvl, calls>>

UpClosure ==
    /\ pc = "keep"
    /\ plan.names # {}
    /\ ClosureNext
    /\ UNCHANGED <<engineVars, taskVars, gateVars, downVars, callVars>>

(***************************************************************************)
(* The goroutines of level i: one for every kept service of it that the    *)
(* project has.  A level without one is joined and gated all the same.     *)
(***************************************************************************)
LaunchLevel(i, kept) ==
    IF i \in 1..Len(levels)
    THEN /\ Proceed("level")
         /\ task' = [s \in Service |->
                       IF s \in levels[i] \cap kept \cap plan.services
                       THEN "probe" ELSE task[s]]
    ELSE Return("ok") /\ UNCHANGED task

(* A bug: a restricted plan starts the named services alone.               *)
makeKeepSetNamesOnly ==
    /\ pc = "keep"
    /\ plan.names = {} \/ closing = "ok"
    /\ keep' = IF plan.names = {} THEN plan.services ELSE plan.names
    /\ lvl' = 1
    /\ LaunchLevel(1, keep')
    /\ UNCHANGED <<graphVars, engineVars, digest, listed, ids, failed,
                   gateVars, downVars, calls>>

makeKeepSet ==
    /\ pc = "keep"
    /\ plan.names = {} \/ closing = "ok"
    /\ keep' = IF plan.names = {} THEN plan.services ELSE seen
    /\ lvl' = 1
    /\ LaunchLevel(1, keep')
    /\ UNCHANGED <<graphVars, engineVars, digest, listed, ids, failed,
                   gateVars, downVars, calls>>

----------------------------------------------------------------------------
(* ensureService, one goroutine per service of the level. *)

Go(s, next) == task' = [task EXCEPT ![s] = next] /\ UNCHANGED <<ids, failed>>

(* The goroutine's return: the id is recorded or the first error kept.     *)
Succeed(s) ==
    /\ task' = [task EXCEPT ![s] = "ok"]
    /\ ids' = ids \cup {s}
    /\ UNCHANGED failed

(* A bug: the goroutine's error is dropped.                                *)
FailUnreported(s) ==
    /\ task' = [task EXCEPT ![s] = "fail"]
    /\ UNCHANGED <<ids, failed>>

Fail(s) ==
    /\ task' = [task EXCEPT ![s] = "fail"]
    /\ failed' = IF failed = {} THEN {s} ELSE failed
    /\ UNCHANGED ids

(* An existing container is kept: started if the listing did not show it   *)
(* running.                                                                *)
Adopt(s, state) == IF state = "running" THEN Succeed(s) ELSE Go(s, "restart")

resolveImageDigest(s) == IF image[s] = "absent" THEN "ref" ELSE image[s]

ConfigHash(s, d) ==
    [nsTargets |-> plan.nsTargets[s], healthcheck |-> s \in plan.healthcheck,
     image |-> d, entry |-> entry[s]]

taskFrame == <<graphVars, entry, net, vol, gateVars, downVars, callVars>>

(* resolveImageDigest (which falls back to the reference on any error),    *)
(* then ListContainers on the project and service.                         *)
Probe(s) ==
    /\ task[s] = "probe"
    /\ \/ digest' = [digest EXCEPT ![s] = resolveImageDigest(s)]
       \/ Fails("inspect") /\ digest' = [digest EXCEPT ![s] = "ref"]
    /\ listed' = [listed EXCEPT ![s] = ctr[s].state]
    /\ \/ Fails("list") /\ Fail(s)
       \/ ctr[s].state = "none" /\ Go(s, "create")
       \/ ctr[s].state # "none" /\ plan.adopt /\ Adopt(s, ctr[s].state)
       \/ ctr[s].state # "none" /\ ~plan.adopt /\ Go(s, "inspect")
    /\ UNCHANGED <<ctr, image, taskFrame>>

Matches(s) ==
    /\ ctr[s].hash = ConfigHash(s, digest[s])
    /\ ctr[s].digest = digest[s]

(* A bug: the image digest is left out of both comparisons.                *)
InspectIgnoresImage(s) ==
    /\ task[s] = "inspect"
    /\ IF \/ ~ctr[s].managed
          \/ ctr[s].hash.entry = entry[s]
       THEN Adopt(s, listed[s])
       ELSE Go(s, "stop")
    /\ UNCHANGED <<ctr, image, digest, listed, taskFrame>>

(* A bug: a container without our labels is recreated like a drifted one.  *)
InspectRecreatesForeign(s) ==
    /\ task[s] = "inspect"
    /\ \/ IF ctr[s].managed /\ Matches(s)
          THEN Adopt(s, listed[s]) ELSE Go(s, "stop")
       \/ Fails("inspect") /\ Go(s, "stop")
    /\ UNCHANGED <<ctr, image, digest, listed, taskFrame>>

InspectContainer(s) ==
    /\ task[s] = "inspect"
    /\ \/ IF ~ctr[s].managed \/ Matches(s)
          THEN Adopt(s, listed[s]) ELSE Go(s, "stop")
       \/ Fails("inspect") /\ Go(s, "stop")
    /\ UNCHANGED <<ctr, image, digest, listed, taskFrame>>

StartExisting(s) ==
    /\ task[s] = "restart"
    /\ \/ /\ ctr' = [ctr EXCEPT ![s] = Started(@)]
          /\ Succeed(s)
       \/ Fails("start") /\ Fail(s) /\ UNCHANGED ctr
    /\ UNCHANGED <<image, digest, listed, taskFrame>>

(* StopContainer's error is ignored: the container may still be running.   *)
StopDrifted(s) ==
    /\ task[s] = "stop"
    /\ \/ ctr' = [ctr EXCEPT ![s] = Stopped(@, 1)]
       \/ UNCHANGED ctr
    /\ Go(s, "remove")
    /\ UNCHANGED <<image, digest, listed, taskFrame>>

RemoveDrifted(s) ==
    /\ task[s] = "remove"
    /\ \/ ctr' = [ctr EXCEPT ![s] = NoContainer] /\ Go(s, "create")
       \/ Fails("remove") /\ Fail(s) /\ UNCHANGED ctr
    /\ UNCHANGED <<image, digest, listed, taskFrame>>

(* resolveNamespaceMode finds a started container for every target.        *)
NamespacesResolve(s) == plan.nsTargets[s] \subseteq ids

(* serviceToRunSpec stamps the hash and digest computed at the start.      *)
NewContainer(s) ==
    [image |-> image[s], state |-> "created", entry |-> entry[s],
     exit |-> 0, health |-> "none", managed |-> TRUE,
     hash |-> ConfigHash(s, digest[s]), digest |-> digest[s],
     checked |-> s \in plan.healthcheck \cup ImageHealth]

RunContainer(s) ==
    /\ task[s] \in {"create", "retry"}
    /\ \/ ~NamespacesResolve(s) /\ Fail(s) /\ UNCHANGED ctr
       \/ Fails("run") /\ Fail(s) /\ UNCHANGED ctr
       \/ /\ NamespacesResolve(s) /\ image[s] = "absent"
          /\ IF task[s] = "create" THEN Go(s, "pull") ELSE Fail(s)
          /\ UNCHANGED ctr
       \/ /\ NamespacesResolve(s) /\ image[s] # "absent"
          /\ ctr' = [ctr EXCEPT ![s] = NewContainer(s)]
          /\ Go(s, "start")
    /\ UNCHANGED <<image, digest, listed, taskFrame>>

PullImage(s) ==
    /\ task[s] = "pull"
    /\ \/ /\ \E d \in Digest : image' = [image EXCEPT ![s] = d]
          /\ Go(s, "retry")
       \/ Fails("pull") /\ Fail(s) /\ UNCHANGED image
    /\ UNCHANGED <<ctr, digest, listed, taskFrame>>

StartContainer(s) ==
    /\ task[s] = "start"
    /\ \/ /\ ctr' = [ctr EXCEPT ![s] = Started(@)]
          /\ Succeed(s)
       \/ Fails("start") /\ Fail(s) /\ UNCHANGED ctr
    /\ UNCHANGED <<image, digest, listed, taskFrame>>

ensureService(s) ==
    \/ Probe(s) \/ InspectContainer(s) \/ StartExisting(s)
    \/ StopDrifted(s) \/ RemoveDrifted(s)
    \/ RunContainer(s) \/ PullImage(s) \/ StartContainer(s)

Finished == {"none", "ok", "fail"}

----------------------------------------------------------------------------
(* gateLevel and waitFor. *)

Gated == {"service_healthy", "service_completed_successfully"}

Dependents(d) ==
    {s \in plan.services \cap keep : plan.dependsOn[s][d] \in Gated}

Requires(s, d) == [optional |-> d \in plan.optional[s],
                   cond |-> plan.dependsOn[s][d]]

(***************************************************************************)
(* One requirement survives per dependency: the first strict one in map    *)
(* order, or the last optional one when there is no strict one.            *)
(***************************************************************************)
Candidates(d) ==
    LET all    == {Requires(s, d) : s \in Dependents(d)}
        strict == {r \in all : ~r.optional}
    IN  IF d \notin levels[lvl] \cap ids \/ all = {} THEN {NoRequirement}
        ELSE IF strict # {} THEN strict ELSE all

NextLevel ==
    /\ lvl' = lvl + 1
    /\ LaunchLevel(lvl + 1, keep)

(* A goroutine's and gateLevel's variables end with them.                  *)
EndTasks ==
    /\ digest' = [s \in Service |-> "ref"]
    /\ listed' = [s \in Service |-> "none"]

EndGate ==
    /\ required' = [s \in Service |-> NoRequirement]
    /\ waiting' = {} /\ clock' = 0 /\ since' = 0

(* wg.Wait returns.                                                        *)
JoinLevel ==
    /\ pc = "level"
    /\ \A s \in Service : task[s] \in Finished
    /\ \/ /\ failed # {}
          /\ Return("partial")
          /\ UNCHANGED <<required, clock, task, lvl>>
       \/ /\ failed = {}
          /\ \A d \in Service : Candidates(d) = {NoRequirement}
          /\ NextLevel
          /\ UNCHANGED <<required, clock>>
       \/ /\ failed = {}
          /\ \E d \in Service : Candidates(d) # {NoRequirement}
          /\ required' \in
               {f \in [Service -> UNION {Candidates(d) : d \in Service}] :
                  \A d \in Service : f[d] \in Candidates(d)}
          /\ clock' = 0
          /\ Proceed("gate")
          /\ UNCHANGED <<task, lvl>>
    /\ EndTasks
    /\ UNCHANGED <<graphVars, engineVars, ids, failed, waiting, since, met,
                   downVars, keep, calls>>

Late == clock > HealthTimeout

gateFrame == <<graphVars, engineVars, digest, listed, ids, failed, downVars,
               keep, calls>>

(* The map's order: any service still to be waited for is next.            *)
WaitFor(s) ==
    /\ pc = "gate"
    /\ waiting = {}
    /\ required[s] # NoRequirement
    /\ waiting' = {s}
    /\ since' = clock
    /\ UNCHANGED <<gateFrame, required, clock, met, pc, lvl, outcome, task>>

(* A backend without exit codes reports zero.                              *)
ExitCode(s) == IF ExitCodes THEN ctr[s].exit ELSE 0

Satisfied(s, cond) ==
    \/ /\ cond = "service_healthy"
       /\ \/ ctr[s].health = "healthy"
          \/ /\ ctr[s].health = "none"
             /\ s \notin plan.healthcheck
             /\ ctr[s].state = "running"
    \/ /\ cond = "service_completed_successfully"
       /\ ctr[s].state = "exited" /\ ExitCode(s) = 0

Refused(s, cond) ==
    \/ cond = "service_healthy" /\ ctr[s].health = "unhealthy"
    \/ /\ cond = "service_completed_successfully"
       /\ ctr[s].state = "exited" /\ ExitCode(s) # 0

(***************************************************************************)
(* What a depends_on condition means, independently of waitFor: a service  *)
(* with a healthcheck has to be healthy, one without has to be running.    *)
(***************************************************************************)
Holds(s, cond) ==
    IF cond = "service_healthy"
    THEN IF ctr[s].checked THEN ctr[s].health = "healthy"
         ELSE ctr[s].state = "running"
    ELSE ctr[s].state = "exited" /\ ctr[s].exit = 0

Waited(s) ==
    /\ waiting' = {}
    /\ required' = [required EXCEPT ![s] = NoRequirement]

(* A bug: a service with no health status passes, declared check or not.   *)
GatePassUnreported(s) ==
    /\ pc = "gate" /\ waiting = {s}
    /\ \/ Satisfied(s, required[s].cond)
       \/ ctr[s].health \in {"none", "starting"} /\ ctr[s].state = "running"
    /\ Waited(s)
    /\ met' = [met EXCEPT ![s] = @ \cup {c \in Gated : Holds(s, c)}]
    /\ UNCHANGED <<gateFrame, clock, since, pc, lvl, outcome, task>>

GatePass(s) ==
    /\ pc = "gate" /\ waiting = {s}
    /\ Satisfied(s, required[s].cond)
    /\ Waited(s)
    /\ met' = [met EXCEPT ![s] = @ \cup {c \in Gated : Holds(s, c)}]
    /\ UNCHANGED <<gateFrame, clock, since, pc, lvl, outcome, task>>

(* A bug: the deadline is never looked at.                                 *)
WaitErrorNoDeadline(s) == Refused(s, required[s].cond)

(* waitFor's errors: refused, or past the deadline.                        *)
WaitError(s) ==
    \/ Refused(s, required[s].cond)
    \/ Late /\ (Fails("inspect") \/ ~Satisfied(s, required[s].cond))

(* gateLevel on an error of waitFor.                                       *)
GiveUp(s) ==
    /\ pc = "gate" /\ waiting = {s}
    /\ IF required[s].optional
       THEN Waited(s) /\ UNCHANGED <<clock, since, pc, outcome>>
       ELSE EndGate /\ Return("gate")
    /\ UNCHANGED <<gateFrame, met, lvl, task>>

GateError(s) == WaitError(s) /\ GiveUp(s)

(* The caller cancels the context while waitFor polls.                     *)
GateCancelled(s) == Fails("cancel") /\ GiveUp(s)

GateDone ==
    /\ pc = "gate"
    /\ waiting = {}
    /\ \A s \in Service : required[s] = NoRequirement
    /\ EndGate
    /\ NextLevel
    /\ UNCHANGED <<gateFrame, met>>

Gate(s) == WaitFor(s) \/ GatePass(s) \/ GateError(s)

----------------------------------------------------------------------------
(* Orchestrator.Down *)

(* A bug: only the containers of the project's present services are listed. *)
DownStartPlanOnly(d) ==
    /\ Call
    /\ down' = d
    /\ plan' \in Plans /\ SortStart(plan')
    /\ victims' = {s \in plan'.services : ctr[s].state # "none"}
    /\ outcome' = "none" /\ pc' = "downsort"
    /\ ids' = {} /\ failed' = {} /\ task' = [s \in Service |-> "none"]
    /\ UNCHANGED <<closureVars, engineVars, digest, listed, gateVars, keep,
                   lvl>>

DownStart(d) ==
    /\ Call
    /\ down' = d
    /\ \/ /\ Fails("list") /\ Return("downfail")
          /\ UNCHANGED <<graphVars, victims>>
       \/ /\ victims' = {s \in Service : ctr[s].state # "none"}
          /\ outcome' = "none"
          /\ IF d.project
             THEN /\ plan' \in Plans /\ SortStart(plan')
                  /\ pc' = "downsort"
                  /\ UNCHANGED closureVars
             ELSE pc' = "down" /\ UNCHANGED graphVars
    /\ ids' = {} /\ failed' = {} /\ task' = [s \in Service |-> "none"]
    /\ UNCHANGED <<engineVars, digest, listed, gateVars, keep, lvl>>

DownSort ==
    /\ pc = "downsort"
    /\ \/ SortNext /\ UNCHANGED pc
       \/ sort \in {"ok", "cycle"} /\ pc' = "down" /\ UNCHANGED graphVars
    /\ UNCHANGED <<engineVars, taskVars, gateVars, downVars, keep, lvl,
                   outcome, calls>>

(***************************************************************************)
(* levelIdx: a Go map, so a service outside the levels counts as level 0.  *)
(***************************************************************************)
levelIdx(s) ==
    IF down.project /\ sort = "ok" /\ (\E i \in 1..Len(levels) : s \in levels[i])
    THEN (CHOOSE i \in 1..Len(levels) : s \in levels[i]) - 1
    ELSE 0

(* A bug: containers go in name order even when the project is known.      *)
TeardownNextAnyOrder(s) == s \in victims

TeardownNext(s) ==
    s \in victims /\ \A t \in victims : levelIdx(t) <= levelIdx(s)

DownContainer(s) ==
    /\ pc = "down"
    /\ TeardownNext(s)
    /\ \/ /\ ctr' = [ctr EXCEPT ![s] = NoContainer]
          /\ victims' = victims \ {s}
          /\ UNCHANGED <<pc, outcome>>
       \/ /\ Fails("remove") /\ Return("downfail")
          /\ ctr' \in {ctr, [ctr EXCEPT ![s] = Stopped(@, 1)]}
          /\ UNCHANGED victims
    /\ UNCHANGED <<graphVars, image, entry, net, vol, taskVars, gateVars, down,
                   keep, lvl, calls>>

(* The network, the volumes and the images: errors are ignored.            *)
DownRest ==
    /\ pc = "down"
    /\ victims = {}
    /\ net' \in {FALSE} \cup {n \in {net} : Fails("network")}
    /\ \/ vol' = (vol /\ ~(down.volumes /\ down.project))
       \/ Fails("volume") /\ UNCHANGED vol
    /\ \E gone \in SUBSET BuiltImages :
         /\ gone = BuiltImages \/ Fails("list") \/ Fails("remove")
         /\ image' = [s \in Service |->
                        IF down.images /\ s \in gone THEN "absent"
                        ELSE image[s]]
    /\ Return("down")
    /\ UNCHANGED <<graphVars, ctr, entry, taskVars, gateVars, downVars, keep,
                   lvl, calls>>

----------------------------------------------------------------------------
(* The environment. *)

envFrame == <<graphVars, net, vol, taskVars, required, waiting, since, met,
              downVars, callVars>>

ContainerExits(s) ==
    /\ ctr[s].state = "running"
    /\ \E code \in {0, 1} : ctr' = [ctr EXCEPT ![s] = Stopped(@, code)]
    /\ UNCHANGED <<envFrame, image, entry, clock>>

HealthChanges(s) ==
    /\ ctr[s].state = "running" /\ ctr[s].checked /\ HealthReported
    /\ \E h \in {"healthy", "unhealthy"} \ {ctr[s].health} :
         ctr' = [ctr EXCEPT ![s].health = h]
    /\ UNCHANGED <<envFrame, image, entry, clock>>

EditEntry(s) ==
    /\ pc = "idle"
    /\ \E v \in Version \ {entry[s]} : entry' = [entry EXCEPT ![s] = v]
    /\ UNCHANGED <<envFrame, ctr, image, clock>>

(* Somebody pulls the tag anew or, in a race with a call, prunes the image. *)
Retag(s) ==
    /\ pc = "idle" \/ Races
    /\ image[s] # "absent"
    /\ \E d \in (Digest \cup {x \in {"absent"} : Races}) \ {image[s]} :
         image' = [image EXCEPT ![s] = d]
    /\ UNCHANGED <<envFrame, ctr, entry, clock>>

Tick ==
    /\ waiting # {} /\ ~Late
    /\ clock' = clock + 1
    /\ UNCHANGED <<envFrame, ctr, image, entry>>

(* The process running the orchestrator dies; the containers stay.         *)
Crash ==
    /\ pc # "idle"
    /\ Return("crashed")
    /\ task' = [s \in Service |-> "none"]
    /\ ids' = {} /\ failed' = {}
    /\ EndTasks
    /\ EndGate
    /\ UNCHANGED <<graphVars, engineVars, met, downVars, keep,
                   lvl, calls>>

----------------------------------------------------------------------------

OrchInit ==
    /\ plan \in Plans
    /\ sort = "idle" /\ remaining = {} /\ levels = <<>> /\ path = <<>>
    /\ closing = "idle" /\ seen = {} /\ queue = {}
    /\ \E i \in Initial : ctr = i.ctr /\ image = i.image
    /\ entry = [s \in Service |-> SomeVersion]
    /\ net = FALSE /\ vol = FALSE
    /\ pc = "idle" /\ keep = {} /\ lvl = 0 /\ outcome = "none" /\ calls = 0
    /\ task = [s \in Service |-> "none"]
    /\ digest = [s \in Service |-> "ref"]
    /\ listed = [s \in Service |-> "none"]
    /\ ids = {} /\ failed = {}
    /\ required = [s \in Service |-> NoRequirement]
    /\ waiting = {} /\ clock = 0 /\ since = 0
    /\ down = [volumes |-> FALSE, project |-> FALSE, images |-> FALSE]
    /\ victims = {}
    /\ met = [s \in Service |-> {}]

Main ==
    \/ UpSort \/ UpSorted \/ CreateNetwork \/ ensureNamedVolumes
    \/ UpClosure \/ makeKeepSet \/ JoinLevel \/ GateDone
    \/ (\E s \in Service : Gate(s))
    \/ DownSort \/ (\E s \in Service : DownContainer(s)) \/ DownRest

Environment ==
    \E s \in Service :
        ContainerExits(s) \/ HealthChanges(s) \/ EditEntry(s) \/ Retag(s)

OrchNext ==
    \/ \E p \in Plans : UpStart(p) \/ UpRefused(p)
    \/ \E d \in DownPlans : DownStart(d)
    \/ Main
    \/ \E s \in Service : ensureService(s)
    \/ \E s \in Service : GateCancelled(s)
    \/ Environment \/ Tick \/ Crash

OrchSpec == OrchInit /\ [][OrchNext]_orchVars

(***************************************************************************)
(* The calling goroutine and every service goroutine keep taking steps (a  *)
(* runtime call returns, with a result or an error), and time passes.      *)
(* Nothing is assumed of containers, users, cancellation or crashes.       *)
(***************************************************************************)
OrchFairSpec ==
    /\ OrchSpec
    /\ WF_orchVars(Main) /\ WF_orchVars(Tick)
    /\ \A s \in Service : WF_orchVars(ensureService(s))

----------------------------------------------------------------------------

UpPhase == {"sort", "network", "volumes", "keep", "level", "gate"}

TaskPhase == {"none", "probe", "inspect", "restart", "stop", "remove",
              "create", "pull", "retry", "start", "ok", "fail"}

OrchTypeOK ==
    /\ GraphTypeOK
    /\ ctr \in [Service -> ContainerType]
    /\ image \in [Service -> Digest \cup {"absent"}]
    /\ entry \in [Service -> Version]
    /\ net \in BOOLEAN /\ vol \in BOOLEAN
    /\ pc \in UpPhase \cup {"idle", "downsort", "down"}
    /\ keep \in SUBSET Service
    /\ lvl \in Nat
    /\ task \in [Service -> TaskPhase]
    /\ digest \in [Service -> Identity]
    /\ listed \in [Service -> {"none", "created", "running", "exited"}]
    /\ ids \in SUBSET Service
    /\ failed \in SUBSET Service
    /\ required \in [Service -> RequirementType]
    /\ waiting \in SUBSET Service
    /\ clock \in Nat /\ since \in Nat /\ calls \in Nat
    /\ outcome \in {"none", "ok", "cycle", "infrastructure", "partial",
                    "gate", "crashed", "down", "downfail", "refused"}
    /\ down \in DownPlanType
    /\ victims \in SUBSET Service
    /\ met \in [Service -> SUBSET Gated]

(***************************************************************************)
(* A service's goroutine runs only after every service it depends on       *)
(* (depends_on and service:x namespaces alike) has been brought up by this *)
(* Up: Up starts a level after the earlier levels have been joined without *)
(* an error, and makeKeepSet has closed the selection under dependencies.  *)
(***************************************************************************)
DepsStartedFirst ==
    \A s \in Service : task[s] # "none" =>
        s \in keep /\ Deps(plan, s) \subseteq ids

Strict(s, d) ==
    /\ plan.dependsOn[s][d] \in Gated
    /\ d \notin plan.optional[s]

(* All strict dependents of d ask for the same condition.                  *)
Uniform(d) ==
    \A s, t \in plan.services \cap keep :
        Strict(s, d) /\ Strict(t, d) =>
            plan.dependsOn[s][d] = plan.dependsOn[t][d]

(***************************************************************************)
(* A service's goroutine runs only after each dependency it requires       *)
(* healthy or completed has been seen so during this Up (gateLevel and     *)
(* waitFor), provided the dependency's strict dependents agree on the      *)
(* condition.                                                              *)
(***************************************************************************)
GatesHoldBeforeStart ==
    \A s \in Service : \A d \in Deps(plan, s) :
        task[s] # "none" /\ Strict(s, d) /\ Uniform(d) =>
            plan.dependsOn[s][d] \in met[d]

(***************************************************************************)
(* What Up reports: every reported service has a container that was        *)
(* started; a successful Up reports every selected service; the service a  *)
(* PartialUpError names is not among the reported ones and nothing that    *)
(* depends on it was touched.                                              *)
(***************************************************************************)
UpReportIsTrue ==
    /\ \A s \in ids : ctr[s].state \in {"running", "exited"}
    /\ outcome = "ok" => ids = keep \cap plan.services
    /\ outcome = "partial" => failed # {}
    /\ \A f \in failed : f \notin ids /\
         \A s \in Service : f \in Deps(plan, s) => task[s] = "none"

Reusable(s) ==
    \/ plan.adopt
    \/ ~ctr[s].managed
    \/ ctr[s].entry = entry[s] /\ ctr[s].image = image[s]

(***************************************************************************)
(* Up never destroys the writable layer of a container it should reuse: an *)
(* adopted or foreign one, or one created from the service's present entry *)
(* and image (ensureService's comments on resume, on foreign containers    *)
(* and on issue #71).                                                      *)
(***************************************************************************)
ReusableSurvivesUp ==
    [][\A s \in Service :
         pc = "level" /\ ctr[s].state # "none" /\ ctr'[s].state = "none"
             => ~Reusable(s)]_orchVars

(***************************************************************************)
(* A container that Up reuses runs the image the service's tag pointed at  *)
(* when ensureService looked: reuse never hides a tag update or an edit of *)
(* the entry (the comment on hashing the digest).                          *)
(***************************************************************************)
ReuseIsCurrent ==
    [][\A s \in Service :
         /\ task[s] = "inspect" /\ task'[s] \in {"ok", "restart"}
         /\ ctr[s].managed
         => ctr[s].entry = entry[s] /\ ctr[s].image = image[s]]_orchVars

(***************************************************************************)
(* Down with a project removes a container only after the containers of    *)
(* all services that depend on it (orderContainersForTeardown).            *)
(***************************************************************************)
DependentsRemovedFirst ==
    [][\A s \in Service :
         /\ pc = "down" /\ down.project /\ sort = "ok"
         /\ ctr[s].state # "none" /\ ctr'[s].state = "none"
         => \A t \in plan.services :
              s \in Deps(plan, t) => ctr[t].state = "none"]_orchVars

(***************************************************************************)
(* A Down that succeeds leaves no container of the project, orphans of an  *)
(* earlier plan and the leftovers of crashed or failed calls included, and *)
(* no project network.                                                     *)
(***************************************************************************)
DownLeavesNothing ==
    outcome = "down" =>
        /\ \A s \in Service : ctr[s].state = "none"
        /\ net => Fails("network")

(* Every call returns: no goroutine, gate or teardown loop runs for ever.  *)
CallsReturn == pc # "idle" ~> pc = "idle"

----------------------------------------------------------------------------
(***************************************************************************)
(* The inductive invariant behind DepsStartedFirst, UpReportIsTrue and     *)
(* GatesHoldBeforeStart.                                                   *)
(***************************************************************************)
Levelled == {"network", "volumes", "keep", "level", "gate"}

(* The sort's result holds to the next call, the closure's while it is     *)
(* being computed.                                                         *)
GraphPart ==
    /\ sort # "idle" => SortInv
    /\ pc \in Levelled => sort = "ok"
    /\ pc \in UpPhase => Validate(plan)
    /\ pc \in {"sort", "downsort"} => sort # "idle"
    /\ pc = "keep" => ClosureInv /\ closing # "idle"

(* Goroutines exist only in levels that have been launched, and end as     *)
(* "ok" exactly when their id has been recorded.                           *)
TaskPart ==
    /\ \A s \in Service : task[s] # "none" => s \in keep \cap plan.services
    /\ \A s \in Service : task[s] = "ok" <=> s \in ids
    /\ \A s \in Service : task[s] = "fail" => failed # {}
    /\ \A f \in failed : task[f] = "fail"
    /\ pc # "level" => \A s \in Service : task[s] \in Finished
    /\ pc \in {"sort", "network", "volumes", "keep", "down", "downsort"} =>
         \A s \in Service : task[s] = "none"

(* The selection is closed, the levels before the present one are up.      *)
LevelPart ==
    /\ pc \in {"level", "gate"} =>
         /\ lvl \in 1..Len(levels)
         /\ \A s \in keep \cap plan.services : Deps(plan, s) \subseteq keep
         /\ \A i \in 1..(lvl - 1) : levels[i] \cap keep \subseteq ids
         /\ \A i \in (lvl + 1)..Len(levels) : \A s \in levels[i] :
              task[s] = "none"
    /\ pc = "level" => \A s \in levels[lvl] \cap keep : task[s] # "none"
    /\ pc = "gate" => failed = {} /\ levels[lvl] \cap keep \subseteq ids

(* A container a goroutine saw running, or reported, has been started.     *)
ContainerPart ==
    /\ \A s \in Service : HealthConsistent(ctr[s])
    /\ \A s \in ids : ctr[s].state \in {"running", "exited"}
    /\ \A s \in Service : task[s] = "inspect" /\ listed[s] = "running" =>
         ctr[s].state \in {"running", "exited"}

OutcomePart ==
    /\ outcome = "ok" => pc = "idle" /\ ids = keep \cap plan.services
    /\ outcome = "partial" => pc = "idle" /\ failed # {}

OrchInv ==
    /\ OrchTypeOK /\ GraphPart /\ TaskPart /\ LevelPart
    /\ ContainerPart /\ OutcomePart /\ DepsStartedFirst

(* The strict requirements on d that agree have been seen to hold.         *)
Met(d) ==
    \A s \in plan.services \cap keep :
        Strict(s, d) /\ Uniform(d) => plan.dependsOn[s][d] \in met[d]

GatePart ==
    /\ pc \in {"level", "gate"} =>
         \A i \in 1..(lvl - 1) : \A d \in levels[i] \cap keep : Met(d)
    /\ pc = "gate" => \A d \in levels[lvl] \cap keep :
         IF required[d] = NoRequirement THEN Met(d)
         ELSE required[d] \in Candidates(d)

GateInv == OrchInv /\ GatePart /\ GatesHoldBeforeStart
=============================================================================
