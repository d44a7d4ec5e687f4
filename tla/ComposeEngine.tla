--------------------------- MODULE ComposeEngine ---------------------------
(***************************************************************************)
(* Up, Attach, Down and Shutdown of a workspace whose source is a compose  *)
(* project: up.go (the compose branch of Up, createFreshCompose and all it *)
(* calls), up_compose_reattach.go, attach.go, down.go, secrets.go and      *)
(* useruid.go.                                                             *)
(*                                                                         *)
(* A project has a primary service and a sidecar that the primary depends  *)
(* on.  An Up that finds a container of the workspace by its label tries   *)
(* to reattach: when there is a primary whose stamp equals the hash of the *)
(* present inputs and whose tag still names its image, the project is      *)
(* started from what is there.                                             *)
(* Otherwise the base image is prepared, features are layered onto it, the *)
(* user is mapped, secrets are collected and the backend converges.  What  *)
(* the orchestrator does inside one service is ComposeOrchestrator's       *)
(* matter and what layerFeatures does is Features'; here they are single   *)
(* steps, with the effect those modules give them.                         *)
(*                                                                         *)
(* The user edits files, containers exit or are removed, images are pulled *)
(* or untagged and the network goes away, and a call may fail or its       *)
(* process die between any two steps.                                      *)
(***************************************************************************)
EXTENDS Naturals, FiniteSets

CONSTANTS
    Primary,     \* the primary's base: "image" or "build"
    MapsUser,    \* reconcileRemoteUserUID has a user to map
    Options,     \* the calls: op, backend, adopt, recreate, pull, env
    Faults,      \* what may go wrong: "error", "inspect", "crash", "exit",
                 \* "untag"
    Races,       \* whether the world may change while a call runs
    MaxRev,      \* bound on the versions of the hashed files
    MaxCalls,    \* bound on calls
    MaxIncidents \* bound on changes of the world and faults together

Service == {"side", "primary"}

Tag == {"base", "final", "uid", "side"}

Env == {"secret", "extra"}

Option == [op : {"up", "attach", "stop", "remove"}, backend : {"native", "shellout"},
           adopt : BOOLEAN, recreate : BOOLEAN,
           pull : {"missing", "always", "never"}, env : SUBSET Env]

ASSUME ComposeEngineAssumption ==
    /\ Primary \in {"image", "build"}
    /\ MapsUser \in BOOLEAN /\ Races \in BOOLEAN
    /\ Options \subseteq Option
    /\ MaxRev \in Nat \ {0} /\ MaxCalls \in Nat /\ MaxIncidents \in Nat

VARIABLES
    world,     \* rev: version of devcontainer.json and the compose files;
               \* source: version of what the inputs hash leaves out, the
               \* registry's images and the build contexts; cache: version of
               \* the builder's cache; online: the registries answer
    incidents, calls,
    images,    \* images[t]: the image t names
    ctrs,      \* ctrs[s]: the container of service s
    born,      \* containers created so far
    probe,     \* composeState of the runtime: "none", "ok" or "failed"
    pc,        \* the next step of the call
    call,      \* its options and what it has read or decided
    last,      \* how the last call ended: "ok", "error", or "failed" by a fault
    start      \* history: the state in which the call began

vars == <<world, incidents, calls, images, ctrs, born, probe, pc, call, last, start>>

NoImage == [base |-> 0, rev |-> 0, cache |-> 0, user |-> FALSE]

(* An image pulled, or built from a Dockerfile of the project.             *)
Source(v) == [base |-> v, rev |-> 0, cache |-> 0, user |-> FALSE]

NoHash == [rev |-> 0, base |-> NoImage, backend |-> "native"]

NoSpec == [rev |-> 0, tag |-> "", image |-> NoImage, env |-> {}, hash |-> NoHash]

NoContainer ==
    [n |-> 0, running |-> FALSE, by |-> "native", spec |-> NoSpec]

NoCall ==
    [o |-> [op |-> "up", backend |-> "native", adopt |-> FALSE,
            recreate |-> FALSE, pull |-> "missing", env |-> {}],
     rev |-> 0, existing |-> 0, reattach |-> FALSE,
     tag |-> "", hash |-> NoHash, env |-> {}, tries |-> 0]

Fails(what) == what \in Faults

(* What a build yields: the same image for the same content as long as the *)
(* builder's cache is there.                                               *)
Layered(base, rev) ==
    [base |-> base.base, rev |-> rev, cache |-> world.cache, user |-> FALSE]

Mapped(i) == [i EXCEPT !.user = TRUE]

(***************************************************************************)
(* The inputs hash: everything of devcontainer.json and the compose files  *)
(* that shapes the container (its version here), the base image's id and   *)
(* the backend.  The content of build contexts is not hashed.              *)
(***************************************************************************)
composeInputsHash(rev, base, backend) ==
    [rev |-> rev, base |-> base, backend |-> backend]

Move(step) == /\ pc' = step
              /\ UNCHANGED <<world, incidents, calls, last, start>>

NoStart == [ctrs |-> [s \in Service |-> NoContainer], born |-> 0,
            restartable |-> FALSE, fetched |-> FALSE, well |-> TRUE]

Return(how) ==
    /\ pc' = "idle" /\ last' = how /\ call' = NoCall /\ start' = NoStart
    /\ UNCHANGED <<world, incidents, calls>>

(* A call of the runtime, the host or the builder goes wrong.              *)
Incident(what) ==
    /\ Fails(what) /\ incidents < MaxIncidents /\ incidents' = incidents + 1
    /\ UNCHANGED <<world, calls, born>>

(* The call goes on, with what it could not find out left out.             *)
GoesOn(step) == pc' = step /\ start' = [start EXCEPT !.well = FALSE] /\ UNCHANGED last

Restartable(o) ==
    LET c == ctrs["primary"] IN
    /\ o.op = "up" /\ ~o.recreate /\ o.pull # "always"
    /\ c.n # 0 /\ images["base"] # NoImage /\ images["side"] # NoImage
    /\ c.spec.hash = composeInputsHash(world.rev, images["base"], o.backend)
    /\ images[c.spec.tag] = c.spec.image

(***************************************************************************)
(* LabelDevcontainerID: the override gives it to the primary, under either *)
(* backend; the orchestrator stamps Plan.Labels on every container it      *)
(* creates, sidecars included.                                             *)
(***************************************************************************)
Labelled(cs, s) == cs[s].n # 0 /\ (s = "primary" \/ cs[s].by = "native")

(* The newest container with the label; 0 when there is none.              *)
FindContainerByLabel(cs) ==
    LET found == {cs[s].n : s \in {t \in Service : Labelled(cs, t)}}
    IN  CHOOSE n \in found \cup {0} : \A m \in found : m <= n

(***************************************************************************)
(* Engine.Up reads the configuration and looks for a container by label;   *)
(* whichever it finds, a primary or not, the project is taken down when it *)
(* is to be recreated, and otherwise a reattach is tried.  Down and        *)
(* Shutdown begin with a Workspace, so with a container.                   *)
(***************************************************************************)
Begin(o) ==
    LET existing == FindContainerByLabel(ctrs) IN
    /\ pc = "idle" /\ calls < MaxCalls
    /\ o.op \in {"stop", "remove"} => existing # 0
    /\ calls' = calls + 1 /\ last' = "ok"
    /\ call' = [NoCall EXCEPT !.o = o, !.rev = world.rev, !.existing = existing]
    /\ start' = [ctrs |-> ctrs, born |-> born, restartable |-> Restartable(o),
                 fetched |-> FALSE, well |-> TRUE]
    /\ pc' = CASE o.op \in {"attach", "stop"} -> o.op
               [] o.op = "remove" -> "down"
               [] o.op = "up" /\ existing = 0 -> "prepare"
               [] o.op = "up" /\ existing # 0 -> IF o.recreate THEN "recreate" ELSE "reattach"
    /\ UNCHANGED <<world, incidents, images, ctrs, born, probe>>

(* s has the container that the label scan found.                          *)
Found(s) == ctrs[s].n # 0 /\ ctrs[s].n = call.existing

(* Attach: the Workspace is that of the container found.                   *)
AttachWith ==
    /\ pc = "attach"
    /\ Return(IF \E s \in Service : Found(s) THEN "ok" ELSE "error")
    /\ UNCHANGED <<images, ctrs, born, probe>>

(* `docker compose version`, once in the life of a runtime: its answer is  *)
(* kept, also when it was only this caller's context that ended it.        *)
probeCompose == IF call.o.backend = "shellout" /\ probe = "none" THEN "ok" ELSE probe

Unavailable == call.o.backend = "shellout" /\ probe = "failed"

(* What comes after the project, or its one container, has been removed.   *)
AfterDown ==
    IF call.o.op = "up" THEN Move("prepare") /\ call' = [call EXCEPT !.existing = 0]
    ELSE Return("ok")

(* composeDownExisting reads the project's name from the container found.  *)
composeDownInspects ==
    /\ pc = "recreate"
    /\ IF \E s \in Service : Found(s) THEN Move("down") /\ UNCHANGED call
       ELSE Return("error")
    /\ UNCHANGED <<images, ctrs, born, probe>>

(* The inspection fails: the one container known is removed, and no other. *)
removeContainer ==
    /\ pc = "recreate" /\ Incident("inspect") /\ GoesOn("prepare")
    /\ \E s \in Service : Found(s) /\ ctrs' = [ctrs EXCEPT ![s] = NoContainer]
    /\ call' = [call EXCEPT !.existing = 0]
    /\ UNCHANGED <<images, probe>>

(* A bug: only the container that the label scan found is removed.         *)
composeDownOnlyFound ==
    /\ pc = "down"
    /\ \E s \in Service : Found(s) /\ ctrs' = [ctrs EXCEPT ![s] = NoContainer]
    /\ AfterDown
    /\ UNCHANGED <<images, born, probe>>

(* composeDownExisting and downCompose with Remove: every container of the *)
(* project.  The plan has no project to sort by, so containers go in the   *)
(* order of their names, which is any order of the services.               *)
composeDownExisting ==
    /\ pc = "down"
    /\ IF Unavailable THEN Return("error") /\ UNCHANGED ctrs
       ELSE \/ /\ \E s \in Service : /\ ctrs[s].n # 0
                                     /\ ctrs' = [ctrs EXCEPT ![s] = NoContainer]
               /\ Move("down") /\ UNCHANGED call
            \/ /\ \A s \in Service : ctrs[s].n = 0
               /\ AfterDown /\ UNCHANGED ctrs
    /\ probe' = probeCompose
    /\ UNCHANGED <<images, born>>

(* Down without Remove and Shutdown stop one container, the Workspace's:   *)
(* the primary that an Up returned, or the one that Attach found.          *)
shutdownStopContainer ==
    /\ pc = "stop" /\ Return("ok")
    /\ \E s \in Service : /\ s = "primary" \/ Found(s)
                          /\ ctrs' = [ctrs EXCEPT ![s].running = FALSE]
    /\ UNCHANGED <<images, born, probe>>

(***************************************************************************)
(* reattachCompose.  Every condition that does not hold, and every read    *)
(* that fails, leads to the full path.                                     *)
(***************************************************************************)
ReattachMiss == Move("prepare") /\ UNCHANGED call

(* The container's stamp against the hash of the present inputs.           *)
ReattachInspects ==
    LET c == ctrs["primary"] IN
    /\ pc = "reattach"
    /\ IF /\ call.o.pull # "always" /\ c.n # 0 /\ c.spec.hash # NoHash
          /\ images["base"] # NoImage
          /\ c.spec.hash = composeInputsHash(call.rev, images["base"], call.o.backend)
       THEN Move("retagged") /\ UNCHANGED call
       ELSE ReattachMiss
    /\ UNCHANGED <<images, ctrs, born, probe>>

ReattachFails ==
    /\ pc \in {"reattach", "retagged"} /\ Incident("inspect") /\ GoesOn("prepare")
    /\ UNCHANGED <<images, ctrs, probe, call>>

(* A bug: the override of a reattach carries no stamp.                     *)
CommittedUnstamped(c) ==
    /\ call' = [call EXCEPT !.reattach = TRUE, !.tag = c.spec.tag,
                            !.hash = NoHash, !.env = {}]
    /\ Move(IF call.o.backend = "native" THEN "sidecars" ELSE "side")

(* From here on the configuration is the one of the image's label, and the *)
(* override is built with no extra environment.                            *)
Committed(c) ==
    /\ call' = [call EXCEPT !.reattach = TRUE, !.tag = c.spec.tag,
                            !.hash = c.spec.hash, !.env = {}]
    /\ Move(IF call.o.backend = "native" THEN "sidecars" ELSE "side")

(* The tag of the container's image still names the image it runs.         *)
reattachCompose ==
    LET c == ctrs["primary"] IN
    /\ pc = "retagged"
    /\ IF c.n # 0 /\ images[c.spec.tag] = c.spec.image
       THEN Committed(c) ELSE ReattachMiss
    /\ UNCHANGED <<images, ctrs, born, probe>>

(***************************************************************************)
(* The full path.                                                          *)
(***************************************************************************)
Fetched == [start EXCEPT !.fetched = TRUE]

(* prepareComposeServiceImage: ensureImage of the service's image, or a    *)
(* build of its build section.                                             *)
prepareComposeServiceImage ==
    /\ pc = "prepare"
    /\ IF Primary = "image" /\ (\/ call.o.pull = "never"
                                \/ call.o.pull = "missing" /\ images["base"] # NoImage)
       THEN Move("hash") /\ UNCHANGED <<call, images>>
       ELSE IF Primary = "image" /\ ~world.online
       THEN Return("error") /\ UNCHANGED images
       ELSE /\ images' = [images EXCEPT !["base"] = Source(world.source)]
            /\ pc' = "hash" /\ start' = Fetched
            /\ UNCHANGED <<world, incidents, calls, last, call>>
    /\ UNCHANGED <<ctrs, born, probe>>

(* A bug: the stamp is that of the container that is there already.        *)
HashInputsStale ==
    /\ pc = "hash" /\ Move("layer")
    /\ call' = [call EXCEPT !.hash =
          IF images["base"] = NoImage THEN NoHash
          ELSE IF ctrs["primary"].n # 0 THEN ctrs["primary"].spec.hash
          ELSE composeInputsHash(call.rev, images["base"], call.o.backend)]
    /\ UNCHANGED <<images, ctrs, born, probe>>

(* The stamp, before features are merged; none when there is no base yet.  *)
HashInputs ==
    /\ pc = "hash" /\ Move("layer")
    /\ call' = [call EXCEPT !.hash =
          IF images["base"] = NoImage THEN NoHash
          ELSE composeInputsHash(call.rev, images["base"], call.o.backend)]
    /\ UNCHANGED <<images, ctrs, born, probe>>

HashFails ==
    /\ pc = "hash" /\ Incident("inspect") /\ GoesOn("layer")
    /\ call' = [call EXCEPT !.hash = NoHash]
    /\ UNCHANGED <<images, ctrs, probe>>

(* layerFeatures: features are fetched and built onto what the base's tag  *)
(* names now; the build pulls a base that is missing.                      *)
layerFeatures ==
    LET base == IF images["base"] # NoImage THEN images["base"] ELSE Source(world.source)
    IN  /\ pc = "layer"
        /\ IF world.online /\ (Primary = "build" => images["base"] # NoImage)
           THEN /\ images' = [images EXCEPT !["base"] = base,
                                            !["final"] = Layered(base, call.rev)]
                /\ call' = [call EXCEPT !.tag = "final"]
                /\ pc' = "user" /\ start' = Fetched
                /\ UNCHANGED <<world, incidents, calls, last>>
           ELSE Return("error") /\ UNCHANGED images
        /\ UNCHANGED <<ctrs, born, probe>>

(* The mapped image is built from what the features' tag names now.        *)
reconcileRemoteUserUID ==
    /\ pc = "user"
    /\ IF ~MapsUser THEN Move("secrets") /\ UNCHANGED <<call, images>>
       ELSE IF images["final"] = NoImage THEN Return("error") /\ UNCHANGED images
       ELSE /\ images' = [images EXCEPT !["uid"] = Mapped(images["final"])]
            /\ call' = [call EXCEPT !.tag = "uid"] /\ Move("secrets")
    /\ UNCHANGED <<ctrs, born, probe>>

(* Who the image's user is cannot be told: the mapping is left out.        *)
effectiveContainerUserFails ==
    /\ pc = "user" /\ MapsUser /\ Incident("inspect") /\ GoesOn("secrets")
    /\ UNCHANGED <<images, ctrs, probe, call>>

(* The caller's variables, and the secrets when no container was found:    *)
(* Up clears RunSecretsCommand when there is one, a sidecar's too.         *)
collectSecretsEnv ==
    /\ pc = "secrets"
    /\ Move(IF call.o.backend = "native" THEN "sidecars" ELSE "side")
    /\ call' = [call EXCEPT !.env =
                   IF call.existing # 0 THEN call.o.env \ {"secret"} ELSE call.o.env]
    /\ UNCHANGED <<images, ctrs, born, probe>>

buildComposeSidecarImages ==
    /\ pc = "sidecars"
    /\ IF call.reattach /\ images["side"] # NoImage
       THEN Move("side") /\ UNCHANGED images
       ELSE /\ images' = [images EXCEPT !["side"] = Source(world.source)]
            /\ pc' = "side" /\ start' = Fetched
            /\ UNCHANGED <<world, incidents, calls, last>>
    /\ UNCHANGED <<ctrs, born, probe, call>>

(***************************************************************************)
(* The backend.  The service's definition carries the stamp as a label, so *)
(* the orchestrator's own hash of it changes with the stamp.               *)
(***************************************************************************)
composeRunOverride(s) ==
    IF s = "primary"
    THEN [rev |-> call.rev, tag |-> call.tag, image |-> images[call.tag],
          env |-> call.env, hash |-> call.hash]
    ELSE [NoSpec EXCEPT !.rev = call.rev, !.tag = "side", !.image = images["side"]]

(* A bug: only a reattach adopts.                                          *)
KeepsOnReattachOnly(c, s) ==
    IF call.o.backend = "shellout"
    THEN call.existing # 0 \/ (c.by = "shellout" /\ c.spec = composeRunOverride(s))
    ELSE \/ call.o.adopt /\ call.reattach
         \/ c.by = "shellout"
         \/ c.spec = composeRunOverride(s)

(* A bug: a container of the same files is kept, whatever image it runs.   *)
KeepsSameFiles(c, s) ==
    IF call.o.backend = "shellout"
    THEN call.existing # 0 \/ (c.by = "shellout" /\ c.spec = composeRunOverride(s))
    ELSE \/ call.o.adopt /\ ~call.o.recreate
         \/ c.by = "shellout"
         \/ c.spec.rev = call.rev /\ c.spec.tag = composeRunOverride(s).tag

(* A container is kept by --no-recreate, by AdoptExisting, when another    *)
(* tool made it (no stored hash), or when nothing about it has changed.    *)
Keeps(c, s) ==
    IF call.o.backend = "shellout"
    THEN call.existing # 0 \/ (c.by = "shellout" /\ c.spec = composeRunOverride(s))
    ELSE \/ call.o.adopt /\ ~call.o.recreate
         \/ c.by = "shellout"
         \/ c.spec = composeRunOverride(s)

Then(s) == IF s = "side" THEN "primary" ELSE "inspect"

(* What `docker compose up` does first: it is there, and images that are   *)
(* missing are built.                                                      *)
ComposeUp ==
    /\ pc = "side" /\ call.o.backend = "shellout"
    /\ probe # "ok" \/ images["side"] = NoImage
    /\ IF Unavailable THEN Return("error") /\ UNCHANGED images
       ELSE IF images["side"] # NoImage THEN Move("side") /\ UNCHANGED <<call, images>>
       ELSE /\ images' = [images EXCEPT !["side"] = Source(world.source)]
            /\ pc' = "side" /\ start' = Fetched
            /\ UNCHANGED <<world, incidents, calls, last, call>>
    /\ probe' = probeCompose
    /\ UNCHANGED <<ctrs, born>>

Ready(s) ==
    /\ pc = s
    /\ s = "side" /\ call.o.backend = "shellout" => probe = "ok" /\ images["side"] # NoImage

KeepService(s) ==
    /\ Ready(s) /\ ctrs[s].n # 0 /\ Keeps(ctrs[s], s)
    /\ ctrs' = [ctrs EXCEPT ![s].running = TRUE]
    /\ Move(Then(s)) /\ UNCHANGED <<images, born, probe, call>>

RemoveService(s) ==
    /\ Ready(s) /\ ctrs[s].n # 0 /\ ~Keeps(ctrs[s], s)
    /\ ctrs' = [ctrs EXCEPT ![s] = NoContainer]
    /\ Move(s) /\ UNCHANGED <<images, born, probe, call>>

(* Tags of the engine's own builds are in no registry: an image that has   *)
(* been untagged meanwhile cannot be pulled.                               *)
RunService(s) ==
    /\ Ready(s) /\ ctrs[s].n = 0
    /\ IF composeRunOverride(s).image = NoImage
       THEN Return("error") /\ UNCHANGED <<ctrs, born>>
       ELSE /\ ctrs' = [ctrs EXCEPT ![s] = [n |-> born + 1, running |-> TRUE,
                           by |-> call.o.backend, spec |-> composeRunOverride(s)]]
            /\ born' = born + 1
            /\ Move(Then(s)) /\ UNCHANGED call
    /\ UNCHANGED <<images, probe>>

(* The attempts of inspectStable.                                          *)
attempts == 5

(* buildWorkspace: ComposeContainerID first under the shell-out backend,   *)
(* which names running containers only; then inspectStable, which returns  *)
(* what it saw last when the container does not run.                       *)
buildWorkspace ==
    LET c == ctrs["primary"] IN
    /\ pc = "inspect"
    /\ IF c.n = 0 \/ (call.o.backend = "shellout" /\ call.tries = 0 /\ ~c.running)
       THEN Return("error")
       ELSE IF c.running \/ call.tries = attempts - 1 THEN Return("ok")
       ELSE call' = [call EXCEPT !.tries = @ + 1] /\ Move("inspect")
    /\ UNCHANGED <<images, ctrs, born, probe>>

(***************************************************************************)
(* Faults, and the world.                                                  *)
(***************************************************************************)

(* Any other call of the runtime or of the host fails.                     *)
CallFails ==
    /\ pc \notin {"idle", "reattach", "retagged", "hash"} /\ Incident("error")
    /\ pc' = "idle" /\ last' = "failed" /\ call' = NoCall /\ start' = NoStart
    /\ UNCHANGED <<images, ctrs, probe>>

(* The first probe of a runtime fails: the runtime will not ask again.     *)
ProbeFails ==
    /\ pc \in {"down", "side"} /\ call.o.backend = "shellout" /\ probe = "none"
    /\ Incident("error") /\ probe' = "failed"
    /\ pc' = "idle" /\ last' = "failed" /\ call' = NoCall /\ start' = NoStart
    /\ UNCHANGED <<images, ctrs>>

(* The process dies; the next call has a new runtime.                      *)
Crash ==
    /\ pc # "idle" /\ Incident("crash")
    /\ pc' = "idle" /\ last' = "failed" /\ call' = NoCall /\ start' = NoStart
    /\ probe' = "none"
    /\ UNCHANGED <<images, ctrs>>

Change == /\ incidents < MaxIncidents /\ incidents' = incidents + 1
          /\ Races \/ pc = "idle"
          /\ UNCHANGED <<calls, born, probe, pc, call, last, start>>

(* The user edits what the hash covers.                                    *)
Edit == /\ Change /\ \E r \in 1..MaxRev \ {world.rev} : world' = [world EXCEPT !.rev = r]
        /\ UNCHANGED <<images, ctrs>>

(* A new image in the registry, or an edited build context.                *)
Publish == /\ Change /\ world' = [world EXCEPT !.source = @ + 1]
           /\ UNCHANGED <<images, ctrs>>

PruneCache == /\ Change /\ world' = [world EXCEPT !.cache = @ + 1]
              /\ UNCHANGED <<images, ctrs>>

Network == /\ Change /\ world' = [world EXCEPT !.online = ~@]
           /\ UNCHANGED <<images, ctrs>>

(* Somebody pulls the base image.                                          *)
Pull == /\ Change /\ Primary = "image" /\ world.online
        /\ images' = [images EXCEPT !["base"] = Source(world.source)]
        /\ UNCHANGED <<world, ctrs>>

(* Images are pruned, at any time; for the base image see Races.           *)
Untag ==
    /\ Incident("untag") /\ GoesOn(pc)
    /\ \E t \in Tag : /\ images[t] # NoImage
                      /\ t = "base" => Races \/ pc = "idle"
                      /\ images' = [images EXCEPT ![t] = NoImage]
    /\ UNCHANGED <<ctrs, probe, call>>

RemoveByHand ==
    /\ Change
    /\ \E s \in Service : ctrs[s].n # 0 /\ ctrs' = [ctrs EXCEPT ![s] = NoContainer]
    /\ UNCHANGED <<world, images>>

(* A container exits, at any time.                                         *)
Exit ==
    /\ Incident("exit") /\ GoesOn(pc)
    /\ \E s \in Service :
          ctrs[s].running /\ ctrs' = [ctrs EXCEPT ![s].running = FALSE]
    /\ UNCHANGED <<images, probe, call>>

Init ==
    /\ world = [rev |-> 1, source |-> 1, cache |-> 1, online |-> TRUE]
    /\ incidents = 0 /\ calls = 0
    /\ images = [t \in Tag |-> NoImage]
    /\ ctrs = [s \in Service |-> NoContainer] /\ born = 0
    /\ probe = "none" /\ pc = "idle" /\ call = NoCall /\ last = "ok"
    /\ start = NoStart

Step ==
    \/ AttachWith \/ composeDownInspects \/ composeDownExisting \/ shutdownStopContainer
    \/ ReattachInspects \/ reattachCompose
    \/ prepareComposeServiceImage \/ HashInputs \/ layerFeatures
    \/ reconcileRemoteUserUID \/ collectSecretsEnv \/ buildComposeSidecarImages
    \/ ComposeUp \/ \E s \in Service : KeepService(s) \/ RemoveService(s) \/ RunService(s)
    \/ buildWorkspace

Fault == removeContainer \/ ReattachFails \/ HashFails
         \/ effectiveContainerUserFails \/ CallFails \/ ProbeFails \/ Crash

World == Edit \/ Publish \/ PruneCache \/ Network \/ Pull \/ Untag \/ RemoveByHand \/ Exit

Next == (\E o \in Options : Begin(o)) \/ Step \/ Fault \/ World

Spec == Init /\ [][Next]_vars

(***************************************************************************)
(* Properties.                                                             *)
(***************************************************************************)

Image == [base : Nat, rev : 0..MaxRev, cache : Nat, user : BOOLEAN]

Hash == [rev : 0..MaxRev, base : Image, backend : {"native", "shellout"}]

Definition ==
    [rev : 0..MaxRev, tag : Tag \cup {""}, image : Image, env : SUBSET Env, hash : Hash]

Container ==
    [n : Nat, running : BOOLEAN, by : {"native", "shellout"}, spec : Definition]

CallType ==
    [o : Option, rev : 0..MaxRev, existing : Nat, reattach : BOOLEAN,
     tag : Tag \cup {""}, hash : Hash, env : SUBSET Env, tries : 0..(attempts - 1)]

StartType ==
    [ctrs : [Service -> Container], born : Nat, restartable : BOOLEAN,
     fetched : BOOLEAN, well : BOOLEAN]

(* Every variable has its type, inspectStable's attempts are bounded, and  *)
(* every container was made, once, from an image.                          *)
TypeOK ==
    /\ world \in [rev : 1..MaxRev, source : Nat, cache : Nat, online : BOOLEAN]
    /\ incidents \in 0..MaxIncidents /\ calls \in 0..MaxCalls
    /\ images \in [Tag -> Image]
    /\ born \in Nat /\ ctrs \in [Service -> Container]
    /\ \A s \in Service : /\ ctrs[s].n <= born
                          /\ ctrs[s].n # 0 => ctrs[s].spec.image # NoImage
    /\ probe \in {"none", "ok", "failed"} /\ last \in {"ok", "error", "failed"}
    /\ pc \in {"idle", "attach", "recreate", "down", "stop", "reattach", "retagged",
               "prepare", "hash", "layer", "user", "secrets", "sidecars", "side",
               "primary", "inspect"}
    /\ call \in CallType /\ start \in StartType

(* The stamp on the primary container (LabelComposeInputsHash) is the hash *)
(* of what its image was built from: a container stamped with a version of *)
(* the files and a base image runs an image of that version on that base.  *)
StampIsTrue ==
    LET spec == ctrs["primary"].spec IN
    spec.hash # NoHash => /\ spec.image.rev = spec.hash.rev
                          /\ spec.image.base = spec.hash.base.base

Returns(how) == pc = "inspect" /\ pc' = "idle" /\ last' = how

(* An Up of the native backend that does not adopt returns with a primary  *)
(* container of the present files, running the image its tag names, built  *)
(* from these files on the present base image; whether it reattached or    *)
(* not, and whatever earlier Ups have left in the tags, if no read failed. *)
(* A primary that the other backend made has no stored hash and is adopted *)
(* as it is.                                                               *)
UpIsCurrent ==
    [][LET spec == ctrs["primary"].spec IN
       Returns("ok") /\ start.well /\ call.o.backend = "native" /\ ~call.o.adopt
                     /\ ctrs["primary"].by = "native" =>
          /\ spec.rev = call.rev /\ spec.image = images[spec.tag]
          /\ spec.image.rev = call.rev /\ spec.image.base = images["base"].base]_vars

(* The resume contract: an Up with AdoptExisting, or one that passes       *)
(* --no-recreate because it has found a container, never removes a         *)
(* container of the project.                                               *)
AdoptNeverReplaces ==
    [][pc # "idle" /\ call.o.op = "up" /\ ~call.o.recreate
          /\ (IF call.o.backend = "native" THEN call.o.adopt
              ELSE FindContainerByLabel(start.ctrs) # 0) =>
       \A s \in Service : ctrs[s].n # 0 => ctrs'[s].n = ctrs[s].n]_vars

KeepsPrimary == ctrs'["primary"].n = start.ctrs["primary"].n

(* When nothing has changed since the primary container was created, Up    *)
(* needs neither the registry nor a build: it fetches and builds nothing,  *)
(* sidecars included, succeeds with or without a network, if no call of    *)
(* the runtime fails, and keeps the container.  The last is not said of a  *)
(* container of the native backend with variables from the caller or       *)
(* secretsCommand: see ReattachKeepsContainer.                             *)
UnchangedIsKept ==
    [][pc # "idle" /\ start.restartable /\ start.well =>
       /\ probe' # "failed" => ~start'.fetched /\ last' # "error"
       /\ (\/ call.o.backend = "shellout" \/ call.o.adopt
           \/ start.ctrs["primary"].spec.env = {}) => KeepsPrimary]_vars

(* When nothing has changed since the primary container was created, Up    *)
(* keeps it: the full path and reattachCompose make the same definition of *)
(* the service, "the container's env is already baked".                    *)
ReattachKeepsContainer ==
    [][pc # "idle" /\ start.restartable /\ start.well => KeepsPrimary]_vars

(* An Up that recreates, or finds no container with the label, returns a   *)
(* new primary with the variables this caller asked for, secrets included, *)
(* whatever of an earlier Up is left.  When there was a labelled container *)
(* to recreate, the sidecar is new too: a sidecar alone of the shell-out   *)
(* backend has no label, is not found, and stays.  Nothing is said of an   *)
(* Up that finds only a sidecar of the native backend and is not to        *)
(* recreate: it makes a new primary without the secrets.                   *)
FreshIsFresh ==
    [][Returns("ok") /\ start.well
             /\ (call.o.recreate \/ FindContainerByLabel(start.ctrs) = 0) =>
       /\ ctrs["primary"].n > start.born /\ ctrs["primary"].spec.env = call.o.env
       /\ FindContainerByLabel(start.ctrs) # 0 => ctrs["side"].n > start.born]_vars
=============================================================================
