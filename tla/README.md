# TLA+ models of the devcontainer engine

`crunchloop/devcontainer` is a Go library and command line that brings up
development containers: from an image, from a Dockerfile, or as one service of
a Docker Compose project that the library orchestrates itself.  This directory
holds TLA+ models of its control logic, TLC configurations that check them on
small instances, and TLAPS proofs of the results that hold for every instance.

## 1. The system

| part | state it keeps | operations | talks to |
|------|----------------|------------|----------|
| compose graph (`compose/graph.go`) | none; loop-local sets | `TopoSort`, `findCycle`, `ServiceClosure` | called by the orchestrator |
| compose orchestrator (`compose/orchestrator.go`, `hash.go`, `plan.go`) | result of the call in progress; everything durable is in the container engine (containers, labels, network, volumes, images) | `Up`, `Down` | one goroutine per service of a level, the runtime |
| engine (`up.go`, `attach.go`, `down.go`, `build.go`) | `Workspace` handles in callers' hands; containers found by label or name | `Up`, `Attach`, `Build`, `Down`, `Shutdown`, `Exec` | orchestrator, runtime, lifecycle, features |
| lifecycle (`lifecycle.go`, `marker.go`) | a marker file per phase inside the container | `RunLifecycle`, the phases `onCreate` to `postAttach` | runtime `exec` |
| compose reattach (`up_compose_reattach.go`) | a hash in a label of the primary container | decide whether a compose workspace can be resumed without a build | runtime, orchestrator |
| feature resolution (`up.go:layerFeatures`, `feature/graph.go`, `order.go`) | none; the image label | resolve, match with baked features, order, build | feature store, lockfile |
| feature store (`feature/disk_store.go`, `oci.go`, `https.go`) | a cache directory shared by processes | `Fetch` of OCI, HTTPS and local features | registries |
| lockfile (`lockfile.go`, `feature/lockfile.go`) | `devcontainer-lock.json` | load, pin, accept, commit in four modes | feature resolution |
| event bus (`eventbus.go`, `events/`) | two bounded channels, a counter, a translator goroutine | `Emit`, `BuildChan`, `Close` | every other part |
| docker runtime (`runtime/docker`) | none but the cached compose probe; the engine's state | create, start, stop, remove, find, build, exec | the Docker API |
| configuration (`config/`, `feature/metadata.go`, `compose/*override.go`) | the `devcontainer.metadata` label of images | resolve, substitute, merge metadata, override a service | engine |

What is hard about it is that nothing durable belongs to the program.  Every
decision is taken from what the container engine, a registry or a file answered
a moment ago, while containers exit, change health, are re-tagged, removed or
restarted by others; any call may fail half way; the process may die between
any two calls and the next run has to make sense of what it finds.  Inside one
call the services of a level run concurrently, a gate polls for conditions
against a deadline, and a second goroutine translates build events.
`PROJECT.json` lists each such place at its line under `hazards`.

The properties that make the parts correct:

* graph: levels respect dependencies; a reported cycle is one; a restricted
  selection is closed and minimal; the loops end;
* orchestrator: nothing starts before what it depends on is up and, where the
  plan says so, healthy or completed; what `Up` reports is true; a container
  worth keeping is never destroyed and a stale one never kept; `Down` removes
  dependents first and leaves nothing; calls return;
* lifecycle: a marker is never written for commands that have not run; a later
  phase never runs before an earlier one succeeded; a successful `Up` means the
  hooks have run;
* compose workspaces: an unchanged one is restarted from what is there, without
  network; a changed one is rebuilt; one to be resumed is never replaced;
* features: what is in the image is what was asked for, dependencies first, and
  its label says so; a lockfile is exact, and a frozen call obeys it and accepts
  what an earlier call wrote;
* store: a cached feature is complete and is the one that was named;
* event bus: sequence numbers are distinct and increase along each goroutine,
  events of a build keep order and a coherent label, nothing is sent after the
  operation returned, and no consumer can block the engine;
* configuration: what `Up` returns is what the layers of the image and the
  present `devcontainer.json` define, along every way a container can come
  about; the compose service keeps what the user wrote.

## 2. Modules

| module | models | uses |
|--------|--------|------|
| `ComposeGraph` | `compose/graph.go`, `compose.Plan` | |
| `ComposeOrchestrator` | `compose/orchestrator.go`, `hash.go`, `plan.go` | extends `ComposeGraph` |
| `Lifecycle` | `up.go`, `attach.go`, `down.go`, `lifecycle.go`, `marker.go` for image and Dockerfile workspaces | |
| `ComposeEngine` | `up.go`, `up_compose_reattach.go`, `attach.go`, `down.go`, `useruid.go`, `secrets.go` for compose workspaces | the orchestrator and the features as steps |
| `FeatureOrder` | `feature/graph.go`, `order.go`, `options.go` | |
| `Features` | `up.go:layerFeatures`, `build.go`, `lockfile.go`, `feature/lockfile.go`, `match.go`, `metadata.go` | extends `FeatureOrder` |
| `FeatureStore` | `feature/disk_store.go`, `oci.go`, `https.go`, `extract.go` | |
| `EventLog` | what the event bus gives a caller | |
| `EventBus` | `eventbus.go`, `events/`, `runtime/docker/pull.go`, `build.go`, `buildkit_trace.go` | implements `EventLog` |
| `Config` | `config/substitute.go`, `merge_metadata.go`, `feature/metadata.go`, `mount.go`, `compose/override.go`, `apply_override.go` | |
| `ComposeGraphProofs`, `ComposeOrchestratorProofs`, `LifecycleProofs`, `ComposeEngineProofs`, `FeatureStoreProofs`, `EventBusProofs`, `FeaturesProofs`, `ConfigProofs` | theorems and the inductive invariants they rest on | extend the component |
| `MC...` | plans, hooks, features and calls for TLC | extend the component |

### ComposeGraph

`TopoSort` is a loop over `remaining`; `SortLevel` is one iteration, `SortDone`
and `SortStuck` its two exits, `WalkOn` and `WalkClose` the iterations of
`findCycle`.  `ServiceClosure` is a loop over a queue: `ClosureSkip`,
`ClosureVisit`, `ClosureDone`.  Writing each iteration as a step keeps the
module free of recursive definitions, so its results are proved by loop
invariants.  `findCycle` and the closure pick the smallest name or the head of
the queue; the model allows any choice, which includes those.

### ComposeOrchestrator

The state is in four groups, which the `VARIABLES` section names.

* What the container engine holds: `ctr[s]` (the container of service `s`: its
  state, exit code, health, whether it carries the orchestrator's label, and
  the entry version and image digest it was created from, with the hash stamped
  on it), `image[s]` (where the service's tag points), `entry[s]` (the compose
  file), `net`, `vol`.
* The call in progress: `pc`, `plan`, `keep`, `lvl`, `ids`, `failed`, `outcome`.
* The service goroutines: `task[s]`, the position in `ensureService`, and its
  locals `digest[s]`, `listed[s]`.
* The gate: `required[s]`, `waiting`, `clock`, `since`, and the history `met`,
  the conditions seen to hold during this `Up`, which only properties read.

`Up` is `UpStart` (or `UpRefused`, when `Validate` refuses the plan), the sort,
`CreateNetwork`, `ensureNamedVolumes`, the closure and `makeKeepSet`, then per
level the goroutines, `JoinLevel`, and the gate (`Gate(s)` for a poll that
passes, fails or times out; `GateCancelled`; `GateDone`).  One goroutine is
`Probe` (digest and list), `InspectContainer` (the reuse decision),
`StartExisting`, or `StopDrifted`, `RemoveDrifted`, `RunContainer`, `PullImage`
on a miss and `StartContainer`.  Between any two of these steps any other
goroutine or the environment may act.  `Down` is `DownStart` (list), `DownSort`,
one `DownContainer` per container and `DownRest` (network, volumes, images).

The environment: a container exits with code 0 or 1, its health changes, the
user edits an entry between calls, a tag is moved, time passes, the process
dies (`Crash`) at any point, and any runtime call in `Faults` fails.

Abstractions.  A project has one container per service, which is what the
orchestrator creates.  An image is its digest and a service entry its version,
so `ConfigHash` is the pair of the two; hash collisions are left out.  Names,
labels, ports and mounts are not told apart.

### Lifecycle

Several callers use the engine on one image or Dockerfile workspace.  They
share its container (`box`: which creation it is, its state, its last start)
and the marker files in it (`marker`); `done[c]` is a history of the last start
in which a caller saw command `c` succeed in this container.  Each caller has
its call (`pc`, `call`, `opt`), the `Workspace` it holds (`ws`: container id,
the `StartedAt` it read, and the metadata layers whose hooks its `Config` has),
and the locals of the lifecycle loops (`todo`, `cur`, `left`, `busy`, `bad`).

`Up` finds the container, recreates it on request (`RecreateStop`,
`RecreateRemove`), creates and starts it (`RunContainer`, `StartNew`) or starts
the one found (`StartExisting`), reads its details (`buildWorkspace`) and runs
the phases; every runtime call is a step.  A phase is `NextPhase`,
`readMarker`, per hook `StartHook`, one `execCommand` per command (several for
a parallel hook, ending in any order) and `JoinHook`, then `HooksDone` and
`writeMarker`.  `Attach` and `RunLifecycle` use the same steps; `Down` is
`DownStop` and `DownRemove`, and `Shutdown` a `Down` without the removal.

The environment: the container exits, is started or removed by somebody else,
a caller's context ends (`Cancel`) or its process dies (`CallerDies`), and any
call in `Faults` fails.  A failing start may have started the container; a
failing marker write leaves the old file, a truncated one or the new one; a
marker read cut short by the container's death counts as no marker.

Abstractions.  `Created` is the number of the creation and `StartedAt` the
number of the start, so two containers or starts never have equal timestamps.
A hook is its layer and its set of commands.  Building the image is part of
`RunContainer`, which may fail.  Event emission and the environment probe are
left out: neither changes what the lifecycle reads.

### ComposeEngine

`world` is what the user and the registries have (versions of the hashed files,
of what the inputs hash leaves out, and of the builder's cache; whether the
network answers), `images` where the tags of the workspace point, `ctrs` the
containers of the primary service and of a sidecar with what each was created
from, `probe` the cached outcome of `docker compose version`.  A call is `pc`,
its options and what it has read (`call`); `start` is a history of the state it
began in, for the action properties.

`Up` begins with a search by label (`Begin`, `FindContainerByLabel`), which
takes the newest container that has it.  The native backend stamps the label on
the containers of all services, the shell-out backend on the primary's only
(`Labelled`), so what is found may be a sidecar.  Whatever it is, `Recreate`
tears the project down (`composeDownInspects`, then `composeDownExisting`
container by container in any order, since the plan it passes has no project to
sort by; `removeContainer` when the inspection fails), and without `Recreate` an
`Up` that found something collects no secrets and tries
`reattachCompose`: every check is a guard, a miss goes the full way, and after
the committed point there is none.  `AttachWith` returns the container found,
and `shutdownStopContainer` stops that of a `Workspace` of `Up` or of `Attach`.  The full way prepares the base image,
hashes the inputs, layers features, maps the user, collects secrets; both ways
then build sidecars and converge service by service on the native or the
shell-out backend (`Keeps` says which containers each of them leaves alone),
and poll the primary at most `attempts` times.

Abstractions.  An image is what it was made from: base, version of the files,
state of the builder's cache, whether the user is mapped.  What the
orchestrator does inside one service is `ComposeOrchestrator`'s matter and what
`layerFeatures` does is `Features`'.  The workspace is one with features: the
layering always needs the network and ends with the tag `final`, whereas the
code skips it when there is nothing to layer.  With `Races = FALSE` the world
changes between calls only, which is so in the run and in the theorems; a tag
that moves within a call is not covered by them.  `UpIsCurrent` speaks of
containers the native backend has made: one of the shell-out backend carries no
label of the orchestrator and is adopted whatever it was made from.

### FeatureOrder and Features

`FeatureOrder` has `topoSort`, `Order` and the comparison of options as
operators; `Kahn` is the state of the algorithm's loop after each round, as a
function of the round, so that what it computes can be proved.  A reference is a number, its place in the bytewise order.  `Features`
is one call of `Up` or `Build` from the resolved configuration to the tagged
image: `loadFeatureLock`, `Mark` (features the base image has), the resolution
loop with an action per way one iteration can go (`LoopBaked`, `LoopFetched`
with its alias, duplicate and integrity cases, `LoopFetchFails`, `LoopEnds`),
`commit` and `WriteLockfile` (the file is blank, then torn or whole),
`OrderFeatures`, `BuildFeatures` and `Finish`.  The images that calls have built
become base images of later calls, so labels are read back.

Abstractions.  An artifact is its digest; its metadata says id, version, one
option with default and enumeration, `dependsOn` and `installsAfter`.  The store
is one step; its own behaviour is `FeatureStore`.

### FeatureStore

A directory is the set of its files.  Every process has a place in `Fetch`
(`pc`), what it fetches, the digest it resolved, the files still to extract.
OCI layers are unpacked aside, checked, and renamed into place after the old
directory has been removed file by file; HTTPS archives are unpacked in place.
Tags move, the registry is unreachable or refuses, extraction and record fail,
and a process dies between any two steps.  A temporary directory is private to
its process, so its content is the set `todo` leaves.

### EventLog and EventBus

`EventLog` is what the code gives a caller: a growing log with distinct sequence
numbers, which increase among the events an operation emits itself and among
those of its builds, build events in the order of the builds, and nothing after
the operation has returned.  The documentation promises increasing numbers
overall, which the code does not keep (section 4).
`EventBus` has every goroutine: the
operations, which stamp and send in two steps, their builds, which stream
records into a buffered channel (`StreamLine`; a trace record is `decodeStatus`,
which puts its updates into `pending`, and one `decodeVertex` per transition,
each of which the channel may have no room for), the translators, which read the source and the
start time under the lock and stamp and send like everybody else, and the
caller, which receives or closes its channel.  `ImplementsEventLog` is the
refinement: the log is what the caller has received followed by the content of
the channel.  A build event remembers in the model which build wrote it.  The
base images that `BuildImage` pulls before a build (`prePullBaseImages`) each
report a completion of their own; `StreamLine` lets one come at any point of a
build.

### Config

The state is one workspace: the `devcontainer.json` and host variable of the
moment, the container with the layers installed in its image and the service it
was created from, and the `Workspace` a caller got.  `Resolve`, substitution,
`MergeMetadata`, the encoding and decoding of the label, mounts and the two ways
an override reaches a compose service are operators; creating, prebuilding,
attaching and reattaching are actions.  One field stands for each rule of the
merge (last string, last optional boolean, map, union, concatenation, hooks).
A string is a literal or a placeholder; JSON that omits unset fields is a record
with a smaller domain.  `unionDedup`, `pick`,
`dedupMountsByTarget` and the other loops over layers are functions of the
number of layers seen so far.

## 3. What the runs check

Passing runs:

| run | instance | properties |
|-----|----------|------------|
| `graph` | every project over three names, present or not, with any edges of either kind and any selection | `LevelsRespectDeps`, `ReportedCycleIsACycle`, `ClosureIsLeast`, `GraphTerminates` |
| `gates` | two `Up`s, three services, health and completion gates, an optional edge, a restricted selection, an image to pull; `start`, `run`, `pull` may fail, the caller may cancel | `DepsStartedFirst`, `GatesHoldBeforeStart`, `UpReportIsTrue`, `CallsReturn` |
| `reuse` | two `Up`s, two services, fresh or foreign containers, entries edited and tags moved between the calls, not within one (`Races = FALSE`), and no image to pull | `ReusableSurvivesUp`, `ReuseIsCurrent` |
| `teardown` | two calls of `Up` or `Down`, three services in a chain, the same project having lost a service or gained a cycle, and one with a completion gate, on a backend that reports no exit codes | `DownLeavesNothing`, `DependentsRemovedFirst` |
| `callers` | two callers, three calls of `Up` (with and without `Recreate`), `RunLifecycle`, `Down`; a feature's hook before the user's and a hook for every start; commands, starts, stops and removals may fail and marker reads be cut short; one restart by others | `MarkerIsTrue`, `PhasesInOrder`, `UpMeansDone`, `DownMeansGone` |
| `one_caller` | one caller, three calls of `Up` with any options, `Attach`, `RunLifecycle`, `Down`, `Shutdown`; hooks in all four kinds of phase, one with two parallel commands; cancellation and death anywhere, removal and one restart by others, failing commands, execs and image inspections | `MarkedPhaseRests`, `CancelledCallsReturn` |
| `event_bus` | an operation with two builds and one that emits, a caller's channel of one place, a build channel of two, one trace record with up to two updates of a vertex | `CloseFlushes`, `BuildEventsAreTrue`, `ImplementsEventLog`, `CloseTerminates` |
| `feature_store` | two processes, three fetches of a digest, an exact tag, a floating tag and a URL, two moves, a good artifact of three files and one that is no feature; all faults | `CacheIsWhole`, `RightContent` |
| `features` | two calls in four modes, five configurations over five references and six artifacts (two names of one repository, a dependency with other options, a local feature, a cycle once a URL moves), two base images and all that were built; two moves; fetch, write, build may fail, the process die | `LockIsExact`, `FrozenInstallsTheLock`, `FrozenAcceptsOwnLock`, `DependenciesFirst`, `ImageIsAsAsked`, `OrderIsSound`, `OrderIsStable` |
| `compose_engine` | three calls out of nine kinds on both backends, three incidents (edits, pulls, untagging, lost network, exits, removals, failing reads and calls, crashes), two versions of the files | `StampIsTrue`, `UpIsCurrent`, `AdoptNeverReplaces`, `UnchangedIsKept`, `FreshIsFresh` |
| `config` | eight configurations over two features, a published and a prebuilt image, three edits or host changes, unreadable labels | `ServiceIsKept`, `BackendsAgree`, `ReattachKeepsService`, `ViewIsDefined` |

The bounds.  Three services are the fewest that have a level with two
goroutines and a dependent, a chain of three levels, or a cycle with a lead-in.
Two calls (`MaxCalls`) are the fewest in which one call meets what another
left, and the orchestrator's and the features' properties relate at most two.
Two versions and two digests are the fewest that can drift.  `HealthTimeout = 1`
gives a poll before the deadline and one after it; with 0 only the last poll
remains, which is enough where the run is not about gates.  For the lifecycle,
two callers are the fewest that race, and with three calls one of them can bring
up, one replace or take down, and the first go on with its stale `Workspace`;
the phases used are one of each kind (on the host, create-keyed, start-keyed,
without marker).  Callers are interchangeable, which the symmetry set of
`callers` uses; the liveness runs have none.

In `event_bus` two builds are the fewest of which one can be late, and channels
of one and two places are full as soon as they can be (`BuildCap` is 64 in the
code; nothing but fullness depends on it).  In `feature_store` two processes
race, and the third fetch meets what a crash or a race has left; a directory of
three files can be cut between the two that lookups test and the rest.  In
`compose_engine` three calls let the second leave something between the first
and the third (a tag moved by an Up that adopts); three incidents are a change
between each two calls and a fault.  A tag that moves twice may come back to
what it named before.  `dagErrorDepth` is 3 instead of 64, so that five features
reach it; `attempts` is that of the code.

Every module also states its types (`OrchTypeOK`, `LifeTypeOK`, `TypeOK`).  They
are no run's subject: they are proved (`...Type` in section 5).

`CHECK_DEADLOCK FALSE` is right in every run: the system may stop once
`MaxCalls` calls have returned, and the graph loops end.

Fairness is assumed in the liveness properties only.  `GraphTerminates`: both
loops are sequential code.  `CallsReturn`: the calling goroutine takes its next
step and so does every service goroutine, that is, a runtime call returns with a
result or an error (the Docker client's calls run under the caller's context),
and time passes.  Nothing is assumed of containers, users, cancellation or
crashes, so `CallsReturn` holds even when no health check ever answers.
`CancelledCallsReturn`: the caller's goroutine takes its next step, and a
command is given up once the context is done, which `ExecContainer` does by
selecting on it (a `HostExecutor` is handed the same context).  A command under
a live context may run for ever.  `CloseTerminates`: an operation's goroutine
and its translator take their next step; the consumer need not do anything.

## 4. Where code and documentation disagree

One run is expected to fail, in the one property it checks:

* `reattach_env`: a compose workspace created with secrets or
  `ExtraContainerEnv` on the native backend.  The second, unchanged `Up`
  reattaches, computes the service without that environment and so with another
  hash, and the orchestrator replaces the container, although
  `up_compose_reattach.go:380` counts on its environment being baked.

Other disagreements the models show, with no run spent on them.  In the
orchestrator:

* a transient `InspectContainer` error skips the adoption of containers the
  orchestrator did not create and removes them (`orchestrator.go:371` against
  the comment at 375);
* a container created after a pull is stamped with the hash of the bare
  reference, so the next unchanged `Up` recreates it once (426 against 443),
  which is why `reuse` has no missing images;
* of two dependents that ask different conditions of one service only one,
  picked by map order, is waited for (497 against `design/compose-native.md:358`);
  `Uniform` in `GatesHoldBeforeStart` states the case the code covers;
* the health timeout is one deadline for a level's sequential waits, not one per
  dependency (511 against 73);
* `Down` without a project removes no volumes (`plan.go:52`).

In the lifecycle and the engine:

* `run-user-commands` runs only the hooks of `devcontainer.json` but marks the
  phases as a whole, so the image's and the features' hooks are skipped by every
  later `Up` (`run_user_commands.go:59` against `lifecycle.go:32`);
* when the image's label cannot be read, `Up` succeeds without the hooks it
  carries (`up.go:349`), which is why the theorem `UpDone` assumes `WholeViews`;
* an `Up` cancelled during a hook returns a `LifecycleError` and a `Workspace`,
  the case the comment at `up.go:323` excludes;
* `initializeCommand` runs after the container's creation, not before it as
  `up.go:84` says;
* an `Up` drops `RunSecretsCommand` whenever the label search finds anything
  (`up.go:270`), and the native backend stamps the label on sidecars too
  (`up.go:976`, `orchestrator.go:633`).  When an earlier `Up` with secrets died
  after the sidecar and before the primary, or the primary alone was removed,
  the next `Up` creates the primary without its secrets, although `up.go:101`
  leaves them out on reattach only, because "the existing container's env is
  already baked".  `FreshIsFresh` therefore speaks of an `Up` that recreates or
  that finds no labelled container;
* `Attach` returns the newest container with that label (`attach.go:53`,
  `run.go:257`).  When the sidecar was made again after the primary, that is the
  sidecar, and commands and hooks run in it, although `compose/plan.go:32` has
  the label so that `Attach` "can find the primary container", and
  `design/compose-native.md:172` puts it on the primary only;
* `Recreate` tears nothing down when no container carries the label.  That is so
  when only a sidecar is left that the shell-out backend has made; it may then be
  adopted, although `orchestrator.go:354` takes it for gone.  The second part of
  `FreshIsFresh`, about the sidecar, therefore asks for a labelled container; the
  first, about the primary, does not;
* image and Dockerfile workspaces never run feature entrypoints
  (`buildRunSpec` against `merge_metadata.go:82`).

In features, store, events and configuration:

* a dependency that is fetched under another spelling of a reference (`./b/` for
  `./b`, an OCI reference in another case, a second URL that serves the same
  body) is dropped as a duplicate (`up.go:1496`, `duplicateFeature` at 551), but
  `topoSort` looks the dependency up by its text (`feature/graph.go:62`, 84, 287),
  finds nothing and drops the edge, so that the dependent may be installed first,
  although `design/features.md:162` calls `dependsOn` a hard dependency and 188
  has the duplicate check cover other references.  `DependenciesFirstTheorem`
  therefore assumes `OneName`: references that may name the same content have
  one id, as those of the run do;
* `overrideFeatureInstallOrder` reaches the partial order only; the order that
  counts is computed without it (`up.go:1512` against `order.go:19`);
* `StrictFeatureVersionMatch` compares versions, not digests
  (`engine.go:58`);
* the comment on `topoSort` promises an alphabetical order among ready features;
  it is first come first served, with those that become ready together in order;
* two processes that extract the same digest at once can leave a lookup with a
  half-removed directory (`oci.go:246` says the cache never holds one), and an
  HTTPS entry cut short after its metadata file is taken for complete
  (`https.go:85`): `CacheIsWhole` is stated for OCI entries and fetches that did
  not overlap, and `RightContent`, which has no such restriction, does not look
  into the directory;
* an operation stamps an event, its translator stamps and sends the event of a
  build or pull, and only then the operation sends its own: the caller receives
  the numbers 2, 1, because `Emit` stamps and sends in two steps without a lock
  (`eventbus.go:40`).  `events/doc.go:26` says "All events carry a monotonic
  Seq", and `events_emit_test.go:37` fails an `Up` on any number that is not
  above the last one.  `ImplementsEventLog` checks what does hold: numbers are
  distinct, and in order among an operation's own events and among those of its
  builds;
* events of a build that are still queued when the next build begins carry the
  next one's source (`eventbus.go:47`): `LabelsAreCoherent`, a part of
  `BuildEventsAreTrue`, allows a later source, never an earlier one;
* `MergeMetadata` is not idempotent for hooks (`merge_metadata.go:45`), and an
  empty command is dropped from a label that "must be lossless"
  (`metadata.go:75`);
* bind mounts at a target the compose file already has are left out by the native
  backend and written by the shell-out one, which `BackendsAgree` excludes.

## 5. Proofs

All theorems hold for every value of the constants: any finite set of services,
any set of plans of `PlanType`, any faults, capabilities, initial containers
and bounds; any set of callers, hooks, commands and options; any operations,
builds and channel capacities; any processes, artifacts and references.  The
assumptions are the named `ASSUME`s of the modules, which TLC evaluates on every
run, and the hypotheses that some theorems state, given below with the reason.

**Graph.**  `LevelsRight`, `CycleRight`, `ClosureRight`.  `SortInv` says that a
service has left `remaining` exactly when it is in a level, and that its
dependencies left before; `WalkInv` that the walk stays inside `remaining`, where
every service has a successor; `ClosureInv` that what was seen is needed (it is
in every closed set that holds the names) and that what it needs is seen or
queued.  None of the properties is inductive by itself: they speak about the end
of the loops.

**Orchestrator.**  `OrchestratorType`; `StartOrder` and `ReportTrue` from
`OrchInv`, which adds to the properties what carries them through a call: the
sort's result stays true until the next call (`GraphPart`), goroutines exist only
in launched levels and end `"ok"` exactly when their id is recorded (`TaskPart`),
the selection is closed and the earlier levels are up (`LevelPart`), a container
a goroutine saw running has been started (`ContainerPart`).

* `GatesHold`: from `GateInv`, `OrchInv` with `GatePart`: in every level passed,
  each service whose strict dependents agree has been seen to meet their
  condition, and in the level at the gate each service either has or still has
  its requirement recorded.  Hypothesis: a backend that claims
  `Capabilities.Healthchecks` reports health.
* `DownLeaves`: `DownPart` says that while containers are being removed every
  one that exists is on the list, orphans included; the list was taken after the
  call began and nothing creates a container while it lasts.
* `DownOrder`: an action property.  `LevelIndex` shows that the position
  `orderContainersForTeardown` sorts by is well defined and is higher for a
  dependent, so the next victim has no dependent left.
* `ReuseCurrent`, `ReusableKept`: action properties, from `ReusePart`: a
  goroutine past its probe knows the service's image, one that inspects is not
  adopting, and one that stops or removes has compared the labels and found them
  different.  What makes the comparison mean something is `Honest`: the hash on a
  container of ours is that of the entry and image it was created from.
  Hypothesis `Settled`, which the run `reuse` satisfies too: nothing is edited or
  re-tagged under a running `Up`; `InspectContainer` does not fail (the first
  disagreement of section 4) and images are there (the second one); all plans
  derive the same hash inputs that are not part of the entry's version; initial
  containers that carry our label carry a true one.

**Lifecycle.**  `LifecycleType`.  `MarkersTrue`, `InOrder`, `UpDone`, `DownGone`:
from `LifeInv`, under `WholeViews`: every `Workspace` in use sees every hook;
without it the first is false (section 4).  The argument has two halves.  The
container only gets on, disappears or is replaced by one with a new id (`Later`),
so what a caller knows of it stays true for as long as it exists: that is
`Others`, for the callers that do not move, and `DoneStays`.  For the caller that
moves, `HooksOK` says that the hooks behind it in the present phase have
succeeded and `PhasesOK` the same of the phases; `PlaceOK` and `HandleOK` tie the
locals to the place in the code.  A marker is believed because `MarkerIsTrue` is
part of the invariant, and written because `HooksOK` then covers the whole phase.

* `MarkedRests`: from `RestInv`, whatever the `Workspace` sees.  Stamps are
  ordered: the keys in the postStart marker are not later than the `StartedAt`
  the caller holds, that is not later than the container's (`HandleRest`), and a
  new start is later than all of them (`BoxRest`).  So a marker that is not the
  caller's is not the container's, and no restart makes it so.  Hypotheses: one
  caller (another one may write the marker after this one has read it), and no
  marker read cut short by the container's death (`readMarker` takes it for no
  marker).

**Compose workspaces.**  `EngineType`, with changes at any moment.  `StampTrue`,
`UpCurrent`, `FreshUp`, `AdoptKeeps`, `UnchangedKept`: from `EngineInv`, under
`~Races`: nothing edits, re-tags or removes while a call runs (the engine takes
no lock and reads most things once; calls may still fail or die at every step,
and everything may change between calls).  Its parts: `TagPart` and `StampPart`
(the hash on the primary, and the one in the call's hands, is that of the image
it goes with, also when the tag was moved by an `Up` that did not finish),
`CallPart` (what the search at the beginning found stays true), `CurrentPart`
(past the layering the tag names an image of the present files and base),
`FreshPart` (whatever the search found, everything is removed before anything is
made, and when it found nothing there was no primary, `PrimaryFound`) and `RestartPart`
(an unchanged workspace only goes along the reattach path, where tag, hash and
container stay as they were).  None of the five properties is inductive: each
compares the end of a call with its beginning.  The attempt to prove types
showed that two cases of `Begin` overlapped; they are exclusive now.

**Feature store.**  `StoreType`; `StoreRight` from `StoreInv`: a process past the
resolution of its reference holds a digest the reference names or has named, and
one past the checks of an OCI layer holds a feature.  `StoreWhole` from
`WholeInv`: as long as no two fetches have overlapped at most one process is
active (`Alone`), whatever a crash left behind is either not taken for an entry
or whole, and a process that found an entry still finds it (`LookupInv`).

**Event bus.**  `BusType`, and `BusFlushes` from `FlowInv`, which ties the places
of an operation's goroutine and its translator to each other.  `BuildEventsTrue`
from `EventInv`: what is logged, in the translator's hands and in the build
channel is one sequence (`Earlier`) in which the transitions of a vertex follow
each other and none is repeated (`OrderInv`, `Reports`), and labels never name an
earlier build (`LabelInv`).  `BusImplementsLog`: with `NumberInv` (a stamp in a
goroutine's hands is not yet in the log and is above all this goroutine has
sent), every send is a `Deliver` of the
abstract log or, into a full channel, a stutter; a return is a `Return`; every
other step stutters.

**Features.**  `FeaturesType`; `LockIsExactTheorem`,
`FrozenInstallsTheLockTheorem`, `ImageIsAsAskedTheorem`, from `IInv`, which says
of the middle of the resolution loop what the properties say of its end.
`EntriesInv`: the entries before the loop's index are fetched or baked, the
others as they were asked for.  `WantedInv`: whatever was asked for, or an entry
before the index depends on, is provided by some entry.  `RefsInv`: the
references in the list or among the aliases are exactly those somebody wants,
which is why the lockfile has no entry too many and none too few.  `DistinctInv`:
no two entries resolved to one artifact with one set of options.  `LockInv` ties
the pins in the call's hands to the file, and `ImageInv` and `WorldInv` keep the
label of every image ever built equal to its content, so that the next call may
believe it.

* `OrderIsSoundTheorem`: `topoSort` is an operator on sequences, so this is a
  fact about Kahn's algorithm alone.  The state after `n` rounds is reached by
  `n` applications of the round (`UpTo`, from the well-foundedness of the
  naturals), and an invariant of the rounds says that what has been installed,
  is ready and still waits are the entries, once each.  Hence the output is a
  permutation of the input exactly when the loop never runs dry; if it does, a
  least counterexample gives entries that wait for each other (`Cyclic`), and
  `depth` is the length of a longest chain (`ChainEnds`).
* `DependenciesFirstTheorem`: `OrderInv`, from the above and `WantedInv`: the
  entry that provides a dependency is one the edge was drawn from.  Hypothesis
  `OneName`, for the reason given in section 4.

**Configuration.**  `ConfigType`, `BackendsAgreeTheorem`, `ServiceIsKeptTheorem`
and `ReattachKeepsServiceTheorem`, for every `devcontainer.json`, feature, label
and host, without hypotheses; `ViewIsDefinedTheorem` under `NothingLost`.  The
invariant has `ImagesInv` (the label of an
image reads back as `Rereads` of the layers installed in it: each of them as it
comes through the label), `BoxInv` and `WsInv` (types of what is there and what
was handed out), `SpecInv` (the service in the container is the one made of the
configuration `Up` returned), `KeptInv` (it is also the one made of the label)
and `SourceInv`.

The loops over layers are unfolded once (`Recursion`: a recursive function on
`0 .. n` exists and is determined by its steps), and each gets one lemma that
says what it returns: the last value that is set (`PickLast`), a sequence of the
same elements without repetition (`UnionMembers`), for each target the last
mount (`DedupMembers`), the elements at the given places (`KeptMembers`).

* `BackendsAgreeTheorem`: part by part, the override applied in memory and the
  one written, merged and interpolated give the same; for volumes where no bind
  has a target of another, in which case both append.
* `ServiceIsKeptTheorem`: volumes of the compose file come first and no target
  twice (`AddMissing`), capabilities are only added to.
* `ReattachKeepsServiceTheorem`: reattaching puts the service together from the
  label instead of the features, and a label is not lossless: an empty hook and
  mounts without type, source and target do not come back, and the last entry of
  a label is one no feature wrote.  `Alike` relates a layer to what comes back,
  `Agree` two configurations no backend can tell apart.  Merging alike layers
  gives configurations that agree (`MergeAgrees`), and ones that agree make the
  same service: a mount without a target never gets into the override, and an
  empty hook is no part of the service.  Features that an offline `Up` could not
  fetch are `Quiet` layers, which add nothing to those already in the label.
* `ViewIsDefinedTheorem`: `View` is what a list of layers defines, and one more
  layer changes it field by field (`ViewAppend`: `Under`).  The merge computes
  the view of the layers with `devcontainer.json` on top (`MergeDefined`).  What
  is merged and what was installed differ in two ways, and neither changes the
  view: an offline `Up` has blank layers for features it did not fetch
  (`SeenExtras`), and a built image has one that repeats the user of the
  `devcontainer.json` it was built from, which is the one on top (`SeenOwn`).
  After that build the layer is one like any other; that all of them come back
  from the label at a later `Up` is `PlainInv`, with `ImagesInv`.  Hypothesis
  `NothingLost`: no feature and no layer of the published image has an empty
  command or a mount without type, source and target.  The label drops those
  (section 4), so a configuration read back lacks them; the instance of the run
  satisfies it.

Each inductive invariant was checked by TLC on a run's instance before it was
proved; `DownInvariant`, `ReuseInvariant`, `EngineInv`, `RestInv`, `StoreInv`,
`WholeInv`, `BusInv`, `EventInv`, `ViewInv` and both `IInv` stand in the proof modules
(`EventInv` was checked with its unbounded quantifiers ranging over the events
logged, in hand or queued, the only ones they speak of).

Only model-checked:

* the liveness properties (`GraphTerminates`, `CallsReturn`,
  `CancelledCallsReturn`, `CloseTerminates`), which are out of the prover's reach;
* `FrozenAcceptsOwnLock`, which compares two calls: that the second resolves what
  the first did needs the determinism of the whole resolution loop, a relation
  between two runs of it that the invariant of one run does not give;
* `OrderIsStable`, which runs Kahn's algorithm on a list and on a permutation of
  it: a simulation between two runs, round by round, up to renaming the entries.

## 6. Not modelled

Parsing and validating `devcontainer.json`, loading compose files (compose-go's
work), the text of Dockerfiles, wrapper scripts and build contexts, splitting
exec streams, the environment probe and the command line's output are data
translation or I/O: their results are the inputs of the models.  In the
orchestrator: `patchHostsFiles`, for backends without service DNS (none is in
the repository); the static list of refused compose fields; two calls on one
project at once, which the type's comment leaves to the caller.  In the engine:
`Exec` and the other read-only calls, two concurrent calls on one compose
workspace, and two concurrent writers of one lockfile, for which nothing in the
repository claims anything.  A local feature is read where it is.

## 7. Plan

1. `ComposeGraph`, `ComposeOrchestrator` with proofs (done).
2. `Lifecycle` with proofs (done).
3. `EventLog`, `EventBus` and the refinement; `FeatureStore`; `FeatureOrder` and
   `Features`; `ComposeEngine`; `Config` (done).
4. Proofs of `FeatureStore`, `EventBus` with its refinement, `ComposeEngine`, the
   orchestrator's reuse and teardown, and the resting phases of `Lifecycle`
   (done).
5. Proofs of `Features` and `FeatureOrder`, and of `Config` (done).
6. `OrderIsStable` and `FrozenAcceptsOwnLock`: a simulation between two runs of
   `topoSort`, and of the resolution loop.
