------------------------------ MODULE Lifecycle ------------------------------
(***************************************************************************)
(* up.go, attach.go, down.go, lifecycle.go, marker.go: the engine's calls  *)
(* on one image or Dockerfile workspace.                                   *)
(*                                                                         *)
(* Several callers (processes, or goroutines of one) use the engine on the *)
(* same workspace.  They share the workspace's container, which has a      *)
(* fixed name, and the marker files inside it; each holds the *Workspace   *)
(* its last call returned, which may be stale.  Between any two runtime    *)
(* calls the container may die, be restarted or be removed, a caller may   *)
(* be cancelled or die, and calls may fail.                                *)
(***************************************************************************)
EXTENDS Naturals, Sequences, FiniteSets

CONSTANTS
    Caller,       \* who uses the engine
    Command,      \* the commands of the lifecycle hooks
    Hooks,        \* Hooks[ph]: the phase's hooks, in the merged order
    Faults,       \* runtime calls that may fail
    UpOptions,    \* the options Up is called with
    AttachViews,  \* the hook layers callers of Attach go on with
    RunSets,      \* the phases passed to RunLifecycle, one call each
    DownOptions,  \* the Remove flags Down is called with
    MaxCalls,     \* bound on the number of calls
    MaxRestarts   \* bound on starts by somebody else

(* orderedPhases, by position.                                             *)
Initialize    == 1
OnCreate      == 2
UpdateContent == 3
PostCreate    == 4
PostStart     == 5
PostAttach    == 6

Phase      == 1..6
Markered   == OnCreate..PostStart
StartKeyed == {PostStart, PostAttach}

(***************************************************************************)
(* The metadata layer a hook comes from: the image's metadata label, which *)
(* carries the base image's and the features' hooks, or devcontainer.json. *)
(***************************************************************************)
Layer == {"image", "user"}

UpOptionsType == [recreate : BOOLEAN, skip : BOOLEAN, init : BOOLEAN]

ASSUME HooksAssumption ==
    Hooks \in [Phase -> Seq([layer : Layer, cmds : SUBSET Command])]

ASSUME OptionsAssumption ==
    /\ UpOptions \subseteq UpOptionsType
    /\ AttachViews \subseteq SUBSET Layer
    /\ RunSets \subseteq SUBSET Phase
    /\ DownOptions \subseteq BOOLEAN

ASSUME BoundsAssumption == MaxCalls \in Nat /\ MaxRestarts \in Nat

VARIABLES
    box,      \* the workspace's container: id (its creation), state, last start
    marker,   \* marker[ph]: the key in the phase's marker file, {} without one
    done,     \* history: done[c], the start in which c was last seen to
              \* succeed in box, 0 if never
    created,  \* containers created so far
    starts,   \* starts so far; stamps StartedAt
    restarts, \* starts by somebody else so far
    calls,    \* calls made so far
    pc,       \* pc[p]: the next step of p's call
    call,     \* call[p]: what p is calling
    opt,      \* opt[p]: the options of p's Up
    ws,       \* ws[p]: the Workspace p holds, or its call is building
    todo,     \* todo[p]: phases p has still to run
    cur,      \* cur[p]: the phase p is running
    left,     \* left[p]: hooks of cur[p] still to run
    busy,     \* busy[p]: commands of the present hook still running
    bad,      \* bad[p]: how commands of the present hook failed
    cancelled,\* callers whose context is done
    result    \* result[p]: what p's last call returned

boxVars  == <<box, marker, done, created, starts, restarts>>
callVars == <<calls, call, opt, cancelled>>
runVars  == <<todo, cur, left, busy>>
lifeVars == <<boxVars, callVars, runVars, pc, ws, bad, result>>

----------------------------------------------------------------------------
(* The container and the runtime's calls on it. *)

BoxType == [id : Nat, state : {"none", "created", "running", "exited"},
            started : Nat]

Box(id, state, started) ==
    [id |-> id, state |-> state, started |-> started]

NoBox == Box(0, "none", 0)

NoMarkers == [ph \in Markered |-> {}]

NothingDone == [c \in Command |-> 0]

(* Under a context that is done every call fails.                          *)
Works(p) == p \notin cancelled

Fails(p, what) == what \in Faults \/ ~Works(p)

(* ContainerStart: no effect, and no new StartedAt, on a running one.      *)
Start ==
    IF box.state = "running"
    THEN UNCHANGED <<box, starts>>
    ELSE /\ starts' = starts + 1
         /\ box' = Box(box.id, "running", starts + 1)

(***************************************************************************)
(* A start that fails: refused, or accepted but not seen to be running, or *)
(* ended before waitForRunning has looked twice.                           *)
(***************************************************************************)
FailedStart ==
    \/ UNCHANGED <<box, starts>>
    \/ Start
    \/ /\ box.state # "running"
       /\ starts' = starts + 1
       /\ box' = Box(box.id, "exited", starts + 1)

Stop(id) ==
    box' = IF box.id = id /\ box.state = "running"
           THEN Box(id, "exited", box.started) ELSE box

Discard ==
    /\ box' = NoBox
    /\ marker' = NoMarkers
    /\ done' = NothingDone

Running(id) == box.id = id /\ box.state = "running"

Exists(id) == box.id = id /\ id # 0

----------------------------------------------------------------------------
(* The hooks of a phase, as a Workspace with the given layers sees them. *)

lifecycleCommandsFor(view, ph) ==
    {h \in 1..Len(Hooks[ph]) : Hooks[ph][h].layer \in view}

(* runPhase returns at once for a phase without hooks.                     *)
Configured(view, phases) ==
    {ph \in phases : lifecycleCommandsFor(view, ph) # {}}

keyTimestampFor(ph, w) == IF ph = PostStart THEN w.started ELSE w.id

IsFirst(x, S) == \A y \in S : x <= y

----------------------------------------------------------------------------
(* Calls begin and end. *)

Handle(id, started, view) ==
    [id |-> id, started |-> started, view |-> view]

NoHandle == Handle(0, 0, {})

Idle(p) == pc[p] = "idle" /\ calls < MaxCalls

Begin(p, what, step) ==
    /\ calls' = calls + 1
    /\ call' = [call EXCEPT ![p] = what]
    /\ pc' = [pc EXCEPT ![p] = step]
    /\ result' = [result EXCEPT ![p] = "none"]
    /\ bad' = [bad EXCEPT ![p] = {}]
    /\ cancelled' = cancelled \ {p}

Goto(p, step) ==
    /\ pc' = [pc EXCEPT ![p] = step]
    /\ UNCHANGED <<result, runVars>>

Return(p, r) ==
    /\ pc' = [pc EXCEPT ![p] = "idle"]
    /\ result' = [result EXCEPT ![p] = r]
    /\ todo' = [todo EXCEPT ![p] = {}]
    /\ cur' = [cur EXCEPT ![p] = Initialize]
    /\ left' = [left EXCEPT ![p] = {}]
    /\ busy' = [busy EXCEPT ![p] = {}]

(* (nil, err): Up and Attach return no Workspace.                          *)
ReturnError(p) ==
    /\ Return(p, "error")
    /\ ws' = IF call[p] = "run" THEN ws ELSE [ws EXCEPT ![p] = NoHandle]

----------------------------------------------------------------------------
(* Engine.Up and Engine.Attach *)

Up(p, o) ==
    /\ Idle(p)
    /\ Begin(p, "up", "find")
    /\ opt' = [opt EXCEPT ![p] = o]
    /\ ws' = [ws EXCEPT ![p] = Handle(0, 0, Layer)]
    /\ UNCHANGED <<boxVars, runVars>>

(***************************************************************************)
(* Attach gives a Workspace with the image's hooks only; the command line  *)
(* replaces its Config by devcontainer.json's, with the user's hooks only. *)
(***************************************************************************)
Attach(p, view) ==
    /\ Idle(p)
    /\ Begin(p, "attach", "find")
    /\ ws' = [ws EXCEPT ![p] = Handle(0, 0, view)]
    /\ UNCHANGED <<boxVars, runVars, opt>>

AfterFind(p) ==
    IF call[p] = "attach" THEN "inspect"
    ELSE IF opt[p].recreate THEN "stop"
    ELSE IF box.state # "running" THEN "restart"
    ELSE "inspect"

FindContainerByLabel(p) ==
    /\ pc[p] = "find"
    /\ \/ /\ Works(p) /\ box.state = "none"
          /\ IF call[p] = "attach" THEN ReturnError(p)
             ELSE Goto(p, "create") /\ UNCHANGED ws
       \/ /\ Works(p) /\ box.state # "none"
          /\ ws' = [ws EXCEPT ![p] = Handle(box.id, 0, @.view)]
          /\ Goto(p, AfterFind(p))
       \/ Fails(p, "find") /\ ReturnError(p)
    /\ UNCHANGED <<boxVars, callVars, bad>>

(* removeContainer: the stop's error is ignored ...                        *)
RecreateStop(p) ==
    /\ pc[p] = "stop"
    /\ \/ Works(p) /\ Stop(ws[p].id)
       \/ Fails(p, "stop") /\ UNCHANGED box
    /\ Goto(p, "remove")
    /\ UNCHANGED <<marker, done, created, starts, restarts, callVars, bad, ws>>

(* ... the removal's is not, even when the container is gone already.      *)
RecreateRemove(p) ==
    /\ pc[p] = "remove"
    /\ \/ /\ Works(p) /\ Exists(ws[p].id)
          /\ Discard
          /\ Goto(p, "create") /\ UNCHANGED ws
       \/ /\ ~Exists(ws[p].id) \/ Fails(p, "remove")
          /\ ReturnError(p)
          /\ UNCHANGED <<box, marker, done>>
    /\ UNCHANGED <<created, starts, restarts, callVars, bad>>

(* createFresh up to RunContainer: building may fail, the name be taken.   *)
RunContainer(p) ==
    /\ pc[p] = "create"
    /\ \/ /\ Works(p) /\ box.state = "none"
          /\ created' = created + 1
          /\ box' = Box(created + 1, "created", 0)
          /\ ws' = [ws EXCEPT ![p] = Handle(created + 1, 0, @.view)]
          /\ Goto(p, "start")
       \/ /\ box.state # "none" \/ Fails(p, "create")
          /\ ReturnError(p)
          /\ UNCHANGED <<box, created>>
    /\ UNCHANGED <<marker, done, starts, restarts, callVars, bad>>

(***************************************************************************)
(* The new container is removed, by force, when it does not start; the     *)
(* removal's own error is ignored.                                         *)
(***************************************************************************)
StartNew(p) ==
    /\ pc[p] = "start"
    /\ \/ /\ Works(p) /\ Exists(ws[p].id)
          /\ Start
          /\ Goto(p, "inspect")
          /\ UNCHANGED <<marker, done, ws>>
       \/ /\ Exists(ws[p].id) /\ Fails(p, "start")
          /\ \/ Works(p) /\ Discard /\ UNCHANGED starts
             \/ Fails(p, "remove") /\ FailedStart /\ UNCHANGED <<marker, done>>
          /\ ReturnError(p)
       \/ /\ ~Exists(ws[p].id)
          /\ ReturnError(p)
          /\ UNCHANGED <<box, marker, done, starts>>
    /\ UNCHANGED <<created, restarts, callVars, bad>>

StartExisting(p) ==
    /\ pc[p] = "restart"
    /\ \/ /\ Works(p) /\ Exists(ws[p].id)
          /\ Start
          /\ Goto(p, "inspect") /\ UNCHANGED ws
       \/ /\ Exists(ws[p].id) /\ Fails(p, "start")
          /\ FailedStart
          /\ ReturnError(p)
       \/ /\ ~Exists(ws[p].id)
          /\ ReturnError(p)
          /\ UNCHANGED <<box, starts>>
    /\ UNCHANGED <<marker, done, created, restarts, callVars, bad>>

(***************************************************************************)
(* The phases Up runs: initialize only on request, none with SkipLifecycle *)
(***************************************************************************)
UpPhases(o) ==
    IF o.skip THEN {} ELSE IF o.init THEN Phase ELSE Phase \ {Initialize}

(***************************************************************************)
(* applyMetadataMerge and inspectStable.  The Workspace keeps the Created  *)
(* and StartedAt it reads here.  Reading the image's label is best effort: *)
(* a failure silently drops its hooks.  inspectStable returns the details  *)
(* whether or not the container turned out to be running.                  *)
(***************************************************************************)
buildWorkspace(p) ==
    /\ pc[p] = "inspect"
    /\ \/ /\ Works(p) /\ Exists(ws[p].id)
          /\ \E view \in {ws[p].view} \cup
                         {v \in {ws[p].view \ {"image"}} : Fails(p, "image")} :
               /\ ws' = [ws EXCEPT ![p] = Handle(box.id, box.started, view)]
               /\ todo' = [todo EXCEPT ![p] =
                            IF call[p] = "attach" THEN {}
                            ELSE Configured(view, UpPhases(opt[p]))]
          /\ pc' = [pc EXCEPT ![p] = "phase"]
          /\ UNCHANGED <<result, cur, left, busy>>
       \/ ~Exists(ws[p].id) /\ ReturnError(p)
       \/ Fails(p, "inspect") /\ ReturnError(p)
    /\ UNCHANGED <<boxVars, callVars, bad>>

----------------------------------------------------------------------------
(* Engine.RunLifecycle, runAllLifecycle and run-user-commands *)

RunLifecycle(p, phases) ==
    /\ Idle(p)
    /\ ws[p].id # 0
    /\ Begin(p, "run", "phase")
    /\ todo' = [todo EXCEPT ![p] = Configured(ws[p].view, phases)]
    /\ UNCHANGED <<boxVars, opt, ws, cur, left, busy>>

(* A bug: the phases are taken in any order, as from a map.                *)
NextPhaseAny(p) ==
    /\ pc[p] = "phase"
    /\ \E ph \in todo[p] :
         /\ cur' = [cur EXCEPT ![p] = ph]
         /\ todo' = [todo EXCEPT ![p] = @ \ {ph}]
         /\ left' = [left EXCEPT ![p] = lifecycleCommandsFor(ws[p].view, ph)]
         /\ pc' = [pc EXCEPT ![p] =
                     IF ph \in Markered THEN "marker" ELSE "hook"]
    /\ UNCHANGED <<boxVars, callVars, ws, busy, bad, result>>

NextPhase(p) ==
    /\ pc[p] = "phase"
    /\ \E ph \in todo[p] :
         /\ IsFirst(ph, todo[p])
         /\ cur' = [cur EXCEPT ![p] = ph]
         /\ todo' = [todo EXCEPT ![p] = @ \ {ph}]
         /\ left' = [left EXCEPT ![p] = lifecycleCommandsFor(ws[p].view, ph)]
         /\ pc' = [pc EXCEPT ![p] =
                     IF ph \in Markered THEN "marker" ELSE "hook"]
    /\ UNCHANGED <<boxVars, callVars, ws, busy, bad, result>>

PhasesDone(p) ==
    /\ pc[p] = "phase"
    /\ todo[p] = {}
    /\ Return(p, "ok")
    /\ UNCHANGED <<boxVars, callVars, bad, ws>>

(* A bug: any marker will do, whatever start it was written for.           *)
shouldRunUnkeyed(p) == marker[cur[p]] = {}

(* A bug: markers are written and never looked at.                         *)
shouldRunAlways(p) == cur[p] \in Phase

shouldRun(p) == keyTimestampFor(cur[p], ws[p]) \notin marker[cur[p]]

(***************************************************************************)
(* The marker is read by a command in the container.  One cut short by the *)
(* container's death has a non-zero exit code, which counts as no marker.  *)
(***************************************************************************)
readMarker(p) ==
    /\ pc[p] = "marker"
    /\ \/ /\ Works(p) /\ Running(ws[p].id)
          /\ Goto(p, IF shouldRun(p) THEN "hook" ELSE "phase")
          /\ UNCHANGED ws
       \/ /\ "cut" \in Faults
          /\ Works(p) /\ ~Running(ws[p].id)
          /\ Goto(p, "hook") /\ UNCHANGED ws
       \/ /\ ~Running(ws[p].id) \/ Fails(p, "exec")
          /\ ReturnError(p)
    /\ UNCHANGED <<boxVars, callVars, bad>>

StartHook(p) ==
    /\ pc[p] = "hook"
    /\ \E h \in left[p] :
         /\ IsFirst(h, left[p])
         /\ left' = [left EXCEPT ![p] = @ \ {h}]
         /\ busy' = [busy EXCEPT ![p] = Hooks[cur[p]][h].cmds]
    /\ bad' = [bad EXCEPT ![p] = {}]
    /\ pc' = [pc EXCEPT ![p] = "exec"]
    /\ UNCHANGED <<boxVars, callVars, ws, todo, cur, result>>

HooksDone(p) ==
    /\ pc[p] = "hook"
    /\ left[p] = {}
    /\ Goto(p, IF cur[p] \in Markered THEN "write" ELSE "phase")
    /\ UNCHANGED <<boxVars, callVars, bad, ws>>

(***************************************************************************)
(* One command ends, with exit code zero, with another one, or because the *)
(* exec failed.  The commands of a parallel hook end in any order.  An     *)
(* initialize command runs on the host and needs no container.             *)
(***************************************************************************)
Succeeded(p, c) ==
    /\ IF cur[p] = Initialize THEN UNCHANGED done
       ELSE Running(ws[p].id) /\ done' = [done EXCEPT ![c] = box.started]
    /\ UNCHANGED bad

Failed(p, how) == bad' = [bad EXCEPT ![p] = @ \cup {how}] /\ UNCHANGED done

execCommand(p, c) ==
    /\ pc[p] = "exec"
    /\ c \in busy[p]
    /\ busy' = [busy EXCEPT ![p] = @ \ {c}]
    /\ \/ Works(p) /\ Succeeded(p, c)
       \/ "exit" \in Faults /\ Works(p) /\ Failed(p, "exit")
       \/ /\ cur[p] # Initialize
          /\ ~Running(ws[p].id) \/ "exec" \in Faults
          /\ Works(p) /\ Failed(p, "exec")
       \/ ~Works(p) /\ Failed(p, "cancel")
    /\ UNCHANGED <<box, marker, created, starts, restarts, callVars, todo, cur,
                   left, pc, ws, result>>

(* A bug: a failed hook is logged and the phase goes on.                   *)
JoinHookIgnored(p) ==
    /\ pc[p] = "exec"
    /\ busy[p] = {}
    /\ Goto(p, "hook")
    /\ UNCHANGED <<boxVars, callVars, bad, ws>>

(* A bug: a failed hook is tried again until it succeeds.                  *)
JoinHookRetries(p) ==
    /\ pc[p] = "exec"
    /\ busy[p] = {}
    /\ left' = [left EXCEPT ![p] =
                  IF bad[p] = {} THEN @
                  ELSE lifecycleCommandsFor(ws[p].view, cur[p])]
    /\ pc' = [pc EXCEPT ![p] = "hook"]
    /\ UNCHANGED <<boxVars, callVars, todo, cur, busy, bad, ws, result>>

(* All commands are joined; a failure makes a LifecycleError.              *)
JoinHook(p) ==
    /\ pc[p] = "exec"
    /\ busy[p] = {}
    /\ IF bad[p] = {} THEN Goto(p, "hook") ELSE Return(p, "lifecycle")
    /\ UNCHANGED <<boxVars, callVars, bad, ws>>

(***************************************************************************)
(* The file is opened, then filled: a failing write leaves the old marker, *)
(* a truncated one (which readMarker takes as absent) or the new one.      *)
(***************************************************************************)
writeMarker(p) ==
    /\ pc[p] = "write"
    /\ LET key == {keyTimestampFor(cur[p], ws[p])}
           Put(m) == marker' = [marker EXCEPT ![cur[p]] = m] IN
       \/ /\ Works(p) /\ Running(ws[p].id)
          /\ Put(key)
          /\ Goto(p, "phase") /\ UNCHANGED ws
       \/ /\ Running(ws[p].id) /\ Fails(p, "exec")
          /\ \E m \in {key, {}, marker[cur[p]]} : Put(m)
          /\ ReturnError(p)
       \/ ~Running(ws[p].id) /\ UNCHANGED marker /\ ReturnError(p)
    /\ UNCHANGED <<box, done, created, starts, restarts, callVars, bad>>

----------------------------------------------------------------------------
(* Engine.Down and Engine.Shutdown *)

Down(p, remove) ==
    /\ Idle(p)
    /\ ws[p].id # 0
    /\ Begin(p, IF remove THEN "down" ELSE "shutdown", "downstop")
    /\ UNCHANGED <<boxVars, runVars, opt, ws>>

AfterStop(p) ==
    IF call[p] = "down" THEN Goto(p, "downremove") ELSE Return(p, "ok")

(***************************************************************************)
(* A missing container counts as stopped.  Stopping one that was never     *)
(* started changes nothing, and waitForStopped waits in vain for it to     *)
(* become exited.                                                          *)
(***************************************************************************)
DownStop(p) ==
    /\ pc[p] = "downstop"
    /\ \/ /\ Works(p)
          /\ ~Exists(ws[p].id) \/ box.state # "created"
          /\ Stop(ws[p].id)
          /\ AfterStop(p)
       \/ /\ \/ Exists(ws[p].id) /\ box.state = "created"
             \/ Fails(p, "stop")
          /\ Stop(ws[p].id) \/ UNCHANGED box
          /\ Return(p, "error")
    /\ UNCHANGED <<marker, done, created, starts, restarts, callVars, bad, ws>>

(* A bug: a failing removal is only logged.                                *)
DownRemoveIgnored(p) ==
    /\ pc[p] = "downremove"
    /\ \/ /\ Works(p) /\ Exists(ws[p].id) /\ box.state # "running"
          /\ Discard
       \/ Works(p) /\ ~Exists(ws[p].id) /\ UNCHANGED <<box, marker, done>>
       \/ /\ Running(ws[p].id) \/ Fails(p, "remove")
          /\ UNCHANGED <<box, marker, done>>
    /\ Return(p, "ok")
    /\ UNCHANGED <<created, starts, restarts, callVars, bad, ws>>

(* Without Force: a container started again meanwhile is not removed.      *)
DownRemove(p) ==
    /\ pc[p] = "downremove"
    /\ \/ /\ Works(p) /\ Exists(ws[p].id) /\ box.state # "running"
          /\ Discard
          /\ Return(p, "ok")
       \/ /\ Works(p) /\ ~Exists(ws[p].id)
          /\ UNCHANGED <<box, marker, done>>
          /\ Return(p, "ok")
       \/ /\ Running(ws[p].id) \/ Fails(p, "remove")
          /\ UNCHANGED <<box, marker, done>>
          /\ Return(p, "error")
    /\ UNCHANGED <<created, starts, restarts, callVars, bad, ws>>

----------------------------------------------------------------------------
(* The environment. *)

outside == <<created, callVars, runVars, pc, ws, bad, result>>

ContainerExits ==
    /\ box.state = "running"
    /\ box' = Box(box.id, "exited", box.started)
    /\ UNCHANGED <<marker, done, starts, restarts, outside>>

RestartedElsewhere ==
    /\ box.state \in {"created", "exited"}
    /\ restarts < MaxRestarts
    /\ restarts' = restarts + 1
    /\ Start
    /\ UNCHANGED <<marker, done, outside>>

RemovedElsewhere ==
    /\ "gone" \in Faults
    /\ box.state # "none"
    /\ Discard
    /\ UNCHANGED <<starts, restarts, outside>>

Cancel(p) ==
    /\ "cancel" \in Faults
    /\ pc[p] # "idle" /\ p \notin cancelled
    /\ cancelled' = cancelled \cup {p}
    /\ UNCHANGED <<boxVars, calls, call, opt, runVars, pc, ws, bad, result>>

(* The caller's process dies; nobody sees how its commands end.            *)
CallerDies(p) ==
    /\ "crash" \in Faults
    /\ pc[p] # "idle"
    /\ Return(p, "none")
    /\ ws' = [ws EXCEPT ![p] = NoHandle]
    /\ UNCHANGED <<boxVars, callVars, bad>>

----------------------------------------------------------------------------

LifeInit ==
    /\ box = NoBox /\ marker = NoMarkers /\ done = NothingDone
    /\ created = 0 /\ starts = 0 /\ restarts = 0 /\ calls = 0
    /\ pc = [p \in Caller |-> "idle"]
    /\ call = [p \in Caller |-> "none"]
    /\ opt = [p \in Caller |->
                [recreate |-> FALSE, skip |-> FALSE, init |-> FALSE]]
    /\ ws = [p \in Caller |-> NoHandle]
    /\ todo = [p \in Caller |-> {}]
    /\ cur = [p \in Caller |-> Initialize]
    /\ left = [p \in Caller |-> {}]
    /\ busy = [p \in Caller |-> {}]
    /\ bad = [p \in Caller |-> {}]
    /\ cancelled = {}
    /\ result = [p \in Caller |-> "none"]

(* The next step of p's call.                                              *)
Code(p) ==
    \/ FindContainerByLabel(p) \/ RecreateStop(p) \/ RecreateRemove(p)
    \/ RunContainer(p) \/ StartNew(p) \/ StartExisting(p) \/ buildWorkspace(p)
    \/ NextPhase(p) \/ PhasesDone(p) \/ readMarker(p)
    \/ StartHook(p) \/ HooksDone(p) \/ JoinHook(p) \/ writeMarker(p)
    \/ DownStop(p) \/ DownRemove(p)

Commands(p) == \E c \in Command : execCommand(p, c)

Calls(p) ==
    \/ \E o \in UpOptions : Up(p, o)
    \/ \E v \in AttachViews : Attach(p, v)
    \/ \E S \in RunSets : RunLifecycle(p, S)
    \/ \E r \in DownOptions : Down(p, r)

Outside ==
    \/ ContainerExits \/ RestartedElsewhere \/ RemovedElsewhere
    \/ \E p \in Caller : Cancel(p) \/ CallerDies(p)

LifeNext == (\E p \in Caller : Calls(p) \/ Code(p) \/ Commands(p)) \/ Outside

LifeSpec == LifeInit /\ [][LifeNext]_lifeVars

(***************************************************************************)
(* Every caller's goroutine takes its next step: runtime calls return.  A  *)
(* command may run for ever, but ExecContainer gives up on it once the     *)
(* context is done.                                                        *)
(***************************************************************************)
LifeFairSpec ==
    /\ LifeSpec
    /\ \A p \in Caller :
         WF_lifeVars(Code(p)) /\ WF_lifeVars(~Works(p) /\ Commands(p))

----------------------------------------------------------------------------

HandleType == [id : Nat, started : Nat, view : SUBSET Layer]

Place == {"idle", "find", "stop", "remove", "create", "start", "restart",
          "inspect", "phase", "marker", "hook", "exec", "write",
          "downstop", "downremove"}

LifeTypeOK ==
    /\ box \in BoxType
    /\ marker \in [Markered -> SUBSET Nat]
    /\ done \in [Command -> Nat]
    /\ created \in Nat /\ starts \in Nat /\ restarts \in Nat /\ calls \in Nat
    /\ pc \in [Caller -> Place]
    /\ call \in [Caller -> {"none", "up", "attach", "run", "down", "shutdown"}]
    /\ opt \in [Caller -> UpOptionsType]
    /\ ws \in [Caller -> HandleType]
    /\ todo \in [Caller -> SUBSET Phase]
    /\ cur \in [Caller -> Phase]
    /\ left \in [Caller -> SUBSET Nat]
    /\ \A p \in Caller : left[p] \subseteq 1..Len(Hooks[cur[p]])
    /\ busy \in [Caller -> SUBSET Command]
    /\ bad \in [Caller -> SUBSET {"exit", "exec", "cancel"}]
    /\ cancelled \in SUBSET Caller
    /\ result \in [Caller -> {"none", "ok", "lifecycle", "error"}]

(* Every command of the phase has succeeded in this container, in start n  *)
(* or later.                                                               *)
PhaseDone(ph, n) ==
    \A h \in 1..Len(Hooks[ph]) : \A c \in Hooks[ph][h].cmds :
        done[c] > 0 /\ done[c] >= n

(* The command has succeeded as the Workspace's key for the phase asks.    *)
Ran(c, ph, w) == done[c] > 0 /\ (ph \in StartKeyed => done[c] >= w.started)

DoneFor(ph, w) ==
    \A h \in 1..Len(Hooks[ph]) : \A c \in Hooks[ph][h].cmds : Ran(c, ph, w)

(***************************************************************************)
(* A marker never lies: it is there only if every hook of the phase has    *)
(* succeeded in this very container and, for postStart, in the start it is *)
(* keyed by or a later one (runPhase writes it after the last hook; the    *)
(* comment on RunLifecycle: "The marker covers the whole phase").          *)
(***************************************************************************)
MarkerIsTrue ==
    \A ph \in Markered : \A k \in marker[ph] :
        IF ph = PostStart THEN PhaseDone(ph, k)
        ELSE k = box.id /\ PhaseDone(ph, 1)

(***************************************************************************)
(* When Up runs a command of some phase in the container, all commands of  *)
(* the earlier phases have succeeded there, be it in this Up or before     *)
(* (orderedPhases, and runAllLifecycle stopping at the first error).       *)
(***************************************************************************)
PhasesInOrder ==
    \A p \in Caller :
        /\ pc[p] = "exec" /\ call[p] = "up" /\ Exists(ws[p].id)
        => \A ph \in OnCreate..(cur[p] - 1) : DoneFor(ph, ws[p])

(***************************************************************************)
(* An Up that returns a Workspace and no error, not told to skip the       *)
(* lifecycle, has had every command succeed in that Workspace's container, *)
(* the start-keyed ones in the start it reports or later.                  *)
(***************************************************************************)
UpIsDone(p) ==
    /\ result[p] = "ok" /\ call[p] = "up" /\ ~opt[p].skip
    /\ Exists(ws[p].id)
    => \A ph \in OnCreate..PostAttach : DoneFor(ph, ws[p])

UpMeansDone == \A p \in Caller : UpIsDone(p)

(***************************************************************************)
(* With one caller, whatever Workspaces it uses, a phase never runs while  *)
(* the container holds the marker for its present creation or start        *)
(* (readMarker and shouldRun), whatever died, restarted or failed before,  *)
(* unless the container dies under the read itself ("cut").                *)
(***************************************************************************)
MarkedPhaseRests ==
    \A p \in Caller :
        /\ pc[p] = "exec" /\ cur[p] \in Markered /\ Exists(ws[p].id)
        => keyTimestampFor(cur[p], box) \notin marker[cur[p]]

(***************************************************************************)
(* A Down with Remove that returns nil means the Workspace's container is  *)
(* gone for good, although somebody may start it between Down's stop and   *)
(* its removal.                                                            *)
(***************************************************************************)
DownIsGone(p) == result[p] = "ok" /\ call[p] = "down" => ~Exists(ws[p].id)

DownMeansGone == \A p \in Caller : DownIsGone(p)

(* Once its context is done, every call returns, hanging commands or not.  *)
CancelledCallsReturn ==
    \A p \in Caller : ~Works(p) ~> pc[p] = "idle"

----------------------------------------------------------------------------
(***************************************************************************)
(* The inductive invariant behind MarkerIsTrue, PhasesInOrder, UpMeansDone *)
(* and DownMeansGone.  It needs every Workspace to see all hooks: no image *)
(* label that may be missed, and no Attach that leaves hooks out.          *)
(***************************************************************************)
Sees(view) ==
    \A ph \in Phase : \A h \in 1..Len(Hooks[ph]) : Hooks[ph][h].layer \in view

SeesAll(view) == Sees(view) /\ ("image" \in Faults => Sees(view \ {"image"}))

WholeViews == \A view \in AttachViews \cup {Layer} : SeesAll(view)

(* A container that is gone leaves nothing; its successes are of its own   *)
(* starts.                                                                 *)
BoxPart ==
    /\ box.id <= created /\ box.started <= starts
    /\ box.state = "none" <=> box.id = 0
    /\ box.state = "none" => box = NoBox /\ marker = NoMarkers
    /\ box.state = "running" => box.started > 0
    /\ \A c \in Command : done[c] <= box.started

Before == {"find", "stop", "remove", "create", "start", "restart", "inspect"}

InPhase == {"marker", "hook", "exec", "write"}

(* A Workspace names a container that has been created, and its StartedAt  *)
(* is not later than that container's.                                     *)
HandleOK(p) ==
    /\ ws[p].id <= created
    /\ Exists(ws[p].id) => ws[p].started <= box.started
    /\ pc[p] \in Before => ws[p].started = 0
    /\ pc[p] # "idle" \/ ws[p].id # 0 => SeesAll(ws[p].view)

(* Where a call is, and what it has left to do.                            *)
PlaceOK(p) ==
    /\ pc[p] # "idle" =>
         (pc[p] \in {"downstop", "downremove"} <=>
            call[p] \in {"down", "shutdown"})
    /\ pc[p] # "idle" => result[p] = "none"
    /\ pc[p] # "exec" => busy[p] = {}
    /\ pc[p] \notin {"idle", "exec"} => bad[p] = {}
    /\ pc[p] \in {"marker", "write"} => cur[p] \in Markered
    /\ pc[p] = "marker" => left[p] = 1..Len(Hooks[cur[p]])
    /\ pc[p] = "write" => left[p] = {}
    /\ pc[p] \in InPhase => \A ph \in todo[p] : ph > cur[p]
    /\ call[p] = "up" /\ opt[p].skip =>
         pc[p] \notin InPhase /\ (pc[p] = "phase" => todo[p] = {})

(* The hooks already run in the present phase have succeeded.              *)
HooksOK(p) ==
    /\ pc[p] \in {"hook", "exec", "write"} /\ cur[p] # Initialize
    /\ Exists(ws[p].id) /\ bad[p] = {}
    => \A h \in (1..Len(Hooks[cur[p]])) \ left[p] :
         \A c \in Hooks[cur[p]][h].cmds \ busy[p] : Ran(c, cur[p], ws[p])

(* The phases an Up has behind it are done.                                *)
PhasesOK(p) ==
    /\ call[p] = "up" /\ ~opt[p].skip /\ Exists(ws[p].id)
    /\ pc[p] \in InPhase \cup {"phase"}
    => \A ph \in (OnCreate..PostAttach) \ todo[p] :
         (pc[p] \in InPhase /\ ph = cur[p]) \/ DoneFor(ph, ws[p])

CallerOK(p) ==
    /\ HandleOK(p) /\ PlaceOK(p) /\ HooksOK(p) /\ PhasesOK(p)
    /\ UpIsDone(p) /\ DownIsGone(p)

LifeInv ==
    /\ LifeTypeOK /\ BoxPart /\ MarkerIsTrue
    /\ \A p \in Caller : CallerOK(p)

=============================================================================
