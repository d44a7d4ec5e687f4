--------------------------- MODULE LifecycleProofs ---------------------------
(***************************************************************************)
(* The lifecycle is run correctly for every set of callers, every hook     *)
(* configuration that all Workspaces see whole, and every combination of   *)
(* failing calls, deaths, restarts and removals.                           *)
(***************************************************************************)
EXTENDS Lifecycle, TLAPS

LEMMA SeqElement ==
    ASSUME NEW R, NEW q \in Seq(R), NEW k \in 1..Len(q)
    PROVE  q[k] \in R
  OBVIOUS

LEMMA HandleTypes ==
    ASSUME NEW n \in Nat, NEW m \in Nat, NEW view \in SUBSET Layer
    PROVE  Handle(n, m, view) \in HandleType
  BY DEF Handle, HandleType

(* Type correctness of the steps that begin and end a call.                *)
LEMMA EndTypes ==
    ASSUME LifeTypeOK, NEW p \in Caller
    PROVE  /\ \A r \in {"none", "ok", "lifecycle", "error"} : Return(p, r) =>
                /\ pc' \in [Caller -> Place]
                /\ result' \in [Caller -> {"none", "ok", "lifecycle", "error"}]
                /\ todo' \in [Caller -> SUBSET Phase]
                /\ cur' \in [Caller -> Phase]
                /\ left' \in [Caller -> SUBSET Nat]
                /\ \A q \in Caller : left'[q] \subseteq 1..Len(Hooks[cur'[q]])
                /\ busy' \in [Caller -> SUBSET Command]
           /\ ReturnError(p) =>
                /\ Return(p, "error")
                /\ ws' \in [Caller -> HandleType]
           /\ \A step \in Place : Goto(p, step) =>
                /\ pc' \in [Caller -> Place]
                /\ UNCHANGED <<result, todo, cur, left, busy>>
  <1>1. NoHandle \in HandleType
    BY DEF NoHandle, Handle, HandleType
  <1>2. Initialize \in Phase
    BY DEF Initialize, Phase
  <1>3. "idle" \in Place
    BY DEF Place
  <1>4. ASSUME NEW r \in {"none", "ok", "lifecycle", "error"}, Return(p, r)
        PROVE  /\ pc' \in [Caller -> Place]
               /\ result' \in [Caller -> {"none", "ok", "lifecycle", "error"}]
               /\ todo' \in [Caller -> SUBSET Phase]
               /\ cur' \in [Caller -> Phase]
               /\ left' \in [Caller -> SUBSET Nat]
               /\ \A q \in Caller : left'[q] \subseteq 1..Len(Hooks[cur'[q]])
               /\ busy' \in [Caller -> SUBSET Command]
    BY <1>2, <1>3, <1>4 DEF LifeTypeOK, Return
  <1>5. ASSUME ReturnError(p)
        PROVE  Return(p, "error") /\ ws' \in [Caller -> HandleType]
    BY <1>1, <1>5 DEF LifeTypeOK, ReturnError
  <1>6. ASSUME NEW step \in Place, Goto(p, step)
        PROVE  /\ pc' \in [Caller -> Place]
               /\ UNCHANGED <<result, todo, cur, left, busy>>
    BY <1>6 DEF LifeTypeOK, Goto, runVars
  <1>7. QED
    BY <1>4, <1>5, <1>6

(* Type correctness of the runtime's effects.                              *)
LEMMA BoxTypes ==
    ASSUME LifeTypeOK
    PROVE  /\ Start => box' \in BoxType /\ starts' \in Nat
           /\ FailedStart => box' \in BoxType /\ starts' \in Nat
           /\ Discard => /\ box' \in BoxType
                         /\ marker' \in [Markered -> SUBSET Nat]
                         /\ done' \in [Command -> Nat]
           /\ \A id \in Nat : Stop(id) => box' \in BoxType
  <1>0. box \in BoxType /\ starts \in Nat
    BY DEF LifeTypeOK
  <1> USE DEF BoxType, Box
  <1>1. Start => box' \in BoxType /\ starts' \in Nat
    BY <1>0 DEF Start
  <1>2. FailedStart => box' \in BoxType /\ starts' \in Nat
    BY <1>0, <1>1 DEF FailedStart
  <1>3. Discard => /\ box' \in BoxType
                   /\ marker' \in [Markered -> SUBSET Nat]
                   /\ done' \in [Command -> Nat]
    BY DEF Discard, NoBox, NoMarkers, NothingDone
  <1>4. \A id \in Nat : Stop(id) => box' \in BoxType
    BY <1>0 DEF Stop
  <1>5. QED
    BY <1>1, <1>2, <1>3, <1>4

LEMMA CallsType ==
    ASSUME LifeTypeOK, NEW p \in Caller, Calls(p)
    PROVE  LifeTypeOK'
  <1> USE DEF LifeTypeOK, boxVars, runVars, Begin, Handle, HandleType, Place
  <1>1. CASE \E o \in UpOptions : Up(p, o)
    <2>1. Handle(0, 0, Layer) \in HandleType
      OBVIOUS
    <2>2. QED
      BY <1>1, <2>1, OptionsAssumption DEF Up
  <1>2. CASE \E v \in AttachViews : Attach(p, v)
    BY <1>2, OptionsAssumption DEF Attach
  <1>3. CASE \E S \in RunSets : RunLifecycle(p, S)
    <2>1. \A S \in RunSets : Configured(ws[p].view, S) \in SUBSET Phase
      BY OptionsAssumption DEF Configured
    <2>2. QED
      BY <1>3, <2>1 DEF RunLifecycle
  <1>4. CASE \E r \in DownOptions : Down(p, r)
    BY <1>4, OptionsAssumption DEF Down
  <1>5. QED
    BY <1>1, <1>2, <1>3, <1>4 DEF Calls

LEMMA CodeType ==
    ASSUME LifeTypeOK, NEW p \in Caller, Code(p) \/ Commands(p)
    PROVE  LifeTypeOK'
  <1> USE DEF boxVars, callVars
  <1>e. /\ ReturnError(p) => Return(p, "error") /\ ws' \in [Caller -> HandleType]
        /\ \A n, m \in Nat : \A view \in SUBSET Layer :
             Handle(n, m, view) \in HandleType
    BY EndTypes DEF Handle, HandleType
  <1>t. /\ ws[p] \in HandleType /\ ws[p].id \in Nat /\ box.id \in Nat
        /\ box.started \in Nat /\ ws[p].view \in SUBSET Layer
        /\ ws[p].started \in Nat
    BY DEF LifeTypeOK, HandleType, BoxType
  <1>1. CASE FindContainerByLabel(p)
    <2>1. AfterFind(p) \in Place /\ "create" \in Place
      BY DEF AfterFind, Place
    <2>2. Handle(box.id, 0, ws[p].view) \in HandleType
      BY <1>t, <1>e
    <2>3. QED
      <3>1. CASE ReturnError(p)
        BY <1>1, <3>1, EndTypes DEF FindContainerByLabel, LifeTypeOK
      <3>2. CASE Goto(p, "create") /\ UNCHANGED ws
        BY <1>1, <3>2, <2>1, EndTypes DEF FindContainerByLabel, LifeTypeOK
      <3>3. CASE /\ ws' = [ws EXCEPT ![p] = Handle(box.id, 0, ws[p].view)]
                 /\ Goto(p, AfterFind(p))
        BY <1>1, <3>3, <2>1, <2>2, EndTypes DEF FindContainerByLabel, LifeTypeOK
      <3>4. QED
        BY <1>1, <3>1, <3>2, <3>3 DEF FindContainerByLabel
  <1>2. CASE RecreateStop(p)
    BY <1>2, <1>t, EndTypes, BoxTypes DEF RecreateStop, LifeTypeOK, Place
  <1>3. CASE RecreateRemove(p)
    BY <1>3, <1>t, EndTypes, BoxTypes DEF RecreateRemove, LifeTypeOK, Place
  <1>4. CASE RunContainer(p)
    <2>2. Handle(created + 1, 0, ws[p].view) \in HandleType
      <3>1. created + 1 \in Nat
        BY DEF LifeTypeOK
      <3>2. QED
        BY <1>t, <3>1, HandleTypes
    <2>3. Box(created + 1, "created", 0) \in BoxType
      BY DEF Box, BoxType, LifeTypeOK
    <2>4. QED
      <3>1. CASE ReturnError(p) /\ UNCHANGED <<box, created>>
        BY <1>4, <3>1, EndTypes DEF RunContainer, LifeTypeOK
      <3>2. CASE /\ created' = created + 1
                 /\ box' = Box(created + 1, "created", 0)
                 /\ ws' = [ws EXCEPT ![p] = Handle(created + 1, 0, ws[p].view)]
                 /\ Goto(p, "start")
        <4>1. "start" \in Place
          BY DEF Place
        <4>2. QED
          BY <1>4, <3>2, <4>1, <2>2, <2>3, EndTypes DEF RunContainer, LifeTypeOK
      <3>3. QED
        BY <1>4, <3>1, <3>2 DEF RunContainer
  <1>5. CASE StartNew(p)
    BY <1>5, <1>t, EndTypes, BoxTypes DEF StartNew, LifeTypeOK, Place
  <1>6. CASE StartExisting(p)
    BY <1>6, <1>t, EndTypes, BoxTypes DEF StartExisting, LifeTypeOK, Place
  <1>7. CASE buildWorkspace(p)
    <2>1. CASE ReturnError(p)
      BY <1>7, <2>1, EndTypes DEF buildWorkspace, LifeTypeOK
    <2>2. CASE ~ReturnError(p)
      <3>1. PICK view \in SUBSET Layer :
              /\ ws' = [ws EXCEPT ![p] = Handle(box.id, box.started, view)]
              /\ todo' = [todo EXCEPT ![p] =
                           IF call[p] = "attach" THEN {}
                           ELSE Configured(view, UpPhases(opt[p]))]
              /\ pc' = [pc EXCEPT ![p] = "phase"]
              /\ UNCHANGED <<result, cur, left, busy>>
        BY <1>7, <2>2, <1>t DEF buildWorkspace
      <3>2. Handle(box.id, box.started, view) \in HandleType
        BY <1>t, <1>e
      <3>3. Configured(view, UpPhases(opt[p])) \in SUBSET Phase
        BY DEF Configured, UpPhases
      <3>4. QED
        BY <1>7, <3>1, <3>2, <3>3 DEF buildWorkspace, LifeTypeOK, Place
    <2>3. QED
      BY <2>1, <2>2
  <1>8. CASE NextPhase(p)
    BY <1>8 DEF NextPhase, LifeTypeOK, Place, lifecycleCommandsFor
  <1>9. CASE PhasesDone(p)
    BY <1>9, EndTypes DEF PhasesDone, LifeTypeOK
  <1>10. CASE readMarker(p)
    BY <1>10, EndTypes DEF readMarker, LifeTypeOK, Place
  <1>11. CASE StartHook(p)
    <2>1. PICK h \in left[p] :
            /\ left' = [left EXCEPT ![p] = @ \ {h}]
            /\ busy' = [busy EXCEPT ![p] = Hooks[cur[p]][h].cmds]
      BY <1>11 DEF StartHook
    <2>2. Hooks[cur[p]] \in Seq([layer : Layer, cmds : SUBSET Command])
      BY HooksAssumption DEF LifeTypeOK
    <2>3. h \in 1..Len(Hooks[cur[p]])
      BY DEF LifeTypeOK
    <2>4. Hooks[cur[p]][h].cmds \in SUBSET Command
      <3>1. Hooks[cur[p]][h] \in [layer : Layer, cmds : SUBSET Command]
        BY <2>2, <2>3, SeqElement
      <3>2. QED
        BY <3>1
    <2>5. QED
      BY <1>11, <2>1, <2>4 DEF StartHook, LifeTypeOK, Place
  <1>12. CASE HooksDone(p)
    BY <1>12, EndTypes DEF HooksDone, LifeTypeOK, Place
  <1>13. CASE JoinHook(p)
    BY <1>13, EndTypes DEF JoinHook, LifeTypeOK, Place
  <1>14. CASE writeMarker(p)
    <2>1. keyTimestampFor(cur[p], ws[p]) \in Nat
      BY <1>t DEF keyTimestampFor
    <2>2. QED
      <3>1. marker' \in [Markered -> SUBSET Nat]
        BY <1>14, <2>1 DEF writeMarker, LifeTypeOK
      <3>2. CASE ReturnError(p)
        BY <1>14, <3>1, <3>2, EndTypes DEF writeMarker, LifeTypeOK
      <3>3. CASE Goto(p, "phase") /\ UNCHANGED ws
        BY <1>14, <3>1, <3>3, EndTypes DEF writeMarker, LifeTypeOK, Place
      <3>4. QED
        BY <1>14, <3>2, <3>3 DEF writeMarker
  <1>15. CASE Commands(p)
    <2>1. PICK c \in Command : execCommand(p, c)
      BY <1>15 DEF Commands
    <2>2. \A how \in {"exit", "exec", "cancel"} : Failed(p, how) =>
            /\ bad' \in [Caller -> SUBSET {"exit", "exec", "cancel"}]
            /\ done' \in [Command -> Nat]
      BY DEF Failed, LifeTypeOK
    <2>3. Succeeded(p, c) =>
            /\ bad' \in [Caller -> SUBSET {"exit", "exec", "cancel"}]
            /\ done' \in [Command -> Nat]
      BY <1>t DEF Succeeded, LifeTypeOK
    <2>4. /\ bad' \in [Caller -> SUBSET {"exit", "exec", "cancel"}]
          /\ done' \in [Command -> Nat]
      BY <2>1, <2>2, <2>3 DEF execCommand
    <2>5. QED
      BY <2>1, <2>4 DEF execCommand, LifeTypeOK
  <1>16. CASE DownStop(p)
    BY <1>16, <1>t, EndTypes, BoxTypes DEF DownStop, AfterStop, LifeTypeOK, Place
  <1>17. CASE DownRemove(p)
    BY <1>17, EndTypes, BoxTypes DEF DownRemove, LifeTypeOK
  <1>18. QED
    BY <1>1, <1>2, <1>3, <1>4, <1>5, <1>6, <1>7, <1>8, <1>9, <1>10, <1>11,
       <1>12, <1>13, <1>14, <1>15, <1>16, <1>17 DEF Code

LEMMA OutsideType ==
    ASSUME LifeTypeOK, Outside
    PROVE  LifeTypeOK'
  <1> USE DEF boxVars, callVars, outside, runVars, LifeTypeOK
  <1>1. CASE ContainerExits
    BY <1>1 DEF ContainerExits, Box, BoxType
  <1>2. CASE RestartedElsewhere
    BY <1>2, BoxTypes DEF RestartedElsewhere
  <1>3. CASE RemovedElsewhere
    BY <1>3, BoxTypes DEF RemovedElsewhere
  <1>4. ASSUME NEW p \in Caller, Cancel(p)
        PROVE  LifeTypeOK'
    BY <1>4 DEF Cancel
  <1>5. ASSUME NEW p \in Caller, CallerDies(p)
        PROVE  LifeTypeOK'
    BY <1>5, EndTypes DEF CallerDies, NoHandle, Handle, HandleType
  <1>6. QED
    BY <1>1, <1>2, <1>3, <1>4, <1>5 DEF Outside

LEMMA TypeStep == LifeTypeOK /\ [LifeNext]_lifeVars => LifeTypeOK'
  <1> SUFFICES ASSUME LifeTypeOK, [LifeNext]_lifeVars
               PROVE  LifeTypeOK'
    OBVIOUS
  <1>1. CASE UNCHANGED lifeVars
    BY <1>1 DEF lifeVars, boxVars, callVars, runVars, LifeTypeOK
  <1>2. CASE LifeNext
    BY <1>2, CallsType, CodeType, OutsideType DEF LifeNext
  <1>3. QED
    BY <1>1, <1>2

LEMMA TypeInit == LifeInit => LifeTypeOK
  BY DEF LifeInit, LifeTypeOK, NoBox, Box, BoxType, NoMarkers, NothingDone,
         NoHandle, Handle, HandleType, Place, UpOptionsType, Initialize, Phase

(***************************************************************************)
(* Type correctness, for all callers, hooks and faults.                    *)
(***************************************************************************)
THEOREM LifecycleType == LifeSpec => []LifeTypeOK
  BY TypeInit, TypeStep, PTL DEF LifeSpec

----------------------------------------------------------------------------
(***************************************************************************)
(* How a step looks from a caller that does not take it: the container     *)
(* gets on, or is gone, or is a new one.                                   *)
(***************************************************************************)
Later ==
    /\ created' >= created
    /\ \/ /\ box'.id = box.id /\ box'.started >= box.started
          /\ \A c \in Command : done'[c] >= done[c]
       \/ box'.id = 0
       \/ box'.id > created

SameCaller(q) ==
    /\ pc'[q] = pc[q] /\ call'[q] = call[q] /\ opt'[q] = opt[q]
    /\ ws'[q] = ws[q] /\ todo'[q] = todo[q] /\ cur'[q] = cur[q]
    /\ left'[q] = left[q] /\ busy'[q] = busy[q] /\ bad'[q] = bad[q]
    /\ result'[q] = result[q]

LEMMA FieldTypes ==
    ASSUME LifeTypeOK, NEW p \in Caller
    PROVE  /\ box.id \in Nat /\ box.started \in Nat
           /\ ws[p].id \in Nat /\ ws[p].started \in Nat
           /\ ws[p].view \in SUBSET Layer
           /\ created \in Nat /\ starts \in Nat
           /\ \A c \in Command : done[c] \in Nat
           /\ cur[p] \in Phase /\ todo[p] \in SUBSET Phase
           /\ busy[p] \in SUBSET Command
           /\ left[p] \in SUBSET (1..Len(Hooks[cur[p]]))
  BY DEF LifeTypeOK, HandleType, BoxType

LEMMA HookTypes ==
    ASSUME NEW ph \in Phase
    PROVE  /\ Len(Hooks[ph]) \in Nat
           /\ \A h \in 1..Len(Hooks[ph]) : Hooks[ph][h].cmds \in SUBSET Command
  <1>1. Hooks[ph] \in Seq([layer : Layer, cmds : SUBSET Command])
    BY HooksAssumption
  <1>2. ASSUME NEW h \in 1..Len(Hooks[ph])
        PROVE  Hooks[ph][h].cmds \in SUBSET Command
    <2>1. Hooks[ph][h] \in [layer : Layer, cmds : SUBSET Command]
      BY <1>1, SeqElement
    <2>2. QED
      BY <2>1
  <1>3. QED
    BY <1>1, <1>2

(* What a caller's container has done stays done, as long as it exists.    *)
LEMMA DoneStays ==
    ASSUME LifeTypeOK, LifeTypeOK', Later, NEW p \in Caller,
           ws[p].id <= created, Exists(ws[p].id)'
    PROVE  /\ ws'[p].id = ws[p].id => Exists(ws[p].id)
           /\ ws'[p].id = ws[p].id => box'.started >= box.started
           /\ ws'[p] = ws[p] =>
                /\ \A c \in Command : \A ph \in Phase :
                     Ran(c, ph, ws[p]) => Ran(c, ph, ws[p])'
                /\ \A ph \in Phase : DoneFor(ph, ws[p]) => DoneFor(ph, ws[p])'
  <1>1. /\ box.id \in Nat /\ box.started \in Nat /\ created \in Nat
        /\ ws[p].id \in Nat /\ ws[p].started \in Nat
        /\ \A c \in Command : done[c] \in Nat
    BY FieldTypes
  <1>2. /\ box'.id \in Nat /\ box'.started \in Nat /\ created' \in Nat
        /\ \A c \in Command : done'[c] \in Nat
    BY DEF LifeTypeOK, BoxType
  <1>3. ASSUME ws'[p].id = ws[p].id
        PROVE  /\ Exists(ws[p].id)
               /\ box'.started >= box.started
               /\ \A c \in Command : done'[c] >= done[c]
    BY <1>1, <1>2, <1>3 DEF Exists, Later
  <1>4. ASSUME ws'[p] = ws[p], NEW c \in Command, NEW ph \in Phase,
               Ran(c, ph, ws[p])
        PROVE  Ran(c, ph, ws[p])'
    BY <1>1, <1>2, <1>3, <1>4 DEF Ran
  <1>5. ASSUME ws'[p] = ws[p], NEW ph \in Phase, DoneFor(ph, ws[p])
        PROVE  DoneFor(ph, ws[p])'
    <2>1. \A h \in 1..Len(Hooks[ph]) : \A c \in Hooks[ph][h].cmds :
            c \in Command /\ Ran(c, ph, ws[p])
      BY <1>5, HookTypes DEF DoneFor
    <2>2. \A h \in 1..Len(Hooks[ph]) : \A c \in Hooks[ph][h].cmds :
            Ran(c, ph, ws[p])'
      BY <2>1, <1>4, <1>5
    <2>3. QED
      BY <2>2 DEF DoneFor
  <1>6. QED
    BY <1>3, <1>4, <1>5

(* A caller that does not move keeps its part of the invariant.            *)
LEMMA Others ==
    ASSUME LifeTypeOK, LifeTypeOK', Later, NEW q \in Caller, SameCaller(q),
           CallerOK(q)
    PROVE  CallerOK(q)'
  <1>1. /\ HandleOK(q) /\ PlaceOK(q) /\ HooksOK(q) /\ PhasesOK(q)
        /\ UpIsDone(q) /\ DownIsGone(q)
    BY DEF CallerOK
  <1>2. ws'[q] = ws[q] /\ ws[q].id <= created
    BY <1>1 DEF SameCaller, HandleOK
  <1>3. ASSUME Exists(ws[q].id)'
        PROVE  /\ Exists(ws[q].id)
               /\ box'.started >= box.started
               /\ \A c \in Command : \A ph \in Phase :
                    Ran(c, ph, ws[q]) => Ran(c, ph, ws[q])'
               /\ \A ph \in Phase : DoneFor(ph, ws[q]) => DoneFor(ph, ws[q])'
    BY <1>2, <1>3, DoneStays
  <1>4. HandleOK(q)'
    <2>1. /\ box.started \in Nat /\ created \in Nat
          /\ ws[q].id \in Nat /\ ws[q].started \in Nat
      BY FieldTypes
    <2>2. box'.started \in Nat /\ created' \in Nat
      BY DEF LifeTypeOK, BoxType
    <2>3. created' >= created
      BY DEF Later
    <2>4. ws'[q].id <= created'
      BY <1>2, <2>1, <2>2, <2>3
    <2>5. Exists(ws[q].id)' => ws'[q].started <= box'.started
      BY <1>1, <1>2, <1>3, <2>1, <2>2 DEF HandleOK
    <2>6. QED
      BY <1>1, <1>2, <2>4, <2>5 DEF HandleOK, SameCaller
  <1>5. PlaceOK(q)'
    BY <1>1 DEF PlaceOK, SameCaller
  <1>6. HooksOK(q)'
    <2>1. SUFFICES ASSUME pc[q] \in {"hook", "exec", "write"},
                          cur[q] # Initialize, Exists(ws[q].id)', bad[q] = {},
                          NEW h \in (1..Len(Hooks[cur[q]])) \ left[q],
                          NEW c \in Hooks[cur[q]][h].cmds \ busy[q]
                   PROVE  Ran(c, cur[q], ws[q])'
      BY DEF HooksOK, SameCaller
    <2>2. cur[q] \in Phase /\ cur'[q] = cur[q]
      BY FieldTypes DEF SameCaller
    <2>3. c \in Command
      BY <2>2, HookTypes
    <2>4. Ran(c, cur[q], ws[q])
      BY <1>1, <1>3, <2>1 DEF HooksOK
    <2>5. QED
      BY <1>3, <2>1, <2>2, <2>3, <2>4 DEF Ran
  <1>7. PhasesOK(q)'
    <2>1. OnCreate..PostAttach \subseteq Phase
      BY DEF OnCreate, PostAttach, Phase
    <2>2. SUFFICES ASSUME call[q] = "up", ~opt[q].skip, Exists(ws[q].id)',
                          pc[q] \in InPhase \cup {"phase"},
                          NEW ph \in (OnCreate..PostAttach) \ todo[q],
                          ~(pc[q] \in InPhase /\ ph = cur[q])
                   PROVE  DoneFor(ph, ws[q])'
      BY DEF PhasesOK, SameCaller
    <2>3. DoneFor(ph, ws[q])
      BY <1>1, <1>3, <2>2 DEF PhasesOK
    <2>4. QED
      BY <1>3, <2>1, <2>2, <2>3
  <1>8. UpIsDone(q)'
    <2>1. OnCreate..PostAttach \subseteq Phase
      BY DEF OnCreate, PostAttach, Phase
    <2>2. SUFFICES ASSUME result[q] = "ok", call[q] = "up", ~opt[q].skip,
                          Exists(ws[q].id)',
                          NEW ph \in OnCreate..PostAttach
                   PROVE  DoneFor(ph, ws[q])'
      BY DEF UpIsDone, SameCaller
    <2>3. DoneFor(ph, ws[q])
      BY <1>1, <1>3, <2>2 DEF UpIsDone
    <2>4. QED
      BY <1>3, <2>1, <2>2, <2>3
  <1>9. DownIsGone(q)'
    BY <1>1, <1>3 DEF DownIsGone, SameCaller
  <1>10. QED
    BY <1>4, <1>5, <1>6, <1>7, <1>8, <1>9 DEF CallerOK

(* A call that returns an error, or whose caller dies, claims nothing.     *)
LEMMA Ended ==
    ASSUME LifeTypeOK, LifeTypeOK', Later, NEW p \in Caller, CallerOK(p),
           NEW r \in {"none", "lifecycle", "error"}, Return(p, r),
           ws'[p] = ws[p] \/ ws'[p] = NoHandle, UNCHANGED call
    PROVE  CallerOK(p)'
  <1>1. HandleOK(p) /\ PlaceOK(p)
    BY DEF CallerOK
  <1>2. /\ pc'[p] = "idle" /\ result'[p] = r /\ todo'[p] = {}
        /\ left'[p] = {} /\ busy'[p] = {}
    BY DEF Return, LifeTypeOK
  <1>3. HandleOK(p)'
    <2>1. /\ box.started \in Nat /\ created \in Nat
          /\ ws[p].id \in Nat /\ ws[p].started \in Nat
      BY FieldTypes
    <2>2. box'.started \in Nat /\ created' \in Nat /\ created' >= created
      BY DEF LifeTypeOK, BoxType, Later
    <2>3. CASE ws'[p] = NoHandle
      BY <1>2, <2>2, <2>3 DEF HandleOK, NoHandle, Handle, Exists, Before
    <2>4. CASE ws'[p] = ws[p]
      <3>1. Exists(ws[p].id)' => ws'[p].started <= box'.started
        BY <1>1, <2>1, <2>2, <2>4, DoneStays DEF HandleOK
      <3>2. ws'[p].id <= created'
        BY <1>1, <2>1, <2>2, <2>4 DEF HandleOK
      <3>3. ws'[p].id # 0 => SeesAll(ws'[p].view)
        BY <1>1, <2>4 DEF HandleOK
      <3>4. QED
        BY <1>2, <3>1, <3>2, <3>3 DEF HandleOK, Before
    <2>5. QED
      BY <2>3, <2>4
  <1>4. PlaceOK(p)'
    BY <1>2 DEF PlaceOK, InPhase
  <1>5. HooksOK(p)' /\ PhasesOK(p)'
    BY <1>2 DEF HooksOK, PhasesOK, InPhase
  <1>6. UpIsDone(p)' /\ DownIsGone(p)'
    BY <1>2 DEF UpIsDone, DownIsGone
  <1>7. QED
    BY <1>3, <1>4, <1>5, <1>6 DEF CallerOK

----------------------------------------------------------------------------
(* The container's part of the invariant, and what it leaves of the        *)
(* markers.                                                                *)

Shared == Later /\ BoxPart' /\ MarkerIsTrue'

LEMMA SharedSame ==
    ASSUME LifeTypeOK, BoxPart, MarkerIsTrue,
           UNCHANGED <<box, marker, done, created, starts>>
    PROVE  Shared
  <1>1. /\ box.id \in Nat /\ box.started \in Nat /\ created \in Nat
        /\ \A c \in Command : done[c] \in Nat
    BY DEF LifeTypeOK, BoxType
  <1>2. Later
    BY <1>1 DEF Later
  <1>3. BoxPart' /\ MarkerIsTrue'
    BY DEF BoxPart, MarkerIsTrue, PhaseDone, NoBox, Box, NoMarkers
  <1>4. QED
    BY <1>2, <1>3 DEF Shared

(* The container changes state, perhaps with a new start.                  *)
LEMMA SharedState ==
    ASSUME LifeTypeOK, BoxPart, MarkerIsTrue, starts' \in Nat,
           UNCHANGED <<marker, done, created>>, box.state # "none",
           NEW state \in {"running", "exited"}, NEW n \in Nat,
           box' = Box(box.id, state, n),
           \/ n = box.started /\ starts' = starts /\ (state = "running" => n > 0)
           \/ n = starts + 1 /\ starts' = starts + 1
    PROVE  Shared
  <1>1. /\ box.id \in Nat /\ box.started \in Nat /\ created \in Nat
        /\ starts \in Nat /\ \A c \in Command : done[c] \in Nat
    BY DEF LifeTypeOK, BoxType
  <1>2. /\ box'.id = box.id /\ box'.state = state /\ box'.started = n
        /\ n >= box.started
    BY <1>1 DEF Box, BoxPart
  <1>3. Later
    BY <1>1, <1>2 DEF Later
  <1>4. BoxPart'
    BY <1>1, <1>2 DEF BoxPart
  <1>5. MarkerIsTrue'
    BY <1>2 DEF MarkerIsTrue, PhaseDone
  <1>6. QED
    BY <1>3, <1>4, <1>5 DEF Shared

LEMMA SharedDiscard ==
    ASSUME LifeTypeOK, BoxPart, Discard, UNCHANGED <<created, starts>>
    PROVE  Shared
  <1>1. created \in Nat /\ starts \in Nat
    BY DEF LifeTypeOK
  <1>2. /\ box' = NoBox /\ box'.id = 0 /\ box'.state = "none"
        /\ box'.started = 0
    BY DEF Discard, NoBox, Box
  <1>3. marker' = NoMarkers /\ done' = NothingDone
    BY DEF Discard
  <1>4. Later
    BY <1>1, <1>2 DEF Later
  <1>5. BoxPart'
    BY <1>1, <1>2, <1>3 DEF BoxPart, NoBox, Box, NoMarkers, NothingDone
  <1>6. MarkerIsTrue'
    BY <1>3 DEF MarkerIsTrue, NoMarkers
  <1>7. QED
    BY <1>4, <1>5, <1>6 DEF Shared

LEMMA SharedStart ==
    ASSUME LifeTypeOK, BoxPart, MarkerIsTrue, Start \/ FailedStart,
           UNCHANGED <<marker, done, created>>, box.state # "none"
    PROVE  Shared
  <1>1. starts \in Nat /\ starts + 1 \in Nat
    BY DEF LifeTypeOK
  <1>2. CASE UNCHANGED <<box, starts>>
    BY <1>2, SharedSame
  <1>3. CASE starts' = starts + 1 /\ box' = Box(box.id, "running", starts + 1)
    BY <1>1, <1>3, SharedState
  <1>4. CASE starts' = starts + 1 /\ box' = Box(box.id, "exited", starts + 1)
    BY <1>1, <1>4, SharedState
  <1>5. QED
    BY <1>2, <1>3, <1>4 DEF Start, FailedStart

LEMMA SharedStop ==
    ASSUME LifeTypeOK, BoxPart, MarkerIsTrue, NEW n \in Nat,
           Stop(n) \/ UNCHANGED box,
           UNCHANGED <<marker, done, created, starts>>
    PROVE  Shared
  <1>1. box.started \in Nat /\ starts \in Nat
    BY DEF LifeTypeOK, BoxType
  <1>2. CASE UNCHANGED box
    BY <1>2, SharedSame
  <1>3. CASE /\ box.state = "running"
             /\ box' = Box(box.id, "exited", box.started)
    BY <1>1, <1>3, SharedState
  <1>4. QED
    BY <1>2, <1>3 DEF Stop

(* Writing the marker: the hooks of the phase have run by then.            *)
LEMMA PhaseRan ==
    ASSUME LifeTypeOK, NEW p \in Caller, CallerOK(p), Exists(ws[p].id),
           pc[p] \in {"hook", "write"}, left[p] = {}, cur[p] # Initialize
    PROVE  DoneFor(cur[p], ws[p])
  <1>1. PlaceOK(p) /\ HooksOK(p)
    BY DEF CallerOK
  <1>2. bad[p] = {} /\ busy[p] = {}
    BY <1>1 DEF PlaceOK
  <1>3. \A h \in (1..Len(Hooks[cur[p]])) \ left[p] :
          \A c \in Hooks[cur[p]][h].cmds \ busy[p] : Ran(c, cur[p], ws[p])
    BY <1>1, <1>2 DEF HooksOK
  <1>4. QED
    BY <1>2, <1>3 DEF DoneFor

LEMMA SharedWrite ==
    ASSUME LifeInv, NEW p \in Caller, writeMarker(p)
    PROVE  Shared
  <1>1. LifeTypeOK /\ BoxPart /\ MarkerIsTrue /\ CallerOK(p)
    BY DEF LifeInv
  <1>2. PlaceOK(p)
    BY <1>1 DEF CallerOK
  <1>3. UNCHANGED <<box, done, created, starts>>
    BY DEF writeMarker
  <1>4. cur[p] \in Markered /\ left[p] = {} /\ pc[p] = "write"
    BY <1>2 DEF writeMarker, PlaceOK
  <1>5. /\ box.id \in Nat /\ box.started \in Nat /\ created \in Nat
        /\ ws[p].id \in Nat /\ ws[p].started \in Nat
        /\ \A c \in Command : done[c] \in Nat
        /\ cur[p] \in Phase
    BY <1>1, FieldTypes
  <1>6. CASE UNCHANGED marker
    BY <1>1, <1>3, <1>6, SharedSame
  <1>7. ASSUME Running(ws[p].id),
               NEW M \in {{keyTimestampFor(cur[p], ws[p])}, {}},
               marker' = [marker EXCEPT ![cur[p]] = M]
        PROVE  Shared
    <2>1. Exists(ws[p].id) /\ box.id = ws[p].id /\ box.state # "none"
      BY <1>1, <1>7 DEF Running, Exists, BoxPart
    <2>2. Later
      BY <1>3, <1>5 DEF Later
    <2>3. BoxPart'
      BY <1>1, <1>3, <2>1 DEF BoxPart, NoBox, Box
    <2>4. cur[p] # Initialize
      BY <1>4 DEF Markered, OnCreate, PostStart, Initialize
    <2>5. DoneFor(cur[p], ws[p])
      BY <1>1, <1>4, <2>1, <2>4, PhaseRan
    <2>6. cur[p] = PostStart => PhaseDone(cur[p], ws[p].started)
      BY <2>5 DEF DoneFor, Ran, PhaseDone, StartKeyed
    <2>7. PhaseDone(cur[p], 1)
      <3>1. ASSUME NEW h \in 1..Len(Hooks[cur[p]]), NEW c \in Hooks[cur[p]][h].cmds
            PROVE  done[c] > 0 /\ done[c] >= 1
        <4>1. c \in Command
          BY <1>5, HookTypes
        <4>2. done[c] > 0
          BY <2>5 DEF DoneFor, Ran
        <4>3. QED
          BY <1>5, <4>1, <4>2
      <3>2. QED
        BY <3>1 DEF PhaseDone
    <2>8. MarkerIsTrue'
      <3>1. SUFFICES ASSUME NEW ph \in Markered, NEW k \in marker'[ph]
                     PROVE  IF ph = PostStart THEN PhaseDone(ph, k)
                            ELSE k = box.id /\ PhaseDone(ph, 1)
        BY <1>3 DEF MarkerIsTrue, PhaseDone
      <3>2. marker \in [Markered -> SUBSET Nat]
        BY <1>1 DEF LifeTypeOK
      <3>3. CASE ph = cur[p]
        <4>1. k = keyTimestampFor(cur[p], ws[p])
          BY <1>7, <3>2, <3>3
        <4>2. QED
          BY <2>1, <2>6, <2>7, <3>3, <4>1 DEF keyTimestampFor
      <3>4. CASE ph # cur[p]
        <4>1. k \in marker[ph]
          BY <1>7, <3>2, <3>4
        <4>2. QED
          BY <1>1, <4>1 DEF MarkerIsTrue
      <3>5. QED
        BY <3>3, <3>4
    <2>9. QED
      BY <2>2, <2>3, <2>8 DEF Shared
  <1>8. marker \in [Markered -> SUBSET Nat]
    BY <1>1 DEF LifeTypeOK
  <1>9. \/ UNCHANGED marker
        \/ /\ Running(ws[p].id)
           /\ \E M \in {{keyTimestampFor(cur[p], ws[p])}, {}} :
                marker' = [marker EXCEPT ![cur[p]] = M]
    <2>1. [marker EXCEPT ![cur[p]] = marker[cur[p]]] = marker
      BY <1>8
    <2>2. QED
      BY <2>1 DEF writeMarker
  <1>10. QED
    BY <1>6, <1>7, <1>9

LEMMA SharedCommand ==
    ASSUME LifeInv, NEW p \in Caller, NEW c \in Command, execCommand(p, c)
    PROVE  Shared
  <1>1. LifeTypeOK /\ BoxPart /\ MarkerIsTrue
    BY DEF LifeInv
  <1>2. UNCHANGED <<box, marker, created, starts>>
    BY DEF execCommand
  <1>3. CASE UNCHANGED done
    BY <1>1, <1>2, <1>3, SharedSame
  <1>4. CASE Running(ws[p].id) /\ done' = [done EXCEPT ![c] = box.started]
    <2>1. /\ box.id \in Nat /\ box.started \in Nat /\ created \in Nat
          /\ done \in [Command -> Nat]
      BY <1>1 DEF LifeTypeOK, BoxType
    <2>2. box.state = "running" /\ box.started > 0
      BY <1>1, <1>4 DEF Running, BoxPart
    <2>3. \A d \in Command : done[d] <= box.started
      BY <1>1 DEF BoxPart
    <2>4. \A d \in Command : /\ done'[d] \in Nat /\ done'[d] >= done[d]
                             /\ done'[d] <= box.started
      BY <1>4, <2>1, <2>3
    <2>5. Later
      BY <1>2, <2>1, <2>4 DEF Later
    <2>6. BoxPart'
      BY <1>1, <1>2, <2>2, <2>4 DEF BoxPart
    <2>7. ASSUME NEW ph \in Phase, NEW n \in Nat, PhaseDone(ph, n)
          PROVE  PhaseDone(ph, n)'
      <3>1. ASSUME NEW h \in 1..Len(Hooks[ph]), NEW d \in Hooks[ph][h].cmds
            PROVE  done'[d] > 0 /\ done'[d] >= n
        <4>1. d \in Command
          BY HookTypes
        <4>2. done[d] > 0 /\ done[d] >= n /\ done[d] \in Nat
          BY <2>1, <2>7, <4>1 DEF PhaseDone
        <4>3. QED
          BY <2>4, <4>1, <4>2
      <3>2. QED
        BY <3>1 DEF PhaseDone
    <2>8. MarkerIsTrue'
      <3>1. SUFFICES ASSUME NEW ph \in Markered, NEW k \in marker[ph]
                     PROVE  IF ph = PostStart THEN PhaseDone(ph, k)'
                            ELSE k = box.id /\ PhaseDone(ph, 1)'
        BY <1>2 DEF MarkerIsTrue
      <3>2. ph \in Phase /\ k \in Nat /\ 1 \in Nat
        BY <1>1 DEF LifeTypeOK, Markered, OnCreate, PostStart, Phase
      <3>3. IF ph = PostStart THEN PhaseDone(ph, k)
            ELSE k = box.id /\ PhaseDone(ph, 1)
        BY <1>1 DEF MarkerIsTrue
      <3>4. QED
        BY <2>7, <3>2, <3>3
    <2>9. QED
      BY <2>5, <2>6, <2>8 DEF Shared
  <1>5. QED
    BY <1>3, <1>4 DEF execCommand, Succeeded, Failed

LEMMA SharedStep ==
    ASSUME LifeInv, LifeNext
    PROVE  Shared
  <1>1. LifeTypeOK /\ BoxPart /\ MarkerIsTrue
    BY DEF LifeInv
  <1>e. /\ \A id \in Nat : Exists(id) => box.state # "none"
        /\ box.state = "running" => box.started > 0
        /\ box.started \in Nat
    BY <1>1 DEF Exists, BoxPart, LifeTypeOK, BoxType
  <1>2. ASSUME NEW p \in Caller, Calls(p)
        PROVE  Shared
    <2>1. UNCHANGED <<box, marker, done, created, starts>>
      BY <1>2 DEF Calls, Up, Attach, RunLifecycle, Down, boxVars
    <2>2. QED
      BY <1>1, <2>1, SharedSame
  <1>3. ASSUME NEW p \in Caller, Code(p)
        PROVE  Shared
    <2>t. ws[p].id \in Nat
      BY <1>1, FieldTypes
    <2>1. CASE RecreateStop(p)
      BY <1>1, <2>t, <2>1, SharedStop DEF RecreateStop
    <2>2. CASE RecreateRemove(p)
      <3>1. CASE Discard
        BY <1>1, <2>2, <3>1, SharedDiscard DEF RecreateRemove
      <3>2. CASE UNCHANGED <<box, marker, done>>
        BY <1>1, <2>2, <3>2, SharedSame DEF RecreateRemove
      <3>3. QED
        BY <2>2, <3>1, <3>2 DEF RecreateRemove
    <2>3. CASE RunContainer(p)
      <3>1. CASE UNCHANGED <<box, created>>
        BY <1>1, <2>3, <3>1, SharedSame DEF RunContainer
      <3>2. CASE /\ box.state = "none"
                 /\ created' = created + 1
                 /\ box' = Box(created + 1, "created", 0)
        <4>1. /\ created \in Nat /\ starts \in Nat
              /\ box.started \in Nat /\ done \in [Command -> Nat]
          BY <1>1 DEF LifeTypeOK, BoxType
        <4>2. UNCHANGED <<marker, done, starts>>
          BY <2>3 DEF RunContainer
        <4>3. box.started = 0 /\ marker = NoMarkers
          BY <1>1, <3>2 DEF BoxPart, NoBox, Box
        <4>4. /\ box'.id = created + 1 /\ box'.state = "created"
              /\ box'.started = 0
          BY <3>2 DEF Box
        <4>5. Later
          BY <3>2, <4>1, <4>4 DEF Later
        <4>6. BoxPart'
          BY <1>1, <3>2, <4>1, <4>2, <4>3, <4>4 DEF BoxPart
        <4>7. MarkerIsTrue'
          BY <4>2, <4>3 DEF MarkerIsTrue, NoMarkers
        <4>8. QED
          BY <4>5, <4>6, <4>7 DEF Shared
      <3>3. QED
        BY <2>3, <3>1, <3>2 DEF RunContainer
    <2>4. CASE StartNew(p)
      <3>1. CASE Discard /\ UNCHANGED starts
        BY <1>1, <2>4, <3>1, SharedDiscard DEF StartNew
      <3>2. CASE /\ Exists(ws[p].id) /\ (Start \/ FailedStart)
                 /\ UNCHANGED <<marker, done>>
        BY <1>1, <1>e, <2>t, <2>4, <3>2, SharedStart DEF StartNew
      <3>3. CASE UNCHANGED <<box, marker, done, starts>>
        BY <1>1, <2>4, <3>3, SharedSame DEF StartNew
      <3>4. QED
        BY <2>4, <3>1, <3>2, <3>3 DEF StartNew
    <2>5. CASE StartExisting(p)
      <3>1. CASE Exists(ws[p].id) /\ (Start \/ FailedStart)
        BY <1>1, <1>e, <2>t, <2>5, <3>1, SharedStart DEF StartExisting
      <3>2. CASE UNCHANGED <<box, starts>>
        BY <1>1, <2>5, <3>2, SharedSame DEF StartExisting
      <3>3. QED
        BY <2>5, <3>1, <3>2 DEF StartExisting
    <2>6. CASE writeMarker(p)
      BY <2>6, SharedWrite
    <2>7. CASE DownStop(p)
      BY <1>1, <2>t, <2>7, SharedStop DEF DownStop
    <2>8. CASE DownRemove(p)
      <3>1. CASE Discard
        BY <1>1, <2>8, <3>1, SharedDiscard DEF DownRemove
      <3>2. CASE UNCHANGED <<box, marker, done>>
        BY <1>1, <2>8, <3>2, SharedSame DEF DownRemove
      <3>3. QED
        BY <2>8, <3>1, <3>2 DEF DownRemove
    <2>9. CASE \/ FindContainerByLabel(p) \/ buildWorkspace(p) \/ NextPhase(p)
               \/ PhasesDone(p) \/ readMarker(p) \/ StartHook(p)
               \/ HooksDone(p) \/ JoinHook(p)
      <3>1. UNCHANGED <<box, marker, done, created, starts>>
        BY <2>9 DEF FindContainerByLabel, buildWorkspace, NextPhase, PhasesDone,
                    readMarker, StartHook, HooksDone, JoinHook, boxVars
      <3>2. QED
        BY <1>1, <3>1, SharedSame
    <2>10. QED
      BY <1>3, <2>1, <2>2, <2>3, <2>4, <2>5, <2>6, <2>7, <2>8, <2>9 DEF Code
  <1>4. ASSUME NEW p \in Caller, Commands(p)
        PROVE  Shared
    BY <1>4, SharedCommand DEF Commands
  <1>5. CASE Outside
    <2>1. CASE ContainerExits
      <3>1. /\ box.state = "running"
            /\ box' = Box(box.id, "exited", box.started)
            /\ UNCHANGED <<marker, done, created, starts>>
        BY <2>1 DEF ContainerExits, outside
      <3>2. starts \in Nat
        BY <1>1 DEF LifeTypeOK
      <3>3. QED
        BY <1>1, <1>e, <3>1, <3>2, SharedState
    <2>2. CASE RestartedElsewhere
      BY <1>1, <2>2, SharedStart DEF RestartedElsewhere, outside
    <2>3. CASE RemovedElsewhere
      BY <1>1, <2>3, SharedDiscard DEF RemovedElsewhere, outside
    <2>4. CASE \E p \in Caller : Cancel(p) \/ CallerDies(p)
      <3>1. UNCHANGED <<box, marker, done, created, starts>>
        BY <2>4 DEF Cancel, CallerDies, boxVars
      <3>2. QED
        BY <1>1, <3>1, SharedSame
    <2>5. QED
      BY <1>5, <2>1, <2>2, <2>3, <2>4 DEF Outside
  <1>6. QED
    BY <1>2, <1>3, <1>4, <1>5 DEF LifeNext

(* A caller's step leaves the other callers alone.                         *)
LEMMA Locals ==
    ASSUME LifeTypeOK, NEW p \in Caller, NEW q \in Caller, q # p,
           Calls(p) \/ Code(p) \/ Commands(p) \/ Cancel(p) \/ CallerDies(p)
    PROVE  SameCaller(q)
  <1> USE DEF SameCaller, callVars, runVars, LifeTypeOK
  <1>1. /\ \A r : Return(p, r) =>
             /\ pc'[q] = pc[q] /\ result'[q] = result[q]
             /\ todo'[q] = todo[q] /\ cur'[q] = cur[q]
             /\ left'[q] = left[q] /\ busy'[q] = busy[q]
        /\ \A step : Goto(p, step) =>
             /\ pc'[q] = pc[q] /\ result'[q] = result[q]
             /\ todo'[q] = todo[q] /\ cur'[q] = cur[q]
             /\ left'[q] = left[q] /\ busy'[q] = busy[q]
    BY DEF Return, Goto
  <1>2. ReturnError(p) => Return(p, "error") /\ ws'[q] = ws[q]
    BY DEF ReturnError
  <1>3. CASE Calls(p)
    BY <1>3 DEF Calls, Up, Attach, RunLifecycle, Down, Begin
  <1>4. CASE Commands(p)
    BY <1>4 DEF Commands, execCommand, Succeeded, Failed
  <1>5. CASE Cancel(p)
    BY <1>5 DEF Cancel
  <1>6. CASE CallerDies(p)
    BY <1>1, <1>6 DEF CallerDies
  <1>7. CASE \/ FindContainerByLabel(p) \/ RecreateStop(p)
             \/ RecreateRemove(p) \/ RunContainer(p)
    BY <1>1, <1>2, <1>7
       DEF FindContainerByLabel, RecreateStop, RecreateRemove, RunContainer
  <1>8. CASE StartNew(p) \/ StartExisting(p)
    BY <1>1, <1>2, <1>8 DEF StartNew, StartExisting
  <1>9. CASE buildWorkspace(p)
    BY <1>1, <1>2, <1>9 DEF buildWorkspace
  <1>10. CASE \/ NextPhase(p) \/ PhasesDone(p) \/ readMarker(p)
              \/ StartHook(p) \/ HooksDone(p) \/ JoinHook(p)
    BY <1>1, <1>2, <1>10
       DEF NextPhase, PhasesDone, readMarker, StartHook, HooksDone, JoinHook
  <1>11. CASE writeMarker(p)
    BY <1>1, <1>2, <1>11 DEF writeMarker
  <1>12. CASE DownStop(p) \/ DownRemove(p)
    BY <1>1, <1>12 DEF DownStop, AfterStop, DownRemove
  <1>13. QED
    BY <1>3, <1>4, <1>5, <1>6, <1>7, <1>8, <1>9, <1>10, <1>11, <1>12 DEF Code

----------------------------------------------------------------------------
(* The caller's own part of the invariant, one action after the other. *)

LEMMA CallsCaller ==
    ASSUME WholeViews, LifeInv, LifeTypeOK', Later, NEW p \in Caller, Calls(p)
    PROVE  CallerOK(p)'
  <1>1. LifeTypeOK /\ CallerOK(p)
    BY DEF LifeInv
  <1>2. HandleOK(p) /\ PlaceOK(p)
    BY <1>1 DEF CallerOK
  <1>3. pc[p] = "idle" /\ busy[p] = {} /\ created \in Nat
    BY <1>1, <1>2 DEF Calls, Up, Attach, RunLifecycle, Down, Idle, PlaceOK,
                      LifeTypeOK
  <1>4. /\ UNCHANGED <<box, created, busy>> /\ result'[p] = "none"
        /\ bad'[p] = {}
    BY <1>1 DEF Calls, Up, Attach, RunLifecycle, Down, Begin, boxVars, runVars,
                LifeTypeOK
  <1>5. UpIsDone(p)' /\ DownIsGone(p)'
    BY <1>4 DEF UpIsDone, DownIsGone
  <1>6. ASSUME NEW view, SeesAll(view), ws'[p] = Handle(0, 0, view),
               pc'[p] = "find", call'[p] \in {"up", "attach"}
        PROVE  CallerOK(p)'
    <2>1. ws'[p].id = 0 /\ ws'[p].started = 0 /\ ws'[p].view = view
      BY <1>6 DEF Handle
    <2>2. HandleOK(p)'
      BY <1>3, <1>4, <1>6, <2>1 DEF HandleOK, Exists
    <2>3. PlaceOK(p)'
      BY <1>3, <1>4, <1>6 DEF PlaceOK, InPhase
    <2>4. HooksOK(p)' /\ PhasesOK(p)'
      BY <1>6 DEF HooksOK, PhasesOK, InPhase
    <2>5. QED
      BY <1>5, <2>2, <2>3, <2>4 DEF CallerOK
  <1>7. ASSUME UNCHANGED ws, ws[p].id # 0,
               \/ pc'[p] = "phase" /\ call'[p] = "run"
               \/ pc'[p] = "downstop" /\ call'[p] \in {"down", "shutdown"}
        PROVE  CallerOK(p)'
    <2>1. HandleOK(p)'
      BY <1>2, <1>4, <1>7 DEF HandleOK, Exists, Before
    <2>2. PlaceOK(p)'
      BY <1>3, <1>4, <1>7 DEF PlaceOK, InPhase
    <2>3. HooksOK(p)' /\ PhasesOK(p)'
      BY <1>7 DEF HooksOK, PhasesOK, InPhase
    <2>4. QED
      BY <1>5, <2>1, <2>2, <2>3 DEF CallerOK
  <1>8. CASE \E o \in UpOptions : Up(p, o)
    <2>1. /\ ws'[p] = Handle(0, 0, Layer)
          /\ pc'[p] = "find" /\ call'[p] = "up"
      BY <1>1, <1>8 DEF Up, Begin, LifeTypeOK
    <2>2. SeesAll(Layer)
      BY DEF WholeViews
    <2>3. QED
      BY <1>6, <2>1, <2>2
  <1>9. CASE \E v \in AttachViews : Attach(p, v)
    <2>1. PICK v \in AttachViews :
            /\ ws'[p] = Handle(0, 0, v)
            /\ pc'[p] = "find" /\ call'[p] = "attach"
      BY <1>1, <1>9 DEF Attach, Begin, LifeTypeOK
    <2>2. SeesAll(v)
      BY DEF WholeViews
    <2>3. QED
      BY <1>6, <2>1, <2>2
  <1>10. CASE \E S \in RunSets : RunLifecycle(p, S)
    BY <1>1, <1>7, <1>10 DEF RunLifecycle, Begin, LifeTypeOK
  <1>11. CASE \E r \in DownOptions : Down(p, r)
    BY <1>1, <1>7, <1>11 DEF Down, Begin, LifeTypeOK
  <1>12. QED
    BY <1>8, <1>9, <1>10, <1>11 DEF Calls

(* A step of Up or Attach before there is a Workspace.                     *)
LEMMA Moved ==
    ASSUME LifeTypeOK, LifeTypeOK', NEW p \in Caller, CallerOK(p),
           UNCHANGED <<call, opt, bad>>, result'[p] = result[p],
           todo'[p] = todo[p], cur'[p] = cur[p], left'[p] = left[p],
           busy'[p] = busy[p],
           pc[p] \in Before, pc'[p] \in Before,
           ws'[p].id <= created', ws'[p].started = 0,
           ws'[p].view = ws[p].view
    PROVE  CallerOK(p)'
  <1>1. HandleOK(p) /\ PlaceOK(p)
    BY DEF CallerOK
  <1>2. HandleOK(p)'
    <2>1. box'.started \in Nat
      BY DEF LifeTypeOK, BoxType
    <2>2. SeesAll(ws[p].view)
      BY <1>1 DEF HandleOK, Before
    <2>3. QED
      BY <2>1, <2>2 DEF HandleOK
  <1>3. PlaceOK(p)'
    BY <1>1 DEF PlaceOK, Before, InPhase
  <1>4. HooksOK(p)' /\ PhasesOK(p)'
    BY DEF HooksOK, PhasesOK, Before, InPhase
  <1>5. UpIsDone(p)' /\ DownIsGone(p)'
    BY <1>1 DEF UpIsDone, DownIsGone, PlaceOK, Before
  <1>6. QED
    BY <1>2, <1>3, <1>4, <1>5 DEF CallerOK

LEMMA Error ==
    ASSUME LifeTypeOK, LifeTypeOK', Later, NEW p \in Caller, CallerOK(p),
           ReturnError(p), UNCHANGED call
    PROVE  CallerOK(p)'
  <1>1. ws'[p] = ws[p] \/ ws'[p] = NoHandle
    BY DEF ReturnError, LifeTypeOK
  <1>2. Return(p, "error")
    BY DEF ReturnError
  <1>3. QED
    BY <1>1, <1>2, Ended

(* The steps of Up and Attach that have no Workspace yet.                  *)
LEMMA EarlyCaller ==
    ASSUME LifeInv, LifeTypeOK', Later, NEW p \in Caller,
           \/ FindContainerByLabel(p) \/ RecreateStop(p) \/ RecreateRemove(p)
           \/ RunContainer(p) \/ StartNew(p) \/ StartExisting(p)
    PROVE  CallerOK(p)'
  <1>1. LifeTypeOK /\ BoxPart /\ CallerOK(p)
    BY DEF LifeInv
  <1>2. HandleOK(p)
    BY <1>1 DEF CallerOK
  <1>3. /\ ws[p].id \in Nat /\ created \in Nat /\ created' \in Nat
        /\ box.id \in Nat /\ box.id <= created /\ created <= created'
        /\ ws[p].id <= created
    BY <1>1, <1>2, FieldTypes DEF BoxPart, HandleOK, Later, LifeTypeOK
  <1>4. UNCHANGED <<call, opt, bad>> /\ pc[p] \in Before
    BY DEF FindContainerByLabel, RecreateStop, RecreateRemove, RunContainer,
           StartNew, StartExisting, callVars, Before
  <1>5. ws[p].started = 0
    BY <1>2, <1>4 DEF HandleOK
  <1>6. CASE ReturnError(p)
    BY <1>1, <1>4, <1>6, Error
  <1>7. ASSUME NEW step \in Before, Goto(p, step),
               \/ UNCHANGED ws
               \/ ws' = [ws EXCEPT ![p] = Handle(box.id, 0, ws[p].view)]
               \/ /\ created' = created + 1
                  /\ ws' = [ws EXCEPT ![p] = Handle(created + 1, 0, ws[p].view)]
        PROVE  CallerOK(p)'
    <2>1. /\ pc'[p] = step /\ result'[p] = result[p]
          /\ todo'[p] = todo[p] /\ cur'[p] = cur[p] /\ left'[p] = left[p]
          /\ busy'[p] = busy[p]
      BY <1>1, <1>7 DEF Goto, runVars, LifeTypeOK
    <2>2. /\ ws'[p].id <= created' /\ ws'[p].started = 0
          /\ ws'[p].view = ws[p].view
      <3>1. CASE UNCHANGED ws
        BY <1>3, <1>5, <3>1
      <3>2. CASE ws' = [ws EXCEPT ![p] = Handle(box.id, 0, ws[p].view)]
        <4>1. ws'[p] = Handle(box.id, 0, ws[p].view)
          BY <1>1, <3>2 DEF LifeTypeOK
        <4>2. QED
          BY <1>3, <4>1 DEF Handle
      <3>3. CASE /\ created' = created + 1
                 /\ ws' = [ws EXCEPT ![p] = Handle(created + 1, 0, ws[p].view)]
        <4>1. ws'[p] = Handle(created + 1, 0, ws[p].view)
          BY <1>1, <3>3 DEF LifeTypeOK
        <4>2. QED
          BY <1>3, <3>3, <4>1 DEF Handle
      <3>4. QED
        BY <1>7, <3>1, <3>2, <3>3
    <2>3. QED
      BY <1>1, <1>4, <1>7, <2>1, <2>2, Moved
  <1>8. /\ AfterFind(p) \in Before /\ "remove" \in Before /\ "create" \in Before
        /\ "start" \in Before /\ "inspect" \in Before
    BY DEF AfterFind, Before
  <1>9. CASE FindContainerByLabel(p)
    BY <1>6, <1>7, <1>8, <1>9 DEF FindContainerByLabel
  <1>10. CASE RecreateStop(p)
    BY <1>6, <1>7, <1>8, <1>10 DEF RecreateStop
  <1>11. CASE RecreateRemove(p)
    BY <1>6, <1>7, <1>8, <1>11 DEF RecreateRemove
  <1>12. CASE RunContainer(p)
    BY <1>6, <1>7, <1>8, <1>12 DEF RunContainer
  <1>13. CASE StartNew(p)
    BY <1>6, <1>7, <1>8, <1>13 DEF StartNew
  <1>14. CASE StartExisting(p)
    BY <1>6, <1>7, <1>8, <1>14 DEF StartExisting
  <1>15. QED
    BY <1>9, <1>10, <1>11, <1>12, <1>13, <1>14

(* A Workspace that sees everything leaves out phases without hooks only.  *)
LEMMA SeenHooks ==
    ASSUME NEW view, SeesAll(view), NEW ph \in Phase
    PROVE  lifecycleCommandsFor(view, ph) = 1..Len(Hooks[ph])
  <1>1. \A h \in 1..Len(Hooks[ph]) : Hooks[ph][h].layer \in view
    BY DEF SeesAll, Sees
  <1>2. QED
    BY <1>1 DEF lifecycleCommandsFor

LEMMA BuildCaller ==
    ASSUME LifeInv, LifeTypeOK', Later, NEW p \in Caller, buildWorkspace(p)
    PROVE  CallerOK(p)'
  <1>1. LifeTypeOK /\ BoxPart /\ CallerOK(p)
    BY DEF LifeInv
  <1>2. HandleOK(p) /\ PlaceOK(p)
    BY <1>1 DEF CallerOK
  <1>3. /\ UNCHANGED <<box, created, call, opt, bad>> /\ pc[p] = "inspect"
    BY DEF buildWorkspace, boxVars, callVars
  <1>4. CASE ReturnError(p)
    BY <1>1, <1>3, <1>4, Error
  <1>5. ASSUME NEW view \in {ws[p].view} \cup
                            {v \in {ws[p].view \ {"image"}} : Fails(p, "image")},
               Works(p), Exists(ws[p].id),
               ws' = [ws EXCEPT ![p] = Handle(box.id, box.started, view)],
               todo' = [todo EXCEPT ![p] =
                          IF call[p] = "attach" THEN {}
                          ELSE Configured(view, UpPhases(opt[p]))],
               pc' = [pc EXCEPT ![p] = "phase"],
               UNCHANGED <<result, cur, left, busy>>
        PROVE  CallerOK(p)'
    <2>1. /\ pc'[p] = "phase" /\ result'[p] = "none" /\ busy'[p] = {}
          /\ bad'[p] = {}
      BY <1>1, <1>2, <1>3, <1>5 DEF PlaceOK, LifeTypeOK
    <2>2. ws'[p] = Handle(box.id, box.started, view)
      BY <1>1, <1>5 DEF LifeTypeOK
    <2>3. /\ ws'[p].id = box.id /\ ws'[p].started = box.started
          /\ ws'[p].view = view
      BY <2>2 DEF Handle
    <2>4. SeesAll(view)
      <3>1. SeesAll(ws[p].view)
        BY <1>2, <1>3 DEF HandleOK
      <3>2. CASE view = ws[p].view
        BY <3>1, <3>2
      <3>3. CASE view = ws[p].view \ {"image"} /\ Fails(p, "image")
        <4>1. Sees(view)
          BY <1>5, <3>1, <3>3 DEF SeesAll, Fails
        <4>2. view \ {"image"} = view
          BY <3>3
        <4>3. QED
          BY <4>1, <4>2 DEF SeesAll
      <3>4. QED
        BY <1>5, <3>2, <3>3
    <2>5. HandleOK(p)'
      <3>1. box.started \in Nat /\ box.id <= created
        BY <1>1 DEF LifeTypeOK, BoxType, BoxPart
      <3>2. QED
        BY <1>3, <2>1, <2>3, <2>4, <3>1 DEF HandleOK, Before
    <2>6. /\ call[p] \notin {"down", "shutdown"}
          /\ todo'[p] = IF call[p] = "attach" THEN {}
                        ELSE Configured(view, UpPhases(opt[p]))
      BY <1>1, <1>2, <1>3, <1>5 DEF PlaceOK, LifeTypeOK
    <2>7. PlaceOK(p)'
      BY <1>3, <2>1, <2>6 DEF PlaceOK, InPhase, Configured, UpPhases
    <2>8. HooksOK(p)'
      BY <2>1 DEF HooksOK
    <2>9. PhasesOK(p)'
      <3>1. SUFFICES ASSUME call[p] = "up", ~opt[p].skip,
                            NEW ph \in (OnCreate..PostAttach) \ todo'[p]
                     PROVE  DoneFor(ph, ws[p])'
        BY <1>3, <2>1 DEF PhasesOK, InPhase
      <3>2. ph \in Phase /\ ph # Initialize
        BY DEF OnCreate, PostAttach, Phase, Initialize
      <3>3. ph \in UpPhases(opt[p])
        BY <3>1, <3>2 DEF UpPhases
      <3>4. lifecycleCommandsFor(view, ph) = {}
        BY <2>6, <3>1, <3>3 DEF Configured
      <3>5. 1..Len(Hooks[ph]) = {}
        BY <2>4, <3>2, <3>4, SeenHooks
      <3>6. QED
        BY <3>5 DEF DoneFor
    <2>10. UpIsDone(p)' /\ DownIsGone(p)'
      BY <2>1 DEF UpIsDone, DownIsGone
    <2>11. QED
      BY <2>5, <2>7, <2>8, <2>9, <2>10 DEF CallerOK
  <1>6. QED
    BY <1>4, <1>5 DEF buildWorkspace

Within == {"phase", "marker", "hook", "exec", "write"}

(* What every step inside runAllLifecycle keeps.                           *)
LEMMA Kept ==
    ASSUME LifeTypeOK, LifeTypeOK', Later, NEW p \in Caller, CallerOK(p),
           UNCHANGED <<call, opt, ws>>, result'[p] = result[p],
           pc[p] \in Within, pc'[p] \in Within
    PROVE  /\ HandleOK(p)' /\ UpIsDone(p)' /\ DownIsGone(p)'
           /\ result'[p] = "none" /\ call'[p] \notin {"down", "shutdown"}
           /\ SeesAll(ws[p].view)
           /\ Exists(ws[p].id)' =>
                /\ Exists(ws[p].id)
                /\ \A c \in Command : \A ph \in Phase :
                     Ran(c, ph, ws[p]) => Ran(c, ph, ws[p])'
                /\ \A ph \in Phase : DoneFor(ph, ws[p]) => DoneFor(ph, ws[p])'
  <1>1. HandleOK(p) /\ PlaceOK(p)
    BY DEF CallerOK
  <1>2. result'[p] = "none" /\ call[p] \notin {"down", "shutdown"}
    BY <1>1 DEF PlaceOK, Within
  <1>3. SeesAll(ws[p].view) /\ ws[p].id <= created
    BY <1>1 DEF HandleOK, Within
  <1>4. /\ box.started \in Nat /\ created \in Nat
        /\ ws[p].id \in Nat /\ ws[p].started \in Nat
        /\ box'.started \in Nat /\ created' \in Nat /\ created' >= created
    BY FieldTypes DEF LifeTypeOK, BoxType, Later
  <1>5. Exists(ws[p].id)' =>
          /\ Exists(ws[p].id) /\ box'.started >= box.started
          /\ \A c \in Command : \A ph \in Phase :
               Ran(c, ph, ws[p]) => Ran(c, ph, ws[p])'
          /\ \A ph \in Phase : DoneFor(ph, ws[p]) => DoneFor(ph, ws[p])'
    BY <1>3, DoneStays
  <1>6. ws[p].id <= created'
    BY <1>3, <1>4
  <1>7. Exists(ws[p].id)' => ws[p].started <= box'.started
    BY <1>1, <1>4, <1>5 DEF HandleOK
  <1>8. HandleOK(p)'
    BY <1>3, <1>6, <1>7 DEF HandleOK, Within, Before
  <1>9. UpIsDone(p)' /\ DownIsGone(p)'
    BY <1>2 DEF UpIsDone, DownIsGone
  <1>10. QED
    BY <1>2, <1>3, <1>5, <1>8, <1>9

(***************************************************************************)
(* PhasesOK after such a step: what was behind the call is, and so is the  *)
(* present phase if the call has left it.                                  *)
(***************************************************************************)
LEMMA PhasesKept ==
    ASSUME LifeTypeOK, LifeTypeOK', Later, NEW p \in Caller, CallerOK(p),
           UNCHANGED <<call, opt, ws>>, result'[p] = result[p],
           pc[p] \in Within, pc'[p] \in Within,
           todo'[p] = todo[p], cur'[p] = cur[p],
           \/ pc'[p] \in InPhase /\ pc[p] \in InPhase
           \/ Exists(ws[p].id) =>
                (cur[p] \in OnCreate..PostAttach => DoneFor(cur[p], ws[p]))
    PROVE  PhasesOK(p)'
  <1>1. OnCreate..PostAttach \subseteq Phase
    BY DEF OnCreate, PostAttach, Phase
  <1>2. SUFFICES ASSUME call[p] = "up", ~opt[p].skip, Exists(ws[p].id)',
                        NEW ph \in (OnCreate..PostAttach) \ todo[p],
                        ~(pc'[p] \in InPhase /\ ph = cur[p])
                 PROVE  DoneFor(ph, ws[p])'
    BY DEF PhasesOK
  <1>3. PhasesOK(p) /\ Exists(ws[p].id)
    BY <1>2, Kept DEF CallerOK
  <1>4. pc[p] \in InPhase \cup {"phase"}
    BY DEF Within, InPhase
  <1>5. (pc[p] \in InPhase /\ ph = cur[p]) \/ DoneFor(ph, ws[p])
    BY <1>2, <1>3, <1>4 DEF PhasesOK
  <1>6. DoneFor(ph, ws[p])
    BY <1>2, <1>3, <1>5
  <1>7. QED
    BY <1>1, <1>2, <1>6, Kept

LEMMA NextPhaseCaller ==
    ASSUME LifeInv, LifeTypeOK', Later, NEW p \in Caller, NextPhase(p)
    PROVE  CallerOK(p)'
  <1>1. LifeTypeOK /\ CallerOK(p)
    BY DEF LifeInv
  <1>2. PlaceOK(p) /\ PhasesOK(p)
    BY <1>1 DEF CallerOK
  <1>3. PICK ph \in todo[p] :
          /\ IsFirst(ph, todo[p])
          /\ cur'[p] = ph
          /\ todo'[p] = todo[p] \ {ph}
          /\ left'[p] = lifecycleCommandsFor(ws[p].view, ph)
          /\ pc'[p] = IF ph \in Markered THEN "marker" ELSE "hook"
    BY <1>1 DEF NextPhase, LifeTypeOK
  <1>4. /\ UNCHANGED <<box, done, created, call, opt, ws, busy, bad, result>>
        /\ pc[p] = "phase"
    BY DEF NextPhase, boxVars, callVars
  <1>5. pc'[p] \in {"marker", "hook"} /\ pc[p] \in Within /\ pc'[p] \in Within
    BY <1>3, <1>4 DEF Within
  <1>6. todo[p] \in SUBSET Phase /\ ph \in Phase
    BY <1>1, <1>3, FieldTypes
  <1>7. /\ HandleOK(p)' /\ UpIsDone(p)' /\ DownIsGone(p)'
        /\ result'[p] = "none" /\ call'[p] \notin {"down", "shutdown"}
        /\ SeesAll(ws[p].view)
    BY <1>1, <1>4, <1>5, Kept
  <1>8. left'[p] = 1..Len(Hooks[ph])
    BY <1>3, <1>6, <1>7, SeenHooks
  <1>9. \A x \in todo'[p] : x > ph
    BY <1>3, <1>6 DEF IsFirst, Phase
  <1>10. PlaceOK(p)'
    BY <1>2, <1>3, <1>4, <1>5, <1>7, <1>8, <1>9 DEF PlaceOK, InPhase
  <1>11. HooksOK(p)'
    BY <1>3, <1>8 DEF HooksOK
  <1>12. PhasesOK(p)'
    <2>1. SUFFICES ASSUME call[p] = "up", ~opt[p].skip, Exists(ws[p].id),
                          NEW x \in (OnCreate..PostAttach) \ todo'[p], x # ph
                   PROVE  DoneFor(x, ws[p])
      BY <1>3, <1>4, <1>5 DEF PhasesOK, InPhase, DoneFor, Ran, Exists
    <2>2. x \notin todo[p]
      BY <1>3, <2>1
    <2>3. QED
      BY <1>2, <1>4, <2>1, <2>2 DEF PhasesOK, InPhase
  <1>13. QED
    BY <1>7, <1>10, <1>11, <1>12 DEF CallerOK

LEMMA PhasesDoneCaller ==
    ASSUME LifeInv, LifeTypeOK', Later, NEW p \in Caller, PhasesDone(p)
    PROVE  CallerOK(p)'
  <1>1. LifeTypeOK /\ CallerOK(p)
    BY DEF LifeInv
  <1>2. HandleOK(p) /\ PlaceOK(p) /\ PhasesOK(p)
    BY <1>1 DEF CallerOK
  <1>3. /\ UNCHANGED <<box, done, created, call, opt, ws>>
        /\ pc[p] = "phase" /\ todo[p] = {}
    BY DEF PhasesDone, boxVars, callVars
  <1>4. pc'[p] = "idle" /\ busy'[p] = {}
    BY <1>1 DEF PhasesDone, Return, LifeTypeOK
  <1>5. HandleOK(p)'
    BY <1>2, <1>3, <1>4 DEF HandleOK, Exists, Before
  <1>6. PlaceOK(p)'
    BY <1>4 DEF PlaceOK, InPhase
  <1>7. HooksOK(p)' /\ PhasesOK(p)'
    BY <1>4 DEF HooksOK, PhasesOK, InPhase
  <1>8. UpIsDone(p)'
    <2>1. SUFFICES ASSUME call[p] = "up", ~opt[p].skip, Exists(ws[p].id),
                          NEW ph \in OnCreate..PostAttach
                   PROVE  DoneFor(ph, ws[p])
      BY <1>3 DEF UpIsDone, DoneFor, Ran, Exists
    <2>2. QED
      BY <1>2, <1>3, <2>1 DEF PhasesOK, InPhase
  <1>9. DownIsGone(p)'
    BY <1>2, <1>3 DEF DownIsGone, PlaceOK
  <1>10. QED
    BY <1>5, <1>6, <1>7, <1>8, <1>9 DEF CallerOK

LEMMA ReadCaller ==
    ASSUME LifeInv, LifeTypeOK', Later, NEW p \in Caller, readMarker(p)
    PROVE  CallerOK(p)'
  <1>1. LifeTypeOK /\ BoxPart /\ MarkerIsTrue /\ CallerOK(p)
    BY DEF LifeInv
  <1>2. PlaceOK(p)
    BY <1>1 DEF CallerOK
  <1>3. UNCHANGED <<box, done, created, call, opt, bad>> /\ pc[p] = "marker"
    BY DEF readMarker, boxVars, callVars
  <1>4. CASE ReturnError(p)
    BY <1>1, <1>3, <1>4, Error
  <1>5. ASSUME UNCHANGED ws, NEW step \in {"hook", "phase"}, Goto(p, step),
               step = "phase" => Running(ws[p].id) /\ ~shouldRun(p)
        PROVE  CallerOK(p)'
    <2>1. /\ pc'[p] = step /\ result'[p] = result[p] /\ todo'[p] = todo[p]
          /\ cur'[p] = cur[p] /\ left'[p] = left[p] /\ busy'[p] = busy[p]
          /\ pc[p] \in Within /\ pc'[p] \in Within
      BY <1>1, <1>3, <1>5 DEF Goto, runVars, LifeTypeOK, Within
    <2>2. /\ HandleOK(p)' /\ UpIsDone(p)' /\ DownIsGone(p)'
          /\ result'[p] = "none" /\ call'[p] \notin {"down", "shutdown"}
      BY <1>1, <1>3, <1>5, <2>1, Kept
    <2>3. /\ cur[p] \in Markered /\ left[p] = 1..Len(Hooks[cur[p]])
          /\ bad[p] = {} /\ busy[p] = {}
      BY <1>2, <1>3 DEF PlaceOK
    <2>4. PlaceOK(p)'
      BY <1>2, <1>3, <1>5, <2>1, <2>2, <2>3 DEF PlaceOK, InPhase
    <2>5. HooksOK(p)'
      BY <2>1, <2>3 DEF HooksOK
    <2>6. ASSUME step = "phase"
          PROVE  DoneFor(cur[p], ws[p])
      <3>1. keyTimestampFor(cur[p], ws[p]) \in marker[cur[p]]
        BY <1>5, <2>6 DEF shouldRun
      <3>2. IF cur[p] = PostStart THEN PhaseDone(cur[p], ws[p].started)
            ELSE PhaseDone(cur[p], 1)
        BY <1>1, <2>3, <3>1 DEF MarkerIsTrue, keyTimestampFor
      <3>3. cur[p] \in StartKeyed => cur[p] = PostStart
        BY <2>3 DEF StartKeyed, Markered, OnCreate, PostStart, PostAttach
      <3>4. QED
        BY <3>2, <3>3 DEF DoneFor, Ran, PhaseDone
    <2>7. PhasesOK(p)'
      <3>1. CASE step = "hook"
        <4>1. pc[p] \in InPhase /\ pc'[p] \in InPhase
          BY <1>3, <2>1, <3>1 DEF InPhase
        <4>2. QED
          BY <1>1, <1>3, <1>5, <2>1, <4>1, PhasesKept
      <3>2. CASE step = "phase"
        BY <1>1, <1>3, <1>5, <2>1, <2>6, <3>2, PhasesKept
      <3>3. QED
        BY <3>1, <3>2
    <2>8. QED
      BY <2>2, <2>4, <2>5, <2>7 DEF CallerOK
  <1>6. QED
    BY <1>4, <1>5 DEF readMarker

LEMMA StartHookCaller ==
    ASSUME LifeInv, LifeTypeOK', Later, NEW p \in Caller, StartHook(p)
    PROVE  CallerOK(p)'
  <1>1. LifeTypeOK /\ CallerOK(p)
    BY DEF LifeInv
  <1>2. PlaceOK(p) /\ HooksOK(p)
    BY <1>1 DEF CallerOK
  <1>3. PICK h \in left[p] :
          /\ left'[p] = left[p] \ {h}
          /\ busy'[p] = Hooks[cur[p]][h].cmds
    BY <1>1 DEF StartHook, LifeTypeOK
  <1>4. /\ UNCHANGED <<box, done, created, call, opt, ws, todo, cur, result>>
        /\ pc[p] = "hook" /\ pc'[p] = "exec" /\ bad'[p] = {}
    BY <1>1 DEF StartHook, boxVars, callVars, LifeTypeOK
  <1>5. /\ pc[p] \in Within /\ pc'[p] \in Within
        /\ pc[p] \in InPhase /\ pc'[p] \in InPhase
    BY <1>4 DEF Within, InPhase
  <1>6. /\ HandleOK(p)' /\ UpIsDone(p)' /\ DownIsGone(p)'
        /\ result'[p] = "none" /\ call'[p] \notin {"down", "shutdown"}
    BY <1>1, <1>4, <1>5, Kept
  <1>7. PlaceOK(p)'
    BY <1>2, <1>4, <1>6 DEF PlaceOK, InPhase
  <1>8. HooksOK(p)'
    <2>1. SUFFICES ASSUME cur[p] # Initialize, Exists(ws[p].id),
                          NEW x \in (1..Len(Hooks[cur[p]])) \ left'[p],
                          NEW c \in Hooks[cur[p]][x].cmds \ busy'[p]
                   PROVE  Ran(c, cur[p], ws[p])
      BY <1>4 DEF HooksOK, Ran, Exists
    <2>2. x # h
      BY <1>3, <2>1
    <2>3. x \notin left[p] /\ bad[p] = {} /\ busy[p] = {}
      BY <1>2, <1>3, <1>4, <2>2 DEF PlaceOK
    <2>4. QED
      BY <1>2, <1>4, <2>1, <2>3 DEF HooksOK
  <1>9. PhasesOK(p)'
    BY <1>1, <1>4, <1>5, PhasesKept
  <1>10. QED
    BY <1>6, <1>7, <1>8, <1>9 DEF CallerOK

LEMMA HooksDoneCaller ==
    ASSUME LifeInv, LifeTypeOK', Later, NEW p \in Caller, HooksDone(p)
    PROVE  CallerOK(p)'
  <1>1. LifeTypeOK /\ CallerOK(p)
    BY DEF LifeInv
  <1>2. PlaceOK(p) /\ HooksOK(p)
    BY <1>1 DEF CallerOK
  <1>3. /\ UNCHANGED <<box, done, created, call, opt, bad, ws>>
        /\ pc[p] = "hook" /\ left[p] = {}
    BY DEF HooksDone, boxVars, callVars
  <1>4. /\ pc'[p] = IF cur[p] \in Markered THEN "write" ELSE "phase"
        /\ result'[p] = result[p] /\ todo'[p] = todo[p] /\ cur'[p] = cur[p]
        /\ left'[p] = left[p] /\ busy'[p] = busy[p]
    BY <1>1 DEF HooksDone, Goto, runVars, LifeTypeOK
  <1>5. pc[p] \in Within /\ pc'[p] \in Within
    BY <1>3, <1>4 DEF Within
  <1>6. /\ HandleOK(p)' /\ UpIsDone(p)' /\ DownIsGone(p)'
        /\ result'[p] = "none" /\ call'[p] \notin {"down", "shutdown"}
    BY <1>1, <1>3, <1>4, <1>5, Kept
  <1>7. PlaceOK(p)'
    BY <1>2, <1>3, <1>4, <1>6 DEF PlaceOK, InPhase
  <1>8. HooksOK(p)'
    BY <1>2, <1>3, <1>4 DEF HooksOK, Ran, Exists
  <1>9. PhasesOK(p)'
    <2>1. ASSUME Exists(ws[p].id), cur[p] \in OnCreate..PostAttach
          PROVE  DoneFor(cur[p], ws[p])
      <3>1. cur[p] # Initialize
        BY <2>1 DEF OnCreate, PostAttach, Initialize
      <3>2. QED
        BY <1>1, <1>3, <2>1, <3>1, PhaseRan
    <2>2. QED
      BY <1>1, <1>3, <1>4, <1>5, <2>1, PhasesKept
  <1>10. QED
    BY <1>6, <1>7, <1>8, <1>9 DEF CallerOK

LEMMA JoinCaller ==
    ASSUME LifeInv, LifeTypeOK', Later, NEW p \in Caller, JoinHook(p)
    PROVE  CallerOK(p)'
  <1>1. LifeTypeOK /\ CallerOK(p)
    BY DEF LifeInv
  <1>2. PlaceOK(p) /\ HooksOK(p)
    BY <1>1 DEF CallerOK
  <1>3. /\ UNCHANGED <<box, done, created, call, opt, bad, ws>>
        /\ pc[p] = "exec" /\ busy[p] = {}
    BY DEF JoinHook, boxVars, callVars
  <1>4. CASE bad[p] # {}
    <2>1. Return(p, "lifecycle")
      BY <1>4 DEF JoinHook
    <2>2. QED
      BY <1>1, <1>3, <2>1, Ended
  <1>5. CASE bad[p] = {}
    <2>1. /\ pc'[p] = "hook" /\ result'[p] = result[p]
          /\ todo'[p] = todo[p] /\ cur'[p] = cur[p]
          /\ left'[p] = left[p] /\ busy'[p] = busy[p]
      BY <1>1, <1>5 DEF JoinHook, Goto, runVars, LifeTypeOK
    <2>2. /\ pc[p] \in Within /\ pc'[p] \in Within
          /\ pc[p] \in InPhase /\ pc'[p] \in InPhase
      BY <1>3, <2>1 DEF Within, InPhase
    <2>3. /\ HandleOK(p)' /\ UpIsDone(p)' /\ DownIsGone(p)'
          /\ result'[p] = "none" /\ call'[p] \notin {"down", "shutdown"}
      BY <1>1, <1>3, <2>1, <2>2, Kept
    <2>4. PlaceOK(p)'
      BY <1>2, <1>3, <1>5, <2>1, <2>3 DEF PlaceOK, InPhase
    <2>5. HooksOK(p)'
      BY <1>2, <1>3, <2>1 DEF HooksOK, Ran, Exists
    <2>6. PhasesOK(p)'
      BY <1>1, <1>3, <2>1, <2>2, PhasesKept
    <2>7. QED
      BY <2>3, <2>4, <2>5, <2>6 DEF CallerOK
  <1>6. QED
    BY <1>4, <1>5

LEMMA WriteCaller ==
    ASSUME LifeInv, LifeTypeOK', Later, NEW p \in Caller, writeMarker(p)
    PROVE  CallerOK(p)'
  <1>1. LifeTypeOK /\ CallerOK(p)
    BY DEF LifeInv
  <1>2. PlaceOK(p)
    BY <1>1 DEF CallerOK
  <1>3. UNCHANGED <<box, done, created, call, opt, bad>> /\ pc[p] = "write"
    BY DEF writeMarker, callVars
  <1>4. CASE ReturnError(p)
    BY <1>1, <1>3, <1>4, Error
  <1>5. CASE Goto(p, "phase") /\ UNCHANGED ws
    <2>1. /\ pc'[p] = "phase" /\ result'[p] = result[p]
          /\ todo'[p] = todo[p] /\ cur'[p] = cur[p]
          /\ left'[p] = left[p] /\ busy'[p] = busy[p]
      BY <1>1, <1>5 DEF Goto, runVars, LifeTypeOK
    <2>2. pc[p] \in Within /\ pc'[p] \in Within
      BY <1>3, <2>1 DEF Within
    <2>3. /\ HandleOK(p)' /\ UpIsDone(p)' /\ DownIsGone(p)'
          /\ result'[p] = "none" /\ call'[p] \notin {"down", "shutdown"}
      BY <1>1, <1>3, <1>5, <2>1, <2>2, Kept
    <2>4. PlaceOK(p)'
      BY <1>2, <1>3, <2>1, <2>3 DEF PlaceOK, InPhase
    <2>5. HooksOK(p)'
      BY <2>1 DEF HooksOK
    <2>6. left[p] = {} /\ cur[p] # Initialize
      BY <1>2, <1>3
         DEF PlaceOK, Markered, OnCreate, PostStart, Initialize
    <2>7. Exists(ws[p].id) => DoneFor(cur[p], ws[p])
      BY <1>1, <1>3, <2>6, PhaseRan
    <2>8. PhasesOK(p)'
      BY <1>1, <1>3, <1>5, <2>1, <2>2, <2>7, PhasesKept
    <2>9. QED
      BY <2>3, <2>4, <2>5, <2>8 DEF CallerOK
  <1>6. QED
    BY <1>4, <1>5 DEF writeMarker

LEMMA CommandCaller ==
    ASSUME LifeInv, LifeTypeOK', Later, NEW p \in Caller, NEW c \in Command,
           execCommand(p, c)
    PROVE  CallerOK(p)'
  <1>1. LifeTypeOK /\ BoxPart /\ CallerOK(p)
    BY DEF LifeInv
  <1>2. HandleOK(p) /\ PlaceOK(p) /\ HooksOK(p)
    BY <1>1 DEF CallerOK
  <1>3. /\ UNCHANGED <<box, created, call, opt, ws, todo, cur, left, result>>
        /\ pc[p] = "exec" /\ pc' = pc /\ busy'[p] = busy[p] \ {c}
    BY <1>1 DEF execCommand, callVars, LifeTypeOK
  <1>4. /\ pc[p] \in Within /\ pc'[p] \in Within
        /\ pc[p] \in InPhase /\ pc'[p] \in InPhase
    BY <1>3 DEF Within, InPhase
  <1>5. /\ HandleOK(p)' /\ UpIsDone(p)' /\ DownIsGone(p)'
        /\ result'[p] = "none" /\ call'[p] \notin {"down", "shutdown"}
        /\ Exists(ws[p].id)' =>
             \A d \in Command : \A ph \in Phase :
               Ran(d, ph, ws[p]) => Ran(d, ph, ws[p])'
    BY <1>1, <1>3, <1>4, Kept
  <1>6. PlaceOK(p)'
    BY <1>2, <1>3, <1>5 DEF PlaceOK, InPhase
  <1>7. HooksOK(p)'
    <2>1. CASE bad'[p] # {}
      BY <2>1 DEF HooksOK
    <2>2. CASE Succeeded(p, c) /\ cur[p] # Initialize
      <3>1. SUFFICES ASSUME Exists(ws[p].id), bad[p] = {},
                            NEW h \in (1..Len(Hooks[cur[p]])) \ left[p],
                            NEW d \in Hooks[cur[p]][h].cmds \ (busy[p] \ {c})
                     PROVE  Ran(d, cur[p], ws[p])'
        BY <1>3, <2>2 DEF HooksOK, Exists, Succeeded
      <3>2. cur[p] \in Phase /\ d \in Command
        BY <1>1, FieldTypes, HookTypes
      <3>3. CASE d = c
        <4>1. Running(ws[p].id) /\ done'[c] = box.started
          BY <1>1, <2>2 DEF Succeeded, LifeTypeOK
        <4>2. box.started > 0 /\ ws[p].started <= box.started
          BY <1>1, <1>2, <3>1, <4>1 DEF Running, BoxPart, HandleOK
        <4>3. box.started \in Nat /\ ws[p].started \in Nat
          BY <1>1, FieldTypes
        <4>4. QED
          BY <1>3, <3>3, <4>1, <4>2, <4>3 DEF Ran
      <3>4. CASE d # c
        <4>1. Ran(d, cur[p], ws[p])
          BY <1>2, <1>3, <2>2, <3>1, <3>4 DEF HooksOK
        <4>2. Exists(ws[p].id)'
          BY <1>3, <3>1 DEF Exists
        <4>3. QED
          BY <1>3, <1>5, <3>2, <4>1, <4>2 DEF Ran
      <3>5. QED
        BY <3>3, <3>4
    <2>3. CASE cur[p] = Initialize
      BY <1>3, <2>3 DEF HooksOK
    <2>4. \A how : Failed(p, how) => bad'[p] # {}
      BY <1>1 DEF Failed, LifeTypeOK
    <2>5. QED
      BY <2>1, <2>2, <2>3, <2>4 DEF execCommand
  <1>8. PhasesOK(p)'
    BY <1>1, <1>3, <1>4, PhasesKept
  <1>9. QED
    BY <1>5, <1>6, <1>7, <1>8 DEF CallerOK

LEMMA DownCaller ==
    ASSUME LifeInv, LifeTypeOK', Later, NEW p \in Caller,
           DownStop(p) \/ DownRemove(p)
    PROVE  CallerOK(p)'
  <1>1. LifeTypeOK /\ BoxPart /\ CallerOK(p)
    BY DEF LifeInv
  <1>2. HandleOK(p) /\ PlaceOK(p)
    BY <1>1 DEF CallerOK
  <1>3. /\ UNCHANGED <<created, call, opt, bad, ws>>
        /\ pc[p] \in {"downstop", "downremove"}
    BY DEF DownStop, DownRemove, callVars
  <1>4. /\ call[p] \in {"down", "shutdown"} /\ bad[p] = {} /\ busy[p] = {}
        /\ result[p] = "none" /\ SeesAll(ws[p].view)
    BY <1>2, <1>3 DEF PlaceOK, HandleOK
  <1>5. CASE Return(p, "error")
    BY <1>1, <1>3, <1>5, Ended
  <1>6. ws'[p].id <= created' /\
        (Exists(ws[p].id)' => ws'[p].started <= box'.started)
    <2>1. Exists(ws[p].id)' => Exists(ws[p].id) /\ box'.started >= box.started
      BY <1>1, <1>2, <1>3, DoneStays DEF HandleOK
    <2>2. /\ box.started \in Nat /\ ws[p].started \in Nat
          /\ box'.started \in Nat
      BY <1>1, FieldTypes DEF LifeTypeOK, BoxType
    <2>3. QED
      BY <1>2, <1>3, <2>1, <2>2 DEF HandleOK
  <1>7. ASSUME pc'[p] \in {"idle", "downremove"}, busy'[p] = {},
               pc'[p] = "downremove" => result'[p] = "none",
               result'[p] = "ok" /\ call[p] = "down" => ~Exists(ws[p].id)'
        PROVE  CallerOK(p)'
    <2>1. HandleOK(p)'
      BY <1>3, <1>4, <1>6, <1>7 DEF HandleOK, Before
    <2>2. PlaceOK(p)'
      BY <1>3, <1>4, <1>7 DEF PlaceOK, InPhase
    <2>3. HooksOK(p)' /\ PhasesOK(p)'
      BY <1>7 DEF HooksOK, PhasesOK, InPhase
    <2>4. UpIsDone(p)' /\ DownIsGone(p)'
      BY <1>3, <1>4, <1>7 DEF UpIsDone, DownIsGone
    <2>5. QED
      BY <2>1, <2>2, <2>3, <2>4 DEF CallerOK
  <1>8. CASE DownStop(p)
    <2>1. CASE call[p] = "down" /\ Goto(p, "downremove")
      <3>1. /\ pc'[p] = "downremove" /\ busy'[p] = {} /\ result'[p] = "none"
        BY <1>1, <1>4, <2>1 DEF Goto, runVars, LifeTypeOK
      <3>2. QED
        BY <1>7, <3>1
    <2>2. CASE call[p] # "down" /\ Return(p, "ok")
      <3>1. pc'[p] = "idle" /\ busy'[p] = {}
        BY <1>1, <2>2 DEF Return, LifeTypeOK
      <3>2. QED
        BY <1>7, <2>2, <3>1
    <2>3. QED
      BY <1>5, <1>8, <2>1, <2>2 DEF DownStop, AfterStop
  <1>9. CASE DownRemove(p)
    <2>1. CASE Return(p, "ok") /\ (Discard \/ (~Exists(ws[p].id) /\ UNCHANGED box))
      <3>1. pc'[p] = "idle" /\ busy'[p] = {}
        BY <1>1, <2>1 DEF Return, LifeTypeOK
      <3>2. ~Exists(ws[p].id)'
        BY <1>3, <2>1 DEF Discard, NoBox, Box, Exists
      <3>3. QED
        BY <1>7, <3>1, <3>2
    <2>2. QED
      BY <1>5, <1>9, <2>1 DEF DownRemove
  <1>10. QED
    BY <1>8, <1>9

----------------------------------------------------------------------------

LEMMA InvInit == LifeInit => LifeInv
  <1> SUFFICES ASSUME LifeInit
               PROVE  LifeInv
    OBVIOUS
  <1>1. LifeTypeOK
    BY TypeInit
  <1>2. BoxPart
    BY DEF LifeInit, BoxPart, NoBox, Box, NothingDone
  <1>3. MarkerIsTrue
    BY DEF LifeInit, MarkerIsTrue, NoMarkers
  <1>4. ASSUME NEW p \in Caller
        PROVE  CallerOK(p)
    <2>1. /\ pc[p] = "idle" /\ busy[p] = {} /\ result[p] = "none"
          /\ ws[p].id = 0 /\ ws[p].started = 0 /\ created = 0
      BY DEF LifeInit, NoHandle, Handle
    <2>2. QED
      BY <2>1 DEF CallerOK, HandleOK, PlaceOK, HooksOK, PhasesOK, UpIsDone,
                  DownIsGone, Before, InPhase, Exists
  <1>5. QED
    BY <1>1, <1>2, <1>3, <1>4 DEF LifeInv

LEMMA InvStep ==
    ASSUME WholeViews, LifeInv, [LifeNext]_lifeVars
    PROVE  LifeInv'
  <1>1. LifeTypeOK /\ \A q \in Caller : CallerOK(q)
    BY DEF LifeInv
  <1>2. LifeTypeOK'
    BY <1>1, TypeStep
  <1>3. Shared
    <2>1. CASE LifeNext
      BY <2>1, SharedStep
    <2>2. CASE UNCHANGED lifeVars
      BY <2>2, SharedSame DEF LifeInv, lifeVars, boxVars
    <2>3. QED
      BY <2>1, <2>2
  <1>4. Later
    BY <1>3 DEF Shared
  <1>5. ASSUME NEW p \in Caller, CallerOK(p)', NEW q \in Caller,
               Calls(p) \/ Code(p) \/ Commands(p) \/ Cancel(p) \/ CallerDies(p)
        PROVE  CallerOK(q)'
    <2>1. CASE q = p
      BY <1>5, <2>1
    <2>2. CASE q # p
      <3>1. SameCaller(q)
        BY <1>1, <1>5, <2>2, Locals
      <3>2. QED
        BY <1>1, <1>2, <1>4, <3>1, Others
    <2>3. QED
      BY <2>1, <2>2
  <1>6. ASSUME NEW p \in Caller, Calls(p)
        PROVE  CallerOK(p)'
    BY <1>2, <1>4, <1>6, CallsCaller
  <1>7. ASSUME NEW p \in Caller, Code(p)
        PROVE  CallerOK(p)'
    BY <1>2, <1>4, <1>7, EarlyCaller, BuildCaller, NextPhaseCaller,
       PhasesDoneCaller, ReadCaller, StartHookCaller, HooksDoneCaller,
       JoinCaller, WriteCaller, DownCaller DEF Code
  <1>8. ASSUME NEW p \in Caller, Commands(p)
        PROVE  CallerOK(p)'
    BY <1>2, <1>4, <1>8, CommandCaller DEF Commands
  <1>9. ASSUME NEW p \in Caller, CallerDies(p)
        PROVE  CallerOK(p)'
    <2>1. Return(p, "none") /\ ws'[p] = NoHandle /\ UNCHANGED call
      BY <1>1, <1>9 DEF CallerDies, callVars, LifeTypeOK
    <2>2. QED
      BY <1>1, <1>2, <1>4, <2>1, Ended
  <1>10. ASSUME NEW q \in Caller,
                UNCHANGED <<call, opt, todo, cur, left, busy, pc, ws, bad, result>>
         PROVE  CallerOK(q)'
    <2>1. SameCaller(q)
      BY <1>10 DEF SameCaller
    <2>2. QED
      BY <1>1, <1>2, <1>4, <2>1, Others
  <1>11. \A q \in Caller : CallerOK(q)'
    <2>1. CASE \E p \in Caller : Calls(p) \/ Code(p) \/ Commands(p)
      BY <1>5, <1>6, <1>7, <1>8, <2>1
    <2>2. CASE \E p \in Caller : CallerDies(p)
      BY <1>5, <1>9, <2>2
    <2>3. CASE \/ ContainerExits \/ RestartedElsewhere \/ RemovedElsewhere
               \/ \E p \in Caller : Cancel(p)
               \/ UNCHANGED lifeVars
      <3>1. UNCHANGED <<call, opt, todo, cur, left, busy, pc, ws, bad, result>>
        BY <2>3 DEF ContainerExits, RestartedElsewhere, RemovedElsewhere, Cancel,
                    outside, lifeVars, callVars, runVars
      <3>2. QED
        BY <1>10, <3>1
    <2>4. QED
      BY <2>1, <2>2, <2>3 DEF LifeNext, Outside
  <1>12. QED
    BY <1>2, <1>3, <1>11 DEF LifeInv, Shared

(* What the invariant says at the moments the properties are about.        *)
LEMMA InvImplies ==
    ASSUME LifeInv
    PROVE  MarkerIsTrue /\ PhasesInOrder /\ UpMeansDone /\ DownMeansGone
  <1>1. MarkerIsTrue /\ UpMeansDone /\ DownMeansGone
    BY DEF LifeInv, CallerOK, UpMeansDone, DownMeansGone
  <1>2. PhasesInOrder
    <2>1. SUFFICES ASSUME NEW p \in Caller, pc[p] = "exec", call[p] = "up",
                          Exists(ws[p].id), NEW ph \in OnCreate..(cur[p] - 1)
                   PROVE  DoneFor(ph, ws[p])
      BY DEF PhasesInOrder
    <2>2. /\ PlaceOK(p) /\ PhasesOK(p) /\ cur[p] \in Phase
          /\ todo[p] \in SUBSET Phase
      BY FieldTypes DEF LifeInv, CallerOK
    <2>3. pc[p] \in InPhase /\ ~opt[p].skip
      BY <2>1, <2>2 DEF PlaceOK, InPhase
    <2>4. /\ ph \in OnCreate..PostAttach /\ ph < cur[p]
      BY <2>2 DEF OnCreate, PostAttach, Phase
    <2>5. ph \notin todo[p]
      BY <2>2, <2>3, <2>4 DEF PlaceOK, Phase
    <2>6. QED
      BY <2>1, <2>2, <2>3, <2>4, <2>5 DEF PhasesOK
  <1>3. QED
    BY <1>1, <1>2

(***************************************************************************)
(* With Workspaces that see every hook, no marker lies, whatever callers,  *)
(* crashes, failures and restarts there are.                               *)
(***************************************************************************)
THEOREM MarkersTrue ==
    ASSUME WholeViews
    PROVE  LifeSpec => []MarkerIsTrue
  BY InvInit, InvStep, InvImplies, PTL DEF LifeSpec

(***************************************************************************)
(* Up runs a phase's commands only when the earlier phases' have succeeded *)
(* in that container (orderedPhases, runAllLifecycle).                     *)
(***************************************************************************)
THEOREM InOrder ==
    ASSUME WholeViews
    PROVE  LifeSpec => []PhasesInOrder
  BY InvInit, InvStep, InvImplies, PTL DEF LifeSpec

(***************************************************************************)
(* An Up that returns no error has had all lifecycle commands succeed.     *)
(***************************************************************************)
THEOREM UpDone ==
    ASSUME WholeViews
    PROVE  LifeSpec => []UpMeansDone
  BY InvInit, InvStep, InvImplies, PTL DEF LifeSpec

(***************************************************************************)
(* A Down with Remove that returns nil means the container is gone.        *)
(***************************************************************************)
THEOREM DownGone ==
    ASSUME WholeViews
    PROVE  LifeSpec => []DownMeansGone
  BY InvInit, InvStep, InvImplies, PTL DEF LifeSpec

----------------------------------------------------------------------------
(***************************************************************************)
(* A single caller, whatever hooks its Workspaces see: its phases rest     *)
(* while they are marked.  The markers are never ahead of the Workspace's  *)
(* StartedAt, and that is never ahead of the container's; a new start is   *)
(* later than all of them.                                                 *)
(***************************************************************************)
BoxRest ==
    /\ box.started <= starts
    /\ box.state = "none" <=> box.id = 0
    /\ box.state = "none" => marker = NoMarkers
    /\ \A k \in marker[PostStart] : k <= box.started

HandleRest(p) ==
    /\ pc[p] \in Before => call[p] # "run"
    /\ Exists(ws[p].id) =>
         /\ ws[p].started <= box.started
         /\ pc[p] \notin Before =>
              \A k \in marker[PostStart] : k <= ws[p].started

InHook == {"hook", "exec"}

PhaseRests(p) ==
    pc[p] \in InHook /\ cur[p] \in Markered /\ Exists(ws[p].id)
    => keyTimestampFor(cur[p], box) \notin marker[cur[p]]

CallerRests(p) == HandleRest(p) /\ PhaseRests(p)

RestInv == LifeTypeOK /\ BoxRest /\ \A p \in Caller : CallerRests(p)

(* The container gets on, perhaps with a new start, or is gone.            *)
Onward ==
    /\ BoxRest'
    /\ \/ box'.id = 0
       \/ /\ box'.id = box.id /\ marker' = marker
          /\ box'.started \in {box.started, starts + 1}

LEMMA OnwardSame ==
    ASSUME BoxRest, UNCHANGED <<box, marker, starts>>
    PROVE  Onward
  BY DEF BoxRest, Onward

LEMMA OnwardDiscard ==
    ASSUME LifeTypeOK, Discard, UNCHANGED starts
    PROVE  Onward
  <1>1. box'.id = 0 /\ box'.state = "none" /\ box'.started = 0
    BY DEF Discard, NoBox, Box
  <1>2. marker' = NoMarkers /\ starts' \in Nat
    BY DEF Discard, LifeTypeOK
  <1>3. marker'[PostStart] = {}
    BY <1>2 DEF NoMarkers, Markered, OnCreate, PostStart
  <1>4. QED
    BY <1>1, <1>2, <1>3 DEF Onward, BoxRest

LEMMA OnwardState ==
    ASSUME LifeTypeOK, BoxRest, UNCHANGED marker, box.state # "none",
           NEW state \in {"running", "exited"}, NEW n \in Nat,
           box' = Box(box.id, state, n),
           \/ n = box.started /\ starts' = starts
           \/ n = starts + 1 /\ starts' = starts + 1
    PROVE  Onward
  <1>1. /\ box'.id = box.id /\ box'.state = state /\ box'.started = n
    BY DEF Box
  <1>2. /\ box.started \in Nat /\ starts \in Nat
        /\ marker[PostStart] \in SUBSET Nat
    BY DEF LifeTypeOK, BoxType, Markered, OnCreate, PostStart
  <1>3. BoxRest'
    BY <1>1, <1>2 DEF BoxRest
  <1>4. QED
    BY <1>1, <1>3 DEF Onward

LEMMA OnwardStart ==
    ASSUME LifeTypeOK, BoxRest, UNCHANGED marker, box.state # "none",
           Start \/ FailedStart
    PROVE  Onward
  <1>1. starts \in Nat /\ starts + 1 \in Nat
    BY DEF LifeTypeOK
  <1>2. CASE UNCHANGED <<box, starts>>
    BY <1>2, OnwardSame
  <1>3. CASE starts' = starts + 1 /\ box' = Box(box.id, "running", starts + 1)
    BY <1>1, <1>3, OnwardState
  <1>4. CASE starts' = starts + 1 /\ box' = Box(box.id, "exited", starts + 1)
    BY <1>1, <1>4, OnwardState
  <1>5. QED
    BY <1>2, <1>3, <1>4 DEF Start, FailedStart

LEMMA OnwardStop ==
    ASSUME LifeTypeOK, BoxRest, UNCHANGED <<marker, starts>>, NEW n \in Nat,
           Stop(n) \/ UNCHANGED box
    PROVE  Onward
  <1>1. box.started \in Nat
    BY DEF LifeTypeOK, BoxType
  <1>2. CASE UNCHANGED box
    BY <1>2, OnwardSame
  <1>3. CASE /\ box.state = "running"
             /\ box' = Box(box.id, "exited", box.started)
    BY <1>1, <1>3, OnwardState
  <1>4. QED
    BY <1>2, <1>3 DEF Stop

(* A caller that goes on with the Workspace and the phase it has.          *)
LEMMA RestKept ==
    ASSUME RestInv, Onward, NEW p \in Caller, ws'[p] = ws[p],
           pc'[p] \in Before => pc[p] \in Before /\ call'[p] = call[p],
           pc[p] \in Before => pc'[p] \in Before,
           pc'[p] \in InHook => pc[p] \in InHook /\ cur'[p] = cur[p]
    PROVE  CallerRests(p)'
  <1>1. /\ box.id \in Nat /\ box.started \in Nat /\ starts \in Nat
        /\ ws[p].id \in Nat /\ ws[p].started \in Nat /\ cur[p] \in Phase
        /\ \A ph \in Markered : marker[ph] \in SUBSET Nat
    BY DEF RestInv, LifeTypeOK, BoxType, HandleType
  <1>2. CallerRests(p) /\ BoxRest
    BY DEF RestInv
  <1>3. CASE box'.id = 0
    BY <1>2, <1>3 DEF CallerRests, HandleRest, PhaseRests, Exists
  <1>4. CASE /\ box'.id = box.id /\ marker' = marker
             /\ box'.started \in {box.started, starts + 1}
    <2>1. /\ Exists(ws[p].id)' <=> Exists(ws[p].id)
          /\ box'.started >= box.started
      BY <1>1, <1>2, <1>4 DEF Exists, BoxRest
    <2>2. HandleRest(p)'
      BY <1>1, <1>2, <1>4, <2>1 DEF CallerRests, HandleRest
    <2>3. ASSUME pc'[p] \in InHook, cur[p] \in Markered, Exists(ws[p].id)
          PROVE  keyTimestampFor(cur[p], box') \notin marker[cur[p]]
      <3>1. keyTimestampFor(cur[p], box) \notin marker[cur[p]]
        BY <1>2, <2>3 DEF CallerRests, PhaseRests
      <3>2. CASE cur[p] # PostStart
        BY <1>4, <3>1, <3>2 DEF keyTimestampFor
      <3>3. CASE cur[p] = PostStart /\ box'.started = box.started
        BY <3>1, <3>3 DEF keyTimestampFor
      <3>4. CASE cur[p] = PostStart /\ box'.started = starts + 1
        <4>1. \A k \in marker[PostStart] : k <= starts /\ k \in Nat
          BY <1>1, <1>2, <2>3, <3>4 DEF BoxRest
        <4>2. starts + 1 \notin marker[PostStart]
          BY <1>1, <4>1
        <4>3. QED
          BY <3>4, <4>2 DEF keyTimestampFor
      <3>5. QED
        BY <1>4, <3>2, <3>3, <3>4
    <2>4. PhaseRests(p)'
      <3>1. SUFFICES ASSUME pc'[p] \in InHook, cur'[p] \in Markered,
                            Exists(ws[p].id)'
                     PROVE  keyTimestampFor(cur'[p], box') \notin marker'[cur'[p]]
        BY DEF PhaseRests, keyTimestampFor
      <3>2. cur'[p] = cur[p] /\ Exists(ws[p].id)
        BY <2>1, <3>1
      <3>3. QED
        BY <1>4, <2>3, <3>1, <3>2
    <2>5. QED
      BY <2>2, <2>4 DEF CallerRests
  <1>5. QED
    BY <1>3, <1>4 DEF Onward

(* A caller that is left without a Workspace, or has none yet.             *)
LEMMA RestDropped ==
    ASSUME NEW p \in Caller, ws'[p].id = 0,
           pc'[p] \in Before => call'[p] # "run"
    PROVE  CallerRests(p)'
  BY DEF CallerRests, HandleRest, PhaseRests, Exists

(* A call that ends in an error has its Workspace dropped; one of          *)
(* RunLifecycle keeps it, and is past what Up and Attach do first.         *)
LEMMA RestError ==
    ASSUME RestInv, Onward, NEW p \in Caller, ReturnError(p)
    PROVE  CallerRests(p)'
  <1>1. pc'[p] = "idle" /\ pc'[p] \notin Before /\ pc'[p] \notin InHook
    BY DEF RestInv, LifeTypeOK, ReturnError, Return, Before, InHook
  <1>2. CASE call[p] = "run"
    <2>1. ws' = ws /\ pc[p] \notin Before
      BY <1>2 DEF ReturnError, RestInv, CallerRests, HandleRest
    <2>2. QED
      BY <1>1, <2>1, RestKept
  <1>3. CASE call[p] # "run"
    <2>1. ws'[p].id = 0
      BY <1>3 DEF ReturnError, RestInv, LifeTypeOK, NoHandle, Handle
    <2>2. QED
      BY <1>1, <2>1, RestDropped
  <1>4. QED
    BY <1>2, <1>3

LEMMA RestCalls ==
    ASSUME RestInv, NEW p \in Caller, Calls(p)
    PROVE  BoxRest' /\ CallerRests(p)'
  <1>1. LifeTypeOK /\ BoxRest
    BY DEF RestInv
  <1>2. UNCHANGED <<box, marker, starts>> /\ pc[p] = "idle"
    BY DEF Calls, Up, Attach, RunLifecycle, Down, Idle, boxVars
  <1>3. Onward
    BY <1>1, <1>2, OnwardSame
  <1>4. pc[p] \notin Before /\ pc[p] \notin InHook
    BY <1>2 DEF Before, InHook
  <1>5. CASE \/ \E o \in UpOptions : Up(p, o)
             \/ \E v \in AttachViews : Attach(p, v)
    <2>1. ws'[p].id = 0 /\ call'[p] # "run"
      BY <1>1, <1>5 DEF Up, Attach, Begin, Handle, LifeTypeOK
    <2>2. QED
      BY <1>3, <2>1, RestDropped DEF Onward
  <1>6. CASE \/ \E S \in RunSets : RunLifecycle(p, S)
             \/ \E r \in DownOptions : Down(p, r)
    <2>1. ws' = ws /\ pc'[p] \in {"phase", "downstop"}
      BY <1>1, <1>6 DEF RunLifecycle, Down, Begin, LifeTypeOK
    <2>2. pc'[p] \notin Before /\ pc'[p] \notin InHook
      BY <2>1 DEF Before, InHook
    <2>3. QED
      BY <1>3, <1>4, <2>1, <2>2, RestKept DEF Onward
  <1>7. QED
    BY <1>5, <1>6 DEF Calls

(* Looking for the container, and removing it to create a new one.         *)
LEMMA RestFind ==
    ASSUME RestInv, NEW p \in Caller,
           FindContainerByLabel(p) \/ RecreateStop(p) \/ RecreateRemove(p)
    PROVE  BoxRest' /\ CallerRests(p)'
  <1>1. /\ LifeTypeOK /\ BoxRest /\ CallerRests(p)
        /\ ws[p].id \in Nat /\ box.started \in Nat
    BY FieldTypes DEF RestInv
  <1>2. pc[p] \in Before /\ call[p] # "run" /\ call' = call
    BY <1>1 DEF FindContainerByLabel, RecreateStop, RecreateRemove, Before,
                CallerRests, HandleRest, callVars
  <1>3. Onward
    <2>1. CASE FindContainerByLabel(p)
      BY <1>1, <2>1, OnwardSame DEF FindContainerByLabel, boxVars
    <2>2. CASE RecreateStop(p)
      BY <1>1, <2>2, OnwardStop DEF RecreateStop
    <2>3. CASE RecreateRemove(p)
      BY <1>1, <2>3, OnwardDiscard, OnwardSame DEF RecreateRemove
    <2>4. QED
      BY <2>1, <2>2, <2>3
  <1>4. ASSUME NEW step \in Before, Goto(p, step)
        PROVE  pc'[p] = step /\ pc'[p] \in Before /\ pc'[p] \notin InHook
    BY <1>1, <1>4 DEF Goto, LifeTypeOK, Before, InHook
  <1>5. CASE ReturnError(p)
    BY <1>3, <1>5, RestError DEF Onward
  <1>6. CASE ws' = ws /\ \E step \in Before : Goto(p, step)
    BY <1>2, <1>3, <1>4, <1>6, RestKept DEF Onward
  <1>7. CASE /\ ws' = [ws EXCEPT ![p] = Handle(box.id, 0, @.view)]
             /\ \E step \in Before : Goto(p, step)
             /\ UNCHANGED box
    <2>1. ws'[p].started = 0 /\ pc'[p] \in Before /\ pc'[p] \notin InHook
      BY <1>1, <1>4, <1>7 DEF Handle, LifeTypeOK
    <2>2. HandleRest(p)'
      BY <1>1, <1>2, <1>7, <2>1 DEF HandleRest
    <2>3. QED
      BY <1>3, <2>1, <2>2 DEF CallerRests, PhaseRests, Onward
  <1>8. AfterFind(p) \in Before /\ {"create", "remove"} \subseteq Before
    BY DEF AfterFind, Before
  <1>9. QED
    BY <1>5, <1>6, <1>7, <1>8
       DEF FindContainerByLabel, RecreateStop, RecreateRemove, boxVars

(* A new container has no marker; a start is later than all of them.       *)
LEMMA RestStart ==
    ASSUME RestInv, NEW p \in Caller,
           RunContainer(p) \/ StartNew(p) \/ StartExisting(p)
    PROVE  BoxRest' /\ CallerRests(p)'
  <1>1. /\ LifeTypeOK /\ BoxRest /\ CallerRests(p)
        /\ ws[p].id \in Nat /\ box.started \in Nat /\ created \in Nat
        /\ starts \in Nat
    BY FieldTypes DEF RestInv
  <1>2. pc[p] \in Before /\ call[p] # "run" /\ call' = call
    BY <1>1 DEF RunContainer, StartNew, StartExisting, Before,
                CallerRests, HandleRest, callVars
  <1>3. ASSUME NEW step \in Before, Goto(p, step)
        PROVE  pc'[p] \in Before /\ pc'[p] \notin InHook
    BY <1>1, <1>3 DEF Goto, LifeTypeOK, Before, InHook
  <1>4. {"start", "inspect"} \subseteq Before
    BY DEF Before
  <1>5. CASE RunContainer(p) /\ ReturnError(p) /\ UNCHANGED box
    <2>1. Onward
      BY <1>1, <1>5, OnwardSame DEF RunContainer
    <2>2. QED
      BY <1>5, <2>1, RestError DEF Onward
  <1>6. CASE /\ RunContainer(p) /\ box.state = "none" /\ Goto(p, "start")
             /\ box' = Box(created + 1, "created", 0)
             /\ ws' = [ws EXCEPT ![p] = Handle(created + 1, 0, @.view)]
    <2>1. /\ box'.id = created + 1 /\ box'.state = "created"
          /\ box'.started = 0 /\ ws'[p].started = 0
      BY <1>1, <1>6 DEF Box, Handle, LifeTypeOK
    <2>2. /\ marker' = NoMarkers /\ marker'[PostStart] = {}
          /\ starts' \in Nat
      BY <1>1, <1>6 DEF RunContainer, BoxRest, NoMarkers, Markered, OnCreate,
                        PostStart
    <2>3. BoxRest'
      BY <1>1, <2>1, <2>2 DEF BoxRest
    <2>4. HandleRest(p)' /\ PhaseRests(p)'
      BY <1>2, <1>3, <1>4, <1>6, <2>1, <2>2 DEF HandleRest, PhaseRests
    <2>5. QED
      BY <2>3, <2>4 DEF CallerRests
  <1>7. CASE StartNew(p) \/ StartExisting(p)
    <2>1. Exists(ws[p].id) => box.state # "none"
      BY <1>1 DEF BoxRest, Exists
    <2>2. Onward
      <3>1. CASE StartNew(p)
        BY <1>1, <2>1, <3>1, OnwardStart, OnwardDiscard, OnwardSame DEF StartNew
      <3>2. CASE StartExisting(p)
        BY <1>1, <2>1, <3>2, OnwardStart, OnwardSame DEF StartExisting
      <3>3. QED
        BY <1>7, <3>1, <3>2
    <2>3. CASE ReturnError(p)
      BY <2>2, <2>3, RestError DEF Onward
    <2>4. CASE ws' = ws /\ Goto(p, "inspect")
      BY <1>2, <1>3, <1>4, <2>2, <2>4, RestKept DEF Onward
    <2>5. QED
      BY <1>7, <2>3, <2>4 DEF StartNew, StartExisting
  <1>8. QED
    BY <1>5, <1>6, <1>7 DEF RunContainer

(* buildWorkspace reads StartedAt again.                                   *)
LEMMA RestBuild ==
    ASSUME RestInv, NEW p \in Caller, buildWorkspace(p)
    PROVE  BoxRest' /\ CallerRests(p)'
  <1>1. LifeTypeOK /\ BoxRest /\ box.started \in Nat
    BY FieldTypes DEF RestInv
  <1>2. Onward /\ UNCHANGED <<box, marker>>
    BY <1>1, OnwardSame DEF buildWorkspace, boxVars
  <1>3. CASE ReturnError(p)
    BY <1>2, <1>3, RestError DEF Onward
  <1>4. CASE \E view : /\ ws' = [ws EXCEPT ![p] =
                                     Handle(box.id, box.started, view)]
                       /\ pc' = [pc EXCEPT ![p] = "phase"]
    <2>1. ws'[p].started = box.started /\ pc'[p] = "phase"
      BY <1>1, <1>4 DEF Handle, LifeTypeOK
    <2>2. pc'[p] \notin Before /\ pc'[p] \notin InHook
      BY <2>1 DEF Before, InHook
    <2>3. HandleRest(p)'
      BY <1>1, <1>2, <2>1, <2>2 DEF HandleRest, BoxRest
    <2>4. QED
      BY <1>2, <2>2, <2>3 DEF CallerRests, PhaseRests, Onward
  <1>5. QED
    BY <1>3, <1>4 DEF buildWorkspace

(* The steps of a phase that change neither the container nor its markers. *)
LEMMA RestPhase ==
    ASSUME RestInv, NEW p \in Caller,
           \/ NextPhase(p) \/ PhasesDone(p) \/ StartHook(p)
           \/ HooksDone(p) \/ JoinHook(p) \/ Commands(p)
    PROVE  BoxRest' /\ CallerRests(p)'
  <1>1. LifeTypeOK /\ BoxRest
    BY DEF RestInv
  <1>2. /\ UNCHANGED <<box, marker, starts>> /\ ws' = ws
        /\ pc[p] \in {"phase", "hook", "exec"}
    BY DEF NextPhase, PhasesDone, StartHook, HooksDone, JoinHook, Commands,
           execCommand, boxVars
  <1>3. Onward
    BY <1>1, <1>2, OnwardSame
  <1>4. pc[p] \notin Before /\ pc'[p] \notin Before
    BY <1>1, <1>2 DEF NextPhase, PhasesDone, StartHook, HooksDone, JoinHook,
                      Commands, execCommand, Goto, Return, LifeTypeOK, Before
  <1>5. CASE NextPhase(p)
    <2>1. pc'[p] \in InHook => cur'[p] \notin Markered
      BY <1>1, <1>5 DEF NextPhase, LifeTypeOK, InHook
    <2>2. HandleRest(p)'
      BY <1>1, <1>2, <1>4 DEF HandleRest, RestInv, CallerRests, Exists
    <2>3. QED
      BY <1>3, <2>1, <2>2 DEF CallerRests, PhaseRests, Onward
  <1>6. CASE ~NextPhase(p)
    <2>1. pc'[p] \in InHook => pc[p] \in InHook /\ cur'[p] = cur[p]
      BY <1>1, <1>6 DEF PhasesDone, StartHook, HooksDone, JoinHook, Commands,
                        execCommand, Goto, Return, runVars, LifeTypeOK, InHook
    <2>2. QED
      BY <1>2, <1>3, <1>4, <2>1, RestKept DEF Onward
  <1>7. QED
    BY <1>5, <1>6

(***************************************************************************)
(* The marker that is read may be older than the Workspace's StartedAt,    *)
(* and that older than the container's: never the other way round, so a    *)
(* marker that is not the Workspace's is not the container's either.       *)
(***************************************************************************)
LEMMA RestRead ==
    ASSUME RestInv, "cut" \notin Faults, NEW p \in Caller, readMarker(p)
    PROVE  BoxRest' /\ CallerRests(p)'
  <1>1. /\ LifeTypeOK /\ BoxRest /\ CallerRests(p)
        /\ ws[p].started \in Nat /\ box.started \in Nat
    BY FieldTypes DEF RestInv
  <1>2. UNCHANGED <<box, marker, starts>> /\ pc[p] = "marker"
    BY DEF readMarker, boxVars
  <1>3. Onward
    BY <1>1, <1>2, OnwardSame
  <1>4. pc[p] \notin Before /\ pc[p] \notin InHook
    BY <1>2 DEF Before, InHook
  <1>5. CASE ReturnError(p)
    BY <1>3, <1>5, RestError DEF Onward
  <1>6. CASE Goto(p, "phase") /\ ws' = ws
    <2>1. pc'[p] = "phase" /\ pc'[p] \notin Before /\ pc'[p] \notin InHook
      BY <1>1, <1>6 DEF Goto, LifeTypeOK, Before, InHook
    <2>2. QED
      BY <1>3, <1>4, <1>6, <2>1, RestKept DEF Onward
  <1>7. CASE Running(ws[p].id) /\ shouldRun(p) /\ Goto(p, "hook") /\ ws' = ws
    <2>1. pc'[p] = "hook" /\ pc'[p] \notin Before /\ cur' = cur
      BY <1>1, <1>7 DEF Goto, LifeTypeOK, Before, runVars
    <2>2. HandleRest(p)'
      BY <1>1, <1>2, <1>4, <1>7, <2>1 DEF HandleRest, CallerRests, Exists
    <2>3. ASSUME cur[p] \in Markered, Exists(ws[p].id)
          PROVE  keyTimestampFor(cur[p], box) \notin marker[cur[p]]
      <3>1. keyTimestampFor(cur[p], ws[p]) \notin marker[cur[p]]
        BY <1>7 DEF shouldRun
      <3>2. CASE cur[p] # PostStart
        BY <1>7, <3>1, <3>2 DEF keyTimestampFor, Running
      <3>3. CASE cur[p] = PostStart
        <4>1. marker[PostStart] \in SUBSET Nat
          BY <1>1, <2>3, <3>3 DEF LifeTypeOK
        <4>2. /\ ws[p].started \notin marker[PostStart]
              /\ ws[p].started <= box.started
              /\ \A k \in marker[PostStart] : k <= ws[p].started
          BY <1>1, <1>4, <2>3, <3>1, <3>3
             DEF CallerRests, HandleRest, keyTimestampFor
        <4>3. box.started \notin marker[PostStart]
          BY <1>1, <4>1, <4>2
        <4>4. QED
          BY <3>3, <4>3 DEF keyTimestampFor
      <3>4. QED
        BY <3>2, <3>3
    <2>4. PhaseRests(p)'
      BY <1>2, <1>7, <2>1, <2>3 DEF PhaseRests, Exists, keyTimestampFor
    <2>5. QED
      BY <1>3, <2>2, <2>4 DEF CallerRests, Onward
  <1>8. QED
    BY <1>5, <1>6, <1>7 DEF readMarker

(* What is written is the Workspace's own key, or what was there before.   *)
LEMMA RestWrite ==
    ASSUME RestInv, NEW p \in Caller, writeMarker(p)
    PROVE  BoxRest' /\ CallerRests(p)'
  <1>1. /\ LifeTypeOK /\ BoxRest /\ CallerRests(p)
        /\ ws[p].id \in Nat /\ ws[p].started \in Nat
        /\ box.id \in Nat /\ box.started \in Nat
    BY FieldTypes DEF RestInv
  <1>2. UNCHANGED <<box, starts>> /\ pc[p] = "write" /\ pc[p] \notin Before
    BY DEF writeMarker, Before
  <1>3. pc'[p] \in {"phase", "idle"}
    BY <1>1 DEF writeMarker, ReturnError, Return, Goto, LifeTypeOK
  <1>4. pc'[p] \notin Before /\ pc'[p] \notin InHook
    BY <1>3 DEF Before, InHook
  <1>5. ws'[p] = ws[p] \/ ws'[p].id = 0
    BY <1>1 DEF writeMarker, ReturnError, NoHandle, Handle, LifeTypeOK
  <1>6. CASE marker' = marker
    <2>1. BoxRest'
      BY <1>1, <1>2, <1>6 DEF BoxRest
    <2>2. HandleRest(p)'
      BY <1>1, <1>2, <1>4, <1>5, <1>6 DEF HandleRest, CallerRests, Exists
    <2>3. QED
      BY <1>4, <2>1, <2>2 DEF CallerRests, PhaseRests
  <1>7. CASE /\ Running(ws[p].id)
             /\ \E m \in {{keyTimestampFor(cur[p], ws[p])}, {}, marker[cur[p]]} :
                   marker' = [marker EXCEPT ![cur[p]] = m]
    <2>1. box.state # "none" /\ Exists(ws[p].id)
      BY <1>1, <1>7 DEF Running, Exists, BoxRest
    <2>2. /\ ws[p].started <= box.started
          /\ \A k \in marker[PostStart] : k <= ws[p].started
      BY <1>1, <1>2, <2>1 DEF CallerRests, HandleRest
    <2>3. \A k \in marker'[PostStart] : k <= ws[p].started
      <3>1. CASE cur[p] = PostStart
        <4>1. PostStart \in Markered /\ DOMAIN marker = Markered
          BY <1>1 DEF LifeTypeOK, Markered, OnCreate, PostStart
        <4>2. PICK m \in {{ws[p].started}, {}, marker[PostStart]} :
                     marker' = [marker EXCEPT ![PostStart] = m]
          BY <1>7, <3>1 DEF keyTimestampFor
        <4>3. marker'[PostStart] = m
          BY <4>1, <4>2
        <4>4. QED
          BY <1>1, <2>2, <4>3
      <3>2. CASE cur[p] # PostStart
        <4>1. marker'[PostStart] = marker[PostStart]
          BY <1>1, <1>7, <3>2 DEF LifeTypeOK, Markered, OnCreate, PostStart
        <4>2. QED
          BY <2>2, <4>1
      <3>3. QED
        BY <3>1, <3>2
    <2>4. \A k \in marker'[PostStart] : k \in Nat
      BY <1>1, <2>3, TypeStep DEF LifeTypeOK, Markered, OnCreate, PostStart,
                                  LifeNext, Code
    <2>5. BoxRest'
      BY <1>1, <1>2, <2>1, <2>2, <2>3, <2>4 DEF BoxRest
    <2>6. HandleRest(p)'
      BY <1>1, <1>2, <1>4, <1>5, <2>2, <2>3 DEF HandleRest, Exists
    <2>7. QED
      BY <1>4, <2>5, <2>6 DEF CallerRests, PhaseRests
  <1>8. QED
    BY <1>6, <1>7 DEF writeMarker

LEMMA RestDown ==
    ASSUME RestInv, NEW p \in Caller, DownStop(p) \/ DownRemove(p)
    PROVE  BoxRest' /\ CallerRests(p)'
  <1>1. LifeTypeOK /\ BoxRest /\ ws[p].id \in Nat
    BY FieldTypes DEF RestInv
  <1>2. /\ ws' = ws /\ pc[p] \in {"downstop", "downremove"}
        /\ pc'[p] \in {"downremove", "idle"}
    BY <1>1 DEF DownStop, DownRemove, AfterStop, Goto, Return, LifeTypeOK
  <1>3. Onward
    BY <1>1, OnwardStop, OnwardDiscard, OnwardSame DEF DownStop, DownRemove
  <1>4. /\ pc[p] \notin Before /\ pc[p] \notin InHook
        /\ pc'[p] \notin Before /\ pc'[p] \notin InHook
    BY <1>2 DEF Before, InHook
  <1>5. QED
    BY <1>2, <1>3, <1>4, RestKept DEF Onward

LEMMA RestOutside ==
    ASSUME RestInv, Outside, NEW p \in Caller, \A q \in Caller : q = p
    PROVE  BoxRest' /\ CallerRests(p)'
  <1>1. /\ LifeTypeOK /\ BoxRest
        /\ starts \in Nat /\ box.id \in Nat /\ box.started \in Nat
    BY FieldTypes DEF RestInv
  <1>2. CASE ContainerExits \/ RestartedElsewhere \/ RemovedElsewhere \/ Cancel(p)
    <2>1. Onward
      <3>1. CASE ContainerExits
        BY <1>1, <3>1, OnwardState DEF ContainerExits
      <3>2. CASE RestartedElsewhere
        BY <1>1, <3>2, OnwardStart DEF RestartedElsewhere
      <3>3. CASE RemovedElsewhere
        BY <1>1, <3>3, OnwardDiscard DEF RemovedElsewhere
      <3>4. CASE Cancel(p)
        BY <1>1, <3>4, OnwardSame DEF Cancel, boxVars
      <3>5. QED
        BY <1>2, <3>1, <3>2, <3>3, <3>4
    <2>2. UNCHANGED <<pc, ws, call, cur>>
      BY <1>2 DEF ContainerExits, RestartedElsewhere, RemovedElsewhere, Cancel,
                  outside, callVars, runVars
    <2>3. QED
      BY <2>1, <2>2, RestKept DEF Onward
  <1>3. CASE CallerDies(p)
    <2>1. Onward
      BY <1>1, <1>3, OnwardSame DEF CallerDies, boxVars
    <2>2. ws'[p].id = 0 /\ pc'[p] = "idle" /\ pc'[p] \notin Before
      BY <1>1, <1>3 DEF CallerDies, Return, NoHandle, Handle, LifeTypeOK, Before
    <2>3. QED
      BY <2>1, <2>2, RestDropped DEF Onward
  <1>4. QED
    BY <1>2, <1>3 DEF Outside

LEMMA RestInit == LifeInit => RestInv
  <1> SUFFICES ASSUME LifeInit
               PROVE  RestInv
    OBVIOUS
  <1>1. LifeTypeOK
    BY TypeInit
  <1>2. BoxRest
    BY DEF LifeInit, BoxRest, NoBox, Box, NoMarkers, Markered, OnCreate, PostStart
  <1>3. ASSUME NEW p \in Caller
        PROVE  CallerRests(p)
    <2>1. ws[p].id = 0 /\ pc[p] = "idle"
      BY DEF LifeInit, NoHandle, Handle
    <2>2. QED
      BY <2>1 DEF CallerRests, HandleRest, PhaseRests, Before, Exists
  <1>4. QED
    BY <1>1, <1>2, <1>3 DEF RestInv

LEMMA RestStep ==
    ASSUME \A p, q \in Caller : p = q, "cut" \notin Faults,
           RestInv, [LifeNext]_lifeVars
    PROVE  RestInv'
  <1>1. LifeTypeOK /\ LifeTypeOK' /\ BoxRest
    BY TypeStep DEF RestInv
  <1>2. CASE UNCHANGED lifeVars
    <2>1. Onward
      BY <1>1, <1>2, OnwardSame DEF lifeVars, boxVars
    <2>2. UNCHANGED <<pc, ws, call, cur>>
      BY <1>2 DEF lifeVars, callVars, runVars
    <2>3. \A p \in Caller : CallerRests(p)'
      BY <2>1, <2>2, RestKept
    <2>4. QED
      BY <1>1, <2>1, <2>3 DEF RestInv, Onward
  <1>3. ASSUME NEW p \in Caller, Calls(p) \/ Code(p) \/ Commands(p) \/ Outside
        PROVE  BoxRest' /\ CallerRests(p)'
    BY <1>3, RestCalls, RestFind, RestStart, RestBuild, RestPhase, RestRead,
       RestWrite, RestDown, RestOutside DEF Code
  <1>4. CASE \E p \in Caller : Calls(p) \/ Code(p) \/ Commands(p)
    BY <1>1, <1>3, <1>4 DEF RestInv
  <1>5. CASE Outside
    <2>1. BoxRest'
      <3>1. CASE Caller # {}
        BY <1>3, <1>5, <3>1
      <3>2. CASE Caller = {}
        BY <1>1, <1>5, <3>2, OnwardState, OnwardStart, OnwardDiscard, FieldTypes
           DEF Outside, ContainerExits, RestartedElsewhere, RemovedElsewhere,
               Onward, LifeTypeOK, BoxType
      <3>3. QED
        BY <3>1, <3>2
    <2>2. QED
      BY <1>1, <1>3, <1>5, <2>1 DEF RestInv
  <1>6. QED
    BY <1>2, <1>4, <1>5 DEF LifeNext

(***************************************************************************)
(* With one caller, and unless the container dies under the very read, no  *)
(* phase runs that the container's markers say is done: for all hooks, all *)
(* Workspaces and all other faults (readMarker, shouldRun).                *)
(***************************************************************************)
THEOREM MarkedRests ==
    ASSUME \A p, q \in Caller : p = q, "cut" \notin Faults
    PROVE  LifeSpec => []MarkedPhaseRests
  <1>1. RestInv => MarkedPhaseRests
    BY DEF RestInv, CallerRests, PhaseRests, InHook, MarkedPhaseRests
  <1>2. RestInv /\ [LifeNext]_lifeVars => RestInv'
    BY RestStep
  <1>3. QED
    BY <1>1, <1>2, RestInit, PTL DEF LifeSpec

=============================================================================
