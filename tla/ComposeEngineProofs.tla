------------------------ MODULE ComposeEngineProofs ------------------------
(***************************************************************************)
(* Up of a compose workspace, for every set of options, every number of    *)
(* calls, versions and faults.  But for the types everything is proved for *)
(* a project that nobody else changes while a call runs (~Races); images   *)
(* other than the base may be untagged and containers exit at any time.    *)
(***************************************************************************)
EXTENDS ComposeEngine, TLAPS

(* The steps after the primary's tag has been chosen.                      *)
Tagged == {"user", "secrets", "sidecars", "side", "primary", "inspect"}

(* The full path, from its start.                                          *)
FullPath == {"prepare", "hash", "layer"} \cup Tagged

(* An image that was built from the inputs that a stamp stands for.        *)
BuiltFrom(i, h) == h # NoHash => i.rev = h.rev /\ i.base = h.base.base

(* The primary runs an image of the engine's own.                          *)
TagPart ==
    /\ ctrs["primary"].n # 0 => ctrs["primary"].spec.tag \in {"final", "uid"}
    /\ pc = "user" => call.tag = "final"
    /\ pc \in Tagged => call.tag \in {"final", "uid"}

TypeInv == TypeOK /\ TagPart

StampPart ==
    /\ BuiltFrom(ctrs["primary"].spec.image, ctrs["primary"].spec.hash)
    /\ ctrs["primary"].spec.hash # NoHash =>
         ctrs["primary"].spec.rev = ctrs["primary"].spec.hash.rev
    /\ pc = "retagged" =>
         /\ ctrs["primary"].n # 0
         /\ ctrs["primary"].spec.hash =
              composeInputsHash(call.rev, images["base"], call.o.backend)
    /\ pc = "layer" /\ call.hash # NoHash =>
         call.hash.rev = call.rev /\ call.hash.base = images["base"] /\ images["base"] # NoImage
    /\ pc \in Tagged =>
         /\ call.hash # NoHash => call.hash.rev = call.rev
         /\ images[call.tag] # NoImage => BuiltFrom(images[call.tag], call.hash)

(* The call found a container of the workspace when it began.              *)
WasFound == FindContainerByLabel(start.ctrs) # 0

(* What a call knows of itself.                                            *)
CallPart ==
    pc # "idle" =>
      /\ last = "ok" /\ call.rev # 0 /\ start.born <= born
      /\ pc = "stop" => call.o.op = "stop"
      /\ pc \notin {"attach", "down", "stop"} => call.o.op = "up"
      /\ call.o.op = "up" /\ ~call.o.recreate =>
           pc \notin {"recreate", "down"} /\ (call.existing # 0 <=> WasFound)

(* The tag names an image of the present files on the present base.        *)
CurrentPart ==
    start.well =>
      /\ pc \in Tagged =>
           /\ images[call.tag].rev = call.rev
           /\ images[call.tag].base = images["base"].base
      /\ pc = "inspect" /\ call.o.backend = "native" /\ ~call.o.adopt
           /\ ctrs["primary"].n # 0 /\ ctrs["primary"].by = "native" =>
             ctrs["primary"].spec = composeRunOverride("primary")

(* The call makes its containers anew.                                     *)
Afresh == start.well /\ call.o.op = "up" /\ (call.o.recreate \/ ~WasFound)

(* Everything is removed before anything is made, but for a sidecar alone  *)
(* that carries no label.                                                  *)
FreshPart ==
    pc # "idle" /\ Afresh =>
      /\ pc \in {"recreate", "down"} \cup FullPath
      /\ pc \in FullPath => call.existing = 0
      /\ WasFound /\ pc \in FullPath \ {"primary", "inspect"} => ctrs["side"].n = 0
      /\ WasFound /\ pc \in {"primary", "inspect"} => ctrs["side"].n > start.born
      /\ pc \in FullPath \ {"inspect"} => ctrs["primary"].n = 0
      /\ pc = "inspect" => /\ ctrs["primary"].n > start.born
                           /\ ctrs["primary"].spec.env = call.env
      /\ pc \in {"sidecars", "side", "primary", "inspect"} => call.env = call.o.env

Reattaching == start.well /\ start.restartable

(* What a reattach may cost the container the caller's variables are in.   *)
MayReplace == /\ call.o.backend = "native" /\ ~call.o.adopt
              /\ start.ctrs["primary"].spec.env # {}

Committing == {"sidecars", "side", "primary", "inspect"}

RestartPart ==
    pc # "idle" /\ Reattaching =>
      LET old == start.ctrs["primary"]
      IN  /\ pc \in {"reattach", "retagged"} \cup Committing
          /\ call.o.op = "up" /\ ~call.o.recreate /\ call.o.pull # "always"
          /\ ~start.fetched
          /\ images["base"] # NoImage /\ images["side"] # NoImage
          /\ old.n # 0 /\ old.spec.image # NoImage
          /\ old.spec.rev = call.rev
          /\ old.spec.hash = composeInputsHash(call.rev, images["base"], call.o.backend)
          /\ images[old.spec.tag] = old.spec.image
          /\ \/ /\ ctrs["primary"].n = old.n /\ ctrs["primary"].spec = old.spec
                /\ ctrs["primary"].by = old.by
             \/ pc \in {"primary", "inspect"} /\ MayReplace
          /\ pc \in Committing =>
               /\ call.reattach /\ call.tag = old.spec.tag /\ call.hash = old.spec.hash
               /\ call.env = {}
          /\ pc = "inspect" => ctrs["primary"].n # 0 /\ ctrs["primary"].running

(* The invariant of a call that nobody interferes with.                    *)
EngineInv ==
    TypeInv /\ StampPart /\ CallPart /\ CurrentPart /\ FreshPart /\ RestartPart

----------------------------------------------------------------------------
(* Types. *)

LEMMA Shapes ==
    /\ NoImage \in Image /\ NoHash \in Hash /\ NoSpec \in Definition
    /\ NoContainer \in Container /\ NoContainer.n = 0
    /\ NoCall \in CallType /\ NoStart \in StartType
    /\ \A v \in Nat : Source(v) \in Image
    /\ \A i \in Image : Mapped(i) \in Image
    /\ \A r \in 0..MaxRev, b \in Image, e \in {"native", "shellout"} :
         composeInputsHash(r, b, e) \in Hash
    /\ TypeOK => \A i \in Image, r \in 0..MaxRev : Layered(i, r) \in Image
  <1>1. 0 \in 0..MaxRev
    BY ComposeEngineAssumption
  <1>2. NoImage \in Image
    BY <1>1 DEF NoImage, Image
  <1>3. NoHash \in Hash
    BY <1>1, <1>2 DEF NoHash, Hash
  <1>4. NoSpec \in Definition
    BY <1>1, <1>2, <1>3 DEF NoSpec, Definition
  <1>5. NoContainer \in Container /\ NoContainer.n = 0
    BY <1>4 DEF NoContainer, Container
  <1>6. NoCall \in CallType
    BY <1>1, <1>3 DEF NoCall, CallType, Option, attempts
  <1>7. NoStart \in StartType
    BY <1>5 DEF NoStart, StartType
  <1>8. \A v \in Nat : Source(v) \in Image
    BY <1>1 DEF Source, Image
  <1>9. \A i \in Image : Mapped(i) \in Image
    BY DEF Mapped, Image
  <1>10. \A r \in 0..MaxRev, b \in Image, e \in {"native", "shellout"} :
           composeInputsHash(r, b, e) \in Hash
    BY DEF composeInputsHash, Hash
  <1>11. TypeOK => \A i \in Image, r \in 0..MaxRev : Layered(i, r) \in Image
    BY DEF TypeOK, Layered, Image
  <1>12. QED
    BY <1>2, <1>3, <1>4, <1>5, <1>6, <1>7, <1>8, <1>9, <1>10, <1>11

(* The label scan finds a container exactly when one carries the label.    *)
LEMMA ScanFinds ==
    ASSUME NEW cs \in [Service -> Container]
    PROVE  /\ FindContainerByLabel(cs) \in Nat
           /\ FindContainerByLabel(cs) # 0 <=> \E s \in Service : Labelled(cs, s)
  <1> DEFINE found == {cs[s].n : s \in {t \in Service : Labelled(cs, t)}}
  <1> DEFINE Newest(n) == n \in found \cup {0} /\ \A m \in found : m <= n
  <1>1. \A s \in Service : cs[s].n \in Nat
    BY DEF Container
  <1> DEFINE a == cs["side"].n
             b == cs["primary"].n
  <1>2. found \subseteq {a, b} /\ a \in Nat /\ b \in Nat
    BY <1>1 DEF Service
  <1>3. found # {} <=> \E s \in Service : Labelled(cs, s)
    OBVIOUS
  <1>4. 0 \notin found
    BY DEF Labelled
  <1>5. FindContainerByLabel(cs) = CHOOSE n \in found \cup {0} : \A m \in found : m <= n
    BY DEF FindContainerByLabel
  <1> HIDE DEF found, a, b
  <1>6. \E n : Newest(n)
    <2>1. CASE found = {}
      <3>1. Newest(0)
        BY <2>1
      <3>2. QED
        BY <3>1
    <2>2. CASE a \in found /\ (b \in found => b <= a)
      <3>1. Newest(a)
        BY <1>2, <2>2
      <3>2. QED
        BY <3>1
    <2>3. CASE b \in found /\ (a \in found => a <= b)
      <3>1. Newest(b)
        BY <1>2, <2>3
      <3>2. QED
        BY <3>1
    <2>4. QED
      BY <1>2, <2>1, <2>2, <2>3
  <1> DEFINE newest == FindContainerByLabel(cs)
  <1>7. newest \in found \cup {0} /\ \A m \in found : m <= newest
    BY <1>5, <1>6
  <1> HIDE DEF newest
  <1>8. newest \in Nat /\ (newest # 0 <=> found # {})
    <2>1. \A m \in found : m \in Nat /\ m # 0
      BY <1>2, <1>4
    <2>2. CASE found = {}
      BY <1>7, <2>2
    <2>3. ASSUME NEW m \in found PROVE newest \in Nat /\ newest # 0
      <3>1. newest \in Nat
        BY <1>7, <2>1
      <3>2. QED
        BY <1>7, <2>1, <3>1
    <2>4. QED
      BY <2>2, <2>3
  <1>9. QED
    BY <1>3, <1>8 DEF newest

(* What is left of a state's type when some of its variables stay.         *)
LEMMA TypeFrame ==
    ASSUME TypeOK,
           world' = world \/ world' \in [rev : 1..MaxRev, source : Nat, cache : Nat,
                                         online : BOOLEAN],
           incidents' = incidents \/ (incidents < MaxIncidents /\ incidents' = incidents + 1),
           calls' = calls \/ (calls < MaxCalls /\ calls' = calls + 1),
           images' = images \/ \E t \in Tag, i \in Image : images' = [images EXCEPT ![t] = i],
           \/ UNCHANGED <<ctrs, born>>
           \/ /\ UNCHANGED born
              /\ \E s \in Service : \/ ctrs' = [ctrs EXCEPT ![s] = NoContainer]
                                    \/ \E b \in BOOLEAN : ctrs' = [ctrs EXCEPT ![s].running = b],
           probe' = probe \/ probe' \in {"none", "ok", "failed"},
           last' = last \/ last' \in {"ok", "error", "failed"},
           pc' = pc \/ pc' \in {"idle", "attach", "recreate", "down", "stop", "reattach",
                                "retagged", "prepare", "hash", "layer", "user", "secrets",
                                "sidecars", "side", "primary", "inspect"},
           call' = call \/ call' \in CallType, start' = start \/ start' \in StartType
    PROVE  TypeOK'
  <1>1. images' \in [Tag -> Image]
    BY DEF TypeOK
  <1> DEFINE Made == /\ ctrs' \in [Service -> Container] /\ born' \in Nat
                     /\ \A s \in Service :
                          /\ ctrs'[s].n <= born'
                          /\ ctrs'[s].n # 0 => ctrs'[s].spec.image # NoImage
  <1>2. Made
    <2>1. CASE UNCHANGED <<ctrs, born>>
      BY <2>1 DEF TypeOK
    <2>2. ASSUME NEW s \in Service, ctrs' = [ctrs EXCEPT ![s] = NoContainer], UNCHANGED born
          PROVE  Made
      BY <2>2, Shapes DEF TypeOK
    <2>3. ASSUME NEW s \in Service, NEW b \in BOOLEAN, UNCHANGED born,
                 ctrs' = [ctrs EXCEPT ![s].running = b]
          PROVE  Made
      <3>1. ctrs[s] \in Container
        BY DEF TypeOK
      <3> DEFINE c == [ctrs[s] EXCEPT !.running = b]
      <3>2. c \in Container /\ c.n = ctrs[s].n /\ c.spec = ctrs[s].spec
        BY <3>1 DEF Container
      <3>3. ctrs' = [ctrs EXCEPT ![s] = c]
        BY <2>3
      <3> HIDE DEF c
      <3>4. QED
        BY <2>3, <3>2, <3>3 DEF TypeOK
    <2>4. QED
      BY <2>1, <2>2, <2>3
  <1>3. incidents' \in 0..MaxIncidents /\ calls' \in 0..MaxCalls
    BY ComposeEngineAssumption DEF TypeOK
  <1>4. QED
    BY <1>1, <1>2, <1>3 DEF TypeOK

LEMMA TypeStep == TypeInv /\ [Next]_vars => TypeOK'
  <1> SUFFICES ASSUME TypeOK, TagPart, [Next]_vars PROVE TypeOK'
    BY DEF TypeInv
  <1> USE Shapes
  <1>1. /\ call \in CallType /\ start \in StartType /\ images \in [Tag -> Image]
        /\ ctrs \in [Service -> Container] /\ world.source \in Nat /\ world.rev \in 0..MaxRev
    BY DEF TypeOK
  <1>2. \A t \in Tag : images[t] \in Image
    BY <1>1
  <1>3. /\ Fetched \in StartType /\ [start EXCEPT !.well = FALSE] \in StartType
    BY <1>1 DEF Fetched, StartType
  <1>4. ctrs["primary"] \in Container /\ ctrs["primary"].spec \in Definition
    BY <1>1 DEF Service, Container
  <1>5. /\ [call EXCEPT !.existing = 0] \in CallType
        /\ [call EXCEPT !.hash = NoHash] \in CallType
        /\ \A t \in Tag : [call EXCEPT !.tag = t] \in CallType
    BY <1>1 DEF CallType, Tag
  <1>6. ASSUME NEW o \in Options, Begin(o) PROVE TypeOK'
    <2>1. call' \in CallType
      <3>1. o \in Option
        BY ComposeEngineAssumption
      <3>2. \A n \in Nat :
              [NoCall EXCEPT !.o = o, !.rev = world.rev, !.existing = n] \in CallType
        BY <1>1, <3>1 DEF CallType
      <3>3. QED
        BY <1>1, <1>6, <3>2, ScanFinds DEF Begin
    <2>2. start' \in StartType
      BY <1>1, <1>6 DEF Begin, StartType, TypeOK, Restartable
    <2>3. /\ pc' \in {"attach", "stop", "down", "prepare", "recreate", "reattach"}
          /\ last' = "ok"
      BY <1>6, ComposeEngineAssumption DEF Begin, Option
    <2>4. /\ UNCHANGED <<world, incidents, images, ctrs, born, probe>>
          /\ calls < MaxCalls /\ calls' = calls + 1
      BY <1>6 DEF Begin
    <2>5. QED
      BY <2>1, <2>2, <2>3, <2>4, TypeFrame
  <1>7. CASE AttachWith \/ composeDownInspects \/ composeDownExisting \/ shutdownStopContainer
    BY <1>5, <1>7, TypeFrame DEF AttachWith, composeDownInspects, composeDownExisting,
         shutdownStopContainer, AfterDown, Move, Return, probeCompose
  <1>8. CASE ReattachInspects
    BY <1>8, TypeFrame DEF ReattachInspects, ReattachMiss, Move
  <1>9. CASE reattachCompose
    <2>1. call' \in CallType
      <3>1. ctrs["primary"].spec.tag \in Tag \cup {""} /\ ctrs["primary"].spec.hash \in Hash
        BY <1>4 DEF Definition
      <3>2. \A t \in Tag \cup {""}, h \in Hash :
              [call EXCEPT !.reattach = TRUE, !.tag = t, !.hash = h, !.env = {}] \in CallType
        BY <1>1 DEF CallType
      <3>3. [call EXCEPT !.reattach = TRUE, !.tag = ctrs["primary"].spec.tag,
                         !.hash = ctrs["primary"].spec.hash, !.env = {}] \in CallType
        BY <3>1, <3>2
      <3>4. QED
        BY <1>1, <1>9, <3>3 DEF reattachCompose, ReattachMiss, Committed
    <2>2. QED
      BY <1>9, <2>1, TypeFrame DEF reattachCompose, ReattachMiss, Committed, Move
  <1>10. CASE prepareComposeServiceImage
    BY <1>1, <1>3, <1>10, TypeFrame DEF prepareComposeServiceImage, Move, Return, Tag
  <1>11. CASE HashInputs
    <2>1. call' \in CallType
      <3>1. call.rev \in 0..MaxRev /\ call.o.backend \in {"native", "shellout"}
        BY <1>1 DEF CallType, Option
      <3>2. composeInputsHash(call.rev, images["base"], call.o.backend) \in Hash
        BY <1>2, <3>1 DEF Tag
      <3>3. \A h \in Hash : [call EXCEPT !.hash = h] \in CallType
        BY <1>1 DEF CallType
      <3>4. QED
        BY <1>11, <3>2, <3>3 DEF HashInputs
    <2>2. QED
      BY <1>11, <2>1, TypeFrame DEF HashInputs, Move
  <1>12. CASE reconcileRemoteUserUID
    BY <1>2, <1>5, <1>12, TypeFrame DEF reconcileRemoteUserUID, Move, Return, Tag
  <1>13. CASE collectSecretsEnv
    <2>1. call' \in CallType
      BY <1>1, <1>13 DEF collectSecretsEnv, CallType, Option
    <2>2. QED
      BY <1>13, <2>1, TypeFrame DEF collectSecretsEnv, Move
  <1>14. CASE buildComposeSidecarImages
    BY <1>1, <1>3, <1>14, TypeFrame DEF buildComposeSidecarImages, Move, Tag
  <1>15. CASE ComposeUp
    BY <1>1, <1>3, <1>15, TypeFrame DEF ComposeUp, Move, Return, probeCompose, Tag
  <1>16. ASSUME NEW s \in Service, KeepService(s) \/ RemoveService(s) PROVE TypeOK'
    BY <1>16, TypeFrame DEF KeepService, RemoveService, Move, Then, Service
  <1>17. CASE buildWorkspace
    <2>1. call' = call \/ call' \in CallType
      <3>1. call.tries \in 0..(attempts - 1)
        BY <1>1 DEF CallType
      <3>2. call.tries # attempts - 1 => call.tries + 1 \in 0..(attempts - 1)
        BY <3>1 DEF attempts
      <3>3. \A k \in 0..(attempts - 1) : [call EXCEPT !.tries = k] \in CallType
        BY <1>1 DEF CallType
      <3>4. QED
        BY <1>17, <3>2, <3>3 DEF buildWorkspace, Return
    <2>2. QED
      BY <1>17, <2>1, TypeFrame DEF buildWorkspace, Move, Return
  <1>18. CASE Fault
    BY <1>3, <1>5, <1>18, TypeFrame DEF Fault, removeContainer, ReattachFails, HashFails,
         effectiveContainerUserFails, CallFails, ProbeFails, Crash, Incident, GoesOn, Service
  <1>19. CASE Edit \/ Publish \/ PruneCache \/ Network
    <2>1. world' \in [rev : 1..MaxRev, source : Nat, cache : Nat, online : BOOLEAN]
      <3>1. world \in [rev : 1..MaxRev, source : Nat, cache : Nat, online : BOOLEAN]
        BY DEF TypeOK
      <3>2. CASE Edit
        BY <3>1, <3>2 DEF Edit
      <3>3. CASE Publish
        BY <3>1, <3>3 DEF Publish
      <3>4. CASE PruneCache
        BY <3>1, <3>4 DEF PruneCache
      <3>5. CASE Network
        BY <3>1, <3>5 DEF Network
      <3>6. QED
        BY <1>19, <3>2, <3>3, <3>4, <3>5
    <2>2. QED
      BY <1>19, <2>1, TypeFrame DEF Edit, Publish, PruneCache, Network, Change
  <1>20. CASE Pull \/ Untag \/ RemoveByHand \/ Exit
    BY <1>1, <1>3, <1>20, TypeFrame DEF Pull, Untag, RemoveByHand, Exit, Change, Incident,
         GoesOn, Tag
  <1>21. CASE layerFeatures
    <2>1. CASE UNCHANGED images
      BY <1>3, <1>5, <1>21, <2>1, TypeFrame DEF layerFeatures, Return, Tag
    <2>2. CASE ~UNCHANGED images
      <3> DEFINE base == IF images["base"] # NoImage THEN images["base"]
                         ELSE Source(world.source)
      <3>1. base \in Image
        BY <1>1, <1>2 DEF Tag
      <3>2. Layered(base, call.rev) \in Image
        BY <1>1, <3>1 DEF CallType
      <3> HIDE DEF base
      <3>3. images' = [images EXCEPT !["base"] = base, !["final"] = Layered(base, call.rev)]
        BY <1>21, <2>2 DEF layerFeatures, base
      <3>4. images' \in [Tag -> Image]
        BY <1>1, <3>1, <3>2, <3>3
      <3>5. /\ UNCHANGED <<world, incidents, calls, ctrs, born, probe, last>>
            /\ pc' = "user" /\ call' \in CallType /\ start' \in StartType
        BY <1>3, <1>5, <1>21, <2>2 DEF layerFeatures, Tag
      <3>6. QED
        BY <3>4, <3>5 DEF TypeOK
    <2>3. QED
      BY <2>1, <2>2
  <1>22. ASSUME NEW s \in Service, RunService(s) PROVE TypeOK'
    <2> DEFINE spec == composeRunOverride(s)
    <2> DEFINE c == [n |-> born + 1, running |-> TRUE, by |-> call.o.backend, spec |-> spec]
    <2>1. CASE spec.image = NoImage
      BY <1>22, <2>1, TypeFrame DEF RunService, Return
    <2>2. CASE spec.image # NoImage
      <3>1. call.tag \in Tag \/ s = "side"
        BY <1>22 DEF RunService, Ready, Service, TagPart, Tagged, Tag
      <3>2. call.rev \in 0..MaxRev /\ call.env \in SUBSET Env /\ call.hash \in Hash
            /\ call.o.backend \in {"native", "shellout"}
        BY <1>1 DEF CallType, Option
      <3>3. spec \in Definition
        <4>1. CASE s = "primary"
          BY <1>2, <3>1, <3>2, <4>1 DEF composeRunOverride, Definition
        <4>2. CASE s = "side"
          BY <1>2, <3>2, <4>2 DEF composeRunOverride, Definition, NoSpec, Tag
        <4>3. QED
          BY <4>1, <4>2 DEF Service
      <3> HIDE DEF spec
      <3>4. c \in Container /\ c.n = born + 1 /\ c.spec.image # NoImage
        BY <2>2, <3>2, <3>3 DEF Container, TypeOK
      <3>5. /\ ctrs' = [ctrs EXCEPT ![s] = c] /\ born' = born + 1
            /\ UNCHANGED <<world, incidents, calls, images, probe, call, last, start>>
            /\ pc' \in {"primary", "inspect"}
        BY <1>22, <2>2 DEF RunService, Move, Then, spec
      <3> HIDE DEF c
      <3>6. /\ ctrs' \in [Service -> Container] /\ born' \in Nat
            /\ \A t \in Service : /\ ctrs'[t].n <= born'
                                  /\ ctrs'[t].n # 0 => ctrs'[t].spec.image # NoImage
        BY <3>4, <3>5 DEF TypeOK, Container
      <3>7. QED
        BY <3>5, <3>6 DEF TypeOK
    <2>3. QED
      BY <2>1, <2>2
  <1>23. CASE UNCHANGED vars
    BY <1>23 DEF vars, TypeOK
  <1>24. QED
    BY <1>6, <1>7, <1>8, <1>9, <1>10, <1>11, <1>12, <1>13, <1>14, <1>15, <1>16, <1>17,
       <1>18, <1>19, <1>20, <1>21, <1>22, <1>23 DEF Next, Step, World

----------------------------------------------------------------------------
(* The invariant, for a project that nobody else changes during a call. *)

Parts == TagPart /\ StampPart /\ CallPart /\ CurrentPart /\ FreshPart /\ RestartPart

(* The primary keeps what it was made from.                                *)
SamePrimary ==
    /\ ctrs'["primary"].n = ctrs["primary"].n /\ ctrs'["primary"].by = ctrs["primary"].by
    /\ ctrs'["primary"].spec = ctrs["primary"].spec

SameNumbers == \A s \in Service : ctrs'[s].n = ctrs[s].n

(* Between calls only the containers matter.                               *)
LEMMA IdleStep ==
    ASSUME EngineInv, pc' = "idle", SamePrimary \/ ctrs'["primary"] = NoContainer
    PROVE  Parts'
  <1>1. TagPart'
    BY Shapes DEF EngineInv, TypeInv, TagPart, SamePrimary, Tagged
  <1>2. StampPart'
    <2>1. NoContainer.spec.hash = NoHash
      BY DEF NoContainer, NoSpec
    <2>2. QED
      BY <2>1 DEF EngineInv, StampPart, SamePrimary, BuiltFrom, Tagged
  <1>3. CallPart' /\ CurrentPart' /\ FreshPart' /\ RestartPart'
    BY DEF CallPart, CurrentPart, FreshPart, RestartPart, Tagged
  <1>4. QED
    BY <1>1, <1>2, <1>3 DEF Parts

(* What an engine's state is made of.                                      *)
LEMMA Fields ==
    ASSUME TypeOK
    PROVE  /\ call \in CallType /\ start \in StartType /\ images \in [Tag -> Image]
           /\ ctrs \in [Service -> Container] /\ born \in Nat
           /\ \A s \in Service : ctrs[s] \in Container /\ ctrs[s].n \in Nat
           /\ start.born \in Nat
           /\ Fetched.well = start.well /\ Fetched.restartable = start.restartable
           /\ Fetched.born = start.born /\ Fetched.ctrs = start.ctrs
           /\ [start EXCEPT !.well = FALSE].well = FALSE
           /\ [start EXCEPT !.well = FALSE].born = start.born
           /\ [start EXCEPT !.well = FALSE].ctrs = start.ctrs
  <1>1. /\ call \in CallType /\ start \in StartType /\ images \in [Tag -> Image]
        /\ ctrs \in [Service -> Container] /\ born \in Nat
    BY DEF TypeOK
  <1>2. \A s \in Service : ctrs[s] \in Container /\ ctrs[s].n \in Nat
    BY <1>1 DEF Container
  <1>3. QED
    BY <1>1, <1>2 DEF StartType, Fetched

(* The primary carries the label, whichever backend made it.               *)
LEMMA PrimaryFound ==
    ASSUME TypeOK
    PROVE  /\ FindContainerByLabel(ctrs) = 0 => ctrs["primary"].n = 0
           /\ ~WasFound => start.ctrs["primary"].n = 0
  <1>1. ctrs \in [Service -> Container] /\ start.ctrs \in [Service -> Container]
    BY Fields DEF StartType
  <1>2. \A cs : cs["primary"].n # 0 => Labelled(cs, "primary")
    BY DEF Labelled
  <1>3. QED
    BY <1>1, <1>2, ScanFinds DEF WasFound, Service

LEMMA BeginStep ==
    ASSUME EngineInv, NEW o \in Options, Begin(o)
    PROVE  Parts'
  <1> TypeOK /\ StampPart /\ TagPart
    BY DEF EngineInv, TypeInv
  <1> DEFINE existing == FindContainerByLabel(ctrs)
  <1>0. /\ UNCHANGED <<images, ctrs, born>> /\ last' = "ok"
        /\ o.op \in {"up", "attach", "stop", "remove"}
    BY ComposeEngineAssumption DEF Begin, Option
  <1>1. /\ pc' \in {"attach", "stop", "down", "prepare", "recreate", "reattach"}
        /\ pc' = "stop" <=> o.op = "stop"
        /\ pc' = "attach" <=> o.op = "attach"
        /\ pc' = "down" <=> o.op = "remove"
        /\ pc' = "recreate" => o.recreate
        /\ pc' = "prepare" => existing = 0
        /\ pc' = "reattach" => ~o.recreate
        /\ pc' \notin {"attach", "down", "stop"} => o.op = "up"
        /\ o.op = "up" /\ ~o.recreate /\ existing # 0 => pc' = "reattach"
        /\ o.op = "up" /\ o.recreate /\ existing # 0 => pc' = "recreate"
        /\ o.op = "up" /\ existing = 0 => pc' = "prepare"
    <2>1. pc' = CASE o.op \in {"attach", "stop"} -> o.op
                  [] o.op = "remove" -> "down"
                  [] o.op = "up" /\ existing = 0 -> "prepare"
                  [] o.op = "up" /\ existing # 0 ->
                       IF o.recreate THEN "recreate" ELSE "reattach"
      BY DEF Begin
    <2> HIDE DEF existing
    <2>2. QED
      BY <1>0, <2>1
  <1>2. call'.o = o /\ call'.rev = world.rev /\ call'.existing = existing
    <2>1. call' = [NoCall EXCEPT !.o = o, !.rev = world.rev, !.existing = existing]
      BY DEF Begin
    <2> HIDE DEF existing
    <2>2. QED
      BY <2>1, Shapes DEF CallType
  <1>3. /\ start'.ctrs = ctrs /\ start'.born = born /\ start'.restartable = Restartable(o)
        /\ ~start'.fetched /\ start'.well
    BY DEF Begin
  <1>4. world.rev # 0 /\ born \in Nat
    BY DEF TypeOK
  <1>5. TagPart' /\ StampPart' /\ CurrentPart'
    BY <1>0, <1>1 DEF TagPart, StampPart, CurrentPart, BuiltFrom, Tagged
  <1>6. CallPart'
    <2>1. WasFound' <=> existing # 0
      BY <1>3 DEF WasFound
    <2> HIDE DEF existing
    <2>2. QED
      BY <1>0, <1>1, <1>2, <1>3, <1>4, <2>1 DEF CallPart
  <1>7. FreshPart'
    <2>1. existing = 0 => ctrs["primary"].n = 0
      BY PrimaryFound
    <2>2. WasFound' <=> existing # 0
      BY <1>3 DEF WasFound
    <2> HIDE DEF existing
    <2> SUFFICES ASSUME Afresh' PROVE FreshPart'
      BY DEF FreshPart
    <2>3. o.op = "up" /\ (o.recreate \/ existing = 0)
      BY <1>2, <2>2 DEF Afresh
    <2>4. pc' = "recreate" \/ (pc' = "prepare" /\ existing = 0)
      BY <1>0, <1>1, <2>3
    <2>5. QED
      BY <1>0, <1>1, <1>2, <2>1, <2>2, <2>4 DEF FreshPart, FullPath, Tagged
  <1>8. RestartPart'
    <2>1. ASSUME Restartable(o) PROVE RestartPart'
      <3>1. /\ o.op = "up" /\ ~o.recreate /\ o.pull # "always"
            /\ ctrs["primary"].n # 0 /\ images["base"] # NoImage /\ images["side"] # NoImage
            /\ ctrs["primary"].spec.hash =
                 composeInputsHash(world.rev, images["base"], o.backend)
            /\ images[ctrs["primary"].spec.tag] = ctrs["primary"].spec.image
        BY <2>1 DEF Restartable
      <3>2. ctrs["primary"].spec.image # NoImage
        BY <3>1 DEF TypeOK, Service
      <3>3. ctrs["primary"].spec.rev = world.rev
        BY <1>4, <3>1 DEF StampPart, composeInputsHash, NoHash
      <3>4. pc' = "reattach"
        BY <1>1, <3>1, PrimaryFound
      <3> HIDE DEF existing
      <3>5. QED
        BY <1>0, <1>2, <1>3, <3>1, <3>2, <3>3, <3>4
           DEF RestartPart, Committing, Reattaching, composeInputsHash
    <2>2. QED
      BY <1>3, <2>1 DEF RestartPart, Reattaching
  <1>9. QED
    BY <1>5, <1>6, <1>7, <1>8 DEF Parts

(* Off the reattach path, for a container that may be reattached to.       *)
LEMMA NoRestart ==
    ASSUME EngineInv, pc # "idle",
           start'.well => start.well /\ start'.restartable = start.restartable,
           \/ pc \in {"prepare", "hash", "layer", "user", "secrets", "recreate", "down",
                     "stop"}
           \/ ~start'.well
    PROVE  RestartPart'
  BY DEF EngineInv, RestartPart, Reattaching, Committing

(* Attach, and the ways in which a project or a container is taken down.   *)
LEMMA DownStep ==
    ASSUME EngineInv,
           \/ AttachWith \/ composeDownInspects \/ composeDownExisting \/ removeContainer
           \/ shutdownStopContainer
    PROVE  Parts'
  <1> TypeOK /\ StampPart /\ TagPart /\ CallPart /\ FreshPart /\ RestartPart
    BY DEF EngineInv, TypeInv
  <1> USE Fields
  <1> USE DEF AttachWith, composeDownInspects, composeDownExisting, removeContainer,
              shutdownStopContainer
  <1>1. ASSUME NEW s \in Service, ctrs' = [ctrs EXCEPT ![s].running = FALSE] PROVE SamePrimary
    BY <1>1 DEF SamePrimary, Service, Container
  <1>2. ASSUME NEW s \in Service, ctrs' = [ctrs EXCEPT ![s] = NoContainer]
        PROVE  SamePrimary \/ ctrs'["primary"] = NoContainer
    BY <1>2 DEF SamePrimary, Service
  <1>3. SamePrimary \/ ctrs'["primary"] = NoContainer
    <2>1. \/ UNCHANGED ctrs
          \/ \E s \in Service : \/ ctrs' = [ctrs EXCEPT ![s] = NoContainer]
                                \/ ctrs' = [ctrs EXCEPT ![s].running = FALSE]
      OBVIOUS
    <2>2. UNCHANGED ctrs => SamePrimary
      BY DEF SamePrimary
    <2>3. QED
      BY <1>1, <1>2, <2>1, <2>2
  <1>4. CASE pc' = "idle"
    BY <1>3, <1>4, IdleStep
  <1>5. CASE pc' # "idle"
    <2>1. /\ pc \in {"recreate", "down"} /\ UNCHANGED <<images, born, last>>
          /\ pc' = "down" \/ (pc' = "prepare" /\ call.o.op = "up")
          /\ start' = start \/ start' = [start EXCEPT !.well = FALSE]
          /\ pc' = "down" => UNCHANGED <<call, start>>
          /\ pc' = "prepare" => /\ call' = [call EXCEPT !.existing = 0]
                                /\ \/ start' = [start EXCEPT !.well = FALSE]
                                   \/ \A s \in Service : ctrs'[s].n = 0
      <3>1. CASE composeDownInspects
        BY <1>5, <3>1 DEF Return, Move, CallPart
      <3>2. CASE composeDownExisting
        BY <1>5, <3>2 DEF Return, AfterDown, Move
      <3>3. CASE removeContainer
        BY <3>3 DEF GoesOn, Incident, CallPart
      <3>4. QED
        BY <1>5, <3>1, <3>2, <3>3 DEF Return
    <2>2. /\ call'.o = call.o /\ call'.rev = call.rev
          /\ pc' = "prepare" => call'.existing = 0
          /\ pc' = "down" => call'.existing = call.existing
      BY <2>1 DEF CallType
    <2>3. /\ start'.born = start.born /\ start'.ctrs = start.ctrs
          /\ start'.restartable = start.restartable /\ (start'.well => start.well)
      BY <2>1, Fields DEF StartType
    <2>4. NoContainer.n = 0 /\ NoContainer.spec.hash = NoHash
      BY DEF NoContainer, NoSpec
    <2>5. TagPart' /\ StampPart' /\ CurrentPart'
      BY <1>3, <2>1, <2>4 DEF TagPart, StampPart, CurrentPart, BuiltFrom, Tagged, SamePrimary
    <2>6. CallPart'
      BY <2>1, <2>2, <2>3 DEF CallPart
    <2>7. FreshPart'
      <3>1. pc' = "prepare" /\ start'.well => ctrs'["primary"].n = 0 /\ ctrs'["side"].n = 0
        BY <2>1 DEF Service
      <3>2. QED
        BY <2>1, <2>2, <3>1 DEF FreshPart, Afresh, FullPath, Tagged
    <2>8. RestartPart'
      BY <2>1, <2>3, NoRestart
    <2>9. QED
      BY <2>5, <2>6, <2>7, <2>8 DEF Parts
  <1>6. QED
    BY <1>4, <1>5

(* A step that goes on with the full path and leaves the containers alone. *)
LEMMA PathStep ==
    ASSUME EngineInv, pc # "idle", UNCHANGED <<ctrs, born, last>>,
           /\ call'.o = call.o /\ call'.rev = call.rev /\ call'.existing = call.existing
           /\ start'.born = start.born /\ start'.ctrs = start.ctrs
           /\ start'.well => start.well /\ start'.restartable = start.restartable,
           \/ pc \in {"reattach", "retagged"} /\ pc' = "prepare"
           \/ /\ pc \in FullPath \ {"primary", "inspect"}
              /\ pc' \in FullPath \ {"primary", "inspect"},
           pc' \in {"sidecars", "side"} /\ Afresh' =>
             call'.env = call.o.env \/ (pc \in {"sidecars", "side"} /\ call'.env = call.env)
    PROVE  CallPart' /\ FreshPart'
  <1> CallPart /\ FreshPart
    BY DEF EngineInv
  <1> USE DEF FullPath, Tagged
  <1>1. CallPart'
    BY DEF CallPart, WasFound
  <1>2. FreshPart'
    <2> SUFFICES ASSUME Afresh' PROVE FreshPart'
      BY DEF FreshPart
    <2>1. Afresh /\ (WasFound' <=> WasFound)
      BY DEF Afresh, WasFound
    <2>2. /\ call'.existing = 0 /\ ctrs'["primary"].n = 0
          /\ WasFound' => ctrs'["side"].n = 0
      BY <2>1 DEF FreshPart
    <2>3. pc' \in {"sidecars", "side"} => call'.env = call'.o.env
      BY <2>1 DEF FreshPart, Afresh
    <2>4. QED
      BY <2>2, <2>3 DEF FreshPart
  <1>3. QED
    BY <1>1, <1>2

LEMMA ReattachStep ==
    ASSUME EngineInv, ReattachInspects
    PROVE  Parts'
  <1> TypeOK /\ TagPart /\ StampPart /\ CallPart /\ RestartPart
    BY DEF EngineInv, TypeInv
  <1> DEFINE c == ctrs["primary"]
  <1> DEFINE hit == /\ call.o.pull # "always" /\ c.n # 0 /\ c.spec.hash # NoHash
                    /\ images["base"] # NoImage
                    /\ c.spec.hash = composeInputsHash(call.rev, images["base"], call.o.backend)
  <1>1. /\ pc = "reattach" /\ UNCHANGED <<images, ctrs, born, call, last, start>>
        /\ pc' = IF hit THEN "retagged" ELSE "prepare"
    BY DEF ReattachInspects, ReattachMiss, Move
  <1>2. TagPart' /\ CurrentPart'
    BY <1>1 DEF TagPart, CurrentPart, Tagged
  <1>3. StampPart'
    BY <1>1 DEF StampPart, BuiltFrom, Tagged, composeInputsHash
  <1>4. CallPart'
    BY <1>1 DEF CallPart, WasFound
  <1>5. FreshPart'
    BY <1>1 DEF EngineInv, FreshPart, Afresh, WasFound, FullPath, Tagged
  <1>6. RestartPart'
    <2>1. Reattaching => hit
      <3> SUFFICES ASSUME Reattaching PROVE hit
        OBVIOUS
      <3>1. /\ call.o.pull # "always" /\ c.n # 0 /\ images["base"] # NoImage
            /\ c.spec.hash = composeInputsHash(call.rev, images["base"], call.o.backend)
        BY <1>1 DEF RestartPart, Committing
      <3>2. c.spec.hash # NoHash
        BY <1>1, <3>1 DEF CallPart, composeInputsHash, NoHash
      <3>3. QED
        BY <3>1, <3>2
    <2> HIDE DEF hit
    <2>2. Reattaching' => pc' = "retagged"
      BY <1>1, <2>1 DEF Reattaching
    <2>3. QED
      BY <1>1, <2>2 DEF RestartPart, Reattaching, Committing, MayReplace, composeInputsHash
  <1>7. QED
    BY <1>2, <1>3, <1>4, <1>5, <1>6 DEF Parts

LEMMA CommitStep ==
    ASSUME EngineInv, reattachCompose
    PROVE  Parts'
  <1> TypeOK /\ TagPart /\ StampPart /\ CallPart /\ RestartPart /\ FreshPart
    BY DEF EngineInv, TypeInv
  <1> DEFINE c == ctrs["primary"]
  <1>1. /\ pc = "retagged" /\ UNCHANGED <<images, ctrs, born, last, start>>
        /\ c.n # 0 /\ c.spec.tag \in {"final", "uid"}
        /\ c.spec.hash = composeInputsHash(call.rev, images["base"], call.o.backend)
    BY DEF reattachCompose, ReattachMiss, Committed, Move, StampPart, TagPart
  <1>2. c.spec.hash # NoHash /\ c.spec.hash.rev = call.rev /\ c.spec.hash.base = images["base"]
    BY <1>1 DEF CallPart, composeInputsHash, NoHash
  <1>3. ~Afresh
    BY <1>1 DEF FreshPart, FullPath, Tagged
  <1>4. CASE images[c.spec.tag] = c.spec.image
    <2>1. pc' \in {"sidecars", "side"}
      BY <1>1, <1>4 DEF reattachCompose, Committed, Move
    <2>2. /\ call'.o = call.o /\ call'.rev = call.rev /\ call'.existing = call.existing
          /\ call'.reattach /\ call'.tag = c.spec.tag /\ call'.hash = c.spec.hash
          /\ call'.env = {}
      BY <1>1, <1>4, Fields DEF reattachCompose, Committed, CallType
    <2>3. TagPart'
      BY <1>1, <2>1, <2>2 DEF TagPart, Tagged
    <2>4. BuiltFrom(c.spec.image, c.spec.hash)
      BY DEF StampPart
    <2>5. StampPart'
      BY <1>1, <1>2, <1>4, <2>1, <2>2, <2>4 DEF StampPart, Tagged
    <2>6. CallPart' /\ FreshPart'
      BY <1>1, <1>3, <2>1, <2>2 DEF CallPart, FreshPart, Afresh, WasFound
    <2>7. CurrentPart'
      BY <1>1, <1>2, <1>4, <2>1, <2>2, <2>4 DEF CurrentPart, Tagged, BuiltFrom
    <2>8. RestartPart'
      <3> SUFFICES ASSUME Reattaching PROVE RestartPart'
        BY <1>1 DEF RestartPart, Reattaching
      <3>1. c.spec = start.ctrs["primary"].spec
        BY <1>1 DEF RestartPart
      <3>2. QED
        BY <1>1, <2>1, <2>2, <3>1 DEF RestartPart, Committing, composeInputsHash, MayReplace,
           Reattaching
    <2>9. QED
      BY <2>3, <2>5, <2>6, <2>7, <2>8 DEF Parts
  <1>5. CASE images[c.spec.tag] # c.spec.image
    <2>1. pc' = "prepare" /\ UNCHANGED call
      BY <1>1, <1>5 DEF reattachCompose, ReattachMiss, Move
    <2>2. TagPart' /\ StampPart' /\ CurrentPart'
      BY <1>1, <2>1 DEF TagPart, StampPart, CurrentPart, Tagged, BuiltFrom
    <2>3. CallPart' /\ FreshPart'
      BY <1>1, <1>3, <2>1 DEF CallPart, FreshPart, Afresh, WasFound
    <2>4. ~Reattaching
      BY <1>1, <1>5 DEF RestartPart
    <2>5. RestartPart'
      BY <1>1, <2>4 DEF RestartPart, Reattaching
    <2>6. QED
      BY <2>2, <2>3, <2>5 DEF Parts
  <1>6. QED
    BY <1>4, <1>5

(* The steps before the features are layered.                              *)
LEMMA PrepareStep ==
    ASSUME EngineInv, prepareComposeServiceImage \/ HashInputs \/ HashFails \/ ReattachFails
    PROVE  Parts'
  <1> TypeOK /\ TagPart /\ StampPart
    BY DEF EngineInv, TypeInv
  <1>1. CASE pc' = "idle"
    BY <1>1, IdleStep DEF prepareComposeServiceImage, HashInputs, HashFails, ReattachFails,
       Move, GoesOn, SamePrimary
  <1>2. CASE pc' # "idle"
    <2>1. /\ UNCHANGED <<ctrs, born, last>> /\ pc \in {"prepare", "hash", "reattach", "retagged"}
          /\ start' \in {start, Fetched, [start EXCEPT !.well = FALSE]}
          /\ pc \in {"reattach", "retagged"} =>
               pc' = "prepare" /\ start' = [start EXCEPT !.well = FALSE]
          /\ pc = "prepare" => pc' = "hash"
          /\ pc = "hash" => pc' = "layer" /\ UNCHANGED images
          /\ \/ UNCHANGED call
             \/ \E h : call' = [call EXCEPT !.hash = h]
      BY <1>2 DEF prepareComposeServiceImage, HashInputs, HashFails, ReattachFails, Move,
         GoesOn, Incident, Return
    <2>2. call'.o = call.o /\ call'.rev = call.rev /\ call'.existing = call.existing
      BY <2>1, Fields DEF CallType
    <2>3. /\ start'.born = start.born /\ start'.ctrs = start.ctrs
          /\ start'.well => start.well /\ start'.restartable = start.restartable
      BY <2>1, Fields
    <2>4. pc' \in {"prepare", "hash", "layer"}
      BY <2>1
    <2>5. CallPart' /\ FreshPart'
      BY <2>1, <2>2, <2>3, <2>4, PathStep DEF FullPath
    <2>6. RestartPart'
      <3>1. pc \in {"prepare", "hash"} \/ ~start'.well
        BY <2>1, Fields
      <3>2. QED
        BY <2>1, <2>3, <3>1, NoRestart
    <2>7. TagPart' /\ CurrentPart'
      BY <2>1, <2>4 DEF TagPart, CurrentPart, Tagged
    <2>8. StampPart'
      <3>1. pc' = "layer" => \/ call'.hash = NoHash
                             \/ /\ images["base"] # NoImage /\ call'.hash.rev = call.rev
                                /\ call'.hash.base = images["base"]
        <4>1. ASSUME pc' = "layer"
              PROVE  \/ call' = [call EXCEPT !.hash = NoHash]
                     \/ /\ images["base"] # NoImage
                        /\ call' = [call EXCEPT !.hash =
                             composeInputsHash(call.rev, images["base"], call.o.backend)]
          BY <2>1, <4>1 DEF prepareComposeServiceImage, HashInputs, HashFails, ReattachFails
        <4>2. \A h : [call EXCEPT !.hash = h].hash = h
          BY Fields DEF CallType
        <4>3. LET h == composeInputsHash(call.rev, images["base"], call.o.backend)
              IN  h.rev = call.rev /\ h.base = images["base"]
          BY DEF composeInputsHash
        <4>4. QED
          BY <4>1, <4>2, <4>3
      <3>2. QED
        BY <2>1, <2>2, <2>4, <3>1 DEF StampPart, BuiltFrom, Tagged
    <2>9. QED
      BY <2>5, <2>6, <2>7, <2>8 DEF Parts
  <1>3. QED
    BY <1>1, <1>2

LEMMA LayerStep ==
    ASSUME EngineInv, layerFeatures
    PROVE  Parts'
  <1> TypeOK /\ TagPart /\ StampPart
    BY DEF EngineInv, TypeInv
  <1>1. CASE pc' = "idle"
    BY <1>1, IdleStep DEF layerFeatures, SamePrimary
  <1>2. CASE pc' # "idle"
    <2> DEFINE base == IF images["base"] # NoImage THEN images["base"] ELSE Source(world.source)
    <2>1. /\ UNCHANGED <<ctrs, born, last>> /\ pc = "layer" /\ pc' = "user" /\ start' = Fetched
          /\ images' = [images EXCEPT !["base"] = base, !["final"] = Layered(base, call.rev)]
          /\ call' = [call EXCEPT !.tag = "final"]
      BY <1>2 DEF layerFeatures, Return
    <2>2. images["base"] # NoImage => base = images["base"]
      OBVIOUS
    <2> HIDE DEF base
    <2>3. /\ call'.o = call.o /\ call'.rev = call.rev /\ call'.existing = call.existing
          /\ call'.tag = "final" /\ call'.hash = call.hash
      BY <2>1, Fields DEF CallType
    <2>4. images'["base"] = base /\ images'["final"] = Layered(base, call.rev)
      BY <2>1, Fields DEF Tag
    <2>5. Layered(base, call.rev).rev = call.rev /\ Layered(base, call.rev).base = base.base
      BY DEF Layered
    <2>6. CallPart' /\ FreshPart'
      BY <2>1, <2>3, Fields, PathStep DEF FullPath, Tagged
    <2>7. RestartPart'
      BY <2>1, Fields, NoRestart
    <2>8. TagPart'
      BY <2>1, <2>3 DEF TagPart, Tagged
    <2>9. StampPart'
      BY <2>1, <2>2, <2>3, <2>4, <2>5 DEF StampPart, BuiltFrom, Tagged
    <2>10. CurrentPart'
      BY <2>1, <2>3, <2>4, <2>5 DEF CurrentPart, Tagged
    <2>11. QED
      BY <2>6, <2>7, <2>8, <2>9, <2>10 DEF Parts
  <1>3. QED
    BY <1>1, <1>2

LEMMA UserStep ==
    ASSUME EngineInv, reconcileRemoteUserUID \/ effectiveContainerUserFails
    PROVE  Parts'
  <1> TypeOK /\ TagPart /\ StampPart /\ CurrentPart
    BY DEF EngineInv, TypeInv
  <1>1. CASE pc' = "idle"
    BY <1>1, IdleStep DEF reconcileRemoteUserUID, effectiveContainerUserFails, SamePrimary
  <1>2. CASE pc' # "idle"
    <2>1. /\ UNCHANGED <<ctrs, born, last>> /\ pc = "user" /\ pc' = "secrets"
          /\ start' \in {start, [start EXCEPT !.well = FALSE]}
          /\ \/ UNCHANGED <<call, images>>
             \/ /\ images["final"] # NoImage
                /\ images' = [images EXCEPT !["uid"] = Mapped(images["final"])]
                /\ call' = [call EXCEPT !.tag = "uid"]
      BY <1>2 DEF reconcileRemoteUserUID, effectiveContainerUserFails, Move, Return,
         Incident, GoesOn
    <2>2. /\ call'.o = call.o /\ call'.rev = call.rev /\ call'.existing = call.existing
          /\ call'.hash = call.hash /\ call.tag = "final"
          /\ call'.tag = "final" \/ call'.tag = "uid"
      BY <2>1, Fields DEF CallType, TagPart
    <2>3. /\ start'.born = start.born /\ start'.ctrs = start.ctrs
          /\ start'.well => start.well /\ start'.restartable = start.restartable
      BY <2>1, Fields
    <2>4. /\ images'["base"] = images["base"]
          /\ images'[call'.tag] # NoImage =>
               /\ images["final"] # NoImage
               /\ images'[call'.tag].rev = images["final"].rev
               /\ images'[call'.tag].base = images["final"].base
      <3>1. CASE UNCHANGED <<call, images>>
        BY <2>2, <3>1
      <3>2. CASE /\ images["final"] # NoImage /\ call' = [call EXCEPT !.tag = "uid"]
                 /\ images' = [images EXCEPT !["uid"] = Mapped(images["final"])]
        <4>1. images["final"] \in Image
          BY Fields DEF Tag
        <4>2. call'.tag = "uid" /\ images'["uid"] = Mapped(images["final"])
              /\ images'["base"] = images["base"]
          BY <3>2, Fields DEF CallType, Tag
        <4>3. /\ Mapped(images["final"]).rev = images["final"].rev
              /\ Mapped(images["final"]).base = images["final"].base
          BY <4>1 DEF Mapped, Image
        <4>4. QED
          BY <3>2, <4>2, <4>3
      <3>3. QED
        BY <2>1, <3>1, <3>2
    <2>5. CallPart' /\ FreshPart'
      BY <2>1, <2>2, <2>3, PathStep DEF FullPath, Tagged
    <2>6. RestartPart'
      BY <2>1, <2>3, NoRestart
    <2>7. TagPart'
      BY <2>1, <2>2 DEF TagPart, Tagged
    <2>8. StampPart'
      BY <2>1, <2>2, <2>4 DEF StampPart, BuiltFrom, Tagged
    <2>9. CurrentPart'
      <3>1. start'.well => images'[call'.tag].rev = images["final"].rev
                           /\ images'[call'.tag].base = images["final"].base
        <4>1. CASE UNCHANGED <<call, images>>
          BY <2>2, <4>1
        <4>2. CASE images' = [images EXCEPT !["uid"] = Mapped(images["final"])]
                   /\ call' = [call EXCEPT !.tag = "uid"]
          <5>1. images["final"] \in Image
            BY Fields DEF Tag
          <5>2. images'[call'.tag] = Mapped(images["final"])
            BY <4>2, Fields DEF CallType, Tag
          <5>3. QED
            BY <5>1, <5>2 DEF Mapped, Image
        <4>3. QED
          BY <2>1, <4>1, <4>2
      <3>2. QED
        BY <2>1, <2>2, <2>3, <2>4, <3>1 DEF CurrentPart, Tagged
    <2>10. QED
      BY <2>5, <2>6, <2>7, <2>8, <2>9 DEF Parts
  <1>3. QED
    BY <1>1, <1>2

LEMMA SecretsStep ==
    ASSUME EngineInv, collectSecretsEnv
    PROVE  Parts'
  <1> TypeOK /\ TagPart /\ StampPart /\ CurrentPart /\ FreshPart /\ CallPart
    BY DEF EngineInv, TypeInv
  <1>1. /\ UNCHANGED <<images, ctrs, born, last, start>>
        /\ pc = "secrets" /\ pc' \in {"sidecars", "side"}
    BY DEF collectSecretsEnv, Move
  <1>2. /\ call'.o = call.o /\ call'.rev = call.rev /\ call'.existing = call.existing
        /\ call'.hash = call.hash /\ call'.tag = call.tag
        /\ call.existing = 0 => call'.env = call.o.env
    BY Fields DEF CallType, collectSecretsEnv
  <1>3. Afresh' => call'.env = call.o.env
    <2>1. Afresh' => Afresh
      BY <1>1, <1>2 DEF Afresh, WasFound
    <2>2. QED
      BY <1>1, <1>2, <2>1 DEF FreshPart, FullPath, Tagged
  <1>4. CallPart' /\ FreshPart'
    BY <1>1, <1>2, <1>3, PathStep DEF FullPath, Tagged
  <1>5. RestartPart'
    BY <1>1, NoRestart
  <1>6. TagPart' /\ StampPart'
    BY <1>1, <1>2 DEF TagPart, StampPart, BuiltFrom, Tagged
  <1>7. CurrentPart'
    BY <1>1, <1>2 DEF CurrentPart, Tagged
  <1>8. QED
    BY <1>4, <1>5, <1>6, <1>7 DEF Parts

(* The sidecar's image is made available; the primary's stays as it is.    *)
LEMMA SidecarStep ==
    ASSUME EngineInv, buildComposeSidecarImages \/ ComposeUp
    PROVE  Parts'
  <1> TypeOK /\ TagPart /\ StampPart /\ CurrentPart /\ FreshPart /\ CallPart /\ RestartPart
    BY DEF EngineInv, TypeInv
  <1>1. CASE pc' = "idle"
    BY <1>1, IdleStep DEF buildComposeSidecarImages, ComposeUp, SamePrimary
  <1>2. CASE pc' # "idle"
    <2>1. /\ UNCHANGED <<ctrs, born, last, call>> /\ pc \in {"sidecars", "side"} /\ pc' = "side"
          /\ \/ UNCHANGED <<images, start>>
             \/ /\ images' = [images EXCEPT !["side"] = Source(world.source)] /\ start' = Fetched
                /\ ~call.reattach \/ images["side"] = NoImage
      BY <1>2 DEF buildComposeSidecarImages, ComposeUp, Move, Return
    <2>2. /\ start'.born = start.born /\ start'.ctrs = start.ctrs
          /\ start'.well = start.well /\ start'.restartable = start.restartable
      BY <2>1, Fields
    <2>3. \A t \in {"base", "final", "uid"} : images'[t] = images[t]
      BY <2>1, Fields DEF Tag
    <2>4. call.tag \in {"final", "uid"}
      BY <2>1 DEF TagPart, Tagged
    <2>5. Afresh' => Afresh
      BY <2>1, <2>2 DEF Afresh, WasFound
    <2>6. CallPart' /\ FreshPart'
      <3>1. Afresh' => call'.env = call.env
        BY <2>1
      <3>2. QED
        BY <2>1, <2>2, <3>1, PathStep DEF FullPath, Tagged
    <2>7. TagPart' /\ StampPart'
      BY <2>1, <2>3, <2>4 DEF TagPart, StampPart, BuiltFrom, Tagged
    <2>8. CurrentPart'
      BY <2>1, <2>2, <2>3, <2>4 DEF CurrentPart, Tagged
    <2>9. RestartPart'
      <3> SUFFICES ASSUME Reattaching PROVE RestartPart'
        BY <2>2 DEF RestartPart, Reattaching
      <3>1. UNCHANGED <<images, start>>
        BY <2>1 DEF RestartPart, Committing
      <3>2. QED
        BY <2>1, <3>1 DEF RestartPart, Committing, Reattaching, MayReplace, composeInputsHash
    <2>10. QED
      BY <2>6, <2>7, <2>8, <2>9 DEF Parts
  <1>3. QED
    BY <1>1, <1>2

(* The backend's work on the sidecar.                                      *)
LEMMA SideStep ==
    ASSUME EngineInv, KeepService("side") \/ RemoveService("side") \/ RunService("side")
    PROVE  Parts'
  <1> TypeOK /\ TagPart /\ StampPart /\ CurrentPart /\ FreshPart /\ CallPart /\ RestartPart
    BY DEF EngineInv, TypeInv
  <1>1. ctrs'["primary"] = ctrs["primary"]
    BY Fields DEF KeepService, RemoveService, RunService, Service
  <1>2. CASE pc' = "idle"
    BY <1>1, <1>2, IdleStep DEF SamePrimary
  <1>3. CASE pc' # "idle"
    <2>1. /\ pc = "side" /\ UNCHANGED <<images, call, last, start>>
          /\ \/ UNCHANGED born /\ ctrs["side"].n # 0 /\ pc' \in {"side", "primary"}
             \/ born' = born + 1 /\ ctrs'["side"].n = born + 1 /\ pc' = "primary"
      BY <1>3, Fields DEF KeepService, RemoveService, RunService, Ready, Move, Then, Return,
         Service
    <2>2. born' >= born /\ born \in Nat /\ start.born \in Nat /\ born' \in Nat
      BY <2>1, Fields
    <2>3. CallPart'
      BY <2>1, <2>2 DEF CallPart, WasFound
    <2>4. FreshPart'
      <3> SUFFICES ASSUME Afresh PROVE FreshPart'
        BY <2>1 DEF FreshPart, Afresh, WasFound
      <3>1. /\ ctrs["primary"].n = 0 /\ call.existing = 0 /\ call.env = call.o.env
            /\ WasFound => ctrs["side"].n = 0
        BY <2>1 DEF FreshPart, FullPath, Tagged
      <3>2. WasFound => ctrs'["side"].n = born + 1 /\ pc' = "primary" /\ start.born <= born
        BY <2>1, <3>1 DEF CallPart
      <3>3. WasFound => ctrs'["side"].n > start.born
        BY <2>2, <3>2
      <3>4. WasFound' <=> WasFound
        BY <2>1 DEF WasFound
      <3>5. QED
        BY <1>1, <2>1, <3>1, <3>2, <3>3, <3>4 DEF FreshPart, FullPath, Tagged
    <2>5. TagPart' /\ StampPart'
      BY <1>1, <2>1 DEF TagPart, StampPart, BuiltFrom, Tagged
    <2>6. CurrentPart'
      BY <1>1, <2>1 DEF CurrentPart, Tagged
    <2>7. RestartPart'
      BY <1>1, <2>1 DEF RestartPart, Committing, Reattaching, MayReplace, composeInputsHash
    <2>8. QED
      BY <2>3, <2>4, <2>5, <2>6, <2>7 DEF Parts
  <1>4. QED
    BY <1>2, <1>3

(* The backend's work on the primary.                                      *)
LEMMA PrimaryStep ==
    ASSUME EngineInv, KeepService("primary") \/ RemoveService("primary") \/ RunService("primary")
    PROVE  Parts'
  <1> TypeOK /\ TagPart /\ StampPart /\ CurrentPart /\ FreshPart /\ CallPart /\ RestartPart
    BY DEF EngineInv, TypeInv
  <1> DEFINE c == ctrs["primary"]
  <1>1. CASE pc' = "idle"
    BY <1>1, IdleStep DEF KeepService, RemoveService, RunService, Move, Then, SamePrimary
  <1>2. /\ pc = "primary" /\ UNCHANGED images /\ call.tag \in {"final", "uid"}
        /\ ctrs["primary"] \in Container /\ ctrs["side"] = ctrs'["side"]
    BY Fields DEF KeepService, RemoveService, RunService, Ready, TagPart, Tagged, Service
  <1>3. Afresh => c.n = 0
    BY <1>2 DEF FreshPart, FullPath, Tagged
  <1>4. CASE KeepService("primary")
    <2>1. /\ UNCHANGED <<images, born, call, last, start>> /\ pc' = "inspect" /\ c.n # 0
          /\ Keeps(c, "primary")
      BY <1>4 DEF KeepService, Move, Then
    <2>2. SamePrimary /\ ctrs'["primary"].running
      BY <1>4, Fields DEF KeepService, SamePrimary, Service, Container
    <2>3. ~Afresh
      BY <1>3, <2>1
    <2>4. TagPart' /\ StampPart' /\ CallPart' /\ FreshPart'
      BY <1>2, <2>1, <2>2, <2>3
         DEF TagPart, StampPart, BuiltFrom, Tagged, CallPart, FreshPart, Afresh, WasFound,
             SamePrimary
    <2>5. CurrentPart'
      <3>1. call.o.backend = "native" /\ ~call.o.adopt /\ c.by = "native" =>
              c.spec = composeRunOverride("primary")
        BY <2>1 DEF Keeps
      <3>2. composeRunOverride("primary")' = composeRunOverride("primary")
        BY <2>1 DEF composeRunOverride
      <3>3. QED
        BY <1>2, <2>1, <2>2, <3>1, <3>2 DEF CurrentPart, SamePrimary, Tagged
    <2>6. RestartPart'
      BY <1>2, <2>1, <2>2
         DEF RestartPart, Committing, Reattaching, MayReplace, composeInputsHash, SamePrimary
    <2>7. QED
      BY <2>4, <2>5, <2>6 DEF Parts
  <1>5. CASE RemoveService("primary")
    <2>1. /\ UNCHANGED <<images, born, call, last, start>> /\ pc' = "primary" /\ c.n # 0
          /\ ~Keeps(c, "primary")
      BY <1>5 DEF RemoveService, Move
    <2>2. ctrs'["primary"] = NoContainer
      BY <1>5, Fields DEF RemoveService, Service
    <2>3. NoContainer.n = 0 /\ NoContainer.spec.hash = NoHash
      BY DEF NoContainer, NoSpec
    <2>4. ~Afresh
      BY <1>3, <2>1
    <2>5. TagPart' /\ StampPart' /\ CallPart' /\ FreshPart' /\ CurrentPart'
      BY <1>2, <2>1, <2>2, <2>3, <2>4
         DEF TagPart, StampPart, BuiltFrom, Tagged, CallPart, FreshPart, Afresh, WasFound,
             CurrentPart
    <2>6. RestartPart'
      <3> SUFFICES ASSUME Reattaching PROVE RestartPart'
        BY <2>1 DEF RestartPart, Reattaching
      <3> DEFINE old == start.ctrs["primary"]
      <3>1. MayReplace
        <4>1. call.o.backend = "native" /\ ~call.o.adopt
          <5>1. call.o.op = "up" /\ ~call.o.recreate /\ old.n # 0
            BY <1>2 DEF RestartPart
          <5>2. call.existing # 0
            BY <1>2, <5>1, PrimaryFound DEF CallPart
          <5>3. call.o.backend # "shellout" /\ ~call.o.adopt
            BY <2>1, <5>1, <5>2 DEF Keeps
          <5>4. QED
            BY <5>3, Fields DEF CallType, Option
        <4>2. ASSUME c.spec = old.spec, old.spec.env = {} PROVE FALSE
          <5>1. /\ old.spec.rev = call.rev /\ call.tag = old.spec.tag
                /\ call.hash = old.spec.hash /\ call.env = {}
                /\ images[old.spec.tag] = old.spec.image
            BY <1>2 DEF RestartPart, Committing
          <5>2. c.spec \in Definition
            BY <1>2 DEF Container
          <5>3. c.spec = [rev |-> c.spec.rev, tag |-> c.spec.tag, image |-> c.spec.image,
                          env |-> c.spec.env, hash |-> c.spec.hash]
            BY <5>2 DEF Definition
          <5>4. c.spec = composeRunOverride("primary")
            BY <4>2, <5>1, <5>3 DEF composeRunOverride
          <5>5. QED
            BY <2>1, <4>1, <5>4 DEF Keeps
        <4>3. QED
          BY <1>2, <4>1, <4>2 DEF RestartPart, MayReplace
      <3>2. QED
        BY <1>2, <2>1, <3>1
           DEF RestartPart, Committing, Reattaching, MayReplace, composeInputsHash
    <2>7. QED
      BY <2>5, <2>6 DEF Parts
  <1>6. CASE RunService("primary") /\ pc' # "idle"
    <2> DEFINE spec == composeRunOverride("primary")
    <2>1. /\ UNCHANGED <<images, call, last, start>> /\ pc' = "inspect" /\ c.n = 0
          /\ born' = born + 1 /\ spec.image # NoImage
          /\ ctrs' = [ctrs EXCEPT !["primary"] = [n |-> born + 1, running |-> TRUE,
                                     by |-> call.o.backend, spec |-> spec]]
      BY <1>6 DEF RunService, Move, Then, Return
    <2>2. /\ ctrs'["primary"].n = born + 1 /\ ctrs'["primary"].running
          /\ ctrs'["primary"].by = call.o.backend /\ ctrs'["primary"].spec = spec
      BY <2>1, Fields DEF Service
    <2>3. /\ spec.rev = call.rev /\ spec.tag = call.tag /\ spec.image = images[call.tag]
          /\ spec.env = call.env /\ spec.hash = call.hash
      BY DEF composeRunOverride
    <2>4. composeRunOverride("primary")' = spec
      BY <2>1 DEF composeRunOverride
    <2> HIDE DEF spec
    <2>5. born \in Nat /\ start.born \in Nat /\ start.born <= born /\ ctrs'["primary"].n # 0
      BY <1>2, <2>2, Fields DEF CallPart
    <2>6. TagPart'
      BY <1>2, <2>1, <2>2, <2>3 DEF TagPart, Tagged
    <2>7. StampPart'
      BY <1>2, <2>1, <2>2, <2>3 DEF StampPart, BuiltFrom, Tagged
    <2>8. CallPart'
      BY <1>2, <2>1, <2>5 DEF CallPart, WasFound
    <2>9. CurrentPart'
      BY <1>2, <2>1, <2>2, <2>4 DEF CurrentPart, Tagged
    <2>10. FreshPart'
      <3> SUFFICES ASSUME Afresh PROVE FreshPart'
        BY <2>1 DEF FreshPart, Afresh, WasFound
      <3>1. /\ WasFound => ctrs["side"].n > start.born
            /\ call.existing = 0 /\ call.env = call.o.env
        BY <1>2 DEF FreshPart, FullPath, Tagged
      <3>2. ctrs'["primary"].n > start.born /\ (WasFound' <=> WasFound)
        BY <2>1, <2>2, <2>5 DEF WasFound
      <3>3. QED
        BY <1>2, <2>1, <2>2, <2>3, <3>1, <3>2 DEF FreshPart, FullPath, Tagged
    <2>11. RestartPart'
      <3> SUFFICES ASSUME Reattaching PROVE RestartPart'
        BY <2>1 DEF RestartPart, Reattaching
      <3>1. MayReplace
        BY <1>2, <2>1 DEF RestartPart
      <3>2. QED
        BY <1>2, <2>1, <2>2, <2>5, <3>1
           DEF RestartPart, Committing, Reattaching, MayReplace, composeInputsHash
    <2>12. QED
      BY <2>6, <2>7, <2>8, <2>9, <2>10, <2>11 DEF Parts
  <1>7. QED
    BY <1>1, <1>4, <1>5, <1>6

LEMMA WorkspaceStep ==
    ASSUME EngineInv, buildWorkspace
    PROVE  Parts'
  <1> TypeOK /\ TagPart /\ StampPart /\ CurrentPart /\ FreshPart /\ CallPart /\ RestartPart
    BY DEF EngineInv, TypeInv
  <1>1. CASE pc' = "idle"
    BY <1>1, IdleStep DEF buildWorkspace, SamePrimary
  <1>2. CASE pc' # "idle"
    <2>1. /\ pc = "inspect" /\ pc' = "inspect" /\ UNCHANGED <<images, ctrs, born, last, start>>
          /\ call' = [call EXCEPT !.tries = @ + 1]
      BY <1>2 DEF buildWorkspace, Move, Return
    <2>2. /\ call'.o = call.o /\ call'.rev = call.rev /\ call'.existing = call.existing
          /\ call'.tag = call.tag /\ call'.hash = call.hash /\ call'.env = call.env
          /\ call'.reattach = call.reattach
      BY <2>1, Fields DEF CallType
    <2>3. composeRunOverride("primary")' = composeRunOverride("primary")
      BY <2>1, <2>2 DEF composeRunOverride
    <2>4. TagPart' /\ StampPart' /\ CallPart'
      BY <2>1, <2>2 DEF TagPart, StampPart, BuiltFrom, Tagged, CallPart, WasFound
    <2>5. CurrentPart'
      BY <2>1, <2>2, <2>3 DEF CurrentPart, Tagged
    <2>6. FreshPart'
      BY <2>1, <2>2 DEF FreshPart, Afresh, WasFound, FullPath, Tagged
    <2>7. RestartPart'
      BY <2>1, <2>2 DEF RestartPart, Committing, Reattaching, MayReplace, composeInputsHash
    <2>8. QED
      BY <2>4, <2>5, <2>6, <2>7 DEF Parts
  <1>3. QED
    BY <1>1, <1>2

(* The world, which changes between calls, but for exits and untagging.    *)
LEMMA WorldStep ==
    ASSUME ~Races, EngineInv, World \/ CallFails \/ ProbeFails \/ Crash \/ UNCHANGED vars
    PROVE  Parts'
  <1> TypeOK /\ TagPart /\ StampPart /\ CurrentPart /\ FreshPart /\ CallPart /\ RestartPart
    BY DEF EngineInv, TypeInv
  <1>1. SamePrimary \/ ctrs'["primary"] = NoContainer
    <2>1. ASSUME NEW s \in Service, ctrs' = [ctrs EXCEPT ![s] = NoContainer]
          PROVE  SamePrimary \/ ctrs'["primary"] = NoContainer
      BY <2>1, Fields DEF SamePrimary, Service
    <2>2. ASSUME NEW s \in Service, ctrs' = [ctrs EXCEPT ![s].running = FALSE]
          PROVE  SamePrimary
      BY <2>2, Fields DEF SamePrimary, Service, Container
    <2>3. UNCHANGED ctrs => SamePrimary
      BY DEF SamePrimary
    <2>4. QED
      BY <2>1, <2>2, <2>3 DEF World, Edit, Publish, PruneCache, Network, Pull, Untag,
         RemoveByHand, Exit, CallFails, ProbeFails, Crash, vars
  <1>2. CASE pc' = "idle"
    BY <1>1, <1>2, IdleStep
  <1>3. CASE pc # "idle" /\ (Untag \/ Exit)
    <2>1. /\ pc' = pc /\ UNCHANGED <<born, call, last>>
          /\ start' = [start EXCEPT !.well = FALSE]
      BY <1>3 DEF Untag, Exit, Incident, GoesOn
    <2>2. \A t \in Tag : images'[t] = images[t] \/ (images'[t] = NoImage /\ t # "base")
      BY <1>3, Fields DEF Untag, Exit
    <2>3. SamePrimary
      <3>1. ASSUME NEW s \in Service, ctrs' = [ctrs EXCEPT ![s].running = FALSE]
            PROVE  SamePrimary
        BY <3>1, Fields DEF SamePrimary, Service, Container
      <3>2. QED
        BY <1>3, <3>1 DEF Untag, Exit, SamePrimary
    <2>4. ~start'.well /\ start'.born = start.born /\ start'.ctrs = start.ctrs
      BY <2>1, Fields
    <2>5. TagPart' /\ CallPart'
      BY <1>3, <2>1, <2>3, <2>4 DEF TagPart, CallPart, WasFound, SamePrimary
    <2>6. StampPart'
      <3>1. images'["base"] = images["base"]
        BY <2>2 DEF Tag
      <3>2. pc \in Tagged =>
              images'[call.tag] = images[call.tag] \/ images'[call.tag] = NoImage
        BY <2>2 DEF TagPart, Tag
      <3>3. QED
        BY <2>1, <2>3, <3>1, <3>2 DEF StampPart, SamePrimary, composeInputsHash
    <2>7. CurrentPart' /\ FreshPart' /\ RestartPart'
      BY <2>4 DEF CurrentPart, FreshPart, Afresh, RestartPart, Reattaching
    <2>8. QED
      BY <2>5, <2>6, <2>7 DEF Parts
  <1>4. CASE UNCHANGED vars
    <2>1. UNCHANGED <<images, ctrs, born, pc, call, last, start>>
      BY <1>4 DEF vars
    <2>2. composeRunOverride("primary")' = composeRunOverride("primary")
      BY <2>1 DEF composeRunOverride
    <2>3. TagPart' /\ StampPart' /\ CallPart' /\ CurrentPart'
      BY <2>1, <2>2 DEF TagPart, StampPart, composeInputsHash, CallPart, WasFound, CurrentPart
    <2>4. FreshPart' /\ RestartPart'
      BY <2>1 DEF FreshPart, Afresh, WasFound, RestartPart, Reattaching, MayReplace,
         composeInputsHash
    <2>5. QED
      BY <2>3, <2>4 DEF Parts
  <1>5. QED
    <2>1. pc' = "idle" \/ (pc # "idle" /\ (Untag \/ Exit)) \/ UNCHANGED vars
      BY DEF World, Edit, Publish, PruneCache, Network, Pull, Untag, RemoveByHand, Exit,
         Change, CallFails, ProbeFails, Crash, GoesOn
    <2>2. QED
      BY <1>2, <1>3, <1>4, <2>1

----------------------------------------------------------------------------
(* The invariants hold. *)

(* The tags, whatever else happens while a call runs.                      *)
LEMMA TagStep == TypeInv /\ [Next]_vars => TagPart'
  <1> SUFFICES ASSUME TypeOK, TagPart, [Next]_vars PROVE TagPart'
    BY DEF TypeInv
  <1>1. ASSUME SamePrimary \/ ctrs'["primary"].n = 0,
               pc' \notin Tagged \/ (pc' = pc /\ call'.tag = call.tag)
        PROVE  TagPart'
    BY <1>1 DEF TagPart, SamePrimary, Tagged
  <1>2. UNCHANGED ctrs => SamePrimary
    BY DEF SamePrimary
  <1>3. ASSUME NEW s \in Service, ctrs' = [ctrs EXCEPT ![s] = NoContainer]
        PROVE  SamePrimary \/ ctrs'["primary"].n = 0
    BY <1>3, Fields, Shapes DEF SamePrimary, Service
  <1>4. ASSUME NEW s \in Service, NEW b, ctrs' = [ctrs EXCEPT ![s].running = b]
        PROVE  SamePrimary
    BY <1>4, Fields DEF SamePrimary, Service, Container
  <1>5. CASE \E o \in Options : Begin(o)
    <2>1. /\ pc' \in {"attach", "stop", "down", "prepare", "recreate", "reattach"}
          /\ UNCHANGED ctrs
      BY <1>5, ComposeEngineAssumption DEF Begin, Option
    <2>2. QED
      BY <1>1, <1>2, <2>1 DEF Tagged
  <1>6. CASE AttachWith \/ composeDownInspects \/ composeDownExisting
             \/ shutdownStopContainer \/ ReattachInspects \/ prepareComposeServiceImage
             \/ HashInputs \/ removeContainer \/ ReattachFails \/ HashFails \/ CallFails \/ ProbeFails \/ Crash
    <2>1. pc' \notin Tagged
      BY <1>6 DEF AttachWith, composeDownInspects, composeDownExisting,
         shutdownStopContainer, ReattachInspects, ReattachMiss,
         prepareComposeServiceImage, HashInputs, removeContainer, ReattachFails, HashFails,
         CallFails, ProbeFails, Crash, AfterDown, Move, Return, GoesOn, Tagged
    <2>2. \/ UNCHANGED ctrs
          \/ \E s \in Service : ctrs' = [ctrs EXCEPT ![s] = NoContainer]
          \/ \E s \in Service : ctrs' = [ctrs EXCEPT ![s].running = FALSE]
      BY <1>6 DEF AttachWith, composeDownInspects, composeDownExisting,
         shutdownStopContainer, ReattachInspects, prepareComposeServiceImage, HashInputs,
         removeContainer, ReattachFails, HashFails, CallFails, ProbeFails, Crash
    <2>3. QED
      BY <1>1, <1>2, <1>3, <1>4, <2>1, <2>2
  <1>7. CASE World \/ UNCHANGED vars
    <2>1. UNCHANGED <<pc, call>>
      BY <1>7 DEF World, Edit, Publish, PruneCache, Network, Pull, Untag, RemoveByHand, Exit,
         Change, GoesOn, vars
    <2>2. \/ UNCHANGED ctrs
          \/ \E s \in Service : ctrs' = [ctrs EXCEPT ![s] = NoContainer]
          \/ \E s \in Service : ctrs' = [ctrs EXCEPT ![s].running = FALSE]
      BY <1>7 DEF World, Edit, Publish, PruneCache, Network, Pull, Untag, RemoveByHand, Exit,
         vars
    <2>3. QED
      BY <1>1, <1>2, <1>3, <1>4, <2>1, <2>2
  <1>8. CASE reattachCompose
    <2>1. UNCHANGED ctrs
      BY <1>8 DEF reattachCompose
    <2>2. CASE pc' = "prepare"
      BY <1>1, <1>2, <2>1, <2>2 DEF Tagged
    <2>3. CASE ctrs["primary"].n # 0 /\ Committed(ctrs["primary"])
      <3>1. call'.tag = ctrs["primary"].spec.tag /\ pc' \in {"sidecars", "side"}
        BY <2>3, Fields DEF Committed, Move, CallType
      <3>2. QED
        BY <2>1, <2>3, <3>1 DEF TagPart, Tagged
    <2>4. QED
      BY <1>8, <2>2, <2>3 DEF reattachCompose, ReattachMiss, Move
  <1>9. CASE layerFeatures
    <2>1. UNCHANGED ctrs /\ (pc' = "idle" \/ (pc' = "user" /\ call'.tag = "final"))
      BY <1>9, Fields DEF layerFeatures, Return, CallType
    <2>2. QED
      BY <2>1 DEF TagPart, Tagged
  <1>10. CASE reconcileRemoteUserUID \/ effectiveContainerUserFails
    <2>1. /\ UNCHANGED ctrs /\ pc = "user" /\ pc' \in {"idle", "secrets"}
          /\ pc' = "idle" \/ call' = call \/ call'.tag = "uid"
      BY <1>10, Fields DEF reconcileRemoteUserUID, effectiveContainerUserFails, Return, Move,
         GoesOn, CallType
    <2>2. QED
      BY <2>1 DEF TagPart, Tagged
  <1>11. CASE collectSecretsEnv \/ buildComposeSidecarImages \/ ComposeUp \/ buildWorkspace
    <2>1. /\ UNCHANGED ctrs /\ pc \in Tagged \ {"user"}
          /\ pc' = "idle" \/ (pc' \in Tagged \ {"user"} /\ call'.tag = call.tag)
      BY <1>11, Fields DEF collectSecretsEnv, buildComposeSidecarImages, ComposeUp,
         buildWorkspace, Return, Move, CallType, Tagged
    <2>2. QED
      BY <2>1 DEF TagPart, Tagged
  <1>12. ASSUME NEW s \in Service, KeepService(s) \/ RemoveService(s) \/ RunService(s)
         PROVE  TagPart'
    <2>1. /\ pc \in {"side", "primary"}
          /\ pc' = "idle" \/ UNCHANGED call
          /\ pc' \in {"idle", "side", "primary", "inspect"}
      BY <1>12 DEF KeepService, RemoveService, RunService, Ready, Return, Move, Then, Service
    <2>2. \/ SamePrimary \/ ctrs'["primary"].n = 0
          \/ pc = "primary" /\ ctrs'["primary"].spec.tag = call.tag
      <3>1. CASE KeepService(s) \/ RemoveService(s)
        BY <1>3, <1>4, <3>1 DEF KeepService, RemoveService
      <3>2. CASE RunService(s)
        <4>1. CASE UNCHANGED ctrs
          BY <1>2, <4>1
        <4>2. CASE ~UNCHANGED ctrs
          <5>1. /\ pc = s
                /\ ctrs' = [ctrs EXCEPT ![s] = [n |-> born + 1, running |-> TRUE,
                               by |-> call.o.backend, spec |-> composeRunOverride(s)]]
            BY <3>2, <4>2 DEF RunService, Ready
          <5>2. composeRunOverride("primary").tag = call.tag
            BY DEF composeRunOverride
          <5>3. CASE s = "side"
            BY <5>1, <5>3, Fields DEF SamePrimary, Service
          <5>4. CASE s = "primary"
            BY <5>1, <5>2, <5>4, Fields DEF Service
          <5>5. QED
            BY <5>3, <5>4 DEF Service
        <4>3. QED
          BY <4>1, <4>2
      <3>3. QED
        BY <1>12, <3>1, <3>2
    <2>3. call.tag \in {"final", "uid"}
      BY <2>1 DEF TagPart, Tagged
    <2>4. ctrs'["primary"].n # 0 => ctrs'["primary"].spec.tag \in {"final", "uid"}
      BY <2>2, <2>3 DEF TagPart, SamePrimary
    <2>5. pc' # "user" /\ (pc' \in Tagged => call'.tag \in {"final", "uid"})
      BY <2>1, <2>3 DEF Tagged
    <2>6. QED
      BY <2>4, <2>5 DEF TagPart
  <1>13. QED
    BY <1>5, <1>6, <1>7, <1>8, <1>9, <1>10, <1>11, <1>12 DEF Next, Step, Fault

LEMMA TypeInit == Init => TypeInv
  <1> SUFFICES ASSUME Init PROVE TypeInv
    OBVIOUS
  <1>1. TypeOK
    BY Shapes, ComposeEngineAssumption DEF Init, TypeOK
  <1>2. TagPart
    BY Shapes DEF Init, TagPart, Tagged, Service
  <1>3. QED
    BY <1>1, <1>2 DEF TypeInv

(***************************************************************************)
(* The engine's state and its containers are what the code takes them for, *)
(* in every interleaving: no call runs a container without an image, and   *)
(* inspectStable's attempts are bounded.                                   *)
(***************************************************************************)
THEOREM EngineType == Spec => []TypeOK
  <1>1. TypeInv /\ [Next]_vars => TypeInv'
    BY TypeStep, TagStep DEF TypeInv
  <1>2. TypeInv => TypeOK
    BY DEF TypeInv
  <1>3. QED
    BY <1>1, <1>2, TypeInit, PTL DEF Spec

LEMMA EngineInvStep ==
    ASSUME ~Races
    PROVE  EngineInv /\ [Next]_vars => EngineInv'
  <1> SUFFICES ASSUME EngineInv, [Next]_vars PROVE EngineInv'
    OBVIOUS
  <1>1. TypeOK'
    BY TypeStep DEF EngineInv
  <1>2. ASSUME NEW s \in Service, KeepService(s) \/ RemoveService(s) \/ RunService(s)
        PROVE  Parts'
    BY <1>2, SideStep, PrimaryStep DEF Service
  <1>3. Parts'
    BY <1>2, BeginStep, DownStep, ReattachStep, CommitStep, PrepareStep, LayerStep, UserStep,
       SecretsStep, SidecarStep, WorkspaceStep, WorldStep DEF Next, Step, Fault
  <1>4. QED
    BY <1>1, <1>3 DEF EngineInv, TypeInv, Parts

LEMMA EngineInvInit == Init => EngineInv
  <1> SUFFICES ASSUME Init PROVE EngineInv
    OBVIOUS
  <1>1. pc = "idle" /\ ctrs["primary"].spec.hash = NoHash
    BY DEF Init, Service, NoContainer, NoSpec
  <1>2. StampPart /\ CallPart /\ CurrentPart /\ FreshPart /\ RestartPart
    BY <1>1 DEF StampPart, BuiltFrom, CallPart, CurrentPart, FreshPart, RestartPart, Tagged
  <1>3. QED
    BY <1>2, TypeInit DEF EngineInv

(***************************************************************************)
(* LabelComposeInputsHash: the stamp of the primary container is the hash  *)
(* of what its image was built from, whichever of the calls that went      *)
(* before failed or died, and at which step.                               *)
(***************************************************************************)
THEOREM StampTrue ==
    ASSUME ~Races
    PROVE  Spec => []StampIsTrue
  <1>1. EngineInv /\ [Next]_vars => EngineInv'
    BY EngineInvStep
  <1>2. EngineInv => StampIsTrue
    BY DEF EngineInv, StampPart, BuiltFrom, StampIsTrue
  <1>3. QED
    BY <1>1, <1>2, EngineInvInit, PTL DEF Spec

(* Only buildWorkspace returns from "inspect" with success.                *)
LEMMA InspectActors ==
    ASSUME Next, pc = "inspect", pc' = "idle", last' = "ok"
    PROVE  buildWorkspace
  <1>1. ~(Fault \/ World)
    BY DEF Fault, World, removeContainer, ReattachFails, HashFails,
       effectiveContainerUserFails, CallFails, ProbeFails, Crash, Edit, Publish, PruneCache,
       Network, Pull, Untag, RemoveByHand, Exit, Change, GoesOn
  <1>2. \A o \in Options : ~Begin(o)
    BY DEF Begin
  <1>3. \A s \in Service : ~(KeepService(s) \/ RemoveService(s) \/ RunService(s))
    BY DEF KeepService, RemoveService, RunService, Ready, Service
  <1>4. Step
    BY <1>1, <1>2 DEF Next
  <1>5. QED
    BY <1>3, <1>4 DEF Step, AttachWith, composeDownInspects, composeDownExisting,
       shutdownStopContainer, ReattachInspects, reattachCompose, prepareComposeServiceImage, HashInputs, layerFeatures,
       reconcileRemoteUserUID, collectSecretsEnv, buildComposeSidecarImages, ComposeUp

(***************************************************************************)
(* Up: without adoption, a call that returns a native container returns    *)
(* one of the present files, on the present base.                          *)
(***************************************************************************)
THEOREM UpCurrent ==
    ASSUME ~Races
    PROVE  Spec => UpIsCurrent
  <1> DEFINE A == LET spec == ctrs["primary"].spec IN
       Returns("ok") /\ start.well /\ call.o.backend = "native" /\ ~call.o.adopt
                     /\ ctrs["primary"].by = "native" =>
          /\ spec.rev = call.rev /\ spec.image = images[spec.tag]
          /\ spec.image.rev = call.rev /\ spec.image.base = images["base"].base
  <1>1. ASSUME EngineInv, Next PROVE A
    <2> SUFFICES ASSUME Returns("ok"), start.well, call.o.backend = "native", ~call.o.adopt,
                        ctrs["primary"].by = "native"
                 PROVE  LET spec == ctrs["primary"].spec
                        IN  /\ spec.rev = call.rev /\ spec.image = images[spec.tag]
                            /\ spec.image.rev = call.rev
                            /\ spec.image.base = images["base"].base
      OBVIOUS
    <2>1. pc = "inspect" /\ pc' = "idle" /\ last' = "ok"
      BY DEF Returns
    <2>2. buildWorkspace
      BY <1>1, <2>1, InspectActors
    <2>3. ctrs["primary"].n # 0
      BY <2>1, <2>2 DEF buildWorkspace, Return
    <2>4. ctrs["primary"].spec = composeRunOverride("primary")
      BY <1>1, <2>1, <2>3 DEF EngineInv, CurrentPart
    <2>5. images[call.tag].rev = call.rev /\ images[call.tag].base = images["base"].base
      BY <1>1, <2>1 DEF EngineInv, CurrentPart, Tagged
    <2>6. QED
      BY <2>4, <2>5 DEF composeRunOverride
  <1>2. EngineInv /\ [Next]_vars => [A]_vars
    BY <1>1
  <1>3. EngineInv /\ [Next]_vars => EngineInv'
    BY EngineInvStep
  <1>4. QED
    BY <1>2, <1>3, EngineInvInit, PTL DEF Spec, UpIsCurrent

(***************************************************************************)
(* Up with Recreate, or when no container with the label was there: the    *)
(* primary is new and has the variables and secrets of this call, whatever *)
(* is left of earlier ones; the sidecar is new too when a container with   *)
(* the label, of whichever service, was there to be recreated.             *)
(***************************************************************************)
THEOREM FreshUp ==
    ASSUME ~Races
    PROVE  Spec => FreshIsFresh
  <1> DEFINE A == Returns("ok") /\ start.well
                    /\ (call.o.recreate \/ FindContainerByLabel(start.ctrs) = 0) =>
       /\ ctrs["primary"].n > start.born /\ ctrs["primary"].spec.env = call.o.env
       /\ FindContainerByLabel(start.ctrs) # 0 => ctrs["side"].n > start.born
  <1>1. ASSUME EngineInv, Next PROVE A
    <2> SUFFICES ASSUME Returns("ok"), start.well, call.o.recreate \/ ~WasFound
                 PROVE  /\ ctrs["primary"].n > start.born
                        /\ ctrs["primary"].spec.env = call.o.env
                        /\ WasFound => ctrs["side"].n > start.born
      BY DEF WasFound
    <2>1. pc = "inspect"
      BY DEF Returns
    <2>2. call.o.op = "up"
      BY <1>1, <2>1 DEF EngineInv, CallPart
    <2>3. QED
      BY <1>1, <2>1, <2>2 DEF EngineInv, FreshPart, Afresh
  <1>2. EngineInv /\ [Next]_vars => [A]_vars
    BY <1>1
  <1>3. EngineInv /\ [Next]_vars => EngineInv'
    BY EngineInvStep
  <1>4. QED
    BY <1>2, <1>3, EngineInvInit, PTL DEF Spec, FreshIsFresh

(* The steps that change which containers there are.                       *)
LEMMA RemovalActors ==
    ASSUME ~Races, TypeOK, Next, pc # "idle"
    PROVE  \/ SameNumbers
           \/ pc \in {"recreate", "down"}
           \/ \E s \in Service :
                RemoveService(s) \/ (RunService(s) /\ \A t \in Service \ {s} : ctrs'[t] = ctrs[t])
  <1> USE Fields
  <1>1. ASSUME NEW s \in Service, NEW b, ctrs' = [ctrs EXCEPT ![s].running = b]
        PROVE  SameNumbers
    BY <1>1 DEF SameNumbers, Container
  <1>2. UNCHANGED ctrs => SameNumbers
    BY DEF SameNumbers
  <1>3. ASSUME NEW s \in Service, RunService(s)
        PROVE  \A t \in Service \ {s} : ctrs'[t] = ctrs[t]
    BY <1>3 DEF RunService
  <1>4. \A o \in Options : ~Begin(o)
    BY DEF Begin
  <1>5. CASE Step
    BY <1>1, <1>2, <1>3, <1>5 DEF Step, AttachWith, composeDownInspects,
       composeDownExisting, shutdownStopContainer, ReattachInspects, reattachCompose, prepareComposeServiceImage, HashInputs,
       layerFeatures, reconcileRemoteUserUID, collectSecretsEnv, buildComposeSidecarImages,
       ComposeUp, KeepService, buildWorkspace
  <1>6. CASE Fault
    BY <1>2, <1>6 DEF Fault, removeContainer, ReattachFails, HashFails,
       effectiveContainerUserFails, CallFails, ProbeFails, Crash
  <1>7. CASE World
    BY <1>1, <1>2, <1>7 DEF World, Edit, Publish, PruneCache, Network, Pull, Untag,
       RemoveByHand, Exit, Change
  <1>8. QED
    BY <1>4, <1>5, <1>6, <1>7 DEF Next

(***************************************************************************)
(* The resume contract: an Up that adopts, or that passes --no-recreate,   *)
(* removes no container, whatever has changed and whatever fails.          *)
(***************************************************************************)
THEOREM AdoptKeeps ==
    ASSUME ~Races
    PROVE  Spec => AdoptNeverReplaces
  <1> DEFINE A == pc # "idle" /\ call.o.op = "up" /\ ~call.o.recreate
          /\ (IF call.o.backend = "native" THEN call.o.adopt
              ELSE FindContainerByLabel(start.ctrs) # 0) =>
       \A s \in Service : ctrs[s].n # 0 => ctrs'[s].n = ctrs[s].n
  <1>1. ASSUME EngineInv, Next PROVE A
    <2> SUFFICES ASSUME pc # "idle", call.o.op = "up", ~call.o.recreate,
                        IF call.o.backend = "native" THEN call.o.adopt
                        ELSE WasFound,
                        NEW s \in Service, ctrs[s].n # 0
                 PROVE  ctrs'[s].n = ctrs[s].n
      BY DEF WasFound
    <2>1. TypeOK /\ pc \notin {"recreate", "down"} /\ (call.existing # 0 <=> WasFound)
      BY <1>1 DEF EngineInv, TypeInv, CallPart
    <2>2. call.o.backend \in {"native", "shellout"}
      BY <2>1, Fields DEF CallType, Option
    <2>3. \A t \in Service : Keeps(ctrs[t], t)
      BY <2>1, <2>2 DEF Keeps
    <2>4. \A t \in Service : ~RemoveService(t)
      BY <2>3 DEF RemoveService
    <2>5. CASE SameNumbers
      BY <2>5 DEF SameNumbers
    <2>6. ASSUME NEW t \in Service, RunService(t), \A u \in Service \ {t} : ctrs'[u] = ctrs[u]
          PROVE  ctrs'[s].n = ctrs[s].n
      BY <2>6 DEF RunService
    <2>7. QED
      BY <1>1, <2>1, <2>4, <2>5, <2>6, RemovalActors
  <1>2. EngineInv /\ [Next]_vars => [A]_vars
    BY <1>1
  <1>3. EngineInv /\ [Next]_vars => EngineInv'
    BY EngineInvStep
  <1>4. QED
    BY <1>2, <1>3, EngineInvInit, PTL DEF Spec, AdoptNeverReplaces

(***************************************************************************)
(* Up of a project in which nothing has changed: nothing is fetched, built *)
(* or refused, and the primary container is kept.                          *)
(***************************************************************************)
THEOREM UnchangedKept ==
    ASSUME ~Races
    PROVE  Spec => UnchangedIsKept
  <1> DEFINE A == pc # "idle" /\ start.restartable /\ start.well =>
       /\ probe' # "failed" => ~start'.fetched /\ last' # "error"
       /\ (\/ call.o.backend = "shellout" \/ call.o.adopt
           \/ start.ctrs["primary"].spec.env = {}) => KeepsPrimary
  <1>1. ASSUME EngineInv, Next PROVE A
    <2> SUFFICES ASSUME pc # "idle", start.restartable, start.well PROVE A
      OBVIOUS
    <2> TypeOK /\ TagPart /\ CallPart /\ RestartPart /\ EngineInv'
      BY <1>1, EngineInvStep DEF EngineInv, TypeInv
    <2> DEFINE old == start.ctrs["primary"]
    <2>1. Reattaching
      BY DEF Reattaching
    <2>2. /\ pc \in {"reattach", "retagged"} \cup Committing
          /\ ~start.fetched /\ images["base"] # NoImage /\ images["side"] # NoImage
          /\ old.n # 0 /\ old.spec.image # NoImage /\ images[old.spec.tag] = old.spec.image
          /\ (ctrs["primary"].n = old.n \/ MayReplace) /\ last = "ok"
          /\ pc \in Committing => call.reattach /\ call.tag = old.spec.tag
          /\ pc = "inspect" => ctrs["primary"].n # 0 /\ ctrs["primary"].running
      BY <2>1 DEF RestartPart, CallPart
    <2>3. KeepsPrimary \/ MayReplace
      <3>1. CASE SameNumbers
        BY <2>2, <3>1 DEF SameNumbers, Service, KeepsPrimary
      <3>2. CASE RemoveService("primary")
        <4>1. pc' = "primary" /\ UNCHANGED <<call, start>> /\ ctrs'["primary"].n = 0
          BY <3>2, Fields, Shapes DEF RemoveService, Move, Service
        <4>2. MayReplace'
          BY <2>1, <2>2, <4>1 DEF EngineInv, RestartPart, Reattaching
        <4>3. QED
          BY <4>1, <4>2 DEF MayReplace
      <3>3. CASE RunService("primary")
        BY <2>2, <3>3 DEF RunService
      <3>4. CASE ctrs'["primary"] = ctrs["primary"]
        BY <2>2, <3>4 DEF KeepsPrimary
      <3>5. RemoveService("side") => ctrs'["primary"] = ctrs["primary"]
        BY Fields DEF RemoveService, Service
      <3>6. QED
        BY <1>1, <2>2, <3>1, <3>2, <3>3, <3>4, <3>5, RemovalActors DEF Service, Committing
    <2>4. probe' # "failed" => ~start'.fetched /\ last' # "error"
      <3>1. ~NoStart.fetched /\ ~[start EXCEPT !.well = FALSE].fetched
        BY <2>2, Fields DEF NoStart, StartType
      <3> DEFINE Fine == ~start'.fetched /\ last' # "error"
      <3>2. CASE ReattachInspects \/ reattachCompose \/ collectSecretsEnv
        BY <2>2, <3>2 DEF ReattachInspects, reattachCompose, collectSecretsEnv, ReattachMiss,
           Committed, Move
      <3>3. CASE buildComposeSidecarImages
        BY <2>2, <3>3 DEF buildComposeSidecarImages, Move, Committing
      <3>4. CASE ComposeUp
        <4>1. CASE Unavailable
          BY <3>4, <4>1 DEF ComposeUp, Unavailable, probeCompose
        <4>2. CASE ~Unavailable
          BY <2>2, <3>4, <4>2 DEF ComposeUp, Move
        <4>3. QED
          BY <4>1, <4>2
      <3>5. ASSUME NEW s \in Service, KeepService(s) \/ RemoveService(s) PROVE Fine
        BY <2>2, <3>5 DEF KeepService, RemoveService, Move
      <3>6. ASSUME NEW s \in Service, RunService(s) PROVE Fine
        <4>1. composeRunOverride("side").image = images["side"]
          BY DEF composeRunOverride, NoSpec
        <4>2. composeRunOverride("primary").image = images[call.tag]
          BY DEF composeRunOverride
        <4>3. composeRunOverride(s).image # NoImage
          BY <2>2, <3>6, <4>1, <4>2 DEF RunService, Ready, Service, Committing
        <4>4. QED
          BY <2>2, <3>6, <4>3 DEF RunService, Move
      <3>7. CASE buildWorkspace
        BY <2>2, <3>1, <3>7 DEF buildWorkspace, Return
      <3>8. CASE Fault
        BY <2>2, <3>1, <3>8 DEF Fault, removeContainer, ReattachFails, HashFails,
           effectiveContainerUserFails, CallFails, ProbeFails, Crash, GoesOn
      <3>9. CASE World
        BY <2>2, <3>1, <3>9 DEF World, Edit, Publish, PruneCache, Network, Pull, Untag,
           RemoveByHand, Exit, Change, GoesOn
      <3>10. ~(\/ AttachWith \/ composeDownInspects \/ composeDownExisting
               \/ shutdownStopContainer \/ prepareComposeServiceImage
               \/ HashInputs \/ layerFeatures \/ reconcileRemoteUserUID)
        BY <2>2 DEF AttachWith, composeDownInspects, composeDownExisting,
           shutdownStopContainer, prepareComposeServiceImage, HashInputs, layerFeatures,
           reconcileRemoteUserUID, Committing
      <3>11. \A o \in Options : ~Begin(o)
        BY DEF Begin
      <3>12. QED
        BY <1>1, <3>2, <3>3, <3>4, <3>5, <3>6, <3>7, <3>8, <3>9, <3>10, <3>11 DEF Next, Step
    <2>5. QED
      BY <2>3, <2>4 DEF MayReplace
  <1>2. EngineInv /\ [Next]_vars => [A]_vars
    BY <1>1
  <1>3. EngineInv /\ [Next]_vars => EngineInv'
    BY EngineInvStep
  <1>4. QED
    BY <1>2, <1>3, EngineInvInit, PTL DEF Spec, UnchangedIsKept
=============================================================================
