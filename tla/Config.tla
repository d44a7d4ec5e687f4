------------------------------- MODULE Config -------------------------------
(***************************************************************************)
(* The configuration a container is created with and the one a caller     *)
(* works with afterwards.  devcontainer.json is resolved against the host *)
(* and merged with the metadata layers of the image: the entries of the   *)
(* devcontainer.metadata label of the base image and, on a build, the     *)
(* devcontainer-feature.json of every feature installed on top.  The      *)
(* build writes all of them into the label of the new image, and a later  *)
(* Up, of this or of another workspace, reads them back.                  *)
(*                                                                         *)
(* One field stands for each rule of the merge: remoteUser for the        *)
(* strings, privileged for the optional booleans, containerEnv for the    *)
(* maps, capAdd for the lists, and updateContentCommand for the hooks.    *)
(* The call is one step here; Lifecycle, Features and ComposeEngine model *)
(* its interleavings and its failures.                                    *)
(***************************************************************************)
EXTENDS Integers, Sequences, FiniteSets, SequencesExt

CONSTANTS
    Text,           \* strings
    Feature,        \* features a devcontainer.json may ask for
    Metadata,       \* the devcontainer-feature.json of each
    Published,      \* the layers in the label of the published image
    Configs,        \* the devcontainer.json files a user may write
    Variable,       \* names of environment variables
    Service,        \* the primary service in the user's compose file
    ImageEntrypoint,\* the ENTRYPOINT of every image
    ExtraMounts,    \* UpOptions.ExtraMounts
    Native,         \* the backend that runs compose projects
    Hosts,          \* values of a host variable; "" when it is not set
    Faults,         \* {"inspect"}: InspectImage may fail
    MaxChanges      \* bound on edits and changes of the host variable

(* A ${localEnv:X}, ${devcontainerId}... placeholder in any string.        *)
Placeholder == "$"

(* FeatureMetadata: unset is "", nil or an empty list.                     *)
NoHook  == [form |-> "none", text |-> ""]
NoEnv   == [k \in Variable |-> "nil"]
NoMount == [type |-> "", source |-> "", target |-> "", readOnly |-> FALSE]
NoLayer == [id |-> "", remoteUser |-> "", privileged |-> "nil", env |-> NoEnv,
            capAdd |-> <<>>, mounts |-> <<>>, entrypoint |-> "",
            hook |-> NoHook, waitFor |-> ""]

Switch == {"nil", "true", "false"}
Phase == {"", "onCreate", "updateContent", "postCreate"}
Env == [Variable -> Text]
HookType == [form : {"shell", "exec", "parallel"}, text : Text]
MountType == [type : {"", "bind", "volume", "tmpfs"}, source : Text,
              target : Text, readOnly : BOOLEAN]
LayerType ==
    [id : Text, remoteUser : Text, privileged : Switch, env : Env,
     capAdd : Seq(Text), mounts : Seq(MountType), entrypoint : Text,
     hook : HookType \cup {NoHook}, waitFor : Phase]
UserType ==
    [source : {"image", "compose"}, base : {"published", "prebuilt"},
     features : Seq(Feature), id : Text, remoteUser : Text,
     privileged : Switch, env : Env, capAdd : Seq(Text), mounts : Seq(MountType),
     entrypoint : {""}, hook : HookType \cup {NoHook}, waitFor : Phase]
ResolvedFeature == [id : Feature, installed : BOOLEAN, metadata : LayerType]
EntrypointType ==
    [scripts : Seq(Text), original : Seq(Text), dollar : {"", "$", "$$"}]
ResolvedType ==
    [remoteUser : Text, privileged : Switch, env : Env, capAdd : Seq(Text),
     mounts : Seq(MountType), entrypoints : Seq(Text), hooks : Seq(HookType),
     waitFor : Phase,
     features : Seq(ResolvedFeature)]
FinalType == {c \in ResolvedType : c.waitFor # ""}
ServiceType ==
    [volumes : Seq(MountType), env : Env, privileged : BOOLEAN,
     capAdd : Seq(Text), entrypoint : EntrypointType]

DistinctTargets(volumes) ==
    \A i, j \in DOMAIN volumes : volumes[i].target = volumes[j].target => i = j

(* The loader of compose files gives a service one volume at most for a    *)
(* target and leaves no "$" of its own in the entrypoint.                  *)
ASSUME ConfigAssumption ==
    /\ {"", Placeholder, "nil", "folder", "workspace"} \subseteq Text
    /\ Metadata \in [Feature -> LayerType] /\ Published \in Seq(LayerType)
    /\ Configs \subseteq UserType
    /\ Service \in ServiceType /\ DistinctTargets(Service.volumes)
    /\ Service.entrypoint.scripts = <<>> /\ Service.entrypoint.dollar = ""
    /\ ImageEntrypoint \in Seq(Text) /\ ExtraMounts \in Seq(MountType)
    /\ Hosts \subseteq Text \ {Placeholder, "nil"}
    /\ Native \in BOOLEAN /\ MaxChanges \in Nat /\ Faults \subseteq {"inspect"}

-----------------------------------------------------------------------------
(* The members of a sequence at indices in S, in their order.              *)
Kept(s, S) ==
    LET out[n \in 0 .. Len(s)] ==
          IF n = 0 THEN <<>> ELSE IF n \in S THEN Append(out[n - 1], s[n]) ELSE out[n - 1]
    IN  out[Len(s)]

-----------------------------------------------------------------------------
(* The metadata label: JSON objects that omit what is unset.               *)

Omitting(r, blank) == [k \in {k \in DOMAIN r : r[k] # blank[k]} |-> r[k]]
Field(obj, k, unset) == IF k \in DOMAIN obj THEN obj[k] ELSE unset

encodeMounts(ms) == [i \in DOMAIN ms |-> Omitting(ms[i], NoMount)]

decodeMounts(objs) ==
    LET ms == [i \in DOMAIN objs |->
                 [type     |-> Field(objs[i], "type", ""),
                  source   |-> Field(objs[i], "source", ""),
                  target   |-> Field(objs[i], "target", ""),
                  readOnly |-> Field(objs[i], "readOnly", FALSE)]]
    IN  Kept(ms, {i \in DOMAIN ms : <<ms[i].type, ms[i].source, ms[i].target>> # <<"", "", "">>})

NoJSON == [kind |-> "absent", text |-> ""]

(* An empty shell or exec command is left out like an absent one.          *)
encodeLifecycleCommand(h) ==
    IF h.form \in {"shell", "exec"} /\ h.text = "" THEN NoJSON
    ELSE [kind |-> CASE h.form = "shell"    -> "string"
                     [] h.form = "exec"     -> "array"
                     [] h.form = "parallel" -> "object"
                     [] h.form = "none"     -> "absent",
          text |-> h.text]

decodeLifecycleCommand(j) ==
    [form |-> CASE j.kind = "string" -> "shell"
                [] j.kind = "array"  -> "exec"
                [] j.kind = "object" -> "parallel"
                [] j.kind = "absent" -> "none",
     text |-> j.text]

NoEntry == [NoLayer EXCEPT !.hook = NoJSON]

(* A bug: the entry has no field for this hook of the feature.             *)
metadataWithoutHook(m) ==
    Omitting([m EXCEPT !.mounts = encodeMounts(@), !.hook = NoJSON], NoEntry)

(* The entry for one layer.                                                *)
metadataFromFeatureMetadata(m) ==
    Omitting([m EXCEPT !.mounts = encodeMounts(@),
                       !.hook = encodeLifecycleCommand(@)], NoEntry)

toFeatureMetadata(e) ==
    [id         |-> Field(e, "id", ""),
     remoteUser |-> Field(e, "remoteUser", ""),
     privileged |-> Field(e, "privileged", "nil"),
     env        |-> Field(e, "env", NoEnv),
     capAdd     |-> Field(e, "capAdd", <<>>),
     mounts     |-> decodeMounts(Field(e, "mounts", <<>>)),
     entrypoint |-> Field(e, "entrypoint", ""),
     hook       |-> decodeLifecycleCommand(Field(e, "hook", NoJSON)),
     waitFor    |-> Field(e, "waitFor", "")]

ParseMetadataLabel(label) ==
    [i \in DOMAIN label |-> toFeatureMetadata(label[i])]

(* The entries of the base, one per feature installed now, and one with   *)
(* what devcontainer.json sets itself.                                    *)
buildMetadataLabel(base, new, cfg) ==
    [i \in DOMAIN (base \o new) |-> metadataFromFeatureMetadata((base \o new)[i])]
      \o <<metadataFromFeatureMetadata([NoLayer EXCEPT !.remoteUser = cfg.remoteUser])>>

-----------------------------------------------------------------------------
(* Substitution and the merge.                                             *)

ResolveString(s, host) == IF s = Placeholder THEN host ELSE s

SubstitutedMount(m, host) ==
    [m EXCEPT !.source = ResolveString(@, host), !.target = ResolveString(@, host)]

(* The string fields a layer and devcontainer.json have in common.         *)
Substituted(l, host) ==
    LET Sub(s) == ResolveString(s, host) IN
    [l EXCEPT !.remoteUser = Sub(@),
              !.env = [k \in Variable |-> Sub(@[k])],
              !.capAdd = [i \in DOMAIN @ |-> Sub(@[i])],
              !.mounts = [i \in DOMAIN @ |-> SubstitutedMount(@[i], host)],
              !.hook.text = Sub(@)]

substituteLayers(layers, host) ==
    [i \in DOMAIN layers |->
       [Substituted(layers[i], host) EXCEPT
          !.entrypoint = ResolveString(@, host)]]

(* Resolve: no default is filled in yet, and a hook is a list of one.      *)
resolveFromRaw(user, host) ==
    LET u == Substituted(user, host) IN
    [remoteUser |-> u.remoteUser, privileged |-> u.privileged, env |-> u.env,
     capAdd |-> u.capAdd, mounts |-> u.mounts, entrypoints |-> <<>>,
     hooks |-> IF u.hook = NoHook THEN <<>> ELSE <<u.hook>>,
     waitFor |-> u.waitFor,
     features |-> [i \in DOMAIN u.features |->
                     [id |-> u.features[i], installed |-> FALSE,
                      metadata |-> NoLayer]]]

(* The user's value, or else the last one set by a layer.                  *)
pick(own, values, unset) ==
    LET out[n \in 0 .. Len(values)] ==
          IF n = 0 THEN unset ELSE IF values[n] # unset THEN values[n] ELSE out[n - 1]
    IN  IF own # unset THEN own ELSE out[Len(values)]

unionDedup(s) ==
    LET out[n \in 0 .. Len(s)] ==
          IF n = 0 THEN <<>>
          ELSE IF s[n] \in Range(out[n - 1]) THEN out[n - 1] ELSE Append(out[n - 1], s[n])
    IN  out[Len(s)]

Overlay(m, n) == [k \in Variable |-> IF n[k] # "nil" THEN n[k] ELSE m[k]]

mergeStringMaps(maps, own) ==
    LET out[n \in 0 .. Len(maps)] == IF n = 0 THEN NoEnv ELSE Overlay(out[n - 1], maps[n])
    IN  Overlay(out[Len(maps)], own)

(* The last mount of each target stays, in the order of those last ones.   *)
WithMount(out, m) ==
    Append(Kept(out, {k \in DOMAIN out : m.target = "" \/ out[k].target # m.target}), m)

dedupMountsByTarget(s) ==
    LET out[n \in 0 .. Len(s)] == IF n = 0 THEN <<>> ELSE WithMount(out[n - 1], s[n])
    IN  out[Len(s)]

prependHooks(hooks, own) == Kept(hooks, {i \in DOMAIN hooks : hooks[i] # NoHook}) \o own

MergeMetadata(cfg, host, layers) ==
    LET ls == substituteLayers(layers, host)
        entrypoints == [i \in DOMAIN ls |-> ls[i].entrypoint]
    IN  IF layers = <<>> THEN cfg
        ELSE [cfg EXCEPT
                !.remoteUser = pick(@, [i \in DOMAIN ls |-> ls[i].remoteUser], ""),
                !.privileged = pick(@, [i \in DOMAIN ls |-> ls[i].privileged], "nil"),
                !.waitFor = pick(@, [i \in DOMAIN ls |-> ls[i].waitFor], ""),
                !.env = mergeStringMaps([i \in DOMAIN ls |-> ls[i].env], @),
                !.capAdd = unionDedup(FlattenSeq([i \in DOMAIN ls |-> ls[i].capAdd]) \o @),
                !.mounts = dedupMountsByTarget(FlattenSeq([i \in DOMAIN ls |-> ls[i].mounts]) \o @),
                !.entrypoints = Kept(entrypoints, {i \in DOMAIN ls : entrypoints[i] # ""}),
                !.hooks = prependHooks([i \in DOMAIN ls |-> ls[i].hook], @)]

(* The default waits for updateContent when any layer has such a hook.     *)
Finalize(cfg) ==
    [cfg EXCEPT !.waitFor =
       IF @ # "" THEN @
       ELSE IF cfg.hooks # <<>> THEN "updateContent" ELSE "postCreate"]

(* The features of cfg that the base image does not bring.                 *)
Added(cfg) ==
    LET fs == cfg.features
    IN  Kept([i \in DOMAIN fs |-> fs[i].metadata], {i \in DOMAIN fs : ~fs[i].installed})

(* Base layers, then the features installed on top, then the defaults.     *)
applyMetadataMerge(cfg, base, host) ==
    Finalize(MergeMetadata(cfg, host, base \o Added(cfg)))

(* A feature with an entry in the base label is taken as installed.        *)
MatchFeature(f, base) ==
    LET baked == {k \in DOMAIN base : base[k].id = f.id} IN
    IF baked = {} THEN [f EXCEPT !.metadata = Metadata[f.id]]
    ELSE [f EXCEPT !.installed = TRUE,
                   !.metadata = base[CHOOSE k \in baked : \A j \in baked : k <= j]]

markAlreadyInstalled(cfg, base) ==
    [cfg EXCEPT !.features = [i \in DOMAIN @ |-> MatchFeature(@[i], base)]]

-----------------------------------------------------------------------------
(* What the container is created with.                                     *)

defaultWorkspaceMount ==
    [type |-> "bind", source |-> "folder", target |-> "workspace",
     readOnly |-> FALSE]

buildMounts(cfg) == <<defaultWorkspaceMount>> \o cfg.mounts

BoolOr(p, default) == IF p = "nil" THEN default ELSE p = "true"

(* The image path has no place for the entrypoints of the layers.          *)
buildRunSpec(cfg) ==
    [volumes |-> buildMounts(cfg) \o ExtraMounts, env |-> cfg.env,
     privileged |-> BoolOr(cfg.privileged, FALSE), capAdd |-> cfg.capAdd,
     entrypoint |-> [scripts |-> <<>>, original |-> ImageEntrypoint, dollar |-> ""]]

composeBindMounts(cfg) ==
    LET ms == cfg.mounts \o ExtraMounts
    IN  <<defaultWorkspaceMount>>
          \o Kept(ms, {i \in DOMAIN ms : /\ ms[i].type = "bind"
                                         /\ ms[i].source # "" /\ ms[i].target # ""})

composeMounts(cfg) ==
    LET ms == cfg.mounts \o ExtraMounts
        kept == Kept(ms, {i \in DOMAIN ms : /\ ms[i].type \in {"volume", "tmpfs"}
                                            /\ ms[i].target # ""})
    IN  [i \in DOMAIN kept |-> IF kept[i].type = "tmpfs"
                               THEN [kept[i] EXCEPT !.source = ""] ELSE kept[i]]

(* A bug: no request for privileged mode is taken as a request for none.   *)
composeRunOverrideDowngrades(cfg, inspected) ==
    [binds |-> composeBindMounts(cfg), mounts |-> composeMounts(cfg),
     env |-> cfg.env,
     privileged |-> IF cfg.privileged = "true" THEN "true" ELSE "false",
     capAdd |-> cfg.capAdd, entrypoints |-> cfg.entrypoints,
     original |-> IF Service.entrypoint.original # <<>>
                  THEN Service.entrypoint.original
                  ELSE IF inspected THEN ImageEntrypoint ELSE <<>>]

(* The service's own entrypoint, or the image's if it can be inspected.    *)
composeRunOverride(cfg, inspected) ==
    [binds |-> composeBindMounts(cfg), mounts |-> composeMounts(cfg),
     env |-> cfg.env, privileged |-> cfg.privileged, capAdd |-> cfg.capAdd,
     entrypoints |-> cfg.entrypoints,
     original |-> IF Service.entrypoint.original # <<>>
                  THEN Service.entrypoint.original
                  ELSE IF inspected THEN ImageEntrypoint ELSE <<>>]

(* Runs the scripts and then the original with `exec "$@"`; a file that    *)
(* docker compose reads needs the dollar twice.                            *)
RenderEntrypointWrapper(scripts, original, escapeDollar) ==
    [scripts |-> scripts, original |-> original,
     dollar |-> IF escapeDollar THEN "$$" ELSE "$"]

Targets(volumes) == {volumes[i].target : i \in DOMAIN volumes}

(* A mount whose target is taken is left out.                              *)
AddMissing(volumes, more) ==
    LET out[n \in 0 .. Len(more)] ==
          IF n = 0 THEN volumes
          ELSE IF more[n].target \in Targets(out[n - 1]) THEN out[n - 1]
          ELSE Append(out[n - 1], more[n])
    IN  out[Len(more)]

(* The native backend changes the loaded project.                          *)
ApplyRunOverride(svc, ov) ==
    [volumes |-> AddMissing(AddMissing(svc.volumes, ov.binds), ov.mounts),
     env |-> Overlay(svc.env, ov.env),
     privileged |-> BoolOr(ov.privileged, svc.privileged),
     capAdd |-> IF ov.capAdd = <<>> THEN svc.capAdd
                ELSE unionDedup(svc.capAdd \o ov.capAdd),
     entrypoint |-> IF ov.entrypoints = <<>> THEN svc.entrypoint
                    ELSE RenderEntrypointWrapper(ov.entrypoints, ov.original, FALSE)]

(* Bind mounts are added whether or not their target is taken.             *)
mergedVolumes(svc, ov) == AddMissing(svc.volumes \o ov.binds, ov.mounts)

(* A bug: only the engine's own capabilities are written.                  *)
WriteRunOverrideCapsOnly(svc, ov) ==
    Omitting([volumes |-> mergedVolumes(svc, ov), env |-> ov.env,
              privileged |-> ov.privileged, capAdd |-> ov.capAdd,
              entrypoint |-> IF ov.entrypoints = <<>> THEN svc.entrypoint
                 ELSE RenderEntrypointWrapper(ov.entrypoints, ov.original, TRUE)],
             [volumes |-> <<>>, env |-> NoEnv, privileged |-> "nil",
              capAdd |-> <<>>, entrypoint |-> svc.entrypoint])

(* The shell-out backend writes a file with what it sets.                  *)
WriteRunOverride(svc, ov) ==
    Omitting([volumes |-> mergedVolumes(svc, ov), env |-> ov.env,
              privileged |-> ov.privileged,
              capAdd |-> IF ov.capAdd = <<>> THEN svc.capAdd
                         ELSE unionDedup(svc.capAdd \o ov.capAdd),
              entrypoint |-> IF ov.entrypoints = <<>> THEN svc.entrypoint
                 ELSE RenderEntrypointWrapper(ov.entrypoints, ov.original, TRUE)],
             [volumes |-> <<>>, env |-> NoEnv, privileged |-> "nil",
              capAdd |-> <<>>, entrypoint |-> svc.entrypoint])

(* docker compose lays the file over the project: maps are united, all     *)
(* else is replaced; "$$" is read as "$" and "$" as a variable.            *)
ComposeMerge(svc, file) ==
    [volumes    |-> Field(file, "volumes", svc.volumes),
     env        |-> Overlay(svc.env, Field(file, "env", NoEnv)),
     privileged |-> BoolOr(Field(file, "privileged", "nil"), svc.privileged),
     capAdd     |-> Field(file, "capAdd", svc.capAdd),
     entrypoint |-> [Field(file, "entrypoint", svc.entrypoint) EXCEPT
                       !.dollar = IF @ = "$$" THEN "$" ELSE ""]]

upCompose(ov) ==
    IF Native THEN ApplyRunOverride(Service, ov)
    ELSE ComposeMerge(Service, WriteRunOverride(Service, ov))

-----------------------------------------------------------------------------
VARIABLES
    user,       \* devcontainer.json
    host,       \* the host variable
    images,     \* the published image and the one Engine.Build makes
    box,        \* the container, or NoBox
    ws,         \* what the last Up returned, or NoBox
    changes     \* edits made so far

vars == <<user, host, images, box, ws, changes>>

NoBox == [label |-> <<>>]

(* layers and whole are not in the code: what was really installed into    *)
(* the image, and whether every label on the way could be read (if not,    *)
(* layers is of no use).                                                   *)
Image(label, layers, whole) ==
    [label |-> label, layers |-> IF whole THEN layers ELSE <<>>, whole |-> whole]

Init ==
    /\ user \in {c \in Configs : c.base = "published"}
    /\ host \in Hosts
    /\ images = [published |->
                   Image([i \in DOMAIN Published |->
                            metadataFromFeatureMetadata(Published[i])],
                         Published, TRUE),
                 prebuilt |-> NoBox]
    /\ box = NoBox
    /\ ws = NoBox
    /\ changes = 0

Inspects == IF "inspect" \in Faults THEN BOOLEAN ELSE {TRUE}

(* The base label (none if it cannot be read) and cfg matched against it.  *)
BaseMetadata(base, inspected) ==
    IF inspected THEN ParseMetadataLabel(images[base].label) ELSE <<>>

Matched(inspected) ==
    markAlreadyInstalled(resolveFromRaw(user, host),
                         BaseMetadata(user.base, inspected))

(* With no feature to install the base image is used as it is.             *)
layerFeatures(inspected) ==
    LET cfg  == Matched(inspected)
        from == images[user.base] IN
    IF Added(cfg) = <<>> THEN from
    ELSE Image(buildMetadataLabel(BaseMetadata(user.base, inspected), Added(cfg), cfg),
               from.layers \o Added(cfg)
                 \o <<[NoLayer EXCEPT !.remoteUser = cfg.remoteUser]>>,
               from.whole /\ inspected)

HasBase == images[user.base] # NoBox

(* Engine.Build, which refuses a compose source.                           *)
Build ==
    /\ user.source = "image" /\ HasBase
    /\ \E inspected \in Inspects :
         images' = [images EXCEPT !.prebuilt = layerFeatures(inspected)]
    /\ UNCHANGED <<user, host, box, ws, changes>>

Workspace(kind, cfg, inspected) ==
    [kind |-> kind, cfg |-> cfg, inspected |-> inspected]

Create(inspected, entry) ==
    LET img == layerFeatures(inspected)
        cfg == applyMetadataMerge(Matched(inspected),
                                  BaseMetadata(user.base, inspected), host)
        ov  == composeRunOverride(cfg, entry) IN
    /\ box' = [label |-> img.label, layers |-> img.layers, whole |-> img.whole,
               source |-> user.source, inputs |-> resolveFromRaw(user, host),
               base |-> images[user.base], host |-> host,
               inspected |-> inspected /\ entry, cfg |-> cfg,
               spec |-> IF user.source = "image" THEN buildRunSpec(cfg)
                        ELSE upCompose(ov)]
    /\ ws' = Workspace("created", cfg, inspected)

createFresh ==
    /\ user.source = "image" /\ HasBase /\ box = NoBox
    /\ \E inspected \in Inspects : Create(inspected, TRUE)
    /\ UNCHANGED <<user, host, images, changes>>

(* The features of cfg were not fetched and bring nothing.                 *)
Attached(inspected) ==
    applyMetadataMerge(resolveFromRaw(user, host),
                       IF inspected THEN ParseMetadataLabel(box.label) ELSE <<>>,
                       host)

attachExisting ==
    /\ user.source = "image" /\ box # NoBox
    /\ \E inspected \in Inspects :
         ws' = Workspace("attached", Attached(inspected), inspected)
    /\ UNCHANGED <<user, host, images, box, changes>>

(* A bug: the mounts are left out of the hash as well.                     *)
composeInputsWithoutMounts(cfg) ==
    [cfg EXCEPT !.hooks = <<>>, !.waitFor = "", !.mounts = <<>>]

(* composeInputsHash leaves out what needs no new container.               *)
composeInputs(cfg) == [cfg EXCEPT !.hooks = <<>>, !.waitFor = ""]

Reattaches ==
    /\ box # NoBox
    /\ box.base = images[user.base]
    /\ composeInputs(resolveFromRaw(user, host)) = composeInputs(box.inputs)

(* Without a container, or with one made from other inputs.                *)
createFreshCompose ==
    /\ user.source = "compose" /\ HasBase
    /\ \E inspected, entry \in Inspects :
         /\ Reattaches => ~inspected
         /\ Create(inspected, entry)
    /\ UNCHANGED <<user, host, images, changes>>

(* The backend is given the service anew; a container that differs from it *)
(* is replaced.                                                            *)
reattachCompose ==
    /\ user.source = "compose" /\ HasBase
    /\ Reattaches
    /\ \E entry \in Inspects :
         LET cfg  == Attached(TRUE)
             spec == upCompose(composeRunOverride(cfg, entry)) IN
         /\ box' = IF spec = box.spec THEN box
                   ELSE [box EXCEPT !.spec = spec, !.cfg = cfg,
                                    !.host = host, !.inspected = entry]
         /\ ws' = Workspace("attached", cfg, TRUE)
    /\ UNCHANGED <<user, host, images, changes>>

Down ==
    /\ box # NoBox
    /\ box' = NoBox /\ ws' = NoBox
    /\ UNCHANGED <<user, host, images, changes>>

(* The user edits devcontainer.json, or calls from another environment.    *)
(* From an image to a compose file only once the container is down.        *)
Edit ==
    /\ changes < MaxChanges
    /\ \E c \in Configs \ {user} :
         /\ box # NoBox => c.source = box.source
         /\ user' = c
    /\ changes' = changes + 1
    /\ ws' = NoBox
    /\ UNCHANGED <<host, images, box>>

HostChanges ==
    /\ changes < MaxChanges
    /\ \E h \in Hosts \ {host} : host' = h
    /\ changes' = changes + 1
    /\ ws' = NoBox
    /\ UNCHANGED <<user, images, box>>

Next ==
    \/ Build \/ createFresh \/ attachExisting \/ createFreshCompose
    \/ reattachCompose \/ Down \/ Edit \/ HostChanges

Spec == Init /\ [][Next]_vars

-----------------------------------------------------------------------------
(* Properties.                                                             *)

(* Every configuration handed out is complete: the merge left no phase to  *)
(* wait for open, each hook is one that can run, and a label only has      *)
(* entries for features that exist (Finalize, ParseMetadataLabel).         *)
TypeOK ==
    /\ user \in Configs /\ host \in Hosts /\ changes \in 0..MaxChanges
    /\ ws # NoBox => /\ ws.kind \in {"created", "attached"} /\ ws.inspected \in BOOLEAN
                     /\ ws.cfg \in FinalType
    /\ box # NoBox =>
         /\ box.source \in {"image", "compose"} /\ box.host \in Hosts
         /\ box.cfg \in FinalType /\ box.spec \in ServiceType
         /\ ParseMetadataLabel(box.label) \in Seq(LayerType)
         /\ \A l \in ToSet(ParseMetadataLabel(box.label)) :
              l.id \in {Metadata[f].id : f \in Feature}
                         \cup {Published[i].id : i \in DOMAIN Published} \cup {""}

(* The last value that is set, in the order of the layers.                 *)
LastSet(values, unset) ==
    IF \A i \in DOMAIN values : values[i] = unset THEN unset
    ELSE values[CHOOSE i \in DOMAIN values :
                  /\ values[i] # unset
                  /\ \A j \in DOMAIN values : j > i => values[j] = unset]

(* cfg is what the layers define, with devcontainer.json as the last one.  *)
(* Without any layer the lists of devcontainer.json are taken as they are. *)
IsDefinedBy(cfg, layers) ==
    LET all == substituteLayers(layers, host) \o <<Substituted(user, host)>>
        entrypoints == [i \in DOMAIN all |-> all[i].entrypoint]
        hooks == [i \in DOMAIN all |-> all[i].hook]
        mounts == FlattenSeq([i \in DOMAIN all |-> all[i].mounts]) IN
    /\ cfg.remoteUser = LastSet([i \in DOMAIN all |-> all[i].remoteUser], "")
    /\ cfg.privileged = LastSet([i \in DOMAIN all |-> all[i].privileged], "nil")
    /\ \A k \in Variable :
         cfg.env[k] = LastSet([i \in DOMAIN all |-> all[i].env[k]], "nil")
    /\ layers # <<>> => IsInjective(cfg.capAdd)
    /\ ToSet(cfg.capAdd) = UNION {ToSet(all[i].capAdd) : i \in DOMAIN all}
    /\ layers # <<>> =>
         ToSet(cfg.mounts) =
           {mounts[i] : i \in {i \in DOMAIN mounts :
              mounts[i].target # "" =>
                \A j \in DOMAIN mounts : j > i => mounts[j].target # mounts[i].target}}
    /\ cfg.entrypoints = Kept(entrypoints, {i \in DOMAIN all : entrypoints[i] # ""})
    /\ cfg.hooks = Kept(hooks, {i \in DOMAIN all : hooks[i] # NoHook})
    /\ cfg.waitFor = LET w == LastSet([i \in DOMAIN all |-> all[i].waitFor], "") IN
                     IF w # "" THEN w
                     ELSE IF cfg.hooks = <<>> THEN "postCreate" ELSE "updateContent"

(* However the container came about (a fresh Up, an Up on an image built   *)
(* by Engine.Build elsewhere, an attach, a compose reattach), the          *)
(* configuration Up returns is the one defined by all that was installed   *)
(* into its image and by the present devcontainer.json and host, and       *)
(* nothing is lost or repeated on the way through the label                *)
(* (MergeMetadata, buildMetadataLabel, ParseMetadataLabel).                *)
ViewIsDefined ==
    (ws # NoBox /\ ws.inspected /\ box.whole) => IsDefinedBy(ws.cfg, box.layers)

(* The two backends give the service the same environment, capabilities,   *)
(* privilege and entrypoint, one through memory and one through a file     *)
(* that docker compose merges and interpolates, and the same volumes       *)
(* unless a bind mount has the target of another (ApplyRunOverride,        *)
(* WriteRunOverride).                                                      *)
BackendsAgree ==
    (box # NoBox /\ box.source = "compose") =>
      LET ov  == composeRunOverride(box.cfg, TRUE)
          mem == ApplyRunOverride(Service, ov)
          cmp == ComposeMerge(Service, WriteRunOverride(Service, ov)) IN
      /\ \A k \in DOMAIN mem \ {"volumes"} : mem[k] = cmp[k]
      /\ DistinctTargets(Service.volumes \o ov.binds) => mem.volumes = cmp.volumes

(* What the compose file says of the service holds for the container:      *)
(* volumes and capabilities are added to, privileged is only taken away    *)
(* when a layer says so, and the entrypoint runs after those of the layers *)
(* (ApplyRunOverride, RenderEntrypointWrapper).  The native backend never  *)
(* asks the daemon for two mounts at one target, though the compose file,  *)
(* devcontainer.json, the features and the workspace mount may all name    *)
(* it.                                                                     *)
ServiceIsKept ==
    (box # NoBox /\ box.source = "compose" /\ box.inspected) =>
      /\ Native => DistinctTargets(box.spec.volumes)
      /\ IsPrefix(Service.volumes, box.spec.volumes)
      /\ ToSet(Service.capAdd) \subseteq ToSet(box.spec.capAdd)
      /\ \A k \in Variable : box.cfg.env[k] = "nil" => box.spec.env[k] = Service.env[k]
      /\ (Service.privileged /\ ~box.spec.privileged) => box.cfg.privileged = "false"
      /\ box.cfg.entrypoints # <<>> =>
           /\ box.spec.entrypoint.scripts = box.cfg.entrypoints
           /\ box.spec.entrypoint.original = <<>> =>
                Service.entrypoint.original = <<>> /\ ImageEntrypoint = <<>>
           /\ box.spec.entrypoint.dollar = "$"

(* The next Up on a compose container whose inputs are the same gives the  *)
(* backend the very service the container was created from, though it is   *)
(* put together from the label of the image instead of the features, so    *)
(* the container is kept (reattachCompose, composeInputsHash).             *)
ReattachKeepsService ==
    (/\ box # NoBox /\ user.source = "compose" /\ HasBase /\ Reattaches
     /\ box.inspected /\ box.host = host) =>
      upCompose(composeRunOverride(Attached(TRUE), TRUE)) = box.spec
=============================================================================
