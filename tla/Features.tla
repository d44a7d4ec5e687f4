------------------------------ MODULE Features ------------------------------
(***************************************************************************)
(* Features of an image: config/resolve.go (buildPartialFeatures), up.go   *)
(* (layerFeatures and what it calls), lockfile.go, feature/lockfile.go,    *)
(* match.go, dockerfile.go, metadata.go, and Engine.Build around them.     *)
(*                                                                         *)
(* One call of Up or Build takes the features devcontainer.json asks for,  *)
(* leaves out those the base image has, fetches the others and all they    *)
(* depend on, one by one, records what they resolved to in the lockfile,   *)
(* puts them in order and builds them onto the base image.  Between two    *)
(* steps tags and URLs may come to name something else; a call may fail or *)
(* the process may die at every step, in the middle of writing the         *)
(* lockfile too.                                                           *)
(***************************************************************************)
EXTENDS FeatureOrder

CONSTANTS
    Kind,      \* Kind[r]: "oci", "https" or "local"
    Place,     \* Place[r]: the repository, or the directory, of a reference
    BareId,    \* BareId[r]: the last part of the repository's name
    Digest,    \* contents
    Artifact,  \* Artifact[d]: the metadata of the feature with content d
    Serves,    \* Serves[r]: the contents that r may name, the first of them first
    Outside,   \* local references not inside the directory of devcontainer.json
    Configs,   \* the configurations: features asked for, and an override order
    Bases,     \* base images
    Options,   \* the other options of a call: mode, strict, name
    Faults,    \* what may go wrong
    MaxCalls,  \* bound on calls of Up and Build
    MaxMoves   \* bound on changes of what references name

Mode == {"default", "frozen", "disabled", "upgrade"}

(* The metadata of an entry that has not been fetched.                     *)
NoMeta == [id |-> 0, version |-> 0, default |-> 0, enum |-> Option,
           dependsOn |-> {}, installsAfter |-> {}]

NoResolvedRef == [at |-> 0, digest |-> 0]

(* Fetched.ResolvedRef: repository and digest, digest, or directory.       *)
ResolvedRef(r, d) ==
    [at     |-> IF Kind[r] = "https" THEN 0 ELSE Place[r],
     digest |-> IF Kind[r] = "local" THEN 0 ELSE d]

NoLock == [state |-> "none", entries |-> <<>>]

(* An empty file, as left by the truncation that begins a write.           *)
BlankLock == [state |-> "blank", entries |-> <<>>]

(* A file cut short in the middle of a write.                              *)
TornLock == [state |-> "torn", entries |-> <<>>]

Lockfile(entries) == [state |-> "whole", entries |-> entries]

(* FeatureMetadata.  dependsOn is an object: one entry for a key.          *)
Metadata ==
    [id : Nat, version : Nat, default : Option, enum : SUBSET Option,
     dependsOn : DependsOn, installsAfter : SUBSET Nat]

ResolvedRefs == [at : {0} \cup Range(Place), digest : {0} \cup Digest]

(* An entry of the label of an image, and an image used as a base.         *)
LabelEntries ==
    [id : Nat, version : Nat, resolved : ResolvedRefs, dependsOn : DependsOn,
     known : BOOLEAN]

BaseImage ==
    [source : {"image", "build"}, label : Seq(LabelEntries), contents : SUBSET ResolvedRefs]

(* What is installed in an image, going by its label.                      *)
Labelled(label) == {e.resolved : e \in Range(label)} \ {NoResolvedRef}

(* References of one place: the tags of a repository, the spellings of the *)
(* path of a directory or of a URL.                                        *)
Contents(r) == UNION {Range(Serves[q]) : q \in {q \in Ref : Place[q] = Place[r]}}

ASSUME FeaturesAssumption ==
    /\ Kind \in [Ref -> {"oci", "https", "local"}]
    /\ Place \in [Ref -> Nat \ {0}] /\ BareId \in [Ref -> Nat]
    /\ 0 \notin Digest /\ Artifact \in [Digest -> Metadata]
    /\ \A r \in Ref : Serves[r] \in Seq(Digest) /\ Serves[r] # <<>>
    /\ \A r, q \in Ref : Place[r] = Place[q] => Kind[r] = Kind[q]
    /\ \A r \in Ref : Kind[r] = "local" => \A d, e \in Contents(r) : d = e
    /\ Outside \subseteq Ref
    /\ Options \subseteq [mode : Mode, strict : BOOLEAN, name : {"", "name"}]
    /\ Configs # {}
    /\ \A c \in Configs : /\ DOMAIN c.asks \subseteq Ref
                          /\ c.asks \in [DOMAIN c.asks -> Option]
                          /\ c.override \in Seq(Nat)
    /\ Bases # {} /\ \A b \in Bases : b.contents = Labelled(b.label)
    /\ \A b \in Bases : b \in BaseImage
    /\ MaxCalls \in Nat /\ MaxMoves \in Nat

VARIABLES
    names,     \* names[r]: the content r names now
    moves, calls,
    lockfile,  \* devcontainer-lock.json
    built,     \* images built by earlier calls
    pc,        \* the next step of the call
    call,      \* its options: mode, config, base, strict, name
    lock,      \* featureLock.existing
    feats,     \* cfg.Features
    i,         \* the loop's index
    aliases,
    image,     \* what the call returns
    last,      \* "ok", or how the call failed
    still,     \* history: nothing moved since the call began
    locked     \* history: the configuration and lockfile of the last call that
               \* wrote or confirmed its lockfile while nothing moved (a set)

worldVars == <<names, moves>>
callVars == <<call, lock, feats, i, aliases, image, still>>
vars == <<worldVars, calls, lockfile, built, pc, callVars, last, locked>>

Fails(what) == what \in Faults

----------------------------------------------------------------------------
(* The world: a tag is moved, a URL serves another file.                   *)
Republish(r) ==
    /\ moves < MaxMoves
    /\ moves' = moves + 1
    /\ Kind[r] # "local"
    /\ \E d \in Range(Serves[r]) \ {names[r]} : names' = [names EXCEPT ![r] = d]
    /\ still' = FALSE
    /\ UNCHANGED <<calls, lockfile, built, pc, call, lock, feats, i, aliases, image,
                   last, locked>>

----------------------------------------------------------------------------
(* buildPartialFeatures: in the order of the references, those named by    *)
(* overrideFeatureInstallOrder first.                                      *)
Requested(r, opts) ==
    [ref |-> r, opts |-> opts, dir |-> FALSE, baked |-> FALSE,
     resolved |-> NoResolvedRef, meta |-> NoMeta, known |-> FALSE]

buildPartialFeatures(config) ==
    LET asked == {Requested(r, config.asks[r]) : r \in DOMAIN config.asks}
        all == SortedBy(asked, {e \in asked \X asked : featureLess(e[1], e[2])})
        split == splitByOverride(all, config.override)
    IN  split.overridden \o split.remaining

----------------------------------------------------------------------------
(* The lockfile. *)

(* LockfileDisabled does not read it; a blank file is none.                *)
ReadLockfile == IF lockfile.state = "whole" THEN lockfile ELSE NoLock

(* The entry f is pinned to: a set, empty without one.                     *)
pin(f) ==
    IF call.mode = "upgrade" \/ Kind[f.ref] = "local" THEN {}
    ELSE {lock.entries[r] : r \in {f.ref} \cap DOMAIN lock.entries}

Lock(f) ==
    [version |-> f.meta.version, at |-> f.resolved.at, integrity |-> f.resolved.digest,
     dependsOn |-> {dep.key : dep \in f.meta.dependsOn}]

CheckIntegrity(resolved, entry) == resolved.digest = entry.integrity

acceptsBaked(f, b) ==
    CASE call.mode = "disabled" -> TRUE
      [] call.mode = "upgrade"  -> FALSE
      [] OTHER -> /\ b.resolved # NoResolvedRef
                  /\ \A p \in pin(f) : CheckIntegrity(b.resolved, p)

Remote(features) == {f \in Range(features) : Kind[f.ref] # "local"}

(* The entries of a lockfile, keyed by reference; a later feature replaces *)
(* an earlier one with its reference.                                      *)
Entry(f) ==
    IF f.baked /\ pin(f) # {} THEN CHOOSE p \in pin(f) : TRUE ELSE Lock(f)

LockedBy(features) ==
    LET lastOf(r) == CHOOSE n \in DOMAIN features :
                       /\ features[n].ref = r
                       /\ \A k \in DOMAIN features : features[k].ref = r => k <= n
    IN  [r \in {f.ref : f \in Remote(features)} |-> Entry(features[lastOf(r)])]

(* A bug: duplicates dropped on the way are not recorded.                  *)
NextLockWithoutAliases == LockedBy(feats)

NextLock == LockedBy(feats \o aliases)

----------------------------------------------------------------------------
(* Features the base image has. *)

(* Matches: id, and a version that will do.                                *)
Matches(b, f) ==
    /\ b.id = BareId[f.ref]
    /\ IF call.strict THEN b.version = f.opts ELSE b.version >= f.opts

bakedFeature(f) ==
    {n \in DOMAIN call.base.label :
        /\ Kind[f.ref] = "oci"
        /\ Matches(call.base.label[n], f)
        /\ acceptsBaked(f, call.base.label[n])}

(* The metadata a label entry records: no option declarations, and no      *)
(* installsAfter.                                                          *)
BakedMeta(b) ==
    [NoMeta EXCEPT !.id = b.id, !.version = b.version, !.dependsOn = b.dependsOn]

markAlreadyInstalled(features) ==
    [n \in DOMAIN features |->
        LET f == features[n]
            found == bakedFeature(f)
            b == call.base.label[CHOOSE k \in found : \A l \in found : k <= l]
        IN  IF found = {} THEN f
            ELSE [f EXCEPT !.baked = TRUE, !.resolved = b.resolved,
                           !.meta = BakedMeta(b), !.known = b.known]]

----------------------------------------------------------------------------
(* Dependencies. *)

(* checkLocalDependency: only a local feature may name one, and only       *)
(* inside the directory of devcontainer.json.                              *)
checkLocalDependency(f, key) == Kind[f.ref] = "local" /\ key \notin Outside

requested(features, dep) ==
    \E n \in DOMAIN features :
        features[n].ref = dep.key /\ SameOptions(features[n], dep.opts)

(* What features lacks of what f depends on, in key order.                 *)
dependencies(features, f) ==
    LET missing == {dep \in f.meta.dependsOn : ~requested(features, dep)}
        keys == SortedBy(missing, {e \in missing \X missing : e[1].key < e[2].key})
    IN  [n \in 1 .. Cardinality(missing) |-> Requested(keys[n].key, keys[n].opts)]

duplicateFeature(earlier, f) ==
    \E n \in DOMAIN earlier :
        /\ earlier[n].resolved # NoResolvedRef
        /\ earlier[n].resolved = f.resolved
        /\ earlier[n].opts = f.opts

----------------------------------------------------------------------------
(* One call. *)

NoCall == [mode |-> "default", config |-> CHOOSE c \in Configs : TRUE,
           base |-> CHOOSE b \in Bases : TRUE, strict |-> FALSE, name |-> ""]

NoImage == [tag |-> "", label |-> <<>>, contents |-> {}]

(***************************************************************************)
(* Up (no name) or Build (with or without one) has resolved the            *)
(* configuration.  prepareBaseImage pulls the image or builds the          *)
(* Dockerfile, under the final name if nothing is to be layered on it.     *)
(***************************************************************************)
BaseTag(base, config, name) ==
    IF base.source = "image" THEN "image"
    ELSE IF DOMAIN config.asks = {} /\ name # "" THEN name
    ELSE "dc-go-base"

prepareBaseImage(config, base, opts) ==
    /\ pc = "idle" /\ calls < MaxCalls
    /\ calls' = calls + 1
    /\ call' = [config |-> config, base |-> base, mode |-> opts.mode,
                strict |-> opts.strict, name |-> opts.name]
    /\ image' = [tag |-> BaseTag(base, config, opts.name), label |-> base.label,
                 contents |-> base.contents]
    /\ feats' = buildPartialFeatures(config)
    /\ pc' = "load" /\ last' = "" /\ still' = TRUE
    /\ UNCHANGED <<worldVars, lockfile, built, lock, i, aliases, locked>>

(* The call returns an error; its local variables are gone.                *)
Error(outcome) ==
    /\ pc' = "idle" /\ last' = outcome
    /\ lock' = NoLock /\ i' = 1 /\ aliases' = <<>>
    /\ UNCHANGED <<worldVars, calls, lockfile, built, call, feats, image, still, locked>>

(* The call goes on; only its position changes.                            *)
Move(step) ==
    /\ pc' = step
    /\ UNCHANGED <<worldVars, calls, lockfile, built, callVars, last, locked>>

(* loadFeatureLock, and commitNoFeatures where no feature is asked for.    *)
loadFeatureLock ==
    /\ pc = "load"
    /\ IF call.mode # "disabled" /\ lockfile.state = "torn" THEN Error("parse")
       ELSE IF feats = <<>> /\ (call.mode = "disabled" \/ ReadLockfile = NoLock)
       THEN Move("tag")
       ELSE IF call.mode = "frozen" /\ ReadLockfile = NoLock THEN Error("missing")
       ELSE /\ pc' = IF feats = <<>> THEN "commit" ELSE "mark"
            /\ lock' = IF call.mode = "disabled" THEN NoLock ELSE ReadLockfile
            /\ UNCHANGED <<worldVars, calls, lockfile, built, call, feats, i, aliases,
                           image, still, last, locked>>

Mark ==
    /\ pc = "mark"
    /\ feats' = markAlreadyInstalled(feats)
    /\ pc' = "loop"
    /\ UNCHANGED <<worldVars, calls, lockfile, built, call, lock, i, aliases, image,
                   still, last, locked>>

(* cfg.Features[i] is f now, and what f depends on is appended.            *)
Keep(f) ==
    \E features \in {[feats EXCEPT ![i] = f]} :
    \E deps \in {dependencies(features, f)} :
        IF \E dep \in Range(deps) : Kind[dep.ref] = "local" /\ ~checkLocalDependency(f, dep.ref)
        THEN Error("local dependency")
        ELSE /\ feats' = features \o deps
             /\ i' = i + 1
             /\ UNCHANGED <<worldVars, calls, lockfile, built, pc, call, lock, aliases,
                            image, still, last, locked>>

Current == pc = "loop" /\ i <= Len(feats)

(* A label that does not say what a feature depends on: its artifact does. *)
(* What the label recorded of a feature from a URL or a directory is no    *)
(* reference that a registry can be asked for: there is no answer.         *)
bakedDependsOn(f) ==
    IF f.known THEN {f.meta.dependsOn}
    ELSE IF f.resolved = NoResolvedRef THEN {Artifact[names[f.ref]].dependsOn}
    ELSE {Artifact[d].dependsOn : d \in {d \in Digest : f.resolved.at # 0
                                                      /\ d = f.resolved.digest}}

LoopBaked ==
    /\ Current /\ feats[i].baked
    /\ IF bakedDependsOn(feats[i]) = {} THEN Error("fetch")
       ELSE \E deps \in bakedDependsOn(feats[i]) :
              Keep([feats[i] EXCEPT !.meta.dependsOn = deps, !.known = TRUE])

(* A bug: a pinned feature is fetched by its tag all the same.             *)
FetchByName(f) == {names[f.ref]}

(* The store: by the pinned digest in the repository, or by name.  A       *)
(* digest of another repository is not found.                              *)
Fetch(f) ==
    IF Kind[f.ref] = "oci" /\ pin(f) # {}
    THEN {d \in Digest : \E p \in pin(f) : d = p.integrity
            /\ \E r \in Ref : Place[r] = Place[f.ref] /\ d \in Range(Serves[r])}
    ELSE {names[f.ref]}

(* f with what was fetched.                                                *)
FetchedAs(f, d) ==
    [f EXCEPT !.dir = TRUE, !.resolved = ResolvedRef(f.ref, d),
              !.meta = Artifact[d], !.known = TRUE,
              !.opts = MergeOptions(Artifact[d], f.opts)]

(* The same content with the same options is one feature.                  *)
Drop(f) ==
    /\ aliases' = Append(aliases, f)
    /\ feats' = SubSeq(feats, 1, i - 1) \o SubSeq(feats, i + 1, Len(feats))
    /\ UNCHANGED <<worldVars, calls, lockfile, built, pc, call, lock, i, image, still,
                   last, locked>>

LoopFetched ==
    /\ Current /\ ~feats[i].baked
    /\ \/ Fetch(feats[i]) = {} /\ Error("fetch")
       \/ \E f \in {FetchedAs(feats[i], d) : d \in Fetch(feats[i])} :
            IF \E p \in pin(feats[i]) : ~CheckIntegrity(f.resolved, p)
            THEN Error("integrity")
            ELSE IF f.opts = Invalid THEN Error("options")
            ELSE IF duplicateFeature(SubSeq(feats, 1, i - 1), f) THEN Drop(f)
            ELSE Keep(f)

(* The feature, or the metadata of a baked one, cannot be had.             *)
LoopFetchFails ==
    /\ Current /\ Fails("fetch")
    /\ ~(feats[i].baked /\ feats[i].known)
    /\ Error("fetch")

LoopEnds ==
    /\ pc = "loop" /\ i > Len(feats)
    /\ Move(IF call.mode = "disabled" THEN "order" ELSE "commit")

(* featureLock.commit.  os.WriteFile begins by truncating the file.        *)
AfterCommit == IF feats = <<>> THEN "tag" ELSE "order"

(* A bug: a frozen call relies on the pins alone.                          *)
commitRelyingOnPins ==
    /\ pc = "commit"
    /\ IF Lockfile(NextLock) = lock \/ call.mode = "frozen" THEN Move(AfterCommit)
       ELSE /\ lockfile' = BlankLock
            /\ pc' = "write"
            /\ UNCHANGED <<worldVars, calls, built, callVars, last, locked>>

commit ==
    /\ pc = "commit"
    /\ IF Lockfile(NextLock) = lock THEN Move(AfterCommit)
       ELSE IF call.mode = "frozen" THEN Error("mismatch")
       ELSE /\ lockfile' = BlankLock
            /\ pc' = "write"
            /\ UNCHANGED <<worldVars, calls, built, callVars, last, locked>>

WriteLockfile ==
    /\ pc = "write"
    /\ lockfile' = Lockfile(NextLock)
    /\ pc' = AfterCommit
    /\ UNCHANGED <<worldVars, calls, built, callVars, last, locked>>

(* The disk is full, or the process dies, with part of the file written.   *)
WriteIsCutShort ==
    /\ pc = "write" /\ Fails("write")
    /\ lockfile' = TornLock
    /\ pc' = "idle" /\ last' = "write"
    /\ lock' = NoLock /\ i' = 1 /\ aliases' = <<>>
    /\ UNCHANGED <<worldVars, calls, built, call, feats, image, still, locked>>

(* A bug: the first feature speaks for all.                                *)
HasWorkFirst == ~feats[1].baked

HasWork == \E n \in DOMAIN feats : ~feats[n].baked

(* Order, with the metadata that was fetched.  layerFeatures passes no     *)
(* override order.                                                         *)
OrderFeatures ==
    /\ pc = "order"
    /\ \E ordered \in {Order(feats, <<>>)} :
           IF ordered.outcome # "ok" THEN Error(ordered.outcome)
           ELSE /\ feats' = ordered.features
                /\ pc' = IF HasWork THEN "build" ELSE "tag"
                /\ UNCHANGED <<worldVars, calls, lockfile, built, call, lock, i,
                               aliases, image, still, last, locked>>

(* metadataFromFeatureMetadata: the label entry of a feature.              *)
LabelEntry(f) ==
    [id |-> f.meta.id, version |-> f.meta.version, resolved |-> f.resolved,
     dependsOn |-> f.meta.dependsOn, known |-> TRUE]

buildMetadataLabel(installed) ==
    call.base.label \o [n \in DOMAIN installed |-> LabelEntry(installed[n])]

(* GenerateBuildContext, generateDockerfile and BuildImage.                *)
Installed == Kept(feats, {n \in DOMAIN feats : ~feats[n].baked})

BuildFeatures ==
    /\ pc = "build"
    /\ \A f \in Range(Installed) : f.meta.id # 0
    /\ image' = [tag |-> IF call.name # "" THEN call.name ELSE "dc-go-final",
                 label |-> buildMetadataLabel(Installed),
                 contents |-> image.contents \cup {f.resolved : f \in Range(Installed)}]
    /\ pc' = "tag"
    /\ UNCHANGED <<worldVars, calls, lockfile, built, call, feats, lock, i, aliases,
                   still, last, locked>>

(* A feature whose metadata has no id is refused here.                     *)
BuildFails ==
    /\ pc = "build"
    /\ Fails("build") \/ \E f \in Range(Installed) : f.meta.id = 0
    /\ Error("build")

(* The image is used as a base by later calls.                             *)
Publish(img) ==
    built' = built \cup {[source |-> "image", label |-> img.label,
                          contents |-> img.contents]}

(* Build returns; a name that nothing carries yet is put on by retagImage. *)
retagImage == [image EXCEPT !.tag = IF call.name # "" THEN call.name ELSE @]

Finish ==
    /\ pc = "tag"
    /\ pc' = "idle" /\ last' = "ok"
    /\ image' = retagImage
    /\ Publish(retagImage)
    /\ lock' = NoLock /\ i' = 1 /\ aliases' = <<>>
    /\ locked' = IF still /\ call.mode \in {"default", "upgrade"}
                 THEN {[config |-> call.config, lockfile |-> lockfile]} ELSE locked
    /\ UNCHANGED <<worldVars, calls, lockfile, call, feats, still>>

(* The process is killed.                                                  *)
Crash ==
    /\ pc # "idle" /\ Fails("crash")
    /\ Error("crash")

----------------------------------------------------------------------------
Init ==
    /\ names = [r \in Ref |-> Serves[r][1]] /\ moves = 0 /\ calls = 0
    /\ lockfile = NoLock /\ built = {}
    /\ pc = "idle" /\ call = NoCall /\ lock = NoLock
    /\ feats = <<>> /\ i = 1 /\ aliases = <<>> /\ image = NoImage
    /\ last = "" /\ still = TRUE
    /\ locked = {}

Begin ==
    \E config \in Configs, base \in Bases \cup built, opts \in Options :
        prepareBaseImage(config, base, opts)

Step ==
    \/ loadFeatureLock \/ Mark
    \/ LoopBaked \/ LoopFetched \/ LoopEnds
    \/ commit \/ WriteLockfile
    \/ OrderFeatures \/ BuildFeatures \/ Finish

Fault == LoopFetchFails \/ WriteIsCutShort \/ BuildFails \/ Crash

Next == Begin \/ Step \/ Fault \/ \E r \in Ref : Republish(r)

Spec == Init /\ [][Next]_vars

----------------------------------------------------------------------------
(* Properties. *)

Feature ==
    [ref : Ref, opts : Option, dir : BOOLEAN, baked : BOOLEAN, resolved : ResolvedRefs,
     meta : Metadata, known : BOOLEAN]

LockEntry ==
    [version : Nat, at : {0} \cup Range(Place), integrity : {0} \cup Digest,
     dependsOn : SUBSET Ref]

LockfileOK(l) ==
    /\ l = [state |-> l.state, entries |-> l.entries]
    /\ l.state \in {"none", "blank", "torn", "whole"}
    /\ DOMAIN l.entries \subseteq {r \in Ref : Kind[r] # "local"}
    /\ l.entries \in [DOMAIN l.entries -> LockEntry]

TypeOK ==
    /\ names \in [Ref -> Digest] /\ moves \in 0 .. MaxMoves /\ calls \in 0 .. MaxCalls
    /\ LockfileOK(lockfile) /\ LockfileOK(lock)
    /\ pc \in {"idle", "load", "mark", "loop", "commit", "write", "order", "build", "tag"}
    /\ call \in [config : Configs, base : Bases \cup built, mode : Mode, strict : BOOLEAN,
                 name : {"", "name"}]
    /\ built \subseteq BaseImage
    /\ feats \in Seq(Feature) /\ aliases \in Seq(Feature)
    /\ i \in 1 .. Len(feats) + 1
    /\ image \in [tag : {"", "name", "image", "dc-go-base", "dc-go-final"},
                  label : Seq(LabelEntries), contents : SUBSET ResolvedRefs]

Succeeded == pc = "idle" /\ last = "ok"

Needed(features) ==
    UNION {{dep.key : dep \in f.meta.dependsOn} : f \in Range(features)}

(***************************************************************************)
(* The lockfile a default or upgrade call leaves has an entry for every    *)
(* remote feature that was asked for or that one of them depends on,       *)
(* duplicates dropped on the way included (featureLock.commit), and none   *)
(* besides; and an entry has the digest of what its reference was resolved *)
(* to for this image.                                                      *)
(***************************************************************************)
LockIsExact ==
    (/\ pc \in {"order", "build", "tag"}
     /\ call.mode \in {"default", "upgrade"} /\ feats # <<>>)
    => LET entries == lockfile.entries
       IN  /\ lockfile.state = "whole"
           /\ DOMAIN entries = {r \in DOMAIN call.config.asks \cup Needed(feats) :
                                 Kind[r] # "local"}
           /\ \A r \in DOMAIN entries : \E f \in Remote(feats \o aliases) :
                f.ref = r /\ f.resolved.digest = entries[r].integrity

(***************************************************************************)
(* What a frozen call puts into the image, fetched or found in the base    *)
(* image, is what the lockfile says, whatever tags and URLs name by now;   *)
(* and it has not touched the lockfile.                                    *)
(***************************************************************************)
FrozenInstallsTheLock ==
    (Succeeded /\ call.mode = "frozen" /\ feats # <<>>)
    => /\ lockfile.state = "whole"
       /\ \A f \in Remote(feats) :
            /\ f.ref \in DOMAIN lockfile.entries
            /\ f.resolved.digest = lockfile.entries[f.ref].integrity

(***************************************************************************)
(* A lockfile written by a call is good for a frozen one: for the same     *)
(* configuration it is never refused as a mismatch, and only content that  *)
(* a URL has since replaced is refused for its digest.                     *)
(***************************************************************************)
FrozenAcceptsOwnLock ==
    (/\ pc = "idle" /\ call.mode = "frozen"
     /\ [config |-> call.config, lockfile |-> lockfile] \in locked)
    => /\ last \notin {"mismatch", "missing", "parse"}
       /\ last = "integrity" => \E r \in DOMAIN lockfile.entries :
            Kind[r] = "https" /\ (still => names[r] # lockfile.entries[r].integrity)

(* g is what a dependency asks for: by its name, or the same content under *)
(* another with the options it gets.                                       *)
Provides(g, dep) ==
    \/ g.ref = dep.key /\ SameOptions(g, dep.opts)
    \/ \E d \in Contents(dep.key) :
         g.resolved = ResolvedRef(dep.key, d) /\ g.opts = MergeOptions(Artifact[d], dep.opts)

(***************************************************************************)
(* No feature is installed before one it depends on (topoSort).            *)
(***************************************************************************)
DependenciesFirst ==
    Succeeded => \A n \in DOMAIN feats : \A dep \in feats[n].meta.dependsOn :
        \/ feats[n].baked
        \/ \E k \in DOMAIN feats : (feats[k].baked \/ k <= n) /\ Provides(feats[k], dep)

(***************************************************************************)
(* No content is installed twice with the same options, however it is      *)
(* spelled (duplicateFeature), and everything asked for is in the image,   *)
(* which carries the name the caller of Build chose.  The label of every   *)
(* image lists all that is installed in it, also by earlier builds         *)
(* (buildMetadataLabel), so that a later call on top of it recognises it.  *)
(***************************************************************************)
ImageIsAsAsked ==
    /\ \A img \in built : img.contents = Labelled(img.label)
    /\ Succeeded =>
        /\ \A n, k \in DOMAIN feats :
             ~feats[n].baked /\ ~feats[k].baked /\ feats[n].resolved = feats[k].resolved
             /\ feats[n].opts = feats[k].opts => n = k
        /\ \A f \in Range(feats) : f.resolved # NoResolvedRef => f.resolved \in image.contents
        /\ \A r \in DOMAIN call.config.asks :
             \E f \in Range(feats) : Provides(f, [key |-> r, opts |-> call.config.asks[r]])
        /\ call.name # "" => image.tag = call.name

(* Entries that wait for each other.                                       *)
Cyclic(entries, edges) ==
    \E S \in (SUBSET entries) \ {{}} : \A x \in S : \E y \in S : <<y, x>> \in edges

(* The ends of chains of dagErrorDepth edges.                              *)
ChainEnds(entries, edges) ==
    LET ends[n \in 0 .. dagErrorDepth] ==
          IF n = 0 THEN entries
          ELSE {x \in entries : \E y \in ends[n - 1] : <<y, x>> \in edges}
    IN  ends[dagErrorDepth]

(***************************************************************************)
(* There is an order unless features wait for each other or the longest    *)
(* chain of dependencies reaches the limit, and it follows every edge.     *)
(***************************************************************************)
OrderIsSound ==
    (pc = "order" /\ Len(feats) > 1) =>
        \A res \in {topoSort(feats)}, edges \in {Edges(feats)} :
            /\ res.outcome = IF Cyclic(DOMAIN feats, edges) THEN "cycle"
                             ELSE IF ChainEnds(DOMAIN feats, edges) # {} THEN "too deep"
                             ELSE "ok"
            /\ res.outcome = "ok" =>
                 \A e \in edges : \E n, k \in DOMAIN feats :
                    n < k /\ res.features[n] = feats[e[1]] /\ res.features[k] = feats[e[2]]

Swapped(s, n, k) == [s EXCEPT ![n] = s[k], ![k] = s[n]]

(***************************************************************************)
(* The order features are installed in is not the order they were found    *)
(* in: dependencies found sooner or later make the same image.  Entries    *)
(* with one reference and one set of options are left out: featureLess     *)
(* does not tell them apart, and sort.Slice is not stable.                 *)
(***************************************************************************)
Apart(features) ==
    \A n, k \in DOMAIN features :
        features[n].ref = features[k].ref /\ features[n].opts = features[k].opts => n = k

OrderIsStable ==
    (pc = "order" /\ Len(feats) > 1 /\ Apart(feats)) =>
        \A res \in {topoSort(feats)} : \A n, k \in DOMAIN feats :
            n < k => topoSort(Swapped(feats, n, k)) = res
=============================================================================
