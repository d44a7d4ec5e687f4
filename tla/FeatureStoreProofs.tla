------------------------- MODULE FeatureStoreProofs -------------------------
(***************************************************************************)
(* The feature cache is right for any number of processes, references and  *)
(* contents, and any faults: what a fetch returns is what was asked for,   *)
(* and as long as fetches do not overlap the cache is whole.               *)
(***************************************************************************)
EXTENDS FeatureStore, TLAPS

(* What the artifact of d must have to be used.                            *)
IsFeature(d) == {"install.sh", "metadata"} \subseteq Content[d]

(* d is what r names, or has named.                                        *)
Named(r, d) ==
    IF r.kind = "digest" THEN d = r.of ELSE d \in served[r.of]

OciSteps == {"online", "lookup", "unpack", "rename", "parse", "record"}

HttpsSteps == {"get", "stat", "extract", "verify"}

(* The digest has been resolved.                                           *)
Resolved == {"lookup", "unpack", "clear", "rename", "parse", "record", "stat",
             "extract", "verify", "using"}

(* What has been served grows, exact tags never move, and a record is of   *)
(* something the tag has named.                                            *)
HistoryInv ==
    /\ \A x \in Tag \cup Url : serves[x] \in served[x]
    /\ \A t \in ExactTag : served[t] = {serves[t]}
    /\ \A t \in Tag : record[t] \subseteq served[t]

(* What a process knows at each step of its fetch.                         *)
PlaceInv(p) ==
    /\ pc[p] \in OciSteps => ref[p].kind # "url"
    /\ pc[p] \in HttpsSteps => ref[p].kind = "url"
    /\ pc[p] \in Resolved => Named(ref[p], dig[p])
    /\ pc[p] \in {"clear", "rename", "parse", "record", "using"} /\ ref[p].kind # "url"
         => IsFeature(dig[p])
    /\ pc[p] = "extract" => todo[p] \subseteq Content[dig[p]]

StoreInv == TypeOK /\ HistoryInv /\ \A p \in Proc : PlaceInv(p)

-----------------------------------------------------------------------------
(* A reference names what its kind says.                                   *)
LEMMA RefKinds ==
    ASSUME NEW r \in Refs
    PROVE  /\ r.kind \in {"digest", "tag", "url"}
           /\ r.kind = "digest" => r.of \in Digest
           /\ r.kind = "tag" => r.of \in Tag
           /\ r.kind = "url" => r.of \in Url
           /\ SiteOf(r) \in Site
           /\ SiteOf(r) = "oci" <=> r.kind # "url"
  BY StoreAssumption DEF Ref, SiteOf, Site

LEMMA NoFetchType == NoFetch.ref \in Refs /\ NoFetch.dig \in Digest
  BY StoreAssumption DEF NoFetch

(* What the cache says is there is an artifact that is a feature.          *)
LEMMA CachedIsFeature ==
    ASSUME TypeOK, NEW d \in Digest, cachedOCI(d)
    PROVE  IsFeature(d)
  BY DEF TypeOK, cachedOCI, IsFeature, Site

LEMMA StoreInvInit == Init => StoreInv
  <1> SUFFICES ASSUME Init PROVE StoreInv
    OBVIOUS
  <1>1. TypeOK
    <2>1. /\ serves \in [Tag \cup Url -> Digest]
          /\ served \in [Tag \cup Url -> SUBSET Digest]
      BY DEF Init
    <2>2. /\ dir \in [Site -> [Digest -> SUBSET File]]
          /\ \A s \in Site, d \in Digest : dir[s][d] \subseteq Content[d]
      BY DEF Init
    <2>3. /\ record \in [Tag -> SUBSET Digest]
          /\ \A t \in Tag : \A d, e \in record[t] : d = e
      BY DEF Init
    <2>4. fetches \in 0..MaxFetches /\ moves \in 0..MaxMoves
      BY StoreAssumption DEF Init
    <2>5. QED
      BY <2>1, <2>2, <2>3, <2>4, NoFetchType DEF Init, TypeOK, Finished
  <1>2. HistoryInv
    BY DEF Init, HistoryInv, Tag
  <1>3. \A p \in Proc : PlaceInv(p)
    BY DEF Init, PlaceInv, OciSteps, HttpsSteps, Resolved
  <1>4. QED
    BY <1>1, <1>2, <1>3 DEF StoreInv

(* The call is over: nothing is left to keep true of the process.          *)
LEMMA IdleKeeps ==
    ASSUME StoreInv, NEW p \in Proc, Idle(p)
    PROVE  StoreInv'
  <1>1. TypeOK'
    BY NoFetchType DEF StoreInv, TypeOK, Idle, Goto, worldVars, Finished
  <1>2. HistoryInv'
    BY DEF StoreInv, HistoryInv, Idle, worldVars
  <1>3. ASSUME NEW q \in Proc PROVE PlaceInv(q)'
    BY DEF StoreInv, TypeOK, PlaceInv, Idle, Goto, worldVars, OciSteps, HttpsSteps,
           Resolved, Named, IsFeature
  <1>4. QED
    BY <1>1, <1>2, <1>3 DEF StoreInv

(* A step that changes the position of p only keeps the invariant, if p    *)
(* knows what the new position asks for.                                   *)
LEMMA MoveKeeps ==
    ASSUME StoreInv, NEW p \in Proc, NEW step, Move(p, step),
           step \in {"unpack", "clear", "rename", "parse", "record", "verify", "using"},
           pc[p] \in Resolved,
           step \in OciSteps => ref[p].kind # "url",
           step \in HttpsSteps => ref[p].kind = "url",
           step \in {"clear", "rename", "parse", "record", "using"} /\ ref[p].kind # "url"
             => IsFeature(dig[p])
    PROVE  StoreInv'
  <1>1. TypeOK'
    BY DEF StoreInv, TypeOK, Move, Goto, worldVars, Finished
  <1>2. HistoryInv'
    BY DEF StoreInv, HistoryInv, Move, worldVars
  <1>3. ASSUME NEW q \in Proc PROVE PlaceInv(q)'
    BY DEF StoreInv, TypeOK, PlaceInv, Move, Goto, worldVars, OciSteps, HttpsSteps,
           Resolved, Named, IsFeature
  <1>4. QED
    BY <1>1, <1>2, <1>3 DEF StoreInv

(* The digest is resolved.                                                 *)
LEMMA ResolveKeeps ==
    ASSUME StoreInv, NEW p \in Proc, NEW d \in Digest, NEW step, Resolve(p, d, step),
           step \in {"lookup", "stat", "using"},
           step = "lookup" => ref[p].kind # "url",
           step = "stat" => ref[p].kind = "url",
           Named(ref[p], d),
           step = "using" => IsFeature(d)
    PROVE  StoreInv'
  <1>1. TypeOK'
    BY DEF StoreInv, TypeOK, Resolve, Goto, worldVars, Finished
  <1>2. HistoryInv'
    BY DEF StoreInv, HistoryInv, Resolve, worldVars
  <1>3. ASSUME NEW q \in Proc PROVE PlaceInv(q)'
    BY DEF StoreInv, TypeOK, PlaceInv, Resolve, Goto, worldVars, OciSteps, HttpsSteps,
           Resolved, Named, IsFeature
  <1>4. QED
    BY <1>1, <1>2, <1>3 DEF StoreInv

(* A fetch begins: a local answer is a cached feature the reference names. *)
LEMMA FetchKeeps ==
    ASSUME StoreInv, NEW p \in Proc, NEW r \in Refs, Fetch(p, r)
    PROVE  StoreInv'
  <1> DEFINE hit == CHOOSE d \in LocalFirst(r) : TRUE
  <1> HIDE DEF hit
  <1>1. ASSUME LocalFirst(r) # {}
        PROVE  hit \in Digest /\ cachedOCI(hit) /\ Named(r, hit) /\ r.kind # "url"
    <2>1. hit \in LocalFirst(r)
      BY <1>1 DEF hit
    <2>2. r.kind # "url"
      BY <2>1, RefKinds DEF LocalFirst
    <2>3. CASE r.kind = "digest"
      BY <2>1, <2>3, RefKinds DEF LocalFirst, Named
    <2>4. CASE r.kind = "tag"
      <3>1. hit \in cachedTag(r.of)
        BY <2>1, <2>4 DEF LocalFirst
      <3>2. QED
        BY <2>2, <2>4, <3>1, RefKinds DEF cachedTag, Named, StoreInv, TypeOK, HistoryInv
    <2>5. QED
      BY <2>2, <2>3, <2>4, RefKinds
  <1>2. LocalFirst(r) # {} => IsFeature(hit)
    BY <1>1, CachedIsFeature DEF StoreInv
  <1>3. UNCHANGED <<worldVars, dir, record, todo>> /\ ref' = [ref EXCEPT ![p] = r]
    BY DEF Fetch
  <1> DEFINE next == IF r.kind = "url" THEN "get" ELSE "online"
  <1>4. \/ LocalFirst(r) # {} /\ pc' = [pc EXCEPT ![p] = "using"]
           /\ dig' = [dig EXCEPT ![p] = hit]
        \/ LocalFirst(r) = {} /\ pc' = [pc EXCEPT ![p] = next] /\ dig' = dig
    BY DEF Fetch, Goto, hit
  <1>5. TypeOK'
    <2>1. dig' \in [Proc -> Digest]
      BY <1>1, <1>4 DEF StoreInv, TypeOK
    <2>2. pc' \in [Proc -> Finished \cup {"online", "lookup", "unpack", "clear",
                 "rename", "parse", "record", "get", "stat", "extract", "verify"}]
      BY DEF Fetch, Goto, StoreInv, TypeOK, Finished
    <2>3. fetches' \in 0..MaxFetches /\ overlapped' \in BOOLEAN
      BY StoreAssumption DEF Fetch, StoreInv, TypeOK
    <2>4. QED
      BY <1>3, <2>1, <2>2, <2>3 DEF StoreInv, TypeOK, worldVars
  <1>6. HistoryInv'
    BY <1>3 DEF StoreInv, HistoryInv, worldVars
  <1>7. ASSUME NEW q \in Proc PROVE PlaceInv(q)'
    <2>1. CASE LocalFirst(r) # {}
      BY <1>1, <1>2, <1>3, <1>4, <2>1
         DEF StoreInv, TypeOK, PlaceInv, worldVars, OciSteps, HttpsSteps, Resolved,
             Named, IsFeature
    <2>2. CASE LocalFirst(r) = {}
      BY <1>3, <1>4, <2>2, RefKinds
         DEF StoreInv, TypeOK, PlaceInv, worldVars, OciSteps, HttpsSteps, Resolved,
             Named, IsFeature
    <2>3. QED
      BY <2>1, <2>2
  <1>8. QED
    BY <1>5, <1>6, <1>7 DEF StoreInv

(* The world moves: exact tags stay, and what was served stays served.     *)
LEMMA RepublishKeeps ==
    ASSUME StoreInv, NEW x \in FloatingTag \cup Url, Republish(x)
    PROVE  StoreInv'
  <1>1. PICK d \in Digest : /\ serves' = [serves EXCEPT ![x] = d]
                            /\ served' = [served EXCEPT ![x] = @ \cup {d}]
    BY DEF Republish
  <1>2. x \in Tag \cup Url /\ x \notin ExactTag
    BY StoreAssumption DEF Tag
  <1>3. TypeOK'
    <2>1. served' \in [Tag \cup Url -> SUBSET Digest]
      BY <1>1, <1>2 DEF StoreInv, TypeOK
    <2>2. moves' \in 0..MaxMoves
      BY StoreAssumption DEF Republish, StoreInv, TypeOK
    <2>3. QED
      BY <1>1, <2>1, <2>2 DEF Republish, StoreInv, TypeOK
  <1>4. \A y \in Tag \cup Url : served[y] \subseteq served'[y]
    BY <1>1 DEF StoreInv, TypeOK
  <1>5. HistoryInv'
    <2>1. \A y \in Tag \cup Url : serves'[y] \in served'[y]
      BY <1>1, <1>2 DEF StoreInv, TypeOK, HistoryInv
    <2>2. \A t \in ExactTag : served'[t] = {serves'[t]}
      BY <1>1, <1>2 DEF StoreInv, TypeOK, HistoryInv, Tag
    <2>3. \A t \in Tag : record'[t] \subseteq served'[t]
      BY <1>4 DEF Republish, StoreInv, HistoryInv
    <2>4. QED
      BY <2>1, <2>2, <2>3 DEF HistoryInv
  <1>6. ASSUME NEW q \in Proc PROVE PlaceInv(q)'
    <2>1. Named(ref[q], dig[q]) => Named(ref[q], dig[q])'
      BY <1>4, RefKinds DEF Named, Republish, StoreInv, TypeOK
    <2>2. QED
      BY <2>1 DEF Republish, StoreInv, PlaceInv, IsFeature
  <1>7. QED
    BY <1>3, <1>5, <1>6 DEF StoreInv

(* Files leave the directory, or it is empty and the new ones come.        *)
LEMMA RemoveAllKeeps ==
    ASSUME StoreInv, NEW p \in Proc, RemoveAll(p)
    PROVE  StoreInv'
  <1> DEFINE s == SiteOf(ref[p])
  <1>1. s \in Site /\ dig[p] \in Digest /\ ref[p] \in Refs
    BY RefKinds DEF StoreInv, TypeOK
  <1>2. HistoryInv'
    BY DEF RemoveAll, StoreInv, HistoryInv, worldVars
  <1>3. CASE Extracted(p) = {}
    <2>1. TypeOK'
      <3>1. todo' \in [Proc -> SUBSET File]
        BY <1>1, <1>3, StoreAssumption DEF RemoveAll, StoreInv, TypeOK
      <3>2. pc' \in [Proc -> Finished \cup {"online", "lookup", "unpack", "clear",
                 "rename", "parse", "record", "get", "stat", "extract", "verify"}]
        BY <1>3 DEF RemoveAll, StoreInv, TypeOK, Goto, Finished
      <3>3. QED
        BY <1>3, <3>1, <3>2 DEF RemoveAll, StoreInv, TypeOK, worldVars
    <2>2. ASSUME NEW q \in Proc PROVE PlaceInv(q)'
      BY <1>1, <1>3
         DEF RemoveAll, StoreInv, TypeOK, PlaceInv, Goto, worldVars, OciSteps, HttpsSteps,
             Resolved, Named, IsFeature
    <2>3. QED
      BY <1>2, <2>1, <2>2 DEF StoreInv
  <1>4. CASE Extracted(p) # {}
    <2>1. PICK f : dir' = [dir EXCEPT ![s][dig[p]] = @ \ {f}]
      BY <1>4 DEF RemoveAll
    <2>2. UNCHANGED <<worldVars, record, fetches, ref, dig, overlapped, pc, todo>>
      BY <1>4 DEF RemoveAll
    <2>3. \A z \in Site, d \in Digest : dir'[z][d] \subseteq dir[z][d]
      BY <1>1, <2>1 DEF StoreInv, TypeOK
    <2>4. dir' \in [Site -> [Digest -> SUBSET File]]
      BY <1>1, <2>1 DEF StoreInv, TypeOK
    <2>5. TypeOK'
      BY <2>2, <2>3, <2>4 DEF StoreInv, TypeOK, worldVars
    <2>6. ASSUME NEW q \in Proc PROVE PlaceInv(q)'
      BY <2>2 DEF StoreInv, PlaceInv, worldVars, Named, IsFeature
    <2>7. QED
      BY <1>2, <2>5, <2>6 DEF StoreInv
  <1>5. QED
    BY <1>3, <1>4

LEMMA RenameKeeps ==
    ASSUME StoreInv, NEW p \in Proc, Rename(p)
    PROVE  StoreInv'
  <1>1. CASE Extracted(p) # {}
    BY <1>1, IdleKeeps DEF Rename
  <1>2. CASE Extracted(p) = {}
    <2>1. /\ dir' = [dir EXCEPT !["oci"][dig[p]] = Content[dig[p]]]
          /\ pc' = [pc EXCEPT ![p] = "parse"]
          /\ UNCHANGED <<worldVars, record, fetches, ref, dig, todo, overlapped>>
      BY <1>2 DEF Rename, Goto
    <2>2. dir' \in [Site -> [Digest -> SUBSET File]]
      BY <2>1, StoreAssumption DEF StoreInv, TypeOK, Site
    <2>3. \A z \in Site, d \in Digest : dir'[z][d] \subseteq Content[d]
      BY <2>1, StoreAssumption DEF StoreInv, TypeOK, Site
    <2>4. TypeOK'
      BY <2>1, <2>2, <2>3 DEF StoreInv, TypeOK, worldVars
    <2>5. HistoryInv'
      BY <2>1 DEF StoreInv, HistoryInv, worldVars
    <2>6. ASSUME NEW q \in Proc PROVE PlaceInv(q)'
      BY <2>1 DEF Rename, StoreInv, TypeOK, PlaceInv, worldVars, OciSteps, HttpsSteps,
                  Resolved, Named, IsFeature
    <2>7. QED
      BY <2>4, <2>5, <2>6 DEF StoreInv
  <1>3. QED
    BY <1>1, <1>2

LEMMA RecordKeeps ==
    ASSUME StoreInv, NEW p \in Proc, recordTag(p)
    PROVE  StoreInv'
  <1>1. /\ pc[p] = "record" /\ pc' = [pc EXCEPT ![p] = "using"]
        /\ UNCHANGED <<worldVars, dir, fetches, ref, dig, todo, overlapped>>
        /\ \/ ref[p].kind = "tag" /\ record' = [record EXCEPT ![ref[p].of] = {dig[p]}]
           \/ UNCHANGED record
    BY DEF recordTag, Goto
  <1>2. /\ ref[p] \in Refs /\ dig[p] \in Digest
        /\ ref[p].kind = "tag" => dig[p] \in served[ref[p].of]
    BY <1>1 DEF StoreInv, TypeOK, PlaceInv, Resolved, Named
  <1>3. /\ record' \in [Tag -> SUBSET Digest]
        /\ \A t \in Tag : \A d, e \in record'[t] : d = e
        /\ \A t \in Tag : record'[t] \subseteq served[t]
    <2>1. CASE UNCHANGED record
      BY <2>1 DEF StoreInv, TypeOK, HistoryInv
    <2>2. CASE ref[p].kind = "tag" /\ record' = [record EXCEPT ![ref[p].of] = {dig[p]}]
      <3>1. ref[p].of \in Tag
        BY <1>2, <2>2, RefKinds
      <3>2. \A t \in Tag : record'[t] = IF t = ref[p].of THEN {dig[p]} ELSE record[t]
        BY <2>2 DEF StoreInv, TypeOK
      <3>3. record' \in [Tag -> SUBSET Digest]
        BY <1>2, <2>2, <3>1 DEF StoreInv, TypeOK
      <3>4. QED
        BY <1>2, <2>2, <3>2, <3>3 DEF StoreInv, TypeOK, HistoryInv
    <2>3. QED
      BY <1>1, <2>1, <2>2
  <1>4. TypeOK'
    BY <1>1, <1>3 DEF StoreInv, TypeOK, worldVars, Finished
  <1>5. HistoryInv'
    BY <1>1, <1>3 DEF StoreInv, HistoryInv, worldVars
  <1>6. ASSUME NEW q \in Proc PROVE PlaceInv(q)'
    BY <1>1 DEF StoreInv, TypeOK, PlaceInv, worldVars, OciSteps, HttpsSteps, Resolved,
                Named, IsFeature
  <1>7. QED
    BY <1>4, <1>5, <1>6 DEF StoreInv

LEMMA ExtractKeeps ==
    ASSUME StoreInv, NEW p \in Proc, extractTar(p)
    PROVE  StoreInv'
  <1>1. /\ pc[p] = "extract" /\ ref[p].kind = "url" /\ todo[p] \subseteq Content[dig[p]]
        /\ dig[p] \in Digest
    BY DEF extractTar, StoreInv, TypeOK, PlaceInv, HttpsSteps
  <1>2. ASSUME NEW f \in todo[p],
               dir' = [dir EXCEPT !["https"][dig[p]] = @ \cup {f}],
               todo' = [todo EXCEPT ![p] = @ \ {f}],
               UNCHANGED <<worldVars, record, fetches, pc, ref, dig, overlapped>>
        PROVE  StoreInv'
    <2>1. dir' \in [Site -> [Digest -> SUBSET File]]
      BY <1>1, <1>2 DEF StoreInv, TypeOK, Site
    <2>2. \A z \in Site, d \in Digest : dir'[z][d] \subseteq Content[d]
      BY <1>1, <1>2 DEF StoreInv, TypeOK, Site
    <2>3. TypeOK'
      BY <1>2, <2>1, <2>2 DEF StoreInv, TypeOK, worldVars
    <2>4. HistoryInv'
      BY <1>2 DEF StoreInv, HistoryInv, worldVars
    <2>5. ASSUME NEW q \in Proc PROVE PlaceInv(q)'
      BY <1>1, <1>2 DEF StoreInv, TypeOK, PlaceInv, worldVars, Named, IsFeature
    <2>6. QED
      BY <2>3, <2>4, <2>5 DEF StoreInv
  <1>3. CASE Move(p, "verify")
    BY <1>1, <1>3, MoveKeeps DEF Resolved, OciSteps
  <1>4. CASE Idle(p)
    BY <1>4, IdleKeeps
  <1>5. QED
    BY <1>2, <1>3, <1>4 DEF extractTar

(* Steps of one process that only resolve, move or give up.                *)
LEMMA LightStepKeeps ==
    ASSUME StoreInv, NEW p \in Proc,
           \/ remoteImage(p) \/ RegistryAnswersError(p) \/ RegistryUnreachable(p)
           \/ extractOCI(p) \/ Unpack(p) \/ UnpackFails(p) \/ ParseMetadata(p)
           \/ httpsDo(p) \/ StatMetadata(p) \/ VerifyExtracted(p)
           \/ Release(p) \/ Crash(p)
    PROVE  StoreInv'
  <1>1. /\ ref[p] \in Refs /\ dig[p] \in Digest /\ PlaceInv(p) /\ TypeOK
        /\ ref[p].kind \in {"digest", "tag", "url"}
        /\ ref[p].kind = "digest" => ref[p].of \in Digest
        /\ ref[p].kind # "digest" =>
             /\ ref[p].of \in Tag \cup Url
             /\ serves[ref[p].of] \in Digest
             /\ Named(ref[p], serves[ref[p].of])
        /\ ref[p].kind = "tag" => ref[p].of \in Tag
    BY RefKinds DEF StoreInv, TypeOK, HistoryInv, Named
  <1>2. CASE remoteImage(p)
    <2>1. ref[p].kind # "url"
      BY <1>1, <1>2 DEF remoteImage, PlaceInv, OciSteps
    <2>2. CASE ref[p].kind = "digest"
      <3>1. Resolve(p, ref[p].of, "lookup")
        BY <1>2, <2>2 DEF remoteImage
      <3>2. QED
        BY <1>1, <2>1, <2>2, <3>1, ResolveKeeps DEF Named
    <2>3. CASE ref[p].kind # "digest"
      <3>1. Resolve(p, serves[ref[p].of], "lookup")
        BY <1>2, <2>3 DEF remoteImage
      <3>2. QED
        BY <1>1, <2>1, <2>3, <3>1, ResolveKeeps
    <2>4. QED
      BY <2>2, <2>3
  <1>3. CASE RegistryUnreachable(p)
    <2>1. CASE Idle(p)
      BY <2>1, IdleKeeps
    <2>2. ASSUME ref[p].kind = "tag", NEW d \in cachedTag(ref[p].of), Resolve(p, d, "using")
          PROVE  StoreInv'
      <3>1. d \in Digest /\ cachedOCI(d) /\ Named(ref[p], d)
        BY <1>1, <2>2 DEF cachedTag, StoreInv, TypeOK, HistoryInv, Named
      <3>2. IsFeature(d)
        BY <1>1, <3>1, CachedIsFeature
      <3>3. QED
        BY <2>2, <3>1, <3>2, ResolveKeeps
    <2>3. QED
      BY <1>3, <2>1, <2>2 DEF RegistryUnreachable
  <1>4. CASE extractOCI(p)
    <2>1. pc[p] = "lookup" /\ ref[p].kind # "url"
      BY <1>1, <1>4 DEF extractOCI, PlaceInv, OciSteps
    <2>2. CASE cachedOCI(dig[p])
      <3>1. Move(p, "record") /\ IsFeature(dig[p])
        BY <1>1, <1>4, <2>2, CachedIsFeature DEF extractOCI
      <3>2. QED
        BY <2>1, <3>1, MoveKeeps DEF Resolved, HttpsSteps
    <2>3. CASE ~cachedOCI(dig[p])
      <3>1. Move(p, "unpack")
        BY <1>4, <2>3 DEF extractOCI
      <3>2. QED
        BY <2>1, <3>1, MoveKeeps DEF Resolved, HttpsSteps
    <2>4. QED
      BY <2>2, <2>3
  <1>5. CASE Unpack(p)
    <2>1. Move(p, "clear") /\ IsFeature(dig[p]) /\ pc[p] \in Resolved
      BY <1>5 DEF Unpack, IsFeature, Resolved
    <2>2. QED
      BY <2>1, MoveKeeps DEF OciSteps, HttpsSteps
  <1>6. CASE ParseMetadata(p)
    <2>1. pc[p] = "parse" /\ pc[p] \in Resolved /\ ref[p].kind # "url" /\ IsFeature(dig[p])
      BY <1>1, <1>6 DEF ParseMetadata, PlaceInv, OciSteps, Resolved
    <2>2. Move(p, "record") \/ Idle(p)
      BY <1>6 DEF ParseMetadata
    <2>3. QED
      BY <2>1, <2>2, MoveKeeps, IdleKeeps DEF HttpsSteps
  <1>7. CASE httpsDo(p)
    <2>1. ref[p].kind = "url"
      BY <1>1, <1>7 DEF httpsDo, PlaceInv, HttpsSteps
    <2>2. Resolve(p, serves[ref[p].of], "stat") \/ Idle(p)
      BY <1>7 DEF httpsDo
    <2>3. QED
      BY <1>1, <2>1, <2>2, ResolveKeeps, IdleKeeps
  <1>8. CASE StatMetadata(p)
    <2>1. ref[p].kind = "url" /\ pc[p] \in Resolved
      BY <1>1, <1>8 DEF StatMetadata, PlaceInv, HttpsSteps, Resolved
    <2>2. Move(p, "using") \/ Move(p, "clear")
      BY <1>8 DEF StatMetadata
    <2>3. QED
      BY <2>1, <2>2, MoveKeeps DEF OciSteps, HttpsSteps
  <1>9. CASE VerifyExtracted(p)
    <2>1. ref[p].kind = "url" /\ pc[p] \in Resolved
      BY <1>1, <1>9 DEF VerifyExtracted, PlaceInv, HttpsSteps, Resolved
    <2>2. Move(p, "using") \/ Idle(p)
      BY <1>9 DEF VerifyExtracted
    <2>3. QED
      BY <2>1, <2>2, MoveKeeps, IdleKeeps DEF OciSteps, HttpsSteps
  <1>10. CASE RegistryAnswersError(p) \/ UnpackFails(p) \/ Release(p) \/ Crash(p)
    BY <1>10, IdleKeeps DEF RegistryAnswersError, UnpackFails, Release, Crash
  <1>11. QED
    BY <1>2, <1>3, <1>4, <1>5, <1>6, <1>7, <1>8, <1>9, <1>10

LEMMA StoreInvStep == StoreInv /\ [Next]_vars => StoreInv'
  <1> SUFFICES ASSUME StoreInv, [Next]_vars PROVE StoreInv'
    OBVIOUS
  <1>1. CASE UNCHANGED vars
    BY <1>1 DEF vars, worldVars, StoreInv, TypeOK, HistoryInv, PlaceInv, Named
  <1>2. ASSUME NEW x \in FloatingTag \cup Url, Republish(x) PROVE StoreInv'
    BY <1>2, RepublishKeeps
  <1>3. ASSUME NEW p \in Proc, NEW r \in Refs, Fetch(p, r) PROVE StoreInv'
    BY <1>3, FetchKeeps
  <1>4. ASSUME NEW p \in Proc,
               fetchOCI(p) \/ fetchHTTPS(p) \/ RemoveAll(p) \/ Release(p) \/ Crash(p)
        PROVE  StoreInv'
    BY <1>4, LightStepKeeps, RenameKeeps, RecordKeeps, ExtractKeeps, RemoveAllKeeps
       DEF fetchOCI, fetchHTTPS
  <1>5. QED
    BY <1>1, <1>2, <1>3, <1>4 DEF Next

LEMMA StoreInvariant == Spec => []StoreInv
  BY StoreInvInit, StoreInvStep, PTL DEF Spec

(***************************************************************************)
(* Type correctness of the cache; a directory never holds a file that its  *)
(* artifact has not.                                                       *)
(***************************************************************************)
THEOREM StoreType == Spec => []TypeOK
  <1>1. StoreInv => TypeOK
    BY DEF StoreInv
  <1>2. QED
    BY <1>1, StoreInvariant, PTL

(***************************************************************************)
(* Fetch returns what the reference names or has named, and from the OCI   *)
(* cache a feature, for any number of processes and any faults.            *)
(***************************************************************************)
THEOREM StoreRight == Spec => []RightContent
  <1>1. StoreInv => RightContent
    <2> SUFFICES ASSUME StoreInv, NEW p \in Proc, pc[p] = "using"
                 PROVE  /\ CASE ref[p].kind = "digest" -> dig[p] = ref[p].of
                             [] ref[p].kind = "tag" /\ ref[p].of \in ExactTag ->
                                  dig[p] = serves[ref[p].of]
                             [] OTHER -> dig[p] \in served[ref[p].of]
                        /\ ref[p].kind # "url" =>
                             {"install.sh", "metadata"} \subseteq Content[dig[p]]
      BY DEF RightContent
    <2>1. Named(ref[p], dig[p]) /\ (ref[p].kind # "url" => IsFeature(dig[p]))
      BY DEF StoreInv, PlaceInv, Resolved
    <2>2. QED
      BY <2>1 DEF Named, IsFeature, StoreInv, HistoryInv
  <1>2. QED
    BY <1>1, StoreInvariant, PTL

-----------------------------------------------------------------------------
(* As long as no two fetches have overlapped: at most one process is at    *)
(* work, the cache is whole, and what that process has looked up still     *)
(* holds when it acts on it.                                               *)
Alone == \A p, q \in Proc : p # q => pc[p] = "idle" \/ pc[q] = "idle"

LookupInv(p) ==
    ref[p].kind # "url" =>
        /\ pc[p] \in {"unpack", "clear", "rename"} => ~cachedOCI(dig[p])
        /\ pc[p] \in {"parse", "record"} => cachedOCI(dig[p])

WholeInv ==
    /\ CacheIsWhole
    /\ ~overlapped => Alone /\ \A p \in Proc : LookupInv(p)

(* A step of one process that leaves directories and records alone.        *)
LEMMA QuietKeepsWhole ==
    ASSUME StoreInv, WholeInv, NEW p \in Proc, pc[p] # "idle",
           UNCHANGED <<dir, record, overlapped>>,
           NEW step, pc' = [pc EXCEPT ![p] = step],
           \A q \in Proc \ {p} : ref'[q] = ref[q] /\ dig'[q] = dig[q],
           ~overlapped => LookupInv(p)'
    PROVE  WholeInv'
  <1>1. CacheIsWhole'
    BY DEF WholeInv, CacheIsWhole, cachedOCI
  <1>2. ASSUME ~overlapped' PROVE Alone' /\ \A q \in Proc : LookupInv(q)'
    BY <1>2 DEF WholeInv, Alone, LookupInv, cachedOCI, StoreInv, TypeOK
  <1>3. QED
    BY <1>1, <1>2 DEF WholeInv

(* The same for a process that gives up, moves on or resolves.             *)
LEMMA IdleKeepsWhole ==
    ASSUME StoreInv, WholeInv, NEW p \in Proc, pc[p] # "idle", Idle(p)
    PROVE  WholeInv'
  <1>1. LookupInv(p)'
    BY DEF Idle, Goto, LookupInv, StoreInv, TypeOK
  <1>2. /\ pc' = [pc EXCEPT ![p] = "idle"] /\ UNCHANGED <<dir, record, overlapped>>
        /\ \A q \in Proc \ {p} : ref'[q] = ref[q] /\ dig'[q] = dig[q]
    BY DEF Idle, Goto, StoreInv, TypeOK
  <1>3. QED
    BY <1>1, <1>2, QuietKeepsWhole

LEMMA MoveKeepsWhole ==
    ASSUME StoreInv, WholeInv, NEW p \in Proc, pc[p] # "idle", NEW step, Move(p, step),
           step \in {"unpack", "clear", "rename"} /\ ~overlapped /\ ref[p].kind # "url"
             => ~cachedOCI(dig[p]),
           step \in {"parse", "record"} /\ ~overlapped /\ ref[p].kind # "url"
             => cachedOCI(dig[p])
    PROVE  WholeInv'
  <1>1. ~overlapped => LookupInv(p)'
    BY DEF Move, Goto, LookupInv, StoreInv, TypeOK, cachedOCI
  <1>2. /\ pc' = [pc EXCEPT ![p] = step] /\ UNCHANGED <<dir, record, overlapped>>
        /\ \A q \in Proc \ {p} : ref'[q] = ref[q] /\ dig'[q] = dig[q]
    BY DEF Move, Goto
  <1>3. QED
    BY <1>1, <1>2, QuietKeepsWhole

LEMMA ResolveKeepsWhole ==
    ASSUME StoreInv, WholeInv, NEW p \in Proc, pc[p] # "idle", NEW d,
           NEW step \in {"lookup", "stat", "using"}, Resolve(p, d, step)
    PROVE  WholeInv'
  <1>1. LookupInv(p)'
    BY DEF Resolve, Goto, LookupInv, StoreInv, TypeOK
  <1>2. /\ pc' = [pc EXCEPT ![p] = step] /\ UNCHANGED <<dir, record, overlapped>>
        /\ \A q \in Proc \ {p} : ref'[q] = ref[q] /\ dig'[q] = dig[q]
    BY DEF Resolve, Goto, StoreInv, TypeOK
  <1>3. QED
    BY <1>1, <1>2, QuietKeepsWhole

(* A fetch that begins while another is under way counts as an overlap.    *)
LEMMA FetchKeepsWhole ==
    ASSUME StoreInv, WholeInv, NEW p \in Proc, NEW r \in Refs, Fetch(p, r)
    PROVE  WholeInv'
  <1>1. /\ UNCHANGED <<dir, record>>
        /\ overlapped' = (overlapped \/ \E q \in Proc \ {p} : pc[q] # "idle")
        /\ \E step \in {"using", "get", "online"} : pc' = [pc EXCEPT ![p] = step]
        /\ \A q \in Proc \ {p} : ref'[q] = ref[q] /\ dig'[q] = dig[q]
    BY DEF Fetch, Goto, StoreInv, TypeOK
  <1>2. CacheIsWhole'
    BY <1>1 DEF WholeInv, CacheIsWhole, cachedOCI
  <1>3. ASSUME ~overlapped' PROVE Alone' /\ \A q \in Proc : LookupInv(q)'
    <2>1. \A q \in Proc \ {p} : pc'[q] = "idle"
      BY <1>1, <1>3 DEF StoreInv, TypeOK
    <2>2. pc'[p] \in {"using", "get", "online"}
      BY <1>1 DEF StoreInv, TypeOK
    <2>3. QED
      BY <2>1, <2>2 DEF Alone, LookupInv
  <1>4. QED
    BY <1>2, <1>3 DEF WholeInv

(* A process clears only a directory that no lookup takes for complete.    *)
LEMMA RemoveAllKeepsWhole ==
    ASSUME StoreInv, WholeInv, NEW p \in Proc, RemoveAll(p)
    PROVE  WholeInv'
  <1> DEFINE s == SiteOf(ref[p])
  <1>1. /\ s \in Site /\ dig[p] \in Digest /\ pc[p] = "clear"
        /\ s = "oci" <=> ref[p].kind # "url"
        /\ UNCHANGED <<record, ref, dig, overlapped>>
    BY RefKinds DEF RemoveAll, StoreInv, TypeOK
  <1>2. CASE Extracted(p) = {}
    <2>1. /\ UNCHANGED dir
          /\ \E step \in {"extract", "rename"} : pc' = [pc EXCEPT ![p] = step]
      BY <1>2 DEF RemoveAll, Goto
    <2>2. ~overlapped => LookupInv(p)'
      BY <1>1, <2>1 DEF WholeInv, LookupInv, cachedOCI, StoreInv, TypeOK
    <2>3. QED
      BY <1>1, <2>1, <2>2, QuietKeepsWhole
  <1>3. CASE Extracted(p) # {}
    <2>1. PICK f : dir' = [dir EXCEPT ![s][dig[p]] = @ \ {f}]
      BY <1>3 DEF RemoveAll
    <2>2. UNCHANGED pc
      BY <1>3 DEF RemoveAll
    <2>3. \A d \in Digest : dir'["oci"][d] =
             IF s = "oci" /\ d = dig[p] THEN dir["oci"][d] \ {f} ELSE dir["oci"][d]
      BY <1>1, <2>1 DEF StoreInv, TypeOK, Site
    <2>4. ASSUME ~overlapped, NEW d \in Digest
          PROVE  cachedOCI(d)' <=> cachedOCI(d)
      BY <1>1, <2>3, <2>4 DEF WholeInv, LookupInv, cachedOCI
    <2>5. ASSUME ~overlapped, NEW d \in Digest, cachedOCI(d)
          PROVE  dir'["oci"][d] = dir["oci"][d]
      BY <1>1, <2>3, <2>5 DEF WholeInv, LookupInv
    <2>6. CacheIsWhole'
      BY <1>1, <2>4, <2>5 DEF WholeInv, CacheIsWhole, StoreInv, TypeOK
    <2>7. ASSUME ~overlapped' PROVE Alone' /\ \A q \in Proc : LookupInv(q)'
      BY <1>1, <2>2, <2>4, <2>7 DEF WholeInv, Alone, LookupInv, StoreInv, TypeOK
    <2>8. QED
      BY <2>6, <2>7 DEF WholeInv
  <1>4. QED
    BY <1>2, <1>3

(* The renamed directory is the whole artifact.                            *)
LEMMA RenameKeepsWhole ==
    ASSUME StoreInv, WholeInv, NEW p \in Proc, Rename(p)
    PROVE  WholeInv'
  <1>1. /\ pc[p] = "rename" /\ dig[p] \in Digest /\ ref[p].kind # "url"
        /\ IsFeature(dig[p])
    BY DEF Rename, StoreInv, TypeOK, PlaceInv, OciSteps
  <1>2. CASE Extracted(p) # {}
    BY <1>1, <1>2, IdleKeepsWhole DEF Rename
  <1>3. CASE Extracted(p) = {}
    <2>1. /\ dir' = [dir EXCEPT !["oci"][dig[p]] = Content[dig[p]]]
          /\ pc' = [pc EXCEPT ![p] = "parse"]
          /\ UNCHANGED <<record, ref, dig, overlapped>>
      BY <1>3 DEF Rename, Goto
    <2>2. \A d \in Digest : dir'["oci"][d] =
             IF d = dig[p] THEN Content[d] ELSE dir["oci"][d]
      BY <1>1, <2>1 DEF StoreInv, TypeOK, Site
    <2>3. \A d \in Digest : cachedOCI(d) => cachedOCI(d)'
      BY <1>1, <2>2 DEF cachedOCI, IsFeature
    <2>4. cachedOCI(dig[p])'
      BY <1>1, <2>1, <2>2 DEF cachedOCI, IsFeature
    <2>5. CacheIsWhole'
      BY <2>1, <2>2, <2>3 DEF WholeInv, CacheIsWhole, cachedOCI, StoreInv, TypeOK
    <2>6. ASSUME ~overlapped' PROVE Alone' /\ \A q \in Proc : LookupInv(q)'
      <3>1. \A q \in Proc \ {p} : pc[q] = "idle" /\ pc'[q] = "idle"
        BY <1>1, <2>1, <2>6 DEF WholeInv, Alone, StoreInv, TypeOK
      <3>2. pc'[p] = "parse" /\ dig'[p] = dig[p]
        BY <2>1 DEF StoreInv, TypeOK
      <3>3. QED
        BY <2>4, <3>1, <3>2 DEF Alone, LookupInv
    <2>7. QED
      BY <2>5, <2>6 DEF WholeInv
  <1>4. QED
    BY <1>2, <1>3

(* A record is written of an extraction that is there.                     *)
LEMMA RecordKeepsWhole ==
    ASSUME StoreInv, WholeInv, NEW p \in Proc, recordTag(p)
    PROVE  WholeInv'
  <1>1. /\ pc[p] = "record" /\ pc' = [pc EXCEPT ![p] = "using"]
        /\ UNCHANGED <<dir, ref, dig, overlapped>>
        /\ \/ record' = [record EXCEPT ![ref[p].of] = {dig[p]}]
           \/ UNCHANGED record
        /\ ref[p].kind # "url"
    BY DEF recordTag, Goto, StoreInv, PlaceInv, OciSteps
  <1>2. ~overlapped => cachedOCI(dig[p])
    BY <1>1 DEF WholeInv, LookupInv
  <1>3. \A t \in Tag : \A d \in record'[t] : d \in record[t] \/ d = dig[p]
    BY <1>1 DEF StoreInv, TypeOK
  <1>4. CacheIsWhole'
    BY <1>1, <1>2, <1>3 DEF WholeInv, CacheIsWhole, cachedOCI
  <1>5. ASSUME ~overlapped' PROVE Alone' /\ \A q \in Proc : LookupInv(q)'
    BY <1>1, <1>5 DEF WholeInv, Alone, LookupInv, cachedOCI, StoreInv, TypeOK
  <1>6. QED
    BY <1>4, <1>5 DEF WholeInv

(* Downloads go to a directory of their own.                               *)
LEMMA ExtractKeepsWhole ==
    ASSUME StoreInv, WholeInv, NEW p \in Proc, extractTar(p)
    PROVE  WholeInv'
  <1>1. pc[p] = "extract" /\ dig[p] \in Digest
    BY DEF extractTar, StoreInv, TypeOK
  <1>2. ASSUME NEW f, dir' = [dir EXCEPT !["https"][dig[p]] = @ \cup {f}],
               UNCHANGED <<record, pc, ref, dig, overlapped>>
        PROVE  WholeInv'
    <2>1. dir'["oci"] = dir["oci"]
      BY <1>2 DEF StoreInv, TypeOK, Site
    <2>2. QED
      BY <1>2, <2>1 DEF WholeInv, CacheIsWhole, Alone, LookupInv, cachedOCI
  <1>3. CASE Move(p, "verify")
    BY <1>1, <1>3, MoveKeepsWhole
  <1>4. CASE Idle(p)
    BY <1>1, <1>4, IdleKeepsWhole
  <1>5. QED
    BY <1>2, <1>3, <1>4 DEF extractTar

LEMMA LightStepKeepsWhole ==
    ASSUME StoreInv, WholeInv, NEW p \in Proc,
           \/ remoteImage(p) \/ RegistryAnswersError(p) \/ RegistryUnreachable(p)
           \/ extractOCI(p) \/ Unpack(p) \/ UnpackFails(p) \/ ParseMetadata(p)
           \/ httpsDo(p) \/ StatMetadata(p) \/ VerifyExtracted(p)
           \/ Release(p) \/ Crash(p)
    PROVE  WholeInv'
  <1>1. pc[p] # "idle"
    BY DEF remoteImage, RegistryAnswersError, RegistryUnreachable, extractOCI, Unpack,
           UnpackFails, ParseMetadata, httpsDo, StatMetadata, VerifyExtracted, Release,
           Crash
  <1>2. CASE remoteImage(p) \/ RegistryUnreachable(p) \/ httpsDo(p)
    <2>1. Idle(p) \/ \E d : \E step \in {"lookup", "stat", "using"} : Resolve(p, d, step)
      BY <1>2 DEF remoteImage, RegistryUnreachable, httpsDo
    <2>2. QED
      BY <1>1, <2>1, IdleKeepsWhole, ResolveKeepsWhole
  <1>3. CASE extractOCI(p)
    <2>1. \/ Move(p, "record") /\ cachedOCI(dig[p])
          \/ Move(p, "unpack") /\ ~cachedOCI(dig[p])
      BY <1>3 DEF extractOCI
    <2>2. QED
      BY <1>1, <2>1, MoveKeepsWhole
  <1>4. CASE Unpack(p)
    <2>1. pc[p] = "unpack" /\ Move(p, "clear")
      BY <1>4 DEF Unpack
    <2>2. ~overlapped /\ ref[p].kind # "url" => ~cachedOCI(dig[p])
      BY <2>1 DEF WholeInv, LookupInv
    <2>3. QED
      BY <1>1, <2>1, <2>2, MoveKeepsWhole
  <1>5. CASE ParseMetadata(p)
    <2>1. pc[p] = "parse" /\ (Move(p, "record") \/ Idle(p))
      BY <1>5 DEF ParseMetadata
    <2>2. ~overlapped /\ ref[p].kind # "url" => cachedOCI(dig[p])
      BY <2>1 DEF WholeInv, LookupInv
    <2>3. QED
      BY <1>1, <2>1, <2>2, MoveKeepsWhole, IdleKeepsWhole
  <1>6. CASE StatMetadata(p)
    <2>1. ref[p].kind = "url" /\ (Move(p, "using") \/ Move(p, "clear"))
      BY <1>6 DEF StatMetadata, StoreInv, PlaceInv, HttpsSteps
    <2>2. QED
      BY <1>1, <2>1, MoveKeepsWhole
  <1>7. CASE VerifyExtracted(p)
    <2>1. Move(p, "using") \/ Idle(p)
      BY <1>7 DEF VerifyExtracted
    <2>2. QED
      BY <1>1, <2>1, MoveKeepsWhole, IdleKeepsWhole
  <1>8. CASE RegistryAnswersError(p) \/ UnpackFails(p) \/ Release(p) \/ Crash(p)
    BY <1>1, <1>8, IdleKeepsWhole DEF RegistryAnswersError, UnpackFails, Release, Crash
  <1>9. QED
    BY <1>2, <1>3, <1>4, <1>5, <1>6, <1>7, <1>8

LEMMA WholeInvStep == StoreInv /\ WholeInv /\ [Next]_vars => WholeInv'
  <1> SUFFICES ASSUME StoreInv, WholeInv, [Next]_vars PROVE WholeInv'
    OBVIOUS
  <1>1. ASSUME UNCHANGED <<dir, record, pc, ref, dig, overlapped>> PROVE WholeInv'
    BY <1>1 DEF WholeInv, CacheIsWhole, Alone, LookupInv, cachedOCI
  <1>2. CASE UNCHANGED vars
    BY <1>1, <1>2 DEF vars
  <1>3. ASSUME NEW x \in FloatingTag \cup Url, Republish(x) PROVE WholeInv'
    BY <1>1, <1>3 DEF Republish
  <1>4. ASSUME NEW p \in Proc, NEW r \in Refs, Fetch(p, r) PROVE WholeInv'
    BY <1>4, FetchKeepsWhole
  <1>5. ASSUME NEW p \in Proc,
               fetchOCI(p) \/ fetchHTTPS(p) \/ RemoveAll(p) \/ Release(p) \/ Crash(p)
        PROVE  WholeInv'
    BY <1>5, LightStepKeepsWhole, RenameKeepsWhole, RecordKeepsWhole, ExtractKeepsWhole,
       RemoveAllKeepsWhole DEF fetchOCI, fetchHTTPS
  <1>6. QED
    BY <1>2, <1>3, <1>4, <1>5 DEF Next

(***************************************************************************)
(* As long as no two fetches have overlapped, a lookup never takes a       *)
(* partial extraction for a complete one, and what a tag is recorded as is *)
(* there: across crashes, failed extractions and moved tags.               *)
(***************************************************************************)
THEOREM StoreWhole == Spec => []CacheIsWhole
  <1>1. Init => WholeInv
    <2> SUFFICES ASSUME Init PROVE WholeInv
      OBVIOUS
    <2>1. \A d \in Digest : ~cachedOCI(d)
      BY DEF Init, cachedOCI, Site
    <2>2. QED
      BY <2>1 DEF Init, WholeInv, CacheIsWhole, Alone, LookupInv
  <1>2. WholeInv => CacheIsWhole
    BY DEF WholeInv
  <1>3. QED
    BY <1>1, <1>2, StoreInvariant, WholeInvStep, PTL DEF Spec

=============================================================================
