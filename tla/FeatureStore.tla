---------------------------- MODULE FeatureStore ----------------------------
(***************************************************************************)
(* feature/disk_store.go, oci.go, https.go, extract.go: the on-disk cache  *)
(* of feature artifacts.                                                   *)
(*                                                                         *)
(* Processes share one cache directory and take no lock.  A feature is     *)
(* named by a digest, an exact-version tag, a floating tag or a URL; what  *)
(* floating tags and URLs name changes, the registry may be out of reach   *)
(* or answer with an error, and a process may die between any two writes.  *)
(* A directory is the set of its files; RemoveAll and the extraction of a  *)
(* download go file by file, while an OCI layer is extracted aside and     *)
(* renamed into place.                                                     *)
(***************************************************************************)
EXTENDS Naturals, FiniteSets

CONSTANTS
    Proc,        \* processes, or goroutines, that use the cache
    Digest,      \* contents
    Content,     \* Content[d]: the files of the artifact with digest d
    ExactTag,    \* tags of the form X.Y.Z
    FloatingTag, \* all other tags
    Url,
    Refs,        \* the references that are fetched
    Faults,      \* what may go wrong
    MaxFetches,  \* bound on calls of Fetch
    MaxMoves     \* bound on changes at the registry and the web server

Tag == ExactTag \cup FloatingTag

(* installScript, metadataFile and anything else.                          *)
File == {"install.sh", "metadata", "more"}

Site == {"oci", "https"}

Ref == [kind : {"digest"}, of : Digest] \cup [kind : {"tag"}, of : Tag]
         \cup [kind : {"url"}, of : Url]

ASSUME StoreAssumption ==
    /\ Refs \subseteq Ref /\ Refs # {}
    /\ Content \in [Digest -> SUBSET File]
    /\ Digest # {}
    /\ ExactTag \cap (FloatingTag \cup Url) = {}
    /\ MaxFetches \in Nat /\ MaxMoves \in Nat

VARIABLES
    serves,     \* serves[x]: what a tag or URL names now
    served,     \* history: served[x], all that it has named
    dir,        \* dir[s][d]: the files in d's "extracted" directory
    record,     \* record[t]: the digest recorded for a tag, {} without one
    fetches, moves,
    pc,         \* pc[p]: the next step of p's fetch
    ref,        \* ref[p]: what it fetches
    dig,        \* dig[p]: the digest it has resolved to
    todo,       \* todo[p]: files still to extract
    overlapped  \* history: two fetches have been under way at once

worldVars == <<serves, served, moves>>
vars == <<worldVars, dir, record, fetches, pc, ref, dig, todo, overlapped>>

Fails(what) == what \in Faults

Goto(p, step) == pc' = [pc EXCEPT ![p] = step]

NoFetch == [ref |-> CHOOSE r \in Refs : TRUE, dig |-> CHOOSE d \in Digest : TRUE]

(* The call is over; its local variables are gone.                         *)
Idle(p) ==
    /\ Goto(p, "idle")
    /\ ref' = [ref EXCEPT ![p] = NoFetch.ref]
    /\ dig' = [dig EXCEPT ![p] = NoFetch.dig]
    /\ todo' = [todo EXCEPT ![p] = {}]
    /\ UNCHANGED <<worldVars, dir, record, fetches, overlapped>>

(* Only the process's position changes.                                    *)
Move(p, step) ==
    /\ Goto(p, step)
    /\ UNCHANGED <<worldVars, dir, record, fetches, ref, dig, todo, overlapped>>

(* Fetch has returned: with an error, or a Fetched that is in use.         *)
Finished == {"idle", "using"}

SiteOf(r) == IF r.kind = "url" THEN "https" ELSE "oci"

Extracted(p) == dir[SiteOf(ref[p])][dig[p]]

----------------------------------------------------------------------------
(* The registry and the web server.  Exact-version tags never move.        *)

Republish(x) ==
    /\ moves < MaxMoves
    /\ moves' = moves + 1
    /\ \E d \in Digest \ {serves[x]} :
         /\ serves' = [serves EXCEPT ![x] = d]
         /\ served' = [served EXCEPT ![x] = @ \cup {d}]
    /\ UNCHANGED <<dir, record, fetches, pc, ref, dig, todo, overlapped>>

----------------------------------------------------------------------------
(* Lookups. *)

cachedOCI(d) == {"install.sh", "metadata"} \subseteq dir["oci"][d]

cachedTag(t) == {d \in record[t] : cachedOCI(d)}

(***************************************************************************)
(* The digests a reference is answered with from the cache alone.          *)
(***************************************************************************)
LocalFirst(r) ==
    CASE r.kind = "digest" -> {d \in {r.of} : cachedOCI(d)}
      [] r.kind = "tag"    -> IF r.of \in ExactTag THEN cachedTag(r.of) ELSE {}
      [] r.kind = "url"    -> {}

Fetch(p, r) ==
    /\ pc[p] = "idle"
    /\ fetches < MaxFetches
    /\ fetches' = fetches + 1
    /\ ref' = [ref EXCEPT ![p] = r]
    /\ overlapped' = (overlapped \/ \E q \in Proc \ {p} : pc[q] # "idle")
    /\ \/ /\ LocalFirst(r) # {}
          /\ Goto(p, "using")
          /\ dig' = [dig EXCEPT ![p] = CHOOSE d \in LocalFirst(r) : TRUE]
       \/ /\ LocalFirst(r) = {}
          /\ Goto(p, IF r.kind = "url" THEN "get" ELSE "online")
          /\ UNCHANGED dig
    /\ UNCHANGED <<worldVars, dir, record, todo>>

----------------------------------------------------------------------------
(* fetchOCI, past the local lookups. *)

Resolve(p, d, step) ==
    /\ dig' = [dig EXCEPT ![p] = d]
    /\ Goto(p, step)
    /\ UNCHANGED <<worldVars, dir, record, fetches, ref, todo, overlapped>>

(* remote.Image and the manifest.                                          *)
remoteImage(p) ==
    /\ pc[p] = "online"
    /\ Resolve(p, IF ref[p].kind = "digest" THEN ref[p].of ELSE serves[ref[p].of],
               "lookup")

(* The registry answers with an error, or the context is done.             *)
RegistryAnswersError(p) ==
    /\ pc[p] = "online"
    /\ Fails("answer")
    /\ Idle(p)

(* No answer at all: a tag falls back to what it was last resolved to.     *)
RegistryUnreachable(p) ==
    /\ pc[p] = "online"
    /\ Fails("unreachable")
    /\ LET known == IF ref[p].kind = "tag" THEN cachedTag(ref[p].of) ELSE {}
       IN  IF known = {} THEN Idle(p)
                         ELSE \E d \in known : Resolve(p, d, "using")

(* extractOCI: present already, or downloaded into a directory of its own. *)
extractOCI(p) ==
    /\ pc[p] = "lookup"
    /\ Move(p, IF cachedOCI(dig[p]) THEN "record" ELSE "unpack")

Unpack(p) ==
    /\ pc[p] = "unpack"
    /\ {"install.sh", "metadata"} \subseteq Content[dig[p]]
    /\ Move(p, "clear")

UnpackFails(p) ==
    /\ pc[p] = "unpack"
    /\ Fails("extract") \/ ~ {"install.sh", "metadata"} \subseteq Content[dig[p]]
    /\ Idle(p)

(* os.RemoveAll of the extracted directory, one file at a time.            *)
RemoveAll(p) ==
    /\ pc[p] = "clear"
    /\ IF Extracted(p) = {}
       THEN /\ Goto(p, IF ref[p].kind = "url" THEN "extract" ELSE "rename")
            /\ todo' = [todo EXCEPT ![p] = Content[dig[p]]]
            /\ UNCHANGED dir
       ELSE /\ \E f \in Extracted(p) :
                 dir' = [dir EXCEPT ![SiteOf(ref[p])][dig[p]] = @ \ {f}]
            /\ UNCHANGED <<pc, todo>>
    /\ UNCHANGED <<worldVars, record, fetches, ref, dig, overlapped>>

(* A bug: the layer is extracted in place.                                 *)
RenameInPlace(p) ==
    /\ pc[p] = "rename"
    /\ \/ /\ \E f \in todo[p] :
               /\ dir' = [dir EXCEPT !["oci"][dig[p]] = @ \cup {f}]
               /\ todo' = [todo EXCEPT ![p] = @ \ {f}]
          /\ UNCHANGED <<worldVars, record, fetches, pc, ref, dig, overlapped>>
       \/ todo[p] = {} /\ Move(p, "parse")

(* os.Rename of a directory: refused when the target is not empty.         *)
Rename(p) ==
    /\ pc[p] = "rename"
    /\ IF Extracted(p) = {}
       THEN /\ dir' = [dir EXCEPT !["oci"][dig[p]] = Content[dig[p]]]
            /\ Goto(p, "parse")
            /\ UNCHANGED <<worldVars, record, fetches, ref, dig, todo, overlapped>>
       ELSE Idle(p)

ParseMetadata(p) ==
    /\ pc[p] = "parse"
    /\ IF "metadata" \in Extracted(p) THEN Move(p, "record") ELSE Idle(p)

(* A bug: one record per repository, whatever the tag.                     *)
recordTagPerRepository(p) ==
    /\ pc[p] = "record"
    /\ Goto(p, "using")
    /\ record' = [t \in Tag |-> {dig[p]}]
    /\ UNCHANGED <<worldVars, dir, fetches, ref, dig, todo, overlapped>>

(* recordTag, atomic and best effort; a digest reference records nothing.  *)
recordTag(p) ==
    /\ pc[p] = "record"
    /\ Goto(p, "using")
    /\ \/ /\ ref[p].kind = "tag"
          /\ record' = [record EXCEPT ![ref[p].of] = {dig[p]}]
       \/ /\ ref[p].kind = "digest" \/ Fails("record")
          /\ UNCHANGED record
    /\ UNCHANGED <<worldVars, dir, fetches, ref, dig, todo, overlapped>>

----------------------------------------------------------------------------
(* fetchHTTPS.  The digest is known once the body has been downloaded.     *)

httpsDo(p) ==
    /\ pc[p] = "get"
    /\ \/ Resolve(p, serves[ref[p].of], "stat")
       \/ Fails("answer") /\ Idle(p)

(* A hit needs the metadata file only.                                     *)
StatMetadata(p) ==
    /\ pc[p] = "stat"
    /\ Move(p, IF "metadata" \in Extracted(p) THEN "using" ELSE "clear")

(* extractTarball, in place; on an error what was written stays.           *)
extractTar(p) ==
    /\ pc[p] = "extract"
    /\ \/ /\ \E f \in todo[p] :
               /\ dir' = [dir EXCEPT !["https"][dig[p]] = @ \cup {f}]
               /\ todo' = [todo EXCEPT ![p] = @ \ {f}]
          /\ UNCHANGED <<worldVars, record, fetches, pc, ref, dig, overlapped>>
       \/ todo[p] = {} /\ Move(p, "verify")
       \/ Fails("extract") /\ Idle(p)

VerifyExtracted(p) ==
    /\ pc[p] = "verify"
    /\ IF {"install.sh", "metadata"} \subseteq Extracted(p)
       THEN Move(p, "using") ELSE Idle(p)

----------------------------------------------------------------------------
(* The caller has copied the directory into its build context.             *)
Release(p) ==
    /\ pc[p] = "using"
    /\ Idle(p)

(* The process dies.                                                       *)
Crash(p) ==
    /\ Fails("crash")
    /\ pc[p] # "idle"
    /\ Idle(p)

----------------------------------------------------------------------------
fetchOCI(p) ==
    \/ remoteImage(p) \/ RegistryAnswersError(p) \/ RegistryUnreachable(p)
    \/ extractOCI(p) \/ Unpack(p) \/ UnpackFails(p)
    \/ Rename(p) \/ ParseMetadata(p) \/ recordTag(p)

fetchHTTPS(p) ==
    httpsDo(p) \/ StatMetadata(p) \/ extractTar(p) \/ VerifyExtracted(p)

Init ==
    /\ serves \in [Tag \cup Url -> Digest]
    /\ served = [x \in Tag \cup Url |-> {serves[x]}]
    /\ dir = [s \in Site |-> [d \in Digest |-> {}]]
    /\ record = [t \in Tag |-> {}]
    /\ fetches = 0 /\ moves = 0
    /\ pc = [p \in Proc |-> "idle"]
    /\ ref = [p \in Proc |-> NoFetch.ref]
    /\ dig = [p \in Proc |-> NoFetch.dig]
    /\ todo = [p \in Proc |-> {}]
    /\ overlapped = FALSE

Next ==
    \/ \E x \in FloatingTag \cup Url : Republish(x)
    \/ \E p \in Proc :
         \/ \E r \in Refs : Fetch(p, r)
         \/ fetchOCI(p) \/ fetchHTTPS(p) \/ RemoveAll(p)
         \/ Release(p) \/ Crash(p)

Spec == Init /\ [][Next]_vars

----------------------------------------------------------------------------
(* Every variable has its type; a directory holds files of its artifact    *)
(* only, and a tag has at most one record.                                 *)
TypeOK ==
    /\ serves \in [Tag \cup Url -> Digest]
    /\ served \in [Tag \cup Url -> SUBSET Digest]
    /\ dir \in [Site -> [Digest -> SUBSET File]]
    /\ \A s \in Site, d \in Digest : dir[s][d] \subseteq Content[d]
    /\ record \in [Tag -> SUBSET Digest]
    /\ \A t \in Tag : \A d, e \in record[t] : d = e
    /\ fetches \in 0..MaxFetches /\ moves \in 0..MaxMoves
    /\ pc \in [Proc -> Finished \cup {"online", "lookup", "unpack", "clear",
                 "rename", "parse", "record", "get", "stat", "extract", "verify"}]
    /\ ref \in [Proc -> Refs]
    /\ dig \in [Proc -> Digest]
    /\ todo \in [Proc -> SUBSET File]
    /\ overlapped \in BOOLEAN

(***************************************************************************)
(* oci.go: the cache never holds a partial extraction that a lookup takes  *)
(* for a complete one, and a recorded tag can be used offline: its content *)
(* is there, since the record is written after the extraction and nothing  *)
(* removes a complete one.  As long as no two fetches have overlapped this *)
(* holds across crashes, failed extractions and moved tags.                *)
(***************************************************************************)
CacheIsWhole ==
    ~overlapped => /\ \A d \in Digest : cachedOCI(d) => dir["oci"][d] = Content[d]
                   /\ \A t \in Tag : \A d \in record[t] : cachedOCI(d)

(***************************************************************************)
(* What a fetch returns is what the reference named at some time: the      *)
(* digest itself, the one content of an exact version, or a content that   *)
(* the floating tag or URL really had; and from the OCI cache it is always *)
(* a feature, with install.sh and metadata - with any number of processes. *)
(***************************************************************************)
RightContent ==
    \A p \in Proc : pc[p] = "using" =>
        /\ CASE ref[p].kind = "digest" -> dig[p] = ref[p].of
             [] ref[p].kind = "tag" /\ ref[p].of \in ExactTag -> dig[p] = serves[ref[p].of]
             [] OTHER -> dig[p] \in served[ref[p].of]
        /\ ref[p].kind # "url" => {"install.sh", "metadata"} \subseteq Content[dig[p]]
=============================================================================
