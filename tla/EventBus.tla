------------------------------ MODULE EventBus ------------------------------
(***************************************************************************)
(* eventbus.go, events/event.go and the runtime calls that write to a bus: *)
(* pull.go, build.go, buildkit_trace.go of runtime/docker.                 *)
(*                                                                         *)
(* Each operation of an engine (Up, Build, Down, Exec) has a bus of its    *)
(* own; the sequence counter is the engine's, and the caller may pass one  *)
(* channel to several operations.  An operation's own goroutine emits its  *)
(* events and writes those of its builds to a buffered channel, which a    *)
(* second goroutine, the translator, turns into events.                    *)
(***************************************************************************)
EXTENDS Naturals, Sequences

CONSTANTS
    Op,         \* operations that were passed the channel
    Source,     \* events.BuildSource
    Vertex,     \* steps of a build, as BuildKit reports them
    Status,     \* the lists of vertex updates a trace record may carry
    BuildCap,   \* the build channel's buffer, 64 in the code
    OutCap,     \* the buffer of the caller's channel
    MaxEmits,   \* MaxEmits[o]: bound on the operation's own events
    Builds,     \* Builds[o]: the sources of its builds and pulls, in order
    MaxRecords  \* bound on the records the daemon streams for them

(* A vertex as BuildKit reports it: what has ended has also begun.         *)
Update == {u \in [vertex : Vertex, started : BOOLEAN, completed : BOOLEAN] :
             u.completed => u.started}

ASSUME BusAssumption ==
    /\ Source # {}
    /\ Status \subseteq Seq(Update)
    /\ BuildCap \in Nat \ {0} /\ OutCap \in Nat
    /\ MaxEmits \in [Op -> Nat] /\ Builds \in [Op -> Seq(Source)] /\ MaxRecords \in Nat

VARIABLES
    counter,   \* Emitter.counter
    out,       \* the caller's channel
    closed,    \* whether the caller has closed it
    received,  \* history: what the caller has taken out of it
    pc,        \* pc[o]: where the operation's goroutine is
    emits,     \* emits[o]: events of its own so far
    mainEv,    \* mainEv[o]: its event that is stamped and not yet sent
    builds,    \* builds[o]: calls of BuildChan so far; the last one's buildStart
    buildSrc,  \* buildSrc[o]: the source of the last one
    records,   \* records[o]: records streamed so far
    pending,   \* pending[o]: updates of the present record not yet decoded
    vertexes,  \* vertexes[o]: what the trace decoder has seen
    buildCh,   \* buildCh[o]: the build channel
    tr,        \* tr[o]: where the translator is
    trEv,      \* trEv[o]: the event it is working on
    panicked   \* a send on a closed channel has happened

streamVars == <<records, pending, vertexes>>
busVars == <<builds, buildSrc, buildCh>>
outVars == <<counter, out, closed, received, panicked>>
vars    == <<outVars, busVars, streamVars, pc, emits, mainEv, tr, trEv>>

----------------------------------------------------------------------------
(***************************************************************************)
(* runtime.BuildEvent: its kind, and for a layer event the vertex and the  *)
(* transition it reports.  A build event remembers which build wrote it,   *)
(* which the code does not.                                                *)
(***************************************************************************)
BuildEvent ==
    [kind : {"log", "completed"}] \cup [kind : {"start", "done"}, vertex : Vertex]

(* events.Event, with its Base.  The label of a build event is the source  *)
(* and the build start it was translated with.                             *)
Label == [source : Source, start : Nat \ {0}]

Event ==
    [op : Op, seq : Nat, build : {0}, n : Nat \ {0}]
      \cup [op : Op, seq : Nat, build : Nat \ {0}, be : BuildEvent, label : Label]

Seen == [start : SUBSET Vertex, done : SUBSET Vertex]

NoneSeen == [start |-> {}, done |-> {}]

----------------------------------------------------------------------------
(* Emitter.Stamp takes the next number; Send comes later.                  *)

(* A bug: two goroutines read the counter before either has stored it.     *)
StampRaces == UNCHANGED counter

Stamp == counter' = counter + 1

(* A bug: a plain send, which waits for room.                              *)
SendBlocking(e) ==
    /\ Len(out) < OutCap
    /\ panicked' = (panicked \/ closed)
    /\ out' = Append(out, e)
    /\ UNCHANGED <<counter, closed, received>>

(***************************************************************************)
(* Send never waits: the event is lost when the channel has no room.  On a *)
(* channel the caller has closed it panics.                                *)
(***************************************************************************)
Send(e) ==
    /\ panicked' = (panicked \/ closed)
    /\ out' = IF Len(out) < OutCap /\ ~closed THEN Append(out, e) ELSE out
    /\ UNCHANGED <<counter, closed, received>>

(* The operation's goroutine emits an event of its own.                    *)
EmitStamp(o) ==
    /\ pc[o] = "run"
    /\ mainEv[o] = {}
    /\ emits[o] < MaxEmits[o]
    /\ Stamp
    /\ emits' = [emits EXCEPT ![o] = @ + 1]
    /\ mainEv' = [mainEv EXCEPT ![o] =
         {[op |-> o, seq |-> counter + 1, build |-> 0, n |-> emits[o] + 1]}]
    /\ UNCHANGED <<out, closed, received, panicked, busVars, streamVars, pc, tr, trEv>>

EmitSend(o) ==
    /\ \E e \in mainEv[o] : Send(e)
    /\ mainEv' = [mainEv EXCEPT ![o] = {}]
    /\ UNCHANGED <<busVars, streamVars, pc, emits, tr, trEv>>

----------------------------------------------------------------------------
(* Builds. *)

(***************************************************************************)
(* BuildChan, under the mutex: the source and the start of the build are   *)
(* replaced, whatever the channel still holds, and the first call makes    *)
(* the channel and starts the translator.                                  *)
(***************************************************************************)
BuildChan(o) ==
    /\ pc[o] = "run"
    /\ mainEv[o] = {}
    /\ builds[o] < Len(Builds[o])
    /\ builds' = [builds EXCEPT ![o] = @ + 1]
    /\ buildSrc' = [buildSrc EXCEPT ![o] = Builds[o][builds[o] + 1]]
    /\ tr' = [tr EXCEPT ![o] = IF @ = "none" THEN "range" ELSE @]
    /\ pc' = [pc EXCEPT ![o] = "build"]
    /\ vertexes' = [vertexes EXCEPT ![o] = NoneSeen]
    /\ UNCHANGED <<outVars, emits, mainEv, records, pending, buildCh, trEv>>

(* An event that finds the channel full is lost.                           *)
emitBuildEvent(o, ev) ==
    buildCh' = [buildCh EXCEPT ![o] =
        IF Len(@) < BuildCap THEN Append(@, [build |-> builds[o], ev |-> ev]) ELSE @]

Record(o) ==
    /\ pc[o] = "build"
    /\ pending[o] = <<>>
    /\ records[o] < MaxRecords
    /\ records' = [records EXCEPT ![o] = @ + 1]
    /\ UNCHANGED <<outVars, builds, buildSrc, vertexes, pc, emits, mainEv, tr, trEv>>

(***************************************************************************)
(* A line of output, a classic-builder record or progress of a pull.       *)
(* Before a Dockerfile is built its base images are pulled, each with a    *)
(* completion of its own; the model lets one come at any point of a build. *)
(***************************************************************************)
StreamLine(o) ==
    /\ Record(o)
    /\ \E kind \in {"log", "completed"} : emitBuildEvent(o, [kind |-> kind])
    /\ UNCHANGED pending

(* A trace record, whose updates are decoded one by one.                   *)
decodeStatus(o, status) ==
    /\ Record(o)
    /\ pending' = [pending EXCEPT ![o] = status]
    /\ UNCHANGED buildCh

(* A bug: the end of a vertex is looked at before its start.               *)
transitionEndFirst(o) ==
    LET u == Head(pending[o])
    IN  IF u.completed /\ u.vertex \notin vertexes[o].done THEN "done"
        ELSE IF u.started /\ u.vertex \notin vertexes[o].start THEN "start"
        ELSE "none"

(***************************************************************************)
(* BuildKit sends a vertex again whenever it changes, each time with all   *)
(* that is known of it; what is new is that it has begun, or has ended.    *)
(***************************************************************************)
transition(o) ==
    LET u == Head(pending[o])
    IN  IF u.started /\ u.vertex \notin vertexes[o].start THEN "start"
        ELSE IF u.completed /\ u.vertex \notin vertexes[o].done THEN "done"
        ELSE "none"

(* decodeVertex reports its start and its end once each, and counts them   *)
(* as reported whether or not the channel had room.                        *)
decodeVertex(o) ==
    /\ pc[o] = "build"
    /\ pending[o] # <<>>
    /\ LET v == Head(pending[o]).vertex IN
         \/ /\ transition(o) = "start"
            /\ emitBuildEvent(o, [kind |-> "start", vertex |-> v])
            /\ vertexes' = [vertexes EXCEPT ![o].start = @ \cup {v}]
            /\ UNCHANGED pending
         \/ /\ transition(o) = "done"
            /\ emitBuildEvent(o, [kind |-> "done", vertex |-> v])
            /\ vertexes' = [vertexes EXCEPT ![o].done = @ \cup {v}]
            /\ UNCHANGED pending
         \/ /\ transition(o) = "none"
            /\ pending' = [pending EXCEPT ![o] = Tail(@)]
            /\ UNCHANGED <<buildCh, vertexes>>
    /\ UNCHANGED <<outVars, builds, buildSrc, records, pc, emits, mainEv, tr, trEv>>

(***************************************************************************)
(* BuildImage and PullImage report completion after the stream has ended,  *)
(* unless it carried an error.  Then the operation goes on, or fails.      *)
(***************************************************************************)
BuildEnds(o, ok) ==
    /\ pc[o] = "build"
    /\ pending[o] = <<>>
    /\ IF ok THEN emitBuildEvent(o, [kind |-> "completed"]) ELSE UNCHANGED buildCh
    /\ pc' = [pc EXCEPT ![o] = IF ok THEN "run" ELSE "close"]
    /\ UNCHANGED <<outVars, builds, buildSrc, streamVars, emits, mainEv,
                   tr, trEv>>

----------------------------------------------------------------------------
(* The translator. *)

translateReceive(o) ==
    /\ tr[o] = "range"
    /\ buildCh[o] # <<>>
    /\ trEv' = [trEv EXCEPT ![o] = {[be |-> Head(buildCh[o])]}]
    /\ buildCh' = [buildCh EXCEPT ![o] = Tail(@)]
    /\ tr' = [tr EXCEPT ![o] = "label"]
    /\ UNCHANGED <<outVars, builds, buildSrc, streamVars, pc, emits, mainEv>>

(* The source and start in force now, not when the event was written.      *)
translateLabel(o) ==
    /\ tr[o] = "label"
    /\ trEv' = [trEv EXCEPT ![o] =
         {[be |-> e.be,
           label |-> [source |-> buildSrc[o], start |-> builds[o]]] : e \in @}]
    /\ tr' = [tr EXCEPT ![o] = "stamp"]
    /\ UNCHANGED <<outVars, busVars, streamVars, pc, emits, mainEv>>

translateStamp(o) ==
    /\ tr[o] = "stamp"
    /\ Stamp
    /\ trEv' = [trEv EXCEPT ![o] =
         {[op |-> o, seq |-> counter + 1, build |-> e.be.build, be |-> e.be.ev,
           label |-> e.label] : e \in @}]
    /\ tr' = [tr EXCEPT ![o] = "send"]
    /\ UNCHANGED <<out, closed, received, panicked, busVars, streamVars, pc, emits, mainEv>>

translateSend(o) ==
    /\ tr[o] = "send"
    /\ \E e \in trEv[o] : Send(e)
    /\ trEv' = [trEv EXCEPT ![o] = {}]
    /\ tr' = [tr EXCEPT ![o] = "range"]
    /\ UNCHANGED <<busVars, streamVars, pc, emits, mainEv>>

(* A bug: the loop watches for Close instead of ranging over the channel.  *)
translateEndAtClose(o) ==
    /\ tr[o] = "range"
    /\ pc[o] = "wait"
    /\ tr' = [tr EXCEPT ![o] = "done"]
    /\ UNCHANGED <<outVars, busVars, streamVars, pc, emits, mainEv, trEv>>

(* The range loop ends on a closed channel once it is empty.               *)
translateEnd(o) ==
    /\ tr[o] = "range"
    /\ buildCh[o] = <<>>
    /\ pc[o] = "wait"
    /\ tr' = [tr EXCEPT ![o] = "done"]
    /\ UNCHANGED <<outVars, busVars, streamVars, pc, emits, mainEv, trEv>>

translateLoop(o) ==
    \/ translateReceive(o) \/ translateLabel(o) \/ translateStamp(o)
    \/ translateSend(o) \/ translateEnd(o)

----------------------------------------------------------------------------
(* The end of an operation. *)

(* The operation has nothing more to do; its deferred Close is next.       *)
Finish(o) ==
    /\ pc[o] = "run"
    /\ mainEv[o] = {}
    /\ pc' = [pc EXCEPT ![o] = "close"]
    /\ UNCHANGED <<outVars, busVars, streamVars, emits, mainEv, tr, trEv>>

(* Close closes the build channel and waits for the translator.            *)
CloseChannel(o) ==
    /\ pc[o] = "close"
    /\ pc' = [pc EXCEPT ![o] = "wait"]
    /\ UNCHANGED <<outVars, busVars, streamVars, emits, mainEv, tr, trEv>>

CloseReturns(o) ==
    /\ pc[o] = "wait"
    /\ tr[o] \in {"none", "done"}
    /\ pc' = [pc EXCEPT ![o] = "returned"]
    /\ UNCHANGED <<outVars, busVars, streamVars, emits, mainEv, tr, trEv>>

----------------------------------------------------------------------------
(* The caller: takes events when it likes, and closes its channel only     *)
(* when every operation it passed it to has returned.                      *)

Receive ==
    /\ out # <<>>
    /\ received' = Append(received, Head(out))
    /\ out' = Tail(out)
    /\ UNCHANGED <<counter, closed, panicked, busVars, streamVars, pc, emits, mainEv,
                   tr, trEv>>

CallerCloses ==
    /\ ~closed
    /\ \A o \in Op : pc[o] = "returned"
    /\ closed' = TRUE
    /\ UNCHANGED <<counter, out, received, panicked, busVars, streamVars, pc, emits,
                   mainEv, tr, trEv>>

----------------------------------------------------------------------------
Init ==
    /\ counter = 0 /\ out = <<>> /\ received = <<>>
    /\ closed = FALSE /\ panicked = FALSE
    /\ pc = [o \in Op |-> "run"]
    /\ emits = [o \in Op |-> 0]
    /\ mainEv = [o \in Op |-> {}]
    /\ builds = [o \in Op |-> 0]
    /\ buildSrc = [o \in Op |-> CHOOSE s \in Source : TRUE]
    /\ records = [o \in Op |-> 0]
    /\ pending = [o \in Op |-> <<>>]
    /\ vertexes = [o \in Op |-> NoneSeen]
    /\ buildCh = [o \in Op |-> <<>>]
    /\ tr = [o \in Op |-> "none"]
    /\ trEv = [o \in Op |-> {}]

Main(o) ==
    \/ EmitStamp(o) \/ EmitSend(o) \/ BuildChan(o) \/ StreamLine(o)
    \/ (\E status \in Status : decodeStatus(o, status)) \/ decodeVertex(o)
    \/ \E ok \in BOOLEAN : BuildEnds(o, ok)
    \/ Finish(o) \/ CloseChannel(o) \/ CloseReturns(o)

Next == (\E o \in Op : Main(o) \/ translateLoop(o)) \/ Receive \/ CallerCloses

Spec == Init /\ [][Next]_vars

(* Every goroutine of the engine keeps going; of the caller nothing is     *)
(* assumed.                                                                *)
FairSpec ==
    /\ Spec
    /\ \A o \in Op :
         /\ WF_vars(translateLoop(o))
         /\ WF_vars(EmitSend(o) \/ CloseChannel(o) \/ CloseReturns(o))

----------------------------------------------------------------------------
(* What waits in the build channel, and what the translator holds.         *)
Queued == [build : Nat \ {0}, ev : BuildEvent]

InHand(o) ==
    CASE tr[o] = "label" -> [be : Queued]
      [] tr[o] = "stamp" -> [be : Queued, label : Label]
      [] tr[o] = "send"  -> {e \in Event : e.op = o /\ e.build # 0}
      [] OTHER           -> {}

TypeOK ==
    /\ counter \in Nat
    /\ out \in Seq(Event) /\ received \in Seq(Event)
    /\ closed \in BOOLEAN /\ panicked \in BOOLEAN
    /\ pc \in [Op -> {"run", "build", "close", "wait", "returned"}]
    /\ emits \in [Op -> Nat]
    /\ mainEv \in [Op -> SUBSET {e \in Event : e.build = 0}]
    /\ \A o \in Op : \A e \in mainEv[o] : e.op = o
    /\ builds \in [Op -> Nat]
    /\ buildSrc \in [Op -> Source]
    /\ records \in [Op -> 0..MaxRecords]
    /\ pending \in [Op -> Seq(Update)]
    /\ vertexes \in [Op -> Seen]
    /\ buildCh \in [Op -> Seq(Queued)]
    /\ \A o \in Op : Len(buildCh[o]) <= BuildCap
    /\ tr \in [Op -> {"none", "range", "label", "stamp", "send", "done"}]
    /\ DOMAIN trEv = Op
    /\ \A o \in Op : trEv[o] \subseteq InHand(o)

Accepted == received \o out

(***************************************************************************)
(* EventLog is implemented: what the caller's channel has accepted is a    *)
(* log with distinct sequence numbers, increasing within the events an     *)
(* operation emits and within those its translator does, with builds in    *)
(* their order, to which an operation that has returned adds nothing.      *)
(***************************************************************************)
Log == INSTANCE EventLog WITH
           log <- Accepted,
           returned <- {o \in Op : pc[o] = "returned"}

ImplementsEventLog == Log!LogSpec

(***************************************************************************)
(* Close flushes the translator: when an operation has returned, every     *)
(* build event its channel accepted has been turned into an event and      *)
(* offered to the caller; so a caller that waits for its operations before *)
(* it closes the channel (events/doc.go) never makes the engine panic.     *)
(***************************************************************************)
CloseFlushes ==
    /\ ~panicked
    /\ \A o \in Op : pc[o] = "returned" => buildCh[o] = <<>> /\ trEv[o] = {} /\ mainEv[o] = {}

(***************************************************************************)
(* translateBuildEvent: an event is labelled with the source of the build  *)
(* it came from or of a later one of the same operation, never of an       *)
(* earlier one, and source and start time belong to the same build.        *)
(***************************************************************************)
LabelsAreCoherent ==
    \A i \in DOMAIN Accepted :
        LET e == Accepted[i] IN
            e.build # 0 => /\ e.label.start >= e.build
                           /\ e.label.source = Builds[e.op][e.label.start]

(***************************************************************************)
(* buildkit_trace.go: of one build's vertex a caller sees the start and    *)
(* the end at most once each, the start never after the end, across both   *)
(* channels and whatever either of them drops.                             *)
(***************************************************************************)
TransitionsInOrder ==
    \A i, j \in DOMAIN Accepted :
        LET a == Accepted[i]
            b == Accepted[j]
        IN  /\ i < j /\ a.build # 0 /\ a.build = b.build /\ a.op = b.op
            /\ {a.be.kind, b.be.kind} \subseteq {"start", "done"}
            /\ a.be.vertex = b.be.vertex
            => a.be.kind = "start" /\ b.be.kind = "done"

(***************************************************************************)
(* What a caller sees of a build is true of it, however late it is         *)
(* translated: where it came from, and how its vertexes went on.           *)
(***************************************************************************)
BuildEventsAreTrue == LabelsAreCoherent /\ TransitionsInOrder

(***************************************************************************)
(* The engine never waits for the consumer: an operation that has come to  *)
(* its Close returns, even if nobody ever takes an event out of the        *)
(* caller's channel.                                                       *)
(***************************************************************************)
CloseTerminates ==
    \A o \in Op : pc[o] = "close" ~> pc[o] = "returned"
=============================================================================
