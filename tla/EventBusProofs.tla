--------------------------- MODULE EventBusProofs ---------------------------
(***************************************************************************)
(* The event bus implements EventLog, flushes before Close returns and     *)
(* reports builds truthfully, for any operations, builds and statuses and  *)
(* any size of either channel.                                             *)
(***************************************************************************)
EXTENDS EventBus, SequenceTheorems, TLAPS

-----------------------------------------------------------------------------
(* Types. *)

LEMMA EventTypes ==
    /\ \A e \in Event : /\ e.op \in Op /\ e.seq \in Nat /\ e.build \in Nat
                        /\ e.build # 0 => e.be \in BuildEvent /\ e.label \in Label
    /\ \A o \in Op, n \in Nat, k \in Nat \ {0} :
         [op |-> o, seq |-> n, build |-> 0, n |-> k] \in Event
    /\ \A o \in Op, n \in Nat, b \in Nat \ {0}, be \in BuildEvent, l \in Label :
         [op |-> o, seq |-> n, build |-> b, be |-> be, label |-> l] \in Event
  BY DEF Event

LEMMA BuildEventTypes ==
    /\ [kind |-> "log"] \in BuildEvent /\ [kind |-> "completed"] \in BuildEvent
    /\ \A v \in Vertex, k \in {"start", "done"} : [kind |-> k, vertex |-> v] \in BuildEvent
    /\ \A e \in BuildEvent : e.kind \in {"start", "done"} => e.vertex \in Vertex
  BY DEF BuildEvent

LEMMA InitType == Init => TypeOK
  <1> SUFFICES ASSUME Init PROVE TypeOK
    OBVIOUS
  <1>1. (CHOOSE s \in Source : TRUE) \in Source
    BY BusAssumption
  <1>2. \A o \in Op : trEv[o] \subseteq InHand(o)
    BY DEF Init
  <1>3. MaxRecords \in Nat /\ BuildCap \in Nat
    BY BusAssumption
  <1>4. out \in Seq(Event) /\ received \in Seq(Event)
    BY DEF Init
  <1>5. buildCh \in [Op -> Seq(Queued)] /\ \A o \in Op : Len(buildCh[o]) <= BuildCap
    BY <1>3 DEF Init
  <1>6. buildSrc \in [Op -> Source]
    BY <1>1 DEF Init
  <1>7. mainEv \in [Op -> SUBSET {e \in Event : e.build = 0}]
        /\ \A o \in Op : mainEv[o] = {}
    BY DEF Init
  <1>8. pending \in [Op -> Seq(Update)] /\ vertexes \in [Op -> Seen]
    BY DEF Init, NoneSeen, Seen
  <1>9. records \in [Op -> 0..MaxRecords]
    BY <1>3 DEF Init
  <1>10. QED
    BY <1>2, <1>4, <1>5, <1>6, <1>7, <1>8, <1>9 DEF Init, TypeOK

(* The caller's channel.                                                   *)
LEMMA SendType ==
    ASSUME TypeOK, NEW e \in Event, Send(e)
    PROVE  /\ out' \in Seq(Event) /\ panicked' \in BOOLEAN
           /\ UNCHANGED <<counter, closed, received>>
  <1>1. Append(out, e) \in Seq(Event)
    BY AppendProperties DEF TypeOK
  <1>2. QED
    BY <1>1 DEF Send, TypeOK

(* The build channel.                                                      *)
LEMMA EmitType ==
    ASSUME TypeOK, NEW o \in Op, builds[o] # 0, NEW ev \in BuildEvent,
           emitBuildEvent(o, ev)
    PROVE  /\ buildCh' \in [Op -> Seq(Queued)]
           /\ \A q \in Op : Len(buildCh'[q]) <= BuildCap
           /\ \A q \in Op \ {o} : buildCh'[q] = buildCh[q]
           /\ \/ buildCh'[o] = buildCh[o]
              \/ buildCh'[o] = Append(buildCh[o], [build |-> builds[o], ev |-> ev])
  <1> DEFINE x == [build |-> builds[o], ev |-> ev]
  <1>1. x \in Queued
    BY DEF TypeOK, Queued
  <1>2. buildCh[o] \in Seq(Queued)
    BY DEF TypeOK
  <1>3. Append(buildCh[o], x) \in Seq(Queued) /\ Len(Append(buildCh[o], x)) = Len(buildCh[o]) + 1
    BY <1>1, <1>2, AppendProperties
  <1>4. /\ \A q \in Op \ {o} : buildCh'[q] = buildCh[q]
        /\ buildCh'[o] = IF Len(buildCh[o]) < BuildCap THEN Append(buildCh[o], x) ELSE buildCh[o]
        /\ DOMAIN buildCh' = Op
        /\ buildCh' = [q \in Op |-> buildCh'[q]]
    BY DEF emitBuildEvent, TypeOK
  <1>5. \A q \in Op : buildCh'[q] \in Seq(Queued)
    BY <1>2, <1>3, <1>4 DEF TypeOK
  <1>6. buildCh' \in [Op -> Seq(Queued)]
    BY <1>4, <1>5
  <1>7. \A q \in Op : Len(buildCh'[q]) <= BuildCap
    <2>1. Len(buildCh[o]) \in Nat /\ BuildCap \in Nat
      BY <1>2, LenProperties, BusAssumption
    <2>2. \A q \in Op : Len(buildCh[q]) <= BuildCap
      BY DEF TypeOK
    <2>3. QED
      BY <1>3, <1>4, <2>1, <2>2
  <1>8. QED
    BY <1>4, <1>6, <1>7

-----------------------------------------------------------------------------
(***************************************************************************)
(* Where the goroutines of an operation can be.  The translator exists     *)
(* from the first build on, ends only after Close has been called and the  *)
(* build channel is empty, and the operation returns after that.           *)
(***************************************************************************)
FlowInv(o) ==
    /\ mainEv[o] # {} => pc[o] = "run"
    /\ tr[o] = "none" => builds[o] = 0 /\ buildCh[o] = <<>> /\ pc[o] # "build"
    /\ tr[o] # "none" =>
         /\ builds[o] \in 1..Len(Builds[o])
         /\ buildSrc[o] = Builds[o][builds[o]]
    /\ tr[o] = "done" => pc[o] \in {"wait", "returned"} /\ buildCh[o] = <<>>
    /\ pc[o] = "returned" => tr[o] \in {"none", "done"}

BusInv ==
    /\ TypeOK
    /\ \A o \in Op : FlowInv(o)
    /\ closed => \A o \in Op : pc[o] = "returned"
    /\ ~panicked

(* What the other operations have and what nobody changes stays typed.     *)
LEMMA EmitStampBus ==
    ASSUME BusInv, NEW o \in Op, EmitStamp(o)
    PROVE  BusInv'
  <1> DEFINE e == [op |-> o, seq |-> counter + 1, build |-> 0, n |-> emits[o] + 1]
  <1>1. counter \in Nat /\ emits[o] \in Nat
    BY DEF BusInv, TypeOK
  <1>2. e \in Event /\ e.build = 0 /\ e.op = o
    BY <1>1, EventTypes
  <1>3. /\ pc[o] = "run" /\ counter' = counter + 1
        /\ emits' = [emits EXCEPT ![o] = @ + 1]
        /\ mainEv' = [mainEv EXCEPT ![o] = {e}]
        /\ UNCHANGED <<out, closed, received, panicked, busVars, streamVars, pc, tr, trEv>>
    BY DEF EmitStamp, Stamp
  <1> HIDE DEF e
  <1>4. /\ mainEv' \in [Op -> SUBSET {f \in Event : f.build = 0}]
        /\ \A q \in Op : \A f \in mainEv'[q] : f.op = q
        /\ \A q \in Op : mainEv'[q] # {} => pc[q] = "run"
    BY <1>2, <1>3 DEF BusInv, TypeOK, FlowInv
  <1>5. counter' \in Nat /\ emits' \in [Op -> Nat]
    BY <1>3 DEF BusInv, TypeOK
  <1>6. TypeOK'
    BY <1>3, <1>4, <1>5 DEF BusInv, TypeOK, InHand, busVars, streamVars
  <1>7. \A q \in Op : FlowInv(q)'
    BY <1>3, <1>4 DEF BusInv, FlowInv, busVars
  <1>8. QED
    BY <1>3, <1>6, <1>7 DEF BusInv

(* An operation that still sends has not returned, so nothing is closed.   *)
LEMMA EmitSendBus ==
    ASSUME BusInv, NEW o \in Op, EmitSend(o)
    PROVE  BusInv'
  <1>1. PICK e \in mainEv[o] : Send(e)
    BY DEF EmitSend
  <1>2. e \in Event /\ pc[o] = "run"
    BY <1>1 DEF BusInv, TypeOK, FlowInv
  <1>3. ~closed /\ ~panicked'
    BY <1>1, <1>2 DEF BusInv, Send
  <1>4. /\ out' \in Seq(Event) /\ panicked' \in BOOLEAN
        /\ UNCHANGED <<counter, closed, received>>
    BY <1>1, <1>2, SendType DEF BusInv
  <1>5. /\ mainEv' = [mainEv EXCEPT ![o] = {}]
        /\ UNCHANGED <<busVars, streamVars, pc, emits, tr, trEv>>
    BY DEF EmitSend
  <1>6. /\ mainEv' \in [Op -> SUBSET {f \in Event : f.build = 0}]
        /\ \A q \in Op : mainEv'[q] \subseteq mainEv[q]
    BY <1>5 DEF BusInv, TypeOK
  <1>7. TypeOK'
    BY <1>4, <1>5, <1>6 DEF BusInv, TypeOK, InHand, busVars, streamVars
  <1>8. \A q \in Op : FlowInv(q)'
    BY <1>5, <1>6 DEF BusInv, FlowInv, busVars
  <1>9. QED
    BY <1>3, <1>4, <1>5, <1>7, <1>8 DEF BusInv

LEMMA BuildChanBus ==
    ASSUME BusInv, NEW o \in Op, BuildChan(o)
    PROVE  BusInv'
  <1> DEFINE src == Builds[o][builds[o] + 1]
             next == IF tr[o] = "none" THEN "range" ELSE tr[o]
  <1>1. /\ pc[o] = "run" /\ builds[o] < Len(Builds[o])
        /\ builds' = [builds EXCEPT ![o] = @ + 1]
        /\ buildSrc' = [buildSrc EXCEPT ![o] = src]
        /\ tr' = [tr EXCEPT ![o] = next]
        /\ pc' = [pc EXCEPT ![o] = "build"]
        /\ vertexes' = [vertexes EXCEPT ![o] = NoneSeen]
        /\ UNCHANGED <<outVars, emits, mainEv, records, pending, buildCh, trEv>>
        /\ mainEv[o] = {}
    BY DEF BuildChan, BusInv, TypeOK
  <1>2. Builds[o] \in Seq(Source) /\ builds[o] \in Nat /\ Len(Builds[o]) \in Nat
    BY BusAssumption, LenProperties DEF BusInv, TypeOK
  <1>3. builds[o] + 1 \in 1..Len(Builds[o]) /\ src \in Source
    BY <1>1, <1>2, ElementOfSeq
  <1>4. NoneSeen \in Seen
    BY DEF NoneSeen, Seen
  <1>5. tr[o] # "done"
    BY <1>1 DEF BusInv, FlowInv
  <1> HIDE DEF src
  <1>6. /\ builds' \in [Op -> Nat] /\ buildSrc' \in [Op -> Source]
        /\ vertexes' \in [Op -> Seen]
        /\ pc' \in [Op -> {"run", "build", "close", "wait", "returned"}]
        /\ tr' \in [Op -> {"none", "range", "label", "stamp", "send", "done"}]
    BY <1>1, <1>2, <1>3, <1>4 DEF BusInv, TypeOK
  <1>7. \A q \in Op : InHand(q) \subseteq InHand(q)'
    BY <1>1 DEF BusInv, TypeOK, InHand
  <1>8. TypeOK'
    BY <1>1, <1>6, <1>7 DEF BusInv, TypeOK, outVars
  <1>9. ASSUME NEW q \in Op PROVE FlowInv(q)'
    <2>1. CASE q # o
      BY <1>1, <2>1 DEF BusInv, TypeOK, FlowInv, outVars
    <2>2. CASE q = o
      <3>1. /\ builds'[o] = builds[o] + 1 /\ buildSrc'[o] = src /\ tr'[o] = next
            /\ pc'[o] = "build" /\ mainEv'[o] = {}
        BY <1>1 DEF BusInv, TypeOK
      <3>2. next # "none" /\ next # "done"
        BY <1>5
      <3>3. QED
        BY <1>3, <2>2, <3>1, <3>2 DEF FlowInv, src
    <2>3. QED
      BY <2>1, <2>2
  <1>10. (closed => \A q \in Op : pc[q] = "returned")' /\ ~panicked'
    BY <1>1 DEF BusInv, outVars
  <1>11. QED
    BY <1>8, <1>9, <1>10 DEF BusInv

(* A build has a translator that has not ended.                            *)
LEMMA BuildHasTranslator ==
    ASSUME BusInv, NEW o \in Op, pc[o] = "build"
    PROVE  builds[o] # 0 /\ builds[o] \in Nat /\ tr[o] \notin {"none", "done"}
  BY DEF BusInv, TypeOK, FlowInv

(* A step of a build: at most the build channel and the stream change, and *)
(* the operation may go on or fail.                                        *)
LEMMA StreamBus ==
    ASSUME BusInv, NEW o \in Op, pc[o] = "build",
           buildCh' \in [Op -> Seq(Queued)],
           \A q \in Op : Len(buildCh'[q]) <= BuildCap,
           \A q \in Op \ {o} : buildCh'[q] = buildCh[q],
           records' \in [Op -> 0..MaxRecords], pending' \in [Op -> Seq(Update)],
           vertexes' \in [Op -> Seen],
           NEW step \in {"build", "run", "close"}, pc' = [pc EXCEPT ![o] = step],
           UNCHANGED <<outVars, builds, buildSrc, emits, mainEv, tr, trEv>>
    PROVE  BusInv'
  <1>1. TypeOK'
    BY DEF BusInv, TypeOK, InHand, outVars
  <1>2. ASSUME NEW q \in Op PROVE FlowInv(q)'
    <2>1. CASE q # o
      BY <2>1 DEF BusInv, TypeOK, FlowInv, outVars
    <2>2. CASE q = o
      BY <2>2, BuildHasTranslator DEF BusInv, TypeOK, FlowInv, outVars
    <2>3. QED
      BY <2>1, <2>2
  <1>3. (closed => \A q \in Op : pc[q] = "returned")' /\ ~panicked'
    BY DEF BusInv, outVars
  <1>4. QED
    BY <1>1, <1>2, <1>3 DEF BusInv

LEMMA RecordType ==
    ASSUME BusInv, NEW o \in Op, Record(o)
    PROVE  /\ pc[o] = "build" /\ pc' = [pc EXCEPT ![o] = "build"]
           /\ records' \in [Op -> 0..MaxRecords]
           /\ UNCHANGED <<outVars, builds, buildSrc, vertexes, emits, mainEv, tr, trEv>>
  <1>1. /\ pc[o] = "build" /\ records[o] < MaxRecords /\ UNCHANGED pc
        /\ records' = [records EXCEPT ![o] = @ + 1]
        /\ UNCHANGED <<outVars, builds, buildSrc, vertexes, emits, mainEv, tr, trEv>>
    BY DEF Record
  <1>2. records' \in [Op -> 0..MaxRecords]
    BY <1>1, BusAssumption DEF BusInv, TypeOK
  <1>3. pc' = [pc EXCEPT ![o] = "build"]
    BY <1>1 DEF BusInv, TypeOK
  <1>4. QED
    BY <1>1, <1>2, <1>3

LEMMA StreamLineBus ==
    ASSUME BusInv, NEW o \in Op, StreamLine(o)
    PROVE  BusInv'
  <1>1. /\ Record(o) /\ UNCHANGED pending
        /\ \E ev \in BuildEvent : emitBuildEvent(o, ev)
    BY BuildEventTypes DEF StreamLine
  <1>2. /\ pc[o] = "build" /\ pc' = [pc EXCEPT ![o] = "build"]
        /\ records' \in [Op -> 0..MaxRecords]
        /\ UNCHANGED <<outVars, builds, buildSrc, vertexes, emits, mainEv, tr, trEv>>
    BY <1>1, RecordType
  <1>3. /\ buildCh' \in [Op -> Seq(Queued)]
        /\ \A q \in Op : Len(buildCh'[q]) <= BuildCap
        /\ \A q \in Op \ {o} : buildCh'[q] = buildCh[q]
    BY <1>1, <1>2, BuildHasTranslator, BuildEventTypes, EmitType DEF BusInv
  <1>4. pending' \in [Op -> Seq(Update)] /\ vertexes' \in [Op -> Seen]
    BY <1>1, <1>2 DEF BusInv, TypeOK
  <1>5. QED
    BY <1>2, <1>3, <1>4, StreamBus

LEMMA decodeStatusBus ==
    ASSUME BusInv, NEW o \in Op, NEW status \in Status, decodeStatus(o, status)
    PROVE  BusInv'
  <1>1. Record(o) /\ pending' = [pending EXCEPT ![o] = status] /\ UNCHANGED buildCh
    BY DEF decodeStatus
  <1>2. /\ pc[o] = "build" /\ pc' = [pc EXCEPT ![o] = "build"]
        /\ records' \in [Op -> 0..MaxRecords]
        /\ UNCHANGED <<outVars, builds, buildSrc, vertexes, emits, mainEv, tr, trEv>>
    BY <1>1, RecordType
  <1>3. status \in Seq(Update)
    BY BusAssumption
  <1>4. pending' \in [Op -> Seq(Update)] /\ vertexes' \in [Op -> Seen]
    BY <1>1, <1>2, <1>3 DEF BusInv, TypeOK
  <1>5. /\ buildCh' \in [Op -> Seq(Queued)]
        /\ \A q \in Op : Len(buildCh'[q]) <= BuildCap
        /\ \A q \in Op \ {o} : buildCh'[q] = buildCh[q]
    BY <1>1 DEF BusInv, TypeOK
  <1>6. QED
    BY <1>2, <1>4, <1>5, StreamBus

(***************************************************************************)
(* What a step of the decoder does: it reports the vertex at the head, as  *)
(* begun or as ended, and remembers that, or it goes on to the next.       *)
(***************************************************************************)
Reports(o, v, k) ==
    /\ v \in Vertex
    /\ emitBuildEvent(o, [kind |-> k, vertex |-> v])
    /\ UNCHANGED pending
    /\ \/ k = "start" /\ v \notin vertexes[o].start
          /\ vertexes' = [vertexes EXCEPT ![o] =
               [start |-> vertexes[o].start \cup {v}, done |-> vertexes[o].done]]
       \/ k = "done" /\ v \notin vertexes[o].done /\ v \in vertexes[o].start
          /\ vertexes' = [vertexes EXCEPT ![o] =
               [start |-> vertexes[o].start, done |-> vertexes[o].done \cup {v}]]

LEMMA SeenTypes ==
    \A s \in Seen, v \in Vertex :
      /\ [s EXCEPT !.start = @ \cup {v}] = [start |-> s.start \cup {v}, done |-> s.done]
      /\ [s EXCEPT !.done = @ \cup {v}] = [start |-> s.start, done |-> s.done \cup {v}]
      /\ [start |-> s.start \cup {v}, done |-> s.done] \in Seen
      /\ [start |-> s.start, done |-> s.done \cup {v}] \in Seen
  BY DEF Seen

LEMMA decodeVertexCases ==
    ASSUME TypeOK, NEW o \in Op, decodeVertex(o)
    PROVE  /\ pc[o] = "build" /\ pending[o] # <<>>
           /\ UNCHANGED <<outVars, builds, buildSrc, records, pc, emits, mainEv, tr, trEv>>
           /\ \/ \E v \in Vertex, k \in {"start", "done"} : Reports(o, v, k)
              \/ /\ pending' = [pending EXCEPT ![o] = Tail(@)]
                 /\ UNCHANGED <<buildCh, vertexes>>
  <1> DEFINE u == Head(pending[o])
             v == u.vertex
  <1>1. /\ pc[o] = "build" /\ pending[o] # <<>>
        /\ UNCHANGED <<outVars, builds, buildSrc, records, pc, emits, mainEv, tr, trEv>>
    BY DEF decodeVertex
  <1>2. u \in Update
    BY <1>1, HeadTailProperties DEF TypeOK
  <1>3. v \in Vertex /\ (u.completed => u.started)
    BY <1>2 DEF Update
  <1>4. vertexes[o] \in Seen
    BY DEF TypeOK
  <1>5. CASE /\ transition(o) = "start"
             /\ emitBuildEvent(o, [kind |-> "start", vertex |-> v])
             /\ vertexes' = [vertexes EXCEPT ![o].start = @ \cup {v}]
             /\ UNCHANGED pending
    <2>1. v \notin vertexes[o].start
      BY <1>5 DEF transition
    <2>2. vertexes' = [vertexes EXCEPT ![o] =
             [start |-> vertexes[o].start \cup {v}, done |-> vertexes[o].done]]
      BY <1>3, <1>4, <1>5, SeenTypes
    <2>3. Reports(o, v, "start")
      BY <1>3, <1>5, <2>1, <2>2 DEF Reports
    <2>4. QED
      BY <1>1, <1>3, <2>3
  <1>6. CASE /\ transition(o) = "done"
             /\ emitBuildEvent(o, [kind |-> "done", vertex |-> v])
             /\ vertexes' = [vertexes EXCEPT ![o].done = @ \cup {v}]
             /\ UNCHANGED pending
    <2>1. v \notin vertexes[o].done /\ v \in vertexes[o].start
      BY <1>3, <1>6 DEF transition
    <2>2. vertexes' = [vertexes EXCEPT ![o] =
             [start |-> vertexes[o].start, done |-> vertexes[o].done \cup {v}]]
      BY <1>3, <1>4, <1>6, SeenTypes
    <2>3. Reports(o, v, "done")
      BY <1>3, <1>6, <2>1, <2>2 DEF Reports
    <2>4. QED
      BY <1>1, <1>3, <2>3
  <1>7. QED
    BY <1>1, <1>5, <1>6 DEF decodeVertex

LEMMA decodeVertexBus ==
    ASSUME BusInv, NEW o \in Op, decodeVertex(o)
    PROVE  BusInv'
  <1>1. /\ pc[o] = "build" /\ pending[o] # <<>>
        /\ UNCHANGED <<outVars, builds, buildSrc, records, pc, emits, mainEv, tr, trEv>>
    BY decodeVertexCases DEF BusInv
  <1>2. pc' = [pc EXCEPT ![o] = "build"] /\ records' \in [Op -> 0..MaxRecords]
    BY <1>1 DEF BusInv, TypeOK
  <1>3. CASE \E v \in Vertex, k \in {"start", "done"} : Reports(o, v, k)
    <2>1. PICK v \in Vertex, k \in {"start", "done"} : Reports(o, v, k)
      BY <1>3
    <2>2. [kind |-> k, vertex |-> v] \in BuildEvent
      BY BuildEventTypes
    <2>3. emitBuildEvent(o, [kind |-> k, vertex |-> v]) /\ UNCHANGED pending
      BY <2>1 DEF Reports
    <2>4. /\ buildCh' \in [Op -> Seq(Queued)]
          /\ \A q \in Op : Len(buildCh'[q]) <= BuildCap
          /\ \A q \in Op \ {o} : buildCh'[q] = buildCh[q]
      BY <1>1, <2>2, <2>3, BuildHasTranslator, EmitType DEF BusInv
    <2>5. vertexes' \in [Op -> Seen]
      <3>1. vertexes \in [Op -> Seen] /\ vertexes[o] \in Seen
        BY DEF BusInv, TypeOK
      <3>2. PICK s \in Seen : vertexes' = [vertexes EXCEPT ![o] = s]
        BY <2>1, <3>1, SeenTypes DEF Reports
      <3>3. QED
        BY <3>1, <3>2
    <2>6. pending' \in [Op -> Seq(Update)]
      BY <2>3 DEF BusInv, TypeOK
    <2>7. QED
      BY <1>1, <1>2, <2>4, <2>5, <2>6, StreamBus
  <1>4. CASE pending' = [pending EXCEPT ![o] = Tail(@)] /\ UNCHANGED <<buildCh, vertexes>>
    <2>1. Tail(pending[o]) \in Seq(Update)
      BY <1>1, HeadTailProperties DEF BusInv, TypeOK
    <2>2. pending' \in [Op -> Seq(Update)] /\ vertexes' \in [Op -> Seen]
      BY <1>4, <2>1 DEF BusInv, TypeOK
    <2>3. /\ buildCh' \in [Op -> Seq(Queued)]
          /\ \A q \in Op : Len(buildCh'[q]) <= BuildCap
          /\ \A q \in Op \ {o} : buildCh'[q] = buildCh[q]
      BY <1>4 DEF BusInv, TypeOK
    <2>4. QED
      BY <1>1, <1>2, <2>2, <2>3, StreamBus
  <1>5. QED
    BY <1>3, <1>4, decodeVertexCases DEF BusInv

LEMMA BuildEndsBus ==
    ASSUME BusInv, NEW o \in Op, NEW ok \in BOOLEAN, BuildEnds(o, ok)
    PROVE  BusInv'
  <1> DEFINE step == IF ok THEN "run" ELSE "close"
  <1>1. /\ pc[o] = "build"
        /\ IF ok THEN emitBuildEvent(o, [kind |-> "completed"]) ELSE UNCHANGED buildCh
        /\ pc' = [pc EXCEPT ![o] = step]
        /\ UNCHANGED <<outVars, builds, buildSrc, streamVars, emits, mainEv, tr, trEv>>
    BY DEF BuildEnds
  <1>2. step \in {"build", "run", "close"}
    OBVIOUS
  <1>3. /\ buildCh' \in [Op -> Seq(Queued)]
        /\ \A q \in Op : Len(buildCh'[q]) <= BuildCap
        /\ \A q \in Op \ {o} : buildCh'[q] = buildCh[q]
    <2>1. CASE ok
      BY <1>1, <2>1, BuildHasTranslator, BuildEventTypes, EmitType DEF BusInv
    <2>2. CASE ~ok
      BY <1>1, <2>2 DEF BusInv, TypeOK
    <2>3. QED
      BY <2>1, <2>2
  <1>4. /\ records' \in [Op -> 0..MaxRecords] /\ pending' \in [Op -> Seq(Update)]
        /\ vertexes' \in [Op -> Seen]
    BY <1>1 DEF BusInv, TypeOK, streamVars
  <1> HIDE DEF step
  <1>5. QED
    BY <1>1, <1>2, <1>3, <1>4, StreamBus

-----------------------------------------------------------------------------
(* The translator. *)

LEMMA translateReceiveBus ==
    ASSUME BusInv, NEW o \in Op, translateReceive(o)
    PROVE  BusInv'
  <1> DEFINE x == Head(buildCh[o])
             rest == Tail(buildCh[o])
  <1>1. /\ tr[o] = "range" /\ buildCh[o] # <<>>
        /\ trEv' = [trEv EXCEPT ![o] = {[be |-> x]}]
        /\ buildCh' = [buildCh EXCEPT ![o] = rest]
        /\ tr' = [tr EXCEPT ![o] = "label"]
        /\ UNCHANGED <<outVars, builds, buildSrc, streamVars, pc, emits, mainEv>>
    BY DEF translateReceive, BusInv, TypeOK
  <1>2. buildCh[o] \in Seq(Queued) /\ Len(buildCh[o]) \in Nat /\ Len(buildCh[o]) <= BuildCap
    BY LenProperties DEF BusInv, TypeOK
  <1>3. x \in Queued /\ rest \in Seq(Queued) /\ Len(rest) = Len(buildCh[o]) - 1
    BY <1>1, <1>2, HeadTailProperties
  <1> HIDE DEF x, rest
  <1>4. BuildCap \in Nat
    BY BusAssumption
  <1>5. /\ buildCh' \in [Op -> Seq(Queued)]
        /\ \A q \in Op : Len(buildCh'[q]) <= BuildCap
    <2>1. buildCh' \in [Op -> Seq(Queued)]
      BY <1>1, <1>3 DEF BusInv, TypeOK
    <2>2. Len(rest) <= BuildCap
      BY <1>2, <1>3, <1>4
    <2>3. \A q \in Op : Len(buildCh'[q]) <= BuildCap
      BY <1>1, <2>2 DEF BusInv, TypeOK
    <2>4. QED
      BY <2>1, <2>3
  <1>6. /\ tr' \in [Op -> {"none", "range", "label", "stamp", "send", "done"}]
        /\ DOMAIN trEv' = Op /\ tr'[o] = "label" /\ trEv'[o] = {[be |-> x]}
        /\ \A q \in Op \ {o} : trEv'[q] = trEv[q] /\ tr'[q] = tr[q]
    BY <1>1 DEF BusInv, TypeOK
  <1>7. \A q \in Op : trEv'[q] \subseteq InHand(q)'
    <2>1. InHand(o)' = [be : Queued]
      BY <1>6 DEF InHand
    <2>2. \A q \in Op \ {o} : InHand(q)' = InHand(q)
      BY <1>6 DEF InHand
    <2>3. [be |-> x] \in [be : Queued]
      BY <1>3
    <2>4. \A q \in Op : trEv[q] \subseteq InHand(q)
      BY DEF BusInv, TypeOK
    <2>5. trEv'[o] \subseteq InHand(o)'
      BY <1>6, <2>1, <2>3
    <2>6. \A q \in Op \ {o} : trEv'[q] \subseteq InHand(q)'
      BY <1>6, <2>2, <2>4
    <2>7. QED
      BY <2>5, <2>6
  <1>8. TypeOK'
    BY <1>1, <1>5, <1>6, <1>7 DEF BusInv, TypeOK, outVars, streamVars
  <1>9. \A q \in Op : FlowInv(q)'
    BY <1>1, <1>6 DEF BusInv, TypeOK, FlowInv, outVars
  <1>10. QED
    BY <1>1, <1>8, <1>9 DEF BusInv, outVars

(* The translator moves on to another step with what it has in hand.       *)
LEMMA HandBus ==
    ASSUME BusInv, NEW o \in Op, tr[o] \notin {"none", "done"},
           NEW step \in {"range", "label", "stamp", "send"}, NEW hand,
           tr' = [tr EXCEPT ![o] = step], trEv' = [trEv EXCEPT ![o] = hand],
           hand \subseteq InHand(o)', counter' \in Nat,
           out' \in Seq(Event), panicked' = FALSE,
           UNCHANGED <<received, closed, busVars, streamVars, pc, emits, mainEv>>
    PROVE  BusInv'
  <1>1. /\ tr' \in [Op -> {"none", "range", "label", "stamp", "send", "done"}]
        /\ DOMAIN trEv' = Op /\ tr'[o] = step /\ trEv'[o] = hand
        /\ \A q \in Op \ {o} : trEv'[q] = trEv[q] /\ tr'[q] = tr[q]
    BY DEF BusInv, TypeOK
  <1>2. \A q \in Op \ {o} : InHand(q)' = InHand(q)
    BY <1>1 DEF InHand
  <1>3. \A q \in Op : trEv'[q] \subseteq InHand(q)'
    BY <1>1, <1>2 DEF BusInv, TypeOK
  <1>4. TypeOK'
    BY <1>1, <1>3 DEF BusInv, TypeOK, busVars, streamVars
  <1>5. \A q \in Op : FlowInv(q)'
    BY <1>1 DEF BusInv, TypeOK, FlowInv, busVars
  <1>6. QED
    BY <1>4, <1>5 DEF BusInv

LEMMA translateLabelBus ==
    ASSUME BusInv, NEW o \in Op, translateLabel(o)
    PROVE  BusInv'
  <1> DEFINE l == [source |-> buildSrc[o], start |-> builds[o]]
             hand == {[be |-> e.be, label |-> l] : e \in trEv[o]}
  <1>1. /\ tr[o] = "label" /\ trEv' = [trEv EXCEPT ![o] = hand]
        /\ tr' = [tr EXCEPT ![o] = "stamp"]
        /\ UNCHANGED <<outVars, busVars, streamVars, pc, emits, mainEv>>
    BY DEF translateLabel, BusInv, TypeOK
  <1>2. l \in Label
    BY <1>1 DEF BusInv, TypeOK, FlowInv, Label
  <1>3. \A e \in trEv[o] : e.be \in Queued
    <2>1. InHand(o) = [be : Queued]
      BY <1>1 DEF InHand
    <2>2. trEv[o] \subseteq InHand(o)
      BY DEF BusInv, TypeOK
    <2>3. QED
      BY <2>1, <2>2
  <1>4. InHand(o)' = [be : Queued, label : Label]
    <2>1. tr'[o] = "stamp"
      BY <1>1 DEF BusInv, TypeOK
    <2>2. QED
      BY <2>1 DEF InHand
  <1> HIDE DEF l
  <1>5. hand \subseteq InHand(o)'
    BY <1>2, <1>3, <1>4
  <1> HIDE DEF hand
  <1>6. counter' \in Nat /\ out' \in Seq(Event) /\ panicked' = FALSE
    BY <1>1 DEF BusInv, TypeOK, outVars
  <1>7. QED
    BY <1>1, <1>5, <1>6, HandBus DEF outVars

LEMMA translateStampBus ==
    ASSUME BusInv, NEW o \in Op, translateStamp(o)
    PROVE  BusInv'
  <1> DEFINE ev(e) == [op |-> o, seq |-> counter + 1, build |-> e.be.build,
                       be |-> e.be.ev, label |-> e.label]
             hand == {ev(e) : e \in trEv[o]}
  <1>1. /\ tr[o] = "stamp" /\ trEv' = [trEv EXCEPT ![o] = hand]
        /\ tr' = [tr EXCEPT ![o] = "send"] /\ counter' = counter + 1
        /\ UNCHANGED <<out, closed, received, panicked, busVars, streamVars, pc, emits, mainEv>>
    BY DEF translateStamp, Stamp, BusInv, TypeOK
  <1>2. \A e \in trEv[o] : /\ e.be.build \in Nat \ {0} /\ e.be.ev \in BuildEvent
                            /\ e.label \in Label
    <2>1. InHand(o) = [be : Queued, label : Label]
      BY <1>1 DEF InHand
    <2>2. trEv[o] \subseteq InHand(o)
      BY DEF BusInv, TypeOK
    <2>3. QED
      BY <2>1, <2>2 DEF Queued
  <1>3. counter \in Nat
    BY DEF BusInv, TypeOK
  <1>4. \A e \in trEv[o] : ev(e) \in Event /\ ev(e).op = o /\ ev(e).build # 0
    BY <1>2, <1>3, EventTypes
  <1>5. InHand(o)' = {e \in Event : e.op = o /\ e.build # 0}
    <2>1. tr'[o] = "send"
      BY <1>1 DEF BusInv, TypeOK
    <2>2. QED
      BY <2>1 DEF InHand
  <1> HIDE DEF ev
  <1>6. hand \subseteq InHand(o)'
    BY <1>4, <1>5
  <1> HIDE DEF hand
  <1>7. counter' \in Nat /\ out' \in Seq(Event) /\ panicked' = FALSE
    BY <1>1 DEF BusInv, TypeOK
  <1>8. QED
    BY <1>1, <1>6, <1>7, HandBus

(* A translator that sends has not ended, so its operation has not         *)
(* returned and the caller has not closed its channel.                     *)
LEMMA translateSendBus ==
    ASSUME BusInv, NEW o \in Op, translateSend(o)
    PROVE  BusInv' /\ ~closed
  <1>1. /\ tr[o] = "send" /\ trEv' = [trEv EXCEPT ![o] = {}]
        /\ tr' = [tr EXCEPT ![o] = "range"]
        /\ UNCHANGED <<busVars, streamVars, pc, emits, mainEv>>
    BY DEF translateSend
  <1>2. PICK e \in trEv[o] : Send(e)
    BY DEF translateSend
  <1>3. e \in Event
    <2>1. InHand(o) \subseteq Event
      BY <1>1 DEF InHand
    <2>2. QED
      BY <2>1 DEF BusInv, TypeOK
  <1>4. ~closed
    BY <1>1 DEF BusInv, FlowInv
  <1>5. panicked' = FALSE
    BY <1>2, <1>4 DEF BusInv, TypeOK, Send
  <1>6. counter' \in Nat /\ out' \in Seq(Event) /\ UNCHANGED <<closed, received>>
    BY <1>2, <1>3, SendType DEF BusInv, TypeOK
  <1>7. BusInv'
    <2>1. tr[o] \notin {"none", "done"} /\ "range" \in {"range", "label", "stamp", "send"}
      BY <1>1
    <2> DEFINE hand == {}
    <2>2. hand \subseteq InHand(o)' /\ trEv' = [trEv EXCEPT ![o] = hand]
      BY <1>1
    <2> HIDE DEF hand
    <2>3. QED
      BY <1>1, <1>5, <1>6, <2>1, <2>2, HandBus
  <1>8. QED
    BY <1>4, <1>7

(* A step that only moves the two goroutines.                              *)
LEMMA MovesBus ==
    ASSUME BusInv, NEW o \in Op, mainEv[o] = {},
           pc' \in [Op -> {"run", "build", "close", "wait", "returned"}],
           tr' \in [Op -> {"none", "range", "label", "stamp", "send", "done"}],
           \A q \in Op \ {o} : pc'[q] = pc[q] /\ tr'[q] = tr[q],
           \/ tr'[o] = tr[o]
           \/ tr[o] = "range" /\ tr'[o] = "done" /\ buildCh[o] = <<>> /\ pc'[o] = "wait",
           tr'[o] = "none" => pc'[o] # "build",
           tr'[o] = "done" => pc'[o] \in {"wait", "returned"},
           pc[o] # "returned",
           pc'[o] = "returned" => tr'[o] \in {"none", "done"},
           UNCHANGED <<outVars, busVars, streamVars, emits, mainEv, trEv>>
    PROVE  BusInv'
  <1>1. \A q \in Op : InHand(q)' = InHand(q)
    BY DEF InHand
  <1>2. TypeOK'
    BY <1>1 DEF BusInv, TypeOK, outVars, busVars, streamVars
  <1>3. \A q \in Op : FlowInv(q)'
    BY DEF BusInv, TypeOK, FlowInv, outVars, busVars
  <1>4. QED
    BY <1>2, <1>3 DEF BusInv, outVars

LEMMA MovesSteps ==
    ASSUME BusInv, NEW o \in Op,
           Finish(o) \/ CloseChannel(o) \/ CloseReturns(o) \/ translateEnd(o)
    PROVE  BusInv'
  <1>1. CASE Finish(o)
    BY <1>1, MovesBus DEF Finish, BusInv, TypeOK, FlowInv
  <1>2. CASE CloseChannel(o)
    BY <1>2, MovesBus DEF CloseChannel, BusInv, TypeOK, FlowInv
  <1>3. CASE CloseReturns(o)
    BY <1>3, MovesBus DEF CloseReturns, BusInv, TypeOK, FlowInv
  <1>4. CASE translateEnd(o)
    BY <1>4, MovesBus DEF translateEnd, BusInv, TypeOK, FlowInv
  <1>5. QED
    BY <1>1, <1>2, <1>3, <1>4

LEMMA CallerBus ==
    ASSUME BusInv, Receive \/ CallerCloses
    PROVE  BusInv'
  <1>1. CASE Receive
    <2>1. /\ out # <<>> /\ received' = Append(received, Head(out)) /\ out' = Tail(out)
          /\ UNCHANGED <<counter, closed, panicked, busVars, streamVars, pc, emits, mainEv,
                         tr, trEv>>
      BY <1>1 DEF Receive
    <2>2. out \in Seq(Event) /\ received \in Seq(Event)
      BY DEF BusInv, TypeOK
    <2>3. Head(out) \in Event /\ Tail(out) \in Seq(Event)
      BY <2>1, <2>2, HeadTailProperties
    <2>4. received' \in Seq(Event) /\ out' \in Seq(Event)
      BY <2>1, <2>2, <2>3, AppendProperties
    <2>5. TypeOK'
      BY <2>1, <2>4 DEF BusInv, TypeOK, InHand, busVars, streamVars
    <2>6. QED
      BY <2>1, <2>5 DEF BusInv, FlowInv, busVars
  <1>2. CASE CallerCloses
    <2>1. TypeOK'
      BY <1>2 DEF CallerCloses, BusInv, TypeOK, InHand, busVars, streamVars
    <2>2. QED
      BY <1>2, <2>1 DEF CallerCloses, BusInv, FlowInv, busVars
  <1>3. QED
    BY <1>1, <1>2

LEMMA BusInvInit == Init => BusInv
  BY InitType DEF Init, BusInv, FlowInv

LEMMA BusInvStep == BusInv /\ [Next]_vars => BusInv'
  <1> SUFFICES ASSUME BusInv, [Next]_vars PROVE BusInv'
    OBVIOUS
  <1>1. ASSUME NEW o \in Op, Main(o) PROVE BusInv'
    BY <1>1, EmitStampBus, EmitSendBus, BuildChanBus, StreamLineBus, decodeStatusBus,
       decodeVertexBus, BuildEndsBus, MovesSteps DEF Main
  <1>2. ASSUME NEW o \in Op, translateLoop(o) PROVE BusInv'
    BY <1>2, translateReceiveBus, translateLabelBus, translateStampBus, translateSendBus,
       MovesSteps DEF translateLoop
  <1>3. CASE UNCHANGED vars
    <2>1. TypeOK'
      BY <1>3 DEF BusInv, TypeOK, InHand, vars, outVars, busVars, streamVars
    <2>2. QED
      BY <1>3, <2>1 DEF BusInv, FlowInv, vars, outVars, busVars, streamVars
  <1>4. QED
    BY <1>1, <1>2, <1>3, CallerBus DEF Next

(***************************************************************************)
(* eventbus.go: every channel, counter and goroutine of an operation keeps *)
(* its type; the build channel never holds more than its buffer, and what  *)
(* the translator has in hand fits the step it is at.                      *)
(***************************************************************************)
THEOREM BusType == Spec => []TypeOK
  <1>1. Spec => []BusInv
    BY BusInvInit, BusInvStep, PTL DEF Spec
  <1>2. BusInv => TypeOK
    BY DEF BusInv
  <1>3. QED
    BY <1>1, <1>2, PTL

(***************************************************************************)
(* Bus.Close: an operation that has returned holds no event in either      *)
(* goroutine or in its build channel, and Emitter.Send never meets a       *)
(* channel that the caller closed after its operations had returned.       *)
(***************************************************************************)
THEOREM BusFlushes == Spec => []CloseFlushes
  <1>1. Spec => []BusInv
    BY BusInvInit, BusInvStep, PTL DEF Spec
  <1>2. BusInv => CloseFlushes
    <2> SUFFICES ASSUME BusInv, NEW o \in Op, pc[o] = "returned"
                 PROVE  ~panicked /\ buildCh[o] = <<>> /\ trEv[o] = {} /\ mainEv[o] = {}
      BY DEF BusInv, CloseFlushes
    <2>1. tr[o] \in {"none", "done"} /\ mainEv[o] = {} /\ buildCh[o] = <<>> /\ ~panicked
      BY DEF BusInv, FlowInv
    <2>2. trEv[o] = {}
      BY <2>1 DEF BusInv, TypeOK, InHand
    <2>3. QED
      BY <2>1, <2>2
  <1>3. QED
    BY <1>1, <1>2, PTL

-----------------------------------------------------------------------------
(* The log: what the caller's channel has accepted. *)

LEMMA LogType ==
    ASSUME TypeOK
    PROVE  /\ Accepted \in Seq(Event) /\ DOMAIN Accepted = 1..Len(Accepted)
           /\ Len(Accepted) \in Nat
           /\ \A i \in DOMAIN Accepted : Accepted[i] \in Event
  <1>1. received \in Seq(Event) /\ out \in Seq(Event)
    BY DEF TypeOK
  <1>2. Accepted \in Seq(Event)
    BY <1>1, ConcatProperties DEF Accepted
  <1>3. QED
    BY <1>2, LenProperties, ElementOfSeq

(* The log gains an event at its end, or not.                              *)
Gains(e) ==
    /\ Accepted' = Accepted \/ Accepted' = Append(Accepted, e)
    /\ \A i \in DOMAIN Accepted' :
         \/ i \in DOMAIN Accepted /\ Accepted'[i] = Accepted[i]
         \/ i = Len(Accepted) + 1 /\ Accepted'[i] = e

LEMMA AppendGains ==
    ASSUME TypeOK, NEW e \in Event, Accepted' = Append(Accepted, e)
    PROVE  Gains(e)
  <1>1. Accepted \in Seq(Event) /\ DOMAIN Accepted = 1..Len(Accepted) /\ Len(Accepted) \in Nat
    BY LogType
  <1>2. /\ Append(Accepted, e) \in Seq(Event)
        /\ Len(Append(Accepted, e)) = Len(Accepted) + 1
        /\ \A i \in 1..Len(Accepted) : Append(Accepted, e)[i] = Accepted[i]
        /\ Append(Accepted, e)[Len(Accepted) + 1] = e
    BY <1>1, AppendProperties
  <1>3. DOMAIN Append(Accepted, e) = 1..(Len(Accepted) + 1)
    BY <1>2, LenProperties
  <1> DEFINE A == Accepted
             B == Append(A, e)
  <1>4. \A i \in 1..(Len(A) + 1) : i \in 1..Len(A) \/ i = Len(A) + 1
    BY <1>1
  <1>5. \A i \in DOMAIN B : (i \in DOMAIN A /\ B[i] = A[i]) \/ (i = Len(A) + 1 /\ B[i] = e)
    BY <1>1, <1>2, <1>3, <1>4
  <1>6. QED
    BY <1>5 DEF Gains

LEMMA SendGains ==
    ASSUME TypeOK, NEW e \in Event, Send(e)
    PROVE  Gains(e)
  <1>1. received \in Seq(Event) /\ out \in Seq(Event) /\ received' = received
    BY DEF TypeOK, Send
  <1>2. CASE out' = out
    BY <1>1, <1>2 DEF Gains, Accepted
  <1>3. CASE out' = Append(out, e)
    <2>1. received \o Append(out, e) = Append(received \o out, e)
      BY <1>1
    <2>2. Accepted' = Append(Accepted, e)
      BY <1>1, <1>3, <2>1 DEF Accepted
    <2>3. QED
      BY <2>2, AppendGains
  <1>4. QED
    BY <1>2, <1>3 DEF Send

LEMMA ReceiveKeepsLog ==
    ASSUME TypeOK, Receive
    PROVE  Accepted' = Accepted
  <1>1. received \in Seq(Event) /\ out \in Seq(Event) /\ out # <<>>
    BY DEF TypeOK, Receive
  <1>2. Append(received, Head(out)) \o Tail(out) = received \o out
    BY <1>1
  <1>3. QED
    BY <1>2 DEF Receive, Accepted

-----------------------------------------------------------------------------
(***************************************************************************)
(* Sequence numbers.  Between Stamp and Send an event is in the hands of   *)
(* one of the two goroutines of its operation; its number is then not in   *)
(* the log, in nobody else's hands, and above all that the goroutine has   *)
(* sent before.                                                            *)
(***************************************************************************)
Goroutine == {"main", "translator"}

Stamped(o, w) ==
    IF w = "main" THEN mainEv[o] ELSE IF tr[o] = "send" THEN trEv[o] ELSE {}

NumberInv ==
    /\ \A i \in DOMAIN Accepted : Accepted[i].seq <= counter
    /\ \A o \in Op, w \in Goroutine : \A e \in Stamped(o, w) :
         /\ e.seq <= counter
         /\ \A i \in DOMAIN Accepted :
              /\ Accepted[i].seq # e.seq
              /\ Log!OneStream(Accepted[i], e) => Accepted[i].seq < e.seq
    /\ \A o, q \in Op, w, z \in Goroutine :
         \A e \in Stamped(o, w), f \in Stamped(q, z) : e.seq = f.seq => o = q /\ w = z

LEMMA StampedType ==
    ASSUME TypeOK, NEW o \in Op, NEW w \in Goroutine, NEW e \in Stamped(o, w)
    PROVE  e \in Event /\ e.op = o /\ (e.build # 0 <=> w = "translator")
  <1>1. CASE w = "main"
    BY <1>1 DEF Stamped, TypeOK
  <1>2. CASE w # "main"
    <2>1. tr[o] = "send" /\ e \in trEv[o] /\ w = "translator"
      BY <1>2 DEF Stamped, Goroutine
    <2>2. InHand(o) = {f \in Event : f.op = o /\ f.build # 0} /\ trEv[o] \subseteq InHand(o)
      BY <2>1 DEF InHand, TypeOK
    <2>3. QED
      BY <2>1, <2>2
  <1>3. QED
    BY <1>1, <1>2

(* The three things a step can do to numbers.                              *)
Quiet ==
    /\ Accepted' = Accepted /\ counter' = counter
    /\ \A o \in Op, w \in Goroutine : Stamped(o, w)' \subseteq Stamped(o, w)

Stamps(o, w) ==
    /\ Accepted' = Accepted /\ counter' = counter + 1
    /\ \A e \in Stamped(o, w)' : e.seq = counter + 1
    /\ \A q \in Op, z \in Goroutine :
         q # o \/ z # w => Stamped(q, z)' \subseteq Stamped(q, z)

Sends(o, w, e) ==
    /\ e \in Stamped(o, w) /\ Gains(e) /\ counter' = counter
    /\ Stamped(o, w)' = {}
    /\ \A q \in Op, z \in Goroutine : Stamped(q, z)' \subseteq Stamped(q, z)

LEMMA QuietNumbers == NumberInv /\ Quiet => NumberInv'
  BY DEF NumberInv, Quiet

LEMMA StampNumbers ==
    ASSUME TypeOK, NumberInv, NEW o \in Op, NEW w \in Goroutine, Stamps(o, w)
    PROVE  NumberInv'
  <1>1. /\ Accepted' = Accepted /\ counter' = counter + 1 /\ counter \in Nat
        /\ \A i \in DOMAIN Accepted : Accepted[i].seq \in Nat /\ Accepted[i].seq <= counter
    BY LogType, EventTypes DEF TypeOK, NumberInv, Stamps
  <1>2. ASSUME NEW q \in Op, NEW z \in Goroutine, NEW e \in Stamped(q, z)'
        PROVE  \/ q = o /\ z = w /\ e.seq = counter + 1
               \/ (q # o \/ z # w) /\ e \in Stamped(q, z) /\ e.seq \in Nat /\ e.seq <= counter
    <2>1. CASE q = o /\ z = w
      BY <1>2, <2>1 DEF Stamps
    <2>2. CASE q # o \/ z # w
      <3>1. e \in Stamped(q, z)
        BY <1>2, <2>2 DEF Stamps
      <3>2. e.seq \in Nat
        BY <3>1, StampedType, EventTypes
      <3>3. e.seq <= counter
        BY <3>1 DEF NumberInv
      <3>4. QED
        BY <2>2, <3>1, <3>2, <3>3
    <2>3. QED
      BY <2>1, <2>2
  <1>3. \A i \in DOMAIN Accepted' : Accepted'[i].seq <= counter'
    BY <1>1
  <1>4. ASSUME NEW q \in Op, NEW z \in Goroutine, NEW e \in Stamped(q, z)'
        PROVE  /\ e.seq <= counter'
               /\ \A i \in DOMAIN Accepted' :
                    /\ Accepted'[i].seq # e.seq
                    /\ Log!OneStream(Accepted'[i], e) => Accepted'[i].seq < e.seq
    <2>1. CASE e.seq = counter + 1
      BY <1>1, <2>1
    <2>2. CASE e \in Stamped(q, z) /\ e.seq \in Nat /\ e.seq <= counter
      BY <1>1, <2>2 DEF NumberInv
    <2>3. QED
      BY <1>2, <1>4, <2>1, <2>2
  <1>5. ASSUME NEW q \in Op, NEW r \in Op, NEW y \in Goroutine, NEW z \in Goroutine,
               NEW e \in Stamped(q, y)', NEW f \in Stamped(r, z)', e.seq = f.seq
        PROVE  q = r /\ y = z
    <2>1. \/ q = o /\ y = w /\ e.seq = counter + 1
          \/ (q # o \/ y # w) /\ e \in Stamped(q, y) /\ e.seq \in Nat /\ e.seq <= counter
      BY <1>2, <1>5
    <2>2. \/ r = o /\ z = w /\ f.seq = counter + 1
          \/ (r # o \/ z # w) /\ f \in Stamped(r, z) /\ f.seq \in Nat /\ f.seq <= counter
      BY <1>2, <1>5
    <2>3. CASE e \in Stamped(q, y) /\ f \in Stamped(r, z)
      BY <1>5, <2>3 DEF NumberInv
    <2>4. CASE ~(e \in Stamped(q, y) /\ f \in Stamped(r, z))
      BY <1>1, <1>5, <2>1, <2>2, <2>4
    <2>5. QED
      BY <2>3, <2>4
  <1>6. QED
    BY <1>3, <1>4, <1>5 DEF NumberInv

LEMMA SendNumbers ==
    ASSUME TypeOK, NumberInv, NEW o \in Op, NEW w \in Goroutine, NEW e, Sends(o, w, e)
    PROVE  NumberInv'
  <1>1. e \in Stamped(o, w) /\ e.seq <= counter /\ counter' = counter
    BY DEF Sends, NumberInv
  <1>2. \A i \in DOMAIN Accepted' :
            \/ i \in DOMAIN Accepted /\ Accepted'[i] = Accepted[i]
            \/ Accepted'[i] = e
    BY DEF Sends, Gains
  <1>3. \A i \in DOMAIN Accepted' : Accepted'[i].seq <= counter'
    BY <1>1, <1>2 DEF NumberInv
  <1>4. ASSUME NEW q \in Op, NEW z \in Goroutine, NEW f \in Stamped(q, z)'
        PROVE  /\ f.seq <= counter'
               /\ \A i \in DOMAIN Accepted' :
                    /\ Accepted'[i].seq # f.seq
                    /\ Log!OneStream(Accepted'[i], f) => Accepted'[i].seq < f.seq
    <2>1. f \in Stamped(q, z) /\ (q # o \/ z # w)
      BY <1>4 DEF Sends
    <2>2. f.seq # e.seq
      BY <1>1, <2>1 DEF NumberInv
    <2>3. ~Log!OneStream(e, f)
      <3>1. e.op = o /\ (e.build # 0 <=> w = "translator")
        BY <1>1, StampedType
      <3>2. f.op = q /\ (f.build # 0 <=> z = "translator")
        BY <2>1, StampedType
      <3>3. QED
        BY <2>1, <3>1, <3>2 DEF Log!OneStream, Goroutine
    <2>4. f.seq <= counter'
      BY <1>1, <2>1 DEF NumberInv
    <2>5. \A i \in DOMAIN Accepted : /\ Accepted[i].seq # f.seq
                                     /\ Log!OneStream(Accepted[i], f) => Accepted[i].seq < f.seq
      BY <2>1 DEF NumberInv
    <2>6. QED
      BY <1>2, <2>2, <2>3, <2>4, <2>5
  <1>5. \A q, r \in Op, y, z \in Goroutine :
          \A f \in Stamped(q, y)', g \in Stamped(r, z)' : f.seq = g.seq => q = r /\ y = z
    BY DEF Sends, NumberInv
  <1>6. QED
    BY <1>3, <1>4, <1>5 DEF NumberInv

(* Which of them each action does.                                         *)
LEMMA QuietSteps ==
    ASSUME TypeOK, NEW o \in Op,
           \/ BuildChan(o) \/ StreamLine(o) \/ (\E status \in Status : decodeStatus(o, status))
           \/ decodeVertex(o) \/ (\E ok \in BOOLEAN : BuildEnds(o, ok))
           \/ Finish(o) \/ CloseChannel(o) \/ CloseReturns(o)
           \/ translateReceive(o) \/ translateLabel(o) \/ translateEnd(o)
    PROVE  Quiet
  <1>1. UNCHANGED <<outVars, mainEv>>
    BY DEF BuildChan, StreamLine, decodeStatus, Record, decodeVertex, BuildEnds, Finish,
           CloseChannel, CloseReturns, translateReceive, translateLabel, translateEnd
  <1>2. Accepted' = Accepted /\ counter' = counter
    BY <1>1 DEF outVars, Accepted
  <1>3. \A q \in Op : tr'[q] = "send" => tr[q] = "send" /\ trEv'[q] = trEv[q]
    <2>1. CASE UNCHANGED <<tr, trEv>>
      BY <2>1
    <2>2. CASE BuildChan(o)
      BY <2>2 DEF BuildChan, TypeOK
    <2>3. CASE translateReceive(o)
      BY <2>3 DEF translateReceive, TypeOK
    <2>4. CASE translateLabel(o)
      BY <2>4 DEF translateLabel, TypeOK
    <2>5. CASE translateEnd(o)
      BY <2>5 DEF translateEnd, TypeOK
    <2>6. QED
      BY <2>1, <2>2, <2>3, <2>4, <2>5 DEF StreamLine, decodeStatus, Record, decodeVertex,
         BuildEnds, Finish, CloseChannel, CloseReturns
  <1>4. QED
    BY <1>1, <1>2, <1>3 DEF Quiet, Stamped

LEMMA EmitStampStamps ==
    ASSUME TypeOK, NEW o \in Op, EmitStamp(o)
    PROVE  Stamps(o, "main")
  <1> DEFINE e == [op |-> o, seq |-> counter + 1, build |-> 0, n |-> emits[o] + 1]
  <1>1. /\ counter' = counter + 1 /\ mainEv' = [mainEv EXCEPT ![o] = {e}]
        /\ UNCHANGED <<out, received, tr, trEv>>
    BY DEF EmitStamp, Stamp
  <1>2. e.seq = counter + 1
    OBVIOUS
  <1> HIDE DEF e
  <1>3. mainEv'[o] = {e} /\ \A q \in Op \ {o} : mainEv'[q] = mainEv[q]
    BY <1>1 DEF TypeOK
  <1>4. Accepted' = Accepted
    BY <1>1 DEF Accepted
  <1>5. QED
    BY <1>1, <1>2, <1>3, <1>4 DEF Stamps, Stamped, Goroutine

LEMMA translateStampStamps ==
    ASSUME TypeOK, NEW o \in Op, translateStamp(o)
    PROVE  Stamps(o, "translator")
  <1> DEFINE ev(e) == [op |-> o, seq |-> counter + 1, build |-> e.be.build,
                       be |-> e.be.ev, label |-> e.label]
             hand == {ev(e) : e \in trEv[o]}
  <1>1. /\ counter' = counter + 1 /\ trEv' = [trEv EXCEPT ![o] = hand]
        /\ tr' = [tr EXCEPT ![o] = "send"] /\ UNCHANGED <<out, received, mainEv>>
    BY DEF translateStamp, Stamp, TypeOK
  <1>2. \A e \in hand : e.seq = counter + 1
    OBVIOUS
  <1> HIDE DEF hand
  <1>3. /\ tr'[o] = "send" /\ trEv'[o] = hand
        /\ \A q \in Op \ {o} : tr'[q] = tr[q] /\ trEv'[q] = trEv[q]
    BY <1>1 DEF TypeOK
  <1>4. Accepted' = Accepted
    BY <1>1 DEF Accepted
  <1>5. QED
    BY <1>1, <1>2, <1>3, <1>4 DEF Stamps, Stamped, Goroutine

LEMMA EmitSendSends ==
    ASSUME TypeOK, NEW o \in Op, EmitSend(o)
    PROVE  \E e : Sends(o, "main", e)
  <1>1. PICK e \in mainEv[o] : Send(e)
    BY DEF EmitSend
  <1>2. e \in Event
    BY DEF TypeOK
  <1>3. Gains(e) /\ counter' = counter
    BY <1>1, <1>2, SendGains DEF Send
  <1>4. /\ mainEv'[o] = {} /\ (\A q \in Op \ {o} : mainEv'[q] = mainEv[q])
        /\ UNCHANGED <<tr, trEv>>
    BY DEF EmitSend, TypeOK
  <1>5. Sends(o, "main", e)
    BY <1>3, <1>4 DEF Sends, Stamped, Goroutine
  <1>6. QED
    BY <1>5

LEMMA translateSendSends ==
    ASSUME TypeOK, NEW o \in Op, translateSend(o)
    PROVE  \E e : Sends(o, "translator", e)
  <1>1. PICK e \in trEv[o] : Send(e)
    BY DEF translateSend
  <1>2. /\ tr[o] = "send" /\ tr'[o] = "range" /\ UNCHANGED mainEv
        /\ \A q \in Op \ {o} : tr'[q] = tr[q] /\ trEv'[q] = trEv[q]
    BY DEF translateSend, TypeOK
  <1>3. e \in Stamped(o, "translator")
    BY <1>2 DEF Stamped
  <1>4. e \in Event
    BY <1>3, StampedType DEF Goroutine
  <1>5. Gains(e) /\ counter' = counter
    BY <1>1, <1>4, SendGains DEF Send
  <1>6. Sends(o, "translator", e)
    BY <1>2, <1>3, <1>5 DEF Sends, Stamped, Goroutine
  <1>7. QED
    BY <1>6

LEMMA CallerQuiet ==
    ASSUME TypeOK, Receive \/ CallerCloses \/ UNCHANGED vars
    PROVE  Quiet
  <1>1. UNCHANGED <<counter, mainEv, tr, trEv>>
    BY DEF Receive, CallerCloses, vars, outVars
  <1>2. Accepted' = Accepted
    <2>1. CASE Receive
      BY <2>1, ReceiveKeepsLog
    <2>2. CASE ~Receive
      BY <2>2 DEF CallerCloses, Accepted, vars, outVars
    <2>3. QED
      BY <2>1, <2>2
  <1>3. QED
    BY <1>1, <1>2 DEF Quiet, Stamped

LEMMA NumberInvStep == BusInv /\ NumberInv /\ [Next]_vars => NumberInv'
  <1> SUFFICES ASSUME BusInv, NumberInv, [Next]_vars PROVE NumberInv'
    OBVIOUS
  <1> TypeOK
    BY DEF BusInv
  <1>1. ASSUME NEW o \in Op, EmitStamp(o) \/ translateStamp(o) PROVE NumberInv'
    BY <1>1, EmitStampStamps, translateStampStamps, StampNumbers DEF Goroutine
  <1>2. ASSUME NEW o \in Op, EmitSend(o) \/ translateSend(o) PROVE NumberInv'
    BY <1>2, EmitSendSends, translateSendSends, SendNumbers DEF Goroutine
  <1>3. ASSUME NEW o \in Op, Main(o) \/ translateLoop(o) PROVE NumberInv'
    BY <1>1, <1>2, <1>3, QuietSteps, QuietNumbers DEF Main, translateLoop
  <1>4. QED
    BY <1>3, CallerQuiet, QuietNumbers DEF Next

-----------------------------------------------------------------------------
(***************************************************************************)
(* The way of a build event: the build channel, the translator, the log.   *)
(* Earlier(o, x, y): of the build events of o, x is ahead of y on it.      *)
(***************************************************************************)
Item(e) == [build |-> e.build, ev |-> e.be]

InLog(o) == {i \in DOMAIN Accepted : Accepted[i].op = o /\ Accepted[i].build # 0}

Translating(o) ==
    IF tr[o] = "send" THEN {Item(e) : e \in trEv[o]} ELSE {e.be : e \in trEv[o]}

Logged(o, x)  == \E i \in InLog(o) : x = Item(Accepted[i])
Waiting(o, x) == \E j \in DOMAIN buildCh[o] : x = buildCh[o][j]

OnItsWay(o, x) == Logged(o, x) \/ x \in Translating(o) \/ Waiting(o, x)

LoggedEarlier(o, x, y) ==
    \E i, j \in InLog(o) : i < j /\ x = Item(Accepted[i]) /\ y = Item(Accepted[j])

WaitingEarlier(o, x, y) ==
    \E i, j \in DOMAIN buildCh[o] : i < j /\ x = buildCh[o][i] /\ y = buildCh[o][j]

Earlier(o, x, y) ==
    \/ LoggedEarlier(o, x, y) \/ WaitingEarlier(o, x, y)
    \/ Logged(o, x) /\ (y \in Translating(o) \/ Waiting(o, y))
    \/ x \in Translating(o) /\ Waiting(o, y)

(***************************************************************************)
(* What may come later than x: nothing of an earlier build, and of a       *)
(* vertex of the same build only its end, after its start.                 *)
(***************************************************************************)
Follows(x, y) ==
    /\ x.build <= y.build
    /\ (/\ x.build = y.build /\ {x.ev.kind, y.ev.kind} \subseteq {"start", "done"}
        /\ x.ev.vertex = y.ev.vertex)
       => x.ev.kind = "start" /\ y.ev.kind = "done"

(* The decoder of the present build remembers what it has written.         *)
Written(o, x) ==
    /\ x.build <= builds[o]
    /\ x.build = builds[o] =>
         /\ x.ev.kind = "start" => x.ev.vertex \in vertexes[o].start
         /\ x.ev.kind = "done" => x.ev.vertex \in vertexes[o].done

OrderInv(o) ==
    /\ \A x, y : Earlier(o, x, y) => Follows(x, y)
    /\ \A x : OnItsWay(o, x) => Written(o, x)
    /\ pc[o] = "build" => vertexes[o].done \subseteq vertexes[o].start

LEMMA OnItsWayType ==
    ASSUME TypeOK, NEW o \in Op, NEW x, OnItsWay(o, x)
    PROVE  x \in Queued
  <1>1. CASE Logged(o, x)
    <2>1. PICK i \in InLog(o) : x = Item(Accepted[i])
      BY <1>1 DEF Logged
    <2>2. Accepted[i] \in Event /\ Accepted[i].build # 0
      BY LogType DEF InLog
    <2>3. QED
      BY <2>1, <2>2, EventTypes DEF Item, Queued
  <1>2. CASE x \in Translating(o)
    <2>1. trEv[o] \subseteq InHand(o) /\ trEv[o] # {}
      BY <1>2 DEF TypeOK, Translating
    <2>2. tr[o] \in {"label", "stamp", "send"}
      BY <2>1 DEF InHand
    <2>3. CASE tr[o] = "label"
      <3>1. trEv[o] \subseteq [be : Queued]
        BY <2>1, <2>3 DEF InHand
      <3>2. QED
        BY <1>2, <2>3, <3>1 DEF Translating
    <2>4. CASE tr[o] = "stamp"
      <3>1. trEv[o] \subseteq [be : Queued, label : Label]
        BY <2>1, <2>4 DEF InHand
      <3>2. QED
        BY <1>2, <2>4, <3>1 DEF Translating
    <2>5. CASE tr[o] = "send"
      <3>1. trEv[o] \subseteq {e \in Event : e.op = o /\ e.build # 0}
        BY <2>1, <2>5 DEF InHand
      <3>2. PICK e \in trEv[o] : x = Item(e)
        BY <1>2, <2>5 DEF Translating
      <3>3. QED
        BY <3>1, <3>2, EventTypes DEF Item, Queued
    <2>6. QED
      BY <2>2, <2>3, <2>4, <2>5
  <1>3. CASE Waiting(o, x)
    <2>1. buildCh[o] \in Seq(Queued)
      BY DEF TypeOK
    <2>2. PICK j \in DOMAIN buildCh[o] : x = buildCh[o][j]
      BY <1>3 DEF Waiting
    <2>3. QED
      BY <2>1, <2>2, ElementOfSeq, LenProperties
  <1>4. QED
    BY <1>1, <1>2, <1>3 DEF OnItsWay

(***************************************************************************)
(* The three things a step can do to the build events of o: move some of   *)
(* them along, or lose them, without changing their order; write one more  *)
(* of the present build, that its decoder had not seen; begin a build.     *)
(***************************************************************************)
Moves(o) ==
    /\ \A x, y : Earlier(o, x, y)' => Earlier(o, x, y)
    /\ \A x : OnItsWay(o, x)' => OnItsWay(o, x)
    /\ builds'[o] = builds[o] /\ vertexes'[o] = vertexes[o]
    /\ pc'[o] = "build" => pc[o] = "build"

Writes(o, ev) ==
    /\ \A x, y : Earlier(o, x, y)' =>
         \/ Earlier(o, x, y)
         \/ OnItsWay(o, x) /\ y = [build |-> builds[o], ev |-> ev]
    /\ \A x : OnItsWay(o, x)' => OnItsWay(o, x) \/ x = [build |-> builds[o], ev |-> ev]
    /\ builds'[o] = builds[o] /\ pc[o] = "build"
    /\ vertexes'[o].start =
         vertexes[o].start \cup (IF ev.kind = "start" THEN {ev.vertex} ELSE {})
    /\ vertexes'[o].done =
         vertexes[o].done \cup (IF ev.kind = "done" THEN {ev.vertex} ELSE {})
    /\ ev.kind = "start" => ev.vertex \notin vertexes[o].start
    /\ ev.kind = "done" => ev.vertex \in vertexes[o].start \ vertexes[o].done

Begins(o) ==
    /\ \A x, y : Earlier(o, x, y)' => Earlier(o, x, y)
    /\ \A x : OnItsWay(o, x)' => OnItsWay(o, x)
    /\ builds'[o] = builds[o] + 1 /\ vertexes'[o] = NoneSeen

LEMMA MovesOrder ==
    ASSUME NEW o \in Op, OrderInv(o), Moves(o)
    PROVE  OrderInv(o)'
  <1>1. \A x : Written(o, x)' <=> Written(o, x)
    BY DEF Moves, Written
  <1>2. QED
    BY <1>1 DEF OrderInv, Moves

LEMMA BeginsOrder ==
    ASSUME TypeOK, NEW o \in Op, OrderInv(o), Begins(o)
    PROVE  OrderInv(o)'
  <1>1. \A x : OnItsWay(o, x) => Written(o, x)'
    <2> SUFFICES ASSUME NEW x, OnItsWay(o, x) PROVE Written(o, x)'
      OBVIOUS
    <2>1. x \in Queued
      BY OnItsWayType
    <2>2. x.build \in Nat /\ x.build <= builds[o] /\ builds[o] \in Nat
      BY <2>1 DEF OrderInv, Written, Queued, TypeOK
    <2>3. QED
      BY <2>2 DEF Begins, Written
  <1>2. QED
    BY <1>1 DEF OrderInv, Begins, NoneSeen

LEMMA WritesOrder ==
    ASSUME TypeOK, NEW o \in Op, OrderInv(o), NEW ev \in BuildEvent, Writes(o, ev)
    PROVE  OrderInv(o)'
  <1> DEFINE y == [build |-> builds[o], ev |-> ev]
  <1>1. /\ y.build = builds[o] /\ y.ev = ev /\ builds[o] \in Nat
        /\ vertexes[o].done \subseteq vertexes[o].start
    BY DEF TypeOK, OrderInv, Writes
  <1> HIDE DEF y
  <1>2. ASSUME NEW x, OnItsWay(o, x) PROVE Follows(x, y) /\ Written(o, x)'
    <2>1. x.build \in Nat /\ Written(o, x)
      BY <1>2, OnItsWayType DEF OrderInv, Queued
    <2>2. Follows(x, y)
      BY <1>1, <2>1 DEF Follows, Written, Writes
    <2>3. Written(o, x)'
      BY <2>1 DEF Written, Writes
    <2>4. QED
      BY <2>2, <2>3
  <1>3. ASSUME NEW x, x = y PROVE Written(o, x)'
    BY <1>1, <1>3 DEF Written, Writes
  <1>4. (vertexes[o].done \subseteq vertexes[o].start)'
    BY <1>1 DEF Writes
  <1>5. \A x, z : Earlier(o, x, z)' => Follows(x, z)
    BY <1>2 DEF Writes, OrderInv, y
  <1>6. \A x : OnItsWay(o, x)' => Written(o, x)'
    BY <1>2, <1>3 DEF Writes, OrderInv, y
  <1>7. QED
    BY <1>4, <1>5, <1>6 DEF OrderInv, Follows

(* The log has got no build event of o.                                    *)
LogKept(o) == \A i \in InLog(o)' : i \in InLog(o) /\ Accepted'[i] = Accepted[i]

LEMMA GainsKept ==
    ASSUME NEW o \in Op,
           Accepted' = Accepted \/ \E e : Gains(e) /\ (e.op # o \/ e.build = 0)
    PROVE  LogKept(o)
  BY DEF LogKept, InLog, Gains

LEMMA LogKeptItems ==
    ASSUME NEW o \in Op, LogKept(o)
    PROVE  /\ \A x : Logged(o, x)' => Logged(o, x)
           /\ \A x, y : LoggedEarlier(o, x, y)' => LoggedEarlier(o, x, y)
  <1>1. \A i \in InLog(o)' : i \in InLog(o) /\ Item(Accepted[i])' = Item(Accepted[i])
    BY DEF LogKept, Item
  <1>2. \A x : Logged(o, x)' => Logged(o, x)
    BY <1>1 DEF Logged
  <1>3. \A x, y : LoggedEarlier(o, x, y)' => LoggedEarlier(o, x, y)
    BY <1>1 DEF LoggedEarlier
  <1>4. QED
    BY <1>2, <1>3

LEMMA ChannelKeptItems ==
    ASSUME NEW o \in Op, buildCh'[o] = buildCh[o]
    PROVE  /\ \A x : Waiting(o, x)' => Waiting(o, x)
           /\ \A x, y : WaitingEarlier(o, x, y)' => WaitingEarlier(o, x, y)
  BY DEF Waiting, WaitingEarlier

LEMMA KeptOrder ==
    ASSUME NEW o \in Op, LogKept(o), buildCh'[o] = buildCh[o],
           Translating(o)' \subseteq Translating(o)
    PROVE  /\ \A x, y : Earlier(o, x, y)' => Earlier(o, x, y)
           /\ \A x : OnItsWay(o, x)' => OnItsWay(o, x)
  BY LogKeptItems, ChannelKeptItems DEF Earlier, OnItsWay

(* Appending to the build channel.                                         *)
LEMMA AppendedItems ==
    ASSUME TypeOK, NEW o \in Op, NEW z,
           buildCh'[o] = buildCh[o] \/ buildCh'[o] = Append(buildCh[o], z)
    PROVE  /\ \A x : Waiting(o, x)' => Waiting(o, x) \/ x = z
           /\ \A x, y : WaitingEarlier(o, x, y)' =>
                WaitingEarlier(o, x, y) \/ (Waiting(o, x) /\ y = z)
  <1>1. CASE buildCh'[o] = buildCh[o]
    BY <1>1, ChannelKeptItems
  <1>2. CASE buildCh'[o] = Append(buildCh[o], z)
    <2> DEFINE c == buildCh[o]
               n == Len(c)
    <2>1. c \in Seq(Queued) /\ n \in Nat /\ DOMAIN c = 1..n
      BY LenProperties DEF TypeOK
    <2>2. c \in Seq(Queued \cup {z})
      BY <2>1
    <2>3. /\ Len(Append(c, z)) = n + 1 /\ Append(c, z) \in Seq(Queued \cup {z})
          /\ \A i \in 1..n : Append(c, z)[i] = c[i]
          /\ Append(c, z)[n + 1] = z
      BY <2>2, AppendProperties
    <2>4. DOMAIN Append(c, z) = 1..(n + 1)
      BY <2>3, LenProperties
    <2> DEFINE d == buildCh'[o]
    <2>5. DOMAIN d = 1..(n + 1) /\ d[n + 1] = z /\ \A i \in 1..n : d[i] = c[i]
      BY <1>2, <2>3, <2>4
    <2> HIDE DEF c, d, n
    <2>6. \A i \in DOMAIN d : (i \in DOMAIN c /\ d[i] = c[i]) \/ (i = n + 1 /\ d[i] = z)
      BY <2>1, <2>5
    <2>7. \A i, j \in DOMAIN d : i < j => i \in DOMAIN c /\ d[i] = c[i]
      BY <2>1, <2>5
    <2>8. \A x : Waiting(o, x)' => Waiting(o, x) \/ x = z
      BY <2>6 DEF Waiting, c, d
    <2>9. \A x, y : WaitingEarlier(o, x, y)' =>
            WaitingEarlier(o, x, y) \/ (Waiting(o, x) /\ y = z)
      BY <2>6, <2>7 DEF WaitingEarlier, Waiting, c, d
    <2>10. QED
      BY <2>8, <2>9
  <1>3. QED
    BY <1>1, <1>2

LEMMA AppendedOrder ==
    ASSUME TypeOK, NEW o \in Op, NEW z, LogKept(o), Translating(o)' \subseteq Translating(o),
           buildCh'[o] = buildCh[o] \/ buildCh'[o] = Append(buildCh[o], z)
    PROVE  /\ \A x, y : Earlier(o, x, y)' => Earlier(o, x, y) \/ (OnItsWay(o, x) /\ y = z)
           /\ \A x : OnItsWay(o, x)' => OnItsWay(o, x) \/ x = z
  BY LogKeptItems, AppendedItems DEF Earlier, OnItsWay

(* Taking from it.                                                         *)
LEMMA TakenOrder ==
    ASSUME TypeOK, NEW o \in Op, translateReceive(o)
    PROVE  /\ \A x, y : Earlier(o, x, y)' => Earlier(o, x, y)
           /\ \A x : OnItsWay(o, x)' => OnItsWay(o, x)
  <1> DEFINE c == buildCh[o]
             d == buildCh'[o]
             n == Len(c)
  <1>1. c \in Seq(Queued) /\ n \in Nat /\ DOMAIN c = 1..n /\ c # <<>>
    BY LenProperties DEF TypeOK, translateReceive
  <1>2. /\ Head(c) = c[1] /\ Tail(c) \in Seq(Queued) /\ Len(Tail(c)) = n - 1
        /\ \A i \in 1..Len(Tail(c)) : Tail(c)[i] = c[i + 1]
    BY <1>1, HeadTailProperties
  <1>3. n > 0
    BY <1>1, EmptySeq
  <1>4. d = Tail(c) /\ trEv'[o] = {[be |-> Head(c)]} /\ tr'[o] = "label" /\ UNCHANGED outVars
    BY DEF translateReceive, TypeOK
  <1>5. DOMAIN d = 1..(n - 1) /\ \A i \in 1..(n - 1) : d[i] = c[i + 1]
    BY <1>2, <1>4, LenProperties
  <1>6. Translating(o)' = {c[1]}
    BY <1>2, <1>4 DEF Translating
  <1>7. LogKept(o)
    BY <1>4, GainsKept DEF outVars, Accepted
  <1> HIDE DEF c, d, n
  <1>8. \A i \in DOMAIN d : i + 1 \in DOMAIN c /\ d[i] = c[i + 1] /\ 1 < i + 1 /\ 1 \in DOMAIN c
    BY <1>1, <1>3, <1>5
  <1>9. \A i, j \in DOMAIN d : i < j => i + 1 < j + 1
    BY <1>1, <1>5
  <1>10. 1 \in DOMAIN c
    BY <1>1, <1>3
  <1>11. \A x : Waiting(o, x)' => Waiting(o, x) /\ WaitingEarlier(o, c[1], x)
    BY <1>8 DEF Waiting, WaitingEarlier, c, d
  <1>12. \A x, y : WaitingEarlier(o, x, y)' => WaitingEarlier(o, x, y)
    BY <1>8, <1>9 DEF WaitingEarlier, c, d
  <1>13. Waiting(o, c[1])
    BY <1>10 DEF Waiting, c
  <1>14. QED
    BY <1>6, <1>7, <1>11, <1>12, <1>13, LogKeptItems DEF Earlier, OnItsWay

(* Sending to the log.                                                     *)
LEMMA SentOrder ==
    ASSUME TypeOK, NEW o \in Op, NEW e \in trEv[o], tr[o] = "send", Gains(e),
           Translating(o)' = {}, buildCh'[o] = buildCh[o]
    PROVE  /\ \A x, y : Earlier(o, x, y)' => Earlier(o, x, y)
           /\ \A x : OnItsWay(o, x)' => OnItsWay(o, x)
  <1>1. Item(e) \in Translating(o)
    BY DEF Translating
  <1>2. DOMAIN Accepted = 1..Len(Accepted) /\ Len(Accepted) \in Nat
    BY LogType
  <1>3. \A i \in InLog(o)' :
           \/ i \in InLog(o) /\ Item(Accepted[i])' = Item(Accepted[i])
           \/ i = Len(Accepted) + 1 /\ Item(Accepted[i])' = Item(e)
    BY DEF Gains, InLog, Item
  <1>4. \A i, j \in InLog(o)' :
           i < j => i \in InLog(o) /\ Item(Accepted[i])' = Item(Accepted[i])
    <2> SUFFICES ASSUME NEW i \in InLog(o)', NEW j \in InLog(o)', i < j,
                        i = Len(Accepted) + 1
                 PROVE  FALSE
      BY <1>3
    <2>1. j \in 1..Len(Accepted) \/ j = Len(Accepted) + 1
      BY <1>2, <1>3 DEF InLog
    <2>2. QED
      BY <1>2, <2>1
  <1>5. \A x : Logged(o, x)' => Logged(o, x) \/ x = Item(e)
    BY <1>3 DEF Logged
  <1>6. \A x, y : LoggedEarlier(o, x, y)' =>
          LoggedEarlier(o, x, y) \/ (Logged(o, x) /\ y = Item(e))
    BY <1>3, <1>4 DEF LoggedEarlier, Logged
  <1>7. QED
    BY <1>1, <1>5, <1>6, ChannelKeptItems DEF Earlier, OnItsWay

(* Whatever leaves the build events of o where they are.                   *)
LEMMA StaysMoves ==
    ASSUME NEW o \in Op, LogKept(o), buildCh'[o] = buildCh[o],
           Translating(o)' \subseteq Translating(o),
           builds'[o] = builds[o], vertexes'[o] = vertexes[o],
           pc'[o] = "build" => pc[o] = "build"
    PROVE  Moves(o)
  BY KeptOrder DEF Moves

(* A step of one operation leaves those of the others where they are.      *)
LEMMA OthersStay ==
    ASSUME TypeOK, NEW o \in Op, Main(o) \/ translateLoop(o), NEW q \in Op \ {o}
    PROVE  Moves(q)
  <1>1. /\ tr'[q] = tr[q] /\ trEv'[q] = trEv[q] /\ buildCh'[q] = buildCh[q]
        /\ builds'[q] = builds[q] /\ vertexes'[q] = vertexes[q] /\ pc'[q] = pc[q]
    <2>1. CASE \/ BuildChan(o) \/ StreamLine(o)
               \/ (\E status \in Status : decodeStatus(o, status))
               \/ (\E ok \in BOOLEAN : BuildEnds(o, ok))
      BY <2>1 DEF BuildChan, StreamLine, decodeStatus, Record, BuildEnds, emitBuildEvent,
                  streamVars, TypeOK
    <2>2. CASE decodeVertex(o)
      <3>1. UNCHANGED <<builds, pc, tr, trEv>>
        BY <2>2, decodeVertexCases
      <3>2. \/ \E v \in Vertex, k \in {"start", "done"} : Reports(o, v, k)
            \/ UNCHANGED <<buildCh, vertexes>>
        BY <2>2, decodeVertexCases
      <3>3. buildCh'[q] = buildCh[q] /\ vertexes'[q] = vertexes[q]
        BY <3>2 DEF Reports, emitBuildEvent, TypeOK
      <3>4. QED
        BY <3>1, <3>3
    <2>3. CASE \/ EmitStamp(o) \/ EmitSend(o) \/ Finish(o) \/ CloseChannel(o)
               \/ CloseReturns(o)
      BY <2>3 DEF EmitStamp, EmitSend, Finish, CloseChannel, CloseReturns, busVars,
                  streamVars, TypeOK
    <2>4. CASE translateLoop(o)
      BY <2>4 DEF translateLoop, translateReceive, translateLabel, translateStamp,
                  translateSend, translateEnd, busVars, streamVars, TypeOK
    <2>5. QED
      BY <2>1, <2>2, <2>3, <2>4 DEF Main
  <1>2. Translating(q)' = Translating(q)
    BY <1>1 DEF Translating, Item
  <1>3. LogKept(q)
    <2>1. CASE EmitSend(o) \/ translateSend(o)
      <3>1. PICK w \in Goroutine : \E e : Sends(o, w, e)
        BY <2>1, EmitSendSends, translateSendSends DEF Goroutine
      <3>2. PICK e : Sends(o, w, e)
        BY <3>1
      <3>3. Gains(e) /\ e.op = o
        BY <3>2, StampedType DEF Sends
      <3>4. QED
        BY <3>3, GainsKept
    <2>2. CASE ~(EmitSend(o) \/ translateSend(o))
      <3>1. Accepted' = Accepted
        BY <2>2, QuietSteps, EmitStampStamps, translateStampStamps
           DEF Main, translateLoop, Quiet, Stamps
      <3>2. QED
        BY <3>1, GainsKept
    <2>3. QED
      BY <2>1, <2>2
  <1>4. QED
    BY <1>1, <1>2, <1>3, StaysMoves

(* What it does to its own.                                                *)
LEMMA OwnStay ==
    ASSUME TypeOK, NEW o \in Op,
           \/ EmitStamp(o) \/ EmitSend(o) \/ (\E status \in Status : decodeStatus(o, status))
           \/ Finish(o) \/ CloseChannel(o) \/ CloseReturns(o)
    PROVE  Moves(o)
  <1>1. UNCHANGED <<tr, trEv, buildCh, builds, vertexes>> /\ (pc'[o] = "build" => pc[o] = "build")
    BY DEF EmitStamp, EmitSend, decodeStatus, Record, Finish, CloseChannel, CloseReturns,
           busVars, streamVars, TypeOK
  <1>2. Translating(o)' = Translating(o)
    BY <1>1 DEF Translating, Item
  <1>3. LogKept(o)
    <2>1. CASE EmitSend(o)
      <3>1. PICK e : Sends(o, "main", e)
        BY <2>1, EmitSendSends
      <3>2. Gains(e) /\ e.build = 0
        BY <3>1, StampedType DEF Sends, Goroutine
      <3>3. QED
        BY <3>2, GainsKept
    <2>2. CASE ~EmitSend(o)
      BY <2>2, QuietSteps, EmitStampStamps, GainsKept DEF Quiet, Stamps
    <2>3. QED
      BY <2>1, <2>2
  <1>4. QED
    BY <1>1, <1>2, <1>3, StaysMoves

LEMMA BuildChanBegins ==
    ASSUME TypeOK, NEW o \in Op, BuildChan(o)
    PROVE  Begins(o)
  <1>1. /\ builds'[o] = builds[o] + 1 /\ vertexes'[o] = NoneSeen
        /\ UNCHANGED <<outVars, buildCh, trEv>>
        /\ tr'[o] = "send" <=> tr[o] = "send"
    BY DEF BuildChan, TypeOK
  <1>2. Translating(o)' = Translating(o)
    BY <1>1 DEF Translating, Item
  <1>3. LogKept(o)
    BY <1>1, GainsKept DEF outVars, Accepted
  <1>4. QED
    BY <1>1, <1>2, <1>3, KeptOrder DEF Begins

(* A line, a completion, a vertex's start or end.                          *)
LEMMA EmitWrites ==
    ASSUME BusInv, NEW o \in Op, pc[o] = "build", NEW ev \in BuildEvent,
           emitBuildEvent(o, ev), UNCHANGED <<outVars, builds, tr, trEv>>,
           vertexes'[o].start =
             vertexes[o].start \cup (IF ev.kind = "start" THEN {ev.vertex} ELSE {}),
           vertexes'[o].done =
             vertexes[o].done \cup (IF ev.kind = "done" THEN {ev.vertex} ELSE {}),
           ev.kind = "start" => ev.vertex \notin vertexes[o].start,
           ev.kind = "done" => ev.vertex \in vertexes[o].start \ vertexes[o].done
    PROVE  Writes(o, ev)
  <1> DEFINE z == [build |-> builds[o], ev |-> ev]
  <1>1. TypeOK
    BY DEF BusInv
  <1>2. buildCh'[o] = buildCh[o] \/ buildCh'[o] = Append(buildCh[o], z)
    BY <1>1, BuildHasTranslator, EmitType
  <1>3. Translating(o)' = Translating(o) /\ LogKept(o)
    BY GainsKept DEF Translating, Item, outVars, Accepted
  <1> HIDE DEF z
  <1>4. /\ \A x, y : Earlier(o, x, y)' => Earlier(o, x, y) \/ (OnItsWay(o, x) /\ y = z)
        /\ \A x : OnItsWay(o, x)' => OnItsWay(o, x) \/ x = z
    BY <1>1, <1>2, <1>3, AppendedOrder
  <1>5. QED
    BY <1>4 DEF Writes, z

LEMMA StreamWrites ==
    ASSUME BusInv, NEW o \in Op,
           StreamLine(o) \/ decodeVertex(o) \/ (\E ok \in BOOLEAN : BuildEnds(o, ok))
    PROVE  Moves(o) \/ \E ev \in BuildEvent : Writes(o, ev)
  <1> TypeOK
    BY DEF BusInv
  <1>1. CASE StreamLine(o)
    <2>1. PICK kind \in {"log", "completed"} : emitBuildEvent(o, [kind |-> kind])
      BY <1>1 DEF StreamLine
    <2> DEFINE ev == [kind |-> kind]
    <2>2. /\ ev \in BuildEvent /\ ev.kind = kind /\ emitBuildEvent(o, ev)
          /\ pc[o] = "build" /\ UNCHANGED <<outVars, builds, tr, trEv, vertexes>>
      BY <1>1, <2>1, BuildEventTypes DEF StreamLine, Record
    <2> HIDE DEF ev
    <2>3. QED
      BY <2>1, <2>2, EmitWrites
  <1>2. CASE \E ok \in BOOLEAN : BuildEnds(o, ok)
    <2>1. PICK ok \in BOOLEAN : BuildEnds(o, ok)
      BY <1>2
    <2>2. pc[o] = "build" /\ UNCHANGED <<outVars, builds, tr, trEv, vertexes>>
      BY <2>1 DEF BuildEnds, streamVars
    <2>3. CASE ok
      <3> DEFINE ev == [kind |-> "completed"]
      <3>1. ev \in BuildEvent /\ ev.kind = "completed" /\ emitBuildEvent(o, ev)
        BY <2>1, <2>3, BuildEventTypes DEF BuildEnds
      <3> HIDE DEF ev
      <3>2. QED
        BY <2>2, <3>1, EmitWrites
    <2>4. CASE ~ok
      <3>1. buildCh' = buildCh
        BY <2>1, <2>4 DEF BuildEnds
      <3>2. Translating(o)' = Translating(o) /\ LogKept(o)
        BY <2>2, GainsKept DEF Translating, Item, outVars, Accepted
      <3>3. QED
        BY <2>2, <3>1, <3>2, StaysMoves
    <2>5. QED
      BY <2>3, <2>4
  <1>3. CASE decodeVertex(o)
    <2>1. pc[o] = "build" /\ UNCHANGED <<outVars, builds, pc, tr, trEv>>
      BY <1>3, decodeVertexCases
    <2>2. ASSUME NEW v \in Vertex, NEW k \in {"start", "done"}, Reports(o, v, k)
          PROVE  \E ev \in BuildEvent : Writes(o, ev)
      <3> DEFINE ev == [kind |-> k, vertex |-> v]
      <3>1. /\ ev \in BuildEvent /\ ev.kind = k /\ ev.vertex = v
            /\ emitBuildEvent(o, ev)
        BY <2>2, BuildEventTypes DEF Reports
      <3>2. \/ /\ k = "start" /\ v \notin vertexes[o].start
               /\ vertexes'[o].start = vertexes[o].start \cup {v}
               /\ vertexes'[o].done = vertexes[o].done
            \/ /\ k = "done" /\ v \notin vertexes[o].done /\ v \in vertexes[o].start
               /\ vertexes'[o].start = vertexes[o].start
               /\ vertexes'[o].done = vertexes[o].done \cup {v}
        BY <2>2 DEF Reports, TypeOK
      <3> HIDE DEF ev
      <3>3. Writes(o, ev)
        BY <2>1, <3>1, <3>2, EmitWrites
      <3>4. QED
        BY <3>1, <3>3
    <2>3. CASE UNCHANGED <<buildCh, vertexes>>
      <3>1. Translating(o)' = Translating(o) /\ LogKept(o)
        BY <2>1, GainsKept DEF Translating, Item, outVars, Accepted
      <3>2. QED
        BY <2>1, <2>3, <3>1, StaysMoves
    <2>4. QED
      BY <1>3, <2>2, <2>3, decodeVertexCases
  <1>4. QED
    BY <1>1, <1>2, <1>3

LEMMA translateMoves ==
    ASSUME TypeOK, NEW o \in Op, translateLoop(o)
    PROVE  Moves(o)
  <1>1. UNCHANGED <<builds, vertexes, pc>>
    BY DEF translateLoop, translateReceive, translateLabel, translateStamp, translateSend,
           translateEnd, busVars, streamVars
  <1>2. CASE translateReceive(o)
    BY <1>1, <1>2, TakenOrder DEF Moves
  <1>3. CASE translateLabel(o)
    <2> DEFINE l == [source |-> buildSrc[o], start |-> builds[o]]
               hand == {[be |-> e.be, label |-> l] : e \in trEv[o]}
    <2>1. /\ tr[o] = "label" /\ tr'[o] = "stamp" /\ UNCHANGED <<outVars, buildCh>>
          /\ trEv'[o] = hand
      BY <1>3 DEF translateLabel, TypeOK, busVars
    <2>2. {e.be : e \in hand} \subseteq {e.be : e \in trEv[o]}
      OBVIOUS
    <2> HIDE DEF hand
    <2>3. Translating(o)' \subseteq Translating(o)
      BY <2>1, <2>2 DEF Translating
    <2>4. LogKept(o)
      BY <2>1, GainsKept DEF outVars, Accepted
    <2>5. QED
      BY <1>1, <2>1, <2>3, <2>4, StaysMoves
  <1>4. CASE translateStamp(o)
    <2> DEFINE ev(e) == [op |-> o, seq |-> counter + 1, build |-> e.be.build,
                         be |-> e.be.ev, label |-> e.label]
               hand == {ev(e) : e \in trEv[o]}
    <2>1. /\ tr[o] = "stamp" /\ tr'[o] = "send" /\ UNCHANGED <<out, received, buildCh>>
          /\ trEv'[o] = hand
      <3>1. trEv' = [trEv EXCEPT ![o] = hand]
        BY <1>4 DEF translateStamp
      <3>2. QED
        BY <1>4, <3>1 DEF translateStamp, TypeOK, busVars
    <2>2. \A e \in trEv[o] : e.be \in Queued
      <3>1. tr[o] = "stamp"
        BY <2>1
      <3>2. InHand(o) = [be : Queued, label : Label]
        BY <3>1 DEF InHand
      <3>3. trEv[o] \subseteq InHand(o)
        BY DEF TypeOK
      <3>4. \A e \in [be : Queued, label : Label] : e.be \in Queued
        OBVIOUS
      <3>5. QED
        BY <3>2, <3>3, <3>4
    <2>3. \A e \in trEv[o] : Item(ev(e)) = e.be
      <3>1. \A x \in Queued : x = [build |-> x.build, ev |-> x.ev]
        BY DEF Queued
      <3>2. \A e : Item(ev(e)) = [build |-> e.be.build, ev |-> e.be.ev]
        BY DEF Item
      <3>3. QED
        BY <2>2, <3>1, <3>2
    <2>4. {Item(e) : e \in hand} \subseteq {e.be : e \in trEv[o]}
      BY <2>3
    <2> HIDE DEF hand
    <2>5. Translating(o)' \subseteq Translating(o)
      BY <2>1, <2>4 DEF Translating
    <2>6. LogKept(o)
      BY <2>1, GainsKept DEF Accepted
    <2>7. QED
      BY <1>1, <2>1, <2>5, <2>6, StaysMoves
  <1>5. CASE translateSend(o)
    <2>1. PICK e : Sends(o, "translator", e)
      BY <1>5, translateSendSends
    <2>2. tr[o] = "send" /\ tr'[o] = "range" /\ trEv'[o] = {} /\ UNCHANGED buildCh
      BY <1>5 DEF translateSend, TypeOK, busVars
    <2>3. e \in trEv[o] /\ Gains(e)
      BY <2>1, <2>2 DEF Sends, Stamped
    <2>4. Translating(o)' = {}
      BY <2>2 DEF Translating
    <2>5. QED
      BY <1>1, <2>2, <2>3, <2>4, SentOrder DEF Moves
  <1>6. CASE translateEnd(o)
    <2>1. /\ tr[o] = "range" /\ tr'[o] = "done" /\ UNCHANGED <<outVars, buildCh, trEv>>
      BY <1>6 DEF translateEnd, TypeOK, busVars
    <2>2. Translating(o)' = Translating(o) /\ LogKept(o)
      BY <2>1, GainsKept DEF Translating, outVars, Accepted
    <2>3. QED
      BY <1>1, <2>1, <2>2, StaysMoves
  <1>7. QED
    BY <1>2, <1>3, <1>4, <1>5, <1>6 DEF translateLoop

LEMMA CallerStays ==
    ASSUME TypeOK, NEW o \in Op, Receive \/ CallerCloses \/ UNCHANGED vars
    PROVE  Moves(o)
  <1>1. UNCHANGED <<pc, tr, trEv, buildCh, builds, vertexes>>
    BY DEF Receive, CallerCloses, vars, busVars, streamVars
  <1>2. Translating(o)' = Translating(o) /\ LogKept(o)
    BY <1>1, CallerQuiet, GainsKept DEF Translating, Item, Quiet
  <1>3. QED
    BY <1>1, <1>2, StaysMoves

LEMMA OrderInvInit == Init => \A o \in Op : OrderInv(o)
  <1> SUFFICES ASSUME Init, NEW o \in Op PROVE OrderInv(o)
    OBVIOUS
  <1>1. trEv[o] = {} /\ buildCh[o] = <<>> /\ received = <<>> /\ out = <<>> /\ pc[o] = "run"
    BY DEF Init
  <1>2. Accepted = <<>> /\ DOMAIN Accepted = {} /\ DOMAIN buildCh[o] = {}
    BY <1>1 DEF Accepted
  <1>3. QED
    BY <1>1, <1>2 DEF OrderInv, Earlier, OnItsWay, Logged, Waiting, LoggedEarlier,
       WaitingEarlier, Translating, InLog

LEMMA OrderInvStep ==
    ASSUME BusInv, \A o \in Op : OrderInv(o), [Next]_vars
    PROVE  \A o \in Op : OrderInv(o)'
  <1> TypeOK
    BY DEF BusInv
  <1>1. ASSUME NEW o \in Op, Main(o) \/ translateLoop(o), NEW q \in Op PROVE OrderInv(q)'
    <2>1. CASE q # o
      BY <1>1, <2>1, OthersStay, MovesOrder
    <2>2. ASSUME Main(o) PROVE OrderInv(o)'
      BY <2>2, OwnStay, BuildChanBegins, StreamWrites, MovesOrder, BeginsOrder, WritesOrder
         DEF Main
    <2>3. QED
      BY <1>1, <2>1, <2>2, translateMoves, MovesOrder
  <1>2. QED
    BY <1>1, CallerStays, MovesOrder DEF Next

-----------------------------------------------------------------------------
(* Labels: read together, when the event's own build has begun. *)

LabelTrue(o, build, l) == l.start >= build /\ l.source = Builds[o][l.start]

LabelInv ==
    /\ LabelsAreCoherent
    /\ \A o \in Op : \A e \in trEv[o] :
         /\ tr[o] = "stamp" => LabelTrue(o, e.be.build, e.label)
         /\ tr[o] = "send" => LabelTrue(o, e.build, e.label)

LEMMA LabelsKept ==
    ASSUME LabelInv, Accepted' = Accepted,
           \A o \in Op : /\ tr'[o] \in {"stamp", "send"} => tr'[o] = tr[o]
                         /\ tr'[o] \in {"stamp", "send"} => trEv'[o] = trEv[o]
    PROVE  LabelInv'
  BY DEF LabelInv, LabelTrue, LabelsAreCoherent

LEMMA LabelsGain ==
    ASSUME LabelsAreCoherent, NEW e, Gains(e),
           e.build # 0 => LabelTrue(e.op, e.build, e.label)
    PROVE  LabelsAreCoherent'
  BY DEF LabelsAreCoherent, Gains, LabelTrue

LEMMA LabelInvStep ==
    ASSUME BusInv, \A o \in Op : OrderInv(o), LabelInv, [Next]_vars
    PROVE  LabelInv'
  <1> TypeOK
    BY DEF BusInv
  <1>1. ASSUME NEW o \in Op,
               \/ BuildChan(o) \/ StreamLine(o)
               \/ (\E status \in Status : decodeStatus(o, status))
               \/ decodeVertex(o) \/ (\E ok \in BOOLEAN : BuildEnds(o, ok))
               \/ Finish(o) \/ CloseChannel(o) \/ CloseReturns(o)
               \/ translateReceive(o) \/ translateEnd(o) \/ EmitStamp(o)
        PROVE  LabelInv'
    <2>1. Accepted' = Accepted
      BY <1>1, QuietSteps, EmitStampStamps DEF Quiet, Stamps
    <2>2. CASE UNCHANGED <<tr, trEv>>
      BY <2>1, <2>2, LabelsKept
    <2>3. CASE BuildChan(o) \/ translateReceive(o) \/ translateEnd(o)
      <3>1. \A q \in Op : tr'[q] \in {"stamp", "send"} => tr'[q] = tr[q] /\ trEv'[q] = trEv[q]
        BY <2>3 DEF BuildChan, translateReceive, translateEnd, TypeOK
      <3>2. QED
        BY <2>1, <3>1, LabelsKept
    <2>4. QED
      BY <1>1, <2>2, <2>3 DEF StreamLine, decodeStatus, Record, decodeVertex, BuildEnds,
         Finish, CloseChannel, CloseReturns, EmitStamp
  <1>2. ASSUME NEW o \in Op, EmitSend(o) PROVE LabelInv'
    <2>1. PICK e : Sends(o, "main", e)
      BY <1>2, EmitSendSends
    <2>2. Gains(e) /\ e.build = 0
      BY <2>1, StampedType DEF Sends, Goroutine
    <2>3. LabelsAreCoherent'
      BY <2>2, LabelsGain DEF LabelInv
    <2>4. UNCHANGED <<tr, trEv>>
      BY <1>2 DEF EmitSend
    <2>5. QED
      BY <2>3, <2>4 DEF LabelInv, LabelTrue
  <1>3. ASSUME NEW o \in Op, translateLabel(o) PROVE LabelInv'
    <2> DEFINE l == [source |-> buildSrc[o], start |-> builds[o]]
    <2>1. /\ tr[o] = "label" /\ tr' = [tr EXCEPT ![o] = "stamp"] /\ UNCHANGED outVars
          /\ trEv' = [trEv EXCEPT ![o] = {[be |-> e.be, label |-> l] : e \in trEv[o]}]
      BY <1>3 DEF translateLabel, TypeOK
    <2>2. l.start = builds[o] /\ l.source = Builds[o][builds[o]]
      BY <2>1 DEF BusInv, FlowInv
    <2>3. \A e \in trEv[o] : e.be.build <= builds[o] /\ e.be.build \in Nat
      <3> SUFFICES ASSUME NEW e \in trEv[o] PROVE e.be.build <= builds[o] /\ e.be.build \in Nat
        OBVIOUS
      <3>1. tr[o] = "label"
        BY <2>1
      <3>2. OnItsWay(o, e.be)
        BY <3>1 DEF OnItsWay, Translating
      <3>3. e.be \in Queued
        BY <3>2, OnItsWayType
      <3>4. QED
        BY <3>2, <3>3 DEF OrderInv, Written, Queued
    <2>4. builds[o] \in Nat
      BY DEF TypeOK
    <2> HIDE DEF l
    <2>5. \A e \in trEv'[o] : \E f \in trEv[o] : e = [be |-> f.be, label |-> l]
      BY <2>1 DEF TypeOK
    <2>6. \A e \in trEv'[o] : LabelTrue(o, e.be.build, e.label)
      BY <2>2, <2>3, <2>4, <2>5 DEF LabelTrue
    <2>7. /\ tr'[o] = "stamp"
          /\ \A q \in Op \ {o} : tr'[q] = tr[q] /\ trEv'[q] = trEv[q]
      BY <2>1 DEF TypeOK
    <2>8. LabelsAreCoherent'
      BY <2>1 DEF LabelInv, LabelsAreCoherent, outVars, Accepted
    <2>9. QED
      BY <2>6, <2>7, <2>8 DEF LabelInv, LabelTrue
  <1>4. ASSUME NEW o \in Op, translateStamp(o) PROVE LabelInv'
    <2> DEFINE ev(e) == [op |-> o, seq |-> counter + 1, build |-> e.be.build,
                         be |-> e.be.ev, label |-> e.label]
    <2>1. /\ tr[o] = "stamp" /\ tr' = [tr EXCEPT ![o] = "send"] /\ UNCHANGED <<out, received>>
          /\ trEv' = [trEv EXCEPT ![o] = {ev(e) : e \in trEv[o]}]
      BY <1>4 DEF translateStamp
    <2>2. \A e \in trEv'[o] : \E f \in trEv[o] : e = ev(f)
      BY <2>1 DEF TypeOK
    <2>3. \A f : ev(f).build = f.be.build /\ ev(f).label = f.label
      OBVIOUS
    <2> HIDE DEF ev
    <2>4. tr[o] = "stamp"
      BY <2>1
    <2>5. \A f \in trEv[o] : LabelTrue(o, f.be.build, f.label)
      BY <2>4 DEF LabelInv
    <2>6. \A e \in trEv'[o] : LabelTrue(o, e.build, e.label)
      BY <2>2, <2>3, <2>5
    <2>7. /\ tr'[o] = "send"
          /\ \A q \in Op \ {o} : tr'[q] = tr[q] /\ trEv'[q] = trEv[q]
      BY <2>1 DEF TypeOK
    <2>8. LabelsAreCoherent'
      BY <2>1 DEF LabelInv, LabelsAreCoherent, Accepted
    <2>9. QED
      BY <2>6, <2>7, <2>8 DEF LabelInv, LabelTrue
  <1>5. ASSUME NEW o \in Op, translateSend(o) PROVE LabelInv'
    <2>1. PICK e : Sends(o, "translator", e)
      BY <1>5, translateSendSends
    <2>2. /\ tr[o] = "send" /\ tr'[o] = "range"
          /\ \A q \in Op \ {o} : tr'[q] = tr[q] /\ trEv'[q] = trEv[q]
      BY <1>5 DEF translateSend, TypeOK
    <2>3. e \in trEv[o] /\ Gains(e) /\ e.op = o
      BY <2>1, <2>2, StampedType DEF Sends, Stamped, Goroutine
    <2>4. LabelsAreCoherent'
      BY <2>2, <2>3, LabelsGain DEF LabelInv
    <2>5. QED
      BY <2>2, <2>4 DEF LabelInv, LabelTrue
  <1>6. CASE Receive \/ CallerCloses \/ UNCHANGED vars
    <2>1. UNCHANGED <<tr, trEv>>
      BY <1>6 DEF Receive, CallerCloses, vars
    <2>2. QED
      BY <1>6, <2>1, CallerQuiet, LabelsKept DEF Quiet
  <1>7. QED
    BY <1>1, <1>2, <1>3, <1>4, <1>5, <1>6 DEF Next, Main, translateLoop

-----------------------------------------------------------------------------
(* The invariant, and what follows from it. *)

EventInv ==
    /\ BusInv /\ NumberInv /\ LabelInv
    /\ \A o \in Op : OrderInv(o)

LEMMA EventInvInit == Init => EventInv
  <1> SUFFICES ASSUME Init PROVE EventInv
    OBVIOUS
  <1>1. Accepted = <<>> /\ DOMAIN Accepted = {}
    BY DEF Init, Accepted
  <1>2. \A o \in Op : mainEv[o] = {} /\ trEv[o] = {}
    BY DEF Init
  <1>3. NumberInv /\ LabelInv
    BY <1>1, <1>2 DEF NumberInv, Stamped, LabelInv, LabelsAreCoherent
  <1>4. QED
    BY <1>3, BusInvInit, OrderInvInit DEF EventInv

LEMMA EventInvStep == EventInv /\ [Next]_vars => EventInv'
  BY BusInvStep, NumberInvStep, OrderInvStep, LabelInvStep DEF EventInv

LEMMA InvTruth == EventInv => BuildEventsAreTrue
  <1> SUFFICES ASSUME EventInv, NEW i \in DOMAIN Accepted, NEW j \in DOMAIN Accepted, i < j,
                      Accepted[i].build # 0, Accepted[i].build = Accepted[j].build,
                      Accepted[i].op = Accepted[j].op,
                      {Accepted[i].be.kind, Accepted[j].be.kind} \subseteq {"start", "done"},
                      Accepted[i].be.vertex = Accepted[j].be.vertex
               PROVE  Accepted[i].be.kind = "start" /\ Accepted[j].be.kind = "done"
    BY DEF EventInv, LabelInv, BuildEventsAreTrue, TransitionsInOrder
  <1> DEFINE o == Accepted[i].op
             x == Item(Accepted[i])
             y == Item(Accepted[j])
  <1>1. o \in Op
    BY LogType, EventTypes DEF EventInv, BusInv
  <1>2. i \in InLog(o) /\ j \in InLog(o)
    BY DEF InLog
  <1>3. Follows(x, y)
    BY <1>1, <1>2 DEF EventInv, OrderInv, Earlier, LoggedEarlier
  <1>4. QED
    BY <1>3 DEF Follows, Item

(***************************************************************************)
(* translateBuildEvent and buildkit_trace.go: whatever is dropped and      *)
(* however late the translator is, each build event the caller gets is     *)
(* labelled with one build, its own or a later one, and a vertex of a      *)
(* build is reported begun and ended at most once each, in this order.     *)
(***************************************************************************)
THEOREM BuildEventsTrue == Spec => []BuildEventsAreTrue
  BY EventInvInit, EventInvStep, InvTruth, PTL DEF Spec

-----------------------------------------------------------------------------
(* The refinement of EventLog. *)

Returned == {o \in Op : pc[o] = "returned"}

(* The numbers are new, the highest of their goroutine, and no later build *)
(* of the operation is in the log.                                         *)
LEMMA SendDelivers ==
    ASSUME EventInv, NEW o \in Op, NEW w \in Goroutine, NEW e, Sends(o, w, e),
           pc[o] # "returned", UNCHANGED pc
    PROVE  Log!LogNext \/ UNCHANGED <<Accepted, Returned>>
  <1> TypeOK
    BY DEF EventInv, BusInv
  <1>1. e \in Event /\ e.op = o /\ e \in Stamped(o, w) /\ Gains(e)
    BY StampedType DEF Sends
  <1>2. Returned' = Returned /\ o \notin Returned
    BY DEF Returned
  <1>3. CASE Accepted' = Accepted
    BY <1>2, <1>3
  <1>4. CASE Accepted' = Append(Accepted, e)
    <2>1. /\ Accepted \in Seq(Event) /\ Len(Accepted) \in Nat
          /\ \A i \in DOMAIN Accepted : Accepted[i] \in Event
      BY LogType
    <2>2. /\ Accepted' # <<>> /\ Len(Accepted') = Len(Accepted) + 1
          /\ Accepted'[Len(Accepted) + 1] = e
      BY <1>1, <1>4, <2>1, AppendProperties
    <2>3. \A i \in DOMAIN Accepted : /\ Accepted[i].seq # e.seq
                                     /\ Log!OneStream(Accepted[i], e) => Accepted[i].seq < e.seq
      BY <1>1 DEF EventInv, NumberInv
    <2>4. ASSUME e.build # 0, NEW i \in DOMAIN Accepted, Accepted[i].op = o
          PROVE  Accepted[i].build <= e.build
      <3>1. Accepted[i].build \in Nat /\ e.build \in Nat
        BY <1>1, <2>1, EventTypes
      <3>2. CASE Accepted[i].build = 0
        BY <3>1, <3>2
      <3>3. CASE Accepted[i].build # 0
        <4>1. i \in InLog(o) /\ Logged(o, Item(Accepted[i]))
          BY <2>4, <3>3 DEF InLog, Logged
        <4>2. w = "translator"
          BY <1>1, <2>4, StampedType
        <4>3. Item(e) \in Translating(o)
          BY <1>1, <4>2 DEF Stamped, Translating
        <4>4. Follows(Item(Accepted[i]), Item(e))
          BY <4>1, <4>3 DEF EventInv, OrderInv, Earlier
        <4>5. QED
          BY <4>4 DEF Follows, Item
      <3>4. QED
        BY <3>2, <3>3
    <2>5. Log!Deliver(o)
      BY <1>1, <1>2, <1>4, <2>2, <2>3, <2>4 DEF Log!Deliver, Returned
    <2>6. QED
      BY <2>5 DEF Log!LogNext
  <1>5. QED
    BY <1>1, <1>3, <1>4 DEF Gains

LEMMA LogStep ==
    ASSUME EventInv, [Next]_vars
    PROVE  Log!LogNext \/ UNCHANGED <<Accepted, Returned>>
  <1> TypeOK /\ BusInv
    BY DEF EventInv, BusInv
  <1>1. ASSUME NEW o \in Op, EmitSend(o) \/ translateSend(o)
        PROVE  Log!LogNext \/ UNCHANGED <<Accepted, Returned>>
    <2>1. PICK w \in Goroutine : \E e : Sends(o, w, e)
      BY <1>1, EmitSendSends, translateSendSends DEF Goroutine
    <2>2. pc[o] # "returned" /\ UNCHANGED pc
      BY <1>1 DEF EmitSend, translateSend, BusInv, FlowInv
    <2>3. QED
      BY <2>1, <2>2, SendDelivers
  <1>2. ASSUME NEW o \in Op, CloseReturns(o)
        PROVE  Log!LogNext
    <2>1. Accepted' = Accepted
      BY <1>2, QuietSteps DEF Quiet
    <2>2. Returned' = Returned \cup {o}
      BY <1>2 DEF CloseReturns, Returned, TypeOK
    <2>3. Log!Return(o)
      BY <2>1, <2>2 DEF Log!Return, Returned
    <2>4. QED
      BY <2>3 DEF Log!LogNext
  <1>3. ASSUME NEW o \in Op, Main(o) \/ translateLoop(o),
               ~EmitSend(o), ~translateSend(o), ~CloseReturns(o)
        PROVE  UNCHANGED <<Accepted, Returned>>
    <2>1. Accepted' = Accepted
      BY <1>3, QuietSteps, EmitStampStamps, translateStampStamps
         DEF Main, translateLoop, Quiet, Stamps
    <2>2. \A q \in Op : pc'[q] = "returned" <=> pc[q] = "returned"
      <3>1. CASE UNCHANGED pc
        BY <3>1
      <3>2. CASE BuildChan(o) \/ (\E ok \in BOOLEAN : BuildEnds(o, ok)) \/ Finish(o)
                 \/ CloseChannel(o)
        BY <3>2 DEF BuildChan, BuildEnds, Finish, CloseChannel, TypeOK
      <3>3. QED
        BY <1>3, <3>1, <3>2 DEF Main, translateLoop, EmitStamp, StreamLine, decodeStatus,
           Record, decodeVertex, translateReceive, translateLabel, translateStamp, translateEnd
    <2>3. QED
      BY <2>1, <2>2 DEF Returned
  <1>4. CASE Receive \/ CallerCloses \/ UNCHANGED vars
    <2>1. UNCHANGED pc
      BY <1>4 DEF Receive, CallerCloses, vars
    <2>2. QED
      BY <1>4, <2>1, CallerQuiet DEF Quiet, Returned
  <1>5. QED
    BY <1>1, <1>2, <1>3, <1>4 DEF Next

(***************************************************************************)
(* eventbus.go: what the caller gets is a log that only grows, with        *)
(* distinct numbers, increasing along each of an operation's two           *)
(* goroutines, with builds in their order, and nothing of an operation     *)
(* after it has returned.                                                  *)
(***************************************************************************)
THEOREM BusImplementsLog == Spec => ImplementsEventLog
  <1>1. Init => Log!LogInit
    BY DEF Init, Log!LogInit, Accepted
  <1>2. EventInv /\ [Next]_vars => [Log!LogNext]_<<Accepted, Returned>>
    BY LogStep
  <1>3. EventInv /\ [Next]_vars
          => [Log!LogNext]_<<Accepted, {o \in Op : pc[o] = "returned"}>>
    BY <1>2 DEF Returned
  <1>4. QED
    BY <1>1, <1>3, EventInvInit, EventInvStep, PTL DEF Spec, ImplementsEventLog, Log!LogSpec
=============================================================================
