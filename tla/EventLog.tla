------------------------------ MODULE EventLog ------------------------------
(***************************************************************************)
(* What eventbus.go gives a caller that passes an Events channel: a log    *)
(* that only grows, whose entries have distinct sequence numbers, in which *)
(* the events an operation emits itself stand in the order of their        *)
(* numbers, and so do those of its builds, which also keep the order of    *)
(* the builds; and to which an operation adds nothing once it has          *)
(* returned, so that closing the channel then is safe.  Events may be      *)
(* lost.                                                                   *)
(*                                                                         *)
(* events/doc.go promises more, a monotonic Seq.  Between an operation's   *)
(* own events and its build events, and between operations, the code does  *)
(* not keep that: Emit takes a number and sends in two steps, without a    *)
(* lock.                                                                   *)
(***************************************************************************)
EXTENDS Naturals, Sequences

CONSTANT Op  \* operations of one engine that share the channel

VARIABLES
    log,      \* everything the channel has accepted
    returned  \* operations that have returned

LogInit == log = <<>> /\ returned = {}

(* Build 0 stands for the operation's own events.                          *)
OneStream(x, y) == x.op = y.op /\ (x.build = 0 <=> y.build = 0)

Deliver(o) ==
    /\ o \notin returned
    /\ log' # <<>>
    /\ LET e == log'[Len(log')] IN
         /\ log' = Append(log, e)
         /\ e.op = o
         /\ \A i \in DOMAIN log :
              /\ log[i].seq # e.seq
              /\ OneStream(log[i], e) => log[i].seq < e.seq
         /\ e.build # 0 =>
              \A i \in DOMAIN log : log[i].op = o => log[i].build <= e.build
    /\ UNCHANGED returned

Return(o) ==
    /\ returned' = returned \cup {o}
    /\ UNCHANGED log

LogNext == \E o \in Op : Deliver(o) \/ Return(o)

LogSpec == LogInit /\ [][LogNext]_<<log, returned>>
=============================================================================
