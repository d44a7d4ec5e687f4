---------------------------- MODULE MCEventBus ----------------------------
(* Constants for model-checking EventBus.                                  *)
EXTENDS EventBus, TLC

CONSTANTS o1, o2, v1

(* One record reports a vertex once or twice.                              *)
Of(started, completed) == [vertex |-> v1, started |-> started, completed |-> completed]
Statuses == {<<Of(TRUE, FALSE)>>, <<Of(FALSE, FALSE), Of(TRUE, TRUE)>>,
             <<Of(TRUE, FALSE), Of(TRUE, TRUE)>>}

(* One operation that builds, say an Up, and one that does not, an Exec.   *)
Emits    == (o1 :> 0) @@ (o2 :> 1)
Pipeline == (o1 :> <<"image", "features">>) @@ (o2 :> <<>>)
=============================================================================
