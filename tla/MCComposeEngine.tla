-------------------------- MODULE MCComposeEngine --------------------------
(***************************************************************************)
(* Instances of ComposeEngine.  The calls are chosen so that options meet: *)
(* an Up that adopts leaves tags that a later Up must not reattach to, a   *)
(* container of one backend is found by the other, secrets are collected   *)
(* once and not again.                                                     *)
(***************************************************************************)
EXTENDS ComposeEngine

Up(backend, adopt, recreate, pull, env) ==
    [op |-> "up", backend |-> backend, adopt |-> adopt, recreate |-> recreate,
     pull |-> pull, env |-> env]

MCOptions ==
    { Up("native", FALSE, FALSE, "missing", {}),
      Up("native", FALSE, FALSE, "missing", {"secret"}),
      Up("native", TRUE, FALSE, "missing", {}),
      Up("native", TRUE, TRUE, "always", {"secret", "extra"}),
      Up("shellout", FALSE, FALSE, "missing", {"extra"}),
      Up("shellout", FALSE, TRUE, "never", {"secret"}),
      [Up("native", FALSE, FALSE, "missing", {}) EXCEPT !.op = "remove"],
      [Up("native", FALSE, FALSE, "missing", {}) EXCEPT !.op = "attach"],
      [Up("native", FALSE, FALSE, "missing", {}) EXCEPT !.op = "stop"] }

OnePlainUp == { Up("native", FALSE, FALSE, "missing", {"secret"}) }
=============================================================================
