---------------------------- MODULE MCLifecycle ----------------------------
(* Hooks and calls for model-checking Lifecycle.                           *)
EXTENDS Lifecycle, TLC

CONSTANTS p1, p2, f, u, v, s, t, i

Hook(layer, cmds) == [layer |-> layer, cmds |-> cmds]

(* A feature's onCreate hook before the user's, and a hook for every start. *)
SingleHooks ==
    [ph \in Phase |->
       CASE ph = OnCreate   -> <<Hook("image", {f}), Hook("user", {u})>>
         [] ph = PostStart  -> <<Hook("user", {s})>>
         [] OTHER           -> <<>>]

(* Hooks of devcontainer.json alone, in every kind of phase, one of them   *)
(* with two commands in parallel.                                          *)
UserHooks ==
    [ph \in Phase |->
       CASE ph = Initialize -> <<Hook("user", {i})>>
         [] ph = PostCreate -> <<Hook("user", {u, v})>>
         [] ph = PostStart  -> <<Hook("user", {s})>>
         [] ph = PostAttach -> <<Hook("user", {t})>>
         [] OTHER           -> <<>>]

Opt(recreate, skip, init) ==
    [recreate |-> recreate, skip |-> skip, init |-> init]

RecreateUp == {Opt(r, FALSE, FALSE) : r \in BOOLEAN}
AnyUp      == UpOptionsType

AllPhases == OnCreate..PostAttach

RunAny == {AllPhases, {PostStart}}
UserView == {{"user"}}

SwapCallers == Permutations({p1, p2})
=============================================================================
