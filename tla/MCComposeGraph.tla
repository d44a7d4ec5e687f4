--------------------------- MODULE MCComposeGraph ---------------------------
(* Every project over three names: all edge sets, self edges, edges to     *)
(* names outside the project, and every selection of services.             *)
EXTENDS ComposeGraph

CONSTANTS a, b, c

MCService == {a, b, c}

Conds(E) == [s \in MCService |-> [d \in MCService |->
                IF <<s, d>> \in E THEN "service_started" ELSE "no"]]

MCPlans ==
    {[services |-> S, dependsOn |-> Conds(E),
      optional |-> [s \in MCService |-> {}],
      nsTargets |-> [s \in MCService |-> IF s = n THEN {t} ELSE {}],
      names |-> N, healthcheck |-> {}, adopt |-> FALSE,
      volumes |-> FALSE] :
        S \in {MCService, {a, b}},
        E \in SUBSET (MCService \X MCService),
        n \in {c}, t \in {a}, N \in {{b}, {a, c}}}

=============================================================================
