----------------------- MODULE MCComposeOrchestrator -----------------------
(* Plans and starting points for model-checking ComposeOrchestrator.       *)
EXTENDS ComposeOrchestrator, TLC

CONSTANTS db, job, app

Three == {db, job, app}
Two == {db, app}

Edges(S, f) == [s \in S |-> [d \in S |->
    IF <<s, d>> \in DOMAIN f THEN f[<<s, d>>] ELSE "no"]]

MakePlan(S, f, opt, ns, names, hc, adopt) ==
    [services |-> S, dependsOn |-> Edges(S, f),
     optional |-> [s \in S |-> IF s = app THEN opt ELSE {}],
     nsTargets |-> [s \in S |-> IF s = app THEN ns ELSE {}],
     names |-> names, healthcheck |-> hc, adopt |-> adopt,
     volumes |-> TRUE]

H == "service_healthy"
C == "service_completed_successfully"
S0 == "service_started"

(* app needs db healthy and job completed; job is optional in one plan.    *)
GatePlans ==
    {MakePlan(Three, (<<app, db>> :> H) @@ (<<app, job>> :> C), opt, {},
              {app}, {db}, FALSE) : opt \in {{}, {job}}}
      \cup
    {MakePlan(Three, (<<app, job>> :> H) @@ (<<job, db>> :> C), {}, {db},
              names, {}, FALSE) : names \in {{}, {job}}}

Fresh(S) == {[ctr |-> [s \in S |-> NoContainer],
              image |-> [s \in S |-> CHOOSE d \in Digest : TRUE]]}

FreshThree == Fresh(Three)

FreshTwo == Fresh(Two)

(* app shares db's network namespace; one plan resumes, one restricts.     *)
ReusePlans ==
    {MakePlan(Two, <<app, db>> :> S0, {}, {db}, names, {}, adopt) :
        names \in {{}, {app}}, adopt \in BOOLEAN}

(* A container the shell-out backend or `docker compose up` left behind.   *)
ForeignContainer(state) ==
    [NoContainer EXCEPT !.state = state, !.image = CHOOSE d \in Digest : TRUE]

WithForeignDb ==
    {[ctr |-> [s \in Two |-> IF s = db THEN ForeignContainer(st)
                             ELSE NoContainer],
      image |-> [s \in Two |-> CHOOSE d \in Digest : TRUE]] :
        st \in {"created", "running", "exited"}}

ReuseInitial == FreshTwo \cup WithForeignDb

(* A chain, the same project without app, a cyclic one, and one with a     *)
(* completion gate, which a backend without exit codes has to refuse.      *)
TeardownPlans ==
    {MakePlan(Three, (<<app, db>> :> C) @@ (<<app, job>> :> S0), {}, {}, {},
              {}, FALSE),
     MakePlan(Three, (<<app, job>> :> S0) @@ (<<job, db>> :> S0), {}, {}, {},
              {}, FALSE),
     MakePlan(Three, (<<app, job>> :> S0) @@ (<<job, app>> :> S0), {}, {}, {},
              {}, FALSE),
     [MakePlan(Three, (<<job, db>> :> S0), {}, {}, {}, {}, FALSE)
        EXCEPT !.services = {db, job}]}

AllDownPlans == DownPlanType

(* The image of job may not have been pulled yet.                          *)
JobAbsent == FreshThree \cup {[i EXCEPT !.image[job] = "absent"] : i \in FreshThree}
=============================================================================
