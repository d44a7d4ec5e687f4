----------------------------- MODULE MCFeatures -----------------------------
(***************************************************************************)
(* Constants for model-checking Features.                                  *)
(*   1  registry/a:1       may come to name a2                             *)
(*   2  registry/a:latest  the same repository                             *)
(*   3  registry/b:1       depends on a:latest with another version        *)
(*   4  https://c.tgz      may come to name c2                             *)
(*   5  ./local            depends on c                                    *)
(***************************************************************************)
EXTENDS Features, TLC

Refs == 1 .. 5
Ids == <<1, 1, 2, 3, 4>>
Kinds == <<"oci", "oci", "oci", "https", "local">>
Places == <<1, 1, 2, 3, 4>>
BareIds == <<1, 1, 2, 3, 4>>

(* a1 = 1, a2 = 2, b1 = 3, c1 = 4, c2 = 5, local = 6.                      *)
Meta(id, version, default, enum, dependsOn, installsAfter) ==
    [id |-> id, version |-> version, default |-> default, enum |-> enum,
     dependsOn |-> dependsOn, installsAfter |-> installsAfter]

On(key, opts) == [key |-> key, opts |-> opts]

Artifacts ==
    <<Meta(1, 1, 1, {1, 2}, {}, {}),
      Meta(1, 2, 1, {1, 2}, {On(4, 0)}, {2}),
      Meta(2, 1, 0, {1}, {On(2, 1)}, {}),
      Meta(3, 1, 0, {1, 2}, {}, {}),
      Meta(3, 2, 0, {}, {On(5, 0)}, {}),
      Meta(4, 1, 0, {}, {On(4, 0), On(3, 0)}, {1})>>

Names == <<<<1, 2>>, <<1, 2>>, <<3>>, <<4, 5>>, <<6>>>>

Asks(asks) == [asks |-> asks, override |-> <<>>]

Asked == {Asks(<<>>), Asks(1 :> 2 @@ 3 :> 0), Asks(1 :> 0 @@ 2 :> 1), Asks(5 :> 0),
          [asks |-> 1 :> 2 @@ 4 :> 2, override |-> <<3>>]}

Image(source, label, contents) ==
    [source |-> source, label |-> label, contents |-> contents]

LabelOf(d, at, known) ==
    [id |-> Artifacts[d].id, version |-> Artifacts[d].version,
     resolved |-> [at |-> at, digest |-> IF at = 0 THEN 0 ELSE d],
     dependsOn |-> IF known THEN Artifacts[d].dependsOn ELSE {}, known |-> known]

Plain == Image("build", <<>>, {})
(* b by another tool, which records no artifact, a2 by an early version of *)
(* this one, which recorded no dependencies, and from a URL a feature that *)
(* calls itself a.                                                         *)
Old == Image("image",
             <<LabelOf(3, 0, FALSE), LabelOf(2, 1, FALSE),
               [LabelOf(1, 0, FALSE) EXCEPT !.resolved.digest = 4]>>,
             {[at |-> 1, digest |-> 2], [at |-> 0, digest |-> 4]})

With(mode, strict, name) == [mode |-> mode, strict |-> strict, name |-> name]
CallOptions == {With("default", FALSE, ""), With("default", TRUE, "name"),
                With("frozen", FALSE, ""), With("upgrade", FALSE, "name"),
                With("disabled", FALSE, "")}

BaseImages == {Plain, Old}
=============================================================================
