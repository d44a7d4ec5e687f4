-------------------------- MODULE MCFeatureStore --------------------------
(* Constants for model-checking FeatureStore.                              *)
EXTENDS FeatureStore, TLC

CONSTANTS p1, p2, good, bad

(* A feature with a helper file, and an artifact without install script.   *)
Artifacts == [d \in Digest |-> IF d = bad THEN {"metadata"} ELSE File]

Fetched == {[kind |-> "digest", of |-> good], [kind |-> "tag", of |-> "1.0.0"],
            [kind |-> "tag", of |-> "1"], [kind |-> "url", of |-> "url"]}

=============================================================================
