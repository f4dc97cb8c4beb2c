------------------------------- MODULE MCTee -------------------------------
(* Model-checking instance of Tee: two distinct response payloads are      *)
(* enough for the chains to agree or disagree.                              *)
EXTENDS Tee

MCValues == {"v1", "v2"}

MCBehaviors == {"Ignore", "FailOnMismatch", "SubchainOnMismatch"}

=============================================================================
