-------------------------- MODULE MCChainValidation --------------------------
(* Model-checking instance of ChainValidation: NullSink terminates, a       *)
(* DebugPrinter passes through; chains of up to two transforms.  The unit  *)
(* tests of tee.rs are restated on the model's operators and checked by    *)
(* TLC before the state space is explored.                                 *)
EXTENDS ChainValidation

MCLeaves == {"NullSink", "DebugPrinter"}

NullSink == [name |-> "NullSink"]

(* A TeeConfig of the tests: timeout_micros None, buffer_size None. *)
TestTeeConfig(behavior, sub, chain) ==
  [name |-> "Tee", behavior |-> behavior, chain |-> chain, sub |-> sub, buffer_size |-> <<>>]

(* test_validate_no_subchain: Ignore and FailOnMismatch Tees over        *)
(* [NullSink] validate with no errors.                                  *)
test_validate_no_subchain ==
  \A behavior \in {"Ignore", "FailOnMismatch"} :
    validate(get_builder(TestTeeConfig(behavior, NoChain, <<NullSink>>))) = <<>>

(* test_validate_invalid_chain: a mismatch_chain [NullSink, NullSink]    *)
(* yields "Tee:", "  mismatch_chain:", then the not-last error for       *)
(* NullSink indented twice.                                              *)
test_validate_invalid_chain ==
  validate(get_builder(TestTeeConfig("SubchainOnMismatch", <<NullSink, NullSink>>, <<NullSink>>)))
    = <<Line(0, "header", "Tee"), Line(1, "header", "mismatch_chain"),
        Line(2, "not_last", "NullSink")>>

(* test_validate_valid_chain: a mismatch_chain [NullSink] is valid. *)
test_validate_valid_chain ==
  validate(get_builder(TestTeeConfig("SubchainOnMismatch", <<NullSink>>, <<NullSink>>))) = <<>>

ASSUME test_validate_no_subchain
ASSUME test_validate_invalid_chain
ASSUME test_validate_valid_chain

=============================================================================
