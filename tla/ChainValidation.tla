--------------------------- MODULE ChainValidation ---------------------------
(***************************************************************************)
(* Build-time validation of a chain holding Tee transforms: the Tee part   *)
(* from shotover-proxy/src/transforms/tee.rs (TeeConfig::get_builder and   *)
(* TeeBuilder::validate), the chain part from spec 4.2 (the chain builder  *)
(* is not in the sources).                                                 *)
(*                                                                         *)
(* A chain reports a terminating transform that is not last, then each     *)
(* transform's own errors indented by two spaces, and heads a non-empty    *)
(* list with "<chain name>:".  An error line is abstracted to its          *)
(* indentation (the number of two-space prefixes) and what it names.      *)
(***************************************************************************)
EXTENDS Naturals, Sequences, SequencesExt

CONSTANTS
  Leaves,        \* transforms without sub-chains
  Terminating,   \* those of Leaves that terminate a chain (NullSink)
  MaxChainLen,   \* longest chain in a topology
  BufferSizes    \* buffer_size values a TeeConfig may give

ASSUME Terminating \subseteq Leaves
ASSUME BufferSizes \subseteq Nat

NoChain == <<>>                    \* mismatch_chain: None

(* A leaf transform; a Tee is a record named "Tee". *)
Leaf == [name : Leaves]

(* Chains of transforms from T. *)
ChainsOf(T) == UNION {[1..n -> T] : n \in 1..MaxChainLen}

(* TeeConfig: behavior (None when absent), chain and buffer_size (an     *)
(* Option, <<>> when absent); SubchainOnMismatch carries its own chain.   *)
TeeConfigs(C) ==
  LET sizes == {<<>>} \cup {<<n>> : n \in BufferSizes} IN
  [name : {"Tee"}, behavior : {"None", "Ignore", "FailOnMismatch"}, chain : C, sub : {NoChain},
   buffer_size : sizes]
    \cup [name : {"Tee"}, behavior : {"SubchainOnMismatch"}, chain : C, sub : C, buffer_size : sizes]

(* Topologies one Tee deep: the inner chains hold only leaves. *)
Topologies == ChainsOf(Leaf \cup TeeConfigs(ChainsOf(Leaf)))

IsTee(t) == t.name = "Tee"

(* TeeBuilder::new keeps its arguments (and registers the counter). *)
TeeBuilderNew(tx, mismatch_chain, buffer_size, behavior) ==
  [name |-> "Tee", tx |-> tx, mismatch_chain |-> mismatch_chain, buffer_size |-> buffer_size,
   behavior |-> behavior]

(* TeeConfig::get_builder: buffer_size defaults to 5, mismatch_chain is   *)
(* built only for SubchainOnMismatch, the behaviour defaults to Ignore.   *)
get_builder(cfg) ==
  TeeBuilderNew(cfg.chain,
                IF cfg.behavior = "SubchainOnMismatch" THEN cfg.sub ELSE NoChain,
                IF cfg.buffer_size = <<>> THEN 5 ELSE cfg.buffer_size[1],
                IF cfg.behavior = "None" THEN "Ignore" ELSE cfg.behavior)

(* TeeBuilder::is_terminating is false; a leaf terminates if it is one of *)
(* Terminating.                                                           *)
is_terminating(t) == ~IsTee(t) /\ t.name \in Terminating

Build(chain) == [i \in DOMAIN chain |-> IF IsTee(chain[i]) THEN get_builder(chain[i]) ELSE chain[i]]

Line(indent, what, name) == [indent |-> indent, what |-> what, name |-> name]
Indent(errs) == [i \in DOMAIN errs |-> [errs[i] EXCEPT !.indent = @ + 1]]

(* Errors headed by "<name>:" when there are any. *)
Headed(name, errs) == IF errs = <<>> THEN <<>> ELSE <<Line(0, "header", name)>> \o errs

(* TransformChainBuilder::validate, given own[i], the errors transform i *)
(* reports itself.                                                        *)
ChainValidate(name, chain, own) ==
  LET at(i) == (IF is_terminating(chain[i]) /\ i < Len(chain)
                  THEN <<Line(1, "not_last", chain[i].name)>> ELSE <<>>)
                 \o Indent(own[i])
  IN  Headed(name, FoldLeft(LAMBDA acc, i : acc \o at(i), <<>>, [i \in DOMAIN chain |-> i]))

(* Leaves report nothing of their own. *)
LeafValidate(t) == <<>>

(* TeeBuilder::validate: only mismatch_chain is validated. *)
validate(tee) ==
  IF tee.mismatch_chain = NoChain THEN <<>>
  ELSE Headed("Tee", Indent(ChainValidate("mismatch_chain", tee.mismatch_chain,
                                  [i \in DOMAIN tee.mismatch_chain |-> LeafValidate(tee.mismatch_chain[i])])))

TransformValidate(t) == IF IsTee(t) THEN validate(t) ELSE <<>>

(* TeeBuilder::build: tx, and mismatch_chain when present, become         *)
(* BufferedChains of buffer_size; the bounded channel behind one panics   *)
(* when asked for a capacity of 0.                                       *)
build_panics(tee) == tee.buffer_size = 0

VARIABLES
  topology,    \* the configured chain
  checked,     \* the built chain has been validated
  result,      \* its validation errors
  built        \* "no", or the outcome of building the chain: "running", "panicked"

vars == <<topology, checked, result, built>>

Init ==
  /\ topology \in Topologies
  /\ checked = FALSE
  /\ result = <<>>
  /\ built = "no"

(* The chain is built from the topology and validated before traffic. *)
Validate ==
  /\ ~checked
  /\ checked' = TRUE
  /\ result' = LET b == Build(topology)
               IN  ChainValidate("main_chain", b, [i \in DOMAIN b |-> TransformValidate(b[i])])
  /\ UNCHANGED <<topology, built>>

(* A chain that validated is built for a connection: each transform's    *)
(* build, TeeBuilder::build among them.                                  *)
BuildChain ==
  /\ checked /\ result = <<>> /\ built = "no"
  /\ built' = IF \E i \in DOMAIN topology :
                   IsTee(topology[i]) /\ build_panics(get_builder(topology[i]))
              THEN "panicked" ELSE "running"
  /\ UNCHANGED <<topology, checked, result>>

Validated == checked /\ UNCHANGED vars

Next == Validate \/ BuildChain \/ Validated

Spec == Init /\ [][Next]_vars

-----------------------------------------------------------------------------
(* Some chain of the built topology, a Tee's sub-chains included, has a   *)
(* terminating transform before its end.                                  *)
Misplaced(chain) == \E i \in DOMAIN chain : chain[i].name \in Terminating /\ i < Len(chain)
Defective(chain) ==
  \/ Misplaced(chain)
  \/ \E i \in DOMAIN chain :
       IsTee(chain[i]) /\ (Misplaced(chain[i].tx) \/ Misplaced(chain[i].mismatch_chain))

(* Spec 4.2: validation at build time rejects a terminating transform    *)
(* that is not last in any chain, sub-chains recursively: an empty error  *)
(* list means no chain of the topology, the Tee's own tee_chain included, *)
(* is malformed, and the chain it accepted builds: no Tee's buffer_size   *)
(* panics TeeBuilder::build when a connection builds the chain.          *)
ValidationComplete ==
  /\ checked /\ result = <<>> => ~Defective(Build(topology))
  /\ built # "panicked"

=============================================================================
