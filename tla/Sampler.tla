------------------------------ MODULE Sampler ------------------------------
(***************************************************************************)
(* The Sampler transform (src/transforms/sampler.rs) on one connection.   *)
(*                                                                         *)
(* For each request batch it draws chance = thread_rng_n(denominator), a  *)
(* value in 0..denominator-1.  On a hit (chance < numerator) it joins the *)
(* sample chain's process_request on a clone with call_next_transform on *)
(* the original; otherwise it only calls next.  Either way it returns the *)
(* down-chain's response; a sample error is only logged.  The sample      *)
(* chain is a plain TransformChain driven inside the join, so it runs     *)
(* only while the transform awaits it.                                    *)
(***************************************************************************)
EXTENDS Naturals

CONSTANTS
  Numerator,     \* numerator (Sampler::new: 1)
  Denominator,   \* denominator (Sampler::new: 100)
  NumRequests,   \* request batches the client sends
  Values         \* response payloads a chain may return

ASSUME Denominator \in Nat \ {0} /\ Numerator \in Nat
ASSUME NumRequests \in Nat \ {0}
ASSUME "err" \notin Values /\ "none" \notin Values

Requests == 1..NumRequests
Results == Values \cup {"err"}

VARIABLES
  pc,          \* "idle", "join" (sampled), "next" (not sampled), "closed"
  cur,         \* the request being handled
  sampleRes,   \* result of sample_chain.process_request: "none" or a Result
  mainRes,     \* result of call_next_transform: "none" or a Result
  draws,       \* history: draws[r], the chance drawn for request r
  sampled,     \* history: requests the sample chain has processed
  mainSeen,    \* history: what the down-chain returned for request r
  out          \* out[r]: what transform returned for request r

vars == <<pc, cur, sampleRes, mainRes, draws, sampled, mainSeen, out>>

TypeOK ==
  /\ pc \in {"idle", "join", "next", "closed"}
  /\ cur \in 0..NumRequests
  /\ sampleRes \in Results \cup {"none"}
  /\ mainRes \in Results \cup {"none"}
  /\ draws \in [Requests -> (0..Denominator - 1) \cup {Denominator}]
  /\ \A r \in Requests : draws[r] < Denominator \/ out[r] = "none"
  /\ sampled \subseteq Requests
  /\ mainSeen \in [Requests -> Results \cup {"none"}]
  /\ out \in [Requests -> Results \cup {"none"}]

(* Fault model: the draw includes denominator itself. *)
DrawsInclusive == 0..Denominator

(* thread_rng_n(denominator): uniform in [0, denominator). *)
Draws == 0..Denominator - 1

(* Fault model: the comparison is <=. *)
HitInclusive(chance) == chance <= Numerator

(* The request is sampled. *)
Hit(chance) == chance < Numerator

Init ==
  /\ pc = "idle"
  /\ cur = 0
  /\ sampleRes = "none"
  /\ mainRes = "none"
  /\ draws = [r \in Requests |-> Denominator]
  /\ sampled = {}
  /\ mainSeen = [r \in Requests |-> "none"]
  /\ out = [r \in Requests |-> "none"]

(* transform is called with the next batch and draws its chance. *)
TransformStart ==
  /\ pc = "idle"
  /\ cur < NumRequests
  /\ cur' = cur + 1
  /\ \E chance \in Draws :
       /\ draws' = [draws EXCEPT ![cur + 1] = chance]
       /\ pc' = IF Hit(chance) THEN "join" ELSE "next"
  /\ sampleRes' = "none"
  /\ mainRes' = "none"
  /\ UNCHANGED <<sampled, mainSeen, out>>

(* Join arm: the sample chain finishes the clone. *)
SampleDone ==
  /\ pc = "join"
  /\ sampleRes = "none"
  /\ \E r \in Results : sampleRes' = r
  /\ sampled' = sampled \cup {cur}
  /\ UNCHANGED <<pc, cur, mainRes, draws, mainSeen, out>>

(* call_next_transform returns the down-chain's response. *)
CallNext ==
  /\ pc \in {"join", "next"}
  /\ mainRes = "none"
  /\ \E r \in Results :
       /\ mainRes' = r
       /\ mainSeen' = [mainSeen EXCEPT ![cur] = r]
  /\ UNCHANGED <<pc, cur, sampleRes, draws, sampled, out>>

(* Fault model: tokio::select! in place of join!: the first arm to      *)
(* finish ends the transform, the other is dropped.                     *)
TransformReturnSelect ==
  /\ \/ mainRes # "none"
     \/ pc = "join" /\ sampleRes # "none"
  /\ out' = [out EXCEPT ![cur] = mainRes]
  /\ pc' = IF mainRes = "err" THEN "closed" ELSE "idle"
  /\ UNCHANGED <<cur, sampleRes, mainRes, draws, sampled, mainSeen>>

(* Both awaited futures are done: the downstream response is returned   *)
(* (a sample error is only logged); an Err ends the connection.         *)
TransformReturn ==
  /\ mainRes # "none"
  /\ \/ pc = "join" /\ sampleRes # "none"
     \/ pc = "next"
  /\ out' = [out EXCEPT ![cur] = mainRes]
  /\ pc' = IF mainRes = "err" THEN "closed" ELSE "idle"
  /\ UNCHANGED <<cur, sampleRes, mainRes, draws, sampled, mainSeen>>

(* The connection has ended: after an Err or the last request. *)
Finished == pc = "closed" \/ (pc = "idle" /\ cur = NumRequests)

Done ==
  /\ Finished
  /\ UNCHANGED vars

Next == TransformStart \/ SampleDone \/ CallNext \/ TransformReturn \/ Done

Spec == Init /\ [][Next]_vars

(* tokio::join! polls both arms whenever the task is woken, and the      *)
(* chains end in sinks that answer: the two arms and the return are      *)
(* weakly fair.  The client's next request (TransformStart) is not.      *)
FairSpec ==
  /\ Spec
  /\ WF_vars(SampleDone)
  /\ WF_vars(CallNext)
  /\ WF_vars(TransformReturn)

-----------------------------------------------------------------------------
(* Every answered request got the down-chain's own response, whatever the *)
(* sample chain returned, and it went through the sample chain exactly   *)
(* when its draw was below numerator, before transform returned (spec    *)
(* 4.5).                                                                  *)
SamplerContract ==
  \A r \in Requests :
    out[r] # "none" =>
      /\ out[r] = mainSeen[r]
      /\ (r \in sampled <=> draws[r] < Numerator)


(* Every request transform has drawn for is eventually answered with the *)
(* down-chain's result: the join of sampler.rs:40 returns once both the  *)
(* sample chain and call_next_transform have, and not before the         *)
(* down-chain has answered.  It holds only while the sample chain         *)
(* answers: a hung sample chain holds the client's response back.        *)
SampledAnswered ==
  \A r \in Requests : draws[r] < Denominator ~> out[r] \in Results

=============================================================================
