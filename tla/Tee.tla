-------------------------------- MODULE Tee --------------------------------
(***************************************************************************)
(* The Tee transform (shotover-proxy/src/transforms/tee.rs) on one client *)
(* connection.                                                             *)
(*                                                                         *)
(* The server loop hands the chain one request batch at a time and waits   *)
(* for its response before taking the next (spec 4.7), so the Tee handles  *)
(* batches 1..NumBatches strictly in turn.  For each batch it joins two   *)
(* futures: the submission of a clone to the side BufferedChain `tx`, and *)
(* call_next_transform on the original.  When both are done it reconciles *)
(* them according to its ConsistencyBehavior.  Under SubchainOnMismatch a *)
(* mismatch is then submitted to a second BufferedChain, mismatch_chain,  *)
(* and awaited.  A chain error ends the connection (spec 4.2).             *)
(*                                                                         *)
(* Each BufferedChain has its own worker that runs concurrently with the   *)
(* connection; both are instances of BufferedChain.  Responses are         *)
(* abstracted to a small set Values; "err" is a ChainResponse Err.         *)
(***************************************************************************)
EXTENDS Naturals, Sequences, FiniteSets

CONSTANTS
  Behaviors,    \* ConsistencyBehavior values the model builds a Tee with
  Timeout,      \* TRUE iff timeout_micros is Some(_)
  BufferSize,   \* buffer_size of both BufferedChains
  NumBatches,   \* number of request batches the client sends
  Values        \* response payloads a chain may return

ASSUME Behaviors \subseteq {"Ignore", "FailOnMismatch", "SubchainOnMismatch"}
ASSUME Timeout \in BOOLEAN
ASSUME NumBatches \in Nat \ {0}
ASSUME Values \cap {"none", "err", "ack", "mismatch_err"} = {}

Batches == 1..NumBatches
Results == Values \cup {"err"}       \* what a chain run returns

(* A side work item: the batch it clones and whether it has a reply channel. *)
SideItems == [batch : Batches, reply : BOOLEAN]
NoSideItem == [batch |-> 0, reply |-> FALSE]

VARIABLES
  behavior,    \* the Tee's ConsistencyBehavior, fixed when it is built
  pc,          \* connection: "idle", "join", "mismatch_send", "mismatch_wait", "closed"
  cur,         \* the batch being handled (0 before the first)
  side,        \* side future of the join: "submitting", "awaiting", "done"
  sideRes,     \* its output: "none", "ack" (no-return sent), a Result
  mainRes,     \* output of call_next_transform: "none" or a Result
  misRes,      \* reply of mismatch_chain.process_request: "none", "ack", "err"
  sideQueue, sideInproc,   \* the tx BufferedChain
  misQueue, misInproc,     \* the mismatch_chain BufferedChain
  dropped,     \* the tee_dropped_messages counter
  out,         \* out[b]: what the client got for batch b ("none" = nothing yet)
  mainSeen,    \* history: what the main chain returned for batch b
  sideSeen,    \* history: what the side chain computed for batch b
  sideSent,    \* history: batches enqueued on tx
  misSent      \* history: batches enqueued on mismatch_chain

vars == <<behavior, pc, cur, side, sideRes, mainRes, misRes, sideQueue, sideInproc,
          misQueue, misInproc, dropped, out, mainSeen, sideSeen, sideSent, misSent>>

Side == INSTANCE BufferedChain
          WITH queue <- sideQueue, inproc <- sideInproc,
               Items <- SideItems, NoItem <- NoSideItem
Mis  == INSTANCE BufferedChain
          WITH queue <- misQueue, inproc <- misInproc,
               Items <- Batches, NoItem <- 0

TypeOK ==
  /\ behavior \in Behaviors
  /\ pc \in {"idle", "join", "mismatch_send", "mismatch_wait", "closed"}
  /\ cur \in 0..NumBatches
  /\ side \in {"submitting", "awaiting", "done"}
  /\ sideRes \in Results \cup {"none"} \cup (IF behavior = "Ignore" THEN {"ack"} ELSE {})
  /\ mainRes \in Results \cup {"none"}
  /\ misRes \in {"none", "ack", "err"}
  /\ Side!TypeOK
  /\ Mis!TypeOK
  /\ dropped \in 0..NumBatches
  /\ out \in [Batches -> Values \cup {"none", "err", "mismatch_err"}]
  /\ mainSeen \in [Batches -> Results \cup {"none"}]
  /\ sideSeen \in [Batches -> Results \cup {"none"}]
  /\ sideSent \subseteq Batches
  /\ misSent \subseteq Batches

-----------------------------------------------------------------------------
(* TeeConfig::get_builder / TeeBuilder::build: the behaviour is fixed    *)
(* once, both BufferedChains start empty, the counter at 0.              *)
Init ==
  /\ behavior \in Behaviors
  /\ pc = "idle"
  /\ cur = 0
  /\ side = "done"
  /\ sideRes = "none"
  /\ mainRes = "none"
  /\ misRes = "none"
  /\ Side!Init
  /\ Mis!Init
  /\ dropped = 0
  /\ out = [b \in Batches |-> "none"]
  /\ mainSeen = [b \in Batches |-> "none"]
  /\ sideSeen = [b \in Batches |-> "none"]
  /\ sideSent = {}
  /\ misSent = {}

(* The server loop hands the next batch to Tee::transform, which starts *)
(* both arms of tokio::join!.                                           *)
TeeStart ==
  /\ pc = "idle"
  /\ cur < NumBatches
  /\ cur' = cur + 1
  /\ pc' = "join"
  /\ side' = "submitting"
  /\ sideRes' = "none"
  /\ mainRes' = "none"
  /\ UNCHANGED <<behavior, misRes, sideQueue, sideInproc, misQueue, misInproc, dropped,
                 out, mainSeen, sideSeen, sideSent, misSent>>

(* Fault model: every behaviour submits with process_request_no_return. *)
SideSubmitNoReturn ==
  /\ pc = "join"
  /\ side = "submitting"
  /\ Side!Submit([batch |-> cur, reply |-> FALSE])
  /\ sideSent' = sideSent \cup {cur}
  /\ side' = "done" /\ sideRes' = "ack"
  /\ UNCHANGED <<behavior, pc, cur, mainRes, misRes, sideInproc, misQueue, misInproc,
                 dropped, out, mainSeen, sideSeen, misSent>>

(* Side arm: the clone is enqueued on tx.  Ignore uses                    *)
(* process_request_no_return, which is done once the send completes; the  *)
(* other behaviours use process_request and now await the reply.          *)
SideSubmit ==
  /\ pc = "join"
  /\ side = "submitting"
  /\ Side!Submit([batch |-> cur, reply |-> behavior # "Ignore"])
  /\ sideSent' = sideSent \cup {cur}
  /\ IF behavior = "Ignore"
       THEN side' = "done" /\ sideRes' = "ack"
       ELSE side' = "awaiting" /\ UNCHANGED sideRes
  /\ UNCHANGED <<behavior, pc, cur, mainRes, misRes, sideInproc, misQueue, misInproc,
                 dropped, out, mainSeen, sideSeen, misSent>>

(* Fault model: only the reply await is guarded by the timer; the send *)
(* itself waits for capacity without one.                             *)
SideTimeoutReplyOnly ==
  /\ Timeout
  /\ pc = "join"
  /\ side = "awaiting"
  /\ side' = "done"
  /\ sideRes' = "err"
  /\ UNCHANGED <<behavior, pc, cur, mainRes, misRes, sideQueue, sideInproc, misQueue,
                 misInproc, dropped, out, mainSeen, sideSeen, sideSent, misSent>>

(* Side arm: timeout_micros elapses while the send waits for capacity or *)
(* while the reply is awaited.  An enqueued item stays queued; its reply *)
(* will find no receiver.                                                 *)
SideTimeout ==
  /\ Timeout
  /\ pc = "join"
  /\ side \in {"submitting", "awaiting"}
  /\ side' = "done"
  /\ sideRes' = "err"
  /\ UNCHANGED <<behavior, pc, cur, mainRes, misRes, sideQueue, sideInproc, misQueue,
                 misInproc, dropped, out, mainSeen, sideSeen, sideSent, misSent>>

(* Main arm: call_next_transform returns the down-chain's response. *)
CallNext ==
  /\ pc = "join"
  /\ mainRes = "none"
  /\ \E r \in Results :
       /\ mainRes' = r
       /\ mainSeen' = [mainSeen EXCEPT ![cur] = r]
  /\ UNCHANGED <<behavior, pc, cur, side, sideRes, misRes, sideQueue, sideInproc,
                 misQueue, misInproc, dropped, out, sideSeen, sideSent, misSent>>

(* The tx worker takes the next queued clone. *)
SideStart ==
  /\ Side!Dequeue
  /\ UNCHANGED <<behavior, pc, cur, side, sideRes, mainRes, misRes, misQueue, misInproc,
                 dropped, out, mainSeen, sideSeen, sideSent, misSent>>

(* The tx chain finishes the clone it holds.  The result goes down the     *)
(* item's one-shot channel, which only the join awaiting that very batch  *)
(* still receives; otherwise it is discarded.                             *)
SideFinish ==
  /\ Side!Complete
  /\ \E r \in Results :
       /\ sideSeen' = [sideSeen EXCEPT ![sideInproc.batch] = r]
       /\ IF /\ sideInproc.reply
             /\ pc = "join" /\ side = "awaiting" /\ cur = sideInproc.batch
            THEN side' = "done" /\ sideRes' = r
            ELSE UNCHANGED <<behavior, side, sideRes>>
  /\ UNCHANGED <<behavior, pc, cur, mainRes, misRes, misQueue, misInproc, dropped, out,
                 mainSeen, sideSent, misSent>>

(* Transform returns r for the current batch.  An Err reaches the server *)
(* loop, which ends the connection.                                      *)
Respond(r) ==
  /\ out' = [out EXCEPT ![cur] = r]
  /\ pc' = IF r = "err" THEN "closed" ELSE "idle"

Joined == pc = "join" /\ side = "done" /\ mainRes # "none"

(* Fault model: the error of the no-return submission is not counted. *)
ReconcileIgnoreNoCount ==
  /\ behavior = "Ignore"
  /\ Joined
  /\ UNCHANGED dropped
  /\ Respond(mainRes)
  /\ UNCHANGED <<behavior, cur, side, sideRes, mainRes, misRes, sideQueue, sideInproc,
                 misQueue, misInproc, mainSeen, sideSeen, sideSent, misSent>>

(* Ignore: a failed no-return submission is counted and the down-chain's *)
(* response is returned as it is.                                        *)
ReconcileIgnore ==
  /\ behavior = "Ignore"
  /\ Joined
  /\ dropped' = IF sideRes = "err" THEN dropped + 1 ELSE dropped
  /\ Respond(mainRes)
  /\ UNCHANGED <<behavior, cur, side, sideRes, mainRes, misRes, sideQueue, sideInproc,
                 misQueue, misInproc, mainSeen, sideSeen, sideSent, misSent>>

(* Fault model: the two Results are compared without unwrapping the     *)
(* down-chain's, so a down-chain Err is reported as a mismatch.          *)
FailOnMismatchResultUnchecked(tee, chain) ==
  IF tee = "err" THEN "err"
  ELSE IF chain # tee THEN "mismatch_err"
  ELSE chain

(* FailOnMismatch: tee_result? then chain_result?; if the two responses    *)
(* differ, every message of the batch becomes the mismatch error.          *)
FailOnMismatchResult(tee, chain) ==
  IF tee = "err" \/ chain = "err" THEN "err"
  ELSE IF chain # tee THEN "mismatch_err"
  ELSE chain

ReconcileFail ==
  /\ behavior = "FailOnMismatch"
  /\ Joined
  /\ Respond(FailOnMismatchResult(sideRes, mainRes))
  /\ UNCHANGED <<behavior, cur, side, sideRes, mainRes, misRes, sideQueue, sideInproc,
                 misQueue, misInproc, dropped, mainSeen, sideSeen, sideSent, misSent>>

(* Fault model: the original batch goes to mismatch_chain without the *)
(* comparison.                                                        *)
ReconcileSubchainNoCompare ==
  /\ behavior = "SubchainOnMismatch"
  /\ Joined
  /\ \/ /\ "err" \in {sideRes, mainRes}
        /\ Respond("err")
        /\ UNCHANGED misRes
     \/ /\ "err" \notin {sideRes, mainRes}
        /\ pc' = "mismatch_send"
        /\ misRes' = "none"
        /\ UNCHANGED out
  /\ UNCHANGED <<behavior, cur, side, sideRes, mainRes, sideQueue, sideInproc, misQueue,
                 misInproc, dropped, mainSeen, sideSeen, sideSent, misSent>>

(* SubchainOnMismatch: errors propagate; on a mismatch the original batch *)
(* goes to mismatch_chain before the down-chain response is returned.     *)
ReconcileSubchain ==
  /\ behavior = "SubchainOnMismatch"
  /\ Joined
  /\ \/ /\ "err" \in {sideRes, mainRes}
        /\ Respond("err")
        /\ UNCHANGED misRes
     \/ /\ "err" \notin {sideRes, mainRes}
        /\ mainRes # sideRes
        /\ pc' = "mismatch_send"
        /\ misRes' = "none"
        /\ UNCHANGED out
     \/ /\ "err" \notin {sideRes, mainRes}
        /\ mainRes = sideRes
        /\ Respond(mainRes)
        /\ UNCHANGED misRes
  /\ UNCHANGED <<behavior, cur, side, sideRes, mainRes, sideQueue, sideInproc, misQueue,
                 misInproc, dropped, mainSeen, sideSeen, sideSent, misSent>>

(* mismatch_chain.process_request(failed_message, None): the send waits  *)
(* for capacity with no timeout.                                          *)
MismatchSubmit ==
  /\ pc = "mismatch_send"
  /\ Mis!Submit(cur)
  /\ misSent' = misSent \cup {cur}
  /\ pc' = "mismatch_wait"
  /\ UNCHANGED <<behavior, cur, side, sideRes, mainRes, misRes, sideQueue, sideInproc,
                 misInproc, dropped, out, mainSeen, sideSeen, sideSent>>

MisStart ==
  /\ Mis!Dequeue
  /\ UNCHANGED <<behavior, pc, cur, side, sideRes, mainRes, misRes, sideQueue, sideInproc,
                 dropped, out, mainSeen, sideSeen, sideSent, misSent>>

(* The mismatch chain finishes a batch and replies on its channel. *)
MisFinish ==
  /\ Mis!Complete
  /\ \E r \in {"ack", "err"} :
       IF pc = "mismatch_wait" /\ cur = misInproc
         THEN misRes' = r
         ELSE UNCHANGED misRes
  /\ UNCHANGED <<behavior, pc, cur, side, sideRes, mainRes, sideQueue, sideInproc,
                 dropped, out, mainSeen, sideSeen, sideSent, misSent>>

(* The reply arrives; `?` propagates an Err, otherwise Ok(chain_response). *)
MismatchReturn ==
  /\ pc = "mismatch_wait"
  /\ misRes # "none"
  /\ Respond(IF misRes = "err" THEN "err" ELSE mainRes)
  /\ UNCHANGED <<behavior, cur, side, sideRes, mainRes, misRes, sideQueue, sideInproc,
                 misQueue, misInproc, dropped, mainSeen, sideSeen, sideSent, misSent>>

(* The connection has ended and both workers have drained their FIFOs. *)
Finished == pc = "closed" \/ (pc = "idle" /\ cur = NumBatches)

Terminated ==
  /\ Finished
  /\ Side!Drained
  /\ Mis!Drained
  /\ UNCHANGED vars

-----------------------------------------------------------------------------
Connection ==
  \/ TeeStart \/ SideSubmit \/ CallNext
  \/ ReconcileIgnore \/ ReconcileFail \/ ReconcileSubchain
  \/ MismatchSubmit \/ MismatchReturn

SideWorker == SideStart \/ SideFinish
MisWorker == MisStart \/ MisFinish

Next ==
  \/ Connection
  \/ SideTimeout
  \/ SideWorker
  \/ MisWorker
  \/ Terminated

Spec == Init /\ [][Next]_vars

(* Every task is polled again once it can make progress and an armed   *)
(* tokio timer eventually fires, but the tx chain's sink may hang forever *)
(* on an item the worker has received.                                   *)
SideStallSpec ==
  /\ Spec
  /\ WF_vars(Connection) /\ WF_vars(SideTimeout)
  /\ WF_vars(SideStart) /\ WF_vars(MisWorker)

(* As SideStallSpec, with the tx sink answering and the mismatch chain's *)
(* sink free to hang forever on an item its worker has received.        *)
MismatchStallSpec ==
  /\ Spec
  /\ WF_vars(Connection) /\ WF_vars(SideTimeout)
  /\ WF_vars(SideWorker) /\ WF_vars(MisStart)

-----------------------------------------------------------------------------
(* Batch b got different successful responses from the two chains. *)
Differ(b) ==
  /\ mainSeen[b] \in Values
  /\ sideSeen[b] \in Values
  /\ mainSeen[b] # sideSeen[b]

(* Ignore: tee_dropped_messages counts exactly the answered batches whose  *)
(* clone never reached tx (process_request_no_return timed out waiting for *)
(* capacity), so a batch is either shadowed or counted, never both.        *)
DropAccounting ==
  behavior = "Ignore" =>
    dropped = Cardinality({b \in Batches : out[b] # "none" /\ b \notin sideSent})

(* FailOnMismatch (spec 8.4): the client sees a successful response only   *)
(* if the side chain computed that same response for that same batch, and *)
(* sees the mismatch error only if both chains succeeded with different   *)
(* responses.  This ties what Tee::transform returns to what the tx       *)
(* worker really computed, through the one-shot reply and the timeout.    *)
FailOnMismatchDetection ==
  behavior = "FailOnMismatch" =>
    \A b \in Batches :
      /\ out[b] \in Values => mainSeen[b] = out[b] /\ sideSeen[b] = out[b]
      /\ out[b] = "mismatch_err" => Differ(b)

(* SubchainOnMismatch: the mismatch chain is given a batch only when the   *)
(* two chains disagreed on it, and every disagreement on a batch that was *)
(* answered successfully was handed to the mismatch chain.                *)
MismatchForwarding ==
  behavior = "SubchainOnMismatch" =>
    \A b \in Batches :
      /\ b \in misSent => Differ(b)
      /\ (out[b] \in Values /\ Differ(b)) => b \in misSent

(* Every batch the client sends is eventually answered, or the connection *)
(* ends with an error: neither BufferedChain can wedge Tee::transform.    *)
Progress == <>Finished

(* Spec 4.4 and 8.3: under Ignore, tee_dropped_messages grows by one for   *)
(* each side error.  Checked once everything has drained: every answered  *)
(* batch whose side run failed or never happened has been counted.        *)
SideErrorsCounted ==
  (behavior = "Ignore" /\ Finished /\ Side!Drained) =>
    dropped = Cardinality({b \in Batches :
                             /\ out[b] # "none"
                             /\ (b \notin sideSent \/ sideSeen[b] = "err")})

(* Spec 4.4: SubchainOnMismatch is observational; when both chains succeed *)
(* the client always gets the down-chain's response unchanged.            *)
SubchainReturnsMain ==
  behavior = "SubchainOnMismatch" =>
    \A b \in Batches :
      (out[b] # "none" /\ mainSeen[b] \in Values /\ sideSeen[b] \in Values)
        => out[b] = mainSeen[b]

(* Spec 8.3, Tee non-interference under Ignore: whatever the tx chain     *)
(* does, erring or hanging, every batch is answered from the main chain    *)
(* and tee_dropped_messages grows by one per side error.  The join waits   *)
(* for process_request_no_return (tee.rs:133) and only its own Err is      *)
(* counted (tee.rs:138).                                                   *)
IgnoreNonInterference ==
  behavior = "Ignore" => ([]SideErrorsCounted /\ Progress)

(* Spec 4.4, SubchainOnMismatch: the mismatch batch is submitted with no   *)
(* reply expected and the main response is always returned: every batch   *)
(* is answered, with the main chain's response when both chains succeeded. *)
(* tee.rs:174 awaits the mismatch chain's reply, with no timeout, and     *)
(* propagates its Err.                                                     *)
SubchainObservational ==
  behavior = "SubchainOnMismatch" => ([]SubchainReturnsMain /\ Progress)

=============================================================================
