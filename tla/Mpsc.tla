------------------------------- MODULE Mpsc -------------------------------
(***************************************************************************)
(* AsyncMpsc (src/transforms/mpsc.rs): a tokio channel of capacity 5 whose *)
(* receiver is owned by one spawned task, test_tee_loop, that drives every *)
(* received message through a chain.  Transforms handed out by           *)
(* get_async_mpsc_forwarder and get_async_mpsc_tee each hold a clone of    *)
(* the Sender; so does the AsyncMpsc itself.                              *)
(*                                                                         *)
(* Each producer is the transform of one connection, which handles one    *)
(* request at a time.  An AsyncMpscForwarder awaits the send and answers   *)
(* with an empty response; an AsyncMpscTee awaits the send of a clone and *)
(* then calls the next transform.  Closing a connection drops its Sender. *)
(* The consumer task first builds a KafkaDestination, whose `expect`      *)
(* panics if rdkafka cannot create the producer; the task then ends and  *)
(* drops the receiver, and every later send fails at once.  Otherwise   *)
(* the KafkaDestination is never used: each message goes through the    *)
(* chain the caller passed to AsyncMpsc::new, whose result the loop      *)
(* discards, and which may never return.                                 *)
(*                                                                         *)
(* A message is <<p, n>>: the n-th request of producer p.                 *)
(***************************************************************************)
EXTENDS Naturals, Sequences, SequencesExt

CONSTANTS
  Forwarders,   \* producers holding an AsyncMpscForwarder
  Tees,         \* producers holding an AsyncMpscTee
  Capacity,     \* the bound of channel::<Message>(5)
  MaxSends,     \* requests each connection sends
  MaxNonePolls  \* bound on the consumer's polls of a closed channel

ASSUME Forwarders \cap Tees = {}
ASSUME Capacity \in Nat \ {0} /\ MaxSends \in Nat \ {0}

Producers == Forwarders \cup Tees
Msgs == Producers \X (1..MaxSends)
NoMsg == <<>>

VARIABLES
  chan,        \* the channel's buffer
  ppc,         \* ppc[p]: "idle", "send" (awaiting send), "next", "closed"
  nsent,       \* nsent[p]: requests producer p has handed to send
  ownerTx,     \* the AsyncMpsc still holds its own Sender
  cpc,         \* consumer task: "start", "recv", "process" or "ended"
  inproc,      \* the message the consumer is driving through the chain
  consumed,    \* history: messages whose chain.process_request completed
  log,         \* history: messages accepted by the channel, in order
  lost,        \* history: messages whose send failed or that the dropped
               \* receiver discarded
  nonePolls    \* times rx.recv() has yielded None

vars == <<chan, ppc, nsent, ownerTx, cpc, inproc, consumed, log, lost, nonePolls>>

TypeOK ==
  /\ chan \in Seq(Msgs) /\ Len(chan) <= Capacity
  /\ ppc \in [Producers -> {"idle", "send", "next", "closed"}]
  /\ nsent \in [Producers -> 0..MaxSends]
  /\ ownerTx \in BOOLEAN
  /\ cpc \in {"start", "recv", "process", "ended"}
  /\ inproc \in Msgs \cup {NoMsg}
  /\ consumed \in Seq(Msgs) /\ log \in Seq(Msgs)
  /\ lost \subseteq Msgs
  /\ nonePolls \in 0..MaxNonePolls

(* Some Sender is still alive, so rx.recv() waits instead of yielding None. *)
SendersAlive == ownerTx \/ \E p \in Producers : ppc[p] # "closed"

(* The next message of producer p. *)
NextMsg(p) == <<p, nsent[p] + 1>>

(* Where the transform goes once its send has returned. *)
AfterSend(p) == IF p \in Tees THEN "next" ELSE "idle"

(* AsyncMpsc::new: an empty channel and the consumer task spawned. *)
Init ==
  /\ chan = <<>>
  /\ ppc = [p \in Producers |-> "idle"]
  /\ nsent = [p \in Producers |-> 0]
  /\ ownerTx = TRUE
  /\ cpc = "start"
  /\ inproc = NoMsg
  /\ consumed = <<>>
  /\ log = <<>>
  /\ lost = {}
  /\ nonePolls = 0

(* A connection hands its transform the next request. *)
Begin(p) ==
  /\ ppc[p] = "idle"
  /\ nsent[p] < MaxSends
  /\ ppc' = [ppc EXCEPT ![p] = "send"]
  /\ UNCHANGED <<chan, nsent, ownerTx, cpc, inproc, consumed, log, lost, nonePolls>>

(* Fault model: the send future is built but never awaited, so nothing is *)
(* sent although the transform carries on as if it had been.              *)
SendNotAwaited(p) ==
  /\ ppc[p] = "send"
  /\ cpc # "ended"
  /\ log' = Append(log, NextMsg(p))
  /\ nsent' = [nsent EXCEPT ![p] = @ + 1]
  /\ ppc' = [ppc EXCEPT ![p] = AfterSend(p)]
  /\ UNCHANGED <<chan, ownerTx, cpc, inproc, consumed, lost, nonePolls>>

(* Fault model: the capacity check is off by one. *)
SendOffByOne(p) ==
  /\ ppc[p] = "send"
  /\ \/ cpc # "ended" /\ Len(chan) <= Capacity
        /\ chan' = Append(chan, NextMsg(p)) /\ log' = Append(log, NextMsg(p))
        /\ UNCHANGED lost
     \/ cpc = "ended" /\ lost' = lost \cup {NextMsg(p)} /\ UNCHANGED <<chan, log>>
  /\ nsent' = [nsent EXCEPT ![p] = @ + 1]
  /\ ppc' = [ppc EXCEPT ![p] = AfterSend(p)]
  /\ UNCHANGED <<ownerTx, cpc, inproc, consumed, nonePolls>>

(* Fault model: a send to a dropped receiver never completes. *)
SendBlocksWhenClosed(p) ==
  /\ ppc[p] = "send"
  /\ cpc # "ended" /\ Len(chan) < Capacity
  /\ chan' = Append(chan, NextMsg(p)) /\ log' = Append(log, NextMsg(p))
  /\ nsent' = [nsent EXCEPT ![p] = @ + 1]
  /\ ppc' = [ppc EXCEPT ![p] = AfterSend(p)]
  /\ UNCHANGED <<ownerTx, cpc, inproc, consumed, lost, nonePolls>>

(* tx.send(m).await: while the receiver lives it completes once the      *)
(* channel has room; once the receiver is dropped it fails at once.  The *)
(* Result is ignored either way: the forwarder returns its empty         *)
(* response and the tee goes on to call next.                            *)
Send(p) ==
  /\ ppc[p] = "send"
  /\ \/ /\ cpc # "ended" /\ Len(chan) < Capacity
        /\ chan' = Append(chan, NextMsg(p)) /\ log' = Append(log, NextMsg(p))
        /\ UNCHANGED lost
     \/ /\ cpc = "ended"
        /\ lost' = lost \cup {NextMsg(p)}
        /\ UNCHANGED <<chan, log>>
  /\ nsent' = [nsent EXCEPT ![p] = @ + 1]
  /\ ppc' = [ppc EXCEPT ![p] = AfterSend(p)]
  /\ UNCHANGED <<ownerTx, cpc, inproc, consumed, nonePolls>>

(* AsyncMpscTee: call_next_transform returns and so does transform. *)
CallNext(p) ==
  /\ ppc[p] = "next"
  /\ ppc' = [ppc EXCEPT ![p] = "idle"]
  /\ UNCHANGED <<chan, nsent, ownerTx, cpc, inproc, consumed, log, lost, nonePolls>>

(* The connection ends between requests and drops its transform's Sender. *)
Close(p) ==
  /\ ppc[p] = "idle"
  /\ ppc' = [ppc EXCEPT ![p] = "closed"]
  /\ UNCHANGED <<chan, nsent, ownerTx, cpc, inproc, consumed, log, lost, nonePolls>>

(* The AsyncMpsc is dropped with its Sender; its JoinHandle is dropped  *)
(* too, which detaches the consumer task without stopping it.          *)
DropOwner ==
  /\ ownerTx
  /\ ownerTx' = FALSE
  /\ UNCHANGED <<chan, ppc, nsent, cpc, inproc, consumed, log, lost, nonePolls>>

(* test_tee_loop builds its KafkaDestination and enters the loop. *)
Start ==
  /\ cpc = "start"
  /\ cpc' = "recv"
  /\ UNCHANGED <<chan, ppc, nsent, ownerTx, inproc, consumed, log, lost, nonePolls>>

(* KafkaDestination::new panics in `expect`: the task ends, dropping the *)
(* receiver and the messages it buffered.                                *)
StartPanic ==
  /\ cpc = "start"
  /\ cpc' = "ended"
  /\ chan' = <<>>
  /\ lost' = lost \cup ToSet(chan)
  /\ UNCHANGED <<ppc, nsent, ownerTx, inproc, consumed, log, nonePolls>>

(* rx.recv() yields Some(m). *)
Recv ==
  /\ cpc = "recv"
  /\ chan # <<>>
  /\ inproc' = Head(chan)
  /\ chan' = Tail(chan)
  /\ cpc' = "process"
  /\ UNCHANGED <<ppc, nsent, ownerTx, consumed, log, lost, nonePolls>>

(* chain.process_request(w).await on the caller's chain returns; the loop *)
(* discards its result, Ok or Err, and goes round.  The chain may also   *)
(* never return, which is no step at all.                                *)
Process ==
  /\ cpc = "process"
  /\ consumed' = Append(consumed, inproc)
  /\ inproc' = NoMsg
  /\ cpc' = "recv"
  /\ UNCHANGED <<chan, ppc, nsent, ownerTx, log, lost, nonePolls>>

(* rx.recv() yields None once every Sender is gone and the buffer is     *)
(* empty; `if let Some` does nothing and the loop polls recv again, for *)
(* ever.  Past MaxNonePolls the further polls are stuttering steps.     *)
RecvNone ==
  /\ cpc = "recv"
  /\ chan = <<>>
  /\ ~SendersAlive
  /\ nonePolls' = IF nonePolls < MaxNonePolls THEN nonePolls + 1 ELSE nonePolls
  /\ UNCHANGED <<chan, ppc, nsent, ownerTx, cpc, inproc, consumed, log, lost>>

Producer(p) == Begin(p) \/ Send(p) \/ CallNext(p) \/ Close(p)
Consumer == Start \/ StartPanic \/ Recv \/ Process \/ RecvNone

Next ==
  \/ \E p \in Producers : Producer(p)
  \/ DropOwner
  \/ Consumer

Spec == Init /\ [][Next]_vars

(* Tokio polls every ready task: a send that can complete, a next call  *)
(* and the consumer's own steps are weakly fair.  Process is not: it is *)
(* the caller's chain, which may hang.  Whether a client sends another  *)
(* request or closes its connection is its own choice.                  *)
FairSpec ==
  /\ Spec
  /\ \A p \in Producers : WF_vars(Send(p)) /\ WF_vars(CallNext(p))
  /\ WF_vars(Start \/ StartPanic \/ Recv \/ RecvNone)

-----------------------------------------------------------------------------
(* An AsyncMpscTee that has started a request passes it to the next     *)
(* transform, unless the consumer's chain hangs for good: as long as    *)
(* test_tee_loop keeps coming back from chain.process_request, or its   *)
(* task has died, the awaited tx.send (mpsc.rs:87) completes or fails   *)
(* and never holds up the main path for ever.                           *)
TeeReachesNext ==
  []<>(cpc # "process") =>
    \A p \in Tees : (ppc[p] = "send") ~> (ppc[p] = "next")

(* Every request handed to AsyncMpscForwarder or AsyncMpscTee reaches   *)
(* the consumer's chain, or the transform reports an error (spec 7: an  *)
(* upstream failure bubbles up unless a transform chooses to recover).  *)
NothingLostSilently == lost = {}

(* test_tee_loop ends once rx.recv() yields None (as a BufferedChain  *)
(* worker exits after draining, spec 3): recv is never polled again    *)
(* after it reported the channel closed.                                *)
LoopEndsOnNone == nonePolls <= 1

=============================================================================
