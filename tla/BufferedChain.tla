--------------------------- MODULE BufferedChain ---------------------------
(***************************************************************************)
(* A transform chain fronted by a bounded FIFO and one worker task         *)
(* (BufferedChain, spec section 4.3).  The chain code itself lives outside *)
(* the sources we have, so this module is written from the spec.          *)
(*                                                                         *)
(* A submitter enqueues a work item while the FIFO holds fewer than        *)
(* BufferSize items and otherwise waits (backpressure).  The worker        *)
(* dequeues the head item, drives the inner chain to completion and only   *)
(* then dequeues the next one.  An item carries a one-shot reply channel   *)
(* when it was submitted by process_request and none when it was          *)
(* submitted by process_request_no_return.  Dropping the BufferedChain     *)
(* closes the FIFO; the worker still drains what was already queued.      *)
(*                                                                         *)
(* The composing module owns what a reply means; this module owns only the *)
(* FIFO and the worker slot.                                               *)
(***************************************************************************)
EXTENDS Naturals, Sequences

CONSTANTS
  BufferSize,   \* buffer_size of the Tee config (default 5)
  Items,        \* the work items that may be submitted
  NoItem        \* the worker holds no item

ASSUME BufferSize \in Nat \ {0}
ASSUME NoItem \notin Items

VARIABLES
  queue,        \* items enqueued and not yet taken by the worker
  inproc        \* the item the worker is driving through the chain

vars == <<queue, inproc>>

TypeOK ==
  /\ queue \in Seq(Items)
  /\ inproc \in Items \cup {NoItem}

Init ==
  /\ queue = <<>>
  /\ inproc = NoItem

(* The send half of the bounded channel has capacity for one more item. *)
HasCapacity == Len(queue) < BufferSize

(* A submitter's send completes: the item joins the tail of the FIFO. *)
Submit(item) ==
  /\ HasCapacity
  /\ queue' = Append(queue, item)

(* The worker is idle and receives the next item in enqueue order. *)
Dequeue ==
  /\ inproc = NoItem
  /\ queue # <<>>
  /\ inproc' = Head(queue)
  /\ queue' = Tail(queue)

(* The inner chain has returned for the item the worker holds; the worker *)
(* becomes idle.  What it does with the result is the caller's business.  *)
Complete ==
  /\ inproc # NoItem
  /\ inproc' = NoItem
  /\ UNCHANGED queue

(* No submitted item is still waiting for or held by the worker. *)
Drained == queue = <<>> /\ inproc = NoItem

=============================================================================
