--------------------------- MODULE TimestampTagger ---------------------------
(***************************************************************************)
(* RedisTimestampTagger (src/transforms/redis_transforms/                  *)
(* timestamp_tagging.rs) on one connection to a Redis server.              *)
(*                                                                         *)
(* For each request batch the transform tries to wrap every keyed command  *)
(* in an EVAL script that returns {original reply, OBJECT IDLETIME key},  *)
(* notes whether the batch holds an EXEC, calls the next transform, and,  *)
(* if `tagged_success || exec_block`, unwraps every reply of the batch    *)
(* and marks it modified.  The Redis server is the environment: it        *)
(* replies in order, queues commands between MULTI and EXEC and answers   *)
(* EXEC with the list of the queued replies.  A shadow server fed the     *)
(* unwrapped batch gives the replies the client would have seen without   *)
(* the tagger.                                                             *)
(*                                                                         *)
(* Replies are records naming their variant: [bytes |-> w], [int |-> n],  *)
(* [list |-> seq], [error |-> w].  The command text, the script and the   *)
(* timestamp arithmetic are abstracted: an EVAL reply carries Idle.       *)
(***************************************************************************)
EXTENDS Naturals, Sequences, SequencesExt

CONSTANTS
  Commands,     \* the commands a client may send
  Keyed,        \* those the codec gives a primary key
  MaxBatch,     \* longest request batch
  MaxQueued     \* longest MULTI queue the client builds

ASSUME Keyed \subseteq Commands
ASSUME {"MULTI", "EXEC"} \subseteq Commands /\ {"MULTI", "EXEC"} \cap Keyed = {}

Bytes(w) == [bytes |-> w]
IntV(n) == [int |-> n]
ListV(s) == [list |-> s]
ErrV == [error |-> "ERR"]
IsList(v) == "list" \in DOMAIN v
Idle == IntV(10)

(* wrap_command succeeds only for a query with a "key" primary key list *)
(* whose first key exists and whose AST is a command list.             *)
Tagged(c) == c \in Keyed

(* tagged_success: seeded false and combined with && over the messages. *)
TaggedSuccess(batch) == FoldLeft(LAMBDA acc, c : acc /\ Tagged(c), FALSE, batch)

ExecBlock(batch) == \E i \in DOMAIN batch : batch[i] = "EXEC"

(* unwrap_response: a list of lists (likely a transaction) keeps the      *)
(* first element of each two-element list, dropping the others; a list  *)
(* of two becomes its first element; anything else is left alone.       *)
unwrap_response(v) ==
  IF ~IsList(v) THEN v
  ELSE IF (\A i \in DOMAIN v.list : IsList(v.list[i])) /\ Len(v.list) > 1
    THEN ListV([i \in 1..Len(SelectSeq(v.list, LAMBDA x : Len(x.list) = 2)) |->
                  SelectSeq(v.list, LAMBDA x : Len(x.list) = 2)[i].list[1]])
  ELSE IF Len(v.list) = 2 THEN v.list[1]
  ELSE v

-----------------------------------------------------------------------------
(* The Redis server, one command at a time.  Server state: in MULTI or   *)
(* not, and the replies queued for EXEC.                                *)
ReplyOf(c) ==
  CASE c = "SET" -> Bytes("OK")
    [] c = "GET" -> Bytes("v")
    [] c = "CONFIG" -> ListV(<<Bytes("maxmemory"), Bytes("0")>>)
    [] c = "PING" -> Bytes("PONG")

Wrap(v, w) == IF w THEN ListV(<<v, Idle>>) ELSE v

RedisStep(st, c, w) ==
  CASE c = "MULTI" ->
         IF st.multi THEN <<ErrV, st>> ELSE <<Bytes("OK"), [multi |-> TRUE, q |-> <<>>]>>
    [] c = "EXEC" ->
         IF st.multi THEN <<ListV(st.q), [multi |-> FALSE, q |-> <<>>]>> ELSE <<ErrV, st>>
    [] OTHER ->
         IF st.multi THEN <<Bytes("QUEUED"), [st EXCEPT !.q = Append(@, Wrap(ReplyOf(c), w))]>>
         ELSE <<Wrap(ReplyOf(c), w), st>>

(* Run a batch: <<replies, final state>>. *)
RECURSIVE RedisRun(_, _, _)
RedisRun(st, cmds, ws) ==
  IF cmds = <<>> THEN <<<<>>, st>>
  ELSE LET r == RedisStep(st, Head(cmds), Head(ws))
           rest == RedisRun(r[2], Tail(cmds), Tail(ws))
       IN <<<<r[1]>> \o rest[1], rest[2]>>

NoWrap(batch) == [i \in DOMAIN batch |-> FALSE]

-----------------------------------------------------------------------------
VARIABLES
  pc,          \* "idle", "next" (awaiting call_next_transform) or "closed"
  batch,       \* the commands of the current batch
  wrapped,     \* wrapped[i]: try_tag_query_message succeeded for message i
  unwrap,      \* tagged_success || exec_block, fixed before the await
  server,      \* the Redis server's state
  shadow,      \* the state of a server that never saw the tagger
  expected,    \* replies the client would get without the tagger
  replies,     \* replies the server sent for the batch
  result,      \* replies the transform returned
  modified     \* modified[i]: message i of the returned batch is marked modified

vars == <<pc, batch, wrapped, unwrap, server, shadow, expected, replies, result,
          modified>>

Batches == UNION {[1..n -> Commands] : n \in 1..MaxBatch}

TypeOK ==
  /\ pc \in {"idle", "next", "closed"}
  /\ batch \in Batches \cup {<<>>}
  /\ wrapped \in [DOMAIN batch -> BOOLEAN]
  /\ unwrap \in BOOLEAN
  /\ server.multi \in BOOLEAN /\ Len(server.q) <= MaxQueued
  /\ shadow.multi = server.multi /\ Len(shadow.q) = Len(server.q)
  /\ DOMAIN result = DOMAIN expected /\ DOMAIN replies = DOMAIN result
  /\ modified \in [DOMAIN result -> BOOLEAN]

Init ==
  /\ pc = "idle"
  /\ batch = <<>>
  /\ wrapped = <<>>
  /\ unwrap = FALSE
  /\ server = [multi |-> FALSE, q |-> <<>>]
  /\ shadow = server
  /\ expected = <<>>
  /\ replies = <<>>
  /\ result = <<>>
  /\ modified = <<>>

(* Fault model: message positions taken 0-based. *)
TransformStartZeroBased ==
  /\ pc = "idle"
  /\ \E b \in Batches :
       /\ Len(RedisRun(server, b, NoWrap(b))[2].q) <= MaxQueued
       /\ batch' = b
       /\ wrapped' = [i \in 0..Len(b) - 1 |-> Tagged(b[i + 1])]
       /\ unwrap' = (TaggedSuccess(b) \/ ExecBlock(b))
  /\ pc' = "next"
  /\ UNCHANGED <<server, shadow, expected, replies, result, modified>>

(* transform up to the await: tag what can be tagged and decide whether *)
(* the replies will be unwrapped.  The client keeps its MULTI queue     *)
(* within MaxQueued.                                                    *)
TransformStart ==
  /\ pc = "idle"
  /\ \E b \in Batches :
       /\ Len(RedisRun(server, b, NoWrap(b))[2].q) <= MaxQueued
       /\ batch' = b
       /\ wrapped' = [i \in DOMAIN b |-> Tagged(b[i])]
       /\ unwrap' = (TaggedSuccess(b) \/ ExecBlock(b))
  /\ pc' = "next"
  /\ UNCHANGED <<server, shadow, expected, replies, result, modified>>

TransformReturn ==
  LET run == RedisRun(server, batch, wrapped)
      ref == RedisRun(shadow, batch, NoWrap(batch))
  IN
  /\ pc = "next"
  /\ server' = run[2]
  /\ shadow' = ref[2]
  /\ expected' = ref[1]
  /\ replies' = run[1]
  /\ result' = IF unwrap THEN [i \in DOMAIN run[1] |-> unwrap_response(run[1][i])]
               ELSE run[1]
  /\ modified' = [i \in DOMAIN run[1] |-> unwrap]
  /\ pc' = "idle"
  /\ UNCHANGED <<batch, wrapped, unwrap>>

(* call_next_transform returns Err: it is returned as is and the server *)
(* loop ends the connection.                                            *)
TransformFail ==
  /\ pc = "next"
  /\ pc' = "closed"
  /\ UNCHANGED <<batch, wrapped, unwrap, server, shadow, expected, replies, result,
                 modified>>

Closed ==
  /\ pc = "closed"
  /\ UNCHANGED vars

Next == TransformStart \/ TransformReturn \/ TransformFail \/ Closed

Spec == Init /\ [][Next]_vars

-----------------------------------------------------------------------------
=============================================================================
