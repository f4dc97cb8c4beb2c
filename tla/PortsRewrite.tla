---------------------------- MODULE PortsRewrite ----------------------------
(***************************************************************************)
(* RedisClusterPortsRewrite (shotover-proxy/src/transforms/redis_transforms/*)
(* redis_cluster_ports_rewrite.rs).                                        *)
(*                                                                         *)
(* Tee-free, single-task transform: it marks the requests of a batch that  *)
(* are CLUSTER SLOTS, calls the next transform, and rewrites every node    *)
(* port in the responses at the marked positions to new_port.  The pure   *)
(* helpers is_cluster_slots and rewrite_port are operators; the transform  *)
(* is a small state machine that loops over request batches, so that TLC  *)
(* enumerates every batch of the bounded request and response sets.       *)
(*                                                                         *)
(* RESP frames are records with one field naming the variant: [bulk |-> s],*)
(* [int |-> n], [array |-> seq] and [error |-> s].  Bulk strings are drawn *)
(* from a small set of words; to_ascii_uppercase is the table Upper.      *)
(***************************************************************************)
EXTENDS Naturals, Sequences

CONSTANTS
  NewPort,      \* new_port of the config (a u16)
  MaxBatch      \* longest request batch

ASSUME NewPort \in 0..65535
ASSUME MaxBatch \in Nat \ {0}

Bulk(s) == [bulk |-> s]
Int(n) == [int |-> n]
Arr(a) == [array |-> a]
IsBulk(f) == "bulk" \in DOMAIN f
IsInt(f) == "int" \in DOMAIN f
IsArray(f) == "array" \in DOMAIN f

(* [u8]::to_ascii_uppercase on the words that occur in the model. *)
Upper == [w \in {"cluster", "Cluster", "CLUSTER", "slots", "SLOTS", "shards", "get", "GET", "k", "ip"} |->
            CASE w \in {"cluster", "Cluster", "CLUSTER"} -> "CLUSTER"
              [] w \in {"slots", "SLOTS"} -> "SLOTS"
              [] w = "shards" -> "SHARDS"
              [] w \in {"get", "GET"} -> "GET"
              [] w = "k" -> "K"
              [] w = "ip" -> "IP"]

(* Positions 0..=1 of a slot entry (slot start and end) are skipped. *)
Skipped(i) == i <= 2

-----------------------------------------------------------------------------
(* is_cluster_slots: map each element to Some(uppercase) while it is a    *)
(* bulk string (take_while), and compare that prefix with [CLUSTER, SLOTS].*)
RECURSIVE UpperBulkPrefix(_)
UpperBulkPrefix(s) ==
  IF s = <<>> \/ ~IsBulk(Head(s)) THEN <<>>
  ELSE <<Upper[Head(s).bulk]>> \o UpperBulkPrefix(Tail(s))

(* Fault model: only the first word is compared with CLUSTER. *)
is_cluster_command(frame) ==
  IsArray(frame) /\ SubSeq(UpperBulkPrefix(frame.array), 1, 1) = <<"CLUSTER">>

is_cluster_slots(frame) ==
  IsArray(frame) /\ UpperBulkPrefix(frame.array) = <<"CLUSTER", "SLOTS">>

(* The target of one host-port slot matches [BulkString(ip), Integer(port), ..]. *)
IsHostPort(f) ==
  IsArray(f) /\ Len(f.array) >= 2 /\ IsBulk(f.array[1]) /\ IsInt(f.array[2])

WithPort(f) == Arr([f.array EXCEPT ![2] = Int(NewPort)])

(* rewrite_port on one element of the outer array: a slot entry has every *)
(* element after the first two rewritten, or bails on the first that is   *)
(* not a host-port array; an element that is not an array is left alone. *)
RewriteSlot(elem) ==
  IF ~IsArray(elem) THEN [ok |-> TRUE, frame |-> elem]
  ELSE LET slot == elem.array
           bad == {j \in DOMAIN slot : ~Skipped(j) /\ ~IsHostPort(slot[j])}
       IN IF bad # {} THEN [ok |-> FALSE, frame |-> elem]
          ELSE [ok |-> TRUE,
                frame |-> Arr([j \in DOMAIN slot |->
                                 IF Skipped(j) THEN slot[j] ELSE WithPort(slot[j])])]

(* rewrite_port: Ok with every slot entry rewritten, or Err if one bails; *)
(* a frame that is not an array is returned unchanged.                    *)
rewrite_port(frame) ==
  IF ~IsArray(frame) THEN [ok |-> TRUE, frame |-> frame]
  ELSE LET rs == [i \in DOMAIN frame.array |-> RewriteSlot(frame.array[i])]
       IN [ok |-> \A i \in DOMAIN rs : rs[i].ok,
           frame |-> Arr([i \in DOMAIN rs |-> rs[i].frame])]

-----------------------------------------------------------------------------
(* The bounded inputs. *)
HostPort == Arr(<<Bulk("ip"), Int(6379)>>)
Requests ==
  { Arr(<<Bulk("cluster"), Bulk("slots")>>),
    Arr(<<Bulk("CLUSTER"), Bulk("SLOTS")>>),
    Arr(<<Bulk("Cluster"), Bulk("slots"), Int(1)>>),
    Arr(<<Bulk("CLUSTER"), Bulk("SLOTS"), Bulk("k")>>),
    Arr(<<Bulk("CLUSTER"), Int(1), Bulk("SLOTS")>>),
    Arr(<<Bulk("cluster"), Bulk("shards")>>),
    Arr(<<Bulk("GET"), Bulk("k")>>),
    Bulk("CLUSTER") }

SlotElems == { HostPort, Arr(<<Bulk("ip"), Int(6379), Bulk("id")>>),
               Arr(<<Int(6379)>>), Arr(<<Bulk("ip")>>), Int(6379) }
SlotEntries ==
  { Arr(<<Int(0), Int(5460)>> \o t) : t \in {<<>>} \cup {<<e>> : e \in SlotElems}
                                         \cup {<<HostPort, e>> : e \in SlotElems} }
  \cup { Arr(<<Int(0)>>), Int(0) }
SlotsResponses ==
  { Arr(<<e>>) : e \in SlotEntries }
  \cup { Arr(<<e1, e2>>) : e1, e2 \in {Arr(<<Int(0), Int(1), HostPort>>),
                                       Arr(<<Int(2), Int(3), HostPort, HostPort>>),
                                       Arr(<<Int(2), Int(3), Int(4)>>)} }
  \cup { Arr(<<>>), [error |-> "ERR"] }
OtherResponses == { Bulk("k"), [error |-> "ERR"] }
(* A CLUSTER SHARDS reply (RESP2): per shard ["slots", [start, end], ..]. *)
ShardsReply == Arr(<<Arr(<<Bulk("slots"), Arr(<<Int(0), Int(5460)>>), Bulk("nodes")>>)>>)

(* Spec 4.6: the two-argument array CLUSTER SLOTS, case-insensitive. *)
IsSlotsCommand(req) ==
  /\ IsArray(req) /\ Len(req.array) = 2
  /\ \A j \in 1..2 : IsBulk(req.array[j])
  /\ Upper[req.array[1].bulk] = "CLUSTER" /\ Upper[req.array[2].bulk] = "SLOTS"

IsClusterCommand(req) ==
  IsArray(req) /\ IsBulk(req.array[1]) /\ Upper[req.array[1].bulk] = "CLUSTER"

(* Redis answers CLUSTER SLOTS with a slot map or an error, CLUSTER      *)
(* SHARDS with its nested array, any other CLUSTER form (extra argument, *)
(* unknown subcommand) with an arity or syntax error, and anything else  *)
(* with a bulk string or an error.                                       *)
RedisReplies(req) ==
  CASE IsSlotsCommand(req) -> SlotsResponses
    [] IsClusterCommand(req) /\ Len(req.array) = 2 /\ IsBulk(req.array[2])
         /\ Upper[req.array[2].bulk] = "SHARDS" -> {ShardsReply, [error |-> "ERR"]}
    [] IsClusterCommand(req) -> {[error |-> "ERR"]}
    [] OTHER -> OtherResponses

(* The down-chain answers one response per request, in order (spec 4.1). *)
ResponseBatches(reqs) ==
  { r \in [DOMAIN reqs -> SlotsResponses \cup OtherResponses \cup {ShardsReply}] :
      \A i \in DOMAIN reqs : r[i] \in RedisReplies(reqs[i]) }

-----------------------------------------------------------------------------
VARIABLES
  pc,          \* "idle" or "next" (awaiting call_next_transform)
  requests,    \* the batch being transformed
  indices,     \* cluster_slots_indices
  response,    \* what call_next_transform returned, a ChainResponse
  result       \* what transform returned, a ChainResponse (or NoResult)

vars == <<pc, requests, indices, response, result>>

Batch(S) == UNION {[1..n -> S] : n \in 1..MaxBatch}

(* ChainResponse: Ok(batch) or Err. *)
Ok(b) == [ok |-> TRUE, msgs |-> b]
Err == [ok |-> FALSE, msgs |-> <<>>]
NoResult == [ok |-> FALSE, msgs |-> <<"none">>]

TypeOK ==
  /\ pc \in {"idle", "next"}
  /\ requests \in Batch(Requests) \cup {<<>>}
  /\ indices \subseteq 1..MaxBatch
  /\ response \in {Ok(b) : b \in Batch(SlotsResponses \cup OtherResponses \cup {ShardsReply})}
                  \cup {Err, NoResult}
  /\ result \in {Err, NoResult} \/ (result.ok /\ DOMAIN result.msgs = DOMAIN response.msgs)

(* Fault model: enumerate()'s 0-based positions used as sequence indices. *)
TransformStartZeroBased ==
  /\ pc = "idle"
  /\ \E reqs \in Batch(Requests) :
       /\ requests' = reqs
       /\ indices' = {i - 1 : i \in {i \in DOMAIN reqs : is_cluster_slots(reqs[i])}}
  /\ pc' = "next"
  /\ response' = NoResult
  /\ result' = NoResult

Init ==
  /\ pc = "idle"
  /\ requests = <<>>
  /\ indices = {}
  /\ response = NoResult
  /\ result = NoResult

(* transform, up to the await: collect the indices of CLUSTER SLOTS requests. *)
TransformStart ==
  /\ pc = "idle"
  /\ \E reqs \in Batch(Requests) :
       /\ requests' = reqs
       /\ indices' = {i \in DOMAIN reqs : is_cluster_slots(reqs[i])}
  /\ pc' = "next"
  /\ response' = NoResult
  /\ result' = NoResult

(* Fault model: the collected indices are ignored and every reply of the *)
(* batch goes through rewrite_port.                                       *)
TransformReturnAll ==
  /\ pc = "next"
  /\ \E resp \in {Ok(b) : b \in ResponseBatches(requests)} \cup {Err} :
       /\ response' = resp
       /\ result' =
            IF ~resp.ok THEN Err
            ELSE IF \E i \in DOMAIN resp.msgs : ~rewrite_port(resp.msgs[i]).ok THEN Err
            ELSE Ok([i \in DOMAIN resp.msgs |-> rewrite_port(resp.msgs[i]).frame])
  /\ pc' = "idle"
  /\ UNCHANGED <<requests, indices>>

(* call_next_transform returns, `?` propagates an Err; otherwise the ports *)
(* of the marked responses are rewritten, bailing with Err on the first    *)
(* failure (the partly rewritten batch is dropped).                        *)
TransformReturn ==
  /\ pc = "next"
  /\ \E resp \in {Ok(b) : b \in ResponseBatches(requests)} \cup {Err} :
       /\ response' = resp
       /\ result' =
            IF ~resp.ok THEN Err
            ELSE IF \E i \in indices : ~rewrite_port(resp.msgs[i]).ok THEN Err
            ELSE Ok([i \in DOMAIN resp.msgs |->
                       IF i \in indices THEN rewrite_port(resp.msgs[i]).frame
                       ELSE resp.msgs[i]])
  /\ pc' = "idle"
  /\ UNCHANGED <<requests, indices>>

Next == TransformStart \/ TransformReturn

Spec == Init /\ [][Next]_vars

-----------------------------------------------------------------------------
(* Spec 4.6: the shape of a CLUSTER SLOTS reply, an array of slot entries, *)
(* each [start, end, node...] with every node [ip, port, ...].             *)
SlotMapWellFormed(f) ==
  /\ IsArray(f)
  /\ \A i \in DOMAIN f.array :
       LET e == f.array[i] IN
       /\ IsArray(e) /\ Len(e.array) >= 2
       /\ IsInt(e.array[1]) /\ IsInt(e.array[2])
       /\ \A j \in 3..Len(e.array) : IsHostPort(e.array[j])

(* Spec 8.6, the reference rewrite: every node port is new_port and every *)
(* other field is as it was.                                               *)
ExpectedRewrite(f) ==
  Arr([i \in DOMAIN f.array |->
         Arr([j \in DOMAIN f.array[i].array |->
                IF j \in {1, 2} THEN f.array[i].array[j]
                ELSE Arr([f.array[i].array[j].array EXCEPT ![2] = Int(NewPort)])])])

(* A returned batch answers each marked request whose reply is a well-   *)
(* formed slot map with exactly the reference rewrite of it, and every    *)
(* other reply untouched; and the transform fails only when a marked     *)
(* reply is an array that is not a well-formed slot map.  This ties the  *)
(* indices collected before the await to the positions rewritten after.  *)
RewriteCorrect ==
  (pc = "idle" /\ response.ok) =>
    LET r == response.msgs IN
    /\ (\A i \in indices : SlotMapWellFormed(r[i]) \/ ~IsArray(r[i])) => result.ok
    /\ result.ok =>
          \A i \in DOMAIN r :
            /\ (i \notin indices \/ ~IsArray(r[i])) => result.msgs[i] = r[i]
            /\ (i \in indices /\ SlotMapWellFormed(r[i]))
                  => result.msgs[i] = ExpectedRewrite(r[i])

(* is_cluster_slots marks more than spec 4.6's two-argument CLUSTER     *)
(* SLOTS: take_while stops at the first argument that is not a bulk       *)
(* string, so CLUSTER SLOTS followed by one is marked too.  That is       *)
(* harmless only while Redis answers every such request with an error,    *)
(* which rewrite_port leaves alone: unless a true CLUSTER SLOTS reply is  *)
(* malformed, the batch comes back Ok and the reply to every other        *)
(* request, CLUSTER SHARDS's nested arrays included, is untouched.        *)
OthersUntouched ==
  (pc = "idle" /\ response.ok) =>
    LET r == response.msgs IN
    (\A j \in DOMAIN r : IsSlotsCommand(requests[j]) => SlotMapWellFormed(r[j]) \/ ~IsArray(r[j]))
      => /\ result.ok
         /\ \A i \in DOMAIN r : ~IsSlotsCommand(requests[i]) => result.msgs[i] = r[i]

=============================================================================
