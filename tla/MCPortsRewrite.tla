--------------------------- MODULE MCPortsRewrite ---------------------------
(* Model-checking instance of PortsRewrite: the port of the spec's S1    *)
(* scenario, and batches of up to two pipelined requests.  The unit      *)
(* tests of redis_cluster_ports_rewrite.rs are restated on the model's   *)
(* operators and checked by TLC before the state space is explored.     *)
EXTENDS PortsRewrite

MCNewPort == 2004

(* test_is_cluster_slots: every case of CLUSTER SLOTS is detected, GET   *)
(* key1 is not.                                                           *)
test_is_cluster_slots ==
  /\ \A combo \in {<<"cluster", "slots">>, <<"CLUSTER", "SLOTS">>,
                   <<"cluster", "SLOTS">>, <<"CLUSTER", "slots">>} :
       is_cluster_slots(Arr(<<Bulk(combo[1]), Bulk(combo[2])>>))
  /\ ~is_cluster_slots(Arr(<<Bulk("GET"), Bulk("k")>>))

(* The captured reply of test_rewrite_port: three slot entries, each with *)
(* a master and a replica [ip, 6379, id].                                 *)
SlotEntry(from, to, master, replica) ==
  Arr(<<Int(from), Int(to), Arr(<<Bulk(master), Int(6379), Bulk("id")>>),
                            Arr(<<Bulk(replica), Int(6379), Bulk("id")>>)>>)
slots_pcap ==
  Arr(<<SlotEntry(10923, 16383, "192.168.80.6", "192.168.80.3"),
        SlotEntry(5461, 10922, "192.168.80.5", "192.168.80.2"),
        SlotEntry(0, 5460, "192.168.80.7", "192.168.80.4")>>)

(* test_rewrite_port: rewriting to 2004 succeeds, and parse_slots then   *)
(* finds each master and replica, keyed by the slot range's end, at port *)
(* 2004.                                                                  *)
test_rewrite_port ==
  LET r == rewrite_port(slots_pcap)
      entries == {r.frame.array[i] : i \in DOMAIN r.frame.array}
      at(k) == {<<e.array[2].int, e.array[k].array[1].bulk, e.array[k].array[2].int>> : e \in entries}
  IN  /\ r.ok
      /\ at(3) = {<<5460, "192.168.80.7", 2004>>, <<10922, "192.168.80.5", 2004>>,
                  <<16383, "192.168.80.6", 2004>>}
      /\ at(4) = {<<5460, "192.168.80.4", 2004>>, <<10922, "192.168.80.2", 2004>>,
                  <<16383, "192.168.80.3", 2004>>}

ASSUME test_is_cluster_slots
ASSUME test_rewrite_port

=============================================================================
