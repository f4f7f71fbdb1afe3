---------------------------- MODULE ClusterVerify ----------------------------
(***************************************************************************)
(* `tool cluster-verify' and `tool lineage': what the tool makes of the    *)
(* traces of several nodes, given as the sequence of files on its command  *)
(* line.  A problem is its kind, not its wording.                           *)
(***************************************************************************)
EXTENDS TraceVerify, FiniteSets, TLC

LOCAL Problem(condition, kind) == IF condition THEN {kind} ELSE {}

(***************************************************************************)
(* Which nodes a set of traces covers.  Send is the only event that does   *)
(* not name its node.                                                      *)
(***************************************************************************)
NodesOf(events) ==
    {events[i].node : i \in {j \in DOMAIN events : events[j].kind # "Send"}}

included_nodes(traces) == UNION {NodesOf(traces[f]) : f \in DOMAIN traces}

FileProblems(traces) ==
    UNION {Problem(NodesOf(traces[f]) = {}, "no_events")
           \cup Problem(Cardinality(NodesOf(traces[f])) > 1, "mixed_nodes") :
           f \in DOMAIN traces}

(***************************************************************************)
(* The three maps of network evidence: from a message's key to the last    *)
(* event that has it, over all files in order.                             *)
(***************************************************************************)
(* Mutant: message ids taken for unique across nodes. *)
ClusterKey_ById(ev) == <<ev.id>>

ClusterKey(ev) ==
    IF ev.kind = "NetSend" THEN <<ev.node, ev.id, ev.to_node>>
                           ELSE <<ev.from_node, ev.id, ev.node>>

Insert(acc, ev) ==
    [map       |-> (ClusterKey(ev) :> ev) @@ acc.map,
     duplicate |-> acc.duplicate \/ ClusterKey(ev) \in DOMAIN acc.map]

Evidence(traces, kind) ==
    FoldLeft(Insert, [map |-> <<>>, duplicate |-> FALSE],
             SelectSeq(FlattenSeq(traces), LAMBDA ev : ev.kind = kind))

(***************************************************************************)
(* Delivered messages and their lineage.  A delivery takes the oldest      *)
(* message produced under its actor and id.                                *)
(***************************************************************************)
CollectEvent(acc, ev) ==
    CASE ev.kind \in {"Send", "NetRecv"} ->
           [acc EXCEPT !.produced = Append(@, [to |-> ev.to, id |-> ev.id, msg |-> ev.msg])]
      [] ev.kind = "Deliver" ->
           LET queue == {i \in DOMAIN acc.produced : /\ acc.produced[i].to = ev.to
                                                     /\ acc.produced[i].id = ev.id}
               first == CHOOSE i \in queue : \A j \in queue : i <= j
           IN  IF queue = {} THEN acc
               ELSE [produced |-> RemoveAt(acc.produced, first),
                     out |-> Append(acc.out, [node |-> ev.node, id |-> ev.id,
                                              msg |-> acc.produced[first].msg])]
      [] OTHER -> acc

collect_deliveries_with_payload(events) ==
    FoldLeft(CollectEvent, [produced |-> <<>>, out |-> <<>>], events).out

(* Keyed by sender and message id; a later delivery replaces an earlier    *)
(* one; messages without provenance are not indexed.                       *)
IndexDelivery(index, d) ==
    IF d.msg.prov = <<>> THEN index
    ELSE (<<d.msg.from_node, d.id>> :> [local_node |-> d.node, prov |-> d.msg.prov[1]])
         @@ index

build_lineage_index(events) ==
    FoldLeft(IndexDelivery, <<>>, collect_deliveries_with_payload(events))

(* Mutant: the parent is looked for at the sender of the record itself. *)
lineage_parent_key_sender(key, rec) == <<key[1], rec.prov.parent_msg>>

lineage_parent_key(key, rec) == <<rec.prov.parent_node, rec.prov.parent_msg>>

(* How `tool lineage' classifies the records of one trace. *)
summarize_lineage(index) ==
    LET parent(k) == lineage_parent_key(k, index[k])
        roots     == {k \in DOMAIN index : index[k].prov.hops = 0}
        resolved  == {k \in DOMAIN index \ roots : parent(k) \in DOMAIN index}
        dangling  == (DOMAIN index \ roots) \ resolved
        internal  == {k \in dangling : parent(k)[1] = index[k].local_node}
    IN  [roots |-> roots, resolved_parents |-> resolved,
         unresolved_internal_parents |-> internal,
         unresolved_external_parents |-> dangling \ internal]

(* How the walk of `tool lineage-path' over a message's ancestors ends.  A  *)
(* cycle and the limit of 256 messages are one outcome, "endless".         *)
lineage_path(index, start) ==
    LET walk[d \in 0..256, k \in DOMAIN index] ==
            LET parent == lineage_parent_key(k, index[k])
            IN  IF d = 256 THEN "endless"
                ELSE IF index[k].prov.hops = 0 THEN "root"
                ELSE IF parent = k THEN "self"
                ELSE IF parent \notin DOMAIN index THEN "missing"
                ELSE walk[d + 1, parent]
    IN  IF start \in DOMAIN index THEN walk[0, start] ELSE "not_found"

(***************************************************************************)
(* The lineage of all traces together.                                     *)
(***************************************************************************)
MergeIndex(acc, events) ==
    LET index == build_lineage_index(events)
    IN  [map       |-> index @@ acc.map,
         duplicate |-> acc.duplicate \/ DOMAIN index \cap DOMAIN acc.map # {}]

global_lineage(traces) ==
    FoldLeft(MergeIndex, [map |-> <<>>, duplicate |-> FALSE], traces)

(* What the tool says of every delivered message that is no root: its      *)
(* parent is among the traces, or of an absent node, or missing.           *)
LineageReport(traces, included) ==
    LET all      == global_lineage(traces)
        global   == all.map
        parent(k) == lineage_parent_key(k, global[k])
        children == {k \in DOMAIN global : global[k].prov.hops # 0}
        resolved == {k \in children : parent(k) \in DOMAIN global}
        missing  == {k \in children \ resolved : parent(k)[1] \in included}
        Disagree(p, up) == \/ p.hops # up.hops + 1
                           \/ p.origin_msg # up.origin_msg
                           \/ p.origin_node # up.origin_node
                           \/ p.origin_service # up.origin_service
    IN  [ problems |->
              Problem(all.duplicate, "duplicate_lineage")
              \cup Problem(\E k \in resolved :
                              Disagree(global[k].prov, global[parent(k)].prov), "bad_parent")
              \cup Problem(missing # {}, "missing_parent"),
          resolved |-> Cardinality(resolved),
          external |-> Cardinality(children \ (resolved \cup missing)) ]

(***************************************************************************)
(* The verdict on a set of traces.                                         *)
(***************************************************************************)
verify_cluster(traces) ==
    LET included == included_nodes(traces)
        sends    == Evidence(traces, "NetSend")
        recvs    == Evidence(traces, "NetRecv")
        drops    == Evidence(traces, "Drop")
        sent     == DOMAIN sends.map
        inner(e) == {k \in DOMAIN e.map : e.map[k].from_node \in included}
        matched  == {k \in inner(recvs) \cap sent : sends.map[k].msg = recvs.map[k].msg}
        due      == {k \in sent : sends.map[k].to_node \in included}
        got      == DOMAIN recvs.map
        dropped  == DOMAIN drops.map
        lineage  == LineageReport(traces, included)
        outer(e) == DOMAIN e.map \ inner(e)
    IN  [ problems |->
              FileProblems(traces)
              \cup Problem(sends.duplicate, "duplicate_send")
              \cup Problem(recvs.duplicate, "duplicate_recv")
              \cup Problem(drops.duplicate, "duplicate_drop")
              \cup Problem(~(inner(recvs) \subseteq sent), "recv_without_send")
              \cup Problem((inner(recvs) \cap sent) # matched, "payload_mismatch")
              \cup Problem(~(inner(drops) \subseteq sent), "drop_without_send")
              \cup Problem(due \cap got \cap dropped # {}, "recv_and_drop")
              \cup Problem(~(due \subseteq got \cup dropped), "send_without_evidence")
              \cup lineage.problems,
          matched_recv |-> Cardinality(matched),
          matched_drop |-> Cardinality(inner(drops) \cap sent),
          external_inbound |-> Cardinality(outer(recvs)) + Cardinality(outer(drops)),
          external_outbound |-> Cardinality(sent \ due),
          resolved_lineage_parents |-> lineage.resolved,
          external_lineage_parents |-> lineage.external ]

(* How `tool cluster-verify' ends: every trace is judged alone first, and  *)
(* a problem of one of them ends the command before they are compared.     *)
had_local_errors(traces) ==
    \E f \in DOMAIN traces :
        verify_trace(traces[f], positions(traces[f])).problems # {}

(* Mutant: traces with problems of their own are compared all the same.    *)
cluster_verify_anyway(traces) ==
    IF verify_cluster(traces).problems = {} THEN "ok" ELSE "failed"

cluster_verify(traces) ==
    IF had_local_errors(traces) THEN "aborted"
    ELSE IF verify_cluster(traces).problems = {} THEN "ok" ELSE "failed"

==============================================================================
