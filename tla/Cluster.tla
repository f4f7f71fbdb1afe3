------------------------------- MODULE Cluster -------------------------------
(***************************************************************************)
(* Several recording nodes that send each other messages over TCP, until   *)
(* each has used up its steps, failed in a handler or was killed; and what *)
(* the tools then make of the traces they left.                            *)
(*                                                                         *)
(* The network.  A message has a connection of its own, so messages arrive *)
(* in any order; and it need not arrive: the receiver may be down for all  *)
(* 40 attempts to connect, or end with the message in its channel.  So an  *)
(* envelope in flight is simply one that has not been drained.  A sender   *)
(* that waits for a receiver is covered by a sender that goes on.          *)
(***************************************************************************)
EXTENDS Runtime, ClusterVerify

CONSTANTS
    Config,     \* the command line of each node
    Lossy,      \* the nodes that run with --fault-drop-every
    Killable,   \* the nodes that may be killed
    MaxLives,   \* how often a node is started at most
    MaxBatch    \* how many envelopes one iteration receives at most

Nodes == DOMAIN Config

ASSUME ConfigAssumption ==
    /\ Nodes \subseteq Nat /\ Nodes # {}
    /\ \A n \in Nodes :
          /\ Config[n].node = n /\ Config[n].mode = "record"
          /\ Config[n].steps \in Nat /\ Config[n].bootstrap_burst \in Nat \ {0}
          /\ Config[n].bootstrap_hello \in BOOLEAN
          /\ Config[n].peers \subseteq Nat /\ IsFiniteSet(Config[n].peers)
ASSUME FaultAssumption == Lossy \subseteq Nodes /\ Killable \subseteq Nodes
ASSUME BoundAssumption == MaxLives \in Nat \ {0} /\ MaxBatch \in Nat

VARIABLES
    status,    \* per node: "down", "up", and at last "stopped", "failed" or "killed"
    life,      \* per node: how often it was started
    sys,       \* per node: its actor system, timers and counters
    step,      \* per node: its loop counter
    trace,     \* per node: its trace file
    flight,    \* envelopes sent and not drained, with the sender's life
    drained    \* history: envelopes drained, received or dropped

vars == <<status, life, sys, step, trace, flight, drained>>

Init ==
    /\ status = [n \in Nodes |-> "down"]
    /\ life = [n \in Nodes |-> 0]
    /\ sys = [n \in Nodes |-> build_actor_system]
    /\ step = [n \in Nodes |-> 0]
    /\ trace = [n \in Nodes |-> <<>>]
    /\ flight = {}
    /\ drained = {}

------------------------------------------------------------------------------
(* A process starts from scratch: TraceWriter::create empties its trace    *)
(* file, and its identifiers begin at one, also after a kill.              *)
Start(n) ==
    /\ status[n] \in {"down", "killed"} /\ life[n] < MaxLives
    /\ status' = [status EXCEPT ![n] = "up"]
    /\ life' = [life EXCEPT ![n] = @ + 1]
    /\ LET up == Startup(Config[n])
       IN  /\ sys' = [sys EXCEPT ![n] = up.sys]
           /\ trace' = [trace EXCEPT ![n] = up.events]
    /\ step' = [step EXCEPT ![n] = 0]
    /\ UNCHANGED <<flight, drained>>

(* One iteration of the loop of main.  The envelopes in `lost' are dropped *)
(* by the fault injector, those in `got' are released in this order; what  *)
(* the iteration writes to the wire is in flight afterwards.               *)
Step(n, lost, got) ==
    /\ status[n] = "up" /\ step[n] < Config[n].steps
    /\ \E ran \in {Iteration(sys[n], Config[n], step[n],
                       {f.env : f \in lost}, [i \in DOMAIN got |-> got[i].env])} :
          /\ sys' = [sys EXCEPT ![n] = [ran.sys EXCEPT !.wire = {}]]
          /\ trace' = [trace EXCEPT ![n] = @ \o ran.events]
          /\ flight' = (flight \ (lost \cup Range(got)))
                         \cup {[env |-> env, life |-> life[n]] : env \in ran.sys.wire}
          /\ status' = [status EXCEPT ![n] = IF ran.ok THEN "up" ELSE "failed"]
    /\ drained' = drained \cup {[sent |-> f, received |-> FALSE] : f \in lost}
                          \cup {[sent |-> f, received |-> TRUE] : f \in Range(got)}
    /\ step' = [step EXCEPT ![n] = @ + 1]
    /\ UNCHANGED life

(* The steps are used up: the trace is flushed and the process ends.       *)
Stop(n) ==
    /\ status[n] = "up" /\ step[n] = Config[n].steps
    /\ status' = [status EXCEPT ![n] = "stopped"]
    /\ UNCHANGED <<life, sys, step, trace, flight, drained>>

(* What the BufWriter had not written is lost with the process.  Only      *)
(* whole lines are left: the tool cannot read a file that ends in a torn   *)
(* one, and RecordReplay shows what replay makes of it.                    *)
Kill(n) ==
    /\ n \in Killable /\ status[n] = "up"
    /\ status' = [status EXCEPT ![n] = "killed"]
    /\ \E k \in 0..Len(trace[n]) : trace' = [trace EXCEPT ![n] = SubSeq(@, 1, k)]
    /\ UNCHANGED <<life, sys, step, flight, drained>>

Arrivals(n) ==
    {a \in SUBSET {f \in flight : f.env.to_node = n} : Cardinality(a) <= MaxBatch}
Losses(n, arrived) == IF n \in Lossy THEN SUBSET arrived ELSE {{}}

Ended(n) == status[n] \in {"stopped", "failed", "killed"}
Finished == (\A n \in Nodes : Ended(n)) /\ UNCHANGED vars

Next ==
    \/ \E n \in Nodes : Start(n) \/ Stop(n) \/ Kill(n)
    \/ \E n \in Nodes : \E arrived \in Arrivals(n) : \E lost \in Losses(n, arrived) :
          \E got \in SetToSeqs(arrived \ lost) : Step(n, lost, got)
    \/ Finished

Spec == Init /\ [][Next]_vars

------------------------------------------------------------------------------
(* Type correctness of the nodes and of the network between them. *)
TypeOK ==
    /\ status \in [Nodes -> {"down", "up", "stopped", "failed", "killed"}]
    /\ life \in [Nodes -> 0..MaxLives]
    /\ \A n \in Nodes :
          /\ step[n] \in 0..Config[n].steps
          /\ DOMAIN sys[n].inbox = Services /\ sys[n].wire = {}
          /\ \A t \in sys[n].timers : t.out.delay > 0
    /\ \A f \in flight : /\ f.env.from_node \in Nodes
                         /\ f.env.to_node \in Config[f.env.from_node].peers
                         /\ f.life \in 1..life[f.env.from_node]

AllEnded == \A n \in Nodes : Ended(n)
Files(order) == [i \in DOMAIN order |-> trace[order[i]]]
Traces(F) == Files(SetToSortSeq(F, <))
Events(F, kind) ==
    UNION {{trace[n][i] : i \in {j \in DOMAIN trace[n] : trace[n][j].kind = kind}} : n \in F}

(* The keys of the messages between nodes of F that really were drained.   *)
Between(F, ds) ==
    {<<d.sent.env.from_node, d.sent.env.id, d.sent.env.to_node>> :
        d \in {e \in ds : {e.sent.env.from_node, e.sent.env.to_node} \subseteq F}}

Unaccounted(F) ==
    {<<ev.node, ev.id, ev.to_node>> : ev \in {e \in Events(F, "NetSend") : e.to_node \in F}}
        \ Between(F, drained)

(* Messages delivered in F that a node outside F sent in answer to one of  *)
(* F: the delivery of the parent is recorded outside F.                    *)
Stranded(F) ==
    {ev \in Events(F, "NetRecv") :
        /\ ev.from_node \notin F /\ ev.msg.prov[1].parent_node \in F
        /\ \E d \in Events({ev.node}, "Deliver") : d.to = ev.to /\ d.id = ev.id}

(* The bootstrap messages delivered in F, each the root of a lineage.      *)
Started(F) ==
    UNION {{d \in Events({n}, "Deliver") :
              \E s \in Events({n}, "Send") : s.from = System /\ s.to = d.to /\ s.id = d.id} :
           n \in F}

(* What F exchanged with the nodes outside.                                *)
Crossing(F, events, Other(_)) ==
    Cardinality({ev \in events : Other(ev) \notin F})

(* Nobody killed: for every set of nodes that ended, in whatever order     *)
(* their files are named, `tool cluster-verify' reports exactly the        *)
(* messages between them that were sent and neither received nor dropped,  *)
(* and the answers whose parent an absent node delivered; and its counters *)
(* tell what really happened on the network.                               *)
ClusterExact ==
    AllEnded /\ "killed" \notin Range(status) =>
        \A F \in SUBSET Nodes \ {{}} :
            \A report \in {verify_cluster(Files(order)) : order \in SetToSeqs(F)} :
                /\ report.problems = If(Unaccounted(F) # {}, "send_without_evidence")
                                     \cup If(Stranded(F) # {}, "missing_parent")
                /\ report.matched_recv = Cardinality(Between(F, {d \in drained : d.received}))
                /\ report.matched_drop = Cardinality(Between(F, {d \in drained : ~d.received}))
                /\ report.external_outbound =
                       Crossing(F, Events(F, "NetSend"), LAMBDA ev : ev.to_node)
                /\ report.external_inbound =
                       Crossing(F, {d.sent.env : d \in {e \in drained : e.sent.env.to_node \in F}},
                                LAMBDA env : env.from_node)
                /\ report.resolved_lineage_parents + report.external_lineage_parents =
                       Cardinality(Events(F, "Deliver")) - Cardinality(Started(F))
                                                         - Cardinality(Stranded(F))

(* Nobody killed: `tool cluster-verify' succeeds exactly on the traces of  *)
(* nodes of which none failed, between which nothing is unaccounted for    *)
(* and no parent is missing.                                               *)
CommandExact ==
    AllEnded /\ "killed" \notin Range(status) =>
        \A F \in SUBSET Nodes \ {{}} :
            cluster_verify(Traces(F)) =
                IF \E n \in F : status[n] = "failed" THEN "aborted"
                ELSE IF Unaccounted(F) \cup Stranded(F) = {} THEN "ok" ELSE "failed"

(* `tool verify', which cluster-verify runs first on each trace, complains *)
(* about a failed or killed node's trace only for the event that is        *)
(* missing at its end, and about no other.                                 *)
LocalAgrees ==
    AllEnded => \A n \in Nodes :
        LET found == verify_trace(trace[n], positions(trace[n])).problems
        IN  CASE status[n] = "stopped" -> found = {}
              [] status[n] = "failed"  -> found = {"deliver_at_end"}
              [] status[n] = "killed"  -> found \subseteq {"deliver_at_end", "timer_at_end"}

(* `tool lineage' indexes every delivery of a node's trace, takes the      *)
(* bootstrap messages for roots, finds the parent of what the node sent    *)
(* itself, and calls a parent internal exactly in answers to this node;    *)
(* lineage-path ends at a root or where the trace does, and at a root only *)
(* for what began at this node.                                            *)
LineageExact ==
    AllEnded => \A n \in Nodes :
        LET index     == build_lineage_index(trace[n])
            summary   == summarize_lineage(index)
            delivered == Events({n}, "Deliver")
            own       == {k \in DOMAIN index : k[1] = n}
            answers   == {k \in DOMAIN index \ own : index[k].prov.parent_node = n}
        IN  /\ {k[2] : k \in DOMAIN index} = {d.id : d \in delivered}
            /\ Cardinality(DOMAIN index) = Cardinality(delivered)
            /\ summary.roots = {k \in own : index[k].prov.origin_msg = k[2]}
            /\ summary.resolved_parents = own \ summary.roots
            /\ summary.unresolved_internal_parents = answers
            /\ \A k \in DOMAIN index :
                  LET end == lineage_path(index, k)
                  IN  /\ end \in {"root", "missing"}
                      /\ end = "root" => index[k].prov.origin_node = n

(* Nobody restarted: the traces killed nodes left lack events at their end *)
(* only, and cluster-verify takes that for nothing worse.  No duplicate,   *)
(* no wrong payload or parent is reported, and a missing parent only with  *)
(* a message that has no NetSend or a trace that has no events.            *)
KillsExplained ==
    AllEnded /\ "killed" \in Range(status) /\ (\A n \in Nodes : life[n] = 1) =>
        \A found \in {verify_cluster(Traces(Nodes)).problems} :
            /\ found \subseteq {"no_events", "recv_without_send", "drop_without_send",
                                "send_without_evidence", "missing_parent"}
            /\ "missing_parent" \in found => found \cap {"no_events", "recv_without_send"} # {}

------------------------------------------------------------------------------
(* Playbook: "Every in-cluster `NetSend` is explained by matching          *)
(* `NetRecv` or traced drop fault": if cluster-verify accepts the traces   *)
(* of nodes that all ran to their end, every message they recorded as sent *)
(* was received or dropped, whatever ran before.                           *)
Sent(n) == {[id |-> ev.id, to |-> ev.to_node] : ev \in Events({n}, "NetSend")}
AcceptedIsComplete ==
    /\ \A n \in Nodes : status[n] = "stopped"
    /\ cluster_verify(Traces(Nodes)) = "ok"
    => \A n \in Nodes : \A s \in Sent(n) : s.to \in Nodes =>
          \E d \in drained : /\ d.sent.env.from_node = n /\ d.sent.env.id = s.id
                             /\ d.sent.env.to_node = s.to /\ d.sent.life = life[n]

==============================================================================
