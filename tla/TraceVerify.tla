----------------------------- MODULE TraceVerify -----------------------------
(***************************************************************************)
(* `tool verify': one pass over a node's trace that pairs deliveries with  *)
(* what produced them, with the effect evidence that must follow them and  *)
(* with the lineage of their payloads.                                     *)
(*                                                                         *)
(* The pass is a fold over the events; a problem is its kind, not its      *)
(* wording.  The seq of every event is given beside the events, because    *)
(* nothing but this pass looks at it.  Effects are sets and the seed is a  *)
(* constant of the runtime, so the checks of duplicate effects and of the  *)
(* seed, which can fail for a forged file only, have no counterpart.       *)
(***************************************************************************)
EXTENDS Integers, Sequences, SequencesExt

positions(events) == [i \in DOMAIN events |-> i - 1]

VerifyInit ==
    [ spawned  |-> {},      \* the actors of Spawn events
      produced |-> <<>>,    \* messages sent or received, not yet delivered
      lineage  |-> {},      \* the lineage of delivered payloads
      dropped  |-> {},      \* what FaultInjected(Drop) names
      timer    |-> <<>>,    \* pending_timer_emit
      effect   |-> <<>>,    \* pending_effect_observed
      problems |-> {} ]

Report(acc, found) == [acc EXCEPT !.problems = @ \cup found]
If(condition, problem) == IF condition THEN {problem} ELSE {}
Unknown(acc, s) == acc.spawned # {} /\ s \notin acc.spawned

(* After a mismatch the count goes on from the number found. *)
expected_seq(seqs, i) == IF i = 1 THEN 0 ELSE seqs[i - 1] + 1

(* Mutant: only a number that was seen before is a mismatch. *)
SeqProblems_Lenient(seqs) ==
    If(\E i \in DOMAIN seqs : seqs[i] < expected_seq(seqs, i), "seq_mismatch")

SeqProblems(seqs) ==
    If(\E i \in DOMAIN seqs : seqs[i] # expected_seq(seqs, i), "seq_mismatch")

(***************************************************************************)
(* A pending expectation meets the next event, whatever it is.             *)
(***************************************************************************)
ExpectEffect(acc, ev) ==
    IF acc.effect # <<>> /\ ev.kind # "EffectObserved"
    THEN Report([acc EXCEPT !.effect = <<>>], {"deliver_without_effect"})
    ELSE acc

ExpectTimerEmit(acc, ev) ==
    IF acc.timer = <<>>
    THEN acc
    ELSE Report([acc EXCEPT !.timer = <<>>],
                IF ev.kind \in {"Send", "NetSend"}
                THEN If(ev.from # acc.timer[1].from, "timer_wrong_sender")
                ELSE {"timer_without_send"})

(***************************************************************************)
(* Lineage of a delivered payload: a root points at itself, a descendant   *)
(* agrees with its parent if the parent was delivered here.                *)
(***************************************************************************)
RootProblems(ev, msg, p) ==
    If(\/ p.origin_msg # ev.id \/ p.parent_msg # ev.id
       \/ p.parent_node # msg.from_node \/ p.origin_node # msg.from_node
       \/ p.origin_service # msg.from_service, "bad_root")

ParentProblems(acc, ev, msg, p) ==
    If(p.parent_node = msg.from_node /\ p.parent_msg = ev.id, "own_parent")
    \cup UNION {If(\/ p.hops # parent.hops + 1
                   \/ p.origin_msg # parent.origin_msg
                   \/ p.origin_node # parent.origin_node
                   \/ p.origin_service # parent.origin_service, "bad_parent") :
                parent \in {l \in acc.lineage : /\ l.node = p.parent_node
                                                /\ l.id = p.parent_msg}}

verify_payload_lineage(acc, ev, msg) ==
    IF msg.prov = <<>>
    THEN Report(acc, {"no_provenance"})
    ELSE LET p     == msg.prov[1]
             found == IF p.hops = 0 THEN RootProblems(ev, msg, p)
                      ELSE ParentProblems(acc, ev, msg, p)
             entry == [node |-> msg.from_node, id |-> ev.id, hops |-> p.hops,
                       origin_msg |-> p.origin_msg, origin_node |-> p.origin_node,
                       origin_service |-> p.origin_service]
             older == {l \in acc.lineage : l.node = entry.node /\ l.id = entry.id}
         IN  Report([acc EXCEPT !.lineage = (@ \ older) \cup {entry}], found)

(***************************************************************************)
(* One event.                                                              *)
(***************************************************************************)
Produce(acc, ev) ==
    [acc EXCEPT !.produced = Append(@, [to |-> ev.to, id |-> ev.id, msg |-> ev.msg])]

OnDeliver(acc, ev) ==
    LET queue == {i \in DOMAIN acc.produced : /\ acc.produced[i].to = ev.to
                                              /\ acc.produced[i].id = ev.id}
        taken == CHOOSE i \in queue : \A j \in queue : i <= j
        known == Report(acc, If(Unknown(acc, ev.to), "deliver_to_unknown"))
        done  == IF queue = {}
                 THEN Report(known, {"deliver_without_send"})
                 ELSE verify_payload_lineage(
                          [known EXCEPT !.produced = RemoveAt(@, taken)],
                          ev, acc.produced[taken].msg)
    IN  [done EXCEPT !.effect = <<ev>>]

OnEffect(acc, ev) ==
    Report([acc EXCEPT !.effect = <<>>],
           If(Unknown(acc, ev.actor), "effect_of_unknown")
           \cup If(acc.effect = <<>>, "effect_without_deliver")
           \cup If(/\ acc.effect # <<>>
                   /\ \/ ev.node # acc.effect[1].node
                      \/ ev.actor # acc.effect[1].to
                      \/ ev.id # acc.effect[1].id, "effect_mismatch")
           \cup If(~(ev.observed \subseteq ev.declared), "undeclared_effect"))

OnEvent(acc, ev) ==
    CASE ev.kind = "Spawn" ->
           Report([acc EXCEPT !.spawned = @ \cup {ev.service}],
                  If(ev.service \in acc.spawned, "duplicate_spawn"))
      [] ev.kind = "Send" ->
           Report(Produce(acc, ev),
                  If(Unknown(acc, ev.from) \/ Unknown(acc, ev.to),
                     "send_unknown"))
      [] ev.kind = "NetRecv" ->
           Report(Produce(acc, ev),
                  If(Unknown(acc, ev.to), "netrecv_to_unknown")
                  \cup If(<<ev.from_node, ev.to, ev.id>> \in acc.dropped,
                          "received_after_drop"))
      [] ev.kind = "Deliver" -> OnDeliver(acc, ev)
      [] ev.kind \in {"NetSend", "Log"} ->
           Report(acc, If(Unknown(acc, ev.from), "emit_by_unknown"))
      [] ev.kind = "EffectObserved" -> OnEffect(acc, ev)
      [] ev.kind = "Drop" ->
           [acc EXCEPT !.dropped = @ \cup {<<ev.from_node, ev.to, ev.id>>}]
      [] ev.kind = "TimerFired" -> [acc EXCEPT !.timer = <<ev>>]

VerifyEvent(acc, ev) ==
    IF acc.effect = <<>> /\ acc.timer = <<>>
    THEN OnEvent(acc, ev)
    ELSE OnEvent(ExpectTimerEmit(ExpectEffect(acc, ev), ev), ev)

verify_trace(events, seqs) ==
    LET after[n \in 0..Len(events)] ==
            IF n = 0 THEN VerifyInit ELSE VerifyEvent(after[n - 1], events[n])
        end == after[Len(events)]
    IN  [ problems |-> end.problems \cup SeqProblems(seqs)
                       \cup If(end.timer # <<>>, "timer_at_end")
                       \cup If(end.effect # <<>>, "deliver_at_end"),
          pending_messages |-> Len(end.produced) ]

==============================================================================
