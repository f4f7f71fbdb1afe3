---------------------------- MODULE RecordReplay ----------------------------
(***************************************************************************)
(* One node records a run against a network that delivers, drops and       *)
(* reorders what its peers send, and stops, fails or is killed; the trace  *)
(* it left may be damaged; then a second process replays that trace        *)
(* (runtime --replay), and `tool verify' judges it.                        *)
(*                                                                         *)
(* A recording step is one iteration of main's loop: the process has one   *)
(* thread but for the listeners, and module Ingress shows that what they   *)
(* and the fault injector hand to an iteration is some sequence of the     *)
(* arrived envelopes, some of them dropped.  Replay is split at every      *)
(* event it reads.                                                         *)
(***************************************************************************)
EXTENDS Runtime, TraceVerify

CONSTANTS
    RecCfg,    \* the configuration of the recording process
    RepCfg,    \* the configuration of the replaying process
    Inbound,   \* the envelopes peers send to this node
    MaxBatch,  \* how many of them one iteration may receive
    Damage     \* what may befall the trace: "kill", "remove", "repeat", "swap"

ASSUME CfgAssumption ==
    /\ RecCfg.mode = "record" /\ RepCfg.mode = "replay"
    /\ \A c \in {RecCfg, RepCfg} :
          /\ c.node \in Nat /\ c.steps \in Nat /\ c.bootstrap_burst \in Nat \ {0}
          /\ c.bootstrap_hello \in BOOLEAN
          /\ c.peers \subseteq Nat /\ IsFiniteSet(c.peers)
ASSUME DamageAssumption == Damage \subseteq {"kill", "remove", "repeat", "swap"}
ASSUME InboundAssumption == IsFiniteSet(Inbound) /\ MaxBatch \in Nat

VARIABLES
    phase,     \* "boot", "record", "failed", "recorded", then "inbound",
               \* "await" (the two reading loops of replay), "end",
               \* and "accepted" or "rejected"
    sys,       \* the node's state, of the recording then of the replaying process
    step,      \* the loop counter of that process
    trace,     \* the trace file
    seqs,      \* the seq of each line of the file the recorder left
    inbound,   \* envelopes not yet arrived
    cursor,    \* how many events replay has read
    final,     \* history: the recorder's state when it stopped
    written,   \* history: everything the recorder wrote
    fate       \* history: "running", then "whole", "failed", "killed", "edited"

vars == <<phase, sys, step, trace, seqs, inbound, cursor, final, written, fate>>

Init ==
    /\ phase = "boot"
    /\ sys = build_actor_system
    /\ step = 0
    /\ trace = <<>>
    /\ seqs = <<>>
    /\ inbound = Inbound
    /\ cursor = 0
    /\ final = build_actor_system
    /\ written = <<>>
    /\ fate = "running"

------------------------------------------------------------------------------
(***************************************************************************)
(* Recording.                                                              *)
(***************************************************************************)
Boot ==
    /\ phase = "boot"
    /\ LET up == Startup(RecCfg)
       IN  sys' = up.sys /\ trace' = up.events
    /\ phase' = "record"
    /\ UNCHANGED <<step, seqs, inbound, cursor, final, written, fate>>

(* What one iteration may see: envelopes the injector drops, in an order   *)
(* that does not matter, and envelopes it releases, in any order.          *)
Arrivals == {a \in SUBSET inbound : Cardinality(a) <= MaxBatch}
Losses(arrived) == SUBSET arrived
Orders(arrived, lost) == SetToSeqs(arrived \ lost)

(* A reply to this node arrives after what it replies to was sent. *)
Caused(env) ==
    LET p == env.msg.prov[1]
    IN  p.parent_node = RecCfg.node => \E sent \in sys.wire : sent.id = p.parent_msg

Arrive(lost, got) ==
    /\ phase = "record" /\ step < RecCfg.steps
    /\ \A env \in lost \cup Range(got) : Caused(env)
    /\ inbound' = inbound \ (lost \cup Range(got))
    /\ UNCHANGED <<seqs, cursor, final, written, fate>>

(* One iteration of the loop.  An error in the handler ends the process;   *)
(* dropping the writer flushes the trace, which then ends in Deliver.      *)
Record(lost, got) ==
    /\ Arrive(lost, got)
    /\ LET ran == Iteration(sys, RecCfg, step, lost, got)
       IN  /\ sys' = ran.sys
           /\ trace' = trace \o ran.events
           /\ phase' = IF ran.ok THEN "record" ELSE "failed"
    /\ step' = step + 1

(* The recorder ends, and a replaying process starts from scratch. *)
Leave(file, how) ==
    /\ phase' = "recorded"
    /\ final' = sys
    /\ written' = trace
    /\ trace' = file
    /\ seqs' = positions(file)
    /\ fate' = how
    /\ sys' = build_actor_system
    /\ step' = 0
    /\ UNCHANGED <<inbound, cursor>>

Stop == phase = "record" /\ step = RecCfg.steps /\ Leave(trace, "whole")
Fail == phase = "failed" /\ Leave(trace, "failed")

(* A kill loses what the BufWriter had not written: some suffix, which may *)
(* begin within a line.                                                    *)
Torn == [kind |-> "torn"]

Kill ==
    /\ "kill" \in Damage /\ phase = "record"
    /\ \E n \in 0..Len(trace) :
          \/ Leave(SubSeq(trace, 1, n), "killed")
          \/ n < Len(trace) /\ Leave(Append(SubSeq(trace, 1, n), Torn), "killed")

(* One line of the file removed, repeated, or exchanged with the next. *)
Edited(edit, Edit(_)) ==
    /\ edit \in Damage
    /\ phase = "recorded" /\ fate = "whole"
    /\ trace' = Edit(trace)
    /\ seqs' = Edit(seqs)
    /\ fate' = "edited"
    /\ UNCHANGED <<phase, sys, step, inbound, cursor, final, written>>

RemoveLine(i) == Edited("remove", LAMBDA file : RemoveAt(file, i))
RepeatLine(i) == Edited("repeat", LAMBDA file : InsertAt(file, i, file[i]))
SwapLines(i) ==
    /\ i < Len(trace)
    /\ Edited("swap", LAMBDA file : [file EXCEPT ![i] = file[i + 1],
                                                ![i + 1] = file[i]])

------------------------------------------------------------------------------
(***************************************************************************)
(* Replay.                                                                 *)
(***************************************************************************)
Event == trace[cursor + 1]
AtEnd == cursor = Len(trace)

Emitted == {"Send", "NetSend", "Log", "EffectObserved"}

(* Mutant: only the kinds of the expected events are compared. *)
verify_kinds_only(expected, from) ==
    LET n == Len(expected)
    IN  /\ from + n <= Len(trace)
        /\ \A i \in 1..n : trace[from + i].kind = expected[i].kind
        /\ from + n < Len(trace) =>
               trace[from + n + 1].kind \notin Emitted \cup {"torn"}

(* The expected events come next, in order, and neither a further emission *)
(* nor a line that does not parse follows them.                            *)
verify_replay_emits(expected, from) ==
    LET n == Len(expected)
    IN  /\ from + n <= Len(trace)
        /\ \A i \in 1..n : trace[from + i] = expected[i]
        /\ from + n < Len(trace) =>
               trace[from + n + 1].kind \notin Emitted \cup {"torn"}

Reject == phase' = "rejected" /\ UNCHANGED <<sys, step, cursor>>

Replaying(p) == phase = p /\ UNCHANGED <<trace, seqs, inbound, final, written, fate>>

(* Where the loop of main goes after an iteration. *)
NextIteration ==
    /\ step' = step + 1
    /\ phase' = IF step + 1 < RepCfg.steps THEN "inbound" ELSE "end"

ReplayStart ==
    /\ Replaying("recorded")
    /\ LET up == Startup(RepCfg)
       IN  IF verify_replay_emits(up.events, 0)
           THEN /\ sys' = up.sys
                /\ cursor' = Len(up.events)
                /\ phase' = IF RepCfg.steps > 0 THEN "inbound" ELSE "end"
                /\ UNCHANGED step
           ELSE Reject

(* A NetRecv of this node goes to its inbox in both loops; fault evidence  *)
(* is skipped.                                                             *)
inject_replay_netrecv(ev) ==
    IF ev.node = RepCfg.node /\ ev.to \in Services
    THEN sys' = push(sys, ev.to, ev.id, ev.msg)
    ELSE UNCHANGED sys

ReplayNetRecv ==
    /\ Replaying(phase) /\ phase \in {"inbound", "await"} /\ ~AtEnd
    /\ Event.kind = "NetRecv"
    /\ inject_replay_netrecv(Event)
    /\ cursor' = cursor + 1
    /\ UNCHANGED <<phase, step>>

(* Mutant: each loop leaves fault evidence to the other. *)
ReplayFault_Unread ==
    /\ Replaying(phase) /\ phase \in {"inbound", "await"} /\ ~AtEnd
    /\ Event.kind = "Drop"
    /\ phase' = IF phase = "inbound" THEN "await" ELSE "inbound"
    /\ UNCHANGED <<sys, step, cursor>>

ReplayFault ==
    /\ Replaying(phase) /\ phase \in {"inbound", "await"} /\ ~AtEnd
    /\ Event.kind = "Drop"
    /\ cursor' = cursor + 1
    /\ UNCHANGED <<phase, sys, step>>

(* drain_replay_inbound leaves any other event unread. *)
DrainedInbound ==
    /\ Replaying("inbound")
    /\ ~AtEnd => Event.kind \notin {"NetRecv", "Drop", "torn"}
    /\ phase' = "await"
    /\ UNCHANGED <<sys, step, cursor>>

(* A TimerFired event fires the pending timer it names, and the emission   *)
(* that follows it must be that timer's.                                   *)
replay_fire_timer ==
    /\ Replaying("await") /\ ~AtEnd /\ Event.kind = "TimerFired"
    /\ LET named == {t \in sys.timers : t.id = Event.id /\ t.from = Event.from}
       IN  IF Event.node # RepCfg.node
           THEN cursor' = cursor + 1 /\ UNCHANGED <<phase, sys, step>>
           ELSE IF named = {}
           THEN Reject
           ELSE LET fired == FireOne([sys |-> sys, events |-> <<>>], RepCfg,
                                     CHOOSE t \in named : TRUE)
                IN  IF /\ cursor + 2 <= Len(trace)
                       /\ trace[cursor + 2] = fired.events[2]
                    THEN /\ sys' = fired.sys
                         /\ cursor' = cursor + 2
                         /\ UNCHANGED <<phase, step>>
                    ELSE Reject

(* Mutant: a failing handler is taken for one that emits nothing. *)
ReplayDeliver_Lenient ==
    /\ Replaying("await") /\ ~AtEnd /\ Event.kind = "Deliver"
    /\ IF Event.to \notin Services \/ sys.inbox[Event.to] = <<>>
       THEN Reject
       ELSE LET ran   == Deliver(sys, RepCfg, step, Event.to)
                emits == IF ran.ok THEN ran.events ELSE <<>>
            IN  IF ran.id = Event.id /\ verify_replay_emits(emits, cursor + 1)
                THEN /\ sys' = ran.sys
                     /\ cursor' = cursor + 1 + Len(emits)
                     /\ NextIteration
                ELSE Reject

ReplayDeliver ==
    /\ Replaying("await") /\ ~AtEnd /\ Event.kind = "Deliver"
    /\ IF Event.node # RepCfg.node
       THEN cursor' = cursor + 1 /\ UNCHANGED <<phase, sys, step>>
       ELSE IF Event.to \notin Services \/ sys.inbox[Event.to] = <<>>
       THEN Reject
       ELSE LET ran == Deliver(sys, RepCfg, step, Event.to)
            IN  IF /\ ran.id = Event.id /\ ran.ok
                   /\ verify_replay_emits(ran.events, cursor + 1)
                THEN /\ sys' = ran.sys
                     /\ cursor' = cursor + 1 + Len(ran.events)
                     /\ NextIteration
                ELSE Reject

(* An emission no delivery accounts for. *)
ReplayUnexpected ==
    /\ Replaying("await") /\ ~AtEnd
    /\ Event.kind \in Emitted \cup {"Spawn"}
    /\ Reject

(* Mutant: messages left in an inbox go unnoticed. *)
Verdict_Lenient == phase' = "accepted" /\ UNCHANGED <<sys, step, cursor>>

Verdict == IF pending_inbox_messages(sys) > 0
           THEN Reject
           ELSE phase' = "accepted" /\ UNCHANGED <<sys, step, cursor>>

(* Mutant: a line that does not parse is taken for the end of the file. *)
ReplayTorn_AsEnd ==
    /\ Replaying(phase) /\ phase \in {"inbound", "await"} /\ ~AtEnd
    /\ Event.kind = "torn"
    /\ Verdict

(* A line that does not parse is an error wherever it is read. *)
ReplayTorn ==
    /\ Replaying(phase) /\ phase \in {"inbound", "await"} /\ ~AtEnd
    /\ Event.kind = "torn"
    /\ Reject

ReplayExhausted == Replaying("await") /\ AtEnd /\ Verdict

(* After --steps iterations nothing of the trace may be left. *)
ReplayEnd ==
    /\ Replaying("end")
    /\ IF ~AtEnd THEN Reject ELSE Verdict

Finished == phase \in {"accepted", "rejected"} /\ UNCHANGED vars

Next ==
    \/ Boot
    \/ \E arrived \in Arrivals : \E lost \in Losses(arrived) :
          \E got \in Orders(arrived, lost) :
              Record(lost, got)
    \/ Stop \/ Fail \/ Kill
    \/ \E i \in DOMAIN trace : RemoveLine(i) \/ RepeatLine(i) \/ SwapLines(i)
    \/ ReplayStart \/ ReplayNetRecv \/ ReplayFault \/ DrainedInbound
    \/ replay_fire_timer \/ ReplayDeliver \/ ReplayUnexpected \/ ReplayTorn
    \/ ReplayExhausted \/ ReplayEnd
    \/ Finished

Over == phase \in {"accepted", "rejected"}

(* Both processes are scheduled; the network owes nothing.  This is weak   *)
(* fairness of Next with its enabling condition spelled out: a step other  *)
(* than stuttering is possible until there is a verdict.                   *)
Fairness == []<>Over \/ []<><<Next>>_vars

Spec == Init /\ [][Next]_vars /\ Fairness

------------------------------------------------------------------------------
(* Type correctness of the recording and of the replaying process. *)
TypeOK ==
    /\ phase \in {"boot", "record", "failed", "recorded",
                  "inbound", "await", "end", "accepted", "rejected"}
    /\ fate \in {"running", "whole", "failed", "killed", "edited"}
    /\ step \in Nat /\ cursor \in 0..Len(trace)
    /\ inbound \subseteq Inbound
    /\ DOMAIN sys.inbox = Services
    /\ \A s \in Services : sys.state[s] \in
          [DOMAIN Program.initial[s] -> I64]
    /\ \A t \in sys.timers : t.out.delay > 0

Drained == ~(pending_inbox_messages(final) > 0)

(* A trace is replayable exactly when its recording was drained: replay of *)
(* a whole trace is rejected only for undelivered inbox messages, whatever *)
(* arrived, was lost or fired in between.                                  *)
ReplayExact == fate = "whole" /\ Over => (phase = "accepted" <=> Drained)

(* The error that ended a recording ends its replay: a trace cut short by  *)
(* a failing handler is never accepted.                                    *)
FailureReplays == fate = "failed" => phase # "accepted"

Untimed(timers) == {[id |-> t.id, from |-> t.from, out |-> t.out] : t \in timers}

(* An accepted replay ends in the recorder's state: the same actor states, *)
(* id counters and pending timers, though replay skips idle steps and so   *)
(* counts other due steps, and without having written to the wire.         *)
ReplayReproduces ==
    phase = "accepted" /\ fate = "whole" =>
        /\ sys.state = final.state
        /\ sys.msg_counter = final.msg_counter
        /\ sys.timer_counter = final.timer_counter
        /\ Untimed(sys.timers) = Untimed(final.timers)
        /\ sys.wire = {}

(* Every recorded step fires exactly the timers that fall due in it: none  *)
(* early, none late.                                                       *)
TimersPunctual ==
    [][phase = "record" /\ phase' = "record" =>
          \A t \in sys.timers :
              IF step = t.due_step THEN t \notin sys'.timers
                                   ELSE t \in sys'.timers]_vars

Foreign == {i \in DOMAIN trace : trace[i].kind = "NetRecv"
                                 /\ trace[i].to \notin Services}

(* `tool verify' has nothing to say against a whole recording, but for     *)
(* messages to services this program lacks, and the pending messages it    *)
(* counts are those left in the inboxes and those it complained about.     *)
VerifierAgrees ==
    phase = "recorded" /\ fate = "whole" =>
        LET report == verify_trace(trace, seqs)
        IN  /\ report.problems = If(Foreign # {}, "netrecv_to_unknown")
            /\ report.pending_messages =
                   pending_inbox_messages(final) + Cardinality(Foreign)

Output(sofar, ev) ==
    IF ev.kind \in {"NetRecv", "Drop"} THEN sofar ELSE Append(sofar, ev)
Outputs(events) == FoldLeft(LAMBDA sofar, ev : Output(sofar, ev), <<>>, events)

(* Replay notices every removed, repeated or exchanged line that is not    *)
(* inbound evidence: an accepted trace has all deliveries, timer firings   *)
(* and emissions the recorder wrote, in their order.                       *)
EditsDetected ==
    phase = "accepted" /\ fate = "edited" => Outputs(trace) = Outputs(written)

(* `tool verify' notices every edit of one line, inbound evidence that     *)
(* replay takes as it comes included: the numbering breaks, unless it is   *)
(* the last line that is gone.                                             *)
EditsVerified ==
    phase = "recorded" /\ fate = "edited" =>
        \/ IsStrictPrefix(trace, written)
        \/ "seq_mismatch" \in verify_trace(trace, seqs).problems

(* However far replay comes before it meets a torn line, it never accepts  *)
(* the trace.                                                              *)
TornIsRejected == phase = "accepted" => \A i \in DOMAIN trace : trace[i] # Torn

(* What the scheduler serves before a message: since it reached its inbox, *)
(* only those ahead of it there and those of actors with smaller ids.  An  *)
(* inbox is served in its order, whatever its messages came from: the nth  *)
(* delivery of an actor is that of the nth message to reach it.            *)
Incoming(events, s) ==
    {i \in DOMAIN events : events[i].kind \in {"Send", "NetRecv"} /\ events[i].to = s}
Served(events, s) ==
    {i \in DOMAIN events : events[i].kind = "Deliver" /\ events[i].to = s}
Nth(S, i) == Cardinality({j \in S : j <= i})

InOrder(events, s) ==
    LET came == Incoming(events, s)
        went == Served(events, s)
    IN  /\ \A d \in went : \E c \in came :
              c < d /\ Nth(came, c) = Nth(went, d) /\ events[c].id = events[d].id
        /\ \A c \in came : \A j \in DOMAIN events :
              c < j /\ events[j].kind = "Deliver" /\ Rank[events[j].to] > Rank[s] =>
                  \E d \in went : d < j /\ Nth(came, c) = Nth(went, d)

DeliveredInOrder ==
    phase = "recorded" /\ fate = "whole" => \A s \in Services : InOrder(trace, s)

(* Both reading loops of replay make progress: every replay ends in a      *)
(* verdict, on whole and on damaged traces.                                *)
ReplayTerminates == <>Over

------------------------------------------------------------------------------
(* README: "Replay the exact delivery schedule" with the recording's       *)
(* command line and --replay; a drained recording replays.                 *)
DrainedReplays == fate = "whole" /\ Drained => phase # "rejected"

(* README: "Every `Deliver` is followed by `EffectObserved`".              *)
EffectFollows ==
    phase = "recorded" /\ fate \in {"whole", "failed"} =>
        \A i \in DOMAIN trace : trace[i].kind = "Deliver" =>
            i < Len(trace) /\ trace[i + 1].kind = "EffectObserved"

(* Playbook: "Replay rejects missing, extra, or misordered emitted         *)
(* events", also when they are missing at the end.                         *)
NothingMissing == phase = "accepted" => Outputs(trace) = Outputs(written)

==============================================================================
