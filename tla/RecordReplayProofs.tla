--------------------------- MODULE RecordReplayProofs ---------------------------
(***************************************************************************)
(* Replay against recording, for every program, command line and network.  *)
(*                                                                         *)
(* The argument goes through a reader of the trace: what replay makes of   *)
(* the events read so far, told one event at a time and without a verdict. *)
(* Recording keeps its node alike to the node of the reader that has read  *)
(* all it wrote (RecordInv), so the finished trace is one the reader can   *)
(* follow to its end; replay keeps its own node alike to that of the       *)
(* reader at its cursor (ReplayInv), so it can go where the reader went.   *)
(* Alike nodes may differ in what is on the wire and in when timers are    *)
(* due: replay counts deliveries, not iterations.                          *)
(*                                                                         *)
(* From a trace with one line edited the reader strays, unless the edit is *)
(* of inbound evidence: it comes to an event it does not wait for, and     *)
(* replay, if it comes so far, rejects it.                                 *)
(*                                                                         *)
(* The order of deliveries is a fact about recording alone: an inbox is    *)
(* told from the events written so far (OrderInv).                         *)
(***************************************************************************)
EXTENDS RecordReplay, VerifyProofs

------------------------------------------------------------------------------
(* The command line of the replaying process is the recorder's but for     *)
(* --record and --replay.                                                  *)
SameCommandLine ==
    /\ RepCfg.node = RecCfg.node /\ RepCfg.peers = RecCfg.peers
    /\ RepCfg.steps = RecCfg.steps
    /\ RepCfg.bootstrap_hello = RecCfg.bootstrap_hello
    /\ RepCfg.bootstrap_burst = RecCfg.bootstrap_burst

(***************************************************************************)
(* The reader: the node so far, the emissions that must come next, how     *)
(* many of them have come, and the deliveries read.                        *)
(***************************************************************************)
Reader(node, due, at, n) == [node |-> node, due |-> due, at |-> at, n |-> n]
Settled(v) == v.at = Len(v.due)

FirstReader == Reader(Startup(RepCfg).sys, Startup(RepCfg).events, 0, 0)

Named(v, ev) == {t \in v.node.timers : t.id = ev.id /\ t.from = ev.from}
FiredBy(v, ev) == FireOne([sys |-> v.node, events |-> <<>>], RepCfg,
                          CHOOSE t \in Named(v, ev) : TRUE)
DeliveredBy(v, ev) == Deliver(v.node, RepCfg, 0, ev.to)

(* Which event may come next. *)
Accepts(v, ev) ==
    IF ~Settled(v) THEN ev = v.due[v.at + 1]
    ELSE /\ v.n < RepCfg.steps /\ ev.node = RepCfg.node
         /\ ev.kind \in {"NetRecv", "Drop", "TimerFired", "Deliver"}
         /\ ev.kind = "TimerFired" => Named(v, ev) # {}
         /\ ev.kind = "Deliver" =>
               /\ ev.to \in Services /\ v.node.inbox[ev.to] # <<>>
               /\ DeliveredBy(v, ev).ok /\ DeliveredBy(v, ev).id = ev.id

After(v, ev) ==
    IF ~Settled(v) THEN Reader(v.node, v.due, v.at + 1, v.n)
    ELSE IF ev.kind = "NetRecv" THEN Reader(Receive(v.node, ev), v.due, v.at, v.n)
    ELSE IF ev.kind = "TimerFired"
         THEN Reader(FiredBy(v, ev).sys, <<FiredBy(v, ev).events[2]>>, 0, v.n)
    ELSE IF ev.kind = "Deliver"
         THEN Reader(DeliveredBy(v, ev).sys, DeliveredBy(v, ev).events, 0, v.n + 1)
    ELSE v

------------------------------------------------------------------------------
(* What the network hands to an iteration. *)
LEMMA ArrivalsSeq ==
    ASSUME inbound \subseteq Inbound, NEW arrived \in Arrivals, NEW lost \in Losses(arrived),
           NEW got \in Orders(arrived, lost)
    PROVE  IsFiniteSet(lost) /\ IsSeq(got)
<1> DEFINE S == arrived \ lost
           n == Cardinality(S)
<1>1. IsFiniteSet(arrived) /\ IsFiniteSet(lost) /\ IsFiniteSet(S)
  BY InboundAssumption, FS_Subset DEF Arrivals, Losses
<1>2. n \in Nat
  BY <1>1, FS_CardinalityType
<1>3. got \in [1..n -> S]
  BY DEF Orders, SetToSeqs
<1> HIDE DEF n, S
<1> QED
  BY <1>1, <1>2, <1>3, SeqMade

------------------------------------------------------------------------------
(***************************************************************************)
(* Types, and the timers of the recorder: none is overdue.                 *)
(***************************************************************************)
Recording == {"boot", "record", "failed"}
Replays == {"inbound", "await", "end", "accepted"}

TypeInv ==
    /\ phase \in {"boot", "record", "failed", "recorded",
                  "inbound", "await", "end", "accepted", "rejected"}
    /\ fate \in {"running", "whole", "failed", "killed", "edited"}
    /\ step \in Nat /\ cursor \in Nat /\ cursor <= Len(trace) /\ IsSeq(trace)
    /\ inbound \subseteq Inbound
    /\ phase \in Recording => Node(RecCfg, sys)
    /\ phase \notin Recording => Node(RepCfg, sys)
    /\ phase \in Recording \cup {"recorded"} => cursor = 0
    /\ phase = "record" => \A t \in sys.timers : t.due_step >= step

LEMMA Hosts ==
    /\ Host(RecCfg) /\ Host(RepCfg)
    /\ Boots(RecCfg) \in Nat /\ Boots(RepCfg) \in Nat
BY CfgAssumption DEF Host, Boots

LEMMA TypeInit == Init => TypeInv
<1> SUFFICES ASSUME Init PROVE TypeInv
  OBVIOUS
<1>1. Node(RecCfg, build_actor_system)
  BY Hosts, BuiltNode DEF Host
<1>2. IsSeq(<<>>) /\ Len(<<>>) = 0
  BY SeqOne
<1> QED
  BY <1>1, <1>2 DEF Init, TypeInv, Recording

LEMMA TypeBoot == TypeInv /\ Boot => TypeInv'
<1> SUFFICES ASSUME TypeInv, Boot PROVE TypeInv'
  OBVIOUS
<1> DEFINE up == Startup(RecCfg)
<1>1. Booted(RecCfg, up)
  BY Hosts, StartupNode
<1>2. sys' = up.sys /\ trace' = up.events
  BY DEF Boot
<1> HIDE DEF up
<1>3. Node(RecCfg, sys') /\ sys'.timers = {} /\ IsSeq(trace') /\ Len(trace') \in Nat
  BY <1>1, <1>2, SeqLen DEF Booted
<1>4. phase = "boot" /\ phase' = "record" /\ step' = step /\ cursor' = cursor
      /\ inbound' = inbound /\ fate' = fate
  BY DEF Boot
<1> QED
  BY <1>3, <1>4 DEF TypeInv, Recording

LEMMA TypeRecord ==
    ASSUME TypeInv, NEW arrived \in Arrivals, NEW lost \in Losses(arrived),
           NEW got \in Orders(arrived, lost), Record(lost, got)
    PROVE  TypeInv'
<1> DEFINE ran == Iteration(sys, RecCfg, step, lost, got)
<1>1. phase = "record" /\ step \in Nat /\ Node(RecCfg, sys) /\ IsSeq(trace)
      /\ \A t \in sys.timers : t.due_step >= step
  BY DEF TypeInv, Recording, Record, Arrive
<1>2. IsFiniteSet(lost) /\ IsSeq(got)
  BY ArrivalsSeq DEF TypeInv
<1>3. Iterated(RecCfg, sys, step, ran)
  BY <1>1, <1>2, Hosts, IterationNode
<1>4. /\ sys' = ran.sys /\ trace' = trace \o ran.events
      /\ phase' = IF ran.ok THEN "record" ELSE "failed"
      /\ step' = step + 1 /\ cursor' = cursor /\ fate' = fate
      /\ inbound' = inbound \ (lost \cup Range(got))
  BY DEF Record, Arrive
<1> HIDE DEF ran
<1>5. Node(RecCfg, sys') /\ IsSeq(trace') /\ Len(trace') \in Nat
  <2>1. IsSeq(ran.events)
    BY <1>3 DEF Iterated
  <2>2. IsSeq(trace \o ran.events)
    BY <1>1, <2>1, SeqConcat
  <2> QED
    BY <1>3, <1>4, <2>2, SeqLen DEF Iterated
<1>6. ASSUME NEW t \in sys'.timers PROVE t.due_step >= step + 1
  <2>1. t.due_step \in Nat
    BY <1>5 DEF Node, Timers
  <2>2. CASE t.due_step > step
    BY <1>1, <2>1, <2>2
  <2>3. CASE t \in sys.timers \ Due(sys, step)
    BY <1>1, <2>1, <2>3 DEF Due
  <2> QED
    BY <1>3, <1>4, <2>2, <2>3 DEF Iterated
<1>7. phase' \in {"record", "failed"} /\ cursor' = 0
  BY <1>1, <1>4 DEF TypeInv, Recording
<1> QED
  BY <1>1, <1>4, <1>5, <1>6, <1>7 DEF TypeInv, Recording

(* The file the recorder leaves is a sequence of lines, whatever befalls it. *)
LEMMA TypeLeave ==
    ASSUME TypeInv, phase \in {"record", "failed"}, NEW file, IsSeq(file),
           NEW how \in {"whole", "failed", "killed"}, Leave(file, how)
    PROVE  TypeInv'
<1>1. Node(RepCfg, build_actor_system)
  BY Hosts, BuiltNode DEF Host
<1>2. Len(file) \in Nat
  BY SeqLen
<1> QED
  BY <1>1, <1>2 DEF Leave, TypeInv, Recording

LEMMA TypeEdit ==
    ASSUME TypeInv, NEW i \in DOMAIN trace, RemoveLine(i) \/ RepeatLine(i) \/ SwapLines(i)
    PROVE  TypeInv'
<1>1. IsSeq(trace) /\ i \in 1..Len(trace) /\ Len(trace) \in Nat
  BY SeqLen DEF TypeInv
<1> DEFINE before == SubSeq(trace, 1, i - 1)
<1>2. IsSeq(before)
  BY <1>1, SeqPrefix
<1>3. CASE RemoveLine(i)
  <2>1. trace' = before \o SubSeq(trace, i + 1, Len(trace))
    BY <1>3 DEF RemoveLine, Edited, RemoveAt
  <2>2. IsSeq(SubSeq(trace, i + 1, Len(trace)))
    BY <1>1, SeqPrefix
  <2> HIDE DEF before
  <2>3. IsSeq(trace') /\ Len(trace') \in Nat
    BY <1>2, <2>1, <2>2, SeqConcat, SeqLen
  <2> QED
    BY <1>3, <2>3 DEF RemoveLine, Edited, TypeInv, Recording
<1>4. CASE RepeatLine(i)
  <2>1. trace' = (before \o <<trace[i]>>) \o SubSeq(trace, i, Len(trace))
    BY <1>4 DEF RepeatLine, Edited, InsertAt
  <2>2. IsSeq(SubSeq(trace, i, Len(trace)))
    <3>1. i = (i - 1) + 1 /\ i - 1 \in Nat
      BY <1>1
    <3> QED
      BY <1>1, <3>1, SeqPrefix
  <2> HIDE DEF before
  <2>3. IsSeq(before \o <<trace[i]>>)
    BY <1>2, SeqOne, SeqConcat
  <2>4. IsSeq(trace') /\ Len(trace') \in Nat
    BY <2>1, <2>2, <2>3, SeqConcat, SeqLen
  <2> QED
    BY <1>4, <2>4 DEF RepeatLine, Edited, TypeInv, Recording
<1>5. CASE SwapLines(i)
  <2>1. trace' = [trace EXCEPT ![i] = trace[i + 1], ![i + 1] = trace[i]]
    BY <1>5 DEF SwapLines, Edited
  <2>2. DOMAIN trace' = 1..Len(trace) /\ trace' = [j \in 1..Len(trace) |-> trace'[j]]
    BY <1>1, <2>1, SeqLen
  <2>3. IsSeq(trace') /\ Len(trace') \in Nat
    BY <1>1, <2>2, SeqMade
  <2> QED
    BY <1>5, <2>3 DEF SwapLines, Edited, TypeInv, Recording
<1> QED
  BY <1>3, <1>4, <1>5

LEMMA TypeReplayStart == TypeInv /\ ReplayStart => TypeInv'
<1> SUFFICES ASSUME TypeInv, ReplayStart PROVE TypeInv'
  OBVIOUS
<1> DEFINE up == Startup(RepCfg)
<1>1. Booted(RepCfg, up)
  BY Hosts, StartupNode
<1>2. CASE verify_replay_emits(up.events, 0)
  <2>1. sys' = up.sys /\ cursor' = Len(up.events) /\ step' = step
        /\ phase' \in {"inbound", "end"}
    BY <1>2 DEF ReplayStart
  <2>2. 0 + Len(up.events) <= Len(trace)
    BY <1>2 DEF verify_replay_emits
  <2> HIDE DEF up
  <2>3. Len(up.events) \in Nat /\ Node(RepCfg, sys')
    BY <1>1, <2>1, SeqLen DEF Booted
  <2> QED
    BY <2>1, <2>2, <2>3 DEF ReplayStart, Replaying, TypeInv, Recording
<1>3. CASE ~ verify_replay_emits(up.events, 0)
  BY <1>3 DEF ReplayStart, Reject, Replaying, TypeInv, Recording
<1> QED
  BY <1>2, <1>3

LEMMA TypeReplayNetRecv == TypeInv /\ ReplayNetRecv => TypeInv'
<1> SUFFICES ASSUME TypeInv, ReplayNetRecv PROVE TypeInv'
  OBVIOUS
<1> DEFINE to == Event.to
           id == Event.id
           msg == Event.msg
<1>1. sys' = push(sys, to, id, msg) \/ sys' = sys
  BY DEF ReplayNetRecv, inject_replay_netrecv
<1> HIDE DEF to, id, msg
<1>2. Node(RepCfg, sys)
  BY DEF ReplayNetRecv, TypeInv, Recording
<1>3. Node(RepCfg, sys')
  <2>1. Node(RepCfg, push(sys, to, id, msg))
    BY <1>2, PushNode
  <2> QED
    BY <1>1, <1>2, <2>1
<1>4. cursor' = cursor + 1 /\ cursor # Len(trace) /\ Len(trace) \in Nat
  BY SeqLen DEF ReplayNetRecv, AtEnd, TypeInv
<1> QED
  BY <1>3, <1>4 DEF ReplayNetRecv, Replaying, TypeInv, Recording

LEMMA TypeReplayTimer == TypeInv /\ replay_fire_timer => TypeInv'
<1> SUFFICES ASSUME TypeInv, replay_fire_timer PROVE TypeInv'
  OBVIOUS
<1> DEFINE named == {t \in sys.timers : t.id = Event.id /\ t.from = Event.from}
           one == CHOOSE t \in named : TRUE
           acc == [sys |-> sys, events |-> <<>>]
           fired == FireOne(acc, RepCfg, one)
<1>0. Len(trace) \in Nat /\ cursor # Len(trace) /\ Node(RepCfg, sys)
  BY SeqLen DEF replay_fire_timer, Replaying, AtEnd, TypeInv, Recording
<1>1. CASE cursor' = cursor + 1 /\ UNCHANGED <<phase, sys, step>>
  BY <1>0, <1>1 DEF replay_fire_timer, Replaying, TypeInv, Recording
<1>2. CASE Reject
  BY <1>2 DEF Reject, replay_fire_timer, Replaying, TypeInv, Recording
<1>3. CASE /\ cursor + 2 <= Len(trace) /\ sys' = fired.sys
           /\ cursor' = cursor + 2 /\ UNCHANGED <<phase, step>>
  <2>1. acc.sys = sys /\ acc.events = <<>>
    OBVIOUS
  <2> HIDE DEF acc, one, fired
  <2>2. Fired(RepCfg, acc, one, FireOne(acc, RepCfg, one))
    BY <1>0, <2>1, Hosts, SeqOne, FireOneNode
  <2>3. Node(RepCfg, sys')
    BY <1>3, <2>2 DEF Fired, fired
  <2> QED
    BY <1>3, <2>3 DEF replay_fire_timer, Replaying, TypeInv, Recording
<1> QED
  BY <1>1, <1>2, <1>3 DEF replay_fire_timer

LEMMA TypeReplayDeliver == TypeInv /\ ReplayDeliver => TypeInv'
<1> SUFFICES ASSUME TypeInv, ReplayDeliver PROVE TypeInv'
  OBVIOUS
<1> DEFINE s == Event.to
           ran == Deliver(sys, RepCfg, step, s)
<1>0. Len(trace) \in Nat /\ cursor # Len(trace) /\ Node(RepCfg, sys) /\ step \in Nat
  BY SeqLen DEF ReplayDeliver, Replaying, AtEnd, TypeInv, Recording
<1>1. CASE cursor' = cursor + 1 /\ UNCHANGED <<phase, sys, step>>
  BY <1>0, <1>1 DEF ReplayDeliver, Replaying, TypeInv, Recording
<1>2. CASE Reject
  BY <1>2 DEF Reject, ReplayDeliver, Replaying, TypeInv, Recording
<1>3. CASE /\ s \in Services /\ sys.inbox[s] # <<>>
           /\ verify_replay_emits(ran.events, cursor + 1)
           /\ sys' = ran.sys /\ cursor' = cursor + 1 + Len(ran.events) /\ NextIteration
  <2>1. cursor + 1 + Len(ran.events) <= Len(trace)
    BY <1>3 DEF verify_replay_emits
  <2> HIDE DEF s
  <2>2. Node(RepCfg, ran.sys) /\ IsSeq(ran.events)
    BY <1>0, <1>3, Hosts, DeliverNode
  <2> HIDE DEF ran
  <2>3. Node(RepCfg, sys') /\ Len(ran.events) \in Nat
    BY <1>3, <2>2, SeqLen
  <2>4. cursor' \in Nat /\ cursor' <= Len(trace)
    <3>1. cursor \in Nat
      BY DEF TypeInv
    <3>2. cursor' = cursor + 1 + Len(ran.events)
      BY <1>3
    <3> DEFINE n == Len(ran.events)
               last == Len(trace)
    <3>3. n \in Nat /\ last \in Nat
      BY <1>0, <2>3
    <3>4. cursor + 1 + n <= last /\ cursor' = cursor + 1 + n
      BY <2>1, <3>2
    <3> HIDE DEF n, last
    <3>5. cursor' \in Nat /\ cursor' <= last
      BY <3>1, <3>3, <3>4
    <3> QED
      BY <3>5 DEF last
  <2>5. step' = step + 1 /\ phase' \in {"inbound", "end"}
    BY <1>3 DEF NextIteration
  <2> QED
    BY <1>0, <2>3, <2>4, <2>5 DEF ReplayDeliver, Replaying, TypeInv, Recording
<1> QED
  BY <1>1, <1>2, <1>3 DEF ReplayDeliver

LEMMA TypeStep == TypeInv /\ [Next]_vars => TypeInv'
<1> SUFFICES ASSUME TypeInv, [Next]_vars PROVE TypeInv'
  OBVIOUS
<1>0. IsSeq(trace) /\ Len(trace) \in Nat /\ DOMAIN trace = 1..Len(trace)
  BY SeqLen DEF TypeInv
<1>1. CASE Boot
  BY <1>1, TypeBoot
<1>2. ASSUME NEW arrived \in Arrivals, NEW lost \in Losses(arrived),
             NEW got \in Orders(arrived, lost), Record(lost, got)
      PROVE  TypeInv'
  BY <1>2, TypeRecord
<1>3. CASE Stop \/ Fail
  <2>1. CASE Stop
    <3>1. Leave(trace, "whole") /\ phase \in {"record", "failed"}
      BY <2>1 DEF Stop
    <3> QED
      BY <1>0, <3>1, TypeLeave
  <2>2. CASE Fail
    <3>1. Leave(trace, "failed") /\ phase \in {"record", "failed"}
      BY <2>2 DEF Fail
    <3> QED
      BY <1>0, <3>1, TypeLeave
  <2> QED
    BY <1>3, <2>1, <2>2
<1>4. CASE Kill
  <2>1. PICK n \in 0..Len(trace) :
           Leave(SubSeq(trace, 1, n), "killed")
           \/ Leave(Append(SubSeq(trace, 1, n), Torn), "killed")
    BY <1>4 DEF Kill
  <2>2. IsSeq(SubSeq(trace, 1, n))
    BY <1>0, SeqPrefix
  <2>3. IsSeq(Append(SubSeq(trace, 1, n), Torn))
    BY <2>2, SeqAppend
  <2>4. phase \in {"record", "failed"}
    BY <1>4 DEF Kill
  <2> QED
    BY <2>1, <2>2, <2>3, <2>4, TypeLeave
<1>5. ASSUME NEW i \in DOMAIN trace, RemoveLine(i) \/ RepeatLine(i) \/ SwapLines(i)
      PROVE  TypeInv'
  BY <1>5, TypeEdit
<1>6. CASE ReplayStart
  BY <1>6, TypeReplayStart
<1>7. CASE ReplayNetRecv
  BY <1>7, TypeReplayNetRecv
<1>8. CASE ReplayFault
  <2>1. cursor' = cursor + 1 /\ cursor # Len(trace) /\ phase \in {"inbound", "await"}
        /\ phase' = phase /\ sys' = sys /\ step' = step /\ trace' = trace
        /\ inbound' = inbound /\ fate' = fate
    BY <1>8 DEF ReplayFault, AtEnd, Replaying
  <2>2. cursor' \in Nat /\ cursor' <= Len(trace')
    <3> DEFINE last == Len(trace)
    <3>1. cursor \in Nat /\ cursor <= last
      BY DEF TypeInv
    <3>2. last \in Nat /\ cursor # last
      BY <1>0, <2>1
    <3> HIDE DEF last
    <3>3. cursor + 1 \in Nat /\ cursor + 1 <= last
      BY <3>1, <3>2
    <3> QED
      BY <2>1, <3>3 DEF last
  <2> QED
    BY <2>1, <2>2 DEF TypeInv, Recording
<1>9. CASE DrainedInbound
  BY <1>9 DEF DrainedInbound, Replaying, TypeInv, Recording
<1>10. CASE replay_fire_timer
  BY <1>10, TypeReplayTimer
<1>11. CASE ReplayDeliver
  BY <1>11, TypeReplayDeliver
<1>12. CASE ReplayUnexpected \/ ReplayTorn \/ ReplayExhausted \/ ReplayEnd
  <2>1. /\ phase' \in {"accepted", "rejected"} /\ UNCHANGED <<sys, step, cursor>>
        /\ phase \in {"inbound", "await", "end"}
        /\ UNCHANGED <<trace, seqs, inbound, final, written, fate>>
    BY <1>12 DEF ReplayUnexpected, ReplayTorn, ReplayExhausted, ReplayEnd, Replaying,
                 Reject, Verdict
  <2> QED
    BY <2>1 DEF TypeInv, Recording
<1>13. CASE Finished \/ UNCHANGED vars
  BY <1>13 DEF Finished, vars, TypeInv
<1> QED
  BY <1>1, <1>2, <1>3, <1>4, <1>5, <1>6, <1>7, <1>8, <1>9, <1>10, <1>11, <1>12, <1>13
     DEF Next

LEMMA TypesHold == Spec => []TypeInv
BY TypeInit, TypeStep, PTL DEF Spec

(* Both processes keep the types of their state: every state value is an   *)
(* i64 of a declared key, every pending timer has a delay, the replay      *)
(* cursor stays within the trace, whatever befell it.                      *)
THEOREM TypesAreRight == Spec => []TypeOK
<1>1. TypeInv => TypeOK
  <2> SUFFICES ASSUME TypeInv PROVE TypeOK
    OBVIOUS
  <2>1. Node(RecCfg, sys) \/ Node(RepCfg, sys)
    BY DEF TypeInv
  <2>2. /\ DOMAIN sys.inbox = Services
        /\ \A s \in Services : sys.state[s] \in [DOMAIN Program.initial[s] -> I64]
        /\ \A t \in sys.timers : t.out.delay > 0
    BY <2>1 DEF Node, Timers, State
  <2>3. cursor \in 0..Len(trace)
    BY SeqLen DEF TypeInv
  <2> QED
    BY <2>2, <2>3 DEF TypeInv, TypeOK
<1> QED
  BY <1>1, TypesHold, PTL

(* Every recorded step fires exactly the timers that fall due in it: those *)
(* pending are not overdue, drain_network sets none, and what a handler    *)
(* sets is due later.                                                      *)
THEOREM TimersFireOnTime == Spec => TimersPunctual
<1> DEFINE Punctual == phase = "record" /\ phase' = "record" =>
                          \A t \in sys.timers :
                              IF step = t.due_step THEN t \notin sys'.timers
                                                   ELSE t \in sys'.timers
<1>1. TypeInv /\ [Next]_vars => [Punctual]_vars
  <2> SUFFICES ASSUME TypeInv, Next, phase = "record", phase' = "record",
                      NEW t \in sys.timers
               PROVE  IF step = t.due_step THEN t \notin sys'.timers
                                           ELSE t \in sys'.timers
    BY DEF vars
  <2>0. PICK arrived \in Arrivals :
           \E lost \in Losses(arrived) : \E got \in Orders(arrived, lost) : Record(lost, got)
    BY DEF Next, Boot, Stop, Fail, Kill, Leave, RemoveLine, RepeatLine, SwapLines, Edited,
           ReplayStart, ReplayNetRecv, ReplayFault, DrainedInbound, replay_fire_timer,
           ReplayDeliver, ReplayUnexpected, ReplayTorn, ReplayExhausted, ReplayEnd,
           Replaying, Finished
  <2>1. PICK lost \in Losses(arrived) : \E got \in Orders(arrived, lost) : Record(lost, got)
    BY <2>0
  <2>10. PICK got \in Orders(arrived, lost) : Record(lost, got)
    BY <2>1
  <2> DEFINE ran == Iteration(sys, RecCfg, step, lost, got)
  <2>2. step \in Nat /\ Node(RecCfg, sys) /\ t.due_step >= step
    BY DEF TypeInv, Recording
  <2>3. t.due_step \in Nat
    BY <2>2 DEF Node, Timers
  <2>4. IsFiniteSet(lost) /\ IsSeq(got)
    BY ArrivalsSeq DEF TypeInv
  <2>5. Iterated(RecCfg, sys, step, ran)
    BY <2>2, <2>4, Hosts, IterationNode
  <2>6. sys' = ran.sys
    BY <2>10 DEF Record
  <2> HIDE DEF ran
  <2>7. CASE step = t.due_step
    <3>1. t \notin sys.timers \ Due(sys, step) /\ ~ (t.due_step > step)
      BY <2>2, <2>3, <2>7 DEF Due
    <3> QED
      BY <2>5, <2>6, <2>7, <3>1 DEF Iterated
  <2>8. CASE step # t.due_step
    <3>1. t \in sys.timers \ Due(sys, step)
      BY <2>2, <2>3, <2>8 DEF Due
    <3> QED
      BY <2>5, <2>6, <2>8, <3>1 DEF Iterated
  <2> QED
    BY <2>7, <2>8
<1> QED
  BY <1>1, TypesHold, PTL DEF Spec, TimersPunctual

------------------------------------------------------------------------------
(***************************************************************************)
(* A torn line is nothing replay can read.                                 *)
(***************************************************************************)
TornInv ==
    /\ phase \in Replays => \A i \in 1..cursor : trace[i] # Torn
    /\ phase = "accepted" => cursor = Len(trace)

LEMMA NotTorn ==
    ASSUME NEW e, e.kind # "torn"
    PROVE  e # Torn
BY DEF Torn

(* A step that reads up to a later line, none of them torn. *)
LEMMA TornRead ==
    ASSUME TypeInv, TornInv, phase \in {"recorded"} \cup Replays,
           trace' = trace, phase' \in {"inbound", "await", "end"},
           NEW n \in Nat, cursor' = cursor + n,
           \A i \in 1..n : trace[cursor + i].kind # "torn"
    PROVE  TornInv'
<1>1. cursor \in Nat /\ (phase = "recorded" => cursor = 0)
  BY DEF TypeInv, Recording
<1>2. \A i \in 1..cursor : trace[i] # Torn
  BY <1>1 DEF TornInv
<1>3. ASSUME NEW i \in 1..(cursor + n) PROVE trace[i] # Torn
  <2>1. CASE i <= cursor
    BY <1>1, <1>2, <2>1
  <2>2. CASE i > cursor
    <3>1. i - cursor \in 1..n /\ cursor + (i - cursor) = i
      BY <1>1, <2>2
    <3>2. trace[i].kind # "torn"
      BY <3>1
    <3> QED
      BY <3>2, NotTorn
  <2> QED
    BY <1>1, <2>1, <2>2
<1> QED
  BY <1>3 DEF TornInv

LEMMA TornStep == TypeInv /\ TornInv /\ [Next]_vars => TornInv'
<1> SUFFICES ASSUME TypeInv, TornInv, [Next]_vars PROVE TornInv'
  OBVIOUS
<1>0. IsSeq(trace) /\ Len(trace) \in Nat /\ DOMAIN trace = 1..Len(trace) /\ cursor \in Nat
  BY SeqLen DEF TypeInv
<1>1. CASE phase' \notin Replays
  BY <1>1 DEF TornInv, Replays
<1>2. CASE phase \in Recording
  <2>1. phase' \in Recording \cup {"recorded"} \/ UNCHANGED vars
    BY <1>2 DEF Next, Boot, Record, Stop, Fail, Kill, Leave, RemoveLine, RepeatLine, SwapLines,
           Edited, ReplayStart, ReplayNetRecv, ReplayFault, DrainedInbound, replay_fire_timer,
           ReplayDeliver, ReplayUnexpected, ReplayTorn, ReplayExhausted, ReplayEnd,
           Replaying, Finished, Recording
  <2>2. phase' \notin Replays
    BY <1>2, <2>1 DEF vars, Recording, Replays
  <2> QED
    BY <1>1, <2>2
<1>3. CASE ReplayStart
  <2> DEFINE up == Startup(RepCfg)
             n == Len(up.events)
  <2>1. Booted(RepCfg, up)
    BY Hosts, StartupNode
  <2>2. n \in Nat /\ \A i \in 1..n : up.events[i].kind \in {"Spawn", "Send"}
    BY <2>1, SeqLen DEF Booted
  <2>3. CASE verify_replay_emits(up.events, 0)
    <3>1. cursor' = n /\ phase' \in {"inbound", "end"} /\ trace' = trace /\ phase = "recorded"
      BY <1>3, <2>3 DEF ReplayStart, Replaying
    <3>2. \A i \in 1..n : trace[0 + i] = up.events[i]
      BY <2>3 DEF verify_replay_emits
    <3> HIDE DEF n, up
    <3>3. cursor = 0
      BY <3>1 DEF TypeInv
    <3>4. \A i \in 1..n : trace[cursor + i].kind # "torn"
      BY <2>2, <3>2, <3>3
    <3> QED
      BY <2>2, <3>1, <3>3, <3>4, TornRead
  <2>4. CASE ~ verify_replay_emits(up.events, 0)
    <3>1. phase' = "rejected"
      BY <1>3, <2>4 DEF ReplayStart, Reject
    <3> QED
      BY <1>1, <3>1 DEF Replays
  <2> QED
    BY <2>3, <2>4
<1>4. CASE ReplayNetRecv \/ ReplayFault
  <2>1. /\ cursor' = cursor + 1 /\ trace' = trace /\ phase' = phase
        /\ phase \in {"inbound", "await"} /\ trace[cursor + 1].kind \in {"NetRecv", "Drop"}
    BY <1>4 DEF ReplayNetRecv, ReplayFault, Replaying, Event
  <2> QED
    BY <2>1, TornRead DEF Replays
<1>5. CASE DrainedInbound
  BY <1>5 DEF DrainedInbound, Replaying, TornInv, Replays
<1>6. CASE replay_fire_timer
  <2> DEFINE named == {t \in sys.timers : t.id = Event.id /\ t.from = Event.from}
             one == CHOOSE t \in named : TRUE
             acc == [sys |-> sys, events |-> <<>>]
             fired == FireOne(acc, RepCfg, one)
  <2>1. /\ phase = "await" /\ trace' = trace /\ trace[cursor + 1].kind = "TimerFired"
    BY <1>6 DEF replay_fire_timer, Replaying, Event
  <2>2. CASE cursor' = cursor + 1 /\ phase' = phase
    BY <2>1, <2>2, TornRead DEF Replays
  <2>3. CASE Reject
    BY <1>1, <2>3 DEF Reject, Replays
  <2>4. CASE cursor' = cursor + 2 /\ phase' = phase /\ trace[cursor + 2] = fired.events[2]
    <3>1. acc.sys = sys /\ acc.events = <<>>
      OBVIOUS
    <3>2. Node(RepCfg, sys)
      BY <2>1 DEF TypeInv, Recording
    <3> HIDE DEF acc, one, fired
    <3>3. Fired(RepCfg, acc, one, FireOne(acc, RepCfg, one))
      BY <3>1, <3>2, Hosts, SeqOne, FireOneNode
    <3>4. fired.events[2] = Emission(RepCfg, Without(acc.sys, one), one.from, one.out)
      <4>1. Len(acc.events) = 0
        BY <3>1, SeqOne
      <4> QED
        BY <3>3, <4>1 DEF Fired, fired
    <3>5. trace[cursor + 2].kind # "torn"
      BY <2>4, <3>4, EmissionKind
    <3>6. \A i \in 1..2 : trace[cursor + i].kind # "torn"
      BY <2>1, <3>5
    <3> QED
      BY <2>1, <2>4, <3>6, TornRead DEF Replays
  <2> QED
    BY <1>6, <2>2, <2>3, <2>4 DEF replay_fire_timer
<1>7. CASE ReplayDeliver
  <2> DEFINE s == Event.to
             ran == Deliver(sys, RepCfg, step, s)
             n == Len(ran.events)
  <2>1. /\ phase = "await" /\ trace' = trace /\ trace[cursor + 1].kind = "Deliver"
    BY <1>7 DEF ReplayDeliver, Replaying, Event
  <2>2. CASE cursor' = cursor + 1 /\ phase' = phase
    BY <2>1, <2>2, TornRead DEF Replays
  <2>3. CASE Reject
    BY <1>1, <2>3 DEF Reject, Replays
  <2>4. CASE /\ s \in Services /\ sys.inbox[s] # <<>>
             /\ verify_replay_emits(ran.events, cursor + 1)
             /\ cursor' = cursor + 1 + n /\ NextIteration
    <3>1. \A i \in 1..n : trace[cursor + 1 + i] = ran.events[i]
      BY <2>4 DEF verify_replay_emits
    <3>2. Node(RepCfg, sys) /\ step \in Nat
      BY <2>1 DEF TypeInv, Recording
    <3>3. phase' \in {"inbound", "end"}
      BY <2>4 DEF NextIteration
    <3> HIDE DEF s
    <3>4. IsSeq(ran.events) /\ \A i \in 1..Len(ran.events) : ran.events[i].kind \in Emissions
      BY <2>4, <3>2, Hosts, DeliverNode
    <3>8. n \in Nat /\ cursor' = cursor + 1 + n
      BY <2>4, <3>4, SeqLen
    <3> HIDE DEF n, ran
    <3>5. ASSUME NEW i \in 1..(n + 1) PROVE trace[cursor + i].kind # "torn"
      <4>1. CASE i = 1
        BY <2>1, <4>1
      <4>2. CASE i > 1
        <5>1. i - 1 \in 1..n /\ cursor + 1 + (i - 1) = cursor + i
          BY <1>0, <3>8, <4>2
        <5>2. trace[cursor + i] = ran.events[i - 1] /\ ran.events[i - 1].kind \in Emissions
          BY <3>1, <3>4, <5>1 DEF n
        <5> QED
          BY <5>2 DEF Emissions, Observations
      <4> QED
        BY <4>1, <4>2
    <3>6. cursor' = cursor + (n + 1) /\ n + 1 \in Nat
      BY <1>0, <3>8
    <3> QED
      BY <2>1, <3>3, <3>5, <3>6, TornRead DEF Replays
  <2> QED
    BY <1>7, <2>2, <2>3, <2>4 DEF ReplayDeliver
<1>8. CASE ReplayUnexpected \/ ReplayTorn
  BY <1>1, <1>8 DEF ReplayUnexpected, ReplayTorn, Reject, Replays
<1>9. CASE ReplayExhausted \/ ReplayEnd
  <2>1. phase' = "rejected" \/ (phase' = "accepted" /\ cursor = Len(trace))
    BY <1>9 DEF ReplayExhausted, ReplayEnd, Reject, Verdict, AtEnd
  <2>2. phase \in {"await", "end"} /\ cursor' = cursor /\ trace' = trace
    BY <1>9 DEF ReplayExhausted, ReplayEnd, Replaying, Reject, Verdict
  <2> QED
    BY <2>1, <2>2 DEF TornInv, Replays
<1>10. CASE UNCHANGED vars
  BY <1>10 DEF vars, TornInv
<1>11. CASE phase = "recorded" /\ phase' = "recorded"
  BY <1>1, <1>11 DEF Replays
<1> QED
  <2>1. ASSUME NEW i \in DOMAIN trace, RemoveLine(i) \/ RepeatLine(i) \/ SwapLines(i)
        PROVE  phase = "recorded" /\ phase' = "recorded"
    BY <2>1 DEF RemoveLine, RepeatLine, SwapLines, Edited
  <2>2. ASSUME Boot \/ Stop \/ Fail \/ Kill PROVE phase \in Recording
    BY <2>2 DEF Boot, Stop, Fail, Kill, Recording
  <2>3. ASSUME NEW lost, NEW got, Record(lost, got) PROVE phase \in Recording
    BY <2>3 DEF Record, Arrive, Recording
  <2> QED
    BY <1>2, <1>3, <1>4, <1>5, <1>6, <1>7, <1>8, <1>9, <1>10, <1>11, <2>1, <2>2, <2>3
       DEF Next, Finished

(* Wherever a torn line is, the trace is not accepted: no line replay reads *)
(* is torn, and it accepts a trace only when it has read it all.            *)
THEOREM TornLinesAreRejected == Spec => []TornIsRejected
<1>1. Init => TornInv
  BY DEF Init, TornInv, Replays
<1>2. TypeInv /\ TornInv => TornIsRejected
  <2> SUFFICES ASSUME TypeInv, TornInv, phase = "accepted", NEW i \in DOMAIN trace
               PROVE  trace[i] # Torn
    BY DEF TornIsRejected
  <2>1. DOMAIN trace = 1..Len(trace)
    BY SeqLen DEF TypeInv
  <2> QED
    BY <2>1 DEF TornInv, Replays
<1> QED
  BY <1>1, <1>2, TornStep, TypesHold, PTL DEF Spec

------------------------------------------------------------------------------
(***************************************************************************)
(* Reading a sequence of events.                                           *)
(***************************************************************************)
ReadsBy(r, v, events, n) ==
    /\ r[0] = v
    /\ \A k \in 1..n : Accepts(r[k - 1], events[k]) /\ r[k] = After(r[k - 1], events[k])

Reads(v, events, w) == \E r : ReadsBy(r, v, events, Len(events)) /\ r[Len(events)] = w

LEMMA ReadsNothing == \A v : Reads(v, <<>>, v)
<1> SUFFICES ASSUME NEW v PROVE Reads(v, <<>>, v)
  OBVIOUS
<1> DEFINE r == [k \in {0} |-> v]
<1>1. ReadsBy(r, v, <<>>, 0) /\ r[0] = v
  BY DEF ReadsBy
<1>2. Len(<<>>) = 0
  BY SeqOne
<1> HIDE DEF r
<1> QED
  BY <1>1, <1>2 DEF Reads

LEMMA ReadsOne ==
    ASSUME NEW v, NEW events, Len(events) = 1, Accepts(v, events[1])
    PROVE  Reads(v, events, After(v, events[1]))
<1> DEFINE e == events[1]
           w == After(v, e)
           r == [k \in {0, 1} |-> IF k = 0 THEN v ELSE w]
<1>1. r[0] = v /\ r[1] = w
  OBVIOUS
<1>2. ReadsBy(r, v, events, 1)
  <2> HIDE DEF r
  <2>1. ASSUME NEW k \in 1..1
        PROVE  Accepts(r[k - 1], events[k]) /\ r[k] = After(r[k - 1], events[k])
    <3>1. k = 1 /\ k - 1 = 0
      OBVIOUS
    <3> QED
      BY <1>1, <3>1
  <2> QED
    BY <1>1, <2>1 DEF ReadsBy
<1> HIDE DEF r, w
<1> QED
  BY <1>1, <1>2 DEF Reads, w

LEMMA ReadsOn ==
    ASSUME NEW p, NEW q, NEW z, Len(p) \in Nat, Len(q) \in Nat,
           Len(z) = Len(p) + Len(q),
           \A i \in 1..Len(p) : z[i] = p[i],
           \A i \in 1..Len(q) : z[Len(p) + i] = q[i],
           NEW u, NEW v, Reads(u, p, v), NEW w, Reads(v, q, w)
    PROVE  Reads(u, z, w)
<1> DEFINE m == Len(p)
           n == Len(q)
<1>1. PICK f : ReadsBy(f, u, p, m) /\ f[m] = v
  BY DEF Reads
<1>2. PICK g : ReadsBy(g, v, q, n) /\ g[n] = w
  BY DEF Reads
<1> DEFINE r == [k \in 0..(m + n) |-> IF k <= m THEN f[k] ELSE g[k - m]]
<1>0. m \in Nat /\ n \in Nat /\ Len(z) = m + n
  OBVIOUS
<1>6. (\A i \in 1..m : z[i] = p[i]) /\ \A i \in 1..n : z[m + i] = q[i]
  OBVIOUS
<1> HIDE DEF m, n
<1>3. /\ \A k \in 0..m : r[k] = f[k]
      /\ \A k \in 0..n : r[m + k] = g[k]
  <2>1. \A k \in 0..m : r[k] = f[k]
    BY <1>0
  <2>2. ASSUME NEW k \in 0..n PROVE r[m + k] = g[k]
    <3>1. CASE k = 0
      <4>1. r[m + k] = f[m]
        BY <1>0, <3>1
      <4> QED
        BY <1>1, <1>2, <3>1, <4>1 DEF ReadsBy
    <3>2. CASE k # 0
      <4>1. m + k \in 0..(m + n) /\ ~ (m + k <= m) /\ (m + k) - m = k
        BY <1>0, <3>2
      <4> QED
        BY <4>1
    <3> QED
      BY <3>1, <3>2
  <2> QED
    BY <2>1, <2>2
<1> HIDE DEF r
<1>4. ASSUME NEW k \in 1..(m + n)
      PROVE  Accepts(r[k - 1], z[k]) /\ r[k] = After(r[k - 1], z[k])
  <2>1. CASE k <= m
    <3>1. k \in 1..m /\ k \in 0..m /\ k - 1 \in 0..m
      BY <1>0, <2>1
    <3>2. z[k] = p[k] /\ r[k] = f[k] /\ r[k - 1] = f[k - 1]
      BY <1>3, <1>6, <3>1
    <3> QED
      BY <1>1, <3>1, <3>2 DEF ReadsBy
  <2>2. CASE k > m
    <3> DEFINE i == k - m
    <3>1. i \in 1..n /\ i \in 0..n /\ i - 1 \in 0..n /\ m + i = k /\ m + (i - 1) = k - 1
      BY <1>0, <2>2
    <3> HIDE DEF i
    <3>2. z[k] = q[i] /\ r[k] = g[i] /\ r[k - 1] = g[i - 1]
      BY <1>3, <1>6, <3>1
    <3> QED
      BY <1>2, <3>1, <3>2 DEF ReadsBy
  <2> QED
    BY <1>0, <2>1, <2>2
<1>5. r[0] = u /\ r[m + n] = w
  <2>1. 0 \in 0..m /\ n \in 0..n
    BY <1>0
  <2> QED
    BY <1>1, <1>2, <1>3, <2>1 DEF ReadsBy
<1>7. ReadsBy(r, u, z, m + n)
  BY <1>4, <1>5 DEF ReadsBy
<1> QED
  BY <1>0, <1>5, <1>7 DEF Reads

LEMMA ReadsBoth ==
    ASSUME NEW p, IsSeq(p), NEW q, IsSeq(q), NEW u, NEW v, Reads(u, p, v),
           NEW w, Reads(v, q, w)
    PROVE  Reads(u, p \o q, w)
<1> DEFINE z == p \o q
<1>1. /\ Len(p) \in Nat /\ Len(q) \in Nat /\ Len(z) = Len(p) + Len(q)
      /\ \A i \in 1..Len(p) : z[i] = p[i]
      /\ \A i \in 1..Len(z) : i > Len(p) => z[i] = q[i - Len(p)]
  BY SeqConcat
<1> HIDE DEF z
<1>2. ASSUME NEW i \in 1..Len(q) PROVE z[Len(p) + i] = q[i]
  <2>1. Len(p) + i \in 1..Len(z) /\ Len(p) + i > Len(p) /\ (Len(p) + i) - Len(p) = i
    BY <1>1
  <2> QED
    BY <1>1, <2>1
<1>3. Reads(u, z, w)
  BY <1>1, <1>2, ReadsOn
<1> QED
  BY <1>3 DEF z

(* The emissions a reader waits for. *)
LEMMA ReadsDue ==
    ASSUME NEW node, NEW due, IsSeq(due), NEW n
    PROVE  Reads(Reader(node, due, 0, n), due, Reader(node, due, Len(due), n))
<1> DEFINE m == Len(due)
           At(k) == Reader(node, due, k, n)
           r == [k \in 0..m |-> At(k)]
<1>1. m \in Nat
  BY SeqLen
<1>2. \A k \in 0..m : r[k] = At(k)
  OBVIOUS
<1>3. \A k : At(k).node = node /\ At(k).due = due /\ At(k).at = k /\ At(k).n = n
  BY DEF Reader
<1>4. ASSUME NEW k \in 1..m
      PROVE  Accepts(At(k - 1), due[k]) /\ At(k) = After(At(k - 1), due[k])
  <2> DEFINE v == At(k - 1)
  <2>1. v.node = node /\ v.due = due /\ v.at = k - 1 /\ v.n = n
    BY <1>3
  <2>2. (k - 1) + 1 = k /\ k - 1 # m
    BY <1>1
  <2>3. At(k) = Reader(node, due, k, n)
    OBVIOUS
  <2> HIDE DEF v, m, At
  <2>4. ~ Settled(v)
    BY <2>1, <2>2 DEF Settled, m
  <2>5. Accepts(v, due[k])
    BY <2>1, <2>2, <2>4 DEF Accepts
  <2>6. After(v, due[k]) = Reader(node, due, k, n)
    BY <2>1, <2>2, <2>4 DEF After
  <2> QED
    BY <2>3, <2>5, <2>6 DEF v
<1> HIDE DEF At
<1>5. ASSUME NEW k \in 1..m
      PROVE  Accepts(r[k - 1], due[k]) /\ r[k] = After(r[k - 1], due[k])
  <2>1. k \in 0..m /\ k - 1 \in 0..m
    BY <1>1
  <2> HIDE DEF r
  <2> QED
    BY <1>2, <1>4, <2>1
<1>6. 0 \in 0..m /\ m \in 0..m
  BY <1>1
<1> HIDE DEF r
<1>7. r[0] = At(0) /\ r[m] = At(m)
  BY <1>2, <1>6
<1>8. ReadsBy(r, At(0), due, m)
  BY <1>5, <1>7 DEF ReadsBy
<1>9. Reads(At(0), due, At(m))
  BY <1>7, <1>8 DEF Reads, m
<1> QED
  BY <1>9 DEF At, m

------------------------------------------------------------------------------
(***************************************************************************)
(* The reader keeps up with the recorder.                                  *)
(***************************************************************************)
IsReader(w) == w = Reader(w.node, w.due, w.at, w.n) /\ w.n \in Nat

Caught(w, x) == IsReader(w) /\ Settled(w) /\ Node(RepCfg, w.node) /\ Alike(w.node, x)

LEMMA ReadsDrops ==
    ASSUME SameCommandLine, NEW w, Settled(w), w.n < RepCfg.steps, NEW events, IsSeq(events),
           \A i \in 1..Len(events) : \E env : events[i] = DropEvent(RecCfg, env)
    PROVE  Reads(w, events, w)
<1> DEFINE n == Len(events)
           r == [k \in 0..n |-> w]
<1>1. n \in Nat
  BY SeqLen
<1>2. ASSUME NEW k \in 1..n PROVE Accepts(w, events[k]) /\ w = After(w, events[k])
  <2>1. PICK env : events[k] = DropEvent(RecCfg, env)
    OBVIOUS
  <2>2. events[k].kind = "Drop" /\ events[k].node = RepCfg.node
    BY <2>1 DEF DropEvent, SameCommandLine
  <2> QED
    BY <2>2 DEF Accepts, After
<1> HIDE DEF n
<1>3. ASSUME NEW k \in 1..n
      PROVE  Accepts(r[k - 1], events[k]) /\ r[k] = After(r[k - 1], events[k])
  <2>1. k \in 0..n /\ k - 1 \in 0..n
    BY <1>1
  <2>2. r[k] = w /\ r[k - 1] = w
    BY <2>1
  <2> HIDE DEF r
  <2> QED
    BY <1>2, <2>2
<1>4. r[0] = w /\ r[n] = w
  BY <1>1
<1> HIDE DEF r
<1> QED
  BY <1>3, <1>4 DEF Reads, ReadsBy, n

LEMMA ReceiveEvent ==
    ASSUME NEW x, NEW env
    PROVE  /\ Receive(x, NetRecvEvent(RecCfg, env)) = Receive(x, env)
           /\ NetRecvEvent(RecCfg, env).kind = "NetRecv"
           /\ NetRecvEvent(RecCfg, env).node = RecCfg.node
<1> DEFINE e == NetRecvEvent(RecCfg, env)
<1>1. e.to = env.to /\ e.id = env.id /\ e.msg = env.msg
      /\ e.kind = "NetRecv" /\ e.node = RecCfg.node
  BY DEF NetRecvEvent
<1> HIDE DEF e
<1>2. Receive(x, e) = Receive(x, env)
  BY <1>1 DEF Receive
<1> QED
  BY <1>1, <1>2 DEF e

LEMMA ReadsNetRecvs ==
    ASSUME SameCommandLine, NEW w, IsReader(w), Settled(w), w.n < RepCfg.steps,
           NEW got, NEW n \in Nat, NEW g, ReceivesBy(g, n, w.node, got),
           NEW events, Len(events) = n,
           \A i \in 1..n : events[i] = NetRecvEvent(RecCfg, got[i])
    PROVE  Reads(w, events, Reader(g[n], w.due, w.at, w.n))
<1> DEFINE At(k) == Reader(g[k], w.due, w.at, w.n)
           r == [k \in 0..n |-> At(k)]
<1>1. \A k : At(k).node = g[k] /\ At(k).due = w.due /\ At(k).at = w.at /\ At(k).n = w.n
  BY DEF Reader
<1>2. ASSUME NEW k \in 1..n
      PROVE  Accepts(At(k - 1), events[k]) /\ At(k) = After(At(k - 1), events[k])
  <2> DEFINE v == At(k - 1)
             e == events[k]
             x == g[k - 1]
             env == got[k]
  <2>1. v.node = x /\ v.due = w.due /\ v.at = w.at /\ v.n = w.n
    BY <1>1
  <2>2. e = NetRecvEvent(RecCfg, env)
    OBVIOUS
  <2>3. At(k) = Reader(g[k], w.due, w.at, w.n)
    OBVIOUS
  <2>4. g[k] = Receive(x, env)
    BY DEF ReceivesBy
  <2> HIDE DEF At, v, e, x, env
  <2>5. Receive(x, e) = g[k] /\ e.kind = "NetRecv" /\ e.node = RepCfg.node
    BY <2>2, <2>4, ReceiveEvent DEF SameCommandLine
  <2>6. Settled(v)
    BY <2>1 DEF Settled
  <2>7. Accepts(v, e)
    BY <2>1, <2>5, <2>6 DEF Accepts
  <2>8. After(v, e) = Reader(Receive(v.node, e), v.due, v.at, v.n)
    BY <2>5, <2>6 DEF After
  <2> QED
    BY <2>1, <2>3, <2>5, <2>7, <2>8 DEF v, e
<1> HIDE DEF At
<1>3. ASSUME NEW k \in 1..n
      PROVE  Accepts(r[k - 1], events[k]) /\ r[k] = After(r[k - 1], events[k])
  <2>1. k \in 0..n /\ k - 1 \in 0..n
    OBVIOUS
  <2>2. r[k] = At(k) /\ r[k - 1] = At(k - 1)
    BY <2>1
  <2> HIDE DEF r
  <2> QED
    BY <1>2, <2>2
<1>4. r[0] = At(0) /\ r[n] = At(n)
  OBVIOUS
<1>5. At(0) = w
  BY DEF At, ReceivesBy, IsReader
<1> HIDE DEF r
<1>6. ReadsBy(r, w, events, n)
  BY <1>3, <1>4, <1>5 DEF ReadsBy
<1> QED
  BY <1>4, <1>6 DEF Reads, At

(* The two events of a timer. *)
LEMMA ReadsTimer ==
    ASSUME SameCommandLine, NEW acc, Node(RecCfg, acc.sys), IsSeq(acc.events),
           NEW w, Caught(w, acc.sys), w.n < RepCfg.steps,
           NEW t \in acc.sys.timers,
           NEW v, Reads(v, acc.events, w)
    PROVE  LET b == FireOne(acc, RecCfg, t)
           IN  \E u : Caught(u, b.sys) /\ u.n = w.n /\ Reads(v, b.events, u)
<1> DEFINE b == FireOne(acc, RecCfg, t)
           n == Len(acc.events)
           e == TimerFiredEvent(RecCfg, t)
           next == Emission(RecCfg, Without(acc.sys, t), t.from, t.out)
<1>1. Fired(RecCfg, acc, t, b)
  BY Hosts, FireOneNode
<1>2. /\ n \in Nat /\ IsSeq(b.events) /\ Len(b.events) = n + 2
      /\ \A i \in 1..n : b.events[i] = acc.events[i]
      /\ b.events[n + 1] = e /\ b.events[n + 2] = next
  BY <1>1 DEF Fired
<1>3. e.kind = "TimerFired" /\ e.node = RepCfg.node /\ e.id = t.id /\ e.from = t.from
  BY DEF TimerFiredEvent, SameCommandLine
<1>4. SameHost(RecCfg, RepCfg)
  BY DEF SameHost, SameCommandLine
<1>5. Node(RepCfg, w.node) /\ Alike(w.node, acc.sys) /\ Alike(acc.sys, w.node)
  BY AlikeIsEquivalence DEF Caught
<1>6. PICK u0 \in w.node.timers : SameTimer(t, u0)
  BY <1>5 DEF Alike
<1> DEFINE u == CHOOSE x \in Named(w, e) : TRUE
           q == [sys |-> w.node, events |-> <<>>]
           fired == FireOne(q, RepCfg, u)
<1>7. u0 \in Named(w, e)
  BY <1>3, <1>6 DEF Named, SameTimer
<1>8. u \in Named(w, e)
  BY <1>7
<1>9. u \in w.node.timers /\ u.id = t.id
  BY <1>3, <1>8 DEF Named
<1>10. q.sys = w.node /\ q.events = <<>>
  OBVIOUS
<1>11. FiredBy(w, e) = fired
  BY DEF FiredBy
<1> HIDE DEF u, q
<1>12. /\ SameTimer(t, u) /\ e = TimerFiredEvent(RepCfg, u)
       /\ next = Emission(RepCfg, Without(q.sys, u), u.from, u.out)
       /\ Alike(b.sys, fired.sys)
  <2>1. /\ SameTimer(t, u) /\ TimerFiredEvent(RecCfg, t) = TimerFiredEvent(RepCfg, u)
        /\ Emission(RecCfg, Without(acc.sys, t), t.from, t.out)
              = Emission(RepCfg, Without(q.sys, u), u.from, u.out)
        /\ Alike(FireOne(acc, RecCfg, t).sys, FireOne(q, RepCfg, u).sys)
    BY <1>4, <1>5, <1>9, <1>10, Hosts, FireOneAlike
  <2> QED
    BY <2>1
<1>13. /\ Node(RepCfg, fired.sys)
       /\ fired.events[2] = Emission(RepCfg, Without(q.sys, u), u.from, u.out)
  <2>1. IsSeq(q.events) /\ Len(q.events) = 0
    BY <1>10, SeqOne
  <2>2. Fired(RepCfg, q, u, fired)
    BY <1>5, <1>10, <2>1, Hosts, FireOneNode
  <2> HIDE DEF fired
  <2> QED
    BY <2>1, <2>2 DEF Fired
<1> HIDE DEF fired, b, next, e
<1> DEFINE one == <<e>>
           two == <<next>>
           x == Reader(fired.sys, two, 0, w.n)
           y == Reader(fired.sys, two, 1, w.n)
<1>14. IsSeq(one) /\ Len(one) = 1 /\ one[1] = e /\ IsSeq(two) /\ Len(two) = 1 /\ two[1] = next
  BY SeqOne
<1> HIDE DEF one, two
<1>15. Reads(w, one, x)
  <2>1. Settled(w)
    BY DEF Caught
  <2>2. Accepts(w, e)
    BY <1>3, <1>8, <2>1 DEF Accepts
  <2>3. After(w, e) = Reader(FiredBy(w, e).sys, <<FiredBy(w, e).events[2]>>, 0, w.n)
    BY <1>3, <2>1 DEF After
  <2>4. After(w, e) = x
    BY <1>11, <1>12, <1>13, <2>3 DEF two
  <2> HIDE DEF x
  <2> QED
    BY <1>14, <2>2, <2>4, ReadsOne
<1>16. Reads(x, two, y)
  BY <1>14, ReadsDue
<1>17. Reads(w, one \o two, y)
  <2> HIDE DEF x, y
  <2> QED
    BY <1>14, <1>15, <1>16, ReadsBoth
<1>18. Reads(v, b.events, y)
  <2> DEFINE pair == one \o two
             z == b.events
             p == acc.events
  <2>1. Len(pair) = 2 /\ pair[1] = e /\ pair[2] = next
    <3>1. /\ Len(pair) = Len(one) + Len(two)
          /\ \A i \in 1..Len(one) : pair[i] = one[i]
          /\ \A i \in 1..Len(pair) : i > Len(one) => pair[i] = two[i - Len(one)]
      BY <1>14, SeqConcat
    <3> HIDE DEF pair
    <3>2. Len(pair) = 2 /\ 1 \in 1..Len(one) /\ 2 \in 1..Len(pair) /\ 2 > Len(one)
          /\ 2 - Len(one) = 1
      BY <1>14, <3>1
    <3>3. pair[1] = one[1] /\ pair[2] = two[1]
      BY <3>1, <3>2
    <3> QED
      BY <1>14, <3>2, <3>3
  <2> HIDE DEF pair, y, x
  <2>2. ASSUME NEW i \in 1..Len(pair) PROVE z[n + i] = pair[i]
    <3>1. i = 1 \/ i = 2
      BY <2>1
    <3> QED
      BY <1>2, <2>1, <3>1
  <2>3. Len(p) = n /\ Len(z) = Len(p) + Len(pair)
    BY <1>2, <2>1
  <2>4. Reads(w, pair, y)
    BY <1>17 DEF pair
  <2>5. \A i \in 1..Len(p) : z[i] = p[i]
    BY <1>2
  <2>6. \A i \in 1..Len(pair) : z[Len(p) + i] = pair[i]
    BY <2>2
  <2>7. Len(p) \in Nat /\ Len(pair) \in Nat /\ Reads(v, p, w)
    BY <1>2, <2>1
  <2> HIDE DEF z, p, n
  <2>8. Reads(v, z, y)
    BY <2>3, <2>4, <2>5, <2>6, <2>7, ReadsOn
  <2> QED
    BY <2>8 DEF z
<1>19. y.node = fired.sys /\ y.due = two /\ y.at = 1 /\ y.n = w.n /\ IsReader(y)
  <2>1. y.node = fired.sys /\ y.due = two /\ y.at = 1 /\ y.n = w.n
    BY DEF Reader
  <2>2. w.n \in Nat
    BY DEF Caught, IsReader
  <2> QED
    BY <2>1, <2>2 DEF IsReader
<1> HIDE DEF y
<1>20. Caught(y, b.sys)
  BY <1>12, <1>13, <1>14, <1>19, AlikeIsEquivalence DEF Caught, Settled
<1> QED
  BY <1>18, <1>19, <1>20 DEF b

(* The timers that are due. *)
LEMMA ReadsTimers ==
    ASSUME SameCommandLine, NEW x, NEW f, NEW n, NEW q, Firing(f, n, q, x, RecCfg),
           NEW w, Caught(w, x), w.n < RepCfg.steps
    PROVE  \E u : Caught(u, f[n].sys) /\ u.n = w.n /\ Reads(w, f[n].events, u)
<1> DEFINE Follows(k) == \E u : Caught(u, f[k].sys) /\ u.n = w.n /\ Reads(w, f[k].events, u)
           T == {k \in Nat : k <= n => Follows(k)}
<1>1. n \in Nat
  BY DEF Firing
<1>2. 0 \in T
  <2>1. f[0].sys = x /\ f[0].events = <<>>
    BY DEF Firing
  <2>2. Follows(0)
    BY <2>1, ReadsNothing
  <2> QED
    BY <2>2
<1>3. ASSUME NEW k \in T, k + 1 <= n PROVE Follows(k + 1)
  <2>1. k \in Nat /\ Follows(k) /\ k \in 0..n /\ k + 1 \in 1..n /\ (k + 1) - 1 = k
    BY <1>1, <1>3
  <2>2. PICK u : Caught(u, f[k].sys) /\ u.n = w.n /\ Reads(w, f[k].events, u)
    BY <2>1
  <2> HIDE DEF Follows, T
  <2> DEFINE acc == f[k]
             t == q[k + 1]
  <2>3. /\ f[k + 1] = FireOne(acc, RecCfg, t) /\ t \in acc.sys.timers
        /\ Node(RecCfg, acc.sys) /\ IsSeq(acc.events)
    BY <2>1 DEF Firing
  <2>4. Caught(u, acc.sys) /\ u.n = w.n /\ Reads(w, acc.events, u)
    BY <2>2
  <2> HIDE DEF acc, t
  <2>5. LET b == FireOne(acc, RecCfg, t)
        IN  \E z : Caught(z, b.sys) /\ z.n = u.n /\ Reads(w, b.events, z)
    BY <2>3, <2>4, ReadsTimer
  <2> QED
    BY <2>3, <2>4, <2>5 DEF Follows
<1>4. \A k \in T \cap Nat : k + 1 \in T
  <2> HIDE DEF Follows
  <2> QED
    BY <1>3
<1> HIDE DEF T
<1>5. n \in T
  BY <1>1, <1>2, <1>4, Induction
<1> QED
  BY <1>1, <1>5 DEF T

(* What precedes the delivery of an iteration. *)
LEMMA ReadsPrelude ==
    ASSUME SameCommandLine, NEW x, Node(RecCfg, x), NEW m, NEW lost, IsFiniteSet(lost),
           NEW got, IsSeq(got), NEW w, Caught(w, x), w.n < RepCfg.steps
    PROVE  LET pre == Prelude(x, RecCfg, m, lost, got)
           IN  \E u : Caught(u, pre.sys) /\ u.n = w.n /\ Reads(w, pre.events, u)
<1> DEFINE y == ReceiveAll(x, got)
           drops == SetToSeq({DropEvent(RecCfg, env) : env \in lost})
           recvs == [i \in DOMAIN got |-> NetRecvEvent(RecCfg, got[i])]
           fired == FireDue(y, RecCfg, m)
           n == Len(got)
<1>1. n \in Nat /\ DOMAIN got = 1..n
  BY SeqLen
<1>2. PICK f : ReceivesBy(f, n, x, got)
  BY <1>1, ReceiveRun
<1>3. PICK g : ReceivesBy(g, n, w.node, got)
  BY <1>1, ReceiveRun
<1>4. IsSeq(drops) /\ \A i \in 1..Len(drops) : \E env : drops[i] = DropEvent(RecCfg, env)
  BY DropEvents
<1>5. recvs = [i \in 1..n |-> recvs[i]] /\ \A i \in 1..n : recvs[i] = NetRecvEvent(RecCfg, got[i])
  BY <1>1
<1>6. Prelude(x, RecCfg, m, lost, got)
          = [sys |-> fired.sys, events |-> (drops \o recvs) \o fired.events]
  BY DEF Prelude, drain_network
<1>7. y = f[n]
  BY <1>2 DEF ReceivesBy
<1>8. IsReader(w) /\ Settled(w) /\ Node(RepCfg, w.node) /\ Alike(w.node, x)
  BY DEF Caught
<1> HIDE DEF n, y, drops, recvs
<1>9. IsSeq(recvs) /\ Len(recvs) = n
  BY <1>1, <1>5, SeqMade
<1>10. Reads(w, drops, w)
  BY <1>4, <1>8, ReadsDrops
<1> DEFINE v == Reader(g[n], w.due, w.at, w.n)
<1>11. Reads(w, recvs, v)
  BY <1>1, <1>3, <1>5, <1>8, <1>9, ReadsNetRecvs
<1>12. Reads(w, drops \o recvs, v)
  <2> HIDE DEF v
  <2> QED
    BY <1>4, <1>9, <1>10, <1>11, ReadsBoth
<1>13. Node(RecCfg, y)
  <2>1. \A k \in 0..n : Node(RecCfg, f[k]) /\ f[k].timers = x.timers /\ f[k].wire = x.wire
    BY <1>1, <1>2, ReceivingNode
  <2>2. n \in 0..n
    BY <1>1
  <2> QED
    BY <1>7, <2>1, <2>2
<1>14. Caught(v, y)
  <2>1. \A k \in 0..n : Node(RepCfg, g[k]) /\ g[k].timers = w.node.timers /\ g[k].wire = w.node.wire
    <3> DEFINE z == w.node
    <3>1. Node(RepCfg, z) /\ ReceivesBy(g, n, z, got)
      BY <1>3, <1>8
    <3> HIDE DEF z
    <3>2. \A k \in 0..n : Node(RepCfg, g[k]) /\ g[k].timers = z.timers /\ g[k].wire = z.wire
      BY <1>1, <3>1, ReceivingNode
    <3> QED
      BY <3>2 DEF z
  <2>2. Alike(g[n], f[n])
    BY <1>1, <1>2, <1>3, <1>8, ReceivingAlike
  <2>3. n \in 0..n
    BY <1>1
  <2>4. v.node = g[n] /\ v.due = w.due /\ v.at = w.at /\ v.n = w.n
    BY DEF Reader
  <2>5. v = Reader(v.node, v.due, v.at, v.n)
    BY <2>4
  <2> HIDE DEF v
  <2>6. IsReader(v) /\ Settled(v)
    BY <1>8, <2>4, <2>5 DEF IsReader, Settled
  <2> QED
    BY <1>7, <2>1, <2>2, <2>3, <2>4, <2>6 DEF Caught
<1>15. v.n = w.n
  BY DEF Reader
<1>16. PICK h, j, q : Firing(h, j, q, y, RecCfg) /\ fired = h[j]
  <2>1. \E h, j, q : /\ Firing(h, j, q, y, RecCfg) /\ FireDue(y, RecCfg, m) = h[j]
                     /\ h[j].sys.timers = y.timers \ Due(y, m)
    BY <1>13, Hosts, FireDueRun
  <2> QED
    BY <2>1
<1> HIDE DEF v, fired
<1>17. PICK u : Caught(u, fired.sys) /\ u.n = w.n /\ Reads(v, fired.events, u)
  <2>1. \E u : Caught(u, h[j].sys) /\ u.n = v.n /\ Reads(v, h[j].events, u)
    BY <1>14, <1>15, <1>16, ReadsTimers
  <2> QED
    BY <1>15, <1>16, <2>1
<1>18. IsSeq(fired.events)
  <2>1. j \in 0..j
    BY <1>16 DEF Firing
  <2> QED
    BY <1>16, <2>1 DEF Firing
<1>19. IsSeq(drops \o recvs)
  BY <1>4, <1>9, SeqConcat
<1> DEFINE both == drops \o recvs
           tail == fired.events
<1>20. Reads(w, both \o tail, u)
  <2>1. IsSeq(both) /\ IsSeq(tail) /\ Reads(w, both, v) /\ Reads(v, tail, u)
    BY <1>12, <1>17, <1>18, <1>19
  <2> HIDE DEF both, tail
  <2> QED
    BY <2>1, ReadsBoth
<1> QED
  BY <1>6, <1>17, <1>20

(* An event no reader in the state w can accept, because the handler fails. *)
Refused(w, e) ==
    /\ IsReader(w) /\ Settled(w) /\ ~ Accepts(w, e)
    /\ e.kind = "Deliver" /\ e.node = RepCfg.node

LEMMA ReadsDelivery ==
    ASSUME SameCommandLine, NEW x, Node(RecCfg, x), NEW m \in Nat,
           NEW s \in Services, x.inbox[s] # <<>>,
           NEW w, Caught(w, x), w.n < RepCfg.steps
    PROVE  LET r == Deliver(x, RecCfg, m, s)
               e == DeliverEvent(RecCfg, s, r.id)
           IN  /\ r.ok => \E v, u : /\ Reads(w, <<e>>, v) /\ Reads(v, r.events, u)
                                    /\ Caught(u, r.sys) /\ u.n = w.n + 1
               /\ ~ r.ok => Refused(w, e)
<1> DEFINE r == Deliver(x, RecCfg, m, s)
           e == DeliverEvent(RecCfg, s, r.id)
           y == w.node
           d == Deliver(y, RepCfg, 0, s)
<1>1. /\ e.kind = "Deliver" /\ e.node = RepCfg.node /\ e.to = s /\ e.id = r.id
  BY DEF DeliverEvent, SameCommandLine
<1>2. DeliveredBy(w, e) = d
  BY <1>1 DEF DeliveredBy
<1>3. IsReader(w) /\ Settled(w) /\ Node(RepCfg, y) /\ Alike(x, y)
  BY AlikeIsEquivalence DEF Caught
<1>4. y.inbox[s] # <<>>
  BY <1>3 DEF Alike
<1>5. SameHost(RecCfg, RepCfg) /\ Host(RecCfg) /\ Host(RepCfg)
  BY Hosts DEF SameHost, SameCommandLine
<1> HIDE DEF y
<1>6. r.ok = d.ok /\ r.id = d.id /\ r.events = d.events /\ Alike(r.sys, d.sys)
  <2>1. LET a == Deliver(x, RecCfg, m, s)
            b == Deliver(y, RepCfg, 0, s)
        IN  a.ok = b.ok /\ a.id = b.id /\ a.events = b.events /\ Alike(a.sys, b.sys)
    BY <1>3, <1>5, DeliverAlike
  <2> QED
    BY <2>1
<1>7. d.ok \in BOOLEAN /\ Node(RepCfg, d.sys) /\ IsSeq(d.events)
  BY <1>3, <1>4, <1>5, DeliverNode
<1> HIDE DEF r, d, e
<1>8. CASE r.ok
  <2> DEFINE one == <<e>>
             v == Reader(d.sys, d.events, 0, w.n + 1)
             u == Reader(d.sys, d.events, Len(d.events), w.n + 1)
  <2>1. Len(one) = 1 /\ one[1] = e
    BY SeqOne
  <2>2. Accepts(w, e)
    BY <1>1, <1>2, <1>3, <1>4, <1>6, <1>8 DEF Accepts, y
  <2>3. After(w, e) = v
    BY <1>1, <1>2, <1>3 DEF After
  <2> HIDE DEF one, v
  <2>4. Reads(w, one, v)
    BY <2>1, <2>2, <2>3, ReadsOne
  <2>5. Reads(v, d.events, u)
    BY <1>7, ReadsDue DEF v
  <2>6. u.node = d.sys /\ u.due = d.events /\ u.at = Len(d.events) /\ u.n = w.n + 1
    BY DEF Reader
  <2>7. w.n + 1 \in Nat
    BY <1>3 DEF IsReader
  <2>8. IsReader(u) /\ Settled(u)
    BY <2>6, <2>7 DEF IsReader, Settled
  <2> HIDE DEF u
  <2>9. Caught(u, r.sys)
    BY <1>6, <1>7, <2>6, <2>8, AlikeIsEquivalence DEF Caught
  <2>10. Reads(w, <<e>>, v) /\ Reads(v, r.events, u) /\ Caught(u, r.sys) /\ u.n = w.n + 1
    BY <1>6, <2>4, <2>5, <2>6, <2>9 DEF one
  <2> QED
    BY <1>8, <2>10 DEF r, e
<1>9. CASE ~ r.ok
  <2>1. ~ Accepts(w, e)
    BY <1>1, <1>2, <1>3, <1>6, <1>9 DEF Accepts
  <2>2. Refused(w, e)
    BY <1>1, <1>3, <2>1 DEF Refused
  <2> QED
    BY <1>9, <2>2 DEF r, e
<1> QED
  BY <1>8, <1>9

(***************************************************************************)
(* The trace of a recorder in state x after m iterations, and of one that  *)
(* a handler ended.                                                        *)
(***************************************************************************)
Keeps(events, x, m) == \E w : Reads(FirstReader, events, w) /\ Caught(w, x) /\ w.n <= m

Breaks(events) ==
    \E p, e, w : /\ IsSeq(p) /\ events = Append(p, e)
                 /\ Reads(FirstReader, p, w) /\ Refused(w, e)

LEMMA KeepsIterating ==
    ASSUME SameCommandLine, NEW x, Node(RecCfg, x), NEW m \in Nat, m < RecCfg.steps,
           NEW lost, IsFiniteSet(lost), NEW got, IsSeq(got),
           NEW events, IsSeq(events), Keeps(events, x, m)
    PROVE  LET ran == Iteration(x, RecCfg, m, lost, got)
           IN  IF ran.ok THEN Keeps(events \o ran.events, ran.sys, m + 1)
                         ELSE Breaks(events \o ran.events)
<1> DEFINE pre == Prelude(x, RecCfg, m, lost, got)
<1>1. Prepared(RecCfg, x, m, pre)
  BY Hosts, PreludeNode
<1>2. PICK w : Reads(FirstReader, events, w) /\ Caught(w, x) /\ w.n <= m
  BY DEF Keeps
<1>3. w.n \in Nat /\ w.n < RepCfg.steps
  BY <1>2, CfgAssumption DEF Caught, IsReader, SameCommandLine
<1>4. PICK u : Caught(u, pre.sys) /\ u.n = w.n /\ Reads(w, pre.events, u)
  BY <1>2, <1>3, ReadsPrelude
<1> DEFINE s == choose_next_deterministic(pre.sys)
           r == Deliver(pre.sys, RecCfg, m, s)
           e == DeliverEvent(RecCfg, s, r.id)
           ran == Iteration(x, RecCfg, m, lost, got)
           z == pre.sys
           before == pre.events
<1>5. Node(RecCfg, z) /\ IsSeq(before)
  BY <1>1 DEF Prepared
<1>6. Caught(u, z) /\ u.n = w.n /\ Reads(w, before, u)
  BY <1>4
<1>7. CASE Ready(pre.sys) = {}
  <2>1. ran = [ok |-> TRUE, sys |-> z, events |-> before]
    BY <1>7 DEF Iteration
  <2> HIDE DEF z, before, pre, ran
  <2>2. Reads(FirstReader, events \o before, u)
    BY <1>2, <1>5, <1>6, ReadsBoth
  <2>3. u.n <= m + 1
    BY <1>2, <1>3, <1>6
  <2>4. Keeps(events \o before, z, m + 1)
    BY <1>6, <2>2, <2>3 DEF Keeps
  <2>5. IF ran.ok THEN Keeps(events \o ran.events, ran.sys, m + 1)
                  ELSE Breaks(events \o ran.events)
    BY <2>1, <2>4
  <2> QED
    BY <2>5 DEF ran
<1>8. CASE Ready(pre.sys) # {}
  <2> DEFINE one == <<e>>
  <2>1. ran = IF r.ok
              THEN [ok |-> TRUE, sys |-> r.sys, events |-> (before \o one) \o r.events]
              ELSE [ok |-> FALSE, sys |-> z, events |-> before \o one]
    BY <1>8 DEF Iteration
  <2>2. s \in Services /\ z.inbox[s] # <<>>
    <3>1. s \in Ready(pre.sys)
      BY <1>8, ChoiceIsReady
    <3> QED
      BY <3>1 DEF Ready
  <2>3. r = Deliver(z, RecCfg, m, s) /\ e = DeliverEvent(RecCfg, s, r.id)
    OBVIOUS
  <2> HIDE DEF z, before, pre, s, ran, r, e
  <2>4. r.ok \in BOOLEAN /\ IsSeq(r.events)
    <3> DEFINE d == Deliver(z, RecCfg, m, s)
    <3>1. d.ok \in BOOLEAN /\ IsSeq(d.events)
      BY <1>5, <2>2, Hosts, DeliverNode
    <3> QED
      BY <2>3, <3>1
  <2>5. /\ r.ok => \E v, y : /\ Reads(u, <<e>>, v) /\ Reads(v, r.events, y)
                             /\ Caught(y, r.sys) /\ y.n = u.n + 1
        /\ ~ r.ok => Refused(u, e)
    <3> DEFINE d == Deliver(z, RecCfg, m, s)
               f == DeliverEvent(RecCfg, s, d.id)
    <3>1. u.n < RepCfg.steps
      BY <1>3, <1>6
    <3>2. /\ d.ok => \E v, y : /\ Reads(u, <<f>>, v) /\ Reads(v, d.events, y)
                               /\ Caught(y, d.sys) /\ y.n = u.n + 1
          /\ ~ d.ok => Refused(u, f)
      BY <1>5, <1>6, <2>2, <3>1, ReadsDelivery
    <3>3. d = r /\ f = e
      BY <2>3
    <3> HIDE DEF d, f
    <3> QED
      BY <3>2, <3>3
  <2>6. IsSeq(one)
    BY SeqOne
  <2> HIDE DEF one
  <2>7. CASE r.ok
    <3>1. PICK v, y : /\ Reads(u, one, v) /\ Reads(v, r.events, y)
                      /\ Caught(y, r.sys) /\ y.n = u.n + 1
      BY <2>5, <2>7 DEF one
    <3>2. Reads(w, before \o one, v) /\ IsSeq(before \o one)
      BY <1>5, <1>6, <2>6, <3>1, ReadsBoth, SeqConcat
    <3> DEFINE p == before \o one
    <3> HIDE DEF p
    <3>3. Reads(w, p \o r.events, y) /\ IsSeq(p \o r.events)
      BY <2>4, <3>1, <3>2, ReadsBoth, SeqConcat DEF p
    <3> DEFINE q == p \o r.events
    <3> HIDE DEF q
    <3>4. Reads(FirstReader, events \o q, y)
      BY <1>2, <3>3, ReadsBoth DEF q
    <3>5. y.n <= m + 1
      BY <1>2, <1>3, <1>6, <3>1
    <3>6. Keeps(events \o q, r.sys, m + 1)
      BY <3>1, <3>4, <3>5 DEF Keeps
    <3>7. ran.ok = TRUE /\ ran.sys = r.sys /\ ran.events = q
      BY <2>1, <2>7 DEF p, q
    <3> QED
      BY <3>6, <3>7 DEF ran
  <2>8. CASE ~ r.ok
    <3>1. Refused(u, e)
      BY <2>5, <2>8
    <3> DEFINE p == events \o before
    <3>2. Reads(FirstReader, p, u) /\ IsSeq(p)
      BY <1>2, <1>5, <1>6, ReadsBoth, SeqConcat
    <3>3. events \o (before \o one) = Append(p, e)
      <4> DEFINE S == (Range(events) \cup Range(before)) \cup {e}
      <4>1. events \in Seq(Range(events)) /\ before \in Seq(Range(before))
        BY <1>5 DEF IsSeq
      <4>2. events \in Seq(S) /\ before \in Seq(S) /\ e \in S
        BY <4>1
      <4> HIDE DEF S
      <4>3. events \o (before \o <<e>>) = Append(events \o before, e)
        BY <4>2
      <4> QED
        BY <4>3 DEF one
    <3> HIDE DEF p
    <3>4. Breaks(events \o (before \o one))
      BY <3>1, <3>2, <3>3 DEF Breaks
    <3>5. ran.ok = FALSE /\ ran.events = before \o one
      BY <2>1, <2>8
    <3> QED
      BY <3>4, <3>5 DEF ran
  <2> QED
    BY <2>4, <2>7, <2>8
<1> QED
  BY <1>7, <1>8

(* After the start-up the reader is where the recorder is. *)
LEMMA KeepsStarting ==
    ASSUME SameCommandLine
    PROVE  Keeps(Startup(RecCfg).events, Startup(RecCfg).sys, 0)
<1> DEFINE up == Startup(RecCfg)
           w == Reader(up.sys, up.events, Len(up.events), 0)
<1>1. Startup(RepCfg) = up
  <2>1. RecCfg.node = RepCfg.node /\ Boots(RecCfg) = Boots(RepCfg)
    BY DEF SameCommandLine, Boots
  <2> QED
    BY <2>1, Hosts, StartupSame
<1>2. Booted(RepCfg, up)
  BY <1>1, Hosts, StartupNode
<1> HIDE DEF up
<1>3. Node(RepCfg, up.sys) /\ IsSeq(up.events) /\ Alike(up.sys, up.sys)
  BY <1>2, AlikeIsEquivalence DEF Booted
<1>4. FirstReader = Reader(up.sys, up.events, 0, 0)
  BY <1>1 DEF FirstReader
<1>5. Reads(FirstReader, up.events, w)
  BY <1>3, <1>4, ReadsDue
<1>6. w.node = up.sys /\ w.due = up.events /\ w.at = Len(up.events) /\ w.n = 0
  BY DEF Reader
<1>7. IsReader(w) /\ Settled(w)
  BY <1>6 DEF IsReader, Settled
<1> HIDE DEF w
<1>8. Caught(w, up.sys) /\ w.n <= 0
  BY <1>3, <1>6, <1>7 DEF Caught
<1> QED
  BY <1>5, <1>8 DEF Keeps, up

------------------------------------------------------------------------------
LEMMA Inserted ==
    ASSUME NEW q, IsSeq(q), NEW i \in 1..Len(q), NEW e
    PROVE  LET z == InsertAt(q, i, e)
               n == Len(q)
           IN  /\ IsSeq(z) /\ Len(z) = n + 1
               /\ \A j \in 1..(n + 1) :
                     z[j] = IF j < i THEN q[j] ELSE IF j = i THEN e ELSE q[j - 1]
<1> DEFINE n == Len(q)
           k == i - 1
           p == SubSeq(q, 1, k)
           s == SubSeq(q, i, n)
           h == p \o <<e>>
           z == h \o s
<1>1. n \in Nat /\ i \in Nat /\ i >= 1 /\ i <= n /\ k \in Nat /\ k + 1 = i /\ k <= n
  BY SeqLen
<1>2. /\ IsSeq(p) /\ Len(p) = k /\ \A j \in 1..k : p[j] = q[j]
  BY <1>1, SeqPrefix
<1>3. IsSeq(s) /\ Len(s) = n - k /\ \A j \in 1..(n - k) : s[j] = q[k + j]
  <2>1. SubSeq(q, k + 1, n) = s
    BY <1>1
  <2> HIDE DEF s, k, n
  <2>2. LET w == SubSeq(q, k + 1, n)
        IN  IsSeq(w) /\ Len(w) = n - k /\ \A j \in 1..(n - k) : w[j] = q[k + j]
    BY <1>1, SeqPart DEF n
  <2> QED
    BY <2>1, <2>2
<1> HIDE DEF p, s, n
<1>4. IsSeq(<<e>>) /\ Len(<<e>>) = 1 /\ <<e>>[1] = e
  BY SeqOne
<1>5. /\ IsSeq(h) /\ Len(h) = k + 1 /\ \A j \in 1..k : h[j] = p[j]
  BY <1>1, <1>2, <1>4, SeqConcat
<1>6. h[k + 1] = e
  <2>1. Len(p \o <<e>>) = k + 1 /\ k + 1 \in 1..(k + 1) /\ (k + 1) - k = 1 /\ k + 1 > k
    BY <1>1, <1>5
  <2>2. (p \o <<e>>)[k + 1] = <<e>>[(k + 1) - k]
    BY <1>2, <1>4, <2>1, SeqConcat
  <2> QED
    BY <1>4, <2>1, <2>2
<1> HIDE DEF h
<1>7. /\ IsSeq(z) /\ Len(z) = Len(h) + Len(s)
      /\ \A j \in 1..Len(h) : z[j] = h[j]
      /\ \A j \in 1..Len(z) :
            j > Len(h) => j - Len(h) \in 1..Len(s) /\ z[j] = s[j - Len(h)]
  <2>1. IsSeq(h) /\ IsSeq(s)
    BY <1>3, <1>5
  <2> QED
    BY ONLY <2>1, SeqConcat
<1> HIDE DEF z
<1>8. Len(z) = n + 1
  BY <1>1, <1>3, <1>5, <1>7
<1>9. ASSUME NEW j \in 1..(n + 1)
      PROVE  z[j] = IF j < i THEN q[j] ELSE IF j = i THEN e ELSE q[j - 1]
  <2>1. CASE j < i
    <3>1. j \in 1..k /\ j \in 1..Len(h)
      BY <1>1, <1>5, <2>1
    <3> QED
      BY <1>2, <1>5, <1>7, <2>1, <3>1
  <2>2. CASE j = i
    <3>1. j = k + 1 /\ j \in 1..Len(h)
      BY <1>1, <1>5, <2>2
    <3> QED
      BY <1>6, <1>7, <2>2, <3>1
  <2>3. CASE j > i
    <3>1. j \in 1..Len(z) /\ j > Len(h) /\ j - Len(h) \in 1..(n - k)
          /\ k + (j - Len(h)) = j - 1
      BY <1>1, <1>5, <1>8, <2>3
    <3> DEFINE l == j - Len(h)
    <3> HIDE DEF l, k
    <3>2. z[j] = s[l] /\ l \in 1..(n - k) /\ k + l = j - 1
      BY <1>7, <3>1 DEF l
    <3>3. z[j] = q[j - 1]
      BY <1>3, <3>2
    <3> QED
      BY <1>1, <2>3, <3>3
  <2> QED
    BY <1>1, <2>1, <2>2, <2>3
<1>10. z = InsertAt(q, i, e)
  BY DEF InsertAt, z, h, p, s, n, k
<1> QED
  BY <1>7, <1>8, <1>9, <1>10 DEF n

(***************************************************************************)
(* Until it is edited, a whole trace is what the recorder wrote, numbered  *)
(* from zero; an edit breaks the numbering or takes the last line away.    *)
(***************************************************************************)
Misnumbered == \E i \in DOMAIN seqs : seqs[i] # expected_seq(seqs, i)

EditInv ==
    phase = "recorded" =>
        /\ fate = "whole" => trace = written /\ seqs = positions(written)
        /\ fate = "edited" => Misnumbered \/ IsStrictPrefix(trace, written)

LEMMA LineRemoved ==
    ASSUME NEW q, IsSeq(q), NEW i \in 1..Len(q)
    PROVE  LET z == RemoveAt(positions(q), i)
           IN  \/ \E j \in DOMAIN z : z[j] # expected_seq(z, j)
               \/ IsStrictPrefix(RemoveAt(q, i), q)
<1> DEFINE n == Len(q)
           u == positions(q)
           z == RemoveAt(u, i)
           y == RemoveAt(q, i)
<1>1. n \in Nat /\ DOMAIN q = 1..n /\ i \in Nat /\ i >= 1 /\ i <= n
  BY SeqLen
<1>2. u = [j \in 1..n |-> u[j]] /\ \A j \in 1..n : u[j] = j - 1
  BY <1>1 DEF positions
<1>3. IsSeq(u) /\ Len(u) = n
  BY <1>1, <1>2, SeqMade
<1>4. IsSeq(z) /\ Len(z) = n - 1
      /\ \A j \in 1..(n - 1) : z[j] = IF j < i THEN u[j] ELSE u[j + 1]
  BY <1>1, <1>3, Removed
<1>5. IsSeq(y) /\ Len(y) = n - 1
      /\ \A j \in 1..(n - 1) : y[j] = IF j < i THEN q[j] ELSE q[j + 1]
  BY Removed
<1> HIDE DEF z, y, u, n
<1>6. CASE i < n
  <2>1. i \in 1..(n - 1) /\ i + 1 \in 1..n /\ DOMAIN z = 1..(n - 1)
    BY <1>1, <1>4, <1>6, SeqLen
  <2>2. z[i] = i
    <3>1. z[i] = u[i + 1]
      BY <1>1, <1>4, <2>1
    <3>2. u[i + 1] = (i + 1) - 1
      BY <1>2, <2>1
    <3> QED
      BY <1>1, <3>1, <3>2
  <2>3. expected_seq(z, i) # i
    <3>1. CASE i = 1
      BY <3>1 DEF expected_seq
    <3>2. CASE i # 1
      <4>1. i - 1 \in 1..(n - 1) /\ i - 1 \in 1..n /\ i - 1 < i
        BY <1>1, <2>1, <3>2
      <4>2. z[i - 1] = i - 2
        <5>1. z[i - 1] = u[i - 1] /\ u[i - 1] = (i - 1) - 1
          BY <1>2, <1>4, <4>1
        <5> QED
          BY <1>1, <5>1
      <4> QED
        BY <1>1, <3>2, <4>2 DEF expected_seq
    <3> QED
      BY <3>1, <3>2
  <2> QED
    BY <2>1, <2>2, <2>3 DEF z, u
<1>7. CASE i = n
  <2>1. n - 1 \in Nat /\ n - 1 <= n /\ n - 1 # n
    BY <1>1
  <2>2. \A j \in 1..(n - 1) : y[j] = q[j]
    BY <1>1, <1>5, <1>7
  <2> DEFINE a == SubSeq(y, 1, n - 1)
             b == SubSeq(q, 1, n - 1)
  <2>3. IsSeq(a) /\ Len(a) = n - 1 /\ \A j \in 1..(n - 1) : a[j] = y[j]
    <3>1. n - 1 <= Len(y)
      BY <1>5, <2>1
    <3> HIDE DEF y
    <3> QED
      BY <1>5, <2>1, <3>1, SeqPrefix
  <2>4. IsSeq(b) /\ Len(b) = n - 1 /\ \A j \in 1..(n - 1) : b[j] = q[j]
    BY <2>1, SeqPrefix DEF n
  <2> HIDE DEF a, b
  <2>5. a = [j \in 1..(n - 1) |-> a[j]] /\ b = [j \in 1..(n - 1) |-> b[j]]
    BY <2>3, <2>4, SeqLen
  <2>6. a = b
    BY <2>2, <2>3, <2>4, <2>5
  <2>7. y # q
    BY <1>5, <2>1 DEF n
  <2>8. IsStrictPrefix(y, q)
    BY <1>5, <2>1, <2>6, <2>7 DEF IsStrictPrefix, IsPrefix, a, b, n
  <2> QED
    BY <2>8 DEF y
<1> QED
  BY <1>1, <1>6, <1>7

LEMMA LineRepeated ==
    ASSUME NEW q, IsSeq(q), NEW i \in 1..Len(q)
    PROVE  LET z == InsertAt(positions(q), i, positions(q)[i])
           IN  \E j \in DOMAIN z : z[j] # expected_seq(z, j)
<1> DEFINE n == Len(q)
           u == positions(q)
           e == u[i]
           z == InsertAt(u, i, e)
<1>1. n \in Nat /\ DOMAIN q = 1..n /\ i \in Nat /\ i >= 1 /\ i <= n
  BY SeqLen
<1>2. u = [j \in 1..n |-> u[j]] /\ \A j \in 1..n : u[j] = j - 1
  BY <1>1 DEF positions
<1>3. IsSeq(u) /\ Len(u) = n /\ i \in 1..n
  BY <1>1, <1>2, SeqMade
<1>4. e = i - 1
  BY <1>2
<1> HIDE DEF u, n, e
<1>5. IsSeq(z) /\ Len(z) = n + 1
      /\ \A j \in 1..(n + 1) : z[j] = IF j < i THEN u[j] ELSE IF j = i THEN e ELSE u[j - 1]
  <2>1. i \in 1..Len(u)
    BY <1>3
  <2>2. LET w == InsertAt(u, i, e)
            m == Len(u)
        IN  /\ IsSeq(w) /\ Len(w) = m + 1
            /\ \A j \in 1..(m + 1) :
                  w[j] = IF j < i THEN u[j] ELSE IF j = i THEN e ELSE u[j - 1]
    BY ONLY <1>3, <2>1, Inserted
  <2> QED
    BY <1>3, <2>2
<1> HIDE DEF z
<1>6. i \in 1..(n + 1) /\ i + 1 \in 1..(n + 1) /\ (i + 1) - 1 = i /\ DOMAIN z = 1..(n + 1)
      /\ i + 1 # 1
  BY <1>1, <1>5, SeqLen
<1>7. z[i] = i - 1 /\ z[i + 1] = i - 1
  <2>1. z[i] = e
    BY <1>1, <1>5, <1>6
  <2>2. ~ (i + 1 < i) /\ i + 1 # i
    BY <1>1
  <2>3. z[i + 1] = u[(i + 1) - 1]
    BY <1>5, <1>6, <2>2
  <2>4. u[i] = i - 1
    BY <1>2, <1>3
  <2> QED
    BY <1>4, <1>6, <2>1, <2>3, <2>4
<1>8. expected_seq(z, i + 1) = i
  BY <1>1, <1>6, <1>7 DEF expected_seq
<1>9. z[i + 1] # expected_seq(z, i + 1)
  BY <1>1, <1>7, <1>8
<1> QED
  BY <1>6, <1>9 DEF z, e, u

LEMMA LinesSwapped ==
    ASSUME NEW q, IsSeq(q), NEW i \in 1..Len(q), i < Len(q)
    PROVE  LET u == positions(q)
               z == [u EXCEPT ![i] = u[i + 1], ![i + 1] = u[i]]
           IN  \E j \in DOMAIN z : z[j] # expected_seq(z, j)
<1> DEFINE n == Len(q)
           u == positions(q)
           z == [u EXCEPT ![i] = u[i + 1], ![i + 1] = u[i]]
<1>1. n \in Nat /\ DOMAIN q = 1..n /\ i \in Nat /\ i >= 1 /\ i < n /\ i \in 1..n
      /\ i + 1 \in 1..n
  BY SeqLen
<1>2. u = [j \in 1..n |-> u[j]] /\ \A j \in 1..n : u[j] = j - 1
  BY <1>1 DEF positions
<1>3. u[i + 1] = i
  BY <1>1, <1>2
<1> HIDE DEF u, n
<1>4. DOMAIN z = 1..n /\ z[i] = i /\ \A j \in 1..n : j # i /\ j # i + 1 => z[j] = j - 1
  BY <1>1, <1>2, <1>3
<1> HIDE DEF z
<1>5. z[i] # expected_seq(z, i)
  <2>1. CASE i = 1
    BY <1>4, <2>1 DEF expected_seq
  <2>2. CASE i # 1
    <3>1. i - 1 \in 1..n /\ i - 1 # i /\ i - 1 # i + 1
      BY <1>1, <2>2
    <3>2. z[i - 1] = i - 2
      BY <1>1, <1>4, <3>1
    <3> QED
      BY <1>1, <1>4, <2>2, <3>2 DEF expected_seq
  <2> QED
    BY <2>1, <2>2
<1> QED
  BY <1>1, <1>4, <1>5 DEF z, u

LEMMA EditStep == TypeInv /\ EditInv /\ [Next]_vars => EditInv'
<1> SUFFICES ASSUME TypeInv, EditInv, [Next]_vars PROVE EditInv'
  OBVIOUS
<1>1. CASE phase' # "recorded"
  BY <1>1 DEF EditInv
<1>2. CASE UNCHANGED vars
  BY <1>2 DEF EditInv, vars, Misnumbered
<1>3. CASE Stop \/ Fail \/ Kill
  <2>1. CASE Stop
    BY <2>1 DEF Stop, Leave, EditInv
  <2>2. CASE Fail \/ Kill
    BY <2>2 DEF Fail, Kill, Leave, EditInv
  <2> QED
    BY <1>3, <2>1, <2>2
<1>4. ASSUME NEW i \in DOMAIN trace, RemoveLine(i) \/ RepeatLine(i) \/ SwapLines(i)
      PROVE  EditInv'
  <2>1. phase = "recorded" /\ fate = "whole" /\ fate' = "edited" /\ written' = written
    BY <1>4 DEF RemoveLine, RepeatLine, SwapLines, Edited
  <2>2. IsSeq(trace) /\ trace = written /\ seqs = positions(trace) /\ i \in 1..Len(trace)
    BY <2>1, SeqLen DEF EditInv, TypeInv
  <2>3. CASE RemoveLine(i)
    <3>1. trace' = RemoveAt(trace, i) /\ seqs' = RemoveAt(seqs, i)
      BY <2>3 DEF RemoveLine, Edited
    <3>2. LET z == RemoveAt(positions(trace), i)
          IN  \/ \E j \in DOMAIN z : z[j] # expected_seq(z, j)
              \/ IsStrictPrefix(RemoveAt(trace, i), trace)
      BY <2>2, LineRemoved
    <3> QED
      BY <2>1, <2>2, <3>1, <3>2 DEF EditInv, Misnumbered
  <2>4. CASE RepeatLine(i)
    <3>1. seqs' = InsertAt(seqs, i, seqs[i])
      BY <2>4 DEF RepeatLine, Edited
    <3>2. LET z == InsertAt(positions(trace), i, positions(trace)[i])
          IN  \E j \in DOMAIN z : z[j] # expected_seq(z, j)
      BY <2>2, LineRepeated
    <3> QED
      BY <2>1, <2>2, <3>1, <3>2 DEF EditInv, Misnumbered
  <2>5. CASE SwapLines(i)
    <3>1. seqs' = [seqs EXCEPT ![i] = seqs[i + 1], ![i + 1] = seqs[i]] /\ i < Len(trace)
      BY <2>5 DEF SwapLines, Edited
    <3>2. LET u == positions(trace)
              z == [u EXCEPT ![i] = u[i + 1], ![i + 1] = u[i]]
          IN  \E j \in DOMAIN z : z[j] # expected_seq(z, j)
      BY <2>2, <3>1, LinesSwapped
    <3> QED
      BY <2>1, <2>2, <3>1, <3>2 DEF EditInv, Misnumbered
  <2> QED
    BY <1>4, <2>3, <2>4, <2>5
<1> QED
  <2>1. ASSUME Boot PROVE phase' # "recorded"
    BY <2>1 DEF Boot
  <2>2. ASSUME NEW lost, NEW got, Record(lost, got) PROVE phase' # "recorded"
    BY <2>2 DEF Record
  <2>3. ASSUME \/ ReplayStart \/ ReplayNetRecv \/ ReplayFault \/ DrainedInbound
               \/ replay_fire_timer \/ ReplayDeliver \/ ReplayUnexpected \/ ReplayTorn
               \/ ReplayExhausted \/ ReplayEnd
        PROVE  phase' # "recorded"
    <3>1. CASE ReplayStart
      BY <3>1 DEF ReplayStart, Reject
    <3>2. CASE ReplayNetRecv \/ ReplayFault \/ DrainedInbound \/ replay_fire_timer
      BY <3>2 DEF ReplayNetRecv, ReplayFault, DrainedInbound, replay_fire_timer, Reject,
                  Replaying
    <3>3. CASE ReplayDeliver
      BY <3>3 DEF ReplayDeliver, NextIteration, Reject, Replaying
    <3>4. CASE ReplayUnexpected \/ ReplayTorn \/ ReplayExhausted \/ ReplayEnd
      BY <3>4 DEF ReplayUnexpected, ReplayTorn, ReplayExhausted, ReplayEnd, Reject, Verdict
    <3> QED
      BY <2>3, <3>1, <3>2, <3>3, <3>4
  <2> QED
    BY <1>1, <1>2, <1>3, <1>4, <2>1, <2>2, <2>3 DEF Next, Finished

LEMMA EditsHold == Spec => []EditInv
<1>1. Init => EditInv
  BY DEF Init, EditInv
<1> QED
  BY <1>1, EditStep, TypesHold, PTL DEF Spec

(* No edit of one line escapes `tool verify', but the loss of the last     *)
(* line: a line removed elsewhere, repeated or exchanged with the next     *)
(* leaves a number that does not follow the one before it.                 *)
THEOREM EditsAreVerified == Spec => []EditsVerified
<1>1. EditInv => EditsVerified
  <2> SUFFICES ASSUME EditInv, phase = "recorded", fate = "edited",
                      ~ IsStrictPrefix(trace, written)
               PROVE  "seq_mismatch" \in verify_trace(trace, seqs).problems
    BY DEF EditsVerified
  <2>1. "seq_mismatch" \in SeqProblems(seqs)
    BY DEF EditInv, Misnumbered, SeqProblems, If
  <2> QED
    BY <2>1 DEF verify_trace
<1> QED
  BY <1>1, EditsHold, PTL
------------------------------------------------------------------------------
(***************************************************************************)
(* What a reader expects: after a timer firing or a delivery an emission,  *)
(* and emissions only where it waits for them.                             *)
(***************************************************************************)
Expected == Emitted \cup {"Spawn"}

Fit(v) ==
    /\ Node(RepCfg, v.node) /\ IsSeq(v.due) /\ v.at \in 0..Len(v.due)
    /\ \A i \in 1..Len(v.due) : v.due[i].kind \in Expected

LEMMA FirstFits == Fit(FirstReader)
<1> DEFINE up == Startup(RepCfg)
<1>1. Booted(RepCfg, up)
  BY Hosts, StartupNode
<1>2. FirstReader.node = up.sys /\ FirstReader.due = up.events /\ FirstReader.at = 0
  BY DEF FirstReader, Reader
<1> HIDE DEF up
<1>3. Len(up.events) \in Nat
  BY <1>1, SeqLen DEF Booted
<1>4. \A i \in 1..Len(up.events) : up.events[i].kind \in Expected
  BY <1>1 DEF Booted, Expected, Emitted
<1> QED
  BY <1>1, <1>2, <1>3, <1>4 DEF Fit, Booted

(* What is read, and whether the reader then waits for an emission. *)
Expects(v, ev) ==
    /\ ~ Settled(v) => ev = v.due[v.at + 1] /\ ev.kind \in Expected
    /\ Settled(v) /\ ev.kind \notin {"NetRecv", "Drop"} => ~ Settled(After(v, ev))
    /\ Fit(After(v, ev))

LEMMA FitReads ==
    ASSUME NEW v, Fit(v), NEW ev, Accepts(v, ev)
    PROVE  Expects(v, ev)
<1>1. Len(v.due) \in Nat /\ v.at \in Nat /\ v.at <= Len(v.due)
  BY SeqLen DEF Fit
<1>2. CASE ~ Settled(v)
  <2> DEFINE w == Reader(v.node, v.due, v.at + 1, v.n)
  <2>1. ev = v.due[v.at + 1] /\ After(v, ev) = w
    BY <1>2 DEF Accepts, After
  <2>2. v.at + 1 \in 1..Len(v.due) /\ v.at + 1 \in 0..Len(v.due)
    BY <1>1, <1>2 DEF Settled
  <2>3. w.node = v.node /\ w.due = v.due /\ w.at = v.at + 1
    BY DEF Reader
  <2> HIDE DEF w
  <2>4. Fit(w)
    BY <2>2, <2>3 DEF Fit
  <2>5. ev.kind \in Expected
    BY <2>1, <2>2 DEF Fit
  <2> QED
    BY <1>2, <2>1, <2>4, <2>5 DEF Expects
<1>3. CASE Settled(v) /\ ev.kind = "NetRecv"
  <2> DEFINE x == Receive(v.node, ev)
             w == Reader(x, v.due, v.at, v.n)
  <2>1. After(v, ev) = w
    BY <1>3 DEF After
  <2>2. Node(RepCfg, x)
    BY ReceiveNode DEF Fit
  <2>3. w.node = x /\ w.due = v.due /\ w.at = v.at
    BY DEF Reader
  <2> HIDE DEF x, w
  <2>4. Fit(w)
    BY <2>2, <2>3 DEF Fit
  <2> QED
    BY <1>3, <2>1, <2>4 DEF Expects
<1>4. CASE Settled(v) /\ ev.kind = "TimerFired"
  <2> DEFINE t == CHOOSE x \in Named(v, ev) : TRUE
             q == [sys |-> v.node, events |-> <<>>]
             b == FireOne(q, RepCfg, t)
             due == <<b.events[2]>>
             w == Reader(b.sys, due, 0, v.n)
  <2>1. After(v, ev) = w
    BY <1>4 DEF After, FiredBy
  <2>2. q.sys = v.node /\ q.events = <<>> /\ IsSeq(<<>>) /\ Len(<<>>) = 0 /\ 0 + 2 = 2
    BY SeqOne
  <2> HIDE DEF t, q, b
  <2>3. Fired(RepCfg, q, t, FireOne(q, RepCfg, t))
    BY <2>2, Hosts, FireOneNode DEF Fit
  <2>4. Node(RepCfg, b.sys) /\ b.events[2] = Emission(RepCfg, Without(q.sys, t), t.from, t.out)
    BY <2>2, <2>3 DEF Fired, b
  <2>5. b.events[2].kind \in Expected
    BY <2>4, EmissionKind DEF Expected, Emitted
  <2>6. IsSeq(due) /\ Len(due) = 1 /\ due[1] = b.events[2]
    BY SeqOne
  <2>7. w.node = b.sys /\ w.due = due /\ w.at = 0
    BY DEF Reader
  <2> HIDE DEF due, w
  <2>8. Fit(w)
    <3>1. \A i \in 1..Len(due) : due[i].kind \in Expected
      BY <2>5, <2>6
    <3>2. 0 \in 0..Len(due)
      BY <2>6
    <3> QED
      BY <2>4, <2>6, <2>7, <3>1, <3>2 DEF Fit
  <2>9. ~ Settled(w)
    <3>1. w.at # Len(w.due)
      BY <2>6, <2>7, SMTT(60), ZenonT(30)
    <3> QED
      BY <3>1 DEF Settled
  <2> QED
    BY <1>4, <2>1, <2>8, <2>9 DEF Expects
<1>5. CASE Settled(v) /\ ev.kind = "Deliver"
  <2> DEFINE s == ev.to
             d == Deliver(v.node, RepCfg, 0, s)
             w == Reader(d.sys, d.events, 0, v.n + 1)
  <2>1. After(v, ev) = w
    BY <1>5 DEF After, DeliveredBy
  <2>2. s \in Services /\ v.node.inbox[s] # <<>>
    BY <1>5 DEF Accepts
  <2> HIDE DEF s
  <2>3. /\ Node(RepCfg, d.sys) /\ IsSeq(d.events) /\ Len(d.events) >= 1
        /\ \A i \in 1..Len(d.events) : d.events[i].kind \in Emissions
    BY <2>2, Hosts, DeliverNode DEF Fit
  <2> HIDE DEF d
  <2>4. w.node = d.sys /\ w.due = d.events /\ w.at = 0
    BY DEF Reader
  <2> HIDE DEF w
  <2>5. Len(d.events) \in Nat /\ 0 # Len(d.events)
    BY <2>3, SeqLen
  <2>6. \A i \in 1..Len(d.events) : d.events[i].kind \in Expected
    BY <2>3 DEF Emissions, Observations, Expected, Emitted
  <2>7. Fit(w) /\ ~ Settled(w)
    BY <2>3, <2>4, <2>5, <2>6 DEF Fit, Settled
  <2> QED
    BY <1>5, <2>1, <2>7 DEF Expects
<1>6. CASE Settled(v) /\ ev.kind = "Drop"
  <2>1. After(v, ev) = v
    BY <1>6 DEF After
  <2> QED
    BY <1>6, <2>1 DEF Expects
<1>7. Settled(v) => ev.kind \in {"NetRecv", "Drop", "TimerFired", "Deliver"}
  BY DEF Accepts
<1> QED
  BY <1>2, <1>3, <1>4, <1>5, <1>6, <1>7

(* Every reader of a trace is fit, and has what it expects read next. *)
Fits(r, events, n) ==
    /\ \A k \in 0..n : Fit(r[k])
    /\ \A k \in 1..n : Expects(r[k - 1], events[k]) /\ r[k] = After(r[k - 1], events[k])

LEMMA ReadersFit ==
    ASSUME NEW r, NEW events, NEW n \in Nat, ReadsBy(r, FirstReader, events, n)
    PROVE  Fits(r, events, n)
<1> DEFINE T == {k \in Nat : k <= n => Fit(r[k])}
<1>1. 0 \in T
  BY FirstFits DEF ReadsBy
<1>2. ASSUME NEW k \in 1..n, Fit(r[k - 1])
      PROVE  Expects(r[k - 1], events[k]) /\ r[k] = After(r[k - 1], events[k])
  <2>1. Accepts(r[k - 1], events[k]) /\ r[k] = After(r[k - 1], events[k])
    BY <1>2 DEF ReadsBy
  <2> QED
    BY <1>2, <2>1, FitReads
<1>3. ASSUME NEW k \in T, k + 1 <= n PROVE Fit(r[k + 1])
  <2>1. k \in Nat /\ Fit(r[k]) /\ k + 1 \in 1..n /\ (k + 1) - 1 = k
    BY <1>3
  <2>2. Expects(r[k], events[k + 1]) /\ r[k + 1] = After(r[k], events[k + 1])
    BY <1>2, <2>1
  <2> QED
    BY <2>2 DEF Expects
<1>4. \A k \in T \cap Nat : k + 1 \in T
  BY <1>3
<1> HIDE DEF T
<1>5. Nat \subseteq T
  BY <1>1, <1>4, Induction
<1>6. ASSUME NEW k \in 0..n PROVE Fit(r[k])
  <2>1. k \in T /\ k <= n
    BY <1>5
  <2> QED
    BY <2>1 DEF T
<1>7. \A k \in 1..n : k - 1 \in 0..n
  OBVIOUS
<1> QED
  BY <1>2, <1>6, <1>7 DEF Fits

------------------------------------------------------------------------------
(***************************************************************************)
(* Lines removed, repeated and exchanged.  A reader that could follow the  *)
(* recorder's trace strays from the edited one, unless the edit is of      *)
(* inbound evidence or changes nothing: where it has read what both begin  *)
(* with, either another event comes than the one it waits for, or an       *)
(* emission comes that it does not wait for.                               *)
(***************************************************************************)
Evidence(ev) == ev.kind \in {"NetRecv", "Drop"}

LacksLine(z, q, i) ==
    /\ IsSeq(z) /\ Len(z) = Len(q) - 1
    /\ \A j \in 1..Len(z) : z[j] = IF j < i THEN q[j] ELSE q[j + 1]
RepeatsLine(z, q, i) ==
    /\ IsSeq(z) /\ Len(z) = Len(q) + 1
    /\ \A j \in 1..Len(z) : z[j] = IF j <= i THEN q[j] ELSE q[j - 1]
SwapsLines(z, q, i) ==
    /\ IsSeq(z) /\ Len(z) = Len(q) /\ z[i] = q[i + 1] /\ z[i + 1] = q[i]
    /\ \A j \in 1..Len(z) : j # i /\ j # i + 1 => z[j] = q[j]

Strays(v, events, L) ==
    IF Settled(v) THEN L < Len(events) /\ events[L + 1].kind \in Expected
                  ELSE L < Len(events) => events[L + 1] # v.due[v.at + 1]

StraysFrom(r, events) ==
    \E L \in 0..Len(events) : ReadsBy(r, FirstReader, events, L) /\ Strays(r[L], events, L)

Follows(r, q) == ReadsBy(r, FirstReader, q, Len(q)) /\ Settled(r[Len(q)])

LEMMA ReadsPrefix ==
    ASSUME NEW r, NEW q, IsSeq(q), Follows(r, q), NEW z, IsSeq(z),
           NEW L \in 0..Len(q), \A j \in 1..L : z[j] = q[j]
    PROVE  ReadsBy(r, FirstReader, z, L)
<1>1. Len(q) \in Nat
  BY SeqLen
<1>2. \A k \in 1..L : k \in 1..Len(q)
  BY <1>1
<1> QED
  BY <1>2 DEF Follows, ReadsBy

(* The last line of a run of equal lines, beginning at i. *)
RunEnds(q, i, m) ==
    /\ m \in i..Len(q) /\ \A j \in i..m : q[j] = q[i]
    /\ m = Len(q) \/ q[m + 1] # q[i]

LEMMA RunOfLines ==
    ASSUME NEW q, IsSeq(q), NEW i \in 1..Len(q)
    PROVE  \E m : RunEnds(q, i, m)
<1> DEFINE n == Len(q)
           T == {j \in Nat : i <= j /\ j <= n /\ (j = n \/ q[j + 1] # q[i])}
<1>1. n \in Nat /\ i \in Nat /\ i >= 1 /\ i <= n
  BY SeqLen
<1> HIDE DEF n
<1>2. n \in T
  BY <1>1
<1>3. PICK m \in T : \A y \in T : m <= y
  <2>1. T \subseteq Nat /\ T # {}
    BY <1>2
  <2> HIDE DEF T
  <2> QED
    BY <2>1, LeastNumber
<1> DEFINE U == {j \in Nat : i + j <= m => q[i + j] = q[i]}
<1>4. 0 \in U
  BY <1>1
<1>5. ASSUME NEW j \in U, i + (j + 1) <= m PROVE q[i + (j + 1)] = q[i]
  <2>1. j \in Nat /\ i + j \in Nat /\ i + j < m /\ m <= n /\ i + (j + 1) = (i + j) + 1
    BY <1>1, <1>5
  <2>2. i + j \notin T
    BY <1>1, <1>3, <2>1
  <2> QED
    BY <1>1, <2>1, <2>2
<1>6. \A j \in U \cap Nat : j + 1 \in U
  BY <1>5
<1> HIDE DEF U
<1>7. Nat \subseteq U
  BY <1>4, <1>6, Induction
<1>8. ASSUME NEW j \in i..m PROVE q[j] = q[i]
  <2>1. j - i \in Nat /\ i + (j - i) = j /\ j <= m
    BY <1>1, <1>3
  <2>2. j - i \in U
    BY <1>7, <2>1
  <2> QED
    BY <2>1, <2>2 DEF U
<1>9. m \in i..n /\ (m = n \/ q[m + 1] # q[i])
  BY <1>1, <1>3
<1>10. RunEnds(q, i, m)
  BY <1>8, <1>9 DEF RunEnds, n
<1> QED
  BY <1>10

LEMMA StraysOnRemoval ==
    ASSUME NEW r, NEW q, IsSeq(q), Follows(r, q), NEW i \in 1..Len(q), ~ Evidence(q[i]),
           NEW z, LacksLine(z, q, i)
    PROVE  StraysFrom(r, z)
<1> DEFINE n == Len(q)
<1>1. n \in Nat /\ i \in Nat /\ i >= 1 /\ i <= n
  BY SeqLen
<1>2. PICK m : RunEnds(q, i, m)
  BY RunOfLines
<1>3. Fits(r, q, n)
  BY <1>1, ReadersFit DEF Follows
<1> HIDE DEF n
<1>4. /\ m \in Nat /\ i <= m /\ m <= n /\ \A j \in i..m : q[j] = q[i]
      /\ m = n \/ q[m + 1] # q[i]
  BY <1>1, <1>2 DEF RunEnds, n
<1> DEFINE L == m - 1
           v == r[L]
<1>5. L \in Nat /\ L + 1 = m /\ m \in 1..n /\ L \in 0..n /\ m \in i..m
  BY <1>1, <1>4
<1>6. IsSeq(z) /\ Len(z) = n - 1
      /\ \A j \in 1..Len(z) : z[j] = IF j < i THEN q[j] ELSE q[j + 1]
  BY DEF LacksLine, n
<1>7. L \in 0..Len(z)
  BY <1>1, <1>4, <1>6
<1>8. q[m] = q[i]
  BY <1>4, <1>5
<1>9. ASSUME NEW j \in 1..L PROVE z[j] = q[j]
  <2>1. j \in 1..Len(z)
    BY <1>1, <1>4, <1>6
  <2>2. CASE j < i
    BY <1>6, <2>1, <2>2
  <2>3. CASE ~ (j < i)
    <3>1. j \in i..m /\ j + 1 \in i..m
      BY <1>1, <1>4, <2>3
    <3>2. q[j] = q[j + 1]
      BY <1>4, <3>1
    <3> QED
      BY <1>6, <2>1, <2>3, <3>2
  <2> QED
    BY <2>2, <2>3
<1>10. ReadsBy(r, FirstReader, z, L)
  BY <1>5, <1>6, <1>9, ReadsPrefix DEF n
<1>11. m < n => m \in 1..Len(z) /\ z[m] = q[m + 1]
  <2>1. m < n => m \in 1..Len(z) /\ ~ (m < i)
    BY <1>1, <1>4, <1>6
  <2> QED
    BY <1>6, <2>1
<1>12. Expects(v, q[m]) /\ r[m] = After(v, q[m])
  BY <1>3, <1>5 DEF Fits
<1> HIDE DEF L, v
<1>13. Strays(v, z, L)
  <2>1. CASE ~ Settled(v)
    <3>1. q[i] = v.due[v.at + 1]
      BY <1>8, <1>12, <2>1 DEF Expects
    <3>2. ASSUME L < Len(z) PROVE z[L + 1] # v.due[v.at + 1]
      <4>1. m < n
        BY <1>1, <1>4, <1>5, <1>6, <3>2
      <4>2. q[m + 1] # q[i] /\ z[m] = q[m + 1]
        BY <1>4, <1>11, <4>1
      <4> QED
        BY <1>5, <3>1, <4>2
    <3> QED
      BY <2>1, <3>2 DEF Strays
  <2>2. CASE Settled(v)
    <3>1. ~ Settled(r[m])
      BY <1>8, <1>12, <2>2 DEF Expects, Evidence
    <3>2. m # n
      BY <3>1 DEF Follows, n
    <3>3. m < n /\ m + 1 \in 1..n /\ (m + 1) - 1 = m
      BY <1>1, <1>4, <3>2
    <3>4. Expects(r[m], q[m + 1])
      BY <1>3, <3>3 DEF Fits
    <3>5. z[m].kind \in Expected /\ m \in 1..Len(z)
      BY <1>11, <3>1, <3>3, <3>4 DEF Expects
    <3>6. L < Len(z)
      BY <1>4, <1>5, <1>6, <3>5
    <3> QED
      BY <1>5, <2>2, <3>5, <3>6 DEF Strays
  <2> QED
    BY <2>1, <2>2
<1> QED
  BY <1>7, <1>10, <1>13 DEF StraysFrom, v

LEMMA StraysOnRepetition ==
    ASSUME NEW r, NEW q, IsSeq(q), Follows(r, q), NEW i \in 1..Len(q), ~ Evidence(q[i]),
           NEW z, RepeatsLine(z, q, i)
    PROVE  StraysFrom(r, z)
<1> DEFINE n == Len(q)
<1>1. n \in Nat /\ i \in Nat /\ i >= 1 /\ i <= n
  BY SeqLen
<1>2. PICK m : RunEnds(q, i, m)
  BY RunOfLines
<1>3. Fits(r, q, n)
  BY <1>1, ReadersFit DEF Follows
<1> HIDE DEF n
<1>4. /\ m \in Nat /\ i <= m /\ m <= n /\ \A j \in i..m : q[j] = q[i]
      /\ m = n \/ q[m + 1] # q[i]
  BY <1>1, <1>2 DEF RunEnds, n
<1> DEFINE v == r[m]
           u == r[m - 1]
<1>5. m \in 1..n /\ m \in 0..n /\ m \in i..m
  BY <1>1, <1>4
<1>6. IsSeq(z) /\ Len(z) = n + 1
      /\ \A j \in 1..Len(z) : z[j] = IF j <= i THEN q[j] ELSE q[j - 1]
  BY DEF RepeatsLine, n
<1>7. m \in 0..Len(z) /\ m < Len(z) /\ m + 1 \in 1..Len(z) /\ (m + 1) - 1 = m
      /\ ~ (m + 1 <= i)
  BY <1>1, <1>4, <1>6
<1>8. q[m] = q[i] /\ z[m + 1] = q[i]
  BY <1>4, <1>5, <1>6, <1>7
<1>9. ASSUME NEW j \in 1..m PROVE z[j] = q[j]
  <2>1. j \in 1..Len(z)
    BY <1>1, <1>4, <1>6
  <2>2. CASE j <= i
    BY <1>6, <2>1, <2>2
  <2>3. CASE ~ (j <= i)
    <3>1. j \in i..m /\ j - 1 \in i..m
      BY <1>1, <1>4, <2>3
    <3>2. q[j] = q[j - 1]
      BY <1>4, <3>1
    <3> QED
      BY <1>6, <2>1, <2>3, <3>2
  <2> QED
    BY <2>2, <2>3
<1>10. ReadsBy(r, FirstReader, z, m)
  BY <1>5, <1>6, <1>9, ReadsPrefix DEF n
<1>11. Expects(u, q[m]) /\ v = After(u, q[m])
  BY <1>3, <1>5 DEF Fits
<1>12. m < n => Expects(v, q[m + 1])
  <2>1. m < n => m + 1 \in 1..n
    BY <1>1, <1>4
  <2> QED
    BY <1>3, <1>7, <2>1 DEF Fits
<1>13. m = n => Settled(v)
  BY DEF Follows, n
<1> HIDE DEF u, v
<1>14. Strays(v, z, m)
  <2>1. CASE ~ Settled(v)
    <3>1. m < n
      BY <1>1, <1>4, <1>13, <2>1
    <3>2. q[m + 1] = v.due[v.at + 1] /\ q[m + 1] # q[i]
      BY <1>4, <1>12, <2>1, <3>1 DEF Expects
    <3> QED
      BY <1>8, <2>1, <3>2 DEF Strays
  <2>2. CASE Settled(v)
    <3>1. ~ Settled(u)
      BY <1>8, <1>11, <2>2 DEF Expects, Evidence
    <3>2. q[i].kind \in Expected
      BY <1>8, <1>11, <3>1 DEF Expects
    <3> QED
      BY <1>7, <1>8, <2>2, <3>2 DEF Strays
  <2> QED
    BY <2>1, <2>2
<1> QED
  BY <1>7, <1>10, <1>14 DEF StraysFrom, v

LEMMA StraysOnExchange ==
    ASSUME NEW r, NEW q, IsSeq(q), Follows(r, q), NEW i \in 1..Len(q), i < Len(q),
           ~ Evidence(q[i]), q[i] # q[i + 1], NEW z, SwapsLines(z, q, i)
    PROVE  StraysFrom(r, z)
<1> DEFINE n == Len(q)
           L == i - 1
           v == r[L]
<1>1. /\ n \in Nat /\ i \in Nat /\ i >= 1 /\ i < n /\ i + 1 \in 1..n /\ (i + 1) - 1 = i
      /\ L \in 0..n /\ L + 1 = i /\ L < n /\ i \in 1..n
  BY SeqLen
<1>2. Fits(r, q, n)
  BY <1>1, ReadersFit DEF Follows
<1>3. Expects(v, q[i]) /\ r[i] = After(v, q[i]) /\ Expects(r[i], q[i + 1])
  BY <1>1, <1>2 DEF Fits
<1>4. IsSeq(z) /\ Len(z) = n /\ z[i] = q[i + 1]
      /\ \A j \in 1..Len(z) : j # i /\ j # i + 1 => z[j] = q[j]
  BY DEF SwapsLines
<1>5. \A j \in 1..L : z[j] = q[j]
  BY <1>1, <1>4
<1>6. ReadsBy(r, FirstReader, z, L)
  BY <1>1, <1>4, <1>5, ReadsPrefix
<1> HIDE DEF n, L, v
<1>7. Strays(v, z, L)
  <2>1. CASE ~ Settled(v)
    <3>1. q[i] = v.due[v.at + 1]
      BY <1>3, <2>1 DEF Expects
    <3> QED
      BY <1>1, <1>4, <2>1, <3>1 DEF Strays
  <2>2. CASE Settled(v)
    <3>1. ~ Settled(r[i])
      BY <1>3, <2>2 DEF Expects, Evidence
    <3>2. q[i + 1].kind \in Expected
      BY <1>3, <3>1 DEF Expects
    <3> QED
      BY <1>1, <1>4, <2>2, <3>2 DEF Strays
  <2> QED
    BY <2>1, <2>2
<1>8. L \in 0..Len(z)
  BY <1>1, <1>4
<1> QED
  BY <1>6, <1>7, <1>8 DEF StraysFrom, v

(***************************************************************************)
(* The events of a trace, inbound evidence left out, one by one: an edit   *)
(* of inbound evidence leaves them as they are.                            *)
(***************************************************************************)
OutputsBy(run, n, q) ==
    /\ run[0] = <<>> /\ \A k \in 1..n : run[k] = Output(run[k - 1], q[k])
    /\ Outputs(q) = run[n]

LEMMA OutputsRun ==
    ASSUME NEW q, NEW n \in Nat, DOMAIN q = 1..n
    PROVE  \E run : OutputsBy(run, n, q)
<1> DEFINE Step(a, x) == Output(a, x)
           Iter(m, f) == f = [s0 \in SUBSET (1..m) |->
                                 IF s0 = {} THEN <<>>
                                 ELSE Step(f[s0 \ {Max(s0)}], q[Max(s0)])]
           T == {m \in Nat : \E f : Iter(m, f)}
<1>1. 0 \in T
  <2>1. Iter(0, [s0 \in SUBSET (1..0) |-> <<>>])
    OBVIOUS
  <2> QED
    BY <2>1
<1>2. ASSUME NEW m \in T PROVE m + 1 \in T
  <2>1. PICK f : Iter(m, f)
    OBVIOUS
  <2> DEFINE g == [s0 \in SUBSET (1..(m + 1)) |->
                      IF m + 1 \in s0 THEN Step(f[s0 \ {m + 1}], q[m + 1]) ELSE f[s0]]
  <2> HIDE DEF Step
  <2>2. ASSUME NEW s0 \in SUBSET (1..(m + 1))
        PROVE  g[s0] = IF s0 = {} THEN <<>> ELSE Step(g[s0 \ {Max(s0)}], q[Max(s0)])
    <3>1. CASE m + 1 \in s0
      <4>1. g[s0 \ {m + 1}] = f[s0 \ {m + 1}]
        BY <3>1, SubsetsUpTo
      <4> QED
        BY <3>1, <4>1, SubsetsUpTo
    <3>2. CASE m + 1 \notin s0
      <4>1. g[s0] = f[s0] /\ g[s0 \ {Max(s0)}] = f[s0 \ {Max(s0)}]
        BY <3>2, SubsetsUpTo
      <4>2. f[s0] = IF s0 = {} THEN <<>> ELSE Step(f[s0 \ {Max(s0)}], q[Max(s0)])
        BY <2>1, <3>2, SubsetsUpTo
      <4> QED
        BY <4>1, <4>2
    <3> QED
      BY <3>1, <3>2
  <2>3. g = [s0 \in SUBSET (1..(m + 1)) |-> g[s0]]
    OBVIOUS
  <2> HIDE DEF g
  <2>4. Iter(m + 1, g)
    BY <2>2, <2>3
  <2> HIDE DEF Iter
  <2>5. \E h : Iter(m + 1, h)
    BY <2>4
  <2> QED
    BY <2>5
<1> HIDE DEF T
<1>3. n \in T
  BY <1>1, <1>2, Induction
<1> USE DEF T
<1> DEFINE it == CHOOSE f : Iter(n, f)
<1>4. Iter(n, it)
  BY <1>3, Zenon
<1>5. Outputs(q) = it[1..n]
  BY DEF Outputs, FoldLeft, MapThenFoldSet
<1> DEFINE run == [k \in 0..n |-> it[1..k]]
<1> HIDE DEF it, Step
<1>6. \A s0 \in SUBSET (1..n) :
         it[s0] = IF s0 = {} THEN <<>> ELSE Step(it[s0 \ {Max(s0)}], q[Max(s0)])
  BY <1>4
<1>7. run[0] = <<>>
  <2>1. run[0] = it[{}]
    BY PrefixesUpTo
  <2> QED
    BY <1>6, <2>1
<1>8. ASSUME NEW k \in 1..n PROVE run[k] = Step(run[k - 1], q[k])
  <2>1. /\ 1..k \in SUBSET (1..n) /\ 1..k # {}
        /\ Max(1..k) = k /\ (1..k) \ {k} = 1..(k - 1)
    BY PrefixesUpTo
  <2>2. it[1..k] = Step(it[1..(k - 1)], q[k])
    BY <1>6, <2>1
  <2> QED
    BY <2>2
<1>9. run[n] = it[1..n]
  OBVIOUS
<1> HIDE DEF run
<1> QED
  BY <1>5, <1>7, <1>8, <1>9 DEF Step, OutputsBy

(* Two runs that agree stay together over equal events. *)
Agree(p, n, q, m, a, b, c) ==
    /\ n \in Nat /\ m \in Nat /\ a \in Nat /\ b \in Nat /\ c \in Nat
    /\ a + c <= n /\ b + c <= m /\ \A j \in 1..c : p[a + j] = q[b + j]

LEMMA OutputsTogether ==
    ASSUME NEW p, NEW n, NEW f, OutputsBy(f, n, p),
           NEW q, NEW m, NEW g, OutputsBy(g, m, q),
           NEW a, NEW b, NEW c, Agree(p, n, q, m, a, b, c), f[a] = g[b]
    PROVE  f[a + c] = g[b + c]
<1>0. /\ n \in Nat /\ m \in Nat /\ a \in Nat /\ b \in Nat /\ c \in Nat
      /\ a + c <= n /\ b + c <= m /\ \A j \in 1..c : p[a + j] = q[b + j]
  BY DEF Agree
<1> DEFINE T == {k \in Nat : k <= c => f[a + k] = g[b + k]}
<1>1. 0 \in T
  BY <1>0
<1>2. ASSUME NEW k \in T, k + 1 <= c PROVE f[a + (k + 1)] = g[b + (k + 1)]
  <2> DEFINE i == a + (k + 1)
             j == b + (k + 1)
  <2>1. k \in Nat /\ f[a + k] = g[b + k] /\ k + 1 \in 1..c
    BY <1>0, <1>2
  <2>2. i \in 1..n /\ i - 1 = a + k /\ j \in 1..m /\ j - 1 = b + k
    BY <1>0, <2>1
  <2>3. p[i] = q[j]
    BY <1>0, <2>1
  <2> HIDE DEF i, j
  <2>4. f[i] = Output(f[i - 1], p[i]) /\ g[j] = Output(g[j - 1], q[j])
    BY <2>2 DEF OutputsBy
  <2>5. f[i] = g[j]
    BY <2>1, <2>2, <2>3, <2>4
  <2> QED
    BY <2>5 DEF i, j
<1>3. \A k \in T \cap Nat : k + 1 \in T
  BY <1>2
<1> HIDE DEF T
<1>4. c \in T
  BY <1>0, <1>1, <1>3, Induction
<1> QED
  BY <1>0, <1>4 DEF T

LEMMA OutputsRemoval ==
    ASSUME NEW q, IsSeq(q), NEW i \in 1..Len(q), Evidence(q[i]), NEW z, LacksLine(z, q, i)
    PROVE  Outputs(z) = Outputs(q)
<1> DEFINE n == Len(q)
           m == Len(z)
           k == i - 1
           c == n - i
<1>1. n \in Nat /\ DOMAIN q = 1..n /\ m \in Nat /\ DOMAIN z = 1..m /\ m = n - 1
  BY SeqLen DEF LacksLine
<1>2. \A j \in 1..m : z[j] = IF j < i THEN q[j] ELSE q[j + 1]
  BY DEF LacksLine
<1>3. PICK f : OutputsBy(f, n, q)
  BY <1>1, OutputsRun
<1>4. PICK g : OutputsBy(g, m, z)
  BY <1>1, OutputsRun
<1>5. i \in 1..n
  OBVIOUS
<1> HIDE DEF n, m
<1>6. k \in Nat /\ c \in Nat /\ 0 + k <= n /\ 0 + k <= m /\ i + c = n /\ k + c = m
      /\ i \in Nat /\ 0 \in Nat /\ 0 + k = k /\ i + c <= n /\ k + c <= m
  BY <1>1, <1>5
<1>7. f[k] = g[k]
  <2>1. f[0] = g[0]
    BY <1>3, <1>4 DEF OutputsBy
  <2>2. ASSUME NEW j \in 1..k PROVE q[0 + j] = z[0 + j]
    <3>1. 0 + j = j /\ j \in 1..m /\ j < i
      BY <1>1, <1>5
    <3> QED
      BY <1>2, <3>1
  <2> HIDE DEF k
  <2> DEFINE zero == 0
  <2>3. Agree(q, n, z, m, zero, zero, k)
    BY <1>1, <1>6, <2>2 DEF Agree
  <2>4. f[zero] = g[zero] /\ zero + k = k
    BY <1>6, <2>1
  <2> HIDE DEF zero
  <2>5. f[zero + k] = g[zero + k]
    BY <1>3, <1>4, <2>3, <2>4, OutputsTogether
  <2> QED
    BY <2>4, <2>5
<1>8. f[i] = g[k]
  <2>1. f[i] = Output(f[k], q[i])
    BY <1>3, <1>5 DEF OutputsBy
  <2> QED
    BY <1>7, <2>1 DEF Output, Evidence
<1>9. ASSUME NEW j \in 1..c PROVE q[i + j] = z[k + j]
  <2>1. k + j \in 1..m /\ ~ (k + j < i) /\ (k + j) + 1 = i + j
    BY <1>1, <1>5
  <2> QED
    BY <1>2, <2>1
<1>10. f[i + c] = g[k + c]
  <2> HIDE DEF k, c
  <2>1. Agree(q, n, z, m, i, k, c)
    BY <1>1, <1>6, <1>9 DEF Agree
  <2> QED
    BY <1>3, <1>4, <1>8, <2>1, OutputsTogether
<1> QED
  BY <1>3, <1>4, <1>6, <1>10 DEF OutputsBy

LEMMA OutputsRepetition ==
    ASSUME NEW q, IsSeq(q), NEW i \in 1..Len(q), Evidence(q[i]), NEW z, RepeatsLine(z, q, i)
    PROVE  Outputs(z) = Outputs(q)
<1> DEFINE n == Len(q)
           m == Len(z)
           k == i + 1
           c == n - i
<1>1. n \in Nat /\ DOMAIN q = 1..n /\ m \in Nat /\ DOMAIN z = 1..m /\ m = n + 1
  BY SeqLen DEF RepeatsLine
<1>2. \A j \in 1..m : z[j] = IF j <= i THEN q[j] ELSE q[j - 1]
  BY DEF RepeatsLine
<1>3. PICK f : OutputsBy(f, n, q)
  BY <1>1, OutputsRun
<1>4. PICK g : OutputsBy(g, m, z)
  BY <1>1, OutputsRun
<1>5. i \in 1..n
  OBVIOUS
<1> HIDE DEF n, m
<1>6. k \in Nat /\ c \in Nat /\ 0 + i <= n /\ 0 + i <= m /\ i + c = n /\ k + c = m
      /\ i \in Nat /\ 0 \in Nat /\ 0 + i = i /\ i + c <= n /\ k + c <= m
      /\ k \in 1..m /\ k - 1 = i /\ ~ (k <= i)
  BY <1>1, <1>5
<1>7. f[i] = g[i]
  <2>1. f[0] = g[0]
    BY <1>3, <1>4 DEF OutputsBy
  <2>2. ASSUME NEW j \in 1..i PROVE q[0 + j] = z[0 + j]
    <3>1. 0 + j = j /\ j \in 1..m /\ j <= i
      BY <1>1, <1>5
    <3> QED
      BY <1>2, <3>1
  <2> DEFINE zero == 0
  <2>3. Agree(q, n, z, m, zero, zero, i)
    BY <1>1, <1>6, <2>2 DEF Agree
  <2>4. f[zero] = g[zero] /\ zero + i = i
    BY <1>6, <2>1
  <2> HIDE DEF zero
  <2>5. f[zero + i] = g[zero + i]
    BY <1>3, <1>4, <2>3, <2>4, OutputsTogether
  <2> QED
    BY <2>4, <2>5
<1>8. f[i] = g[k]
  <2>1. z[k] = q[i]
    BY <1>2, <1>6
  <2>2. g[k] = Output(g[i], q[i])
    BY <1>4, <1>6, <2>1 DEF OutputsBy
  <2> QED
    BY <1>7, <2>2 DEF Output, Evidence
<1>9. ASSUME NEW j \in 1..c PROVE q[i + j] = z[k + j]
  <2>1. k + j \in 1..m /\ ~ (k + j <= i) /\ (k + j) - 1 = i + j
    BY <1>1, <1>5
  <2> QED
    BY <1>2, <2>1
<1>10. f[i + c] = g[k + c]
  <2> HIDE DEF k, c
  <2>1. Agree(q, n, z, m, i, k, c)
    BY <1>1, <1>6, <1>9 DEF Agree
  <2> QED
    BY <1>3, <1>4, <1>8, <2>1, OutputsTogether
<1> QED
  BY <1>3, <1>4, <1>6, <1>10 DEF OutputsBy

LEMMA OutputsExchange ==
    ASSUME NEW q, IsSeq(q), NEW i \in 1..Len(q), i < Len(q),
           Evidence(q[i]) \/ Evidence(q[i + 1]) \/ q[i] = q[i + 1],
           NEW z, SwapsLines(z, q, i)
    PROVE  Outputs(z) = Outputs(q)
<1> DEFINE n == Len(q)
           k == i - 1
           l == i + 1
           c == n - l
<1>1. n \in Nat /\ DOMAIN q = 1..n /\ Len(z) = n /\ DOMAIN z = 1..n
  BY SeqLen DEF SwapsLines
<1>2. z[i] = q[l] /\ z[l] = q[i] /\ \A j \in 1..n : j # i /\ j # l => z[j] = q[j]
  BY <1>1 DEF SwapsLines
<1>3. PICK f : OutputsBy(f, n, q)
  BY <1>1, OutputsRun
<1>4. PICK g : OutputsBy(g, n, z)
  BY <1>1, OutputsRun
<1>5. i \in 1..n /\ i < n /\ (Evidence(q[i]) \/ Evidence(q[l]) \/ q[i] = q[l])
  OBVIOUS
<1> HIDE DEF n
<1>6. k \in Nat /\ c \in Nat /\ l \in Nat /\ 0 + k <= n /\ l + c = n /\ 0 \in Nat
      /\ 0 + k = k /\ l + c <= n /\ l \in 1..n /\ l - 1 = i
  BY <1>1, <1>5
<1>7. f[k] = g[k]
  <2>1. f[0] = g[0]
    BY <1>3, <1>4 DEF OutputsBy
  <2>2. ASSUME NEW j \in 1..k PROVE q[0 + j] = z[0 + j]
    <3>1. 0 + j = j /\ j \in 1..n /\ j # i /\ j # l
      BY <1>1, <1>5
    <3> QED
      BY <1>2, <3>1
  <2> HIDE DEF k
  <2> DEFINE zero == 0
  <2>3. Agree(q, n, z, n, zero, zero, k)
    BY <1>1, <1>6, <2>2 DEF Agree
  <2>4. f[zero] = g[zero] /\ zero + k = k
    BY <1>6, <2>1
  <2> HIDE DEF zero
  <2>5. f[zero + k] = g[zero + k]
    BY <1>3, <1>4, <2>3, <2>4, OutputsTogether
  <2> QED
    BY <2>4, <2>5
<1>8. f[l] = g[l]
  <2>1. f[i] = Output(f[k], q[i]) /\ g[i] = Output(f[k], q[l])
    BY <1>2, <1>3, <1>4, <1>5, <1>7 DEF OutputsBy
  <2>2. f[l] = Output(f[i], q[l]) /\ g[l] = Output(g[i], q[i])
    BY <1>2, <1>3, <1>4, <1>6 DEF OutputsBy
  <2> DEFINE a == q[i]
             b == q[l]
             s == f[k]
  <2>3. f[l] = Output(Output(s, a), b) /\ g[l] = Output(Output(s, b), a)
        /\ (Evidence(a) \/ Evidence(b) \/ a = b)
    BY <1>5, <2>1, <2>2
  <2> HIDE DEF a, b, s
  <2>4. CASE a = b
    BY <2>3, <2>4
  <2>5. CASE Evidence(a)
    <3>1. \A x : Output(x, a) = x
      BY <2>5 DEF Output, Evidence
    <3> QED
      BY <2>3, <3>1
  <2>6. CASE Evidence(b)
    <3>1. \A x : Output(x, b) = x
      BY <2>6 DEF Output, Evidence
    <3> QED
      BY <2>3, <3>1
  <2> QED
    BY <2>3, <2>4, <2>5, <2>6
<1>9. ASSUME NEW j \in 1..c PROVE q[l + j] = z[l + j]
  <2>1. l + j \in 1..n /\ l + j # i /\ l + j # l
    BY <1>1, <1>5
  <2> QED
    BY <1>2, <2>1
<1>10. f[l + c] = g[l + c]
  <2> HIDE DEF l, c
  <2>1. Agree(q, n, z, n, l, l, c)
    BY <1>1, <1>6, <1>9 DEF Agree
  <2> QED
    BY <1>3, <1>4, <1>8, <2>1, OutputsTogether
<1> QED
  BY <1>3, <1>4, <1>6, <1>10 DEF OutputsBy

------------------------------------------------------------------------------
(***************************************************************************)
(* What the reader makes of the recorder's trace, and where replay is.     *)
(* L is how far the reader gets: to the end of a whole trace, to the last  *)
(* event of one that a handler ended, and to where it strays from one that *)
(* was edited.                                                             *)
(***************************************************************************)
Judged == fate \in {"whole", "failed"} \/ (fate = "edited" /\ Outputs(trace) # Outputs(written))

RecordInv ==
    /\ phase \in Recording => fate = "running"
    /\ phase = "record" => Keeps(trace, sys, step)
    /\ phase = "failed" => Breaks(trace)

Followed(r, L) ==
    /\ L \in 0..Len(trace) /\ ReadsBy(r, FirstReader, trace, L)
    /\ fate = "whole" => L = Len(trace) /\ Settled(r[L]) /\ Alike(r[L].node, final)
    /\ fate = "failed" => L + 1 = Len(trace) /\ Refused(r[L], trace[L + 1])
    /\ fate = "edited" => Strays(r[L], trace, L)

(* Replay at the cursor is where the reader is. *)
Abreast(r, L) ==
    /\ cursor \in 0..L /\ Caught(r[cursor], sys) /\ r[cursor].n = step
    /\ sys.wire = {}

ReplayAt(r, L) ==
    /\ phase = "recorded" => cursor = 0 /\ step = 0
    /\ phase \in Replays => Abreast(r, L)
    /\ phase \in {"inbound", "await"} => step < RepCfg.steps
    /\ phase = "end" => ~ (step < RepCfg.steps)
    /\ phase = "accepted" => /\ fate = "whole" /\ cursor = L
                             /\ ~ (pending_inbox_messages(sys) > 0)
    /\ phase = "rejected" => fate \in {"failed", "edited"} \/ pending_inbox_messages(final) > 0

ReplayInv == Judged => \E r, L : Followed(r, L) /\ ReplayAt(r, L)

(***************************************************************************)
(* A reader that waits for emissions finds them, one by one, unless it can *)
(* get no further.                                                         *)
(***************************************************************************)
Through(r, events, L, k, node, due, n) ==
    LET j == k + Len(due)
    IN  /\ j \in 0..L /\ r[j] = Reader(node, due, Len(due), n) /\ Settled(r[j])
        /\ \A i \in 1..Len(due) : events[k + i] = due[i]

Stuck(r, L, k, node, due, n) ==
    \E i \in Nat : i < Len(due) /\ k + i = L /\ r[L] = Reader(node, due, i, n)

LEMMA FollowsDue ==
    ASSUME NEW r, NEW v, NEW events, NEW L \in Nat, ReadsBy(r, v, events, L),
           NEW k \in 0..L, NEW node, NEW due, IsSeq(due), NEW n,
           r[k] = Reader(node, due, 0, n), ~ Stuck(r, L, k, node, due, n)
    PROVE  Through(r, events, L, k, node, due, n)
<1> DEFINE m == Len(due)
           Fine(i) == /\ k + i <= L /\ r[k + i] = Reader(node, due, i, n)
                      /\ \A j \in 1..i : events[k + j] = due[j]
           T == {i \in Nat : i <= m => Fine(i)}
<1>1. m \in Nat
  BY SeqLen
<1> HIDE DEF m
<1>2. 0 \in T
  <2>1. k + 0 = k
    OBVIOUS
  <2>2. Fine(0)
    BY <2>1
  <2> QED
    BY <2>2
<1>3. ASSUME NEW i \in T, i + 1 <= m PROVE Fine(i + 1)
  <2>1. i \in Nat /\ i < m /\ Fine(i)
    BY <1>1, <1>3
  <2> DEFINE w == r[k + i]
             e == events[k + (i + 1)]
  <2>2. k + i \in 0..L /\ w = Reader(node, due, i, n)
    BY <2>1
  <2>3. w.node = node /\ w.due = due /\ w.at = i /\ w.n = n
    BY <2>2 DEF Reader
  <2>4. ~ Settled(w)
    BY <1>1, <2>1, <2>3 DEF Settled, m
  <2>5. k + i # L
    BY <2>1, <2>2 DEF Stuck, m
  <2>6. k + (i + 1) \in 1..L /\ (k + (i + 1)) - 1 = k + i
    BY <2>1, <2>2, <2>5
  <2>7. Accepts(w, e) /\ r[k + (i + 1)] = After(w, e)
    BY <2>6 DEF ReadsBy
  <2> HIDE DEF w, e
  <2>8. e = due[i + 1] /\ After(w, e) = Reader(node, due, i + 1, n)
    BY <2>3, <2>4, <2>7 DEF Accepts, After
  <2>9. ASSUME NEW j \in 1..(i + 1) PROVE events[k + j] = due[j]
    <3>1. CASE j = i + 1
      BY <2>8, <3>1 DEF e
    <3>2. CASE j # i + 1
      <4>1. j \in 1..i
        BY <2>1, <3>2
      <4> QED
        BY <2>1, <4>1
    <3> QED
      BY <3>1, <3>2
  <2>10. k + (i + 1) <= L
    BY <2>6
  <2> QED
    BY <2>7, <2>8, <2>9, <2>10
<1>4. \A i \in T \cap Nat : i + 1 \in T
  <2> HIDE DEF Fine
  <2> QED
    BY <1>3
<1> HIDE DEF T
<1>5. m \in T
  BY <1>1, <1>2, <1>4, Induction
<1>6. Fine(m)
  BY <1>1, <1>5 DEF T
<1>7. k + m \in 0..L
  BY <1>1, <1>6
<1>8. Settled(r[k + m])
  <2>1. Reader(node, due, m, n).at = m /\ Reader(node, due, m, n).due = due
    BY DEF Reader
  <2> QED
    BY <1>6, <2>1 DEF Settled, m
<1> QED
  BY <1>6, <1>7, <1>8 DEF Through, m

(* What may follow where a reader is settled: an event it accepts, or the  *)
(* one that ends its way.                                                  *)
Onward(r, L, k, e) ==
    /\ k # L => /\ k + 1 \in 0..L /\ r[k].n < RepCfg.steps
                /\ Accepts(r[k], e) /\ r[k + 1] = After(r[k], e)
                /\ e.kind \in {"NetRecv", "Drop", "TimerFired", "Deliver"}
                /\ e.node = RepCfg.node
    /\ k = L => \/ fate = "failed" /\ Refused(r[k], e)
                \/ fate = "edited" /\ e.kind \in Expected

Readable == fate \in {"whole", "failed", "edited"} /\ IsSeq(trace)

LEMMA FollowsNext ==
    ASSUME Readable, NEW r, NEW L, Followed(r, L),
           NEW k \in 0..L, Settled(r[k]), k < Len(trace)
    PROVE  Onward(r, L, k, trace[k + 1])
<1>1. Len(trace) \in Nat
  BY SeqLen DEF Readable
<1>2. CASE k = L
  <2>1. \/ fate = "failed" /\ Refused(r[k], trace[k + 1])
        \/ fate = "edited" /\ trace[k + 1].kind \in Expected
    BY <1>1, <1>2 DEF Followed, Strays, Readable
  <2> QED
    BY <1>2, <2>1 DEF Onward
<1>3. CASE k # L
  <2>1. L \in Nat
    BY <1>1 DEF Followed
  <2>2. k + 1 \in 1..L /\ k + 1 \in 0..L /\ (k + 1) - 1 = k
    BY <1>3, <2>1
  <2>3. Accepts(r[k], trace[k + 1]) /\ r[k + 1] = After(r[k], trace[k + 1])
    BY <2>2 DEF Followed, ReadsBy
  <2> DEFINE v == r[k]
             e == trace[k + 1]
  <2> HIDE DEF v, e
  <2>4. Accepts(v, e) /\ Settled(v)
    BY <2>3 DEF v, e
  <2>5. /\ e.kind \in {"NetRecv", "Drop", "TimerFired", "Deliver"}
        /\ e.node = RepCfg.node /\ v.n < RepCfg.steps
    BY <2>4 DEF Accepts
  <2> QED
    BY <1>3, <2>2, <2>3, <2>5 DEF Onward, v, e
<1> QED
  BY <1>2, <1>3

(***************************************************************************)
(* The recorder.                                                           *)
(***************************************************************************)
LEMMA RecordStep ==
    ASSUME SameCommandLine, TypeInv, RecordInv, [Next]_vars
    PROVE  RecordInv'
<1>1. CASE Boot
  <2> DEFINE up == Startup(RecCfg)
  <2>1. sys' = up.sys /\ trace' = up.events /\ phase' = "record" /\ fate' = fate
        /\ step' = step /\ phase = "boot"
    BY <1>1 DEF Boot
  <2>2. Keeps(up.events, up.sys, 0)
    BY KeepsStarting
  <2> HIDE DEF up
  <2>3. step \in Nat
    BY DEF TypeInv
  <2>4. Keeps(up.events, up.sys, step)
    <3>1. PICK w : Reads(FirstReader, up.events, w) /\ Caught(w, up.sys) /\ w.n <= 0
      BY <2>2 DEF Keeps
    <3>2. w.n \in Nat
      BY <3>1 DEF Caught, IsReader
    <3>3. w.n <= step
      BY <2>3, <3>1, <3>2
    <3> QED
      BY <3>1, <3>3 DEF Keeps
  <2>5. Keeps(trace', sys', step')
    BY <2>1, <2>4
  <2> QED
    BY <2>1, <2>5 DEF RecordInv, Recording
<1>2. ASSUME NEW arrived \in Arrivals, NEW lost \in Losses(arrived),
             NEW got \in Orders(arrived, lost), Record(lost, got)
      PROVE  RecordInv'
  <2> DEFINE ran == Iteration(sys, RecCfg, step, lost, got)
  <2>1. phase = "record" /\ step \in Nat /\ Node(RecCfg, sys) /\ IsSeq(trace)
        /\ step < RecCfg.steps /\ fate = "running" /\ Keeps(trace, sys, step)
    BY <1>2 DEF TypeInv, Recording, Record, Arrive, RecordInv
  <2>2. IsFiniteSet(lost) /\ IsSeq(got)
    BY ArrivalsSeq DEF TypeInv
  <2>3. IF ran.ok THEN Keeps(trace \o ran.events, ran.sys, step + 1)
                  ELSE Breaks(trace \o ran.events)
    BY <2>1, <2>2, KeepsIterating
  <2>4. /\ sys' = ran.sys /\ trace' = trace \o ran.events
        /\ phase' = IF ran.ok THEN "record" ELSE "failed"
        /\ step' = step + 1 /\ fate' = fate
    BY <1>2 DEF Record, Arrive
  <2> HIDE DEF ran
  <2>5. CASE ran.ok
    <3>1. Keeps(trace', sys', step') /\ phase' = "record"
      BY <2>3, <2>4, <2>5
    <3> QED
      BY <2>1, <2>4, <3>1 DEF RecordInv
  <2>6. CASE ~ ran.ok
    <3>1. Breaks(trace') /\ phase' = "failed"
      BY <2>3, <2>4, <2>6
    <3> QED
      BY <2>1, <2>4, <3>1 DEF RecordInv
  <2> QED
    BY <2>5, <2>6
<1>3. CASE phase' \notin Recording
  BY <1>3 DEF RecordInv, Recording
<1>4. CASE UNCHANGED vars
  BY <1>4 DEF RecordInv, vars
<1> QED
  <2>1. ASSUME \/ Stop \/ Fail \/ Kill
               \/ \E i \in DOMAIN trace : RemoveLine(i) \/ RepeatLine(i) \/ SwapLines(i)
        PROVE  phase' \notin Recording
    BY <2>1 DEF Stop, Fail, Kill, Leave, RemoveLine, RepeatLine, SwapLines, Edited, Recording
  <2>2. ASSUME \/ ReplayStart \/ ReplayNetRecv \/ ReplayFault \/ DrainedInbound
               \/ replay_fire_timer \/ ReplayDeliver \/ ReplayUnexpected \/ ReplayTorn
               \/ ReplayExhausted \/ ReplayEnd
        PROVE  phase' \notin Recording
    <3>1. CASE ReplayStart
      BY <3>1 DEF ReplayStart, Reject, Recording
    <3>2. CASE ReplayNetRecv \/ ReplayFault \/ DrainedInbound \/ replay_fire_timer
      BY <3>2 DEF ReplayNetRecv, ReplayFault, DrainedInbound, replay_fire_timer, Reject,
                  Replaying, Recording
    <3>3. CASE ReplayDeliver
      BY <3>3 DEF ReplayDeliver, NextIteration, Reject, Replaying, Recording
    <3>4. CASE ReplayUnexpected \/ ReplayTorn \/ ReplayExhausted \/ ReplayEnd
      BY <3>4 DEF ReplayUnexpected, ReplayTorn, ReplayExhausted, ReplayEnd, Reject, Verdict,
                  Recording
    <3> QED
      BY <2>2, <3>1, <3>2, <3>3, <3>4
  <2> QED
    BY <1>1, <1>2, <1>3, <1>4, <2>1, <2>2 DEF Next, Finished

------------------------------------------------------------------------------
(***************************************************************************)
(* Replay.                                                                 *)
(***************************************************************************)
(* Whether the expected events come next. *)
Matches(due, k) == /\ k + Len(due) <= Len(trace)
                   /\ \A i \in 1..Len(due) : trace[k + i] = due[i]

(* Where the reader gets through what it waits for, so does replay; where  *)
(* it does not, the trace was edited and replay finds another event.       *)
Verified(r, L, k, node, due, n) ==
    /\ Matches(due, k) /\ Through(r, trace, L, k, node, due, n)
    /\ fate # "edited" => verify_replay_emits(due, k)

LEMMA Verifies ==
    ASSUME Readable, NEW r, NEW L, Followed(r, L), NEW k \in 0..L,
           NEW node, NEW due, IsSeq(due), NEW n, r[k] = Reader(node, due, 0, n)
    PROVE  Verified(r, L, k, node, due, n) \/ (fate = "edited" /\ ~ Matches(due, k))
<1> DEFINE m == Len(due)
           j == k + m
           last == Len(trace)
<1>1. m \in Nat /\ last \in Nat
  BY SeqLen DEF Readable
<1>2. L \in Nat /\ L <= last /\ ReadsBy(r, FirstReader, trace, L)
  BY <1>1 DEF Followed
<1>3. CASE Stuck(r, L, k, node, due, n)
  <2>1. PICK i \in Nat : i < m /\ k + i = L /\ r[L] = Reader(node, due, i, n)
    BY <1>3 DEF Stuck
  <2> DEFINE v == r[L]
  <2>2. v.due = due /\ v.at = i
    BY <2>1 DEF Reader
  <2> HIDE DEF v, m
  <2>3. ~ Settled(v)
    BY <1>1, <2>1, <2>2 DEF Settled, m
  <2>4. fate = "edited"
    BY <2>3 DEF Followed, Refused, Readable, v
  <2>5. L < last => trace[L + 1] # due[i + 1]
    BY <2>2, <2>3, <2>4 DEF Followed, Strays, v
  <2>6. i + 1 \in 1..m /\ k + (i + 1) = L + 1 /\ (k + m <= last => L < last)
    BY <1>1, <1>2, <2>1
  <2> QED
    BY <2>4, <2>5, <2>6 DEF Matches, m
<1>4. CASE ~ Stuck(r, L, k, node, due, n)
  <2>1. Through(r, trace, L, k, node, due, n)
    BY <1>2, <1>4, FollowsDue
  <2>2. /\ j \in 0..L /\ Settled(r[j]) /\ \A i \in 1..m : trace[k + i] = due[i]
    BY <2>1 DEF Through
  <2> HIDE DEF m, last
  <2>3. ASSUME j < last, fate # "edited" PROVE trace[j + 1].kind \notin Emitted \cup {"torn"}
    <3> HIDE DEF j
    <3>1. Onward(r, L, j, trace[j + 1])
      BY <2>2, <2>3, FollowsNext DEF last
    <3>2. trace[j + 1].kind \in {"NetRecv", "Drop", "TimerFired", "Deliver"}
      BY <2>3, <3>1 DEF Onward, Refused
    <3> QED
      BY <3>2 DEF Emitted
  <2>4. j <= last
    BY <1>1, <1>2, <2>2
  <2>5. Matches(due, k) /\ (fate # "edited" => verify_replay_emits(due, k))
    BY <2>2, <2>3, <2>4 DEF Matches, verify_replay_emits, m, last
  <2> QED
    BY <2>1, <2>5 DEF Verified
<1> QED
  BY <1>3, <1>4

(* The replaying process has its node's event to deal with, in either loop. *)
LEMMA ReplayReads ==
    ASSUME TypeInv, Readable, NEW r, NEW L, Followed(r, L), ReplayAt(r, L),
           phase \in {"inbound", "await"}, ~ AtEnd
    PROVE  /\ cursor \in 0..L /\ cursor \in Nat /\ Caught(r[cursor], sys)
           /\ r[cursor].n = step /\ step \in Nat /\ step < RepCfg.steps /\ sys.wire = {}
           /\ Onward(r, L, cursor, Event)
<1>1. phase \in Replays /\ cursor \in Nat /\ cursor <= Len(trace) /\ step \in Nat
  BY DEF TypeInv, Replays
<1>2. Abreast(r, L) /\ step < RepCfg.steps
  BY <1>1 DEF ReplayAt
<1>3. cursor \in 0..L /\ Caught(r[cursor], sys) /\ Settled(r[cursor])
  BY <1>2 DEF Abreast, Caught
<1>4. Len(trace) \in Nat
  BY SeqLen DEF Readable
<1>5. cursor < Len(trace)
  BY <1>1, <1>4 DEF AtEnd
<1> DEFINE k == cursor
<1>6. k \in 0..L /\ Settled(r[k]) /\ k < Len(trace)
  BY <1>3, <1>5
<1> HIDE DEF k
<1>7. Onward(r, L, k, trace[k + 1])
  BY <1>6, FollowsNext
<1> QED
  BY <1>1, <1>2, <1>3, <1>7 DEF k, Event, Abreast

(* A replay of an edited trace may be rejected. *)
LEMMA ReplayRejects ==
    ASSUME NEW r, NEW L, Reject, fate' \in {"failed", "edited"}
    PROVE  ReplayAt(r, L)'
<1>1. phase' = "rejected"
  BY DEF Reject
<1> QED
  BY <1>1 DEF ReplayAt, Replays

LEMMA ReplayStarts ==
    ASSUME SameCommandLine, TypeInv, Readable, NEW r, NEW L, Followed(r, L), ReplayAt(r, L),
           ReplayStart
    PROVE  ReplayAt(r, L)'
<1> DEFINE up == Startup(RepCfg)
           due == up.events
           m == Len(due)
           w == r[0 + m]
<1>1. phase = "recorded" /\ cursor = 0 /\ step = 0
  BY DEF ReplayStart, Replaying, ReplayAt
<1>2. Booted(RepCfg, up) /\ RepCfg.steps \in Nat
  BY Hosts, StartupNode, CfgAssumption
<1>3. IsSeq(due) /\ m \in Nat /\ Node(RepCfg, up.sys) /\ up.sys.wire = {}
  BY <1>2, SeqLen DEF Booted
<1>4. L \in Nat /\ r[0] = Reader(up.sys, due, 0, 0)
  BY SeqLen DEF Followed, ReadsBy, FirstReader, Readable
<1>5. 0 \in 0..L
  BY <1>4
<1>15. IF verify_replay_emits(due, 0) THEN 0 + m \in 0..L /\ w = Reader(up.sys, due, m, 0)
                                     ELSE fate = "edited"
  <2> DEFINE node == up.sys
             zero == 0
  <2>1. r[zero] = Reader(node, due, 0, zero) /\ zero \in 0..L /\ IsSeq(due)
    BY <1>3, <1>4, <1>5
  <2> HIDE DEF due, node, zero
  <2>2. Verified(r, L, zero, node, due, zero) \/ (fate = "edited" /\ ~ Matches(due, zero))
    BY <2>1, Verifies
  <2>3. verify_replay_emits(due, zero) => Matches(due, zero)
    BY DEF verify_replay_emits, Matches
  <2>4. IF verify_replay_emits(due, zero) THEN Through(r, trace, L, zero, node, due, zero)
                                          ELSE fate = "edited"
    BY <2>2, <2>3 DEF Verified
  <2> QED
    BY <2>4 DEF node, zero, Through
<1>16. ASSUME ~ verify_replay_emits(due, 0) PROVE ReplayAt(r, L)'
  <2>1. Reject /\ fate' = "edited"
    BY <1>15, <1>16 DEF ReplayStart, Replaying
  <2> QED
    BY <2>1, ReplayRejects
<1> SUFFICES ASSUME verify_replay_emits(due, 0) PROVE ReplayAt(r, L)'
  BY <1>16
<1>6. verify_replay_emits(due, 0) /\ 0 + m \in 0..L /\ w = Reader(up.sys, due, m, 0)
  BY <1>15
<1>7. /\ sys' = up.sys /\ cursor' = m /\ step' = step
      /\ phase' = IF RepCfg.steps > 0 THEN "inbound" ELSE "end"
  BY <1>6 DEF ReplayStart
<1>8. 0 + m = m
  BY <1>3
<1> HIDE DEF up
<1>9. w.node = up.sys /\ w.due = due /\ w.at = m /\ w.n = 0
  BY <1>6 DEF Reader
<1>10. IsReader(w) /\ Settled(w)
  BY <1>6, <1>9 DEF IsReader, Settled
<1>11. Caught(w, up.sys)
  BY <1>3, <1>9, <1>10, AlikeIsEquivalence DEF Caught
<1> HIDE DEF due, m
<1>12. Abreast(r, L)'
  BY <1>1, <1>3, <1>6, <1>7, <1>8, <1>9, <1>11 DEF Abreast
<1>13. CASE RepCfg.steps > 0
  <2>1. phase' = "inbound" /\ step' < RepCfg.steps
    BY <1>1, <1>2, <1>7, <1>13
  <2> QED
    BY <1>12, <2>1 DEF ReplayAt
<1>14. CASE ~ (RepCfg.steps > 0)
  <2>1. phase' = "end" /\ ~ (step' < RepCfg.steps)
    BY <1>1, <1>2, <1>7, <1>14
  <2> QED
    BY <1>12, <2>1 DEF ReplayAt
<1> QED
  BY <1>13, <1>14

(* An inbound event, of a message or of its loss. *)
LEMMA ReplayInbound ==
    ASSUME SameCommandLine, TypeInv, Readable, NEW r, NEW L, Followed(r, L), ReplayAt(r, L),
           ReplayNetRecv \/ ReplayFault
    PROVE  ReplayAt(r, L)'
<1> DEFINE v == r[cursor]
           w == r[cursor + 1]
           e == Event
           k == cursor + 1
<1>1. phase \in {"inbound", "await"} /\ ~ AtEnd /\ phase' = phase /\ step' = step
      /\ cursor' = k /\ e.kind \in {"NetRecv", "Drop"} /\ fate' = fate
  BY DEF ReplayNetRecv, ReplayFault, Replaying
<1>0. /\ cursor \in 0..L /\ cursor \in Nat /\ Caught(v, sys) /\ v.n = step /\ sys.wire = {}
      /\ step < RepCfg.steps /\ Onward(r, L, cursor, e)
  BY <1>1, ReplayReads
<1>2. /\ cursor \in 0..L /\ Caught(v, sys) /\ v.n = step /\ sys.wire = {}
      /\ step < RepCfg.steps /\ e.node = RepCfg.node
      /\ cursor # L => k \in 0..L /\ w = After(v, e)
      /\ cursor = L => Refused(v, e)
  BY <1>0, <1>1 DEF Onward, Refused, Expected, Emitted
<1>3. k \in 0..L /\ w = After(v, e)
  BY <1>1, <1>2 DEF Refused
<1>4. r[k] = w
  OBVIOUS
<1>5. ReplayNetRecv => e.kind = "NetRecv" /\ inject_replay_netrecv(e)
  BY DEF ReplayNetRecv
<1>6. ReplayFault => e.kind = "Drop" /\ sys' = sys
  BY DEF ReplayFault
<1> HIDE DEF v, w, e, k
<1>7. Node(RepCfg, sys)
  BY <1>1 DEF TypeInv, Recording
<1>8. IsReader(v) /\ Settled(v) /\ Node(RepCfg, v.node) /\ Alike(v.node, sys)
  BY <1>2 DEF Caught
<1>9. Caught(w, sys') /\ w.n = step /\ sys'.wire = {}
  <2>1. CASE ReplayFault
    <3>1. w = v
      BY <1>3, <1>6, <1>8, <2>1 DEF After
    <3> QED
      BY <1>2, <1>6, <2>1, <3>1
  <2>2. CASE ReplayNetRecv
    <3> DEFINE x == Receive(v.node, e)
    <3>1. w = Reader(x, v.due, v.at, v.n)
      BY <1>3, <1>5, <1>8, <2>2 DEF After
    <3>2. sys' = Receive(sys, e)
      BY <1>2, <1>5, <2>2 DEF inject_replay_netrecv, Receive
    <3>3. Node(RepCfg, x)
      BY <1>8, ReceiveNode
    <3>4. sys'.wire = {}
      BY <1>2, <1>7, <3>2, ReceiveNode
    <3>5. Alike(x, sys')
      BY <1>7, <1>8, <3>2, ReceiveAlike
    <3> HIDE DEF x
    <3>6. w.node = x /\ w.due = v.due /\ w.at = v.at /\ w.n = v.n
      BY <3>1 DEF Reader
    <3>7. IsReader(w) /\ Settled(w)
      BY <1>8, <3>1, <3>6 DEF IsReader, Settled
    <3> QED
      BY <1>2, <3>3, <3>4, <3>5, <3>6, <3>7 DEF Caught
  <2> QED
    BY <2>1, <2>2
<1>10. Abreast(r, L)'
  BY <1>1, <1>3, <1>4, <1>9 DEF Abreast
<1> QED
  BY <1>1, <1>2, <1>10 DEF ReplayAt

LEMMA ReplayTimers ==
    ASSUME SameCommandLine, TypeInv, Readable, NEW r, NEW L, Followed(r, L), ReplayAt(r, L),
           replay_fire_timer
    PROVE  ReplayAt(r, L)'
<1> DEFINE v == r[cursor]
           w == r[cursor + 1]
           e == Event
           k == cursor + 1
           named == {t \in sys.timers : t.id = e.id /\ t.from = e.from}
           t == CHOOSE x \in named : TRUE
           u == CHOOSE x \in Named(v, e) : TRUE
           p == [sys |-> sys, events |-> <<>>]
           q == [sys |-> v.node, events |-> <<>>]
           a == FireOne(p, RepCfg, t)
           b == FireOne(q, RepCfg, u)
<1>1. phase = "await" /\ ~ AtEnd /\ e.kind = "TimerFired" /\ fate' = fate /\ step \in Nat
  BY DEF replay_fire_timer, Replaying, TypeInv
<1>0. /\ cursor \in 0..L /\ cursor \in Nat /\ Caught(v, sys) /\ v.n = step /\ sys.wire = {}
      /\ step < RepCfg.steps /\ Onward(r, L, cursor, e)
  BY <1>1, ReplayReads
<1>2. /\ cursor \in 0..L /\ cursor \in Nat /\ Caught(v, sys) /\ v.n = step /\ sys.wire = {}
      /\ step < RepCfg.steps /\ e.node = RepCfg.node
      /\ cursor # L => k \in 0..L /\ Accepts(v, e) /\ w = After(v, e)
      /\ cursor = L => Refused(v, e)
  BY <1>0, <1>1 DEF Onward, Refused, Expected, Emitted
<1>3. k \in 0..L /\ Accepts(v, e) /\ w = After(v, e)
  BY <1>1, <1>2 DEF Refused
<1>4. IF named = {} THEN Reject
      ELSE IF k + 1 <= Len(trace) /\ trace[k + 1] = a.events[2]
           THEN sys' = a.sys /\ cursor' = k + 1 /\ UNCHANGED <<phase, step>>
           ELSE Reject
  <2>1. k + 1 = cursor + 2
    BY <1>2
  <2> QED
    BY <1>2, <2>1 DEF replay_fire_timer
<1>5. r[k] = w /\ k \in Nat
  BY <1>2
<1>6. FiredBy(v, e) = b
  BY DEF FiredBy
<1>7. p.sys = sys /\ p.events = <<>> /\ q.sys = v.node /\ q.events = <<>>
  OBVIOUS
<1>8. IsReader(v) /\ Settled(v) /\ Node(RepCfg, v.node) /\ Alike(v.node, sys)
      /\ Alike(sys, v.node) /\ v.n \in Nat
  <2> HIDE DEF v
  <2> QED
    BY <1>2, AlikeIsEquivalence DEF Caught, IsReader
<1>9. Named(v, e) # {}
  <2> HIDE DEF v, e
  <2> QED
    BY <1>1, <1>3, <1>8 DEF Accepts
<1>10. u \in Named(v, e)
  BY <1>9, Zenon
<1>11. u \in v.node.timers /\ u.id = e.id /\ u.from = e.from
  BY <1>10 DEF Named
<1>12. named # {}
  <2>1. PICK x \in sys.timers : SameTimer(x, u)
    BY <1>8, <1>11 DEF Alike
  <2>2. x \in named
    BY <1>11, <2>1 DEF SameTimer
  <2> QED
    BY <2>2
<1>13. t \in named
  BY <1>12, Zenon
<1>14. t \in sys.timers /\ t.id = e.id
  BY <1>13
<1> HIDE DEF v, w, e, k, named, t, u, p, q
<1>15. w = Reader(b.sys, <<b.events[2]>>, 0, v.n)
  BY <1>1, <1>3, <1>6, <1>8 DEF After
<1>16. Node(RepCfg, sys) /\ Host(RepCfg) /\ SameHost(RepCfg, RepCfg) /\ IsSeq(<<>>)
       /\ Len(<<>>) = 0
  BY <1>1, Hosts, SeqOne DEF TypeInv, Recording, SameHost
<1>17. Fired(RepCfg, p, t, a)
  BY <1>7, <1>16, FireOneNode
<1>18. Fired(RepCfg, q, u, b)
  BY <1>7, <1>8, <1>16, FireOneNode
<1>19. /\ Emission(RepCfg, Without(p.sys, t), t.from, t.out)
             = Emission(RepCfg, Without(q.sys, u), u.from, u.out)
       /\ Alike(a.sys, b.sys)
  BY <1>7, <1>8, <1>11, <1>14, <1>16, FireOneAlike
<1> HIDE DEF a, b
<1>20. RepCfg.mode # "record" /\ 0 + 2 = 2
  BY CfgAssumption
<1>21. /\ Node(RepCfg, b.sys) /\ a.sys.wire = {}
       /\ b.events[2] = a.events[2]
  BY <1>2, <1>7, <1>16, <1>17, <1>18, <1>19, <1>20 DEF Fired
<1>22. Alike(b.sys, a.sys)
  BY <1>19, AlikeIsEquivalence
<1> DEFINE node == b.sys
           due == <<b.events[2]>>
           n == v.n
<1>23. IsSeq(due) /\ Len(due) = 1 /\ due[1] = b.events[2]
  BY SeqOne
<1>24. r[k] = Reader(node, due, 0, n)
  BY <1>5, <1>15
<1> HIDE DEF node, due, n
<1>33. Verified(r, L, k, node, due, n) \/ (fate = "edited" /\ ~ Matches(due, k))
  BY <1>3, <1>23, <1>24, Verifies
<1>34. ASSUME fate = "edited", ~ Matches(due, k) PROVE ReplayAt(r, L)'
  <2>1. due[1] = a.events[2]
    BY <1>21, <1>23
  <2>2. ~ (k + 1 <= Len(trace) /\ trace[k + 1] = a.events[2])
    <3>1. \A i \in 1..Len(due) : i = 1
      BY <1>23
    <3> QED
      BY <1>23, <1>34, <2>1, <3>1 DEF Matches
  <2>3. Reject /\ fate' = "edited"
    BY <1>1, <1>4, <1>34, <2>2
  <2> QED
    BY <2>3, ReplayRejects
<1> SUFFICES ASSUME Verified(r, L, k, node, due, n) PROVE ReplayAt(r, L)'
  BY <1>33, <1>34
<1>25. Verified(r, L, k, node, due, n)
  OBVIOUS
<1>26. k + 1 \in 0..L /\ r[k + 1] = Reader(node, due, 1, n) /\ trace[k + 1] = a.events[2]
  BY <1>21, <1>23, <1>25 DEF Verified, Through
<1>27. k + 1 <= Len(trace)
  BY <1>26, SeqLen DEF Followed, Readable
<1>28. sys' = a.sys /\ cursor' = k + 1 /\ phase' = phase /\ step' = step
  BY <1>4, <1>12, <1>26, <1>27
<1> DEFINE z == r[k + 1]
<1>29. z = Reader(node, due, 1, n) /\ z.node = node /\ z.due = due /\ z.at = 1 /\ z.n = n
  BY <1>26 DEF Reader
<1> HIDE DEF z
<1>30. IsReader(z) /\ Settled(z)
  BY <1>8, <1>23, <1>29 DEF IsReader, Settled, n
<1>31. Caught(z, a.sys) /\ z.n = step
  BY <1>2, <1>21, <1>22, <1>29, <1>30 DEF Caught, node, n
<1>32. Abreast(r, L)'
  BY <1>21, <1>26, <1>28, <1>31 DEF Abreast, z
<1> QED
  BY <1>1, <1>2, <1>28, <1>32 DEF ReplayAt

LEMMA ReplayDelivers ==
    ASSUME SameCommandLine, TypeInv, Readable, NEW r, NEW L, Followed(r, L), ReplayAt(r, L),
           ReplayDeliver
    PROVE  ReplayAt(r, L)'
<1> DEFINE v == r[cursor]
           w == r[cursor + 1]
           e == Event
           k == cursor + 1
           s == e.to
           a == Deliver(sys, RepCfg, step, s)
           b == Deliver(v.node, RepCfg, 0, s)
<1>1. phase = "await" /\ ~ AtEnd /\ e.kind = "Deliver" /\ fate' = fate /\ step \in Nat
  BY DEF ReplayDeliver, Replaying, TypeInv
<1>0. /\ cursor \in 0..L /\ cursor \in Nat /\ Caught(v, sys) /\ v.n = step /\ sys.wire = {}
      /\ step < RepCfg.steps /\ Onward(r, L, cursor, e)
  BY <1>1, ReplayReads
<1>2. /\ cursor \in 0..L /\ cursor \in Nat /\ Caught(v, sys) /\ v.n = step /\ sys.wire = {}
      /\ step < RepCfg.steps /\ e.node = RepCfg.node
      /\ cursor # L => k \in 0..L /\ Accepts(v, e) /\ w = After(v, e)
      /\ cursor = L => fate = "failed" /\ Refused(v, e)
  BY <1>0, <1>1 DEF Onward, Refused, Expected, Emitted
<1>3. \/ /\ s \in Services /\ sys.inbox[s] # <<>>
         /\ a.id = e.id /\ a.ok /\ verify_replay_emits(a.events, k)
         /\ sys' = a.sys /\ cursor' = k + Len(a.events) /\ NextIteration
      \/ Reject
  BY <1>2 DEF ReplayDeliver
<1>4. ASSUME s \in Services, sys.inbox[s] # <<>>, a.id = e.id, a.ok,
             verify_replay_emits(a.events, k)
      PROVE  ~ Reject
  BY <1>1, <1>2, <1>4 DEF ReplayDeliver, NextIteration, Reject
<1>5. r[k] = w /\ k \in Nat
  BY <1>2
<1>6. DeliveredBy(v, e) = b
  BY DEF DeliveredBy
<1>7. IsReader(v) /\ Settled(v) /\ Node(RepCfg, v.node) /\ Alike(v.node, sys) /\ v.n \in Nat
  <2> HIDE DEF v
  <2> QED
    BY <1>2, AlikeIsEquivalence DEF Caught, IsReader
<1>8. Node(RepCfg, sys) /\ Host(RepCfg) /\ SameHost(RepCfg, RepCfg)
  BY <1>1, Hosts DEF TypeInv, Recording, SameHost
<1>9. v.node.inbox = sys.inbox
  BY <1>7 DEF Alike
<1>10. ASSUME s \in Services, sys.inbox[s] # <<>>
       PROVE  /\ b.ok = a.ok /\ b.id = a.id /\ b.events = a.events /\ Alike(b.sys, a.sys)
              /\ Node(RepCfg, b.sys) /\ IsSeq(b.events) /\ a.sys.wire = {}
  <2> DEFINE y == v.node
  <2>1. v.node = y /\ Node(RepCfg, y) /\ Alike(y, sys) /\ y.inbox = sys.inbox
    BY <1>7, <1>9
  <2> HIDE DEF v, s, e, y
  <2>2. LET f == Deliver(y, RepCfg, 0, s)
            g == Deliver(sys, RepCfg, step, s)
        IN  f.ok = g.ok /\ f.id = g.id /\ f.events = g.events /\ Alike(f.sys, g.sys)
    BY <1>1, <1>8, <1>10, <2>1, DeliverAlike
  <2>3. LET f == Deliver(y, RepCfg, 0, s)
        IN  Node(RepCfg, f.sys) /\ IsSeq(f.events)
    BY <1>8, <1>10, <2>1, DeliverNode
  <2>4. RepCfg.mode # "record"
    BY CfgAssumption
  <2>5. Deliver(sys, RepCfg, step, s).sys.wire = sys.wire
    BY <1>1, <1>8, <1>10, <2>4, DeliverNode
  <2> QED
    BY <1>2, <2>1, <2>2, <2>3, <2>5
<1> HIDE DEF v, w, e, k, a, b
<1>11. CASE Accepts(v, e)
  <2>1. cursor # L /\ k \in 0..L /\ w = After(v, e)
    BY <1>2, <1>11 DEF Refused
  <2>2. s \in Services /\ sys.inbox[s] # <<>> /\ b.ok /\ b.id = e.id
    BY <1>1, <1>6, <1>7, <1>9, <1>11 DEF Accepts
  <2>3. /\ b.ok = a.ok /\ b.id = a.id /\ b.events = a.events /\ Alike(b.sys, a.sys)
        /\ Node(RepCfg, b.sys) /\ IsSeq(b.events) /\ a.sys.wire = {}
    BY <1>10, <2>2
  <2>4. w = Reader(b.sys, b.events, 0, v.n + 1)
    BY <1>1, <1>6, <1>7, <2>1 DEF After
  <2> DEFINE node == b.sys
             due == b.events
             n == v.n + 1
             m == Len(due)
             z == r[k + m]
  <2>5. k \in 0..L /\ IsSeq(due) /\ r[k] = Reader(node, due, 0, n)
    BY <1>5, <2>1, <2>3, <2>4
  <2>6. n \in Nat /\ n = step + 1 /\ m \in Nat
    BY <1>1, <1>2, <2>3, SeqLen
  <2> HIDE DEF node, due, n
  <2>18. Verified(r, L, k, node, due, n) \/ (fate = "edited" /\ ~ Matches(due, k))
    BY <2>5, Verifies
  <2>19. verify_replay_emits(due, k) => Matches(due, k)
    BY DEF verify_replay_emits, Matches
  <2>20. ASSUME ~ verify_replay_emits(due, k) PROVE ReplayAt(r, L)'
    <3>1. fate = "edited"
      BY <2>18, <2>20 DEF Verified
    <3>2. Reject
      BY <1>3, <2>3, <2>20 DEF due
    <3> QED
      BY <1>1, <3>1, <3>2, ReplayRejects
  <2> SUFFICES ASSUME verify_replay_emits(due, k) PROVE ReplayAt(r, L)'
    BY <2>20
  <2>7. Through(r, trace, L, k, node, due, n)
    BY <2>18, <2>19 DEF Verified
  <2>8. k + m \in 0..L /\ z = Reader(node, due, m, n) /\ Settled(z)
    BY <2>7 DEF Through
  <2>9. verify_replay_emits(a.events, k)
    BY <2>3 DEF due
  <2>10. ~ Reject
    BY <1>4, <2>2, <2>3, <2>9
  <2>11. sys' = a.sys /\ cursor' = k + m /\ NextIteration
    BY <1>3, <2>3, <2>10 DEF due
  <2> HIDE DEF m, z
  <2>12. z.node = node /\ z.due = due /\ z.at = m /\ z.n = n
    BY <2>8 DEF Reader
  <2>13. IsReader(z)
    BY <2>6, <2>8, <2>12 DEF IsReader
  <2>14. Caught(z, a.sys) /\ z.n = step + 1
    BY <2>3, <2>6, <2>8, <2>12, <2>13 DEF Caught, node
  <2>15. step' = step + 1
    BY <2>11 DEF NextIteration
  <2>16. Abreast(r, L)'
    BY <2>3, <2>8, <2>11, <2>14, <2>15 DEF Abreast, z
  <2>17. phase' \in {"inbound", "end"}
         /\ (phase' = "inbound" => step' < RepCfg.steps)
         /\ (phase' = "end" => ~ (step' < RepCfg.steps))
    BY <2>11 DEF NextIteration
  <2> QED
    BY <2>16, <2>17 DEF ReplayAt
<1>12. CASE ~ Accepts(v, e)
  <2>1. fate = "failed" /\ Refused(v, e)
    BY <1>2, <1>12
  <2>2. Reject
    <3> SUFFICES ASSUME ~ Reject PROVE FALSE
      OBVIOUS
    <3>1. s \in Services /\ sys.inbox[s] # <<>> /\ a.id = e.id /\ a.ok
      BY <1>3
    <3>2. b.ok /\ b.id = e.id
      BY <1>10, <3>1
    <3>3. e.to \in Services /\ v.node.inbox[e.to] # <<>>
      BY <1>9, <3>1
    <3>4. v.n < RepCfg.steps
      BY <1>2
    <3>5. Accepts(v, e)
      BY <1>1, <1>2, <1>6, <1>7, <3>2, <3>3, <3>4 DEF Accepts
    <3> QED
      BY <1>12, <3>5
  <2>3. phase' = "rejected" /\ fate' = "failed"
    BY <1>1, <2>1, <2>2 DEF Reject
  <2> QED
    BY <2>3 DEF ReplayAt, Replays
<1> QED
  BY <1>11, <1>12

(* A trace that replay has read to its end is whole, and the node it       *)
(* arrived at has the messages in its inboxes that the recorder's had.     *)
LEMMA ReplayArrives ==
    ASSUME TypeInv, Readable, NEW r, NEW L, Followed(r, L), Abreast(r, L), AtEnd
    PROVE  /\ fate = "whole" /\ cursor = L
           /\ pending_inbox_messages(sys) = pending_inbox_messages(final)
<1> DEFINE last == Len(trace)
<1>1. last \in Nat /\ cursor \in Nat /\ cursor = last
  BY SeqLen DEF Readable, TypeInv, AtEnd
<1>2. L \in 0..last /\ cursor \in 0..L /\ (fate = "failed" => L + 1 = last)
      /\ Settled(r[cursor]) /\ (fate = "edited" => Strays(r[L], trace, L))
  BY DEF Followed, Abreast, Caught
<1>6. cursor = L /\ L = last
  BY <1>1, <1>2
<1>7. fate # "edited"
  BY <1>1, <1>2, <1>6 DEF Strays
<1> HIDE DEF last
<1>3. cursor = L /\ fate # "failed"
  BY <1>1, <1>2
<1>4. fate = "whole"
  BY <1>3, <1>7 DEF Readable
<1>5. Alike(r[cursor].node, final) /\ Alike(r[cursor].node, sys)
  BY <1>3, <1>4 DEF Followed, Abreast, Caught
<1>8. sys.inbox = final.inbox
  BY <1>5 DEF Alike
<1> QED
  BY <1>3, <1>4, <1>8 DEF pending_inbox_messages

LEMMA ReplayJudges ==
    ASSUME TypeInv, Readable, NEW r, NEW L, Followed(r, L), ReplayAt(r, L),
           DrainedInbound \/ ReplayUnexpected \/ ReplayTorn \/ ReplayExhausted \/ ReplayEnd
    PROVE  ReplayAt(r, L)'
<1>1. CASE DrainedInbound
  <2>1. phase = "inbound" /\ phase' = "await" /\ sys' = sys /\ step' = step /\ cursor' = cursor
    BY <1>1 DEF DrainedInbound, Replaying
  <2>2. Abreast(r, L)
    BY <2>1 DEF ReplayAt, Replays
  <2>3. Abreast(r, L)'
    BY <2>1, <2>2 DEF Abreast
  <2> QED
    BY <2>1, <2>3 DEF ReplayAt
<1>2. CASE ReplayUnexpected \/ ReplayTorn
  <2>1. phase \in {"inbound", "await"} /\ ~ AtEnd
        /\ Event.kind \in Emitted \cup {"Spawn", "torn"} /\ Reject /\ fate' = fate
    BY <1>2 DEF ReplayUnexpected, ReplayTorn, Replaying
  <2>2. Onward(r, L, cursor, Event)
    BY <2>1, ReplayReads
  <2>3. fate = "edited"
    BY <2>1, <2>2 DEF Onward, Refused, Emitted
  <2> QED
    BY <2>1, <2>3, ReplayRejects
<1>3. CASE ReplayExhausted \/ ReplayEnd
  <2>1. /\ phase \in {"await", "end"} /\ fate' = fate /\ final' = final /\ sys' = sys
        /\ step' = step /\ cursor' = cursor /\ phase' \in {"accepted", "rejected"}
        /\ AtEnd => IF pending_inbox_messages(sys) > 0 THEN phase' = "rejected"
                                                        ELSE phase' = "accepted"
        /\ ~ AtEnd => phase = "end" /\ phase' = "rejected"
    BY <1>3 DEF ReplayExhausted, ReplayEnd, Replaying, Verdict, Reject
  <2>2. Abreast(r, L)
    BY <2>1 DEF ReplayAt, Replays
  <2>3. CASE AtEnd
    <3>1. fate = "whole" /\ cursor = L
          /\ pending_inbox_messages(sys) = pending_inbox_messages(final)
      BY <2>2, <2>3, ReplayArrives
    <3>2. CASE pending_inbox_messages(sys) > 0
      <4>1. phase' = "rejected" /\ pending_inbox_messages(final) > 0
        BY <2>1, <2>3, <3>1, <3>2
      <4>2. pending_inbox_messages(final)' > 0
        BY <2>1, <4>1 DEF pending_inbox_messages
      <4> QED
        BY <4>1, <4>2 DEF ReplayAt, Replays
    <3>3. CASE ~ (pending_inbox_messages(sys) > 0)
      <4>1. phase' = "accepted" /\ fate' = "whole" /\ cursor' = L
        BY <2>1, <2>3, <3>1, <3>3
      <4>2. ~ (pending_inbox_messages(sys)' > 0)
        BY <2>1, <3>3 DEF pending_inbox_messages
      <4>3. Abreast(r, L)'
        BY <2>1, <2>2 DEF Abreast
      <4> QED
        BY <4>1, <4>2, <4>3 DEF ReplayAt
    <3> QED
      BY <3>2, <3>3
  <2>4. CASE ~ AtEnd
    <3> DEFINE k == cursor
               last == Len(trace)
    <3>1. last \in Nat /\ k \in Nat /\ k <= last /\ k # last
      BY <2>4, SeqLen DEF TypeInv, Readable, AtEnd
    <3>2. k \in 0..L /\ Settled(r[k]) /\ r[k].n = step
      BY <2>2 DEF Abreast, Caught
    <3>3. phase' = "rejected" /\ ~ (step < RepCfg.steps)
      BY <2>1, <2>4 DEF ReplayAt
    <3>4. L \in 0..last /\ (fate = "whole" => L = last)
      BY DEF Followed
    <3> HIDE DEF k
    <3>5. fate \in {"failed", "edited"}
      <4> SUFFICES ASSUME fate = "whole" PROVE FALSE
        BY DEF Readable
      <4>1. k # L /\ k < last
        BY <3>1, <3>4
      <4>2. r[k].n < RepCfg.steps
        BY <3>2, <4>1, FollowsNext DEF Onward
      <4> QED
        BY <3>2, <3>3, <4>2
    <3>6. fate' \in {"failed", "edited"}
      BY <2>1, <3>5
    <3> QED
      BY <3>3, <3>6 DEF ReplayAt, Replays
  <2> QED
    BY <2>3, <2>4
<1> QED
  BY <1>1, <1>2, <1>3

(* A recording that ends leaves a trace the reader can follow. *)
LEMMA ReplayBegins ==
    ASSUME TypeInv, RecordInv, Stop \/ Fail
    PROVE  \E r, L : Followed(r, L)' /\ ReplayAt(r, L)'
<1>1. /\ phase' = "recorded" /\ cursor' = 0 /\ step' = 0 /\ trace' = trace /\ final' = sys
      /\ fate' \in {"whole", "failed"}
  BY DEF Stop, Fail, Leave, TypeInv, Recording
<1>2. \A r, L : ReplayAt(r, L)'
  BY <1>1 DEF ReplayAt, Replays
<1> DEFINE n == Len(trace)
<1>3. n \in Nat
  BY SeqLen DEF TypeInv
<1>4. CASE Stop
  <2>1. fate' = "whole" /\ Keeps(trace, sys, step)
    BY <1>4 DEF Stop, Leave, RecordInv
  <2>2. PICK w : Reads(FirstReader, trace, w) /\ Caught(w, sys)
    BY <2>1 DEF Keeps
  <2>3. PICK r : ReadsBy(r, FirstReader, trace, n) /\ r[n] = w
    BY <2>2 DEF Reads
  <2>4. Settled(r[n]) /\ Alike(r[n].node, sys) /\ n \in 0..n
    BY <1>3, <2>2, <2>3 DEF Caught
  <2>5. /\ n \in 0..Len(trace) /\ ReadsBy(r, FirstReader, trace, n) /\ Settled(r[n])
        /\ Alike(r[n].node, sys)
    BY <2>3, <2>4
  <2> DEFINE L == n
  <2>6. L = Len(trace)
    OBVIOUS
  <2>7. Followed(r, L)'
    BY <1>1, <2>1, <2>5 DEF Followed
  <2> QED
    BY <1>2, <2>7
<1>5. CASE Fail
  <2>1. fate' = "failed" /\ Breaks(trace)
    BY <1>5 DEF Fail, Leave, RecordInv
  <2>2. PICK p, e, w : /\ IsSeq(p) /\ trace = Append(p, e)
                       /\ Reads(FirstReader, p, w) /\ Refused(w, e)
    BY <2>1 DEF Breaks
  <2> DEFINE L == Len(p)
  <2>3. PICK r : ReadsBy(r, FirstReader, p, L) /\ r[L] = w
    BY <2>2 DEF Reads
  <2>4. L \in Nat /\ n = L + 1 /\ trace[L + 1] = e /\ \A i \in 1..L : trace[i] = p[i]
    BY <2>2, SeqAppend
  <2> HIDE DEF L
  <2>5. ReadsBy(r, FirstReader, trace, L)
    BY <2>3, <2>4 DEF ReadsBy
  <2>6. Settled(r[L]) /\ Refused(r[L], trace[L + 1]) /\ L \in 0..n /\ L + 1 = n
    BY <2>2, <2>3, <2>4 DEF Refused
  <2> QED
    BY <1>1, <1>2, <2>1, <2>5, <2>6 DEF Followed
<1> QED
  BY <1>4, <1>5

(* A line removed, repeated or exchanged in the file of a whole trace. *)
LEMMA EditedLines ==
    ASSUME TypeInv, fate = "whole", NEW i \in DOMAIN trace,
           RemoveLine(i) \/ RepeatLine(i) \/ SwapLines(i)
    PROVE  \/ LacksLine(trace', trace, i) \/ RepeatsLine(trace', trace, i)
           \/ i < Len(trace) /\ SwapsLines(trace', trace, i)
<1> DEFINE n == Len(trace)
<1>1. IsSeq(trace) /\ n \in Nat /\ i \in 1..n /\ trace = [j \in 1..n |-> trace[j]]
  BY SeqLen DEF TypeInv
<1>2. CASE RemoveLine(i)
  <2>1. trace' = RemoveAt(trace, i)
    BY <1>2 DEF RemoveLine, Edited
  <2> DEFINE z == RemoveAt(trace, i)
  <2>2. /\ IsSeq(z) /\ Len(z) = n - 1
        /\ \A j \in 1..(n - 1) : z[j] = IF j < i THEN trace[j] ELSE trace[j + 1]
    BY <1>1, Removed
  <2> HIDE DEF z
  <2>3. LacksLine(z, trace, i)
    BY <2>2 DEF LacksLine
  <2> QED
    BY <2>1, <2>3 DEF z
<1>3. CASE RepeatLine(i)
  <2>1. trace' = InsertAt(trace, i, trace[i])
    BY <1>3 DEF RepeatLine, Edited
  <2> DEFINE e == trace[i]
             z == InsertAt(trace, i, e)
  <2>2. /\ IsSeq(z) /\ Len(z) = n + 1
        /\ \A j \in 1..(n + 1) :
              z[j] = IF j < i THEN trace[j] ELSE IF j = i THEN e ELSE trace[j - 1]
    <3> HIDE DEF e
    <3> QED
      BY <1>1, Inserted
  <2> HIDE DEF z
  <2>3. \A j \in 1..(n + 1) : z[j] = IF j <= i THEN trace[j] ELSE trace[j - 1]
    BY <1>1, <2>2
  <2>4. RepeatsLine(z, trace, i)
    BY <2>2, <2>3 DEF RepeatsLine
  <2> QED
    BY <2>1, <2>4 DEF z
<1>4. CASE SwapLines(i)
  <2>1. i < n /\ trace' = [trace EXCEPT ![i] = trace[i + 1], ![i + 1] = trace[i]]
    BY <1>4 DEF SwapLines, Edited
  <2> DEFINE z == [trace EXCEPT ![i] = trace[i + 1], ![i + 1] = trace[i]]
  <2>2. i + 1 \in 1..n /\ i + 1 # i
    BY <1>1, <2>1
  <2>3. /\ z = [j \in 1..n |-> z[j]] /\ z[i] = trace[i + 1] /\ z[i + 1] = trace[i]
        /\ \A j \in 1..n : j # i /\ j # i + 1 => z[j] = trace[j]
    BY <1>1, <2>2
  <2> HIDE DEF z
  <2>4. IsSeq(z) /\ Len(z) = n
    BY <1>1, <2>3, SeqMade
  <2>5. SwapsLines(z, trace, i)
    BY <2>3, <2>4 DEF SwapsLines
  <2> QED
    BY <2>1, <2>5 DEF z
<1> QED
  BY <1>2, <1>3, <1>4

(* From a trace with other outputs than the recorder wrote the reader      *)
(* strays.                                                                 *)
LEMMA ReplayEdits ==
    ASSUME TypeInv, EditInv, ReplayInv,
           NEW i \in DOMAIN trace, RemoveLine(i) \/ RepeatLine(i) \/ SwapLines(i)
    PROVE  ReplayInv'
<1>1. phase = "recorded" /\ fate = "whole" /\ UNCHANGED <<phase, step, cursor, written>>
      /\ fate' = "edited"
  BY DEF RemoveLine, RepeatLine, SwapLines, Edited
<1>2. trace = written /\ IsSeq(trace) /\ i \in 1..Len(trace)
  BY <1>1, SeqLen DEF EditInv, TypeInv
<1>3. PICK r, L : Followed(r, L) /\ ReplayAt(r, L)
  BY <1>1 DEF ReplayInv, Judged
<1>4. Follows(r, trace) /\ cursor = 0 /\ step = 0
  BY <1>1, <1>3 DEF Followed, Follows, ReplayAt
<1> SUFFICES ASSUME Outputs(trace') # Outputs(trace) PROVE \E k : Followed(r, k)'
  <2>1. \A k : ReplayAt(r, k)'
    BY <1>1, <1>4 DEF ReplayAt, Replays
  <2> QED
    BY <1>1, <1>2, <2>1 DEF ReplayInv, Judged
<1> DEFINE z == trace'
           q == trace
<1>5. \/ LacksLine(z, q, i)
      \/ RepeatsLine(z, q, i)
      \/ i < Len(q) /\ SwapsLines(z, q, i)
  <2>1. fate = "whole"
    BY <1>1
  <2>2. \/ LacksLine(trace', trace, i) \/ RepeatsLine(trace', trace, i)
        \/ i < Len(trace) /\ SwapsLines(trace', trace, i)
    BY ONLY TypeInv, <2>1, i \in DOMAIN trace, RemoveLine(i) \/ RepeatLine(i) \/ SwapLines(i),
            EditedLines
  <2> QED
    BY <2>2
<1>6. IsSeq(q) /\ i \in 1..Len(q) /\ Follows(r, q) /\ Outputs(z) # Outputs(q)
  BY <1>2, <1>4
<1> HIDE DEF z, q
<1>7. StraysFrom(r, z)
  <2>1. CASE LacksLine(z, q, i)
    BY <1>6, <2>1, OutputsRemoval, StraysOnRemoval
  <2>2. CASE RepeatsLine(z, q, i)
    BY <1>6, <2>2, OutputsRepetition, StraysOnRepetition
  <2>3. CASE i < Len(q) /\ SwapsLines(z, q, i)
    BY <1>6, <2>3, OutputsExchange, StraysOnExchange
  <2> QED
    BY <1>5, <2>1, <2>2, <2>3
<1>8. PICK k \in 0..Len(z) : ReadsBy(r, FirstReader, z, k) /\ Strays(r[k], z, k)
  BY <1>7 DEF StraysFrom
<1>9. Followed(r, k)'
  BY <1>1, <1>8 DEF Followed, z
<1> QED
  BY <1>9

LEMMA ReplayStep ==
    ASSUME SameCommandLine, TypeInv, RecordInv, EditInv, ReplayInv, [Next]_vars
    PROVE  ReplayInv'
<1>1. ASSUME fate' \notin {"whole", "failed", "edited"} PROVE ReplayInv'
  BY <1>1 DEF ReplayInv, Judged
<1>2. CASE phase \in Recording /\ fate' = fate
  <2>1. fate' = "running"
    BY <1>2 DEF RecordInv
  <2> QED
    BY <1>1, <2>1
<1>3. CASE Stop \/ Fail
  <2>1. \E r, L : Followed(r, L)' /\ ReplayAt(r, L)'
    BY <1>3, ReplayBegins
  <2> QED
    BY <2>1 DEF ReplayInv
<1>4. CASE fate' = "killed"
  BY <1>1, <1>4
<1>8. CASE \E i \in DOMAIN trace : RemoveLine(i) \/ RepeatLine(i) \/ SwapLines(i)
  BY <1>8, ReplayEdits
<1>9. ASSUME UNCHANGED <<trace, written, fate>>, ~ Judged PROVE ReplayInv'
  BY <1>9 DEF ReplayInv, Judged
<1>5. ASSUME trace' = trace, final' = final, written' = written, fate' = fate, Judged,
             \A r, L : Followed(r, L) /\ ReplayAt(r, L) => ReplayAt(r, L)'
      PROVE  ReplayInv'
  <2>1. PICK r, L : Followed(r, L) /\ ReplayAt(r, L)
    BY <1>5 DEF ReplayInv
  <2>2. Followed(r, L)'
    BY <1>5, <2>1 DEF Followed
  <2> QED
    BY <1>5, <2>1, <2>2 DEF ReplayInv
<1>6. CASE UNCHANGED vars
  <2>1. trace' = trace /\ final' = final /\ fate' = fate /\ phase' = phase /\ sys' = sys
        /\ written' = written
        /\ step' = step /\ cursor' = cursor
    BY <1>6 DEF vars
  <2>2. ASSUME NEW r, NEW L, ReplayAt(r, L) PROVE ReplayAt(r, L)'
    BY <2>1, <2>2 DEF ReplayAt, Abreast, pending_inbox_messages
  <2> QED
    BY <1>5, <1>9, <2>1, <2>2
<1>7. CASE \/ ReplayStart \/ ReplayNetRecv \/ ReplayFault \/ DrainedInbound
           \/ replay_fire_timer \/ ReplayDeliver \/ ReplayUnexpected \/ ReplayTorn
           \/ ReplayExhausted \/ ReplayEnd
  <2>1. trace' = trace /\ final' = final /\ written' = written /\ fate' = fate
    BY <1>7 DEF ReplayStart, ReplayNetRecv, ReplayFault, DrainedInbound, replay_fire_timer,
                ReplayDeliver, ReplayUnexpected, ReplayTorn, ReplayExhausted, ReplayEnd,
                Replaying
  <2>2. ASSUME Judged, NEW r, NEW L, Followed(r, L), ReplayAt(r, L)
        PROVE  ReplayAt(r, L)'
    <3>1. Readable
      BY <2>2 DEF Judged, Readable, TypeInv
    <3>2. CASE ReplayStart
      BY <2>2, <3>1, <3>2, ReplayStarts
    <3>3. CASE ReplayNetRecv \/ ReplayFault
      BY <2>2, <3>1, <3>3, ReplayInbound
    <3>4. CASE replay_fire_timer
      BY <2>2, <3>1, <3>4, ReplayTimers
    <3>5. CASE ReplayDeliver
      BY <2>2, <3>1, <3>5, ReplayDelivers
    <3>6. CASE DrainedInbound \/ ReplayUnexpected \/ ReplayTorn \/ ReplayExhausted \/ ReplayEnd
      BY <2>2, <3>1, <3>6, ReplayJudges
    <3> QED
      BY <1>7, <3>2, <3>3, <3>4, <3>5, <3>6
  <2> QED
    BY <1>5, <1>9, <2>1, <2>2
<1> QED
  <2>1. Boot => phase \in Recording /\ fate' = fate
    BY DEF Boot, Recording
  <2>2. \A lost, got : Record(lost, got) => phase \in Recording /\ fate' = fate
    BY DEF Record, Arrive, Recording
  <2>3. Kill => fate' = "killed"
    BY DEF Kill, Leave
  <2> QED
    BY <1>2, <1>3, <1>4, <1>6, <1>7, <1>8, <2>1, <2>2, <2>3 DEF Next, Finished

ReplayHolds == TypeInv /\ RecordInv /\ EditInv /\ ReplayInv

LEMMA ReplaysHold == SameCommandLine => (Spec => []ReplayHolds)
<1>1. Init => RecordInv /\ EditInv /\ ReplayInv
  BY DEF Init, RecordInv, EditInv, ReplayInv, Judged
<1>2. SameCommandLine /\ ReplayHolds /\ [Next]_vars => ReplayHolds'
  BY TypeStep, RecordStep, EditStep, ReplayStep DEF ReplayHolds
<1>3. Init => ReplayHolds
  BY <1>1, TypeInit DEF ReplayHolds
<1>4. SameCommandLine => []SameCommandLine
  <2>1. SameCommandLine => SameCommandLine'
    BY DEF SameCommandLine
  <2> QED
    BY <2>1, PTL
<1> QED
  BY <1>2, <1>3, <1>4, PTL DEF Spec

(* The error that ended a recording ends its replay: the reader refuses the *)
(* last Deliver of such a trace, so replay, alike to it, fails there, too.  *)
THEOREM FailuresReplay == SameCommandLine => (Spec => []FailureReplays)
<1>1. ReplayHolds => FailureReplays
  BY DEF ReplayHolds, ReplayInv, Judged, ReplayAt, FailureReplays
<1> QED
  BY <1>1, ReplaysHold, PTL

(* Whatever program ran and whatever the network delivered, dropped or     *)
(* reordered: an accepted replay of a whole trace ends in the recorder's    *)
(* state, with nothing written to the wire.                                *)
THEOREM AcceptedReplaysReproduce == SameCommandLine => (Spec => []ReplayReproduces)
<1>1. ReplayHolds => ReplayReproduces
  <2> SUFFICES ASSUME ReplayHolds, phase = "accepted", fate = "whole"
               PROVE  /\ sys.state = final.state
                      /\ sys.msg_counter = final.msg_counter
                      /\ sys.timer_counter = final.timer_counter
                      /\ Untimed(sys.timers) = Untimed(final.timers)
                      /\ sys.wire = {}
    BY DEF ReplayReproduces
  <2>1. PICK r, L : Followed(r, L) /\ ReplayAt(r, L)
    BY DEF ReplayHolds, ReplayInv, Judged
  <2>2. Abreast(r, L) /\ cursor = L
    BY <2>1 DEF ReplayAt, Replays
  <2>3. Alike(r[cursor].node, sys) /\ Alike(r[cursor].node, final) /\ sys.wire = {}
    BY <2>1, <2>2 DEF Abreast, Caught, Followed
  <2>4. Alike(sys, final)
    BY <2>3, AlikeIsEquivalence
  <2>5. Untimed(sys.timers) = Untimed(final.timers)
    BY <2>4 DEF Alike, SameTimer, Untimed
  <2> QED
    BY <2>3, <2>4, <2>5 DEF Alike
<1> QED
  BY <1>1, ReplaysHold, PTL

(* A whole trace replays exactly when its recording was drained: replay     *)
(* finds every event it expects, and rejects for undelivered messages only. *)
THEOREM DrainedTracesReplay == SameCommandLine => (Spec => []ReplayExact)
<1>1. ReplayHolds => ReplayExact
  <2> SUFFICES ASSUME ReplayHolds, fate = "whole", Over
               PROVE  phase = "accepted" <=> Drained
    BY DEF ReplayExact
  <2>1. PICK r, L : Followed(r, L) /\ ReplayAt(r, L)
    BY DEF ReplayHolds, ReplayInv, Judged
  <2>2. CASE phase = "accepted"
    <3>1. Abreast(r, L) /\ cursor = L /\ ~ (pending_inbox_messages(sys) > 0)
      BY <2>1, <2>2 DEF ReplayAt, Replays
    <3>2. Alike(r[cursor].node, sys) /\ Alike(r[cursor].node, final)
      BY <2>1, <3>1 DEF Abreast, Caught, Followed
    <3>3. sys.inbox = final.inbox
      BY <3>2 DEF Alike
    <3> QED
      BY <2>2, <3>1, <3>3 DEF Drained, pending_inbox_messages
  <2>3. CASE phase = "rejected"
    BY <2>1, <2>3 DEF ReplayAt, Drained
  <2> QED
    BY <2>2, <2>3 DEF Over
<1> QED
  BY <1>1, ReplaysHold, PTL

(* Replay rejects a trace in which one line was removed, repeated or        *)
(* exchanged with the next, unless deliveries, timer firings and emissions  *)
(* are those the recorder wrote: it comes to where its reader strays, and   *)
(* meets an event other than the one it expects.                            *)
THEOREM EditsAreDetected == SameCommandLine => (Spec => []EditsDetected)
<1>1. ReplayHolds => EditsDetected
  BY DEF ReplayHolds, ReplayInv, Judged, ReplayAt, EditsDetected
<1> QED
  BY <1>1, ReplaysHold, PTL

------------------------------------------------------------------------------
(***************************************************************************)
(* The order of deliveries.  An inbox holds, in their order, the messages  *)
(* that came and were not served.                                          *)
(***************************************************************************)
LEMMA NthUpTo ==
    ASSUME NEW n \in Nat, NEW S, S \subseteq 1..n
    PROVE  /\ Cardinality(S) \in Nat
           /\ \A i : Nth(S, i) \in Nat /\ Nth(S, i) <= Cardinality(S)
<1>1. IsFiniteSet(S)
  <2>1. IsFiniteSet(1..n)
    BY FS_Interval
  <2> QED
    BY <2>1, FS_Subset
<1>2. ASSUME NEW i PROVE Nth(S, i) \in Nat /\ Nth(S, i) <= Cardinality(S)
  <2> DEFINE U == {j \in S : j <= i}
  <2>1. U \subseteq S
    OBVIOUS
  <2> HIDE DEF U
  <2>2. Cardinality(U) \in Nat /\ Cardinality(U) <= Cardinality(S)
    BY <1>1, <2>1, FS_Subset, FS_CardinalityType
  <2> QED
    BY <2>2 DEF Nth, U
<1> QED
  BY <1>1, <1>2, FS_CardinalityType

SameNth(T, S, n) == \A i \in 1..n : Nth(T, i) = Nth(S, i)

LEMMA NthMore ==
    ASSUME NEW n \in Nat, NEW S, S \subseteq 1..n, NEW T, T = S \cup {n + 1}
    PROVE  /\ Cardinality(T) = Cardinality(S) + 1
           /\ Nth(T, n + 1) = Cardinality(S) + 1
           /\ SameNth(T, S, n)
<1>1. IsFiniteSet(S)
  <2>1. IsFiniteSet(1..n)
    BY FS_Interval
  <2> QED
    BY <2>1, FS_Subset
<1>2. n + 1 \notin S
  OBVIOUS
<1>3. Cardinality(T) = Cardinality(S) + 1
  BY <1>1, <1>2, FS_AddElement
<1>4. {j \in T : j <= n + 1} = T
  <2>1. \A j \in T : j <= n + 1
    OBVIOUS
  <2> QED
    BY <2>1
<1>5. ASSUME NEW i \in 1..n PROVE {j \in T : j <= i} = {j \in S : j <= i}
  OBVIOUS
<1> QED
  BY <1>3, <1>4, <1>5 DEF Nth, SameNth

Comes(ev, s) == ev.kind \in {"Send", "NetRecv"} /\ ev.to = s
Goes(ev, s) == ev.kind = "Deliver" /\ ev.to = s

(* A delivery to an actor of a greater id, after the message at c came. *)
Overtakes(e, c, j, s) == c < j /\ e[j].kind = "Deliver" /\ Rank[e[j].to] > Rank[s]

Paired(came, went, e) ==
    \A d \in went : \E c \in came :
        c < d /\ Nth(came, c) = Nth(went, d) /\ e[c].id = e[d].id

ServedInTurn(came, went, e, s) ==
    \A c \in came : Nth(came, c) <= Cardinality(went) =>
        \E d \in went : /\ Nth(came, c) = Nth(went, d)
                        /\ \A j \in 1..Len(e) : Overtakes(e, c, j, s) => d < j

Waiting(came, went, e, q, s) ==
    \A c \in came : Nth(came, c) > Cardinality(went) =>
        /\ q[Nth(came, c) - Cardinality(went)].id = e[c].id
        /\ \A j \in 1..Len(e) : ~ Overtakes(e, c, j, s)

Queued(came, went, q) ==
    /\ IsSeq(q) /\ Cardinality(came) = Cardinality(went) + Len(q)
    /\ \A k \in 1..Len(q) : \E c \in came : Nth(came, c) = Cardinality(went) + k

Line(came, went, e, q, s) ==
    /\ Paired(came, went, e) /\ ServedInTurn(came, went, e, s)
    /\ Waiting(came, went, e, q, s) /\ Queued(came, went, q)

(* The events e and the inbox q of s. *)
Orderly(e, q, s) == Line(Incoming(e, s), Served(e, s), e, q, s)

LEMMA OrderlyGives ==
    ASSUME NEW e, IsSeq(e), NEW q, NEW s, Orderly(e, q, s)
    PROVE  InOrder(e, s)
<1> DEFINE came == Incoming(e, s)
           went == Served(e, s)
<1>1. Len(e) \in Nat /\ DOMAIN e = 1..Len(e)
  BY SeqLen
<1>2. came \subseteq 1..Len(e) /\ went \subseteq 1..Len(e)
  BY <1>1 DEF Incoming, Served
<1> HIDE DEF came, went
<1>3. Line(came, went, e, q, s)
  BY DEF Orderly, came, went
<1>4. ASSUME NEW c \in came, NEW j \in 1..Len(e), Overtakes(e, c, j, s)
      PROVE  \E d \in went : d < j /\ Nth(came, c) = Nth(went, d)
  <2>1. Nth(came, c) \in Nat /\ Cardinality(went) \in Nat
    BY <1>1, <1>2, NthUpTo
  <2>2. ~ (Nth(came, c) > Cardinality(went))
    BY <1>3, <1>4 DEF Line, Waiting
  <2>3. Nth(came, c) <= Cardinality(went)
    BY <2>1, <2>2
  <2> QED
    BY <1>3, <1>4, <2>3 DEF Line, ServedInTurn
<1>5. Paired(came, went, e)
  BY <1>3 DEF Line
<1> QED
  BY <1>1, <1>4, <1>5 DEF InOrder, Paired, Overtakes, came, went

(* Events after those of e. *)
Extends(f, e, n) ==
    /\ IsSeq(e) /\ IsSeq(f) /\ n \in Nat /\ Len(f) = Len(e) + n
    /\ \A i \in 1..Len(e) : f[i] = e[i]

LEMMA ExtendsSets ==
    ASSUME NEW e, NEW f, NEW n, Extends(f, e, n), NEW s
    PROVE  /\ Len(e) \in Nat /\ Len(f) \in Nat /\ Len(f) = Len(e) + n /\ n \in Nat
           /\ Incoming(e, s) = {i \in 1..Len(e) : Comes(f[i], s)}
           /\ Served(e, s) = {i \in 1..Len(e) : Goes(f[i], s)}
           /\ Incoming(f, s) = {i \in 1..Len(f) : Comes(f[i], s)}
           /\ Served(f, s) = {i \in 1..Len(f) : Goes(f[i], s)}
<1>1. /\ Len(e) \in Nat /\ DOMAIN e = 1..Len(e)
      /\ Len(f) \in Nat /\ DOMAIN f = 1..Len(f)
  BY SeqLen DEF Extends
<1>2. \A i \in 1..Len(e) : f[i] = e[i]
  BY DEF Extends
<1>3. Len(f) = Len(e) + n /\ n \in Nat
  BY DEF Extends
<1>4. Incoming(e, s) = {i \in 1..Len(e) : Comes(f[i], s)}
  BY <1>1, <1>2 DEF Incoming, Comes
<1>5. Served(e, s) = {i \in 1..Len(e) : Goes(f[i], s)}
  BY <1>1, <1>2 DEF Served, Goes
<1>6. Incoming(f, s) = {i \in 1..Len(f) : Comes(f[i], s)}
  BY <1>1 DEF Incoming, Comes
<1>7. Served(f, s) = {i \in 1..Len(f) : Goes(f[i], s)}
  BY <1>1 DEF Served, Goes
<1> QED
  BY <1>1, <1>3, <1>4, <1>5, <1>6, <1>7

(* What neither reaches s nor is served by it, nor overtakes a message. *)
Passes(ev, q, s) ==
    /\ ~ Comes(ev, s) /\ ~ Goes(ev, s)
    /\ ev.kind = "Deliver" => ~ (Rank[ev.to] > Rank[s]) \/ q = <<>>

LEMMA OrderlyPasses ==
    ASSUME NEW e, NEW f, NEW n, Extends(f, e, n), NEW q, NEW s, Orderly(e, q, s),
           \A i \in 1..Len(f) : i > Len(e) => Passes(f[i], q, s)
    PROVE  Orderly(f, q, s)
<1> DEFINE came == Incoming(e, s)
           went == Served(e, s)
           m == Cardinality(went)
<1>1. /\ Len(e) \in Nat /\ Len(f) \in Nat /\ Len(f) = Len(e) + n /\ n \in Nat
      /\ came = {i \in 1..Len(e) : Comes(f[i], s)}
      /\ went = {i \in 1..Len(e) : Goes(f[i], s)}
      /\ Incoming(f, s) = {i \in 1..Len(f) : Comes(f[i], s)}
      /\ Served(f, s) = {i \in 1..Len(f) : Goes(f[i], s)}
  BY ExtendsSets
<1>2. Incoming(f, s) = came
  BY <1>1 DEF Passes
<1>3. Served(f, s) = went
  BY <1>1 DEF Passes
<1>4. came \subseteq 1..Len(e) /\ went \subseteq 1..Len(e)
  BY <1>1
<1>5. Line(came, went, e, q, s)
  BY DEF Orderly
<1> HIDE DEF came, went
<1>6. /\ Cardinality(came) \in Nat /\ m \in Nat
      /\ \A c : Nth(came, c) \in Nat /\ Nth(came, c) <= Cardinality(came)
  BY <1>1, <1>4, NthUpTo
<1> HIDE DEF m
<1>7. \A i \in 1..Len(e) : f[i] = e[i]
  BY DEF Extends
<1>8. Paired(came, went, f)
  <2>1. \A i \in came \cup went : f[i] = e[i]
    BY <1>4, <1>7
  <2> QED
    BY <1>5, <2>1 DEF Line, Paired
<1>9. ASSUME NEW c \in came, Nth(came, c) <= m
      PROVE  \E d \in went : /\ Nth(came, c) = Nth(went, d)
                             /\ \A j \in 1..Len(f) : Overtakes(f, c, j, s) => d < j
  <2>1. PICK d \in went : /\ Nth(came, c) = Nth(went, d)
                          /\ \A j \in 1..Len(e) : Overtakes(e, c, j, s) => d < j
    BY <1>5, <1>9 DEF Line, ServedInTurn, m
  <2>2. ASSUME NEW j \in 1..Len(f), Overtakes(f, c, j, s) PROVE d < j
    <3>1. CASE j \in 1..Len(e)
      BY <1>7, <2>1, <2>2, <3>1 DEF Overtakes
    <3>2. CASE j > Len(e)
      BY <1>1, <1>4, <3>2
    <3> QED
      BY <1>1, <3>1, <3>2
  <2> QED
    BY <2>1, <2>2
<1>10. ASSUME NEW c \in came, Nth(came, c) > m
       PROVE  /\ q[Nth(came, c) - m].id = f[c].id
              /\ \A j \in 1..Len(f) : ~ Overtakes(f, c, j, s)
  <2>1. /\ q[Nth(came, c) - m].id = e[c].id
        /\ \A j \in 1..Len(e) : ~ Overtakes(e, c, j, s)
    BY <1>5, <1>10 DEF Line, Waiting, m
  <2>2. f[c] = e[c]
    BY <1>4, <1>7
  <2>3. q # <<>>
    <3>1. Cardinality(came) = m + Len(q)
      BY <1>5 DEF Line, Queued, m
    <3>2. Len(<<>>) = 0
      BY SeqOne
    <3> QED
      BY <1>6, <1>10, <3>1, <3>2
  <2>4. ASSUME NEW j \in 1..Len(f), Overtakes(f, c, j, s) PROVE FALSE
    <3>1. CASE j \in 1..Len(e)
      BY <1>7, <2>1, <2>4, <3>1 DEF Overtakes
    <3>2. CASE j > Len(e)
      BY <2>3, <2>4, <3>2 DEF Overtakes, Passes
    <3> QED
      BY <1>1, <3>1, <3>2
  <2> QED
    BY <2>1, <2>2, <2>4
<1>11. Line(came, went, f, q, s)
  BY <1>5, <1>8, <1>9, <1>10 DEF Line, ServedInTurn, Waiting, m
<1> QED
  BY <1>2, <1>3, <1>11 DEF Orderly

(* The next message for s. *)
LEMMA OrderlyComes ==
    ASSUME NEW e, NEW f, NEW n, n = 1, Extends(f, e, n), NEW q, NEW s, Orderly(e, q, s),
           NEW p, p = Append(q, [id |-> f[Len(f)].id, msg |-> f[Len(f)].msg]),
           Comes(f[Len(f)], s)
    PROVE  Orderly(f, p, s)
<1> DEFINE came == Incoming(e, s)
           went == Served(e, s)
           m == Cardinality(went)
           l == Len(e)
           new == came \cup {l + 1}
<1>1. /\ l \in Nat /\ Len(f) = l + 1
      /\ came = {i \in 1..l : Comes(f[i], s)}
      /\ went = {i \in 1..l : Goes(f[i], s)}
      /\ Incoming(f, s) = {i \in 1..Len(f) : Comes(f[i], s)}
      /\ Served(f, s) = {i \in 1..Len(f) : Goes(f[i], s)}
  BY ExtendsSets
<1>2. 1..(l + 1) = (1..l) \cup {l + 1}
  BY <1>1
<1>3. Incoming(f, s) = new
  BY <1>1, <1>2
<1>4. Served(f, s) = went
  <2>1. ~ Goes(f[l + 1], s)
    BY <1>1 DEF Comes, Goes
  <2> QED
    BY <1>1, <1>2, <2>1
<1>5. came \subseteq 1..l /\ went \subseteq 1..l
  BY <1>1
<1>6. Line(came, went, e, q, s)
  BY DEF Orderly
<1>7. \A i \in 1..l : f[i] = e[i]
  BY DEF Extends
<1>8. f[l + 1].kind # "Deliver"
  BY <1>1 DEF Comes
<1> HIDE DEF came, went
<1>9. /\ Cardinality(came) \in Nat /\ m \in Nat
      /\ \A c : Nth(came, c) \in Nat /\ Nth(came, c) <= Cardinality(came)
  BY <1>1, <1>5, NthUpTo
<1>10. /\ Cardinality(new) = Cardinality(came) + 1
       /\ Nth(new, l + 1) = Cardinality(came) + 1
       /\ \A i \in 1..l : Nth(new, i) = Nth(came, i)
  <2>1. l \in Nat /\ came \subseteq 1..l /\ new = came \cup {l + 1}
    BY <1>1, <1>5
  <2> HIDE DEF l, new
  <2>2. /\ Cardinality(new) = Cardinality(came) + 1
        /\ Nth(new, l + 1) = Cardinality(came) + 1 /\ SameNth(new, came, l)
    BY ONLY <2>1, NthMore
  <2> QED
    BY <2>2 DEF SameNth
<1>11. /\ IsSeq(q) /\ Cardinality(came) = m + Len(q)
       /\ \A k \in 1..Len(q) : \E c \in came : Nth(came, c) = m + k
  BY <1>6 DEF Line, Queued
<1>12. /\ IsSeq(p) /\ Len(q) \in Nat /\ Len(p) = Len(q) + 1
       /\ \A i \in 1..Len(q) : p[i] = q[i]
       /\ p[Len(q) + 1].id = f[l + 1].id
  BY <1>1, <1>11, SeqAppend
<1>13. \A c \in new : c \in came \/ c = l + 1
  OBVIOUS
<1>14. came \subseteq new /\ l + 1 \in new
  OBVIOUS
<1> HIDE DEF m, l, new
<1>15. Paired(new, went, f)
  <2>1. \A i \in came \cup went : f[i] = e[i] /\ i \in 1..l
    BY <1>5, <1>7
  <2> QED
    BY <1>6, <1>10, <1>14, <2>1 DEF Line, Paired
<1>16. ASSUME NEW c, NEW j \in 1..(l + 1), Overtakes(f, c, j, s)
       PROVE  j \in 1..l /\ Overtakes(e, c, j, s)
  <2>1. j # l + 1
    BY <1>8, <1>16 DEF Overtakes
  <2>2. j \in 1..l
    BY <1>1, <2>1
  <2> QED
    BY <1>7, <1>16, <2>2 DEF Overtakes
<1>17. ASSUME NEW c \in new, Nth(new, c) <= m
       PROVE  \E d \in went : /\ Nth(new, c) = Nth(went, d)
                              /\ \A j \in 1..(l + 1) : Overtakes(f, c, j, s) => d < j
  <2>1. c \in came
    BY <1>9, <1>10, <1>11, <1>12, <1>13, <1>17
  <2>2. Nth(new, c) = Nth(came, c)
    BY <1>5, <1>10, <2>1
  <2>3. PICK d \in went : /\ Nth(came, c) = Nth(went, d)
                          /\ \A j \in 1..l : Overtakes(e, c, j, s) => d < j
    BY <1>6, <1>17, <2>1, <2>2 DEF Line, ServedInTurn, m, l
  <2> QED
    BY <1>16, <2>2, <2>3
<1>18. ASSUME NEW c \in new, Nth(new, c) > m
       PROVE  /\ p[Nth(new, c) - m].id = f[c].id
              /\ \A j \in 1..(l + 1) : ~ Overtakes(f, c, j, s)
  <2>1. CASE c \in came
    <3>1. Nth(new, c) = Nth(came, c) /\ f[c] = e[c]
      BY <1>5, <1>7, <1>10, <2>1
    <3>2. /\ q[Nth(came, c) - m].id = e[c].id
          /\ \A j \in 1..l : ~ Overtakes(e, c, j, s)
      BY <1>6, <1>18, <2>1, <3>1 DEF Line, Waiting, m, l
    <3>3. Nth(came, c) - m \in 1..Len(q)
      BY <1>9, <1>11, <1>12, <1>18, <3>1
    <3> QED
      BY <1>12, <1>16, <3>1, <3>2, <3>3
  <2>2. CASE c = l + 1
    <3>1. Nth(new, c) - m = Len(q) + 1
      BY <1>9, <1>10, <1>11, <1>12, <2>2
    <3>2. \A j \in 1..(l + 1) : ~ Overtakes(f, c, j, s)
      BY <1>1, <2>2 DEF Overtakes
    <3> QED
      BY <1>12, <2>2, <3>1, <3>2
  <2> QED
    BY <1>13, <2>1, <2>2
<1>19. Queued(new, went, p)
  <2>1. Cardinality(new) = m + Len(p)
    BY <1>9, <1>10, <1>11, <1>12
  <2>2. ASSUME NEW k \in 1..Len(p) PROVE \E c \in new : Nth(new, c) = m + k
    <3>1. CASE k \in 1..Len(q)
      <4>1. PICK c \in came : Nth(came, c) = m + k
        BY <1>11, <3>1
      <4>2. c \in new /\ Nth(new, c) = m + k
        BY <1>5, <1>10, <1>14, <4>1
      <4> QED
        BY <4>2
    <3>2. CASE k = Len(q) + 1
      <4>1. Nth(new, l + 1) = m + k
        BY <1>9, <1>10, <1>11, <1>12, <3>2
      <4> QED
        BY <1>14, <4>1
    <3> QED
      BY <1>12, <3>1, <3>2
  <2> QED
    BY <1>12, <2>1, <2>2 DEF Queued, m
<1>20. ServedInTurn(new, went, f, s) /\ Waiting(new, went, f, p, s)
  BY <1>1, <1>17, <1>18 DEF ServedInTurn, Waiting, m, l
<1> QED
  BY <1>3, <1>4, <1>15, <1>19, <1>20 DEF Orderly, Line

LEMMA TailParts ==
    ASSUME NEW q, IsSeq(q), q # <<>>
    PROVE  /\ IsSeq(Tail(q)) /\ Len(q) \in Nat /\ Len(q) >= 1
           /\ Len(Tail(q)) = Len(q) - 1
           /\ \A i \in 1..Len(Tail(q)) : Tail(q)[i] = q[i + 1]
<1> DEFINE S == Range(q)
<1> HIDE DEF S
<1>1. q \in Seq(S)
  BY DEF IsSeq, S
<1>2. Len(q) \in Nat /\ Len(q) >= 1
  BY <1>1
<1>3. Len(Tail(q)) = Len(q) - 1 /\ \A i \in 1..Len(Tail(q)) : Tail(q)[i] = q[i + 1]
  BY <1>1
<1> QED
  BY <1>2, <1>3, SeqTail

(* The message at the front is served. *)
LEMMA OrderlyGoes ==
    ASSUME NEW e, NEW f, NEW n, n = 1, Extends(f, e, n), NEW q, q # <<>>,
           NEW s \in Services, Orderly(e, q, s),
           Goes(f[Len(f)], s), f[Len(f)].id = q[1].id
    PROVE  Orderly(f, Tail(q), s)
<1> DEFINE came == Incoming(e, s)
           went == Served(e, s)
           m == Cardinality(went)
           l == Len(e)
           new == went \cup {l + 1}
           p == Tail(q)
<1>1. /\ l \in Nat /\ Len(f) = l + 1
      /\ came = {i \in 1..l : Comes(f[i], s)}
      /\ went = {i \in 1..l : Goes(f[i], s)}
      /\ Incoming(f, s) = {i \in 1..Len(f) : Comes(f[i], s)}
      /\ Served(f, s) = {i \in 1..Len(f) : Goes(f[i], s)}
  BY ExtendsSets
<1>2. 1..(l + 1) = (1..l) \cup {l + 1}
  BY <1>1
<1>3. Served(f, s) = new
  BY <1>1, <1>2
<1>4. Incoming(f, s) = came
  <2>1. ~ Comes(f[l + 1], s)
    BY <1>1 DEF Comes, Goes
  <2> QED
    BY <1>1, <1>2, <2>1
<1>5. came \subseteq 1..l /\ went \subseteq 1..l
  BY <1>1
<1>6. Line(came, went, e, q, s)
  BY DEF Orderly
<1>7. \A i \in 1..l : f[i] = e[i]
  BY DEF Extends
<1>8. \A c : ~ Overtakes(f, c, l + 1, s)
  <2>1. f[l + 1].to = s
    BY <1>1 DEF Goes
  <2>2. s \in Services => ~ (Rank[s] > Rank[s])
    BY RankAssumption
  <2> QED
    BY <2>1, <2>2 DEF Overtakes
<1> HIDE DEF came, went
<1>9. /\ Cardinality(came) \in Nat /\ m \in Nat
      /\ \A c : Nth(came, c) \in Nat /\ Nth(came, c) <= Cardinality(came)
  BY <1>1, <1>5, NthUpTo
<1>10. /\ Cardinality(new) = m + 1
       /\ Nth(new, l + 1) = m + 1
       /\ \A i \in 1..l : Nth(new, i) = Nth(went, i)
  <2>1. l \in Nat /\ went \subseteq 1..l /\ new = went \cup {l + 1}
    BY <1>1, <1>5
  <2> HIDE DEF l, new
  <2>2. /\ Cardinality(new) = Cardinality(went) + 1
        /\ Nth(new, l + 1) = Cardinality(went) + 1 /\ SameNth(new, went, l)
    BY ONLY <2>1, NthMore
  <2> QED
    BY <2>2 DEF SameNth, m
<1>11. /\ IsSeq(q) /\ Cardinality(came) = m + Len(q)
       /\ \A k \in 1..Len(q) : \E c \in came : Nth(came, c) = m + k
  BY <1>6 DEF Line, Queued
<1>12. /\ IsSeq(p) /\ Len(q) \in Nat /\ Len(p) = Len(q) - 1 /\ Len(q) >= 1
       /\ \A i \in 1..Len(p) : p[i] = q[i + 1]
  BY <1>11, TailParts
<1>13. \A d \in new : d \in went \/ d = l + 1
  OBVIOUS
<1>14. went \subseteq new /\ l + 1 \in new
  OBVIOUS
<1>15. PICK b \in came : Nth(came, b) = m + 1
  BY <1>11, <1>12
<1>16. q[1].id = e[b].id /\ \A j \in 1..l : ~ Overtakes(e, b, j, s)
  <2>1. Nth(came, b) > m /\ Nth(came, b) - m = 1
    BY <1>9, <1>15
  <2> QED
    BY <1>6, <2>1 DEF Line, Waiting
<1>17. f[l + 1].id = q[1].id
  BY <1>1
<1> HIDE DEF m, l, new, p
<1>18. Paired(came, new, f)
  <2>1. \A i \in came \cup went : f[i] = e[i] /\ i \in 1..l
    BY <1>5, <1>7
  <2>2. b < l + 1 /\ Nth(came, b) = Nth(new, l + 1) /\ f[b].id = f[l + 1].id
    BY <1>1, <1>5, <1>10, <1>15, <1>16, <1>17, <2>1
  <2>3. ASSUME NEW d \in went
        PROVE  \E c \in came : c < d /\ Nth(came, c) = Nth(new, d) /\ f[c].id = f[d].id
    BY <1>6, <1>10, <2>1 DEF Line, Paired
  <2> QED
    BY <1>13, <2>2, <2>3 DEF Paired
<1>19. ASSUME NEW c, NEW j \in 1..(l + 1), Overtakes(f, c, j, s)
       PROVE  j \in 1..l /\ Overtakes(e, c, j, s)
  <2>1. j # l + 1
    BY <1>8, <1>19 DEF l
  <2>2. j \in 1..l
    BY <1>1, <2>1
  <2> QED
    BY <1>7, <1>19, <2>2 DEF Overtakes
<1>20. ASSUME NEW c \in came, Nth(came, c) <= m + 1
       PROVE  \E d \in new : /\ Nth(came, c) = Nth(new, d)
                             /\ \A j \in 1..(l + 1) : Overtakes(f, c, j, s) => d < j
  <2>1. CASE Nth(came, c) <= m
    <3>1. PICK d \in went : /\ Nth(came, c) = Nth(went, d)
                            /\ \A j \in 1..l : Overtakes(e, c, j, s) => d < j
      BY <1>6, <2>1 DEF Line, ServedInTurn, m, l
    <3>2. d \in new /\ Nth(new, d) = Nth(went, d)
      BY <1>5, <1>10, <1>14
    <3> QED
      BY <1>19, <3>1, <3>2
  <2>2. CASE Nth(came, c) > m
    <3>1. Nth(came, c) = Nth(new, l + 1)
      BY <1>9, <1>10, <1>20, <2>2
    <3>2. \A j \in 1..l : ~ Overtakes(e, c, j, s)
      BY <1>6, <2>2 DEF Line, Waiting, m, l
    <3> QED
      BY <1>14, <1>19, <3>1, <3>2
  <2> QED
    BY <1>9, <2>1, <2>2
<1>21. ASSUME NEW c \in came, Nth(came, c) > m + 1
       PROVE  /\ p[Nth(came, c) - (m + 1)].id = f[c].id
              /\ \A j \in 1..(l + 1) : ~ Overtakes(f, c, j, s)
  <2>1. Nth(came, c) > m
    BY <1>9, <1>21
  <2>2. /\ q[Nth(came, c) - m].id = e[c].id
        /\ \A j \in 1..l : ~ Overtakes(e, c, j, s)
    BY <1>6, <2>1 DEF Line, Waiting, m, l
  <2>3. /\ Nth(came, c) - (m + 1) \in 1..Len(p)
        /\ (Nth(came, c) - (m + 1)) + 1 = Nth(came, c) - m
    BY <1>9, <1>11, <1>12, <1>21
  <2>4. f[c] = e[c]
    BY <1>5, <1>7
  <2> QED
    BY <1>12, <1>19, <2>2, <2>3, <2>4
<1>22. Queued(came, new, p)
  <2>1. Cardinality(came) = (m + 1) + Len(p)
    BY <1>9, <1>11, <1>12
  <2>2. ASSUME NEW k \in 1..Len(p) PROVE \E c \in came : Nth(came, c) = (m + 1) + k
    <3>1. k + 1 \in 1..Len(q) /\ (m + 1) + k = m + (k + 1)
      BY <1>9, <1>12
    <3> QED
      BY <1>11, <3>1
  <2> QED
    BY <1>10, <1>12, <2>1, <2>2 DEF Queued
<1>23. ServedInTurn(came, new, f, s) /\ Waiting(came, new, f, p, s)
  BY <1>1, <1>10, <1>20, <1>21 DEF ServedInTurn, Waiting, l
<1> QED
  BY <1>3, <1>4, <1>18, <1>22, <1>23 DEF Orderly, Line, p, new

------------------------------------------------------------------------------
(***************************************************************************)
(* The order of deliveries of a node x that emitted e.                     *)
(***************************************************************************)
Ordered(e, x) == IsSeq(e) /\ \A s \in Services : Orderly(e, x.inbox[s], s)

(* Neither a delivery nor a message for one of the services. *)
Quiet(ev) ==
    /\ ev.kind # "Deliver"
    /\ ev.kind \in {"Send", "NetRecv"} => ev.to \notin Services

LEMMA OrderedQuiet ==
    ASSUME NEW e, NEW f, NEW n, Extends(f, e, n), NEW x, Ordered(e, x),
           NEW y, y.inbox = x.inbox,
           \A i \in 1..Len(f) : i > Len(e) => Quiet(f[i])
    PROVE  Ordered(f, y)
<1>1. ASSUME NEW s \in Services PROVE Orderly(f, y.inbox[s], s)
  <2>1. \A i \in 1..Len(f) : i > Len(e) => Passes(f[i], x.inbox[s], s)
    BY DEF Quiet, Passes, Comes, Goes
  <2>2. Orderly(e, x.inbox[s], s)
    BY DEF Ordered
  <2> QED
    BY <2>1, <2>2, OrderlyPasses
<1> QED
  BY <1>1 DEF Ordered, Extends

(* One more event. *)
Adds(f, e, ev) == Extends(f, e, 1) /\ f[Len(f)] = ev

LEMMA AddsLast ==
    ASSUME NEW e, NEW f, NEW ev, Adds(f, e, ev)
    PROVE  /\ \E n : n = 1 /\ Extends(f, e, n)
           /\ \A i \in 1..Len(f) : i > Len(e) => i = Len(f) /\ f[i] = ev
<1>1. IsSeq(e) /\ Len(f) = Len(e) + 1 /\ f[Len(f)] = ev
  BY DEF Adds, Extends
<1>2. Len(e) \in Nat
  BY <1>1, SeqLen
<1> QED
  BY <1>1, <1>2 DEF Adds

LEMMA OrderedAdds ==
    ASSUME NEW e, NEW f, NEW ev, Adds(f, e, ev), NEW x, Ordered(e, x),
           NEW y, y.inbox = x.inbox, Quiet(ev)
    PROVE  Ordered(f, y)
<1>1. PICK n : n = 1 /\ Extends(f, e, n)
  BY AddsLast
<1>2. \A i \in 1..Len(f) : i > Len(e) => Quiet(f[i])
  BY AddsLast
<1> QED
  BY <1>1, <1>2, OrderedQuiet

Lands(ev, x, y, t) ==
    /\ Comes(ev, t) /\ x.inbox = [s \in Services |-> x.inbox[s]]
    /\ y.inbox = [x.inbox EXCEPT ![t] = Append(@, [id |-> ev.id, msg |-> ev.msg])]

LEMMA OrderedComes ==
    ASSUME NEW e, NEW f, NEW ev, Adds(f, e, ev), NEW x, Ordered(e, x),
           NEW t \in Services, NEW y, Lands(ev, x, y, t)
    PROVE  Ordered(f, y)
<1>5. PICK n : n = 1 /\ Extends(f, e, n)
  BY AddsLast
<1>6. f[Len(f)] = ev
  BY DEF Adds
<1>7. IsSeq(f)
  BY <1>5 DEF Extends
<1> DEFINE p == Append(x.inbox[t], [id |-> f[Len(f)].id, msg |-> f[Len(f)].msg])
<1>1. y.inbox = [s \in Services |-> IF s = t THEN p ELSE x.inbox[s]]
  BY <1>6 DEF Lands
<1>2. p = Append(x.inbox[t], [id |-> f[Len(f)].id, msg |-> f[Len(f)].msg])
  OBVIOUS
<1> HIDE DEF p
<1>3. Orderly(f, p, t)
  <2>1. Orderly(e, x.inbox[t], t)
    BY DEF Ordered
  <2> QED
    BY <1>2, <1>5, <1>6, <2>1, OrderlyComes DEF Lands
<1>4. ASSUME NEW s \in Services, s # t PROVE Orderly(f, x.inbox[s], s)
  <2>1. Orderly(e, x.inbox[s], s)
    BY DEF Ordered
  <2>2. ASSUME NEW i \in 1..Len(f), i > Len(e) PROVE Passes(f[i], x.inbox[s], s)
    <3>1. f[i] = ev
      BY <2>2, AddsLast
    <3> QED
      BY <1>4, <3>1 DEF Passes, Comes, Goes, Lands
  <2> QED
    BY <1>5, <2>1, <2>2, OrderlyPasses
<1> QED
  BY <1>1, <1>3, <1>4, <1>7 DEF Ordered

(* The scheduler serves the actor of the least id. *)
LEMMA OrderedGoes ==
    ASSUME NEW e, NEW f, NEW ev, Adds(f, e, ev), NEW x, Ordered(e, x),
           x.inbox = [s \in Services |-> x.inbox[s]], NEW t \in Ready(x),
           \A s \in Ready(x) : Rank[t] <= Rank[s],
           Goes(ev, t), ev.id = Head(x.inbox[t]).id,
           NEW y, y.inbox = [x.inbox EXCEPT ![t] = Tail(@)]
    PROVE  Ordered(f, y)
<1>0. t \in Services /\ x.inbox[t] # <<>>
  BY DEF Ready
<1>5. PICK n : n = 1 /\ Extends(f, e, n)
  BY AddsLast
<1>6. f[Len(f)] = ev
  BY DEF Adds
<1>7. IsSeq(f)
  BY <1>5 DEF Extends
<1>1. y.inbox = [s \in Services |-> IF s = t THEN Tail(x.inbox[t]) ELSE x.inbox[s]]
  BY <1>0
<1>2. Orderly(f, Tail(x.inbox[t]), t)
  <2>1. Orderly(e, x.inbox[t], t)
    BY <1>0 DEF Ordered
  <2>2. IsSeq(x.inbox[t])
    BY <2>1 DEF Orderly, Line, Queued
  <2>3. f[Len(f)].id = x.inbox[t][1].id
    BY <1>0, <1>6, <2>2, SeqTail
  <2> QED
    BY <1>0, <1>5, <1>6, <2>1, <2>3, OrderlyGoes
<1>3. ASSUME NEW s \in Services, s # t PROVE Orderly(f, x.inbox[s], s)
  <2>1. Orderly(e, x.inbox[s], s)
    BY DEF Ordered
  <2>3. x.inbox[s] = <<>> \/ ~ (Rank[t] > Rank[s])
    <3>1. Rank[s] \in Nat /\ Rank[t] \in Nat
      BY <1>0, RankAssumption
    <3>2. x.inbox[s] # <<>> => Rank[t] <= Rank[s]
      BY DEF Ready
    <3> QED
      BY <3>1, <3>2
  <2>4. ASSUME NEW i \in 1..Len(f), i > Len(e) PROVE Passes(f[i], x.inbox[s], s)
    <3>1. f[i] = ev
      BY <2>4, AddsLast
    <3> QED
      BY <1>3, <2>3, <3>1 DEF Passes, Comes, Goes
  <2> QED
    BY <1>5, <2>1, <2>4, OrderlyPasses
<1> QED
  BY <1>1, <1>2, <1>3, <1>7 DEF Ordered

LEMMA ExtendsBehind ==
    ASSUME NEW p, IsSeq(p), NEW q, NEW g, NEW n, Extends(g, q, n)
    PROVE  /\ Extends(p \o g, p \o q, n)
           /\ Len(p \o g) = Len(p) + Len(g) /\ Len(p \o q) = Len(p) + Len(q)
           /\ \A i \in 1..Len(p \o g) : i > Len(p \o q) =>
                 /\ i - Len(p) \in 1..Len(g) /\ i - Len(p) > Len(q)
                 /\ (p \o g)[i] = g[i - Len(p)]
<1>1. IsSeq(g) /\ IsSeq(q) /\ n \in Nat /\ Len(g) = Len(q) + n
      /\ \A i \in 1..Len(q) : g[i] = q[i]
  BY DEF Extends
<1>2. /\ IsSeq(p \o g) /\ Len(p) \in Nat /\ Len(g) \in Nat /\ Len(p \o g) = Len(p) + Len(g)
      /\ \A i \in 1..Len(p) : (p \o g)[i] = p[i]
      /\ \A i \in 1..Len(p \o g) :
            i > Len(p) => i - Len(p) \in 1..Len(g) /\ (p \o g)[i] = g[i - Len(p)]
  BY <1>1, SeqConcat
<1>3. /\ IsSeq(p \o q) /\ Len(q) \in Nat /\ Len(p \o q) = Len(p) + Len(q)
      /\ \A i \in 1..Len(p) : (p \o q)[i] = p[i]
      /\ \A i \in 1..Len(p \o q) :
            i > Len(p) => i - Len(p) \in 1..Len(q) /\ (p \o q)[i] = q[i - Len(p)]
  BY <1>1, SeqConcat
<1>4. ASSUME NEW i \in 1..Len(p \o q) PROVE (p \o g)[i] = (p \o q)[i]
  <2>1. CASE i <= Len(p)
    <3>1. i \in 1..Len(p)
      BY <1>2, <1>3, <2>1
    <3> QED
      BY <1>2, <1>3, <3>1
  <2>2. CASE i > Len(p)
    <3>1. i \in 1..Len(p \o g)
      BY <1>1, <1>2, <1>3
    <3>2. (p \o g)[i] = g[i - Len(p)]
      BY <1>2, <2>2, <3>1
    <3>3. i - Len(p) \in 1..Len(q) /\ (p \o q)[i] = q[i - Len(p)]
      BY <1>3, <2>2
    <3> QED
      BY <1>1, <3>2, <3>3
  <2>3. i <= Len(p) \/ i > Len(p)
    BY <1>2, <1>3
  <2> QED
    BY <2>1, <2>2, <2>3
<1>5. Extends(p \o g, p \o q, n)
  BY <1>1, <1>2, <1>3, <1>4 DEF Extends
<1>6. ASSUME NEW i \in 1..Len(p \o g), i > Len(p \o q)
      PROVE  /\ i - Len(p) \in 1..Len(g) /\ i - Len(p) > Len(q)
             /\ (p \o g)[i] = g[i - Len(p)]
  BY <1>2, <1>3, <1>6
<1> QED
  BY <1>2, <1>3, <1>5, <1>6

LEMMA AppendAdds ==
    ASSUME NEW q, IsSeq(q), NEW ev
    PROVE  Adds(Append(q, ev), q, ev)
BY SeqAppend DEF Extends, Adds

LEMMA OneBehind ==
    ASSUME NEW p, IsSeq(p), NEW q, NEW g, NEW ev, Adds(g, q, ev)
    PROVE  Adds(p \o g, p \o q, ev)
<1>1. PICK n : n = 1 /\ Extends(g, q, n)
  BY AddsLast
<1>2. /\ Extends(p \o g, p \o q, n)
      /\ Len(p \o g) = Len(p) + Len(g) /\ Len(p \o q) = Len(p) + Len(q)
      /\ \A i \in 1..Len(p \o g) : i > Len(p \o q) =>
            /\ i - Len(p) \in 1..Len(g) /\ i - Len(p) > Len(q)
            /\ (p \o g)[i] = g[i - Len(p)]
  BY <1>1, ExtendsBehind
<1>3. Len(p) \in Nat /\ Len(q) \in Nat /\ Len(g) = Len(q) + 1
  BY <1>1, SeqLen DEF Extends
<1>4. Len(p \o g) \in 1..Len(p \o g) /\ Len(p \o g) > Len(p \o q)
      /\ Len(p \o g) - Len(p) = Len(g)
  BY <1>2, <1>3
<1>5. (p \o g)[Len(p \o g)] = g[Len(g)]
  BY <1>2, <1>4
<1> QED
  BY <1>1, <1>2, <1>5 DEF Adds

(* Dispatch, timers and bootstrap messages, behind whatever events p. *)
Keeping(cfg, p, acc) ==
    /\ Node(cfg, acc.sys) /\ IsSeq(acc.events) /\ Ordered(p \o acc.events, acc.sys)

LEMMA DispatchOrdered ==
    ASSUME NEW cfg, Host(cfg), NEW p, IsSeq(p), NEW acc, Keeping(cfg, p, acc),
           NEW from, NEW out
    PROVE  Keeping(cfg, p, dispatch_outgoing(acc, cfg, from, out))
<1> DEFINE b == dispatch_outgoing(acc, cfg, from, out)
           x == acc.sys
           ev == Emission(cfg, x, from, out)
           id == next_deterministic_msg_id(cfg, x)
           q == acc.events
           g == b.events
           y == b.sys
<1>1. Node(cfg, y) /\ Dispatched(cfg, x, out, y) /\ g = Append(q, ev)
  BY Dispatch DEF Keeping, Host
<1>2. IsSeq(q) /\ Ordered(p \o q, x) /\ x.inbox = [s \in Services |-> x.inbox[s]]
  BY DEF Keeping, Node
<1>3. /\ out.node = cfg.node =>
            /\ ev.kind = "Send" /\ ev.to = out.service /\ ev.id = id /\ ev.msg = out.msg
      /\ out.node # cfg.node => ev.kind = "NetSend"
  BY DEF Emission, SendEvent, NetSendEvent
<1>4. y.inbox = IF out.node = cfg.node
                THEN [x.inbox EXCEPT ![out.service] = Append(@, [id |-> id, msg |-> out.msg])]
                ELSE x.inbox
  BY <1>1 DEF Dispatched
<1> HIDE DEF b, x, ev, id, q, g, y
<1>5. Adds(g, q, ev) /\ IsSeq(g)
  BY <1>1, <1>2, AppendAdds, SeqAppend
<1>6. Adds(p \o g, p \o q, ev)
  BY <1>5, OneBehind
<1>8. CASE out.node = cfg.node /\ out.service \in Services
  <2> DEFINE to == out.service
             msg == out.msg
  <2>1. /\ y.inbox = [x.inbox EXCEPT ![to] = Append(@, [id |-> id, msg |-> msg])]
        /\ Comes(ev, to) /\ ev.id = id /\ ev.msg = msg /\ to \in Services
    BY <1>3, <1>4, <1>8 DEF Comes
  <2> HIDE DEF to, msg
  <2>2. to \in Services /\ Lands(ev, x, y, to)
    BY <1>2, <2>1 DEF Lands
  <2>3. Ordered(p \o g, y)
    BY <1>2, <1>6, <2>2, OrderedComes
  <2> QED
    BY <1>1, <1>5, <2>3 DEF Keeping, b, g, y
<1>9. CASE ~ (out.node = cfg.node /\ out.service \in Services)
  <2>1. y.inbox = x.inbox
    <3>1. out.service \notin Services =>
             [x.inbox EXCEPT ![out.service] = Append(@, [id |-> id, msg |-> out.msg])] = x.inbox
      BY <1>2
    <3> QED
      BY <1>4, <1>9, <3>1
  <2>2. Quiet(ev)
    BY <1>3, <1>9 DEF Quiet
  <2>3. Ordered(p \o g, y)
    BY <1>2, <1>6, <2>1, <2>2, OrderedAdds
  <2> QED
    BY <1>1, <1>5, <2>3 DEF Keeping, b, g, y
<1> QED
  BY <1>8, <1>9

LEMMA EmitOneOrdered ==
    ASSUME NEW cfg, Host(cfg), NEW p, IsSeq(p), NEW acc, Keeping(cfg, p, acc),
           NEW s, NEW out, out.delay \in Nat, NEW now \in Nat
    PROVE  Keeping(cfg, p, EmitOne(acc, cfg, s, out, now))
<1> DEFINE b == EmitOne(acc, cfg, s, out, now)
<1>1. CASE out.delay > 0
  <2> DEFINE timer == [id |-> next_deterministic_timer_id(cfg, acc.sys),
                       due_step |-> now + out.delay, from |-> s, out |-> out]
  <2>1. /\ Node(cfg, b.sys) /\ b.sys.timers = acc.sys.timers \cup {timer}
        /\ b.sys.inbox = acc.sys.inbox /\ b.events = acc.events
    <3>1. cfg.node \in Nat /\ Node(cfg, acc.sys) /\ out.delay \in Nat /\ now \in Nat
      BY DEF Keeping, Host
    <3> QED
      BY ONLY <1>1, <3>1, SetTimer
  <2> HIDE DEF b
  <2>2. Keeping(cfg, p, b)
    BY <2>1 DEF Keeping, Ordered
  <2> QED
    BY <2>2 DEF b
<1>2. CASE ~ (out.delay > 0)
  <2>1. b = dispatch_outgoing(acc, cfg, s, out)
    BY <1>2 DEF EmitOne
  <2> QED
    BY <2>1, DispatchOrdered
<1> QED
  BY <1>1, <1>2

LEMMA EmitAllOrdered ==
    ASSUME NEW cfg, Host(cfg), NEW p, IsSeq(p), NEW acc, Keeping(cfg, p, acc),
           NEW s, NEW outbox, IsSeq(outbox),
           \A i \in 1..Len(outbox) : outbox[i].delay \in Nat, NEW now \in Nat
    PROVE  Keeping(cfg, p, EmitAll(acc, cfg, s, outbox, now))
<1> DEFINE n == Len(outbox)
<1>1. n \in Nat /\ DOMAIN outbox = 1..n
  BY SeqLen
<1>2. \A i \in 1..n : outbox[i].delay \in Nat
  OBVIOUS
<1> HIDE DEF n
<1>3. PICK run : EmitsBy(run, n, acc, cfg, s, outbox, now)
  BY <1>1, EmitRun
<1> DEFINE T == {k \in Nat : k <= n => Keeping(cfg, p, run[k])}
<1>4. 0 \in T
  BY <1>3 DEF EmitsBy
<1>5. ASSUME NEW k \in T, k + 1 <= n PROVE Keeping(cfg, p, run[k + 1])
  <2>1. k \in Nat /\ Keeping(cfg, p, run[k]) /\ k + 1 \in 1..n /\ (k + 1) - 1 = k
    BY <1>1, <1>5
  <2>2. run[k + 1] = EmitOne(run[k], cfg, s, outbox[k + 1], now)
    BY <1>3, <2>1 DEF EmitsBy
  <2>3. outbox[k + 1].delay \in Nat
    BY <1>2, <2>1
  <2> QED
    BY <2>1, <2>2, <2>3, EmitOneOrdered
<1>6. \A k \in T \cap Nat : k + 1 \in T
  BY <1>5
<1> HIDE DEF T
<1>7. n \in T
  BY <1>1, <1>4, <1>6, Induction
<1>8. Keeping(cfg, p, run[n])
  BY <1>1, <1>7 DEF T
<1> QED
  BY <1>3, <1>8 DEF EmitsBy

LEMMA FireOneOrdered ==
    ASSUME NEW cfg, Host(cfg), NEW p, IsSeq(p), NEW acc, Keeping(cfg, p, acc), NEW t
    PROVE  Keeping(cfg, p, FireOne(acc, cfg, t))
<1> DEFINE x == Without(acc.sys, t)
           ev == TimerFiredEvent(cfg, t)
           g == Append(acc.events, ev)
           a == [sys |-> x, events |-> g]
<1>1. FireOne(acc, cfg, t) = dispatch_outgoing(a, cfg, t.from, t.out)
  BY WithoutNode DEF FireOne, Keeping
<1>2. Node(cfg, x) /\ x.inbox = acc.sys.inbox
  BY WithoutNode DEF Keeping, Without
<1>3. Quiet(ev)
  BY DEF TimerFiredEvent, Quiet
<1>4. IsSeq(acc.events) /\ Ordered(p \o acc.events, acc.sys)
  BY DEF Keeping
<1> HIDE DEF x, ev
<1>5. IsSeq(g) /\ Adds(g, acc.events, ev)
  BY <1>4, SeqAppend, AppendAdds
<1>6. a.sys = x /\ a.events = g
  OBVIOUS
<1> HIDE DEF g, a
<1>7. Adds(p \o g, p \o acc.events, ev)
  BY <1>5, OneBehind
<1>8. Ordered(p \o g, x)
  BY <1>2, <1>3, <1>4, <1>7, OrderedAdds
<1>9. Keeping(cfg, p, a)
  BY <1>2, <1>5, <1>6, <1>8 DEF Keeping
<1> QED
  BY <1>1, <1>9, DispatchOrdered

LEMMA FireDueOrdered ==
    ASSUME NEW cfg, Host(cfg), NEW p, IsSeq(p), NEW x, Node(cfg, x), Ordered(p, x), NEW now
    PROVE  Keeping(cfg, p, FireDue(x, cfg, now))
<1>1. PICK f, n, q : Firing(f, n, q, x, cfg) /\ FireDue(x, cfg, now) = f[n]
  BY FireDueRun
<1>2. n \in Nat
  BY <1>1 DEF Firing
<1> DEFINE T == {k \in Nat : k <= n => Keeping(cfg, p, f[k])}
<1>3. 0 \in T
  <2>1. f[0].sys = x /\ f[0].events = <<>>
    BY <1>1 DEF Firing
  <2>2. IsSeq(<<>>) /\ p \o <<>> = p
    BY SeqOne, ConcatNothing
  <2> QED
    BY <2>1, <2>2 DEF Keeping
<1>4. ASSUME NEW k \in T, k + 1 <= n PROVE Keeping(cfg, p, f[k + 1])
  <2>1. k \in Nat /\ Keeping(cfg, p, f[k]) /\ k + 1 \in 1..n /\ (k + 1) - 1 = k
    BY <1>2, <1>4
  <2>2. f[k + 1] = FireOne(f[k], cfg, q[k + 1])
    BY <1>1, <2>1 DEF Firing
  <2> QED
    BY <2>1, <2>2, FireOneOrdered
<1>5. \A k \in T \cap Nat : k + 1 \in T
  BY <1>4
<1> HIDE DEF T
<1>6. n \in T
  BY <1>2, <1>3, <1>5, Induction
<1> QED
  BY <1>1, <1>2, <1>6 DEF T

LEMMA QuietBehind ==
    ASSUME NEW p, NEW q, IsSeq(q), NEW x, Ordered(p, x), NEW y, y.inbox = x.inbox,
           \A i \in 1..Len(q) : Quiet(q[i])
    PROVE  Ordered(p \o q, y)
<1>1. IsSeq(p)
  BY DEF Ordered
<1>2. /\ IsSeq(p \o q) /\ Len(p) \in Nat /\ Len(q) \in Nat
      /\ Len(p \o q) = Len(p) + Len(q)
      /\ \A i \in 1..Len(p) : (p \o q)[i] = p[i]
      /\ \A i \in 1..Len(p \o q) :
            i > Len(p) => i - Len(p) \in 1..Len(q) /\ (p \o q)[i] = q[i - Len(p)]
  BY <1>1, SeqConcat
<1>3. Extends(p \o q, p, Len(q))
  BY <1>1, <1>2 DEF Extends
<1>4. \A i \in 1..Len(p \o q) : i > Len(p) => Quiet((p \o q)[i])
  BY <1>2
<1> QED
  BY <1>3, <1>4, OrderedQuiet

LEMMA ReceivedOrdered ==
    ASSUME NEW cfg, NEW p, NEW x, Node(cfg, x), Ordered(p, x), NEW got, IsSeq(got)
    PROVE  Ordered(p \o [i \in DOMAIN got |-> NetRecvEvent(cfg, got[i])], ReceiveAll(x, got))
<1> DEFINE n == Len(got)
           Sofar(k) == [i \in 1..k |-> NetRecvEvent(cfg, got[i])]
<1>1. n \in Nat /\ DOMAIN got = 1..n
  BY SeqLen
<1> HIDE DEF n
<1>2. PICK f : ReceivesBy(f, n, x, got)
  BY <1>1, ReceiveRun
<1>3. \A k \in 0..n : Node(cfg, f[k])
  BY <1>1, <1>2, ReceivingNode
<1> DEFINE T == {k \in Nat : k <= n => Ordered(p \o Sofar(k), f[k])}
<1>4. 0 \in T
  <2>1. Sofar(0) = <<>>
    OBVIOUS
  <2>2. p \o <<>> = p
    BY ConcatNothing DEF Ordered
  <2> QED
    BY <1>2, <2>1, <2>2 DEF ReceivesBy
<1>5. ASSUME NEW k \in T, k + 1 <= n PROVE Ordered(p \o Sofar(k + 1), f[k + 1])
  <2> DEFINE env == got[k + 1]
             ev == NetRecvEvent(cfg, env)
             e == Sofar(k)
             g == Sofar(k + 1)
             y == f[k]
             z == f[k + 1]
  <2>1. k \in Nat /\ Ordered(p \o e, y) /\ k \in 0..n /\ k + 1 \in 1..n /\ (k + 1) - 1 = k
    BY <1>1, <1>5
  <2>2. z = Receive(y, env)
    BY <1>2, <2>1 DEF ReceivesBy
  <2>3. Node(cfg, y) /\ y.inbox = [s \in Services |-> y.inbox[s]]
    BY <1>3, <2>1 DEF Node
  <2>4. Adds(g, e, ev)
    <3>1. IsSeq(e) /\ Len(e) = k
      BY <2>1, SeqMade
    <3>2. IsSeq(g) /\ Len(g) = k + 1
      BY <2>1, SeqMade
    <3>3. (\A i \in 1..k : g[i] = e[i]) /\ g[k + 1] = ev
      BY <2>1
    <3> HIDE DEF e, g, ev
    <3> QED
      BY <3>1, <3>2, <3>3 DEF Adds, Extends
  <2>5. ev.kind = "NetRecv" /\ ev.to = env.to /\ ev.id = env.id /\ ev.msg = env.msg
    BY DEF NetRecvEvent
  <2> HIDE DEF ev, e, g, y, z
  <2>6. Adds(p \o g, p \o e, ev)
    <3>1. IsSeq(p)
      BY DEF Ordered
    <3> QED
      BY <2>4, <3>1, OneBehind
  <2>7. CASE env.to \in Services
    <3> DEFINE to == env.to
               id == env.id
               msg == env.msg
    <3>1. to \in Services /\ z = push(y, to, id, msg)
          /\ Comes(ev, to) /\ ev.id = id /\ ev.msg = msg
      BY <2>2, <2>5, <2>7 DEF Receive, Comes
    <3> HIDE DEF to, id, msg
    <3>2. push(y, to, id, msg)
             = [inbox |-> [y.inbox EXCEPT ![to] = Append(@, [id |-> id, msg |-> msg])],
                state |-> y.state, timers |-> y.timers,
                msg_counter |-> y.msg_counter, timer_counter |-> y.timer_counter,
                wire |-> y.wire]
      BY <2>3, PushNode
    <3>3. z.inbox = [y.inbox EXCEPT ![to] = Append(@, [id |-> id, msg |-> msg])]
      BY <3>1, <3>2
    <3> DEFINE a == p \o e
               b == p \o g
    <3>4. Ordered(a, y) /\ Adds(b, a, ev)
      BY <2>1, <2>6
    <3> HIDE DEF a, b
    <3>5. to \in Services /\ Lands(ev, y, z, to)
      BY <2>3, <3>1, <3>3 DEF Lands
    <3>6. Ordered(b, z)
      BY ONLY <3>4, <3>5, OrderedComes
    <3> QED
      BY <3>6 DEF b, g, z
  <2>8. CASE env.to \notin Services
    <3>1. z.inbox = y.inbox /\ Quiet(ev)
      BY <2>2, <2>5, <2>8 DEF Receive, Quiet
    <3>2. Ordered(p \o g, z)
      BY <2>1, <2>6, <3>1, OrderedAdds
    <3> QED
      BY <3>2 DEF g, z
  <2> QED
    BY <2>7, <2>8
<1>6. \A k \in T \cap Nat : k + 1 \in T
  BY <1>5
<1> HIDE DEF T
<1>7. n \in T
  BY <1>1, <1>4, <1>6, Induction
<1>8. Ordered(p \o Sofar(n), f[n])
  BY <1>1, <1>7 DEF T
<1>9. Sofar(n) = [i \in DOMAIN got |-> NetRecvEvent(cfg, got[i])] /\ f[n] = ReceiveAll(x, got)
  BY <1>1, <1>2 DEF ReceivesBy
<1> HIDE DEF Sofar
<1> QED
  BY <1>8, <1>9

LEMMA PreludeOrdered ==
    ASSUME NEW cfg, Host(cfg), NEW p, NEW x, Node(cfg, x), Ordered(p, x), NEW m \in Nat,
           NEW lost, IsFiniteSet(lost), NEW got, IsSeq(got)
    PROVE  LET pre == Prelude(x, cfg, m, lost, got)
           IN  IsSeq(pre.events) /\ Ordered(p \o pre.events, pre.sys)
<1> DEFINE drops == SetToSeq({DropEvent(cfg, env) : env \in lost})
           recvs == [i \in DOMAIN got |-> NetRecvEvent(cfg, got[i])]
           y == ReceiveAll(x, got)
           fired == FireDue(y, cfg, m)
           pre == Prelude(x, cfg, m, lost, got)
<1>1. IsSeq(p)
  BY DEF Ordered
<1>2. IsSeq(drops) /\ \A i \in 1..Len(drops) : Quiet(drops[i])
  <2>1. IsSeq(drops) /\ \A i \in 1..Len(drops) : \E env \in lost : drops[i] = DropEvent(cfg, env)
    BY DropEvents
  <2>2. \A env : Quiet(DropEvent(cfg, env))
    BY DEF Quiet, DropEvent
  <2> HIDE DEF drops
  <2> QED
    BY <2>1, <2>2
<1>3. IsSeq(recvs)
  <2>1. Len(got) \in Nat /\ DOMAIN got = 1..Len(got)
    BY SeqLen
  <2>2. recvs = [i \in 1..Len(got) |-> recvs[i]]
    BY <2>1
  <2> HIDE DEF recvs
  <2> QED
    BY <2>1, <2>2, SeqMade
<1>4. Node(cfg, y)
  <2>1. Len(got) \in Nat /\ DOMAIN got = 1..Len(got) /\ Len(got) \in 0..Len(got)
    BY SeqLen
  <2>2. PICK f : ReceivesBy(f, Len(got), x, got)
    BY <2>1, ReceiveRun
  <2>3. \A k \in 0..Len(got) : Node(cfg, f[k])
    BY <2>1, <2>2, ReceivingNode
  <2> QED
    BY <2>1, <2>2, <2>3 DEF ReceivesBy
<1>5. pre = [sys |-> fired.sys, events |-> (drops \o recvs) \o fired.events]
  BY DEF Prelude, drain_network
<1> HIDE DEF drops
<1>6. Ordered(p \o drops, x)
  BY <1>2, QuietBehind
<1>7. Ordered((p \o drops) \o recvs, y)
  BY <1>6, ReceivedOrdered
<1> HIDE DEF recvs, y, pre
<1>8. IsSeq((p \o drops) \o recvs)
  BY <1>7 DEF Ordered
<1>9. /\ IsSeq(fired.events)
      /\ Ordered(((p \o drops) \o recvs) \o fired.events, fired.sys)
  BY <1>4, <1>7, <1>8, FireDueOrdered DEF Keeping
<1> HIDE DEF fired
<1>10. /\ IsSeq(drops \o recvs) /\ IsSeq((drops \o recvs) \o fired.events)
       /\ ((p \o drops) \o recvs) \o fired.events = p \o ((drops \o recvs) \o fired.events)
  <2>0. Associates(p, drops, recvs)
    BY <1>1, <1>2, <1>3, SeqAssoc
  <2>1. IsSeq(drops \o recvs) /\ (p \o drops) \o recvs = p \o (drops \o recvs)
    BY <1>2, <1>3, <2>0, SeqConcat DEF Associates
  <2>2. (p \o (drops \o recvs)) \o fired.events = p \o ((drops \o recvs) \o fired.events)
    <3>1. Associates(p, drops \o recvs, fired.events)
      BY <1>1, <1>9, <2>1, SeqAssoc
    <3> QED
      BY <3>1 DEF Associates
  <2>3. IsSeq((drops \o recvs) \o fired.events)
    BY <1>9, <2>1, SeqConcat
  <2> QED
    BY <2>1, <2>2, <2>3
<1>11. pre.sys = fired.sys /\ pre.events = (drops \o recvs) \o fired.events
  BY <1>5
<1> QED
  BY <1>9, <1>10, <1>11 DEF pre

(* The front message is served: its Deliver event stands before the        *)
(* evidence and the messages of its handler.                               *)
LEMMA DeliverOrdered ==
    ASSUME NEW cfg, Host(cfg), NEW p, NEW x, Node(cfg, x), Ordered(p, x),
           NEW s \in Ready(x), \A t \in Ready(x) : Rank[s] <= Rank[t], NEW m \in Nat
    PROVE  LET r == Deliver(x, cfg, m, s)
               e == p \o <<DeliverEvent(cfg, s, r.id)>>
           IN  IsSeq(e) /\ IsSeq(r.events) /\ Ordered(e \o r.events, r.sys)
<1> DEFINE r == Deliver(x, cfg, m, s)
           ev == DeliverEvent(cfg, s, r.id)
           e == p \o <<ev>>
           h == Handled(x, cfg, s)
           out == Ran(x, cfg, s)
           sent == EmitAll(h, cfg, s, out.outbox, m)
<1>1. s \in Services /\ x.inbox[s] # <<>>
  BY DEF Ready
<1>2. /\ r.id = Head(x.inbox[s]).id /\ r.sys = sent.sys /\ r.events = sent.events
  BY <1>1, DeliverParts
<1>3. /\ Context(s, out) /\ Node(cfg, h.sys) /\ IsSeq(h.events)
      /\ \A i \in 1..Len(h.events) : h.events[i].kind \in Observations
  BY <1>1, HandledNode
<1>4. h.sys.inbox = [x.inbox EXCEPT ![s] = Tail(@)]
  BY DEF Handled, Popped
<1>5. Goes(ev, s) /\ ev.id = Head(x.inbox[s]).id
  BY <1>2 DEF DeliverEvent, Goes
<1>6. IsSeq(p) /\ e = Append(p, ev)
  BY AppendsOne DEF Ordered
<1>7. x.inbox = [t \in Services |-> x.inbox[t]]
  BY DEF Node
<1> HIDE DEF r, ev, e, h, out
<1>8. Adds(e, p, ev) /\ IsSeq(e)
  BY <1>6, AppendAdds, SeqAppend
<1>9. Ordered(e, h.sys)
  <2> DEFINE y == h.sys
  <2>1. y.inbox = [x.inbox EXCEPT ![s] = Tail(@)]
    BY <1>4
  <2> HIDE DEF y
  <2>2. Ordered(e, y)
    BY <1>5, <1>7, <1>8, <2>1, OrderedGoes
  <2> QED
    BY <2>2 DEF y
<1>10. Keeping(cfg, e, h)
  <2>1. \A i \in 1..Len(h.events) : Quiet(h.events[i])
    BY <1>3 DEF Observations, Quiet
  <2>2. Ordered(e \o h.events, h.sys)
    BY <1>3, <1>9, <2>1, QuietBehind
  <2> QED
    BY <1>3, <2>2 DEF Keeping
<1>11. Keeping(cfg, e, sent)
  <2>1. IsSeq(out.outbox) /\ \A i \in 1..Len(out.outbox) : out.outbox[i].delay \in Nat
    BY <1>3 DEF Context
  <2> QED
    BY <1>8, <1>10, <2>1, EmitAllOrdered
<1>12. IsSeq(r.events) /\ Ordered(e \o r.events, r.sys)
  BY <1>2, <1>11 DEF Keeping
<1> QED
  BY <1>8, <1>12 DEF r, ev, e

LEMMA IterationOrdered ==
    ASSUME NEW cfg, Host(cfg), NEW p, NEW x, Node(cfg, x), Ordered(p, x), NEW m \in Nat,
           NEW lost, IsFiniteSet(lost), NEW got, IsSeq(got)
    PROVE  LET ran == Iteration(x, cfg, m, lost, got)
           IN  ran.ok => Ordered(p \o ran.events, ran.sys)
<1> DEFINE pre == Prelude(x, cfg, m, lost, got)
           z == pre.sys
           before == pre.events
           ran == Iteration(x, cfg, m, lost, got)
<1>1. IsSeq(before) /\ Ordered(p \o before, z) /\ Node(cfg, z) /\ IsSeq(p)
  <2>1. Prepared(cfg, x, m, pre)
    BY PreludeNode
  <2>2. Node(cfg, z)
    BY <2>1 DEF Prepared
  <2>3. IsSeq(p)
    BY DEF Ordered
  <2> QED
    BY <2>2, <2>3, PreludeOrdered
<1> DEFINE s == choose_next_deterministic(z)
           r == Deliver(z, cfg, m, s)
           one == <<DeliverEvent(cfg, s, r.id)>>
<1>2. CASE Ready(z) = {}
  <2>1. ran = [ok |-> TRUE, sys |-> z, events |-> before]
    BY <1>2 DEF Iteration
  <2> HIDE DEF ran, z, before
  <2> QED
    BY <1>1, <2>1 DEF ran
<1>3. CASE Ready(z) # {}
  <2>1. ran.ok => ran.sys = r.sys /\ ran.events = (before \o one) \o r.events
    BY <1>3 DEF Iteration
  <2>2. s \in Ready(z) /\ \A t \in Ready(z) : Rank[s] <= Rank[t]
    BY <1>3, ChoiceIsReady
  <2> HIDE DEF pre, z, before, s, ran
  <2> DEFINE q == p \o before
  <2>3. Ordered(q, z)
    BY <1>1
  <2> HIDE DEF q
  <2>4. IsSeq(r.events) /\ Ordered((q \o one) \o r.events, r.sys)
    BY <1>1, <2>2, <2>3, DeliverOrdered
  <2>5. IsSeq(one)
    BY SeqOne
  <2> HIDE DEF r, one
  <2>6. (q \o one) \o r.events = p \o ((before \o one) \o r.events)
    <3>1. Associates(p, before, one)
      BY <1>1, <2>5, SeqAssoc
    <3>2. IsSeq(before \o one)
      BY <1>1, <2>5, SeqConcat
    <3>3. Associates(p, before \o one, r.events)
      BY <1>1, <2>4, <3>2, SeqAssoc
    <3> QED
      BY <3>1, <3>3 DEF Associates, q
  <2>7. ran.ok => Ordered(p \o ran.events, ran.sys)
    BY <2>1, <2>4, <2>6
  <2> QED
    BY <2>7 DEF ran
<1> QED
  BY <1>2, <1>3

(* The start-up. *)
Started(cfg, acc) == Booted(cfg, acc) /\ Ordered(acc.events, acc.sys)

LEMMA OrderlyNothing == \A s : Orderly(<<>>, <<>>, s)
<1> SUFFICES ASSUME NEW s PROVE Orderly(<<>>, <<>>, s)
  OBVIOUS
<1>1. IsSeq(<<>>) /\ Len(<<>>) = 0
  BY SeqOne
<1>2. Incoming(<<>>, s) = {} /\ Served(<<>>, s) = {}
  BY DEF Incoming, Served
<1>3. Cardinality({}) = 0
  BY FS_EmptySet
<1>4. Queued({}, {}, <<>>)
  <2>1. Cardinality({}) = Cardinality({}) + Len(<<>>)
    BY <1>1, <1>3
  <2>2. \A k \in 1..Len(<<>>) : FALSE
    BY <1>1
  <2> QED
    BY <1>1, <2>1, <2>2 DEF Queued
<1>5. Line({}, {}, <<>>, <<>>, s)
  BY <1>4 DEF Line, Paired, ServedInTurn, Waiting
<1> QED
  BY <1>2, <1>5 DEF Orderly

LEMMA SpawnedOrdered ==
    ASSUME NEW cfg, Host(cfg)
    PROVE  Started(cfg, Spawned(cfg))
<1> DEFINE x == build_actor_system
           q == Spawned(cfg).events
           head == <<SpawnEvent(cfg, System)>>
           more == [i \in DOMAIN Program.services |-> SpawnEvent(cfg, Program.services[i])]
           l == Len(Program.services)
<1>1. Booted(cfg, Spawned(cfg))
  BY SpawnedNode
<1>2. Spawned(cfg).sys = x /\ q = head \o more /\ x.inbox = [s \in Services |-> <<>>]
  BY DEF Spawned, build_actor_system
<1>3. Ordered(<<>>, x)
  <2>1. \A s \in Services : x.inbox[s] = <<>>
    BY <1>2
  <2> QED
    BY <2>1, OrderlyNothing, SeqOne DEF Ordered
<1>4. l \in Nat /\ DOMAIN Program.services = 1..l
  BY TypesAssumption
<1>5. IsSeq(head) /\ Len(head) = 1 /\ Quiet(head[1])
  <2>1. Quiet(SpawnEvent(cfg, System))
    BY DEF SpawnEvent, Quiet
  <2> QED
    BY <2>1, SeqOne
<1>6. more = [i \in 1..l |-> more[i]] /\ \A i \in 1..l : Quiet(more[i])
  BY <1>4 DEF SpawnEvent, Quiet
<1> HIDE DEF x, head, more, l
<1>7. IsSeq(more) /\ Len(more) = l
  BY <1>4, <1>6, SeqMade
<1>8. Ordered(head, x)
  <2>1. \A i \in 1..Len(head) : Quiet(head[i])
    BY <1>5
  <2>2. Ordered(<<>> \o head, x)
    BY <1>3, <1>5, <2>1, QuietBehind
  <2> QED
    BY <1>5, <2>2, ConcatNothing
<1>9. Ordered(head \o more, x)
  BY <1>6, <1>7, <1>8, QuietBehind
<1> QED
  BY <1>1, <1>2, <1>9 DEF Started

LEMMA BootOneOrdered ==
    ASSUME NEW cfg, Host(cfg), NEW acc, Started(cfg, acc), NEW idx
    PROVE  Started(cfg, BootOne(acc, cfg, idx))
<1> DEFINE x == acc.sys
           id == next_deterministic_msg_id(cfg, x)
           msg == BootMessage(cfg, id, idx)
           z == [inbox |-> x.inbox, state |-> x.state, timers |-> x.timers,
                 msg_counter |-> x.msg_counter + 1,
                 timer_counter |-> x.timer_counter, wire |-> x.wire]
           t == entry_service
           ev == SendEvent(System, t, id, msg)
           b == BootOne(acc, cfg, idx)
           q == acc.events
<1>1. Booted(cfg, acc) /\ Ordered(q, x) /\ Node(cfg, x) /\ cfg.node \in Nat
      /\ x.inbox = [s \in Services |-> x.inbox[s]] /\ IsSeq(q)
  BY DEF Started, Booted, Host, Node
<1>2. Booted(cfg, b)
  BY <1>1, BootOneNode
<1>3. [x EXCEPT !.msg_counter = @ + 1] = z
  <2> HIDE DEF x
  <2>1. [x EXCEPT !.msg_counter = x.msg_counter + 1] = z
    BY <1>1, CounterSet
  <2> QED
    BY <2>1
<1>4. b = [sys |-> push(z, t, id, msg), events |-> Append(q, ev)]
  BY <1>3 DEF BootOne
<1>5. Node(cfg, z) /\ z.inbox = x.inbox
  BY <1>1, CountedNode DEF Node
<1>6. Comes(ev, t) /\ ev.id = id /\ ev.msg = msg /\ t \in Services
  BY EntryService DEF SendEvent, Comes
<1> HIDE DEF x, id, msg, z, t, ev, b, q
<1>7. push(z, t, id, msg)
         = [inbox |-> [z.inbox EXCEPT ![t] = Append(@, [id |-> id, msg |-> msg])],
            state |-> z.state, timers |-> z.timers,
            msg_counter |-> z.msg_counter, timer_counter |-> z.timer_counter,
            wire |-> z.wire]
  BY <1>5, PushNode
<1> DEFINE y == b.sys
           g == b.events
<1>8. y = push(z, t, id, msg) /\ g = Append(q, ev)
  BY <1>4
<1> HIDE DEF y, g
<1>9. y.inbox = [z.inbox EXCEPT ![t] = Append(@, [id |-> id, msg |-> msg])]
  BY <1>7, <1>8
<1>10. y.inbox = [x.inbox EXCEPT ![t] = Append(@, [id |-> id, msg |-> msg])]
  <2>1. z.inbox = x.inbox
    BY <1>5
  <2> QED
    BY ONLY <2>1, <1>9
<1>11. IsSeq(q) /\ Ordered(q, x) /\ x.inbox = [s \in Services |-> x.inbox[s]]
  BY <1>1
<1>12. Adds(g, q, ev)
  BY <1>8, <1>11, AppendAdds
<1>13. Lands(ev, x, y, t)
  BY <1>6, <1>10, <1>11 DEF Lands
<1>14. Ordered(g, y)
  BY <1>6, <1>11, <1>12, <1>13, OrderedComes
<1> QED
  BY <1>2, <1>14 DEF Started, b, y, g

LEMMA StartupOrdered ==
    ASSUME NEW cfg, Host(cfg), Boots(cfg) \in Nat
    PROVE  Ordered(Startup(cfg).events, Startup(cfg).sys)
<1> DEFINE n == Boots(cfg)
           q == [i \in 1..n |-> i]
<1>1. PICK f : BootsBy(f, n, Spawned(cfg), cfg, q) /\ Startup(cfg) = f[n]
  BY StartupRun
<1> HIDE DEF n, q
<1>2. n \in Nat
  BY DEF n
<1> DEFINE T == {k \in Nat : k <= n => Started(cfg, f[k])}
<1>3. 0 \in T
  BY <1>1, SpawnedOrdered DEF BootsBy
<1>4. ASSUME NEW k \in T, k + 1 <= n PROVE Started(cfg, f[k + 1])
  <2>1. k \in Nat /\ Started(cfg, f[k]) /\ k + 1 \in 1..n /\ (k + 1) - 1 = k
    BY <1>2, <1>4
  <2>2. f[k + 1] = BootOne(f[k], cfg, q[k + 1])
    BY <1>1, <2>1 DEF BootsBy
  <2> QED
    BY <2>1, <2>2, BootOneOrdered
<1>5. \A k \in T \cap Nat : k + 1 \in T
  BY <1>4
<1> HIDE DEF T
<1>6. n \in T
  BY <1>2, <1>3, <1>5, Induction
<1>7. Started(cfg, f[n])
  BY <1>2, <1>6 DEF T
<1> QED
  BY <1>1, <1>7 DEF Started

(* The recorder's node and what it wrote, and the trace it leaves. *)
OrderInv ==
    /\ phase \in Recording => fate = "running"
    /\ phase = "record" => Ordered(trace, sys)
    /\ phase = "recorded" /\ fate = "whole" => \A s \in Services : InOrder(trace, s)

LEMMA OrderStep == TypeInv /\ OrderInv /\ [Next]_vars => OrderInv'
<1> SUFFICES ASSUME TypeInv, OrderInv, [Next]_vars PROVE OrderInv'
  OBVIOUS
<1>1. CASE Boot
  <2>1. phase' = "record" /\ sys' = Startup(RecCfg).sys /\ trace' = Startup(RecCfg).events
        /\ fate' = "running"
    BY <1>1 DEF Boot, OrderInv, Recording
  <2>2. Ordered(Startup(RecCfg).events, Startup(RecCfg).sys)
    BY Hosts, StartupOrdered
  <2> QED
    BY <2>1, <2>2 DEF OrderInv
<1>2. ASSUME NEW arrived \in Arrivals, NEW lost \in Losses(arrived),
             NEW got \in Orders(arrived, lost), Record(lost, got)
      PROVE  OrderInv'
  <2> DEFINE ran == Iteration(sys, RecCfg, step, lost, got)
  <2>1. phase = "record" /\ step \in Nat /\ Node(RecCfg, sys) /\ Ordered(trace, sys)
        /\ fate = "running"
    BY <1>2 DEF TypeInv, OrderInv, Recording, Record, Arrive
  <2>2. IsFiniteSet(lost) /\ IsSeq(got)
    BY ArrivalsSeq DEF TypeInv
  <2>3. ran.ok => Ordered(trace \o ran.events, ran.sys)
    BY <2>1, <2>2, Hosts, IterationOrdered
  <2>4. /\ sys' = ran.sys /\ trace' = trace \o ran.events
        /\ phase' = IF ran.ok THEN "record" ELSE "failed"
        /\ fate' = fate
    BY <1>2 DEF Record, Arrive
  <2> HIDE DEF ran
  <2> QED
    BY <2>1, <2>3, <2>4 DEF OrderInv
<1>3. CASE Stop
  <2>1. /\ phase' = "recorded" /\ trace' = trace /\ Ordered(trace, sys)
    BY <1>3 DEF Stop, Leave, OrderInv
  <2>2. \A s \in Services : InOrder(trace, s)
    BY <2>1, OrderlyGives DEF Ordered
  <2> QED
    BY <2>1, <2>2 DEF OrderInv, Recording
<1>4. CASE Fail \/ Kill
  <2>1. phase' = "recorded" /\ fate' \in {"failed", "killed"}
    BY <1>4 DEF Fail, Kill, Leave
  <2> QED
    BY <2>1 DEF OrderInv, Recording
<1>5. ASSUME NEW i \in DOMAIN trace, RemoveLine(i) \/ RepeatLine(i) \/ SwapLines(i)
      PROVE  OrderInv'
  <2>1. phase' = "recorded" /\ fate' = "edited"
    BY <1>5 DEF RemoveLine, RepeatLine, SwapLines, Edited
  <2> QED
    BY <2>1 DEF OrderInv, Recording
<1>6. CASE ReplayStart \/ ReplayNetRecv \/ ReplayFault \/ DrainedInbound
           \/ replay_fire_timer \/ ReplayDeliver \/ ReplayUnexpected \/ ReplayTorn
           \/ ReplayExhausted \/ ReplayEnd
  <2>1. phase' \notin Recording \cup {"recorded"}
    BY <1>6 DEF ReplayStart, ReplayNetRecv, ReplayFault, DrainedInbound, replay_fire_timer,
           ReplayDeliver, ReplayUnexpected, ReplayTorn, ReplayExhausted, ReplayEnd,
           Replaying, Reject, Verdict, NextIteration, Recording
  <2> QED
    BY <2>1 DEF OrderInv, Recording
<1>7. CASE UNCHANGED vars
  BY <1>7 DEF vars, OrderInv
<1> QED
  BY <1>1, <1>2, <1>3, <1>4, <1>5, <1>6, <1>7 DEF Next, Finished

(* Each actor takes its messages in the order in which they reached it,    *)
(* and only messages to actors of smaller ids are served before a message  *)
(* that has reached its inbox: choose_next_deterministic and the inboxes.  *)
THEOREM InboxesAreQueues == Spec => []DeliveredInOrder
<1>1. Init => OrderInv
  BY DEF Init, OrderInv, Recording
<1>2. OrderInv => DeliveredInOrder
  BY DEF OrderInv, DeliveredInOrder
<1> QED
  BY <1>1, <1>2, TypesHold, OrderStep, PTL DEF Spec

------------------------------------------------------------------------------
(***************************************************************************)
(* `tool verify' and a whole recording.                                    *)
(***************************************************************************)
LEMMA ArrivalsReleased ==
    ASSUME inbound \subseteq Inbound, Genuine(RecCfg.node, Inbound),
           NEW arrived \in Arrivals, NEW lost \in Losses(arrived),
           NEW got \in Orders(arrived, lost), Arrive(lost, got)
    PROVE  LET came == Inbound \ inbound
           IN  /\ Released(RecCfg, sys.wire, came \cup lost, got)
               /\ Come(came, lost, got) = Inbound \ inbound'
<1> DEFINE S == arrived \ lost
           n == Cardinality(S)
           came == Inbound \ inbound
           those == {got[i] : i \in 1..Len(got)}
<1>1. got \in [1..n -> S] /\ \A i, j \in 1..n : i # j => got[i] # got[j]
  BY DEF Orders, SetToSeqs
<1>2. IsSeq(got) /\ DOMAIN got = 1..Len(got)
  BY ArrivalsSeq, SeqLen
<1>3. arrived \subseteq inbound /\ lost \subseteq arrived
  BY DEF Arrivals, Losses
<1> HIDE DEF n
<1>4. 1..Len(got) = 1..n
  BY <1>1, <1>2
<1>5. \A i \in 1..Len(got) : got[i] \in inbound /\ got[i] \notin lost
  BY <1>1, <1>3, <1>4
<1>6. \A i, j \in 1..Len(got) : got[i] = got[j] => i = j
  BY <1>1, <1>4
<1>7. Range(got) = those
  BY <1>2 DEF Range
<1>8. those \subseteq inbound /\ lost \subseteq inbound
  BY <1>3, <1>5
<1>9. inbound' = inbound \ (lost \cup those)
  BY <1>7 DEF Arrive
<1>10. (came \cup lost) \cup those = Inbound \ inbound'
  BY <1>8, <1>9
<1>11. Genuine(RecCfg.node, (came \cup lost) \cup those)
  <2>1. (came \cup lost) \cup those \subseteq Inbound
    BY <1>8
  <2> QED
    BY <2>1, GenuineLess
<1>12. ASSUME NEW i \in 1..Len(got)
       PROVE  got[i] \notin came \cup lost /\ Answers(RecCfg, sys.wire, got[i].msg.prov[1])
  <2>1. Caused(got[i])
    BY <1>7 DEF Arrive
  <2> QED
    BY <1>5, <2>1 DEF Caused, Answers
<1> QED
  BY <1>2, <1>6, <1>10, <1>11, <1>12 DEF Released, Come

(* The recorder as far as it came, and the verdict on what it left. *)
AuditInv ==
    /\ phase \in Recording => fate = "running"
    /\ phase = "boot" => inbound = Inbound
    /\ phase = "record" => \E li : Audited(RecCfg, trace, sys, Inbound \ inbound, {}, li)
    /\ VerifierAgrees

LEMMA AuditedAgrees ==
    ASSUME NEW e, NEW x, NEW came, NEW li, Audited(RecCfg, e, x, came, {}, li)
    PROVE  LET report  == verify_trace(e, positions(e))
               foreign == {i \in DOMAIN e : e[i].kind = "NetRecv" /\ e[i].to \notin Services}
           IN  /\ report.problems = If(foreign # {}, "netrecv_to_unknown")
               /\ report.pending_messages = pending_inbox_messages(x) + Cardinality(foreign)
<1> DEFINE foreign == {i \in DOMAIN e : e[i].kind = "NetRecv" /\ e[i].to \notin Services}
           report == verify_trace(e, positions(e))
<1>1. PICK pr, dr, n : /\ Tells(e, Calm(pr, li, dr, n), n)
                       /\ Books(RecCfg, x, {} \cup x.wire, pr, li, dr, came, n)
  BY DEF Audited
<1> DEFINE v == Calm(pr, li, dr, n)
<1>2. v.timer = <<>> /\ v.effect = <<>> /\ v.produced = pr
      /\ v.problems = If(n # 0, "netrecv_to_unknown")
  BY CalmParts
<1>3. Tells(e, v, n)
  BY <1>1
<1> HIDE DEF v
<1>4. report.problems = v.problems /\ report.pending_messages = Len(v.produced)
  BY <1>2, <1>3, TellsVerdict DEF If
<1> HIDE DEF report
<1>5. DOMAIN e = 1..Len(e) /\ Len(e) \in Nat /\ n = Cardinality(Strangers(e)) /\ n \in Nat
  BY <1>3, SeqLen DEF Tells
<1>6. foreign = Strangers(e)
  BY <1>5 DEF Strangers, IsStranger
<1>7. n # 0 <=> foreign # {}
  <2>1. IsFiniteSet(1..Len(e)) /\ Strangers(e) \subseteq 1..Len(e)
    BY <1>5, FS_Interval DEF Strangers
  <2>2. IsFiniteSet(Strangers(e))
    BY <2>1, FS_Subset
  <2> QED
    BY <1>5, <1>6, <2>2, FS_EmptySet
<1>8. Len(pr) = Pending(x.inbox) + n
  BY <1>1 DEF Books, Stocked
<1>9. pending_inbox_messages(x) = Pending(x.inbox)
  BY DEF pending_inbox_messages, Pending
<1> HIDE DEF foreign
<1>10. report.problems = If(foreign # {}, "netrecv_to_unknown")
  BY <1>2, <1>4, <1>7 DEF If
<1>11. report.pending_messages = pending_inbox_messages(x) + Cardinality(foreign)
  BY <1>2, <1>4, <1>5, <1>6, <1>8, <1>9
<1> QED
  BY <1>10, <1>11 DEF report, foreign

(* The peers are other nodes, and the program has no service of the name   *)
(* the bootstrap messages are sent under.                                  *)
Peers == Genuine(RecCfg.node, Inbound) /\ System \notin Services

LEMMA AuditStep == Peers /\ TypeInv /\ AuditInv /\ [Next]_vars => AuditInv'
<1> SUFFICES ASSUME Peers, TypeInv, AuditInv, [Next]_vars PROVE AuditInv'
  OBVIOUS
<1>1. CASE Boot
  <2>1. phase' = "record" /\ sys' = Startup(RecCfg).sys /\ trace' = Startup(RecCfg).events
        /\ fate' = "running" /\ inbound' = Inbound
    BY <1>1 DEF Boot, AuditInv, Recording
  <2>2. Audited(RecCfg, Startup(RecCfg).events, Startup(RecCfg).sys, {}, {}, {})
    BY Hosts, StartupAudited DEF Peers
  <2>3. Inbound \ inbound' = {}
    BY <2>1
  <2>4. \E li : Audited(RecCfg, trace', sys', Inbound \ inbound', {}, li)
    BY <2>1, <2>2, <2>3
  <2> QED
    BY <2>1, <2>4 DEF AuditInv, VerifierAgrees, Recording
<1>2. ASSUME NEW arrived \in Arrivals, NEW lost \in Losses(arrived),
             NEW got \in Orders(arrived, lost), Record(lost, got)
      PROVE  AuditInv'
  <2> DEFINE ran == Iteration(sys, RecCfg, step, lost, got)
             came == Inbound \ inbound
             all == Come(came, lost, got)
  <2>1. phase = "record" /\ step \in Nat /\ Node(RecCfg, sys) /\ fate = "running"
        /\ IsSeq(trace) /\ inbound \subseteq Inbound /\ Arrive(lost, got)
    BY <1>2 DEF TypeInv, AuditInv, Recording, Record, Arrive
  <2>2. IsFiniteSet(lost) /\ IsSeq(got)
    BY ArrivalsSeq DEF TypeInv
  <2>3. PICK past, li : past = {} /\ Audited(RecCfg, trace, sys, came, past, li)
    BY <2>1 DEF AuditInv
  <2>4. Released(RecCfg, past \cup sys.wire, came \cup lost, got) /\ all = Inbound \ inbound'
    <3>1. past \cup sys.wire = sys.wire
      BY <2>3
    <3>2. Released(RecCfg, sys.wire, came \cup lost, got) /\ all = Inbound \ inbound'
      <4>1. Genuine(RecCfg.node, Inbound)
        BY DEF Peers
      <4> QED
        BY <2>1, <4>1, ArrivalsReleased
    <3> QED
      BY <3>1, <3>2
  <2>5. /\ sys' = ran.sys /\ trace' = trace \o ran.events
        /\ phase' = IF ran.ok THEN "record" ELSE "failed"
        /\ fate' = fate
    BY <1>2 DEF Record, Arrive
  <2>6. ran.ok => \E l2 : Audited(RecCfg, trace \o ran.events, ran.sys, all, {}, l2)
    <3> HIDE DEF came
    <3>1. Host(RecCfg)
      BY Hosts
    <3>2. IsSeq(trace) /\ Node(RecCfg, sys) /\ step \in Nat /\ IsFiniteSet(lost)
      BY <2>1, <2>2
    <3>3. Audited(RecCfg, trace, sys, came, past, li)
          /\ Released(RecCfg, past \cup sys.wire, came \cup lost, got)
      BY <2>3, <2>4
    <3>4. AuditedRun(RecCfg, trace, ran, all, past)
      BY ONLY <3>1, <3>2, <3>3, IterationAudited DEF ran, all
    <3> HIDE DEF ran, all
    <3> QED
      BY <2>3, <3>4 DEF AuditedRun
  <2> HIDE DEF ran, all
  <2>7. phase' = "record" => \E l2 : Audited(RecCfg, trace', sys', Inbound \ inbound', {}, l2)
    BY <2>4, <2>5, <2>6
  <2> QED
    BY <2>1, <2>5, <2>7 DEF AuditInv, VerifierAgrees, Recording
<1>3. CASE Stop
  <2>1. /\ phase = "record" /\ phase' = "recorded" /\ trace' = trace /\ final' = sys
        /\ seqs' = positions(trace)
    BY <1>3 DEF Stop, Leave
  <2>2. PICK li : Audited(RecCfg, trace, sys, Inbound \ inbound, {}, li)
    BY <2>1 DEF AuditInv
  <2>3. VerifierAgrees'
    BY <2>1, <2>2, AuditedAgrees DEF VerifierAgrees, Foreign
  <2> QED
    BY <2>1, <2>3 DEF AuditInv, Recording
<1>4. CASE Fail \/ Kill
  <2>1. phase' = "recorded" /\ fate' \in {"failed", "killed"}
    BY <1>4 DEF Fail, Kill, Leave
  <2> QED
    BY <2>1 DEF AuditInv, VerifierAgrees, Recording
<1>5. ASSUME NEW i \in DOMAIN trace, RemoveLine(i) \/ RepeatLine(i) \/ SwapLines(i)
      PROVE  AuditInv'
  <2>1. phase' = "recorded" /\ fate' = "edited"
    BY <1>5 DEF RemoveLine, RepeatLine, SwapLines, Edited
  <2> QED
    BY <2>1 DEF AuditInv, VerifierAgrees, Recording
<1>6. CASE ReplayStart \/ ReplayNetRecv \/ ReplayFault \/ DrainedInbound
           \/ replay_fire_timer \/ ReplayDeliver \/ ReplayUnexpected \/ ReplayTorn
           \/ ReplayExhausted \/ ReplayEnd
  <2>1. phase' \notin Recording \cup {"recorded"}
    BY <1>6 DEF ReplayStart, ReplayNetRecv, ReplayFault, DrainedInbound, replay_fire_timer,
           ReplayDeliver, ReplayUnexpected, ReplayTorn, ReplayExhausted, ReplayEnd,
           Replaying, Reject, Verdict, NextIteration, Recording
  <2> QED
    BY <2>1 DEF AuditInv, VerifierAgrees, Recording
<1>7. CASE UNCHANGED vars
  BY <1>7 DEF vars, AuditInv, VerifierAgrees, Foreign
<1> QED
  BY <1>1, <1>2, <1>3, <1>4, <1>5, <1>6, <1>7 DEF Next, Finished

(* `tool verify' has nothing to say against a trace its recorder finished, *)
(* whatever the program, the losses and the order of arrival, but for the  *)
(* messages to services the program lacks, and counts as pending what is   *)
(* left in the inboxes and those messages.                                 *)
THEOREM WholeTracesVerify == Peers => (Spec => []VerifierAgrees)
<1>1. Init => AuditInv
  BY DEF Init, AuditInv, VerifierAgrees, Recording
<1>2. AuditInv => VerifierAgrees
  BY DEF AuditInv
<1>3. Peers => []Peers
  <2>1. Peers => Peers'
    BY DEF Peers
  <2> QED
    BY <2>1, PTL
<1>4. Peers /\ TypeInv /\ AuditInv /\ [Next]_vars => AuditInv'
  BY AuditStep
<1> QED
  BY <1>1, <1>2, <1>3, <1>4, TypesHold, PTL DEF Spec
================================================================================
