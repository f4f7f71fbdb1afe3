------------------------------- MODULE Ingress -------------------------------
(***************************************************************************)
(* The inbound side of one recording node: listener threads push envelopes *)
(* into the mpsc channel while the main thread, once per scheduler step,   *)
(* drains the channel through the fault injector (drain_network).          *)
(*                                                                         *)
(* The main thread is split where a listener can interleave with it: the   *)
(* policy sync, each try_recv, and the final flush and release.  The rest  *)
(* of the loop body does not touch the channel or the injector and is the  *)
(* single action Rest.                                                     *)
(***************************************************************************)
EXTENDS FaultInjector, FiniteSets

CONSTANTS
    Envs,      \* the envelopes written to this node's listener
    Local,     \* those of them with to_node = this node
    Cfg,       \* the fault configuration, phases sorted and validated
    Steps,     \* --steps
    MaxDelay   \* a bound on every delay_steps of Cfg

ASSUME EnvsAssumption == Local \subseteq Envs
ASSUME CfgAssumption  == Cfg \in FaultConfig
ASSUME StepsAssumption == Steps \in Nat
ASSUME DelayAssumption ==
    /\ MaxDelay \in Nat
    /\ Cfg.base.delay_steps <= MaxDelay
    /\ \A i \in DOMAIN Cfg.phases : Cfg.phases[i].policy.delay_steps <= MaxDelay

VARIABLES
    net,      \* envelopes still on the wire
    rx,       \* the mpsc channel between listener threads and main thread
    inj,      \* the fault injector and the trace it writes
    step,     \* the scheduler step
    pc,       \* where the main thread is in the step
    ingests   \* history: the order, step and policy of every ingest call

vars == <<net, rx, inj, step, pc, ingests>>

Init ==
    /\ net = Envs
    /\ rx = <<>>
    /\ inj = new(Cfg)
    /\ step = 0
    /\ pc = IF Steps > 0 THEN "sync" ELSE "done"
    /\ ingests = <<>>

(* A connection thread hands over the line it read.  Every message has its *)
(* own TCP connection, hence its own thread: any order is possible.        *)
Listen(env) ==
    /\ pc # "done"
    /\ env \in net
    /\ net' = net \ {env}
    /\ rx' = Append(rx, env)
    /\ UNCHANGED <<inj, step, pc, ingests>>

Sync ==
    /\ pc = "sync"
    /\ inj' = sync_policy(inj, Cfg, step)
    /\ pc' = "recv"
    /\ UNCHANGED <<net, rx, step, ingests>>

(* Mutant: an envelope for another node stays at the front of the channel. *)
Misrouted_Stuck ==
    /\ pc = "recv" /\ rx # <<>>
    /\ Head(rx) \notin Local
    /\ UNCHANGED vars

(* try_recv of an envelope for another node: skipped without a trace. *)
Misrouted ==
    /\ pc = "recv" /\ rx # <<>>
    /\ Head(rx) \notin Local
    /\ rx' = Tail(rx)
    /\ UNCHANGED <<net, inj, step, pc, ingests>>

(* Mutant: the check of to_node is missing. *)
Ingest_Unfiltered ==
    /\ pc = "recv" /\ rx # <<>>
    /\ rx' = Tail(rx)
    /\ inj' = ingest(inj, Cfg, Head(rx), step)
    /\ ingests' = Append(ingests, [env    |-> Head(rx),
                                   step   |-> step,
                                   policy |-> inj'.active_policy])
    /\ UNCHANGED <<net, step, pc>>

Ingest ==
    /\ pc = "recv" /\ rx # <<>>
    /\ Head(rx) \in Local
    /\ rx' = Tail(rx)
    /\ inj' = ingest(inj, Cfg, Head(rx), step)
    /\ ingests' = Append(ingests, [env    |-> Head(rx),
                                   step   |-> step,
                                   policy |-> inj'.active_policy])
    /\ UNCHANGED <<net, step, pc>>

(* try_recv found the channel empty: flush the buffer, release what is due. *)
Release ==
    /\ pc = "recv" /\ rx = <<>>
    /\ inj' = release_due(flush_remainder(inj), step)
    /\ pc' = "rest"
    /\ UNCHANGED <<net, rx, step, ingests>>

(* Timers, delivery and handler execution, then the loop counter. *)
Rest ==
    /\ pc = "rest"
    /\ IF step + 1 < Steps
       THEN step' = step + 1 /\ pc' = "sync"
       ELSE step' = step     /\ pc' = "done"
    /\ UNCHANGED <<net, rx, inj, ingests>>

Done == pc = "done" /\ UNCHANGED vars

Next ==
    \/ \E env \in Envs : Listen(env)
    \/ Sync \/ Misrouted \/ Ingest \/ Release \/ Rest
    \/ Done

(* The operating system schedules the main thread. *)
Fairness == WF_vars(Sync \/ Misrouted \/ Ingest \/ Release \/ Rest)

Spec == Init /\ [][Next]_vars /\ Fairness

------------------------------------------------------------------------------
Staged == [env : Local, release_step : Nat]

IngressEvent ==
         [kind : {"FaultPolicy"}, step : Nat, policy : FaultPolicy]
    \cup [kind : {"Drop", "NetRecv"}, env : Local]
    \cup [kind : {"Delay"}, env : Local, steps : Nat]
    \cup [kind : {"Reorder"}, env : Local, window : Nat]

Injector ==
    [ seen_inbound : Nat, active_policy : FaultPolicy,
      policy_initialized : BOOLEAN, reorder_buf : Seq(Staged),
      pending : Seq(Staged), trace : Seq(IngressEvent) ]

IngestCall == [env : Local, step : Nat, policy : FaultPolicy]

(* Type correctness of the node's inbound state. *)
TypeOK ==
    /\ net \subseteq Envs
    /\ rx \in Seq(Envs)
    /\ inj \in Injector
    /\ step \in Nat
    /\ pc \in {"sync", "recv", "rest", "done"}
    /\ ingests \in Seq(IngestCall)

EnvsOf(queue) == {queue[i].env : i \in DOMAIN queue}
Distinct(queue) ==
    \A i, j \in DOMAIN queue : queue[i].env = queue[j].env => i = j

RecordedIn(trace, kind) ==
    {trace[i].env : i \in {j \in DOMAIN trace : trace[j].kind = kind}}
Recorded(kind) == RecordedIn(inj.trace, kind)

(* No envelope has two of the events that settle its fate. *)
UniqueFates(trace) ==
    \A i, j \in DOMAIN trace :
        /\ trace[i].kind \in {"Drop", "NetRecv"}
        /\ trace[j].kind \in {"Drop", "NetRecv"}
        /\ trace[i].env = trace[j].env
        => i = j

(* The reorder buffer never holds a full window: within a drain ingest's   *)
(* flush loop keeps up, and a drain under another policy starts empty,     *)
(* whatever the old and new windows.                                       *)
WindowRespected ==
    inj.reorder_buf # <<>> =>
        Len(inj.reorder_buf) < inj.active_policy.reorder_window

(* Nothing is stranded in the reorder buffer: outside drain_network it is  *)
(* empty, although flush_remainder does nothing for a window of one and    *)
(* the channel may run dry with a chunk half full.                         *)
NoStranding == pc # "recv" => inj.reorder_buf = <<>>

(* Every envelope ingest accepted has exactly one fate: it waits at one    *)
(* place of the buffer or the pending queue, or the trace says once that   *)
(* it was dropped, or once that it was received, never both.               *)
OneFate ==
    LET buffered == EnvsOf(inj.reorder_buf)
        waiting  == EnvsOf(inj.pending)
        settled  == Recorded("Drop") \cup Recorded("NetRecv")
    IN  /\ Distinct(inj.reorder_buf) /\ Distinct(inj.pending)
        /\ UniqueFates(inj.trace)
        /\ buffered \cap waiting = {}
        /\ settled \cap (buffered \cup waiting) = {}
        /\ EnvsOf(ingests) = settled \cup buffered \cup waiting

(* Head-of-line blocking in the pending queue is bounded: once a step has  *)
(* released what is due, nothing it still holds was ingested MaxDelay or   *)
(* more steps ago, even if a later phase shortened the delay.              *)
BoundedWait ==
    pc = "rest" =>
        \A k \in DOMAIN ingests :
            ingests[k].env \in EnvsOf(inj.pending)
                => step < ingests[k].step + MaxDelay

(* No envelope reaches an inbox before the delay of the policy it was      *)
(* ingested under has passed, whatever policy is active at its release.    *)
NeverEarly ==
    [][\A k \in DOMAIN ingests :
          /\ ingests[k].env \notin Recorded("NetRecv")
          /\ ingests[k].env \in Recorded("NetRecv")'
          => step >= ingests[k].step + ingests[k].policy.delay_steps]_vars

ReceivedAt(env) == CHOOSE i \in DOMAIN inj.trace :
                       inj.trace[i] = NetRecvEvent(env)

(* Every inversion of arrival order is one the injector owns up to: if b   *)
(* arrived after a and was received first, both were ingested in the same  *)
(* step, fewer than reorder_window surviving envelopes apart, and both     *)
(* carry Reorder evidence.  No inversion crosses a policy change.          *)
ReorderConfined ==
    \A a, b \in DOMAIN ingests :
        LET ea == ingests[a].env
            eb == ingests[b].env
        IN  /\ a < b
            /\ {ea, eb} \subseteq Recorded("NetRecv")
            /\ ReceivedAt(eb) < ReceivedAt(ea)
            => /\ ingests[a].step = ingests[b].step
               /\ ingests[a].policy = ingests[b].policy
               /\ {ea, eb} \subseteq Recorded("Reorder")
               /\ Cardinality({k \in (a + 1)..b :
                                 ingests[k].env \notin Recorded("Drop")})
                    < ingests[a].policy.reorder_window

(* README: "--fault-delay-steps <n>  Delay inbound wire messages by n      *)
(* runtime steps", "--fault-phase ... Override faults for steps [s..e]":   *)
(* once its n steps have passed a message is no longer held back.          *)
NoOverdue ==
    pc = "rest" =>
        \A i \in DOMAIN inj.pending : inj.pending[i].release_step > step

(***************************************************************************)
(* Refinement: the channel's view of this state.                           *)
(***************************************************************************)
Waiting == EnvsOf(inj.reorder_buf) \cup EnvsOf(inj.pending)

HeldEnvs ==
    {[msg |-> ingests[k].env, since |-> ingests[k].step] :
        k \in {i \in DOMAIN ingests : ingests[i].env \in Waiting}}

Channel == INSTANCE BoundedChannel WITH
    Msgs <- Local, now <- step, held <- HeldEnvs,
    lost <- Recorded("Drop"), delivered <- Recorded("NetRecv")

(* The inbound path is a channel of bounded delay: an accepted envelope is *)
(* dropped on arrival or handed over within MaxDelay steps, never twice,   *)
(* through every change of policy and every arrival during the drain.      *)
ImplementsChannel == Channel!ChannelSpec

(* The drain loop and the run come to an end however the listeners are     *)
(* scheduled: finitely many envelopes cannot keep try_recv busy forever.   *)
Terminates == <>(pc = "done")

==============================================================================
