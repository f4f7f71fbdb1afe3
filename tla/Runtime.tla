------------------------------- MODULE Runtime -------------------------------
(***************************************************************************)
(* The deterministic core of a runtime node: the actor system, the         *)
(* execution of service handlers, message and timer identifiers, the       *)
(* scheduler and the dispatch of outgoing messages.  Recording and replay  *)
(* run this same code, so both are built from the operators below, which   *)
(* take the node's state as a record and return the record the code leaves *)
(* behind.                                                                 *)
(*                                                                         *)
(* Data.  A service stands for its actor: an actor id is a hash of the     *)
(* service name, of which only the order matters (Rank).  Node ids and     *)
(* message ids are numbers, as Uuid::from_u128 makes them; a template is   *)
(* abstracted to the state values it can render.                           *)
(***************************************************************************)
EXTENDS Programs, FiniteSetsExt

CONSTANTS
    Program,   \* services, initial state and handlers, as load_program builds them
    Rank,      \* the order of the services' actor ids
    MaxInt     \* i64::MAX

System == "System"
Services == Range(Program.services)

(* Timer ids live 2^96 above message ids: a range of their own. *)
TimerOffset == 1000000

ASSUME ProgramAssumption == Loadable(Program)
ASSUME RankAssumption ==
    /\ Rank \in [Services -> Nat] /\ IsInjective(Rank)
ASSUME MaxIntAssumption == MaxInt \in Nat

(* What the types of the parsed program give: i64 state values and operands,   *)
(* unsigned timer steps, a list of actions per handler.                    *)
I64 == (-MaxInt - 1)..MaxInt

TypedAction(a) ==
    /\ a.effect \in Effects \ {"state_read"}
    /\ a.effect = "state_write" =>
          \/ a.op = "set" /\ a.value \in I64
          \/ a.op = "inc" /\ a.by \in I64
    /\ a.effect \in SendEffects =>
          /\ a.steps \in Nat
          /\ \/ a.effect \in {"send_local", "timer_local"}
             \/ a.target \in {"peers", "sender", "node"}

ASSUME TypesAssumption ==
    /\ Program.services \in Seq(Services)
    /\ Program.initial = [s \in Services |-> Program.initial[s]]
    /\ \A s \in Services :
          /\ Program.initial[s] \in [DOMAIN Program.initial[s] -> I64]
          /\ \A t \in DOMAIN Program.handlers[s] :
                LET actions == Program.handlers[s][t].actions
                IN  /\ actions \in Seq(Range(actions))
                    /\ \A a \in Range(actions) : TypedAction(a)

entry_service == IF "Gateway" \in Services THEN "Gateway" ELSE Program.services[1]

------------------------------------------------------------------------------
(***************************************************************************)
(* Messages and their provenance.  `prov' is an Option: <<>> or <<p>>.     *)
(***************************************************************************)
(* Mutant: the hop count is handed on unchanged. *)
provenance_same_hops(incoming, id) ==
    IF incoming.prov = <<>>
    THEN [origin_node    |-> incoming.from_node,
          origin_service |-> incoming.from_service,
          origin_msg     |-> id,
          parent_node    |-> incoming.from_node,
          parent_msg     |-> id,
          hops           |-> 0]
    ELSE [incoming.prov[1] EXCEPT !.parent_node = incoming.from_node,
                                  !.parent_msg  = id]

(* Mutant: a message keeps the parent of the message it answers. *)
provenance_stale_parent(incoming, id) ==
    IF incoming.prov = <<>>
    THEN [provenance_same_hops(incoming, id) EXCEPT !.hops = 1]
    ELSE [incoming.prov[1] EXCEPT !.hops = @ + 1]

next_outbound_provenance(incoming, id) ==
    LET parent == [parent_node |-> incoming.from_node, parent_msg |-> id]
    IN  IF incoming.prov # <<>>
        THEN LET prev == incoming.prov[1]
             IN  [prev EXCEPT !.parent_node = parent.parent_node,
                              !.parent_msg  = parent.parent_msg,
                              !.hops = @ + 1]
        ELSE [origin_node    |-> incoming.from_node,
              origin_service |-> incoming.from_service,
              origin_msg     |-> id,
              parent_node    |-> parent.parent_node,
              parent_msg     |-> parent.parent_msg,
              hops           |-> 1]

build_outbound_message(cfg, s, a, text, incoming, id) ==
    [type |-> a.message, from_node |-> cfg.node, from_service |-> s,
     text |-> text, prov |-> <<next_outbound_provenance(incoming, id)>>]

(***************************************************************************)
(* The actor system and what main keeps beside it.  `wire' holds the       *)
(* envelopes handed to net::send_envelope.                                 *)
(***************************************************************************)
build_actor_system ==
    [ inbox         |-> [s \in Services |-> <<>>],
      state         |-> Program.initial,
      timers        |-> {},
      msg_counter   |-> 1,
      timer_counter |-> 1,
      wire          |-> {} ]

next_deterministic_msg_id(cfg, sys) == cfg.node + sys.msg_counter
next_deterministic_timer_id(cfg, sys) ==
    cfg.node + TimerOffset + sys.timer_counter

Pending(inbox) == MapThenSumSet(LAMBDA s : Len(inbox[s]), Services)
pending_inbox_messages(sys) == Pending(sys.inbox)

push(sys, s, id, msg) ==
    [sys EXCEPT !.inbox[s] = Append(@, [id |-> id, msg |-> msg])]

------------------------------------------------------------------------------
(***************************************************************************)
(* Trace events.  A trace event's seq is its position in the trace.        *)
(***************************************************************************)
SpawnEvent(cfg, s) == [kind |-> "Spawn", node |-> cfg.node, service |-> s]
SendEvent(from, to, id, msg) ==
    [kind |-> "Send", from |-> from, to |-> to, id |-> id, msg |-> msg]
NetSendEvent(cfg, from, out, id) ==
    [kind |-> "NetSend", node |-> cfg.node, to_node |-> out.node, from |-> from,
     id |-> id, msg |-> out.msg]
NetRecvEvent(cfg, env) ==
    [kind |-> "NetRecv", node |-> cfg.node, from_node |-> env.from_node,
     to |-> env.to, id |-> env.id, msg |-> env.msg]
DropEvent(cfg, env) ==
    [kind |-> "Drop", node |-> cfg.node, from_node |-> env.from_node,
     to |-> env.to, id |-> env.id]
DeliverEvent(cfg, s, id) ==
    [kind |-> "Deliver", node |-> cfg.node, to |-> s, id |-> id]
TimerFiredEvent(cfg, t) ==
    [kind |-> "TimerFired", node |-> cfg.node, from |-> t.from, id |-> t.id]
LogEvent(cfg, s, text) ==
    [kind |-> "Log", node |-> cfg.node, from |-> s, text |-> text]
EffectEvent(cfg, s, type, id, declared, observed) ==
    [kind |-> "EffectObserved", node |-> cfg.node, actor |-> s, type |-> type,
     id |-> id, declared |-> declared, observed |-> observed]

(***************************************************************************)
(* Handler execution.                                                      *)
(***************************************************************************)
(* The elements of a finite set, in order. *)
Ascending(S, Precedes(_, _)) ==
    CHOOSE q \in [1..Cardinality(S) -> S] :
        \A i, j \in DOMAIN q : i < j => Precedes(q[i], q[j])

sorted_peer_ids(peers) == Ascending(peers, LAMBDA p, q : p < q)

(* The nodes an action sends to, in order.  A broadcast of a node without  *)
(* peers goes to the node itself.  The sender of an envelope is a node id, *)
(* as every node writes it.                                                *)
TargetNodes(cfg, a, incoming) ==
    IF a.effect \in {"send_local", "timer_local"} THEN <<cfg.node>>
    ELSE CASE a.target = "peers"  -> IF cfg.peers = {} THEN <<cfg.node>>
                                     ELSE sorted_peer_ids(cfg.peers)
           [] a.target = "sender" -> <<incoming.from_node>>
           [] a.target = "node"   -> <<a.node>>

Perform(ctx, cfg, s, a, incoming, id) ==
    CASE a.effect = "log" ->
           [ctx EXCEPT !.logs = Append(@, ctx.state)]
      [] a.effect = "state_write" /\ a.op = "set" ->
           [ctx EXCEPT !.state[a.key] = a.value]
      [] a.effect = "state_write" /\ a.op = "inc" ->
           IF ctx.state[a.key] + a.by \notin I64
           THEN [ctx EXCEPT !.ok = FALSE]
           ELSE [ctx EXCEPT !.state[a.key] = @ + a.by]
      [] OTHER ->
           LET msg   == build_outbound_message(cfg, s, a, ctx.state, incoming, id)
               nodes == TargetNodes(cfg, a, incoming)
           IN  [ctx EXCEPT !.outbox = @ \o [i \in DOMAIN nodes |->
                   [node |-> nodes[i], service |-> a.service,
                    msg |-> msg, delay |-> a.steps]]]

(* A failed guard still observes the read; a failed inc ends the handler.  *)
execute_action(ctx, cfg, s, a, incoming, id) ==
    LET read == IF a.guards = {} THEN {} ELSE {"state_read"}
        seen == [ctx EXCEPT !.observed = @ \cup read]
    IN  IF ~ctx.ok THEN ctx
        ELSE IF \A g \in a.guards : ctx.state[g.key] = g.value
             THEN Perform([seen EXCEPT !.observed = @ \cup {a.effect}],
                          cfg, s, a, incoming, id)
             ELSE seen

PerformAll(ctx, cfg, s, actions, incoming, id) ==
    FoldLeft(LAMBDA c, a : execute_action(c, cfg, s, a, incoming, id), ctx, actions)

(* A message no handler is declared for has no effect. *)
execute_actions(cfg, s, state, incoming, id) ==
    LET ctx  == [ok |-> TRUE, state |-> state, logs |-> <<>>,
                 outbox |-> <<>>, observed |-> {}]
    IN  IF incoming.type \notin DOMAIN Program.handlers[s] THEN ctx
        ELSE PerformAll(ctx, cfg, s, Program.handlers[s][incoming.type].actions,
                        incoming, id)

Declared(s, type) == IF type \in DOMAIN Program.handlers[s]
                     THEN Program.handlers[s][type].declared ELSE {}

(***************************************************************************)
(* Dispatch.  `acc' pairs the node with the events emitted so far.  Only a *)
(* recording node writes to the wire, and only to a peer it has an address *)
(* for; the NetSend event is emitted either way, even if the send fails.   *)
(***************************************************************************)
(* Mutant: a replaying node writes to the wire, too. *)
dispatch_in_any_mode(acc, cfg, from, out) ==
    LET id      == next_deterministic_msg_id(cfg, acc.sys)
        counted == [acc.sys EXCEPT !.msg_counter = @ + 1]
        env     == [from_node |-> cfg.node, to_node |-> out.node,
                    to |-> out.service, id |-> id, msg |-> out.msg]
    IN  IF out.node = cfg.node
        THEN [sys    |-> push(counted, out.service, id, out.msg),
              events |-> Append(acc.events,
                                SendEvent(from, out.service, id, out.msg))]
        ELSE [sys    |-> [counted EXCEPT !.wire = @ \cup {env}],
              events |-> Append(acc.events, NetSendEvent(cfg, from, out, id))]

dispatch_outgoing(acc, cfg, from, out) ==
    LET id      == next_deterministic_msg_id(cfg, acc.sys)
        counted == [acc.sys EXCEPT !.msg_counter = @ + 1]
        env     == [from_node |-> cfg.node, to_node |-> out.node,
                    to |-> out.service, id |-> id, msg |-> out.msg]
    IN  IF out.node = cfg.node
        THEN [sys    |-> push(counted, out.service, id, out.msg),
              events |-> Append(acc.events,
                                SendEvent(from, out.service, id, out.msg))]
        ELSE [sys    |-> IF cfg.mode = "record" /\ out.node \in cfg.peers
                         THEN [counted EXCEPT !.wire = @ \cup {env}]
                         ELSE counted,
              events |-> Append(acc.events, NetSendEvent(cfg, from, out, id))]

(* Mutant: an entry without a delay becomes a timer, too. *)
EmitOne_AlwaysTimer(acc, cfg, s, out, step) ==
    LET timer == [id |-> next_deterministic_timer_id(cfg, acc.sys),
                  due_step |-> step + out.delay, from |-> s, out |-> out]
    IN  [acc EXCEPT !.sys.timers = @ \cup {timer}, !.sys.timer_counter = @ + 1]

(* An entry of a handler's outbox: dispatched at once, or set as a timer.  *)
EmitOne(acc, cfg, s, out, step) ==
    IF out.delay > 0
    THEN LET timer   == [id |-> next_deterministic_timer_id(cfg, acc.sys),
                         due_step |-> step + out.delay, from |-> s, out |-> out]
             counted == [acc.sys EXCEPT !.timer_counter = @ + 1]
         IN  [sys    |-> [counted EXCEPT !.timers = @ \cup {timer}],
              events |-> acc.events]
    ELSE dispatch_outgoing(acc, cfg, s, out)

EmitAll(acc, cfg, s, outbox, step) ==
    FoldLeft(LAMBDA a, out : EmitOne(a, cfg, s, out, step), acc, outbox)

(* The second half of main's loop body: pop the front of an inbox, run the *)
(* handler, collect what it emits.  ok = FALSE is the error that ends the  *)
(* process.                                                                *)
Deliver(sys, cfg, step, s) ==
    LET front   == Head(sys.inbox[s])
        popped  == [sys EXCEPT !.inbox[s] = Tail(@)]
        ran     == execute_actions(cfg, s, sys.state[s], front.msg, front.id)
        effects == EffectEvent(cfg, s, front.msg.type, front.id,
                               Declared(s, front.msg.type), ran.observed)
        logs    == [i \in DOMAIN ran.logs |-> LogEvent(cfg, s, ran.logs[i])]
        sent    == EmitAll([sys    |-> [popped EXCEPT !.state[s] = ran.state],
                            events |-> <<effects>> \o logs],
                           cfg, s, ran.outbox, step)
    IN  [ok |-> ran.ok, id |-> front.id, sys |-> sent.sys, events |-> sent.events]

(* Timers due at a step fire in the order of their ids, each emitting its  *)
(* message right after its TimerFired event.                               *)
Due_Late(sys, step) == {t \in sys.timers : t.due_step < step}   \* mutant
Due(sys, step) == {t \in sys.timers : t.due_step <= step}

(* Mutant: TimerFired is recorded after the message it emits. *)
FireOne_SendFirst(acc, cfg, t) ==
    LET sent == dispatch_outgoing([acc EXCEPT !.sys.timers = @ \ {t}],
                                  cfg, t.from, t.out)
    IN  [sent EXCEPT !.events = Append(@, TimerFiredEvent(cfg, t))]

FireOne(acc, cfg, t) ==
    dispatch_outgoing([sys    |-> [acc.sys EXCEPT !.timers = @ \ {t}],
                       events |-> Append(acc.events, TimerFiredEvent(cfg, t))],
                      cfg, t.from, t.out)

FireAll(acc, cfg, timers) ==
    FoldLeft(LAMBDA a, t : FireOne(a, cfg, t), acc, timers)

ById(timers) == Ascending(timers, LAMBDA t, u : t.id < u.id)

FireDue(sys, cfg, step) ==
    FireAll([sys |-> sys, events |-> <<>>], cfg, ById(Due(sys, step)))

(* The scheduler: among the actors with mail, the one with the least id.   *)
Ready(sys) == {s \in Services : sys.inbox[s] # <<>>}
(* Mutant: the pending deliveries are sorted by message id first. *)
choose_by_message(sys) ==
    CHOOSE s \in Ready(sys) : \A t \in Ready(sys) :
        Head(sys.inbox[s]).id <= Head(sys.inbox[t]).id

choose_next_deterministic(sys) ==
    CHOOSE s \in Ready(sys) : \A t \in Ready(sys) : Rank[s] <= Rank[t]

(* drain_network: NetRecv is recorded for every released envelope, but one *)
(* for a service this program lacks reaches no inbox.  `lost' are the      *)
(* envelopes the fault injector dropped, `got' those it released, in order.*)
Receive(sys, env) ==
    IF env.to \in Services THEN push(sys, env.to, env.id, env.msg) ELSE sys

ReceiveAll(sys, got) == FoldLeft(LAMBDA a, env : Receive(a, env), sys, got)

drain_network(sys, cfg, lost, got) ==
    [sys    |-> ReceiveAll(sys, got),
     events |-> SetToSeq({DropEvent(cfg, env) : env \in lost})
                \o [i \in DOMAIN got |-> NetRecvEvent(cfg, got[i])]]

(* One iteration of the recording loop: drain the network, fire timers,    *)
(* deliver one message if an inbox holds one.  An error in the handler     *)
(* leaves the trace with the Deliver event at its end.                     *)
Prelude(sys, cfg, step, lost, got) ==
    LET drained == drain_network(sys, cfg, lost, got)
        fired   == FireDue(drained.sys, cfg, step)
    IN  [sys |-> fired.sys, events |-> drained.events \o fired.events]

Iteration(sys, cfg, step, lost, got) ==
    LET pre == Prelude(sys, cfg, step, lost, got)
    IN  IF Ready(pre.sys) = {}
        THEN [ok |-> TRUE, sys |-> pre.sys, events |-> pre.events]
        ELSE LET s   == choose_next_deterministic(pre.sys)
                 ran == Deliver(pre.sys, cfg, step, s)
                 del == pre.events \o <<DeliverEvent(cfg, s, ran.id)>>
             IN  IF ran.ok
                 THEN [ok |-> TRUE, sys |-> ran.sys, events |-> del \o ran.events]
                 ELSE [ok |-> FALSE, sys |-> pre.sys, events |-> del]

(***************************************************************************)
(* Start-up: Spawn events, then the `start' messages of the entry service. *)
(* Without --bootstrap-hello there is still one.                           *)
(***************************************************************************)
BootMessage(cfg, id, idx) ==
    [type |-> "start", from_node |-> cfg.node, from_service |-> System,
     text |-> [bootstrap |-> idx],
     prov |-> << [origin_node |-> cfg.node, origin_service |-> System,
                  origin_msg |-> id, parent_node |-> cfg.node,
                  parent_msg |-> id, hops |-> 0] >>]

BootOne(acc, cfg, idx) ==
    LET id  == next_deterministic_msg_id(cfg, acc.sys)
        msg == BootMessage(cfg, id, idx)
    IN  [sys    |-> push([acc.sys EXCEPT !.msg_counter = @ + 1],
                         entry_service, id, msg),
         events |-> Append(acc.events, SendEvent(System, entry_service, id, msg))]

BootAll(acc, cfg, idxs) ==
    FoldLeft(LAMBDA a, idx : BootOne(a, cfg, idx), acc, idxs)

enqueue_bootstrap(acc, cfg) ==
    LET count == IF cfg.bootstrap_hello THEN cfg.bootstrap_burst ELSE 1
    IN  BootAll(acc, cfg, [i \in 1..count |-> i])

Startup(cfg) ==
    enqueue_bootstrap(
        [sys    |-> build_actor_system,
         events |-> <<SpawnEvent(cfg, System)>> \o
                    [i \in DOMAIN Program.services |->
                        SpawnEvent(cfg, Program.services[i])]], cfg)

==============================================================================
