---------------------------- MODULE FaultInjector ----------------------------
(***************************************************************************)
(* The inbound fault injector of a runtime node: fault policies, their     *)
(* step-indexed phases, and the two-stage queue (reorder buffer, then      *)
(* pending queue) every inbound wire envelope passes through.              *)
(*                                                                         *)
(* The operators are pure: each takes the injector as a record and returns *)
(* the record the Rust method leaves behind.  The field `trace' stands for *)
(* the trace writer those methods are handed, so an operator that records  *)
(* an event appends it there.                                              *)
(*                                                                         *)
(* u64 arithmetic is modelled on Nat: `saturating_add' differs from + only *)
(* at 2^64 steps, which no run reaches.                                    *)
(***************************************************************************)
EXTENDS Integers, Sequences, SequencesExt

NoEnd  == -1    \* end_step = None, written `*' on the command line
NoDrop == 0     \* drop_every = None: parsing maps 0 to None

FaultPolicy ==
    [drop_every : Nat, delay_steps : Nat, reorder_window : Nat \ {0}]

FaultPhase ==
    [start_step : Nat, end_step : Nat \cup {NoEnd}, policy : FaultPolicy]

FaultConfig == [base : FaultPolicy, phases : Seq(FaultPhase)]

is_active(phase, step) ==
    /\ phase.start_step <= step
    /\ phase.end_step = NoEnd \/ step <= phase.end_step

(* Mutant: a phase without drops keeps those of the base policy. *)
policy_for_step_merged(cfg, step) ==
    LET active == {i \in DOMAIN cfg.phases : is_active(cfg.phases[i], step)}
    IN  IF active = {}
        THEN cfg.base
        ELSE LET policy == cfg.phases[CHOOSE i \in active : \A j \in active : j <= i].policy
             IN  [policy EXCEPT !.drop_every = IF @ = NoDrop THEN cfg.base.drop_every ELSE @]

(* The loop keeps the policy of the last active phase. *)
policy_for_step(cfg, step) ==
    LET active == {i \in DOMAIN cfg.phases : is_active(cfg.phases[i], step)}
    IN  IF active = {}
        THEN cfg.base
        ELSE cfg.phases[CHOOSE i \in active : \A j \in active : j <= i].policy

(***************************************************************************)
(* Trace events of the ingress path.                                       *)
(***************************************************************************)
PolicyEvent(policy, step) ==
    [kind |-> "FaultPolicy", step |-> step, policy |-> policy]
DropEvent(env) == [kind |-> "Drop", env |-> env]
DelayEvent(env, steps) == [kind |-> "Delay", env |-> env, steps |-> steps]
ReorderEvent(env, window) ==
    [kind |-> "Reorder", env |-> env, window |-> window]
NetRecvEvent(env) == [kind |-> "NetRecv", env |-> env]

new(cfg) ==
    [ seen_inbound       |-> 0,
      active_policy      |-> policy_for_step(cfg, 0),
      policy_initialized |-> FALSE,
      reorder_buf        |-> <<>>,
      pending            |-> <<>>,
      trace              |-> <<>> ]

(* Mutant: a partial chunk leaves no Reorder evidence. *)
flush_chunk_silent(inj, window) ==
    LET len   == Len(inj.reorder_buf)
        take  == IF window <= len THEN window ELSE len
        chunk == SubSeq(inj.reorder_buf, 1, take)
    IN  [inj EXCEPT
           !.reorder_buf = SubSeq(@, take + 1, len),
           !.pending     = @ \o Reverse(chunk),
           !.trace       = IF take = window
                           THEN @ \o [i \in 1..take |->
                                        ReorderEvent(chunk[i].env, window)]
                           ELSE @ ]

(* Moves the oldest `take' buffered envelopes, reversed, to the back of    *)
(* the pending queue; a chunk of two or more leaves Reorder evidence, in   *)
(* arrival order, for each of its envelopes.                               *)
flush_chunk(inj, window) ==
    LET len   == Len(inj.reorder_buf)
        take  == IF window <= len THEN window ELSE len
        chunk == SubSeq(inj.reorder_buf, 1, take)
    IN  [inj EXCEPT
           !.reorder_buf = SubSeq(@, take + 1, len),
           !.pending     = @ \o Reverse(chunk),
           !.trace       = IF take > 1
                           THEN @ \o [i \in 1..take |->
                                        ReorderEvent(chunk[i].env, window)]
                           ELSE @ ]

flush_remainder_with_window(inj, window) ==
    IF window <= 1 \/ inj.reorder_buf = <<>>
    THEN inj
    ELSE flush_chunk(inj, window)

(* Mutant: the remainder is left in the buffer. *)
flush_remainder_skipped(inj) == inj

flush_remainder(inj) ==
    flush_remainder_with_window(inj, inj.active_policy.reorder_window)

record_policy_event(inj, step) ==
    [inj EXCEPT !.trace = Append(@, PolicyEvent(inj.active_policy, step))]

(* A change of policy first flushes what the old policy's window holds;    *)
(* that is nothing, because flush_remainder ends every drain.              *)
sync_policy(inj, cfg, step) ==
    LET next_policy == policy_for_step(cfg, step)
        adopt(old)  == record_policy_event(
                           [old EXCEPT !.active_policy = next_policy,
                                       !.policy_initialized = TRUE], step)
    IN  IF ~inj.policy_initialized
        THEN adopt(inj)
        ELSE IF next_policy = inj.active_policy
             THEN inj
             ELSE adopt(flush_remainder(inj))

(* Mutant: a full window is flushed one envelope late. *)
stage_late(inj, env, step) ==
    LET policy == inj.active_policy
        staged == [env |-> env, release_step |-> step + policy.delay_steps]
        pushed == [inj EXCEPT !.reorder_buf = Append(@, staged)]
    IN  IF policy.reorder_window <= 1
        THEN [inj EXCEPT !.pending = Append(@, staged)]
        ELSE IF Len(pushed.reorder_buf) > policy.reorder_window
             THEN flush_chunk(pushed, policy.reorder_window)
             ELSE pushed

(* What ingest does with an envelope its policy does not drop.  The code's *)
(* `while len >= window' around flush_chunk is a single test here: between *)
(* calls the buffer holds fewer than `window' envelopes (WindowRespected   *)
(* of module Ingress), so pushing one fills at most one chunk.             *)
stage(inj, env, step) ==
    LET policy == inj.active_policy
        staged == [env |-> env, release_step |-> step + policy.delay_steps]
        marked == IF policy.delay_steps > 0
                  THEN [inj EXCEPT !.trace =
                           Append(@, DelayEvent(env, policy.delay_steps))]
                  ELSE inj
        pushed == [marked EXCEPT !.reorder_buf = Append(@, staged)]
    IN  IF policy.reorder_window <= 1
        THEN [marked EXCEPT !.pending = Append(@, staged)]
        ELSE IF Len(pushed.reorder_buf) >= policy.reorder_window
             THEN flush_chunk(pushed, policy.reorder_window)
             ELSE pushed

(* drop_every drops every n-th envelope of the node's whole run: the       *)
(* counter is not reset when the policy changes.                           *)
drops(policy, seen) ==
    policy.drop_every # NoDrop /\ seen % policy.drop_every = 0

(* Mutant: a drop is recorded but the envelope goes on. *)
ingest_no_return(inj, cfg, env, step) ==
    LET synced  == sync_policy(inj, cfg, step)
        counted == [synced EXCEPT !.seen_inbound = @ + 1]
        marked  == IF drops(counted.active_policy, counted.seen_inbound)
                   THEN [counted EXCEPT !.trace = Append(@, DropEvent(env))]
                   ELSE counted
    IN  stage(marked, env, step)

ingest(inj, cfg, env, step) ==
    LET synced  == sync_policy(inj, cfg, step)
        counted == [synced EXCEPT !.seen_inbound = @ + 1]
    IN  IF drops(counted.active_policy, counted.seen_inbound)
        THEN [counted EXCEPT !.trace = Append(@, DropEvent(env))]
        ELSE stage(counted, env, step)

(* Mutant: an envelope due in this step still blocks the queue. *)
first_blocked_strict(queue, step) ==
    CHOOSE i \in 1..(Len(queue) + 1) :
        /\ i = Len(queue) + 1 \/ queue[i].release_step >= step
        /\ \A j \in 1..(i - 1) : queue[j].release_step < step

(* Mutant: envelopes leave one step early. *)
first_blocked_early(queue, step) ==
    CHOOSE i \in 1..(Len(queue) + 1) :
        /\ i = Len(queue) + 1 \/ queue[i].release_step > step + 1
        /\ \A j \in 1..(i - 1) : queue[j].release_step <= step + 1

(* release_due pops the pending queue while its front is due: everything   *)
(* before the first envelope whose release step lies ahead.                *)
first_blocked(queue, step) ==
    CHOOSE i \in 1..(Len(queue) + 1) :
        /\ i = Len(queue) + 1 \/ queue[i].release_step > step
        /\ \A j \in 1..(i - 1) : queue[j].release_step <= step

released(inj, step) ==
    SubSeq(inj.pending, 1, first_blocked(inj.pending, step) - 1)

(* release_due, and the NetRecv event drain_network records for each       *)
(* envelope it returns.                                                    *)
release_due(inj, step) ==
    LET out == released(inj, step)
    IN  [inj EXCEPT
           !.pending = SubSeq(@, Len(out) + 1, Len(@)),
           !.trace   = @ \o [i \in 1..Len(out) |-> NetRecvEvent(out[i].env)]]

==============================================================================
