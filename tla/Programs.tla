------------------------------- MODULE Programs -------------------------------
(***************************************************************************)
(* What a service program is once it is loaded: the shape every node may   *)
(* rely on.  A program is a record of its services in order, the initial   *)
(* state of each, and a plan per service and message type: the actions of  *)
(* the handler and the effects it declares.                                *)
(*                                                                         *)
(* Actions carry `guards', the conditions of the `if's around them: a      *)
(* guard reads the state and runs nothing, so nested `if's amount to the   *)
(* conjunction of their conditions.                                        *)
(***************************************************************************)
EXTENDS Integers, Sequences, SequencesExt

Effects == {"log", "state_read", "state_write", "send_local", "send_remote",
            "timer_local", "timer_remote"}
TimerEffects == {"timer_local", "timer_remote"}
SendEffects  == {"send_local", "send_remote"} \cup TimerEffects

infer_effects(actions) ==
    UNION {(IF actions[i].guards = {} THEN {} ELSE {"state_read"})
              \cup {actions[i].effect} : i \in DOMAIN actions}

(* Known keys and services, and timers of one step or more. *)
ValidAction(program, s, a) ==
    /\ \A g \in a.guards : g.key \in DOMAIN program.initial[s]
    /\ a.effect = "state_write" => a.key \in DOMAIN program.initial[s]
    /\ a.effect \in SendEffects => /\ a.service \in Range(program.services)
                                   /\ a.steps > 0 <=> a.effect \in TimerEffects

(* What the runtime takes for granted of its program. *)
Loadable(program) ==
    LET services == Range(program.services)
    IN  /\ IsInjective(program.services) /\ program.services # <<>>
        /\ DOMAIN program.initial = services /\ DOMAIN program.handlers = services
        /\ \A s \in services : \A t \in DOMAIN program.handlers[s] :
              LET plan == program.handlers[s][t]
              IN  /\ \A i \in DOMAIN plan.actions :
                        ValidAction(program, s, plan.actions[i])
                  /\ plan.declared = infer_effects(plan.actions)

==============================================================================
