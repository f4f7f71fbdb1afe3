----------------------------- MODULE FaultPhases -----------------------------
(***************************************************************************)
(* How the values of --fault-phase become the phase schedule the fault     *)
(* injector trusts: each is parsed as the command line brings it, then     *)
(* parse_config sorts the phases by start step and walks them once,        *)
(* comparing each with its predecessor only (sort_and_validate_phases).    *)
(***************************************************************************)
EXTENDS FaultInjector

CONSTANTS
    Specs,    \* the --fault-phase values that are five numbers
    Horizon   \* the scheduler steps of interest

(* The five numbers of a --fault-phase value. *)
RawSpec == [start_step : Nat, end_step : Nat \cup {NoEnd}, drop_every : Nat,
            delay_steps : Nat, reorder_window : Nat]

ASSUME SpecsAssumption == Specs \subseteq RawSpec
ASSUME HorizonAssumption == Horizon \subseteq Nat

VARIABLES
    phases,    \* FaultConfig.phases
    idx,       \* the phase the validation loop looks at next
    prev_end,  \* end_step of the phase before it; NoEnd before the first
    status     \* "parsing", "checking", "ok", or the error returned

fvars == <<phases, idx, prev_end, status>>

Init ==
    /\ phases = <<>>
    /\ idx = 1
    /\ prev_end = NoEnd
    /\ status = "parsing"

Fail(error) == status' = error /\ UNCHANGED <<phases, idx, prev_end>>

AsPhase(raw) ==
    [start_step |-> raw.start_step, end_step |-> raw.end_step,
     policy |-> [drop_every     |-> raw.drop_every,
                 delay_steps    |-> raw.delay_steps,
                 reorder_window |-> raw.reorder_window]]

(* Mutant: a window of zero is accepted. *)
parse_any_window(raw) ==
    /\ status = "parsing"
    /\ phases' = Append(phases, AsPhase(raw))
    /\ UNCHANGED <<idx, prev_end, status>>

(* A window of zero is refused; a drop_every of zero means no drops. *)
parse_fault_phase_spec(raw) ==
    /\ status = "parsing"
    /\ IF raw.reorder_window = 0
       THEN Fail("bad_spec")
       ELSE /\ phases' = Append(phases, AsPhase(raw))
            /\ UNCHANGED <<idx, prev_end, status>>

(* sort_by_key is stable: equal start steps keep their command-line order. *)
StableOrder(f, s) ==
    \A i, j \in DOMAIN s : i < j =>
        \/ s[f[i]].start_step < s[f[j]].start_step
        \/ s[f[i]].start_step = s[f[j]].start_step /\ f[i] < f[j]

Sort ==
    /\ status = "parsing"
    /\ \E f \in [DOMAIN phases -> DOMAIN phases] :
          /\ StableOrder(f, phases)
          /\ phases' = [i \in DOMAIN phases |-> phases[f[i]]]
    /\ status' = "checking"
    /\ UNCHANGED <<idx, prev_end>>

(* Mutants: touching phases allowed; adjacent phases refused; an open    *)
(* phase allowed anywhere.                                                 *)
Overlaps_Touching(phase) == prev_end # NoEnd /\ phase.start_step < prev_end
Overlaps_Adjacent(phase) == prev_end # NoEnd /\ phase.start_step <= prev_end + 1
OpenNotLast_Ignored == FALSE

(* The three checks of the loop body, in its order. *)
BadRange(phase) == phase.end_step # NoEnd /\ phase.end_step < phase.start_step
Overlaps(phase) == prev_end # NoEnd /\ phase.start_step <= prev_end
OpenNotLast     == prev_end = NoEnd /\ idx > 1

Check ==
    /\ status = "checking" /\ idx <= Len(phases)
    /\ LET phase == phases[idx]
       IN  IF BadRange(phase) \/ Overlaps(phase) \/ OpenNotLast
           THEN Fail("bad_phases")
           ELSE /\ idx' = idx + 1
                /\ prev_end' = phase.end_step
                /\ UNCHANGED <<phases, status>>

Accept ==
    /\ status = "checking" /\ idx > Len(phases)
    /\ status' = "ok"
    /\ UNCHANGED <<phases, idx, prev_end>>

Finished == status \in {"ok", "bad_spec", "bad_phases"} /\ UNCHANGED fvars

Next ==
    \/ \E raw \in Specs : parse_fault_phase_spec(raw)
    \/ Sort \/ Check \/ Accept \/ Finished

Spec == Init /\ [][Next]_fvars

------------------------------------------------------------------------------
(* Type correctness of the parsed schedule: what an accepted command line  *)
(* hands to the injector is a sequence of phases with windows of at least  *)
(* one.                                                                    *)
TypeOK ==
    /\ phases \in Seq(FaultPhase)
    /\ idx \in Nat \ {0}
    /\ prev_end \in Nat \cup {NoEnd}
    /\ status \in {"parsing", "checking", "ok", "bad_spec", "bad_phases"}

Shared(p, q) ==
    /\ p.end_step = NoEnd \/ q.start_step <= p.end_step
    /\ q.end_step = NoEnd \/ p.start_step <= q.end_step

Sound(s) ==
    /\ \A i \in DOMAIN s : ~BadRange(s[i])
    /\ \A i, j \in DOMAIN s : i # j => ~Shared(s[i], s[j])

(* Comparing neighbours only is enough: an accepted schedule has no empty  *)
(* range and no two phases, neighbours or not, that share a step.          *)
AcceptedIsSound == status = "ok" => Sound(phases)

(* And nothing is refused for another reason: a schedule the validation    *)
(* loop rejects does have an empty range or two phases that share a step.  *)
RejectedIsUnsound == status = "bad_phases" => ~Sound(phases)

(* policy_for_step lets the last active phase win; on an accepted schedule *)
(* that never matters: no step is claimed by two phases.                   *)
PolicyUnambiguous ==
    status = "ok" =>
        \A s \in Horizon : \A i, j \in DOMAIN phases :
            is_active(phases[i], s) /\ is_active(phases[j], s) => i = j

==============================================================================
