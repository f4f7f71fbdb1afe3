-------------------------- MODULE CommandLineProofs --------------------------
(***************************************************************************)
(* For every command line: the configuration parse_config builds is one    *)
(* the runtime can work with, its phases are sound, and it says what the   *)
(* command line says, as does the policy of every step.                    *)
(***************************************************************************)
EXTENDS CommandLine, FiniteSetTheorems, TLAPS

------------------------------------------------------------------------------
(***************************************************************************)
(* The validation loop of sort_and_validate_phases accepts exactly the     *)
(* schedules without empty ranges and shared steps, for every command line *)
(* of any length.                                                          *)
(***************************************************************************)

Checked == status \in {"checking", "ok", "bad_phases"}

(* What the sort establishes and the loop relies on. *)
SortedByStart ==
    Checked => \A h, j \in DOMAIN phases :
                   h < j => phases[h].start_step <= phases[j].start_step

(* What the loop has established about the phases before idx. *)
LoopInv ==
    Checked =>
        /\ idx <= Len(phases) + 1
        /\ prev_end = IF idx = 1 THEN NoEnd ELSE phases[idx - 1].end_step
        /\ \A h \in 1..(idx - 1) : ~BadRange(phases[h])
        /\ \A h \in 2..(idx - 1) : /\ phases[h - 1].end_step # NoEnd
                                   /\ phases[h - 1].end_step < phases[h].start_step

IInv ==
    /\ TypeOK
    /\ status = "parsing" => idx = 1 /\ prev_end = NoEnd
    /\ SortedByStart
    /\ LoopInv
    /\ status = "ok" => idx = Len(phases) + 1
    /\ RejectedIsUnsound

(* Every state of the phase handling is well typed. *)
LEMMA TypeStep == TypeOK /\ [Next]_fvars => TypeOK'
<1> SUFFICES ASSUME TypeOK, [Next]_fvars PROVE TypeOK'
    OBVIOUS
<1> USE DEF TypeOK
<1>1. CASE \E raw \in Specs : parse_fault_phase_spec(raw)
  <2>1. PICK raw \in Specs : parse_fault_phase_spec(raw)
    BY <1>1
  <2>2. raw.reorder_window # 0 => AsPhase(raw) \in FaultPhase
    BY SpecsAssumption DEF RawSpec, FaultPhase, FaultPolicy, AsPhase
  <2>3. CASE raw.reorder_window = 0
    BY <2>1, <2>3 DEF parse_fault_phase_spec, Fail
  <2>4. CASE raw.reorder_window # 0
    <3>1. phases' = Append(phases, AsPhase(raw)) /\ UNCHANGED <<idx, prev_end, status>>
      BY <2>1, <2>4 DEF parse_fault_phase_spec
    <3> QED
      BY <2>2, <2>4, <3>1
  <2> QED
    BY <2>3, <2>4
<1>2. CASE Sort
  <2>1. PICK f \in [DOMAIN phases -> DOMAIN phases] :
            phases' = [h \in DOMAIN phases |-> phases[f[h]]]
    BY <1>2 DEF Sort
  <2>2. phases' \in Seq(FaultPhase)
    <3>1. Len(phases) \in Nat /\ DOMAIN phases = 1..Len(phases)
      OBVIOUS
    <3>2. phases' = [h \in 1..Len(phases) |-> phases[f[h]]]
      BY <2>1, <3>1
    <3>3. \A h \in 1..Len(phases) : phases[f[h]] \in FaultPhase
      BY <3>1
    <3> QED
      BY <3>1, <3>2, <3>3
  <2> QED
    BY <1>2, <2>2 DEF Sort
<1>3. CASE Check
  <2>1. idx <= Len(phases) => phases[idx] \in FaultPhase
    OBVIOUS
  <2> QED
    BY <1>3, <2>1 DEF Check, Fail, FaultPhase
<1>4. CASE Accept
  BY <1>4 DEF Accept
<1>5. CASE Finished
  BY <1>5 DEF Finished, fvars
<1>6. CASE UNCHANGED fvars
  BY <1>6 DEF fvars
<1> QED
  BY <1>1, <1>2, <1>3, <1>4, <1>5, <1>6 DEF Next

(* Initial states satisfy the inductive invariant. *)
LEMMA InitIInv == Init => IInv
  BY DEF Init, IInv, TypeOK, Checked, SortedByStart, LoopInv, RejectedIsUnsound

(* The steps of a phase that parse_fault_phase_spec produced are numbers,  *)
(* the end possibly open.                                                  *)
LEMMA PhaseFields ==
    TypeOK => \A h \in DOMAIN phases : /\ phases[h].start_step \in Nat
                                       /\ phases[h].end_step \in Nat \cup {NoEnd}
<1> SUFFICES ASSUME TypeOK, NEW h \in DOMAIN phases
             PROVE  /\ phases[h].start_step \in Nat
                    /\ phases[h].end_step \in Nat \cup {NoEnd}
    OBVIOUS
<1>1. phases[h] \in FaultPhase
  BY DEF TypeOK
<1> QED
  BY <1>1 DEF FaultPhase

(* The loop body keeps what the earlier iterations established, and what   *)
(* it refuses is refused for a reason: with the ranges before idx in       *)
(* order, a failed comparison with the predecessor exhibits a shared step. *)
LEMMA CheckStep == IInv /\ Check => IInv'
<1> SUFFICES ASSUME IInv, Check PROVE IInv'
    OBVIOUS
<1> DEFINE phase == phases[idx]
<1>1. TypeOK'
  BY TypeStep DEF IInv, Next
<1>2. /\ status = "checking" /\ Checked
      /\ idx \in DOMAIN phases
      /\ phases \in Seq(FaultPhase)
      /\ phases' = phases
      /\ \A h \in DOMAIN phases : /\ phases[h].start_step \in Nat
                                  /\ phases[h].end_step \in Nat \cup {NoEnd}
  BY PhaseFields DEF IInv, TypeOK, Check, Checked, Fail
<1>3. CASE BadRange(phase) \/ Overlaps(phase) \/ OpenNotLast
  <2>1. status' = "bad_phases" /\ UNCHANGED <<idx, prev_end>>
    BY <1>3 DEF Check, Fail
  <2>2. ~Sound(phases)
    <3>1. CASE BadRange(phase)
      BY <1>2, <3>1 DEF Sound
    <3>2. CASE ~BadRange(phase) /\ (Overlaps(phase) \/ OpenNotLast)
      <4>1. idx > 1 /\ idx - 1 \in DOMAIN phases
        BY <1>2, <3>2 DEF Overlaps, OpenNotLast, IInv, LoopInv, TypeOK, NoEnd
      <4>2. prev_end = phases[idx - 1].end_step
        BY <1>2, <4>1 DEF IInv, LoopInv
      <4>3. phases[idx - 1].start_step <= phase.start_step
        BY <1>2, <4>1 DEF IInv, SortedByStart
      <4>4. Shared(phases[idx - 1], phase)
        BY <1>2, <3>2, <4>1, <4>2, <4>3
           DEF Shared, BadRange, Overlaps, OpenNotLast, NoEnd
      <4> QED
        BY <1>2, <4>1, <4>4 DEF Sound
    <3> QED
      BY <1>3, <3>1, <3>2
  <2>3. RejectedIsUnsound'
    BY <1>2, <2>2 DEF RejectedIsUnsound, Sound, BadRange, Shared
  <2>4. SortedByStart' /\ LoopInv'
    BY <1>2, <2>1 DEF IInv, SortedByStart, LoopInv, Checked, BadRange
  <2> QED
    BY <1>1, <2>1, <2>3, <2>4 DEF IInv
<1>4. CASE ~(BadRange(phase) \/ Overlaps(phase) \/ OpenNotLast)
  <2>1. /\ idx' = idx + 1 /\ prev_end' = phase.end_step
        /\ status' = status
    BY <1>4 DEF Check
  <2>2. SortedByStart'
    BY <1>2, <2>1 DEF IInv, SortedByStart, Checked
  <2>3. idx > 1 => /\ phases[idx - 1].end_step # NoEnd
                   /\ phases[idx - 1].end_step < phase.start_step
    BY <1>2, <1>4 DEF IInv, LoopInv, Overlaps, OpenNotLast, TypeOK, NoEnd
  <2>4. LoopInv'
    <3>1. /\ idx' <= Len(phases') + 1
          /\ prev_end' = IF idx' = 1 THEN NoEnd ELSE phases'[idx' - 1].end_step
      BY <1>2, <2>1
    <3>2. \A h \in 1..(idx' - 1) : ~BadRange(phases'[h])
      <4> SUFFICES ASSUME NEW h \in 1..(idx' - 1) PROVE ~BadRange(phases[h])
          BY <1>2
      <4>1. h \in 1..(idx - 1) \/ h = idx
        BY <1>2, <2>1
      <4> QED
        BY <1>2, <1>4, <4>1 DEF IInv, LoopInv
    <3>3. \A h \in 2..(idx' - 1) :
              /\ phases'[h - 1].end_step # NoEnd
              /\ phases'[h - 1].end_step < phases'[h].start_step
      <4> SUFFICES ASSUME NEW h \in 2..(idx' - 1)
                   PROVE  /\ phases[h - 1].end_step # NoEnd
                          /\ phases[h - 1].end_step < phases[h].start_step
          BY <1>2
      <4>1. h \in 2..(idx - 1) \/ (h = idx /\ idx > 1)
        BY <1>2, <2>1
      <4> QED
        BY <1>2, <2>3, <4>1 DEF IInv, LoopInv
    <3> QED
      BY <3>1, <3>2, <3>3 DEF LoopInv, BadRange
  <2> QED
    BY <1>1, <1>2, <2>1, <2>2, <2>4 DEF IInv, RejectedIsUnsound
<1> QED
  BY <1>3, <1>4

(* Every step preserves the inductive invariant. *)
LEMMA NextIInv == IInv /\ [Next]_fvars => IInv'
<1> SUFFICES ASSUME IInv, [Next]_fvars PROVE IInv'
    OBVIOUS
<1>0. TypeOK /\ TypeOK'
  BY TypeStep DEF IInv
<1>1. CASE \E raw \in Specs : parse_fault_phase_spec(raw)
  <2>1. /\ status = "parsing" /\ idx' = idx /\ prev_end' = prev_end
        /\ status' \in {"parsing", "bad_spec"}
    BY <1>1 DEF parse_fault_phase_spec, Fail
  <2> QED
    BY <1>0, <2>1 DEF IInv, SortedByStart, LoopInv, Checked, RejectedIsUnsound
<1>2. CASE Sort
  <2>1. PICK f \in [DOMAIN phases -> DOMAIN phases] :
            /\ StableOrder(f, phases)
            /\ phases' = [h \in DOMAIN phases |-> phases[f[h]]]
    BY <1>2 DEF Sort
  <2>2. status = "parsing" /\ status' = "checking" /\ idx' = 1 /\ prev_end' = NoEnd
    BY <1>2 DEF Sort, IInv
  <2>3. SortedByStart'
    <3> SUFFICES ASSUME NEW h \in DOMAIN phases, NEW j \in DOMAIN phases, h < j
                 PROVE  phases[f[h]].start_step <= phases[f[j]].start_step
        BY <2>1 DEF SortedByStart
    <3>1. /\ phases[f[h]].start_step \in Nat
          /\ phases[f[j]].start_step \in Nat
      BY <1>0, PhaseFields
    <3> QED
      BY <2>1, <3>1 DEF StableOrder
  <2>4. LoopInv'
    BY <1>0, <2>2 DEF LoopInv, TypeOK
  <2> QED
    BY <1>0, <2>2, <2>3, <2>4 DEF IInv, RejectedIsUnsound
<1>3. CASE Check
  BY <1>3, CheckStep
<1>4. CASE Accept
  <2>1. /\ status = "checking" /\ status' = "ok" /\ idx > Len(phases)
        /\ UNCHANGED <<phases, idx, prev_end>>
    BY <1>4 DEF Accept
  <2>2. idx = Len(phases) + 1
    BY <1>0, <2>1 DEF IInv, LoopInv, Checked, TypeOK
  <2> QED
    BY <1>0, <2>1, <2>2
       DEF IInv, SortedByStart, LoopInv, Checked, RejectedIsUnsound, BadRange
<1>5. CASE Finished \/ UNCHANGED fvars
  <2>1. UNCHANGED fvars
    BY <1>5 DEF Finished
  <2> QED
    BY <1>0, <2>1 DEF fvars, IInv, SortedByStart, LoopInv, Checked,
                      RejectedIsUnsound, Sound, BadRange, Shared
<1> QED
  BY <1>1, <1>2, <1>3, <1>4, <1>5 DEF Next

(* Comparing each phase with its predecessor separates every pair: the     *)
(* sort puts start_step of phase i+1 between the end of phase i and the    *)
(* start of any later phase.                                               *)
LEMMA IInvSound == IInv => AcceptedIsSound
<1> SUFFICES ASSUME IInv, status = "ok" PROVE Sound(phases)
    BY DEF AcceptedIsSound
<1>1. /\ Checked
      /\ idx = Len(phases) + 1
      /\ phases \in Seq(FaultPhase)
      /\ \A h \in DOMAIN phases : /\ phases[h].start_step \in Nat
                                  /\ phases[h].end_step \in Nat \cup {NoEnd}
  BY PhaseFields DEF IInv, TypeOK, Checked
<1>2. \A h \in DOMAIN phases : ~BadRange(phases[h])
  BY <1>1 DEF IInv, LoopInv
<1>3. ASSUME NEW h \in DOMAIN phases, NEW j \in DOMAIN phases, h < j
      PROVE  phases[h].end_step # NoEnd /\ phases[h].end_step < phases[j].start_step
  <2>1. h + 1 \in 2..(idx - 1) /\ h + 1 \in DOMAIN phases /\ (h + 1) - 1 = h
    BY <1>1, <1>3
  <2>2. phases[h].end_step # NoEnd /\ phases[h].end_step < phases[h + 1].start_step
    BY <1>1, <2>1 DEF IInv, LoopInv
  <2>3. phases[h + 1].start_step <= phases[j].start_step
    BY <1>1, <1>3, <2>1 DEF IInv, SortedByStart
  <2> QED
    BY <1>1, <2>1, <2>2, <2>3 DEF NoEnd
<1>4. ASSUME NEW h \in DOMAIN phases, NEW j \in DOMAIN phases, h # j
      PROVE  ~Shared(phases[h], phases[j])
  BY <1>1, <1>3, <1>4 DEF Shared, NoEnd
<1> QED
  BY <1>2, <1>4 DEF Sound

(* Disjoint phases leave no step with two active ones. *)
LEMMA SoundUnambiguous == TypeOK /\ AcceptedIsSound => PolicyUnambiguous
<1> SUFFICES ASSUME TypeOK, AcceptedIsSound, status = "ok",
                    NEW s \in Horizon,
                    NEW h \in DOMAIN phases, NEW j \in DOMAIN phases,
                    is_active(phases[h], s), is_active(phases[j], s),
                    h # j
             PROVE  FALSE
    BY DEF PolicyUnambiguous
<1>1. s \in Nat
  BY HorizonAssumption
<1>2. ~Shared(phases[h], phases[j])
  BY DEF AcceptedIsSound, Sound
<1>3. phases[h] \in FaultPhase /\ phases[j] \in FaultPhase
  BY DEF TypeOK
<1> QED
  BY <1>1, <1>2, <1>3 DEF Shared, is_active, FaultPhase, NoEnd

(* The inductive invariant holds throughout parsing and validation. *)
THEOREM InvariantHolds == Spec => []IInv
  BY InitIInv, NextIInv, PTL DEF Spec

(* Type correctness of parse_config's phase handling, for every command    *)
(* line.                                                                   *)
THEOREM TypeCorrect == Spec => []TypeOK
<1>1. IInv => TypeOK
  BY DEF IInv
<1> QED
  BY <1>1, InvariantHolds, PTL

(* What sort_and_validate_phases accepts has no empty range and no step    *)
(* that two phases share.                                                  *)
THEOREM AcceptedSchedulesAreSound == Spec => []AcceptedIsSound
  BY IInvSound, InvariantHolds, PTL

(* What it refuses has one or the other.                                   *)
THEOREM RejectedSchedulesAreUnsound == Spec => []RejectedIsUnsound
<1>1. IInv => RejectedIsUnsound
  BY DEF IInv
<1> QED
  BY <1>1, InvariantHolds, PTL

(* On every schedule the node accepts, at most one phase is active at any  *)
(* step, so the order in which policy_for_step scans them is irrelevant.   *)
THEOREM PolicyIsUnambiguous == Spec => []PolicyUnambiguous
<1>1. IInv => PolicyUnambiguous
  BY IInvSound, SoundUnambiguous DEF IInv
<1> QED
  BY <1>1, InvariantHolds, PTL

------------------------------------------------------------------------------

(* An option that is understood leaves a configuration behind. *)
LEMMA FieldTyped ==
    ASSUME NEW option \in FieldOptions, NEW w \in Text, config \in Config,
           Parsed(option, w) # <<>>
    PROVE  [config EXCEPT ![Field(option)] = Parsed(option, w)[1]] \in Config
<1> USE DEF FieldOptions, TextOptions, NumberOptions, AtLeastOne
<1>1. CASE option \in {"--program", "--trace"}
  <2>1. Parsed(option, w)[1] = w /\ Field(option) \in {"program_path", "trace_path"}
    BY <1>1 DEF Parsed, Field
  <2> QED
    BY <2>1 DEF Config
<1>2. CASE option = "--listen"
  <2>1. Parsed(option, w)[1] = <<w>> /\ Field(option) = "listen"
    BY <1>2 DEF Parsed, Field
  <2>2. <<w>> \in {o \in Seq(Text) : Len(o) <= 1}
    OBVIOUS
  <2> QED
    BY <2>1, <2>2 DEF Config
<1>3. CASE option = "--node-id"
  <2>1. Parsed(option, w) = Id(w) /\ Field(option) = "node_id"
    BY <1>3 DEF Parsed, Field
  <2>2. Id(w)[1] \in Ids
    BY <2>1 DEF Id, Ids, Range
  <2> QED
    BY <2>1, <2>2 DEF Config
<1>4. CASE option \in AtLeastOne
  <2>1. /\ Field(option) \in {"bootstrap_burst", "reorder_window"}
        /\ Parsed(option, w) = Number(w) /\ Number(w) # <<0>>
    BY <1>4 DEF Parsed, Field
  <2>2. Number(w)[1] \in Nat \ {0}
    BY <2>1, TextAssumption DEF Number
  <2> QED
    BY <2>1, <2>2 DEF Config
<1>5. CASE option \in NumberOptions \ AtLeastOne
  <2>1. /\ Field(option) \in {"steps", "idle_sleep_ms", "startup_wait_ms",
                              "drop_every", "delay_steps"}
        /\ Parsed(option, w) = Number(w)
    BY <1>5 DEF Parsed, Field
  <2>2. Number(w)[1] \in Nat
    BY <2>1, TextAssumption DEF Number
  <2> QED
    BY <2>1, <2>2 DEF Config
<1> QED
  BY <1>1, <1>2, <1>3, <1>4, <1>5

CInv == ConfigOK /\ args \in Lines

(* parse_config starts from defaults of the right types. *)
LEMMA InitCInv == CInit => CInv
<1> SUFFICES ASSUME CInit PROVE CInv
    OBVIOUS
<1>1. args \in Lines /\ args \in Seq(Text) /\ i = 1 /\ outcome = "none"
  BY LinesAssumption DEF CInit
<1>2. PICK id \in Drawn : config = DefaultConfig(id)
  BY DEF CInit
<1>3. config \in Config
  <2>1. id \in Ids /\ <<>> \in {o \in Seq(Text) : Len(o) <= 1}
    BY DEF Ids
  <2> QED
    BY <1>2, <2>1, TextAssumption DEF DefaultConfig, Config, NoDrop
<1>4. DOMAIN peers \subseteq Range(Uuid) /\ Range(peers) \subseteq Text
  BY DEF CInit, Range
<1> QED
  BY <1>1, <1>3, <1>4 DEF CInv, ConfigOK

(* Every argument the loop looks at, and the one behind it, is a string. *)
LEMMA ArgTyped ==
    ASSUME CInv, NEW option, Takes(option)
    PROVE  /\ i + 1 \in DOMAIN args /\ args[i + 1] \in Text
           /\ i + 2 \in 1..(Len(args) + 1)
  BY DEF CInv, ConfigOK, Takes, Looking

(* Every step keeps the configuration well typed. *)
LEMMA StepCInv == CInv /\ [CNext]_vars => CInv'
<1> SUFFICES ASSUME CInv, [CNext]_vars PROVE CInv'
    OBVIOUS
<1> USE DEF CInv, ConfigOK
<1>1. CASE Help \/ MissingValue \/ UnknownArgument
  BY <1>1 DEF Help, MissingValue, UnknownArgument, Refuse
<1>2. CASE ReplayFlag \/ BootstrapFlag
  <2>1. config' \in Config
    BY <1>2, SMTT(60), ZenonT(30) DEF ReplayFlag, BootstrapFlag, Config
  <2> QED
    BY <1>2, <2>1 DEF ReplayFlag, BootstrapFlag, Advance, Looking
<1>3. CASE \E option \in FieldOptions : SetField(option)
  <2>1. PICK option \in FieldOptions : SetField(option)
    BY <1>3
  <2>2. CASE Parsed(option, args[i + 1]) = <<>>
    BY <2>1, <2>2 DEF SetField, Refuse
  <2>3. CASE Parsed(option, args[i + 1]) # <<>>
    <3>1. /\ Takes(option) /\ Advance(2) /\ UNCHANGED peers
          /\ config' = [config EXCEPT ![Field(option)] = Parsed(option, args[i + 1])[1]]
      BY <2>1, <2>3 DEF SetField
    <3>2. args[i + 1] \in Text /\ i + 2 \in 1..(Len(args) + 1)
      BY <3>1, ArgTyped
    <3>3. config' \in Config
      BY <2>3, <3>1, <3>2, FieldTyped
    <3> QED
      BY <3>1, <3>2, <3>3 DEF Advance
  <2> QED
    BY <2>2, <2>3
<1>4. CASE AddPeer
  <2> DEFINE peer == parse_peer_spec(args[i + 1])
  <2>1. CASE peer = <<>>
    BY <1>4, <2>1 DEF AddPeer, Refuse
  <2>2. CASE peer # <<>>
    <3>1. /\ Takes("--peer") /\ Advance(2) /\ UNCHANGED config
          /\ peers' = [id \in DOMAIN peers \cup {peer[1].id} |->
                          IF id = peer[1].id THEN peer[1].addr ELSE peers[id]]
      BY <1>4, <2>2 DEF AddPeer
    <3>2. peer[1].id \in Range(Uuid) /\ peer[1].addr \in Text
      BY <2>2, TextAssumption DEF parse_peer_spec, Range
    <3>3. DOMAIN peers' \subseteq Range(Uuid) /\ Range(peers') \subseteq Text
      BY <3>1, <3>2 DEF Range
    <3>4. i + 2 \in 1..(Len(args) + 1)
      BY <3>1, ArgTyped
    <3> QED
      BY <3>1, <3>3, <3>4 DEF Advance
  <2> QED
    BY <2>1, <2>2
<1>5. CASE AddPhase
  <2>1. CASE UNCHANGED <<args, i, config, peers>> /\ outcome' = "bad_value"
    BY <2>1
  <2>2. CASE Takes("--fault-phase") /\ Advance(2) /\ UNCHANGED <<config, peers>>
    BY <2>2, ArgTyped DEF Advance
  <2> QED
    BY <1>5, <2>1, <2>2 DEF AddPhase, Refuse
<1>6. CASE Validate \/ Stay \/ UNCHANGED vars
  BY <1>6 DEF Validate, Stay, vars
<1> QED
  BY <1>1, <1>2, <1>3, <1>4, <1>5, <1>6 DEF CNext

(* The configuration is well typed in every state, for every command line: *)
(* windows and bursts are at least one.                                    *)
THEOREM ConfigIsUsable == CSpec => []ConfigOK
<1>1. CInv => ConfigOK
  BY DEF CInv
<1> QED
  BY <1>1, InitCInv, StepCInv, PTL DEF CSpec

(* A step of the walk is a step of FaultPhases or leaves its variables     *)
(* alone.  The specification of a phase is among those FaultPhases knows.  *)
LEMMA StepImplements ==
    CInv /\ [CNext]_vars => [Next]_fvars
<1> SUFFICES ASSUME CInv, [CNext]_vars PROVE [Next]_fvars
    OBVIOUS
<1>1. CASE Help \/ MissingValue \/ UnknownArgument
  BY <1>1 DEF Help, MissingValue, UnknownArgument, Refuse
<1>2. CASE ReplayFlag \/ BootstrapFlag
  BY <1>2 DEF ReplayFlag, BootstrapFlag, Advance
<1>3. CASE \E option \in FieldOptions : SetField(option)
  BY <1>3 DEF SetField, Refuse, Advance
<1>4. CASE AddPeer
  BY <1>4 DEF AddPeer, Refuse, Advance
<1>5. CASE AddPhase
  <2> DEFINE spec == PhaseSpec(args[i + 1])
  <2>1. CASE spec = <<>>
    BY <1>5, <2>1 DEF AddPhase, Refuse
  <2>2. CASE spec # <<>>
    <3>1. parse_fault_phase_spec(spec[1])
      BY <1>5, <2>2 DEF AddPhase
    <3>2. i + 1 \in DOMAIN args
      BY <1>5, ArgTyped DEF AddPhase
    <3>3. spec[1] \in Specs
      BY <2>2, <3>2, PhaseSpecAssumption DEF CInv
    <3> QED
      BY <3>1, <3>3 DEF Next
  <2> QED
    BY <2>1, <2>2
<1>6. CASE Validate
  BY <1>6 DEF Validate, Next
<1>7. CASE Stay \/ UNCHANGED vars
  BY <1>7 DEF Stay, vars
<1> QED
  BY <1>1, <1>2, <1>3, <1>4, <1>5, <1>6, <1>7 DEF CNext

(* So what was proved of FaultPhases holds of the walk.                    *)
LEMMA ScheduleSteps == CSpec => Spec
<1>1. CInit => Init
  BY DEF CInit
<1> QED
  BY <1>1, InitCInv, StepCInv, StepImplements, PTL DEF CSpec, Spec

(* Whatever schedule parse_config accepts has no empty range and no step   *)
(* that two phases share.                                                  *)
THEOREM AcceptedConfigIsSound == CSpec => []AcceptedIsSound
  BY ScheduleSteps, AcceptedSchedulesAreSound, PTL

(* And it refuses a schedule only for an empty range or a shared step.     *)
THEOREM RejectedConfigIsUnsound == CSpec => []RejectedIsUnsound
  BY ScheduleSteps, RejectedSchedulesAreUnsound, PTL

(* On a schedule it accepts at most one phase is active at any step.       *)
THEOREM ConfigIsUnambiguous == CSpec => []PolicyUnambiguous
  BY ScheduleSteps, PolicyIsUnambiguous, PTL

------------------------------------------------------------------------------
(***************************************************************************)
(* The walk over the arguments reads as options exactly those that are.    *)
(***************************************************************************)
(* The options already read, and the uses of one of them.                  *)
Read == {k \in 1..(i - 1) : OptionAt(k)}
Used(option) == {k \in Read : args[k] = option}

WhyRefused ==
    IF args[i] \in {"--help", "-h"} THEN "usage"
    ELSE IF args[i] \notin ValueOptions THEN "unknown_argument"
    ELSE IF i = Len(args) THEN "missing_value"
    ELSE "bad_value"

BadWindow == \E k \in Read : args[k] = "--fault-phase" /\ PhaseAt(k).reorder_window = 0

FieldSays(option) ==
    IF Used(option) = {}
    THEN \E id \in Drawn : config[Field(option)] = DefaultConfig(id)[Field(option)]
    ELSE <<config[Field(option)]>> = Parsed(option, args[Max(Used(option)) + 1])

(* Where the walk is, and how it ends. *)
WalkInv ==
    /\ OptionAt(i)
    /\ \A k \in Read : Understood(k)
    /\ status \in {"parsing", "checking", "ok", "bad_spec", "bad_phases"}
    /\ status \notin {"parsing", "bad_spec"} => i = Len(args) + 1 /\ outcome = "none"
    /\ outcome # "none" =>
          status = "parsing" /\ i <= Len(args) /\ ~Understood(i) /\ outcome = WhyRefused
    /\ status = "bad_spec" <=> BadWindow

(* What the options read so far have set. *)
FieldsInv ==
    /\ config.mode = IF Used("--replay") = {} THEN "Record" ELSE "Replay"
    /\ config.bootstrap_hello = (Used("--bootstrap-hello") # {})
    /\ \A option \in FieldOptions : FieldSays(option)

PeersInv ==
    /\ DOMAIN peers = {PeerAt(k).id : k \in Used("--peer")}
    /\ \A id \in DOMAIN peers :
          peers[id] = PeerAt(Max({k \in Used("--peer") : PeerAt(k).id = id})).addr

PhasesInv ==
    status # "bad_spec" =>
        /\ Len(phases) = Cardinality(Used("--fault-phase"))
        /\ Range(phases) = {AsPhase(PhaseAt(k)) : k \in Used("--fault-phase")}

ReadInv == WalkInv /\ FieldsInv /\ PeersInv /\ PhasesInv

------------------------------------------------------------------------------
(* The command line stays what it is, and so does what it says. *)
LEMMA SameArgs ==
    ASSUME args' = args
    PROVE  /\ \A k : OptionAt(k)' <=> OptionAt(k)
           /\ \A k : Understood(k)' <=> Understood(k)
           /\ \A k : PhaseAt(k)' = PhaseAt(k) /\ PeerAt(k)' = PeerAt(k)
<1>1. \A k : Run(k)' = Run(k)
  BY DEF Run
<1>2. \A k : OptionAt(k)' <=> OptionAt(k)
  BY <1>1 DEF OptionAt
<1>3. \A k : Understood(k)' <=> Understood(k)
  BY DEF Understood
<1>4. \A k : PhaseAt(k)' = PhaseAt(k) /\ PeerAt(k)' = PeerAt(k)
  BY DEF PhaseAt, PeerAt
<1> QED
  BY <1>2, <1>3, <1>4

(* Behind an option comes an option, or its value and then an option.      *)
LEMMA OptionsAlternate ==
    ASSUME NEW k \in Nat \ {0}, OptionAt(k)
    PROVE  /\ args[k] \notin ValueOptions => OptionAt(k + 1)
           /\ args[k] \in ValueOptions => ~OptionAt(k + 1) /\ OptionAt(k + 2)
<1>1. \A n \in Nat \ {0} : /\ Run(n) \subseteq 1..(n - 1)
                           /\ IsFiniteSet(Run(n)) /\ Cardinality(Run(n)) \in Nat
  <2> SUFFICES ASSUME NEW n \in Nat \ {0}
               PROVE  /\ Run(n) \subseteq 1..(n - 1)
                      /\ IsFiniteSet(Run(n)) /\ Cardinality(Run(n)) \in Nat
      OBVIOUS
  <2>1. Run(n) \subseteq 1..(n - 1)
    BY DEF Run
  <2>2. IsFiniteSet(1..(n - 1))
    BY FS_Interval
  <2>3. IsFiniteSet(Run(n))
    BY <2>1, <2>2, FS_Subset
  <2> QED
    BY <2>1, <2>3, FS_CardinalityType
<1>2. ASSUME NEW n \in Nat \ {0}, args[n] \notin ValueOptions
      PROVE  OptionAt(n + 1)
  <2>1. Run(n + 1) = {}
    BY <1>2 DEF Run
  <2>2. Cardinality(Run(n + 1)) = 0
    BY <2>1, FS_EmptySet
  <2> QED
    BY <2>2 DEF OptionAt
<1>3. ASSUME NEW n \in Nat \ {0}, args[n] \in ValueOptions
      PROVE  OptionAt(n + 1) <=> ~OptionAt(n)
  <2>1. Run(n + 1) = Run(n) \cup {n}
    <3>1. \A j \in 1..n : j \in Run(n + 1) <=> j \in Run(n) \cup {n}
      BY <1>3 DEF Run
    <3>2. Run(n + 1) \subseteq 1..n /\ Run(n) \subseteq 1..n
      BY DEF Run
    <3> QED
      BY <3>1, <3>2
  <2>2. n \notin Run(n)
    BY <1>1
  <2>3. Cardinality(Run(n + 1)) = Cardinality(Run(n)) + 1
    BY <1>1, <2>1, <2>2, FS_AddElement
  <2>4. \A c \in Nat : (c + 1) % 2 = 0 <=> ~(c % 2 = 0)
    OBVIOUS
  <2> QED
    BY <1>1, <2>3, <2>4 DEF OptionAt
<1>4. CASE args[k] \notin ValueOptions
  BY <1>2, <1>4
<1>5. CASE args[k] \in ValueOptions
  <2>1. ~OptionAt(k + 1)
    BY <1>3, <1>5
  <2>2. CASE args[k + 1] \in ValueOptions
    <3>1. OptionAt((k + 1) + 1)
      BY <1>3, <2>1, <2>2
    <3> QED
      BY <1>5, <2>1, <3>1
  <2>3. CASE args[k + 1] \notin ValueOptions
    <3>1. OptionAt((k + 1) + 1)
      BY <1>2, <2>3
    <3> QED
      BY <1>5, <2>1, <3>1
  <2> QED
    BY <2>2, <2>3
<1> QED
  BY <1>4, <1>5

(* An option that is understood, with its value if it takes one.           *)
Width == IF args[i] \in ValueOptions THEN 2 ELSE 1
Consumed == Looking /\ Understood(i) /\ args' = args /\ i' = i + Width

LEMMA ConsumedRead ==
    ASSUME CInv, OptionAt(i), Consumed
    PROVE  /\ OptionAt(i)'
           /\ Read' = Read \cup {i}
           /\ \A option : Used(option)' =
                 IF args[i] = option THEN Used(option) \cup {i} ELSE Used(option)
<1>1. i \in Nat \ {0} /\ i <= Len(args) /\ args' = args /\ i' = i + Width
  BY DEF CInv, ConfigOK, Consumed, Looking
<1>2. OptionAt(i + Width)
  BY <1>1, OptionsAlternate DEF Width
<1>3. \A k : OptionAt(k)' <=> OptionAt(k)
  BY <1>1, SameArgs
<1>4. \A k : k \in 1..(i' - 1) /\ OptionAt(k) <=> k \in 1..i /\ OptionAt(k)
  <2>1. CASE args[i] \in ValueOptions
    <3>1. ~OptionAt(i + 1) /\ i' - 1 = i + 1
      BY <1>1, <2>1, OptionsAlternate DEF Width
    <3> QED
      BY <1>1, <3>1
  <2>2. CASE args[i] \notin ValueOptions
    BY <1>1, <2>2 DEF Width
  <2> QED
    BY <2>1, <2>2
<1>5. Read' = {k \in 1..i : OptionAt(k)}
  <2>1. Read' = {k \in 1..(i' - 1) : OptionAt(k)'}
    BY DEF Read
  <2>2. \A k : k \in Read' <=> k \in 1..i /\ OptionAt(k)
    BY <1>3, <1>4, <2>1
  <2> QED
    BY <2>2
<1>6. Read' = Read \cup {i}
  <2>1. \A k : k \in 1..i <=> k \in 1..(i - 1) \/ k = i
    BY <1>1
  <2> QED
    BY <1>5, <2>1 DEF Read
<1>7. ASSUME NEW option
      PROVE  Used(option)' = IF args[i] = option THEN Used(option) \cup {i} ELSE Used(option)
  <2>1. Used(option)' = {k \in Read' : args[k] = option}
    BY <1>1 DEF Used
  <2> QED
    BY <1>6, <2>1 DEF Used
<1>8. OptionAt(i)'
  <2>1. OptionAt(i)' <=> OptionAt(i + Width)
    <3>1. Run(i)' = Run(i + Width)
      BY <1>1 DEF Run
    <3> QED
      BY <3>1 DEF OptionAt
  <2> QED
    BY <1>2, <2>1
<1> QED
  BY <1>6, <1>7, <1>8

(* Where the loop does not move, nothing is read.                          *)
LEMMA SameRead ==
    ASSUME UNCHANGED <<args, i>>
    PROVE  /\ OptionAt(i)' <=> OptionAt(i)
           /\ Read' = Read
           /\ \A option : Used(option)' = Used(option)
           /\ Understood(i)' <=> Understood(i)
           /\ WhyRefused' = WhyRefused
<1>1. Run(i)' = Run(i)
  BY DEF Run
<1>2. \A k : OptionAt(k)' <=> OptionAt(k)
  BY SameArgs
<1>3. Read' = Read
  BY <1>2 DEF Read
<1>4. \A option : Used(option)' = Used(option)
  BY <1>3 DEF Used
<1>5. Understood(i)' <=> Understood(i)
  BY DEF Understood
<1>6. WhyRefused' = WhyRefused
  BY DEF WhyRefused
<1> QED
  BY <1>1, <1>3, <1>4, <1>5, <1>6 DEF OptionAt

LEMMA MaxAdded ==
    ASSUME NEW n \in Nat, NEW S \in SUBSET (1..(n - 1))
    PROVE  Max(S \cup {n}) = n
<1>1. n \in S \cup {n} /\ \A y \in S \cup {n} : n >= y
  OBVIOUS
<1>2. \A x \in S \cup {n} : (\A y \in S \cup {n} : x >= y) => x = n
  OBVIOUS
<1> QED
  BY <1>1, <1>2 DEF Max

(* An option that is understood moves the walk on; a window of zero ends   *)
(* it behind the option.                                                   *)
LEMMA WalkConsumed ==
    ASSUME CInv, WalkInv, Consumed, outcome' = outcome,
           status' = IF args[i] = "--fault-phase" /\ PhaseAt(i).reorder_window = 0
                     THEN "bad_spec" ELSE status
    PROVE  WalkInv'
<1>1. /\ OptionAt(i)' /\ Read' = Read \cup {i}
      /\ status = "parsing" /\ outcome = "none" /\ args' = args
      /\ \A k : (Understood(k)' <=> Understood(k)) /\ PhaseAt(k)' = PhaseAt(k)
  BY ConsumedRead, SameArgs DEF WalkInv, Consumed, Looking
<1>2. \A k \in Read' : Understood(k)'
  BY <1>1 DEF WalkInv, Consumed
<1>3. BadWindow' <=>
         BadWindow \/ (args[i] = "--fault-phase" /\ PhaseAt(i).reorder_window = 0)
  <2> DEFINE Bad(k) == args[k] = "--fault-phase" /\ PhaseAt(k).reorder_window = 0
  <2>1. BadWindow <=> \E k \in Read : Bad(k)
    BY DEF BadWindow
  <2>2. BadWindow' <=> \E k \in Read \cup {i} : Bad(k)
    <3>1. BadWindow' <=> \E k \in Read' : args'[k] = "--fault-phase"
                              /\ PhaseSpec(args'[k + 1])[1].reorder_window = 0
      BY DEF BadWindow, PhaseAt
    <3>2. \A k : Bad(k) <=> /\ args'[k] = "--fault-phase"
                            /\ PhaseSpec(args'[k + 1])[1].reorder_window = 0
      BY <1>1 DEF PhaseAt
    <3> HIDE DEF Bad
    <3> QED
      BY <1>1, <3>1, <3>2
  <2> HIDE DEF Bad
  <2>3. BadWindow' <=> BadWindow \/ Bad(i)
    BY <2>1, <2>2
  <2> QED
    BY <2>3 DEF Bad
<1>4. ~BadWindow
  BY <1>1 DEF WalkInv
<1> QED
  BY <1>1, <1>2, <1>3, <1>4 DEF WalkInv

(* A refusal tells what is wrong with the argument in hand.                *)
LEMMA WalkRefused ==
    ASSUME WalkInv, Looking, ~Understood(i), Refuse(WhyRefused)
    PROVE  WalkInv'
<1>1. UNCHANGED <<args, i, status>>
  BY DEF Refuse, fvars
<1>2. /\ OptionAt(i)' <=> OptionAt(i)
      /\ Read' = Read
      /\ Understood(i)' <=> Understood(i)
      /\ WhyRefused' = WhyRefused
      /\ \A k : (Understood(k)' <=> Understood(k)) /\ PhaseAt(k)' = PhaseAt(k)
  BY <1>1, SameRead, SameArgs
<1>3. BadWindow' <=> BadWindow
  BY <1>1, <1>2 DEF BadWindow
<1> QED
  BY <1>1, <1>2, <1>3 DEF WalkInv, Looking, Refuse

(* The options that set no field leave every field as it is.               *)
LEMMA FieldsKept ==
    ASSUME FieldsInv, args' = args, config' = config,
           \A option \in FieldOptions \cup Flags : Used(option)' = Used(option)
    PROVE  FieldsInv'
<1>1. \A option \in FieldOptions : FieldSays(option)'
  BY DEF FieldsInv, FieldSays
<1>2. Used("--replay")' = Used("--replay") /\ Used("--bootstrap-hello")' = Used("--bootstrap-hello")
  BY DEF Flags
<1> QED
  BY <1>1, <1>2 DEF FieldsInv

LEMMA PeersKept ==
    ASSUME PeersInv, args' = args, peers' = peers, Used("--peer")' = Used("--peer")
    PROVE  PeersInv'
<1>1. \A k : PeerAt(k)' = PeerAt(k)
  BY SameArgs
<1> QED
  BY <1>1 DEF PeersInv

LEMMA PhasesKept ==
    ASSUME PhasesInv, args' = args, phases' = phases, status # "bad_spec",
           Used("--fault-phase")' = Used("--fault-phase")
    PROVE  PhasesInv'
<1>1. \A k : PhaseAt(k)' = PhaseAt(k)
  BY SameArgs
<1> QED
  BY <1>1 DEF PhasesInv

(* Each option sets the field that is its own.                             *)
LEMMA FieldsApart ==
    ASSUME NEW option \in FieldOptions
    PROVE  /\ Field(option) \in DOMAIN DefaultConfig(0) \ {"mode", "bootstrap_hello"}
           /\ \A other \in FieldOptions : Field(other) = Field(option) => other = option
  BY ZenonT(60) DEF FieldOptions, TextOptions, NumberOptions, Field, DefaultConfig

LEMMA FieldSet ==
    ASSUME CInv, OptionAt(i), FieldsInv, Consumed, NEW option \in FieldOptions,
           args[i] = option,
           config' = [config EXCEPT ![Field(option)] = Parsed(option, args[i + 1])[1]]
    PROVE  FieldsInv'
<1>1. /\ args' = args /\ i \in Nat \ {0} /\ config \in Config
      /\ \A o : Used(o)' = IF o = option THEN Used(o) \cup {i} ELSE Used(o)
  BY ConsumedRead DEF CInv, ConfigOK, Consumed
<1>2. Parsed(option, args[i + 1]) # <<>>
  BY DEF Consumed, Understood, FieldOptions, TextOptions, NumberOptions, Flags
<1>3. Parsed(option, args[i + 1]) = <<Parsed(option, args[i + 1])[1]>>
  <2>1. option \in TextOptions \cup {"--node-id"} \cup NumberOptions
    BY DEF FieldOptions
  <2> QED
    BY <1>2, <2>1 DEF Parsed, Id, Number, TextOptions, NumberOptions
<1>4. DOMAIN config = DOMAIN DefaultConfig(0)
  BY <1>1 DEF Config, DefaultConfig
<1>5. FieldSays(option)'
  <2>1. Used(option) \subseteq 1..(i - 1)
    BY DEF Used, Read
  <2>2. Max(Used(option) \cup {i}) = i
    BY <1>1, <2>1, MaxAdded
  <2>3. config'[Field(option)] = Parsed(option, args[i + 1])[1]
    BY <1>4, FieldsApart
  <2>4. Used(option)' = Used(option) \cup {i}
    BY <1>1
  <2> QED
    BY <1>1, <1>3, <2>2, <2>3, <2>4 DEF FieldSays
<1>6. ASSUME NEW other \in FieldOptions, other # option
      PROVE  FieldSays(other)'
  <2>1. Used(other)' = Used(other)
    BY <1>1, <1>6
  <2>2. Field(other) # Field(option)
    BY <1>6, FieldsApart
  <2>3. config'[Field(other)] = config[Field(other)]
    BY <1>4, <2>2, FieldsApart
  <2> QED
    BY <1>1, <2>1, <2>3 DEF FieldSays, FieldsInv
<1>7. config'.mode = config.mode /\ config'.bootstrap_hello = config.bootstrap_hello
  BY <1>4, FieldsApart DEF DefaultConfig
<1>8. /\ Used("--replay")' = Used("--replay")
      /\ Used("--bootstrap-hello")' = Used("--bootstrap-hello")
  BY <1>1 DEF FieldOptions, TextOptions, NumberOptions
<1> QED
  BY <1>5, <1>6, <1>7, <1>8 DEF FieldsInv

LEMMA FlagSet ==
    ASSUME CInv, OptionAt(i), FieldsInv, Consumed,
           \/ /\ args[i] = "--replay"
              /\ config' = [config EXCEPT !.mode = "Replay"]
           \/ /\ args[i] = "--bootstrap-hello"
              /\ config' = [config EXCEPT !.bootstrap_hello = TRUE]
    PROVE  FieldsInv'
<1>1. /\ args' = args /\ config \in Config
      /\ \A o : Used(o)' = IF o = args[i] THEN Used(o) \cup {i} ELSE Used(o)
  BY ConsumedRead DEF CInv, ConfigOK, Consumed
<1>2. ASSUME NEW option \in FieldOptions
      PROVE  FieldSays(option)'
  <2>1. Used(option)' = Used(option)
    BY <1>1 DEF FieldOptions, TextOptions, NumberOptions
  <2>2. /\ Field(option) \in DOMAIN config
        /\ Field(option) # "mode" /\ Field(option) # "bootstrap_hello"
    <3>1. DOMAIN config = DOMAIN DefaultConfig(0)
      BY <1>1 DEF Config, DefaultConfig
    <3> QED
      BY <3>1, FieldsApart
  <2>3. config'[Field(option)] = config[Field(option)]
    BY <2>2
  <2> QED
    BY <1>1, <2>1, <2>3 DEF FieldSays, FieldsInv
<1>3. CASE args[i] = "--replay"
  <2>1. /\ Used("--replay")' = Used("--replay") \cup {i}
        /\ Used("--bootstrap-hello")' = Used("--bootstrap-hello")
    BY <1>1, <1>3
  <2>2. config'.mode = "Replay" /\ config'.bootstrap_hello = config.bootstrap_hello
    BY <1>1, <1>3 DEF Config
  <2> QED
    BY <1>2, <2>1, <2>2 DEF FieldsInv
<1>4. CASE args[i] = "--bootstrap-hello"
  <2>1. /\ Used("--replay")' = Used("--replay")
        /\ Used("--bootstrap-hello")' = Used("--bootstrap-hello") \cup {i}
    BY <1>1, <1>4
  <2>2. config'.mode = config.mode /\ config'.bootstrap_hello = TRUE
    BY <1>1, <1>4 DEF Config
  <2> QED
    BY <1>2, <2>1, <2>2 DEF FieldsInv
<1> QED
  BY <1>3, <1>4

(* The last address given for a peer is the one in force.                  *)
LEMMA PeerSet ==
    ASSUME CInv, OptionAt(i), PeersInv, Consumed, args[i] = "--peer",
           peers' = [id \in DOMAIN peers \cup {PeerAt(i).id} |->
                        IF id = PeerAt(i).id THEN PeerAt(i).addr ELSE peers[id]]
    PROVE  PeersInv'
<1>1. /\ args' = args /\ i \in Nat \ {0}
      /\ Used("--peer")' = Used("--peer") \cup {i}
      /\ \A k : PeerAt(k)' = PeerAt(k)
  BY ConsumedRead, SameArgs DEF CInv, ConfigOK, Consumed
<1> DEFINE Of(id) == {k \in Used("--peer") : PeerAt(k).id = id}
<1>2. DOMAIN peers' = {PeerAt(k).id : k \in Used("--peer")'}
  BY <1>1 DEF PeersInv
<1>3. ASSUME NEW id \in DOMAIN peers'
      PROVE  peers'[id] = PeerAt(Max({k \in Used("--peer")' : PeerAt(k).id = id})).addr
  <2>1. CASE id = PeerAt(i).id
    <3>1. {k \in Used("--peer")' : PeerAt(k).id = id} = Of(id) \cup {i}
      BY <1>1, <2>1
    <3>2. Of(id) \subseteq 1..(i - 1)
      BY DEF Used, Read
    <3>3. Max(Of(id) \cup {i}) = i
      BY <1>1, <3>2, MaxAdded
    <3> QED
      BY <2>1, <3>1, <3>3
  <2>2. CASE id # PeerAt(i).id
    <3>1. {k \in Used("--peer")' : PeerAt(k).id = id} = Of(id)
      BY <1>1, <2>2
    <3>2. id \in DOMAIN peers /\ peers'[id] = peers[id]
      BY <1>3, <2>2
    <3> QED
      BY <3>1, <3>2 DEF PeersInv
  <2> QED
    BY <2>1, <2>2
<1>4. \A k : parse_peer_spec(args'[k + 1])[1] = PeerAt(k)
  BY <1>1 DEF PeerAt
<1>5. DOMAIN peers' = {parse_peer_spec(args'[k + 1])[1].id : k \in Used("--peer")'}
  BY <1>2, <1>4
<1>6. ASSUME NEW id \in DOMAIN peers'
      PROVE  peers'[id] = parse_peer_spec(args'[
                Max({k \in Used("--peer")' : parse_peer_spec(args'[k + 1])[1].id = id})
                + 1])[1].addr
  <2>1. {k \in Used("--peer")' : parse_peer_spec(args'[k + 1])[1].id = id}
           = {k \in Used("--peer")' : PeerAt(k).id = id}
    BY <1>4
  <2> QED
    BY ZenonT(60), <1>3, <1>4, <2>1
<1> QED
  BY <1>5, <1>6 DEF PeersInv, PeerAt

(* A phase is added behind those already read.                             *)
LEMMA PhaseAdded ==
    ASSUME CInv, TypeOK, OptionAt(i), PhasesInv, Consumed, args[i] = "--fault-phase",
           status # "bad_spec", phases' = Append(phases, AsPhase(PhaseAt(i)))
    PROVE  PhasesInv'
<1>1. /\ args' = args /\ i \in Nat \ {0}
      /\ Used("--fault-phase")' = Used("--fault-phase") \cup {i}
      /\ \A k : PhaseAt(k)' = PhaseAt(k)
  BY ConsumedRead, SameArgs DEF CInv, ConfigOK, Consumed
<1> DEFINE U == Used("--fault-phase")
<1>2. U \subseteq 1..(i - 1) /\ i \notin U
  BY <1>1 DEF Used, Read
<1>3. IsFiniteSet(U)
  <2>1. IsFiniteSet(1..(i - 1))
    BY <1>1, FS_Interval
  <2> QED
    BY <1>2, <2>1, FS_Subset
<1>4. Cardinality(U \cup {i}) = Cardinality(U) + 1
  BY <1>2, <1>3, FS_AddElement
<1>5. /\ Len(phases') = Len(phases) + 1
      /\ Range(phases') = Range(phases) \cup {AsPhase(PhaseAt(i))}
  <2> DEFINE added == AsPhase(PhaseAt(i))
  <2> HIDE DEF added
  <2>1. phases \in Seq(FaultPhase) /\ phases' = Append(phases, added)
    BY DEF TypeOK, added
  <2>2. /\ Len(phases') = Len(phases) + 1 /\ Len(phases) \in Nat
        /\ \A k \in 1..Len(phases) : phases'[k] = phases[k]
        /\ phases'[Len(phases) + 1] = added
        /\ DOMAIN phases = 1..Len(phases) /\ DOMAIN phases' = 1..(Len(phases) + 1)
    BY <2>1
  <2>3. \A x : x \in Range(phases') <=> x \in Range(phases) \/ x = added
    BY <2>2 DEF Range
  <2> QED
    BY <2>2, <2>3 DEF added
<1> QED
  BY <1>1, <1>4, <1>5 DEF PhasesInv

(* The sort rearranges the phases, it loses and repeats none: a stable     *)
(* order is injective, and so it is onto.                                  *)
LEMMA SortKeepsPhases ==
    ASSUME TypeOK, Sort
    PROVE  Len(phases') = Len(phases) /\ Range(phases') = Range(phases)
<1> DEFINE D == DOMAIN phases
<1>1. PICK f \in [D -> D] :
         /\ StableOrder(f, phases)
         /\ phases' = [k \in D |-> phases[f[k]]]
  BY DEF Sort
<1>2. /\ phases \in Seq(FaultPhase) /\ Len(phases) \in Nat /\ D = 1..Len(phases)
      /\ \A k \in D : phases[k].start_step \in Nat
  <2>1. phases \in Seq(FaultPhase)
    BY DEF TypeOK
  <2>2. \A k \in D : phases[k] \in FaultPhase
    BY <2>1
  <2> QED
    BY <2>1, <2>2 DEF FaultPhase
<1>3. Len(phases') = Len(phases)
  <2>1. phases' \in Seq(FaultPhase) /\ DOMAIN phases' = 1..Len(phases)
    BY <1>1, <1>2
  <2> QED
    BY <1>2, <2>1
<1>4. f \in Injection(D, D)
  <2>1. ASSUME NEW a \in D, NEW b \in D, a < b
        PROVE  f[a] # f[b]
    BY <1>1, <1>2, <2>1 DEF StableOrder
  <2>2. \A a, b \in D : f[a] = f[b] => a = b
    BY <1>2, <2>1
  <2> QED
    BY <1>1, <2>2 DEF Injection, IsInjective
<1>5. IsFiniteSet(D)
  BY <1>2, FS_Interval
<1>6. f \in Surjection(D, D)
  BY <1>4, <1>5, FS_Injection
<1>7. \A b \in D : \E a \in D : f[a] = b
  BY <1>6 DEF Surjection
<1> QED
  BY <1>1, <1>3, <1>7 DEF Range

(* A refusal reads nothing and changes nothing.                            *)
LEMMA Refusal ==
    ASSUME ReadInv, Looking, ~Understood(i), Refuse(WhyRefused)
    PROVE  ReadInv'
<1>1. UNCHANGED <<args, i, config, peers, phases>> /\ status # "bad_spec"
  BY DEF Refuse, fvars, Looking
<1>2. \A option : Used(option)' = Used(option)
  BY <1>1, SameRead
<1> QED
  BY <1>1, <1>2, WalkRefused, FieldsKept, PeersKept, PhasesKept DEF ReadInv

(* Behind the last argument nothing is read any more.                      *)
LEMMA Validation ==
    ASSUME CInv, TypeOK, ReadInv, Validate
    PROVE  ReadInv'
<1>1. /\ UNCHANGED <<args, i, config, peers, outcome>> /\ outcome = "none"
      /\ i = Len(args) + 1
  BY DEF Validate, CInv, ConfigOK
<1>2. /\ status \in {"parsing", "checking"}
      /\ status' \in {"checking", "ok", "bad_phases"}
  BY DEF Validate, Sort, Check, Accept, Fail
<1>3. /\ OptionAt(i)' <=> OptionAt(i)
      /\ Read' = Read /\ \A option : Used(option)' = Used(option)
      /\ \A k : (Understood(k)' <=> Understood(k)) /\ PhaseAt(k)' = PhaseAt(k)
  BY <1>1, SameRead, SameArgs
<1>4. BadWindow' <=> BadWindow
  BY <1>1, <1>3 DEF BadWindow
<1>5. WalkInv'
  BY <1>1, <1>2, <1>3, <1>4 DEF ReadInv, WalkInv
<1>6. Len(phases') = Len(phases) /\ Range(phases') = Range(phases)
  BY SortKeepsPhases DEF Validate, Check, Accept, Fail
<1>7. PhasesInv'
  BY <1>2, <1>3, <1>6 DEF ReadInv, PhasesInv
<1> QED
  BY <1>1, <1>3, <1>5, <1>7, FieldsKept, PeersKept DEF ReadInv

(* Before the first argument nothing is read.                              *)
LEMMA InitRead == CInit => ReadInv
<1> SUFFICES ASSUME CInit PROVE ReadInv
    OBVIOUS
<1>1. /\ i = 1 /\ outcome = "none" /\ status = "parsing"
      /\ peers = <<>> /\ phases = <<>>
  BY DEF CInit, Init
<1>2. Read = {} /\ \A option : Used(option) = {}
  BY <1>1 DEF Read, Used
<1>3. OptionAt(i)
  <2>1. Cardinality(Run(i)) = 0
    <3>1. Run(i) = {}
      BY <1>1 DEF Run
    <3> QED
      BY <3>1, FS_EmptySet
  <2> QED
    BY <2>1 DEF OptionAt
<1>4. WalkInv
  BY <1>1, <1>2, <1>3 DEF WalkInv, BadWindow
<1>5. FieldsInv
  <2>1. PICK id \in Drawn : config = DefaultConfig(id)
    BY DEF CInit
  <2>2. \A option \in FieldOptions : FieldSays(option)
    BY <1>2, <2>1 DEF FieldSays
  <2>3. config.mode = "Record" /\ config.bootstrap_hello = FALSE
    BY <2>1 DEF DefaultConfig
  <2> QED
    BY <1>2, <2>2, <2>3 DEF FieldsInv
<1>6. PeersInv
  BY <1>1, <1>2 DEF PeersInv
<1>7. PhasesInv
  <2>1. Cardinality({}) = 0
    BY FS_EmptySet
  <2>2. Len(phases) = 0 /\ Range(phases) = {}
    BY <1>1 DEF Range
  <2>3. Used("--fault-phase") = {}
    BY <1>2
  <2> QED
    BY <2>1, <2>2, <2>3 DEF PhasesInv
<1> QED
  BY <1>4, <1>5, <1>6, <1>7 DEF ReadInv

(* Every step of the walk reads one argument as it is to be read.          *)
LEMMA StepRead ==
    ASSUME CInv, TypeOK, ReadInv, [CNext]_vars
    PROVE  ReadInv'
<1>1. OptionAt(i) /\ (status = "bad_spec" <=> BadWindow)
  BY DEF ReadInv, WalkInv
<1>2. ASSUME Consumed, outcome' = outcome, status' = status,
             args[i] # "--fault-phase", phases' = phases
      PROVE  /\ WalkInv' /\ PhasesInv' /\ args' = args
             /\ \A o : Used(o)' = IF args[i] = o THEN Used(o) \cup {i} ELSE Used(o)
  <2>1. \A o : Used(o)' = IF args[i] = o THEN Used(o) \cup {i} ELSE Used(o)
    BY <1>1, <1>2, ConsumedRead
  <2>2. args' = args /\ status # "bad_spec"
    BY <1>2 DEF Consumed, Looking
  <2> QED
    BY <1>2, <2>1, <2>2, WalkConsumed, PhasesKept DEF ReadInv
<1>3. CASE Help \/ MissingValue \/ UnknownArgument
  <2>1. Looking /\ ~Understood(i) /\ Refuse(WhyRefused)
    <3>1. CASE Help
      <4>1. args[i] \in {"--help", "-h"} /\ args[i] \notin Flags \cup ValueOptions
        BY <3>1 DEF Help, Flags, ValueOptions, FieldOptions, TextOptions, NumberOptions
      <4>2. ~Understood(i)
        BY <4>1 DEF Understood
      <4>3. WhyRefused = "usage"
        BY <4>1 DEF WhyRefused
      <4> QED
        BY <3>1, <4>2, <4>3 DEF Help
    <3>2. CASE MissingValue
      <4>1. args[i] \notin {"--help", "-h"} \cup Flags /\ args[i] \in ValueOptions
        BY <3>2 DEF MissingValue, Flags, ValueOptions, FieldOptions, TextOptions,
                    NumberOptions
      <4>2. ~(i < Len(args)) /\ i = Len(args)
        BY <3>2 DEF MissingValue, CInv, ConfigOK
      <4>3. ~Understood(i)
        BY <4>1, <4>2 DEF Understood
      <4>4. WhyRefused = "missing_value"
        BY <4>1, <4>2 DEF WhyRefused
      <4> QED
        BY <3>2, <4>3, <4>4 DEF MissingValue
    <3>3. CASE UnknownArgument
      <4>1. args[i] \notin Flags \cup ValueOptions \cup {"--help", "-h"}
        BY <3>3 DEF UnknownArgument
      <4>2. ~Understood(i)
        BY <4>1 DEF Understood
      <4>3. WhyRefused = "unknown_argument"
        BY <4>1 DEF WhyRefused
      <4> QED
        BY <3>3, <4>2, <4>3 DEF UnknownArgument
    <3> QED
      BY <1>3, <3>1, <3>2, <3>3
  <2> QED
    BY <2>1, Refusal
<1>4. CASE ReplayFlag \/ BootstrapFlag
  <2>1. /\ Consumed /\ outcome' = outcome /\ UNCHANGED <<peers, phases, status>>
        /\ args[i] \in Flags
    BY <1>4 DEF ReplayFlag, BootstrapFlag, Advance, fvars, Consumed, Understood, Width,
                Flags, ValueOptions, FieldOptions, TextOptions, NumberOptions
  <2>2. args[i] # "--fault-phase" /\ args[i] # "--peer"
    BY <2>1 DEF Flags
  <2>3. WalkInv' /\ PhasesInv'
    BY <1>2, <2>1, <2>2
  <2>4. FieldsInv'
    BY <1>1, <1>4, <2>1, FlagSet DEF ReadInv, ReplayFlag, BootstrapFlag
  <2>5. PeersInv'
    BY <1>2, <2>1, <2>2, PeersKept DEF ReadInv
  <2> QED
    BY <2>3, <2>4, <2>5 DEF ReadInv
<1>5. CASE \E option \in FieldOptions : SetField(option)
  <2>1. PICK option \in FieldOptions : SetField(option)
    BY <1>5
  <2>2. /\ Looking /\ args[i] = option /\ i < Len(args)
        /\ option \in ValueOptions /\ option # "--peer" /\ option # "--fault-phase"
        /\ option \notin Flags \cup {"--help", "-h"}
    BY <2>1 DEF SetField, Takes, ValueOptions, FieldOptions, TextOptions, NumberOptions,
                Flags
  <2>3. Understood(i) <=> Parsed(option, args[i + 1]) # <<>>
    BY <2>2 DEF Understood
  <2>4. CASE Parsed(option, args[i + 1]) = <<>>
    <3>1. Refuse("bad_value")
      BY <2>1, <2>4 DEF SetField
    <3>2. WhyRefused = "bad_value"
      BY <2>2 DEF WhyRefused, Looking, CInv, ConfigOK
    <3> QED
      BY <2>2, <2>3, <2>4, <3>1, <3>2, Refusal
  <2>5. CASE Parsed(option, args[i + 1]) # <<>>
    <3>1. /\ config' = [config EXCEPT ![Field(option)] = Parsed(option, args[i + 1])[1]]
          /\ Advance(2) /\ UNCHANGED <<peers, fvars>>
      BY <2>1, <2>5 DEF SetField
    <3>2. Consumed /\ outcome' = outcome /\ UNCHANGED <<phases, status>>
      BY <2>2, <2>3, <2>5, <3>1 DEF Consumed, Advance, Width, fvars
    <3>3. WalkInv' /\ PhasesInv'
      BY <1>2, <2>2, <3>2
    <3>4. FieldsInv'
      BY <1>1, <2>2, <3>1, <3>2, FieldSet DEF ReadInv
    <3>5. PeersInv'
      BY <1>2, <2>2, <3>1, <3>2, PeersKept DEF ReadInv
    <3> QED
      BY <3>3, <3>4, <3>5 DEF ReadInv
  <2> QED
    BY <2>4, <2>5
<1>6. CASE AddPeer
  <2>1. /\ Looking /\ args[i] = "--peer" /\ i < Len(args) /\ args[i] \in ValueOptions
        /\ args[i] \notin FieldOptions \cup Flags \cup {"--help", "-h"}
    BY <1>6 DEF AddPeer, Takes, ValueOptions, FieldOptions, TextOptions, NumberOptions,
                Flags
  <2>2. Understood(i) <=> parse_peer_spec(args[i + 1]) # <<>>
    BY <2>1 DEF Understood
  <2>3. CASE parse_peer_spec(args[i + 1]) = <<>>
    <3>1. Refuse("bad_value")
      BY <1>6, <2>3 DEF AddPeer
    <3>2. WhyRefused = "bad_value"
      BY <2>1 DEF WhyRefused, CInv, ConfigOK
    <3> QED
      BY <2>1, <2>2, <2>3, <3>1, <3>2, Refusal
  <2>4. CASE parse_peer_spec(args[i + 1]) # <<>>
    <3>1. /\ peers' = [id \in DOMAIN peers \cup {PeerAt(i).id} |->
                          IF id = PeerAt(i).id THEN PeerAt(i).addr ELSE peers[id]]
          /\ Advance(2) /\ UNCHANGED <<config, fvars>>
      BY <1>6, <2>4 DEF AddPeer, PeerAt
    <3>2. Consumed /\ outcome' = outcome /\ UNCHANGED <<phases, status>>
      BY <2>1, <2>2, <2>4, <3>1 DEF Consumed, Advance, Width, fvars
    <3>3. WalkInv' /\ PhasesInv'
      BY <1>2, <2>1, <3>2
    <3>4. FieldsInv'
      BY <1>2, <2>1, <3>1, <3>2, FieldsKept DEF ReadInv
    <3>5. PeersInv'
      BY <1>1, <2>1, <3>1, <3>2, PeerSet DEF ReadInv
    <3> QED
      BY <3>3, <3>4, <3>5 DEF ReadInv
  <2> QED
    BY <2>3, <2>4
<1>7. CASE AddPhase
  <2>1. /\ Looking /\ args[i] = "--fault-phase" /\ i < Len(args)
        /\ args[i] \in ValueOptions /\ status = "parsing" /\ status # "bad_spec"
        /\ args[i] \notin FieldOptions \cup Flags \cup {"--help", "-h"}
    BY <1>7 DEF AddPhase, Takes, Looking, ValueOptions, FieldOptions, TextOptions,
                NumberOptions, Flags
  <2>2. Understood(i) <=> PhaseSpec(args[i + 1]) # <<>>
    BY <2>1 DEF Understood
  <2>3. CASE PhaseSpec(args[i + 1]) = <<>>
    <3>1. Refuse("bad_value")
      BY <1>7, <2>3 DEF AddPhase
    <3>2. WhyRefused = "bad_value"
      BY <2>1 DEF WhyRefused, CInv, ConfigOK
    <3> QED
      BY <2>1, <2>2, <2>3, <3>1, <3>2, Refusal
  <2>4. CASE PhaseSpec(args[i + 1]) # <<>>
    <3>1. parse_fault_phase_spec(PhaseAt(i)) /\ Advance(2) /\ UNCHANGED <<config, peers>>
      BY <1>7, <2>4 DEF AddPhase, PhaseAt
    <3>2. Consumed /\ outcome' = outcome /\ args' = args
      BY <2>1, <2>2, <2>4, <3>1 DEF Consumed, Advance, Width
    <3>3. \A o : Used(o)' = IF args[i] = o THEN Used(o) \cup {i} ELSE Used(o)
      BY <1>1, <3>2, ConsumedRead
    <3>4. FieldsInv' /\ PeersInv'
      BY <2>1, <3>1, <3>2, <3>3, FieldsKept, PeersKept DEF ReadInv
    <3>5. status' = IF args[i] = "--fault-phase" /\ PhaseAt(i).reorder_window = 0
                    THEN "bad_spec" ELSE status
      BY <2>1, <3>1 DEF parse_fault_phase_spec, Fail
    <3>6. WalkInv'
      BY <3>2, <3>5, WalkConsumed DEF ReadInv
    <3>7. PhasesInv'
      <4>1. CASE PhaseAt(i).reorder_window = 0
        <5>1. status' = "bad_spec"
          BY <2>1, <3>5, <4>1
        <5> QED
          BY <5>1 DEF PhasesInv
      <4>2. CASE PhaseAt(i).reorder_window # 0
        <5>1. phases' = Append(phases, AsPhase(PhaseAt(i)))
          BY <3>1, <4>2 DEF parse_fault_phase_spec
        <5> QED
          BY <1>1, <2>1, <3>2, <5>1, PhaseAdded DEF ReadInv
      <4> QED
        BY <4>1, <4>2
    <3> QED
      BY <3>4, <3>6, <3>7 DEF ReadInv
  <2> QED
    BY <2>3, <2>4
<1>8. CASE Validate
  BY <1>8, Validation
<1>9. CASE Stay \/ UNCHANGED vars
  <2>1. UNCHANGED <<args, i, config, peers, outcome, phases, status>>
    BY <1>9 DEF Stay, vars, fvars
  <2>2. /\ OptionAt(i)' <=> OptionAt(i)
        /\ Understood(i)' <=> Understood(i)
        /\ Read' = Read /\ WhyRefused' = WhyRefused
        /\ \A option : Used(option)' = Used(option)
        /\ \A k : (Understood(k)' <=> Understood(k)) /\ PhaseAt(k)' = PhaseAt(k)
    BY <2>1, SameRead, SameArgs
  <2>3. BadWindow' <=> BadWindow
    BY <2>1, <2>2 DEF BadWindow
  <2>4. WalkInv'
    BY <2>1, <2>2, <2>3 DEF ReadInv, WalkInv
  <2>5. FieldsInv' /\ PeersInv'
    BY <2>1, <2>2, FieldsKept, PeersKept DEF ReadInv
  <2>6. PhasesInv'
    BY <2>1, <2>2 DEF ReadInv, PhasesInv
  <2> QED
    BY <2>4, <2>5, <2>6 DEF ReadInv
<1> QED
  BY <1>3, <1>4, <1>5, <1>6, <1>7, <1>8, <1>9 DEF CNext

(* In every state the configuration says what the options read so far say. *)
LEMMA AlwaysRead == CSpec => [](CInv /\ TypeOK /\ ReadInv)
<1>1. CInit => TypeOK
  BY DEF CInit, Init, TypeOK
<1>2. CInv /\ TypeOK /\ ReadInv /\ [CNext]_vars => (CInv /\ TypeOK /\ ReadInv)'
  BY StepCInv, StepImplements, TypeStep, StepRead
<1> QED
  BY <1>1, <1>2, InitCInv, InitRead, PTL DEF CSpec

(* Behind the last argument, what has been read is the whole command line. *)
LEMMA AllRead ==
    ASSUME CInv, i = Len(args) + 1
    PROVE  \A option : Used(option) = Uses(option)
<1>1. 1..(i - 1) = DOMAIN args
  BY DEF CInv, ConfigOK
<1> QED
  BY <1>1 DEF Used, Read, Uses

(* For every command line: when parse_config is done with the arguments,   *)
(* the configuration says what the last use of each option says and the    *)
(* default where there is none, every peer has the address given last, and *)
(* every --fault-phase is in the schedule once, however the options are    *)
(* mixed and whichever strings stand as values.                            *)
THEOREM LastUseWins == CSpec => []LastWins
<1>1. CInv /\ ReadInv => LastWins
  <2> SUFFICES ASSUME CInv, ReadInv, status \in {"ok", "bad_phases"}
               PROVE  LastWins
      BY DEF LastWins
  <2>1. \A option : Used(option) = Uses(option)
    BY AllRead DEF ReadInv, WalkInv
  <2>2. FieldsInv /\ PeersInv /\ PhasesInv /\ status # "bad_spec"
    BY DEF ReadInv
  <2> QED
    BY <2>1, <2>2 DEF LastWins, FieldsInv, FieldSays, PeersInv, PhasesInv
<1> QED
  BY <1>1, AlwaysRead, PTL

(* And for every command line parse_config ends exactly where it should: at *)
(* the first argument it does not understand, with the error that fits, at  *)
(* a window of zero, or behind the last argument.                           *)
THEOREM OutcomeIsExact == CSpec => []OutcomeExact
<1>1. CInv /\ ReadInv => OutcomeExact
  BY DEF ReadInv, WalkInv, OutcomeExact, Read, BadWindow, WhyRefused
<1> QED
  BY <1>1, AlwaysRead, PTL

------------------------------------------------------------------------------
(***************************************************************************)
(* The policy of a step.                                                   *)
(***************************************************************************)

(* The options that set the base policy hold what was said last.           *)
LEMMA BaseIsSaid ==
    ASSUME LastWins, status = "ok"
    PROVE  base_policy = BaseSaid
<1>1. \A option \in FieldOptions :
          IF Uses(option) = {}
          THEN \E id \in Drawn : config[Field(option)] = DefaultConfig(id)[Field(option)]
          ELSE <<config[Field(option)]>> = Parsed(option, args[Max(Uses(option)) + 1])
  BY DEF LastWins
<1>2. config.drop_every = LastSaid("--fault-drop-every", NoDrop)
  <2>1. /\ "--fault-drop-every" \in FieldOptions
        /\ Field("--fault-drop-every") = "drop_every"
        /\ \A id : DefaultConfig(id).drop_every = NoDrop
    BY DEF FieldOptions, NumberOptions, Field, DefaultConfig
  <2> QED
    BY <1>1, <2>1 DEF LastSaid
<1>3. config.delay_steps = LastSaid("--fault-delay-steps", 0)
  <2>1. /\ "--fault-delay-steps" \in FieldOptions
        /\ Field("--fault-delay-steps") = "delay_steps"
        /\ \A id : DefaultConfig(id).delay_steps = 0
    BY DEF FieldOptions, NumberOptions, Field, DefaultConfig
  <2> QED
    BY <1>1, <2>1 DEF LastSaid
<1>4. config.reorder_window = LastSaid("--fault-reorder-window", 1)
  <2>1. /\ "--fault-reorder-window" \in FieldOptions
        /\ Field("--fault-reorder-window") = "reorder_window"
        /\ \A id : DefaultConfig(id).reorder_window = 1
    BY DEF FieldOptions, NumberOptions, Field, DefaultConfig
  <2> QED
    BY <1>1, <2>1 DEF LastSaid
<1> QED
  BY <1>2, <1>3, <1>4 DEF base_policy, BaseSaid

(* The sorted schedule has the phases that were written, so a phase is     *)
(* active in a step exactly if one written holds the step; and then it is  *)
(* the only one, and policy_for_step finds it.                             *)
LEMMA PolicyFound ==
    ASSUME TypeOK, LastWins, PolicyUnambiguous, status = "ok", NEW step \in Horizon
    PROVE  LET policy  == policy_for_step([base |-> base_policy, phases |-> phases], step)
               written == {k \in Uses("--fault-phase") : Covers(k, step)}
           IN  /\ \A k \in written : policy = AsPhase(PhaseAt(k)).policy
               /\ written = {} => policy = base_policy
<1> DEFINE cfg     == [base |-> base_policy, phases |-> phases]
           policy  == policy_for_step(cfg, step)
           written == {k \in Uses("--fault-phase") : Covers(k, step)}
           active  == {h \in DOMAIN phases : is_active(phases[h], step)}
<1>1. \A k : is_active(AsPhase(PhaseAt(k)), step) <=> Covers(k, step)
  BY DEF is_active, AsPhase, Covers
<1>2. Range(phases) = {AsPhase(PhaseAt(k)) : k \in Uses("--fault-phase")}
  BY DEF LastWins
<1>3. policy = IF active = {} THEN base_policy
               ELSE phases[CHOOSE h \in active : \A j \in active : j <= h].policy
  BY DEF policy_for_step
<1>4. ASSUME NEW k \in written PROVE policy = AsPhase(PhaseAt(k)).policy
  <2>1. PICK h \in DOMAIN phases : phases[h] = AsPhase(PhaseAt(k))
    <3>1. AsPhase(PhaseAt(k)) \in Range(phases)
      BY <1>2
    <3> QED
      BY <3>1 DEF Range
  <2>2. active = {h}
    <3>1. h \in active
      BY <1>1, <2>1
    <3>2. \A j \in active : j = h
      BY <3>1 DEF PolicyUnambiguous
    <3> QED
      BY <3>1, <3>2
  <2>3. (CHOOSE j \in active : \A m \in active : m <= j) \in active
    <3>1. h \in Nat
      BY DEF TypeOK
    <3> QED
      BY <2>2, <3>1
  <2> QED
    BY <1>3, <2>1, <2>2, <2>3
<1>5. ASSUME written = {} PROVE policy = base_policy
  <2>1. ASSUME NEW h \in active PROVE FALSE
    <3>1. phases[h] \in Range(phases)
      BY DEF Range
    <3>2. PICK k \in Uses("--fault-phase") : phases[h] = AsPhase(PhaseAt(k))
      BY <1>2, <3>1
    <3> QED
      BY <1>1, <1>5, <3>2
  <2> QED
    BY <1>3, <2>1
<1> QED
  BY <1>4, <1>5

(* For every command line that is accepted, the policy of each step is the *)
(* one that can be read off it: the phase whose range holds the step, and  *)
(* elsewhere the last uses of the base options.                            *)
THEOREM PolicyIsAsWritten == CSpec => []PolicyAsWritten
<1>1. TypeOK /\ LastWins /\ PolicyUnambiguous => PolicyAsWritten
  BY BaseIsSaid, PolicyFound DEF PolicyAsWritten
<1> QED
  BY <1>1, AlwaysRead, LastUseWins, ConfigIsUnambiguous, PTL

=============================================================================
