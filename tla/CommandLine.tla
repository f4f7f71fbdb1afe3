----------------------------- MODULE CommandLine -----------------------------
(***************************************************************************)
(* How a node comes by its configuration: parse_config walks the arguments *)
(* of the command line once, from left to right, one option with its value *)
(* at a time; a later option replaces an earlier one, and a value is       *)
(* whatever stands behind an option that takes one.  The values of         *)
(* --fault-phase go through the actions of FaultPhases.                    *)
(*                                                                         *)
(* An argument is a string.  How a string parses as a number or an id, and *)
(* where it is split, are given as functions on the strings for which they *)
(* succeed.  An Option is <<>> or <<x>>.                                   *)
(***************************************************************************)
EXTENDS FaultPhases, FiniteSets, FiniteSetsExt

CONSTANTS
    Text,    \* the strings that arguments and their parts are
    Lines,   \* the command lines considered, without the program's name
    U64,     \* the value of each string that parses as u64 (or usize)
    Uuid,    \* the id each string that parses as one stands for
    Drawn,   \* the ids Uuid::new_v4 may draw
    Equals,  \* <<before, after>> the first `=' of each string that has one
    Colons   \* the parts of each string that holds a colon

Ids == Drawn \cup Range(Uuid)

(* The default paths of parse_config. *)
Defaults == [trace |-> "trace.jsonl", program |-> "programs/distributed_services.uco"]

ASSUME LinesAssumption == Lines \subseteq Seq(Text)
ASSUME TextAssumption ==
    /\ Defaults.trace \in Text /\ Defaults.program \in Text
    /\ \A w \in DOMAIN U64 : U64[w] \in Nat
    /\ \A w \in DOMAIN Equals : Equals[w] \in Text \X Text
    /\ \A w \in DOMAIN Colons : Colons[w] \in Seq(Text)

VARIABLES
    args,     \* the command line
    i,        \* the argument the loop looks at next
    config,   \* what the options read so far say, peers apart
    peers,    \* the address of each peer
    outcome   \* "none", or how parse_config ended before the last argument

vars == <<args, i, config, peers, outcome, fvars>>

Config ==
    [mode : {"Record", "Replay"}, trace_path : Text, program_path : Text,
     node_id : Ids, listen : {o \in Seq(Text) : Len(o) <= 1},
     bootstrap_hello : BOOLEAN, bootstrap_burst : Nat \ {0},
     steps : Nat, idle_sleep_ms : Nat, startup_wait_ms : Nat,
     drop_every : Nat, delay_steps : Nat, reorder_window : Nat \ {0}]

DefaultConfig(id) ==
    [mode |-> "Record", trace_path |-> Defaults.trace,
     program_path |-> Defaults.program,
     node_id |-> id, listen |-> <<>>,
     bootstrap_hello |-> FALSE, bootstrap_burst |-> 1,
     steps |-> 40, idle_sleep_ms |-> 0, startup_wait_ms |-> 0,
     drop_every |-> NoDrop, delay_steps |-> 0, reorder_window |-> 1]

CInit ==
    /\ Init
    /\ args \in Lines
    /\ i = 1
    /\ \E id \in Drawn : config = DefaultConfig(id)
    /\ peers = <<>>
    /\ outcome = "none"

------------------------------------------------------------------------------
(***************************************************************************)
(* The options.                                                            *)
(***************************************************************************)
Flags == {"--replay", "--bootstrap-hello"}
TextOptions == {"--program", "--trace", "--listen"}
NumberOptions ==
    {"--bootstrap-burst", "--steps", "--idle-sleep-ms", "--startup-wait-ms",
     "--fault-drop-every", "--fault-delay-steps", "--fault-reorder-window"}
AtLeastOne == {"--bootstrap-burst", "--fault-reorder-window"}
FieldOptions == TextOptions \cup NumberOptions \cup {"--node-id"}
ValueOptions == FieldOptions \cup {"--peer", "--fault-phase"}

Field(option) ==
    CASE option = "--program"              -> "program_path"
      [] option = "--trace"                -> "trace_path"
      [] option = "--listen"               -> "listen"
      [] option = "--node-id"              -> "node_id"
      [] option = "--bootstrap-burst"      -> "bootstrap_burst"
      [] option = "--steps"                -> "steps"
      [] option = "--idle-sleep-ms"        -> "idle_sleep_ms"
      [] option = "--startup-wait-ms"      -> "startup_wait_ms"
      [] option = "--fault-drop-every"     -> "drop_every"
      [] option = "--fault-delay-steps"    -> "delay_steps"
      [] option = "--fault-reorder-window" -> "reorder_window"

Number(w) == IF w \in DOMAIN U64 THEN <<U64[w]>> ELSE <<>>
Id(w)     == IF w \in DOMAIN Uuid THEN <<Uuid[w]>> ELSE <<>>

(* Mutant: a burst or a window of zero is accepted. *)
Parsed_AnyNumber(option, w) ==
    CASE option = "--listen" -> <<<<w>>>>
      [] option \in TextOptions \ {"--listen"} -> <<w>>
      [] option = "--node-id" -> Id(w)
      [] option \in NumberOptions -> Number(w)

(* The value of a field an argument stands for, if it is one.  A drop_every *)
(* of zero is none, which is NoDrop.                                        *)
Parsed(option, w) ==
    CASE option = "--listen" -> <<<<w>>>>
      [] option \in TextOptions \ {"--listen"} -> <<w>>
      [] option = "--node-id" -> Id(w)
      [] option \in NumberOptions ->
            IF option \in AtLeastOne /\ Number(w) = <<0>> THEN <<>> ELSE Number(w)

(* The address may hold anything, further equals signs included. *)
parse_peer_spec(w) ==
    IF w \in DOMAIN Equals /\ Equals[w][1] \in DOMAIN Uuid
    THEN <<[id |-> Uuid[Equals[w][1]], addr |-> Equals[w][2]]>>
    ELSE <<>>

(* <start:end:drop_every:delay_steps:reorder_window>, the end possibly *. *)
PhaseSpec(w) ==
    LET p == IF w \in DOMAIN Colons THEN Colons[w] ELSE <<w>>
    IN  IF /\ Len(p) = 5
           /\ {p[1], p[3], p[4], p[5]} \subseteq DOMAIN U64
           /\ p[2] = "*" \/ p[2] \in DOMAIN U64
        THEN <<[start_step |-> U64[p[1]],
                end_step |-> IF p[2] = "*" THEN NoEnd ELSE U64[p[2]],
                drop_every |-> U64[p[3]], delay_steps |-> U64[p[4]],
                reorder_window |-> U64[p[5]]]>>
        ELSE <<>>

(* The phases a command line can ask for are those of FaultPhases. *)
ASSUME PhaseSpecAssumption ==
    \A line \in Lines : \A k \in DOMAIN line :
        PhaseSpec(line[k]) = <<>> \/ PhaseSpec(line[k])[1] \in Specs

------------------------------------------------------------------------------
(***************************************************************************)
(* The loop over the arguments.                                            *)
(***************************************************************************)
Looking == status = "parsing" /\ outcome = "none" /\ i <= Len(args)
Takes(option) == Looking /\ args[i] = option /\ i < Len(args)

Advance(n) == i' = i + n /\ UNCHANGED <<args, outcome>>
Refuse(why) == outcome' = why /\ UNCHANGED <<args, i, config, peers, fvars>>

(* The process prints its usage and exits. *)
Help == Looking /\ args[i] \in {"--help", "-h"} /\ Refuse("usage")

ReplayFlag ==
    /\ Looking /\ args[i] = "--replay"
    /\ config' = [config EXCEPT !.mode = "Replay"]
    /\ Advance(1)
    /\ UNCHANGED <<peers, fvars>>

BootstrapFlag ==
    /\ Looking /\ args[i] = "--bootstrap-hello"
    /\ config' = [config EXCEPT !.bootstrap_hello = TRUE]
    /\ Advance(1)
    /\ UNCHANGED <<peers, fvars>>

MissingValue ==
    Looking /\ args[i] \in ValueOptions /\ i = Len(args) /\ Refuse("missing_value")

UnknownArgument ==
    /\ Looking
    /\ args[i] \notin Flags \cup ValueOptions \cup {"--help", "-h"}
    /\ Refuse("unknown_argument")

(* Mutant: a value that does not parse leaves the default in place. *)
SetField_Ignored(option) ==
    /\ Takes(option)
    /\ LET value == Parsed(option, args[i + 1])
       IN  /\ config' = IF value = <<>> THEN config
                        ELSE [config EXCEPT ![Field(option)] = value[1]]
           /\ Advance(2)
           /\ UNCHANGED <<peers, fvars>>

SetField(option) ==
    /\ Takes(option)
    /\ LET value == Parsed(option, args[i + 1])
       IN  IF value = <<>>
           THEN Refuse("bad_value")
           ELSE /\ config' = [config EXCEPT ![Field(option)] = value[1]]
                /\ Advance(2)
                /\ UNCHANGED <<peers, fvars>>

(* Mutant: the first address of a peer stays. *)
AddPeer_Once ==
    /\ Takes("--peer")
    /\ LET peer == parse_peer_spec(args[i + 1])
       IN  IF peer = <<>>
           THEN Refuse("bad_value")
           ELSE /\ peers' = peers @@ (peer[1].id :> peer[1].addr)
                /\ Advance(2)
                /\ UNCHANGED <<config, fvars>>

AddPeer ==
    /\ Takes("--peer")
    /\ LET peer == parse_peer_spec(args[i + 1])
       IN  IF peer = <<>>
           THEN Refuse("bad_value")
           ELSE /\ peers' = [id \in DOMAIN peers \cup {peer[1].id} |->
                               IF id = peer[1].id THEN peer[1].addr ELSE peers[id]]
                /\ Advance(2)
                /\ UNCHANGED <<config, fvars>>

AddPhase ==
    /\ Takes("--fault-phase")
    /\ LET spec == PhaseSpec(args[i + 1])
       IN  IF spec = <<>>
           THEN Refuse("bad_value")
           ELSE /\ parse_fault_phase_spec(spec[1])
                /\ Advance(2)
                /\ UNCHANGED <<config, peers>>

(* Behind the last argument the phases are sorted and checked. *)
Validate ==
    /\ outcome = "none" /\ i > Len(args)
    /\ Sort \/ Check \/ Accept
    /\ UNCHANGED <<args, i, config, peers, outcome>>

Ended == outcome # "none" \/ status \in {"ok", "bad_spec", "bad_phases"}

Stay == Ended /\ UNCHANGED vars

CNext ==
    \/ Help \/ ReplayFlag \/ BootstrapFlag \/ MissingValue \/ UnknownArgument
    \/ \E option \in FieldOptions : SetField(option)
    \/ AddPeer \/ AddPhase \/ Validate \/ Stay

CSpec == CInit /\ [][CNext]_vars

(* The policy of the steps outside all phases. *)
base_policy ==
    [drop_every |-> config.drop_every, delay_steps |-> config.delay_steps,
     reorder_window |-> config.reorder_window]

------------------------------------------------------------------------------
(* Type correctness of the configuration: in every state it holds values   *)
(* the runtime can work with, windows and bursts of at least one included. *)
ConfigOK ==
    /\ args \in Seq(Text)
    /\ i \in 1..(Len(args) + 1)
    /\ config \in Config
    /\ DOMAIN peers \subseteq Range(Uuid) /\ Range(peers) \subseteq Text
    /\ outcome \in {"none", "usage", "missing_value", "unknown_argument", "bad_value"}

(***************************************************************************)
(* What a command line says, position by position and without a loop: an   *)
(* argument is a value exactly when an odd number of options that take one *)
(* stands directly in front of it.                                         *)
(***************************************************************************)
Run(k) == {j \in 1..(k - 1) : \A m \in j..(k - 1) : args[m] \in ValueOptions}
OptionAt(k) == Cardinality(Run(k)) % 2 = 0

Uses(option) == {k \in DOMAIN args : OptionAt(k) /\ args[k] = option}

Understood(k) ==
    \/ args[k] \in Flags
    \/ /\ args[k] \in ValueOptions /\ k < Len(args)
       /\ LET w == args[k + 1]
          IN  CASE args[k] = "--peer"        -> parse_peer_spec(w) # <<>>
                [] args[k] = "--fault-phase" -> PhaseSpec(w) # <<>>
                [] OTHER                     -> Parsed(args[k], w) # <<>>

PhaseAt(k) == PhaseSpec(args[k + 1])[1]
PeerAt(k) == parse_peer_spec(args[k + 1])[1]

(* The configuration that parse_config ends up with says what the last use *)
(* of each option says, and the default where there is none; no option of  *)
(* one kind disturbs another, however they are mixed, and every            *)
(* --fault-phase is in the schedule that is checked, once.                 *)
LastWins ==
    status \in {"ok", "bad_phases"} =>
        /\ config.mode = IF Uses("--replay") = {} THEN "Record" ELSE "Replay"
        /\ config.bootstrap_hello = (Uses("--bootstrap-hello") # {})
        /\ \A option \in FieldOptions :
              LET value == config[Field(option)]
              IN  IF Uses(option) = {}
                  THEN \E id \in Drawn : value = DefaultConfig(id)[Field(option)]
                  ELSE <<value>> = Parsed(option, args[Max(Uses(option)) + 1])
        /\ DOMAIN peers = {PeerAt(k).id : k \in Uses("--peer")}
        /\ \A id \in DOMAIN peers :
              peers[id] =
                  PeerAt(Max({k \in Uses("--peer") : PeerAt(k).id = id})).addr
        /\ Len(phases) = Cardinality(Uses("--fault-phase"))
        /\ Range(phases) = {AsPhase(PhaseAt(k)) : k \in Uses("--fault-phase")}

(* parse_config ends at the first argument it does not understand, tells   *)
(* what is wrong with it, and accepts every command line that is           *)
(* understood to the end and whose phases have windows and are sound.      *)
OutcomeExact ==
    LET read == {k \in 1..(i - 1) : OptionAt(k)}
    IN  /\ \A k \in read : Understood(k)
        /\ status = "ok" => i = Len(args) + 1 /\ outcome = "none"
        /\ outcome # "none" =>
              /\ OptionAt(i) /\ ~Understood(i)
              /\ outcome =
                    IF args[i] \in {"--help", "-h"} THEN "usage"
                    ELSE IF args[i] \notin ValueOptions THEN "unknown_argument"
                    ELSE IF i = Len(args) THEN "missing_value"
                    ELSE "bad_value"
        /\ (status = "bad_spec") =
              \E k \in read : args[k] = "--fault-phase" /\ PhaseAt(k).reorder_window = 0

(* The fault policy the node applies in a step, from the command line alone. *)
Covers(k, step) ==
    /\ PhaseAt(k).start_step <= step
    /\ PhaseAt(k).end_step = NoEnd \/ step <= PhaseAt(k).end_step

LastSaid(option, default) ==
    IF Uses(option) = {} THEN default ELSE Parsed(option, args[Max(Uses(option)) + 1])[1]

BaseSaid ==
    [drop_every     |-> LastSaid("--fault-drop-every", NoDrop),
     delay_steps    |-> LastSaid("--fault-delay-steps", 0),
     reorder_window |-> LastSaid("--fault-reorder-window", 1)]

(* The policy of every step of an accepted run can be read off the command *)
(* line: that of the one --fault-phase whose range holds the step, all     *)
(* three parts of it, and outside the phases what the last use of each     *)
(* --fault- option says.  It depends neither on the order in which phases  *)
(* and base options are given and mixed nor on the sort, the scan of       *)
(* policy_for_step or which of its matches comes last.                     *)
PolicyAsWritten ==
    status = "ok" =>
        \A step \in Horizon :
            LET policy  == policy_for_step([base |-> base_policy, phases |-> phases], step)
                written == {k \in Uses("--fault-phase") : Covers(k, step)}
            IN  /\ \A k \in written : policy = AsPhase(PhaseAt(k)).policy
                /\ written = {} => policy = BaseSaid

==============================================================================
