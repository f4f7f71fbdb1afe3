---------------------------- MODULE MCCommandLine ----------------------------
EXTENDS CommandLine

CONSTANTS
    MaxPhases,   \* bound: the phases of a command line of phases only
    MaxWords     \* bound: the arguments of a command line of any words

(* The checks never look at the policies of phases, so one good window is  *)
(* enough to tell sound schedules from unsound ones.                       *)
Starts == {"0", "1", "2", "3"}
Sound3 == {<<s, e, "0", "0", "1">> : s \in Starts, e \in Starts \cup {"*"}}
Odd == {<<"1", "2", "3", "2", "3">>, <<"0", "0", "0", "0", "0">>,
        <<"*", "2", "0", "0", "1">>, <<"0", "1">>, <<"0", "*", "0", "0", "*">>}

Joined(p) == FoldLeft(LAMBDA w, part : IF w = "" THEN part ELSE w \o ":" \o part, "", p)
PhaseWord == [p \in Sound3 \cup Odd |-> Joined(p)]
ColonTable == [w \in Range(PhaseWord) |-> CHOOSE p \in DOMAIN PhaseWord : PhaseWord[p] = w]

Numbers == ("0" :> 0) @@ ("1" :> 1) @@ ("2" :> 2) @@ ("3" :> 3)
(* Two spellings of one id. *)
Uuids == ("a" :> "A") @@ ("A" :> "A") @@ ("b" :> "B")
EqualsTable == ("a=x" :> <<"a", "x">>) @@ ("A=y=z" :> <<"A", "y=z">>)
                    @@ ("b=x" :> <<"b", "x">>) @@ ("c=x" :> <<"c", "x">>)
                    @@ ("=" :> <<"", "">>)

PhaseUses(p) == <<"--fault-phase", PhaseWord[p]>>
Schedules ==
    UNION {{FlattenSeq([k \in 1..n |-> PhaseUses(f[k])]) : f \in [1..n -> Sound3]} :
               n \in 0..MaxPhases}

(* Each option with each value, and two of these. *)
Values == {"0", "2", "a", "--replay", "a=x", "A=y=z", "b=x", "c=x", "=",
           "1:2:3:2:3", "0:0:0:0:0", "*:2:0:0:1", "0:1", "0:*:0:0:*", "0:0:0:0:1"}
Options == Flags \cup ValueOptions \cup {"-h", "--help", "--unknown"}
Uses1 == {<<f>> : f \in Flags \cup {"-h", "--help", "--unknown"}}
             \cup {<<o, v>> : o \in ValueOptions, v \in Values}
Good1 == {u \in Uses1 :
             \/ u[1] \in Flags
             \/ u[1] = "--fault-phase" /\ u[2] \in {"1:2:3:2:3", "0:0:0:0:1", "0:0:0:0:0"}
             \/ u[1] = "--peer" /\ u[2] \in {"a=x", "A=y=z", "b=x"}
             \/ Len(u) = 2 /\ u[1] \in FieldOptions /\ u[2] \in {"0", "2", "a"}}
Pairs == {u \o v : u \in Good1, v \in Uses1}

(* Any words in any order, so that values stand where options are expected *)
(* and options where values are.                                           *)
Words == {"--replay", "--trace", "--listen", "--fault-reorder-window", "--peer",
          "--fault-phase", "2", "0", "a=x", "1:2:3:2:3", "0:0:0:0:1"}
Mixed == UNION {[1..n -> Words] : n \in 0..MaxWords}

LineTable == Schedules \cup Uses1 \cup Pairs \cup Mixed
SpecTable ==
    UNION {{PhaseSpec(w)[1]} : w \in {v \in DOMAIN ColonTable : PhaseSpec(v) # <<>>}}

(* TLC keeps the values of these tables, and would not keep those of       *)
(* definitions put directly in the place of constants.                     *)
MCText == STRING
MCLines == LineTable
MCU64 == Numbers
MCUuid == Uuids
MCEquals == EqualsTable
MCColons == ColonTable
MCSpecs == SpecTable
MCHorizon == 0..4

==============================================================================
