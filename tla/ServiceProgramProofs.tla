------------------------ MODULE ServiceProgramProofs ------------------------
(***************************************************************************)
(* For every set of lines and every length of text: what the parser builds *)
(* is type correct, what the loader returns is a program the runtime can   *)
(* rely on, a text is accepted exactly if it is well formed, and the       *)
(* program loaded is the one written, whatever the order in which the      *)
(* handlers are checked.                                                   *)
(*                                                                         *)
(* The parser's types rest on three lemmas about the declarations a line   *)
(* can yield; the loader's on LoaderOK, which says of the program under    *)
(* construction that its domains follow the services taken so far and of   *)
(* the handlers checked that they are valid.  The verdict and the program  *)
(* rest on two more parts of the invariant: ParserInv, by which the        *)
(* declarations read so far are Decls, those of the lines in their places, *)
(* and LoadingInv, by which the program so far is that of these.           *)
(***************************************************************************)
EXTENDS ServiceProgram, FiniteSetTheorems, SequenceTheorems,
        WellFoundedInduction, TLAPS

(* A word of a line is a string. *)
LEMMA Word ==
    ASSUME NEW t \in Seq(STRING), NEW i \in 1..Len(t)
    PROVE  t[i] \in STRING
OBVIOUS

(* A state line that is not refused declares a name and an integer. *)
LEMMA StateDeclType ==
    ASSUME NEW t \in Seq(STRING)
    PROVE  parse_state_decl(t) \in Seq(StateDecl)
<1>1. CASE Len(t) = 4 /\ t[3] = "=" /\ t[4] \in DOMAIN I64
  <2>1. t[2] \in STRING
    <3>1. 2 \in 1..Len(t)
      BY <1>1
    <3>. QED BY <3>1, Word
  <2>2. I64[t[4]] \in Int
    BY <1>1, NumberAssumption
  <2>3. [name |-> t[2], initial |-> I64[t[4]]] \in StateDecl
    BY <2>1, <2>2 DEF StateDecl
  <2>. QED BY <1>1, <2>3 DEF parse_state_decl, Parsed
<1>2. CASE ~(Len(t) = 4 /\ t[3] = "=" /\ t[4] \in DOMAIN I64)
  BY <1>2 DEF parse_state_decl, Parsed
<1>. QED BY <1>1, <1>2

(* An effects line that is not refused names known effects. *)
LEMMA EffectsDeclType ==
    ASSUME NEW t, parse_effects_decl(t) # <<>>
    PROVE  parse_effects_decl(t)[1] \in SUBSET Effects
BY DEF parse_effects_decl, Parsed

(* The conditions of the leading `if's compare a word with an integer. *)
LEMMA GuardsType ==
    ASSUME NEW t \in Seq(STRING), parse_if_state_eq(t)
    PROVE  Guards(t) \in SUBSET Guard
<1>. SUFFICES ASSUME NEW k \in Ifs(t)
              PROVE  [key |-> t[4 * k + 2], value |-> I64[t[4 * k + 4]]] \in Guard
  BY DEF Guards
<1>1. k \in Nat /\ Len(t) - 4 * k >= 5 /\ t[4 * k + 4] \in DOMAIN I64
  BY DEF Ifs, parse_if_state_eq
<1>2. t[4 * k + 2] \in STRING
  BY <1>1, Word
<1>3. I64[t[4 * k + 4]] \in Int
  BY <1>1, NumberAssumption
<1>. QED BY <1>2, <1>3 DEF Guard

(* A send or timer action has the type of its effect. *)
LEMMA SendingType ==
    ASSUME NEW t \in Seq(STRING), NEW g \in SUBSET Guard, NEW target \in Target,
           NEW at \in Nat \ {0}, Len(t) >= at + 2,
           NEW effect \in SendEffects, NEW steps \in Nat,
           steps = 0 <=> effect \notin TimerEffects
    PROVE  Sending(effect, steps, target, t, at, g) \in Action
<1>1. t[at] \in STRING /\ t[at + 1] \in STRING
  BY Word
<1>2. CASE effect \in TimerEffects
  BY <1>1, <1>2 DEF Sending, Action
<1>3. CASE effect \notin TimerEffects
  BY <1>1, <1>3 DEF Sending, Action
<1>. QED BY <1>2, <1>3

LEMMA TimerType ==
    ASSUME NEW t \in Seq(STRING), NEW g \in SUBSET Guard
    PROVE  parse_timer_local(t, g) \in Seq(Action)
<1>. DEFINE remote == t[3] = "remote"
            at     == CASE remote -> 5 [] t[3] = "local" -> 4 [] OTHER -> 3
            ok     == /\ Len(t) >= 5
                      /\ t[2] \in DOMAIN U64 /\ U64[t[2]] # 0
                      /\ Len(t) >= at + 2
                      /\ remote => parse_remote_target(t[4])
            effect == IF remote THEN "timer_remote" ELSE "timer_local"
            target == IF remote THEN t[4] ELSE "self"
            action == Sending(effect, U64[t[2]], target, t, at, g)
<1>1. parse_timer_local(t, g) = Parsed(ok, action)
  BY DEF parse_timer_local
<1>2. ASSUME ok PROVE action \in Action
  <2>1. U64[t[2]] \in Nat /\ U64[t[2]] # 0
    BY <1>2, NumberAssumption
  <2>2. target \in Target
    <3>1. 4 \in 1..Len(t)
      BY <1>2
    <3>2. t[4] \in STRING
      BY <3>1, Word
    <3>. QED BY <3>2 DEF Target
  <2>3. at \in {3, 4, 5}
    OBVIOUS
  <2>4. effect \in SendEffects /\ effect \in TimerEffects
    BY DEF SendEffects, TimerEffects
  <2>5. Len(t) >= at + 2
    BY <1>2
  <2>6. at \in Nat \ {0}
    BY <2>3
  <2>. HIDE DEF at, effect, target
  <2>. QED BY <2>1, <2>2, <2>4, <2>5, <2>6, SendingType
<1>. HIDE DEF ok, action
<1>. QED BY <1>1, <1>2 DEF Parsed

LEMMA SendType ==
    ASSUME NEW t \in Seq(STRING), NEW g \in SUBSET Guard
    PROVE  parse_send(t, g) \in Seq(Action)
<1>. DEFINE remote == t[2] = "remote"
            at     == IF remote THEN 4 ELSE 3
            ok     == /\ Len(t) >= 5
                      /\ remote \/ t[2] = "local"
                      /\ Len(t) >= at + 2
                      /\ remote => parse_remote_target(t[3])
            effect == IF remote THEN "send_remote" ELSE "send_local"
            target == IF remote THEN t[3] ELSE "self"
            action == Sending(effect, 0, target, t, at, g)
<1>1. parse_send(t, g) = Parsed(ok, action)
  BY DEF parse_send
<1>2. ASSUME ok PROVE action \in Action
  <2>1. target \in Target
    <3>1. 3 \in 1..Len(t)
      BY <1>2
    <3>2. t[3] \in STRING
      BY <3>1, Word
    <3>. QED BY <3>2 DEF Target
  <2>2. at \in Nat \ {0}
    OBVIOUS
  <2>3. effect \in SendEffects /\ effect \notin TimerEffects
    BY DEF SendEffects, TimerEffects
  <2>4. Len(t) >= at + 2
    BY <1>2
  <2>. HIDE DEF at, effect, target
  <2>. QED BY <2>1, <2>2, <2>3, <2>4, SendingType
<1>. HIDE DEF ok, action
<1>. QED BY <1>1, <1>2 DEF Parsed

LEMMA LogType ==
    ASSUME NEW t, NEW g \in SUBSET Guard
    PROVE  parse_log(t, g) \in Seq(Action)
<1>1. [effect |-> "log", guards |-> g] \in Action
  BY DEF Action
<1>. QED BY <1>1 DEF parse_log, Parsed

LEMMA SetType ==
    ASSUME NEW t \in Seq(STRING), NEW g \in SUBSET Guard
    PROVE  parse_set_state(t, g) \in Seq(Action)
<1>1. ASSUME Len(t) = 3, t[3] \in DOMAIN I64
      PROVE  [effect |-> "state_write", op |-> "set", key |-> t[2],
              value |-> I64[t[3]], guards |-> g] \in Action
  <2>1. t[2] \in STRING /\ I64[t[3]] \in Int
    BY <1>1, Word, NumberAssumption
  <2>. QED BY <2>1 DEF Action
<1>. QED BY <1>1 DEF parse_set_state, Parsed

LEMMA IncType ==
    ASSUME NEW t \in Seq(STRING), NEW g \in SUBSET Guard
    PROVE  parse_inc_state(t, g) \in Seq(Action)
<1>. DEFINE by == IF Len(t) = 3 THEN I64[t[3]] ELSE 1
<1>1. ASSUME Len(t) \in {2, 3}, Len(t) = 3 => t[3] \in DOMAIN I64
      PROVE  [effect |-> "state_write", op |-> "inc", key |-> t[2],
              by |-> by, guards |-> g] \in Action
  <2>1. t[2] \in STRING /\ by \in Int
    BY <1>1, Word, NumberAssumption
  <2>. HIDE DEF by
  <2>. QED BY <2>1 DEF Action
<1>. QED BY <1>1 DEF parse_inc_state, Parsed

(* An action line that is not refused is an action of its kind, however    *)
(* many `if's stand before it.                                             *)
LEMMA ActionType ==
    ASSUME NEW t \in Seq(STRING)
    PROVE  parse_action(t) \in Seq(Action)
<1>. DEFINE rest == SubSeq(t, 4 * Cardinality(Ifs(t)) + 1, Len(t))
<1>1. rest \in Seq(STRING)
  <2>1. Cardinality(Ifs(t)) \in Nat
    <3>1. IsFiniteSet(0..Len(t))
      BY FS_Interval
    <3>2. Ifs(t) \subseteq 0..Len(t)
      BY DEF Ifs
    <3>. QED BY <3>1, <3>2, FS_Subset, FS_CardinalityType
  <2>. QED BY <2>1
<1>2. CASE ~parse_if_state_eq(t) \/ rest = <<>>
  BY <1>2 DEF parse_action
<1>3. CASE parse_if_state_eq(t) /\ rest # <<>>
  <2>1. Guards(t) \in SUBSET Guard
    BY <1>3, GuardsType
  <2>2. /\ parse_log(rest, Guards(t)) \in Seq(Action)
        /\ parse_set_state(rest, Guards(t)) \in Seq(Action)
        /\ parse_inc_state(rest, Guards(t)) \in Seq(Action)
        /\ parse_timer_local(rest, Guards(t)) \in Seq(Action)
        /\ parse_send(rest, Guards(t)) \in Seq(Action)
    <3>. HIDE DEF rest
    <3>. QED BY <1>1, <2>1, LogType, SetType, IncType, TimerType, SendType
  <2>. QED BY <1>3, <2>2 DEF parse_action
<1>. QED BY <1>2, <1>3


------------------------------------------------------------------------------
(* An option that is not empty holds one declaration, and may hold another *)
(* in its place.                                                           *)
LEMMA OptionValue ==
    ASSUME NEW S, NEW o, IsOption(o, S), o # <<>>
    PROVE  /\ o[1] \in S /\ Len(o) = 1
           /\ \A x : [o EXCEPT ![1] = x] = <<x>>
<1>1. o \in Seq(S) /\ Len(o) = 1
  <2>1. o \in Seq(S) /\ Len(o) \in {0, 1}
    BY DEF IsOption
  <2>2. Len(o) # 0
    BY <2>1, EmptySeq
  <2>. QED BY <2>1, <2>2
<1>2. o[1] \in S
  BY <1>1
<1>3. ASSUME NEW x PROVE [o EXCEPT ![1] = x] = <<x>>
  BY <1>1
<1>. QED BY <1>1, <1>2, <1>3

(* A handler in the making is put into its service, a service into the     *)
(* list: each flush leaves declarations of their type.                     *)
LEMMA FlushType ==
    ASSUME TypeOK
    PROVE  /\ current_service # <<>> => <<FlushedService>> \in Seq(ServiceDecl)
           /\ flush_service \in Seq(ServiceDecl)
<1>1. CASE current_service = <<>>
  BY <1>1 DEF TypeOK, flush_service
<1>2. CASE current_service # <<>>
  <2>1. current_service[1] \in ServiceDecl
    BY <1>2 DEF TypeOK, IsOption
  <2>2. current_service[1].handlers \o current_handler \in Seq(HandlerDecl)
    BY <2>1 DEF TypeOK, IsOption, ServiceDecl
  <2>3. FlushedService \in ServiceDecl
    BY <2>1, <2>2 DEF FlushedService, ServiceDecl
  <2>. QED BY <1>2, <2>3 DEF TypeOK, flush_service
<1>. QED BY <1>1, <1>2

LEMMA InitTypeOK == Init => TypeOK
BY DEF Init, TypeOK, IsOption

LEMMA ReadText ==
    ASSUME TypeOK, NEW l \in DOMAIN Lines, Read(l)
    PROVE  text' \in Seq(DOMAIN Lines)
BY DEF TypeOK, Read

LEMMA RefuseType ==
    ASSUME TypeOK, NEW l \in DOMAIN Lines, Read(l), Refuse
    PROVE  TypeOK'
BY ReadText DEF TypeOK, Refuse, parser

LEMMA ReadServiceType ==
    ASSUME TypeOK, NEW l \in DOMAIN Lines, ReadService(l)
    PROVE  TypeOK'
<1>. DEFINE t == Tokens[l]
<1>1. Read(l)
  BY DEF ReadService, ReadKeyword
<1>2. CASE Refuse
  BY <1>1, <1>2, RefuseType
<1>3. CASE Len(t) = 2 /\ ~Refuse
  <2>1. t[2] \in STRING
    <3>1. t \in Seq(STRING) /\ 2 \in 1..Len(t)
      BY <1>3, TokensAssumption
    <3>. QED BY <3>1, Word
  <2>2. [name |-> t[2], states |-> <<>>, handlers |-> <<>>] \in ServiceDecl
    BY <2>1 DEF ServiceDecl
  <2>3. /\ services' = flush_service
        /\ current_service' = <<[name |-> t[2], states |-> <<>>, handlers |-> <<>>]>>
        /\ current_handler' = <<>> /\ phase' = phase
    BY <1>3 DEF ReadService
  <2>4. IsOption(current_service, ServiceDecl)' /\ IsOption(current_handler, HandlerDecl)'
    BY <2>2, <2>3 DEF IsOption
  <2>5. current_service' # <<>>
    BY <2>3
  <2>6. services' \in Seq(ServiceDecl)
    BY <2>3, FlushType
  <2>7. text' \in Seq(DOMAIN Lines)
    BY <1>1, ReadText
  <2>. QED BY <2>3, <2>4, <2>5, <2>6, <2>7 DEF TypeOK
<1>. QED BY <1>2, <1>3 DEF ReadService

LEMMA ReadStateType ==
    ASSUME TypeOK, NEW l \in DOMAIN Lines, ReadState(l)
    PROVE  TypeOK'
<1>. DEFINE decl == parse_state_decl(Tokens[l])
<1>1. Read(l)
  BY DEF ReadState, ReadKeyword
<1>2. CASE Refuse
  BY <1>1, <1>2, RefuseType
<1>3. CASE current_service # <<>> /\ ~Refuse
  <2>1. decl \in Seq(StateDecl)
    BY TokensAssumption, StateDeclType
  <2>2. /\ current_service' = [current_service EXCEPT ![1].states = @ \o decl]
        /\ UNCHANGED <<phase, services, current_handler>>
    BY <1>3 DEF ReadState
  <2>. HIDE DEF decl
  <2>3. /\ current_service[1] \in ServiceDecl /\ Len(current_service) = 1
        /\ \A x : [current_service EXCEPT ![1] = x] = <<x>>
    BY <1>3, OptionValue DEF TypeOK
  <2>4. [current_service[1] EXCEPT !.states = @ \o decl] \in ServiceDecl
    <3>1. current_service[1].states \o decl \in Seq(StateDecl)
      BY <2>1, <2>3 DEF ServiceDecl
    <3>. QED BY <2>3, <3>1 DEF ServiceDecl
  <2>5. current_service' = <<[current_service[1] EXCEPT !.states = @ \o decl]>>
    BY <2>2, <2>3
  <2>6. text' \in Seq(DOMAIN Lines)
    BY <1>1, ReadText
  <2>7. IsOption(current_service, ServiceDecl)' /\ current_service' # <<>>
    BY <2>4, <2>5 DEF IsOption
  <2>. QED BY <2>2, <2>6, <2>7 DEF TypeOK, IsOption
<1>. QED BY <1>2, <1>3 DEF ReadState

LEMMA ReadOnType ==
    ASSUME TypeOK, NEW l \in DOMAIN Lines, ReadOn(l)
    PROVE  TypeOK'
<1>. DEFINE t == Tokens[l]
<1>1. Read(l)
  BY DEF ReadOn, ReadKeyword
<1>2. CASE Refuse
  BY <1>1, <1>2, RefuseType
<1>3. CASE current_service # <<>> /\ Len(t) = 2 /\ ~Refuse
  <2>1. t[2] \in STRING
    <3>1. t \in Seq(STRING) /\ 2 \in 1..Len(t)
      BY <1>3, TokensAssumption
    <3>. QED BY <3>1, Word
  <2>2. [on |-> t[2], effects |-> {}, actions |-> <<>>] \in HandlerDecl
    BY <2>1 DEF HandlerDecl
  <2>3. /\ current_service' = <<FlushedService>>
        /\ current_handler' = <<[on |-> t[2], effects |-> {}, actions |-> <<>>]>>
        /\ UNCHANGED <<phase, services>>
    BY <1>3 DEF ReadOn
  <2>4. current_service' \in Seq(ServiceDecl)
    BY <1>3, <2>3, FlushType
  <2>5. text' \in Seq(DOMAIN Lines)
    BY <1>1, ReadText
  <2>. QED BY <2>2, <2>3, <2>4, <2>5 DEF TypeOK, IsOption
<1>. QED BY <1>2, <1>3 DEF ReadOn

LEMMA ReadEffectsType ==
    ASSUME TypeOK, NEW l \in DOMAIN Lines, ReadEffects(l)
    PROVE  TypeOK'
<1>. DEFINE names == parse_effects_decl(Tokens[l])
<1>1. Read(l)
  BY DEF ReadEffects, ReadKeyword
<1>2. CASE Refuse
  BY <1>1, <1>2, RefuseType
<1>3. CASE current_handler # <<>> /\ names # <<>> /\ ~Refuse
  <2>1. names[1] \in SUBSET Effects
    BY <1>3, EffectsDeclType
  <2>2. /\ current_handler' = [current_handler EXCEPT ![1].effects = names[1]]
        /\ UNCHANGED <<phase, services, current_service>>
    BY <1>3 DEF ReadEffects
  <2>. HIDE DEF names
  <2>3. /\ current_handler[1] \in HandlerDecl /\ Len(current_handler) = 1
        /\ \A x : [current_handler EXCEPT ![1] = x] = <<x>>
    BY <1>3, OptionValue DEF TypeOK
  <2>4. [current_handler[1] EXCEPT !.effects = names[1]] \in HandlerDecl
    BY <2>1, <2>3 DEF HandlerDecl
  <2>5. current_handler' = <<[current_handler[1] EXCEPT !.effects = names[1]]>>
    BY <2>2, <2>3
  <2>6. text' \in Seq(DOMAIN Lines)
    BY <1>1, ReadText
  <2>. QED BY <1>3, <2>2, <2>4, <2>5, <2>6 DEF TypeOK, IsOption
<1>. QED BY <1>2, <1>3 DEF ReadEffects

LEMMA ReadActionType ==
    ASSUME TypeOK, NEW l \in DOMAIN Lines, ReadAction(l)
    PROVE  TypeOK'
<1>. DEFINE action == parse_action(Tokens[l])
<1>1. Read(l)
  BY DEF ReadAction
<1>2. CASE Refuse
  BY <1>1, <1>2, RefuseType
<1>3. CASE current_handler # <<>> /\ action # <<>> /\ ~Refuse
  <2>1. action \in Seq(Action)
    BY TokensAssumption, ActionType
  <2>2. /\ current_handler' = [current_handler EXCEPT ![1].actions = @ \o action]
        /\ UNCHANGED <<phase, services, current_service>>
    BY <1>3 DEF ReadAction
  <2>. HIDE DEF action
  <2>3. /\ current_handler[1] \in HandlerDecl /\ Len(current_handler) = 1
        /\ \A x : [current_handler EXCEPT ![1] = x] = <<x>>
    BY <1>3, OptionValue DEF TypeOK
  <2>4. [current_handler[1] EXCEPT !.actions = @ \o action] \in HandlerDecl
    <3>1. current_handler[1].actions \o action \in Seq(Action)
      BY <2>1, <2>3 DEF HandlerDecl
    <3>. QED BY <2>3, <3>1 DEF HandlerDecl
  <2>5. current_handler' = <<[current_handler[1] EXCEPT !.actions = @ \o action]>>
    BY <2>2, <2>3
  <2>6. text' \in Seq(DOMAIN Lines)
    BY <1>1, ReadText
  <2>. QED BY <1>3, <2>2, <2>4, <2>5, <2>6 DEF TypeOK, IsOption
<1>. QED BY <1>2, <1>3 DEF ReadAction

LEMMA TypeStep == TypeOK /\ [Next]_vars => TypeOK'
<1>. SUFFICES ASSUME TypeOK, [Next]_vars PROVE TypeOK'
  OBVIOUS
<1>1. ASSUME NEW l \in DOMAIN Lines, ReadBlank(l) PROVE TypeOK'
  <2>1. text' \in Seq(DOMAIN Lines)
    BY <1>1, ReadText DEF ReadBlank
  <2>. QED BY <1>1, <2>1 DEF ReadBlank, TypeOK, parser
<1>2. CASE EndOfFile
  <2>1. CASE Refuse
    BY <1>2, <2>1 DEF EndOfFile, Refuse, TypeOK, parser
  <2>2. CASE ~Refuse
    <3>1. services' = flush_service /\ services' \in Seq(ServiceDecl)
      BY <1>2, <2>2, FlushType DEF EndOfFile
    <3>2. current_service' = <<>> /\ current_handler' = <<>> /\ phase' = "loading"
          /\ text' = text
      BY <1>2, <2>2 DEF EndOfFile
    <3>. QED BY <3>1, <3>2 DEF TypeOK, IsOption
  <2>. QED BY <2>1, <2>2
<1>3. ASSUME phase' \in {"loading", "checking", "loaded", "error", phase},
             UNCHANGED <<text, parser>>
      PROVE  TypeOK'
  BY <1>3 DEF TypeOK, parser
<1>4. CASE LoadService \/ LoadHandler \/ AllLoaded \/ AllChecked
  BY <1>3, <1>4 DEF LoadService, LoadHandler, AllLoaded, AllChecked, Fail
<1>5. ASSUME NEW h \in Handlers, CheckHandler(h[1], h[2]) PROVE TypeOK'
  BY <1>3, <1>5 DEF CheckHandler, Fail
<1>6. CASE Finished \/ UNCHANGED vars
  BY <1>3, <1>6 DEF Finished, vars
<1>. QED BY <1>1, <1>2, <1>4, <1>5, <1>6, ReadServiceType, ReadStateType, ReadOnType,
            ReadEffectsType, ReadActionType DEF Next

(* Type correctness of the parser for every set of lines and every length  *)
(* of text.                                                                *)
THEOREM TypeCorrect == Spec => []TypeOK
BY InitTypeOK, TypeStep, PTL DEF Spec

------------------------------------------------------------------------------
(* The loader.  Its program follows the services it has taken; the plans   *)
(* are those of parsed handlers; and a handler counts as checked only if   *)
(* all its actions are valid and its effects are those it declares.        *)
Plan == [declared : SUBSET Effects, actions : Seq(Action)]

ProgramShape ==
    /\ program = [services |-> program.services, initial |-> program.initial,
                  handlers |-> program.handlers]
    /\ program.services \in Seq(STRING) /\ IsInjective(program.services)
    /\ DOMAIN program.initial = Range(program.services)
    /\ DOMAIN program.handlers = Range(program.services)
    /\ \A s \in Range(program.services) : \A m \in DOMAIN program.handlers[s] :
          program.handlers[s][m] \in Plan

Progress ==
    /\ taken \in Nat /\ Loaded <= Len(services)
    /\ Loaded > 0 => taken <= Len(services[Loaded].handlers)
    /\ phase = "parsing" => Loaded = 0
    /\ phase \in {"loading", "checking", "loaded"} => services # <<>>
    /\ phase \in {"checking", "loaded"} => Loaded = Len(services)

Runnable(s, m) ==
    LET plan == program.handlers[s][m]
    IN  /\ \A i \in DOMAIN plan.actions : ValidAction(program, s, plan.actions[i])
        /\ plan.declared = infer_effects(plan.actions)

CheckedAreRunnable ==
    /\ phase \in {"parsing", "loading"} => checked = {}
    /\ phase \in {"checking", "loaded"} => \A h \in checked : Runnable(h[1], h[2])
    /\ phase = "loaded" => Handlers = checked

LoaderOK == ProgramShape /\ Progress /\ CheckedAreRunnable
IInv == TypeOK /\ LoaderOK

LEMMA InitLoaderOK == Init => LoaderOK
<1>. SUFFICES ASSUME Init PROVE LoaderOK
  OBVIOUS
<1>1. program = [services |-> <<>>, initial |-> <<>>, handlers |-> <<>>]
  BY DEF Init
<1>2. ProgramShape
  BY <1>1 DEF ProgramShape, IsInjective, Range
<1>3. Progress /\ CheckedAreRunnable
  BY <1>1 DEF Init, Progress, CheckedAreRunnable, Loaded
<1>. QED BY <1>2, <1>3 DEF LoaderOK

(* The checks of load_program on a typed action are those the runtime      *)
(* relies on: its steps are already those of its effect.                   *)
LEMMA ValidatedIsValid ==
    ASSUME NEW s, NEW a \in Action, validate_action(s, a)
    PROVE  ValidAction(program, s, a)
<1>1. a.effect \in SendEffects => (a.steps > 0 <=> a.effect \in TimerEffects)
  BY DEF Action, SendEffects, TimerEffects
<1>. QED BY <1>1 DEF validate_action, ValidAction

(* A phase that does not advance, or an error, keeps what was established. *)
LEMMA Stays ==
    ASSUME LoaderOK, UNCHANGED <<program, taken, checked, services>>,
           phase' \in {phase, "error"}
    PROVE  LoaderOK'
<1>1. ProgramShape' /\ Progress'
  BY DEF LoaderOK, ProgramShape, Progress, Loaded
<1>2. CheckedAreRunnable'
  BY SMTT(60) DEF LoaderOK, CheckedAreRunnable, Runnable, Handlers
<1>. QED BY <1>1, <1>2 DEF LoaderOK

LEMMA ReadKeeps ==
    ASSUME IInv, NEW l \in DOMAIN Lines,
           \/ ReadBlank(l) \/ ReadService(l) \/ ReadState(l)
           \/ ReadOn(l) \/ ReadEffects(l) \/ ReadAction(l)
    PROVE  LoaderOK'
<1>1. /\ phase = "parsing" /\ UNCHANGED <<program, taken, checked>>
      /\ phase' \in {phase, "error"}
  BY DEF ReadBlank, ReadService, ReadState, ReadOn, ReadEffects, ReadAction,
         ReadKeyword, Read, Refuse, loader
<1>2. ProgramShape' /\ CheckedAreRunnable'
  BY <1>1 DEF IInv, LoaderOK, ProgramShape, CheckedAreRunnable, Runnable, Handlers
<1>3. Len(services') \in Nat
  BY TypeStep DEF IInv, TypeOK, Next
<1>4. Progress'
  BY <1>1, <1>3 DEF IInv, LoaderOK, Progress, Loaded
<1>. QED BY <1>2, <1>4 DEF LoaderOK

LEMMA EndOfFileKeeps ==
    ASSUME IInv, EndOfFile
    PROVE  LoaderOK'
<1>1. CASE Refuse
  <2>1. UNCHANGED <<program, taken, checked, services>> /\ phase' = "error"
    BY <1>1 DEF EndOfFile, Refuse, loader, parser
  <2>. QED BY <2>1, Stays DEF IInv
<1>2. CASE ~Refuse
  <2>1. /\ phase = "parsing" /\ UNCHANGED <<program, taken, checked>>
        /\ phase' = "loading" /\ services' # <<>>
    BY <1>2 DEF EndOfFile, loader
  <2>2. ProgramShape' /\ CheckedAreRunnable'
    BY <2>1 DEF IInv, LoaderOK, ProgramShape, CheckedAreRunnable, Runnable, Handlers
  <2>3. services' \in Seq(ServiceDecl)
    BY TypeStep DEF IInv, TypeOK, Next
  <2>4. Progress'
    BY <2>1, <2>3 DEF IInv, LoaderOK, Progress, Loaded
  <2>. QED BY <2>2, <2>4 DEF LoaderOK
<1>. QED BY <1>1, <1>2

LEMMA LoadServiceKeeps ==
    ASSUME IInv, LoadService
    PROVE  LoaderOK'
<1>. DEFINE decl == services[Loaded + 1]
<1>1. CASE Fail
  BY <1>1, Stays DEF IInv, LoadService, Fail, loader, parser
<1>2. CASE ~Fail
  <2>1. /\ phase = "loading" /\ AllTaken /\ Loaded < Len(services)
        /\ decl.name \notin Range(program.services)
        /\ program' = [services |-> Append(program.services, decl.name),
                       initial  |-> Extend(program.initial, decl.name,
                                           InitialState(decl.states)),
                       handlers |-> Extend(program.handlers, decl.name, <<>>)]
        /\ taken' = 0 /\ UNCHANGED <<phase, checked, services>>
    BY <1>2 DEF LoadService, parser
  <2>2. Loaded \in Nat /\ program.services \in Seq(STRING)
        /\ services \in Seq(ServiceDecl)
    BY DEF IInv, LoaderOK, TypeOK, ProgramShape, Loaded
  <2>3. decl \in ServiceDecl
    BY <2>1, <2>2
  <2>4. decl.name \in STRING /\ decl.handlers \in Seq(HandlerDecl)
    BY <2>3 DEF ServiceDecl
  <2>. HIDE DEF decl
  <2>5. program'.services = Append(program.services, decl.name)
        /\ program'.initial = Extend(program.initial, decl.name,
                                     InitialState(decl.states))
        /\ program'.handlers = Extend(program.handlers, decl.name, <<>>)
    BY <2>1
  <2>6. /\ program'.services \in Seq(STRING)
        /\ Range(program'.services) = Range(program.services) \cup {decl.name}
    <3>. DEFINE list == Append(program.services, decl.name)
                n    == Len(program.services)
    <3>1. /\ list \in Seq(STRING) /\ DOMAIN list = 1..(n + 1) /\ n \in Nat
          /\ list[n + 1] = decl.name /\ DOMAIN program.services = 1..n
          /\ \A i \in 1..n : list[i] = program.services[i]
      BY <2>2, <2>4
    <3>. HIDE DEF list, n
    <3>2. Range(list) = Range(program.services) \cup {decl.name}
      <4>1. \A i \in 1..(n + 1) : i \in 1..n \/ i = n + 1
        BY <3>1
      <4>2. 1..n \subseteq 1..(n + 1) /\ n + 1 \in 1..(n + 1)
        BY <3>1
      <4>. QED BY <3>1, <4>1, <4>2 DEF Range
    <3>3. program'.services = list
      BY <2>5 DEF list
    <3>. QED BY <3>1, <3>2, <3>3
  <2>7. IsInjective(program'.services)
    BY <2>1, <2>2, <2>4, <2>5 DEF IInv, LoaderOK, ProgramShape, IsInjective, Range
  <2>8. /\ DOMAIN program'.initial = Range(program'.services)
        /\ DOMAIN program'.handlers = Range(program'.services)
    BY <2>5, <2>6 DEF IInv, LoaderOK, ProgramShape, Extend
  <2>9. ASSUME NEW s \in Range(program'.services), NEW m \in DOMAIN program'.handlers[s]
        PROVE  program'.handlers[s][m] \in Plan
    <3>1. CASE s = decl.name
      <4>1. program'.handlers[s] = <<>>
        BY <2>5, <2>6, <3>1 DEF Extend
      <4>. QED BY <4>1, <2>9
    <3>2. CASE s # decl.name
      <4>1. s \in Range(program.services) /\ program'.handlers[s] = program.handlers[s]
        BY <2>5, <2>6, <3>2 DEF IInv, LoaderOK, ProgramShape, Extend
      <4>. QED BY <4>1, <2>9 DEF IInv, LoaderOK, ProgramShape
    <3>. QED BY <3>1, <3>2
  <2>10. ProgramShape'
    BY <2>1, <2>5, <2>6, <2>7, <2>8, <2>9 DEF ProgramShape
  <2>11. Loaded' = Loaded + 1
    BY <2>2, <2>4, <2>5 DEF Loaded
  <2>12. 0 <= Len(services[Loaded'].handlers)
    BY <2>4, <2>11 DEF decl
  <2>13. Progress'
    BY <2>1, <2>2, <2>11, <2>12 DEF IInv, LoaderOK, Progress
  <2>14. CheckedAreRunnable'
    BY <2>1 DEF IInv, LoaderOK, CheckedAreRunnable
  <2>. QED BY <2>10, <2>13, <2>14 DEF LoaderOK
<1>. QED BY <1>1, <1>2

LEMMA LoadHandlerKeeps ==
    ASSUME IInv, LoadHandler
    PROVE  LoaderOK'
<1>. DEFINE s     == program.services[Loaded]
            plans == program.handlers[s]
            h     == services[Loaded].handlers[taken + 1]
            plan  == IF h.on \in DOMAIN plans THEN plans[h.on]
                     ELSE [declared |-> {}, actions |-> <<>>]
            next  == [declared |-> h.effects, actions |-> plan.actions \o h.actions]
<1>1. CASE Fail
  BY <1>1, Stays DEF IInv, LoadHandler, Fail, loader, parser
<1>2. CASE ~Fail
  <2>1. /\ phase = "loading" /\ ~AllTaken
        /\ program' = [program EXCEPT !.handlers[s] = Extend(plans, h.on, next)]
        /\ taken' = taken + 1 /\ UNCHANGED <<phase, checked, services>>
    BY <1>2 DEF LoadHandler, parser
  <2>2. /\ Loaded \in Nat /\ Loaded > 0 /\ Loaded <= Len(services)
        /\ taken \in Nat /\ taken < Len(services[Loaded].handlers)
        /\ program.services \in Seq(STRING) /\ services \in Seq(ServiceDecl)
    <3>1. /\ Loaded \in Nat /\ program.services \in Seq(STRING)
          /\ services \in Seq(ServiceDecl) /\ taken \in Nat
          /\ Loaded <= Len(services)
      BY DEF IInv, LoaderOK, TypeOK, ProgramShape, Progress, Loaded
    <3>2. Loaded > 0 /\ taken # Len(services[Loaded].handlers)
      BY <2>1 DEF AllTaken
    <3>3. taken <= Len(services[Loaded].handlers)
      BY <3>2 DEF IInv, LoaderOK, Progress
    <3>4. services[Loaded] \in ServiceDecl
      BY <3>1, <3>2
    <3>5. services[Loaded].handlers \in Seq(HandlerDecl)
      BY <3>4 DEF ServiceDecl
    <3>. QED BY <3>1, <3>2, <3>3, <3>5
  <2>3. services[Loaded].handlers \in Seq(HandlerDecl)
    <3>1. services[Loaded] \in ServiceDecl
      BY <2>2
    <3>. QED BY <3>1 DEF ServiceDecl
  <2>4. h \in HandlerDecl
    BY <2>2, <2>3
  <2>5. s \in Range(program.services)
    BY <2>2 DEF Range, Loaded
  <2>. HIDE DEF h, s
  <2>6. plan \in Plan
    BY <2>5 DEF IInv, LoaderOK, ProgramShape, Plan
  <2>. HIDE DEF plan
  <2>7. next \in Plan
    <3>1. plan.actions \o h.actions \in Seq(Action) /\ h.effects \in SUBSET Effects
      BY <2>4, <2>6 DEF Plan, HandlerDecl
    <3>. QED BY <3>1 DEF Plan
  <2>. HIDE DEF next
  <2>8. /\ program'.services = program.services
        /\ program'.initial = program.initial
        /\ program'.handlers = [program.handlers EXCEPT ![s] = Extend(plans, h.on, next)]
        /\ program' = [services |-> program'.services, initial |-> program'.initial,
                       handlers |-> program'.handlers]
    BY <2>1 DEF IInv, LoaderOK, ProgramShape
  <2>9. ASSUME NEW r \in Range(program'.services), NEW m \in DOMAIN program'.handlers[r]
        PROVE  program'.handlers[r][m] \in Plan
    <3>1. r \in DOMAIN program.handlers
      BY <2>8 DEF IInv, LoaderOK, ProgramShape
    <3>2. CASE r = s
      <4>1. program'.handlers[r] = Extend(plans, h.on, next)
        BY <2>8, <3>1, <3>2
      <4>. QED BY <2>5, <2>7, <2>9, <3>2, <4>1 DEF IInv, LoaderOK, ProgramShape, Extend
    <3>3. CASE r # s
      <4>1. program'.handlers[r] = program.handlers[r]
        BY <2>8, <3>1, <3>3
      <4>. QED BY <2>8, <2>9, <4>1 DEF IInv, LoaderOK, ProgramShape
    <3>. QED BY <3>2, <3>3
  <2>10. ProgramShape'
    <3>1. DOMAIN program'.handlers = DOMAIN program.handlers
      BY <2>8
    <3>. QED BY <2>8, <2>9, <3>1 DEF IInv, LoaderOK, ProgramShape
  <2>11. Progress'
    BY <2>1, <2>2, <2>8 DEF IInv, LoaderOK, Progress, Loaded
  <2>12. CheckedAreRunnable'
    BY <2>1 DEF IInv, LoaderOK, CheckedAreRunnable
  <2>. QED BY <2>10, <2>11, <2>12 DEF LoaderOK
<1>. QED BY <1>1, <1>2

LEMMA CheckKeeps ==
    ASSUME IInv, NEW s, NEW m, <<s, m>> \in Handlers, CheckHandler(s, m)
    PROVE  LoaderOK'
<1>. DEFINE plan == program.handlers[s][m]
<1>1. CASE Fail
  BY <1>1, Stays DEF IInv, CheckHandler, Fail, loader, parser
<1>2. CASE ~Fail
  <2>1. /\ phase = "checking" /\ checked' = checked \cup {<<s, m>>}
        /\ \A i \in DOMAIN plan.actions : validate_action(s, plan.actions[i])
        /\ infer_effects(plan.actions) = plan.declared
        /\ UNCHANGED <<phase, program, taken, services>>
    BY <1>2 DEF CheckHandler, parser
  <2>2. s \in Range(program.services) /\ m \in DOMAIN program.handlers[s]
    BY DEF Handlers, IInv, LoaderOK, ProgramShape
  <2>3. plan \in Plan
    BY <2>2 DEF IInv, LoaderOK, ProgramShape
  <2>4. \A i \in DOMAIN plan.actions : plan.actions[i] \in Action
    BY <2>3 DEF Plan
  <2>5. Runnable(s, m)
    BY <2>1, <2>4, ValidatedIsValid DEF Runnable
  <2>6. CheckedAreRunnable'
    <3>1. ASSUME NEW h \in checked' PROVE Runnable(h[1], h[2])
      <4>1. CASE h \in checked
        BY <2>1, <4>1 DEF IInv, LoaderOK, CheckedAreRunnable
      <4>2. CASE h = <<s, m>>
        BY <2>5, <4>2
      <4>. QED BY <2>1, <3>1, <4>1, <4>2
    <3>2. \A x, y : Runnable(x, y)' <=> Runnable(x, y)
      BY <2>1 DEF Runnable
    <3>. QED BY <2>1, <3>1, <3>2 DEF CheckedAreRunnable
  <2>7. ProgramShape' /\ Progress'
    BY <2>1 DEF IInv, LoaderOK, ProgramShape, Progress, Loaded
  <2>. QED BY <2>6, <2>7 DEF LoaderOK
<1>. QED BY <1>1, <1>2

LEMMA LoaderStep == IInv /\ [Next]_vars => LoaderOK'
<1>. SUFFICES ASSUME IInv, [Next]_vars PROVE LoaderOK'
  OBVIOUS
<1>1. CASE AllLoaded
  BY <1>1 DEF AllLoaded, IInv, LoaderOK, ProgramShape, Progress, CheckedAreRunnable,
              Loaded, loader, parser
<1>2. CASE AllChecked
  <2>1. /\ phase = "checking" /\ phase' = "loaded" /\ Handlers = checked
        /\ UNCHANGED <<program, taken, checked, services>>
    BY <1>2 DEF AllChecked, loader, parser
  <2>2. ProgramShape' /\ Progress'
    BY <2>1 DEF IInv, LoaderOK, ProgramShape, Progress, Loaded
  <2>3. Handlers' = Handlers /\ \A s, m : Runnable(s, m)' = Runnable(s, m)
    BY <2>1 DEF Handlers, Runnable
  <2>4. CheckedAreRunnable'
    BY <2>1, <2>3 DEF IInv, LoaderOK, CheckedAreRunnable
  <2> QED
    BY <2>2, <2>4 DEF LoaderOK
<1>3. CASE Finished \/ UNCHANGED vars
  BY <1>3, Stays DEF IInv, Finished, vars, loader, parser
<1>4. ASSUME NEW h \in Handlers, CheckHandler(h[1], h[2]) PROVE LoaderOK'
  <2>1. h = <<h[1], h[2]>>
    BY DEF Handlers
  <2>. QED BY <1>4, <2>1, CheckKeeps
<1>. QED BY <1>1, <1>2, <1>3, <1>4, ReadKeeps, EndOfFileKeeps, LoadServiceKeeps,
            LoadHandlerKeeps DEF Next

(* When every handler is checked, the program is one the runtime may run.  *)
LEMMA CheckedIsLoadable == IInv => LoadedIsRunnable
<1>. SUFFICES ASSUME IInv, phase = "loaded" PROVE Loadable(program)
  BY DEF LoadedIsRunnable
<1>1. program.services # <<>>
  BY EmptySeq DEF IInv, TypeOK, LoaderOK, Progress, Loaded
<1>2. ASSUME NEW s \in Range(program.services), NEW m \in DOMAIN program.handlers[s]
      PROVE  Runnable(s, m)
  <2>1. <<s, m>> \in checked
    BY <1>2 DEF IInv, LoaderOK, ProgramShape, CheckedAreRunnable, Handlers
  <2>. QED BY <2>1 DEF IInv, LoaderOK, CheckedAreRunnable
<1>. QED BY <1>1, <1>2 DEF Loadable, Runnable, IInv, LoaderOK, ProgramShape

(* Whatever the text, a program that load_program returns is one the       *)
(* runtime can rely on: known services, declared keys, and handlers that   *)
(* do what they declare.                                                   *)
THEOREM LoadedProgramIsRunnable == Spec => []LoadedIsRunnable
<1>1. Init => IInv
  BY InitTypeOK, InitLoaderOK DEF IInv
<1>2. IInv /\ [Next]_vars => IInv'
  BY TypeStep, LoaderStep DEF IInv
<1>. QED BY <1>1, <1>2, CheckedIsLoadable, PTL DEF Spec

------------------------------------------------------------------------------
(***************************************************************************)
(* Positions in order.                                                     *)
(***************************************************************************)
(* A non-empty set of numbers has a least one. *)
LEMMA LeastNumber ==
    ASSUME NEW T, T \subseteq Nat, T # {}
    PROVE  \E x \in T : \A y \in T : x <= y
<1> DEFINE R == {p \in Nat \X Nat : p[1] < p[2]}
<1>1. IsWellFoundedOn(R, Nat)
  BY NatLessThanWellFounded DEF OpToRel
<1>2. PICK x \in T : \A y \in T : ~ (<<y, x>> \in R)
  BY <1>1, WFMin, Zenon
<1>3. \A y \in T : ~ (y < x)
  BY <1>2
<1> QED
  BY <1>3

(* Induction, with the induction hypothesis as a set. *)
LEMMA Induction ==
    ASSUME NEW T, 0 \in T, \A n \in T \cap Nat : n + 1 \in T
    PROVE  Nat \subseteq T
<1> SUFFICES ASSUME Nat \ T # {} PROVE FALSE
  OBVIOUS
<1>1. PICK n \in Nat \ T : \A m \in Nat \ T : n <= m
  BY LeastNumber
<1>2. n - 1 \in Nat \ T
  BY <1>1
<1> QED
  BY <1>1, <1>2

(* A set of numbers up to n has a maximum. *)
Peaks(S) == Max(S) \in S /\ \A y \in S : y <= Max(S)

LEMMA MaxIs == \A n \in Nat : \A S \in SUBSET (0..n) : S # {} => Peaks(S)
<1> DEFINE T == {n \in Nat : \A S \in SUBSET (0..n) :
                     S # {} => \E x \in S : \A y \in S : x >= y}
<1>1. 0 \in T
  <2> SUFFICES ASSUME NEW S \in SUBSET (0..0), S # {} PROVE \E x \in S : \A y \in S : x >= y
    OBVIOUS
  <2>1. PICK x \in S : TRUE
    OBVIOUS
  <2>2. \A y \in S : x = 0 /\ y = 0
    OBVIOUS
  <2> QED
    BY <2>2
<1>2. ASSUME NEW n \in T \cap Nat PROVE n + 1 \in T
  <2> SUFFICES ASSUME NEW S \in SUBSET (0..(n + 1)), S # {}
               PROVE  \E x \in S : \A y \in S : x >= y
    OBVIOUS
  <2>1. CASE n + 1 \in S
    <3>1. \A y \in S : n + 1 >= y
      OBVIOUS
    <3> QED
      BY <2>1, <3>1
  <2>2. CASE n + 1 \notin S
    <3>1. S \in SUBSET (0..n)
      BY <2>2
    <3> QED
      BY <3>1
  <2> QED
    BY <2>1, <2>2
<1>3. Nat \subseteq T
  <2> HIDE DEF T
  <2> QED
    BY <1>1, <1>2, Induction
<1> SUFFICES ASSUME NEW n \in Nat, NEW S \in SUBSET (0..n), S # {} PROVE Peaks(S)
  OBVIOUS
<1>4. \E x \in S : \A y \in S : x >= y
  BY <1>3
<1>5. Max(S) \in S /\ \A y \in S : Max(S) >= y
  BY <1>4 DEF Max
<1> QED
  BY <1>5 DEF Peaks

Place(S, i) == Cardinality({j \in S : j <= i})
Ranked(S) ==
    /\ IsFiniteSet(S) /\ Cardinality(S) \in Nat
    /\ \A i \in S : Place(S, i) \in 1..Cardinality(S)
    /\ \A i, j \in S : i < j => Place(S, i) < Place(S, j)
    /\ \A k \in 1..Cardinality(S) : \E i \in S : Place(S, i) = k

LEMMA RankedMore ==
    ASSUME NEW n \in Nat, NEW S \in SUBSET (1..n), Ranked(S)
    PROVE  LET T == S \cup {n + 1}
           IN  /\ Ranked(T) /\ Cardinality(T) = Cardinality(S) + 1
               /\ \A i \in S : Place(T, i) = Place(S, i)
               /\ Place(T, n + 1) = Cardinality(S) + 1
<1> DEFINE T == S \cup {n + 1}
           c == Cardinality(S)
<1>1. IsFiniteSet(T) /\ Cardinality(T) = c + 1 /\ c \in Nat
  BY FS_AddElement, n + 1 \notin S DEF Ranked
<1>2. ASSUME NEW i \in S PROVE Place(T, i) = Place(S, i)
  <2>1. {j \in T : j <= i} = {j \in S : j <= i}
    BY i < n + 1
  <2> QED
    BY <2>1 DEF Place
<1>3. Place(T, n + 1) = c + 1
  <2>1. \A j \in T : j <= n + 1
    OBVIOUS
  <2>2. {j \in T : j <= n + 1} = T
    BY <2>1
  <2> QED
    BY <1>1, <2>2 DEF Place
<1> DEFINE P(i) == Place(T, i)
<1>4. \A i \in T : P(i) \in 1..(c + 1)
  BY <1>1, <1>2, <1>3 DEF Ranked
<1>5. \A i, j \in T : i < j => P(i) < P(j)
  <2> SUFFICES ASSUME NEW i \in T, NEW j \in T, i < j PROVE P(i) < P(j)
    OBVIOUS
  <2>1. i \in S
    OBVIOUS
  <2>2. CASE j \in S
    BY <1>2, <2>1, <2>2 DEF Ranked
  <2>3. CASE j = n + 1
    BY <1>1, <1>2, <1>3, <2>1, <2>3 DEF Ranked
  <2> QED
    BY <2>2, <2>3
<1>6. ASSUME NEW k \in 1..(c + 1) PROVE \E i \in T : P(i) = k
  <2>1. CASE k = c + 1
    BY <1>3, <2>1
  <2>2. CASE k \in 1..c
    <3>1. PICK i \in S : Place(S, i) = k
      BY <2>2 DEF Ranked
    <3> QED
      BY <1>2, <3>1
  <2>3. k = c + 1 \/ k \in 1..c
    BY <1>1
  <2> QED
    BY <2>1, <2>2, <2>3
<1>7. Ranked(T)
  <2> HIDE DEF T
  <2> QED
    BY <1>1, <1>4, <1>5, <1>6 DEF Ranked
<1> QED
  BY <1>1, <1>2, <1>3, <1>7

LEMMA AllRanked == \A n \in Nat : \A S \in SUBSET (1..n) : Ranked(S)
<1> DEFINE T == {n \in Nat : \A S \in SUBSET (1..n) : Ranked(S)}
<1>1. 0 \in T
  <2>1. Ranked({})
    BY FS_EmptySet DEF Ranked
  <2>2. \A S \in SUBSET (1..0) : S = {}
    OBVIOUS
  <2> QED
    BY <2>1, <2>2
<1>2. ASSUME NEW n \in T \cap Nat PROVE n + 1 \in T
  <2> SUFFICES ASSUME NEW S \in SUBSET (1..(n + 1)) PROVE Ranked(S)
    OBVIOUS
  <2>1. CASE n + 1 \in S
    <3> DEFINE U == S \ {n + 1}
    <3>1. U \in SUBSET (1..n) /\ S = U \cup {n + 1}
      BY <2>1
    <3>2. Ranked(U)
      BY <3>1
    <3> HIDE DEF U
    <3> QED
      BY <3>1, <3>2, RankedMore
  <2>2. CASE n + 1 \notin S
    <3>1. S \in SUBSET (1..n)
      BY <2>2
    <3> QED
      BY <3>1
  <2> QED
    BY <2>1, <2>2
<1>3. Nat \subseteq T
  <2> HIDE DEF T
  <2> QED
    BY <1>1, <1>2, Induction
<1> QED
  BY <1>3

(* InOrder lists its set. *)
Lists(q, S) ==
    /\ q \in Seq(S) /\ Len(q) = Cardinality(S)
    /\ \A k \in 1..Len(q) : q[k] \in S /\ Place(S, q[k]) = k
    /\ \A i \in S : Place(S, i) \in 1..Len(q) /\ q[Place(S, i)] = i
    /\ \A j, k \in 1..Len(q) : q[j] = q[k] => j = k

LEMMA InOrderLists ==
    ASSUME NEW n \in Nat, NEW S \in SUBSET (1..n)
    PROVE  Lists(InOrder(S), S)
<1> DEFINE q == InOrder(S)
           c == Cardinality(S)
<1>1. Ranked(S)
  BY AllRanked
<1>2. c \in Nat /\ q = [k \in 1..c |-> CHOOSE i \in S : Place(S, i) = k]
  BY <1>1 DEF Ranked, InOrder, Place
<1>3. ASSUME NEW k \in 1..c PROVE q[k] \in S /\ Place(S, q[k]) = k
  <2>1. \E i \in S : Place(S, i) = k
    BY <1>1 DEF Ranked
  <2>2. q[k] = CHOOSE i \in S : Place(S, i) = k
    BY <1>2
  <2> QED
    BY <2>1, <2>2
<1> HIDE DEF q
<1>4. q \in Seq(S) /\ Len(q) = c
  <2>1. q \in [1..c -> S]
    BY <1>2, <1>3
  <2> QED
    BY <1>2, <2>1
<1>5. ASSUME NEW i \in S PROVE Place(S, i) \in 1..c /\ q[Place(S, i)] = i
  <2>1. Place(S, i) \in 1..c
    BY <1>1 DEF Ranked
  <2> DEFINE j == q[Place(S, i)]
  <2>2. j \in S /\ Place(S, j) = Place(S, i)
    BY <1>3, <2>1
  <2> HIDE DEF j
  <2>3. j \in Nat /\ i \in Nat /\ Place(S, i) \in Nat
    BY <2>1, <2>2
  <2>4. ~ (i < j) /\ ~ (j < i)
    BY <1>1, <2>2, <2>3 DEF Ranked
  <2>5. j = i
    BY <2>3, <2>4
  <2> QED
    BY <2>1, <2>5 DEF j
<1> QED
  BY <1>3, <1>4, <1>5 DEF Lists, q

LEMMA InOrderEmpty == InOrder({}) = <<>>
<1>1. Lists(InOrder({}), {})
  BY InOrderLists
<1> QED
  BY <1>1, FS_EmptySet, EmptySeq DEF Lists

(* What comes last is listed last. *)
LEMMA InOrderMore ==
    ASSUME NEW n \in Nat, NEW S \in SUBSET (1..n)
    PROVE  InOrder(S \cup {n + 1}) = Append(InOrder(S), n + 1)
<1> DEFINE T == S \cup {n + 1}
           c == Cardinality(S)
           q == InOrder(S)
           r == InOrder(T)
<1>1. /\ Cardinality(T) = c + 1 /\ Place(T, n + 1) = c + 1
      /\ \A i \in S : Place(T, i) = Place(S, i)
  BY AllRanked, RankedMore
<1>2. Lists(q, S)
  BY InOrderLists
<1>3. Lists(r, T)
  <2>1. T \in SUBSET (1..(n + 1)) /\ n + 1 \in Nat
    OBVIOUS
  <2> HIDE DEF T
  <2> QED
    BY <2>1, InOrderLists
<1> HIDE DEF q, r
<1>4. q \in Seq(S) /\ Len(q) = c /\ c \in Nat /\ r \in Seq(T) /\ Len(r) = c + 1
  BY <1>1, <1>2, <1>3 DEF Lists
<1>5. ASSUME NEW k \in 1..(c + 1) PROVE r[k] = Append(q, n + 1)[k]
  <2>1. CASE k = c + 1
    <3>1. r[Place(T, n + 1)] = n + 1
      BY <1>3 DEF Lists
    <3> QED
      BY <1>1, <1>4, <2>1, <3>1
  <2>2. CASE k # c + 1
    <3>1. k \in 1..Len(q)
      BY <1>4, <2>2
    <3>2. q[k] \in S /\ Place(S, q[k]) = k
      BY <1>2, <3>1 DEF Lists
    <3>3. Place(T, q[k]) = k /\ q[k] \in T
      BY <1>1, <3>2
    <3>4. r[Place(T, q[k])] = q[k]
      BY <1>3, <3>3 DEF Lists
    <3> QED
      BY <1>4, <3>1, <3>3, <3>4
  <2> QED
    BY <2>1, <2>2
<1>6. Append(q, n + 1) \in Seq(T) /\ Len(Append(q, n + 1)) = c + 1
  BY <1>4
<1> HIDE DEF T
<1>7. r = Append(q, n + 1)
  BY <1>4, <1>5, <1>6
<1> QED
  BY <1>7 DEF q, r, T

------------------------------------------------------------------------------
(* What one line says, read by itself. *)
Meaning(l) ==
    LET raw == Lines[l].raw
        t   == Tokens[l]
        Or(wellformed, means) == IF wellformed THEN means ELSE [kind |-> "bad"]
    IN  IF Comment(raw) THEN [kind |-> "blank"]
        ELSE IF StartsWith(raw, "service")
        THEN Or(Len(t) = 2, [kind |-> "service", name |-> t[2]])
        ELSE IF StartsWith(raw, "on")
        THEN Or(Len(t) = 2, [kind |-> "on", name |-> t[2]])
        ELSE IF StartsWith(raw, "state")
        THEN Or(parse_state_decl(t) # <<>>,
                [kind |-> "state", name |-> t[2], initial |-> I64[t[4]]])
        ELSE IF StartsWith(raw, "effects")
        THEN Or(parse_effects_decl(t) # <<>>,
                [kind |-> "effects", names |-> parse_effects_decl(t)[1]])
        ELSE Or(parse_action(t) # <<>>,
                [kind |-> "action", action |-> parse_action(t)[1]])

(* The meanings the language is defined by are those of the lines. *)
Honest == \A l \in DOMAIN Lines : Lines[l].means = Meaning(l)

(* The declarations in terms of positions. *)
StatesOf(s) ==
    LET q == InOrder(Under("state", s))
    IN  [k \in 1..Len(q) |-> [name |-> Means(q[k]).name, initial |-> Means(q[k]).initial]]
EffectsOf(h) == UNION {Means(e).names : e \in Body("effects", h)}
ActionsOf(h) ==
    LET q == InOrder(Body("action", h)) IN [k \in 1..Len(q) |-> Means(q[k]).action]
HandlerOf(h) == [on |-> Means(h).name, effects |-> EffectsOf(h), actions |-> ActionsOf(h)]
HandlersOf(s) ==
    LET q == InOrder(Under("on", s)) IN [k \in 1..Len(q) |-> HandlerOf(q[k])]
DeclOf(s) == [name |-> Means(s).name, states |-> StatesOf(s), handlers |-> HandlersOf(s)]
Decls ==
    LET q == InOrder(LinesOf("service")) IN [k \in 1..Len(q) |-> DeclOf(q[k])]

(* The header the next line would belong to, and the service. *)
Top == HeadOf(Len(text) + 1)
Within == ServiceOf(Len(text) + 1)

(* A handler's effects line is the only one and comes before its actions. *)
Started(h) ==
    \A e \in Body("effects", h) : /\ Body("effects", h) = {e}
                                  /\ \A a \in Body("action", h) : e < a
(* A handler that may be closed. *)
Filled(h) == Body("effects", h) # {} /\ Body("action", h) # {}
(* No line refused so far, every handler but the open one closed. *)
Placed ==
    /\ LinesOf("bad") = {} /\ WellPlaced
    /\ \A h \in LinesOf("on") : Started(h) /\ (h # Top => Filled(h))

(* The parser between two lines: what is done and open, flushed, is        *)
(* Decls.                                                                  *)
Parsing ==
    /\ flush_service = Decls /\ Placed
    /\ current_service = <<>> <=> LinesOf("service") = {}
    /\ Top \notin LinesOf("on") => current_handler = <<>>
    /\ \A h \in LinesOf("on") : h = Top => current_handler = <<HandlerOf(h)>>
ParserInv ==
    /\ phase = "parsing" => Parsing
    /\ phase \in {"loading", "checking", "loaded"} =>
          /\ services = Decls /\ services # <<>> /\ Placed
          /\ \A h \in LinesOf("on") : Filled(h)
    /\ phase = "error" => ~WellFormed

------------------------------------------------------------------------------
(***************************************************************************)
(* The positions of a text and of the same text with a line more.          *)
(***************************************************************************)
LEMMA LatestIs ==
    ASSUME text \in Seq(DOMAIN Lines), NEW kinds, NEW i \in 1..(Len(text) + 1)
    PROVE  LET m == Latest(kinds, i)
           IN  /\ m \in 0..(i - 1) /\ (m # 0 => Kind(m) \in kinds)
               /\ \A j \in 1..(i - 1) : Kind(j) \in kinds => j <= m
<1> DEFINE S == {j \in 1..(i - 1) : Kind(j) \in kinds} \cup {0}
<1>1. S \in SUBSET (0..(i - 1)) /\ i - 1 \in Nat /\ S # {}
  OBVIOUS
<1>2. Peaks(S)
  <2> HIDE DEF S
  <2> QED
    BY <1>1, MaxIs
<1>3. Latest(kinds, i) = Max(S)
  BY DEF Latest
<1>4. Max(S) \in S /\ \A y \in S : y <= Max(S)
  BY <1>2 DEF Peaks
<1> QED
  BY <1>3, <1>4

Heads == {"service", "on"}

(* A head's own service is that of the lines under it. *)
LEMMA HeadService ==
    ASSUME text \in Seq(DOMAIN Lines), NEW i \in 1..(Len(text) + 1)
    PROVE  /\ HeadOf(i) \in LinesOf("on") => ServiceOf(i) = ServiceOf(HeadOf(i))
           /\ HeadOf(i) \in LinesOf("service") => ServiceOf(i) = HeadOf(i)
           /\ ServiceOf(i) <= HeadOf(i)
           /\ ServiceOf(i) # 0 => ServiceOf(i) \in LinesOf("service")
           /\ HeadOf(i) # 0 => HeadOf(i) \in LinesOf("service") \cup LinesOf("on")
<1> DEFINE h == Latest(Heads, i)
           s == Latest({"service"}, i)
           n == Len(text)
<1>1. HeadOf(i) = h /\ ServiceOf(i) = s /\ n \in Nat /\ DOMAIN text = 1..n
  BY DEF HeadOf, ServiceOf, Heads
<1>2. /\ h \in 0..(i - 1) /\ (h # 0 => Kind(h) \in Heads)
      /\ \A j \in 1..(i - 1) : Kind(j) \in Heads => j <= h
  BY LatestIs
<1>3. /\ s \in 0..(i - 1) /\ (s # 0 => Kind(s) \in {"service"})
      /\ \A j \in 1..(i - 1) : Kind(j) \in {"service"} => j <= s
  BY LatestIs
<1> HIDE DEF h, s
<1>4. s <= h
  <2>1. CASE s = 0
    BY <1>2, <2>1
  <2>2. CASE s # 0
    <3>1. s \in 1..(i - 1) /\ Kind(s) \in Heads
      BY <1>3, <2>2 DEF Heads
    <3> QED
      BY <1>2, <3>1
  <2> QED
    BY <2>1, <2>2
<1>5. ASSUME h \in LinesOf("on") PROVE s = ServiceOf(h)
  <2> DEFINE r == Latest({"service"}, h)
  <2>1. h \in 1..n /\ Kind(h) = "on"
    BY <1>1, <1>5 DEF LinesOf
  <2>2. /\ r \in 0..(h - 1) /\ (r # 0 => Kind(r) \in {"service"})
        /\ \A j \in 1..(h - 1) : Kind(j) \in {"service"} => j <= r
    BY <2>1, LatestIs
  <2> HIDE DEF r
  <2>3. s # h
    BY <1>3, <2>1
  <2>4. s <= r
    <3>1. CASE s = 0
      BY <2>2, <3>1
    <3>2. CASE s # 0
      <4>1. s \in 1..(h - 1) /\ Kind(s) \in {"service"}
        BY <1>1, <1>2, <1>3, <1>4, <2>1, <2>3, <3>2
      <4> QED
        BY <2>2, <4>1
    <3> QED
      BY <3>1, <3>2
  <2>5. r <= s
    <3>1. CASE r = 0
      BY <1>3, <3>1
    <3>2. CASE r # 0
      <4>1. r \in 1..(i - 1) /\ Kind(r) \in {"service"}
        BY <1>1, <1>2, <2>1, <2>2, <3>2
      <4> QED
        BY <1>3, <4>1
    <3> QED
      BY <3>1, <3>2
  <2>6. s = r
    BY <1>3, <2>1, <2>2, <2>4, <2>5
  <2> QED
    BY <2>6 DEF r, ServiceOf
<1>6. ASSUME h \in LinesOf("service") PROVE s = h
  <2>1. h \in 1..(i - 1) /\ Kind(h) \in {"service"}
    BY <1>1, <1>2, <1>6 DEF LinesOf
  <2>2. h <= s
    BY <1>3, <2>1
  <2> QED
    BY <1>2, <1>3, <1>4, <2>2
<1>7. s # 0 => s \in LinesOf("service")
  BY <1>1, <1>3 DEF LinesOf
<1>8. h # 0 => h \in LinesOf("service") \cup LinesOf("on")
  BY <1>1, <1>2 DEF LinesOf, Heads
<1> QED
  BY <1>1, <1>4, <1>5, <1>6, <1>7, <1>8

With(S, cond, x) == IF cond THEN S \cup {x} ELSE S

(* What a line more changes. *)
LEMMA LineMore ==
    ASSUME text \in Seq(DOMAIN Lines), NEW l \in DOMAIN Lines, text' = Append(text, l),
           NEW n \in Nat, n = Len(text)
    PROVE  LET K == Lines[l].means.kind
           IN  /\ Len(text') = n + 1
               /\ Means(n + 1)' = Lines[l].means
               /\ \A i \in 1..n : Means(i)' = Means(i)
               /\ \A i \in 1..(n + 1) : HeadOf(i)' = HeadOf(i) /\ ServiceOf(i)' = ServiceOf(i)
               /\ \A kind : LinesOf(kind)' = With(LinesOf(kind), kind = K, n + 1)
               /\ \A kind, s : Under(kind, s)' =
                      With(Under(kind, s), kind = K /\ s = Within, n + 1)
               /\ \A kind, h : Body(kind, h)' = With(Body(kind, h), kind = K /\ h = Top, n + 1)
               /\ Top' = IF K \in Heads THEN n + 1 ELSE Top
               /\ Within' = IF K = "service" THEN n + 1 ELSE Within
<1> DEFINE K == Lines[l].means.kind
<1>1. Len(text') = n + 1 /\ DOMAIN text = 1..n /\ DOMAIN text' = 1..(n + 1)
      /\ text'[n + 1] = l /\ \A i \in 1..n : text'[i] = text[i]
  OBVIOUS
<1>2. Means(n + 1)' = Lines[l].means /\ \A i \in 1..n : Means(i)' = Means(i)
  BY <1>1 DEF Means
<1>3. Kind(n + 1)' = K /\ \A i \in 1..n : Kind(i)' = Kind(i)
  BY <1>2 DEF Kind
<1>4. ASSUME NEW kinds, NEW i \in 1..(n + 1) PROVE Latest(kinds, i)' = Latest(kinds, i)
  <2>1. {j \in 1..(i - 1) : Kind(j)' \in kinds} = {j \in 1..(i - 1) : Kind(j) \in kinds}
    BY <1>1, <1>3
  <2> QED
    BY <2>1 DEF Latest
<1>5. \A i \in 1..(n + 1) : HeadOf(i)' = HeadOf(i) /\ ServiceOf(i)' = ServiceOf(i)
  BY <1>4 DEF HeadOf, ServiceOf
<1>6. ASSUME NEW kind PROVE LinesOf(kind)' = With(LinesOf(kind), kind = K, n + 1)
  BY <1>1, <1>3 DEF LinesOf, With
<1>7. Top = HeadOf(n + 1) /\ Within = ServiceOf(n + 1)
  BY DEF Top, Within
<1>8. ASSUME NEW kind, NEW s
      PROVE  Under(kind, s)' = With(Under(kind, s), kind = K /\ s = Within, n + 1)
  <2>1. Under(kind, s)' = {i \in LinesOf(kind)' : ServiceOf(i)' = s}
    BY DEF Under
  <2>2. LinesOf(kind) \subseteq 1..n
    BY <1>1 DEF LinesOf
  <2>3. {i \in LinesOf(kind) : ServiceOf(i)' = s} = Under(kind, s)
    BY <1>5, <2>2 DEF Under
  <2>4. CASE kind = K
    <3>1. LinesOf(kind)' = LinesOf(kind) \cup {n + 1}
      BY <1>6, <2>4 DEF With
    <3>2. ServiceOf(n + 1)' = Within
      BY <1>5, <1>7
    <3> QED
      BY <2>1, <2>3, <2>4, <3>1, <3>2 DEF With
  <2>5. CASE kind # K
    BY <1>6, <2>1, <2>3, <2>5 DEF With
  <2> QED
    BY <2>4, <2>5
<1>9. ASSUME NEW kind, NEW h
      PROVE  Body(kind, h)' = With(Body(kind, h), kind = K /\ h = Top, n + 1)
  <2>1. Body(kind, h)' = {i \in LinesOf(kind)' : HeadOf(i)' = h}
    BY DEF Body
  <2>2. LinesOf(kind) \subseteq 1..n
    BY <1>1 DEF LinesOf
  <2>3. {i \in LinesOf(kind) : HeadOf(i)' = h} = Body(kind, h)
    BY <1>5, <2>2 DEF Body
  <2>4. CASE kind = K
    <3>1. LinesOf(kind)' = LinesOf(kind) \cup {n + 1}
      BY <1>6, <2>4 DEF With
    <3>2. HeadOf(n + 1)' = Top
      BY <1>5, <1>7
    <3> QED
      BY <2>1, <2>3, <2>4, <3>1, <3>2 DEF With
  <2>5. CASE kind # K
    BY <1>6, <2>1, <2>3, <2>5 DEF With
  <2> QED
    BY <2>4, <2>5
<1>10. ASSUME NEW kinds
       PROVE  Latest(kinds, n + 2)' = IF K \in kinds THEN n + 1 ELSE Latest(kinds, n + 1)
  <2> DEFINE S == {j \in 1..(n + 1) : Kind(j)' \in kinds} \cup {0}
  <2>1. Latest(kinds, n + 2)' = Max(S)
    <3>1. (n + 2) - 1 = n + 1
      BY <1>1
    <3> QED
      BY <3>1 DEF Latest
  <2>2. CASE K \in kinds
    <3>1. n + 1 \in S /\ S \in SUBSET (0..(n + 1))
      BY <1>1, <1>3, <2>2
    <3>2. Peaks(S)
      <4> HIDE DEF S
      <4> QED
        BY <1>1, <3>1, MaxIs, n + 1 \in Nat
    <3>3. Max(S) = n + 1
      BY <1>1, <3>1, <3>2 DEF Peaks
    <3> QED
      BY <2>1, <2>2, <3>3
  <2>3. CASE K \notin kinds
    <3>1. S = {j \in 1..n : Kind(j) \in kinds} \cup {0}
      BY <1>1, <1>3, <2>3
    <3>2. (n + 1) - 1 = n
      BY <1>1
    <3> QED
      BY <2>1, <2>3, <3>1, <3>2 DEF Latest
  <2> QED
    BY <2>2, <2>3
<1>11. Len(text') + 1 = n + 2
  BY <1>1
<1>12. Top' = (IF K \in Heads THEN n + 1 ELSE Top)
  BY <1>10, <1>11 DEF Top, HeadOf, Heads
<1>13. Within' = IF K = "service" THEN n + 1 ELSE Within
  BY <1>10, <1>11 DEF Within, ServiceOf
<1> QED
  BY <1>1, <1>2, <1>5, <1>6, <1>8, <1>9, <1>12, <1>13

(* The sets of positions of a text lie in it. *)
LEMMA SetsIn ==
    ASSUME text \in Seq(DOMAIN Lines), NEW n \in Nat, n = Len(text)
    PROVE  /\ Top \in 0..n /\ Within \in 0..n
           /\ \A kind : /\ LinesOf(kind) \in SUBSET (1..n)
                        /\ \A i : /\ Under(kind, i) \in SUBSET (1..n)
                                  /\ Body(kind, i) \in SUBSET (1..n)
                        /\ Under(kind, n + 1) = {} /\ Body(kind, n + 1) = {}
<1>1. DOMAIN text = 1..n
  OBVIOUS
<1>2. ASSUME NEW i \in 1..(n + 1) PROVE HeadOf(i) \in 0..(i - 1) /\ ServiceOf(i) \in 0..(i - 1)
  BY LatestIs DEF HeadOf, ServiceOf
<1>3. Top \in 0..n /\ Within \in 0..n
  BY <1>2 DEF Top, Within
<1>4. ASSUME NEW kind
      PROVE  /\ LinesOf(kind) \in SUBSET (1..n)
             /\ \A i : /\ Under(kind, i) \in SUBSET (1..n)
                       /\ Body(kind, i) \in SUBSET (1..n)
             /\ Under(kind, n + 1) = {} /\ Body(kind, n + 1) = {}
  <2>1. LinesOf(kind) \in SUBSET (1..n)
    BY <1>1 DEF LinesOf
  <2>2. \A i \in LinesOf(kind) : HeadOf(i) # n + 1 /\ ServiceOf(i) # n + 1
    BY <1>2, <2>1
  <2> QED
    BY <2>1, <2>2 DEF Under, Body
<1> QED
  BY <1>3, <1>4

(* Sequences whose elements are of no set known beforehand. *)
IsSeq(q) == q \in Seq(Range(q))

LEMMA SeqIs ==
    ASSUME NEW S, NEW q \in Seq(S)
    PROVE  IsSeq(q)
<1>1. DOMAIN q = 1..Len(q) /\ Len(q) \in Nat
  OBVIOUS
<1>2. \A i \in 1..Len(q) : q[i] \in Range(q)
  BY <1>1 DEF Range
<1>3. q = [i \in 1..Len(q) |-> q[i]]
  OBVIOUS
<1> QED
  BY <1>1, <1>2, <1>3 DEF IsSeq

LEMMA SeqMade ==
    ASSUME NEW n \in Nat, NEW q, q = [i \in 1..n |-> q[i]]
    PROVE  IsSeq(q) /\ Len(q) = n /\ DOMAIN q = 1..n
<1>1. \A i \in 1..n : q[i] \in Range(q)
  BY DEF Range
<1>2. q \in Seq(Range(q)) /\ Len(q) = n /\ DOMAIN q = 1..n
  BY <1>1
<1> QED
  BY <1>2 DEF IsSeq

LEMMA SeqAppend ==
    ASSUME NEW q, IsSeq(q), NEW e
    PROVE  /\ IsSeq(Append(q, e)) /\ Len(q) \in Nat /\ Len(Append(q, e)) = Len(q) + 1
           /\ \A i \in 1..Len(q) : Append(q, e)[i] = q[i]
           /\ Append(q, e)[Len(q) + 1] = e
<1> DEFINE S == Range(q) \cup {e}
<1> HIDE DEF S
<1>1. q \in Seq(S) /\ e \in S
  BY DEF IsSeq, S
<1>2. Append(q, e) \in Seq(S) /\ Len(q) \in Nat /\ Len(Append(q, e)) = Len(q) + 1
  BY <1>1
<1>3. /\ \A i \in 1..Len(q) : Append(q, e)[i] = q[i]
      /\ Append(q, e)[Len(q) + 1] = e
  BY <1>1
<1>4. IsSeq(Append(q, e))
  BY <1>2, SeqIs
<1> QED
  BY <1>2, <1>3, <1>4

LEMMA AppendIs ==
    ASSUME NEW q, IsSeq(q), NEW e
    PROVE  Append(q, e) = [i \in 1..(Len(q) + 1) |-> IF i = Len(q) + 1 THEN e ELSE q[i]]
<1>1. /\ IsSeq(Append(q, e)) /\ Len(q) \in Nat /\ Len(Append(q, e)) = Len(q) + 1
      /\ \A i \in 1..Len(q) : Append(q, e)[i] = q[i]
      /\ Append(q, e)[Len(q) + 1] = e
  BY SeqAppend
<1>2. Append(q, e) = [i \in 1..(Len(q) + 1) |-> Append(q, e)[i]]
  <2>1. PICK a : a = Append(q, e)
    OBVIOUS
  <2>2. a \in Seq(Range(a)) /\ Len(a) = Len(q) + 1
    BY <1>1, <2>1 DEF IsSeq
  <2>3. a = [i \in 1..Len(a) |-> a[i]]
    BY <2>2
  <2> QED
    BY <2>1, <2>2, <2>3
<1>3. \A i \in 1..(Len(q) + 1) : i = Len(q) + 1 \/ i \in 1..Len(q)
  BY <1>1
<1>4. \A i \in 1..(Len(q) + 1) : Append(q, e)[i] = IF i = Len(q) + 1 THEN e ELSE q[i]
  BY <1>1, <1>3
<1> QED
  BY <1>2, <1>4

(* InOrder of a set of positions: its members, each once, the last one     *)
(* last.                                                                   *)
LEMMA Positions ==
    ASSUME NEW n \in Nat, NEW S \in SUBSET (1..n)
    PROVE  LET q == InOrder(S)
           IN  /\ q \in Seq(1..n) /\ Len(q) \in Nat
               /\ \A k \in 1..Len(q) : q[k] \in S /\ q[k] \in 1..n
               /\ \A j, k \in 1..Len(q) : q[j] = q[k] => j = k
               /\ \A i \in S : \E k \in 1..Len(q) : q[k] = i
               /\ \A i \in S : (\A j \in S : j <= i) => Len(q) # 0 /\ q[Len(q)] = i
<1>1. PICK q : q = InOrder(S)
  OBVIOUS
<1>2. Lists(q, S) /\ Ranked(S)
  BY <1>1, InOrderLists, AllRanked
<1>3. q \in Seq(S) /\ Len(q) \in Nat
  BY <1>2 DEF Lists
<1>4. q \in Seq(1..n)
  <2>1. q \in [1..Len(q) -> S]
    BY <1>3
  <2>2. q \in [1..Len(q) -> 1..n]
    BY <2>1
  <2> QED
    BY <1>3, <2>2
<1>5. ASSUME NEW i \in S, \A j \in S : j <= i PROVE Len(q) # 0 /\ q[Len(q)] = i
  <2>1. {j \in S : j <= i} = S
    BY <1>5
  <2>2. Place(S, i) = Len(q)
    BY <1>2, <2>1 DEF Place, Lists
  <2> QED
    BY <1>2, <2>2 DEF Lists
<1>6. /\ \A k \in 1..Len(q) : q[k] \in S
      /\ \A j, k \in 1..Len(q) : q[j] = q[k] => j = k
      /\ \A i \in S : \E k \in 1..Len(q) : q[k] = i
  BY <1>2 DEF Lists
<1>7. \A k \in 1..Len(q) : q[k] \in S /\ q[k] \in 1..n
  BY <1>6
<1> QED
  BY <1>1, <1>3, <1>4, <1>5, <1>6, <1>7

(* The lists in terms of the sets. *)
LEMMA StatesMore ==
    ASSUME text \in Seq(DOMAIN Lines), NEW l \in DOMAIN Lines, text' = Append(text, l),
           NEW n \in Nat, n = Len(text), NEW s \in 1..(n + 1)
    PROVE  LET m == Lines[l].means
           IN  StatesOf(s)' = IF m.kind = "state" /\ s = Within
                              THEN Append(StatesOf(s), [name |-> m.name, initial |-> m.initial])
                              ELSE StatesOf(s)
<1> DEFINE m == Lines[l].means
           decl == [name |-> m.name, initial |-> m.initial]
<1>1. PICK S : S = Under("state", s)
  OBVIOUS
<1>2. PICK q : q = InOrder(S)
  OBVIOUS
<1>3. Under("state", s)' = With(S, "state" = m.kind /\ s = Within, n + 1)
      /\ Means(n + 1)' = m /\ \A i \in 1..n : Means(i)' = Means(i)
  BY <1>1, LineMore
<1>4. S \in SUBSET (1..n)
  BY <1>1, SetsIn
<1>5. q \in Seq(1..n) /\ Len(q) \in Nat /\ \A k \in 1..Len(q) : q[k] \in 1..n
  BY <1>2, <1>4, Positions
<1>6. StatesOf(s) = [k \in 1..Len(q) |-> [name |-> Means(q[k]).name, initial |-> Means(q[k]).initial]]
  BY <1>1, <1>2 DEF StatesOf
<1>7. CASE m.kind = "state" /\ s = Within
  <2>1. PICK r : r = Append(q, n + 1)
    OBVIOUS
  <2>2. InOrder(Under("state", s)') = r
    <3>1. Under("state", s)' = S \cup {n + 1}
      BY <1>3, <1>7 DEF With
    <3> QED
      BY <1>2, <1>4, <2>1, <3>1, InOrderMore
  <2>3. StatesOf(s)' = [k \in 1..Len(r) |-> [name |-> Means(r[k])'.name, initial |-> Means(r[k])'.initial]]
    BY <2>2 DEF StatesOf
  <2>4. Len(r) = Len(q) + 1 /\ r[Len(q) + 1] = n + 1 /\ \A k \in 1..Len(q) : r[k] = q[k]
    BY <1>5, <2>1
  <2>5. StatesOf(s)' = [k \in 1..(Len(q) + 1) |-> IF k = Len(q) + 1 THEN decl ELSE StatesOf(s)[k]]
    BY <1>3, <1>5, <1>6, <2>3, <2>4
  <2> QED
    BY <1>5, <1>6, <1>7, <2>5
<1>8. CASE ~ (m.kind = "state" /\ s = Within)
  <2>1. InOrder(Under("state", s)') = q
    BY <1>2, <1>3, <1>8 DEF With
  <2>2. StatesOf(s)' = [k \in 1..Len(q) |-> [name |-> Means(q[k])'.name, initial |-> Means(q[k])'.initial]]
    BY <2>1 DEF StatesOf
  <2> QED
    BY <1>3, <1>5, <1>6, <1>8, <2>2
<1> QED
  BY <1>7, <1>8

LEMMA ActionsMore ==
    ASSUME text \in Seq(DOMAIN Lines), NEW l \in DOMAIN Lines, text' = Append(text, l),
           NEW n \in Nat, n = Len(text), NEW h \in 1..(n + 1)
    PROVE  LET m == Lines[l].means
           IN  ActionsOf(h)' = IF m.kind = "action" /\ h = Top
                               THEN Append(ActionsOf(h), m.action) ELSE ActionsOf(h)
<1> DEFINE m == Lines[l].means
<1>1. PICK S : S = Body("action", h)
  OBVIOUS
<1>2. PICK q : q = InOrder(S)
  OBVIOUS
<1>3. Body("action", h)' = With(S, "action" = m.kind /\ h = Top, n + 1)
      /\ Means(n + 1)' = m /\ \A i \in 1..n : Means(i)' = Means(i)
  BY <1>1, LineMore
<1>4. S \in SUBSET (1..n)
  BY <1>1, SetsIn
<1>5. q \in Seq(1..n) /\ Len(q) \in Nat /\ \A k \in 1..Len(q) : q[k] \in 1..n
  BY <1>2, <1>4, Positions
<1>6. ActionsOf(h) = [k \in 1..Len(q) |-> Means(q[k]).action]
  BY <1>1, <1>2 DEF ActionsOf
<1>7. CASE m.kind = "action" /\ h = Top
  <2>1. PICK r : r = Append(q, n + 1)
    OBVIOUS
  <2>2. InOrder(Body("action", h)') = r
    <3>1. Body("action", h)' = S \cup {n + 1}
      BY <1>3, <1>7 DEF With
    <3> QED
      BY <1>2, <1>4, <2>1, <3>1, InOrderMore
  <2>3. ActionsOf(h)' = [k \in 1..Len(r) |-> Means(r[k])'.action]
    BY <2>2 DEF ActionsOf
  <2>4. Len(r) = Len(q) + 1 /\ r[Len(q) + 1] = n + 1 /\ \A k \in 1..Len(q) : r[k] = q[k]
    BY <1>5, <2>1
  <2>5. ActionsOf(h)' = [k \in 1..(Len(q) + 1) |-> IF k = Len(q) + 1 THEN m.action ELSE ActionsOf(h)[k]]
    BY <1>3, <1>5, <1>6, <2>3, <2>4
  <2> QED
    BY <1>5, <1>6, <1>7, <2>5
<1>8. CASE ~ (m.kind = "action" /\ h = Top)
  <2>1. InOrder(Body("action", h)') = q
    BY <1>2, <1>3, <1>8 DEF With
  <2>2. ActionsOf(h)' = [k \in 1..Len(q) |-> Means(q[k])'.action]
    BY <2>1 DEF ActionsOf
  <2> QED
    BY <1>3, <1>5, <1>6, <1>8, <2>2
<1> QED
  BY <1>7, <1>8

LEMMA EffectsMore ==
    ASSUME text \in Seq(DOMAIN Lines), NEW l \in DOMAIN Lines, text' = Append(text, l),
           NEW n \in Nat, n = Len(text), NEW h \in 1..(n + 1)
    PROVE  LET m == Lines[l].means
           IN  EffectsOf(h)' = IF m.kind = "effects" /\ h = Top
                               THEN EffectsOf(h) \cup m.names ELSE EffectsOf(h)
<1> DEFINE m == Lines[l].means
<1>1. PICK S : S = Body("effects", h)
  OBVIOUS
<1>2. Body("effects", h)' = With(S, "effects" = m.kind /\ h = Top, n + 1)
      /\ Means(n + 1)' = m /\ \A i \in 1..n : Means(i)' = Means(i)
  BY <1>1, LineMore
<1>3. S \in SUBSET (1..n)
  BY <1>1, SetsIn
<1>4. EffectsOf(h) = UNION {Means(e).names : e \in S}
  BY <1>1 DEF EffectsOf
<1>5. \A e \in S : Means(e)' = Means(e)
  BY <1>2, <1>3
<1>6. CASE m.kind = "effects" /\ h = Top
  <2>1. Body("effects", h)' = S \cup {n + 1}
    BY <1>2, <1>6 DEF With
  <2>2. EffectsOf(h)' = UNION {Means(e)'.names : e \in S \cup {n + 1}}
    BY <2>1 DEF EffectsOf
  <2>3. EffectsOf(h)' = EffectsOf(h) \cup m.names
    BY <1>2, <1>4, <1>5, <2>2
  <2> QED
    BY <1>6, <2>3
<1>7. CASE ~ (m.kind = "effects" /\ h = Top)
  <2>1. Body("effects", h)' = S
    BY <1>2, <1>7 DEF With
  <2>2. EffectsOf(h)' = UNION {Means(e)'.names : e \in S}
    BY <2>1 DEF EffectsOf
  <2> QED
    BY <1>4, <1>5, <1>7, <2>2
<1> QED
  BY <1>6, <1>7

(* A handler changes with the lines under it only. *)
LEMMA HandlerMore ==
    ASSUME text \in Seq(DOMAIN Lines), NEW l \in DOMAIN Lines, text' = Append(text, l),
           NEW n \in Nat, n = Len(text)
    PROVE  LET m == Lines[l].means
           IN  /\ \A h \in 1..n : h # Top \/ m.kind \notin {"effects", "action"} =>
                      HandlerOf(h)' = HandlerOf(h)
               /\ HandlerOf(n + 1)' = [on |-> m.name, effects |-> {}, actions |-> <<>>]
               /\ \A h \in 1..n : h = Top /\ m.kind = "effects" =>
                      HandlerOf(h)' = [on |-> HandlerOf(h).on, effects |-> HandlerOf(h).effects \cup m.names,
                                       actions |-> HandlerOf(h).actions]
               /\ \A h \in 1..n : h = Top /\ m.kind = "action" =>
                      HandlerOf(h)' = [on |-> HandlerOf(h).on, effects |-> HandlerOf(h).effects,
                                       actions |-> Append(HandlerOf(h).actions, m.action)]
<1> DEFINE m == Lines[l].means
<1>1. Means(n + 1)' = m /\ \A i \in 1..n : Means(i)' = Means(i)
  BY LineMore
<1>2. Top \in 0..n /\ Body("effects", n + 1) = {} /\ Body("action", n + 1) = {}
  BY SetsIn
<1>3. ASSUME NEW h
      PROVE  HandlerOf(h)' = [on |-> Means(h)'.name, effects |-> EffectsOf(h)', actions |-> ActionsOf(h)']
  BY DEF HandlerOf
<1>4. ASSUME NEW h
      PROVE  HandlerOf(h) = [on |-> Means(h).name, effects |-> EffectsOf(h), actions |-> ActionsOf(h)]
  BY DEF HandlerOf
<1>5. \A h \in 1..(n + 1) :
         /\ EffectsOf(h)' = IF m.kind = "effects" /\ h = Top
                            THEN EffectsOf(h) \cup m.names ELSE EffectsOf(h)
         /\ ActionsOf(h)' = IF m.kind = "action" /\ h = Top
                            THEN Append(ActionsOf(h), m.action) ELSE ActionsOf(h)
  BY EffectsMore, ActionsMore
<1>6. EffectsOf(n + 1) = {}
  BY <1>2 DEF EffectsOf
<1>7. ActionsOf(n + 1) = <<>>
  <2>1. ActionsOf(n + 1) = [k \in 1..Len(<<>>) |-> Means(InOrder(Body("action", n + 1))[k]).action]
    BY <1>2, InOrderEmpty DEF ActionsOf
  <2> QED
    BY <2>1
<1>8. HandlerOf(n + 1)' = [on |-> m.name, effects |-> {}, actions |-> <<>>]
  <2>1. n + 1 # Top /\ n + 1 \in 1..(n + 1)
    BY <1>2
  <2> QED
    BY <1>1, <1>3, <1>5, <1>6, <1>7, <2>1
<1>9. \A h \in 1..n : h \in 1..(n + 1)
  OBVIOUS
<1> HIDE DEF m
<1>10. ASSUME NEW h \in 1..n, h # Top \/ m.kind \notin {"effects", "action"}
       PROVE  HandlerOf(h)' = HandlerOf(h)
  BY <1>1, <1>3, <1>4, <1>5, <1>9, <1>10
<1>11. ASSUME NEW h \in 1..n, h = Top, m.kind = "effects"
       PROVE  HandlerOf(h)' = [on |-> HandlerOf(h).on, effects |-> HandlerOf(h).effects \cup m.names,
                                       actions |-> HandlerOf(h).actions]
  BY <1>1, <1>3, <1>4, <1>5, <1>9, <1>11
<1>12. ASSUME NEW h \in 1..n, h = Top, m.kind = "action"
       PROVE  HandlerOf(h)' = [on |-> HandlerOf(h).on, effects |-> HandlerOf(h).effects,
                                       actions |-> Append(HandlerOf(h).actions, m.action)]
  <2>1. /\ Means(h)' = Means(h) /\ EffectsOf(h)' = EffectsOf(h)
        /\ ActionsOf(h)' = Append(ActionsOf(h), m.action)
    BY <1>1, <1>5, <1>9, <1>12
  <2>2. HandlerOf(h)' = [on |-> Means(h).name, effects |-> EffectsOf(h),
                         actions |-> Append(ActionsOf(h), m.action)]
    BY <1>3, <2>1
  <2>3. HandlerOf(h).actions = ActionsOf(h)
    BY <1>4
  <2> QED
    BY <1>4, <2>2, <2>3
<1> QED
  BY <1>8, <1>10, <1>11, <1>12 DEF m

(* The handlers of a service. *)
LEMMA HandlersMore ==
    ASSUME text \in Seq(DOMAIN Lines), NEW l \in DOMAIN Lines, text' = Append(text, l),
           NEW n \in Nat, n = Len(text), NEW s \in 1..(n + 1)
    PROVE  LET K == Lines[l].means.kind
           IN  /\ K = "on" /\ s = Within =>
                      HandlersOf(s)' = Append(HandlersOf(s), HandlerOf(n + 1)')
               /\ K \notin {"effects", "action"} /\ ~ (K = "on" /\ s = Within) =>
                      HandlersOf(s)' = HandlersOf(s)
               /\ K # "on" /\ Top \notin Under("on", s) => HandlersOf(s)' = HandlersOf(s)
               /\ \A B, h : /\ K # "on" /\ h = Top /\ Top \in Under("on", s) /\ IsSeq(B)
                            /\ HandlersOf(s) = Append(B, HandlerOf(h))
                            => HandlersOf(s)' = Append(B, HandlerOf(h)')
<1> DEFINE K == Lines[l].means.kind
<1>1. PICK S : S = Under("on", s)
  OBVIOUS
<1>2. PICK q : q = InOrder(S)
  OBVIOUS
<1>3. Under("on", s)' = With(S, "on" = K /\ s = Within, n + 1)
  BY <1>1, LineMore
<1>4. S \in SUBSET (1..n)
  BY <1>1, SetsIn
<1>5. /\ q \in Seq(1..n) /\ Len(q) \in Nat /\ \A k \in 1..Len(q) : q[k] \in S /\ q[k] \in 1..n
      /\ \A j, k \in 1..Len(q) : q[j] = q[k] => j = k
      /\ \A i \in S : (\A j \in S : j <= i) => Len(q) # 0 /\ q[Len(q)] = i
  BY ONLY ZenonT(60), <1>2, <1>4, n \in Nat, Positions
<1>6. HandlersOf(s) = [k \in 1..Len(q) |-> HandlerOf(q[k])]
  BY <1>1, <1>2 DEF HandlersOf
<1>7. \A h \in 1..n : h # Top \/ K \notin {"effects", "action"} => HandlerOf(h)' = HandlerOf(h)
  BY HandlerMore
<1> HIDE DEF K
<1>8. ASSUME K = "on", s = Within
      PROVE  HandlersOf(s)' = Append(HandlersOf(s), HandlerOf(n + 1)')
  <2>1. PICK r : r = Append(q, n + 1)
    OBVIOUS
  <2>2. InOrder(Under("on", s)') = r
    <3>1. Under("on", s)' = S \cup {n + 1}
      BY <1>3, <1>8 DEF With
    <3> QED
      BY <1>2, <1>4, <2>1, <3>1, InOrderMore
  <2>3. HandlersOf(s)' = [k \in 1..Len(r) |-> HandlerOf(r[k])']
    BY <2>2 DEF HandlersOf
  <2>4. Len(r) = Len(q) + 1 /\ r[Len(q) + 1] = n + 1 /\ \A k \in 1..Len(q) : r[k] = q[k]
    BY <1>5, <2>1
  <2>5. \A k \in 1..Len(q) : HandlerOf(r[k])' = HandlersOf(s)[k]
    BY <1>5, <1>6, <1>7, <1>8, <2>4
  <2>6. HandlersOf(s)' = [k \in 1..(Len(q) + 1) |-> IF k = Len(q) + 1 THEN HandlerOf(n + 1)'
                                                   ELSE HandlersOf(s)[k]]
    <3>1. HandlerOf(r[Len(q) + 1])' = HandlerOf(n + 1)'
      BY <2>4
    <3>2. \A k \in 1..(Len(q) + 1) : k = Len(q) + 1 \/ k \in 1..Len(q)
      BY <1>5
    <3>3. \A k \in 1..(Len(q) + 1) : HandlerOf(r[k])' = IF k = Len(q) + 1 THEN HandlerOf(n + 1)'
                                                       ELSE HandlersOf(s)[k]
      BY <2>5, <3>1, <3>2
    <3> QED
      BY <2>3, <2>4, <3>3
  <2> QED
    BY <1>5, <1>6, <2>6
<1>9. ASSUME ~ (K = "on" /\ s = Within)
      PROVE  HandlersOf(s)' = [k \in 1..Len(q) |-> HandlerOf(q[k])']
  <2>1. InOrder(Under("on", s)') = q
    BY <1>2, <1>3, <1>9 DEF With
  <2> QED
    BY <2>1 DEF HandlersOf
<1>10. ASSUME K \notin {"effects", "action"}, ~ (K = "on" /\ s = Within)
       PROVE  HandlersOf(s)' = HandlersOf(s)
  BY <1>5, <1>6, <1>7, <1>9, <1>10
<1>11. ASSUME K # "on", Top \notin Under("on", s)
       PROVE  HandlersOf(s)' = HandlersOf(s)
  <2>1. \A k \in 1..Len(q) : HandlerOf(q[k])' = HandlerOf(q[k])
    BY <1>1, <1>5, <1>7, <1>11
  <2> QED
    BY <1>6, <1>9, <1>11, <2>1
<1>12. ASSUME NEW B, NEW h, K # "on", h = Top, Top \in Under("on", s), IsSeq(B),
              HandlersOf(s) = Append(B, HandlerOf(h))
       PROVE  HandlersOf(s)' = Append(B, HandlerOf(h)')
  <2>1. \A j \in S : j <= h
    <3> SUFFICES ASSUME NEW j \in S PROVE j <= h
      OBVIOUS
    <3>1. j \in 1..n /\ Kind(j) \in Heads
      BY <1>1, <1>4 DEF Under, LinesOf, Heads
    <3>2. n + 1 \in 1..(Len(text) + 1) /\ (n + 1) - 1 = n
      OBVIOUS
    <3>3. Top = Latest(Heads, n + 1)
      BY DEF Top, HeadOf, Heads
    <3> QED
      BY <1>12, <3>1, <3>2, <3>3, LatestIs
  <2>2. Len(q) # 0 /\ q[Len(q)] = h
    BY <1>1, <1>5, <1>12, <2>1
  <2>3. Len(B) \in Nat /\ Len(q) = Len(B) + 1 /\ \A k \in 1..Len(B) : B[k] = HandlerOf(q[k])
    <3>1. Len(HandlersOf(s)) = Len(q)
      BY <1>5, <1>6
    <3>2. Len(B) \in Nat /\ Len(Append(B, HandlerOf(h))) = Len(B) + 1
          /\ \A k \in 1..Len(B) : Append(B, HandlerOf(h))[k] = B[k]
      BY <1>12, SeqAppend
    <3>3. \A k \in 1..Len(B) : k \in 1..Len(q)
      BY <1>12, <3>1, <3>2
    <3> QED
      BY <1>6, <1>12, <3>1, <3>2, <3>3
  <2>4. \A k \in 1..Len(B) : q[k] # h /\ HandlerOf(q[k])' = HandlerOf(q[k])
    BY <1>5, <1>7, <1>12, <2>2, <2>3
  <2>5. HandlersOf(s)' = [k \in 1..(Len(B) + 1) |-> IF k = Len(B) + 1 THEN HandlerOf(h)' ELSE B[k]]
    BY <1>9, <1>12, <2>2, <2>3, <2>4
  <2> QED
    BY <1>12, <2>3, <2>5, AppendIs
<1> QED
  BY <1>8, <1>10, <1>11, <1>12 DEF K

(* The handlers above the open one are those of its service. *)
LEMMA TopWithin ==
    ASSUME text \in Seq(DOMAIN Lines), NEW s, Top \in Under("on", s)
    PROVE  s = Within
<1>1. Len(text) + 1 \in 1..(Len(text) + 1)
  OBVIOUS
<1> QED
  BY <1>1, HeadService DEF Top, Within, Under

LEMMA DeclsMore ==
    ASSUME text \in Seq(DOMAIN Lines), NEW l \in DOMAIN Lines, text' = Append(text, l),
           NEW n \in Nat, n = Len(text)
    PROVE  LET m == Lines[l].means
           IN  /\ \A s \in 1..(n + 1) :
                      DeclOf(s)' = [name |-> Means(s)'.name, states |-> StatesOf(s)',
                                    handlers |-> HandlersOf(s)']
               /\ m.kind = "service" =>
                      Decls' = Append(Decls, [name |-> m.name, states |-> <<>>, handlers |-> <<>>])
               /\ m.kind = "blank" => Decls' = Decls
               /\ \A B, s : /\ m.kind # "service" /\ s = Within /\ s \in LinesOf("service")
                            /\ IsSeq(B) /\ Decls = Append(B, DeclOf(s))
                            => Decls' = Append(B, DeclOf(s)')
<1> DEFINE m == Lines[l].means
           none == [name |-> m.name, states |-> <<>>, handlers |-> <<>>]
<1>1. PICK S : S = LinesOf("service")
  OBVIOUS
<1>2. PICK q : q = InOrder(S)
  OBVIOUS
<1>3. /\ LinesOf("service")' = With(S, "service" = m.kind, n + 1)
      /\ Means(n + 1)' = m /\ \A i \in 1..n : Means(i)' = Means(i)
  BY <1>1, LineMore
<1>4. S \in SUBSET (1..n) /\ Within \in 0..n /\ Under("state", n + 1) = {}
      /\ Under("on", n + 1) = {}
  BY <1>1, SetsIn
<1>5. /\ q \in Seq(1..n) /\ Len(q) \in Nat /\ \A k \in 1..Len(q) : q[k] \in S /\ q[k] \in 1..n
      /\ \A j, k \in 1..Len(q) : q[j] = q[k] => j = k
      /\ \A i \in S : (\A j \in S : j <= i) => Len(q) # 0 /\ q[Len(q)] = i
  <2>1. S \in SUBSET (1..n)
    BY <1>4
  <2> QED
    BY ONLY ZenonT(60), <1>2, <2>1, n \in Nat, Positions
<1>6. Decls = [k \in 1..Len(q) |-> DeclOf(q[k])]
  BY <1>1, <1>2 DEF Decls
<1>7. ASSUME NEW s
      PROVE  DeclOf(s)' = [name |-> Means(s)'.name, states |-> StatesOf(s)', handlers |-> HandlersOf(s)']
  BY DEF DeclOf
<1>8. ASSUME NEW s \in 1..n, m.kind \in {"service", "blank"} \/ s # Within
      PROVE  DeclOf(s)' = DeclOf(s)
  <2>1. s \in 1..(n + 1)
    OBVIOUS
  <2>2. StatesOf(s)' = StatesOf(s)
    BY <1>8, <2>1, StatesMore
  <2>3. HandlersOf(s)' = HandlersOf(s)
    <3>1. CASE m.kind \notin {"effects", "action"}
      <4>1. ~ (m.kind = "on" /\ s = Within)
        BY <1>8
      <4> QED
        BY <2>1, <3>1, <4>1, HandlersMore
    <3>2. CASE m.kind \in {"effects", "action"}
      <4>1. m.kind # "on" /\ Top \notin Under("on", s)
        BY <1>8, <3>2, TopWithin
      <4> QED
        BY <2>1, <4>1, HandlersMore
    <3> QED
      BY <3>1, <3>2
  <2> QED
    BY <1>3, <1>7, <2>2, <2>3 DEF DeclOf
<1> HIDE DEF m
<1>9. ASSUME m.kind = "service"
      PROVE  Decls' = Append(Decls, none)
  <2>1. PICK r : r = Append(q, n + 1)
    OBVIOUS
  <2>2. InOrder(LinesOf("service")') = r
    <3>1. LinesOf("service")' = S \cup {n + 1}
      BY <1>3, <1>9 DEF With
    <3> QED
      BY <1>2, <1>4, <2>1, <3>1, InOrderMore
  <2>3. Decls' = [k \in 1..Len(r) |-> DeclOf(r[k])']
    BY <2>2 DEF Decls
  <2>4. Len(r) = Len(q) + 1 /\ r[Len(q) + 1] = n + 1 /\ \A k \in 1..Len(q) : r[k] = q[k]
    BY <1>5, <2>1
  <2>5. DeclOf(n + 1)' = none
    <3>1. n + 1 \in 1..(n + 1) /\ n + 1 # Within
      BY <1>4
    <3>2. StatesOf(n + 1)' = StatesOf(n + 1) /\ HandlersOf(n + 1)' = HandlersOf(n + 1)
      BY <1>9, <3>1, StatesMore, HandlersMore DEF m
    <3>3. StatesOf(n + 1) = <<>>
      <4>1. StatesOf(n + 1) =
              [k \in 1..Len(<<>>) |-> [name |-> Means(InOrder(Under("state", n + 1))[k]).name,
                                       initial |-> Means(InOrder(Under("state", n + 1))[k]).initial]]
        BY <1>4, InOrderEmpty DEF StatesOf
      <4> QED
        BY <4>1
    <3>4. HandlersOf(n + 1) = <<>>
      <4>1. HandlersOf(n + 1) = [k \in 1..Len(<<>>) |-> HandlerOf(InOrder(Under("on", n + 1))[k])]
        BY <1>4, InOrderEmpty DEF HandlersOf
      <4> QED
        BY <4>1
    <3> QED
      BY <1>3, <1>7, <3>2, <3>3, <3>4
  <2>6. \A k \in 1..(Len(q) + 1) : k = Len(q) + 1 \/ k \in 1..Len(q)
    BY <1>5
  <2>7. \A k \in 1..(Len(q) + 1) : DeclOf(r[k])' = IF k = Len(q) + 1 THEN none ELSE Decls[k]
    <3>1. DeclOf(r[Len(q) + 1])' = none
      BY <2>4, <2>5
    <3>2. \A k \in 1..Len(q) : DeclOf(r[k])' = Decls[k]
      BY <1>5, <1>6, <1>8, <1>9, <2>4 DEF m
    <3> QED
      BY <2>6, <3>1, <3>2
  <2>8. IsSeq(Decls) /\ Len(Decls) = Len(q)
    BY <1>5, <1>6, SeqMade
  <2> QED
    BY <2>3, <2>4, <2>7, <2>8, AppendIs
<1>10. ASSUME m.kind # "service"
       PROVE  Decls' = [k \in 1..Len(q) |-> DeclOf(q[k])']
  <2>1. InOrder(LinesOf("service")') = q
    BY <1>2, <1>3, <1>10 DEF With
  <2> QED
    BY <2>1 DEF Decls
<1>11. ASSUME m.kind = "blank"
       PROVE  Decls' = Decls
  BY <1>5, <1>6, <1>8, <1>10, <1>11 DEF m
<1>12. ASSUME NEW B, NEW s, m.kind # "service", s = Within, s \in LinesOf("service"),
              IsSeq(B), Decls = Append(B, DeclOf(s))
       PROVE  Decls' = Append(B, DeclOf(s)')
  <2>1. \A j \in S : j <= s
    <3> SUFFICES ASSUME NEW j \in S PROVE j <= s
      OBVIOUS
    <3>1. j \in 1..n /\ Kind(j) \in {"service"}
      BY <1>1, <1>4 DEF LinesOf
    <3>2. n + 1 \in 1..(Len(text) + 1) /\ (n + 1) - 1 = n
      OBVIOUS
    <3>3. Within = Latest({"service"}, n + 1)
      BY DEF Within, ServiceOf
    <3> QED
      BY <1>12, <3>1, <3>2, <3>3, LatestIs
  <2>2. Len(q) # 0 /\ q[Len(q)] = s
    BY <1>1, <1>5, <1>12, <2>1
  <2>3. Len(B) \in Nat /\ Len(q) = Len(B) + 1 /\ \A k \in 1..Len(B) : B[k] = DeclOf(q[k])
    <3>1. Len(Decls) = Len(q)
      BY <1>5, <1>6
    <3>2. Len(B) \in Nat /\ Len(Append(B, DeclOf(s))) = Len(B) + 1
          /\ \A k \in 1..Len(B) : Append(B, DeclOf(s))[k] = B[k]
      BY <1>12, SeqAppend
    <3>3. \A k \in 1..Len(B) : k \in 1..Len(q)
      BY <1>12, <3>1, <3>2
    <3> QED
      BY <1>6, <1>12, <3>1, <3>2, <3>3
  <2>4. \A k \in 1..Len(B) : q[k] # s /\ DeclOf(q[k])' = DeclOf(q[k])
    BY <1>5, <1>8, <1>12, <2>2, <2>3
  <2>5. Decls' = [k \in 1..(Len(B) + 1) |-> IF k = Len(B) + 1 THEN DeclOf(s)' ELSE B[k]]
    BY <1>10, <1>12, <2>2, <2>3, <2>4
  <2> QED
    BY <1>12, <2>3, <2>5, AppendIs
<1> QED
  BY <1>7, <1>9, <1>11, <1>12 DEF m

(* A line of kind K is in its place behind the text. *)
Fits(K) ==
    /\ K # "bad"
    /\ K \in Heads /\ Top \in LinesOf("on") => Filled(Top)
    /\ K = "state" => Top \in LinesOf("service")
    /\ K = "on" => Within # 0
    /\ K \in {"effects", "action"} => Top \in LinesOf("on")
    /\ K = "effects" => Body("effects", Top) = {} /\ Body("action", Top) = {}

(* A line that fits leaves the lines in their places. *)
LEMMA PlacedMore ==
    ASSUME text \in Seq(DOMAIN Lines), NEW l \in DOMAIN Lines, text' = Append(text, l),
           Placed, Fits(Lines[l].means.kind)
    PROVE  Placed'
<1>1. PICK n \in Nat : n = Len(text)
  OBVIOUS
<1>2. PICK K : K = Lines[l].means.kind
  OBVIOUS
<1>3. /\ \A i \in 1..(n + 1) : HeadOf(i)' = HeadOf(i) /\ ServiceOf(i)' = ServiceOf(i)
      /\ \A kind : LinesOf(kind)' = With(LinesOf(kind), kind = K, n + 1)
      /\ \A kind, h : Body(kind, h)' = With(Body(kind, h), kind = K /\ h = Top, n + 1)
      /\ Top' = IF K \in Heads THEN n + 1 ELSE Top
  BY <1>1, <1>2, LineMore
<1>4. /\ Top \in 0..n
      /\ \A kind : /\ LinesOf(kind) \in SUBSET (1..n)
                   /\ \A i : Body(kind, i) \in SUBSET (1..n)
                   /\ Body(kind, n + 1) = {}
  BY <1>1, SetsIn
<1>5. HeadOf(n + 1) = Top /\ ServiceOf(n + 1) = Within
  BY <1>1 DEF Top, Within
<1>6. Fits(K)
  BY <1>2
<1>7. LinesOf("bad")' = {}
  BY <1>3, <1>6 DEF Placed, Fits, With
<1>8. \A kind : /\ LinesOf(kind) \subseteq LinesOf(kind)'
                /\ \A i \in LinesOf(kind)' : i \in LinesOf(kind) \/ (i = n + 1 /\ kind = K)
  BY <1>3 DEF With
<1>9. WellPlaced'
  <2>1. \A kind : \A i \in LinesOf(kind) : i \in 1..(n + 1)
    BY <1>4
  <2>2. ASSUME NEW i \in LinesOf("state")' PROVE HeadOf(i)' \in LinesOf("service")'
    <3>1. CASE i \in LinesOf("state")
      BY <1>3, <1>8, <2>1, <3>1 DEF Placed, WellPlaced
    <3>2. CASE i = n + 1 /\ K = "state"
      <4>1. HeadOf(i)' = Top /\ Top \in LinesOf("service")
        BY <1>3, <1>5, <1>6, <3>2 DEF Fits
      <4> QED
        BY <1>8, <4>1
    <3> QED
      BY <1>8, <3>1, <3>2
  <2>3. ASSUME NEW i \in LinesOf("on")' PROVE ServiceOf(i)' # 0
    <3>1. CASE i \in LinesOf("on")
      BY <1>3, <2>1, <3>1 DEF Placed, WellPlaced
    <3>2. CASE i = n + 1 /\ K = "on"
      BY <1>3, <1>5, <1>6, <3>2 DEF Fits
    <3> QED
      BY <1>8, <3>1, <3>2
  <2>4. ASSUME NEW kind \in {"effects", "action"}, NEW i \in LinesOf(kind)'
        PROVE  HeadOf(i)' \in LinesOf("on")'
    <3>1. CASE i \in LinesOf(kind)
      BY <1>3, <1>8, <2>1, <3>1 DEF Placed, WellPlaced
    <3>2. CASE i = n + 1 /\ K = kind
      <4>1. HeadOf(i)' = Top /\ Top \in LinesOf("on")
        BY <1>3, <1>5, <1>6, <3>2 DEF Fits
      <4> QED
        BY <1>8, <4>1
    <3> QED
      BY <1>8, <3>1, <3>2
  <2> QED
    BY <2>2, <2>3, <2>4 DEF WellPlaced
<1>10. ASSUME NEW h \in LinesOf("on")' PROVE Started(h)' /\ (h # Top' => Filled(h)')
  <2>1. CASE h \in LinesOf("on")
    <3>1. Started(h) /\ (h # Top => Filled(h))
      BY <2>1 DEF Placed
    <3>2. Started(h)'
      <4> SUFFICES ASSUME NEW e \in Body("effects", h)'
                   PROVE  /\ Body("effects", h)' = {e}
                          /\ \A a \in Body("action", h)' : e < a
        BY DEF Started
      <4>1. CASE K = "effects" /\ h = Top
        <5>1. Body("effects", h)' = {n + 1} /\ Body("action", h)' = {}
          BY <1>3, <1>6, <4>1 DEF Fits, With
        <5> QED
          BY <5>1
      <4>2. CASE ~ (K = "effects" /\ h = Top)
        <5>1. Body("effects", h)' = Body("effects", h)
              /\ \A a \in Body("action", h)' : a \in Body("action", h) \/ a = n + 1
          BY <1>3, <4>2 DEF With
        <5>2. e \in 1..n /\ e < n + 1
          <6>1. Body("effects", h) \in SUBSET (1..n) /\ e \in Body("effects", h)
            BY <1>4, <5>1
          <6> QED
            BY <6>1
        <5> QED
          BY <3>1, <5>1, <5>2 DEF Started
      <4> QED
        BY <4>1, <4>2
    <3>3. ASSUME h # Top' PROVE Filled(h)'
      <4>1. Filled(h)
        BY <1>3, <1>6, <2>1, <3>1, <3>3 DEF Fits
      <4>2. Body("effects", h) \subseteq Body("effects", h)'
            /\ Body("action", h) \subseteq Body("action", h)'
        BY <1>3 DEF With
      <4> QED
        BY <4>1, <4>2 DEF Filled
    <3> QED
      BY <3>2, <3>3
  <2>2. CASE h = n + 1 /\ K = "on"
    <3>1. Body("effects", h)' = {} /\ Top' = h
      BY <1>3, <1>4, <2>2 DEF With, Heads
    <3> QED
      BY <3>1 DEF Started
  <2> QED
    BY <1>8, <2>1, <2>2
<1> QED
  BY <1>7, <1>9, <1>10 DEF Placed

(* A text with a line that does not fit is not well formed. *)
LEMMA Refused ==
    ASSUME text \in Seq(DOMAIN Lines), NEW l \in DOMAIN Lines, text' = Append(text, l),
           ~ Fits(Lines[l].means.kind)
    PROVE  ~ WellFormed'
<1>1. PICK n \in Nat : n = Len(text)
  OBVIOUS
<1>2. PICK K : K = Lines[l].means.kind
  OBVIOUS
<1>3. /\ HeadOf(n + 1)' = HeadOf(n + 1) /\ ServiceOf(n + 1)' = ServiceOf(n + 1)
      /\ \A kind : LinesOf(kind)' = With(LinesOf(kind), kind = K, n + 1)
      /\ \A kind, h : Body(kind, h)' = With(Body(kind, h), kind = K /\ h = Top, n + 1)
  <2>1. n + 1 \in 1..(n + 1)
    OBVIOUS
  <2> QED
    BY <1>1, <1>2, <2>1, LineMore
<1>4. \A kind : \A i : Body(kind, i) \in SUBSET (1..n)
  BY <1>1, SetsIn
<1>5. HeadOf(n + 1) = Top /\ ServiceOf(n + 1) = Within
  BY <1>1 DEF Top, Within
<1>6. PICK h : h = Top
  OBVIOUS
<1> SUFFICES ASSUME WellFormed' PROVE FALSE
  OBVIOUS
<1>7. /\ LinesOf("bad")' = {} /\ WellPlaced' /\ \A g \in LinesOf("on")' : Complete(g)'
  BY DEF WellFormed
<1>8. K # "bad"
  BY <1>3, <1>7 DEF With
<1>9. K = "state" => Top \in LinesOf("service")
  BY <1>3, <1>5, <1>7 DEF WellPlaced, With
<1>10. K = "on" => Within # 0
  BY <1>3, <1>5, <1>7 DEF WellPlaced, With
<1>11. K \in {"effects", "action"} => Top \in LinesOf("on")
  BY <1>3, <1>5, <1>7 DEF WellPlaced, With
<1>12. ASSUME h \in LinesOf("on")
       PROVE  \E e : /\ Body("effects", h)' = {e} /\ \A a \in Body("action", h)' : e < a
                     /\ Body("action", h)' # {}
  <2>1. Complete(h)'
    BY <1>3, <1>7, <1>12 DEF With
  <2> QED
    BY <2>1 DEF Complete
<1>13. ASSUME K \in Heads, Top \in LinesOf("on") PROVE Filled(Top)
  <2>1. Body("effects", h)' = Body("effects", h) /\ Body("action", h)' = Body("action", h)
    BY <1>3, <1>13 DEF With, Heads
  <2> QED
    BY <1>6, <1>12, <1>13, <2>1 DEF Filled
<1>14. ASSUME K = "effects" PROVE Body("effects", Top) = {} /\ Body("action", Top) = {}
  <2>1. /\ Body("effects", h)' = Body("effects", h) \cup {n + 1}
        /\ Body("action", h)' = Body("action", h)
    BY <1>3, <1>6, <1>14 DEF With
  <2>2. PICK e : /\ Body("effects", h)' = {e} /\ \A a \in Body("action", h)' : e < a
    BY <1>6, <1>11, <1>12, <1>14
  <2>3. e = n + 1
    BY <2>1, <2>2
  <2>4. Body("effects", h) = {}
    BY <1>4, <2>1, <2>2, <2>3
  <2>5. Body("action", h) = {}
    BY <1>4, <2>1, <2>2, <2>3
  <2> QED
    BY <1>6, <2>4, <2>5
<1> QED
  BY <1>2, <1>8, <1>9, <1>10, <1>11, <1>13, <1>14 DEF Fits

(* What the parsers of single lines make of them. *)
LEMMA OptionForms ==
    /\ \A t : parse_state_decl(t) = <<>> \/
              parse_state_decl(t) = <<[name |-> t[2], initial |-> I64[t[4]]]>>
    /\ \A t : parse_effects_decl(t) = <<>> \/
              /\ parse_effects_decl(t) = <<parse_effects_decl(t)[1]>>
              /\ parse_effects_decl(t)[1] # {}
    /\ \A t : parse_action(t) = <<>> \/ parse_action(t) = <<parse_action(t)[1]>>
<1> DEFINE Opt(o) == o = <<>> \/ o = <<o[1]>>
<1>1. \A w, d : Parsed(w, d) = <<>> \/ Parsed(w, d) = <<d>>
  BY DEF Parsed
<1>2. \A w, d : Opt(Parsed(w, d))
  BY <1>1
<1>3. ASSUME NEW t
      PROVE  parse_state_decl(t) = <<>> \/
             parse_state_decl(t) = <<[name |-> t[2], initial |-> I64[t[4]]]>>
  BY DEF parse_state_decl, Parsed
<1>4. ASSUME NEW t
      PROVE  parse_effects_decl(t) = <<>> \/
             (/\ parse_effects_decl(t) = <<parse_effects_decl(t)[1]>>
              /\ parse_effects_decl(t)[1] # {})
  BY DEF parse_effects_decl, Parsed
<1>5. ASSUME NEW t PROVE Opt(parse_action(t))
  <2>1. \A r, g : /\ Opt(parse_log(r, g)) /\ Opt(parse_set_state(r, g)) /\ Opt(parse_inc_state(r, g))
                  /\ Opt(parse_timer_local(r, g)) /\ Opt(parse_send(r, g))
    <3> SUFFICES ASSUME NEW r, NEW g
                 PROVE  /\ Opt(parse_log(r, g)) /\ Opt(parse_set_state(r, g)) /\ Opt(parse_inc_state(r, g))
                        /\ Opt(parse_timer_local(r, g)) /\ Opt(parse_send(r, g))
      OBVIOUS
    <3> HIDE DEF Opt
    <3>1. Opt(parse_log(r, g))
      BY <1>2 DEF parse_log
    <3>2. Opt(parse_set_state(r, g))
      BY <1>2 DEF parse_set_state
    <3>3. Opt(parse_inc_state(r, g))
      BY <1>2 DEF parse_inc_state
    <3>4. Opt(parse_timer_local(r, g))
      BY <1>2 DEF parse_timer_local
    <3>5. Opt(parse_send(r, g))
      BY <1>2 DEF parse_send
    <3> QED
      BY <3>1, <3>2, <3>3, <3>4, <3>5
  <2>2. Opt(<<>>)
    OBVIOUS
  <2> HIDE DEF Opt
  <2>3. PICK rest : rest = SubSeq(t, 4 * Cardinality(Ifs(t)) + 1, Len(t))
    OBVIOUS
  <2>4. parse_action(t) =
          IF ~parse_if_state_eq(t) \/ rest = <<>> THEN <<>>
          ELSE CASE rest[1] = "log"   -> parse_log(rest, Guards(t))
                 [] rest[1] = "set"   -> parse_set_state(rest, Guards(t))
                 [] rest[1] = "inc"   -> parse_inc_state(rest, Guards(t))
                 [] rest[1] = "timer" -> parse_timer_local(rest, Guards(t))
                 [] rest[1] = "send"  -> parse_send(rest, Guards(t))
                 [] OTHER             -> <<>>
    BY <2>3 DEF parse_action
  <2> QED
    BY <2>1, <2>2, <2>4
<1> QED
  BY <1>3, <1>4, <1>5

(* What an honest line means, keyword by keyword. *)
LEMMA LineKinds ==
    ASSUME Honest, NEW l \in DOMAIN Lines
    PROVE  LET raw == Lines[l].raw
               m   == Lines[l].means
               t   == Tokens[l]
               bad == [kind |-> "bad"]
           IN  /\ Comment(raw) => m = [kind |-> "blank"]
               /\ StartsWith(raw, "service") =>
                     m = IF Len(t) = 2 THEN [kind |-> "service", name |-> t[2]] ELSE bad
               /\ StartsWith(raw, "on") =>
                     m = IF Len(t) = 2 THEN [kind |-> "on", name |-> t[2]] ELSE bad
               /\ StartsWith(raw, "state") =>
                     m = IF parse_state_decl(t) # <<>>
                         THEN [kind |-> "state", name |-> t[2], initial |-> I64[t[4]]] ELSE bad
               /\ StartsWith(raw, "effects") =>
                     m = IF parse_effects_decl(t) # <<>>
                         THEN [kind |-> "effects", names |-> parse_effects_decl(t)[1]] ELSE bad
               /\ ~Comment(raw)
                     /\ (\A keyword \in Keywords \cup {"effects"} : ~StartsWith(raw, keyword)) =>
                     m = IF parse_action(t) # <<>>
                         THEN [kind |-> "action", action |-> parse_action(t)[1]] ELSE bad
<1>1. PICK raw : raw = Lines[l].raw
  OBVIOUS
<1>2. PICK t : t = Tokens[l]
  OBVIOUS
<1>3. \A k : StartsWith(raw, k) => raw # <<>> /\ raw[1] = k
  BY DEF StartsWith
<1>4. \A k \in {"service", "on", "state", "effects"} : StartsWith(raw, k) => ~Comment(raw)
  BY <1>3 DEF Comment
<1>5. \A j, k : StartsWith(raw, j) /\ StartsWith(raw, k) => j = k
  BY <1>3
<1>6. Lines[l].means = Meaning(l)
  BY DEF Honest
<1> QED
  BY <1>1, <1>2, <1>4, <1>5, <1>6 DEF Meaning, Keywords

(* The parser sees a line missing by a list still empty. *)
LEMMA EmptyHandler ==
    ASSUME Honest, text \in Seq(DOMAIN Lines), NEW h
    PROVE  /\ EffectsOf(h) = {} <=> Body("effects", h) = {}
           /\ ActionsOf(h) = <<>> <=> Body("action", h) = {}
<1>1. ASSUME NEW e \in Body("effects", h) PROVE Means(e).names # {}
  <2>1. e \in DOMAIN text /\ text[e] \in DOMAIN Lines /\ Means(e).kind = "effects"
    BY DEF Body, LinesOf, Kind
  <2>2. PICK l \in DOMAIN Lines : l = text[e]
    BY <2>1
  <2>3. Means(e) = Meaning(l)
    BY <2>2 DEF Honest, Means
  <2>4. Meaning(l) = [kind |-> "effects", names |-> parse_effects_decl(Tokens[l])[1]]
        /\ parse_effects_decl(Tokens[l]) # <<>>
    BY <2>1, <2>3 DEF Meaning
  <2> QED
    BY <2>3, <2>4, OptionForms
<1>2. EffectsOf(h) = {} <=> Body("effects", h) = {}
  BY <1>1 DEF EffectsOf
<1>3. PICK n \in Nat : n = Len(text)
  OBVIOUS
<1>4. PICK S : S = Body("action", h)
  OBVIOUS
<1>5. S \in SUBSET (1..n)
  BY <1>3, <1>4, SetsIn
<1>6. PICK q : q = InOrder(S)
  OBVIOUS
<1>7. q \in Seq(1..n) /\ (\A i \in S : \E k \in 1..Len(q) : q[k] = i)
      /\ \A k \in 1..Len(q) : q[k] \in S
      /\ Len(q) \in Nat
  BY ONLY <1>5, <1>6, n \in Nat, Positions
<1>8. ActionsOf(h) = [k \in 1..Len(q) |-> Means(q[k]).action]
  BY <1>4, <1>6 DEF ActionsOf
<1>9. ActionsOf(h) = <<>> <=> S = {}
  <2>1. CASE S = {}
    <3>1. Len(q) = 0
      BY <1>7, <2>1
    <3> QED
      BY <1>8, <2>1, <3>1
  <2>2. CASE S # {}
    <3>1. Len(q) # 0
      BY <1>7, <2>2
    <3>2. 1 \in DOMAIN ActionsOf(h)
      BY <1>7, <1>8, <3>1
    <3>3. ActionsOf(h) # <<>>
      BY <3>2
    <3> QED
      BY <2>2, <3>3
  <2> QED
    BY <2>1, <2>2
<1> QED
  BY <1>2, <1>4, <1>9

(* flush_handler succeeds if the open handler has all its lines. *)
LEMMA CanFlushIs ==
    ASSUME Honest, TypeOK, Parsing
    PROVE  CanFlush <=> (Top \in LinesOf("on") => Filled(Top))
<1>1. text \in Seq(DOMAIN Lines)
  BY DEF TypeOK
<1>2. CASE Top \in LinesOf("on")
  <2>1. current_handler = <<HandlerOf(Top)>>
    BY <1>2 DEF Parsing
  <2>2. current_handler # <<>> /\ current_handler[1].actions = ActionsOf(Top)
        /\ current_handler[1].effects = EffectsOf(Top)
    BY <2>1 DEF HandlerOf
  <2> QED
    BY <1>1, <1>2, <2>2, EmptyHandler DEF CanFlush, Filled
<1>3. CASE Top \notin LinesOf("on")
  BY <1>3 DEF Parsing, CanFlush
<1> QED
  BY <1>2, <1>3

(* A service is open once there was one. *)
LEMMA WithinIs ==
    ASSUME text \in Seq(DOMAIN Lines)
    PROVE  /\ Within # 0 <=> LinesOf("service") # {}
           /\ Within # 0 => Within \in LinesOf("service")
           /\ Top \in LinesOf("on") => Top \in Under("on", Within)
           /\ Top \in LinesOf("service") => Top = Within
           /\ Top = 0 => Within = 0
           /\ Top # 0 => Top \in LinesOf("service") \cup LinesOf("on")
           /\ \A k, j : k # j => LinesOf(k) \cap LinesOf(j) = {}
<1>1. PICK n \in Nat : n = Len(text)
  OBVIOUS
<1>2. n + 1 \in 1..(Len(text) + 1) /\ (n + 1) - 1 = n /\ DOMAIN text = 1..n
  BY <1>1
<1>3. Top = HeadOf(n + 1) /\ Within = ServiceOf(n + 1)
  BY <1>1 DEF Top, Within
<1>4. /\ HeadOf(n + 1) \in LinesOf("on") => ServiceOf(n + 1) = ServiceOf(HeadOf(n + 1))
      /\ HeadOf(n + 1) \in LinesOf("service") => ServiceOf(n + 1) = HeadOf(n + 1)
      /\ ServiceOf(n + 1) <= HeadOf(n + 1)
      /\ ServiceOf(n + 1) # 0 => ServiceOf(n + 1) \in LinesOf("service")
      /\ HeadOf(n + 1) # 0 => HeadOf(n + 1) \in LinesOf("service") \cup LinesOf("on")
  BY <1>2, HeadService
<1>5. \A j \in 1..n : Kind(j) \in {"service"} => j <= Within
  BY <1>2, <1>3, LatestIs DEF ServiceOf
<1>6. \A j \in LinesOf("service") : j \in 1..n /\ Kind(j) \in {"service"}
  BY <1>2 DEF LinesOf
<1>7. Within \in 0..n
  BY <1>1, SetsIn
<1>8. Within # 0 <=> LinesOf("service") # {}
  BY <1>3, <1>4, <1>5, <1>6, <1>7
<1>9. \A k, j : k # j => LinesOf(k) \cap LinesOf(j) = {}
  BY DEF LinesOf
<1> QED
  BY <1>3, <1>4, <1>7, <1>8, <1>9 DEF Under

(* A handler is open if the last header is one. *)
LEMMA OpenHandler ==
    ASSUME TypeOK, Parsing
    PROVE  current_handler # <<>> <=> Top \in LinesOf("on")
BY DEF Parsing

(* The service being read is the last one, its last handler the open one. *)
LEMMA LastDecl ==
    ASSUME text \in Seq(DOMAIN Lines), LinesOf("service") # {},
           NEW B, NEW x, IsSeq(B), Decls = Append(B, x)
    PROVE  Within \in LinesOf("service") /\ x = DeclOf(Within)
<1>1. PICK n \in Nat : n = Len(text)
  OBVIOUS
<1>2. PICK S : S = LinesOf("service")
  OBVIOUS
<1>3. PICK q : q = InOrder(S)
  OBVIOUS
<1>4. S \in SUBSET (1..n)
  BY <1>1, <1>2, SetsIn
<1>5. q \in Seq(1..n) /\ Len(q) \in Nat
      /\ \A i \in S : (\A j \in S : j <= i) => Len(q) # 0 /\ q[Len(q)] = i
  BY ONLY <1>3, <1>4, n \in Nat, Positions
<1>6. Within \in S
  BY <1>2, WithinIs
<1>7. \A j \in S : j <= Within
  <2> SUFFICES ASSUME NEW j \in S PROVE j <= Within
    OBVIOUS
  <2>1. j \in 1..n /\ Kind(j) \in {"service"}
    BY <1>2, <1>4 DEF LinesOf
  <2>2. n + 1 \in 1..(Len(text) + 1) /\ (n + 1) - 1 = n
    BY <1>1
  <2>3. Within = Latest({"service"}, n + 1)
    BY <1>1 DEF Within, ServiceOf
  <2> QED
    BY <2>1, <2>2, <2>3, LatestIs
<1>8. Len(q) # 0 /\ q[Len(q)] = Within
  BY <1>5, <1>6, <1>7
<1>9. Decls = [k \in 1..Len(q) |-> DeclOf(q[k])] /\ Len(Decls) = Len(q)
  BY <1>2, <1>3, <1>5 DEF Decls
<1>10. Len(Decls) = Len(B) + 1 /\ Decls[Len(B) + 1] = x /\ Len(B) \in Nat
  BY SeqAppend
<1> QED
  BY <1>2, <1>5, <1>6, <1>8, <1>9, <1>10

(* flush_service puts the open handler at the end of its service. *)
LEMMA FlushIs ==
    ASSUME NEW d \in ServiceDecl, NEW c \in Seq(HandlerDecl)
    PROVE  [d EXCEPT !.handlers = @ \o c] =
               [name |-> d.name, states |-> d.states, handlers |-> d.handlers \o c]
<1>1. d = [name |-> d.name, states |-> d.states, handlers |-> d.handlers]
  BY DEF ServiceDecl
<1>2. PICK a : a = d.handlers \o c
  OBVIOUS
<1>3. [d EXCEPT !.handlers = a] = [name |-> d.name, states |-> d.states, handlers |-> a]
  BY <1>1
<1> QED
  BY <1>2, <1>3, Zenon

(* With a service open, what is done is Decls without the last             *)
(* declaration.                                                            *)
LEMMA OpenService ==
    ASSUME TypeOK, Parsing, current_service # <<>>
    PROVE  \E d \in ServiceDecl :
              /\ current_service = <<d>>
              /\ FlushedService = [name |-> d.name, states |-> d.states,
                                   handlers |-> d.handlers \o current_handler]
              /\ FlushedService = DeclOf(Within) /\ flush_service = Decls
              /\ Decls = Append(services, DeclOf(Within)) /\ IsSeq(services)
              /\ Within \in LinesOf("service")
<1>1. PICK d \in ServiceDecl : current_service = <<d>>
  <2>1. current_service \in Seq(ServiceDecl) /\ Len(current_service) = 1
    BY OptionValue DEF TypeOK, IsOption
  <2> QED
    BY <2>1
<1>2. current_handler \in Seq(HandlerDecl)
  BY DEF TypeOK, IsOption
<1>3. FlushedService = [name |-> d.name, states |-> d.states, handlers |-> d.handlers \o current_handler]
  BY <1>1, <1>2, FlushIs DEF FlushedService
<1>4. IsSeq(services)
  BY SeqIs DEF TypeOK
<1>5. flush_service = Decls /\ Decls = Append(services, FlushedService)
  BY DEF Parsing, flush_service
<1>6. LinesOf("service") # {} /\ text \in Seq(DOMAIN Lines)
  BY DEF Parsing, TypeOK
<1>7. Within \in LinesOf("service") /\ FlushedService = DeclOf(Within)
  BY <1>4, <1>5, <1>6, LastDecl
<1> QED
  BY <1>1, <1>3, <1>4, <1>5, <1>7

LEMMA FlushedNext ==
    ASSUME TypeOK', NEW d, current_service' = <<d>>
    PROVE  flush_service' = Append(services', [name |-> d.name, states |-> d.states,
                                               handlers |-> d.handlers \o current_handler'])
<1>1. d \in ServiceDecl
  BY DEF TypeOK, IsOption
<1>2. current_handler' \in Seq(HandlerDecl)
  BY DEF TypeOK, IsOption
<1>3. FlushedService' = [name |-> d.name, states |-> d.states, handlers |-> d.handlers \o current_handler']
  BY <1>1, <1>2, FlushIs DEF FlushedService
<1> QED
  BY <1>3 DEF flush_service

(* The declarations with a line more, none of them being a service's. *)
LEMMA DeclNext ==
    ASSUME Honest, TypeOK, Parsing, current_service # <<>>, NEW l \in DOMAIN Lines, Read(l),
           Lines[l].means.kind # "service"
    PROVE  LET K == Lines[l].means.kind
           IN  \E s, n : /\ n = Len(text) /\ n \in Nat /\ s \in 1..n /\ s = Within
                         /\ Decls' = Append(services, [name |-> Means(s).name, states |-> StatesOf(s)',
                                                       handlers |-> HandlersOf(s)'])
                         /\ LinesOf("service")' # {}
<1>1. PICK n \in Nat : n = Len(text)
  BY DEF TypeOK
<1>2. PICK s : s = Within
  OBVIOUS
<1>3. text \in Seq(DOMAIN Lines) /\ text' = Append(text, l)
  BY DEF TypeOK, Read
<1>4. /\ s \in LinesOf("service") /\ Decls = Append(services, DeclOf(s)) /\ IsSeq(services)
  BY <1>2, OpenService
<1>5. s \in 1..n /\ s \in 1..(n + 1)
  <2>1. LinesOf("service") \in SUBSET (1..n)
    BY <1>1, <1>3, SetsIn
  <2> QED
    BY <1>4, <2>1
<1>6. Decls' = Append(services, DeclOf(s)')
  BY <1>1, <1>2, <1>3, <1>4, DeclsMore
<1>7. DeclOf(s)' = [name |-> Means(s)'.name, states |-> StatesOf(s)', handlers |-> HandlersOf(s)']
  BY <1>1, <1>3, <1>5, DeclsMore
<1>8. Means(s)' = Means(s) /\ LinesOf("service")' = With(LinesOf("service"), "service" = Lines[l].means.kind, n + 1)
  BY <1>1, <1>3, <1>5, LineMore
<1>9. LinesOf("service")' # {}
  BY <1>4, <1>8 DEF With
<1> QED
  BY <1>1, <1>2, <1>5, <1>6, <1>7, <1>8, <1>9

------------------------------------------------------------------------------
(***************************************************************************)
(* The steps of the parser: a line that fits extends Parsing, one that     *)
(* does not is refused, and then the text is not well formed.              *)
(***************************************************************************)
LEMMA StepBlank ==
    ASSUME Honest, TypeOK, Parsing, NEW l \in DOMAIN Lines, ReadBlank(l)
    PROVE  Parsing'
<1>1. PICK n \in Nat : n = Len(text)
  BY DEF TypeOK
<1>2. text \in Seq(DOMAIN Lines) /\ text' = Append(text, l)
      /\ services' = services /\ current_service' = current_service
      /\ current_handler' = current_handler
  BY DEF TypeOK, Read, ReadBlank, parser
<1>3. Lines[l].means.kind = "blank"
  <2>1. Comment(Lines[l].raw)
    BY DEF ReadBlank
  <2>2. Lines[l].means = [kind |-> "blank"]
    BY <2>1, LineKinds
  <2> QED
    BY <2>2
<1>4. Decls' = Decls
  BY <1>1, <1>2, <1>3, DeclsMore
<1>5. Placed'
  BY <1>2, <1>3, PlacedMore DEF Parsing, Fits, Heads
<1>6. flush_service' = flush_service
  BY <1>2 DEF flush_service, FlushedService
<1>7. /\ \A kind : LinesOf(kind)' = With(LinesOf(kind), kind = "blank", n + 1)
      /\ Top' = Top
  BY <1>1, <1>2, <1>3, LineMore, SMTT(60), ZenonT(30) DEF Heads
<1>8. LinesOf("service")' = LinesOf("service") /\ LinesOf("on")' = LinesOf("on")
  BY <1>7 DEF With
<1>9. \A h \in LinesOf("on") : HandlerOf(h)' = HandlerOf(h)
  <2>1. LinesOf("on") \in SUBSET (1..n)
    BY <1>1, <1>2, SetsIn
  <2> QED
    BY <1>1, <1>2, <1>3, <2>1, HandlerMore
<1> QED
  BY <1>2, <1>4, <1>5, <1>6, <1>7, <1>8, <1>9 DEF Parsing

LEMMA StepService ==
    ASSUME Honest, TypeOK, TypeOK', Parsing, NEW l \in DOMAIN Lines, ReadService(l)
    PROVE  IF phase' = phase THEN Parsing' ELSE ~WellFormed'
<1> DEFINE t == Tokens[l]
<1>1. PICK n \in Nat : n = Len(text)
  BY DEF TypeOK
<1>2. text \in Seq(DOMAIN Lines) /\ text' = Append(text, l) /\ phase = "parsing"
      /\ StartsWith(Lines[l].raw, "service")
  BY DEF TypeOK, Read, ReadKeyword, ReadService
<1>3. Lines[l].means = IF Len(t) = 2 THEN [kind |-> "service", name |-> t[2]] ELSE [kind |-> "bad"]
  BY <1>2, LineKinds
<1>4. CanFlush /\ Len(t) = 2 <=> Fits(Lines[l].means.kind)
  BY <1>3, CanFlushIs DEF Fits, Heads
<1>5. CASE CanFlush /\ Len(t) = 2
  <2>1. /\ services' = flush_service /\ phase' = phase /\ current_handler' = <<>>
        /\ current_service' = <<[name |-> t[2], states |-> <<>>, handlers |-> <<>>]>>
    BY <1>5 DEF ReadService
  <2>2. Lines[l].means.kind = "service" /\ Lines[l].means.name = t[2]
    BY <1>3, <1>5
  <2>3. flush_service' = Append(Decls, [name |-> t[2], states |-> <<>>, handlers |-> <<>> \o <<>>])
    BY <2>1, FlushedNext DEF Parsing
  <2>4. <<>> \o <<>> = <<>>
    OBVIOUS
  <2>5. flush_service' = Decls'
    BY <1>1, <1>2, <2>2, <2>3, <2>4, DeclsMore
  <2>6. Placed'
    BY <1>2, <1>4, <1>5, PlacedMore DEF Parsing
  <2>7. /\ \A kind : LinesOf(kind)' = With(LinesOf(kind), kind = "service", n + 1)
        /\ Top' = n + 1
    BY <1>1, <1>2, <2>2, LineMore, SMTT(60), ZenonT(30) DEF Heads
  <2>8. LinesOf("service")' # {} /\ Top' \notin LinesOf("on")'
    <3>1. LinesOf("on") \in SUBSET (1..n)
      BY <1>1, <1>2, SetsIn
    <3> QED
      BY <2>7, <3>1 DEF With
  <2>9. \A h \in LinesOf("on")' : h # Top'
    BY <2>8
  <2> QED
    BY <2>1, <2>5, <2>6, <2>8, <2>9 DEF Parsing
<1>6. CASE ~ (CanFlush /\ Len(t) = 2)
  <2>1. phase' # phase
    BY <1>2, <1>6 DEF ReadService, Refuse
  <2> QED
    BY <1>2, <1>4, <1>6, <2>1, Refused
<1> QED
  BY <1>5, <1>6

LEMMA StepState ==
    ASSUME Honest, TypeOK, TypeOK', Parsing, NEW l \in DOMAIN Lines, ReadState(l)
    PROVE  IF phase' = phase THEN Parsing' ELSE ~WellFormed'
<1> DEFINE t == Tokens[l]
           decl == [name |-> t[2], initial |-> I64[t[4]]]
           ok == current_service # <<>> /\ current_handler = <<>> /\ parse_state_decl(t) # <<>>
<1>1. text \in Seq(DOMAIN Lines) /\ text' = Append(text, l) /\ phase = "parsing"
      /\ StartsWith(Lines[l].raw, "state") /\ Read(l)
  BY DEF TypeOK, Read, ReadKeyword, ReadState
<1>2. Lines[l].means = IF parse_state_decl(t) # <<>>
                       THEN [kind |-> "state", name |-> t[2], initial |-> I64[t[4]]]
                       ELSE [kind |-> "bad"]
  BY <1>1, LineKinds
<1>3. current_service # <<>> /\ current_handler = <<>> <=> Top \in LinesOf("service")
  <2>1. current_service # <<>> <=> LinesOf("service") # {}
    BY DEF Parsing
  <2>2. current_handler # <<>> <=> Top \in LinesOf("on")
    BY OpenHandler
  <2> QED
    BY <1>1, <2>1, <2>2, WithinIs
<1>4. ok <=> Fits(Lines[l].means.kind)
  BY <1>2, <1>3 DEF Fits, Heads
<1>5. CASE ok
  <2>1. /\ services' = services /\ phase' = phase /\ current_handler' = <<>>
        /\ current_service' = [current_service EXCEPT ![1].states = @ \o parse_state_decl(t)]
    BY <1>5 DEF ReadState
  <2>2. /\ Lines[l].means.kind = "state"
        /\ Lines[l].means.name = t[2] /\ Lines[l].means.initial = I64[t[4]]
    BY <1>2, <1>5
  <2>3. PICK d \in ServiceDecl :
           /\ current_service = <<d>>
           /\ [name |-> d.name, states |-> d.states, handlers |-> d.handlers \o current_handler]
                 = DeclOf(Within)
    BY <1>5, OpenService
  <2>4. PICK s, n : /\ n = Len(text) /\ n \in Nat /\ s \in 1..n /\ s = Within
                    /\ Decls' = Append(services, [name |-> Means(s).name, states |-> StatesOf(s)',
                                                  handlers |-> HandlersOf(s)'])
                    /\ LinesOf("service")' # {}
    BY <1>1, <1>5, <2>2, DeclNext
  <2>5. d.name = Means(s).name /\ d.states = StatesOf(s) /\ d.handlers \o <<>> = HandlersOf(s)
    BY <1>5, <2>3, <2>4 DEF DeclOf
  <2>6. PICK e : e = [name |-> d.name, states |-> d.states \o <<decl>>, handlers |-> d.handlers]
    OBVIOUS
  <2>7. current_service' = <<e>>
    <3>1. parse_state_decl(t) = <<decl>>
      BY <1>5, OptionForms
    <3>2. PICK a : a = d.states \o <<decl>>
      OBVIOUS
    <3>3. [d EXCEPT !.states = a] = [name |-> d.name, states |-> a, handlers |-> d.handlers]
      <4>1. d = [name |-> d.name, states |-> d.states, handlers |-> d.handlers]
        BY DEF ServiceDecl
      <4> QED
        BY <4>1
    <3>4. current_service' = [<<d>> EXCEPT ![1] = [d EXCEPT !.states = a]]
      BY <2>1, <2>3, <3>1, <3>2
    <3>5. IsOption(current_service, ServiceDecl)
      BY DEF TypeOK
    <3>6. \A x : [<<d>> EXCEPT ![1] = x] = <<x>>
      BY <1>5, <2>3, <3>5, OptionValue
    <3>7. current_service' = <<[d EXCEPT !.states = a]>>
      BY <3>4, <3>6
    <3>8. [d EXCEPT !.states = a] = e
      BY <2>6, <3>2, <3>3
    <3> QED
      BY <3>7, <3>8
  <2>8. flush_service' = Append(services, [name |-> d.name, states |-> d.states \o <<decl>>,
                                           handlers |-> d.handlers \o <<>>])
    <3>1. flush_service' = Append(services', [name |-> e.name, states |-> e.states,
                                              handlers |-> e.handlers \o current_handler'])
      BY <2>7, FlushedNext
    <3>2. e.name = d.name /\ e.states = d.states \o <<decl>> /\ e.handlers = d.handlers
      BY <2>6
    <3> QED
      BY <2>1, <3>1, <3>2
  <2>9. s \in 1..(n + 1)
    BY <2>4
  <2>10. StatesOf(s)' = Append(StatesOf(s), decl) /\ HandlersOf(s)' = HandlersOf(s)
    BY <1>1, <2>2, <2>4, <2>9, StatesMore, HandlersMore
  <2>11. d.states \o <<decl>> = Append(d.states, decl)
    <3>1. d.states \in Seq(StateDecl)
      BY DEF ServiceDecl
    <3>2. decl \in StateDecl
      <4>1. parse_state_decl(t) \in Seq(StateDecl) /\ parse_state_decl(t) = <<decl>>
        BY <1>5, OptionForms, StateDeclType, TokensAssumption
      <4> QED
        BY <4>1
    <3> QED
      BY <3>1, <3>2
  <2>12. flush_service' = Decls'
    BY <2>4, <2>5, <2>8, <2>10, <2>11
  <2>13. Placed'
    BY <1>1, <1>4, <1>5, PlacedMore DEF Parsing
  <2>14. Top' \notin LinesOf("on")'
    <3>1. /\ \A kind : LinesOf(kind)' = With(LinesOf(kind), kind = "state", n + 1)
          /\ Top' = Top
      BY <1>1, <2>2, <2>4, LineMore, SMTT(60), ZenonT(30) DEF Heads
    <3>2. Top \notin LinesOf("on")
      BY <1>1, <1>3, <1>5, WithinIs
    <3> QED
      BY <3>1, <3>2 DEF With
  <2>15. \A h \in LinesOf("on")' : h # Top'
    BY <2>14
  <2>16. current_service' # <<>>
    BY <2>7
  <2> QED
    BY <2>1, <2>4, <2>12, <2>13, <2>14, <2>15, <2>16 DEF Parsing
<1>6. CASE ~ ok
  <2>1. phase' # phase
    BY <1>1, <1>6 DEF ReadState, Refuse
  <2> QED
    BY <1>1, <1>4, <1>6, <2>1, Refused
<1> QED
  BY <1>5, <1>6

LEMMA StepOn ==
    ASSUME Honest, TypeOK, TypeOK', Parsing, NEW l \in DOMAIN Lines, ReadOn(l)
    PROVE  IF phase' = phase THEN Parsing' ELSE ~WellFormed'
<1> DEFINE t == Tokens[l]
           ok == current_service # <<>> /\ CanFlush /\ Len(t) = 2
<1>1. text \in Seq(DOMAIN Lines) /\ text' = Append(text, l) /\ phase = "parsing"
      /\ StartsWith(Lines[l].raw, "on") /\ Read(l)
  BY DEF TypeOK, Read, ReadKeyword, ReadOn
<1>2. Lines[l].means = IF Len(t) = 2 THEN [kind |-> "on", name |-> t[2]] ELSE [kind |-> "bad"]
  BY <1>1, LineKinds
<1>3. current_service # <<>> <=> Within # 0
  BY <1>1, WithinIs DEF Parsing
<1>4. ok <=> Fits(Lines[l].means.kind)
  BY <1>2, <1>3, CanFlushIs DEF Fits, Heads
<1>5. CASE ok
  <2>1. /\ services' = services /\ phase' = phase /\ current_service' = <<FlushedService>>
        /\ current_handler' = <<[on |-> t[2], effects |-> {}, actions |-> <<>>]>>
    BY <1>5 DEF ReadOn
  <2>2. Lines[l].means.kind = "on" /\ Lines[l].means.name = t[2]
    BY <1>2, <1>5
  <2>3. FlushedService = DeclOf(Within)
    BY <1>5, OpenService
  <2>4. PICK s, n : /\ n = Len(text) /\ n \in Nat /\ s \in 1..n /\ s = Within
                    /\ Decls' = Append(services, [name |-> Means(s).name, states |-> StatesOf(s)',
                                                  handlers |-> HandlersOf(s)'])
                    /\ LinesOf("service")' # {}
    BY <1>1, <1>5, <2>2, DeclNext
  <2>5. PICK d : d = [name |-> Means(s).name, states |-> StatesOf(s), handlers |-> HandlersOf(s)]
    OBVIOUS
  <2>6. current_service' = <<d>>
    BY <2>1, <2>3, <2>4, <2>5 DEF DeclOf
  <2>7. PICK c : c = [on |-> t[2], effects |-> {}, actions |-> <<>>]
    OBVIOUS
  <2>8. flush_service' = Append(services, [name |-> Means(s).name, states |-> StatesOf(s),
                                           handlers |-> HandlersOf(s) \o <<c>>])
    <3>1. flush_service' = Append(services', [name |-> d.name, states |-> d.states,
                                              handlers |-> d.handlers \o current_handler'])
      BY <2>6, FlushedNext
    <3>2. d.name = Means(s).name /\ d.states = StatesOf(s) /\ d.handlers = HandlersOf(s)
      BY <2>5
    <3> QED
      BY <2>1, <2>7, <3>1, <3>2
  <2>9. s \in 1..(n + 1)
    BY <2>4
  <2>10. StatesOf(s)' = StatesOf(s) /\ HandlersOf(s)' = Append(HandlersOf(s), HandlerOf(n + 1)')
    BY <1>1, <2>2, <2>4, <2>9, StatesMore, HandlersMore
  <2>11. HandlerOf(n + 1)' = c
    BY <1>1, <2>2, <2>4, <2>7, HandlerMore
  <2>12. HandlersOf(s) \o <<c>> = Append(HandlersOf(s), c)
    <3>1. d \in ServiceDecl /\ c \in HandlerDecl
      BY <2>1, <2>6, <2>7 DEF TypeOK, IsOption
    <3>2. HandlersOf(s) \in Seq(HandlerDecl)
      BY <2>5, <3>1 DEF ServiceDecl
    <3> QED
      BY <3>1, <3>2
  <2>13. flush_service' = Decls'
    BY <2>4, <2>8, <2>10, <2>11, <2>12
  <2>14. Placed'
    BY <1>1, <1>4, <1>5, PlacedMore DEF Parsing
  <2>15. /\ \A kind : LinesOf(kind)' = With(LinesOf(kind), kind = "on", n + 1)
         /\ Top' = n + 1
    BY <1>1, <2>2, <2>4, LineMore, SMTT(60), ZenonT(30) DEF Heads
  <2>16. Top' \in LinesOf("on")'
    BY <2>15 DEF With
  <2>17. \A h \in LinesOf("on")' : h = Top' => current_handler' = <<HandlerOf(h)'>>
    BY <2>1, <2>7, <2>11, <2>15
  <2>18. current_service' # <<>>
    BY <2>6
  <2> QED
    <3>1. (Top \notin LinesOf("on") => current_handler = <<>>)'
      BY <2>16
    <3>2. (\A h \in LinesOf("on") : h = Top => current_handler = <<HandlerOf(h)>>)'
      BY <2>17
    <3>3. (current_service = <<>> <=> LinesOf("service") = {})'
      BY <2>4, <2>18
    <3> QED
      BY <2>1, <2>13, <2>14, <3>1, <3>2, <3>3 DEF Parsing
<1>6. CASE ~ ok
  <2>1. phase' # phase
    BY <1>1, <1>6 DEF ReadOn, Refuse
  <2> QED
    BY <1>1, <1>4, <1>6, <2>1, Refused
<1> QED
  BY <1>5, <1>6

(* A line under the open handler changes that handler only. *)
LEMMA HandlerNext ==
    ASSUME Honest, TypeOK, TypeOK', Parsing, NEW l \in DOMAIN Lines, Read(l),
           Lines[l].means.kind \in {"effects", "action"}, Fits(Lines[l].means.kind),
           NEW h \in LinesOf("on"), h = Top, services' = services,
           current_service' = current_service, current_handler' = <<HandlerOf(h)'>>
    PROVE  Parsing'
<1>1. text \in Seq(DOMAIN Lines) /\ text' = Append(text, l)
  BY DEF TypeOK, Read
<1>2. current_handler = <<HandlerOf(h)>> /\ current_service # <<>>
  BY DEF Parsing, TypeOK
<1>3. PICK d \in ServiceDecl :
         /\ current_service = <<d>>
         /\ [name |-> d.name, states |-> d.states, handlers |-> d.handlers \o current_handler]
               = DeclOf(Within)
  BY <1>2, OpenService
<1>4. PICK s, n : /\ n = Len(text) /\ n \in Nat /\ s \in 1..n /\ s = Within
                  /\ Decls' = Append(services, [name |-> Means(s).name, states |-> StatesOf(s)',
                                                handlers |-> HandlersOf(s)'])
                  /\ LinesOf("service")' # {}
  BY <1>1, <1>2, DeclNext
<1>5. PICK b : b = d.handlers
  OBVIOUS
<1>6. b \in Seq(HandlerDecl) /\ IsSeq(b)
  BY <1>5, SeqIs DEF ServiceDecl
<1>7. PICK x : x = HandlerOf(h)
  OBVIOUS
<1>8. x \in HandlerDecl
  BY <1>2, <1>7 DEF TypeOK, IsOption
<1>9. d.name = Means(s).name /\ d.states = StatesOf(s) /\ HandlersOf(s) = Append(b, x)
  <2>1. d.name = Means(s).name /\ d.states = StatesOf(s) /\ HandlersOf(s) = b \o <<x>>
    BY <1>2, <1>3, <1>4, <1>5, <1>7 DEF DeclOf
  <2>2. b \o <<x>> = Append(b, x)
    BY <1>6, <1>8
  <2> QED
    BY <2>1, <2>2
<1>10. s \in 1..(n + 1) /\ h \in Under("on", s)
  BY <1>1, <1>4, WithinIs
<1>11. PICK y : y = HandlerOf(h)'
  OBVIOUS
<1>12. HandlersOf(s)' = Append(b, y)
  <2>1. \A B, g : /\ Lines[l].means.kind # "on" /\ g = Top /\ Top \in Under("on", s)
                  /\ IsSeq(B) /\ HandlersOf(s) = Append(B, HandlerOf(g))
                  => HandlersOf(s)' = Append(B, HandlerOf(g)')
    <3>1. n \in Nat /\ n = Len(text) /\ s \in 1..(n + 1)
      BY <1>4, <1>10
    <3> QED
      BY ONLY <1>1, <3>1, l \in DOMAIN Lines, HandlersMore, SMTT(60), ZenonT(30)
  <2>2. HandlersOf(s) = Append(b, HandlerOf(h))
    BY <1>7, <1>9
  <2> QED
    BY <1>6, <1>10, <1>11, <2>1, <2>2
<1>13. StatesOf(s)' = StatesOf(s)
  BY <1>1, <1>4, <1>10, StatesMore
<1>14. flush_service' = Append(services, [name |-> d.name, states |-> d.states,
                                          handlers |-> Append(b, y)])
  <2>1. flush_service' = Append(services', [name |-> d.name, states |-> d.states,
                                            handlers |-> d.handlers \o current_handler'])
    BY <1>3, FlushedNext
  <2>2. y \in HandlerDecl
    BY <1>11 DEF TypeOK, IsOption
  <2>3. d.handlers \o <<y>> = Append(b, y)
    BY <1>5, <1>6, <2>2
  <2> QED
    BY <1>11, <2>1, <2>3
<1>15. flush_service' = Decls'
  BY <1>4, <1>9, <1>12, <1>13, <1>14
<1>16. Placed'
  BY <1>1, PlacedMore DEF Parsing
<1>17. LinesOf("on")' = LinesOf("on") /\ Top' = Top
  BY <1>1, <1>4, LineMore DEF With, Heads
<1>18. (\A g \in LinesOf("on") : g = Top => current_handler = <<HandlerOf(g)>>)'
  BY <1>17
<1>19. (Top \notin LinesOf("on") => current_handler = <<>>)'
  BY <1>17
<1>20. (current_service = <<>> <=> LinesOf("service") = {})'
  BY <1>2, <1>4
<1> QED
  BY <1>15, <1>16, <1>18, <1>19, <1>20 DEF Parsing

LEMMA StepEffects ==
    ASSUME Honest, TypeOK, TypeOK', Parsing, NEW l \in DOMAIN Lines, ReadEffects(l)
    PROVE  IF phase' = phase THEN Parsing' ELSE ~WellFormed'
<1> DEFINE t == Tokens[l]
<1>1. PICK names : names = parse_effects_decl(t)
  OBVIOUS
<1> DEFINE ok == /\ current_handler # <<>> /\ names # <<>>
                 /\ current_handler[1].effects = {} /\ current_handler[1].actions = <<>>
<1>2. text \in Seq(DOMAIN Lines) /\ text' = Append(text, l) /\ phase = "parsing"
      /\ StartsWith(Lines[l].raw, "effects") /\ Read(l)
  BY DEF TypeOK, Read, ReadKeyword, ReadEffects
<1>3. Lines[l].means = IF names # <<>> THEN [kind |-> "effects", names |-> names[1]]
                       ELSE [kind |-> "bad"]
  BY <1>1, <1>2, LineKinds
<1>4. PICK h : h = Top
  OBVIOUS
<1>5. h \in LinesOf("on") =>
         /\ current_handler = <<HandlerOf(h)>> /\ current_handler # <<>>
         /\ current_handler[1] = HandlerOf(h)
         /\ HandlerOf(h).effects = {} <=> Body("effects", h) = {}
         /\ HandlerOf(h).actions = <<>> <=> Body("action", h) = {}
  <2> SUFFICES ASSUME h \in LinesOf("on")
               PROVE  /\ current_handler = <<HandlerOf(h)>> /\ current_handler # <<>>
                      /\ current_handler[1] = HandlerOf(h)
                      /\ HandlerOf(h).effects = {} <=> Body("effects", h) = {}
                      /\ HandlerOf(h).actions = <<>> <=> Body("action", h) = {}
    OBVIOUS
  <2>1. current_handler = <<HandlerOf(h)>>
    BY <1>4 DEF Parsing
  <2>2. HandlerOf(h).effects = EffectsOf(h) /\ HandlerOf(h).actions = ActionsOf(h)
    BY DEF HandlerOf
  <2> QED
    BY <1>2, <2>1, <2>2, EmptyHandler
<1>6. ok <=> Fits(Lines[l].means.kind)
  <2>1. current_handler # <<>> <=> h \in LinesOf("on")
    BY <1>4, OpenHandler
  <2>2. Lines[l].means.kind = IF names # <<>> THEN "effects" ELSE "bad"
    BY <1>3
  <2> QED
    BY <1>4, <1>5, <2>1, <2>2 DEF Fits, Heads
<1>7. CASE ok
  <2>1. /\ services' = services /\ phase' = phase /\ current_service' = current_service
        /\ current_handler' = [current_handler EXCEPT ![1].effects = names[1]]
    BY <1>1, <1>7 DEF ReadEffects
  <2>2. h \in LinesOf("on") /\ Lines[l].means.kind = "effects" /\ Lines[l].means.names = names[1]
    BY <1>3, <1>4, <1>7, OpenHandler
  <2>3. PICK n \in Nat : n = Len(text) /\ h \in 1..n
    <3>1. LinesOf("on") \in SUBSET (1..Len(text)) /\ Len(text) \in Nat
      BY <1>2, SetsIn
    <3> QED
      BY <2>2, <3>1
  <2>4. HandlerOf(h)' = [on |-> HandlerOf(h).on, effects |-> HandlerOf(h).effects \cup names[1],
                         actions |-> HandlerOf(h).actions]
    BY <1>2, <1>4, <2>2, <2>3, HandlerMore
  <2>5. PICK c : c = HandlerOf(h)
    OBVIOUS
  <2>6. c \in HandlerDecl /\ c.effects = {} /\ current_handler = <<c>>
    BY <1>5, <1>7, <2>2, <2>5 DEF TypeOK, IsOption
  <2>7. current_handler' = <<[c EXCEPT !.effects = names[1]]>>
    <3>1. \A x : [<<c>> EXCEPT ![1] = x] = <<x>>
      <4>1. IsOption(current_handler, HandlerDecl)
        BY DEF TypeOK
      <4> QED
        BY <1>7, <2>6, <4>1, OptionValue
    <3>2. current_handler' = [<<c>> EXCEPT ![1] = [c EXCEPT !.effects = names[1]]]
      BY <2>1, <2>6
    <3> QED
      BY <3>1, <3>2
  <2>8. [c EXCEPT !.effects = names[1]] = [on |-> c.on, effects |-> names[1], actions |-> c.actions]
    BY <2>6 DEF HandlerDecl
  <2>9. c.effects \cup names[1] = names[1]
    BY <2>6
  <2>10. current_handler' = <<HandlerOf(h)'>>
    BY <2>4, <2>5, <2>7, <2>8, <2>9
  <2>11. Parsing'
    BY <1>2, <1>4, <1>6, <1>7, <2>1, <2>2, <2>10, HandlerNext
  <2> QED
    BY <2>1, <2>11
<1>8. CASE ~ ok
  <2>1. phase' # phase
    BY <1>1, <1>2, <1>8 DEF ReadEffects, Refuse
  <2> QED
    BY <1>2, <1>6, <1>8, <2>1, Refused
<1> QED
  BY <1>7, <1>8

LEMMA StepAction ==
    ASSUME Honest, TypeOK, TypeOK', Parsing, NEW l \in DOMAIN Lines, ReadAction(l)
    PROVE  IF phase' = phase THEN Parsing' ELSE ~WellFormed'
<1> DEFINE t == Tokens[l]
<1>1. PICK action : action = parse_action(t)
  OBVIOUS
<1> DEFINE ok == current_handler # <<>> /\ action # <<>>
<1>2. text \in Seq(DOMAIN Lines) /\ text' = Append(text, l) /\ phase = "parsing" /\ Read(l)
  BY DEF TypeOK, Read, ReadAction
<1>3. Lines[l].means = IF action # <<>> THEN [kind |-> "action", action |-> action[1]]
                       ELSE [kind |-> "bad"]
  <2>1. /\ ~Comment(Lines[l].raw)
        /\ \A keyword \in Keywords \cup {"effects"} : ~StartsWith(Lines[l].raw, keyword)
    BY DEF ReadAction
  <2> QED
    BY <1>1, <2>1, LineKinds
<1>4. PICK h : h = Top
  OBVIOUS
<1>5. current_handler # <<>> <=> h \in LinesOf("on")
  BY <1>4, OpenHandler
<1>6. ok <=> Fits(Lines[l].means.kind)
  <2>1. Lines[l].means.kind = IF action # <<>> THEN "action" ELSE "bad"
    BY <1>3
  <2> QED
    BY <1>4, <1>5, <2>1 DEF Fits, Heads
<1>7. CASE ok
  <2>1. /\ services' = services /\ phase' = phase /\ current_service' = current_service
        /\ current_handler' = [current_handler EXCEPT ![1].actions = @ \o action]
    BY <1>1, <1>7 DEF ReadAction
  <2>2. h \in LinesOf("on") /\ Lines[l].means.kind = "action" /\ Lines[l].means.action = action[1]
    BY <1>3, <1>5, <1>7
  <2>3. PICK n \in Nat : n = Len(text) /\ h \in 1..n
    <3>1. LinesOf("on") \in SUBSET (1..Len(text)) /\ Len(text) \in Nat
      BY <1>2, SetsIn
    <3> QED
      BY <2>2, <3>1
  <2>4. HandlerOf(h)' = [on |-> HandlerOf(h).on, effects |-> HandlerOf(h).effects,
                         actions |-> Append(HandlerOf(h).actions, action[1])]
    BY <1>2, <1>4, <2>2, <2>3, HandlerMore
  <2>5. PICK c : c = HandlerOf(h)
    OBVIOUS
  <2>6. c \in HandlerDecl /\ current_handler = <<c>>
    <3>1. current_handler = <<c>>
      BY <1>4, <2>2, <2>5 DEF Parsing
    <3>2. current_handler \in Seq(HandlerDecl)
      BY DEF TypeOK, IsOption
    <3> QED
      BY <3>1, <3>2
  <2>7. c.actions \o action = Append(c.actions, action[1])
    <3>1. c.actions \in Seq(Action) /\ action \in Seq(Action)
      BY <1>1, <2>6, ActionType, TokensAssumption DEF HandlerDecl
    <3>2. PICK e, b : e = action[1] /\ b = c.actions
      OBVIOUS
    <3>3. action = <<e>>
      BY <1>1, <1>7, <3>2, OptionForms
    <3>4. e \in Action /\ b \in Seq(Action)
      BY <3>1, <3>2, <3>3
    <3>5. b \o <<e>> = Append(b, e)
      BY <3>4
    <3> QED
      BY <3>2, <3>3, <3>5
  <2>8. PICK a : a = Append(c.actions, action[1])
    OBVIOUS
  <2>9. current_handler' = <<[c EXCEPT !.actions = a]>>
    <3>1. \A x : [<<c>> EXCEPT ![1] = x] = <<x>>
      <4>1. IsOption(current_handler, HandlerDecl)
        BY DEF TypeOK
      <4> QED
        BY <1>7, <2>6, <4>1, OptionValue
    <3>2. current_handler' = [<<c>> EXCEPT ![1] = [c EXCEPT !.actions = a]]
      BY <2>1, <2>6, <2>7, <2>8
    <3> QED
      BY <3>1, <3>2
  <2>10. [c EXCEPT !.actions = a] = [on |-> c.on, effects |-> c.effects, actions |-> a]
    BY <2>6 DEF HandlerDecl
  <2>11. current_handler' = <<HandlerOf(h)'>>
    BY <2>4, <2>5, <2>8, <2>9, <2>10
  <2>12. Parsing'
    BY <1>2, <1>4, <1>6, <1>7, <2>1, <2>2, <2>11, HandlerNext
  <2> QED
    BY <2>1, <2>12
<1>8. CASE ~ ok
  <2>1. phase' # phase
    BY <1>1, <1>2, <1>8 DEF ReadAction, Refuse
  <2> QED
    BY <1>2, <1>6, <1>8, <2>1, Refused
<1> QED
  BY <1>7, <1>8

(* What a text says depends on the text alone. *)
LEMMA SameText ==
    ASSUME text' = text
    PROVE  /\ \A i : Means(i)' = Means(i)
           /\ \A kind : LinesOf(kind)' = LinesOf(kind)
           /\ \A kind, i : Under(kind, i)' = Under(kind, i) /\ Body(kind, i)' = Body(kind, i)
           /\ WellFormed' = WellFormed /\ Decls' = Decls
           /\ Placed' = Placed /\ \A h : Filled(h)' = Filled(h)
           /\ Top' = Top /\ \A h : HandlerOf(h)' = HandlerOf(h)
<1>1. \A i : Means(i)' = Means(i) /\ Kind(i)' = Kind(i)
  BY DEF Means, Kind
<1>2. ASSUME NEW kind PROVE LinesOf(kind)' = LinesOf(kind)
  BY <1>1 DEF LinesOf
<1>3. ASSUME NEW kinds, NEW i PROVE Latest(kinds, i)' = Latest(kinds, i)
  <2>1. {j \in 1..(i - 1) : Kind(j)' \in kinds} = {j \in 1..(i - 1) : Kind(j) \in kinds}
    BY <1>1
  <2> QED
    BY <2>1 DEF Latest
<1>4. \A i : HeadOf(i)' = HeadOf(i) /\ ServiceOf(i)' = ServiceOf(i)
  BY <1>3 DEF HeadOf, ServiceOf
<1>5. ASSUME NEW kind, NEW i
      PROVE  Under(kind, i)' = Under(kind, i) /\ Body(kind, i)' = Body(kind, i)
  BY <1>2, <1>4 DEF Under, Body
<1>6. Top' = Top
  BY <1>4 DEF Top
<1>7. \A h : Started(h)' = Started(h) /\ Filled(h)' = Filled(h)
  BY <1>5 DEF Started, Filled
<1>8. WellPlaced' = WellPlaced
  BY <1>2, <1>4 DEF WellPlaced
<1>9. Placed' = Placed
  BY <1>2, <1>6, <1>7, <1>8 DEF Placed
<1>10. ASSUME NEW i PROVE Refers(i)' = Refers(i)
  <2>1. \A S : Names(S)' = Names(S)
    BY <1>1 DEF Names
  <2> QED
    BY <1>1, <1>2, <1>4, <1>5, <2>1 DEF Refers
<1>11. ASSUME NEW h PROVE Complete(h)' = Complete(h)
  <2>1. \A S : UNION {{Means(a).action.effect}'
                         \cup (IF Means(a)'.action.guards = {} THEN {} ELSE {"state_read"}) : a \in S}
             = UNION {{Means(a).action.effect}
                         \cup (IF Means(a).action.guards = {} THEN {} ELSE {"state_read"}) : a \in S}
    BY <1>1
  <2> QED
    BY <1>1, <1>5, <2>1 DEF Complete
<1>12. WellNamed' = WellNamed
  BY <1>1, <1>2, <1>5 DEF WellNamed, Distinct
<1>13. WellFormed' = WellFormed
  BY <1>2, <1>8, <1>10, <1>11, <1>12 DEF WellFormed
<1>14. \A i : HandlerOf(i)' = HandlerOf(i)
  <2>1. \A i : EffectsOf(i)' = EffectsOf(i)
    BY <1>1, <1>5 DEF EffectsOf
  <2>2. \A i : ActionsOf(i)' = ActionsOf(i)
    BY <1>1, <1>5 DEF ActionsOf
  <2> QED
    BY <1>1, <2>1, <2>2 DEF HandlerOf
<1>15. \A i : DeclOf(i)' = DeclOf(i)
  <2>1. \A i : StatesOf(i)' = StatesOf(i)
    BY <1>1, <1>5 DEF StatesOf
  <2>2. \A i : HandlersOf(i)' = HandlersOf(i)
    BY <1>5, <1>14 DEF HandlersOf
  <2> QED
    BY <1>1, <2>1, <2>2 DEF DeclOf
<1>16. Decls' = Decls
  BY <1>2, <1>15 DEF Decls
<1> QED
  BY <1>1, <1>2, <1>5, <1>6, <1>7, <1>9, <1>13, <1>14, <1>16

LEMMA InitParsing == Init => ParserInv
<1> SUFFICES ASSUME Init PROVE Parsing /\ phase = "parsing"
  BY DEF ParserInv
<1>1. text = <<>> /\ services = <<>> /\ current_service = <<>> /\ current_handler = <<>>
      /\ phase = "parsing"
  BY DEF Init
<1>2. \A kind : LinesOf(kind) = {}
  BY <1>1 DEF LinesOf
<1>3. Decls = <<>>
  <2>1. InOrder(LinesOf("service")) = <<>>
    BY <1>2, InOrderEmpty
  <2>2. Decls = [k \in 1..Len(<<>>) |-> DeclOf(<<>>[k])]
    BY <2>1 DEF Decls
  <2>3. 1..Len(<<>>) = {}
    OBVIOUS
  <2> QED
    BY <2>2, <2>3
<1>4. Placed
  BY <1>2 DEF Placed, WellPlaced
<1> QED
  BY <1>1, <1>2, <1>3, <1>4 DEF Parsing, flush_service

(* What CanFlush and the last flush leave to EndOfFile. *)
LEMMA StepEnd ==
    ASSUME Honest, TypeOK, Parsing, EndOfFile
    PROVE  ParserInv'
<1>1. text' = text /\ phase = "parsing" /\ text \in Seq(DOMAIN Lines)
  BY DEF EndOfFile, TypeOK
<1>2. CASE CanFlush /\ flush_service # <<>>
  <2>1. services' = flush_service /\ phase' = "loading"
    BY <1>2 DEF EndOfFile
  <2>2. services' = Decls' /\ services' # <<>> /\ Placed'
    BY <1>1, <1>2, <2>1, SameText DEF Parsing
  <2>3. \A h \in LinesOf("on") : Filled(h)
    BY <1>2, CanFlushIs DEF Parsing, Placed
  <2>4. (\A h \in LinesOf("on") : Filled(h))'
    BY <1>1, <2>3, SameText
  <2> QED
    BY <2>1, <2>2, <2>4 DEF ParserInv
<1>3. CASE ~ (CanFlush /\ flush_service # <<>>)
  <2>1. phase' = "error"
    BY <1>3 DEF EndOfFile, Refuse
  <2>2. ~ WellFormed
    <3>1. CASE ~ CanFlush
      <4>1. Top \in LinesOf("on") /\ ~ Filled(Top)
        BY <3>1, CanFlushIs
      <4>2. ~ Complete(Top)
        BY <4>1 DEF Complete, Filled
      <4> QED
        BY <4>1, <4>2 DEF WellFormed
    <3>2. CASE flush_service = <<>>
      <4>1. current_service = <<>>
        <5> SUFFICES ASSUME current_service # <<>> PROVE FALSE
          OBVIOUS
        <5>1. PICK b : b = services
          OBVIOUS
        <5>2. PICK e : e = FlushedService
          OBVIOUS
        <5>3. IsSeq(b)
          BY <5>1, SeqIs DEF TypeOK
        <5>4. Len(Append(b, e)) = Len(b) + 1 /\ Len(b) \in Nat
          BY <5>3, SeqAppend
        <5>5. Append(b, e) = <<>>
          BY <3>2, <5>1, <5>2 DEF flush_service
        <5>6. Len(Append(b, e)) = 0
          BY <5>5
        <5> QED
          BY <5>4, <5>6
      <4>2. LinesOf("service") = {}
        BY <4>1 DEF Parsing
      <4> QED
        BY <4>2 DEF WellFormed
    <3> QED
      BY <1>3, <3>1, <3>2
  <2>3. ~ WellFormed'
    BY <1>1, <2>2, SameText
  <2> QED
    BY <2>1, <2>3 DEF ParserInv
<1> QED
  BY <1>2, <1>3

LEMMA StepRead ==
    ASSUME Honest, TypeOK, TypeOK', ParserInv, NEW l \in DOMAIN Lines,
           \/ ReadBlank(l) \/ ReadService(l) \/ ReadState(l)
           \/ ReadOn(l) \/ ReadEffects(l) \/ ReadAction(l)
    PROVE  ParserInv'
<1>1. phase = "parsing" /\ phase' \in {"parsing", "error"}
  BY DEF ReadBlank, ReadService, ReadState, ReadOn, ReadEffects, ReadAction, ReadKeyword, Read,
         Refuse, parser
<1>2. Parsing
  BY <1>1 DEF ParserInv
<1>3. IF phase' = phase THEN Parsing' ELSE ~WellFormed'
  <2>1. CASE ReadBlank(l)
    <3>1. phase' = phase
      BY <2>1 DEF ReadBlank
    <3> QED
      BY <1>2, <2>1, <3>1, StepBlank
  <2>2. CASE ReadService(l)
    BY <1>2, <2>2, StepService
  <2>3. CASE ReadState(l)
    BY <1>2, <2>3, StepState
  <2>4. CASE ReadOn(l)
    BY <1>2, <2>4, StepOn
  <2>5. CASE ReadEffects(l)
    BY <1>2, <2>5, StepEffects
  <2>6. CASE ReadAction(l)
    BY <1>2, <2>6, StepAction
  <2> QED
    BY <2>1, <2>2, <2>3, <2>4, <2>5, <2>6
<1> QED
  BY <1>1, <1>3 DEF ParserInv

(* The lists of the declarations, as lists of the lines they stand for. *)
Enumerates(q, S) ==
    /\ Len(q) \in Nat /\ DOMAIN q = 1..Len(q) /\ \A k \in 1..Len(q) : q[k] \in S
    /\ \A j, k \in 1..Len(q) : q[j] = q[k] => j = k
    /\ \A i \in S : \E k \in 1..Len(q) : q[k] = i

LEMMA InOrderIs ==
    ASSUME NEW n \in Nat, NEW S \in SUBSET (1..n)
    PROVE  Enumerates(InOrder(S), S)
<1>1. PICK q : q = InOrder(S)
  OBVIOUS
<1>2. Len(q) \in Nat /\ DOMAIN q = 1..Len(q)
  BY <1>1, Positions, SMTT(30), ZenonT(30)
<1>3. \A k \in 1..Len(q) : q[k] \in S
  BY <1>1, Positions, SMTT(30), ZenonT(30)
<1>4. \A j, k \in 1..Len(q) : q[j] = q[k] => j = k
  BY <1>1, Positions, SMTT(30), ZenonT(30)
<1>5. \A i \in S : \E k \in 1..Len(q) : q[k] = i
  <2>1. Lists(q, S)
    BY <1>1, InOrderLists
  <2> QED
    BY <2>1 DEF Lists
<1> QED
  BY <1>1, <1>2, <1>3, <1>4, <1>5 DEF Enumerates

(* The declarations, and the states and handlers of one, by position. *)
LEMMA DeclsAt ==
    ASSUME text \in Seq(DOMAIN Lines)
    PROVE  LET S == LinesOf("service")
               q == InOrder(S)
           IN  /\ Enumerates(q, S)
               /\ Len(Decls) = Len(q) /\ \A k \in 1..Len(q) : Decls[k] = DeclOf(q[k])
<1>1. PICK n \in Nat : n = Len(text)
  OBVIOUS
<1>2. PICK S : S = LinesOf("service")
  OBVIOUS
<1>3. PICK q : q = InOrder(S)
  OBVIOUS
<1>4. S \in SUBSET (1..n)
  BY <1>1, <1>2, SetsIn
<1>5. Enumerates(q, S)
  BY <1>3, <1>4, InOrderIs
<1>6. Decls = [k \in 1..Len(q) |-> DeclOf(q[k])] /\ Len(q) \in Nat
  BY <1>2, <1>3, <1>5 DEF Decls, Enumerates
<1>7. Len(Decls) = Len(q) /\ \A k \in 1..Len(q) : Decls[k] = DeclOf(q[k])
  BY <1>6
<1> QED
  BY <1>2, <1>3, <1>5, <1>7

LEMMA PartsAt ==
    ASSUME text \in Seq(DOMAIN Lines), NEW s
    PROVE  /\ LET S == Under("state", s)
                  q == InOrder(S)
              IN  /\ Enumerates(q, S) /\ Len(StatesOf(s)) = Len(q)
                  /\ DOMAIN StatesOf(s) = 1..Len(q)
                  /\ \A k \in 1..Len(q) :
                        StatesOf(s)[k] = [name |-> Means(q[k]).name, initial |-> Means(q[k]).initial]
           /\ LET S == Under("on", s)
                  q == InOrder(S)
              IN  /\ Enumerates(q, S) /\ Len(HandlersOf(s)) = Len(q)
                  /\ \A k \in 1..Len(q) : HandlersOf(s)[k] = HandlerOf(q[k])
           /\ LET S == Body("action", s)
                  q == InOrder(S)
              IN  /\ Enumerates(q, S) /\ DOMAIN ActionsOf(s) = 1..Len(q)
                  /\ \A k \in 1..Len(q) : ActionsOf(s)[k] = Means(q[k]).action
<1>1. PICK n \in Nat : n = Len(text)
  OBVIOUS
<1>2. \A S \in SUBSET (1..n) : Enumerates(InOrder(S), S)
  BY InOrderIs
<1>3. \A kind : Under(kind, s) \in SUBSET (1..n) /\ Body(kind, s) \in SUBSET (1..n)
  BY <1>1, SetsIn
<1>4. PICK q : q = InOrder(Under("state", s))
  OBVIOUS
<1>5. /\ Enumerates(q, Under("state", s)) /\ Len(q) \in Nat
      /\ StatesOf(s) = [k \in 1..Len(q) |->
                           [name |-> Means(q[k]).name, initial |-> Means(q[k]).initial]]
  BY <1>2, <1>3, <1>4 DEF StatesOf, Enumerates
<1>6. /\ Len(StatesOf(s)) = Len(q) /\ DOMAIN StatesOf(s) = 1..Len(q)
      /\ \A k \in 1..Len(q) :
            StatesOf(s)[k] = [name |-> Means(q[k]).name, initial |-> Means(q[k]).initial]
  BY <1>5
<1>7. PICK r : r = InOrder(Under("on", s))
  OBVIOUS
<1>8. /\ Enumerates(r, Under("on", s)) /\ Len(r) \in Nat
      /\ HandlersOf(s) = [k \in 1..Len(r) |-> HandlerOf(r[k])]
  BY <1>2, <1>3, <1>7 DEF HandlersOf, Enumerates
<1>9. Len(HandlersOf(s)) = Len(r) /\ \A k \in 1..Len(r) : HandlersOf(s)[k] = HandlerOf(r[k])
  BY <1>8
<1>10. PICK z : z = InOrder(Body("action", s))
  OBVIOUS
<1>11. /\ Enumerates(z, Body("action", s)) /\ Len(z) \in Nat
       /\ ActionsOf(s) = [k \in 1..Len(z) |-> Means(z[k]).action]
  BY <1>2, <1>3, <1>10 DEF ActionsOf, Enumerates
<1>12. DOMAIN ActionsOf(s) = 1..Len(z) /\ \A k \in 1..Len(z) : ActionsOf(s)[k] = Means(z[k]).action
  BY <1>11
<1> QED
  BY <1>4, <1>5, <1>6, <1>7, <1>8, <1>9, <1>10, <1>11, <1>12

(* Names differ on a set of lines if they do along a list of it. *)
LEMMA NamesApart ==
    ASSUME NEW S, NEW q, Enumerates(q, S), NEW f,
           \A k \in 1..Len(q) : f[k] = Means(q[k]).name
    PROVE  Distinct(S) <=> \A i, j \in 1..Len(q) : f[i] = f[j] => i = j
<1>1. ASSUME Distinct(S), NEW i \in 1..Len(q), NEW j \in 1..Len(q), f[i] = f[j]
      PROVE  i = j
  <2>1. q[i] \in S /\ q[j] \in S /\ Means(q[i]).name = Means(q[j]).name
    BY <1>1 DEF Enumerates
  <2>2. q[i] = q[j]
    BY <1>1, <2>1 DEF Distinct
  <2> QED
    BY <2>2 DEF Enumerates
<1>2. ASSUME \A i, j \in 1..Len(q) : f[i] = f[j] => i = j,
             NEW x \in S, NEW y \in S, Means(x).name = Means(y).name
      PROVE  x = y
  <2>1. PICK i \in 1..Len(q), j \in 1..Len(q) : q[i] = x /\ q[j] = y
    BY DEF Enumerates
  <2>2. f[i] = f[j]
    BY <1>2, <2>1
  <2> QED
    BY <1>2, <2>1, <2>2
<1> QED
  BY <1>1, <1>2 DEF Distinct

(* Names declared once. *)
LEMMA ServicesNamed ==
    ASSUME text \in Seq(DOMAIN Lines), services = Decls
    PROVE  Distinct(LinesOf("service"))
               <=> \A j, k \in 1..Len(services) : services[j].name = services[k].name => j = k
<1>1. PICK q : q = InOrder(LinesOf("service"))
  OBVIOUS
<1>2. /\ Enumerates(q, LinesOf("service")) /\ Len(services) = Len(q)
      /\ \A k \in 1..Len(q) : services[k].name = Means(q[k]).name
  <2>1. \A k \in 1..Len(q) : services[k] = DeclOf(q[k])
    BY <1>1, DeclsAt
  <2>2. Enumerates(q, LinesOf("service")) /\ Len(services) = Len(q)
    BY <1>1, DeclsAt
  <2>3. \A i : DeclOf(i).name = Means(i).name
    BY DEF DeclOf
  <2> QED
    BY <2>1, <2>2, <2>3
<1>3. /\ \A k \in 1..Len(q) : q[k] \in LinesOf("service")
      /\ \A j, k \in 1..Len(q) : q[j] = q[k] => j = k
      /\ \A i \in LinesOf("service") : \E k \in 1..Len(q) : q[k] = i
  BY <1>2 DEF Enumerates
<1> QED
  BY <1>2, <1>3 DEF Distinct

LEMMA StatesNamed ==
    ASSUME text \in Seq(DOMAIN Lines), NEW s
    PROVE  /\ Distinct(Under("state", s)) <=> ~Duplicate(StatesOf(s))
           /\ {StatesOf(s)[i].name : i \in DOMAIN StatesOf(s)} = Names(Under("state", s))
<1>1. PICK q : q = InOrder(Under("state", s))
  OBVIOUS
<1>2. PICK d : d = StatesOf(s)
  OBVIOUS
<1>3. /\ Enumerates(q, Under("state", s)) /\ DOMAIN d = 1..Len(q)
      /\ \A k \in 1..Len(q) : d[k].name = Means(q[k]).name
  <2>1. \A k \in 1..Len(q) : d[k] = [name |-> Means(q[k]).name, initial |-> Means(q[k]).initial]
    BY <1>1, <1>2, PartsAt
  <2>2. Enumerates(q, Under("state", s)) /\ DOMAIN d = 1..Len(q)
    BY <1>1, <1>2, PartsAt
  <2> QED
    BY <2>1, <2>2
<1>4. Distinct(Under("state", s)) <=> ~Duplicate(d)
  <2>1. PICK f : f = [k \in 1..Len(q) |-> d[k].name]
    OBVIOUS
  <2>2. \A k \in 1..Len(q) : f[k] = d[k].name
    BY <2>1
  <2>3. Distinct(Under("state", s)) <=> \A i, j \in 1..Len(q) : f[i] = f[j] => i = j
    <3>1. Enumerates(q, Under("state", s)) /\ \A k \in 1..Len(q) : f[k] = Means(q[k]).name
      BY <1>3, <2>2
    <3> QED
      BY ONLY <3>1, NamesApart
  <2> QED
    BY ONLY <1>3, <2>2, <2>3 DEF Duplicate
<1>5. {d[i].name : i \in DOMAIN d} = Names(Under("state", s))
  BY <1>3 DEF Enumerates, Names
<1> QED
  BY <1>2, <1>4, <1>5

LEMMA HandlersNamed ==
    ASSUME text \in Seq(DOMAIN Lines), NEW s
    PROVE  LET H == HandlersOf(s)
           IN  /\ Distinct(Under("on", s)) <=> \A i, j \in 1..Len(H) : H[i].on = H[j].on => i = j
               /\ {H[i].on : i \in 1..Len(H)} = Names(Under("on", s))
<1>1. PICK q : q = InOrder(Under("on", s))
  OBVIOUS
<1>2. PICK H : H = HandlersOf(s)
  OBVIOUS
<1>3. /\ Enumerates(q, Under("on", s)) /\ Len(H) = Len(q)
      /\ \A k \in 1..Len(q) : H[k].on = Means(q[k]).name
  <2>1. \A k \in 1..Len(q) : H[k] = HandlerOf(q[k])
    BY <1>1, <1>2, PartsAt
  <2>2. Enumerates(q, Under("on", s)) /\ Len(H) = Len(q)
    BY <1>1, <1>2, PartsAt
  <2>3. \A i : HandlerOf(i).on = Means(i).name
    BY DEF HandlerOf
  <2> QED
    BY <2>1, <2>2, <2>3
<1>4. Distinct(Under("on", s)) <=> \A i, j \in 1..Len(H) : H[i].on = H[j].on => i = j
  <2>1. PICK f : f = [k \in 1..Len(q) |-> H[k].on]
    OBVIOUS
  <2>2. \A k \in 1..Len(q) : f[k] = H[k].on
    BY <2>1
  <2>3. Distinct(Under("on", s)) <=> \A i, j \in 1..Len(q) : f[i] = f[j] => i = j
    <3>1. Enumerates(q, Under("on", s)) /\ \A k \in 1..Len(q) : f[k] = Means(q[k]).name
      BY <1>3, <2>2
    <3> QED
      BY ONLY <3>1, NamesApart
  <2> QED
    BY ONLY <1>3, <2>2, <2>3
<1>5. {H[i].on : i \in 1..Len(H)} = Names(Under("on", s))
  BY <1>3 DEF Enumerates, Names
<1> QED
  BY <1>2, <1>4, <1>5

(* A handler is complete if it declares the effects inferred. *)
LEMMA CompleteIs ==
    ASSUME text \in Seq(DOMAIN Lines), NEW h, Started(h), Filled(h)
    PROVE  Complete(h) <=> infer_effects(ActionsOf(h)) = EffectsOf(h)
<1>1. PICK q : q = InOrder(Body("action", h))
  OBVIOUS
<1>2. PICK a : a = ActionsOf(h)
  OBVIOUS
<1>3. /\ Enumerates(q, Body("action", h)) /\ DOMAIN a = 1..Len(q)
      /\ \A k \in 1..Len(q) : a[k] = Means(q[k]).action
  BY <1>1, <1>2, PartsAt
<1>4. infer_effects(a) = UNION {{Means(i).action.effect}
                                   \cup (IF Means(i).action.guards = {} THEN {} ELSE {"state_read"}) :
                                i \in Body("action", h)}
  <2> DEFINE E(i) == {Means(i).action.effect}
                         \cup (IF Means(i).action.guards = {} THEN {} ELSE {"state_read"})
  <2>1. infer_effects(a) = UNION {E(q[k]) : k \in 1..Len(q)}
    <3>1. \A k \in 1..Len(q) :
             (IF a[k].guards = {} THEN {} ELSE {"state_read"}) \cup {a[k].effect} = E(q[k])
      BY <1>3
    <3> HIDE DEF E
    <3>2. infer_effects(a) =
             UNION {(IF a[k].guards = {} THEN {} ELSE {"state_read"}) \cup {a[k].effect} : k \in 1..Len(q)}
      BY <1>3 DEF infer_effects
    <3>3. {(IF a[k].guards = {} THEN {} ELSE {"state_read"}) \cup {a[k].effect} : k \in 1..Len(q)}
             = {E(q[k]) : k \in 1..Len(q)}
      BY <3>1
    <3> QED
      BY <3>2, <3>3
  <2> HIDE DEF E
  <2>2. {E(q[k]) : k \in 1..Len(q)} = {E(i) : i \in Body("action", h)}
    BY <1>3 DEF Enumerates
  <2>3. infer_effects(a) = UNION {E(i) : i \in Body("action", h)}
    BY <2>1, <2>2
  <2> QED
    BY <2>3 DEF E
<1>5. PICK e : e \in Body("effects", h)
  BY DEF Filled
<1>6. /\ Body("effects", h) = {e} /\ \A i \in Body("action", h) : e < i
      /\ Body("action", h) # {}
  BY <1>5 DEF Started, Filled
<1>7. EffectsOf(h) = Means(e).names
  BY <1>6 DEF EffectsOf
<1> QED
  BY <1>2, <1>4, <1>6, <1>7 DEF Complete

(* The program in terms of the declarations. *)
Count(k) == IF k = Loaded THEN taken ELSE Len(services[k].handlers)
PlanOf(h) == [declared |-> h.effects, actions |-> h.actions]
(* plans is the map of the first c handlers of H, whose names differ. *)
HandlersLoaded(H, c, plans) ==
    /\ \A i, j \in 1..c : H[i].on = H[j].on => i = j
    /\ DOMAIN plans = {H[i].on : i \in 1..c} /\ plans = [m \in DOMAIN plans |-> plans[m]]
    /\ \A i \in 1..c : plans[H[i].on] = PlanOf(H[i])
(* Service k is in the program with its states and the handlers counted. *)
LoadedService(k) ==
    LET d == services[k]
    IN  /\ program.services[k] = d.name
        /\ ~Duplicate(d.states) /\ program.initial[d.name] = InitialState(d.states)
        /\ HandlersLoaded(d.handlers, Count(k), program.handlers[d.name])
(* The checks of load_program on one handler. *)
Valid(s, m) ==
    LET plan == program.handlers[s][m]
    IN  /\ \A i \in DOMAIN plan.actions : validate_action(s, plan.actions[i])
        /\ infer_effects(plan.actions) = plan.declared
Loads == {"loading", "checking", "loaded"}
(* The program so far is that of the services taken, the handlers          *)
(* checked are valid.                                                      *)
LoadingInv ==
    /\ program.initial = [s \in DOMAIN program.initial |-> program.initial[s]]
    /\ program.handlers = [s \in DOMAIN program.handlers |-> program.handlers[s]]
    /\ phase \in Loads => \A k \in 1..Loaded : LoadedService(k)
    /\ phase \in {"checking", "loaded"} => AllTaken /\ \A h \in checked : Valid(h[1], h[2])

(* The loader leaves the text and its declarations alone. *)
LEMMA ParserKeeps ==
    ASSUME ParserInv, text' = text, services' = services, phase \in Loads,
           phase' \in Loads \/ (phase' = "error" /\ ~WellFormed)
    PROVE  ParserInv'
<1>1. /\ services = Decls /\ services # <<>> /\ Placed
      /\ \A h \in LinesOf("on") : Filled(h)
  BY DEF ParserInv, Loads
<1>2. (/\ services = Decls /\ services # <<>> /\ Placed
       /\ \A h \in LinesOf("on") : Filled(h))'
  BY <1>1, SameText
<1>3. phase' = "error" => ~WellFormed'
  BY SameText DEF Loads
<1> QED
  BY <1>2, <1>3 DEF ParserInv, Loads

(* The services read are those of the text, their handlers complete. *)
LEMMA ServicesAre ==
    ASSUME Honest, TypeOK, ParserInv, phase \in Loads
    PROVE  /\ text \in Seq(DOMAIN Lines) /\ services = Decls /\ services # <<>> /\ Placed
           /\ \A h \in LinesOf("on") : Started(h) /\ Filled(h)
           /\ \A k \in 1..Len(services) :
                 /\ services[k] \in ServiceDecl
                 /\ services[k].handlers \in Seq(HandlerDecl)
                 /\ Len(services[k].handlers) \in Nat
                 /\ \A i \in 1..Len(services[k].handlers) : services[k].handlers[i].effects # {}
<1>1. /\ text \in Seq(DOMAIN Lines) /\ services = Decls /\ services # <<>> /\ Placed
      /\ \A h \in LinesOf("on") : Filled(h)
  BY DEF ParserInv, Loads, TypeOK
<1>2. \A h \in LinesOf("on") : Started(h)
  BY <1>1 DEF Placed
<1>3. ASSUME NEW k \in 1..Len(services)
      PROVE  /\ services[k] \in ServiceDecl
             /\ services[k].handlers \in Seq(HandlerDecl)
             /\ Len(services[k].handlers) \in Nat
             /\ \A i \in 1..Len(services[k].handlers) : services[k].handlers[i].effects # {}
  <2>1. services \in Seq(ServiceDecl)
    BY DEF TypeOK
  <2>2. services[k] \in ServiceDecl
    BY <2>1
  <2>3. services[k].handlers \in Seq(HandlerDecl)
    BY <2>2 DEF ServiceDecl
  <2>4. PICK s : services[k] = DeclOf(s)
    BY <1>1, DeclsAt
  <2>5. services[k].handlers = HandlersOf(s)
    BY <2>4 DEF DeclOf
  <2>6. PICK q : q = InOrder(Under("on", s))
    OBVIOUS
  <2>7. /\ Enumerates(q, Under("on", s)) /\ Len(HandlersOf(s)) = Len(q)
        /\ \A i \in 1..Len(q) : HandlersOf(s)[i] = HandlerOf(q[i])
    BY <1>1, <2>6, PartsAt
  <2>8. ASSUME NEW i \in 1..Len(services[k].handlers)
        PROVE  services[k].handlers[i].effects # {}
    <3>1. q[i] \in LinesOf("on") /\ services[k].handlers[i] = HandlerOf(q[i])
      BY <2>5, <2>7, <2>8 DEF Enumerates, Under
    <3>2. services[k].handlers[i].effects = EffectsOf(q[i])
      BY <3>1 DEF HandlerOf
    <3> QED
      BY <1>1, <3>1, <3>2, EmptyHandler DEF Filled
  <2> QED
    BY <2>2, <2>3, <2>8
<1> QED
  BY <1>1, <1>2, <1>3

LEMMA NoPlans == DOMAIN <<>> = {} /\ <<>> = [m \in DOMAIN <<>> |-> <<>>[m]]
OBVIOUS

(* A service more: the ones before are loaded still, and it has no plans. *)

------------------------------------------------------------------------------
(***************************************************************************)
(* The steps of the loader: what is loaded is that of the declarations,    *)
(* and a refusal is of a text that is not well formed.                     *)
(***************************************************************************)
LEMMA StepLoadService ==
    ASSUME Honest, IInv, ParserInv, LoadingInv, LoadService
    PROVE  ParserInv' /\ LoadingInv'
<1>1. PICK n \in Nat : n = Loaded
  BY DEF IInv, LoaderOK, ProgramShape, Loaded
<1>2. PICK d : d = services[n + 1]
  OBVIOUS
<1>3. /\ phase = "loading" /\ phase \in Loads /\ AllTaken /\ n < Len(services)
      /\ text' = text /\ services' = services
  BY <1>1 DEF LoadService, parser, Loads
<1>4. /\ text \in Seq(DOMAIN Lines) /\ services = Decls /\ Len(services) \in Nat
      /\ \A k \in 1..Len(services) :
            services[k] \in ServiceDecl /\ Len(services[k].handlers) \in Nat
  BY <1>3, ServicesAre DEF IInv, TypeOK
<1>5. n + 1 \in 1..Len(services) /\ 1..n \subseteq 1..Len(services)
  BY <1>3, <1>4
<1>6. \A k \in 1..n : LoadedService(k)
  BY <1>1, <1>3 DEF LoadingInv
<1>7. /\ program.services \in Seq(STRING)
      /\ DOMAIN program.initial = Range(program.services)
      /\ DOMAIN program.handlers = Range(program.services)
  BY DEF IInv, LoaderOK, ProgramShape
<1>8. Range(program.services) = {services[k].name : k \in 1..n}
  <2>1. DOMAIN program.services = 1..n
    BY <1>1, <1>7 DEF Loaded
  <2>2. \A k \in 1..n : program.services[k] = services[k].name
    BY <1>6 DEF LoadedService
  <2> QED
    BY <2>1, <2>2 DEF Range
<1>9. CASE d.name \in Range(program.services) \/ Duplicate(d.states)
  <2>1. phase' = "error" /\ UNCHANGED loader
    BY <1>1, <1>2, <1>9 DEF LoadService, Fail
  <2>2. ~ WellFormed
    <3>1. CASE d.name \in Range(program.services)
      <4>1. PICK k \in 1..n : services[k].name = services[n + 1].name
        BY <1>2, <1>8, <3>1
      <4>2. ~ Distinct(LinesOf("service"))
        BY <1>4, <1>5, <4>1, ServicesNamed
      <4> QED
        BY <4>2 DEF WellFormed, WellNamed
    <3>2. CASE Duplicate(d.states)
      <4>1. PICK s : s \in LinesOf("service") /\ d = DeclOf(s)
        BY <1>2, <1>4, <1>5, DeclsAt DEF Enumerates
      <4>2. Duplicate(StatesOf(s))
        BY <3>2, <4>1 DEF DeclOf
      <4>3. ~ Distinct(Under("state", s))
        BY <1>4, <4>2, StatesNamed
      <4> QED
        BY <4>1, <4>3 DEF WellFormed, WellNamed
    <3> QED
      BY <1>9, <3>1, <3>2
  <2>3. ParserInv'
    BY <1>3, <2>1, <2>2, ParserKeeps
  <2>4. LoadingInv'
    BY <2>1 DEF LoadingInv, Loads, loader
  <2> QED
    BY <2>3, <2>4
<1>10. CASE ~ (d.name \in Range(program.services) \/ Duplicate(d.states))
  <2>1. /\ program' = [services |-> Append(program.services, d.name),
                       initial  |-> Extend(program.initial, d.name, InitialState(d.states)),
                       handlers |-> Extend(program.handlers, d.name, <<>>)]
        /\ taken' = 0 /\ phase' = phase
    BY <1>1, <1>2, <1>10 DEF LoadService
  <2>2. /\ program'.services = Append(program.services, d.name)
        /\ program'.initial = Extend(program.initial, d.name, InitialState(d.states))
        /\ program'.handlers = Extend(program.handlers, d.name, <<>>)
    BY <2>1
  <2>3. /\ Loaded' = n + 1 /\ program'.services[n + 1] = d.name
        /\ \A k \in 1..n : program'.services[k] = program.services[k]
    <3>1. d.name \in STRING
      BY <1>2, <1>4, <1>5 DEF ServiceDecl
    <3> QED
      BY <1>1, <1>7, <2>2, <3>1 DEF Loaded
  <2>4. ASSUME NEW k \in 1..n PROVE LoadedService(k)'
    <3>1. PICK e : e = services[k]
      OBVIOUS
    <3>2. e.name \in Range(program.services) /\ e.name # d.name
      BY <1>8, <1>10, <3>1
    <3>3. program'.initial[e.name] = program.initial[e.name]
          /\ program'.handlers[e.name] = program.handlers[e.name]
      BY <1>7, <2>2, <3>2 DEF Extend
    <3>4. Count(k)' = Len(e.handlers) /\ Count(k) = Len(e.handlers)
      <4>1. k # n + 1
        OBVIOUS
      <4>2. k = n => taken = Len(e.handlers)
        BY <1>1, <1>3, <3>1 DEF AllTaken
      <4> QED
        BY <1>1, <1>3, <2>3, <3>1, <4>1, <4>2 DEF Count
    <3>5. /\ program.services[k] = e.name
          /\ ~Duplicate(e.states) /\ program.initial[e.name] = InitialState(e.states)
          /\ HandlersLoaded(e.handlers, Len(e.handlers), program.handlers[e.name])
      BY <1>6, <3>1, <3>4 DEF LoadedService
    <3> QED
      BY <1>3, <2>3, <3>1, <3>3, <3>4, <3>5 DEF LoadedService
  <2>5. LoadedService(n + 1)'
    <3>1. program'.initial[d.name] = InitialState(d.states) /\ program'.handlers[d.name] = <<>>
      BY <2>2 DEF Extend
    <3>2. Count(n + 1)' = 0
      BY <2>1, <2>3 DEF Count
    <3>3. HandlersLoaded(d.handlers, 0, <<>>)
      <4>1. 1..0 = {} /\ {d.handlers[i].on : i \in 1..0} = {}
        OBVIOUS
      <4> QED
        BY <4>1, NoPlans DEF HandlersLoaded
    <3> QED
      BY <1>2, <1>3, <1>10, <2>3, <3>1, <3>2, <3>3 DEF LoadedService
  <2>6. \A k \in 1..(n + 1) : LoadedService(k)'
    BY <2>4, <2>5
  <2>7. program'.initial = [s \in DOMAIN program'.initial |-> program'.initial[s]]
        /\ program'.handlers = [s \in DOMAIN program'.handlers |-> program'.handlers[s]]
    BY <2>2 DEF Extend
  <2>8. LoadingInv'
    BY <1>3, <2>1, <2>3, <2>6, <2>7 DEF LoadingInv
  <2>9. ParserInv'
    BY <1>3, <2>1, ParserKeeps
  <2> QED
    BY <2>8, <2>9
<1> QED
  BY <1>9, <1>10

(* A handler more: it is the first of its message type, or the text has two. *)
LEMMA StepLoadHandler ==
    ASSUME Honest, IInv, ParserInv, LoadingInv, LoadHandler
    PROVE  ParserInv' /\ LoadingInv'
<1>1. PICK n, c : n = Loaded /\ c = taken
  OBVIOUS
<1>2. /\ phase = "loading" /\ phase \in Loads /\ text' = text /\ services' = services
      /\ n \in Nat /\ n # 0 /\ n <= Len(services) /\ c \in Nat
      /\ ~ AllTaken /\ program.services \in Seq(STRING)
  <2>1. phase = "loading" /\ phase \in Loads /\ text' = text /\ services' = services /\ ~ AllTaken
    BY DEF LoadHandler, parser, Loads
  <2>2. program.services \in Seq(STRING) /\ taken \in Nat /\ Loaded <= Len(services)
    BY DEF IInv, LoaderOK, ProgramShape, Progress
  <2>3. n \in Nat
    BY <1>1, <2>2 DEF Loaded
  <2>4. n # 0
    BY <1>1, <2>1, <2>3 DEF AllTaken
  <2> QED
    BY <1>1, <2>1, <2>2, <2>3, <2>4
<1>3. /\ text \in Seq(DOMAIN Lines) /\ services = Decls /\ Len(services) \in Nat
      /\ \A k \in 1..Len(services) :
            /\ services[k] \in ServiceDecl /\ Len(services[k].handlers) \in Nat
            /\ services[k].handlers \in Seq(HandlerDecl)
            /\ \A i \in 1..Len(services[k].handlers) : services[k].handlers[i].effects # {}
  <2>1. TypeOK
    BY DEF IInv
  <2>2. Len(services) \in Nat
    BY <2>1 DEF TypeOK
  <2> QED
    BY <1>2, <2>1, <2>2, ServicesAre
<1>4. n \in 1..Len(services) /\ n \in 1..n /\ 1..n \subseteq 1..Len(services)
  BY <1>2, <1>3
<1>5. PICK d : d = services[n]
  OBVIOUS
<1>6. PICK H : H = d.handlers
  OBVIOUS
<1>7. /\ H \in Seq(HandlerDecl) /\ Len(H) \in Nat /\ c < Len(H)
      /\ \A i \in 1..Len(H) : H[i].effects # {} /\ H[i] \in HandlerDecl
  <2>1. /\ H \in Seq(HandlerDecl) /\ Len(H) \in Nat /\ \A i \in 1..Len(H) : H[i].effects # {}
    BY <1>3, <1>4, <1>5, <1>6
  <2>2. c <= Len(H) /\ c # Len(H)
    BY <1>1, <1>2, <1>5, <1>6 DEF IInv, LoaderOK, Progress, AllTaken
  <2> QED
    BY <1>2, <2>1, <2>2
<1>8. c + 1 \in 1..Len(H) /\ 1..c \subseteq 1..Len(H)
  BY <1>2, <1>7
<1>9. \A k \in 1..n : LoadedService(k)
  BY <1>1, <1>2 DEF LoadingInv
<1>10. \A k \in 1..n : program.services[k] = services[k].name
  BY <1>9 DEF LoadedService
<1>11. PICK s, h, f : s = d.name /\ h = H[c + 1] /\ f = program.handlers[s]
  OBVIOUS
<1>12. /\ s = program.services[n] /\ s \in DOMAIN program.handlers
       /\ DOMAIN program.handlers = Range(program.services)
       /\ \A k \in 1..n : k # n => services[k].name # s
  <2>1. DOMAIN program.services = 1..n /\ s = program.services[n]
    BY <1>1, <1>2, <1>4, <1>5, <1>10, <1>11 DEF Loaded
  <2>2. IsInjective(program.services) /\ DOMAIN program.handlers = Range(program.services)
    BY DEF IInv, LoaderOK, ProgramShape
  <2> QED
    BY <1>4, <1>10, <2>1, <2>2 DEF IsInjective, Range
<1>13. Count(n) = c
  BY <1>1 DEF Count
<1>14. /\ ~Duplicate(d.states) /\ program.initial[s] = InitialState(d.states)
       /\ HandlersLoaded(H, c, f)
  <2>1. LoadedService(n)
    BY <1>4, <1>9
  <2> QED
    BY <1>5, <1>6, <1>11, <1>13, <2>1 DEF LoadedService
<1>15. \A m \in DOMAIN f : f[m].declared # {}
  <2>1. ASSUME NEW i \in 1..c PROVE f[H[i].on].declared # {}
    <3>1. f[H[i].on] = PlanOf(H[i]) /\ i \in 1..Len(H)
      BY <1>8, <1>14 DEF HandlersLoaded
    <3> QED
      BY <1>7, <3>1 DEF PlanOf
  <2> QED
    BY <1>14, <2>1 DEF HandlersLoaded
<1>16. PICK plan : plan = IF h.on \in DOMAIN f THEN f[h.on] ELSE [declared |-> {}, actions |-> <<>>]
  OBVIOUS
<1>17. plan.declared # {} <=> h.on \in DOMAIN f
  BY <1>15, <1>16
<1>18. CASE h.on \in DOMAIN f
  <2>1. phase' = "error" /\ UNCHANGED loader
    <3>1. plan.declared # {}
      BY <1>17, <1>18
    <3> QED
      BY <1>1, <1>5, <1>6, <1>11, <1>12, <1>16, <3>1 DEF LoadHandler, Fail
  <2>2. PICK i \in 1..c : H[i].on = h.on
    BY <1>14, <1>18 DEF HandlersLoaded
  <2>3. i \in 1..Len(H) /\ i # c + 1
    BY <1>2, <1>8
  <2>4. PICK p : p \in LinesOf("service") /\ d = DeclOf(p)
    BY <1>3, <1>4, <1>5, DeclsAt DEF Enumerates
  <2>5. H = HandlersOf(p)
    BY <1>6, <2>4 DEF DeclOf
  <2>6. ~ Distinct(Under("on", p))
    BY <1>3, <1>8, <1>11, <2>2, <2>3, <2>5, HandlersNamed
  <2>7. ~ WellFormed
    BY <2>4, <2>6 DEF WellFormed, WellNamed
  <2>8. ParserInv'
    BY <1>2, <2>1, <2>7, ParserKeeps
  <2>9. LoadingInv'
    BY <2>1 DEF LoadingInv, Loads, loader
  <2> QED
    BY <2>8, <2>9
<1>19. CASE h.on \notin DOMAIN f
  <2>1. plan = [declared |-> {}, actions |-> <<>>]
    BY <1>16, <1>19
  <2>2. /\ program' = [program EXCEPT !.handlers[s] =
                          Extend(f, h.on, [declared |-> h.effects, actions |-> plan.actions \o h.actions])]
        /\ taken' = c + 1 /\ phase' = phase
    <3>1. ~ (plan.declared # {})
      BY <2>1
    <3> QED
      BY <1>1, <1>5, <1>6, <1>11, <1>12, <1>16, <3>1 DEF LoadHandler
  <2>3. [declared |-> h.effects, actions |-> plan.actions \o h.actions] = PlanOf(h)
    <3>1. h.actions \in Seq(Action)
      BY <1>7, <1>8, <1>11 DEF HandlerDecl
    <3>2. <<>> \o h.actions = h.actions
      BY <3>1
    <3> QED
      BY <2>1, <3>2 DEF PlanOf
  <2>4. PICK g : g = Extend(f, h.on, PlanOf(h))
    OBVIOUS
  <2>5. /\ program'.services = program.services /\ program'.initial = program.initial
        /\ program'.handlers = [program.handlers EXCEPT ![s] = g]
    <3>1. program' = [program EXCEPT !.handlers[s] = g]
      BY <2>2, <2>3, <2>4
    <3>2. program = [services |-> program.services, initial |-> program.initial,
                     handlers |-> program.handlers]
      BY DEF IInv, LoaderOK, ProgramShape
    <3> QED
      BY <3>1, <3>2
  <2>6. Loaded' = n
    BY <1>1, <2>5 DEF Loaded
  <2>7. ASSUME NEW k \in 1..n, k # n PROVE LoadedService(k)'
    <3>1. PICK e, x, b : e = services[k] /\ b = Count(k) /\ x = program.handlers[e.name]
      OBVIOUS
    <3>2. e.name # s
      BY <1>12, <2>7, <3>1
    <3>3. /\ program.services[k] = e.name
          /\ ~Duplicate(e.states) /\ program.initial[e.name] = InitialState(e.states)
          /\ HandlersLoaded(e.handlers, b, x)
      BY <1>9, <3>1 DEF LoadedService
    <3>4. program'.handlers[e.name] = x
      <4>1. e.name \in DOMAIN program.handlers
        <5>1. DOMAIN program.services = 1..n
          BY <1>1, <1>2 DEF Loaded
        <5> QED
          BY <1>10, <1>12, <3>1, <5>1 DEF Range
      <4> QED
        BY <2>5, <3>1, <3>2, <4>1
    <3>5. Count(k)' = b
      BY <1>1, <1>2, <2>6, <2>7, <3>1 DEF Count
    <3>6. /\ services'[k] = e /\ program'.services[k] = e.name
          /\ program'.initial[e.name] = InitialState(e.states)
      BY <1>2, <2>5, <3>1, <3>3
    <3> QED
      BY <3>3, <3>4, <3>5, <3>6 DEF LoadedService
  <2>8. LoadedService(n)'
    <3>1. program'.handlers[s] = g
      BY <1>12, <2>5
    <3>2. Count(n)' = c + 1
      BY <2>2, <2>6 DEF Count
    <3>3. \A i \in 1..(c + 1) : i \in 1..c \/ i = c + 1
      BY <1>2
    <3>4. \A i \in 1..c : H[i].on \in DOMAIN f
      BY <1>14 DEF HandlersLoaded
    <3>5. \A i, j \in 1..(c + 1) : H[i].on = H[j].on => i = j
      BY <1>11, <1>14, <1>19, <3>3, <3>4 DEF HandlersLoaded
    <3>6. DOMAIN g = {H[i].on : i \in 1..(c + 1)} /\ g = [m \in DOMAIN g |-> g[m]]
      <4>1. DOMAIN f = {H[i].on : i \in 1..c}
        BY <1>14 DEF HandlersLoaded
      <4>2. {H[i].on : i \in 1..(c + 1)} = {H[i].on : i \in 1..c} \cup {H[c + 1].on}
        <5>1. 1..(c + 1) = 1..c \cup {c + 1}
          BY <1>2
        <5> QED
          BY <5>1
      <4> QED
        BY <1>11, <2>4, <4>1, <4>2 DEF Extend
    <3>7. \A i \in 1..(c + 1) : g[H[i].on] = PlanOf(H[i])
      <4>1. \A i \in 1..c : H[i].on # h.on /\ H[i].on \in DOMAIN f
        BY <1>19, <3>4
      <4> QED
        BY <1>11, <1>14, <2>4, <3>3, <4>1 DEF Extend, HandlersLoaded
    <3>8. HandlersLoaded(H, c + 1, g)
      BY <3>5, <3>6, <3>7 DEF HandlersLoaded
    <3> QED
      BY <1>2, <1>5, <1>6, <1>11, <1>12, <1>14, <2>5, <3>1, <3>2, <3>8 DEF LoadedService
  <2>9. \A k \in 1..n : LoadedService(k)'
    BY <2>7, <2>8
  <2>10. /\ program'.initial = [x \in DOMAIN program'.initial |-> program'.initial[x]]
         /\ program'.handlers = [x \in DOMAIN program'.handlers |-> program'.handlers[x]]
    BY <2>5 DEF LoadingInv
  <2>11. LoadingInv'
    BY <1>2, <2>2, <2>6, <2>9, <2>10 DEF LoadingInv
  <2>12. ParserInv'
    BY <1>2, <2>2, ParserKeeps
  <2> QED
    BY <2>11, <2>12
<1> QED
  BY <1>18, <1>19

(* Every service of the text in the program, once all are loaded. *)
LEMMA ServiceLoaded ==
    ASSUME Honest, IInv, ParserInv, LoadingInv, phase \in {"checking", "loaded"},
           NEW p \in LinesOf("service")
    PROVE  LET s == Means(p).name
               H == HandlersOf(p)
               plans == program.handlers[s]
           IN  /\ s \in Range(program.services)
               /\ ~Duplicate(StatesOf(p)) /\ program.initial[s] = InitialState(StatesOf(p))
               /\ HandlersLoaded(H, Len(H), plans)
<1>1. /\ text \in Seq(DOMAIN Lines) /\ services = Decls
      /\ \A k \in 1..Len(services) : Len(services[k].handlers) \in Nat
  BY ServicesAre DEF IInv, Loads
<1>2. PICK q : q = InOrder(LinesOf("service"))
  OBVIOUS
<1>3. /\ Enumerates(q, LinesOf("service")) /\ Len(services) = Len(q)
      /\ \A k \in 1..Len(q) : services[k] = DeclOf(q[k])
  BY <1>1, <1>2, DeclsAt
<1>4. PICK k \in 1..Len(q) : q[k] = p
  BY <1>3 DEF Enumerates
<1>5. PICK d : d = services[k]
  OBVIOUS
<1>6. Loaded = Len(services) /\ AllTaken /\ program.services \in Seq(STRING)
  BY DEF IInv, LoaderOK, Progress, ProgramShape, LoadingInv
<1>7. k \in 1..Loaded
  BY <1>3, <1>6
<1>8. LoadedService(k)
  BY <1>7 DEF LoadingInv, Loads
<1>9. /\ program.services[k] = d.name
      /\ ~Duplicate(d.states) /\ program.initial[d.name] = InitialState(d.states)
      /\ HandlersLoaded(d.handlers, Count(k), program.handlers[d.name])
  BY <1>5, <1>8 DEF LoadedService
<1>13. Count(k) = Len(d.handlers)
  BY <1>5, <1>6, <1>7 DEF Count, AllTaken
<1>14. d.name = Means(p).name /\ d.states = StatesOf(p) /\ d.handlers = HandlersOf(p)
  <2>1. d = DeclOf(p)
    BY <1>3, <1>4, <1>5
  <2> QED
    BY <2>1 DEF DeclOf
<1>15. d.name \in Range(program.services)
  BY <1>6, <1>7, <1>9 DEF Range, Loaded
<1> QED
  BY <1>9, <1>13, <1>14, <1>15

(* The services of the program are those of the text. *)
LEMMA ServiceNames ==
    ASSUME Honest, IInv, ParserInv, LoadingInv, phase \in {"checking", "loaded"}
    PROVE  Range(program.services) = Names(LinesOf("service")) /\ Distinct(LinesOf("service"))
<1>1. text \in Seq(DOMAIN Lines) /\ services = Decls
  BY ServicesAre DEF IInv, Loads
<1>2. PICK q : q = InOrder(LinesOf("service"))
  OBVIOUS
<1>3. /\ Enumerates(q, LinesOf("service")) /\ Len(services) = Len(q)
      /\ \A k \in 1..Len(q) : services[k] = DeclOf(q[k])
  BY <1>1, <1>2, DeclsAt
<1>4. /\ Loaded = Len(services) /\ program.services \in Seq(STRING)
      /\ IsInjective(program.services)
  BY DEF IInv, LoaderOK, Progress, ProgramShape
<1>5. DOMAIN program.services = 1..Len(q)
  BY <1>3, <1>4 DEF Loaded
<1>6. ASSUME NEW k \in 1..Len(q)
      PROVE  program.services[k] = Means(q[k]).name /\ services[k].name = Means(q[k]).name
  <2>1. LoadedService(k)
    BY <1>3, <1>4 DEF LoadingInv, Loads
  <2>2. services[k].name = Means(q[k]).name
    <3>1. services[k] = DeclOf(q[k])
      BY <1>3
    <3> QED
      BY <3>1 DEF DeclOf
  <2> QED
    BY <2>1, <2>2 DEF LoadedService
<1>7. Range(program.services) = Names(LinesOf("service"))
  BY <1>3, <1>5, <1>6 DEF Range, Names, Enumerates
<1>8. \A j, k \in 1..Len(services) : services[j].name = services[k].name => j = k
  BY <1>3, <1>4, <1>5, <1>6 DEF IsInjective
<1>9. Distinct(LinesOf("service"))
  BY <1>1, <1>8, ServicesNamed
<1> QED
  BY <1>7, <1>9

(* The service a handler belongs to, and its place there. *)
LEMMA HandlerAt ==
    ASSUME text \in Seq(DOMAIN Lines), WellPlaced, NEW h \in LinesOf("on")
    PROVE  LET p == ServiceOf(h)
           IN  /\ p \in LinesOf("service") /\ h \in Under("on", p)
               /\ \E i \in 1..Len(HandlersOf(p)) : HandlersOf(p)[i] = HandlerOf(h)
<1>1. PICK p : p = ServiceOf(h)
  OBVIOUS
<1>2. h \in 1..(Len(text) + 1)
  BY DEF LinesOf
<1>3. p \in LinesOf("service") /\ h \in Under("on", p)
  BY <1>1, <1>2, HeadService DEF WellPlaced, Under
<1>4. PICK q : q = InOrder(Under("on", p))
  OBVIOUS
<1>5. /\ Enumerates(q, Under("on", p)) /\ Len(HandlersOf(p)) = Len(q)
      /\ \A k \in 1..Len(q) : HandlersOf(p)[k] = HandlerOf(q[k])
  BY <1>4, PartsAt
<1>6. \E i \in 1..Len(HandlersOf(p)) : HandlersOf(p)[i] = HandlerOf(h)
  BY <1>3, <1>5 DEF Enumerates
<1> QED
  BY <1>1, <1>3, <1>6

(* An action is of the service of its handler. *)
LEMMA ActionAt ==
    ASSUME text \in Seq(DOMAIN Lines), NEW h \in LinesOf("on"), NEW i \in Body("action", h)
    PROVE  ServiceOf(i) = ServiceOf(h)
<1>1. i \in 1..(Len(text) + 1) /\ HeadOf(i) = h
  BY DEF Body, LinesOf
<1> QED
  BY <1>1, HeadService

(* What the checks of load_program say of an action of the text. *)
LEMMA RefersIs ==
    ASSUME Honest, IInv, ParserInv, LoadingInv, phase \in {"checking", "loaded"},
           NEW h \in LinesOf("on"), NEW i \in Body("action", h), Means(i).action \in Action
    PROVE  validate_action(Means(ServiceOf(h)).name, Means(i).action) <=> Refers(i)
<1>1. text \in Seq(DOMAIN Lines) /\ WellPlaced
  BY ServicesAre DEF IInv, Loads, Placed
<1>2. PICK p : p = ServiceOf(h)
  OBVIOUS
<1>3. p \in LinesOf("service") /\ ServiceOf(i) = p
  BY <1>1, <1>2, HandlerAt, ActionAt
<1>4. PICK a : a = Means(i).action
  OBVIOUS
<1>5. DOMAIN program.initial[Means(p).name] = Names(Under("state", p))
  <2>1. program.initial[Means(p).name] = InitialState(StatesOf(p))
    BY <1>3, ServiceLoaded
  <2>2. DOMAIN InitialState(StatesOf(p)) = {StatesOf(p)[k].name : k \in DOMAIN StatesOf(p)}
    BY DEF InitialState
  <2> QED
    BY <1>1, <2>1, <2>2, StatesNamed
<1>6. Range(program.services) = Names(LinesOf("service"))
  BY ServiceNames
<1>7. a.effect \in TimerEffects => a.effect \in SendEffects /\ a.steps # 0
  BY <1>4 DEF Action, SendEffects, TimerEffects
<1> QED
  BY <1>2, <1>3, <1>4, <1>5, <1>6, <1>7 DEF validate_action, Refers

(* A handler of the text in the program, and what its check says.          *)
LEMMA HandlerChecked ==
    ASSUME Honest, IInv, ParserInv, LoadingInv, phase \in {"checking", "loaded"},
           NEW h \in LinesOf("on")
    PROVE  LET s == Means(ServiceOf(h)).name
               m == Means(h).name
           IN  /\ <<s, m>> \in Handlers
               /\ program.handlers[s][m] = [declared |-> EffectsOf(h), actions |-> ActionsOf(h)]
               /\ Valid(s, m) <=> Complete(h) /\ \A i \in Body("action", h) : Refers(i)
<1>1. /\ text \in Seq(DOMAIN Lines) /\ services = Decls /\ Placed /\ Started(h) /\ Filled(h)
      /\ \A k \in 1..Len(services) : services[k] \in ServiceDecl
  BY ServicesAre DEF IInv, Loads
<1>2. PICK p, s, m : p = ServiceOf(h) /\ s = Means(p).name /\ m = Means(h).name
  OBVIOUS
<1>3. p \in LinesOf("service") /\ h \in Under("on", p)
  BY <1>1, <1>2, HandlerAt DEF Placed
<1>4. PICK H : H = HandlersOf(p)
  OBVIOUS
<1>5. PICK j \in 1..Len(H) : H[j] = HandlerOf(h)
  BY <1>1, <1>2, <1>4, HandlerAt DEF Placed
<1>6. PICK x : x = program.handlers[s]
  OBVIOUS
<1>7. s \in Range(program.services) /\ HandlersLoaded(H, Len(H), x)
  BY <1>2, <1>3, <1>4, <1>6, ServiceLoaded
<1>8. /\ H[j].on = m /\ H[j].effects = EffectsOf(h) /\ H[j].actions = ActionsOf(h)
  BY <1>2, <1>5 DEF HandlerOf
<1>9. m \in DOMAIN x /\ x[m] = [declared |-> EffectsOf(h), actions |-> ActionsOf(h)]
  <2>1. m \in DOMAIN x
    BY <1>7, <1>8 DEF HandlersLoaded
  <2>2. x[m] = PlanOf(H[j])
    BY <1>7, <1>8 DEF HandlersLoaded
  <2> QED
    BY <1>8, <2>1, <2>2 DEF PlanOf
<1>10. <<s, m>> \in Handlers
  <2>1. s \in DOMAIN program.handlers
    BY <1>7 DEF IInv, LoaderOK, ProgramShape
  <2> QED
    BY <1>6, <1>9, <2>1 DEF Handlers
<1>11. ActionsOf(h) \in Seq(Action)
  <2>1. PICK k \in 1..Len(services) : services[k] = DeclOf(p)
    BY <1>1, <1>3, DeclsAt DEF Enumerates
  <2>2. H \in Seq(HandlerDecl)
    BY <1>1, <1>4, <2>1 DEF DeclOf, ServiceDecl
  <2>3. H[j] \in HandlerDecl
    BY <2>2
  <2> QED
    BY <1>8, <2>3 DEF HandlerDecl
<1>12. PICK q : q = InOrder(Body("action", h))
  OBVIOUS
<1>13. PICK a : a = ActionsOf(h)
  OBVIOUS
<1>14. /\ Enumerates(q, Body("action", h)) /\ DOMAIN a = 1..Len(q)
       /\ \A k \in 1..Len(q) : a[k] = Means(q[k]).action
  BY <1>1, <1>12, <1>13, PartsAt
<1>15. (\A k \in DOMAIN a : validate_action(s, a[k])) <=> \A i \in Body("action", h) : Refers(i)
  <2>1. ASSUME NEW i \in Body("action", h) PROVE validate_action(s, Means(i).action) <=> Refers(i)
    <3>1. PICK k \in 1..Len(q) : q[k] = i
      BY <1>14 DEF Enumerates
    <3>2. Means(i).action \in Action
      BY <1>11, <1>13, <1>14, <3>1
    <3> QED
      BY <1>2, <3>2, RefersIs
  <2> QED
    BY <1>14, <2>1 DEF Enumerates
<1>16. infer_effects(a) = EffectsOf(h) <=> Complete(h)
  BY <1>1, <1>13, CompleteIs
<1>17. program.handlers[s][m] = [declared |-> EffectsOf(h), actions |-> a]
  BY <1>6, <1>9, <1>13
<1>18. Valid(s, m) <=> Complete(h) /\ \A i \in Body("action", h) : Refers(i)
  BY <1>15, <1>16, <1>17 DEF Valid
<1> QED
  BY <1>2, <1>10, <1>13, <1>17, <1>18

(* Every plan of the program is that of a handler of the text. *)
LEMMA HandlersAre ==
    ASSUME Honest, IInv, ParserInv, LoadingInv, phase \in {"checking", "loaded"},
           NEW x \in Handlers
    PROVE  \E h \in LinesOf("on") : x = <<Means(ServiceOf(h)).name, Means(h).name>>
<1>1. text \in Seq(DOMAIN Lines)
  BY ServicesAre DEF IInv, Loads
<1>2. PICK s, m : x = <<s, m>> /\ s \in DOMAIN program.handlers /\ m \in DOMAIN program.handlers[s]
  BY DEF Handlers
<1>3. s \in Names(LinesOf("service"))
  BY <1>2, ServiceNames DEF IInv, LoaderOK, ProgramShape
<1>4. PICK p \in LinesOf("service") : Means(p).name = s
  BY <1>3 DEF Names
<1>5. PICK H : H = HandlersOf(p)
  OBVIOUS
<1>6. HandlersLoaded(H, Len(H), program.handlers[s])
  BY <1>4, <1>5, ServiceLoaded
<1>7. m \in {H[i].on : i \in 1..Len(H)}
  BY <1>2, <1>6 DEF HandlersLoaded
<1>8. m \in Names(Under("on", p))
  BY <1>1, <1>5, <1>7, HandlersNamed
<1>9. PICK h \in Under("on", p) : Means(h).name = m
  BY <1>8 DEF Names
<1> QED
  BY <1>2, <1>4, <1>9 DEF Under

LEMMA StepAllLoaded ==
    ASSUME Honest, IInv, ParserInv, LoadingInv, AllLoaded
    PROVE  ParserInv' /\ LoadingInv'
<1>1. /\ phase = "loading" /\ phase \in Loads /\ AllTaken /\ phase' = "checking"
      /\ UNCHANGED <<program, taken, checked, text, services>>
  BY DEF AllLoaded, parser, loader, Loads
<1>2. checked = {}
  BY <1>1 DEF IInv, LoaderOK, CheckedAreRunnable
<1>3. Loaded' = Loaded /\ AllTaken'
  BY <1>1 DEF Loaded, AllTaken
<1>4. \A k : LoadedService(k)' = LoadedService(k)
  BY <1>1, <1>3 DEF LoadedService, Count
<1>5. LoadingInv'
  BY <1>1, <1>2, <1>3, <1>4 DEF LoadingInv
<1>6. ParserInv'
  BY <1>1, ParserKeeps DEF Loads
<1> QED
  BY <1>5, <1>6

LEMMA StepCheck ==
    ASSUME Honest, IInv, ParserInv, LoadingInv, NEW x \in Handlers, CheckHandler(x[1], x[2])
    PROVE  ParserInv' /\ LoadingInv'
<1>1. phase = "checking" /\ phase \in Loads /\ text' = text /\ services' = services
  BY DEF CheckHandler, parser, Loads
<1>2. CASE Valid(x[1], x[2])
  <2>1. checked' = checked \cup {<<x[1], x[2]>>} /\ UNCHANGED <<phase, program, taken>>
    BY <1>2 DEF CheckHandler, Valid
  <2>2. Loaded' = Loaded /\ (AllTaken' <=> AllTaken)
    BY <1>1, <2>1 DEF Loaded, AllTaken
  <2>3. \A k : LoadedService(k)' = LoadedService(k)
    BY <1>1, <2>1, <2>2 DEF LoadedService, Count
  <2>4. \A s, m : Valid(s, m)' = Valid(s, m)
    BY <2>1 DEF Valid, validate_action
  <2>5. \A h \in checked' : Valid(h[1], h[2])
    BY <1>1, <1>2, <2>1 DEF LoadingInv
  <2>6. LoadingInv'
    BY <1>1, <2>1, <2>2, <2>3, <2>4, <2>5 DEF LoadingInv
  <2>7. ParserInv'
    BY <1>1, <2>1, ParserKeeps
  <2> QED
    BY <2>6, <2>7
<1>3. CASE ~ Valid(x[1], x[2])
  <2>1. phase' = "error" /\ UNCHANGED loader
    BY <1>3 DEF CheckHandler, Valid, Fail
  <2>2. PICK h \in LinesOf("on") : x = <<Means(ServiceOf(h)).name, Means(h).name>>
    BY <1>1, HandlersAre
  <2>3. ~ (Complete(h) /\ \A i \in Body("action", h) : Refers(i))
    BY <1>1, <1>3, <2>2, HandlerChecked
  <2>4. ~ WellFormed
    BY <2>3 DEF WellFormed, Body
  <2>5. ParserInv'
    BY <1>1, <2>1, <2>4, ParserKeeps
  <2>6. LoadingInv'
    BY <2>1 DEF LoadingInv, Loads, loader
  <2> QED
    BY <2>5, <2>6
<1> QED
  BY <1>2, <1>3

LEMMA StepAllChecked ==
    ASSUME Honest, IInv, ParserInv, LoadingInv, AllChecked
    PROVE  ParserInv' /\ LoadingInv'
<1>1. /\ phase = "checking" /\ phase \in Loads /\ phase' = "loaded"
      /\ UNCHANGED <<program, taken, checked, text, services>>
  BY DEF AllChecked, parser, loader, Loads
<1>2. Loaded' = Loaded /\ (AllTaken' <=> AllTaken)
  BY <1>1 DEF Loaded, AllTaken
<1>3. \A k : LoadedService(k)' = LoadedService(k)
  BY <1>1, <1>2 DEF LoadedService, Count
<1>4. \A s, m : Valid(s, m)' = Valid(s, m)
  BY <1>1 DEF Valid, validate_action
<1>5. LoadingInv'
  BY <1>1, <1>2, <1>3, <1>4 DEF LoadingInv, Loads
<1>6. ParserInv'
  BY <1>1, ParserKeeps DEF Loads
<1> QED
  BY <1>5, <1>6

(* Before the loading, nothing is loaded. *)
LEMMA NotLoading ==
    ASSUME IInv, LoadingInv, phase = "parsing", UNCHANGED <<program, taken, checked>>,
           phase' \in {"parsing", "loading", "error"}
    PROVE  LoadingInv'
<1>1. Loaded = 0 /\ Loaded' = 0
  BY DEF IInv, LoaderOK, Progress, Loaded
<1>2. 1..0 = {}
  OBVIOUS
<1> QED
  BY <1>1, <1>2 DEF LoadingInv, Loads

LEMMA StillInv ==
    ASSUME ParserInv, LoadingInv, UNCHANGED vars
    PROVE  ParserInv' /\ LoadingInv'
<1>1. UNCHANGED <<text, phase, services, current_service, current_handler, program, taken, checked>>
  BY DEF vars, parser, loader
<1>2. Loaded' = Loaded /\ (AllTaken' <=> AllTaken)
  BY <1>1 DEF Loaded, AllTaken
<1>3. \A k : LoadedService(k)' = LoadedService(k)
  BY <1>1, <1>2 DEF LoadedService, Count
<1>4. \A s, m : Valid(s, m)' = Valid(s, m)
  BY <1>1 DEF Valid, validate_action
<1>5. LoadingInv'
  BY <1>1, <1>2, <1>3, <1>4 DEF LoadingInv
<1>6. flush_service' = flush_service
  BY <1>1 DEF flush_service, FlushedService
<1>7. Parsing' = Parsing
  <2>1. Top' = Top /\ \A h : HandlerOf(h)' = HandlerOf(h)
    BY <1>1, SameText
  <2> QED
    BY <1>1, <1>6, <2>1, SameText DEF Parsing
<1>8. ParserInv'
  BY <1>1, <1>7, SameText DEF ParserInv
<1> QED
  BY <1>5, <1>8

(* The inductive invariant of the two theorems. *)
LoadInv == IInv /\ ParserInv /\ LoadingInv

LEMMA InitLoadInv == Honest /\ Init => LoadInv
<1> SUFFICES ASSUME Init PROVE LoadInv
  OBVIOUS
<1>1. IInv /\ ParserInv
  BY InitTypeOK, InitLoaderOK, InitParsing DEF IInv
<1>2. program = [services |-> <<>>, initial |-> <<>>, handlers |-> <<>>] /\ phase = "parsing"
  BY DEF Init
<1>3. LoadingInv
  BY <1>2, NoPlans DEF LoadingInv, Loads
<1> QED
  BY <1>1, <1>3 DEF LoadInv

LEMMA LoadInvStep == Honest /\ LoadInv /\ [Next]_vars => LoadInv'
<1> SUFFICES ASSUME Honest, LoadInv, [Next]_vars PROVE LoadInv'
  OBVIOUS
<1>1. IInv /\ ParserInv /\ LoadingInv /\ TypeOK
  BY DEF LoadInv, IInv
<1>2. IInv' /\ TypeOK'
  BY <1>1, TypeStep, LoaderStep DEF IInv
<1>3. ASSUME NEW l \in DOMAIN Lines,
             \/ ReadBlank(l) \/ ReadService(l) \/ ReadState(l)
             \/ ReadOn(l) \/ ReadEffects(l) \/ ReadAction(l)
      PROVE  ParserInv' /\ LoadingInv'
  <2>1. phase = "parsing" /\ UNCHANGED <<program, taken, checked>> /\ phase' \in {"parsing", "error"}
    BY <1>3 DEF ReadBlank, ReadService, ReadState, ReadOn, ReadEffects, ReadAction, ReadKeyword,
                Read, Refuse, parser, loader
  <2> QED
    BY <1>1, <1>2, <1>3, <2>1, StepRead, NotLoading
<1>4. CASE EndOfFile
  <2>1. phase = "parsing" /\ UNCHANGED <<program, taken, checked>> /\ phase' \in {"loading", "error"}
    BY <1>4 DEF EndOfFile, Refuse, loader
  <2>2. Parsing
    BY <1>1, <2>1 DEF ParserInv
  <2> QED
    BY <1>1, <1>2, <1>4, <2>1, <2>2, StepEnd, NotLoading DEF LoadInv
<1>5. CASE Finished \/ UNCHANGED vars
  BY <1>1, <1>2, <1>5, StillInv DEF Finished, LoadInv
<1>6. ASSUME NEW h \in Handlers, CheckHandler(h[1], h[2]) PROVE LoadInv'
  BY <1>1, <1>2, <1>6, StepCheck DEF LoadInv
<1>7. CASE LoadService
  BY <1>1, <1>2, <1>7, StepLoadService DEF LoadInv
<1>8. CASE LoadHandler
  BY <1>1, <1>2, <1>8, StepLoadHandler DEF LoadInv
<1>9. CASE AllLoaded
  BY <1>1, <1>2, <1>9, StepAllLoaded DEF LoadInv
<1>10. CASE AllChecked
  BY <1>1, <1>2, <1>10, StepAllChecked DEF LoadInv
<1> QED
  BY <1>2, <1>3, <1>4, <1>5, <1>6, <1>7, <1>8, <1>9, <1>10 DEF Next, LoadInv

(* A program loaded is that of a well-formed text. *)
LEMMA LoadedIsWellFormed ==
    ASSUME Honest, LoadInv, phase = "loaded"
    PROVE  WellFormed
<1>1. IInv /\ ParserInv /\ LoadingInv /\ phase \in {"checking", "loaded"} /\ phase \in Loads
  BY DEF LoadInv, Loads
<1>2. /\ text \in Seq(DOMAIN Lines) /\ services = Decls /\ services # <<>> /\ Placed
      /\ \A h \in LinesOf("on") : Started(h) /\ Filled(h)
  BY <1>1, ServicesAre DEF IInv
<1>3. LinesOf("bad") = {} /\ WellPlaced
  BY <1>2 DEF Placed
<1>4. LinesOf("service") # {}
  <2> SUFFICES ASSUME LinesOf("service") = {} PROVE FALSE
    OBVIOUS
  <2>1. InOrder(LinesOf("service")) = <<>>
    BY InOrderEmpty
  <2>2. Decls = [k \in 1..Len(<<>>) |-> DeclOf(<<>>[k])]
    BY <2>1 DEF Decls
  <2>3. 1..Len(<<>>) = {}
    OBVIOUS
  <2>4. Decls = <<>>
    BY <2>2, <2>3
  <2> QED
    BY <1>2, <2>4
<1>5. Distinct(LinesOf("service"))
  BY <1>1, ServiceNames
<1>6. ASSUME NEW p \in LinesOf("service")
      PROVE  Distinct(Under("state", p)) /\ Distinct(Under("on", p))
  <2>1. PICK H : H = HandlersOf(p)
    OBVIOUS
  <2>2. ~Duplicate(StatesOf(p)) /\ HandlersLoaded(H, Len(H), program.handlers[Means(p).name])
    BY <1>1, <2>1, ServiceLoaded
  <2>3. \A i, j \in 1..Len(H) : H[i].on = H[j].on => i = j
    BY <2>2 DEF HandlersLoaded
  <2> QED
    BY <1>2, <2>1, <2>2, <2>3, StatesNamed, HandlersNamed
<1>7. WellNamed
  BY <1>5, <1>6 DEF WellNamed
<1>8. ASSUME NEW h \in LinesOf("on")
      PROVE  Complete(h) /\ \A i \in Body("action", h) : Refers(i)
  <2>1. PICK s, m : s = Means(ServiceOf(h)).name /\ m = Means(h).name
    OBVIOUS
  <2>2. <<s, m>> \in Handlers
        /\ (Valid(s, m) <=> Complete(h) /\ \A i \in Body("action", h) : Refers(i))
    BY <1>1, <2>1, HandlerChecked
  <2>3. <<s, m>> \in checked
    BY <1>1, <2>2 DEF IInv, LoaderOK, CheckedAreRunnable
  <2>4. PICK x \in checked : x = <<s, m>>
    BY <2>3
  <2>5. Valid(x[1], x[2])
    BY <1>1 DEF LoadingInv
  <2> QED
    BY <2>2, <2>4, <2>5
<1>9. ASSUME NEW i \in LinesOf("action") PROVE Refers(i)
  <2>1. HeadOf(i) \in LinesOf("on") /\ i \in Body("action", HeadOf(i))
    BY <1>3 DEF WellPlaced, Body
  <2> QED
    BY <1>8, <2>1
<1> QED
  BY <1>3, <1>4, <1>7, <1>8, <1>9 DEF WellFormed

(* A text is accepted exactly if it is well formed: whatever the lines, as *)
(* long as they mean what they say, and in whatever order the handlers are *)
(* checked.                                                                *)
THEOREM TextsJudged == Honest => (Spec => []VerdictExact)
<1> SUFFICES ASSUME Honest PROVE Spec => []VerdictExact
  OBVIOUS
<1>1. Init => LoadInv
  BY InitLoadInv
<1>2. LoadInv /\ [Next]_vars => LoadInv'
  BY LoadInvStep
<1>3. LoadInv => VerdictExact
  BY LoadedIsWellFormed DEF VerdictExact, LoadInv, ParserInv
<1> QED
  BY <1>1, <1>2, <1>3, PTL DEF Spec

------------------------------------------------------------------------------
(***************************************************************************)
(* The program written.                                                    *)
(***************************************************************************)
At(name, S) == CHOOSE i \in S : Means(i).name = name
WrittenState(p) ==
    [x \in Names(Under("state", p)) |-> Means(At(x, Under("state", p))).initial]
WrittenPlan(h) ==
    LET body == InOrder(Body("action", h))
    IN  [declared |-> UNION {Means(e).names : e \in Body("effects", h)},
         actions  |-> [k \in DOMAIN body |-> Means(body[k]).action]]
WrittenPlans(p) == [m \in Names(Under("on", p)) |-> WrittenPlan(At(m, Under("on", p)))]

LEMMA WrittenIs ==
    LET S == LinesOf("service")
    IN  Written = [services |-> [k \in DOMAIN InOrder(S) |-> Means(InOrder(S)[k]).name],
                   initial  |-> [s \in Names(S) |-> WrittenState(At(s, S))],
                   handlers |-> [s \in Names(S) |-> WrittenPlans(At(s, S))]]
BY DEF Written, WrittenState, WrittenPlans, WrittenPlan, At

(* The line of a name. *)
LEMMA AtIs ==
    /\ \A S : \A name \in Names(S) : At(name, S) \in S /\ Means(At(name, S)).name = name
    /\ \A S : Distinct(S) => \A i \in S : At(Means(i).name, S) = i
<1>1. ASSUME NEW S, NEW name \in Names(S)
      PROVE  At(name, S) \in S /\ Means(At(name, S)).name = name
  <2>1. \E i \in S : Means(i).name = name
    BY DEF Names
  <2> QED
    BY <2>1 DEF At
<1>2. ASSUME NEW S, Distinct(S), NEW i \in S PROVE At(Means(i).name, S) = i
  <2>1. Means(i).name \in Names(S)
    BY DEF Names
  <2>2. At(Means(i).name, S) \in S /\ Means(At(Means(i).name, S)).name = Means(i).name
    BY <1>1, <2>1
  <2> QED
    BY <1>2, <2>2 DEF Distinct
<1> QED
  BY <1>1, <1>2

LEMMA StateWritten ==
    ASSUME text \in Seq(DOMAIN Lines), NEW p, Distinct(Under("state", p))
    PROVE  InitialState(StatesOf(p)) = WrittenState(p)
<1>1. PICK S, d : S = Under("state", p) /\ d = StatesOf(p)
  OBVIOUS
<1>2. PICK q : q = InOrder(S)
  OBVIOUS
<1>3. /\ Enumerates(q, S) /\ DOMAIN d = 1..Len(q)
      /\ \A k \in 1..Len(q) : d[k] = [name |-> Means(q[k]).name, initial |-> Means(q[k]).initial]
  BY <1>1, <1>2, PartsAt
<1>4. {d[i].name : i \in DOMAIN d} = Names(S)
  BY <1>1, StatesNamed
<1>5. ASSUME NEW x \in Names(S)
      PROVE  d[CHOOSE i \in DOMAIN d : d[i].name = x].initial = Means(At(x, S)).initial
  <2>1. \E i \in DOMAIN d : d[i].name = x
    BY <1>4
  <2>2. PICK i : i = CHOOSE j \in DOMAIN d : d[j].name = x
    OBVIOUS
  <2>3. i \in 1..Len(q) /\ d[i].name = x
    BY <1>3, <2>1, <2>2
  <2>4. d[i] = [name |-> Means(q[i]).name, initial |-> Means(q[i]).initial] /\ q[i] \in S
    BY <1>3, <2>3 DEF Enumerates
  <2>5. Means(q[i]).name = x /\ d[i].initial = Means(q[i]).initial
    BY <2>3, <2>4
  <2>6. q[i] = At(x, S)
    BY <1>1, <2>4, <2>5, AtIs
  <2> QED
    BY <2>2, <2>5, <2>6
<1>6. InitialState(d) = [x \in Names(S) |-> d[CHOOSE i \in DOMAIN d : d[i].name = x].initial]
  BY <1>4 DEF InitialState
<1>7. WrittenState(p) = [x \in Names(S) |-> Means(At(x, S)).initial]
  BY <1>1 DEF WrittenState
<1> QED
  BY <1>1, <1>5, <1>6, <1>7

(* The lists and maps of Written are those of the declarations. *)
LEMMA PlanWritten ==
    ASSUME text \in Seq(DOMAIN Lines), NEW h
    PROVE  WrittenPlan(h) = [declared |-> EffectsOf(h), actions |-> ActionsOf(h)]
<1>1. PICK q : q = InOrder(Body("action", h))
  OBVIOUS
<1>2. Enumerates(q, Body("action", h))
  BY <1>1, PartsAt
<1>3. [k \in DOMAIN q |-> Means(q[k]).action] = ActionsOf(h)
  BY <1>1, <1>2 DEF ActionsOf, Enumerates
<1> QED
  BY <1>1, <1>3 DEF WrittenPlan, EffectsOf

LEMMA ProgramIsWritten ==
    ASSUME Honest, LoadInv, phase = "loaded"
    PROVE  program = Written
<1>1. IInv /\ ParserInv /\ LoadingInv /\ phase \in {"checking", "loaded"} /\ phase \in Loads
  BY DEF LoadInv, Loads
<1>2. text \in Seq(DOMAIN Lines) /\ services = Decls
  BY <1>1, ServicesAre DEF IInv
<1>3. /\ program = [services |-> program.services, initial |-> program.initial,
                    handlers |-> program.handlers]
      /\ program.services \in Seq(STRING) /\ Loaded = Len(services)
      /\ DOMAIN program.initial = Range(program.services)
      /\ DOMAIN program.handlers = Range(program.services)
  BY <1>1 DEF IInv, LoaderOK, ProgramShape, Progress
<1>4. PICK S : S = LinesOf("service")
  OBVIOUS
<1>5. Range(program.services) = Names(S) /\ WellNamed
  BY <1>1, <1>4, ServiceNames, LoadedIsWellFormed DEF WellFormed
<1>6. program.services = [k \in DOMAIN InOrder(S) |-> Means(InOrder(S)[k]).name]
  <2>1. PICK q : q = InOrder(S)
    OBVIOUS
  <2>2. /\ Enumerates(q, S) /\ Len(services) = Len(q)
        /\ \A k \in 1..Len(q) : services[k] = DeclOf(q[k])
    BY <1>2, <1>4, <2>1, DeclsAt
  <2>3. ASSUME NEW k \in 1..Len(q) PROVE program.services[k] = Means(q[k]).name
    <3>1. LoadedService(k)
      BY <1>1, <1>3, <2>2 DEF LoadingInv
    <3>2. services[k] = DeclOf(q[k])
      BY <2>2
    <3> QED
      BY <3>1, <3>2 DEF LoadedService, DeclOf
  <2>4. DOMAIN program.services = 1..Len(q) /\ DOMAIN q = 1..Len(q)
    BY <1>3, <2>2 DEF Loaded, Enumerates
  <2>5. program.services = [k \in DOMAIN program.services |-> program.services[k]]
    BY <1>3
  <2> QED
    BY <2>1, <2>3, <2>4, <2>5
<1>7. ASSUME NEW s \in Names(S)
      PROVE  /\ program.initial[s] = WrittenState(At(s, S))
             /\ program.handlers[s] = WrittenPlans(At(s, S))
  <2>1. PICK p : p = At(s, S)
    OBVIOUS
  <2>2. p \in LinesOf("service") /\ Means(p).name = s
    BY <1>4, <2>1, AtIs
  <2>3. Distinct(Under("state", p)) /\ Distinct(Under("on", p))
    BY <1>5, <2>2 DEF WellNamed
  <2>4. program.initial[s] = WrittenState(p)
    BY <1>1, <1>2, <2>2, <2>3, ServiceLoaded, StateWritten
  <2>5. PICK H, x : H = HandlersOf(p) /\ x = program.handlers[s]
    OBVIOUS
  <2>6. HandlersLoaded(H, Len(H), x)
    BY <1>1, <2>2, <2>5, ServiceLoaded
  <2>7. {H[i].on : i \in 1..Len(H)} = Names(Under("on", p))
    BY <1>2, <2>5, HandlersNamed
  <2>8. DOMAIN x = Names(Under("on", p)) /\ x = [m \in DOMAIN x |-> x[m]]
    BY <2>6, <2>7 DEF HandlersLoaded
  <2>9. ASSUME NEW m \in Names(Under("on", p)) PROVE x[m] = WrittenPlan(At(m, Under("on", p)))
    <3>1. PICK h : h = At(m, Under("on", p))
      OBVIOUS
    <3>2. h \in Under("on", p) /\ Means(h).name = m
      BY <3>1, AtIs
    <3>3. h \in LinesOf("on") /\ ServiceOf(h) = p
      BY <3>2 DEF Under
    <3>4. program.handlers[s][m] = [declared |-> EffectsOf(h), actions |-> ActionsOf(h)]
      BY <1>1, <2>2, <3>2, <3>3, HandlerChecked
    <3> QED
      BY <1>2, <2>5, <3>1, <3>4, PlanWritten
  <2>10. x = WrittenPlans(p)
    BY <2>8, <2>9 DEF WrittenPlans
  <2> QED
    BY <2>1, <2>4, <2>5, <2>10
<1>8. program.initial = [s \in Names(S) |-> WrittenState(At(s, S))]
  <2>1. program.initial = [s \in DOMAIN program.initial |-> program.initial[s]]
    BY <1>1 DEF LoadingInv
  <2> QED
    BY <1>3, <1>5, <1>7, <2>1
<1>9. program.handlers = [s \in Names(S) |-> WrittenPlans(At(s, S))]
  <2>1. program.handlers = [s \in DOMAIN program.handlers |-> program.handlers[s]]
    BY <1>1 DEF LoadingInv
  <2> QED
    BY <1>3, <1>5, <1>7, <2>1
<1>10. Written = [services |-> [k \in DOMAIN InOrder(S) |-> Means(InOrder(S)[k]).name],
                  initial  |-> [s \in Names(S) |-> WrittenState(At(s, S))],
                  handlers |-> [s \in Names(S) |-> WrittenPlans(At(s, S))]]
  BY <1>4, WrittenIs
<1> QED
  BY <1>3, <1>6, <1>8, <1>9, <1>10

(* The program loaded is the one written: every state, handler and action  *)
(* of the text, in its order and under its own service and message, and    *)
(* nothing else.                                                           *)
THEOREM LoadedAsWritten == Honest => (Spec => []LoadedIsText)
<1> SUFFICES ASSUME Honest PROVE Spec => []LoadedIsText
  OBVIOUS
<1>1. Init => LoadInv
  BY InitLoadInv
<1>2. LoadInv /\ [Next]_vars => LoadInv'
  BY LoadInvStep
<1>3. LoadInv => LoadedIsText
  BY ProgramIsWritten DEF LoadedIsText
<1> QED
  BY <1>1, <1>2, <1>3, PTL DEF Spec

==============================================================================
