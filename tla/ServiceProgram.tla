---------------------------- MODULE ServiceProgram ----------------------------
(***************************************************************************)
(* How a node comes by its program: parse_module reads the text line by    *)
(* line, with a service and a handler open in between, and load_program    *)
(* builds and checks the plans of the handlers.  Each line read, service   *)
(* and handler loaded and handler checked is a step; the handlers are      *)
(* checked in any order, as the iteration over a HashMap takes them.       *)
(*                                                                         *)
(* A raw line, trimmed, is a sequence of pieces: words and single special  *)
(* characters.  An error is one phase, whatever its wording; an Option is  *)
(* <<>> or <<x>>.                                                          *)
(***************************************************************************)
EXTENDS Programs, FiniteSets

CONSTANTS
    Lines,      \* the lines a text may consist of, by name: records of the raw
                \* line and what it means (used by the properties only)
    MaxLines,   \* bound: the length of the texts considered
    MaxUses,    \* bound: how often each line may occur in a text
    I64, U64,   \* the value of each token that parses as i64, as u64
    Commas,     \* the parts of each token that holds a comma
    NodeTarget  \* for each token node:<raw>: <<id>>, or <<>> if raw is no uuid

ASSUME NumberAssumption ==
    /\ \A token \in DOMAIN I64 : I64[token] \in Int
    /\ \A token \in DOMAIN U64 : U64[token] \in Nat
ASSUME BoundAssumption == MaxLines \in Nat /\ MaxUses \in [DOMAIN Lines -> Nat]
ASSUME PartsAssumption ==
    \A token \in DOMAIN Commas : Commas[token] \subseteq STRING

VARIABLES
    text,             \* history: the names of the lines read
    phase,            \* "parsing", "loading", "checking", "loaded" or "error"
    services,         \* the ServiceDecls completed
    current_service,  \* the open ServiceDecl, an Option
    current_handler,  \* the open HandlerDecl, an Option
    program,          \* what load_program has built
    taken,            \* the handlers of its last service it has taken
    checked           \* the handlers <<service, message>> it has checked

parser == <<services, current_service, current_handler>>
loader == <<program, taken, checked>>
vars == <<text, phase, parser, loader>>

------------------------------------------------------------------------------
(***************************************************************************)
(* tokenize.  A line that ends within quotes or after a backslash has no   *)
(* tokens: every use of it refuses both.                                   *)
(***************************************************************************)
Space == " "
Quote == "\""
Backslash == "\\"

EndToken(acc) ==
    IF acc.cur = "" THEN acc
    ELSE [acc EXCEPT !.out = Append(@, acc.cur), !.cur = ""]

Scan(acc, ch) ==
    CASE acc.escaped -> [acc EXCEPT !.cur = @ \o ch, !.escaped = FALSE]
      [] acc.quoted /\ ~acc.escaped /\ ch = Backslash ->
           [acc EXCEPT !.escaped = TRUE]
      [] acc.quoted /\ ~acc.escaped /\ ch = Quote -> [acc EXCEPT !.quoted = FALSE]
      [] ~acc.quoted /\ ch = Quote -> [acc EXCEPT !.quoted = TRUE]
      [] ~acc.quoted /\ ch = Space -> EndToken(acc)
      [] OTHER -> [acc EXCEPT !.cur = @ \o ch]

tokenize(line) ==
    LET scan[i \in 0..Len(line)] ==
            IF i = 0
            THEN [out |-> <<>>, cur |-> "", quoted |-> FALSE, escaped |-> FALSE]
            ELSE Scan(scan[i - 1], line[i])
        end == scan[Len(line)]
    IN  IF end.quoted THEN <<>> ELSE EndToken(end).out

Tokens == [l \in DOMAIN Lines |-> tokenize(Lines[l].raw)]

(* True of tokenize whatever the line, by induction over its characters. *)
ASSUME TokensAssumption == \A l \in DOMAIN Lines : Tokens[l] \in Seq(STRING)

------------------------------------------------------------------------------
(***************************************************************************)
(* The declarations and actions of a line, from its tokens t.              *)
(***************************************************************************)
Parsed(wellformed, decl) == IF wellformed THEN <<decl>> ELSE <<>>

parse_state_decl(t) ==
    Parsed(Len(t) = 4 /\ t[3] = "=" /\ t[4] \in DOMAIN I64,
           [name |-> t[2], initial |-> I64[t[4]]])

Parts(token) == IF token \in DOMAIN Commas THEN Commas[token] ELSE {token}
parse_effects_decl(t) ==
    LET names == UNION {Parts(t[i]) : i \in 2..Len(t)} \ {""}
    IN  Parsed(names # {} /\ names \subseteq Effects, names)

parse_log(t, guards) ==
    Parsed(Len(t) >= 2, [effect |-> "log", guards |-> guards])

parse_set_state(t, guards) ==
    Parsed(Len(t) = 3 /\ t[3] \in DOMAIN I64,
           [effect |-> "state_write", op |-> "set", key |-> t[2],
            value |-> I64[t[3]], guards |-> guards])

parse_inc_state(t, guards) ==
    Parsed(Len(t) \in {2, 3} /\ (Len(t) = 3 => t[3] \in DOMAIN I64),
           [effect |-> "state_write", op |-> "inc", key |-> t[2],
            by |-> IF Len(t) = 3 THEN I64[t[3]] ELSE 1, guards |-> guards])

(* Service, message and a template of at least one token, from index `at'. *)
Sending(effect, steps, target, t, at, guards) ==
    [effect |-> effect, steps |-> steps, target |-> target,
     service |-> t[at], message |-> t[at + 1], guards |-> guards]

parse_remote_target(token) == token \in {"peers", "sender"} \cup DOMAIN NodeTarget

(* Mutant: a timer of zero steps is accepted. *)
parse_timer_any(t, guards) ==
    LET remote == t[3] = "remote"
        at     == CASE remote -> 5 [] t[3] = "local" -> 4 [] OTHER -> 3
    IN  Parsed(/\ Len(t) >= 5
               /\ t[2] \in DOMAIN U64
               /\ Len(t) >= at + 2
               /\ remote => parse_remote_target(t[4]),
               Sending(IF remote THEN "timer_remote" ELSE "timer_local", U64[t[2]],
                       IF remote THEN t[4] ELSE "self", t, at, guards))

parse_timer_local(t, guards) ==
    LET remote == t[3] = "remote"
        at     == CASE remote -> 5 [] t[3] = "local" -> 4 [] OTHER -> 3
    IN  Parsed(/\ Len(t) >= 5
               /\ t[2] \in DOMAIN U64 /\ U64[t[2]] # 0
               /\ Len(t) >= at + 2
               /\ remote => parse_remote_target(t[4]),
               Sending(IF remote THEN "timer_remote" ELSE "timer_local", U64[t[2]],
                       IF remote THEN t[4] ELSE "self", t, at, guards))

parse_send(t, guards) ==
    LET remote == t[2] = "remote"
        at     == IF remote THEN 4 ELSE 3
    IN  Parsed(/\ Len(t) >= 5
               /\ remote \/ t[2] = "local"
               /\ Len(t) >= at + 2
               /\ remote => parse_remote_target(t[3]),
               Sending(IF remote THEN "send_remote" ELSE "send_local", 0,
                       IF remote THEN t[3] ELSE "self", t, at, guards))

(* An `if' takes four tokens: if <state> == <int>.  parse_action_tokens    *)
(* calls itself on the rest; its depth is handed on and never looked at.   *)
If(t, k) == 4 * k + 1 <= Len(t) /\ t[4 * k + 1] = "if"
Ifs(t)   == {k \in 0..Len(t) : \A j \in 0..k : If(t, j)}
parse_if_state_eq(t) ==
    \A k \in Ifs(t) : /\ Len(t) - 4 * k >= 5 /\ t[4 * k + 3] = "=="
                      /\ t[4 * k + 4] \in DOMAIN I64
Guards(t) == {[key |-> t[4 * k + 2], value |-> I64[t[4 * k + 4]]] : k \in Ifs(t)}

parse_action(t) ==
    LET rest   == SubSeq(t, 4 * Cardinality(Ifs(t)) + 1, Len(t))
        guards == Guards(t)
    IN  IF ~parse_if_state_eq(t) \/ rest = <<>> THEN <<>>
        ELSE CASE rest[1] = "log"   -> parse_log(rest, guards)
               [] rest[1] = "set"   -> parse_set_state(rest, guards)
               [] rest[1] = "inc"   -> parse_inc_state(rest, guards)
               [] rest[1] = "timer" -> parse_timer_local(rest, guards)
               [] rest[1] = "send"  -> parse_send(rest, guards)
               [] OTHER             -> <<>>

------------------------------------------------------------------------------
(***************************************************************************)
(* Reading a line.                                                         *)
(***************************************************************************)
StartsWith(raw, keyword) == Len(raw) > 2 /\ raw[1] = keyword /\ raw[2] = Space
Comment(raw) == raw = <<>> \/ raw[1] \in {"//", "#"}
Keywords == {"service", "state", "on"}

Read(l) ==
    /\ phase = "parsing" /\ Len(text) < MaxLines
    /\ Cardinality({i \in DOMAIN text : text[i] = l}) < MaxUses[l]
    /\ text' = Append(text, l)
    /\ UNCHANGED loader

ReadKeyword(l, keyword) == Read(l) /\ StartsWith(Lines[l].raw, keyword)

Refuse == phase' = "error" /\ UNCHANGED parser

(* flush_handler refuses a handler without actions or effects. *)
CanFlush ==
    current_handler # <<>> => /\ current_handler[1].actions # <<>>
                              /\ current_handler[1].effects # {}
FlushedService ==
    [current_service[1] EXCEPT !.handlers = @ \o current_handler]
flush_service ==
    IF current_service = <<>> THEN services ELSE Append(services, FlushedService)

ReadBlank(l) ==
    /\ Read(l) /\ Comment(Lines[l].raw)
    /\ UNCHANGED <<phase, parser>>

ReadService(l) ==
    /\ ReadKeyword(l, "service")
    /\ LET t == Tokens[l]
       IN  IF CanFlush /\ Len(t) = 2
           THEN /\ services' = flush_service
                /\ current_service' = <<[name |-> t[2], states |-> <<>>,
                                         handlers |-> <<>>]>>
                /\ current_handler' = <<>>
                /\ UNCHANGED phase
           ELSE Refuse

ReadState(l) ==
    /\ ReadKeyword(l, "state")
    /\ LET decl == parse_state_decl(Tokens[l])
       IN  IF current_service # <<>> /\ current_handler = <<>> /\ decl # <<>>
           THEN /\ current_service' = [current_service EXCEPT ![1].states = @ \o decl]
                /\ UNCHANGED <<phase, services, current_handler>>
           ELSE Refuse

(* Mutant: the handler before is forgotten. *)
ReadOn_NoFlush(l) ==
    /\ ReadKeyword(l, "on")
    /\ LET t == Tokens[l]
       IN  IF current_service # <<>> /\ CanFlush /\ Len(t) = 2
           THEN /\ current_handler' = <<[on |-> t[2], effects |-> {}, actions |-> <<>>]>>
                /\ UNCHANGED <<phase, services, current_service>>
           ELSE Refuse

ReadOn(l) ==
    /\ ReadKeyword(l, "on")
    /\ LET t == Tokens[l]
       IN  IF current_service # <<>> /\ CanFlush /\ Len(t) = 2
           THEN /\ current_service' = <<FlushedService>>
                /\ current_handler' = <<[on |-> t[2], effects |-> {}, actions |-> <<>>]>>
                /\ UNCHANGED <<phase, services>>
           ELSE Refuse

ReadEffects(l) ==
    /\ ReadKeyword(l, "effects")
    /\ LET names == parse_effects_decl(Tokens[l])
       IN  IF /\ current_handler # <<>> /\ names # <<>>
              /\ current_handler[1].effects = {} /\ current_handler[1].actions = <<>>
           THEN /\ current_handler' = [current_handler EXCEPT ![1].effects = names[1]]
                /\ UNCHANGED <<phase, services, current_service>>
           ELSE Refuse

ReadAction(l) ==
    /\ Read(l) /\ ~Comment(Lines[l].raw)
    /\ \A keyword \in Keywords \cup {"effects"} : ~StartsWith(Lines[l].raw, keyword)
    /\ LET action == parse_action(Tokens[l])
       IN  IF current_handler # <<>> /\ action # <<>>
           THEN /\ current_handler' = [current_handler EXCEPT ![1].actions = @ \o action]
                /\ UNCHANGED <<phase, services, current_service>>
           ELSE Refuse

EndOfFile ==
    /\ phase = "parsing"
    /\ IF CanFlush /\ flush_service # <<>>
       THEN /\ services' = flush_service
            /\ current_service' = <<>> /\ current_handler' = <<>>
            /\ phase' = "loading"
       ELSE Refuse
    /\ UNCHANGED <<text, loader>>

------------------------------------------------------------------------------
(***************************************************************************)
(* load_program.                                                           *)
(***************************************************************************)
Extend(f, k, v) == [x \in DOMAIN f \cup {k} |-> IF x = k THEN v ELSE f[x]]

Fail == phase' = "error" /\ UNCHANGED loader

Loaded == Len(program.services)
AllTaken == Loaded > 0 => taken = Len(services[Loaded].handlers)

Duplicate(decls) ==
    \E i, j \in DOMAIN decls : i # j /\ decls[i].name = decls[j].name
InitialState(decls) ==
    [k \in {decls[i].name : i \in DOMAIN decls} |->
        decls[CHOOSE i \in DOMAIN decls : decls[i].name = k].initial]

LoadService ==
    /\ phase = "loading" /\ AllTaken /\ Loaded < Len(services)
    /\ LET decl == services[Loaded + 1]
       IN  IF decl.name \in Range(program.services) \/ Duplicate(decl.states)
           THEN Fail
           ELSE /\ program' =
                     [services |-> Append(program.services, decl.name),
                      initial  |-> Extend(program.initial, decl.name,
                                          InitialState(decl.states)),
                      handlers |-> Extend(program.handlers, decl.name, <<>>)]
                /\ taken' = 0
                /\ UNCHANGED <<phase, checked>>
    /\ UNCHANGED <<text, parser>>

(* Mutant: a second handler of a message type overwrites the first. *)
LoadHandler_Overwrite ==
    /\ phase = "loading" /\ ~AllTaken
    /\ LET s     == program.services[Loaded]
           plans == program.handlers[s]
           h     == services[Loaded].handlers[taken + 1]
       IN  /\ program' = [program EXCEPT !.handlers[s] =
                             Extend(plans, h.on, [declared |-> h.effects,
                                                  actions  |-> h.actions])]
           /\ taken' = taken + 1
           /\ UNCHANGED <<phase, checked>>
    /\ UNCHANGED <<text, parser>>

LoadHandler ==
    /\ phase = "loading" /\ ~AllTaken
    /\ LET s     == program.services[Loaded]
           plans == program.handlers[s]
           h     == services[Loaded].handlers[taken + 1]
           plan  == IF h.on \in DOMAIN plans THEN plans[h.on]
                    ELSE [declared |-> {}, actions |-> <<>>]
       IN  IF plan.declared # {}
           THEN Fail
           ELSE /\ program' = [program EXCEPT !.handlers[s] =
                                  Extend(plans, h.on,
                                         [declared |-> h.effects,
                                          actions  |-> plan.actions \o h.actions])]
                /\ taken' = taken + 1
                /\ UNCHANGED <<phase, checked>>
    /\ UNCHANGED <<text, parser>>

AllLoaded ==
    /\ phase = "loading" /\ AllTaken /\ Loaded = Len(services)
    /\ phase' = "checking"
    /\ UNCHANGED <<text, parser, loader>>

(* Mutant: what the `if's around an action read is not checked. *)
validate_unguarded(s, a) ==
    /\ a.effect = "state_write" => a.key \in DOMAIN program.initial[s]
    /\ a.effect \in SendEffects =>
          /\ a.service \in Range(program.services)
          /\ a.effect \in TimerEffects => a.steps # 0
          /\ a.target \in DOMAIN NodeTarget => NodeTarget[a.target] # <<>>

validate_action(s, a) ==
    /\ \A g \in a.guards : g.key \in DOMAIN program.initial[s]
    /\ a.effect = "state_write" => a.key \in DOMAIN program.initial[s]
    /\ a.effect \in SendEffects =>
          /\ a.service \in Range(program.services)
          /\ a.effect \in TimerEffects => a.steps # 0
          /\ a.target \in DOMAIN NodeTarget => NodeTarget[a.target] # <<>>

Handlers == UNION {{<<s, m>> : m \in DOMAIN program.handlers[s]} :
                   s \in DOMAIN program.handlers}

CheckHandler(s, m) ==
    /\ phase = "checking" /\ <<s, m>> \in Handlers \ checked
    /\ LET plan == program.handlers[s][m]
       IN  IF /\ \A i \in DOMAIN plan.actions : validate_action(s, plan.actions[i])
              /\ infer_effects(plan.actions) = plan.declared
           THEN checked' = checked \cup {<<s, m>>} /\ UNCHANGED <<phase, program, taken>>
           ELSE Fail
    /\ UNCHANGED <<text, parser>>

AllChecked ==
    /\ phase = "checking" /\ Handlers = checked
    /\ phase' = "loaded"
    /\ UNCHANGED <<text, parser, loader>>

------------------------------------------------------------------------------
Init ==
    /\ text = <<>>
    /\ phase = "parsing"
    /\ services = <<>>
    /\ current_service = <<>>
    /\ current_handler = <<>>
    /\ program = [services |-> <<>>, initial |-> <<>>, handlers |-> <<>>]
    /\ taken = 0
    /\ checked = {}

Finished == phase \in {"loaded", "error"} /\ UNCHANGED vars

Next ==
    \/ \E l \in DOMAIN Lines :
          \/ ReadBlank(l) \/ ReadService(l) \/ ReadState(l)
          \/ ReadOn(l) \/ ReadEffects(l) \/ ReadAction(l)
    \/ EndOfFile
    \/ LoadService \/ LoadHandler \/ AllLoaded
    \/ \E h \in Handlers : CheckHandler(h[1], h[2])
    \/ AllChecked
    \/ Finished

Spec == Init /\ [][Next]_vars


------------------------------------------------------------------------------
(***************************************************************************)
(* Properties.                                                             *)
(***************************************************************************)
Guard == [key : STRING, value : Int]
Target == STRING \cup {"self"}  \* to the provers "self" is not in STRING
Action ==
    [effect : {"log"}, guards : SUBSET Guard]
      \cup [effect : {"state_write"}, op : {"set"}, key : STRING, value : Int,
            guards : SUBSET Guard]
      \cup [effect : {"state_write"}, op : {"inc"}, key : STRING, by : Int,
            guards : SUBSET Guard]
      \cup [effect : SendEffects \ TimerEffects, steps : {0}, target : Target,
            service : STRING, message : STRING, guards : SUBSET Guard]
      \cup [effect : TimerEffects, steps : Nat \ {0}, target : Target,
            service : STRING, message : STRING, guards : SUBSET Guard]
StateDecl   == [name : STRING, initial : Int]
HandlerDecl == [on : STRING, effects : SUBSET Effects, actions : Seq(Action)]
ServiceDecl == [name : STRING, states : Seq(StateDecl), handlers : Seq(HandlerDecl)]
IsOption(o, S) == o \in Seq(S) /\ Len(o) \in {0, 1}

(* Type correctness of what the parser builds: well-formed declarations    *)
(* whatever the lines are, in particular no timer of zero steps and no     *)
(* handler that is open outside a service.                                 *)
TypeOK ==
    /\ text \in Seq(DOMAIN Lines)
    /\ phase \in {"parsing", "loading", "checking", "loaded", "error"}
    /\ services \in Seq(ServiceDecl)
    /\ IsOption(current_service, ServiceDecl)
    /\ IsOption(current_handler, HandlerDecl)
    /\ current_handler # <<>> => current_service # <<>>

(* A program that load_program returns is one the runtime can rely on: its *)
(* handlers touch declared keys and known services only, and do what they  *)
(* declare (the assumption Runtime makes of its Program).                  *)
LoadedIsRunnable == phase = "loaded" => Loadable(program)

(***************************************************************************)
(* The language, in terms of the positions of lines in the whole text.     *)
(***************************************************************************)
Means(i) == Lines[text[i]].means
Kind(i)  == Means(i).kind
LinesOf(kind) == {i \in DOMAIN text : Kind(i) = kind}
Latest(kinds, i) == Max({j \in 1..(i - 1) : Kind(j) \in kinds} \cup {0})
ServiceOf(i) == Latest({"service"}, i)
HeadOf(i)    == Latest({"service", "on"}, i)
Under(kind, s) == {i \in LinesOf(kind) : ServiceOf(i) = s}
Body(kind, h)  == {i \in LinesOf(kind) : HeadOf(i) = h}
Distinct(S) == \A i, j \in S : Means(i).name = Means(j).name => i = j
Names(S) == {Means(i).name : i \in S}

WellPlaced ==
    /\ \A i \in LinesOf("state") : HeadOf(i) \in LinesOf("service")
    /\ \A i \in LinesOf("on") : ServiceOf(i) # 0
    /\ \A i \in LinesOf("effects") \cup LinesOf("action") : HeadOf(i) \in LinesOf("on")

WellNamed ==
    /\ Distinct(LinesOf("service"))
    /\ \A s \in LinesOf("service") :
          Distinct(Under("state", s)) /\ Distinct(Under("on", s))

Complete(h) ==
    /\ \E e \in Body("effects", h) :
          /\ Body("effects", h) = {e}
          /\ \A a \in Body("action", h) : e < a
          /\ Means(e).names = UNION {{Means(a).action.effect}
                                        \cup (IF Means(a).action.guards = {} THEN {}
                                              ELSE {"state_read"}) :
                                     a \in Body("action", h)}
    /\ Body("action", h) # {}

Refers(i) ==
    LET a    == Means(i).action
        keys == Names(Under("state", ServiceOf(i)))
    IN  /\ \A g \in a.guards : g.key \in keys
        /\ a.effect = "state_write" => a.key \in keys
        /\ a.effect \in SendEffects =>
              /\ a.service \in Names(LinesOf("service"))
              /\ a.target \in DOMAIN NodeTarget => NodeTarget[a.target] # <<>>

WellFormed ==
    /\ LinesOf("bad") = {} /\ LinesOf("service") # {}
    /\ WellPlaced /\ WellNamed
    /\ \A h \in LinesOf("on") : Complete(h)
    /\ \A i \in LinesOf("action") : Refers(i)

(* A text is accepted exactly if it is well formed, however the iteration  *)
(* over the handlers goes: every handler has one effects line, before its  *)
(* actions and naming their effects, names are declared once, references   *)
(* resolve, and an action may be nested in any number of `if's.            *)
VerdictExact ==
    /\ phase = "loaded" => WellFormed
    /\ phase = "error" => ~WellFormed

InOrder(S) ==
    [k \in 1..Cardinality(S) |-> CHOOSE i \in S : Cardinality({j \in S : j <= i}) = k]
Written ==
    LET services_of == InOrder(LinesOf("service"))
        At(name, S) == CHOOSE i \in S : Means(i).name = name
        Decl(name) == At(name, LinesOf("service"))
    IN  [services |-> [k \in DOMAIN services_of |-> Means(services_of[k]).name],
         initial  |-> [s \in Names(LinesOf("service")) |->
             [x \in Names(Under("state", Decl(s))) |->
                Means(At(x, Under("state", Decl(s)))).initial]],
         handlers |-> [s \in Names(LinesOf("service")) |->
             [m \in Names(Under("on", Decl(s))) |->
                LET h    == At(m, Under("on", Decl(s)))
                    body == InOrder(Body("action", h))
                IN  [declared |-> UNION {Means(e).names : e \in Body("effects", h)},
                     actions  |-> [k \in DOMAIN body |-> Means(body[k]).action]]]]]

(* The program loaded is the one written: every state, handler and action  *)
(* of the text, in its order and under its own service and message, with   *)
(* all the conditions around it, and nothing else.                         *)
LoadedIsText == phase = "loaded" => program = Written

==============================================================================
