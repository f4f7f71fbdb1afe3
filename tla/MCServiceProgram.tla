--------------------------- MODULE MCServiceProgram ---------------------------
EXTENDS ServiceProgram

Quoted(s) == <<Quote>> \o s \o <<Quote>>
Spaced(words) == FlattenSeq([i \in DOMAIN words |->
                    IF i = 1 THEN <<words[1]>> ELSE <<Space, words[i]>>])
IfX(n) == <<"if", "x", "==", n>>
Eight == FlattenSeq([k \in 1..8 |-> IfX("1")])

Line(raw, means) == [raw |-> raw, means |-> means]
Named(kind, name) == [kind |-> kind, name |-> name]
Effs(names) == [kind |-> "effects", names |-> names]
Bad == [kind |-> "bad"]
Does(action) == [kind |-> "action", action |-> action]
Log(guards) == Does([effect |-> "log", guards |-> guards])
X(value) == [key |-> "x", value |-> value]
ToB(effect, steps, target) ==
    Does([effect |-> effect, steps |-> steps, target |-> target,
          service |-> "B", message |-> "m", guards |-> {}])

LineTable ==
    [ serviceA |-> Line(<<"service", Space, "A">>, Named("service", "A")),
      serviceB |-> Line(<<"service", Space, Space, "B">>, Named("service", "B")),
      stateX   |-> Line(Spaced(<<"state", "x", "=", "0">>),
                        [kind |-> "state", name |-> "x", initial |-> 0]),
      stateOne |-> Line(Spaced(<<"state", "x", "=", "one">>), Bad),
      onM      |-> Line(Spaced(<<"on", "m">>), Named("on", "m")),
      onK      |-> Line(<<"on", Space>> \o Quoted(<<"k", Space, "k">>),
                        Named("on", "k k")),
      effLog   |-> Line(Spaced(<<"effects", "log">>), Effs({"log"})),
      effRead  |-> Line(Spaced(<<"effects", "log,,state_read", ",">>),
                        Effs({"log", "state_read"})),
      effWrite |-> Line(Spaced(<<"effects", "state_write">>), Effs({"state_write"})),
      effSend  |-> Line(Spaced(<<"effects", "send_remote", "timer_local">>),
                        Effs({"send_remote", "timer_local"})),
      effNone  |-> Line(Spaced(<<"effects", ",">>), Bad),
      log      |-> Line(<<"log", Space>> \o
                        Quoted(<<"a", Backslash, Quote, Space, "b">>), Log({})),
      logNone  |-> Line(<<"log", Space>> \o Quoted(<<>>), Bad),
      nineLog  |-> Line(Spaced(Eight \o IfX("2") \o <<"log", "a">>),
                        Log({X(1), X(2)})),
      inc      |-> Line(Spaced(<<"inc", "x">>),
                        Does([effect |-> "state_write", op |-> "inc", key |-> "x",
                              by |-> 1, guards |-> {}])),
      sendB    |-> Line(Spaced(<<"send", "remote", "peers", "B", "m", "hi">>),
                        ToB("send_remote", 0, "peers")),
      sendBad  |-> Line(Spaced(<<"send", "remote", "node:bad", "B", "m", "hi">>),
                        ToB("send_remote", 0, "node:bad")),
      timer    |-> Line(Spaced(<<"timer", "2", "B", "m", "hi">>),
                        ToB("timer_local", 2, "self")),
      timer0   |-> Line(Spaced(<<"timer", "0", "B", "m", "hi">>), Bad),
      comment  |-> Line(Spaced(<<"#", "on">>), [kind |-> "blank"]) ]

(* TLC keeps the value of LineTable, and would not keep that of a          *)
(* definition put in the place of a constant.                              *)
MCLines == LineTable

(* A declaration twice is refused, and two handlers may have the same      *)
(* effects and actions; other lines are enough once.                       *)
MCUses == [l \in DOMAIN LineTable |->
             IF l \in {"serviceA", "stateX", "onM", "effLog", "log"} THEN 2 ELSE 1]

MCInts   == ("0" :> 0) @@ ("1" :> 1) @@ ("2" :> 2)
MCCommas == ("," :> {""}) @@ ("log,,state_read" :> {"log", "", "state_read"})
MCNodes  == "node:bad" :> <<>>

==============================================================================
