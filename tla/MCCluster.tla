------------------------------ MODULE MCCluster ------------------------------
EXTENDS Cluster

(* programs/distributed_services.uco, with the timers of its `start' set   *)
(* `Timers' steps ahead instead of two and three: short runs reach them.   *)
Act(effect, rest) == [effect |-> effect, guards |-> {}] @@ rest
Inc(key) == Act("state_write", [op |-> "inc", key |-> key, by |-> 1])
Log == Act("log", <<>>)
Send(effect, steps, target, service, message) ==
    Act(effect, [steps |-> steps, target |-> target,
                 service |-> service, message |-> message])
Plan(actions) == [actions |-> actions, declared |-> infer_effects(actions)]

Starting(audit, hello) ==
    << Inc("sent"),
       [Log EXCEPT !.guards = {[key |-> "sent", value |-> 1]}],
       Send("send_remote", 0, "peers", "Echo", "hello"),
       Send("timer_local", audit, "self", "Gateway", "audit"),
       Send("timer_remote", hello, "peers", "Echo", "hello") >>
Hello == << Inc("seen"), Log,
            Send("send_remote", 0, "sender", "Gateway", "echo_reply") >>

ProgramWith(start) ==
    [ services |-> <<"Gateway", "Echo">>,
      initial  |-> [Gateway |-> [sent |-> 0], Echo |-> [seen |-> 0]],
      handlers |->
        [ Gateway |-> [start      |-> Plan(start),
                       echo_reply |-> Plan(<<Log>>),
                       audit      |-> Plan(<<Log>>)],
          Echo    |-> [hello |-> Plan(Hello)] ] ]

MCProgram == ProgramWith(Starting(1, 2))

(* The order of the uuid-v5 actor ids of these two names. *)
MCRank == [Gateway |-> 0, Echo |-> 1]

(* Neighbouring node ids, so that the nodes use the same message ids.  The *)
(* first node also has a peer whose trace nobody has.                      *)
Node(n, peers, steps) ==
    [node |-> n, peers |-> peers, bootstrap_hello |-> TRUE,
     bootstrap_burst |-> 1, steps |-> steps, mode |-> "record"]

MCConfig == 101 :> Node(101, {102, 103}, 4) @@ 102 :> Node(102, {101}, 3)
RestartConfig == 101 :> Node(101, {102}, 1) @@ 102 :> Node(102, {}, 2)

==============================================================================
