--------------------------- MODULE MCRecordReplay ---------------------------
EXTENDS RecordReplay

(* programs/distributed_services.uco *)
Act(effect, rest) == [effect |-> effect, guards |-> {}] @@ rest
Inc(key) == Act("state_write", [op |-> "inc", key |-> key, by |-> 1])
Log == Act("log", <<>>)
Send(effect, steps, target, service, message) ==
    Act(effect, [steps |-> steps, target |-> target,
                 service |-> service, message |-> message])
Plan(actions) == [actions |-> actions, declared |-> infer_effects(actions)]

Start == << Inc("sent"),
            [Log EXCEPT !.guards = {[key |-> "sent", value |-> 1]}],
            Send("send_remote", 0, "peers", "Echo", "hello"),
            Send("timer_local", 2, "self", "Gateway", "audit"),
            Send("timer_remote", 3, "peers", "Echo", "hello") >>
Hello == << Inc("seen"), Log,
            Send("send_remote", 0, "sender", "Gateway", "echo_reply") >>

MCProgram ==
    [ services |-> <<"Gateway", "Echo">>,
      initial  |-> [Gateway |-> [sent |-> 0], Echo |-> [seen |-> 0]],
      handlers |->
        [ Gateway |-> [start      |-> Plan(Start),
                       echo_reply |-> Plan(<<Log>>),
                       audit      |-> Plan(<<Log>>)],
          Echo    |-> [hello |-> Plan(Hello)] ] ]

(* A program of every kind of action, with handlers that send to their own *)
(* actor, which the scheduler prefers, and timers that fire together.      *)
Guarded(a, key, value) == [a EXCEPT !.guards = @ \cup {[key |-> key, value |-> value]}]
Set(key, value) == Act("state_write", [op |-> "set", key |-> key, value |-> value])
ToNode(n, service, message) ==
    [node |-> n] @@ Send("send_remote", 0, "node", service, message)

TourStart == << Inc("sent"),
                Guarded(Send("send_local", 0, "self", "Gateway", "again"), "sent", 1),
                Guarded(Send("timer_local", 2, "self", "Gateway", "audit"), "sent", 2),
                Guarded(Send("timer_remote", 3, "sender", "Echo", "hello"), "sent", 1),
                Send("send_remote", 0, "peers", "Echo", "hello") >>
TourAgain == << Guarded(Send("send_local", 0, "self", "Gateway", "again"), "last", 0),
                Guarded(Guarded(Log, "sent", 2), "last", 0),
                Set("last", -1) >>
TourHello == << Inc("seen"), ToNode(103, "Echo", "hello"),
                Guarded(Send("send_remote", 0, "sender", "Gateway", "echo_reply"),
                        "seen", 1) >>

Tour ==
    [ services |-> <<"Gateway", "Echo">>,
      initial  |-> [Gateway |-> [sent |-> 0, last |-> 0], Echo |-> [seen |-> 0]],
      handlers |->
        [ Gateway |-> [start |-> Plan(TourStart), again |-> Plan(TourAgain),
                       audit |-> Plan(<<Log>>)],
          Echo    |-> [hello |-> Plan(TourHello)] ] ]

(* The order of the uuid-v5 actor ids of these two names. *)
MCRank == [Gateway |-> 0, Echo |-> 1]

Me == 101
Peer == 102

Cfg(node, peers, hello, burst, steps, mode) ==
    [node |-> node, peers |-> peers, bootstrap_hello |-> hello,
     bootstrap_burst |-> burst, steps |-> steps, mode |-> mode]

Rec    == Cfg(Me, {Peer}, TRUE, 2, 8, "record")
Rep    == [Rec EXCEPT !.mode = "replay"]
RecOne == Cfg(Me, {Peer}, TRUE, 1, 5, "record")
RepOne == [RecOne EXCEPT !.mode = "replay"]

(* The README's quick start: neither command line has --node-id, so each   *)
(* process draws an id of its own.                                         *)
RepQuick == [RepOne EXCEPT !.node = 203]

(* What a peer running the same program sends: its own hello, and its      *)
(* answer to this node's first hello; and a message of a third node whose  *)
(* program has a service this one lacks.                                   *)
Prov(origin, omsg, parent, pmsg, hops) ==
    [origin_node |-> origin, origin_service |-> System, origin_msg |-> omsg,
     parent_node |-> parent, parent_msg |-> pmsg, hops |-> hops]
Env(from, service, to, id, type, value, prov) ==
    [from_node |-> from, to |-> to, id |-> id,
     msg |-> [type |-> type, from_node |-> from, from_service |-> service,
              text |-> value, prov |-> <<prov>>]]

PeerHello == Env(Peer, "Gateway", "Echo", 104, "hello", [sent |-> 1],
                 Prov(Peer, 103, Peer, 103, 1))
ReplyTo(id) == Env(Peer, "Echo", "Gateway", 105, "echo_reply", [seen |-> 1],
                   Prov(Me, 102, Me, id, 2))
PeerAgain == Env(Peer, "Gateway", "Echo", 107, "hello", [sent |-> 1],
                 Prov(Peer, 103, Peer, 103, 1))
Stranger  == Env(103, "Metrics", "Metrics", 105, "sample", [n |-> 1],
                 Prov(103, 104, 103, 104, 1))

(* The first hello of the Tour is its fourth message. *)
TourInbound == {PeerHello, ReplyTo(105), Stranger}
Hellos == {PeerHello, PeerAgain}

==============================================================================
