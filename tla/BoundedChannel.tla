---------------------------- MODULE BoundedChannel ----------------------------
(***************************************************************************)
(* What the inbound path promises the rest of a node, without buffers,     *)
(* windows or phases: a channel that decides at once whether it loses a    *)
(* message and otherwise hands it over, in any order, no later than        *)
(* MaxDelay steps after it accepted it.  It never takes a message twice.   *)
(***************************************************************************)
EXTENDS Integers

CONSTANTS Msgs, MaxDelay

VARIABLES
    now,        \* the step
    held,       \* accepted, not yet handed over: records of msg and since
    lost,       \* the messages it decided to lose
    delivered   \* the messages it handed over

cvars == <<now, held, lost, delivered>>

ChannelInit == now = 0 /\ held = {} /\ lost = {} /\ delivered = {}

Unseen(m) == m \notin lost \cup delivered \cup {h.msg : h \in held}

Accept(m) ==
    /\ Unseen(m)
    /\ held' = held \cup {[msg |-> m, since |-> now]}
    /\ UNCHANGED <<now, lost, delivered>>

Lose(m) ==
    /\ Unseen(m)
    /\ lost' = lost \cup {m}
    /\ UNCHANGED <<now, held, delivered>>

HandOver ==
    /\ \E batch \in SUBSET held :
          /\ held' = held \ batch
          /\ delivered' = delivered \cup {h.msg : h \in batch}
    /\ UNCHANGED <<now, lost>>

(* Time moves on only when no message has been held for MaxDelay steps. *)
Tick ==
    /\ \A h \in held : now < h.since + MaxDelay
    /\ now' = now + 1
    /\ UNCHANGED <<held, lost, delivered>>

ChannelNext ==
    \/ \E m \in Msgs : Accept(m) \/ Lose(m)
    \/ HandOver
    \/ Tick

ChannelSpec == ChannelInit /\ [][ChannelNext]_cvars

==============================================================================
