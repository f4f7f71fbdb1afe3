# TLA+ models of the correctness-oriented programming stack

This directory holds a verification project for the repository it lives in: a
runtime that executes a small service language and records a trace, a replay
mode that re-executes a trace and compares, and a tool that judges traces.
The specifications are written from the source; line numbers are in
`PROJECT.json` under `map`.

## The system

| part | source | state | operations |
|------|--------|-------|------------|
| service language | `crates/lang` | the open service and handler | `parse_module`, `tokenize`, one parser per action |
| program loader | `runtime/src/main.rs` 433-656 | none (pure) | `load_program`, `validate_action`, `infer_effects` |
| command line | `main.rs` 202-431 | `Config`, `FaultConfig` | `parse_config`, `parse_fault_phase_spec`, `sort_and_validate_phases` |
| actor system | `main.rs` 658-1151, `actor.rs` | per actor: inbox, integer state; id counters | `execute_actions`, `dispatch_outgoing`, provenance |
| timers | `main.rs` 1180-1187, 1883-1917 | pending timers with due steps | set by handlers, fired by the loop |
| scheduler | `scheduler.rs` | none | `choose_next_deterministic` |
| listener | `net.rs` | the mpsc channel | one thread per connection pushes envelopes |
| fault injector | `main.rs` 1174-1472 | policy in force, reorder buffer, pending queue, counter | `sync_policy`, `ingest`, `flush_*`, `release_due`, `drain_network` |
| main loop | `main.rs` 1779-2121 | step counter | start-up, drain, timers, one delivery per step |
| trace file | `trace.rs`, `event.rs` | buffered writer; reader with one event of look-ahead | `record_event`, `ReplayCursor` |
| replay | `main.rs` 1478-1716 and the loop | cursor | `drain_replay_inbound`, `next_replay_delivery`, `replay_fire_timer`, `verify_replay_emits` |
| `tool verify` | `tool/src/main.rs` 513-640, 856-1125 | one pass over a trace | `verify_trace`, `verify_payload_lineage` |
| `tool cluster-verify` | `tool/src/main.rs` 1127-1429 | maps over several traces | `verify_cluster` |
| `tool lineage`, reports | `tool/src/main.rs` | maps over a trace | index, summary, path, JSON diagnostics |
| Lean kernel | `semantics-lean` | pure | handler actions with proofs of their own |
| scripts, CI | `scripts`, `.github` | none | start processes, compare the tools' output |

How the parts interact: listener threads hand envelopes to the main thread
through the channel; everything else of a node runs on the main thread, one
iteration per scheduler step.  Nodes interact by TCP only, one connection per
message, so messages between two nodes may overtake each other.  A recording
process and a replaying process interact by the trace file and by nothing else;
the command line of the recording is not in the trace.

What is hard about it: envelopes that arrive while the channel is being
drained; fault policies that change while envelopes of the old policy are still
in the pending queue; timers whose due steps are counted differently in recording and
replay; handlers that fail half-way through a recorded step; buffered traces of
killed processes; and two reading loops that share one cursor.  `PROJECT.json`
lists these as hazards with the line at which each bites and the properties
that would catch it.

## Modules

**FaultInjector** (operators).  The fault policies and the injector as pure
functions on a record; each operator is named after its Rust method and returns
the state that method leaves.  The field `trace` stands for the trace writer the
methods are passed.

**Ingress** (state machine).  A node's inbound side.  `Listen` is a connection
thread's `tx.send`; `Sync`, `Misrouted`, `Ingest` and `Release` are the parts of
`drain_network` between which a listener may run; `Rest` is the remainder of the
loop body.  `ingests` is a history variable.  **BoundedChannel** is the abstract
promise: a message is accepted at some step, and then lost at once or delivered
within `MaxDelay` steps, never twice.  `Ingress` instantiates it with a
refinement mapping and implements it.

**FaultPhases** (state machine).  From `--fault-phase` values to the schedule:
parse each, sort stably by start, walk once with `prev_end`.  **CommandLine**
(state machine) is `parse_config`: it walks the arguments once, one option with
its value per step, collects the phases as it meets them and has them sorted and
checked behind the last argument; it takes the actions for that from `FaultPhases`.
How a string parses as a number or an id, and where it splits, is given by
constants; which string an option takes, and what the loop makes of it, is not.

**ServiceProgram** (state machine).  How a node comes by its program.
`parse_module` reads the text one line per step (`ReadService`, `ReadState`,
`ReadOn`, `ReadEffects`, `ReadAction`), with at most one service and one handler
open; `tokenize` and the parser of each action are operators on a line's pieces.
`LoadService` and `LoadHandler` build the plans, `CheckHandler` validates the
handlers in any order, as iteration over a `HashMap` does.  **Programs** says
what a program that was loaded guarantees, `Loadable`.

**Runtime** (operators).  The deterministic core both modes share: start-up,
handler execution, provenance, identifiers, dispatch, timers and the scheduler,
as functions from a node's state to a node's state and the events emitted.  It
assumes that `Program` is `Loadable`, which is what `ServiceProgram` guarantees.

**TraceVerify** (operators).  `verify_trace` as a fold over the events, with the
numbering `seq` that the writer gives them.

**RecordReplay** (state machine).  One process records (`Boot`, `Record` for each
iteration, then `Stop`, `Fail` or `Kill`), someone may edit the file
(`RemoveLine`, `RepeatLine`, `SwapLines`), a second process replays it.  A kill
leaves any prefix of what was written, with or without a torn line at its end.  An
iteration of the recording loop is one action, because between two drains no
other thread touches what it uses; what an iteration receives is an arbitrary
sequence of arrived envelopes of which some are dropped, which is what `Ingress`
shows of the injector.  Replay takes one action per event read, or per delivery
with the emissions that follow it.

**ClusterVerify** (operators).  `verify_cluster` over a sequence of traces: the
maps of `NetSend`, `NetRecv` and drop evidence, the global lineage and the
counters of the report; `cluster_verify`, the command, which judges each trace
by itself first; and what `tool lineage` and `lineage-path` make of one trace.

**Cluster** (state machine).  Several recording nodes.  `Start` is a process
start, `Step` the same iteration of the recording loop as in `RecordReplay`,
`Stop` and `Kill` its end; a killed node may be started again with an empty trace
and counters at one.  `flight` holds what was sent and not drained: an envelope
there arrives in any order or never, which covers failed connections, a receiver
that ends first and an injector that still holds it.  `drained` is a history
variable, the truth that `tool cluster-verify` has to recover from the traces.

Actor ids are service names with an order (`Rank`), node, message and timer ids
are numbers, and timer ids have a range of their own, as in the code.  A rendered
template is the actor state it can show: two renderings are equal in the model
only if every state value is.  Nested `if`s are a set of guards on the action.
`i64` overflow is kept, with a small `MaxInt`.

**MC...** modules give the constants their values; **...Proofs** hold the proofs.

## What the runs check

`ingress` (seven envelopes, one for another node, five steps, four policies:
windows 1, 2 and 3, delays 0 to 2, dropping none, every second or every third).  The channel
runs dry with a chunk half full, which `flush_remainder` then empties although it
does nothing for a window of one, the phases shrink the window from three to one,
and they shrink the delay while the pending queue is not empty: the cases the code
has to get right.  The flush in `sync_policy` finds nothing in any of them, since
`flush_remainder` ends every drain.
`WindowRespected` and `NoStranding`: the buffer never holds a full window and is
empty outside the drain.  `OneFate`: an accepted envelope is in one place or has
one recorded fate.  `BoundedWait`: head-of-line blocking is bounded by the
largest delay.  `NeverEarly`: no release before the delay has passed.
`ReorderConfined`: inversions stay within one step, one policy and one window,
and are in evidence.  Envelopes of one kind are symmetric: they are compared for
equality only and no liveness property is checked in this run.

`ingress_channel` (fewer envelopes, no symmetry): the refinement to
`BoundedChannel`, and `Terminates`.

`command_line` runs three kinds of command lines: all schedules of up to three
phases over start and end steps up to three and the open end (three phases are
what distinguishes comparing neighbours from comparing all pairs); each option
with each value, good and bad, alone and behind each good use of an option; and
any sequence of up to four words, in which values stand where options are
expected and options where values are.  `OutcomeExact`: refused at the first
mistake and for its reason.  `LastWins`: otherwise each field holds what the last
use of its option says, and each peer the last address given for its id.
`ConfigOK`: windows and bursts are positive.  `AcceptedIsSound`,
`RejectedIsUnsound` and `PolicyUnambiguous` are about the schedule.
`PolicyAsWritten` takes them together: the policy of each step up to four is that
of the one `--fault-phase` that holds it, and elsewhere the last uses of the base
options, in whatever order a user wrote them.

`service_program` reads every text of up to seven lines from a table of twenty,
each line at most once or twice.  The table has two services, a state, two
handlers, five effects lines, every kind of action, the malformed lines of each
parser, quoting with escapes and blanks, and an action behind nine `if`s, one
more than the parser means to allow.  A text is checked against a definition of
the language by positions of lines, which has no notion of an open service:
`VerdictExact`, it is accepted exactly if it is well formed; `LoadedIsText`, the
program loaded is the one written.  Seven lines are enough for two services of
which one has a complete handler, for both handlers of one service with the same
effects and action, which is accepted, for a declaration twice, and for a line that is missing or in the wrong place.

`record_replay` runs a program written for it, `Tour`: every kind of action, an
actor that sends to itself and another that it thereby keeps waiting, timers
behind conditions, a target that is a node id and a message type that nobody
handles.  Two bootstrap messages, eight steps, a peer's hello and reply and a
message for an unknown service.  Eight steps are enough for timers to be set by a timer's handler,
to fire or to stay pending, for runs that end drained and for runs that do not.
`ReplayExact`: accepted exactly when drained.  `ReplayReproduces`: same states,
counters and timers, nothing written to the wire.  `VerifierAgrees`: `tool
verify` finds nothing but the message to an unknown service, and counts the
pending messages right.  `DeliveredInOrder`: an inbox is first in, first out, and
an actor is overtaken by actors of smaller ids only.  `TimersPunctual`: a timer
fires in the step it is due.

`record_replay_damage` runs the repository's `distributed_services.uco` for five
steps with one bootstrap message, a `MaxInt` of one so that a second hello
overflows, and all kinds of damage.  `FailureReplays`: a failing handler fails
again, at the same event.  `TornIsRejected`: a torn line is never accepted, in
whichever of the reading loops it is met.  `EditsDetected`: replay notices an
edit of what the node did.  `EditsVerified`: an edit of what it received replay
takes as it comes, but `tool verify` notices every removed, repeated or exchanged
line by the numbering.  `ReplayTerminates` on every kind of trace.

`cluster`: two nodes of four and three steps run the repository's program with
its timers one step closer, so that short runs reach both; node ids are
neighbours, so both use the same message ids; one node drops and may be killed
with any prefix of its trace on disk, the other also sends to a third node whose
trace nobody has, and a second hello overflows its handler.  Every end of the run
is judged, for every non-empty set of traces.  `ClusterExact`: unless a node was
killed, `cluster-verify` reports a message exactly when nobody drained it, and a
missing parent exactly for answers of absent nodes; its counters are the true
numbers, and neither depends on the order of the files.  `CommandExact`: the
command fails exactly if a node whose trace it was given failed or something
went unaccounted.
`LocalAgrees`: `tool verify` finds only the event that a failure or kill cut off.
`LineageExact`: every delivery is indexed and classified right.
`KillsExplained`: what a kill lost is reported as missing, never as a duplicate,
an altered payload or a wrong parent.  Closed runs that are accepted, drops,
failures and answers in both directions all occur within these bounds.

### Where the documentation says otherwise

Five runs each show a sentence of the documentation that the code does not keep;
`PROJECT.json` quotes it.  `ingress_overdue`: a message can wait longer than the
delay in force.  `replay_quick_start`: the README's Quick Start records and
replays without `--node-id`, so the second process draws another id and rejects
the trace at its first event.  (The README's replay of the demo node names the id
but no `--peer`; its broadcasts then become local sends and it is rejected as
well.)  `handler_overflow`: a delivery without effect evidence.
`replay_truncated`: a trace that lost its tail is accepted.  `cluster_restart`: a
message of a restarted node that never arrived is matched with the evidence of an
earlier one that had the same id.

## Fairness

`Cluster`, `CommandLine` and `ServiceProgram` are checked for safety only and
state no fairness.  `Ingress` assumes
weak fairness of the main thread's steps: the operating system schedules a
runnable thread.  Listeners owe nothing.  `RecordReplay` assumes that
the system as a whole takes steps while it can; the network and the damage owe
nothing.  This is weak fairness of `Next`.  Its enabling condition is spelled out
as "no verdict yet", because TLC would otherwise evaluate `ENABLED Next`, which
expands the scheduler at every state; deadlock checking shows that a step is
enabled in every state.

## What is proved

TLAPS proves, for every value of the constants that meets the assumptions:

* `IngressProofs`: `TypeOK`, `WindowRespected`, `NoStranding`, `OneFate` and
  `BoundedWait` are invariants of `Ingress`, for any set of envelopes, schedule
  of phases and number of steps.
* `IngressChannelProofs`: `NeverEarly`, `ReorderConfined`, and that `Ingress`
  implements `BoundedChannel`: an ingest call is `Accept` or `Lose`, the release is
  one `HandOver` of the batch it took out, the end of the loop body is `Tick`,
  which `BoundedWait` enables, and every other step leaves the channel's view
  alone.
* `CommandLineProofs`: of `FaultPhases`, `TypeOK`, `AcceptedIsSound`,
  `RejectedIsUnsound` and `PolicyUnambiguous`, for any list of phase
  specifications; of `CommandLine` the last three again, `ConfigOK`, `LastWins`,
  `OutcomeExact` and `PolicyAsWritten`, for any set of command lines.
* `ServiceProgramProofs`: `TypeOK`, `LoadedIsRunnable`, `VerdictExact` and
  `LoadedIsText`, for any set of lines and texts of any length: what `Runtime`
  assumes of its program, the loader guarantees; the texts accepted are the
  well-formed ones, and the program loaded is the one written.
* `RecordReplayProofs`: `TypeOK`, `TimersPunctual`, `FailureReplays`,
  `ReplayReproduces`, `ReplayExact`, `TornIsRejected`, `EditsVerified`,
  `EditsDetected`, `DeliveredInOrder` and `VerifierAgrees`, for every program,
  network, number of steps, bootstrap burst and `MaxInt`.  `RuntimeProofs` holds
  the lemmas about the operators of `Runtime` it rests on, `VerifyProofs` those
  about what `tool verify` makes of the events a node writes.
* `ClusterProofs`: `TypeOK` and `LocalAgrees` of `Cluster`, for any number of
  nodes, any topology, program and losses, and kills at any point.

`FailureReplays`, `ReplayReproduces`, `ReplayExact` and `EditsDetected` are proved
under `SameCommandLine`: replay is given the recorder's node id, peers, steps and
bootstrap options.  Nothing in the code enforces it, because none of these is in
the trace; `replay_quick_start` shows a replay without it.

`VerdictExact` and `LoadedIsText` are proved under `Honest`: what the language is
defined by, the meaning a table of lines gives each of its lines, is what the
keywords and the line parsers make of that line alone (`Meaning`).  The two
properties then say what the parser's state, `load_program` and the checks make
of many lines.  Whether one line is read as meant is a question about the
tokens of that line, which TLC answers for the lines of the run: each of them
satisfies `Honest`.  It is a hypothesis and not an assumption on a
constant because it speaks of the parsers, which the run is to find at fault if
they are changed.

`VerifierAgrees` is proved under `Peers`: what arrives comes from other nodes, is
what a node can have sent (an answer with a provenance, no two messages of a node
with one id), and the program has no service named `System`, whose actor would
pass for the sender of bootstrap messages.  `LocalAgrees` does not assume the first
part of this, the nodes of `Cluster` are shown to keep to it; it is proved under
`Once`, that no node is started twice, as in the `cluster` run, because a
restarted node uses its ids again, which `cluster_restart` shows the tools do not
survive.

### Assumptions

Besides types of constants these stand for facts the modules do not model:
`TextAssumption` and `PhaseSpecAssumption` say that parts of arguments are
arguments and that `Specs` holds every phase the command lines can spell;
`TokensAssumption` says that the tokens of a line are strings;
`TypesAssumption` says what the Rust types of a parsed program say, that state
values and operands are `i64`, delays unsigned, and a handler's actions a list.
`ProgramAssumption` is `LoadedIsRunnable`'s conclusion.  `CfgAssumption` has
finitely many peers, as has each node in `ConfigAssumption`, `InboundAssumption` finitely many envelopes.  TLC evaluates
each of them on the instance it runs.

### The ingress

None of the ingress invariants is inductive alone.  The inductive invariant adds
what the code relies on silently: the policy in force is one of the
configuration's; the buffer is non-empty only during the drain and holds fewer
envelopes than the window; the queues are distinct and disjoint from each other,
from the channel and from the wire; every envelope in a queue carries a release
step at most `MaxDelay` after the step of its ingest call; and after a release
the front of the pending queue lies ahead.  From the last two `BoundedWait`
follows for the whole queue: the front was ingested no later than what stands
behind it.  `StampedBy` names the relation between a staged envelope and its
ingest call; the lemmas before the main theorem say what the operators of
`FaultInjector` do to the set of envelopes in a queue and to distinctness.

For `ReorderConfined` the invariant is about a line: the envelopes received, in
the order of the trace, followed by those pending.  Operations extend the line at
its end only, by one envelope while the buffer is empty and by the reversed
buffer at a flush; a release moves the boundary between the two halves.  The
buffer is in order of arrival, was filled in one step under one policy, and holds
whatever arrived after its first envelope and was not dropped, so everything in
the line arrived before it.  An inversion thus arises within one flushed chunk,
which is no longer than the window, and every envelope of a reordered chunk gets
its Reorder event; later steps only add to the trace.

### The command line and the loader

For the phases the invariant says that the phases are sorted, that the checked
prefix is sound, and that `prev_end` is the end of its last phase.  Rejection is
then always caused by a pair of neighbours that share a step, and in a sorted
list any two phases that share a step have a neighbour pair that does.

For `ConfigOK` the invariant is `ConfigOK` itself with the fact that `args` never
changes, so that what stands behind an option is an argument and its phase one
`FaultPhases` allows; each step of the walk is then a step of `FaultPhases` or none
(`ScheduleSteps`), and what was proved of schedules holds.  `LastWins` and
`OutcomeExact` are about the whole command line, the invariant `ReadInv` about
what was read of it: where the walk stands an option stands, every option before
it was understood, each field holds the last of its values so far, each peer the
last address for its id, and the phases are those of the phase options in order.
Which words are options is settled from the left, so the walk's idea of them and
the definition's agree by induction over the position.  `PolicyAsWritten` follows
from `LastWins` and `PolicyUnambiguous`: the sorted schedule has the phases
written, and with at most one active in a step it does not matter where the sort
put it.

For `LoadedIsRunnable` the invariant `LoaderOK` says that the program under
construction has exactly the services taken so far, that a service being loaded
has plans for the handlers taken, and that every handler checked is valid against
the final program; the check ends only when no handler is left, in whatever order
they were taken.

For `VerdictExact` and `LoadedIsText` two definitions have to meet that share
nothing: the parser keeps an open service and an open handler and appends to
lists; the language asks of each line which header stands above it, of each
handler which lines are below, and knows no order of reading.  Between them stand
`Decls`, the declarations by positions: the list of services is the list of
service lines in their order, each with the states and handlers under it.
`ParserInv` says that the parser's declarations, with what is open put where
`flush_handler` and `flush_service` would put it, are always `Decls`.  Each kind
of line is then a lemma: a line more changes `Decls` in one place (`LineMore`,
`StatesMore` to `DeclsMore`), which is the last one, and the parser's step is
that change (`StepService` to `StepAction`).  `Fits` is what a line may be where
it stands.  The parser refuses exactly the lines that do not fit, such
a line makes every text it is in ill formed (`Refused`), and a line that fits
leaves the others in their places (`PlacedMore`).  An end of file refused is a
handler left open without its lines, or no service.

`LoadingInv` says that the program so far is that of the services taken and the
handlers loaded, no two of one name among them, and that every handler checked is
valid.  A service, state or handler refused for its name is one the text has
twice; a handler refused in the check is one whose actions refer to a state or
service the text lacks, or whose effects are not those inferred
(`HandlerChecked`), and both sides of that are the same for any order of the
checks.  When the check ends all of `WellFormed` holds, and `Written`, which
chooses a line for each name, is the program, since the names differ.

### Record and replay

The recorder and the replaying process share no state to relate them by, and
take steps of different size: an iteration against an event.  Between them the
proof puts a reader of the trace, what replay makes of the events read so far,
told one event at a time and without a verdict: a node, the emissions that must
come next and how many of them have come.

* Two nodes are `Alike` if they differ at most in the steps their timers are due
  and in what they wrote to the wire; replay, which counts deliveries and not
  iterations, cannot do better.  Alike nodes emit the same events and stay
  alike, through each operator of `Runtime`; the wire and the due steps are
  never read by a handler.
* `RecordInv`: the node of a reader that has read all the recorder wrote is alike
  to the recorder's.  The timers a recorder fires are read one by one, in the
  order of their ids, although the reader does not know which are due.  The
  trace of a failing handler ends in a `Deliver` the reader refuses, and what
  stands before it can be read.
* `ReplayInv`: replay's node is alike to that of the reader at its cursor, its
  step is the number of deliveries read, and nothing went to the wire.  So replay
  can go wherever the reader went, which is to the end of a whole trace, to the
  last event of one that a handler ended, and to where it strays from one that
  was edited (`Followed`).

The final node is then alike to the recorder's, hence has the same inboxes, and
the verdict depends on nothing else.  `Node` is the type of a node: in
particular timer ids are unique, being below the counter, which makes the choice
of the timer an event names, and the order of firing, determined.  `TypeInv` adds that no timer of the recorder is
overdue, from which `TimersPunctual` follows.

`DeliveredInOrder` concerns the recorder alone; `OrderInv` says of each actor what
its inbox has to do with the events written: the k-th message that came is the
k-th served, or, if fewer were served, it stands in the inbox that much nearer
its front, and then nothing has been delivered to an actor of a greater id since
it came.  The last part needs that the scheduler serves the least ready id and
looks at inboxes that hold a waiting message; the first is kept by each event,
and an iteration writes many, so the invariant is carried through the folds of
`Runtime` event by event, a trace `p` written before in front of it (`Keeping`).

For `EditsDetected` the reader is sent over the edited file.  It strays
(`Strays`) where another event comes than the one it waits for, or where an
emission comes that it does not wait for; replay, if it comes so far, rejects the
trace there.  What makes the reader stray is that after a delivery or a timer
firing it always waits for an emission (`ReadersFit`), so the two never stand
next to each other.  A removed or repeated line may stand in a run of equal lines;
the difference then shows at the end of the run (`RunEnds`).  An edit of inbound
evidence leaves `Outputs` as they are (`OutputsRemoval`, `OutputsRepetition`,
`OutputsExchange`), and of those replay promises nothing.

`TornInv` says that replay has read no torn line and accepts at the end only;
`EditInv` that until someone edits it a whole trace is what was written and its
lines are numbered from zero, and that an edit leaves a wrong number behind or
takes away the last line.

### The verifier

For `VerifierAgrees` and `LocalAgrees` the verifier is told a trace one event at a
time (`Tells`), and `Books` says how its books stand beside the node: what it
holds for pending is, service by service and in order, what stands in the inbox,
with the messages for services the program lacks; the messages whose delivery it
has seen are those the node has delivered; every pending message is a bootstrap
message, an answer to a delivered one or a peer's, with a provenance to match; no
two are the same, and no outgoing envelope bears the id of a local message.
`Audited` adds that it has found nothing wrong and waits for nothing.  An
iteration of the recording loop keeps it so, through each fold of `Runtime`, but
for the `Deliver` of a handler that fails, after which the verifier waits in vain
for evidence (`IterationAudited`); the beginning of an audited trace, which a kill
leaves, has no other problem than to end too soon (`PrefixTold`).  The number of
pending messages is a sum over services, which a message more in one inbox raises
by one; the sum is taken over growing sets of services (`UpTo`), since a fold over
a set does not say in which order it runs.

What a node may rely on of the network it has from the other nodes.  `LocalInv`
says of the whole cluster that the messages on their way and those drained are
those written, that the books of each node stand beside its trace, and that what
has come to a node is genuine: it is written by another, answers what its sender
delivered, and is drained once.  That no two messages that come to a node answer
each other needs both ends: a message is an answer to one that came to its sender
or to one its sender kept for itself, never to one its sender sent away.

### Induction over data

A handler's run is a fold over its actions, start-up and dispatch are folds too,
and what holds of all of them needs induction over a sequence.  The library's
theorems for it take an operator as a parameter, which the provers cannot
instantiate.  `RuntimeProofs` states induction for sets instead, as does
`ServiceProgramProofs`: `LeastNumber`,
every non-empty set of numbers has a least one, is the library's theorem about
minima of well-founded relations, which has no such parameter, and `Induction`
follows.  A run lemma for each fold (`PerformRun`, `EmitRun`, `FireRun`,
`ReceiveRun`, `BootRun`, `OutputsRun`) gives the sequence of intermediate results; what one
step preserves then holds of the last of them.

### What proving changed

Two definitions had `CASE` guards that can hold together, where TLC takes the
first and the language promises nothing: the verdict of `OutcomeExact` and
`TargetNodes`, whose order in the code is that of an `if` and its `else`.  Both
are spelled with `IF` now.  `RecordReplay` said nothing of the types of a
program's values, which `TypesAssumption` now does.  `DeliveredInOrder` compared subsequences made with
`SelectSeq`, of which no prover here knows anything; it counts positions now, and
`Outputs` is a fold.  `ConfigAssumption` now says that peers are node ids and
finitely many, as the command line gives them.  `InOrder`, the lines of a set in
the order of the text, used a function that chooses among all sequences and that
the library gives no facts about; it numbers the members now, each by how many
are not above it.

### What is only model-checked

What `cluster-verify` and `lineage` compute: `ClusterExact`, `CommandExact` and
`KillsExplained` compare cardinalities of maps that are folded over every order of
every set of traces, and `LineageExact` is true only of chains of messages shorter
than the 256 after which `lineage-path` gives up, which no program bounds.
Liveness (`Terminates`, `ReplayTerminates`), which is out of the prover's reach.

## Plan

1. (done) ingress, command line, program loader, record and replay, `tool
   verify`; a cluster of nodes, `cluster-verify` and lineage.
2. (done) proofs of the ingress with its refinement, of the command line with its
   schedule, of the parser and the loader, and of replay against recording.
3. (done) proofs of `tool verify` against recording, and of the cluster's local
   verdicts.
4. Left: the maps of `cluster-verify`.  `LocalInv` has the facts about the network
   they need; missing is what each fold over the traces leaves in its map.

## Not modelled

A peer that never stops sending: `Terminates` is about finitely many envelopes.
An envelope whose `from_node` is no id: no code of the repository writes one, and
an action that answers such a sender would send nothing.  What a kill leaves in a trace of
`Cluster` are whole lines; the tool cannot read a file whose last line is torn and
ends before it judges anything, and replay's way with one is in `RecordReplay`.
Template rendering beyond the actor state it shows, problem wording and
classification, and JSON reports; the argument parsing of `tool`, and that a
report asked for with `--report-json` stays that of an earlier run when a trace
cannot be read.  Characters that make up a word are one piece to `tokenize`.
`verify_trace`'s checks of the seed, of an effect observed twice and of payloads
that do not decode: the recorder writes a constant, a set and what it has just
encoded, and no removed, repeated or exchanged line makes them fail.  A program
with a service named `System`, whose actor would pass for the sender of bootstrap
messages.  Connection attempts block the sender and change no state.  `u64` step arithmetic
saturates at 2^64, which no run reaches.  Scripts, containers and CI start the
programs and compare their output.  The Lean kernel is a formal model itself.
