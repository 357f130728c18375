# A verification project for xtce-sim

xtce-sim simulates a spacecraft from its XTCE definition: it serves CCSDS
telemetry to TCP clients, executes their commands, stores uploaded files and
runs stored command sequences on board. This directory holds TLA+ models of its
parts that have state, concurrency or failure, the TLC runs that check them on
small instances, and TLAPS proofs of the properties that matter most.

Line numbers refer to `src/xtce_sim/` unless a path says otherwise. `PROJECT.json`
lists the components, the runs, the mutants that show that each property can
fail, the hazards with the line where each bites, and the lines each definition
models.

## 1. Inventory

Everything that changes state runs in one process on one asyncio event loop: a
step is what a task does between two awaits. Threads appear only in the ground
tools.

| Component | State | Operations | Interacts with |
|---|---|---|---|
| Sequencer (`sequencer.py`) | two slots: plan, state, position, base, counters, last record, generation | load, load_failed, start, stop, abort, tick, next_deadline, status | fires commands through an injected executor, which may come back to it |
| Sequence waiter (`server.py` `_sequence_loop`) | the event `_seq_wake`, its sleep | tick, push the status, sleep | sequencer, dispatch, send queues |
| Sequence service (`seqservice.py`) | the sequencer, the packet bindings, the plan store | the ATS and RTS commands, values_for | file store (reads plans), dispatch |
| Sequence plans (`sequences.py`) | none | parse, sort, validate, shift | the plan guarantees the sequencer relies on; the tools `seq check` and `seq shift` |
| File service (`fileservice.py`) | the store on disk, one transfer for each connection, the received count | START, DATA, FINISH, malformed frame, connection_closed, FILE_LIST, FILE_STATUS, FILE_DELETE | server (receipts are broadcast) |
| Ground upload (`client.py`) | socket, matcher with its baseline | upload_file, _await_receipt | server, over TCP |
| Server links (`server.py`) | `_clients`: a bounded queue and a writer task each | connect, read, enqueue, drop, disconnect, start, stop | everything that sends |
| Dispatch and echo (`server.py`) | none of its own | decode, validate, effects, consumers, echo | behavior engine, both services, command handler |
| Beacon (`server.py`) | periods, due times, gate, wake event | beacon loop, retime, enable, disable | clock, links, behavior engine |
| Downlink session (`server.py`) | active flag, priority | start, stop, re-assert | dispatch |
| Packets and framing (`ccsds.py`) | sequence counter for each APID, the reader's buffer | frame, deframe, build, parse, next | all links |
| Behavior engine (`behavior/`) | overlay of field values, active behaviors, pending immediate packets | apply_command, tick, values_for, pop_immediate_apids | dispatch, beacon |
| Web console bridge (`webui.py`) | link flag, simulator's writer, browser queues | connect and reconnect, fan out, command | server, browsers |
| Viewer bridge (`bridge.py`) | viewer queues (oldest dropped) | broadcast, subscribe, shut down | server, SSE viewers |
| ADCS modes (`dynamics/modes.py`) | mode, timers | command a mode, step | physics |
| Physics, constellations, algebra (`dynamics/`, `constellation.py`) | floating-point vectors | integrate | behavior engine |
| Exerciser (`exercise.py`) | none kept | plan of boundary cases, run it, check the telemetry | server, over TCP |
| Definitions, codec, parser (`definition.py`, `models.py`, `codec.py`, `parser/`) | none | parse, encode, decode | all |
| Generator, command line, logs, rendering (`generate.py`, `cli.py`, ...) | none | text and files | user |

### What is hard, and what makes each part correct

*Sequencer.* `tick()` awaits every command it fires. While it waits, the fired
command or any client may stop, abort, reload or restart the very slot, or
`tick()` may be entered again. The code claims the entry before the await and
compares a generation number after it. Correct means: no entry is fired twice or
passed over, a record never lands on a later run, plans run in order and never
early, a run is never torn down by a LOAD.

*Waiter.* A nudge may come before, during or after a pass, and the clock that
deadlines use is not the timer that the sleep uses. Correct means: no nudge is
lost, no due entry waits for ever, the console shows the slots as they are.

*File service.* Transfers on several connections share one store, and the room
that a START promised may be gone at FINISH. Correct means: the quota is kept,
only whole and verified files land, every transfer is answered, and receipts are
true.

*Upload.* Receipts are broadcast, carry no transaction number, may be lost with
a dropped client, and other commands answer with receipts of the same shape.
Correct means: a reported success is on board, a connected ground is answered, no
transfer outlives its link.

*Links and lifecycle.* A client may be dropped from inside a send that its own
frame caused; `stop()` cancels tasks that may be completing a wait. Correct
means: no client blocks another, shutdown ends.

*Beacon.* Retiming, gate and falling behind interleave. Correct means: no burst,
no drift, a new period takes effect at once.

*Dispatch.* Several consumers may claim one command, any of them may raise, and
the handler is awaited while the loop runs other tasks. Correct means: one echo for
a command, and one that says what was done.

*Behavior engine.* A direct write cancels a behavior of its field; templates name
fields that are only known when a command comes; the physics models own fields in
part. Correct means: one writer at a time for a field, what passed the loader works,
the battery carries what is switched on.

*Attitude control.* The controller and the operator write the same motors, and a
law leaves torques behind when it ends. Correct means: no motor runs on a torque
that nobody commands any more.

*Bridges.* The link flag and the browsers' view of it may come apart; full queues
drop events or browsers. Correct means: every browser shows the present state,
"transmitted" is true, no satellite is lost, the bridge reconnects.

*Streams, codecs, plans.* A stream is cut at any byte; ground and vehicle check the
same argument on different sides of a lossy encoding; a plan is parsed by two
programs. Correct means: the reader gets what was sent, both ends agree, the plan
that runs is the whole file.

## 2. Modules

| Module | Models | Composition |
|---|---|---|
| `SlotPromise` | what one slot promises, abstractly | implemented by `Sequencer` (twice, once for each slot) |
| `Sequencer` | `sequencer.py` with any number of concurrent `tick()` calls | |
| `SequencerClock` | the same, with a history of its wall clock | EXTENDS `Sequencer` |
| `SequenceLemmas` | facts about numbers and sequences for the proofs: least and greatest numbers, flattened sequences | EXTENDS the library's theorems, TLAPS |
| `SequencerProofs` | theorems about `Sequencer` and `SequencerClock` | EXTENDS `SequencerClock`, TLAPS |
| `SequenceWaiter` | `_sequence_loop` and the nudges of dispatch | EXTENDS `Sequencer` |
| `SequenceWaiterProofs` | theorems about `SequenceWaiter` | EXTENDS `SequenceWaiter`, `SequencerProofs` |
| `FileService` | `fileservice.py` | |
| `FileServiceProofs` | theorems about `FileService` | EXTENDS `FileService`, TLAPS |
| `Upload` | grounds, links, receipts, console, restart | EXTENDS `FileService` |
| `UploadProofs` | theorems about `Upload` | EXTENDS `Upload`, `FileServiceProofs` |
| `Beacon` | the beacon schedule of `server.py` and the commands that gate and retime it, the downlink session | |
| `WebConsole` | `webui.py`: the link task, the browsers' handlers and writers | in `MCGround` |
| `ViewerBridge` | `bridge.py`: roster, feeds, populations, viewers, shutdown | in `MCGround` |
| `Framing` | `ccsds.py`: framing, the incremental scanner, sequence counters | in `MCGround` |
| `DownlinkProofs` | theorems about `Beacon` and `Framing` | EXTENDS them, `SequenceLemmas` |
| `Exercise` | `exercise.py` (the sweep) with the command codec of both ends | in `MCGround` |
| `SequencePlans` | `sequences.py`, `seq check`, `seq shift`, LOAD of `seqservice.py` | in `MCGround` |
| `StatusTelemetry` | `values_for`, the layers of a status packet, `pack_telemetry` | in `MCGround` |
| `TelemetryCheck` | `check_telemetry` of `exercise.py` against a beaconing vehicle | in `MCGround` |
| `GroundProofs` | theorems about `WebConsole`, `TelemetryCheck`, `StatusTelemetry`, `SequencePlans`, `ViewerBridge` and `Exercise` | EXTENDS them, `SequenceLemmas` |
| `ModelLoad` | what the loader accepts of `[_models]` and `[_environment]` | |
| `BehaviorLoad` | what the loader accepts of behavior files, and their merging | EXTENDS `ModelLoad` |
| `Behavior` | `behavior/engine.py`, the verbs, the power model's arithmetic of loads | EXTENDS `BehaviorLoad`, in `MCVehicle` |
| `Adcs` | mode machine, controller, wheel motors | in `MCVehicle` |
| `SimServer` | every task of `server.py` from connection to `stop()`, and the dispatch | in `MCVehicle` |
| `VehicleProofs` | theorems about `Adcs`, `SimServer` and `Behavior` | EXTENDS them, `SequenceLemmas` |
| `MCGround`, `MCVehicle` | the programs of the ground, and the parts of the vehicle, side by side | EXTENDS the modules above |
| `MC...` | the small instances | EXTENDS the module they instantiate |

### Sequencer

`slots` is `Sequencer._slots`, a record of `_Slot` for each kind. `ticks` holds
the calls of `tick()` in progress, which are local variables in the code:
`scanning` between an entry and the next await, `firing` while the executor is
awaited. `clock` is what `service.clock()` returns. One action stands for each
method (`Load`, `LoadFailed`, `Start`, `Stop`, `Abort`). `tick` is cut at its
awaits: `TickBegin`, `Fire` (which claims the entry, then awaits), `FireReturns`
(which records it, if the generation is still the one that fired) and `TickEnd`
(which completes exhausted slots and returns). `Suspended` says that no call is
between two awaits; that is when the event loop may run something else, and it
guards every action that is not a continuation of `tick`.

A refused command changes nothing, so it is no step; the refusals are the guards.
Results (SUCCESS, FAILED) of fired commands are a free choice, as the executor is
injected. What a fired command does to the slots is not tied to its name: any
command may be given at any await, which includes every fired command that does
the same. Log texts and `error_name` are left out.

`SequencerClock` adds nothing but a history variable, `setBack`: whether the wall
clock was ever set back. What the sequencer promises about times it promises of the
behaviours in which it was not.

`SlotPromise` runs a plan in windows: `Open` with some entries still to come,
`Dispatch` one by one, `Finish` when none is left, or `Halt` and `Discard`; it has
no way to be given another plan while it runs. The refinement maps the state of a
slot to a phase, `skipped` to where the window began and `position` to where it
is.

### SequenceWaiter

Adds `wake` (`_seq_wake`), the local variables `nudged` and `fired`, whether the
waiter sleeps, what is left of its timer, and the status `shown` by the last push.
`PassBegin` takes the nudge and enters `tick`, `PassFires` and `CommandAnswered`
are the awaited commands, and `PassEnd` pushes the status, reads the next deadline
and goes to sleep. The steps of the waiter after `tick` returns contain no await,
hence one action. `SequenceCommand` is a command through `_dispatch`, accepted or
refused, which sets `wake` in both cases. Timer and wall clock are separate:
`Elapse` moves both, `ClockJumps` and `ClockSetBack` set the wall clock only
(`clockSet` remembers, for the properties only, that this happened during the
present sleep).

### FileService

`store` is the directory (name to content), `transfers` is `_transfers`, keyed by
connection, `landed` is `_received_count`, and `receipts` holds what the last
handler returned: the properties look at it in the step that made it. Each handler
is one action, as none of them awaits. A content is a sequence of bytes and its
CRC is the content itself, so that two contents never collide; a START may declare
any CRC of `Files`, so the content that arrives may or may not match. Names that
`name_problem` refuses are reported truncated, and may then read like the name of a
file that exists (`Reported`). A write that the disk refuses is the second disjunct
of `OnFinish`. `Restart` is the end and the new start of the process: the store
stays, the transfers and the counter go.

### Upload

`FileService` behind real connections. A ground sends all its frames at once
(`upload_file` does), so `uplink` holds what the server has not read yet, and the
frames arrive in order or not at all. `downlink` is what lies between the server's
queue of that client and the ground's matcher; its bound is the client's queue.
`Broadcast` appends the receipts to every client, and drops one whose queue is
full. A dropped client's frames that had been received may still be handled
(`FrameArrives` in state `dropped`), until its reader comes to the end
(`ConnectionEnds`), which aborts its transfer. `GroundReads` is
`_ReceiptMatcher.verdict` on one receipt. `landedOwn` and `held` are history
variables for the properties only.

### Beacon

`periods`, `nextDue`, `enabled`, `wake`, `active` and `priority` are the fields of
`SimServer`, and `ticked` is the loop's `last_tick`. A pass of `_beacon_loop`, with
`_emit_due_packets` inside it, contains no await, so `BeaconPass` is one action at
one reading of the monotonic clock: it re-arms every due packet, sends those the
gate, the clients and the event-only rule let through (any part of them, as a
send may fail and the last client may be dropped on the way), and goes to sleep
until `wakeAt`. `Elapse` moves the clock by any amount, and the loop need not run
when its timer goes off: lateness and a suspended host are the same thing here.
The commands of `_apply_link_conventions` are `SetBeaconEnabled`, `SetTlmPeriod`
(with `Retimed`, its guard and its effect on the schedule) and `DownlinkStart` and
`DownlinkStop`; a refused one changes nothing. `sends` remembers the last three
beacons of each packet, for the properties only. The snapshot of GET_STATUS sends
packets without touching the schedule; it is one of the `sends` of a command in
`SimServer`.

### SimServer

`main` is the coroutine that serves and then stops, cut at its awaits; `loop` the
beacon and the sequencer task; `conn` the reader and the writer of each client with
the length of its queue; `listed` is `_clients`; `job` the dispatch that awaits the
command handler, one for each task that can dispatch. `Dispatch` is `_dispatch` up
to that await: the refusals of its guard, then the consumers in the order in which
they are called (`Order`), with a raise at any of them, whose predecessors have
already sent and done their part; `Handled` is the rest, with the echo. A push to
the clients may drop any of them, the one whose frame is being handled included
(`Pushed`). `Interrupt` and `ListenerCloses` are Ctrl-C, `Stop` a program that calls
`stop()` itself; `CancelBeacon` to `Stopped` are the awaits of `stop()`. What a
command is to the consumers is its `claims` and `sends`: their insides are the other
modules. What asyncio does when it closes its server is the constant
`WaitsForClients`, as it changed between versions of Python.

### ModelLoad, BehaviorLoad and Behavior

The loader is a conjunction, because one problem refuses all files: `ModelLoad` has
the conditions on models and environment, `BehaviorLoad` those on the entries
(templates and their expansions, live operands, what fits a field, who owns it) and
the merging of files. Names are pairs of a base and a suffix, so that a template is a
base with a literal suffix or with that of an argument. Arguments without labels and the
bounds of their ranges are counted in halves, so that a float may lie between the numbers
its range is expanded to. `Behavior` runs what was accepted.
`engine` holds the overlay in wire form, the registry of active behaviors in the order
in which it is advanced, the pending immediate packets and the values that the models
were last given. `ApplyCommand` is `apply_command`, `Tick` one pass of the beacon loop:
behaviors, then models, with a power model that reads the heaters after the loops have
decided. Numbers are small integers; a verb of continuous time (ramp, oscillate,
noise) moves by any of the `Draws`, in the direction that the code gives it. `told` and
`lastWord` are history variables for the properties only.

### Adcs

`machine` is the mode machine with the controller, `motor` the commands of the wheels,
`speed` their momentum. `Substep` is one substep of `advance`: the law writes the
wheels it may, the plant runs every motor within its limits, and the magnetorquers get
their causes. Which torque the law computes, where the axes lie and whether a field is
zero are choices. `fed` records what each motor ran on.

### WebConsole

`downlink` says where `downlink_loop` is, `transport` is the connection to the
simulator and what befell it (closed, reset), `stage` is where each `handle_ws` is,
with its queue `outbox`, what it has `told` its browser, and the link on which it awaits
an `uplink()`. `Publish` is `_broadcast`, which drops a browser whose queue is full.
Messages are their type; a verdict carries the number of the link its command went to.
`missed` remembers the browsers that were between their greeting and their
registration when the link last changed: the code can indeed miss them (section 3,
Observations).

### ViewerBridge

`roster` is a configuration (refused ones do not start), `feeds` the state of each
`feed_loop`, `turn` that of each population, `queues` the viewers' queues, from which
the oldest event goes when they are full. `phase` runs through the shutdown with its
farewells: these are put into each queue in one go, in an order that the code takes
from a dictionary of feeds and then the constellations. No property depends on it, so
`Farewell` is any order of the fleet, and a queue holds as many of the last events as fit.

### Framing

One direction of one link. A byte is a number with, in a CRC, the packet it protects,
so that a frame checks exactly if it is whole. `Read` takes any number of the bytes in
flight; `Deframe` is the scanner of the code over the reader's buffer, and `ScanFrom` one
pass of its loop, from a position of the buffer to the next. One byte of a frame may be
spoilt, in its length, its body or its CRC. A payload has at most the bytes that the two
bytes of a frame's length can count (`FramingAssumption`); the code fails to pack a longer
one.

### Exercise

`OperatorSends` and `SendNext` take a command of an operator or of the sweep through the checks of the
ground, the encoding (widths, rounding of 32-bit floats, enumerations with aliases),
and the checks of the vehicle on the decoded value. A type is a few bits wide, and a
32-bit float keeps even numbers up to `Float32Max`, which is the shape of the real
one at a small scale. Its finest step, two units, is also the least by which
`_invalid_float_value` goes beyond a bound (`max(1.0, half of it)`, `Margin`): the real
margin is never less than the step of a 32-bit float at that place, and that is why a probe
stays out of range after it was rounded. A 64-bit float is not rounded and has no ends.

### SequencePlans, StatusTelemetry, TelemetryCheck

`SequencePlans`: the operator writes, checks, shifts and uploads a file; a LOAD reads
what is under that name then. A file is a sequence of lines of words; parsing is
translated, tokens are not spelt out. The entries of a file are a set, and its plan is
that set in the order of time and then of lines, which is what a stable sort does. `StatusTelemetry`: any declaration of a status
packet, and what the layers below and the width of the fields make of the values.
`TelemetryCheck`: the read loop of the check against a vehicle whose packets have periods
and phases, or with one thing wrong.

`MCGround` and `MCVehicle` put these modules side by side: a behaviour picks one of
them (`process`, `part`) and moves only that one. They share no state in the code
either, except through links that their own modules have; one run for all of them
keeps the constants, and the reading, in one place. `Sequencer` and `SequenceWaiter`,
`FileService` and `Upload`, on the other hand, are compositions that interact.

## 3. Runs

| Run | Question | Instance |
|---|---|---|
| `sequencer` | Do two concurrent ticks and every command at every await keep the books, the order and the promise, under a clock that may be set back? | 2 callers, plans of 1 and 2 entries with ties, clock to 3, 3 runs for each slot |
| `waiter` | Is any nudge or due entry lost, and what does a clock that is set do to the sleep? | one plan for each slot, cap 2, clock to 3, set forward and back |
| `file_service` | Quota, verification, answers, receipts | 2 connections, 2 names, 1 refused name, contents of 0 to 2 bytes, quota 3 |
| `upload` | What may a ground conclude from receipts? | 2 grounds, an empty and a non-empty file of one name, queues of 2 |
| `upload_answered` | Is every connected ground answered? | 1 ground and the console, queue of 3 |
| `upload_twin` | Does a false success need an empty file, as documented? (It does not.) | as `upload` |
| `beacon` | Does the schedule burst, drift, or get slept over? | a packet of period 3 that may be retimed to 2 (and, refused, to 1), an event-only one, up for less or more than a period, clock to 12 |
| `beacon_downlink` | Does an unusable priority fall back to NORMAL, as documented? (It does not.) | as `beacon` |
| `ground` | Console, viewers, streams, codecs, plans, status and health check: ten properties, below | see below |
| `vehicle` | Engine, attitude control, server: six properties, below | see below |
| `console_forever` | Does the console stay connected for ever, as documented? (Not after a reset.) | as `ground` |
| `shutdown` | Does an interrupted server always reach `stop()`, as documented? (Not with an idle client on Python 3.12.) | as `vehicle`, `WaitsForClients` |

The properties of `ground`: `IndicatorsAgree` (a browser shows the link as it is, up to
the window named under Observations), `TransmittedIsHonest` (no command is called
transmitted whose own link had gone), `LossIsAnnounced` (stalled browsers do not hold
up the downlink), `QueuesKeepTheFleet` (a queue that drops its oldest loses no
satellite's last word), `StreamIsExact` (any cut of the stream gives the packets sent,
with counters in step), `VerdictsAgree` (ground and vehicle judge a command alike, and
the exerciser's probes are always rejected on board), `PlanIsTheWholeFile` (what a slot
holds is every line of the file, in order, and `seq check` had passed it),
`ShiftKeepsThePlan`, `StatusIsHonest` (a field that does not show the slot as it is is
named in the log) and `HealthIsJudgedRightly`.

The properties of `vehicle`: `OneWriterPerField` (what the last command did to a field
stands), `LoadedEffectsApply` (an effect that passed the loader is skipped only for
reasons it leaves to the execution: a copied argument, a template without a bound or
a label, a float argument between the numbers that its range was expanded to, a model's
field, a reference to itself), `PowerFollowsSwitches` (after a tick the
battery carries the loads as the switches and the elements of the thermostats then are),
`NoStaleTorque`, `EchoTellsTheTruth` and `StopCompletes`.

**Why these bounds are enough to be interesting.** Two callers of `tick()` are
what it takes for one to claim an entry while the other waits; with three runs for
each slot a record can come back after its slot was restarted twice. The plans
have an entry at the instant of START, entries before it, ties across slots, and a
plan that is entirely past. A quota of three bytes with files of up to two lets
two transfers be promised the same room and lets a replacement count its own old
bytes. A queue of two overflows with the receipts of one START and one FINISH from
two grounds. In the beacon runs twelve units of time hold four periods, so that three
beacons can be paced, late by less than a period, or late by several.

In `ground`, two links are what it takes for a command to be written on one and judged
on the next, and queues of two fill with a link message behind a verdict. One viewer is
enough, as viewers do not see each other; six rosters overlap in an identifier, hold an
unsound entry, or are larger than the queue's floor. A counter of one bit wraps twice
within three frames. The five command lists have bounds inside, at and beyond the wire,
aliases, and bounds that a 32-bit float rounds. Eight files, in three zones and with each
reason for refusal, meet two writings and two delays. Four status packets declare
everything, too little, the wrong types, and what cannot be packed. The packets of the
health check beacon at 2 and at 6 against a timeout of 4.

In `vehicle`, four sets of behavior files that use every verb, templates, live operands
and two models, one pair of files in conflict, and nine with exactly one problem each (of
these ten the loader must let none through) meet every command of a definition with bounded, enumerated and unbounded arguments, valid and not. Two wheels let
one be disabled while the other is driven. One client with a queue of two can be dropped
by the very packets its command sends; its six packets have each fault, and claims that
share a command between two consumers.

`MaxGeneration`, `MaxClock`, `MaxNow`, `MaxLanded`, `MaxLinks`, `MaxFrames`, `MaxProbes`,
`MaxDrafts` and `MaxTime` bound counters that the code does not bound: at its bound a
counter's action is disabled, which removes behaviours but adds none. `RunIsStable` and
the inductive invariant hold under a clock that steps back; `FiresOnTime` and
`FiresInOrder` ask that it never was (`~setBack`), and are checked in the same run.

**Views and symmetry.** `receipts` is left out of the view of the file runs:
no guard reads it, and the properties that do look at the primed value of the step
itself. Grounds and callers of `tick()` are symmetric sets; no run that checks
liveness uses symmetry.

**Deadlock** is checked, except where the system may really stop: in the upload runs all
uploads may be over, and in `ground` and `vehicle` (with the runs that share their
instances) a sweep, a check, a console that failed or a server that has stopped is at
its end.

### Fairness

`SequenceWaiter!Fairness`: a task that can run does run (`PassBegin`, and the
steps inside a pass), a command handler returns, and the timer of the loop
advances. The first and the last are what the event loop gives. That a handler
returns is an assumption on `command_handler`, which the server takes from its
caller; there is no timeout in the code, and a handler that never returns does stop
the sequencer (see Observations). Nothing is assumed of commands: they may
come for ever or never.

`UploadFairness`: the server reads what has arrived and sees the end of a
connection, and a ground reads what it was sent. Nothing is assumed of timeouts,
link losses or the console, so `EveryUploadIsAnswered` does not rest on the
ground giving up.

`WebFairness`: the downlink task takes what has come to it (`StreamEnded`,
`StreamFailed`) and ends its pause (`Rested`), which is what the event loop gives.
Nothing is assumed of browsers or of the simulator, so `LossIsAnnounced` holds with
browsers that never read.

`ServerFairness`: tasks that can go on do, a cancelled task ends, a drain ends (the
code gives it a timeout, and so does the last wait of `stop()`), and command handlers
return, as above. Nothing is assumed of what peers send or read, nor that a wait of a
loop ends by itself.

### Findings

`upload_twin`. `client.py:204` accepts any SUCCESS receipt with the upload's own
name, size and CRC whose count is past the last IN_PROGRESS seen. If another ground
uploads the same file and lands first, its receipt confirms ours, whose own
transfer may still fail. The documentation of the matcher says that two grounds
with the identical file err "toward reporting failure rather than success"
(`client.py:155`) and that what remains "needs an empty file" (`client.py:160`).
TLC finds the false success with a file that is not empty. The damage is small, as
`SuccessMeansStored` shows: the file was on board with exactly that content.

`beacon_downlink`. A DOWNLINK_START without a usable Priority leaves the priority
of the session before in force (`server.py:813`). The docstring says that it "falls
back to NORMAL" (`server.py:793`), and the log line it writes says "using NORMAL".

`console_forever`. `downlink_loop` catches only framing errors around its read loop
(`webui.py:320`). A connection that is reset, not closed, raises out of it and ends
the console. Its docstring says "Stay connected to the sim forever" (`webui.py:298`). The
feeds of the viewer bridge are written alike (`bridge.py:187`).

`shutdown`. On Ctrl-C the cancelled `serve_forever` (`server.py:210`) waits for asyncio's
listener before the `finally` clause reaches `stop()`. From Python 3.12 on that wait
includes open connections, so an idle client holds up the shutdown, which is what `stop()`
says it avoids by closing clients first (`server.py:219-222`). On Python 3.11, which the
package also admits, it does not happen; the run sets `WaitsForClients`, and the passing
run does not.

### Observations

Met while modelling; no run claims a violation, the models contain them unless said
otherwise.

- A float argument with a small valid range counts as bounded: the loader checks a template
  with it for the whole numbers inside the range (`behavior/validate.py:215-220`), while any
  fraction inside it passes the check of the vehicle (`codec.py:213-230`) and is substituted
  as it is (`behavior/engine.py:359`). With a range of 1.5 to 2.5 and a field `TEMP2` a file
  with `TEMP{Level}` loads clean, and its effect is skipped when 1.5 arrives, although the
  docstrings of both rules say that each mirrors the other one (`behavior/engine.py:334`,
  `behavior/validate.py:206`). In `vehicle` this happens, in the sidecar `Ramps` with the
  command `TRIM`; it is a reason that `LoadedEffectsApply` has to excuse. A 32-bit float
  whose declared bound rounds to a whole number outside the range is skipped alike; the
  instance has no such bound, but the excuse and the theorem cover it.
- A packet that falls due while the beacon is disabled is re-armed like every other
  (`server.py:397`), so the nudge of ENABLE_BEACON, whose comment says "so overdue packets
  flow now" (`server.py:716`), finds nothing due.
- `stop()` forgets clients that connect during its waits without closing them
  (`server.py:241`), and nothing bounds a command handler that never returns: it stops
  `tick()` and with it both slots (`sequencer.py:300`).
- A link change between a browser's greeting and its registration is not shown to it
  (`webui.py:433`); a dropped browser's command may be transmitted and never answered; a
  stalled browser's socket stays open.
- The run-time check that a behavior does not read the field it drives looks at the
  centre of the effect only (`behavior/engine.py:193`), not at the loop's rates.
- The power model's fields are not checked for enumerations and one-way calibrations
  (`power.py:536-554`); what does not fit is then left alone at every tick, so a battery
  output behind a one-way calibration never shows the current.
- The models are advanced in one order, power after attitude: a switch that a later model
  (or the power model itself) writes is paid for a tick late.
- A manual speed on a wheel that the controller drives goes when the controller idles;
  between substeps a wheel that was just enabled again shows the current of a torque it
  no longer runs on.
- A framing error discards the sound packets of the same read.
- `example_values` truncates a fractional bound of an integer argument; a bound beyond
  the range of a 32-bit float makes `range_violations` raise, so the echo is FAILED and
  not REJECTED. A smallest value above the largest one, or a value of an enumeration that
  its integer cannot hold, is not diagnosed like a range beyond the wire: the sweep sends
  examples that are refused (all three assumed away in `Exercise`, `ParameterSound`). With aliases in an enumeration another label
  may be shown, and `_invalid_enum_value` may find no gap although there is one.
- Status packets: a counter declared as a string keeps the whole packet from ever leaving;
  a text key in an integer field is not reported at the start, although the docstring of
  `_wire_label` says so; a state declared as a string draws a warning that is not true;
  with `--live` a skipped field shows a synthetic value.
- `seq check` refuses extensions that LOAD accepts.
- `check_telemetry` knows nothing of the simulator's `--interval`: a slow one fails a
  healthy vehicle, and a definition without periodic packets is always found silent
  (both assumed away in `TelemetryCheck`).

## 4. Proofs

All theorems hold for every value of the constants that the named assumptions allow: any
set of plans that the parser can produce, any finite set of `tick()` callers, any store,
quota and set of connections, files of every length, queues of every bound, fleets of
every size. No assumption is made of the schedule: fairness has no part in them.

Each proof has one shape. An invariant that TLC checks is strengthened until it is
inductive, one lemma for each action (or group of actions that do the same to it) shows
that it is kept, and the theorem follows. The strengthened invariants were checked with
TLC, as invariants of the runs of section 3, before they were proved; the runs now check
what follows from them. The strengthening is the explanation of why the code is right, so
it is given here for each.

`SequencerProofs`

- `Invariance`: `Spec => []IInv`. `Ledger` is the aim: executed + skipped + the
  number of awaited entries of this run = position. It is not inductive, because a
  call of `tick()` that awaits a command of an earlier run must not become a call
  of a new run. `AwaitedRunsHaveBegun` (no call carries a generation that the slot
  has not reached) closes the gap: a new run takes a generation that no call
  carries, so it begins with nothing awaited. `PlanOnBoard` gives `Start` its plan,
  and `skipped < Total` in a running slot carries `CompleteMeansDispatched`.
  The commands are all `NewRun`s (one lemma), so the proof has one case for them
  and one for each step of `tick`.
- `TypeCorrect`, `LedgerHolds`, `IdleSlotsArePristine`, `CompleteIsHonest`:
  what the invariant contains.
- `SlotsKeepTheirPromise`: each step of the sequencer is a step of `SlotPromise` or
  leaves it unchanged, for both slots.
- `RunsAreStable`: the action property, from the same invariant.
- `WindowIsThePast` and `RecordsAreOfTheRun`: `Spec => []RunInv`, which adds to `IInv`
  that the window of a run lies where its base cuts the plan, and that what a call awaits
  in this run is an entry of this run at or before its position. A record that comes back late is then
  either of this run or has a generation that does not match.
- `NothingLeavesEarly`, `TicksFireInOrder`: `TimeInv`. A call of `tick()` works on a time
  that it read at the start and fires what is due by then, so it lags the clock
  (`TicksLagTheClock`); that alone does not give the order, as a fired command may start a
  run behind the call's back. `LaterIsLater` does: what is pending is due no earlier than
  what any call has fired, because a run that begins now skips what is past now.

`SequenceWaiterProofs`

- `ServiceKeepsTheLedger`: `IInv` holds in the composition too, where commands
  come through the dispatch and the clock jumps forward.
- `StatusPacketsAreCurrent`, `SleepIsShortEnough`: `WaiterInv`. A status that is not
  nudged for, and no pass that fired is under way, was reported; a pass that awaits a
  command has `fired` set, which is why the changes of commands that come in meanwhile
  are pushed.

`FileServiceProofs`

- `FileTypeCorrect`: `Spec => []FTypeOK`, with the bound of each buffer by its
  declared size.
- `QuotaHolds`: bytes are counted as a set of (file, place) pairs, so that landing
  a file replaces one disjoint part of the set by another, and the arithmetic of
  `room_for` (with its credit for the file being replaced) bounds what results.
- `FilesAreVerified`: the action property `OnlyVerifiedFilesLand`.
- `TransfersAreAnswered`, `ReceiptsTellTheTruth`: the action properties about what a
  handler answers, handler by handler. The receipt of a START that supersedes a transfer comes
  before its own, and a `STATUS` of a name that is refused is about the truncated name.

`UploadProofs`

- `UploadInvariance`: `UploadSpec => []UploadInv`, which says of each ground what its
  frames, its transfer on board and the receipts on their way to it have to do with each
  other. A ground that has not begun has nothing under way; only the first of its frames is
  a START; a transfer is of what its ground uploads, and its link stands, or is dropped and
  not yet noticed. While a ground watches, a file of its name in the store with its size
  and CRC is among those it has `held`. Every receipt in its downlink that it can take for
  its own tells the truth (`Conclusive`): a success is of a file that was held, a failure
  without a twin and of a file that is not empty comes after a transfer that is over and
  has landed nothing.
- `SuccessIsStored`, `FailuresAreOwnOrTwins`, `TransfersKeepLinks`: what it contains.
- `UploadsUseTheService`: `UploadSpec => Spec`. Links, drops, restarts and the console
  together implement the specification of the file service, so what is proved of the
  service (`UploadsKeepTheStore`: quota, verification, answers) holds of the composition.

`DownlinkProofs`

- `Invariance`: `Spec => []BeaconInv`. That no three beacons fit into one period,
  and that three begin within three, is not inductive: both rest on where the next
  due time lies after the last beacon and the one before it (`PacedAs`). One lemma
  about records and numbers (`SentPacket`) shows that one more beacon, sent at any
  time that is not before it is due, keeps this; a second one (`SkippedPacket`)
  that a slot which passes unsent does.
- `BeaconTypeCorrect`, `NothingIsSleptOver`, `BacklogNeverBursts`, `RateHolds`:
  what the invariant contains or implies, for every set of packets and periods and
  every latency.
- `ScansAreDefined`: the recursive function of the scanner has, at every position of every
  buffer, the value that one pass gives. The recursion goes to later positions only, so a
  least position from which on there is no such function leads to a contradiction
  (`LeastNumber`, from the well-foundedness of the naturals).
- `StreamsAreExact`: `StreamInv`. Frames follow each other without a gap, and what the
  reader has not taken lies, byte by byte, in its buffer and on its way, as it was sent or
  with one byte spoilt. `ScanGives` says what the scanner makes of that from the start of
  any frame; again the last frame of which it would be false is looked at. Its core is that a
  spoilt frame never checks (`OnlyIntactChecks`): a spoilt length would have to point at the
  end of another frame, whose CRC is of another packet. The counts rest on remainders
  (`NextCount`), for every width of their field.

`VehicleProofs`

- `EchoesAreTruthful`: `EchoInv`. A dispatch that awaits the handler has not echoed, and
  did what it was claimed for up to the first raise, in the order of the consumers.
- `NothingOutlivesStop`: `StopInv`, the safety half of `StopCompletes`. When `stop()` has
  returned, both loops, the writers of the clients it found and their queues have
  ended. It says at each await of `stop()` what has ended by then, and that no step of
  another task undoes it.
- `QueuesAreBounded`: no queue of a client passes its bound, whatever a dispatch sends
  while it is being dropped.
- `TorquesAreFresh`: `TorqueInv`. A motor has a torque only while its wheel is among those
  that the controller drives; a mode change, a disabled wheel and a manual speed each take
  it away.
- `WritersAreAlone`: `EngineInv`. The last word on every field stands (`Stands`), the
  registry has one behavior per field, and neither a behavior nor a word is on a field of
  a model (`Apart`). `OneWriterPerField` alone is not inductive: that a store of a model
  disturbs no word needs that what was built came from files that passed the loader
  (`IsSpec`), with every literal writer of a model's field refused there and every
  template held off when it resolves. A tick is a sequence of advances over a copy of the
  registry; `Continues` says of each what it may do to the fields of others (nothing) and
  to its own (go on, or hold where a ramp ended).
- `LoadedEffectsAreApplied`: of each effect that loaded, the checks of the loader are set
  against the reasons of the engine to skip it: what a template resolves to is among its
  expansions (`ResolvedIsExpanded`) unless the argument is a float between them
  (`Unexpanded`, one of the excuses; that an integer is never between them is
  `WholesInside`, from the range that the vehicle has checked), for each of which the loader asked for a field, of the
  right type, in which the value fits.
- `BatteryFollowsSwitches`: the draw of the loads depends on the registry and the switches
  only (`SameDraw`), and what the power model stored for the battery is still there, with
  the switches as it saw them, when the models after it have stored (`BatteryIsPaid`).
  What excuses a switch that a later model writes came out of this proof, and is named in
  the property.

`GroundProofs`

- `ClientsShowTheLink`, `VerdictsAreHonest`, `BrowserQueuesAreBounded`: `WebInv`. A browser
  that missed no news will show the link as it is after reading what is in its queue
  (`ShowsLink`), and this must hold of browsers that are only greeted, too, as they
  become clients. The verdict of a command is judged in the step that it is queued in.
- `HealthVerdictsAreRight`: `VerifyInv`. Each packet that is awaited and not yet
  counted is due within its period, and the window is at least the longest of these
  (`WindowIsLongEnough`, with a lemma that a finite set of numbers has a greatest one).
- `StatusTellsTheTruth`: `StatusInv`. What the declaration of the packet cannot carry was
  reported at the start; a field that is not named in the log shows its value.
- `PlansInvariance`, `PlansAreWholeFiles`, `ShiftsKeepPlans`: `PlansInv`. What a slot
  holds is what the parser made of its `source`, the file as it was at the LOAD. That the
  plan is the whole file is then a fact about one file: `Rank`, the place that an entry
  takes, is a bijection of its entries to the places of the plan. That a shift keeps the
  order is one about two files: entries that move by one delta keep their ranks.
- `FleetIsKept`: `ViewInv`. A lagging queue loses from its front, so it is described from
  its end: its last events are of the places of the round that were passed last, counted
  back from `turn` (`RoundsInOrder`), hence a full queue holds all of the round. At the
  shutdown `Cardinality(Fleet) + 1 <= QueueMax` says that the farewell of every satellite
  and the end of the stream fit.
- `GroundAndVehicleAgree`: `ExerciseInv`. An outcome is as it should be (`Agreed`), and a
  sweep's plan consists of two kinds of sends (`SendsOf`): arguments that are all examples,
  and probes. The rest is about one argument. `ArgumentsAgree` is the core: what the ground
  compares and what the vehicle reads back from the wire get the same verdict, by cases of
  text, label and number; rounding is monotone and does not change what it rounded, and it
  is the same on value and bound. `ExamplesFit` says that no end objects to an example (the
  sweep is never refused), `InvalidValueOffends` that the vehicle rejects every probe and
  yet the wire carries it. Plans with any number of probes, put anywhere, are made of these
  sends (`PlansAreSends`).

A function that is defined by recursion over a list (the effects of a command, the
behaviors of a tick, the models, the scanner, a plan with ever more probes) is handled the
same way everywhere: a lemma `...InTurn` shows, by a least counterexample (`Climb`, from
the well-foundedness of the naturals), that there is such a function and what its steps
are; an invariant of one step is then carried along the list by `Climb` again.

**Assumptions.** `PlansAssumption` of `Sequencer` is what the parser guarantees (and
`PlansAreWholeFiles` proves of the parser: entries sorted by time); that of
`SequencePlans` says that a file has lines of words. `WaiterAssumption`: one waiter, which
is the one task that the server starts. `NamesAssumption`, `SizesAssumption`,
`FilesAssumption`, `UploadAssumption`, `BeaconAssumption`, `PacketAssumption`,
`AdcsAssumption`, `ConsoleAssumption` and `ProgressAssumption` give the types of constants;
so does `FramingAssumption`, which also says that a power of two is a positive number.
`SidecarAssumption` is what TOML guarantees of a file: a table is a sequence of entries, a
key stands once in it, a value is a number or a text. `BehaviorAssumption` says that a
command arrives with the arguments of its definition, the integers within their declared
ranges (the vehicle has checked them: `codec.py:213-230`); of floats it asks nothing, for
theirs may be fractions, and their bounds are rounded to the wire. It also gives the types of readings and draws. `SurfaceAssumption`
is what a definition guarantees of a command: each argument once, and `ParameterSound` of
each argument, with the three exceptions named under Observations.
`RosterAssumption` is what a definition guarantees of the identities it claims.
`PeriodsAssumption` (a packet without a period is sent within the timeout, and there is one
to wait for) and `AilmentsAssumption` are what `check_telemetry` takes for granted of the
vehicle, see Observations. TLC evaluates all of them in the runs.

**Only model-checked.**

- Liveness: `LossIsAnnounced`, `DueEntriesAreServed`, `EveryUploadIsAnswered`, and that
  `StopCompletes` ends. Fairness and ENABLED are beyond the prover.

- The runs that expect a violation: a counterexample is their proof.

Every safety invariant and every action property of the passing runs is a theorem.

## 5. Plan

Done: all modules of section 2, and a theorem for every safety property that the runs
check. The plan has no module and no theorem left that is within reach; what section 6 names
is left out for the reasons given there.

## 6. Not modelled, and why

- The arithmetic of physics, control laws, estimator, orbits and environment:
  floating-point integration. Only who writes what, and the limits, are modelled.
- The XTCE parser, the generator, rendering, logging, synthetic telemetry, most of the
  command line, the console page and the launch script: conversions or text, run once or
  without state that another step could see.
- In the engine: arguments that are texts or not a number; fractions are halves, and a
  field holds whole numbers, so that the fraction a copy leaves in a float field is dropped.
- Files that appear in the store without the service, and unreadable ones.
- CRC-32 collisions, and counters that wrap, in the receipts.
- The branch of the waiter in which `tick()` itself raises: the code treats it as
  a bug of the machinery.
- Cancellation of readers by `stop()`: the code does not cancel them, they end with their
  transports.
