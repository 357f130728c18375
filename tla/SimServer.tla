------------------------------ MODULE SimServer ------------------------------
(***************************************************************************)
(* The tasks of SimServer (server.py) and the dispatch of commands: the    *)
(* reader and the writer of each client, the beacon loop, the sequencer    *)
(* loop that dispatches too, and the end of all of them in stop().         *)
(*                                                                         *)
(* Tasks switch at awaits only.  Everything a dispatch does before it      *)
(* awaits the command handler is one step; the awaits of stop() are the    *)
(* phases of main.                                                         *)
(***************************************************************************)
EXTENDS Integers, FiniteSets

CONSTANTS
    Client,          \* connections that may come
    Packets,         \* command packets: see PacketAssumption
    OutMax,          \* packets that the queue of a client holds
    WaitsForClients  \* asyncio's wait_closed waits for connections (Python 3.12)

Loops == {"beacon", "sequencer"}
Consumers4 == {"behavior", "file", "sequence", "link"}

ASSUME PacketAssumption ==
    /\ OutMax \in Nat \ {0} /\ WaitsForClients \in BOOLEAN
    /\ \A p \in Packets :
          /\ p.fault \in {"none", "garbled", "unknown", "range"}
          /\ p.claims \subseteq Consumers4
          /\ p.sends \in [p.claims -> Nat]

VARIABLES
    main,     \* the task that serves and stops
    listening, \* the listener is open
    loop,     \* the two loops: waiting, woken, firing or done
    conn,     \* per client: reader and writer task, queue
    listed,   \* _clients
    job,      \* per dispatcher: the dispatch it is in
    verdict,  \* history: the last dispatch that ended, of any dispatcher
    found     \* history: the clients that stop() found

serverVars == <<main, listening, loop, conn, listed, job, verdict, found>>

Dispatcher == Client \union {"sequencer"}
Away == [reader |-> "away", writer |-> "done", open |-> FALSE, queue |-> 0]
NoJob == [packet |-> "none"]
NoVerdict == [status |-> "none"]

ServerInit ==
    /\ main = "serving"
    /\ loop = [l \in Loops |-> "waiting"]
    /\ conn = [c \in Client |-> Away]
    /\ listed = {}
    /\ job = [d \in Dispatcher |-> NoJob]
    /\ verdict = NoVerdict
    /\ listening = TRUE /\ found = {}

-----------------------------------------------------------------------------
\* The links: a world is what a step does to the clients.
World == [conn |-> conn, listed |-> listed]

\* Task.cancel, on a writer that has not ended.
CancelWriter(k) == IF k.writer = "done" THEN k ELSE [k EXCEPT !.writer = "cancelled"]
Dropped(k) == [CancelWriter(k) EXCEPT !.open = FALSE]

\* send_packet and _enqueue, n packets to every client: a client whose queue
\* would pass its bound is dropped instead.
Pushed(w, n) ==
    LET over == {c \in w.listed : w.conn[c].queue + n > OutMax}
    IN [conn |-> [c \in Client |->
                     IF c \in over THEN Dropped(w.conn[c])
                     ELSE IF c \in w.listed THEN [w.conn[c] EXCEPT !.queue = @ + n]
                     ELSE w.conn[c]],
        listed |-> w.listed \ over]

\* The end of _handle_client: the reader goes, and takes its link with it;
\* an upload of it ends with a receipt for the others.
Ended(w, c) ==
    [conn |-> [w.conn EXCEPT ![c] = [Dropped(@) EXCEPT !.reader = "done"]],
     listed |-> w.listed \ {c}]

Now(w) == conn' = w.conn /\ listed' = w.listed

-----------------------------------------------------------------------------
\* Dispatch.  _echo_command: one more packet for every client, and the end.
Echoed(d, w, p, status, did) ==
    /\ Now(Pushed(w, 1))
    /\ verdict' = [status |-> status, packet |-> p, did |-> did,
                   echoes |-> 1 + IF job[d] = NoJob THEN 0 ELSE job[d].echoes]
    /\ job' = [job EXCEPT ![d] = NoJob]

\* _apply_command, up to the consumer that raises: what the consumers before
\* it did and sent stays.  The order is the one they are called in.
Order == [behavior |-> 1, file |-> 2, sequence |-> 3, link |-> 4]
Before(p, stop) == {k \in p.claims : Order[k] < stop}
Sends(p, ks) ==
    (IF "behavior" \in ks THEN p.sends["behavior"] ELSE 0)
    + (IF "file" \in ks THEN p.sends["file"] ELSE 0)
    + (IF "link" \in ks THEN p.sends["link"] ELSE 0)

\* What the guard of _dispatch makes of a packet before anything is applied.
Refusal(p) == [garbled |-> "FAILED", unknown |-> "UNKNOWN", range |-> "REJECTED"][p.fault]

\* Mutant: the echo goes out when the built-in consumers are through.
DispatchEchoesFirst(d, p) ==
    IF p.fault # "none"
    THEN Echoed(d, World, p, Refusal(p), {})
    ELSE \/ \E k \in p.claims :
               LET did == Before(p, Order[k])
               IN Echoed(d, Pushed(World, Sends(p, did)), p, "FAILED", did)
         \/ /\ Now(Pushed(World, Sends(p, p.claims) + 1))
            /\ job' = [job EXCEPT ![d] = [packet |-> p, did |-> p.claims, echoes |-> 1]]
            /\ UNCHANGED verdict

\* _dispatch, to its echo or to the await of the command handler.
Dispatch(d, p) ==
    IF p.fault # "none"
    THEN Echoed(d, World, p, Refusal(p), {})
    ELSE \/ \E k \in p.claims :
               LET did == Before(p, Order[k])
               IN Echoed(d, Pushed(World, Sends(p, did)), p, "FAILED", did)
         \/ /\ Now(Pushed(World, Sends(p, p.claims)))
            /\ job' = [job EXCEPT ![d] = [packet |-> p, did |-> p.claims, echoes |-> 0]]
            /\ UNCHANGED verdict

\* The command handler returns or raises.
Handled(d) ==
    /\ job[d] # NoJob
    /\ \E status \in {"EXECUTED", "FAILED"} :
          Echoed(d, World, job[d].packet, status, job[d].did)

-----------------------------------------------------------------------------
\* The reader of a client: _handle_client.
Connect(c) ==
    /\ listening /\ conn[c] = Away
    /\ conn' = [conn EXCEPT ![c] = [reader |-> "up", writer |-> "idle", open |-> TRUE,
                                    queue |-> 0]]
    /\ listed' = listed \union {c}
    /\ UNCHANGED <<main, listening, loop, job, verdict, found>>

Reading(c) == conn[c].reader = "up" /\ job[c] = NoJob

PacketArrives(c) ==
    /\ Reading(c) /\ conn[c].open
    /\ \E p \in Packets : Dispatch(c, p)
    /\ UNCHANGED <<main, listening, loop, found>>

\* A file-uplink frame is not dispatched; its receipt goes to everybody.
UplinkArrives(c) ==
    /\ Reading(c) /\ conn[c].open
    /\ Now(Pushed(World, 1))
    /\ UNCHANGED <<main, listening, loop, job, verdict, found>>

\* The end of the stream, an error or a corrupt frame; the stream of a closed
\* transport ends too.
StreamEnds(c) ==
    /\ Reading(c)
    /\ \E receipt \in 0..1 : Now(Pushed(Ended(World, c), receipt))
    /\ UNCHANGED <<main, listening, loop, job, verdict, found>>

\* The same, forced: what remains for a reader whose transport is closed.
ReaderEnds(c) == ~conn[c].open /\ StreamEnds(c)

HandlerReturns(d) ==
    /\ d = "sequencer" => loop[d] = "firing"
    /\ Handled(d)
    /\ loop' = IF d = "sequencer" THEN [loop EXCEPT ![d] = "waiting"] ELSE loop
    /\ UNCHANGED <<main, listening, found>>

-----------------------------------------------------------------------------
\* The writer of a client: _client_writer.
WriterTakes(c) ==
    /\ conn[c].writer = "idle" /\ conn[c].queue > 0
    /\ conn' = [conn EXCEPT ![c].writer = "draining", ![c].queue = @ - 1]
    /\ UNCHANGED <<main, listening, loop, listed, job, verdict, found>>

WriterDrained(c) ==
    /\ conn[c].writer = "draining"
    /\ conn' = [conn EXCEPT ![c].writer = "idle"]
    /\ UNCHANGED <<main, listening, loop, listed, job, verdict, found>>

\* A drain that fails or times out ends the writer; so does cancellation.  The
\* timeout sees to it that no drain lasts.
WriterEnds(c) ==
    /\ conn[c].writer \in {"draining", "cancelled"}
    /\ conn' = [conn EXCEPT ![c].writer = "done", ![c].open = FALSE]
    /\ listed' = listed \ {c}
    /\ UNCHANGED <<main, listening, loop, job, verdict, found>>

-----------------------------------------------------------------------------
\* The loops.  A wait ends with its event, which a command may set at any time,
\* or with its timeout; the task runs later.
Wake(l) ==
    /\ loop[l] = "waiting"
    /\ loop' = [loop EXCEPT ![l] = "woken"]
    /\ UNCHANGED <<main, listening, conn, listed, job, verdict, found>>

\* A pass of the beacon loop sends what is due.
BeaconPasses ==
    /\ loop["beacon"] = "woken"
    /\ loop' = [loop EXCEPT !["beacon"] = "waiting"]
    /\ \E due \in 0..1 : Now(Pushed(World, due))
    /\ UNCHANGED <<main, listening, job, verdict, found>>

\* A pass of the sequencer loop fires an entry or finds none due, and pushes
\* its status.
SequencerPasses ==
    /\ loop["sequencer"] = "woken"
    /\ \/ /\ \E p \in Packets :
               /\ p.fault # "unknown" /\ p.fault # "garbled"
               /\ Dispatch("sequencer", p)
               /\ loop' = [loop EXCEPT !["sequencer"] =
                              IF job'["sequencer"] = NoJob THEN "waiting" ELSE "firing"]
       \/ /\ \E due \in 0..1 : Now(Pushed(World, due))
          /\ loop' = [loop EXCEPT !["sequencer"] = "waiting"]
          /\ UNCHANGED <<job, verdict>>
    /\ UNCHANGED <<main, listening, found>>

\* Mutant: wait_for of Python 3.11 swallows it then.
AfterCancelWaitFor(state) == IF state = "woken" THEN "waiting" ELSE "done"

\* Cancellation of a loop: what it leaves the loop in.  asyncio.timeout lets it
\* through although the wait has just completed.
AfterCancel(state) == "done"

-----------------------------------------------------------------------------
\* serve_forever is cancelled: asyncio closes the listener and waits for it
\* before stop() runs.
Interrupt ==
    /\ main = "serving"
    /\ main' = "closing" /\ listening' = FALSE
    /\ UNCHANGED <<loop, conn, listed, job, verdict, found>>

ListenerCloses ==
    /\ main = "closing"
    /\ WaitsForClients => \A c \in Client : ~conn[c].open
    /\ main' = "stop"
    /\ UNCHANGED <<listening, loop, conn, listed, job, verdict, found>>

\* stop(), called by the program itself.
Stop ==
    /\ main = "serving"
    /\ main' = "stop"
    /\ UNCHANGED <<listening, loop, conn, listed, job, verdict, found>>

\* Its awaits: a loop is cancelled, and then waited for.
CancelLoop(l, from, to) ==
    /\ main = from
    /\ loop' = [loop EXCEPT ![l] = AfterCancel(@)]
    /\ job' = IF l = "sequencer" THEN [job EXCEPT ![l] = NoJob] ELSE job
    /\ main' = to
    /\ UNCHANGED <<listening, conn, listed, verdict, found>>

CancelBeacon == CancelLoop("beacon", "stop", "beacon")
CancelSequencer == loop["beacon"] = "done" /\ CancelLoop("sequencer", "beacon", "sequencer")

\* The clients of this moment are cancelled and closed, then waited for.
CancelClients ==
    /\ main = "sequencer" /\ loop["sequencer"] = "done"
    /\ conn' = [c \in Client |-> IF c \in listed THEN Dropped(conn[c]) ELSE conn[c]]
    /\ main' = "clients" /\ found' = listed
    /\ UNCHANGED <<listening, loop, listed, job, verdict>>

\* Clients that join during the waits are forgotten and not closed.
CloseListener ==
    /\ main = "clients"
    /\ \A c \in Client : conn[c].writer # "cancelled"
    /\ main' = "listener" /\ listening' = FALSE
    /\ listed' = {}
    /\ UNCHANGED <<loop, conn, job, verdict, found>>

\* wait_closed has a timeout here.
Stopped ==
    /\ main = "listener"
    /\ main' = "stopped"
    /\ UNCHANGED <<listening, loop, conn, listed, job, verdict, found>>

-----------------------------------------------------------------------------
ServerNext ==
    \/ \E c \in Client :
          \/ Connect(c) \/ PacketArrives(c) \/ UplinkArrives(c) \/ StreamEnds(c)
          \/ WriterTakes(c) \/ WriterDrained(c) \/ WriterEnds(c)
    \/ \E d \in Dispatcher : HandlerReturns(d)
    \/ \E l \in Loops : Wake(l)
    \/ BeaconPasses \/ SequencerPasses
    \/ Interrupt \/ ListenerCloses \/ Stop
    \/ CancelBeacon \/ CancelSequencer \/ CancelClients \/ CloseListener \/ Stopped

\* The event loop runs every task that can go on; command handlers return.
\* That a peer sends, a wait times out or a client reads is not assumed.
ServerFairness ==
    /\ \A c \in Client : WF_serverVars(WriterEnds(c)) /\ WF_serverVars(ReaderEnds(c))
    /\ \A d \in Dispatcher : WF_serverVars(HandlerReturns(d))
    /\ WF_serverVars(BeaconPasses) /\ WF_serverVars(SequencerPasses)
    /\ WF_serverVars(ListenerCloses)
    /\ WF_serverVars(CancelBeacon) /\ WF_serverVars(CancelSequencer)
    /\ WF_serverVars(CancelClients) /\ WF_serverVars(CloseListener)
    /\ WF_serverVars(Stopped)

ServerSpec == ServerInit /\ [][ServerNext]_serverVars /\ ServerFairness

-----------------------------------------------------------------------------
(***************************************************************************)
(* Properties                                                              *)
(***************************************************************************)
\* The echo is the vehicle's word on a command: one for each, EXECUTED only
\* when every consumer that claims the command and its handler are through,
\* and no trace of a command that it calls unknown or rejected.  A FAILED
\* command may have done a part: the consumers before the one that raised
\* (server.py, _dispatch).
EchoTellsTheTruth ==
    verdict # NoVerdict =>
        LET v == verdict
        IN /\ v.echoes = 1
           /\ v.status = "EXECUTED" => v.packet.fault = "none" /\ v.did = v.packet.claims
           /\ v.status \in {"UNKNOWN", "REJECTED"} => v.did = {}
           /\ \A k \in v.did, b \in v.packet.claims : Order[b] < Order[k] => b \in v.did

\* When stop() is through, both loops have ended and so has the writer of every
\* client it found, whose transport is closed (server.py, SimServer.stop).
StoppedMeansEnded ==
    main = "stopped" =>
        /\ \A l \in Loops : loop[l] = "done"
        /\ \A c \in found : conn[c].writer = "done" /\ ~conn[c].open

\* stop() comes to its end, whatever the loops and the clients are in the
\* middle of, and leaves no task of theirs behind.
StopCompletes ==
    /\ main = "stop" ~> main = "stopped"
    /\ []StoppedMeansEnded

\* Ctrl-C on a serving vehicle leads to stop(), also with an idle client:
\* "an idle connected client would otherwise deadlock shutdown" (stop()).
ShutdownIsNotHeldUp == main = "closing" ~> main = "stop"
=============================================================================
