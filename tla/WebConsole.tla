----------------------------- MODULE WebConsole -----------------------------
(***************************************************************************)
(* The web console's bridge of webui.py: one task holds the link to the    *)
(* simulator and fans what it decodes out to a bounded queue for each      *)
(* browser; the handler of each browser sends its commands up that link.   *)
(*                                                                         *)
(* The link may end cleanly or be reset under a command that is being      *)
(* written; a browser may stall, vanish, or come while the link changes.   *)
(***************************************************************************)
EXTENDS Integers, Sequences, SequencesExt, FiniteSets

CONSTANTS
    Browsers,
    BrowserQueueMax, \* Bridge._QUEUE_MAX
    MaxLinks    \* bound of the links counted by the history

ASSUME ConsoleAssumption ==
    /\ BrowserQueueMax \in Nat \ {0} /\ MaxLinks \in Nat
    /\ IsFiniteSet(Browsers)

VARIABLES
    downlink,   \* where downlink_loop is
    linkUp,     \* link_up
    transport,  \* the simulator's connection: _sim_writer and what befell it
    links,      \* history: how many connections there have been
    stage,      \* of each browser's handle_ws
    told,       \* the link state each handler has last sent or is sending
    outbox,     \* the queue of each browser
    sending,    \* the uplink() each handler awaits: its link, 0 when none
    missed      \* history: whom the last news of the link did not reach

webVars == <<downlink, linkUp, transport, links, stage, told, outbox, sending, missed>>

Link(up) == [type |-> "link", up |-> up, of |-> 0]
Telemetry == [type |-> "telemetry", up |-> FALSE, of |-> 0]
\* A verdict, with the link its command was written to (0: not transmitted).
SendResult(ok, of) == [type |-> "send_result", up |-> ok, of |-> of]

Joined == {b \in Browsers : stage[b] = "joined"}

-----------------------------------------------------------------------------
WebInit ==
    /\ downlink = "connecting" /\ linkUp = FALSE
    /\ transport = "none" /\ links = 0
    /\ stage = [b \in Browsers |-> "away"]
    /\ told = [b \in Browsers |-> FALSE]
    /\ outbox = [b \in Browsers |-> <<>>]
    /\ sending = [b \in Browsers |-> 0]
    /\ missed = {}

\* News of the link passes by a browser that is being greeted.
Missed(m) ==
    IF m.type = "link" THEN {b \in Browsers : stage[b] = "greeted"} ELSE missed

\* Mutant of Publish: the downlink waits until every browser has room.
PublishPatiently(m) ==
    /\ \A b \in Joined : Len(outbox[b]) < BrowserQueueMax
    /\ outbox' = [b \in Browsers |->
           IF b \in Joined THEN Append(outbox[b], m) ELSE outbox[b]]
    /\ stage' = stage /\ missed' = Missed(m)

\* Mutant of Publish: a full queue drops the message, not the browser.
PublishLossily(m) ==
    /\ outbox' = [b \in Browsers |->
           IF b \in Joined /\ Len(outbox[b]) < BrowserQueueMax
           THEN Append(outbox[b], m) ELSE outbox[b]]
    /\ stage' = stage /\ missed' = Missed(m)

\* _broadcast: a browser whose queue is full is dropped, its writer cancelled.
Publish(m) ==
    LET stalled == {b \in Joined : Len(outbox[b]) >= BrowserQueueMax} IN
    /\ stage' = [b \in Browsers |-> IF b \in stalled THEN "dropped" ELSE stage[b]]
    /\ outbox' = [b \in Browsers |->
           IF b \in stalled THEN <<>>
           ELSE IF b \in Joined THEN Append(outbox[b], m) ELSE outbox[b]]
    /\ missed' = Missed(m)

-----------------------------------------------------------------------------
ConnectRefused ==
    /\ downlink = "connecting"
    /\ downlink' = "resting"
    /\ IF linkUp THEN linkUp' = FALSE /\ Publish(Link(FALSE))
       ELSE UNCHANGED <<linkUp, stage, outbox, missed>>
    /\ UNCHANGED <<transport, links, told, sending>>

Connected ==
    /\ downlink = "connecting" /\ links < MaxLinks
    /\ downlink' = "reading" /\ transport' = "open" /\ links' = links + 1
    /\ linkUp' = TRUE /\ Publish(Link(TRUE))
    /\ UNCHANGED <<told, sending>>

PacketRead ==
    /\ downlink = "reading" /\ transport = "open"
    /\ Publish(Telemetry)
    /\ UNCHANGED <<downlink, linkUp, transport, links, told, sending>>

\* The simulator closes its side, or the connection breaks.
SimCloses ==
    /\ transport = "open"
    /\ transport' = "eof"
    /\ UNCHANGED <<downlink, linkUp, links, stage, told, outbox, sending, missed>>

SimResets ==
    /\ transport \in {"open", "eof"}
    /\ transport' = "reset"
    /\ UNCHANGED <<downlink, linkUp, links, stage, told, outbox, sending, missed>>

\* The stream ends, or does not frame: announced, and retried after a rest.
StreamEnded ==
    /\ downlink = "reading" /\ transport \in {"open", "eof"}
    /\ downlink' = "resting" /\ transport' = "none"
    /\ linkUp' = FALSE /\ Publish(Link(FALSE))
    /\ UNCHANGED <<links, told, sending>>

\* Reading a connection that was reset raises no framing error: the loop,
\* and run_ui with it, ends.  So does an interrupt.
Ended(how) ==
    /\ downlink' = how /\ transport' = "none"
    /\ stage' = [b \in Browsers |-> "away"]
    /\ outbox' = [b \in Browsers |-> <<>>]
    /\ sending' = [b \in Browsers |-> 0]
    /\ UNCHANGED <<linkUp, links, told, missed>>

StreamFailed == downlink = "reading" /\ transport = "reset" /\ Ended("failed")

Interrupted == downlink \notin {"failed", "interrupted"} /\ Ended("interrupted")

Rested ==
    /\ downlink = "resting"
    /\ downlink' = "connecting"
    /\ UNCHANGED <<linkUp, transport, links, stage, told, outbox, sending, missed>>

-----------------------------------------------------------------------------
Running == downlink \notin {"failed", "interrupted"}

\* The definition is sent, then the state of the link at that moment.
Greeted(b) ==
    /\ Running /\ stage[b] = "away"
    /\ stage' = [stage EXCEPT ![b] = "greeted"]
    /\ told' = [told EXCEPT ![b] = linkUp]
    /\ missed' = missed \ {b}
    /\ UNCHANGED <<downlink, linkUp, transport, links, outbox, sending>>

\* The greeting is out: from here on the browser is among the clients.
Joins(b) ==
    /\ stage[b] = "greeted"
    /\ stage' = [stage EXCEPT ![b] = "joined"]
    /\ UNCHANGED <<downlink, linkUp, transport, links, told, outbox, sending, missed>>

WriterSends(b) ==
    /\ stage[b] = "joined" /\ outbox[b] # <<>>
    /\ outbox' = [outbox EXCEPT ![b] = Tail(@)]
    /\ told' = IF Head(outbox[b]).type = "link"
               THEN [told EXCEPT ![b] = Head(outbox[b]).up] ELSE told
    /\ UNCHANGED <<downlink, linkUp, transport, links, stage, sending, missed>>

\* The writer fails; the handler reads on, no longer among the clients.
WriterFails(b) ==
    /\ stage[b] = "joined" /\ outbox[b] # <<>>
    /\ stage' = [stage EXCEPT ![b] = "dropped"]
    /\ outbox' = [outbox EXCEPT ![b] = <<>>]
    /\ UNCHANGED <<downlink, linkUp, transport, links, told, sending, missed>>

\* The socket ends (seen between two commands, or when one is answered).
Leaves(b) ==
    /\ stage[b] # "away" /\ sending[b] = 0
    /\ stage' = [stage EXCEPT ![b] = "away"]
    /\ outbox' = [outbox EXCEPT ![b] = <<>>]
    /\ UNCHANGED <<downlink, linkUp, transport, links, told, sending, missed>>

\* A verdict goes to the asker, if it is a client still and has room.
Answered(b, m) ==
    outbox' = IF stage[b] = "joined" /\ Len(outbox[b]) < BrowserQueueMax
              THEN [outbox EXCEPT ![b] = Append(@, m)] ELSE outbox

Listening(b) == stage[b] \in {"joined", "dropped"} /\ sending[b] = 0

\* Unknown, badly typed or out of range, or the link is down: not transmitted.
SendRefused(b) ==
    /\ Listening(b)
    /\ Answered(b, SendResult(FALSE, 0))
    /\ UNCHANGED <<downlink, linkUp, transport, links, stage, told, sending, missed>>

\* The command is written to the link of this moment, then drained.
SendWritten(b) ==
    /\ Listening(b) /\ transport \in {"open", "eof"}
    /\ sending' = [sending EXCEPT ![b] = links]
    /\ UNCHANGED <<downlink, linkUp, transport, links, stage, told, outbox, missed>>

\* Mutant of Standing: it is the link of now that is looked at.
StandingNow(link) == transport \in {"open", "eof"}

\* The connection is not closing, so what was written may still arrive.
Standing(link) == link = links /\ transport \in {"open", "eof"}

SendReturns(b) ==
    /\ sending[b] # 0
    /\ Answered(b, SendResult(Standing(sending[b]), sending[b]))
    /\ sending' = [sending EXCEPT ![b] = 0]
    /\ UNCHANGED <<downlink, linkUp, transport, links, stage, told, missed>>

WebNext ==
    \/ ConnectRefused \/ Connected \/ PacketRead \/ StreamEnded \/ Rested
    \/ SimCloses \/ SimResets \/ StreamFailed \/ Interrupted
    \/ \E b \in Browsers :
           \/ Greeted(b) \/ Joins(b) \/ WriterSends(b) \/ WriterFails(b) \/ Leaves(b)
           \/ SendRefused(b) \/ SendWritten(b) \/ SendReturns(b)

\* The loop takes what has come; nothing is asked of browsers or simulator.
WebFairness == WF_webVars(StreamEnded) /\ WF_webVars(StreamFailed) /\ WF_webVars(Rested)

WebSpec == WebInit /\ [][WebNext]_webVars /\ WebFairness
-----------------------------------------------------------------------------
\* What a browser that was told of the link "was" shows of it once it has read
\* the queue q: the last news there is.
ShowsLink(q, was, up) ==
    LET news == {i \in DOMAIN q : q[i].type = "link"} IN
    IF news = {} THEN was = up
    ELSE \E i \in news : q[i].up = up /\ \A j \in news : j <= i

(***************************************************************************)
(* "transmitted" is only said of a command whose own connection was still  *)
(* up after the write, also when the bridge reconnected meanwhile.         *)
(***************************************************************************)
TransmittedIsHonest ==
    [][\A b \in Browsers :
          LET m == outbox'[b] IN
          /\ Len(m) = Len(outbox[b]) + 1 /\ Last(m).type = "send_result" /\ Last(m).up
          => Last(m).of = links /\ transport \in {"open", "eof"}]_webVars

(***************************************************************************)
(* The end of a link is noticed and announced although browsers stall:     *)
(* no browser holds up the downlink.                                       *)
(***************************************************************************)
LossIsAnnounced == (transport \in {"eof", "reset"}) ~> (downlink # "reading")

(***************************************************************************)
(* A client shows the link as it is once its queue is drained, however the *)
(* link flapped: all but one that was being greeted, and not yet among the *)
(* clients, when the link last changed.                                    *)
(***************************************************************************)
IndicatorsAgree ==
    Running => \A b \in Joined \ missed : ShowsLink(outbox[b], told[b], linkUp)

(***************************************************************************)
(* downlink_loop is to "stay connected to the sim forever" (webui.py): it  *)
(* ends when it is interrupted, and not by what the simulator does.        *)
(***************************************************************************)
StaysConnectedForever == downlink # "failed"
=============================================================================
