------------------------------- MODULE Upload -------------------------------
(***************************************************************************)
(* Uploads from end to end: grounds (client.py upload_file) send a file as *)
(* frames on a connection of their own and watch its downlink for their    *)
(* verdict, while the server (server.py) feeds the frames to the file      *)
(* service and broadcasts every receipt to every client, and an operator's *)
(* console commands the store meanwhile.                                   *)
(*                                                                         *)
(* The frames of a connection arrive in order or not at all.  What lies    *)
(* between a client's send queue and its ground is counted in the queue.   *)
(***************************************************************************)
EXTENDS FileService

CONSTANTS
    Uploads,  \* the files a ground may upload: [name, content]
    QueueMax  \* queue_maxsize

ASSUME UploadAssumption ==
    /\ Uploads \subseteq [name : Names, content : Files]
    /\ QueueMax \in Nat \ {0}

NoUpload == [name |-> "", content |-> <<>>]
NoBaseline == -1

VARIABLES
    upload,    \* what each ground uploads
    verdict,   \* "NONE" before and during the watch, then what it came to
    baseline,  \* _ReceiptMatcher._baseline
    uplink,    \* frames of each ground that the server has not read
    downlink,  \* receipts sent to each ground that it has not read
    conn,      \* the server's side of each connection
    landedOwn, \* history: the grounds whose own transfer landed
    held       \* history: the grounds whose file the store held, as sent, at
               \* some moment of their watch

groundVars == <<upload, verdict, baseline>>
history == <<landedOwn, held>>
uploadVars == <<vars, groundVars, uplink, downlink, conn, history>>

Verdicts == {"NONE", "SUCCESS", "FAILED", "CLOSED", "TIMEOUT"}
ConnStates == {"none", "open", "dropped", "ended"}

Watching(g) == upload[g] # NoUpload /\ verdict[g] = "NONE"
Linked == {g \in Ground : conn[g] = "open"}

-----------------------------------------------------------------------------
\* START, DATA for each byte, FINISH.
Frames(u) ==
    LET size == Len(u.content) IN
    [i \in 1..(size + 2) |->
        CASE i = 1        -> [type |-> "START"]
          [] i = size + 2 -> [type |-> "FINISH"]
          [] OTHER        -> [type |-> "DATA", offset |-> i - 2,
                              chunk |-> <<u.content[i - 1]>>]]

UploadInit ==
    /\ Init
    /\ upload = [g \in Ground |-> NoUpload]
    /\ verdict = [g \in Ground |-> "NONE"]
    /\ baseline = [g \in Ground |-> NoBaseline]
    /\ uplink = [g \in Ground |-> <<>>]
    /\ downlink = [g \in Ground |-> <<>>]
    /\ conn = [g \in Ground |-> "none"]
    /\ landedOwn = {} /\ held = {}

\* The ground connects and sends all its frames.
UploadFile(g, u) ==
    /\ upload[g] = NoUpload
    /\ upload' = [upload EXCEPT ![g] = u]
    /\ uplink' = [uplink EXCEPT ![g] = Frames(u)]
    /\ conn' = [conn EXCEPT ![g] = "open"]
    /\ held' = IF u.name \in Stored /\ store[u.name] = u.content
               THEN held \cup {g} ELSE held
    /\ UNCHANGED <<vars, verdict, baseline, downlink, landedOwn>>

\* The clients, with the connections as c says, whose queue overflows.
Full(rs, c) ==
    {g \in Ground : c[g] = "open" /\ Len(downlink[g]) + Len(rs) > QueueMax}

\* Each receipt goes to every client that listens: what reaches the socket of
\* a ground that has its verdict is discarded.
Sent(rs, c) ==
    [g \in Ground |-> IF c[g] = "open" /\ g \notin Full(rs, c) /\ verdict[g] = "NONE"
                      THEN downlink[g] \o rs ELSE downlink[g]]

\* Mutant of Broadcast: a client whose queue is full only misses receipts.
BroadcastLossy(rs, c) == downlink' = Sent(rs, c) /\ conn' = c

\* With the connections as c says, each receipt goes to every client; one
\* whose queue is full is dropped (_enqueue).
Broadcast(rs, c) ==
    /\ downlink' = Sent(rs, c)
    /\ conn' = [g \in Ground |-> IF g \in Full(rs, c) THEN "dropped" ELSE c[g]]

\* The history after a step of the vehicle that serves the grounds "own".
Witness(own) ==
    /\ landedOwn' = IF landed' > landed THEN landedOwn \cup own ELSE landedOwn
    /\ held' = held \cup {g \in Ground :
                              /\ Watching(g)
                              /\ upload[g].name \in DOMAIN store'
                              /\ store'[upload[g].name] = upload[g].content}

\* The server takes the next frame of connection g; it may still do so with
\* what it had received from a client that it dropped.
FrameArrives(g) ==
    /\ conn[g] \in {"open", "dropped"}
    /\ uplink[g] # <<>>
    /\ LET frame == Head(uplink[g])
           u == upload[g]
       IN  \/ /\ frame.type = "START"
              /\ OnStart(g, u.name, Len(u.content), u.content)
           \/ frame.type = "DATA" /\ OnData(g, frame.offset, frame.chunk)
           \/ frame.type = "FINISH" /\ OnFinish(g)
    /\ Broadcast(receipts', conn)
    /\ uplink' = [uplink EXCEPT ![g] = Tail(@)]
    /\ Witness({g})
    /\ UNCHANGED groundVars

\* Mutant of ConnectionEnds: the transfer it carried is left behind.
ConnectionEndsQuietly(g) ==
    /\ conn[g] = "dropped" \/ (conn[g] = "open" /\ verdict[g] # "NONE")
    /\ receipts' = <<>>
    /\ UNCHANGED <<store, transfers, landed>>
    /\ Broadcast(<<>>, [conn EXCEPT ![g] = "ended"])
    /\ uplink' = [uplink EXCEPT ![g] = <<>>]
    /\ UNCHANGED <<groundVars, history>>

\* The reader of connection g comes to its end: the ground has closed it, or
\* the server dropped it.  Frames not read by then are lost.
ConnectionEnds(g) ==
    /\ conn[g] = "dropped" \/ (conn[g] = "open" /\ verdict[g] # "NONE")
    /\ Abort(g)
    /\ Broadcast(receipts', [conn EXCEPT ![g] = "ended"])
    /\ uplink' = [uplink EXCEPT ![g] = <<>>]
    /\ UNCHANGED <<groundVars, history>>

\* The link of a client breaks, or its writer times out (write_timeout).
\* (Of a ground that has its verdict, ConnectionEnds is as good.)
LinkLost(g) ==
    /\ Watching(g) /\ conn[g] = "open"
    /\ conn' = [conn EXCEPT ![g] = "dropped"]
    /\ UNCHANGED <<vars, groundVars, uplink, downlink, history>>

\* What had not left the vehicle when the link went is gone.
DownlinkLost(g) ==
    /\ conn[g] \in {"dropped", "ended"} /\ downlink[g] # <<>>
    /\ downlink' = [downlink EXCEPT ![g] = <<>>]
    /\ UNCHANGED <<vars, groundVars, uplink, conn, history>>

\* A command of the operator's console, which is a client of its own.
ConsoleCommand ==
    /\ FileCommand
    /\ Broadcast(receipts', conn)
    /\ Witness({})
    /\ UNCHANGED <<groundVars, uplink>>

VehicleRestarts ==
    /\ Restart
    /\ conn' = [g \in Ground |-> IF conn[g] = "none" THEN "none" ELSE "ended"]
    /\ uplink' = [g \in Ground |-> <<>>]
    /\ UNCHANGED <<groundVars, downlink, history>>

-----------------------------------------------------------------------------
\* Mutant of Ours: the name is taken for identity.
OursByName(g, r) == r.name = upload[g].name

\* The receipt echoes the (name, size, CRC) of the START of g.
Ours(g, r) ==
    /\ r.name = upload[g].name
    /\ r.size = Len(upload[g].content) /\ r.crc = upload[g].content

\* A SUCCESS is believed once the count is past that of an IN_PROGRESS.
Confirms(g, r) ==
    r.status = "SUCCESS" /\ baseline[g] # NoBaseline /\ r.count > baseline[g]

\* The upload of g ends with verdict v, and its socket is closed.
Ends(g, v) ==
    /\ verdict' = [verdict EXCEPT ![g] = v]
    /\ downlink' = [downlink EXCEPT ![g] = <<>>]
    /\ baseline' = [baseline EXCEPT ![g] = NoBaseline]

\* The ground reads one receipt (_ReceiptMatcher.verdict).
GroundReads(g) ==
    /\ Watching(g) /\ downlink[g] # <<>>
    /\ LET r == Head(downlink[g])
           ReadOn == /\ downlink' = [downlink EXCEPT ![g] = Tail(@)]
                     /\ UNCHANGED verdict
       IN  \/ /\ Ours(g, r) /\ r.status = "IN_PROGRESS"
              /\ baseline' = [baseline EXCEPT ![g] = r.count]
              /\ ReadOn
           \/ Ours(g, r) /\ r.status = "FAILED" /\ Ends(g, "FAILED")
           \/ Ours(g, r) /\ Confirms(g, r) /\ Ends(g, "SUCCESS")
           \/ /\ ~Ours(g, r) \/ (r.status = "SUCCESS" /\ ~Confirms(g, r))
              /\ ReadOn /\ UNCHANGED baseline
    /\ UNCHANGED <<vars, upload, uplink, conn, history>>

GroundSeesEnd(g) ==
    /\ Watching(g) /\ downlink[g] = <<>>
    /\ conn[g] \in {"dropped", "ended"}
    /\ Ends(g, "CLOSED")
    /\ UNCHANGED <<vars, upload, uplink, conn, history>>

GroundTimesOut(g) ==
    /\ Watching(g)
    /\ Ends(g, "TIMEOUT")
    /\ UNCHANGED <<vars, upload, uplink, conn, history>>

-----------------------------------------------------------------------------
GroundStep(g) ==
    \/ \E u \in Uploads : UploadFile(g, u)
    \/ GroundReads(g) \/ GroundSeesEnd(g) \/ GroundTimesOut(g)

ConnectionStep(g) ==
    FrameArrives(g) \/ ConnectionEnds(g) \/ LinkLost(g) \/ DownlinkLost(g)

UploadNext ==
    \/ \E g \in Ground : GroundStep(g) \/ ConnectionStep(g)
    \/ ConsoleCommand
    \/ VehicleRestarts

(***************************************************************************)
(* The server reads what has arrived and sees the end of a connection; a   *)
(* ground reads what has been sent.  Nothing is assumed of the timeout.    *)
(***************************************************************************)
UploadFairness ==
    \A g \in Ground :
        /\ WF_uploadVars(FrameArrives(g))
        /\ WF_uploadVars(ConnectionEnds(g))
        /\ WF_uploadVars(GroundReads(g) \/ GroundSeesEnd(g))

UploadSpec == UploadInit /\ [][UploadNext]_uploadVars /\ UploadFairness

-----------------------------------------------------------------------------
(***************************************************************************)
(* An upload that was reported as a success is on board, or was: the store *)
(* held exactly that file at some moment of its ground's watch, whichever  *)
(* receipt the ground took for its own.                                    *)
(***************************************************************************)
SuccessMeansStored ==
    \A g \in Ground : verdict[g] = "SUCCESS" => g \in held

\* Another ground has sent the same file.
HasTwin(g) == \E p \in Ground \ {g} : upload[p] = upload[g]

(***************************************************************************)
(* A ground is told that its upload failed, although it landed, only if    *)
(* another ground sent the same file, or if the file is empty and so looks *)
(* like what a FILE_DELETE answers with.                                   *)
(***************************************************************************)
FalseFailureNeedsATwin ==
    \A g \in Ground :
        verdict[g] = "FAILED" /\ g \in landedOwn =>
            HasTwin(g) \/ upload[g].content = <<>>

(***************************************************************************)
(* A transfer never outlives the connection that carries it.               *)
(***************************************************************************)
TransfersHaveLinks ==
    \A g \in DOMAIN transfers : conn[g] \in {"open", "dropped"}

(***************************************************************************)
(* Every upload is answered: the vehicle never leaves a ground that is     *)
(* still connected without the verdict it waits for, so that the timeout   *)
(* is not needed for it to end.                                            *)
(***************************************************************************)
EveryUploadIsAnswered == \A g \in Ground : Watching(g) ~> ~Watching(g)

(***************************************************************************)
(* What the matcher's documentation says of a false success: it needs an   *)
(* empty file.  (client.py: "the residue ... needs an empty file".)        *)
(***************************************************************************)
FalseSuccessNeedsAnEmptyFile ==
    \A g \in Ground :
        verdict[g] = "SUCCESS" /\ upload[g].content # <<>> => g \in landedOwn
=============================================================================
