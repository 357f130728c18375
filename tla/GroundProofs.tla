---------------------------- MODULE GroundProofs ----------------------------
(***************************************************************************)
(* What the programs of the ground and the status packet that they read    *)
(* guarantee: WebConsole for every set of browsers and every bound of      *)
(* their queues, TelemetryCheck for every set of packets with their        *)
(* periods and every ailment of the vehicle, StatusTelemetry for every     *)
(* declaration of the packet, SequencePlans for files of every length,     *)
(* ViewerBridge for every fleet and every bound of the queues, Exercise    *)
(* for every command list, every width of its types and every spelling.    *)
(***************************************************************************)
EXTENDS
    WebConsole, StatusTelemetry, TelemetryCheck, SequencePlans, ViewerBridge, Exercise,
    FiniteSetTheorems, SequenceLemmas

-----------------------------------------------------------------------------
(***************************************************************************)
(* The console and its browsers.                                           *)
(***************************************************************************)
Messages == [type : {"link", "telemetry", "send_result"}, up : BOOLEAN, of : Nat]
Stages == {"away", "greeted", "joined", "dropped"}

(***************************************************************************)
(* Only a client has a queue, and it is bounded; a browser that is being   *)
(* greeted and missed no news was told of the link as it is, and a client  *)
(* that missed none shows it so once it has read its queue.                *)
(***************************************************************************)
Informed(b) ==
    Running /\ b \notin missed /\ stage[b] \in {"greeted", "joined"}
    => ShowsLink(outbox[b], told[b], linkUp)

OfBrowser(b) ==
    /\ Len(outbox[b]) <= BrowserQueueMax
    /\ stage[b] # "joined" => outbox[b] = <<>>
    /\ Informed(b)

WebTypeOK ==
    /\ linkUp \in BOOLEAN /\ links \in Nat
    /\ stage \in [Browsers -> Stages] /\ told \in [Browsers -> BOOLEAN]
    /\ outbox \in [Browsers -> Seq(Messages)] /\ sending \in [Browsers -> Nat]

WebInv == WebTypeOK /\ \A b \in Browsers : OfBrowser(b)

-----------------------------------------------------------------------------
\* Queues of messages, and what is shown once they are read.
LEMMA EmptyQueueShows == \A was, up : ShowsLink(<<>>, was, up) <=> was = up
  BY DEF ShowsLink

\* The last news in a queue is what is shown in the end,
LEMMA NewsShows ==
    ASSUME NEW q \in Seq(Messages), NEW m \in Messages, m.type = "link", NEW was
    PROVE  ShowsLink(Append(q, m), was, m.up)
  <1> DEFINE r == Append(q, m)
             news == {i \in DOMAIN r : r[i].type = "link"}
  <1>1. r[Len(r)] = m /\ Len(r) \in DOMAIN r /\ \A j \in DOMAIN r : j <= Len(r)
    OBVIOUS
  <1> HIDE DEF r
  <1>2. Len(r) \in news
    BY <1>1
  <1>3. ShowsLink(r, was, m.up)
    BY <1>1, <1>2 DEF ShowsLink
  <1> QED BY <1>3 DEF r

\* whatever other message follows it,
LEMMA OtherMessageShows ==
    ASSUME NEW q \in Seq(Messages), NEW m \in Messages, m.type # "link",
           NEW was, NEW up, ShowsLink(q, was, up)
    PROVE  ShowsLink(Append(q, m), was, up)
  <1> DEFINE r == Append(q, m)
             news == {i \in DOMAIN q : q[i].type = "link"}
             newsR == {i \in DOMAIN r : r[i].type = "link"}
  <1>1. /\ DOMAIN r = 1..Len(q) + 1 /\ DOMAIN q = 1..Len(q) /\ Len(q) \in Nat
        /\ r[Len(q) + 1] = m
        /\ \A i \in DOMAIN q : r[i] = q[i]
    OBVIOUS
  <1> HIDE DEF r
  <1>2. newsR = news
    BY <1>1
  <1>3. \A i \in news : r[i] = q[i]
    BY <1>1
  <1>4. ShowsLink(r, was, up)
    BY <1>2, <1>3 DEF ShowsLink
  <1> QED BY <1>4 DEF r

\* and however much of the queue was read.
LEMMA ReadQueueShows ==
    ASSUME NEW q \in Seq(Messages), q # <<>>, NEW was, NEW up, ShowsLink(q, was, up)
    PROVE  ShowsLink(Tail(q), IF Head(q).type = "link" THEN Head(q).up ELSE was, up)
  <1> DEFINE r == Tail(q)
             news == {i \in DOMAIN q : q[i].type = "link"}
             newsR == {i \in DOMAIN r : r[i].type = "link"}
             later == IF Head(q).type = "link" THEN Head(q).up ELSE was
  <1>1. /\ Len(q) \in Nat \ {0} /\ DOMAIN q = 1..Len(q) /\ DOMAIN r = 1..Len(q) - 1
        /\ \A i \in 1..Len(q) - 1 : r[i] = q[i + 1]
        /\ Head(q) = q[1]
    OBVIOUS
  <1>0. Head(q).type = "link" => later = Head(q).up
    OBVIOUS
  <1>9. Head(q).type # "link" => later = was
    OBVIOUS
  <1> SUFFICES ShowsLink(r, later, up)
    OBVIOUS
  <1> HIDE DEF r, later
  <1>2. \A i \in DOMAIN r : i \in newsR <=> i + 1 \in news
    BY <1>1
  <1>3. CASE newsR = {}
    <2>1. \A i \in news : i = 1
      <3> SUFFICES ASSUME NEW i \in news, i # 1 PROVE FALSE
        OBVIOUS
      <3>1. i - 1 \in DOMAIN r /\ (i - 1) + 1 = i
        BY <1>1
      <3> QED BY <1>2, <1>3, <3>1
    <2>2. later = up
      <3>1. CASE news = {}
        <4>1. was = up
          BY <3>1 DEF ShowsLink
        <4>2. q[1].type # "link"
          BY <1>1, <3>1
        <4> QED BY <1>1, <1>9, <4>1, <4>2
      <3>2. CASE news # {}
        <4>1. PICK i \in news : q[i].up = up
          BY <3>2 DEF ShowsLink
        <4>2. i = 1
          BY <2>1
        <4>3. q[1].type = "link"
          BY <4>2
        <4> QED BY <1>0, <1>1, <4>1, <4>2, <4>3
      <3> QED BY <3>1, <3>2
    <2> QED BY <1>3, <2>2 DEF ShowsLink
  <1>4. CASE newsR # {}
    <2>1. PICK k \in newsR : TRUE
      BY <1>4
    <2>2. k + 1 \in news /\ k + 1 > 1
      BY <1>1, <1>2
    <2>3. PICK i \in news : q[i].up = up /\ \A j \in news : j <= i
      BY <2>2 DEF ShowsLink
    <2>4. i - 1 \in DOMAIN r /\ (i - 1) + 1 = i
      BY <1>1, <2>2, <2>3
    <2>5. i - 1 \in newsR /\ r[i - 1].up = up
      BY <1>1, <1>2, <2>3, <2>4
    <2>6. \A j \in newsR : j <= i - 1
      BY <1>1, <1>2, <2>3
    <2> QED BY <1>4, <2>5, <2>6 DEF ShowsLink
  <1> QED BY <1>3, <1>4

-----------------------------------------------------------------------------
\* What a broadcast does to each browser.
LEMMA PublishEffect ==
    ASSUME WebInv, NEW m \in Messages, Publish(m)
    PROVE  /\ stage' \in [Browsers -> Stages] /\ outbox' \in [Browsers -> Seq(Messages)]
           /\ missed' = Missed(m)
           /\ \A b \in Browsers :
                 /\ stage[b] # "joined" => stage'[b] = stage[b] /\ outbox'[b] = outbox[b]
                 /\ stage[b] = "joined" /\ Len(outbox[b]) >= BrowserQueueMax =>
                        stage'[b] = "dropped" /\ outbox'[b] = <<>>
                 /\ stage[b] = "joined" /\ ~(Len(outbox[b]) >= BrowserQueueMax) =>
                        stage'[b] = "joined" /\ outbox'[b] = Append(outbox[b], m)
  <1> DEFINE stalled == {b \in Joined : Len(outbox[b]) >= BrowserQueueMax}
  <1>1. /\ stage' = [b \in Browsers |-> IF b \in stalled THEN "dropped" ELSE stage[b]]
        /\ outbox' = [b \in Browsers |->
               IF b \in stalled THEN <<>>
               ELSE IF b \in Joined THEN Append(outbox[b], m) ELSE outbox[b]]
        /\ missed' = Missed(m)
    BY DEF Publish
  <1>2. \A b \in Browsers :
            /\ b \in Joined <=> stage[b] = "joined"
            /\ b \in stalled <=> stage[b] = "joined" /\ Len(outbox[b]) >= BrowserQueueMax
    BY DEF Joined
  <1>3. stage \in [Browsers -> Stages] /\ outbox \in [Browsers -> Seq(Messages)]
    BY DEF WebInv, WebTypeOK
  <1>4. \A b \in Browsers : Append(outbox[b], m) \in Seq(Messages)
    BY <1>3
  <1>5. <<>> \in Seq(Messages) /\ "dropped" \in Stages
    BY DEF Stages
  <1> HIDE DEF stalled
  <1>6. stage' \in [Browsers -> Stages]
    BY <1>1, <1>3, <1>5
  <1>7. outbox' \in [Browsers -> Seq(Messages)]
    BY <1>1, <1>3, <1>4, <1>5
  <1> QED BY <1>1, <1>2, <1>6, <1>7

\* News of the link, or a message that is none, keeps what is known of each
\* browser.
LEMMA PublishKeeps ==
    ASSUME ConsoleAssumption, WebInv, NEW m \in Messages, Publish(m),
           \/ m.type = "link" /\ linkUp' = m.up
           \/ m.type # "link" /\ linkUp' = linkUp /\ Running,
           links' \in Nat, told' = told, sending' = sending
    PROVE  WebInv'
  <1>1. /\ stage' \in [Browsers -> Stages] /\ outbox' \in [Browsers -> Seq(Messages)]
        /\ missed' = Missed(m)
    BY PublishEffect
  <1>2. WebTypeOK'
    <2>1. m.up \in BOOLEAN
      BY DEF Messages
    <2> QED BY <1>1, <2>1 DEF WebInv, WebTypeOK
  <1>3. ASSUME NEW b \in Browsers PROVE OfBrowser(b)'
    <2>1. /\ outbox[b] \in Seq(Messages) /\ stage[b] \in Stages /\ OfBrowser(b)
          /\ told'[b] = told[b]
      BY DEF WebInv, WebTypeOK
    <2>2. CASE stage[b] # "joined"
      <3>1. stage'[b] = stage[b] /\ outbox'[b] = outbox[b] /\ outbox[b] = <<>>
        BY <2>1, <2>2, PublishEffect DEF OfBrowser
      <3>2. Informed(b)'
        <4>1. CASE m.type = "link"
          <5>1. stage[b] = "greeted" => b \in missed'
            BY <1>1, <4>1 DEF Missed
          <5> QED BY <2>2, <3>1, <5>1 DEF Informed
        <4>2. CASE m.type # "link"
          <5>1. missed' = missed /\ linkUp' = linkUp /\ Running
            BY <1>1, <4>2 DEF Missed
          <5> QED BY <2>1, <3>1, <5>1 DEF Informed, OfBrowser
        <4> QED BY <4>1, <4>2
      <3> QED BY <2>1, <2>2, <3>1, <3>2 DEF OfBrowser
    <2>3. CASE stage[b] = "joined" /\ Len(outbox[b]) >= BrowserQueueMax
      <3>1. stage'[b] = "dropped" /\ outbox'[b] = <<>>
        BY <2>3, PublishEffect
      <3>2. Len(outbox'[b]) <= BrowserQueueMax
        BY <3>1 DEF ConsoleAssumption
      <3> QED BY <3>1, <3>2 DEF OfBrowser, Informed
    <2>4. CASE stage[b] = "joined" /\ ~(Len(outbox[b]) >= BrowserQueueMax)
      <3>1. stage'[b] = "joined" /\ outbox'[b] = Append(outbox[b], m)
        BY <2>4, PublishEffect
      <3>2. Len(outbox'[b]) <= BrowserQueueMax
        BY <2>1, <2>4, <3>1 DEF ConsoleAssumption
      <3>3. Informed(b)'
        <4>1. CASE m.type = "link"
          <5>1. ShowsLink(outbox'[b], told'[b], m.up)
            BY <2>1, <3>1, <4>1, NewsShows
          <5> QED BY <4>1, <5>1 DEF Informed
        <4>2. CASE m.type # "link"
          <5>1. missed' = missed /\ linkUp' = linkUp /\ Running
            BY <1>1, <4>2 DEF Missed
          <5>2. SUFFICES ASSUME b \notin missed PROVE ShowsLink(outbox'[b], told'[b], linkUp')
            BY <5>1 DEF Informed
          <5>3. ShowsLink(outbox[b], told[b], linkUp)
            BY <2>1, <2>4, <5>1, <5>2 DEF OfBrowser, Informed
          <5>4. ShowsLink(Append(outbox[b], m), told[b], linkUp)
            BY <2>1, <4>2, <5>3, OtherMessageShows
          <5> QED BY <2>1, <3>1, <5>1, <5>4
        <4> QED BY <4>1, <4>2
      <3> QED BY <3>1, <3>2, <3>3 DEF OfBrowser
    <2> QED BY <2>2, <2>3, <2>4
  <1> QED BY <1>2, <1>3 DEF WebInv

\* What each message says.
LEMMA LinkMessages ==
    /\ \A up \in BOOLEAN : Link(up) \in Messages /\ Link(up).type = "link" /\ Link(up).up = up
    /\ Telemetry \in Messages /\ Telemetry.type # "link"
    /\ \A ok \in BOOLEAN, of \in Nat :
           /\ SendResult(ok, of) \in Messages /\ SendResult(ok, of).type = "send_result"
           /\ SendResult(ok, of).up = ok /\ SendResult(ok, of).of = of
  BY DEF Link, Telemetry, SendResult, Messages

\* A verdict is not news of the link.
LEMMA AnsweredKeeps ==
    ASSUME ConsoleAssumption, WebInv, NEW b \in Browsers, NEW ok \in BOOLEAN, NEW of \in Nat,
           Answered(b, SendResult(ok, of)), sending' \in [Browsers -> Nat],
           UNCHANGED <<downlink, linkUp, links, stage, told, missed>>
    PROVE  WebInv'
  <1> DEFINE m == SendResult(ok, of)
  <1>1. m \in Messages /\ m.type # "link"
    BY LinkMessages
  <1>2. outbox' = IF stage[b] = "joined" /\ Len(outbox[b]) < BrowserQueueMax
                  THEN [outbox EXCEPT ![b] = Append(@, m)] ELSE outbox
    BY DEF Answered
  <1> HIDE DEF m
  <1>3. outbox \in [Browsers -> Seq(Messages)]
    BY DEF WebInv, WebTypeOK
  <1>4. Append(outbox[b], m) \in Seq(Messages)
    BY <1>1, <1>3
  <1>5. outbox' \in [Browsers -> Seq(Messages)]
    BY <1>2, <1>3, <1>4
  <1>6. WebTypeOK'
    BY <1>5 DEF WebInv, WebTypeOK
  <1>7. ASSUME NEW c \in Browsers PROVE OfBrowser(c)'
    <2>1. OfBrowser(c) /\ outbox[c] \in Seq(Messages)
      BY <1>3 DEF WebInv
    <2>2. CASE outbox'[c] = outbox[c]
      BY <2>1, <2>2 DEF OfBrowser, Informed, Running
    <2>3. CASE outbox'[c] # outbox[c]
      <3>1. c = b /\ stage[b] = "joined" /\ Len(outbox[c]) < BrowserQueueMax
            /\ outbox'[c] = Append(outbox[c], m)
        BY <1>2, <1>3, <2>3
      <3>2. Len(outbox'[c]) <= BrowserQueueMax
        BY <2>1, <3>1 DEF ConsoleAssumption
      <3>3. ShowsLink(outbox[c], told[c], linkUp) => ShowsLink(outbox'[c], told[c], linkUp)
        BY <1>1, <2>1, <3>1, OtherMessageShows
      <3> QED BY <2>1, <3>1, <3>2, <3>3 DEF OfBrowser, Informed, Running
    <2> QED BY <2>2, <2>3
  <1> QED BY <1>6, <1>7 DEF WebInv

\* Steps that tell nothing to anyone.
LEMMA UntoldKeeps ==
    ASSUME WebInv, links' \in Nat, sending' \in [Browsers -> Nat], Running' => Running,
           UNCHANGED <<linkUp, stage, told, outbox, missed>>
    PROVE  WebInv'
  <1>1. WebTypeOK'
    BY DEF WebInv, WebTypeOK
  <1>2. \A b \in Browsers : OfBrowser(b) => OfBrowser(b)'
    BY DEF OfBrowser, Informed
  <1> QED BY <1>1, <1>2 DEF WebInv

\* At first there is nobody to be told anything.
LEMMA InitWebInv == ConsoleAssumption /\ WebInit => WebInv
  <1> SUFFICES ASSUME ConsoleAssumption, WebInit PROVE WebInv
    OBVIOUS
  <1>1. WebTypeOK
    <2>1. <<>> \in Seq(Messages) /\ "away" \in Stages
      BY DEF Stages
    <2>2. outbox \in [Browsers -> Seq(Messages)] /\ stage \in [Browsers -> Stages]
      BY <2>1 DEF WebInit
    <2>3. told \in [Browsers -> BOOLEAN] /\ sending \in [Browsers -> Nat]
      BY DEF WebInit
    <2>4. linkUp \in BOOLEAN /\ links \in Nat
      BY DEF WebInit
    <2> QED BY <2>2, <2>3, <2>4 DEF WebTypeOK
  <1>2. \A b \in Browsers : stage[b] = "away" /\ outbox[b] = <<>>
    BY DEF WebInit
  <1>3. \A b \in Browsers : OfBrowser(b)
    BY <1>2 DEF OfBrowser, Informed, ConsoleAssumption
  <1> QED BY <1>1, <1>3 DEF WebInv

\* A step that touches one browser keeps what is known of the others.
LEMMA OtherBrowsersKeep ==
    ASSUME WebInv, WebTypeOK', NEW b \in Browsers, OfBrowser(b)', Running' => Running,
           linkUp' = linkUp,
           \A c \in Browsers \ {b} :
               /\ stage'[c] = stage[c] /\ told'[c] = told[c] /\ outbox'[c] = outbox[c]
               /\ c \in missed' <=> c \in missed
    PROVE  WebInv'
  <1>1. ASSUME NEW c \in Browsers \ {b} PROVE OfBrowser(c)'
    BY DEF WebInv, OfBrowser, Informed
  <1> QED BY <1>1 DEF WebInv

\* Every step of the bridge, its browsers and the simulator keeps them
\* informed.
LEMMA NextWebInv == ConsoleAssumption /\ WebInv /\ [WebNext]_webVars => WebInv'
  <1> SUFFICES ASSUME ConsoleAssumption, WebInv, [WebNext]_webVars PROVE WebInv'
    OBVIOUS
  <1>0. /\ linkUp \in BOOLEAN /\ links \in Nat
        /\ stage \in [Browsers -> Stages] /\ told \in [Browsers -> BOOLEAN]
        /\ outbox \in [Browsers -> Seq(Messages)] /\ sending \in [Browsers -> Nat]
        /\ \A b \in Browsers : OfBrowser(b)
    BY DEF WebInv, WebTypeOK
  <1>a. /\ Link(TRUE) \in Messages /\ Link(TRUE).type = "link" /\ Link(TRUE).up = TRUE
        /\ Link(FALSE) \in Messages /\ Link(FALSE).type = "link" /\ Link(FALSE).up = FALSE
        /\ Telemetry \in Messages /\ Telemetry.type # "link"
    BY LinkMessages
  <1>1. CASE ConnectRefused
    <2>1. CASE linkUp
      <3>1. Publish(Link(FALSE)) /\ linkUp' = FALSE /\ links' \in Nat
            /\ told' = told /\ sending' = sending
        BY <1>0, <1>1, <2>1 DEF ConnectRefused
      <3> QED BY <1>a, <3>1, PublishKeeps
    <2>2. CASE ~linkUp
      <3>1. UNCHANGED <<linkUp, stage, outbox, missed, told, sending, links>>
            /\ Running
        BY <1>1, <2>2 DEF ConnectRefused, Running
      <3> QED BY <1>0, <3>1, UntoldKeeps
    <2> QED BY <2>1, <2>2
  <1>2. CASE Connected
    <2>1. Publish(Link(TRUE)) /\ linkUp' = TRUE /\ told' = told /\ sending' = sending
      BY <1>2 DEF Connected
    <2>2. links' \in Nat
      BY <1>0, <1>2 DEF Connected
    <2> QED BY <1>a, <2>1, <2>2, PublishKeeps
  <1>3. CASE PacketRead
    <2>1. Publish(Telemetry) /\ linkUp' = linkUp /\ links' \in Nat /\ Running
          /\ told' = told /\ sending' = sending
      BY <1>0, <1>3 DEF PacketRead, Running
    <2> QED BY <1>a, <2>1, PublishKeeps
  <1>4. CASE StreamEnded
    <2>1. Publish(Link(FALSE)) /\ linkUp' = FALSE /\ links' \in Nat
          /\ told' = told /\ sending' = sending
      BY <1>0, <1>4 DEF StreamEnded
    <2> QED BY <1>a, <2>1, PublishKeeps
  <1>5. CASE Rested \/ SimCloses \/ SimResets
    <2>1. UNCHANGED <<linkUp, stage, outbox, missed, told, sending, links>>
          /\ (Running' => Running)
      BY <1>5 DEF Rested, SimCloses, SimResets, Running
    <2> QED BY <1>0, <2>1, UntoldKeeps
  <1>6. CASE StreamFailed \/ Interrupted
    <2>1. PICK how \in {"failed", "interrupted"} : Ended(how)
      BY <1>6 DEF StreamFailed, Interrupted
    <2>2. /\ stage' = [b \in Browsers |-> "away"] /\ outbox' = [b \in Browsers |-> <<>>]
          /\ sending' = [b \in Browsers |-> 0] /\ ~Running'
          /\ UNCHANGED <<linkUp, links, told, missed>>
      BY <2>1 DEF Ended, Running
    <2>3. WebTypeOK'
      BY <1>0, <2>2 DEF WebTypeOK, Stages
    <2>4. \A b \in Browsers : stage'[b] = "away" /\ outbox'[b] = <<>>
      BY <2>2
    <2>5. \A b \in Browsers : OfBrowser(b)'
      BY <2>2, <2>4 DEF OfBrowser, Informed, ConsoleAssumption
    <2> QED BY <2>3, <2>5 DEF WebInv
  <1>7. ASSUME NEW b \in Browsers,
               Greeted(b) \/ Joins(b) \/ WriterSends(b) \/ WriterFails(b) \/ Leaves(b)
        PROVE  WebInv'
    <2>0. /\ outbox[b] \in Seq(Messages) /\ stage[b] \in Stages /\ told[b] \in BOOLEAN
          /\ OfBrowser(b)
      BY <1>0
    <2>1. CASE Greeted(b)
      <3>1. /\ Running /\ stage[b] = "away" /\ outbox' = outbox /\ linkUp' = linkUp
            /\ stage' = [stage EXCEPT ![b] = "greeted"] /\ told' = [told EXCEPT ![b] = linkUp]
            /\ missed' = missed \ {b} /\ links' = links /\ sending' = sending
            /\ downlink' = downlink
        BY <2>1 DEF Greeted
      <3>2. WebTypeOK'
        BY <1>0, <3>1 DEF WebTypeOK, Stages
      <3>3. outbox'[b] = <<>> /\ told'[b] = linkUp' /\ stage'[b] = "greeted"
        BY <1>0, <2>0, <3>1 DEF OfBrowser
      <3>4. ShowsLink(outbox'[b], told'[b], linkUp')
        BY <3>3, EmptyQueueShows
      <3>5. OfBrowser(b)'
        BY <3>3, <3>4 DEF OfBrowser, Informed, ConsoleAssumption
      <3>6. \A c \in Browsers \ {b} :
               /\ stage'[c] = stage[c] /\ told'[c] = told[c] /\ outbox'[c] = outbox[c]
               /\ c \in missed' <=> c \in missed
        BY <1>0, <3>1
      <3> QED BY <3>1, <3>2, <3>5, <3>6, OtherBrowsersKeep
    <2>2. CASE Joins(b)
      <3>1. /\ stage[b] = "greeted" /\ stage' = [stage EXCEPT ![b] = "joined"]
            /\ UNCHANGED <<downlink, linkUp, links, told, outbox, sending, missed>>
        BY <2>2 DEF Joins
      <3>2. WebTypeOK' /\ stage'[b] = "joined"
        BY <1>0, <3>1 DEF WebTypeOK, Stages
      <3>3. OfBrowser(b)'
        BY <2>0, <3>1, <3>2 DEF OfBrowser, Informed, Running
      <3>4. \A c \in Browsers \ {b} : stage'[c] = stage[c]
        BY <1>0, <3>1
      <3>5. Running' => Running
        BY <3>1 DEF Running
      <3> QED BY <3>1, <3>2, <3>3, <3>4, <3>5, OtherBrowsersKeep
    <2>3. CASE WriterSends(b)
      <3> DEFINE later == IF Head(outbox[b]).type = "link" THEN Head(outbox[b]).up ELSE told[b]
      <3>1. /\ stage[b] = "joined" /\ outbox[b] # <<>>
            /\ outbox' = [outbox EXCEPT ![b] = Tail(@)]
            /\ UNCHANGED <<downlink, linkUp, links, stage, sending, missed>>
            /\ told' = IF Head(outbox[b]).type = "link"
                       THEN [told EXCEPT ![b] = Head(outbox[b]).up] ELSE told
        BY <2>3 DEF WriterSends
      <3>2. /\ Head(outbox[b]) \in Messages /\ Tail(outbox[b]) \in Seq(Messages)
            /\ Len(Tail(outbox[b])) <= Len(outbox[b])
        BY <2>0, <3>1
      <3>3. Head(outbox[b]).up \in BOOLEAN
        BY <3>2 DEF Messages
      <3>4. outbox' \in [Browsers -> Seq(Messages)] /\ told' \in [Browsers -> BOOLEAN]
        BY <1>0, <3>1, <3>2, <3>3
      <3>5. WebTypeOK'
        BY <1>0, <3>1, <3>4 DEF WebTypeOK
      <3>6. outbox'[b] = Tail(outbox[b]) /\ told'[b] = later
        BY <1>0, <3>1
      <3>7. ShowsLink(outbox[b], told[b], linkUp) => ShowsLink(outbox'[b], told'[b], linkUp)
        BY <2>0, <3>1, <3>6, ReadQueueShows
      <3>8. Len(outbox'[b]) <= BrowserQueueMax
        <4>1. Len(outbox[b]) \in Nat /\ Len(Tail(outbox[b])) \in Nat
              /\ Len(outbox[b]) <= BrowserQueueMax
          BY <2>0, <3>2 DEF OfBrowser
        <4> QED BY <3>2, <3>6, <4>1 DEF ConsoleAssumption
      <3>9. OfBrowser(b)'
        BY <2>0, <3>1, <3>7, <3>8 DEF OfBrowser, Informed, Running
      <3>10. \A c \in Browsers \ {b} : told'[c] = told[c] /\ outbox'[c] = outbox[c]
        BY <1>0, <3>1
      <3>11. Running' => Running
        BY <3>1 DEF Running
      <3> QED BY <3>1, <3>5, <3>9, <3>10, <3>11, OtherBrowsersKeep
    <2>4. CASE WriterFails(b) \/ Leaves(b)
      <3>1. PICK out \in {"dropped", "away"} :
                /\ stage' = [stage EXCEPT ![b] = out] /\ outbox' = [outbox EXCEPT ![b] = <<>>]
                /\ UNCHANGED <<downlink, linkUp, links, told, sending, missed>>
        BY <2>4 DEF WriterFails, Leaves
      <3>2. WebTypeOK' /\ stage'[b] = out /\ outbox'[b] = <<>>
        BY <1>0, <3>1 DEF WebTypeOK, Stages
      <3>3. OfBrowser(b)'
        BY <3>1, <3>2 DEF OfBrowser, Informed, ConsoleAssumption
      <3>4. \A c \in Browsers \ {b} : stage'[c] = stage[c] /\ outbox'[c] = outbox[c]
        BY <1>0, <3>1
      <3>5. Running' => Running
        BY <3>1 DEF Running
      <3> QED BY <3>1, <3>2, <3>3, <3>4, <3>5, OtherBrowsersKeep
    <2> QED BY <1>7, <2>1, <2>2, <2>3, <2>4
  <1>8. ASSUME NEW b \in Browsers, SendRefused(b) \/ SendWritten(b) \/ SendReturns(b)
        PROVE  WebInv'
    <2>1. CASE SendRefused(b)
      <3>1. /\ Answered(b, SendResult(FALSE, 0)) /\ sending' = sending
            /\ UNCHANGED <<downlink, linkUp, links, stage, told, missed>>
        BY <2>1 DEF SendRefused
      <3> QED BY <1>0, <3>1, AnsweredKeeps
    <2>2. CASE SendWritten(b)
      <3>1. /\ sending' = [sending EXCEPT ![b] = links]
            /\ UNCHANGED <<downlink, linkUp, links, stage, told, outbox, missed>>
        BY <2>2 DEF SendWritten
      <3>2. sending' \in [Browsers -> Nat] /\ (Running' => Running)
        BY <1>0, <3>1 DEF Running
      <3> QED BY <1>0, <3>1, <3>2, UntoldKeeps
    <2>3. CASE SendReturns(b)
      <3>1. /\ Answered(b, SendResult(Standing(sending[b]), sending[b]))
            /\ sending' = [sending EXCEPT ![b] = 0]
            /\ UNCHANGED <<downlink, linkUp, links, stage, told, missed>>
        BY <2>3 DEF SendReturns
      <3>2. sending' \in [Browsers -> Nat] /\ sending[b] \in Nat
        BY <1>0, <3>1
      <3>3. Standing(sending[b]) \in BOOLEAN
        BY DEF Standing
      <3> QED BY <3>1, <3>2, <3>3, AnsweredKeeps
    <2> QED BY <1>8, <2>1, <2>2, <2>3
  <1>9. CASE UNCHANGED webVars
    <2>1. UNCHANGED <<linkUp, stage, outbox, missed, told, sending, links>>
          /\ (Running' => Running)
      BY <1>9 DEF webVars, Running
    <2> QED BY <1>0, <2>1, UntoldKeeps
  <1> QED BY <1>1, <1>2, <1>3, <1>4, <1>5, <1>6, <1>7, <1>8, <1>9 DEF WebNext

\* Only handlers of browsers speak of commands, and a positive verdict is given
\* by the one that returns from its write.
LEMMA StepIsHonest ==
    ASSUME WebInv, WebNext, NEW b \in Browsers,
           Len(outbox'[b]) = Len(outbox[b]) + 1,
           Last(outbox'[b]).type = "send_result", Last(outbox'[b]).up
    PROVE  Last(outbox'[b]).of = links /\ transport \in {"open", "eof"}
  <1>0. outbox \in [Browsers -> Seq(Messages)] /\ sending \in [Browsers -> Nat]
        /\ stage \in [Browsers -> Stages]
    BY DEF WebInv, WebTypeOK
  <1>a. outbox[b] \in Seq(Messages) /\ Len(outbox[b]) \in Nat
    BY <1>0
  <1>b. outbox'[b] # outbox[b] /\ outbox'[b] # <<>>
    BY <1>a
  <1>c. ASSUME NEW m, outbox'[b] = Append(outbox[b], m)
        PROVE  m.type = "send_result" /\ m.up /\ Last(outbox'[b]) = m
    <2>1. Last(outbox'[b]) = m
      BY <1>a, <1>c DEF Last
    <2> QED BY <2>1
  <1>1. ASSUME NEW m \in Messages, Publish(m) PROVE m.type = "send_result"
    <2>1. outbox'[b] = Append(outbox[b], m)
      BY <1>b, <1>1, PublishEffect
    <2> QED BY <1>c, <2>1
  <1>2. ~(ConnectRefused \/ Connected \/ PacketRead \/ StreamEnded)
    <2>1. Link(TRUE).type = "link" /\ Link(FALSE).type = "link" /\ Telemetry.type = "telemetry"
      BY DEF Link, Telemetry
    <2>2. Link(TRUE) \in Messages /\ Link(FALSE) \in Messages /\ Telemetry \in Messages
      BY LinkMessages
    <2>3. ~Publish(Link(TRUE)) /\ ~Publish(Link(FALSE)) /\ ~Publish(Telemetry)
      BY <1>1, <2>1, <2>2
    <2> QED BY <1>b, <2>3 DEF ConnectRefused, Connected, PacketRead, StreamEnded
  <1>3. ~(Rested \/ SimCloses \/ SimResets)
    BY <1>b DEF Rested, SimCloses, SimResets
  <1>4. ~(StreamFailed \/ Interrupted)
    BY <1>b DEF StreamFailed, Interrupted, Ended
  <1>5. ASSUME NEW c \in Browsers
        PROVE  ~(Greeted(c) \/ Joins(c) \/ WriterSends(c) \/ WriterFails(c) \/ Leaves(c))
    <2>1. ~(Greeted(c) \/ Joins(c))
      BY <1>b DEF Greeted, Joins
    <2>2. ~(WriterFails(c) \/ Leaves(c))
      BY <1>0, <1>b DEF WriterFails, Leaves
    <2>3. ~WriterSends(c)
      <3>1. SUFFICES ASSUME WriterSends(c) PROVE FALSE
        OBVIOUS
      <3>2. outbox' = [outbox EXCEPT ![c] = Tail(@)] /\ outbox[c] # <<>>
        BY <3>1 DEF WriterSends
      <3>3. c = b /\ outbox'[b] = Tail(outbox[b])
        BY <1>0, <1>b, <3>2
      <3>4. Len(Tail(outbox[b])) = Len(outbox[b]) - 1
        BY <1>a, <3>2, <3>3
      <3> QED BY <1>a, <3>3, <3>4
    <2> QED BY <2>1, <2>2, <2>3
  <1>6. PICK c \in Browsers : SendRefused(c) \/ SendWritten(c) \/ SendReturns(c)
    BY <1>2, <1>3, <1>4, <1>5 DEF WebNext
  <1>7. ASSUME NEW m, Answered(c, m)
        PROVE  c = b /\ outbox'[b] = Append(outbox[b], m)
    BY <1>0, <1>b, <1>7 DEF Answered
  <1>8. ~SendWritten(c)
    BY <1>b DEF SendWritten
  <1>9. ~SendRefused(c)
    <2>1. SUFFICES ASSUME SendRefused(c) PROVE FALSE
      OBVIOUS
    <2>2. Answered(c, SendResult(FALSE, 0))
      BY <2>1 DEF SendRefused
    <2>3. SendResult(FALSE, 0).up
      BY <1>7, <1>c, <2>2
    <2>4. SendResult(FALSE, 0).up = FALSE
      BY DEF SendResult
    <2> QED BY <2>3, <2>4
  <1>10. SendReturns(c)
    BY <1>6, <1>8, <1>9
  <1>11. Answered(c, SendResult(Standing(sending[c]), sending[c]))
    BY <1>10 DEF SendReturns
  <1> DEFINE m == SendResult(Standing(sending[c]), sending[c])
  <1>12. m.up = Standing(sending[c]) /\ m.of = sending[c]
    BY DEF SendResult
  <1> HIDE DEF m
  <1>13. m.up /\ Last(outbox'[b]) = m
    BY <1>7, <1>11, <1>c DEF m
  <1>14. Standing(sending[c])
    BY <1>12, <1>13
  <1> QED BY <1>12, <1>13, <1>14 DEF Standing

-----------------------------------------------------------------------------
\* Every reachable state satisfies it.
THEOREM WebInvariance == WebSpec => []WebInv
  <1> USE ConsoleAssumption
  <1>1. WebInit => WebInv
    BY InitWebInv
  <1>2. WebInv /\ [WebNext]_webVars => WebInv'
    BY NextWebInv
  <1> QED BY <1>1, <1>2, PTL DEF WebSpec

(***************************************************************************)
(* However the link flaps and whichever browsers stall, come or go: a      *)
(* client that no news of the link has passed by shows it as it is once    *)
(* its queue is drained.                                                   *)
(***************************************************************************)
THEOREM ClientsShowTheLink == WebSpec => []IndicatorsAgree
  <1>2. WebInv => IndicatorsAgree
    BY DEF WebInv, OfBrowser, Informed, IndicatorsAgree, Joined
  <1> QED BY <1>2, WebInvariance, PTL

(***************************************************************************)
(* "transmitted" is only said of a command whose own connection was up     *)
(* after the write, however often the bridge has reconnected meanwhile.    *)
(***************************************************************************)
THEOREM VerdictsAreHonest == WebSpec => TransmittedIsHonest
  <1> DEFINE Said ==
        \A b \in Browsers :
          LET m == outbox'[b] IN
          /\ Len(m) = Len(outbox[b]) + 1 /\ Last(m).type = "send_result" /\ Last(m).up
          => Last(m).of = links /\ transport \in {"open", "eof"}
  <1>1. WebInv /\ [WebNext]_webVars => [Said]_webVars
    BY StepIsHonest
  <1>2. TransmittedIsHonest <=> [][Said]_webVars
    BY PTL DEF TransmittedIsHonest
  <1> HIDE DEF Said
  <1> QED BY <1>1, <1>2, WebInvariance, PTL DEF WebSpec

\* No queue of a browser outgrows its bound, and one that is no client has none.
THEOREM BrowserQueuesAreBounded ==
    WebSpec => [](\A b \in Browsers : Len(outbox[b]) <= BrowserQueueMax
                                      /\ (stage[b] # "joined" => outbox[b] = <<>>))
  <1>2. WebInv => \A b \in Browsers : Len(outbox[b]) <= BrowserQueueMax
                                      /\ (stage[b] # "joined" => outbox[b] = <<>>)
    BY DEF WebInv, OfBrowser
  <1> QED BY <1>2, WebInvariance, PTL

-----------------------------------------------------------------------------
(***************************************************************************)
(* The check of a vehicle's health.                                        *)
(***************************************************************************)
\* A finite, non-empty set of numbers has a greatest one.
LEMMA MaxOfFinite ==
    ASSUME NEW T \in SUBSET Nat, IsFiniteSet(T), T # {}
    PROVE  Max(T) \in T /\ \A y \in T : y <= Max(T)
  <1> DEFINE Greatest(U) == \E x \in U : \A y \in U : x >= y
             Odd == {U \in SUBSET T : U # {} /\ ~Greatest(U)}
  <1>1. Odd = {}
    <2>1. SUFFICES ASSUME Odd # {} PROVE FALSE
      OBVIOUS
    <2>2. Odd \subseteq FiniteSubsetsOf(T)
      BY FS_FiniteSubsetsOfFinite
    <2>3. PICK U \in Odd : \A V \in Odd : <<V, U>> \notin StrictSubsetOrdering(T)
      BY <2>1, <2>2, FS_StrictSubsetOrderingWellFounded, WFMin, Zenon
    <2>4. PICK u \in U : TRUE
      OBVIOUS
    <2>5. U \ {u} \notin Odd
      BY <2>3, <2>4 DEF StrictSubsetOrdering
    <2>6. CASE U \ {u} = {}
      <3>1. U = {u} /\ u \in Nat
        BY <2>4, <2>6
      <3>2. Greatest(U)
        BY <3>1
      <3> QED BY <2>3, <3>2
    <2>7. CASE Greatest(U \ {u})
      <3>1. PICK x \in U \ {u} : \A y \in U \ {u} : x >= y
        BY <2>7
      <3>2. U \subseteq Nat
        OBVIOUS
      <3>3. Greatest(U)
        <4>1. CASE x >= u
          BY <3>1, <4>1
        <4>2. CASE ~(x >= u)
          <5>1. \A y \in U : u >= y
            BY <2>4, <3>1, <3>2, <4>2
          <5> QED BY <2>4, <5>1
        <4> QED BY <4>1, <4>2
      <3> QED BY <2>3, <3>3
    <2> QED BY <2>5, <2>6, <2>7
  <1>2. \E x \in T : \A y \in T : x >= y
    BY <1>1
  <1>3. Max(T) \in T /\ \A y \in T : Max(T) >= y
    BY <1>2 DEF Max
  <1> QED BY <1>3

-----------------------------------------------------------------------------
Reports == [apids : SUBSET DOMAIN Beaconed, failures : SUBSET DOMAIN Beaconed,
            error : {"", "refused", "silent", "missing", "framing"}, done : BOOLEAN]

\* The first packet a comes after its phase, and every one at the latest when
\* it is due; only what ails the vehicle keeps one from being counted.
Awaited(a) ==
    a \in health.apids \/ due[a] < PeriodOf(a) \/ a \in ailment.lost \/ ailment.silent

(***************************************************************************)
(* The inductive invariant of a check: what it has counted is what came,   *)
(* and what it has not is ailing, or is not due before the window closes.  *)
(***************************************************************************)
VerifyInv ==
    /\ ailment \in Ailments /\ health \in Reports
    /\ elapsed \in Nat /\ waiting \in Nat /\ due \in [Wanted -> Nat]
    /\ health.failures = health.apids \cap ailment.spoilt
    /\ health.apids \cap ailment.lost = {}
    /\ ailment.silent => health.apids \cap Wanted = {}
    /\ ~health.done =>
           /\ health.error = ""
           /\ \A a \in Wanted : elapsed <= due[a] /\ Awaited(a)
    /\ health.done =>
           /\ health.error = "" => Wanted \subseteq health.apids
           /\ ~ailment.silent /\ ailment.lost = {} /\ ailment.link = "sound"
                  => health.error = ""

-----------------------------------------------------------------------------
\* The check reads for at least the longest period that it waits for.
LEMMA WindowIsLongEnough ==
    /\ ReadWindow \in Nat \ {0}
    /\ \A a \in Wanted : PeriodOf(a) \in Nat \ {0} /\ PeriodOf(a) <= ReadWindow
  <1> DEFINE D == DOMAIN Beaconed
             Periods == {Beaconed[a] : a \in D}
             slowest == Max({0} \union Periods)
             beacons == (5 * slowest) \div 2
  <1>1. IsFiniteSet(Periods)
    <2>1. [a \in D |-> Beaconed[a]] \in Surjection(D, Periods)
      BY DEF Surjection
    <2> QED BY <2>1, FS_Surjection, PeriodsAssumption
  <1>2. {0} \union Periods \in SUBSET Nat /\ {0} \union Periods # {}
    BY PeriodsAssumption
  <1>3. IsFiniteSet({0} \union Periods)
    BY <1>1, FS_Union, FS_Singleton
  <1>4. slowest \in Nat /\ \A a \in D : Beaconed[a] <= slowest
    BY <1>2, <1>3, MaxOfFinite
  <1>5. beacons \in Nat /\ slowest <= beacons
    <2>1. \A n \in Nat : (5 * n) \div 2 \in Nat /\ n <= (5 * n) \div 2
      OBVIOUS
    <2> HIDE DEF slowest
    <2> QED BY <1>4, <2>1
  <1>6. VerifyTimeout \in Nat \ {0}
    BY PeriodsAssumption
  <1>7. ReadWindow = Max({VerifyTimeout, beacons})
    BY DEF ReadWindow
  <1> HIDE DEF slowest, beacons, Periods
  <1>8. /\ Max({VerifyTimeout, beacons}) \in {VerifyTimeout, beacons}
        /\ \A y \in {VerifyTimeout, beacons} : y <= Max({VerifyTimeout, beacons})
    <2>1. IsFiniteSet({VerifyTimeout} \cup {beacons})
      BY FS_Union, FS_Singleton
    <2>2. {VerifyTimeout, beacons} = {VerifyTimeout} \cup {beacons}
      OBVIOUS
    <2> QED BY <1>5, <1>6, <2>1, <2>2, MaxOfFinite
  <1>9. ReadWindow \in Nat \ {0} /\ slowest <= ReadWindow /\ VerifyTimeout <= ReadWindow
    BY <1>4, <1>5, <1>6, <1>7, <1>8
  <1>10. ASSUME NEW a \in Wanted
         PROVE  PeriodOf(a) \in Nat \ {0} /\ PeriodOf(a) <= ReadWindow
    <2>1. Beaconed[a] \in Nat /\ Beaconed[a] <= slowest
      BY <1>4, PeriodsAssumption DEF Wanted
    <2>2. BeaconDefault \in Nat \ {0} /\ BeaconDefault <= VerifyTimeout
      BY PeriodsAssumption
    <2> QED BY <1>4, <1>6, <1>9, <2>1, <2>2 DEF PeriodOf
  <1> QED BY <1>9, <1>10

\* The check waits for something, and only for what is beaconed.
LEMMA WantedIsSome == Wanted # {} /\ Wanted \subseteq DOMAIN Beaconed
  BY PeriodsAssumption DEF Wanted

\* The last line of a report is about packets that did not come, and overrides
\* nothing.
LEMMA FlaggedEffect ==
    ASSUME NEW h \in Reports
    PROVE  /\ Flagged(h) \in Reports /\ Flagged(h).done
           /\ Flagged(h).apids = h.apids /\ Flagged(h).failures = h.failures
           /\ h.error # "" => Flagged(h).error = h.error
           /\ h.error = "" => (Flagged(h).error = "" <=> Wanted \subseteq h.apids)
  BY WantedIsSome DEF Flagged, Reports

\* When the window has passed, a vehicle without an ailment has sent it all.
LEMMA WindowClosed ==
    ASSUME VerifyInv, ~health.done, elapsed >= ReadWindow,
           ~ailment.silent, ailment.lost = {}
    PROVE  Wanted \subseteq health.apids
  <1>1. ASSUME NEW a \in Wanted PROVE ~(due[a] < PeriodOf(a))
    <2>1. due[a] \in Nat /\ elapsed <= due[a] /\ elapsed \in Nat
      BY DEF VerifyInv
    <2> QED BY <2>1, WindowIsLongEnough
  <1> QED BY <1>1 DEF VerifyInv, Awaited

\* A check that has not connected has seen nothing.
LEMMA InitVerifyInv == VerifyInit => VerifyInv
  <1> DEFINE fresh == [apids |-> {}, failures |-> {}, error |-> "", done |-> FALSE]
  <1> SUFFICES ASSUME VerifyInit PROVE VerifyInv
    OBVIOUS
  <1>1. /\ ailment \in Ailments /\ elapsed = 0 /\ waiting = 0
        /\ \A a \in Wanted : due[a] < PeriodOf(a)
        /\ health = IF ailment.link = "refused"
                    THEN [fresh EXCEPT !.error = "refused", !.done = TRUE]
                    ELSE IF ReadsOn(fresh) THEN fresh ELSE Flagged(fresh)
    BY DEF VerifyInit
  <1>2. due \in [Wanted -> Nat]
    <2> DEFINE Periods == {PeriodOf(a) : a \in Wanted} \union {1}
    <2>1. IsFiniteSet({PeriodOf(a) : a \in Wanted})
      <3>1. [a \in Wanted |-> PeriodOf(a)] \in Surjection(Wanted, {PeriodOf(a) : a \in Wanted})
        BY DEF Surjection
      <3>2. IsFiniteSet(Wanted)
        BY PeriodsAssumption, FS_Subset, WantedIsSome
      <3> QED BY <3>1, <3>2, FS_Surjection
    <2>2. IsFiniteSet(Periods) /\ Periods \in SUBSET Nat /\ Periods # {}
      <3>1. IsFiniteSet({1})
        BY FS_Singleton
      <3>2. IsFiniteSet(Periods)
        BY <2>1, <3>1, FS_Union, Zenon
      <3>3. \A a \in Wanted : PeriodOf(a) \in Nat
        BY WindowIsLongEnough
      <3> QED BY <3>2, <3>3
    <2> HIDE DEF Periods
    <2>3. Max(Periods) \in Nat
      BY <2>2, MaxOfFinite
    <2>4. due \in [Wanted -> 0..(Max(Periods) - 1)]
      BY DEF VerifyInit, Periods
    <2> HIDE DEF VerifyInit
    <2> QED BY <2>3, <2>4
  <1>3. fresh \in Reports /\ ReadsOn(fresh)
    <2>1. fresh.apids = {} /\ fresh \in Reports
      BY DEF Reports
    <2>2. elapsed < ReadWindow
      <3>1. elapsed = 0
        BY <1>1
      <3>2. ReadWindow \in Nat \ {0}
        BY WindowIsLongEnough
      <3> HIDE DEF VerifyInit
      <3> QED BY <3>1, <3>2
    <2> QED BY <2>1, <2>2, WantedIsSome DEF ReadsOn
  <1>4. CASE ailment.link = "refused"
    <2>1. /\ health.apids = {} /\ health.failures = {} /\ health.error = "refused"
          /\ health.done = TRUE /\ health \in Reports
      BY <1>1, <1>4 DEF Reports
    <2> QED BY <1>1, <1>2, <1>4, <2>1 DEF VerifyInv
  <1>5. CASE ailment.link # "refused"
    <2>1. health = fresh
      BY <1>1, <1>3, <1>5
    <2>2. /\ health.apids = {} /\ health.failures = {} /\ health.error = ""
          /\ health.done = FALSE /\ health \in Reports
      BY <1>3, <2>1
    <2>3. elapsed \in Nat /\ waiting \in Nat
      BY <1>1
    <2>4. ASSUME NEW a \in Wanted PROVE elapsed <= due[a]
      <3>1. elapsed = 0 /\ due[a] \in Nat
        BY <1>1, <1>2
      <3> QED BY <3>1
    <2> HIDE DEF fresh, VerifyInit
    <2> QED BY <1>1, <1>2, <2>2, <2>3, <2>4 DEF VerifyInv, Awaited
  <1> QED BY <1>4, <1>5

\* Every step of the check and of the vehicle keeps what the check may
\* conclude.
LEMMA NextVerifyInv == VerifyInv /\ [VerifyNext]_verifyVars => VerifyInv'
  <1> SUFFICES ASSUME VerifyInv, [VerifyNext]_verifyVars PROVE VerifyInv'
    OBVIOUS
  <1>1. ASSUME NEW events \in SUBSET OnEventOnly, PacketsRead(events) PROVE VerifyInv'
    <2> DEFINE packets == Flowing(DueNow) \union events
               h == Tallied(health, packets)
    <2>1. /\ ~health.done /\ ailment' = ailment /\ elapsed' = elapsed
          /\ due' = [a \in Wanted |-> IF a \in DueNow THEN elapsed + PeriodOf(a) ELSE due[a]]
          /\ IF packets = {} THEN UNCHANGED <<health, waiting>>
             ELSE /\ health' = IF ReadsOn(h) THEN h ELSE Flagged(h)
                  /\ waiting' = elapsed
      BY <1>1 DEF PacketsRead
    <2>2. /\ packets \subseteq DOMAIN Beaconed /\ packets \cap Wanted = Flowing(DueNow)
          /\ packets \cap ailment.lost = {}
          /\ ailment.silent => packets \cap Wanted = {}
      <3>1. /\ Flowing(DueNow) \subseteq Wanted /\ Wanted \cap OnEventOnly = {}
            /\ OnEventOnly \subseteq DOMAIN Beaconed /\ Wanted \subseteq DOMAIN Beaconed
        BY PeriodsAssumption DEF Flowing, DueNow, Wanted
      <3>2. ailment.lost \subseteq Wanted
        BY AilmentsAssumption DEF VerifyInv, Wanted
      <3>3. Flowing(DueNow) \cap ailment.lost = {} /\ (ailment.silent => Flowing(DueNow) = {})
        BY DEF Flowing
      <3> QED BY <3>1, <3>2, <3>3
    <2>3. /\ h \in Reports /\ h.apids = health.apids \cup packets
          /\ h.failures = health.failures \cup (packets \cap ailment.spoilt)
          /\ h.error = "" /\ h.done = FALSE
      BY <2>1, <2>2 DEF VerifyInv, Tallied, Reports
    <2> HIDE DEF packets, h
    <2>4. /\ health.failures = health.apids \cap ailment.spoilt
          /\ health.apids \cap ailment.lost = {}
          /\ ailment.silent => health.apids \cap Wanted = {}
      BY DEF VerifyInv
    <2>5. /\ h.failures = h.apids \cap ailment.spoilt /\ h.apids \cap ailment.lost = {}
          /\ ailment.silent => h.apids \cap Wanted = {}
      BY <2>2, <2>3, <2>4
    <2>6. due' \in [Wanted -> Nat] /\ elapsed' \in Nat /\ waiting' \in Nat
      <3>1. elapsed \in Nat /\ waiting \in Nat /\ due \in [Wanted -> Nat]
        BY DEF VerifyInv
      <3> QED BY <2>1, <3>1, WindowIsLongEnough
    <2>7. ASSUME NEW a \in Wanted
          PROVE  /\ elapsed <= due'[a]
                 /\ a \in h.apids \/ due'[a] < PeriodOf(a) \/ a \in ailment.lost \/ ailment.silent
      <3>1. /\ due[a] \in Nat /\ elapsed \in Nat /\ elapsed <= due[a] /\ Awaited(a)
            /\ PeriodOf(a) \in Nat
        BY <2>1, WindowIsLongEnough DEF VerifyInv
      <3>2. CASE a \in DueNow
        <4>1. due'[a] = elapsed + PeriodOf(a)
          BY <2>1, <3>2
        <4>2. ~ailment.silent /\ a \notin ailment.lost => a \in packets
          BY <3>2 DEF Flowing, packets
        <4>3. elapsed <= elapsed + PeriodOf(a)
          BY <3>1
        <4>4. elapsed <= due'[a]
          BY <4>1, <4>3
        <4> QED BY <2>3, <4>2, <4>4
      <3>3. CASE a \notin DueNow
        <4>1. due'[a] = due[a]
          BY <2>1, <3>3
        <4> QED BY <2>3, <3>1, <4>1 DEF Awaited
      <3> QED BY <3>2, <3>3
    <2>8. CASE packets = {}
      <3>1. health' = health /\ h.apids = health.apids
        BY <2>1, <2>3, <2>8
      <3> QED BY <2>1, <2>4, <2>6, <2>7, <3>1 DEF VerifyInv, Awaited
    <2>9. CASE packets # {} /\ ReadsOn(h)
      <3>1. health' = h
        BY <2>1, <2>9
      <3> QED BY <2>1, <2>3, <2>5, <2>6, <2>7, <3>1 DEF VerifyInv, Awaited
    <2>10. CASE packets # {} /\ ~ReadsOn(h)
      <3>1. health' = Flagged(h)
        BY <2>1, <2>10
      <3>2. /\ Flagged(h) \in Reports /\ Flagged(h).done
            /\ Flagged(h).apids = h.apids /\ Flagged(h).failures = h.failures
            /\ Flagged(h).error = "" <=> Wanted \subseteq h.apids
        BY <2>3, FlaggedEffect
      <3>3. ~ailment.silent /\ ailment.lost = {} => Wanted \subseteq h.apids
        <4>1. Wanted \subseteq h.apids \/ ~(elapsed < ReadWindow)
          BY <2>10 DEF ReadsOn
        <4>2. elapsed \in Nat /\ ReadWindow \in Nat
          BY WindowIsLongEnough DEF VerifyInv
        <4>3. Wanted \subseteq h.apids \/ elapsed >= ReadWindow
          BY <4>1, <4>2
        <4> QED BY <2>1, <2>3, <4>3, WindowClosed
      <3> QED BY <2>1, <2>5, <2>6, <3>1, <3>2, <3>3 DEF VerifyInv
    <2> QED BY <2>8, <2>9, <2>10
  <1>2. ASSUME ReadTimesOut PROVE VerifyInv'
    <2>1. /\ ~health.done /\ elapsed - waiting >= ReadWindow /\ health' = Flagged(health)
          /\ UNCHANGED <<ailment, due, elapsed, waiting>>
      BY <1>2 DEF ReadTimesOut
    <2>2. health \in Reports /\ health.error = ""
      BY <2>1 DEF VerifyInv
    <2>3. elapsed >= ReadWindow
      <3>1. elapsed \in Nat /\ waiting \in Nat /\ ReadWindow \in Nat
        BY WindowIsLongEnough DEF VerifyInv
      <3> QED BY <2>1, <3>1
    <2>4. /\ Flagged(health) \in Reports /\ Flagged(health).done
          /\ Flagged(health).apids = health.apids
          /\ Flagged(health).failures = health.failures
          /\ Flagged(health).error = "" <=> Wanted \subseteq health.apids
      BY <2>2, FlaggedEffect
    <2>5. ~ailment.silent /\ ailment.lost = {} => Wanted \subseteq health.apids
      BY <2>1, <2>3, WindowClosed
    <2> QED BY <2>1, <2>4, <2>5 DEF VerifyInv
  <1>3. ASSUME LinkFails PROVE VerifyInv'
    <2> DEFINE h == [health EXCEPT !.error = IF ailment.link = "garbled" THEN "framing" ELSE @]
    <2>1. /\ ~health.done /\ ailment.link # "sound" /\ health' = Flagged(h)
          /\ UNCHANGED <<ailment, due, elapsed, waiting>>
      BY <1>3 DEF LinkFails
    <2>2. health \in Reports
      BY DEF VerifyInv
    <2>3. h \in Reports /\ h.apids = health.apids /\ h.failures = health.failures
      BY <2>2 DEF Reports
    <2> HIDE DEF h
    <2>4. /\ Flagged(h) \in Reports /\ Flagged(h).done
          /\ Flagged(h).apids = h.apids /\ Flagged(h).failures = h.failures
          /\ Flagged(h).error = "" => Wanted \subseteq h.apids
      BY <2>3, FlaggedEffect
    <2> QED BY <2>1, <2>3, <2>4 DEF VerifyInv
  <1>4. ASSUME Passes PROVE VerifyInv'
    <2>1. /\ ~health.done /\ DueNow = {} /\ elapsed' = elapsed + 1
          /\ UNCHANGED <<ailment, due, waiting, health>>
      BY <1>4 DEF Passes
    <2>2. ASSUME NEW a \in Wanted PROVE elapsed + 1 <= due[a]
      <3>1. due[a] \in Nat /\ elapsed \in Nat /\ elapsed <= due[a] /\ due[a] # elapsed
        BY <2>1 DEF VerifyInv, DueNow
      <3> QED BY <3>1
    <2>3. elapsed' \in Nat
      <3>1. elapsed \in Nat
        BY DEF VerifyInv
      <3> QED BY <2>1, <3>1
    <2> QED BY <2>1, <2>2, <2>3 DEF VerifyInv, Awaited
  <1>5. CASE UNCHANGED verifyVars
    BY <1>5 DEF verifyVars, VerifyInv, Awaited
  <1> QED BY <1>1, <1>2, <1>3, <1>4, <1>5 DEF VerifyNext

(***************************************************************************)
(* The verdict of the health check can be relied on in both ways, for any  *)
(* periods, any phases and any timeout: the window is never too short for  *)
(* a vehicle that sends what it should, and no ailment is overlooked.      *)
(***************************************************************************)
THEOREM HealthVerdictsAreRight == VerifySpec => []HealthIsJudgedRightly
  <1>1. VerifyInv => HealthIsJudgedRightly
    <2> SUFFICES ASSUME VerifyInv, health.done
                 PROVE  /\ /\ ~ailment.silent /\ ailment.link = "sound"
                           /\ ailment.lost = {} /\ ailment.spoilt = {}
                           => Healthy(health)
                        /\ ailment.silent \/ ailment.lost # {} => ~Healthy(health)
                        /\ ailment.spoilt \cap Wanted # {} => ~Healthy(health)
      BY DEF HealthIsJudgedRightly
    <2>1. /\ health.failures = health.apids \cap ailment.spoilt
          /\ health.apids \cap ailment.lost = {}
          /\ ailment.silent => health.apids \cap Wanted = {}
          /\ health.error = "" => Wanted \subseteq health.apids
          /\ ~ailment.silent /\ ailment.lost = {} /\ ailment.link = "sound"
                 => health.error = ""
          /\ ailment.lost \subseteq Wanted /\ Wanted # {}
      BY AilmentsAssumption, WantedIsSome DEF VerifyInv, Wanted
    <2> QED BY <2>1 DEF Healthy
  <1> QED BY <1>1, InitVerifyInv, NextVerifyInv, PTL DEF VerifySpec

-----------------------------------------------------------------------------
(***************************************************************************)
(* The status packet of a slot.                                            *)
(***************************************************************************)
\* What the declaration of the packet cannot carry was reported at the start.
Declared == ReportDeclaration(layout) \subseteq logged

StatusInv ==
    /\ status \in Progress
    /\ Declared
    /\ lastSent.made =>
          \A f \in DOMAIN layout \ logged : f \in DOMAIN lastSent.of /\ Shows(f)

\* The declaration is reported before a packet is sent.
LEMMA InitStatusInv == StatusInit => StatusInv
  <1> SUFFICES ASSUME StatusInit PROVE StatusInv
    OBVIOUS
  <1>1. /\ status \in Progress /\ logged = ReportDeclaration(layout)
        /\ lastSent.made = FALSE
    BY DEF StatusInit
  <1> QED BY <1>1 DEF StatusInv, Declared

\* The value that a packet carries for a key it can express.
LEMMA CarriedValue ==
    ASSUME NEW overlay, NEW f \in Known, WireLabel(f, status[f]) # <<>>
    PROVE  PacketValues(overlay)[f] = WireLabel(f, status[f])[1]
  <1>1. f \in DOMAIN ValuesFor /\ ValuesFor[f] = WireLabel(f, status[f])[1]
    BY DEF ValuesFor, Inexpressible
  <1>2. \A g, h : f \in DOMAIN g => OnTop(g, h)[f] = g[f]
    BY DEF OnTop
  <1> QED BY <1>1, <1>2, Zenon DEF PacketValues

\* A packet that is sent shows the slot or names in the log what it does not
\* show.
LEMMA NextStatusInv == StatusInv /\ [StatusNext]_statusVars => StatusInv'
  <1> SUFFICES ASSUME StatusInv, [StatusNext]_statusVars PROVE StatusInv'
    OBVIOUS
  <1>1. CASE SlotMoves
    BY <1>1 DEF SlotMoves, StatusInv, Declared, ReportDeclaration, EnumGaps, Shows
  <1>2. ASSUME NEW overlay, SendStatus(overlay) PROVE StatusInv'
    <2> DEFINE values == [f \in DOMAIN layout |-> PacketValues(overlay)[f]]
               fits == [f \in DOMAIN layout |-> Fitted(f, values[f])]
               packs == \A f \in DOMAIN layout : PacksInto(f, values[f])
               cut == {f \in DOMAIN layout : fits[f] # values[f]}
               odd == {f \in DOMAIN layout : ~PacksInto(f, values[f])}
    <2> HIDE DEF fits
    <2>1. /\ logged' = logged \union Inexpressible \union cut \union odd
          /\ lastSent' = [made |-> packs, of |-> status, fields |-> fits]
          /\ layout' = layout /\ status' = status
      BY <1>2 DEF SendStatus, fits
    <2>2. lastSent'.of = status /\ lastSent'.fields = fits
      BY <2>1
    <2>3. ASSUME NEW f \in DOMAIN layout \ logged'
          PROVE  f \in DOMAIN status /\ Shows(f)'
      <3>1. f \notin logged /\ f \notin Inexpressible /\ fits[f] = values[f]
        BY <2>1
      <3>2. f \in DOMAIN status
        <4>1. f \notin {g \in DOMAIN layout : \A s \in Progress : g \notin DOMAIN s}
          BY <3>1 DEF StatusInv, Declared, ReportDeclaration
        <4>2. PICK s \in Progress : f \in DOMAIN s
          BY <4>1
        <4> QED BY <4>2, ProgressAssumption DEF StatusInv
      <3>3. f \in Known /\ WireLabel(f, status[f]) # <<>>
        BY <3>1, <3>2 DEF Known, Inexpressible
      <3>4. fits[f] = WireLabel(f, status[f])[1]
        BY <3>1, <3>3, CarriedValue
      <3> DEFINE v == status[f]
      <3>0. Shows(f)' <=>
                IF IsText(v) /\ DOMAIN layout[f].labels # {}
                THEN /\ v.text \in DOMAIN layout[f].labels
                     /\ fits[f] = [number |-> layout[f].labels[v.text]]
                ELSE IF IsText(v) THEN fits[f] = Sized(v) ELSE fits[f] = v
        BY <2>1, <2>2 DEF Shows, Sized, IsText
      <3>5. CASE ~IsText(v)
        BY <3>0, <3>2, <3>4, <3>5 DEF WireLabel
      <3>6. CASE IsText(v) /\ DOMAIN layout[f].labels # {}
        <4>1. /\ v.text \in DOMAIN layout[f].labels
              /\ WireLabel(f, v) = <<[number |-> layout[f].labels[v.text]]>>
          BY <3>3, <3>6 DEF WireLabel
        <4> QED BY <3>0, <3>2, <3>4, <3>6, <4>1
      <3>7. CASE IsText(v) /\ DOMAIN layout[f].labels = {}
        <4>1. WireLabel(f, v) = <<Sized(v)>>
          BY <3>3, <3>7 DEF WireLabel
        <4> QED BY <3>0, <3>2, <3>4, <3>7, <4>1
      <3> QED BY <3>2, <3>5, <3>6, <3>7
    <2>4. Declared'
      BY <2>1 DEF StatusInv, Declared, ReportDeclaration, EnumGaps
    <2> QED BY <2>1, <2>2, <2>3, <2>4 DEF StatusInv
  <1>3. CASE UNCHANGED statusVars
    BY <1>3 DEF statusVars, StatusInv, Declared, ReportDeclaration, EnumGaps, Shows
  <1> QED BY <1>1, <1>2, <1>3 DEF StatusNext

(***************************************************************************)
(* A field of a status packet that does not show the slot as it is was     *)
(* named in the log, for any declaration of the packet and any values of   *)
(* the other layers.                                                       *)
(***************************************************************************)
THEOREM StatusTellsTheTruth == StatusSpec => []StatusIsHonest
  <1>1. StatusInv => StatusIsHonest
    BY DEF StatusInv, Declared, ReportDeclaration, EnumGaps, StatusIsHonest
  <1> QED BY <1>1, InitStatusInv, NextStatusInv, PTL DEF StatusSpec

-----------------------------------------------------------------------------
(***************************************************************************)
(* The plans that are made of files.                                       *)
(***************************************************************************)
\* Entries that can be put in order: the times are numbers, and no two of them
\* are from one line.
Orderly(S) ==
    /\ IsFiniteSet(S)
    /\ \A e \in S : e.time \in Int /\ e.line \in Nat
    /\ \A d, e \in S : d.line = e.line => d = e

\* An entry that precedes another one has the smaller rank, and every rank up
\* to the number of the entries is taken.
LEMMA RanksAreAnOrder ==
    ASSUME NEW S, Orderly(S)
    PROVE  /\ Cardinality(S) \in Nat
           /\ \A e \in S : Rank(S, e) \in 1..Cardinality(S)
           /\ \A d, e \in S : d # e /\ Precedes(d, e) => Rank(S, d) < Rank(S, e)
           /\ \A r \in 1..Cardinality(S) : \E e \in S : Rank(S, e) = r
  <1> DEFINE Upto(e) == {d \in S : Precedes(d, e)}
             n == Cardinality(S)
  <1>0. /\ \A e \in S : e.time \in Int /\ e.line \in Nat
        /\ \A d, e \in S : d.line = e.line => d = e
    BY DEF Orderly
  <1>1. n \in Nat
    BY FS_CardinalityType DEF Orderly
  <1>2. \A e \in S : IsFiniteSet(Upto(e))
    BY FS_Subset DEF Orderly
  <1>8. \A e \in S : Rank(S, e) \in Nat /\ Rank(S, e) <= n
    BY <1>1, <1>2, FS_Subset, FS_CardinalityType DEF Orderly, Rank
  <1>3. \A e \in S : e \in Upto(e)
    <2> SUFFICES ASSUME NEW e \in S PROVE Precedes(e, e)
      OBVIOUS
    <2>1. e.line <= e.line
      BY <1>0
    <2> QED BY <2>1 DEF Precedes
  <1>4. \A e \in S : Rank(S, e) \in 1..n
    <2> SUFFICES ASSUME NEW e \in S PROVE Rank(S, e) # 0
      BY <1>1, <1>8
    <2> QED BY <1>2, <1>3, FS_EmptySet DEF Rank
  <1>5. ASSUME NEW d \in S, NEW e \in S, d # e, Precedes(d, e)
        PROVE  Rank(S, d) < Rank(S, e)
    <2>0. \A c \in S : /\ c.time \in Int /\ c.line \in Int
                       /\ c.line = d.line => c = d
                       /\ c.line = e.line => c = e
      BY <1>0
    <2>1. Upto(d) \subseteq Upto(e)
      BY <1>5, <2>0 DEF Precedes
    <2>2. e \notin Upto(d)
      BY <1>5, <2>0 DEF Precedes
    <2>3. Rank(S, d) <= Rank(S, e) /\ Rank(S, d) # Rank(S, e)
      <3>1. Upto(d) \in SUBSET Upto(e) /\ IsFiniteSet(Upto(e)) /\ Upto(d) # Upto(e)
        BY <1>2, <1>3, <2>1, <2>2
      <3>0. Rank(S, d) = Cardinality(Upto(d)) /\ Rank(S, e) = Cardinality(Upto(e))
        BY DEF Rank
      <3> HIDE DEF Upto
      <3>2. /\ Cardinality(Upto(d)) <= Cardinality(Upto(e))
            /\ Cardinality(Upto(d)) # Cardinality(Upto(e))
        BY <3>1, FS_Subset
      <3> QED BY <3>0, <3>2
    <2> QED BY <1>8, <2>3
  <1>6. \A d, e \in S : Rank(S, d) = Rank(S, e) => d = e
    <2> SUFFICES ASSUME NEW d \in S, NEW e \in S, d # e
                 PROVE  Rank(S, d) # Rank(S, e)
      OBVIOUS
    <2>1. Precedes(d, e) \/ Precedes(e, d)
      BY <1>0 DEF Precedes
    <2> QED BY <1>5, <1>8, <2>1
  <1>7. ASSUME NEW r \in 1..n PROVE \E e \in S : Rank(S, e) = r
    <2> DEFINE f == [e \in S |-> Rank(S, e)]
    <2>1. f \in Injection(S, 1..n)
      BY <1>4, <1>6 DEF Injection, IsInjective
    <2>2. IsFiniteSet(1..n) /\ Cardinality(1..n) = n
      BY <1>1, FS_Interval
    <2> HIDE DEF f
    <2>3. f \in Surjection(S, 1..n)
      BY <2>1, <2>2, FS_Injection
    <2> QED BY <2>3 DEF Surjection, f
  <1> QED BY <1>1, <1>4, <1>5, <1>7

\* The entries by time are all of them, in their order.
LEMMA ByTimeIsSorted ==
    ASSUME NEW S, Orderly(S)
    PROVE  /\ DOMAIN ByTime(S) = 1..Cardinality(S)
           /\ Cardinality(S) \in Nat
           /\ \A r \in DOMAIN ByTime(S) : ByTime(S)[r] \in S /\ Rank(S, ByTime(S)[r]) = r
           /\ \A e \in S : Rank(S, e) \in DOMAIN ByTime(S) /\ ByTime(S)[Rank(S, e)] = e
           /\ \A i, j \in DOMAIN ByTime(S) :
                  i < j => ByTime(S)[i] # ByTime(S)[j] /\ Precedes(ByTime(S)[i], ByTime(S)[j])
  <1> DEFINE n == Cardinality(S)
             plan == ByTime(S)
  <1>1. DOMAIN plan = 1..n /\ n \in Nat
    BY RanksAreAnOrder DEF ByTime
  <1>2. \A r \in 1..n : plan[r] \in S /\ Rank(S, plan[r]) = r
    BY RanksAreAnOrder DEF ByTime
  <1> HIDE DEF plan, n
  <1>3. \A d, e \in S : d # e => Precedes(d, e) \/ Precedes(e, d)
    BY DEF Precedes, Orderly
  <1>4. \A d, e \in S : d # e => Rank(S, d) # Rank(S, e)
    BY <1>3, RanksAreAnOrder
  <1>5. ASSUME NEW e \in S PROVE Rank(S, e) \in DOMAIN plan /\ plan[Rank(S, e)] = e
    BY <1>1, <1>2, <1>4, RanksAreAnOrder DEF n
  <1>6. ASSUME NEW i \in 1..n, NEW j \in 1..n, i < j
        PROVE  plan[i] # plan[j] /\ Precedes(plan[i], plan[j])
    <2>1. plan[i] \in S /\ plan[j] \in S /\ Rank(S, plan[i]) = i /\ Rank(S, plan[j]) = j
      BY <1>2
    <2>2. plan[i] # plan[j]
      BY <1>6, <2>1
    <2>3. ~Precedes(plan[j], plan[i])
      BY <1>1, <1>6, <2>1, <2>2, RanksAreAnOrder DEF n
    <2> QED BY <1>3, <2>1, <2>2, <2>3
  <1> QED BY <1>1, <1>2, <1>5, <1>6 DEF plan, n

-----------------------------------------------------------------------------
\* What the lines of a file are.
Lines(lines) ==
    /\ Len(lines) \in Nat /\ lines = [n \in 1..Len(lines) |-> lines[n]]
    /\ \A n \in 1..Len(lines) : IsLine(lines[n])

\* An entry has a time and the number of its line.
LEMMA EntriesAreOrderly ==
    ASSUME NEW kind, NEW lines, Lines(lines)
    PROVE  /\ Orderly(EntriesOf(kind, lines))
           /\ \A n \in DOMAIN lines : IsEntry(kind, lines[n]) =>
                  /\ lines[n] # <<>> /\ n \in Nat
                  /\ TimeOf(kind, lines[n][1])[1] \in Int
  <1> DEFINE S == EntriesOf(kind, lines)
             At == {m \in DOMAIN lines : IsEntry(kind, lines[m])}
             f == [n \in At |-> EntryOf(kind, lines[n], n)]
  <1>1. DOMAIN lines = 1..Len(lines) /\ Len(lines) \in Nat
    BY DEF Lines
  <1>2. IsFiniteSet(At)
    <2>1. IsFiniteSet(1..Len(lines))
      BY <1>1, FS_Interval
    <2> QED BY <1>1, <2>1, FS_Subset
  <1>3. ASSUME NEW n \in DOMAIN lines, IsEntry(kind, lines[n])
        PROVE  lines[n] # <<>> /\ n \in Nat /\ TimeOf(kind, lines[n][1])[1] \in Int
    <2>1. n \in 1..Len(lines) /\ IsLine(lines[n])
      BY <1>1 DEF Lines
    <2>2. lines[n] # <<>>
      <3>1. Len(lines[n]) >= 2 /\ Len(<<>>) = 0
        BY <1>3 DEF IsEntry
      <3> QED BY <3>1
    <2>3. lines[n][1].at \in Int /\ lines[n][1].zone \in Int
      BY <2>1, <2>2 DEF IsLine
    <2>4. TimeOf(kind, lines[n][1])[1] \in Int
      <3>1. TimeOf(kind, lines[n][1]) # <<>>
        BY <1>3 DEF IsEntry
      <3> QED BY <2>3, <3>1 DEF TimeOf, AtsTime, RtsDelay
    <2> QED BY <1>1, <2>1, <2>2, <2>4
  <1>4. f \in Surjection(At, S)
    BY DEF EntriesOf, Surjection
  <1>5. IsFiniteSet(S)
    <2> HIDE DEF f, At, S
    <2> QED BY <1>2, <1>4, FS_Surjection
  <1>6. ASSUME NEW e \in S
        PROVE  /\ e.time \in Int /\ e.line \in Nat
               /\ e = EntryOf(kind, lines[e.line], e.line)
    <2>1. PICK n \in DOMAIN lines : IsEntry(kind, lines[n]) /\ e = EntryOf(kind, lines[n], n)
      BY DEF EntriesOf
    <2> QED BY <1>3, <2>1 DEF EntryOf
  <1>7. \A d, e \in S : d.line = e.line => d = e
    BY <1>6
  <1> QED BY <1>3, <1>5, <1>6, <1>7 DEF Orderly

\* The plan of a sound file is all of its lines, in their order.
WholeFile(kind, lines, plan) ==
    /\ {plan[i].line : i \in DOMAIN plan} = {n \in DOMAIN lines : lines[n] # <<>>}
    /\ \A i \in DOMAIN plan :
           /\ plan[i] = EntryOf(kind, lines[plan[i].line], plan[i].line)
           /\ Encodes(plan[i])
    /\ \A i, j \in DOMAIN plan : i < j =>
           \/ plan[i].time < plan[j].time
           \/ plan[i].time = plan[j].time /\ plan[i].line < plan[j].line

\* A file that is parsed gives all of its entries, in the order of their times.
LEMMA ParsedIsWhole ==
    ASSUME NEW kind, NEW lines, NEW plan, Lines(lines), Parse(kind, lines, TRUE) = <<plan>>
    PROVE  WholeFile(kind, lines, plan)
  <1> DEFINE S == EntriesOf(kind, lines)
  <1>1. Orderly(S)
    BY EntriesAreOrderly
  <1>2. plan = ByTime(S) /\ IsSound(kind, lines, TRUE)
    <2>1. IsSound(kind, lines, TRUE)
      BY DEF Parse
    <2>2. <<plan>> = <<ByTime(S)>>
      BY <2>1 DEF Parse
    <2> QED BY <2>1, <2>2
  <1>3. \A e \in S : e.time \in Int /\ e.line \in Nat
    BY <1>1 DEF Orderly
  <1>4. \A e \in S : /\ e.line \in DOMAIN lines /\ IsEntry(kind, lines[e.line])
                     /\ e = EntryOf(kind, lines[e.line], e.line)
    BY DEF EntriesOf, EntryOf
  <1>5. \A n \in DOMAIN lines : IsEntry(kind, lines[n]) =>
            EntryOf(kind, lines[n], n) \in S /\ EntryOf(kind, lines[n], n).line = n
    BY DEF EntriesOf, EntryOf
  <1>6. /\ \A r \in DOMAIN plan : plan[r] \in S
        /\ \A e \in S : Rank(S, e) \in DOMAIN plan /\ plan[Rank(S, e)] = e
        /\ \A i, j \in DOMAIN plan : i < j => plan[i] # plan[j] /\ Precedes(plan[i], plan[j])
    BY <1>1, <1>2, ByTimeIsSorted
  <1>7. \A n \in DOMAIN lines : lines[n] # <<>> <=> IsEntry(kind, lines[n])
    BY <1>2, EntriesAreOrderly DEF IsSound
  <1>8. \A e \in S : Encodes(e)
    BY <1>2 DEF IsSound
  <1>9. \A d, e \in S : d.line = e.line => d = e
    BY <1>1 DEF Orderly
  <1> HIDE DEF S
  <1>10. {plan[i].line : i \in DOMAIN plan} = {n \in DOMAIN lines : lines[n] # <<>>}
    <2>1. ASSUME NEW n \in DOMAIN lines, lines[n] # <<>>
          PROVE  \E i \in DOMAIN plan : plan[i].line = n
      BY <1>5, <1>6, <1>7, <2>1
    <2>2. \A i \in DOMAIN plan : plan[i].line \in DOMAIN lines /\ lines[plan[i].line] # <<>>
      BY <1>4, <1>6, <1>7
    <2> QED BY <2>1, <2>2
  <1>11. ASSUME NEW i \in DOMAIN plan, NEW j \in DOMAIN plan, i < j
         PROVE  \/ plan[i].time < plan[j].time
                \/ plan[i].time = plan[j].time /\ plan[i].line < plan[j].line
    <2>1. plan[i] \in S /\ plan[j] \in S /\ plan[i] # plan[j] /\ Precedes(plan[i], plan[j])
      BY <1>6, <1>11
    <2>2. plan[i].line # plan[j].line /\ plan[i].line \in Nat /\ plan[j].line \in Nat
      BY <1>3, <1>9, <2>1
    <2> QED BY <2>1, <2>2 DEF Precedes
  <1> QED BY <1>4, <1>6, <1>8, <1>10, <1>11 DEF WholeFile

-----------------------------------------------------------------------------
(***************************************************************************)
(* What a slot holds was read from a file of the store as it was then, and *)
(* every file there and on the desk is a file.                             *)
(***************************************************************************)
Holding == {"LOADED", "RUNNING", "COMPLETE"}

FromItsSource(k) ==
    slot[k].state \in Holding =>
        /\ source[k] = <<source[k][1]>> /\ IsFile(source[k][1])
        /\ source[k][1].text.utf8
        /\ KindFor(source[k][1].name) \in {k, "none"}
        /\ Parse(k, source[k][1].text.lines, TRUE) = <<slot[k].plan>>

PlansInv ==
    /\ IsFile(desk) /\ now \in Int
    /\ shelf = [n \in DOMAIN shelf |-> shelf[n]]
    /\ \A n \in DOMAIN shelf : shelf[n] # <<>> =>
           shelf[n] = <<shelf[n][1]>> /\ IsFile([name |-> n, text |-> shelf[n][1]])
    /\ DOMAIN slot = Slots /\ DOMAIN source = Slots
    /\ slot = [k \in Slots |-> [state |-> slot[k].state, plan |-> slot[k].plan]]
    /\ source = [k \in Slots |-> source[k]]
    /\ \A k \in Slots : FromItsSource(k)

\* At first no slot holds a plan.
LEMMA InitPlansInv == PlansInit => PlansInv
  <1> SUFFICES ASSUME PlansInit PROVE PlansInv
    OBVIOUS
  <1>1. IsFile(desk) /\ now \in Int
    BY PlansAssumption DEF PlansInit
  <1>2. /\ shelf = [n \in DOMAIN shelf |-> shelf[n]]
        /\ \A n \in DOMAIN shelf : shelf[n] = <<>>
    BY DEF PlansInit
  <1>3. /\ DOMAIN slot = Slots /\ DOMAIN source = Slots
        /\ slot = [k \in Slots |-> [state |-> slot[k].state, plan |-> slot[k].plan]]
        /\ source = [k \in Slots |-> source[k]]
        /\ \A k \in Slots : slot[k].state = "IDLE"
    BY DEF PlansInit, Empty
  <1>4. \A k \in Slots : FromItsSource(k)
    BY <1>3 DEF FromItsSource, Holding
  <1> QED BY <1>1, <1>2, <1>3, <1>4 DEF PlansInv

\* Shifted lines are lines, as long as those they were.
LEMMA ShiftedLines ==
    ASSUME NEW lines, Lines(lines), NEW delta \in Int,
           \A n \in 1..Len(lines) : lines[n] = <<>> \/ IsEntry("ats", lines[n])
    PROVE  LET new == ShiftAts(lines, delta) IN
           /\ Lines(new) /\ Len(new) = Len(lines)
           /\ \A n \in 1..Len(lines) : lines[n] = <<>> => new[n] = <<>>
           /\ \A n \in 1..Len(lines) : lines[n] # <<>> =>
                  /\ new[n] # <<>> /\ Len(new[n]) = Len(lines[n])
                  /\ new[n][1] = Moved(lines[n][1], delta)
                  /\ \A i \in 2..Len(lines[n]) : new[n][i] = lines[n][i]
  <1> DEFINE new == ShiftAts(lines, delta)
             N == Len(lines)
  <1>1. N \in Nat /\ new = [n \in 1..N |-> new[n]]
    BY DEF Lines, ShiftAts
  <1>2. Len(new) = N
    BY <1>1 DEF ShiftAts
  <1>3. ASSUME NEW n \in 1..N, lines[n] = <<>>
        PROVE  new[n] = <<>> /\ IsLine(new[n])
    BY <1>3 DEF ShiftAts, IsLine
  <1>4. ASSUME NEW n \in 1..N, lines[n] # <<>>
        PROVE  /\ new[n] # <<>> /\ Len(new[n]) = Len(lines[n]) /\ IsLine(new[n])
               /\ new[n][1] = Moved(lines[n][1], delta)
               /\ \A i \in 2..Len(lines[n]) : new[n][i] = lines[n][i]
    <2> DEFINE old == lines[n]
               word == Moved(old[1], delta)
               m == Len(old)
    <2>1. new[n] = [old EXCEPT ![1] = word]
      BY <1>4 DEF ShiftAts
    <2>2. m \in Nat /\ m >= 2 /\ old = [i \in 1..m |-> old[i]]
      BY <1>4 DEF Lines, IsLine, IsEntry
    <2>3. word.at \in Int /\ word.zone \in Int
      <3>1. AtsTime(old[1]) # <<>>
        BY <1>4 DEF IsEntry, TimeOf
      <3>2. old[1].at \in Int /\ old[1].zone \in Int
        BY <1>4 DEF Lines, IsLine
      <3> QED BY <3>1, <3>2 DEF Moved, AtsTime
    <2> HIDE DEF word, old, m
    <2>4. new[n] = [i \in 1..m |-> IF i = 1 THEN word ELSE old[i]]
      BY <2>1, <2>2
    <2>5. Len(new[n]) = m /\ DOMAIN new[n] = 1..m
      BY <2>2, <2>4
    <2>6. new[n][1] = word /\ \A i \in 2..m : new[n][i] = old[i]
      BY <2>2, <2>4
    <2>7. new[n] # <<>>
      BY <2>2, <2>5
    <2>8. new[n] = [i \in 1..m |-> new[n][i]]
      BY <2>4
    <2>9. IsLine(new[n])
      BY <2>2, <2>3, <2>5, <2>6, <2>8 DEF IsLine
    <2> QED BY <2>5, <2>6, <2>7, <2>9 DEF word, old, m
  <1> HIDE DEF new
  <1>5. Lines(new)
    BY <1>1, <1>2, <1>3, <1>4 DEF Lines
  <1> QED BY <1>2, <1>3, <1>4, <1>5 DEF new

\* What a shift does to the desk, and that it may be done.
LEMMA ShiftEffect ==
    ASSUME PlansInv, NEW delay \in Delays, Shift(delay)
    PROVE  LET lines == desk.text.lines
               old == ByTime(EntriesOf("ats", lines))
               delta == Rounded(now + delay - old[1].time)
           IN  /\ Lines(lines) /\ IsSound("ats", lines, FALSE)
               /\ desk.text.utf8 /\ KindFor(desk.name) = "ats"
               /\ GroundParse(desk, FALSE) = <<old>>
               /\ old[1].time \in Int /\ delta \in Int
               /\ desk' = [name |-> desk.name,
                           text |-> [utf8 |-> desk.text.utf8,
                                     lines |-> ShiftAts(lines, delta)]]
  <1> DEFINE lines == desk.text.lines
             S == EntriesOf("ats", lines)
             old == ByTime(S)
             delta == Rounded(now + delay - old[1].time)
  <1>1. IsFile(desk) /\ now \in Int /\ delay \in Int
    BY PlansAssumption DEF PlansInv
  <1>2. Lines(lines)
    BY <1>1 DEF IsFile, Lines
  <1>3. /\ KindFor(desk.name) = "ats" /\ GroundParse(desk, FALSE) # <<>>
        /\ desk' = [desk EXCEPT !.text.lines =
               ShiftAts(@, Rounded(now + delay - GroundParse(desk, FALSE)[1][1].time))]
    BY DEF Shift
  <1>4. desk.text.utf8 /\ GroundParse(desk, FALSE) = Parse("ats", lines, FALSE)
    BY <1>3 DEF GroundParse
  <1>5. IsSound("ats", lines, FALSE) /\ GroundParse(desk, FALSE) = <<old>>
    BY <1>3, <1>4 DEF Parse
  <1>6. old[1].time \in Int
    <2>1. Orderly(S) /\ S # {}
      BY <1>2, <1>5, EntriesAreOrderly DEF IsSound
    <2>2. PICK e \in S : TRUE
      BY <2>1
    <2> HIDE DEF S
    <2>3. Rank(S, e) \in 1..Cardinality(S) /\ Cardinality(S) \in Nat
      BY <2>1, RanksAreAnOrder
    <2>4. 1 \in DOMAIN old
      BY <2>1, <2>3, ByTimeIsSorted
    <2>5. old[1] \in S
      BY <2>1, <2>4, ByTimeIsSorted
    <2> QED BY <2>1, <2>5 DEF Orderly
  <1> HIDE DEF old
  <1>7. \A t \in Int : Rounded(t) \in Int
    BY DEF Rounded
  <1>8. delta \in Int
    <2>1. now + delay - old[1].time \in Int
      BY <1>1, <1>6
    <2> QED BY <1>7, <2>1
  <1>9. desk' = [desk EXCEPT !.text.lines = ShiftAts(@, delta)]
    <2>0. \A x, y : x = <<y>> => x[1] = y
      OBVIOUS
    <2>1. GroundParse(desk, FALSE)[1] = old
      BY <1>5, <2>0, Zenon
    <2>2. Rounded(now + delay - GroundParse(desk, FALSE)[1][1].time) = delta
      BY <2>1
    <2> HIDE DEF delta
    <2> QED BY <1>3, <2>2
  <1>10. desk = [name |-> desk.name, text |-> [utf8 |-> desk.text.utf8, lines |-> lines]]
    BY <1>1 DEF IsFile
  <1> HIDE DEF delta, lines
  <1>11. desk' = [name |-> desk.name,
                  text |-> [utf8 |-> desk.text.utf8, lines |-> ShiftAts(lines, delta)]]
    BY <1>9, <1>10
  <1> QED BY <1>2, <1>3, <1>4, <1>5, <1>6, <1>8, <1>11 DEF old, delta, lines

\* A file that was shifted is a file.
LEMMA ShiftedIsFile ==
    ASSUME PlansInv, NEW delay \in Delays, Shift(delay)
    PROVE  IsFile(desk')
  <1> DEFINE lines == desk.text.lines
             delta == Rounded(now + delay - ByTime(EntriesOf("ats", lines))[1].time)
             new == ShiftAts(lines, delta)
  <1>1. /\ Lines(lines) /\ IsSound("ats", lines, FALSE) /\ delta \in Int
        /\ desk' = [name |-> desk.name, text |-> [utf8 |-> desk.text.utf8, lines |-> new]]
    BY ShiftEffect
  <1>2. \A n \in 1..Len(lines) : lines[n] = <<>> \/ IsEntry("ats", lines[n])
    BY <1>1 DEF IsSound, Lines
  <1> HIDE DEF lines, delta
  <1>3. Lines(new)
    BY <1>1, <1>2, ShiftedLines
  <1> HIDE DEF new
  <1> QED BY <1>1, <1>3 DEF IsFile, Lines

\* A command to one slot leaves the other as it is.
LEMMA CommandedInv ==
    ASSUME PlansInv, NEW k \in Slots,
           \/ \E name \in DOMAIN shelf \union JailRefuses : LoadPlan(k, name)
           \/ StartPlan(k) \/ StopPlan(k) \/ AbortPlan(k)
           \/ slot' = [slot EXCEPT ![k].state = "COMPLETE"]
              /\ source' = source /\ slot[k].state = "RUNNING",
           UNCHANGED <<desk, shelf, now>>
    PROVE  PlansInv'
  <1>0. /\ slot = [j \in Slots |-> [state |-> slot[j].state, plan |-> slot[j].plan]]
        /\ source = [j \in Slots |-> source[j]] /\ DOMAIN slot = Slots /\ DOMAIN source = Slots
        /\ \A j \in Slots : FromItsSource(j)
    BY DEF PlansInv
  <1>1. SUFFICES /\ DOMAIN slot' = Slots /\ DOMAIN source' = Slots
                 /\ slot' = [j \in Slots |-> [state |-> slot'[j].state, plan |-> slot'[j].plan]]
                 /\ source' = [j \in Slots |-> source'[j]]
                 /\ \A j \in Slots \ {k} : slot'[j] = slot[j] /\ source'[j] = source[j]
                 /\ FromItsSource(k)'
    <2>1. \A j \in Slots \ {k} : FromItsSource(j)'
      BY <1>0, <1>1 DEF FromItsSource
    <2> QED BY <1>1, <2>1 DEF PlansInv
  <1>2. ASSUME NEW st, NEW plan, NEW src,
               slot' = [slot EXCEPT ![k] = [state |-> st, plan |-> plan]],
               source' = [source EXCEPT ![k] = src],
               st \in Holding =>
                   /\ src = <<src[1]>> /\ IsFile(src[1])
                   /\ src[1].text.utf8
                   /\ KindFor(src[1].name) \in {k, "none"}
                   /\ Parse(k, src[1].text.lines, TRUE) = <<plan>>
        PROVE  /\ DOMAIN slot' = Slots /\ DOMAIN source' = Slots
               /\ slot' = [j \in Slots |-> [state |-> slot'[j].state, plan |-> slot'[j].plan]]
               /\ source' = [j \in Slots |-> source'[j]]
               /\ \A j \in Slots \ {k} : slot'[j] = slot[j] /\ source'[j] = source[j]
               /\ FromItsSource(k)'
    <2>1. /\ DOMAIN slot' = Slots /\ DOMAIN source' = Slots
          /\ source' = [j \in Slots |-> source'[j]]
          /\ \A j \in Slots \ {k} : slot'[j] = slot[j] /\ source'[j] = source[j]
          /\ slot'[k] = [state |-> st, plan |-> plan] /\ source'[k] = src
      BY <1>0, <1>2
    <2>2. slot' = [j \in Slots |-> [state |-> slot'[j].state, plan |-> slot'[j].plan]]
      <3>1. slot' = [j \in Slots |-> slot'[j]]
        BY <1>0, <1>2
      <3>2. \A j \in Slots : slot'[j] = [state |-> slot'[j].state, plan |-> slot'[j].plan]
        BY <1>0, <2>1
      <3> QED BY <3>1, <3>2
    <2>3. FromItsSource(k)'
      BY <1>2, <2>1 DEF FromItsSource
    <2> QED BY <2>1, <2>2, <2>3
  <1>3. ASSUME NEW st, slot' = [slot EXCEPT ![k].state = st], source' = source,
               st \in Holding => slot[k].state \in Holding
        PROVE  /\ DOMAIN slot' = Slots /\ DOMAIN source' = Slots
               /\ slot' = [j \in Slots |-> [state |-> slot'[j].state, plan |-> slot'[j].plan]]
               /\ source' = [j \in Slots |-> source'[j]]
               /\ \A j \in Slots \ {k} : slot'[j] = slot[j] /\ source'[j] = source[j]
               /\ FromItsSource(k)'
    <2>0. slot[k] = [state |-> slot[k].state, plan |-> slot[k].plan]
      BY <1>0
    <2>4. [slot[k] EXCEPT !.state = st] = [state |-> st, plan |-> slot[k].plan]
      BY <2>0
    <2>5. slot' = [slot EXCEPT ![k] = [slot[k] EXCEPT !.state = st]]
      BY <1>3
    <2>1. slot' = [slot EXCEPT ![k] = [state |-> st, plan |-> slot[k].plan]]
      BY <2>4, <2>5
    <2>2. source' = [source EXCEPT ![k] = source[k]]
      BY <1>0, <1>3
    <2> DEFINE src == source[k]
    <2>3. st \in Holding =>
              /\ src = <<src[1]>> /\ IsFile(src[1]) /\ src[1].text.utf8
              /\ KindFor(src[1].name) \in {k, "none"}
              /\ Parse(k, src[1].text.lines, TRUE) = <<slot[k].plan>>
      BY <1>0, <1>3 DEF FromItsSource
    <2> HIDE DEF src
    <2> QED BY <1>2, <2>1, <2>2, <2>3 DEF src
  <1>4. ASSUME NEW name \in DOMAIN shelf \union JailRefuses, LoadPlan(k, name)
        PROVE  /\ DOMAIN slot' = Slots /\ DOMAIN source' = Slots
               /\ slot' = [j \in Slots |-> [state |-> slot'[j].state, plan |-> slot'[j].plan]]
               /\ source' = [j \in Slots |-> source'[j]]
               /\ \A j \in Slots \ {k} : slot'[j] = slot[j] /\ source'[j] = source[j]
               /\ FromItsSource(k)'
    <2> DEFINE read == ReadPlan(k, name)
    <2>1. CASE read = <<>>
      <3>1. /\ slot' = [slot EXCEPT ![k] = [state |-> "ERROR", plan |-> <<>>]]
            /\ source' = [source EXCEPT ![k] = <<>>] /\ "ERROR" \notin Holding
        BY <1>4, <2>1 DEF LoadPlan, Holding
      <3> QED BY <1>2, <3>1
    <2>2. CASE read # <<>>
      <3>1. /\ KindFor(name) \in {k, "none"} /\ name \notin JailRefuses
            /\ shelf[name] # <<>> /\ shelf[name][1].utf8
            /\ read = Parse(k, shelf[name][1].lines, TRUE)
        BY <2>2 DEF ReadPlan
      <3>2. PICK text : shelf[name] = <<text>> /\ IsFile([name |-> name, text |-> text])
        BY <1>4, <3>1 DEF PlansInv
      <3> DEFINE file == [name |-> name, text |-> text]
      <3>3. PICK plan : read = <<plan>>
        BY <2>2, <3>1 DEF Parse
      <3>4. /\ slot' = [slot EXCEPT ![k] = [state |-> "LOADED", plan |-> plan]]
            /\ source' = [source EXCEPT ![k] = <<file>>]
        BY <1>4, <2>2, <3>2, <3>3 DEF LoadPlan
      <3>5. /\ <<file>>[1] = file /\ IsFile(file) /\ file.text.utf8
            /\ KindFor(file.name) \in {k, "none"}
            /\ Parse(k, file.text.lines, TRUE) = <<plan>>
        <4>1. <<file>>[1] = file /\ file.name = name /\ file.text = text /\ shelf[name][1] = text
          BY <3>2
        <4>2. IsFile(file)
          BY <3>2
        <4> HIDE DEF file
        <4> QED BY <3>1, <3>3, <4>1, <4>2
      <3> HIDE DEF file
      <3> QED BY <1>2, <3>4, <3>5
    <2> QED BY <2>1, <2>2
  <1>5. CASE StartPlan(k)
    BY <1>3, <1>5 DEF StartPlan, Holding
  <1>6. CASE StopPlan(k)
    BY <1>3, <1>6 DEF StopPlan, Holding
  <1>7. CASE AbortPlan(k)
    <2>1. /\ slot' = [slot EXCEPT ![k] = [state |-> "IDLE", plan |-> <<>>]]
          /\ source' = [source EXCEPT ![k] = <<>>] /\ "IDLE" \notin Holding
      BY <1>7 DEF AbortPlan, Empty, Holding
    <2> QED BY <1>2, <2>1
  <1>8. CASE /\ slot' = [slot EXCEPT ![k].state = "COMPLETE"]
             /\ source' = source /\ slot[k].state = "RUNNING"
    BY <1>3, <1>8 DEF Holding
  <1> QED BY <1>4, <1>5, <1>6, <1>7, <1>8

\* Every step keeps the invariant.
LEMMA NextPlansInv == PlansInv /\ [PlansNext]_planVars => PlansInv'
  <1> SUFFICES ASSUME PlansInv, [PlansNext]_planVars PROVE PlansInv'
    OBVIOUS
  <1>0. ASSUME UNCHANGED <<shelf, slot, source>>, IsFile(desk'), now' \in Int
        PROVE  PlansInv'
    BY <1>0 DEF PlansInv, FromItsSource
  <1>1. ASSUME NEW file \in Drafts, Writes(file) PROVE PlansInv'
    BY <1>0, <1>1, PlansAssumption DEF Writes, PlansInv
  <1>2. ASSUME NEW delay \in Delays, Shift(delay) PROVE PlansInv'
    BY <1>0, <1>2, ShiftedIsFile DEF Shift, PlansInv
  <1>9. ASSUME NEW n, NEW v, shelf' = [shelf EXCEPT ![n] = v],
               v # <<>> => v = <<v[1]>> /\ IsFile([name |-> n, text |-> v[1]]),
               UNCHANGED <<desk, slot, source, now>>
        PROVE  PlansInv'
    <2>1. /\ shelf' = [m \in DOMAIN shelf' |-> shelf'[m]]
          /\ \A m \in DOMAIN shelf' : shelf'[m] # <<>> =>
                 shelf'[m] = <<shelf'[m][1]>> /\ IsFile([name |-> m, text |-> shelf'[m][1]])
      BY <1>9 DEF PlansInv
    <2> QED BY <1>9, <2>1 DEF PlansInv, FromItsSource
  <1>3. CASE Uploaded
    <2>1. IsFile([name |-> desk.name, text |-> desk.text])
      BY DEF PlansInv, IsFile
    <2> QED BY <1>3, <1>9, <2>1 DEF Uploaded
  <1>4. ASSUME NEW name \in DOMAIN shelf, Deleted(name) PROVE PlansInv'
    BY <1>4, <1>9 DEF Deleted
  <1>5. ASSUME NEW k \in Slots, NEW id \in SeqIds, SequenceCommanded(k, id) PROVE PlansInv'
    BY <1>5, CommandedInv DEF SequenceCommanded
  <1>6. ASSUME NEW k \in Slots, PlanCompletes(k) PROVE PlansInv'
    <2>1. /\ slot' = [slot EXCEPT ![k].state = "COMPLETE"] /\ source' = source
          /\ slot[k].state = "RUNNING" /\ UNCHANGED <<desk, shelf, now>>
      BY <1>6 DEF PlanCompletes
    <2> QED BY <2>1, CommandedInv
  <1>7. CASE TimePasses
    <2>1. IsFile(desk) /\ now \in Int
      BY DEF PlansInv
    <2>2. desk' = desk /\ now' = now + 1 /\ UNCHANGED <<shelf, slot, source>>
      BY <1>7 DEF TimePasses
    <2>3. IsFile(desk') /\ now' \in Int
      BY <2>1, <2>2
    <2> QED BY <1>0, <2>2, <2>3
  <1>8. CASE UNCHANGED planVars
    BY <1>0, <1>8 DEF planVars, PlansInv
  <1> QED BY <1>1, <1>2, <1>3, <1>4, <1>5, <1>6, <1>7, <1>8 DEF PlansNext

\* A slot that holds a plan holds what the parser made of the file that its plan
\* was read from, and every file of the desk and of the store has lines
\* (Sequencer.load, _parse_sequence): the invariant that the next theorems use.
THEOREM PlansInvariance == PlansSpec => []PlansInv
  BY InitPlansInv, NextPlansInv, PTL DEF PlansSpec

\* A plan is never a part of its file: as many entries as the file has lines that
\* are not blank, sorted by time and, for one time, in the order of the lines
\* (_scan_lines, parse_ats, parse_rts), for files of every length.
THEOREM PlansAreWholeFiles == PlansSpec => []PlanIsTheWholeFile
  <1>1. PlansInv => PlanIsTheWholeFile
    <2> SUFFICES ASSUME PlansInv, NEW k \in Slots, slot[k].state \in Holding
                 PROVE  /\ WholeFile(k, source[k][1].text.lines, slot[k].plan)
                        /\ KindFor(source[k][1].name) = k => Check(source[k][1])
      BY DEF PlanIsTheWholeFile, Holding, WholeFile
    <2> DEFINE file == source[k][1]
    <2>1. /\ IsFile(file) /\ file.text.utf8
          /\ Parse(k, file.text.lines, TRUE) = <<slot[k].plan>>
      BY DEF PlansInv, FromItsSource
    <2>2. Lines(file.text.lines)
      BY <2>1 DEF IsFile, Lines
    <2>3. WholeFile(k, file.text.lines, slot[k].plan)
      BY <2>1, <2>2, ParsedIsWhole
    <2>4. KindFor(file.name) = k => Check(file)
      <3> SUFFICES ASSUME KindFor(file.name) = k PROVE Check(file)
        OBVIOUS
      <3>1. KindFor(file.name) # "none"
        BY DEF Slots
      <3>2. GroundParse(file, TRUE) = <<slot[k].plan>>
        BY <2>1, <3>1 DEF GroundParse
      <3>3. <<slot[k].plan>> # <<>>
        OBVIOUS
      <3> QED BY <3>2, <3>3 DEF Check
    <2> QED BY <2>3, <2>4
  <1> QED BY <1>1, PlansInvariance, PTL

-----------------------------------------------------------------------------
\* Entries that are all moved by one delta keep their places.
LEMMA MovedPlan ==
    ASSUME NEW S, NEW T, Orderly(S), Orderly(T), NEW delta \in Int,
           NEW m \in Surjection(S, T),
           \A e \in S : m[e].time = e.time + delta /\ m[e].line = e.line
    PROVE  /\ DOMAIN ByTime(T) = DOMAIN ByTime(S)
           /\ \A r \in DOMAIN ByTime(S) :
                  ByTime(S)[r] \in S /\ ByTime(T)[r] = m[ByTime(S)[r]]
  <1> DEFINE UptoS(e) == {d \in S : Precedes(d, e)}
             UptoT(e) == {d \in T : Precedes(d, e)}
  <1>1. /\ \A e \in S : m[e] \in T /\ e.time \in Int /\ e.line \in Nat
        /\ \A t \in T : \E e \in S : m[e] = t
        /\ \A d, e \in S : d.line = e.line => d = e
    BY DEF Surjection, Orderly
  <1>2. \A d, e \in S : m[d] = m[e] => d = e
    BY <1>1
  <1>3. \A d, e \in S : Precedes(d, e) <=> Precedes(m[d], m[e])
    BY <1>1 DEF Precedes
  <1>4. ASSUME NEW e \in S PROVE Rank(T, m[e]) = Rank(S, e)
    <2> DEFINE g == [d \in UptoS(e) |-> m[d]]
    <2>1. g \in [UptoS(e) -> UptoT(m[e])]
      BY <1>1, <1>3
    <2>2. \A c, d \in UptoS(e) : g[c] = g[d] => c = d
      BY <1>2
    <2>3. \A t \in UptoT(m[e]) : \E d \in UptoS(e) : g[d] = t
      BY <1>1, <1>3
    <2>4. IsFiniteSet(UptoS(e))
      BY FS_Subset DEF Orderly
    <2>5. Rank(S, e) = Cardinality(UptoS(e)) /\ Rank(T, m[e]) = Cardinality(UptoT(m[e]))
      BY DEF Rank
    <2> HIDE DEF g, UptoS, UptoT
    <2>6. g \in Bijection(UptoS(e), UptoT(m[e]))
      BY <2>1, <2>2, <2>3 DEF Bijection, Injection, Surjection, IsInjective
    <2>7. ExistsBijection(UptoS(e), UptoT(m[e]))
      BY <2>6 DEF ExistsBijection
    <2> QED BY <2>4, <2>5, <2>7, FS_Bijection
  <1>5. Cardinality(T) = Cardinality(S)
    <2>1. m \in Bijection(S, T)
      BY <1>2 DEF Bijection, Injection, Surjection, IsInjective
    <2> QED BY <2>1, FS_Bijection DEF ExistsBijection, Orderly
  <1>6. DOMAIN ByTime(T) = DOMAIN ByTime(S)
    BY <1>5 DEF ByTime
  <1>7. ASSUME NEW r \in DOMAIN ByTime(S)
        PROVE  ByTime(S)[r] \in S /\ ByTime(T)[r] = m[ByTime(S)[r]]
    <2>1. ByTime(S)[r] \in S /\ Rank(S, ByTime(S)[r]) = r
      BY ByTimeIsSorted
    <2>2. m[ByTime(S)[r]] \in T /\ Rank(T, m[ByTime(S)[r]]) = r
      BY <1>1, <1>4, <2>1
    <2> QED BY <2>1, <2>2, ByTimeIsSorted
  <1> QED BY <1>6, <1>7

\* A line that was moved is an entry as before, but for its time.
LEMMA MovedEntry ==
    ASSUME NEW lines, Lines(lines), NEW delta \in Int,
           \A n \in 1..Len(lines) : lines[n] = <<>> \/ IsEntry("ats", lines[n]),
           NEW n \in DOMAIN lines
    PROVE  LET new == ShiftAts(lines, delta)
               e == EntryOf("ats", lines[n], n)
               d == EntryOf("ats", new[n], n)
           IN  /\ IsEntry("ats", new[n]) <=> IsEntry("ats", lines[n])
               /\ new[n] = <<>> <=> lines[n] = <<>>
               /\ IsEntry("ats", lines[n]) =>
                      /\ d.time = e.time + delta /\ d.line = e.line
                      /\ d.command = e.command /\ d.args = e.args
  <1> DEFINE new == ShiftAts(lines, delta)
             old == lines[n]
             w == new[n]
             e == EntryOf("ats", old, n)
             d == EntryOf("ats", w, n)
  <1>1. n \in 1..Len(lines)
    BY DEF Lines
  <1>2. old = <<>> => w = <<>>
    BY <1>1, ShiftedLines
  <1>3. CASE old = <<>>
    <2>1. ~IsEntry("ats", <<>>)
      <3>1. ~(Len(<<>>) >= 2)
        OBVIOUS
      <3> QED BY <3>1 DEF IsEntry
    <2> QED BY <1>2, <1>3, <2>1
  <1>4. CASE old # <<>>
    <2>1. IsEntry("ats", old) /\ IsLine(old)
      BY <1>1, <1>4 DEF Lines
    <2>2. /\ w # <<>> /\ Len(w) = Len(old) /\ w[1] = Moved(old[1], delta)
          /\ \A i \in 2..Len(old) : w[i] = old[i]
      BY <1>1, <1>4, ShiftedLines
    <2>3. Len(old) \in Nat /\ Len(old) >= 2 /\ AtsTime(old[1]) # <<>>
      BY <2>1 DEF IsEntry, IsLine, TimeOf
    <2>4. AtsTime(w[1]) = <<AtsTime(old[1])[1] + delta>>
      BY <2>2 DEF Moved, AtsTime
    <2> HIDE DEF old, w
    <2>5. w[2] = old[2] /\ \A i \in 3..Len(old) : w[i] = old[i]
      BY <2>2, <2>3
    <2>6. ArgumentsSound(w)
      <3>1. /\ \A i \in 3..Len(old) : Len(old[i]) = 2 /\ old[i][1] # ""
            /\ \A i, j \in 3..Len(old) : i < j => old[i][1] # old[j][1]
        BY <2>1, Zenon DEF IsEntry, ArgumentsSound
      <3>2. Len(w) = Len(old)
        BY <2>2
      <3>3. \A i \in 3..Len(w) : Len(w[i]) = 2 /\ w[i][1] # ""
        BY <2>5, <3>1, <3>2, Zenon
      <3>4. ASSUME NEW i \in 3..Len(w), NEW j \in 3..Len(w), i < j
            PROVE  w[i][1] # w[j][1]
        <4>1. old[i][1] # old[j][1]
          BY <3>1, <3>2, <3>4, Zenon
        <4>2. w[i] = old[i] /\ w[j] = old[j]
          BY <2>5, <3>2, Zenon
        <4> QED BY <4>1, <4>2
      <3> QED BY <3>3, <3>4, Zenon DEF ArgumentsSound
    <2>7. IsEntry("ats", w)
      BY <2>2, <2>3, <2>4, <2>6 DEF IsEntry, TimeOf
    <2>8. {w[i] : i \in 3..Len(w)} = {old[i] : i \in 3..Len(old)}
      BY <2>2, <2>5
    <2>9. /\ e.time = AtsTime(old[1])[1] /\ e.command = old[2] /\ e.line = n
          /\ d.time = AtsTime(w[1])[1] /\ d.command = w[2] /\ d.line = n
          /\ e.args = {old[i] : i \in 3..Len(old)}
          /\ d.args = {w[i] : i \in 3..Len(w)}
      BY DEF EntryOf, TimeOf
    <2>10. d.time = e.time + delta
      BY <2>4, <2>9
    <2>11. d.line = e.line /\ d.command = e.command /\ d.args = e.args
      BY <2>5, <2>8, <2>9
    <2> HIDE DEF d, e
    <2> QED BY <1>4, <2>1, <2>2, <2>7, <2>10, <2>11 DEF old, w, d, e
  <1> QED BY <1>3, <1>4

\* A step that shifts the desk moves every time by the one delta and no other thing.
LEMMA ShiftKeeps ==
    ASSUME PlansInv, NEW delay \in Delays, Shift(delay)
    PROVE  LET old == GroundParse(desk, FALSE)[1]
               new == GroundParse(desk', FALSE)[1]
           IN  /\ DOMAIN new = DOMAIN old
               /\ \A i \in DOMAIN old :
                      /\ new[i].command = old[i].command /\ new[i].args = old[i].args
                      /\ new[i].line = old[i].line
                      /\ new[i].time - new[1].time = old[i].time - old[1].time
               /\ new[1].time - (now + delay) \in -1..1
  <1> DEFINE lines == desk.text.lines
             S == EntriesOf("ats", lines)
             first == ByTime(S)[1].time
             delta == Rounded(now + delay - first)
             moved == ShiftAts(lines, delta)
             T == EntriesOf("ats", moved)
             At == {n \in DOMAIN lines : IsEntry("ats", lines[n])}
             m == [e \in S |-> EntryOf("ats", moved[e.line], e.line)]
  <1>1. /\ Lines(lines) /\ IsSound("ats", lines, FALSE)
        /\ desk.text.utf8 /\ KindFor(desk.name) = "ats"
        /\ GroundParse(desk, FALSE) = <<ByTime(S)>>
        /\ first \in Int /\ delta \in Int
        /\ desk' = [name |-> desk.name, text |-> [utf8 |-> desk.text.utf8, lines |-> moved]]
    BY ShiftEffect
  <1>2. now \in Int /\ delay \in Int
    BY PlansAssumption DEF PlansInv
  <1>3. delta - (now + delay - first) \in -1..1
    <2>1. \A t \in Int : Rounded(t) - t \in -1..1
      BY DEF Rounded
    <2>2. now + delay - first \in Int
      BY <1>1, <1>2
    <2> QED BY <2>1, <2>2
  <1> HIDE DEF first, delta
  <1>4. \A n \in 1..Len(lines) : lines[n] = <<>> \/ IsEntry("ats", lines[n])
    BY <1>1 DEF IsSound, Lines
  <1>5. Lines(moved) /\ Len(moved) = Len(lines)
    BY <1>1, <1>4, ShiftedLines
  <1>6. DOMAIN lines = 1..Len(lines) /\ DOMAIN moved = DOMAIN lines
    BY <1>1, <1>5 DEF Lines
  <1>7. \A n \in DOMAIN lines :
           /\ IsEntry("ats", moved[n]) <=> IsEntry("ats", lines[n])
           /\ moved[n] = <<>> <=> lines[n] = <<>>
           /\ IsEntry("ats", lines[n]) =>
                  /\ EntryOf("ats", moved[n], n).time = EntryOf("ats", lines[n], n).time + delta
                  /\ EntryOf("ats", moved[n], n).line = EntryOf("ats", lines[n], n).line
                  /\ EntryOf("ats", moved[n], n).command = EntryOf("ats", lines[n], n).command
                  /\ EntryOf("ats", moved[n], n).args = EntryOf("ats", lines[n], n).args
    BY <1>1, <1>4, MovedEntry
  <1>8. /\ S = {EntryOf("ats", lines[n], n) : n \in At}
        /\ T = {EntryOf("ats", moved[n], n) : n \in At}
    <2>1. {n \in DOMAIN moved : IsEntry("ats", moved[n])} = At
      BY <1>6, <1>7
    <2> QED BY <2>1 DEF EntriesOf
  <1>9. \A e \in S : e.line \in At /\ e = EntryOf("ats", lines[e.line], e.line)
    BY <1>8 DEF EntryOf
  <1>10. Orderly(S) /\ Orderly(T)
    BY <1>1, <1>5, EntriesAreOrderly
  <1>17. \A n : EntryOf("ats", lines[n], n).line = n
    BY DEF EntryOf
  <1> HIDE DEF S, T, moved, lines, At
  <1>11. m \in Surjection(S, T)
    <2>1. \A e \in S : m[e] \in T
      BY <1>8, <1>9
    <2>2. ASSUME NEW t \in T PROVE \E e \in S : m[e] = t
      <3>1. PICK n \in At : t = EntryOf("ats", moved[n], n)
        BY <1>8
      <3>2. EntryOf("ats", lines[n], n) \in S /\ EntryOf("ats", lines[n], n).line = n
        BY <1>8, <1>17
      <3> QED BY <3>1, <3>2
    <2> QED BY <2>1, <2>2 DEF Surjection
  <1>12. \A e \in S : /\ m[e].time = e.time + delta /\ m[e].line = e.line
                      /\ m[e].command = e.command /\ m[e].args = e.args
    BY <1>7, <1>9 DEF At
  <1> HIDE DEF m
  <1> DEFINE old == ByTime(S)
             new == ByTime(T)
  <1>13. DOMAIN new = DOMAIN old /\ \A i \in DOMAIN old : old[i] \in S /\ new[i] = m[old[i]]
    BY <1>1, <1>10, <1>11, <1>12, MovedPlan
  <1>14. GroundParse(desk', FALSE) = <<new>>
    <2>1. IsSound("ats", moved, FALSE)
      <3>1. S # {}
        BY <1>1 DEF IsSound, S
      <3>2. T # {}
        BY <1>8, <3>1
      <3>3. \A n \in DOMAIN moved : moved[n] = <<>> \/ IsEntry("ats", moved[n])
        BY <1>4, <1>6, <1>7
      <3> QED BY <3>2, <3>3 DEF IsSound, T
    <2>2. Parse("ats", moved, FALSE) = <<new>>
      BY <2>1 DEF Parse, T
    <2>3. /\ desk'.text.utf8 = desk.text.utf8 /\ desk'.name = desk.name
          /\ desk'.text.lines = moved
      BY <1>1
    <2>4. GroundParse(desk', FALSE) = Parse("ats", moved, FALSE)
      BY <1>1, <2>3 DEF GroundParse
    <2> QED BY <2>2, <2>4
  <1>15. 1 \in DOMAIN old
    <2>1. PICK e \in S : TRUE
      BY <1>1 DEF IsSound, S
    <2>2. Rank(S, e) \in 1..Cardinality(S) /\ Cardinality(S) \in Nat
      BY <1>10, RanksAreAnOrder
    <2> QED BY <1>10, <2>2, ByTimeIsSorted
  <1>16. \A i \in DOMAIN old : /\ new[i].command = old[i].command /\ new[i].args = old[i].args
                               /\ new[i].line = old[i].line
                               /\ new[i].time = old[i].time + delta
                               /\ old[i].time \in Int
    BY <1>10, <1>12, <1>13 DEF Orderly
  <1>18. old[1].time = first
    BY DEF first
  <1> HIDE DEF old, new
  <1>19. new[1].time - (now + delay) \in -1..1
    <2>1. new[1].time = first + delta
      BY <1>15, <1>16, <1>18
    <2> QED BY <1>1, <1>2, <1>3, <2>1
  <1>20. \A i \in DOMAIN old : new[i].time - new[1].time = old[i].time - old[1].time
    BY <1>1, <1>15, <1>16
  <1>21. \A x, y : x = <<y>> => x[1] = y
    OBVIOUS
  <1>22. GroundParse(desk, FALSE)[1] = old /\ GroundParse(desk', FALSE)[1] = new
    BY <1>1, <1>14, <1>21, Zenon DEF old
  <1> QED BY <1>13, <1>16, <1>19, <1>20, <1>22 DEF old, new

\* Shifting a file moves every entry by the one delta and keeps the plan in every
\* other respect: as many entries, of the same lines, in the same order
\* (shift_ats_text), for every file, delay and mode.
THEOREM ShiftsKeepPlans == PlansSpec => ShiftKeepsThePlan
  <1>1. PlansInv /\ [PlansNext]_planVars =>
            [\A delay \in Delays : Shift(delay) =>
                LET old == GroundParse(desk, FALSE)[1]
                    new == GroundParse(desk', FALSE)[1]
                IN  /\ DOMAIN new = DOMAIN old
                    /\ \A i \in DOMAIN old :
                           /\ new[i].command = old[i].command /\ new[i].args = old[i].args
                           /\ new[i].line = old[i].line
                           /\ new[i].time - new[1].time = old[i].time - old[1].time
                    /\ new[1].time - (now + delay) \in -1..1]_desk
    BY ShiftKeeps, Zenon
  <1> QED BY <1>1, PlansInvariance, PTL DEF PlansSpec, ShiftKeepsThePlan

-----------------------------------------------------------------------------
(***************************************************************************)
(* The bridge to the viewers.                                              *)
(***************************************************************************)
\* The events that a queue can hold.
EventsOf(S) == {State(s) : s \in S} \cup {Bye(s) : s \in S} \cup {Sentinel}

\* What is in an event.
LEMMA EventFields ==
    /\ Sentinel.sat = Nobody
    /\ \A s : /\ State(s).sat = s /\ State(s).event = "state"
              /\ Bye(s).sat = s /\ Bye(s).event = "bye"
  BY DEF State, Bye, Sentinel

\* What an event can be about.
LEMMA EventParts ==
    ASSUME NEW S, Nobody \notin S
    PROVE  /\ Sentinel.sat = Nobody /\ Sentinel \in EventsOf(S)
           /\ \A s : /\ State(s).sat = s /\ State(s).event = "state"
                     /\ Bye(s).sat = s /\ Bye(s).event = "bye"
           /\ \A s \in S : State(s) \in EventsOf(S) /\ Bye(s) \in EventsOf(S)
           /\ \A e \in EventsOf(S) : e # Sentinel => e.sat \in S
           /\ \A e \in EventsOf(S) : e.sat \in S \cup {Nobody}
           /\ \A e \in EventsOf(S) : e.event \in {"state", "bye", "end"}
  <1>1. /\ Sentinel.sat = Nobody
        /\ \A s : /\ State(s).sat = s /\ State(s).event = "state"
                  /\ Bye(s).sat = s /\ Bye(s).event = "bye"
    BY DEF State, Bye, Sentinel
  <1>5. Sentinel.event = "end"
    BY DEF Sentinel
  <1>2. \A e \in EventsOf(S) : e = Sentinel \/ \E s \in S : e = State(s) \/ e = Bye(s)
    BY Zenon DEF EventsOf
  <1>3. /\ Sentinel \in EventsOf(S)
        /\ \A s \in S : State(s) \in EventsOf(S) /\ Bye(s) \in EventsOf(S)
    BY Zenon DEF EventsOf
  <1>4. \A e \in EventsOf(S) : e # Sentinel => e.sat \in S
    <2> SUFFICES ASSUME NEW e \in EventsOf(S), e # Sentinel PROVE e.sat \in S
      OBVIOUS
    <2>1. PICK s \in S : e = State(s) \/ e = Bye(s)
      BY <1>2
    <2> QED BY <1>1, <2>1
  <1>6. \A e \in EventsOf(S) : e.event \in {"state", "bye", "end"}
    <2> SUFFICES ASSUME NEW e \in EventsOf(S), e # Sentinel
                 PROVE  e.event \in {"state", "bye", "end"}
      BY <1>5
    <2>1. PICK s \in S : e = State(s) \/ e = Bye(s)
      BY <1>2
    <2> QED BY <1>1, <2>1
  <1>7. \A e \in EventsOf(S) : e.sat \in S \cup {Nobody}
    BY <1>1, <1>4
  <1> QED BY <1>1, <1>3, <1>4, <1>6, <1>7

\* The latest events are kept: counted from the end, the queue is what it
\* would be without a bound.
LEMMA PushedKeepsTheLatest ==
    ASSUME NEW E, NEW q \in Seq(E), NEW es \in Seq(E), QueueMax \in Nat \ {0}
    PROVE  /\ Pushed(q, es) \in Seq(E)
           /\ Len(Pushed(q, es)) = IF Len(q) + Len(es) > QueueMax THEN QueueMax
                                   ELSE Len(q) + Len(es)
           /\ \A k \in 0..(Len(Pushed(q, es)) - 1) :
                  Pushed(q, es)[Len(Pushed(q, es)) - k] =
                      IF k < Len(es) THEN es[Len(es) - k] ELSE q[Len(q) + Len(es) - k]
  <1> DEFINE all == q \o es
             n == Len(q) + Len(es)
             lost == IF n > QueueMax THEN n - QueueMax ELSE 0
             p == SubSeq(all, lost + 1, n)
  <1>0. n \in Nat /\ Len(q) \in Nat /\ Len(es) \in Nat
    OBVIOUS
  <1>1. all \in Seq(E) /\ Len(all) = n
    OBVIOUS
  <1>2. \A i \in 1..n : all[i] = IF i <= Len(q) THEN q[i] ELSE es[i - Len(q)]
    OBVIOUS
  <1>3. Pushed(q, es) = p
    BY <1>1 DEF Pushed
  <1> HIDE DEF all, n
  <1>4. lost \in Nat /\ lost <= n /\ n - lost = IF n > QueueMax THEN QueueMax ELSE n
    BY <1>0
  <1> HIDE DEF lost
  <1>5. p \in Seq(E) /\ Len(p) = n - lost
    BY <1>0, <1>1, <1>4
  <1>6. \A i \in 1..(n - lost) : p[i] = all[lost + i]
    BY <1>0, <1>1, <1>4
  <1>7. ASSUME NEW k \in 0..(Len(p) - 1)
        PROVE  p[Len(p) - k] = IF k < Len(es) THEN es[Len(es) - k] ELSE q[n - k]
    <2>1. Len(p) - k \in 1..(n - lost) /\ lost + (Len(p) - k) = n - k /\ n - k \in 1..n
      BY <1>0, <1>4, <1>5
    <2>2. p[Len(p) - k] = all[n - k]
      BY <1>6, <2>1
    <2>3. n = Len(q) + Len(es)
      BY DEF n
    <2>4. all[n - k] = IF n - k <= Len(q) THEN q[n - k] ELSE es[(n - k) - Len(q)]
      BY <1>2, <2>1
    <2>5. CASE k < Len(es)
      <3>1. ~(n - k <= Len(q)) /\ (n - k) - Len(q) = Len(es) - k
        BY <1>0, <2>3, <2>5
      <3> QED BY <2>2, <2>4, <2>5, <3>1
    <2>6. CASE ~(k < Len(es))
      <3>1. n - k <= Len(q)
        BY <1>0, <2>3, <2>6
      <3> QED BY <2>2, <2>4, <2>6, <3>1
    <2> QED BY <2>5, <2>6
  <1> HIDE DEF p
  <1>8. /\ p \in Seq(E)
        /\ Len(p) = IF n > QueueMax THEN QueueMax ELSE n
        /\ \A k \in 0..(Len(p) - 1) :
               p[Len(p) - k] = IF k < Len(es) THEN es[Len(es) - k] ELSE q[n - k]
    BY <1>4, <1>5, <1>7
  <1> QED BY <1>3, <1>8 DEF n

-----------------------------------------------------------------------------
\* A configuration that was accepted: its sizes, and that the orders of the
\* farewell leave out no satellite.
LEMMA FleetSizes ==
    ASSUME roster \in Rosters
    PROVE  /\ Cardinality(Fleet) \in Nat /\ Nobody \notin Fleet
           /\ QueueMax \in Nat \ {0} /\ Cardinality(Fleet) + 1 <= QueueMax
           /\ \A o \in Orders :
                  /\ DOMAIN o = 1..Cardinality(Fleet)
                  /\ \A j \in DOMAIN o : o[j] \in Fleet
                  /\ \A j, k \in DOMAIN o : o[j] = o[k] => j = k
                  /\ \A s \in Fleet : \E j \in DOMAIN o : o[j] = s
           /\ IsFiniteSet(DOMAIN roster)
  <1>1. /\ IsFiniteSet(DOMAIN roster)
        /\ IsFiniteSet(UNION {Range(roster[i].sats) : i \in DOMAIN roster})
        /\ \A i \in DOMAIN roster : Nobody \notin Range(roster[i].sats)
        /\ ClientQueueMax \in Nat \ {0}
    BY RosterAssumption
  <1>2. IsFiniteSet(Fleet)
    BY <1>1 DEF Fleet, Ids
  <1>3. Nobody \notin Fleet
    BY <1>1 DEF Fleet, Ids
  <1>4. Cardinality(Fleet) \in Nat
    BY <1>2, FS_CardinalityType
  <1>5. QueueMax \in Nat \ {0} /\ Cardinality(Fleet) + 1 <= QueueMax
    <2> DEFINE n == Cardinality(Fleet)
    <2>1. n \in Nat
      BY <1>4
    <2>2. QueueMax = IF 2 * n > ClientQueueMax THEN 2 * n ELSE ClientQueueMax
      BY DEF QueueMax
    <2>0. ClientQueueMax \in Nat \ {0}
      BY <1>1
    <2> HIDE DEF n
    <2>3. QueueMax \in Nat \ {0} /\ n + 1 <= QueueMax
      BY <2>0, <2>1, <2>2
    <2> QED BY <2>3 DEF n
  <1>6. ASSUME NEW o \in Orders
        PROVE  /\ DOMAIN o = 1..Cardinality(Fleet)
               /\ \A j \in DOMAIN o : o[j] \in Fleet
               /\ \A j, k \in DOMAIN o : o[j] = o[k] => j = k
               /\ \A s \in Fleet : \E j \in DOMAIN o : o[j] = s
    <2>1. o \in [1..Cardinality(Fleet) -> Fleet] /\ IsInjective(o)
      BY DEF Orders
    <2>2. o \in Injection(1..Cardinality(Fleet), Fleet)
      BY <2>1 DEF Injection
    <2>3. Cardinality(1..Cardinality(Fleet)) = Cardinality(Fleet)
      BY <1>4, FS_Interval
    <2>4. o \in Surjection(1..Cardinality(Fleet), Fleet)
      BY <1>2, <2>2, <2>3, FS_Injection
    <2>5. \A s \in Fleet : \E j \in 1..Cardinality(Fleet) : o[j] = s
      BY <2>4 DEF Surjection
    <2>6. \A j, k \in DOMAIN o : o[j] = o[k] => j = k
      BY <2>1 DEF IsInjective
    <2> QED BY <2>1, <2>5, <2>6
  <1> QED BY <1>1, <1>3, <1>4, <1>5, <1>6

\* The satellites of one entry: not more than a queue has room for.
LEMMA EntrySizes ==
    ASSUME roster \in Rosters, NEW i \in DOMAIN roster
    PROVE  /\ Len(roster[i].sats) \in Nat \ {0}
           /\ DOMAIN roster[i].sats = 1..Len(roster[i].sats)
           /\ \A j \in 1..Len(roster[i].sats) : roster[i].sats[j] \in Fleet
           /\ Len(roster[i].sats) <= QueueMax
           /\ DOMAIN roster = {i} =>
                  \A s \in Fleet : \E j \in 1..Len(roster[i].sats) : roster[i].sats[j] = s
  <1> DEFINE sats == roster[i].sats
  <1>1. /\ Len(sats) \in Nat \ {0} /\ DOMAIN sats = 1..Len(sats)
        /\ IsInjective(sats)
        /\ IsFiniteSet(UNION {Range(roster[k].sats) : k \in DOMAIN roster})
    BY RosterAssumption
  <1>2. IsFiniteSet(Fleet)
    BY <1>1 DEF Fleet, Ids
  <1>3. Range(sats) \subseteq Fleet
    BY DEF Fleet, Ids
  <1>4. \A j \in 1..Len(sats) : sats[j] \in Range(sats)
    BY <1>1 DEF Range
  <1>5. Len(sats) <= Cardinality(Fleet)
    <2> DEFINE f == [j \in 1..Len(sats) |-> sats[j]]
    <2>1. f \in Injection(1..Len(sats), Fleet)
      <3>1. \A j, k \in 1..Len(sats) : sats[j] = sats[k] => j = k
        BY <1>1 DEF IsInjective
      <3>2. f \in [1..Len(sats) -> Fleet]
        BY <1>3, <1>4
      <3> HIDE DEF sats
      <3>3. IsInjective(f)
        BY <3>1 DEF IsInjective
      <3> QED BY <3>2, <3>3 DEF Injection
    <2>2. Cardinality(1..Len(sats)) = Len(sats)
      BY <1>1, FS_Interval
    <2> HIDE DEF f, sats
    <2>3. Cardinality(1..Len(sats)) <= Cardinality(Fleet)
      BY <1>2, <2>1, FS_Injection
    <2> QED BY <2>2, <2>3
  <1>6. ASSUME DOMAIN roster = {i}, NEW s \in Fleet
        PROVE  \E j \in 1..Len(sats) : sats[j] = s
    <2>1. s \in Range(sats)
      BY <1>6 DEF Fleet, Ids
    <2> QED BY <1>1, <2>1 DEF Range
  <1>7. Len(sats) <= QueueMax
    <2>1. Cardinality(Fleet) + 1 <= QueueMax /\ QueueMax \in Nat /\ Cardinality(Fleet) \in Nat
      BY FleetSizes
    <2> HIDE DEF sats
    <2> QED BY <1>1, <1>5, <2>1
  <1> QED BY <1>1, <1>3, <1>4, <1>6, <1>7

-----------------------------------------------------------------------------
\* The place d places before place t of a round of L.
Back(t, d, L) == IF t > d THEN t - d ELSE t - d + L

\* The round: its places back are the ones taken last, and they are all of it.
LEMMA Rounds ==
    ASSUME NEW L \in Nat \ {0}, NEW t \in 1..L
    PROVE  /\ (t % L) + 1 \in 1..L
           /\ Back((t % L) + 1, 1, L) = t
           /\ \A d \in 2..L : Back((t % L) + 1, d, L) = Back(t, d - 1, L)
           /\ \A j \in 1..L : \E d \in 1..L : Back(t, d, L) = j
  <1>1. (t % L) + 1 = IF t < L THEN t + 1 ELSE 1
    <2>1. CASE t < L
      BY <2>1
    <2>2. CASE t = L
      BY <2>2
    <2> QED BY <2>1, <2>2
  <1> DEFINE u == (t % L) + 1
  <1>2. u = IF t < L THEN t + 1 ELSE 1
    BY <1>1
  <1> HIDE DEF u
  <1>3. u \in 1..L
    BY <1>2
  <1>4. Back(u, 1, L) = t
    BY <1>2 DEF Back
  <1>5. \A d \in 2..L : Back(u, d, L) = Back(t, d - 1, L)
    BY <1>2 DEF Back
  <1>6. ASSUME NEW j \in 1..L PROVE \E d \in 1..L : Back(t, d, L) = j
    <2>1. CASE j < t
      <3>1. t - j \in 1..L /\ Back(t, t - j, L) = j
        BY <2>1 DEF Back
      <3> QED BY <3>1
    <2>2. CASE j >= t
      <3>1. t - j + L \in 1..L /\ Back(t, t - j + L, L) = j
        BY <2>2 DEF Back
      <3> QED BY <3>1
    <2> QED BY <2>1, <2>2
  <1> QED BY <1>3, <1>4, <1>5, <1>6 DEF u

-----------------------------------------------------------------------------
\* What the variables hold.
ViewType ==
    /\ roster \in Rosters
    /\ phase \in {"running", "stopping", "down"}
    /\ DOMAIN turn = Constellations
    /\ \A i \in Constellations : turn[i] \in 1..Len(roster[i].sats)
    /\ turn = [i \in DOMAIN turn |-> turn[i]]
    /\ viewers \in [Viewers -> {"away", "streaming"}]
    /\ queues \in [Viewers -> Seq(EventsOf(Fleet))]
    /\ \A v \in Viewers : Len(queues[v]) <= QueueMax
    /\ last \in [Viewers -> [Fleet -> {"none", "state", "bye"}]]

\* The latest events of a queue are the places of the round taken last.
LatestOf(i, q) ==
    \A d \in 1..Len(roster[i].sats) :
        d <= Len(q) =>
            q[Len(q) - d + 1] = State(roster[i].sats[Back(turn[i], d, Len(roster[i].sats))])

\* The queue of a viewer that follows nothing but one population holds the
\* latest states of its round, until leave is taken.
RoundsInOrder ==
    phase # "down" =>
        \A i \in Constellations : DOMAIN roster = {i} =>
            \A v \in Viewers : viewers[v] = "streaming" => LatestOf(i, queues[v])

\* A queue that is full after the farewell holds every satellite.
FullOfFarewells ==
    phase = "down" =>
        \A v \in Viewers :
            viewers[v] = "streaming" /\ Len(queues[v]) >= QueueMax =>
                \A s \in Fleet : \E j \in DOMAIN queues[v] : queues[v][j].sat = s

\* What every step keeps.
ViewInv == ViewType /\ RoundsInOrder /\ FarewellIsComplete /\ FullOfFarewells

\* At first nobody streams and nothing is queued.
LEMMA InitViewInv == ViewerInit => ViewInv
  <1> SUFFICES ASSUME ViewerInit PROVE ViewInv
    OBVIOUS
  <1>1. roster \in Rosters /\ phase = "running"
    BY DEF ViewerInit
  <1>2. \A i \in Constellations : turn[i] \in 1..Len(roster[i].sats)
    <2>1. \A i \in Constellations : 1 \in 1..Len(roster[i].sats)
      <3> SUFFICES ASSUME NEW i \in Constellations PROVE 1 \in 1..Len(roster[i].sats)
        OBVIOUS
      <3>1. i \in DOMAIN roster
        BY DEF Constellations
      <3>2. Len(roster[i].sats) \in Nat \ {0}
        BY <1>1, <3>1, EntrySizes
      <3> QED BY <3>2
    <2> QED BY <2>1 DEF ViewerInit
  <1>3. \A v \in Viewers : viewers[v] = "away" /\ queues[v] = <<>>
    BY DEF ViewerInit
  <1>4. \A v \in Viewers : Len(queues[v]) <= QueueMax
    <2>1. QueueMax \in Nat
      BY <1>1, FleetSizes
    <2> QED BY <1>3, <2>1
  <1>5. ViewType
    <2>1. queues \in [Viewers -> Seq(EventsOf(Fleet))]
      BY DEF ViewerInit
    <2>2. last \in [Viewers -> [Fleet -> {"none", "state", "bye"}]]
      BY DEF ViewerInit
    <2>3. viewers \in [Viewers -> {"away", "streaming"}]
      BY DEF ViewerInit
    <2>4. DOMAIN turn = Constellations /\ turn = [i \in DOMAIN turn |-> turn[i]]
      BY DEF ViewerInit
    <2> QED BY <1>1, <1>2, <1>4, <2>1, <2>2, <2>3, <2>4 DEF ViewType
  <1> QED BY <1>1, <1>3, <1>5 DEF ViewInv, RoundsInOrder, FarewellIsComplete, FullOfFarewells

\* With the configuration everything that is computed from it stays.
LEMMA SameConfiguration ==
    ASSUME UNCHANGED roster
    PROVE  /\ Fleet' = Fleet /\ QueueMax' = QueueMax
           /\ Satellites' = Satellites /\ Constellations' = Constellations
           /\ DOMAIN roster' = DOMAIN roster
           /\ \A i : Len(roster[i].sats)' = Len(roster[i].sats)
  BY DEF Fleet, QueueMax, Satellites, Constellations, Ids

\* A step that leaves the viewers and their queues alone, and the turns.
LEMMA IdleKeeps ==
    ASSUME ViewInv, UNCHANGED <<roster, turn, streams>>,
           phase' = phase \/ (phase = "running" /\ phase' = "stopping")
    PROVE  ViewInv'
  <1>1. /\ UNCHANGED <<roster, turn, viewers, queues, last>>
        /\ Fleet' = Fleet /\ QueueMax' = QueueMax /\ Constellations' = Constellations
    BY SameConfiguration DEF streams
  <1>2. phase' \in {"running", "stopping", "down"} /\ (phase' = "down" => phase = "down")
        /\ (phase' # "down" => phase # "down")
    BY DEF ViewInv, ViewType
  <1>3. ViewType'
    BY <1>1, <1>2 DEF ViewInv, ViewType
  <1>4. RoundsInOrder'
    BY <1>1, <1>2 DEF ViewInv, RoundsInOrder, LatestOf
  <1>5. FarewellIsComplete'
    BY <1>1, <1>2 DEF ViewInv, FarewellIsComplete
  <1>6. FullOfFarewells'
    BY <1>1, <1>2 DEF ViewInv, FullOfFarewells
  <1> QED BY <1>3, <1>4, <1>5, <1>6 DEF ViewInv

\* What a broadcast makes of the queues.
LEMMA BroadcastQueues ==
    ASSUME ViewType, NEW es \in Seq(EventsOf(Fleet)), Broadcast(es)
    PROVE  /\ queues' \in [Viewers -> Seq(EventsOf(Fleet))]
           /\ \A v \in Viewers : Len(queues'[v]) <= QueueMax
           /\ \A v \in Viewers :
                  viewers[v] = "streaming" => queues'[v] = Pushed(queues[v], es)
  <1>0. QueueMax \in Nat \ {0}
    BY FleetSizes DEF ViewType
  <1>1. \A v \in Viewers : queues[v] \in Seq(EventsOf(Fleet)) /\ Len(queues[v]) <= QueueMax
    BY DEF ViewType
  <1>2. ASSUME NEW v \in Viewers
        PROVE  /\ Pushed(queues[v], es) \in Seq(EventsOf(Fleet))
               /\ Len(Pushed(queues[v], es)) <= QueueMax
    <2>1. /\ Pushed(queues[v], es) \in Seq(EventsOf(Fleet))
          /\ Len(Pushed(queues[v], es)) = IF Len(queues[v]) + Len(es) > QueueMax THEN QueueMax
                                          ELSE Len(queues[v]) + Len(es)
      BY <1>0, <1>1, PushedKeepsTheLatest
    <2>2. Len(queues[v]) \in Nat /\ Len(es) \in Nat
      BY <1>1
    <2> QED BY <1>0, <2>1, <2>2
  <1>3. queues' = [v \in Viewers |->
            IF viewers[v] = "streaming" THEN Pushed(queues[v], es) ELSE queues[v]]
    BY DEF Broadcast
  <1> QED BY <1>1, <1>2, <1>3

\* A state that is published keeps everything but, perhaps, the rounds.
LEMMA BroadcastKeeps ==
    ASSUME ViewInv, UNCHANGED <<roster, viewers, last, phase>>, phase # "down",
           NEW s \in Fleet, Broadcast(<<State(s)>>),
           DOMAIN turn' = DOMAIN turn, turn' = [i \in DOMAIN turn' |-> turn'[i]],
           \A i \in Constellations : turn'[i] \in 1..Len(roster[i].sats)
    PROVE  ViewType' /\ FarewellIsComplete' /\ FullOfFarewells'
  <1>1. /\ Fleet' = Fleet /\ QueueMax' = QueueMax /\ Constellations' = Constellations
        /\ \A i : Len(roster'[i].sats) = Len(roster[i].sats)
    BY SameConfiguration
  <1>2. <<State(s)>> \in Seq(EventsOf(Fleet))
    <2>1. Nobody \notin Fleet
      BY FleetSizes DEF ViewInv, ViewType
    <2>2. State(s) \in EventsOf(Fleet)
      BY <2>1, EventParts
    <2> QED BY <2>2
  <1>3. /\ queues' \in [Viewers -> Seq(EventsOf(Fleet))]
        /\ \A v \in Viewers : Len(queues'[v]) <= QueueMax
    BY <1>2, BroadcastQueues DEF ViewInv
  <1>4. ViewType'
    BY <1>1, <1>3 DEF ViewInv, ViewType
  <1> QED BY <1>4 DEF FarewellIsComplete, FullOfFarewells

\* A feed publishes: nobody has only a population then.
LEMMA FeedReadsKeeps ==
    ASSUME ViewInv, NEW i \in Satellites, FeedReads(i)
    PROVE  ViewInv'
  <1>0. i \in DOMAIN roster /\ roster[i].kind = "satellite"
    BY DEF Satellites
  <1>1. /\ UNCHANGED <<roster, turn, viewers, last, phase>> /\ phase = "running"
        /\ Broadcast(<<State(roster[i].sats[1])>>)
    BY DEF FeedReads, publishers
  <1>2. roster[i].sats[1] \in Fleet
    <2>1. Len(roster[i].sats) \in Nat \ {0}
      BY <1>0, EntrySizes DEF ViewInv, ViewType
    <2>2. 1 \in 1..Len(roster[i].sats)
      BY <2>1
    <2> QED BY <1>0, <2>2, EntrySizes DEF ViewInv, ViewType
  <1>3. ViewType' /\ FarewellIsComplete' /\ FullOfFarewells'
    <2>1. /\ DOMAIN turn' = DOMAIN turn /\ turn' = [k \in DOMAIN turn' |-> turn'[k]]
          /\ \A k \in Constellations : turn'[k] \in 1..Len(roster[k].sats)
      BY <1>1 DEF ViewInv, ViewType
    <2> QED BY <1>1, <1>2, <2>1, BroadcastKeeps
  <1>4. RoundsInOrder'
    <2>1. ASSUME NEW k \in Constellations PROVE DOMAIN roster # {k}
      BY <1>0 DEF Constellations
    <2>2. Constellations' = Constellations /\ DOMAIN roster' = DOMAIN roster
      BY <1>1, SameConfiguration
    <2> QED BY <2>1, <2>2 DEF RoundsInOrder
  <1> QED BY <1>3, <1>4 DEF ViewInv

\* A population publishes: the place of the round goes to the end of the queue.
LEMMA PopulationKeeps ==
    ASSUME ViewInv, NEW i \in Constellations, PopulationStep(i)
    PROVE  ViewInv'
  <1> DEFINE sats == roster[i].sats
             L == Len(roster[i].sats)
             t == turn[i]
  <1>0. i \in DOMAIN roster /\ roster \in Rosters
    BY DEF Constellations, ViewInv, ViewType
  <1>1. /\ UNCHANGED <<roster, viewers, last, phase>> /\ phase = "running"
        /\ Broadcast(<<State(sats[t])>>)
        /\ turn' = [turn EXCEPT ![i] = (t % L) + 1]
    BY DEF PopulationStep
  <1>2. L \in Nat \ {0} /\ t \in 1..L
    BY <1>0, EntrySizes DEF ViewInv, ViewType
  <1>3. sats[t] \in Fleet
    BY <1>0, <1>2, EntrySizes
  <1>4. /\ DOMAIN turn = Constellations /\ turn = [k \in DOMAIN turn |-> turn[k]]
        /\ \A k \in Constellations : turn[k] \in 1..Len(roster[k].sats)
    BY DEF ViewInv, ViewType
  <1>5. turn'[i] = (t % L) + 1
    BY <1>1, <1>4
  <1>6. ViewType' /\ FarewellIsComplete' /\ FullOfFarewells'
    <2>1. DOMAIN turn' = DOMAIN turn /\ turn' = [k \in DOMAIN turn' |-> turn'[k]]
      BY <1>1, <1>4
    <2>2. ASSUME NEW k \in Constellations PROVE turn'[k] \in 1..Len(roster[k].sats)
      <3>1. CASE k = i
        <4>1. (t % L) + 1 \in 1..L
          BY <1>2, Rounds, Zenon
        <4>2. turn'[k] \in 1..L
          BY <1>5, <3>1, <4>1, Zenon
        <4> QED BY <3>1, <4>2
      <3>2. CASE k # i
        BY <1>1, <1>4, <3>2
      <3> QED BY <3>1, <3>2
    <2> QED BY <1>1, <1>3, <2>1, <2>2, BroadcastKeeps
  <1>7. RoundsInOrder'
    <2> SUFFICES ASSUME NEW k \in Constellations', DOMAIN roster' = {k},
                        NEW v \in Viewers, viewers'[v] = "streaming",
                        NEW d \in 1..Len(roster'[k].sats), d <= Len(queues'[v])
                 PROVE  queues'[v][Len(queues'[v]) - d + 1]
                        = State(roster'[k].sats[Back(turn'[k], d, Len(roster'[k].sats))])
      BY DEF RoundsInOrder, LatestOf
    <2> DEFINE q == queues[v]
               p == queues'[v]
               u == turn'[i]
    <2>1. k = i /\ roster' = roster /\ viewers[v] = "streaming" /\ DOMAIN roster = {i}
      BY <1>0, <1>1
    <2>2. d \in 1..L /\ d <= Len(p)
      BY <2>1
    <2>3. q \in Seq(EventsOf(Fleet)) /\ <<State(sats[t])>> \in Seq(EventsOf(Fleet))
      <3>1. Nobody \notin Fleet
        BY <1>0, FleetSizes
      <3>2. State(sats[t]) \in EventsOf(Fleet)
        BY <1>3, <3>1, EventParts
      <3> QED BY <3>2 DEF ViewInv, ViewType
    <2>4. p = Pushed(q, <<State(sats[t])>>)
      BY <1>1, <2>1, <2>3, BroadcastQueues DEF ViewInv
    <2>5. QueueMax \in Nat \ {0}
      BY <1>0, FleetSizes
    <2>6. /\ Len(p) = IF Len(q) + 1 > QueueMax THEN QueueMax ELSE Len(q) + 1
          /\ \A m \in 0..(Len(p) - 1) :
                 p[Len(p) - m] = IF m < 1 THEN State(sats[t]) ELSE q[Len(q) + 1 - m]
      <3> DEFINE es == <<State(sats[t])>>
      <3>1. Len(es) = 1 /\ es[1] = State(sats[t])
        OBVIOUS
      <3> HIDE DEF es
      <3>2. /\ Len(p) = IF Len(q) + Len(es) > QueueMax THEN QueueMax ELSE Len(q) + Len(es)
            /\ \A m \in 0..(Len(p) - 1) :
                   p[Len(p) - m] = IF m < Len(es) THEN es[Len(es) - m]
                                   ELSE q[Len(q) + Len(es) - m]
        <4> HIDE DEF q
        <4>1. es \in Seq(EventsOf(Fleet)) /\ q \in Seq(EventsOf(Fleet)) /\ p = Pushed(q, es)
          BY <2>3, <2>4 DEF es
        <4> HIDE DEF p
        <4> QED BY <2>5, <4>1, PushedKeepsTheLatest
      <3>3. \A m \in Nat : m < 1 => 1 - m = 1
        OBVIOUS
      <3>4. Len(p) \in Nat /\ Len(q) \in Nat
        BY <2>3, <2>5, <3>1, <3>2
      <3>5. ASSUME NEW m \in 0..(Len(p) - 1)
            PROVE  p[Len(p) - m] = IF m < 1 THEN State(sats[t]) ELSE q[Len(q) + 1 - m]
        BY <3>1, <3>2, <3>3
      <3> QED BY <3>1, <3>2, <3>5
    <2>7. Len(q) \in Nat /\ Len(p) \in Nat /\ Len(p) <= Len(q) + 1
      BY <2>3, <2>5, <2>6
    <2>8. d - 1 \in 0..(Len(p) - 1) /\ Len(p) - (d - 1) = Len(p) - d + 1
      BY <2>2, <2>7
    <2>9. p[Len(p) - d + 1] = IF d - 1 < 1 THEN State(sats[t]) ELSE q[Len(q) + 1 - (d - 1)]
      BY <2>6, <2>8
    <2>10. u = (t % L) + 1
      BY <1>5
    <2>11. CASE d = 1
      <3>1. Back(u, 1, L) = t
        <4> HIDE DEF L, t, u
        <4> QED BY <1>2, <2>10, Rounds
      <3> QED BY <2>1, <2>9, <2>11, <3>1
    <2>12. CASE d # 1
      <3>1. d \in 2..L /\ d - 1 \in 1..L /\ d - 1 <= Len(q) /\ ~(d - 1 < 1)
            /\ Len(q) + 1 - (d - 1) = Len(q) - (d - 1) + 1
        BY <1>2, <2>2, <2>7, <2>12
      <3>2. Back(u, d, L) = Back(t, d - 1, L)
        <4> HIDE DEF L, t, u
        <4> QED BY <1>2, <2>10, <3>1, Rounds
      <3>3. LatestOf(i, q)
        BY <1>1, <2>1 DEF ViewInv, RoundsInOrder
      <3>4. q[Len(q) - (d - 1) + 1] = State(sats[Back(t, d - 1, L)])
        BY <3>1, <3>3 DEF LatestOf
      <3> QED BY <2>1, <2>9, <3>1, <3>2, <3>4
    <2> QED BY <2>11, <2>12
  <1> QED BY <1>6, <1>7 DEF ViewInv

\* Two sequences one after the other.
LEMMA Concatenation ==
    ASSUME NEW E, NEW f \in Seq(E), NEW e \in Seq(E)
    PROVE  /\ f \o e \in Seq(E) /\ Len(f \o e) = Len(f) + Len(e)
           /\ \A j \in 1..(Len(f) + Len(e)) :
                  (f \o e)[j] = IF j <= Len(f) THEN f[j] ELSE e[j - Len(f)]
  OBVIOUS

\* A sequence and one more element.
LEMMA OneMore ==
    ASSUME NEW E, NEW n \in Nat, NEW f \in [1..n -> E], NEW x \in E
    PROVE  /\ f \o <<x>> \in Seq(E) /\ Len(f \o <<x>>) = n + 1
           /\ (f \o <<x>>)[n + 1] = x
           /\ \A j \in 1..n : (f \o <<x>>)[j] = f[j]
  <1>1. f \in Seq(E) /\ Len(f) = n
    OBVIOUS
  <1>2. <<x>> \in Seq(E) /\ Len(<<x>>) = 1 /\ <<x>>[1] = x
    OBVIOUS
  <1> DEFINE e == <<x>>
  <1>3. e \in Seq(E) /\ Len(e) = 1 /\ e[1] = x
    BY <1>2
  <1> HIDE DEF e
  <1>4. /\ f \o e \in Seq(E) /\ Len(f \o e) = Len(f) + Len(e)
        /\ \A j \in 1..(Len(f) + Len(e)) :
               (f \o e)[j] = IF j <= Len(f) THEN f[j] ELSE e[j - Len(f)]
    BY <1>1, <1>3, Concatenation, Zenon
  <1>6. \A j \in 1..(n + 1) : (f \o e)[j] = IF j <= n THEN f[j] ELSE e[j - n]
    BY <1>1, <1>3, <1>4, Zenon
  <1>7. n + 1 \in 1..(n + 1) /\ ~(n + 1 <= n) /\ (n + 1) - n = 1
        /\ \A j \in 1..n : j \in 1..(n + 1) /\ j <= n
    OBVIOUS
  <1>8. (f \o e)[n + 1] = x /\ \A j \in 1..n : (f \o e)[j] = f[j]
    BY <1>3, <1>6, <1>7, Zenon
  <1> QED BY <1>1, <1>3, <1>4, <1>8, Zenon DEF e

\* Events for which there is room at the end of a queue are all there.
LEMMA PushedFits ==
    ASSUME QueueMax \in Nat \ {0}, NEW E, NEW q \in Seq(E), NEW es \in Seq(E),
           NEW n \in Nat, Len(es) = n + 1, n + 1 <= QueueMax
    PROVE  /\ Pushed(q, es) \in Seq(E)
           /\ Len(Pushed(q, es)) \in Nat /\ n + 1 <= Len(Pushed(q, es))
           /\ DOMAIN Pushed(q, es) = 1..Len(Pushed(q, es))
           /\ \A m \in 0..n : Pushed(q, es)[Len(Pushed(q, es)) - m] = es[n + 1 - m]
  <1> DEFINE p == Pushed(q, es)
  <1>1. /\ p \in Seq(E)
        /\ Len(p) = IF Len(q) + Len(es) > QueueMax THEN QueueMax ELSE Len(q) + Len(es)
        /\ \A m \in 0..(Len(p) - 1) :
               p[Len(p) - m] = IF m < Len(es) THEN es[Len(es) - m]
                               ELSE q[Len(q) + Len(es) - m]
    BY PushedKeepsTheLatest, Zenon
  <1> HIDE DEF p
  <1>2. p \in Seq(E) /\ Len(p) \in Nat /\ n + 1 <= Len(p) /\ DOMAIN p = 1..Len(p)
    BY <1>1
  <1>3. ASSUME NEW m \in 0..n PROVE p[Len(p) - m] = es[n + 1 - m]
    <2>1. m \in 0..(Len(p) - 1) /\ m < Len(es)
      BY <1>2
    <2>2. p[Len(p) - m] = es[Len(es) - m]
      BY <1>1, <2>1, Zenon
    <2> QED BY <2>2
  <1> QED BY <1>2, <1>3 DEF p

\* Places counted from the end of L, where n + 1 places are looked at.
LEMMA FromTheEnd ==
    ASSUME NEW L \in Nat, NEW n \in Nat, n + 1 <= L, NEW r \in 1..n
    PROVE  /\ n + 1 - r \in 1..n /\ n + 1 - (n + 1 - r) = r
           /\ L - (n + 1 - r) \in 1..L
           /\ \A j \in (L - (n + 1 - r) + 1)..L : j # L =>
                  /\ L - j \in 1..n /\ L - (L - j) = j
                  /\ n + 1 - (L - j) \in 1..n /\ n + 1 - (L - j) # r
  OBVIOUS

\* A queue p of length L ends with n byes, to o[1], o[2], ..., and the sentinel.
EndsWithByes(p, L, o, n) ==
    /\ L \in Nat /\ n \in Nat /\ n + 1 <= L
    /\ \A j, k \in 1..n : o[j] = o[k] => j = k
    /\ \A j \in 1..n : o[j] # Nobody
    /\ p[L] = Sentinel
    /\ \A m \in 1..n : p[L - m] = Bye(o[n + 1 - m])

\* The bye to s is in it, and nothing that follows is about s.
HasTheLastWord(p, L, s) ==
    \E i \in 1..L : p[i] = Bye(s) /\ \A j \in (i + 1)..L : p[j].sat # s

\* Each of these byes is the last word about its satellite.
LEMMA ByesAtTheEnd ==
    ASSUME NEW p, NEW L, NEW o, NEW n, EndsWithByes(p, L, o, n), NEW r \in 1..n
    PROVE  HasTheLastWord(p, L, o[r])
  <1> USE DEF EndsWithByes
  <1> DEFINE i == L - (n + 1 - r)
  <1>1. /\ n + 1 - r \in 1..n /\ i \in 1..L /\ n + 1 - (n + 1 - r) = r
        /\ \A j \in (i + 1)..L : j # L =>
               /\ L - j \in 1..n /\ L - (L - j) = j
               /\ n + 1 - (L - j) \in 1..n /\ n + 1 - (L - j) # r
    BY FromTheEnd
  <1>2. p[i] = Bye(o[r])
    BY <1>1, Zenon
  <1>3. ASSUME NEW j \in (i + 1)..L PROVE p[j].sat # o[r]
    <2>1. CASE j = L
      <3>1. Sentinel.sat = Nobody /\ o[r] # Nobody
        BY EventFields, Zenon
      <3> QED BY <2>1, <3>1, Zenon
    <2>2. CASE j # L
      <3> DEFINE k == n + 1 - (L - j)
      <3>1. k \in 1..n /\ k # r /\ L - j \in 1..n /\ L - (L - j) = j
        BY <1>1, <2>2, Zenon
      <3>2. p[j] = Bye(o[k])
        BY <3>1, Zenon
      <3> HIDE DEF k
      <3>4. o[k] # o[r]
        BY <3>1, Zenon
      <3>5. p[j].sat = o[k]
        BY <3>2, EventFields, Zenon
      <3> QED BY <3>4, <3>5, Zenon
    <2> QED BY <2>1, <2>2
  <1> QED BY <1>1, <1>2, <1>3, Zenon DEF HasTheLastWord

\* The farewell: a bye to every satellite and the sentinel behind them.
LEMMA FarewellEvents ==
    ASSUME roster \in Rosters, NEW o \in Orders
    PROVE  LET n == Cardinality(Fleet)
           IN  /\ Farewell(o) \in Seq(EventsOf(Fleet))
               /\ Len(Farewell(o)) = n + 1
               /\ Farewell(o)[n + 1] = Sentinel
               /\ \A j \in 1..n : Farewell(o)[j] = Bye(o[j])
  <1> DEFINE n == Cardinality(Fleet)
             byes == [j \in DOMAIN o |-> Bye(o[j])]
             E == EventsOf(Fleet)
  <1>1. n \in Nat /\ DOMAIN o = 1..n /\ Nobody \notin Fleet /\ \A j \in DOMAIN o : o[j] \in Fleet
    BY FleetSizes
  <1>2. Sentinel \in E /\ \A j \in 1..n : Bye(o[j]) \in E
    BY <1>1, EventParts
  <1>3. Farewell(o) = byes \o <<Sentinel>>
    BY DEF Farewell
  <1> HIDE DEF n, E
  <1>4. byes \in [1..n -> E] /\ \A j \in 1..n : byes[j] = Bye(o[j])
    BY <1>1, <1>2
  <1> HIDE DEF byes
  <1>7. /\ byes \o <<Sentinel>> \in Seq(E) /\ Len(byes \o <<Sentinel>>) = n + 1
        /\ (byes \o <<Sentinel>>)[n + 1] = Sentinel
        /\ \A j \in 1..n : (byes \o <<Sentinel>>)[j] = byes[j]
    <2>1. n \in Nat /\ byes \in [1..n -> E] /\ Sentinel \in E
      BY <1>1, <1>2, <1>4
    <2>2. /\ byes \o <<Sentinel>> \in Seq(E) /\ Len(byes \o <<Sentinel>>) = n + 1
          /\ (byes \o <<Sentinel>>)[n + 1] = Sentinel
          /\ \A j \in 1..n : (byes \o <<Sentinel>>)[j] = byes[j]
      BY <2>1, OneMore
    <2> QED BY <2>2, Zenon
  <1> QED BY <1>3, <1>4, <1>7 DEF n, E

\* When the bridge goes down every queue ends with the whole farewell.
LEMMA ShutdownKeeps ==
    ASSUME ViewInv, Shutdown
    PROVE  ViewInv'
  <1> DEFINE n == Cardinality(Fleet)
             E == EventsOf(Fleet)
  <1>1. PICK o \in Orders : Broadcast(Farewell(o))
    BY DEF Shutdown
  <1> DEFINE es == Farewell(o)
  <1>2. UNCHANGED <<roster, turn, viewers, last>> /\ phase' = "down" /\ roster \in Rosters
    BY DEF Shutdown, publishers, ViewInv, ViewType
  <1>3. /\ Fleet' = Fleet /\ QueueMax' = QueueMax /\ Constellations' = Constellations
        /\ \A i : Len(roster'[i].sats) = Len(roster[i].sats)
    BY <1>2, SameConfiguration
  <1>4. /\ n \in Nat /\ n + 1 <= QueueMax /\ QueueMax \in Nat \ {0} /\ Nobody \notin Fleet
        /\ \A j \in 1..n : o[j] \in Fleet
        /\ \A j, k \in 1..n : o[j] = o[k] => j = k
        /\ \A s \in Fleet : \E j \in 1..n : o[j] = s
    BY <1>2, FleetSizes
  <1>0. n \in Nat /\ n + 1 <= QueueMax /\ QueueMax \in Nat \ {0}
    BY <1>4
  <1>5. /\ es \in Seq(E) /\ Len(es) = n + 1 /\ es[n + 1] = Sentinel
        /\ \A j \in 1..n : es[j] = Bye(o[j])
    BY <1>2, FarewellEvents
  <1>6. /\ queues' \in [Viewers -> Seq(E)]
        /\ \A v \in Viewers : Len(queues'[v]) <= QueueMax
        /\ \A v \in Viewers : viewers[v] = "streaming" => queues'[v] = Pushed(queues[v], es)
    BY <1>1, <1>5, BroadcastQueues DEF ViewInv
  <1>7. ViewType'
    BY <1>2, <1>3, <1>6 DEF ViewInv, ViewType
  <1>8. ASSUME NEW v \in Viewers, viewers[v] = "streaming"
        PROVE  /\ queues'[v] # <<>> /\ Last(queues'[v]) = Sentinel
               /\ \A s \in Fleet : \E i \in DOMAIN queues'[v] :
                      /\ queues'[v][i] = Bye(s)
                      /\ \A j \in (i + 1)..Len(queues'[v]) : queues'[v][j].sat # s
    <2> DEFINE q == queues[v]
               p == queues'[v]
    <2>1. q \in Seq(E) /\ p = Pushed(q, es)
      BY <1>6, <1>8 DEF ViewInv, ViewType
    <2>2. QueueMax \in Nat \ {0} /\ n \in Nat /\ n + 1 <= QueueMax
      BY <1>0
    <2>3. es \in Seq(E) /\ Len(es) = n + 1
      BY <1>5
    <2> HIDE DEF q, es, E, n
    <2>4. /\ p \in Seq(E) /\ Len(p) \in Nat /\ n + 1 <= Len(p) /\ DOMAIN p = 1..Len(p)
          /\ \A m \in 0..n : p[Len(p) - m] = es[n + 1 - m]
      <3> HIDE DEF p
      <3>1. /\ Pushed(q, es) \in Seq(E)
            /\ Len(Pushed(q, es)) \in Nat /\ n + 1 <= Len(Pushed(q, es))
            /\ DOMAIN Pushed(q, es) = 1..Len(Pushed(q, es))
            /\ \A m \in 0..n : Pushed(q, es)[Len(Pushed(q, es)) - m] = es[n + 1 - m]
        <4>1. q \in Seq(E) /\ es \in Seq(E) /\ Len(es) = n + 1
          BY <2>1, <2>3
        <4>2. /\ Pushed(q, es) \in Seq(E)
              /\ Len(Pushed(q, es)) \in Nat /\ n + 1 <= Len(Pushed(q, es))
          BY <2>2, <4>1, PushedFits
        <4>3. DOMAIN Pushed(q, es) = 1..Len(Pushed(q, es))
          BY <4>2
        <4>4. ASSUME NEW m \in 0..n
              PROVE  Pushed(q, es)[Len(Pushed(q, es)) - m] = es[n + 1 - m]
          BY SMTT(40), <2>2, <4>1, PushedFits
        <4> QED BY <4>2, <4>3, <4>4, Zenon
      <3>2. p = Pushed(q, es)
        BY <2>1
      <3> QED BY <3>1, <3>2, Zenon
    <2> HIDE DEF p
    <2>5. p # <<>> /\ p[Len(p)] = Sentinel
      <3>1. 0 \in 0..n /\ Len(p) - 0 = Len(p) /\ n + 1 - 0 = n + 1
        BY <2>2, <2>4
      <3>2. p # <<>>
        BY <2>2, <2>4
      <3> QED BY <1>5, <2>4, <3>1, <3>2
    <2>6. \A m \in 1..n : p[Len(p) - m] = Bye(o[n + 1 - m])
      <3> SUFFICES ASSUME NEW m \in 1..n PROVE p[Len(p) - m] = Bye(o[n + 1 - m])
        OBVIOUS
      <3>1. m \in 0..n /\ n + 1 - m \in 1..n
        BY <2>2
      <3>2. es[n + 1 - m] = Bye(o[n + 1 - m])
        BY <1>5, <3>1
      <3> QED BY <2>4, <3>1, <3>2
    <2>7. ASSUME NEW s \in Fleet
          PROVE  \E i \in DOMAIN p : p[i] = Bye(s) /\ \A j \in (i + 1)..Len(p) : p[j].sat # s
      <3>1. PICK r \in 1..n : o[r] = s
        BY <1>4
      <3>2. /\ \A j \in 1..n : o[j] \in Fleet
            /\ \A j, k \in 1..n : o[j] = o[k] => j = k
        BY <1>4
      <3>3. Nobody \notin Fleet
        BY <1>4
      <3>4. \E i \in 1..Len(p) :
                p[i] = Bye(o[r]) /\ \A j \in (i + 1)..Len(p) : p[j].sat # o[r]
        <4> DEFINE L == Len(p)
        <4>1. /\ L \in Nat /\ n \in Nat /\ n + 1 <= L
              /\ p[L] = Sentinel /\ \A m \in 1..n : p[L - m] = Bye(o[n + 1 - m])
          BY <2>2, <2>4, <2>5, <2>6
        <4> HIDE DEF L
        <4>2. HasTheLastWord(p, L, o[r])
          <5>1. \A m \in 1..n : p[L - m] = Bye(o[n + 1 - m])
            BY <4>1
          <5>2. p[L] = Sentinel /\ L \in Nat /\ n \in Nat /\ n + 1 <= L
            BY <4>1
          <5>3. \A j \in 1..n : o[j] # Nobody
            BY <3>2, <3>3
          <5>4. EndsWithByes(p, L, o, n)
            <6>1. \A j, k \in 1..n : o[j] = o[k] => j = k
              BY <3>2
            <6>2. L \in Nat /\ n \in Nat /\ n + 1 <= L
              BY <5>2
            <6>3. p[L] = Sentinel
              BY <5>2
            <6> QED BY <5>1, <5>3, <6>1, <6>2, <6>3, Zenon DEF EndsWithByes
          <5> QED BY <5>4, ByesAtTheEnd, Zenon
        <4> QED BY <4>2, Zenon DEF L, HasTheLastWord
      <3> QED BY <2>4, <3>1, <3>4
    <2> QED BY <2>5, <2>7 DEF p, Last
  <1>9. RoundsInOrder'
    BY <1>2 DEF RoundsInOrder
  <1>10. FarewellIsComplete'
    BY <1>2, <1>3, <1>8 DEF FarewellIsComplete
  <1>11. FullOfFarewells'
    <2> SUFFICES ASSUME NEW v \in Viewers, viewers[v] = "streaming", NEW s \in Fleet
                 PROVE  \E i \in DOMAIN queues'[v] : queues'[v][i].sat = s
      BY <1>2, <1>3 DEF FullOfFarewells
    <2>1. \A t : Bye(t).sat = t
      BY <1>4, EventParts
    <2> QED BY <1>8, <2>1
  <1> QED BY <1>7, <1>9, <1>10, <1>11 DEF ViewInv

-----------------------------------------------------------------------------
\* A viewer connects while the bridge runs: its queue is empty.
LEMMA HandleStreamKeeps ==
    ASSUME ViewInv, NEW u \in Viewers, HandleStream(u)
    PROVE  ViewInv'
  <1>1. /\ UNCHANGED <<roster, turn, phase>> /\ phase = "running"
        /\ viewers' = [viewers EXCEPT ![u] = "streaming"]
        /\ queues' = [queues EXCEPT ![u] = <<>>]
        /\ last' = [last EXCEPT ![u] = [s \in Fleet |-> "none"]]
    BY DEF HandleStream, publishers
  <1>2. /\ Fleet' = Fleet /\ QueueMax' = QueueMax /\ Constellations' = Constellations
        /\ \A i : Len(roster'[i].sats) = Len(roster[i].sats)
    BY <1>1, SameConfiguration
  <1>3. /\ viewers \in [Viewers -> {"away", "streaming"}]
        /\ queues \in [Viewers -> Seq(EventsOf(Fleet))]
        /\ last \in [Viewers -> [Fleet -> {"none", "state", "bye"}]]
        /\ \A v \in Viewers : Len(queues[v]) <= QueueMax
    BY DEF ViewInv, ViewType
  <1>4. \A v \in Viewers : queues'[v] = IF v = u THEN <<>> ELSE queues[v]
    BY <1>1, <1>3
  <1>5. ViewType'
    <2>1. viewers' \in [Viewers -> {"away", "streaming"}]
      BY <1>1, <1>3
    <2>2. queues' \in [Viewers -> Seq(EventsOf(Fleet))]
      BY <1>1, <1>3
    <2>3. last' \in [Viewers -> [Fleet -> {"none", "state", "bye"}]]
      BY <1>1, <1>3
    <2>4. \A v \in Viewers : Len(queues'[v]) <= QueueMax
      <3>1. QueueMax \in Nat
        BY FleetSizes DEF ViewInv, ViewType
      <3> QED BY <1>3, <1>4, <3>1
    <2> QED BY <1>1, <1>2, <2>1, <2>2, <2>3, <2>4 DEF ViewInv, ViewType
  <1>6. RoundsInOrder'
    <2> SUFFICES ASSUME NEW k \in Constellations', DOMAIN roster' = {k},
                        NEW v \in Viewers, viewers'[v] = "streaming"
                 PROVE  LatestOf(k, queues[v])'
      BY DEF RoundsInOrder
    <2>1. CASE v = u
      <3>1. queues'[v] = <<>> /\ Len(queues'[v]) = 0
        BY <1>4, <2>1
      <3> QED BY <3>1 DEF LatestOf
    <2>2. CASE v # u
      <3>1. queues'[v] = queues[v] /\ viewers[v] = "streaming" /\ k \in Constellations
            /\ DOMAIN roster = {k}
        BY <1>1, <1>2, <1>3, <1>4, <2>2
      <3>2. LatestOf(k, queues[v])
        BY <1>1, <3>1 DEF ViewInv, RoundsInOrder
      <3> QED BY <1>1, <3>1, <3>2 DEF LatestOf
    <2> QED BY <2>1, <2>2
  <1> QED BY <1>1, <1>5, <1>6 DEF ViewInv, FarewellIsComplete, FullOfFarewells

\* A viewer leaves: nothing is asked of its queue then.
LEMMA StreamEndsKeeps ==
    ASSUME ViewInv, NEW u \in Viewers, StreamEnds(u)
    PROVE  ViewInv'
  <1>1. /\ UNCHANGED <<roster, turn, phase, last>>
        /\ viewers' = [viewers EXCEPT ![u] = "away"]
        /\ queues' = [queues EXCEPT ![u] = <<>>]
    BY DEF StreamEnds, publishers
  <1>2. /\ Fleet' = Fleet /\ QueueMax' = QueueMax /\ Constellations' = Constellations
        /\ \A i : Len(roster'[i].sats) = Len(roster[i].sats)
    BY <1>1, SameConfiguration
  <1>3. /\ viewers \in [Viewers -> {"away", "streaming"}]
        /\ queues \in [Viewers -> Seq(EventsOf(Fleet))]
        /\ \A v \in Viewers : Len(queues[v]) <= QueueMax
    BY DEF ViewInv, ViewType
  <1>4. /\ \A v \in Viewers : queues'[v] = IF v = u THEN <<>> ELSE queues[v]
        /\ \A v \in Viewers : viewers'[v] = "streaming" =>
               v # u /\ viewers[v] = "streaming" /\ queues'[v] = queues[v]
    BY <1>1, <1>3
  <1>5. ViewType'
    <2>1. viewers' \in [Viewers -> {"away", "streaming"}]
      BY <1>1, <1>3
    <2>2. queues' \in [Viewers -> Seq(EventsOf(Fleet))]
      BY <1>1, <1>3
    <2>3. \A v \in Viewers : Len(queues'[v]) <= QueueMax
      <3>1. QueueMax \in Nat
        BY FleetSizes DEF ViewInv, ViewType
      <3> QED BY <1>3, <1>4, <3>1
    <2> QED BY <1>1, <1>2, <2>1, <2>2, <2>3 DEF ViewInv, ViewType
  <1>6. RoundsInOrder'
    BY <1>1, <1>2, <1>4 DEF ViewInv, RoundsInOrder, LatestOf
  <1>7. FarewellIsComplete'
    BY <1>1, <1>2, <1>4 DEF ViewInv, FarewellIsComplete
  <1>8. FullOfFarewells'
    BY <1>1, <1>2, <1>4 DEF ViewInv, FullOfFarewells
  <1> QED BY <1>5, <1>6, <1>7, <1>8 DEF ViewInv

\* What is left of a queue when its first element is taken.
LEMMA Rest ==
    ASSUME NEW E, NEW q \in Seq(E), q # <<>>
    PROVE  /\ Tail(q) \in Seq(E) /\ Len(Tail(q)) = Len(q) - 1
           /\ Len(q) \in Nat \ {0} /\ Head(q) = q[1] /\ q[1] \in E
           /\ \A i \in 1..(Len(q) - 1) : Tail(q)[i] = q[i + 1]
  OBVIOUS

\* A viewer takes its next event.
LEMMA ViewerTakesKeeps ==
    ASSUME ViewInv, NEW u \in Viewers, ViewerTakes(u)
    PROVE  ViewInv'
  <1> DEFINE q == queues[u]
             e == Head(q)
             E == EventsOf(Fleet)
  <1>1. /\ UNCHANGED <<roster, turn, phase, viewers>> /\ viewers[u] = "streaming"
        /\ q # <<>> /\ e # Sentinel
        /\ last' = [last EXCEPT ![u][e.sat] = e.event]
        /\ queues' = [queues EXCEPT ![u] = Tail(q)]
    BY DEF ViewerTakes, publishers
  <1>2. /\ Fleet' = Fleet /\ QueueMax' = QueueMax /\ Constellations' = Constellations
        /\ \A i : Len(roster'[i].sats) = Len(roster[i].sats)
    BY <1>1, SameConfiguration
  <1>3. /\ viewers \in [Viewers -> {"away", "streaming"}]
        /\ queues \in [Viewers -> Seq(E)]
        /\ last \in [Viewers -> [Fleet -> {"none", "state", "bye"}]]
        /\ \A v \in Viewers : Len(queues[v]) <= QueueMax
        /\ roster \in Rosters
    BY DEF ViewInv, ViewType
  <1>4. \A v \in Viewers : queues'[v] = IF v = u THEN Tail(q) ELSE queues[v]
    BY <1>1, <1>3
  <1>5. q \in Seq(E)
    BY <1>3
  <1>6. /\ Tail(q) \in Seq(E) /\ Len(Tail(q)) = Len(q) - 1
        /\ Len(q) \in Nat \ {0} /\ e = q[1] /\ e \in E
        /\ \A i \in 1..(Len(q) - 1) : Tail(q)[i] = q[i + 1]
    <2> HIDE DEF q, E
    <2> QED BY <1>1, <1>5, Rest
  <1>7. Nobody \notin Fleet /\ QueueMax \in Nat
    BY <1>3, FleetSizes
  <1>8. e.sat \in Fleet /\ e.event \in {"state", "bye"}
    <2>1. e.sat \in Fleet
      BY <1>1, <1>6, <1>7, EventParts
    <2>2. \E s \in Fleet : e = State(s) \/ e = Bye(s)
      BY <1>1, <1>6, Zenon DEF EventsOf
    <2>3. e.event \in {"state", "bye"}
      BY <1>7, <2>2, EventParts
    <2> QED BY <2>1, <2>3
  <1>9. ViewType'
    <2>1. queues' \in [Viewers -> Seq(E)]
      BY <1>1, <1>3, <1>6
    <2>2. last' \in [Viewers -> [Fleet -> {"none", "state", "bye"}]]
      <3> HIDE DEF e
      <3> QED BY <1>1, <1>3, <1>8
    <2>3. \A v \in Viewers : Len(queues'[v]) <= QueueMax
      <3>1. Len(q) <= QueueMax
        BY <1>3
      <3>2. Len(Tail(q)) <= QueueMax
        <4> HIDE DEF q
        <4> QED BY <1>6, <1>7, <3>1
      <3> QED BY <1>3, <1>4, <3>2
    <2> QED BY <1>1, <1>2, <1>3, <2>1, <2>2, <2>3 DEF ViewInv, ViewType
  <1>10. RoundsInOrder'
    <2>0. SUFFICES ASSUME phase # "down", NEW k \in Constellations, DOMAIN roster = {k},
                          NEW v \in Viewers, viewers[v] = "streaming"
                   PROVE  LatestOf(k, queues[v])'
      BY <1>1, <1>2 DEF RoundsInOrder
    <2> SUFFICES ASSUME NEW d \in 1..Len(roster[k].sats), d <= Len(queues'[v])
                 PROVE  queues'[v][Len(queues'[v]) - d + 1]
                        = State(roster[k].sats[Back(turn[k], d, Len(roster[k].sats))])
      BY <1>1 DEF LatestOf
    <2>1. LatestOf(k, queues[v])
      BY <2>0 DEF ViewInv, RoundsInOrder
    <2>2. CASE v = u
      <3>1. queues'[v] = Tail(q) /\ LatestOf(k, q)
        BY <1>4, <2>1, <2>2
      <3> HIDE DEF q
      <3>2. d \in Nat
        <4>1. k \in DOMAIN roster
          BY DEF Constellations
        <4>2. Len(roster[k].sats) \in Nat
          BY <1>3, <4>1, EntrySizes
        <4> QED BY <4>2
      <3>3. 1 <= d /\ d <= Len(q) - 1
        BY <1>6, <3>1, <3>2
      <3>4. Len(q) - 1 - d + 1 \in 1..(Len(q) - 1) /\ d <= Len(q)
            /\ (Len(q) - 1 - d + 1) + 1 = Len(q) - d + 1
        BY <1>6, <3>2, <3>3
      <3>5. Tail(q)[Len(Tail(q)) - d + 1] = q[Len(q) - d + 1]
        BY <1>6, <3>4
      <3>6. q[Len(q) - d + 1]
            = State(roster[k].sats[Back(turn[k], d, Len(roster[k].sats))])
        BY <3>1, <3>4 DEF LatestOf
      <3> QED BY <3>1, <3>5, <3>6
    <2>3. CASE v # u
      BY <1>4, <2>1, <2>3 DEF LatestOf
    <2> QED BY <2>2, <2>3
  <1>11. FarewellIsComplete'
    <2> SUFFICES ASSUME phase = "down", NEW v \in Viewers, viewers[v] = "streaming"
                 PROVE  /\ queues'[v] # <<>> /\ Last(queues'[v]) = Sentinel
                        /\ \A s \in Fleet :
                               \/ /\ last'[v][s] = "bye"
                                  /\ \A i \in DOMAIN queues'[v] : queues'[v][i].sat # s
                               \/ \E i \in DOMAIN queues'[v] :
                                     /\ queues'[v][i] = Bye(s)
                                     /\ \A j \in (i + 1)..Len(queues'[v]) :
                                            queues'[v][j].sat # s
      BY <1>1, <1>2 DEF FarewellIsComplete
    <2>1. /\ queues[v] # <<>> /\ Last(queues[v]) = Sentinel
          /\ \A s \in Fleet :
                 \/ /\ last[v][s] = "bye"
                    /\ \A i \in DOMAIN queues[v] : queues[v][i].sat # s
                 \/ \E i \in DOMAIN queues[v] :
                       /\ queues[v][i] = Bye(s)
                       /\ \A j \in (i + 1)..Len(queues[v]) : queues[v][j].sat # s
      BY DEF ViewInv, FarewellIsComplete
    <2>2. CASE v # u
      <3>1. queues'[v] = queues[v] /\ last'[v] = last[v]
        BY <1>1, <1>3, <1>4, <2>2
      <3> QED BY <2>1, <3>1
    <2>3. CASE v = u
      <3> DEFINE p == Tail(q)
                 L == Len(q)
      <3>1. queues'[v] = p /\ queues[v] = q
        BY <1>4, <2>3
      <3>2. \A s \in Fleet : last'[v][s] = IF s = e.sat THEN e.event ELSE last[v][s]
        <4> HIDE DEF e
        <4> QED BY <1>1, <1>3, <1>8, <2>3
      <3>3. /\ p \in Seq(E) /\ Len(p) = L - 1 /\ L \in Nat \ {0} /\ e = q[1]
            /\ \A i \in 1..(L - 1) : p[i] = q[i + 1]
        BY <1>6
      <3>4. DOMAIN q = 1..L /\ DOMAIN p = 1..(L - 1)
        BY <1>5, <1>6
      <3>5. q[L] = Sentinel
        BY <2>1, <3>1 DEF Last
      <3> HIDE DEF p, q, L, e, E
      <3>6. L # 1
        BY <1>1, <3>3, <3>5
      <3>7. p # <<>> /\ Last(p) = Sentinel
        <4>1. L - 1 \in 1..(L - 1) /\ (L - 1) + 1 = L
          BY <3>3, <3>6
        <4>2. p[L - 1] = Sentinel
          BY <3>3, <3>5, <4>1
        <4>3. p # <<>>
          BY <3>3, <3>6
        <4> QED BY <3>3, <4>2, <4>3 DEF Last
      <3>8. ASSUME NEW s \in Fleet
            PROVE  \/ last'[v][s] = "bye" /\ \A i \in DOMAIN p : p[i].sat # s
                   \/ \E i \in DOMAIN p :
                         p[i] = Bye(s) /\ \A j \in (i + 1)..Len(p) : p[j].sat # s
        <4>0. Bye(s).sat = s /\ Bye(s).event = "bye"
          BY <1>7, EventParts
        <4>1. CASE last[v][s] = "bye" /\ \A i \in DOMAIN q : q[i].sat # s
          <5>1. 1 \in DOMAIN q
            BY <3>3, <3>4
          <5>2. e.sat # s
            BY <3>3, <4>1, <5>1
          <5>3. \A i \in 1..(L - 1) : p[i] = q[i + 1] /\ i + 1 \in 1..L
            BY <3>3
          <5>4. \A i \in DOMAIN p : p[i].sat # s
            BY <3>4, <4>1, <5>3
          <5> QED BY <3>2, <4>1, <5>2, <5>4
        <4>2. ASSUME NEW i \in DOMAIN q, q[i] = Bye(s), \A j \in (i + 1)..L : q[j].sat # s,
                     i = 1
              PROVE  last'[v][s] = "bye" /\ \A k \in DOMAIN p : p[k].sat # s
          <5>1. last'[v][s] = "bye"
            BY <3>2, <3>3, <4>0, <4>2
          <5>2. \A k \in 1..(L - 1) : p[k] = q[k + 1] /\ k + 1 \in (i + 1)..L
            BY <3>3, <4>2
          <5> QED BY <3>4, <4>2, <5>1, <5>2
        <4>3. ASSUME NEW i \in DOMAIN q, q[i] = Bye(s), \A j \in (i + 1)..L : q[j].sat # s,
                     i # 1
              PROVE  /\ i - 1 \in DOMAIN p /\ p[i - 1] = Bye(s)
                     /\ \A j \in ((i - 1) + 1)..Len(p) : p[j].sat # s
          <5>1. i - 1 \in 1..(L - 1) /\ (i - 1) + 1 = i
            BY <3>3, <3>4, <4>3
          <5>2. p[i - 1] = Bye(s)
            BY <3>3, <4>3, <5>1
          <5>3. \A j \in i..(L - 1) : p[j] = q[j + 1] /\ j + 1 \in (i + 1)..L
            BY <3>3, <5>1
          <5>4. \A j \in ((i - 1) + 1)..Len(p) : p[j].sat # s
            BY <3>3, <4>3, <5>1, <5>3
          <5> QED BY <3>4, <5>1, <5>2, <5>4
        <4>4. CASE \E i \in DOMAIN q :
                      q[i] = Bye(s) /\ \A j \in (i + 1)..L : q[j].sat # s
          BY <4>2, <4>3, <4>4
        <4> QED BY <2>1, <3>1, <4>1, <4>4 DEF L
      <3> QED BY <3>1, <3>7, <3>8
    <2> QED BY <2>2, <2>3
  <1>12. FullOfFarewells'
    <2> SUFFICES ASSUME phase = "down", NEW v \in Viewers, viewers[v] = "streaming",
                        Len(queues'[v]) >= QueueMax
                 PROVE  \A s \in Fleet : \E j \in DOMAIN queues'[v] : queues'[v][j].sat = s
      BY <1>1, <1>2 DEF FullOfFarewells
    <2>1. CASE v = u
      <3>1. Len(Tail(q)) >= QueueMax /\ Len(q) <= QueueMax
        BY <1>3, <1>4, <2>1
      <3> HIDE DEF q
      <3>2. FALSE
        BY <1>6, <1>7, <3>1
      <3> QED BY <3>2
    <2>2. CASE v # u
      BY <1>4, <2>2 DEF ViewInv, FullOfFarewells
    <2> QED BY <2>1, <2>2
  <1> QED BY <1>9, <1>10, <1>11, <1>12 DEF ViewInv

-----------------------------------------------------------------------------
\* Every step keeps the invariant.
LEMMA NextViewInv == ViewInv /\ [ViewerNext]_viewerVars => ViewInv'
  <1> SUFFICES ASSUME ViewInv, [ViewerNext]_viewerVars PROVE ViewInv'
    OBVIOUS
  <1>1. ASSUME NEW i \in Satellites, FeedConnected(i) \/ FeedRests(i) \/ FeedRetries(i)
        PROVE  ViewInv'
    BY <1>1, IdleKeeps DEF FeedConnected, FeedRests, FeedRetries, FeedGoes, streams
  <1>2. ASSUME NEW i \in Satellites, FeedReads(i) PROVE ViewInv'
    BY <1>2, FeedReadsKeeps
  <1>3. ASSUME NEW i \in Constellations, PopulationStep(i) PROVE ViewInv'
    BY <1>3, PopulationKeeps
  <1>4. CASE Stops
    BY <1>4, IdleKeeps DEF Stops, publishers, streams
  <1>5. CASE Shutdown
    BY <1>5, ShutdownKeeps
  <1>6. ASSUME NEW v \in Viewers, HandleStream(v) PROVE ViewInv'
    BY <1>6, HandleStreamKeeps
  <1>7. ASSUME NEW v \in Viewers, ViewerTakes(v) PROVE ViewInv'
    BY <1>7, ViewerTakesKeeps
  <1>8. ASSUME NEW v \in Viewers, StreamEnds(v) PROVE ViewInv'
    BY <1>8, StreamEndsKeeps
  <1>9. CASE UNCHANGED viewerVars
    BY <1>9, IdleKeeps DEF viewerVars, publishers, streams
  <1> QED BY <1>1, <1>2, <1>3, <1>4, <1>5, <1>6, <1>7, <1>8, <1>9 DEF ViewerNext

\* A queue that is as long as the round is holds the whole round.
LEMMA ViewInvKeepsTheFleet == ViewInv => QueuesKeepTheFleet
  <1> SUFFICES ASSUME ViewInv, Satellites = {}, Cardinality(Constellations) = 1,
                      NEW v \in Viewers, viewers[v] = "streaming", Len(queues[v]) >= QueueMax
               PROVE  {queues[v][i].sat : i \in DOMAIN queues[v]} \ {Nobody} = Fleet
    BY DEF ViewInv, QueuesKeepTheFleet, LagKeepsTheFleet
  <1> DEFINE q == queues[v]
  <1>1. roster \in Rosters /\ q \in Seq(EventsOf(Fleet)) /\ Nobody \notin Fleet
    BY FleetSizes DEF ViewInv, ViewType
  <1>2. PICK i : Constellations = {i}
    <2>1. IsFiniteSet(Constellations)
      <3>1. IsFiniteSet(DOMAIN roster)
        BY <1>1, FleetSizes
      <3>2. Constellations \in SUBSET DOMAIN roster
        BY DEF Constellations
      <3> QED BY <3>1, <3>2, FS_Subset
    <2> QED BY <2>1, FS_Singleton
  <1>3. DOMAIN roster = {i} /\ i \in Constellations
    <2>1. \A k \in DOMAIN roster : roster[k].kind \in {"satellite", "constellation"}
      BY <1>1, RosterAssumption
    <2>2. \A k \in DOMAIN roster : k \in Constellations
      BY <2>1 DEF Satellites, Constellations
    <2> QED BY <1>2, <2>2 DEF Constellations
  <1> DEFINE L == Len(roster[i].sats)
  <1>4. /\ L \in Nat \ {0} /\ L <= QueueMax
        /\ \A s \in Fleet : \E j \in 1..L : roster[i].sats[j] = s
        /\ turn[i] \in 1..L
    BY <1>1, <1>3, EntrySizes DEF ViewInv, ViewType
  <1>5. Len(q) \in Nat /\ DOMAIN q = 1..Len(q) /\ L <= Len(q)
    <2>1. Len(q) \in Nat /\ DOMAIN q = 1..Len(q)
      BY <1>1
    <2>2. QueueMax \in Nat
      BY <1>1, FleetSizes
    <2>3. Len(q) >= QueueMax
      OBVIOUS
    <2> HIDE DEF q, L
    <2> QED BY <1>4, <2>1, <2>2, <2>3
  <1>6. \A k \in DOMAIN q : q[k].sat \in Fleet \cup {Nobody}
    <2>1. \A k \in DOMAIN q : q[k] \in EventsOf(Fleet)
      BY <1>1
    <2> HIDE DEF q
    <2> QED BY <1>1, <2>1, EventParts
  <1>7. ASSUME NEW s \in Fleet PROVE \E k \in DOMAIN q : q[k].sat = s
    <2>1. CASE phase = "down"
      BY <2>1 DEF ViewInv, FullOfFarewells
    <2>2. CASE phase # "down"
      <3>1. PICK j \in 1..L : roster[i].sats[j] = s
        BY <1>4
      <3>2. PICK d \in 1..L : Back(turn[i], d, L) = j
        <4> HIDE DEF L
        <4> QED BY <1>4, Rounds
      <3>3. LatestOf(i, q)
        BY <1>3, <2>2 DEF ViewInv, RoundsInOrder
      <3>4. d <= Len(q) /\ Len(q) - d + 1 \in 1..Len(q)
        <4> HIDE DEF L, q
        <4> QED BY <1>4, <1>5
      <3>5. q[Len(q) - d + 1] = State(s)
        BY <3>1, <3>2, <3>3, <3>4 DEF LatestOf
      <3>6. State(s).sat = s
        BY <1>1, EventParts
      <3> QED BY <1>5, <3>4, <3>5, <3>6
    <2> QED BY <2>1, <2>2
  <1> QED BY <1>1, <1>6, <1>7

\* The bounded queue of a viewer drops its oldest events and still loses no
\* satellite: the farewell of every satellite reaches it, and a full queue of
\* a population holds the state of every satellite (ViewerBridge._broadcast,
\* ViewerBridge.shutdown), for every size of the fleet and of the queue.
THEOREM FleetIsKept == ViewerSpec => []QueuesKeepTheFleet
  <1>1. ViewerInit => ViewInv
    BY InitViewInv
  <1>2. ViewInv /\ [ViewerNext]_viewerVars => ViewInv'
    BY NextViewInv
  <1>3. ViewInv => QueuesKeepTheFleet
    BY ViewInvKeepsTheFleet
  <1> QED BY <1>1, <1>2, <1>3, PTL DEF ViewerSpec

-----------------------------------------------------------------------------
(***************************************************************************)
(* The exerciser, the codec of both ends and the verdicts of both.         *)
(***************************************************************************)
\* Rounding: it keeps the order, does not change what is rounded, and moves
\* nothing by a step.
LEMMA Rounding ==
    /\ \A n \in Int : F32(n) \in Int /\ F32(F32(n)) = F32(n) /\ F32(n) <= n
    /\ \A m, n \in Int : m <= n => F32(m) <= F32(n)
    /\ \A m, n \in Int : m + 2 <= n => F32(m) < F32(n)
  BY DEF F32

\* A margin is at least one step of the type.
LEMMA Margins ==
    ASSUME NEW p, NEW n \in Int
    PROVE  /\ Margin(p, n) \in Int /\ Margin(p, n) >= 1
           /\ p.type \notin Integer => Margin(p, n) >= 2
  <1>1. Half(n) \in Int
    BY DEF Half
  <1> QED BY <1>1 DEF Margin

\* On the wire a number is a number, in the order of before; a number once
\* on the wire stays.
LEMMA WireNumbers ==
    ASSUME NEW p
    PROVE  /\ \A n \in Int : AsOnWire(p, n) \in Int /\ AsOnWire(p, AsOnWire(p, n)) = AsOnWire(p, n)
           /\ \A m, n \in Int : m <= n => AsOnWire(p, m) <= AsOnWire(p, n)
  BY Rounding DEF AsOnWire

\* What a field can carry at all: a text, or a number.
Carries(p, v) == IsValue(v) /\ ((p.type \in Texts /\ p.enum = <<>>) \/ v.word = "")

\* What a sound parameter declares.
LEMMA SoundParameter ==
    ASSUME NEW p, ParameterSound(p)
    PROVE  /\ p.min \in Seq(Int) /\ p.max \in Seq(Int)
           /\ Range(p.min) \subseteq Int /\ Range(p.max) \subseteq Int
           /\ \A m, n \in Range(p.min) : m = n
           /\ \A m, n \in Range(p.max) : m = n
           /\ \A lo \in Range(p.min), hi \in Range(p.max) : lo <= hi
           /\ p.type \in Integer => /\ WireLo(p) \in Int /\ WireHi(p) \in Int
                                    /\ WireLo(p) <= 0 /\ 0 <= WireHi(p)
           /\ p.enum # <<>> => /\ p.type \in Integer /\ p.type \notin Texts
                               /\ Raws(p) \subseteq WireLo(p)..WireHi(p)
  <1>1. p.min \in Seq(Int) /\ p.max \in Seq(Int) /\ Len(p.min) <= 1 /\ Len(p.max) <= 1
    BY DEF ParameterSound
  <1>2. \A s \in Seq(Int) : Len(s) <= 1 =>
            Range(s) \subseteq Int /\ \A m, n \in Range(s) : m = n
    <2> SUFFICES ASSUME NEW s \in Seq(Int), Len(s) <= 1
                 PROVE  Range(s) \subseteq Int /\ \A m, n \in Range(s) : m = n
      OBVIOUS
    <2>1. DOMAIN s = 1..Len(s) /\ Len(s) \in Nat
      OBVIOUS
    <2>2. \A i \in DOMAIN s : i = 1 /\ s[i] \in Int
      BY <2>1
    <2> QED BY <2>2 DEF Range
  <1>3. p.type \in Integer => /\ WireLo(p) \in Int /\ WireHi(p) \in Int
                              /\ WireLo(p) <= 0 /\ 0 <= WireHi(p)
    <2>1. p.type \in Integer => 2^(p.bits - 1) \in Nat \ {0} /\ 2^p.bits \in Nat \ {0}
      BY DEF ParameterSound
    <2> QED BY <2>1 DEF WireLo, WireHi
  <1>4. p.enum # <<>> => /\ p.type \in Integer /\ p.type \notin Texts
                         /\ Raws(p) \subseteq WireLo(p)..WireHi(p)
    BY DEF ParameterSound, Integer, Texts
  <1> QED BY <1>1, <1>2, <1>3, <1>4 DEF ParameterSound

\* An enumeration: each raw value has a label, and each label its raw value.
LEMMA Labels ==
    ASSUME NEW p, ParameterSound(p)
    PROVE  /\ \A n \in Raws(p) : /\ LabelFor(p, n).word \in LabelsOf(p) /\ LabelFor(p, n).word # ""
           /\ \A n : n \notin Raws(p) => LabelFor(p, n) = Bare(n)
           /\ \A l \in LabelsOf(p) : l # "" /\ RawOf(p, l) \in Raws(p)
           /\ p.enum = <<>> => LabelsOf(p) = {}
           /\ p.enum # <<>> => Raws(p) # {}
           /\ \A i \in DOMAIN p.enum : p.enum[i][1] \in LabelsOf(p)
  <1> DEFINE S == LabelsOf(p) \X Int
  <1>1. p.enum \in Seq(S) /\ "" \notin LabelsOf(p)
    BY DEF ParameterSound
  <1> HIDE DEF S
  <1>2. Len(p.enum) \in Nat /\ DOMAIN p.enum = 1..Len(p.enum)
        /\ \A i \in DOMAIN p.enum : p.enum[i] \in S
    BY <1>1, LenProperties, ElementOfSeq
  <1>3. ASSUME NEW i \in DOMAIN p.enum
        PROVE  /\ p.enum[i] = <<p.enum[i][1], p.enum[i][2]>> /\ p.enum[i] \in Range(p.enum)
               /\ p.enum[i][1] # "" /\ p.enum[i][1] \in LabelsOf(p) /\ p.enum[i][2] \in Raws(p)
              
    <2>2. PICK l \in LabelsOf(p), n \in Int : p.enum[i] = <<l, n>>
      BY <1>2 DEF S
    <2>3. p.enum[i][1] = l /\ p.enum[i][2] = n
      BY <2>2
    <2>4. p.enum[i] \in Range(p.enum)
      BY DEF Range
    <2>5. p.enum[i][1] \in LabelsOf(p)
      BY <2>4 DEF LabelsOf
    <2>6. p.enum[i][2] \in Raws(p)
      BY <2>4 DEF Raws
    <2> QED BY <1>1, <2>2, <2>3, <2>4, <2>5, <2>6
  <1>4. ASSUME NEW e \in Range(p.enum) PROVE \E i \in DOMAIN p.enum : e = p.enum[i]
    BY DEF Range
  <1>5. ASSUME NEW n \in Raws(p) PROVE LabelFor(p, n).word \in LabelsOf(p) /\ LabelFor(p, n).word # ""
    <2> DEFINE at == {i \in DOMAIN p.enum : p.enum[i][2] = n}
    <2>1. at # {} /\ at \in SUBSET Nat
      <3>1. PICK e \in Range(p.enum) : e[2] = n
        BY DEF Raws
      <3>2. PICK i \in DOMAIN p.enum : e = p.enum[i]
        BY <1>4
      <3>3. DOMAIN p.enum \subseteq Nat
        BY <1>2
      <3> QED BY <3>1, <3>2, <3>3
    <2>2. Min(at) \in at
      <3> HIDE DEF at
      <3> QED BY <2>1, LeastOf
    <2>3. LabelFor(p, n) = Word(p.enum[Min(at)][1])
      BY <2>1 DEF LabelFor
    <2>4. Min(at) \in DOMAIN p.enum
      BY <2>2
    <2>5. Word(p.enum[Min(at)][1]).word = p.enum[Min(at)][1]
      BY DEF Word
    <2> HIDE DEF at
    <2> QED BY <2>3, <2>4, <2>5, <1>3
  <1>6. ASSUME NEW n, n \notin Raws(p) PROVE LabelFor(p, n) = Bare(n)
    BY <1>3, <1>6 DEF LabelFor
  <1>7. ASSUME NEW l \in LabelsOf(p) PROVE l # "" /\ RawOf(p, l) \in Raws(p)
    <2>1. PICK i \in DOMAIN p.enum : l = p.enum[i][1]
      BY <1>4 DEF LabelsOf
    <2>2. p.enum[i][2] \in Raws(p) /\ <<l, p.enum[i][2]>> \in Range(p.enum)
      BY <2>1, <1>3
    <2> QED BY <1>3, <2>1, <2>2 DEF RawOf
  <1>8. p.enum = <<>> => LabelsOf(p) = {}
    BY <1>2, <1>4 DEF LabelsOf
  <1>9. p.enum # <<>> => Raws(p) # {}
    <2>1. p.enum # <<>> => 1 \in DOMAIN p.enum
      <3>1. Len(p.enum) = 0 => p.enum = <<>>
        BY <1>1, EmptySeq
      <3> QED BY <3>1, <1>2
    <2> QED BY <2>1, <1>3
  <1> QED BY <1>3, <1>5, <1>6, <1>7, <1>8, <1>9

\* Any field can carry a number.
LEMMA NumberIsCarried ==
    ASSUME NEW p, NEW n \in Int
    PROVE  Carries(p, Bare(n)) /\ Bare(n).word = "" /\ Bare(n).num = n
  <1>1. Bare(n).word = "" /\ Bare(n).num = n
    BY DEF Bare
  <1>2. DOMAIN Bare(n) = {"word", "num"}
    BY DEF Bare
  <1> QED BY <1>1, <1>2 DEF Carries, IsValue

\* What the ground makes of an argument is nothing, or fit for the field.
LEMMA CoercedIsCarried ==
    ASSUME NEW p, ParameterSound(p), NEW v, IsValue(v)
    PROVE  Coerced(p, v) = Nothing \/ Carries(p, Coerced(p, v))
  <1>1. \A t \in DOMAIN Spellings : Spellings[t] \in Int
    BY SurfaceAssumption
  <1>2. \A l \in LabelsOf(p) : RawOf(p, l) \in Int
    <2>1. CASE p.enum = <<>>
      BY <2>1, Labels
    <2>2. CASE p.enum # <<>>
      <3>1. WireLo(p) \in Int /\ WireHi(p) \in Int /\ Raws(p) \subseteq WireLo(p)..WireHi(p)
        BY <2>2, SoundParameter
      <3>2. Raws(p) \subseteq Int
        BY <3>1
      <3> QED BY <3>2, Labels
    <2> QED BY <2>1, <2>2
  <1>3. \A n \in Int : Carries(p, Bare(n))
    BY NumberIsCarried
  <1>4. v.word = "" => Carries(p, v)
    BY DEF Carries
  <1>5. p.type \in Texts /\ p.enum = <<>> => Carries(p, v)
    BY DEF Carries
  <1> QED BY <1>1, <1>2, <1>3, <1>4, <1>5 DEF Coerced

\* What is missing is zero.
LEMMA ZeroIsCarried ==
    ASSUME NEW p, ParameterSound(p)
    PROVE  Carries(p, Zero(p))
  <1>1. Zero(p) = Bare(0)
    BY DEF Zero, Bare, Word
  <1>2. 0 \in Int
    OBVIOUS
  <1>3. Carries(p, Bare(0))
    BY <1>2, NumberIsCarried, Zenon
  <1> QED BY <1>1, <1>3

\* An argument that was refused is none.
LEMMA NothingIsNoValue == ~IsValue(Nothing)
  <1>1. DOMAIN Nothing = {"none"}
    BY DEF Nothing
  <1>2. {"none"} # {"word", "num"}
    OBVIOUS
  <1> QED BY <1>1, <1>2 DEF IsValue

\* What the field carries over, and what the vehicle reads there.
OnWire(p, v) == IF v.word # "" THEN v ELSE Bare(AsOnWire(p, v.num))
ReadBack(p, w) == IF p.enum # <<>> THEN LabelFor(p, w.num) ELSE w

(***************************************************************************)
(* Both ends judge an argument alike: the ground what the operator means,  *)
(* the vehicle what the wire kept of it.                                   *)
(***************************************************************************)
LEMMA ArgumentsAgree ==
    ASSUME NEW p, ParameterSound(p), NEW v, Carries(p, v)
    PROVE  Violates(p, ReadBack(p, OnWire(p, v))) <=> Violates(p, v)
  <1>1. IsValue(v) /\ v.num \in Int
    BY DEF Carries, IsValue
  <1>2. CASE p.enum # <<>>
    <2>1. v.word = "" /\ p.type \in Integer
      BY <1>2 , SoundParameter DEF Carries
    <2>2. OnWire(p, v).num = v.num
      BY <2>1 DEF OnWire, AsOnWire, Bare, Integer
    <2>3. Violates(p, v) <=> v.num \notin Raws(p)
      BY <1>2, <2>1 DEF Violates
    <2>4. ReadBack(p, OnWire(p, v)) = LabelFor(p, v.num)
      BY <1>2, <2>2 DEF ReadBack
    <2>5. CASE v.num \in Raws(p)
      BY <1>2, <2>3, <2>4, <2>5, Labels DEF Violates
    <2>6. CASE v.num \notin Raws(p)
      <3>1. LabelFor(p, v.num) = Bare(v.num)
        BY <2>6, Labels
      <3>2. Bare(v.num).word = "" /\ Bare(v.num).num = v.num
        BY <1>1, NumberIsCarried
      <3> QED BY <1>2, <2>3, <2>4, <2>6, <3>1, <3>2 DEF Violates
    <2> QED BY <2>5, <2>6
  <1>3. CASE p.enum = <<>> /\ p.type \in Texts
    BY <1>3 DEF Violates
  <1>4. CASE p.enum = <<>> /\ p.type \notin Texts
    <2>1. v.word = ""
      BY <1>4 DEF Carries
    <2>2. OnWire(p, v) = Bare(AsOnWire(p, v.num)) /\ ReadBack(p, OnWire(p, v)) = OnWire(p, v)
      BY <1>4, <2>1 DEF OnWire, ReadBack
    <2>3. AsOnWire(p, v.num) \in Int
          /\ AsOnWire(p, AsOnWire(p, v.num)) = AsOnWire(p, v.num)
      BY <1>1, WireNumbers
    <2>4. Bare(AsOnWire(p, v.num)).word = "" /\ Bare(AsOnWire(p, v.num)).num = AsOnWire(p, v.num)
      BY <2>3, NumberIsCarried
    <2> QED BY <1>4, <2>1, <2>2, <2>3, <2>4 DEF Violates
  <1> QED BY <1>2, <1>3, <1>4

\* What the files of a satellite declare of a command.
SoundCommand(c) ==
    /\ c.params \in Seq(Range(c.params))
    /\ \A i, j \in DOMAIN c.params : c.params[i].name = c.params[j].name => i = j
    /\ \A p \in Range(c.params) : ParameterSound(p)

\* What the ground takes an argument for, whether a command can be sent with
\* such arguments at all, and whether an end has something against them.
Taken(args, p) == IF p.name \in DOMAIN args THEN Coerced(p, args[p.name]) ELSE Zero(p)
Sendable(c, args) ==
    /\ DOMAIN args \subseteq Names(c)
    /\ \A p \in Range(c.params) : Taken(args, p) # Nothing /\ Packs(p, Taken(args, p))
Objects(c, args) == \E p \in Range(c.params) : Violates(p, Taken(args, p))

\* The ground sends what can be sent and, if it is asked to check, nothing to
\* which it objects; the wire carries each argument.
LEMMA EncodedIs ==
    ASSUME NEW c, NEW args, NEW validate \in BOOLEAN
    PROVE  LET e == Encode(c, args, validate)
           IN  /\ e.sent <=> Sendable(c, args) /\ (validate => ~Objects(c, args))
               /\ e.sent \in BOOLEAN
               /\ e.sent => e.wire = [p \in Range(c.params) |-> OnWire(p, Taken(args, p))]
  <1> DEFINE P == Range(c.params)
             value == [p \in P |-> Taken(args, p)]
             refused == \/ ~(DOMAIN args \subseteq Names(c))
                        \/ \E p \in P : value[p] = Nothing
                        \/ validate /\ \E p \in P : Violates(p, value[p])
                        \/ \E p \in P : ~Packs(p, value[p])
             wire == [p \in P |-> IF value[p].word # "" THEN value[p]
                                  ELSE Bare(AsOnWire(p, value[p].num))]
  <1>1. Encode(c, args, validate) = IF refused THEN [sent |-> FALSE, wire |-> <<>>]
                                    ELSE [sent |-> TRUE, wire |-> wire]
    BY DEF Encode, Names, Taken
  <1>2. wire = [p \in P |-> OnWire(p, Taken(args, p))]
    BY DEF OnWire
  <1>3. refused <=> ~(Sendable(c, args) /\ (validate => ~Objects(c, args)))
    BY DEF Sendable, Objects
  <1> HIDE DEF refused, wire
  <1>4. CASE refused
    BY <1>1, <1>3, <1>4
  <1>5. CASE ~refused
    BY <1>1, <1>2, <1>3, <1>5
  <1> QED BY <1>4, <1>5

\* What an operator types, or the exerciser picks.
Arguments(args) == \A n \in DOMAIN args : IsValue(args[n])

\* What can be sent is carried.
LEMMA TakenIsCarried ==
    ASSUME NEW c, SoundCommand(c), NEW args, Arguments(args), NEW p \in Range(c.params),
           Taken(args, p) # Nothing
    PROVE  Carries(p, Taken(args, p))
  <1>1. ParameterSound(p)
    BY DEF SoundCommand
  <1>2. CASE p.name \in DOMAIN args
    <2>1. IsValue(args[p.name]) /\ Taken(args, p) = Coerced(p, args[p.name])
      BY <1>2 DEF Arguments, Taken
    <2> QED BY <1>1, <2>1, CoercedIsCarried
  <1>3. CASE p.name \notin DOMAIN args
    BY <1>1, <1>3, ZeroIsCarried DEF Taken
  <1> QED BY <1>2, <1>3

(***************************************************************************)
(* The vehicle objects to what it received if and only if the ground       *)
(* objects to what it sends.                                               *)
(***************************************************************************)
LEMMA VehicleObjects ==
    ASSUME NEW c, SoundCommand(c), NEW args, Arguments(args), Sendable(c, args),
           NEW wire, wire = [p \in Range(c.params) |-> OnWire(p, Taken(args, p))]
    PROVE  Verdict(c, wire) = IF Objects(c, args) THEN "REJECTED" ELSE "EXECUTED"
  <1>1. ASSUME NEW p \in Range(c.params)
        PROVE  Violates(p, ReadBack(p, wire[p])) <=> Violates(p, Taken(args, p))
    <2>1. Taken(args, p) # Nothing /\ ParameterSound(p)
      BY DEF Sendable, SoundCommand
    <2>2. Carries(p, Taken(args, p))
      BY <2>1, TakenIsCarried
    <2>3. wire[p] = OnWire(p, Taken(args, p))
      OBVIOUS
    <2> QED BY <2>1, <2>2, <2>3, ArgumentsAgree
  <1>2. Verdict(c, wire) = IF \E p \in Range(c.params) : Violates(p, ReadBack(p, wire[p]))
                           THEN "REJECTED" ELSE "EXECUTED"
    BY DEF Verdict, ReadBack
  <1> QED BY <1>1, <1>2 DEF Objects

\* What becomes of a send.
LEMMA OutcomeIs ==
    ASSUME NEW c, SoundCommand(c), NEW args, Arguments(args), NEW validate \in BOOLEAN
    PROVE  LET o == Outcome(Send(c, args, validate))
           IN  /\ o.send = Send(c, args, validate) /\ o.send.validate = validate
               /\ o.sent <=> Sendable(c, args) /\ (validate => ~Objects(c, args))
               /\ o.echo = IF ~Sendable(c, args) THEN "unsendable"
                           ELSE IF Objects(c, args) THEN "REJECTED" ELSE "EXECUTED"
  <1> DEFINE s == Send(c, args, validate)
             real == Encode(c, args, validate)
             forced == Encode(c, args, FALSE)
             o == Outcome(s)
  <1>1. s.command = c /\ s.args = args /\ s.validate = validate
    BY DEF Send
  <1> HIDE DEF s
  <1>2. o = [send |-> s, sent |-> real.sent,
             echo |-> IF forced.sent THEN Verdict(c, forced.wire) ELSE "unsendable"]
    BY <1>1 DEF Outcome
  <1> HIDE DEF o
  <1>3. /\ forced.sent <=> Sendable(c, args)
        /\ forced.sent => forced.wire = [p \in Range(c.params) |-> OnWire(p, Taken(args, p))]
    <2>1. /\ forced.sent <=> Sendable(c, args) /\ (FALSE => ~Objects(c, args))
          /\ forced.sent \in BOOLEAN
          /\ forced.sent => forced.wire = [p \in Range(c.params) |-> OnWire(p, Taken(args, p))]
      <3> DEFINE Is(v) == LET e == Encode(c, args, v)
                          IN  /\ e.sent <=> Sendable(c, args) /\ (v => ~Objects(c, args))
                              /\ e.sent \in BOOLEAN
                              /\ e.sent => e.wire = [p \in Range(c.params) |->
                                                       OnWire(p, Taken(args, p))]
      <3>1. \A v \in BOOLEAN : Is(v)
        BY EncodedIs
      <3> HIDE DEF Is
      <3>2. Is(FALSE)
        BY <3>1
      <3> QED BY <3>2 DEF Is
    <2> QED BY <2>1
  <1>4. real.sent <=> Sendable(c, args) /\ (validate => ~Objects(c, args))
    BY EncodedIs
  <1> HIDE DEF real, forced
  <1>5. Sendable(c, args) =>
            Verdict(c, forced.wire) = IF Objects(c, args) THEN "REJECTED" ELSE "EXECUTED"
    BY <1>3, VehicleObjects
  <1>6. /\ o.send = s /\ o.sent = real.sent
        /\ o.echo = IF forced.sent THEN Verdict(c, forced.wire) ELSE "unsendable"
    BY <1>2
  <1>7. o.send.validate = validate /\ o.send = s
        /\ (o.sent <=> Sendable(c, args) /\ (validate => ~Objects(c, args)))
    BY <1>1, <1>4, <1>6
  <1>8. o.echo = IF ~Sendable(c, args) THEN "unsendable"
                 ELSE IF Objects(c, args) THEN "REJECTED" ELSE "EXECUTED"
    BY <1>3, <1>5, <1>6
  <1> QED BY <1>7, <1>8 DEF o, s

\* An argument that a command can be sent with and nobody objects to.
Fits(p, x) ==
    /\ IsValue(x) /\ Coerced(p, x) # Nothing
    /\ Packs(p, Coerced(p, x)) /\ ~Violates(p, Coerced(p, x))

\* A number is taken as it is.
LEMMA NumbersAreTaken ==
    ASSUME NEW p, p.type \notin Texts \/ p.enum # <<>>, NEW n \in Int
    PROVE  IsValue(Bare(n)) /\ Coerced(p, Bare(n)) = Bare(n) /\ Bare(n) # Nothing
  <1>1. Bare(n).word = "" /\ Bare(n).num = n /\ IsValue(Bare(n))
    BY NumberIsCarried DEF Carries
  <1>2. Coerced(p, Bare(n)) = Bare(n)
    BY <1>1 DEF Coerced
  <1> QED BY <1>1, <1>2, NothingIsNoValue

\* A declared bound, as far as the wire goes.
Clamped(p, n) ==
    CASE p.type \in Integer -> Within(n, WireLo(p), WireHi(p))
      [] p.type = "float32" -> Within(n, -Float32Max, Float32Max)
      [] OTHER -> n

\* Nobody objects to it, if the wire goes as far as the range at all.
LEMMA BoundsFit ==
    ASSUME NEW p, ParameterSound(p), p.enum = <<>>, p.type \notin Texts, ~Unsatisfiable(p),
           NEW n \in Range(p.min) \union Range(p.max)
    PROVE  Fits(p, Bare(Clamped(p, n)))
  <1> DEFINE k == Clamped(p, n)
  <1>1. /\ Range(p.min) \subseteq Int /\ Range(p.max) \subseteq Int
        /\ \A x, y \in Range(p.min) : x = y
        /\ \A x, y \in Range(p.max) : x = y
        /\ \A lo \in Range(p.min), hi \in Range(p.max) : lo <= hi
    BY SoundParameter
  <1>2. p.type \in Integer \/ p.type = "float32" \/ p.type = "float64"
    BY DEF ParameterSound, Floats
  <1>3. /\ k \in Int
        /\ \A b \in Range(p.min) : b <= k
        /\ \A b \in Range(p.max) : k <= b
        /\ p.type \in Integer => k \in WireLo(p)..WireHi(p)
        /\ p.type = "float32" => k \in -Float32Max..Float32Max
    <2>1. CASE p.type \in Integer
      <3>1. /\ WireLo(p) \in Int /\ WireHi(p) \in Int
            /\ WireLo(p) <= 0 /\ 0 <= WireHi(p)
        BY <2>1, SoundParameter
      <3>2. /\ \A b \in Range(p.min) : b <= WireHi(p)
            /\ \A b \in Range(p.max) : WireLo(p) <= b
        BY <1>1, <2>1, <3>1 DEF Unsatisfiable
      <3>4. p.type # "float32"
        BY <2>1 DEF Integer
      <3>3. k = Within(n, WireLo(p), WireHi(p)) /\ n \in Int
        BY <1>1, <2>1, <3>4 DEF Clamped
      <3> HIDE DEF k
      <3>5. k \in Int /\ k \in WireLo(p)..WireHi(p)
        BY <3>1, <3>3 DEF Within
      <3>6. CASE n \in Range(p.min)
        <4>1. n <= WireHi(p) /\ n <= k /\ (k = n \/ k = WireLo(p))
          BY <3>1, <3>2, <3>3, <3>6 DEF Within
        <4> QED BY <1>1, <3>1, <3>2, <3>3, <3>4, <3>5, <3>6, <4>1
      <3>7. CASE n \in Range(p.max)
        <4>1. WireLo(p) <= n /\ k <= n /\ (k = n \/ k = WireHi(p))
          BY <3>1, <3>2, <3>3, <3>7 DEF Within
        <4> QED BY <1>1, <3>1, <3>2, <3>3, <3>4, <3>5, <3>7, <4>1
      <3> QED BY <3>6, <3>7
    <2>2. CASE p.type = "float32"
      <3>1. n \in -Float32Max..Float32Max /\ Float32Max \in Nat /\ n \in Int
        BY <1>1, <2>2, SurfaceAssumption DEF ParameterSound
      <3>2. k = n
        BY <2>2, <3>1 DEF Clamped, Integer, Within
      <3> HIDE DEF k
      <3>3. p.type \notin Integer
        BY <2>2 DEF Integer
      <3> QED BY <1>1, <3>1, <3>2, <3>3
    <2>3. CASE p.type = "float64"
      <3>1. k = n /\ p.type \notin Integer /\ p.type # "float32"
        BY <2>3 DEF Clamped, Integer
      <3> HIDE DEF k
      <3> QED BY <1>1, <3>1
    <2> QED BY <1>2, <2>1, <2>2, <2>3
  <1> HIDE DEF k
  <1>4. Coerced(p, Bare(k)) = Bare(k) /\ IsValue(Bare(k)) /\ Bare(k) # Nothing
    BY <1>3, NumbersAreTaken
  <1>5. Bare(k).word = "" /\ Bare(k).num = k
    BY <1>3, NumberIsCarried
  <1>6. Packs(p, Bare(k))
    BY <1>2, <1>3, <1>5 DEF Packs
  <1>7. ~Violates(p, Bare(k))
    <2>1. \A b \in Range(p.min) : AsOnWire(p, b) <= AsOnWire(p, k)
                                   /\ AsOnWire(p, b) \in Int /\ AsOnWire(p, k) \in Int
      BY <1>1, <1>3, WireNumbers
    <2>2. \A b \in Range(p.max) : AsOnWire(p, k) <= AsOnWire(p, b)
                                   /\ AsOnWire(p, b) \in Int /\ AsOnWire(p, k) \in Int
      BY <1>1, <1>3, WireNumbers
    <2>3. /\ \A b \in Range(p.min) : ~(AsOnWire(p, k) < AsOnWire(p, b))
          /\ \A b \in Range(p.max) : ~(AsOnWire(p, k) > AsOnWire(p, b))
      BY <2>1, <2>2
    <2> QED BY <1>5, <2>3 DEF Violates, BoundOnWire
  <1> QED BY <1>4, <1>6, <1>7 DEF Fits, k

\* Nor to any other example.
LEMMA ExamplesFit ==
    ASSUME NEW p, ParameterSound(p), ~Unsatisfiable(p)
    PROVE  /\ ExampleValues(p) \in Seq(Range(ExampleValues(p)))
           /\ Len(ExampleValues(p)) \in Nat \ {0}
           /\ \A x \in Range(ExampleValues(p)) : Fits(p, x)
  <1> DEFINE xs == ExampleValues(p)
  <1>1. CASE p.enum # <<>>
    <2>1. /\ p.type \in Integer /\ p.type \notin Texts
          /\ Raws(p) \subseteq WireLo(p)..WireHi(p)
          /\ WireLo(p) \in Int /\ WireHi(p) \in Int
      BY <1>1, SoundParameter
    <2>2. xs = [i \in 1..Len(p.enum) |-> Word(p.enum[i][1])]
      BY <1>1 DEF ExampleValues
    <2>3. Len(p.enum) \in Nat \ {0} /\ DOMAIN p.enum = 1..Len(p.enum)
      <3>1. p.enum \in Seq(LabelsOf(p) \X Int)
        BY DEF ParameterSound
      <3> QED BY <1>1, <3>1, LenProperties, EmptySeq
    <2>4. ASSUME NEW l \in LabelsOf(p) PROVE Fits(p, Word(l))
      <3>1. Word(l).word = l /\ l # "" /\ RawOf(p, l) \in Raws(p)
        BY Labels DEF Word
      <3>2. Coerced(p, Word(l)) = Bare(RawOf(p, l))
        BY <2>1, <3>1 DEF Coerced
      <3>3. RawOf(p, l) \in WireLo(p)..WireHi(p) /\ RawOf(p, l) \in Int
        <4>1. RawOf(p, l) \in WireLo(p)..WireHi(p)
          BY <2>1, <3>1
        <4> QED BY <2>1, <4>1
      <3>4. Bare(RawOf(p, l)) # Nothing /\ Bare(RawOf(p, l)).num = RawOf(p, l)
            /\ Bare(RawOf(p, l)).word = ""
        BY <1>1, <3>3, NumbersAreTaken, NumberIsCarried
      <3>5. Packs(p, Bare(RawOf(p, l)))
        BY <2>1, <3>3, <3>4 DEF Packs, Integer
      <3>6. ~Violates(p, Bare(RawOf(p, l)))
        BY <1>1, <3>1, <3>4 DEF Violates
      <3>7. IsValue(Word(l))
        BY DEF IsValue, Word
      <3> QED BY <3>2, <3>4, <3>5, <3>6, <3>7 DEF Fits
    <2> HIDE DEF xs
    <2>5. xs \in Seq(Range(xs)) /\ Len(xs) = Len(p.enum)
      BY <2>2, <2>3 DEF Range
    <2>6. ASSUME NEW x \in Range(xs) PROVE Fits(p, x)
      <3>1. PICK i \in 1..Len(p.enum) : x = Word(p.enum[i][1])
        BY <2>2 DEF Range
      <3> QED BY <2>3, <2>4, <3>1, Labels
    <2> QED BY <2>3, <2>5, <2>6 DEF xs
  <1>2. CASE p.enum = <<>> /\ p.type \in Texts
    <2>1. xs = <<Word("T")>>
      BY <1>2 DEF ExampleValues
    <2>2. Fits(p, Word("T"))
      <3>1. Word("T").word = "T" /\ "T" # "" /\ Len("T") <= p.bits
        BY <1>2 DEF Word, ParameterSound
      <3>2. Coerced(p, Word("T")) = Word("T")
        <4> DEFINE v == Word("T")
        <4>1. v.word # "" /\ Len(v.word) <= p.bits
          BY <3>1, Zenon
        <4> HIDE DEF v
        <4>2. Coerced(p, v) = v
          BY <1>2, <4>1 DEF Coerced
        <4> QED BY <4>2 DEF v
      <3>3. IsValue(Word("T"))
        BY DEF IsValue, Word
      <3>4. Packs(p, Word("T")) /\ ~Violates(p, Word("T"))
        BY <1>2 DEF Packs, Violates, Integer, Texts
      <3> QED BY <3>2, <3>3, <3>4, NothingIsNoValue DEF Fits
    <2> HIDE DEF xs
    <2>3. xs \in Seq(Range(xs)) /\ Len(xs) = 1 /\ Range(xs) = {Word("T")}
      BY <2>1 DEF Range
    <2> QED BY <2>2, <2>3 DEF xs
  <1>3. CASE p.enum = <<>> /\ p.type \notin Texts /\ p.min \o p.max = <<>>
    <2>1. xs = <<Bare(0)>>
      BY <1>3 DEF ExampleValues
    <2>2. Range(p.min) = {} /\ Range(p.max) = {}
      <3>1. p.min \in Seq(Int) /\ p.max \in Seq(Int)
        BY SoundParameter
      <3>2. Len(p.min) = 0 /\ Len(p.max) = 0
        BY <1>3, <3>1, ConcatProperties, LenProperties
      <3> QED BY <3>1, <3>2 DEF Range
    <2>3. 0 \in Int
      OBVIOUS
    <2>4. /\ IsValue(Bare(0)) /\ Coerced(p, Bare(0)) = Bare(0) /\ Bare(0) # Nothing
          /\ Bare(0).num = 0 /\ Bare(0).word = ""
      BY <1>3, <2>3, NumbersAreTaken, NumberIsCarried
    <2>5. ~Violates(p, Bare(0))
      BY <1>3, <2>2 DEF Violates
    <2>6. Packs(p, Bare(0))
      <3>1. Float32Max \in Nat
        BY SurfaceAssumption
      <3>2. p.type \in Integer => 0 \in WireLo(p)..WireHi(p)
        BY SoundParameter
      <3>3. 0 \in -Float32Max..Float32Max
        BY <3>1
      <3> QED BY <2>4, <3>2, <3>3 DEF Packs
    <2>7. Fits(p, Bare(0))
      BY <2>4, <2>5, <2>6 DEF Fits
    <2> HIDE DEF xs
    <2>8. xs \in Seq(Range(xs)) /\ Len(xs) = 1 /\ Range(xs) = {Bare(0)}
      BY <2>1 DEF Range
    <2> QED BY <2>7, <2>8 DEF xs
  <1>4. CASE p.enum = <<>> /\ p.type \notin Texts /\ p.min \o p.max # <<>>
    <2> DEFINE b == p.min \o p.max
               all == [i \in 1..Len(b) |-> Bare(Clamped(p, b[i]))]
    <2>1. xs = Deduped(all)
      BY <1>4 DEF ExampleValues, Clamped
    <2>2. /\ Len(b) \in Nat \ {0}
          /\ \A i \in 1..Len(b) : b[i] \in Range(p.min) \union Range(p.max)
      <3>1. p.min \in Seq(Int) /\ p.max \in Seq(Int)
        BY SoundParameter
      <3>2. b \in Seq(Int) /\ Range(b) = Range(p.min) \union Range(p.max) /\ b # <<>>
        BY <1>4, <3>1, ConcatElements
      <3> HIDE DEF b
      <3>3. Len(b) \in Nat /\ Len(b) # 0 /\ DOMAIN b = 1..Len(b)
        BY <3>2, LenProperties, EmptySeq
      <3>4. \A i \in 1..Len(b) : b[i] \in Range(b)
        BY <3>3, RangeIs
      <3> QED BY <3>2, <3>3, <3>4
    <2>3. \A i \in 1..Len(b) : Fits(p, Bare(Clamped(p, b[i])))
      <3> HIDE DEF b
      <3> QED BY <1>4, <2>2, BoundsFit
    <2> HIDE DEF b
    <2>4. /\ Len(all) = Len(b) /\ DOMAIN all = 1..Len(b) /\ all \in Seq(Range(all))
          /\ \A i \in 1..Len(b) : Fits(p, all[i])
      BY <2>2, <2>3 DEF Range
    <2> HIDE DEF all, xs
    <2>5. CASE xs = all
      BY <2>2, <2>4, <2>5 DEF Range, xs
    <2>6. CASE xs = <<all[1]>>
      <3>1. xs \in Seq(Range(xs)) /\ Len(xs) = 1 /\ Range(xs) = {all[1]}
        BY <2>6 DEF Range
      <3>2. Fits(p, all[1])
        BY <2>2, <2>4
      <3> QED BY <3>1, <3>2 DEF xs
    <2> QED BY <2>1, <2>5, <2>6 DEF Deduped
  <1> QED BY <1>1, <1>2, <1>3, <1>4

\* What every field of a numeric type holds, as far as a probe cares.
Low(p) == IF p.type \in Integer THEN WireLo(p) ELSE -Float32Max
High(p) == IF p.type \in Integer THEN WireHi(p) ELSE Float32Max

\* A probe goes beyond one of the two ends, and not beyond that of the wire.
LEMMA BeyondIs ==
    ASSUME NEW p, NEW above, NEW below,
           \A m, n \in above : m = n, \A m, n \in below : m = n,
           Beyond(p, above, below) # Nothing
    PROVE  \/ \E n \in above : /\ Beyond(p, above, below) = Bare(n)
                               /\ p.type = "float64" \/ n <= High(p)
           \/ \E n \in below : /\ Beyond(p, above, below) = Bare(n)
                               /\ p.type = "float64" \/ n >= Low(p)
  <1>1. CASE \E n \in above : p.type = "float64" \/ n <= High(p)
    <2>1. PICK n \in above : p.type = "float64" \/ n <= High(p)
      BY <1>1
    <2>2. (CHOOSE x \in above : TRUE) = n
      BY <2>1
    <2>3. Beyond(p, above, below) = Bare(CHOOSE x \in above : TRUE)
      BY <1>1 DEF Beyond, High
    <2> QED BY <2>1, <2>2, <2>3
  <1>2. CASE ~\E n \in above : p.type = "float64" \/ n <= High(p)
    <2>1. PICK n \in below : p.type = "float64" \/ n >= Low(p)
      BY <1>2 DEF Beyond, High, Low
    <2>2. (CHOOSE x \in below : TRUE) = n
      BY <2>1
    <2>3. Beyond(p, above, below) = Bare(CHOOSE x \in below : TRUE)
      BY <1>2, <2>1 DEF Beyond, High, Low
    <2> QED BY <2>1, <2>2, <2>3
  <1> QED BY <1>1, <1>2

\* An argument that a command can be sent with, unchecked, and that the
\* vehicle objects to.
Offends(p, x) ==
    /\ IsValue(x) /\ Coerced(p, x) # Nothing
    /\ Packs(p, Coerced(p, x)) /\ Violates(p, Coerced(p, x))

\* A number is one if the wire holds it and it is no value of the enumeration,
LEMMA NoLabelOffends ==
    ASSUME NEW p, ParameterSound(p), p.enum # <<>>,
           NEW n \in WireLo(p)..WireHi(p), n \notin Raws(p)
    PROVE  Offends(p, Bare(n))
  <1>1. p.type \in Integer /\ WireLo(p) \in Int /\ WireHi(p) \in Int
    BY SoundParameter
  <1>2. n \in Int
    BY <1>1
  <1>3. /\ IsValue(Bare(n)) /\ Coerced(p, Bare(n)) = Bare(n) /\ Bare(n) # Nothing
        /\ Bare(n).word = "" /\ Bare(n).num = n
    BY <1>2, NumbersAreTaken, NumberIsCarried
  <1> QED BY <1>1, <1>3 DEF Offends, Packs, Violates, Integer

\* or if it is beyond a bound by the margin.
LEMMA BeyondBoundOffends ==
    ASSUME NEW p, ParameterSound(p), p.enum = <<>>, p.type \notin Texts, NEW n \in Int,
           p.type # "float64" => Low(p) <= n /\ n <= High(p),
           \/ \E b \in Range(p.max) : n = b + Margin(p, b)
           \/ \E b \in Range(p.min) : n = b - Margin(p, b)
    PROVE  Offends(p, Bare(n))
  <1>1. /\ IsValue(Bare(n)) /\ Coerced(p, Bare(n)) = Bare(n) /\ Bare(n) # Nothing
        /\ Bare(n).word = "" /\ Bare(n).num = n
    BY NumbersAreTaken, NumberIsCarried
  <1>2. p.type \in Integer \/ p.type = "float32" \/ p.type = "float64"
    BY DEF ParameterSound, Floats
  <1>3. Range(p.min) \subseteq Int /\ Range(p.max) \subseteq Int
    BY SoundParameter
  <1>4. Packs(p, Bare(n))
    <2>1. CASE p.type \in Integer
      <3>1. WireLo(p) \in Int /\ WireHi(p) \in Int /\ p.type # "float32" /\ p.type # "float64"
        BY <2>1, SoundParameter DEF Integer
      <3>2. n \in WireLo(p)..WireHi(p)
        BY <2>1, <3>1 DEF Low, High
      <3> QED BY <1>1, <2>1, <3>1, <3>2 DEF Packs
    <2>2. CASE p.type = "float32"
      <3>1. Float32Max \in Nat /\ p.type \notin Integer
        BY <2>2, SurfaceAssumption DEF Integer
      <3>2. n \in -Float32Max..Float32Max
        BY <2>2, <3>1 DEF Low, High
      <3> QED BY <1>1, <2>2, <3>1, <3>2 DEF Packs
    <2>3. CASE p.type = "float64"
      BY <2>3 DEF Packs, Integer
    <2> QED BY <1>2, <2>1, <2>2, <2>3
  \* The margin is still there on the wire.
  <1>5. ASSUME NEW b \in Int
        PROVE  /\ AsOnWire(p, b) < AsOnWire(p, b + Margin(p, b))
               /\ AsOnWire(p, b - Margin(p, b)) < AsOnWire(p, b)
    <2>1. Margin(p, b) \in Int /\ Margin(p, b) >= 1 /\ (p.type \notin Integer => Margin(p, b) >= 2)
      BY Margins
    <2>2. CASE p.type = "float32"
      <3>1. p.type \notin Integer
        BY <2>2 DEF Integer
      <3>2. /\ b + Margin(p, b) \in Int /\ b - Margin(p, b) \in Int
            /\ b + 2 <= b + Margin(p, b) /\ (b - Margin(p, b)) + 2 <= b
        BY <2>1, <3>1
      <3>3. F32(b) < F32(b + Margin(p, b)) /\ F32(b - Margin(p, b)) < F32(b)
        BY <3>2, Rounding
      <3> QED BY <2>2, <3>3 DEF AsOnWire
    <2>3. CASE p.type # "float32"
      BY <2>1, <2>3 DEF AsOnWire
    <2> QED BY <2>2, <2>3
  <1>6. Violates(p, Bare(n))
    <2>1. \/ \E b \in Range(p.max) : AsOnWire(p, n) > AsOnWire(p, b)
          \/ \E b \in Range(p.min) : AsOnWire(p, n) < AsOnWire(p, b)
      <3>1. \A b \in Int : AsOnWire(p, b) \in Int
        BY WireNumbers
      <3> QED BY <1>3, <1>5, <3>1
    <2> QED BY <1>1, <2>1 DEF Violates, BoundOnWire
  <1> QED BY <1>1, <1>4, <1>6 DEF Offends

\* So is what the exerciser finds.
LEMMA InvalidValueOffends ==
    ASSUME NEW p, ParameterSound(p), ~Unsatisfiable(p), InvalidValue(p) # Nothing
    PROVE  Offends(p, InvalidValue(p))
  <1>1. CASE p.enum # <<>>
    <2> DEFINE R == Raws(p)
               above == {Max(R) + 1}
               below == {Min(R) - 1}
    <2>1. /\ p.type \in Integer /\ WireLo(p) \in Int /\ WireHi(p) \in Int
          /\ R \subseteq WireLo(p)..WireHi(p) /\ R # {}
      BY <1>1, SoundParameter, Labels
    <2> HIDE DEF R
    <2>2. /\ Min(R) \in R /\ \A y \in R : Min(R) <= y
          /\ Max(R) \in R /\ \A y \in R : y <= Max(R)
      BY <2>1, EndsOf
    <2>3. InvalidValue(p) = Beyond(p, above, below)
      BY <1>1 DEF InvalidValue, R
    <2>4. \/ \E n \in above : /\ InvalidValue(p) = Bare(n)
                              /\ p.type = "float64" \/ n <= High(p)
          \/ \E n \in below : /\ InvalidValue(p) = Bare(n)
                              /\ p.type = "float64" \/ n >= Low(p)
      <3>1. (\A m, n \in above : m = n) /\ (\A m, n \in below : m = n)
        OBVIOUS
      <3> HIDE DEF above, below
      <3> QED BY <2>3, <3>1, BeyondIs
    <2>5. High(p) = WireHi(p) /\ Low(p) = WireLo(p) /\ p.type # "float64"
      BY <2>1 DEF High, Low, Integer
    <2>6. PICK n : /\ InvalidValue(p) = Bare(n)
                   /\ \/ n = Max(R) + 1 /\ n <= WireHi(p)
                      \/ n = Min(R) - 1 /\ n >= WireLo(p)
      BY <2>4, <2>5
    <2>7. n \in WireLo(p)..WireHi(p) /\ n \notin R
      <3>1. /\ Min(R) \in Int /\ Max(R) \in Int
            /\ WireLo(p) <= Max(R) /\ Min(R) <= WireHi(p)
        <4>1. Min(R) \in WireLo(p)..WireHi(p) /\ Max(R) \in WireLo(p)..WireHi(p)
          BY <2>1, <2>2
        <4> QED BY <2>1, <4>1
      <3>2. n \in WireLo(p)..WireHi(p)
        BY <2>1, <2>6, <3>1
      <3>3. n \notin R
        BY <2>2, <2>6, <3>1
      <3> QED BY <3>2, <3>3
    <2> QED BY <1>1, <2>6, <2>7, NoLabelOffends DEF R
  <1>2. CASE p.enum = <<>>
    <2> DEFINE above == {b + Margin(p, b) : b \in Range(p.max)}
               below == {b - Margin(p, b) : b \in Range(p.min)}
    <2>1. p.type \notin Texts /\ InvalidValue(p) = Beyond(p, above, below)
      BY <1>2 DEF InvalidValue
    <2>2. /\ Range(p.min) \subseteq Int /\ Range(p.max) \subseteq Int
          /\ \A m, n \in Range(p.min) : m = n
          /\ \A m, n \in Range(p.max) : m = n
      BY SoundParameter
    <2>3. \/ \E n \in above : /\ InvalidValue(p) = Bare(n)
                              /\ p.type = "float64" \/ n <= High(p)
          \/ \E n \in below : /\ InvalidValue(p) = Bare(n)
                              /\ p.type = "float64" \/ n >= Low(p)
      <3>1. (\A m, n \in above : m = n) /\ (\A m, n \in below : m = n)
        BY <2>2
      <3> HIDE DEF above, below
      <3> QED BY <2>1, <3>1, BeyondIs
    <2>4. ASSUME NEW b \in Range(p.min) \union Range(p.max), p.type # "float64"
          PROVE  /\ b \in Range(p.max) => Low(p) <= b
                 /\ b \in Range(p.min) => b <= High(p)
                 /\ Low(p) \in Int /\ High(p) \in Int /\ b \in Int
      <3>1. b \in Int
        BY <2>2
      <3>2. CASE p.type \in Integer
        <4>1. WireLo(p) \in Int /\ WireHi(p) \in Int
          BY <3>2, SoundParameter
        <4>3. /\ \A x \in Range(p.min) : x <= WireHi(p)
              /\ \A x \in Range(p.max) : WireLo(p) <= x
          BY <1>2, <2>2, <3>2, <4>1 DEF Unsatisfiable
        <4> QED BY <3>1, <3>2, <4>1, <4>3 DEF Low, High
      <3>3. CASE p.type \notin Integer
        <4>1. p.type = "float32"
          BY <2>1, <2>4, <3>3 DEF ParameterSound, Floats
        <4>2. b \in -Float32Max..Float32Max /\ Float32Max \in Nat
          BY <4>1, SurfaceAssumption DEF ParameterSound
        <4> QED BY <3>1, <3>3, <4>2 DEF Low, High
      <3> QED BY <3>2, <3>3
    <2>5. CASE \E n \in above : /\ InvalidValue(p) = Bare(n)
                                /\ p.type = "float64" \/ n <= High(p)
      <3>1. PICK b \in Range(p.max) : /\ InvalidValue(p) = Bare(b + Margin(p, b))
                                      /\ p.type = "float64" \/ b + Margin(p, b) <= High(p)
        BY <2>5
      <3>2. b \in Int /\ Margin(p, b) \in Int /\ Margin(p, b) >= 1
        BY <2>2, Margins
      <3>3. p.type # "float64" => Low(p) <= b + Margin(p, b) /\ b + Margin(p, b) <= High(p)
        BY <2>4, <3>1, <3>2
      <3>4. b + Margin(p, b) \in Int
        BY <3>2
      <3> QED BY <1>2, <2>1, <3>1, <3>3, <3>4, BeyondBoundOffends
    <2>6. CASE \E n \in below : /\ InvalidValue(p) = Bare(n)
                                /\ p.type = "float64" \/ n >= Low(p)
      <3>1. PICK b \in Range(p.min) : /\ InvalidValue(p) = Bare(b - Margin(p, b))
                                      /\ p.type = "float64" \/ b - Margin(p, b) >= Low(p)
        BY <2>6
      <3>2. b \in Int /\ Margin(p, b) \in Int /\ Margin(p, b) >= 1
        BY <2>2, Margins
      <3>3. p.type # "float64" => Low(p) <= b - Margin(p, b) /\ b - Margin(p, b) <= High(p)
        BY <2>4, <3>1, <3>2
      <3>4. b - Margin(p, b) \in Int
        BY <3>2
      <3> QED BY <1>2, <2>1, <3>1, <3>3, <3>4, BeyondBoundOffends
    <2> QED BY <2>3, <2>5, <2>6
  <1> QED BY <1>1, <1>2

-----------------------------------------------------------------------------
\* Arguments of which each is an example, and what a sweep may send.
Examples(c) == UNION {Range(ExampleValues(p)) : p \in Range(c.params)}
Fitting(c) ==
    {a \in [Names(c) -> Examples(c)] :
        \A p \in Range(c.params) : a[p.name] \in Range(ExampleValues(p))}
Sends(c) ==
    {Send(c, a, TRUE) : a \in Fitting(c)} \union {Send(c, a, FALSE) : a \in RejectProbes(c)}
SendsOf(surface) == UNION {Sends(c) : c \in {x \in Range(surface) : ~Broken(x)}}

\* What the assumption says of a command list.
LEMMA SurfaceIsSound ==
    ASSUME NEW surface \in Surfaces
    PROVE  /\ surface \in Seq(Range(surface))
           /\ \A c \in Range(surface) : SoundCommand(c)
  BY SurfaceAssumption DEF SoundCommand

\* What is sent of a command is sent of its list.
LEMMA SendIsOf ==
    ASSUME NEW surface, NEW c \in Range(surface), ~Broken(c)
    PROVE  Sends(c) \subseteq SendsOf(surface)
  <1> DEFINE D == {x \in Range(surface) : ~Broken(x)}
  <1>1. c \in D
    OBVIOUS
  <1> HIDE DEF D
  <1>2. SendsOf(surface) = UNION {Sends(x) : x \in D}
    BY DEF SendsOf, D
  <1> QED BY <1>1, <1>2

\* A name stands for one argument.
LEMMA ParamOfIs ==
    ASSUME NEW c, SoundCommand(c), NEW p \in Range(c.params)
    PROVE  ParamOf(c, p.name) = p /\ p.name \in Names(c)
  <1>1. \A q \in Range(c.params) : q.name = p.name => q = p
    <2> SUFFICES ASSUME NEW q \in Range(c.params), q.name = p.name PROVE q = p
      OBVIOUS
    <2>1. PICK i, j \in DOMAIN c.params : c.params[i] = p /\ c.params[j] = q
      BY RangeIs
    <2>2. i = j
      BY <2>1 DEF SoundCommand
    <2> QED BY <2>1, <2>2
  <1> QED BY <1>1 DEF ParamOf, Names

\* The baseline, and the baseline with another example in it.
LEMMA BaselineFits ==
    ASSUME NEW c, SoundCommand(c), ~Broken(c)
    PROVE  /\ Baseline(c) \in Fitting(c)
           /\ \A p \in Range(c.params) : \A x \in Range(ExampleValues(p)) :
                  [Baseline(c) EXCEPT ![p.name] = x] \in Fitting(c)
  <1> DEFINE base == Baseline(c)
  <1>1. ASSUME NEW p \in Range(c.params)
        PROVE  base[p.name] \in Range(ExampleValues(p)) /\ p.name \in Names(c)
    <2>1. ParameterSound(p) /\ ~Unsatisfiable(p)
      BY DEF SoundCommand, Broken
    <2> DEFINE xs == ExampleValues(p)
    <2>2. xs \in Seq(Range(xs)) /\ Len(xs) \in Nat \ {0}
      BY <2>1, ExamplesFit
    <2> HIDE DEF xs
    <2>3. 1 \in DOMAIN xs
      BY <2>2, LenProperties
    <2>4. xs[1] \in Range(xs)
      BY <2>3, RangeIs
    <2>5. p.name \in Names(c) /\ ParamOf(c, p.name) = p
      BY ParamOfIs
    <2>6. base[p.name] = xs[1]
      BY <2>5 DEF Baseline, xs
    <2> QED BY <2>4, <2>5, <2>6 DEF xs
  <1>2. base = [n \in Names(c) |-> base[n]]
    BY DEF Baseline
  <1>3. \A n \in Names(c) : \E p \in Range(c.params) : p.name = n
    BY DEF Names
  <1> HIDE DEF base
  <1>4. \A n \in Names(c) : base[n] \in Examples(c)
    BY <1>1, <1>3 DEF Examples
  <1>5. base \in [Names(c) -> Examples(c)]
    BY <1>2, <1>4
  <1>6. base \in Fitting(c)
    BY <1>1, <1>5 DEF Fitting
  <1>7. ASSUME NEW p \in Range(c.params), NEW x \in Range(ExampleValues(p))
        PROVE  [base EXCEPT ![p.name] = x] \in Fitting(c)
    <2> DEFINE a == [base EXCEPT ![p.name] = x]
    <2>1. x \in Examples(c) /\ p.name \in Names(c)
      BY <1>1 DEF Examples
    <2>2. /\ a \in [Names(c) -> Examples(c)] /\ a[p.name] = x
          /\ \A n \in Names(c) : n # p.name => a[n] = base[n]
      BY <1>5, <2>1
    <2> HIDE DEF a
    <2>3. ASSUME NEW q \in Range(c.params) PROVE a[q.name] \in Range(ExampleValues(q))
      <3>1. CASE q.name = p.name
        <4>1. q = p
          BY <3>1, ParamOfIs
        <4> QED BY <2>2, <4>1
      <3>2. CASE q.name # p.name
        BY <1>1, <2>2, <3>2
      <3> QED BY <3>1, <3>2
    <2>4. a \in Fitting(c)
      BY <2>2, <2>3 DEF Fitting
    <2> QED BY <2>4 DEF a
  <1> QED BY <1>6, <1>7 DEF base

\* So are all sets of arguments of a command.
LEMMA ArgSetsFit ==
    ASSUME NEW c, SoundCommand(c), ~Broken(c)
    PROVE  ArgSets(c) \in Seq(Fitting(c))
  <1> DEFINE F == Fitting(c)
             n == Len(c.params)
             varied(i) == LET p == c.params[i]
                          IN [k \in 1..(Len(ExampleValues(p)) - 1) |->
                                 [Baseline(c) EXCEPT ![p.name] = ExampleValues(p)[k + 1]]]
             all == [i \in 1..n |-> varied(i)]
  <1>1. n \in Nat /\ DOMAIN c.params = 1..n
    BY LenProperties DEF SoundCommand
  <1>2. ASSUME NEW i \in 1..n PROVE varied(i) \in Seq(F)
    <2> DEFINE p == c.params[i]
               xs == ExampleValues(p)
    <2>1. p \in Range(c.params)
      BY <1>1, RangeIs
    <2> HIDE DEF p
    <2>2. ParameterSound(p) /\ ~Unsatisfiable(p)
      BY <2>1 DEF SoundCommand, Broken
    <2>3. xs \in Seq(Range(xs)) /\ Len(xs) \in Nat \ {0}
      BY <2>2, ExamplesFit
    <2>4. ASSUME NEW k \in 1..(Len(xs) - 1)
          PROVE  [Baseline(c) EXCEPT ![p.name] = xs[k + 1]] \in F
      <3> HIDE DEF xs
      <3>1. k + 1 \in DOMAIN xs
        BY <2>3, LenProperties
      <3>2. xs[k + 1] \in Range(xs)
        BY <3>1, RangeIs
      <3> QED BY <2>1, <3>2, BaselineFits DEF xs
    <2>5. varied(i) = [k \in 1..(Len(xs) - 1) |-> [Baseline(c) EXCEPT ![p.name] = xs[k + 1]]]
      BY DEF p
    <2> HIDE DEF xs, F, varied
    <2>6. Len(xs) - 1 \in Nat
      BY <2>3
    <2>7. varied(i) \in [1..(Len(xs) - 1) -> F]
      BY <2>4, <2>5
    <2> QED BY <2>6, <2>7, SeqDef
  <1>3. Baseline(c) \in F
    BY BaselineFits
  <1>4. ArgSets(c) = <<Baseline(c)>> \o FlattenSeq(all)
    BY DEF ArgSets
  <1> HIDE DEF F, n, varied
  <1>5. all \in [1..n -> Seq(F)]
    BY <1>2
  <1>6. all \in Seq(Seq(F))
    BY <1>1, <1>5, SeqDef
  <1> HIDE DEF all
  <1>7. FlattenSeq(all) \in Seq(F)
    BY <1>6, FlattenElements
  <1>8. <<Baseline(c)>> \in Seq(F)
    BY <1>3
  <1> QED BY <1>4, <1>7, <1>8, ConcatElements DEF F

\* The plan without probes, and the probes.
LEMMA NormalSends ==
    ASSUME NEW surface \in Surfaces
    PROVE  Normal(surface) \in Seq(SendsOf(surface))
  <1> DEFINE S == SendsOf(surface)
             n == Len(surface)
             of(i) == IF Broken(surface[i]) THEN <<>>
                      ELSE [k \in 1..Len(ArgSets(surface[i])) |->
                               Send(surface[i], ArgSets(surface[i])[k], TRUE)]
             all == [i \in 1..n |-> of(i)]
  <1>1. n \in Nat /\ DOMAIN surface = 1..n
    BY SurfaceIsSound, LenProperties
  <1>2. ASSUME NEW i \in 1..n PROVE of(i) \in Seq(S)
    <2> DEFINE c == surface[i]
               sets == ArgSets(c)
    <2>1. c \in Range(surface)
      BY <1>1, RangeIs
    <2>2. SoundCommand(c)
      BY <2>1, SurfaceIsSound
    <2>3. CASE Broken(c)
      BY <2>3
    <2>4. CASE ~Broken(c)
      <3>1. sets \in Seq(Fitting(c))
        BY <2>2, <2>4, ArgSetsFit
      <3>2. of(i) = [k \in 1..Len(sets) |-> Send(c, sets[k], TRUE)]
        BY <2>4
      <3> HIDE DEF c, sets, of
      <3>3. Len(sets) \in Nat /\ \A k \in 1..Len(sets) : sets[k] \in Fitting(c)
        BY <3>1, LenProperties, ElementOfSeq
      <3>4. \A k \in 1..Len(sets) : Send(c, sets[k], TRUE) \in S
        <4>1. Sends(c) \subseteq S
          BY <2>1, <2>4, SendIsOf
        <4>2. \A k \in 1..Len(sets) : Send(c, sets[k], TRUE) \in Sends(c)
          BY <3>3 DEF Sends
        <4> QED BY <4>1, <4>2
      <3> HIDE DEF S
      <3>5. of(i) \in [1..Len(sets) -> S]
        BY <3>2, <3>4
      <3> QED BY <3>3, <3>5, SeqDef
    <2> QED BY <2>3, <2>4
  <1>3. Normal(surface) = FlattenSeq(all)
    BY DEF Normal
  <1> HIDE DEF S, n, of
  <1>4. all \in [1..n -> Seq(S)]
    BY <1>2
  <1>5. all \in Seq(Seq(S))
    BY <1>1, <1>4, SeqDef
  <1> HIDE DEF all
  <1> QED BY <1>3, <1>5, FlattenElements DEF S

\* A probe is one of the sends.
LEMMA CandidateSends ==
    ASSUME NEW surface \in Surfaces
    PROVE  Candidates(surface) \subseteq SendsOf(surface)
  <1> SUFFICES ASSUME NEW s \in Candidates(surface) PROVE s \in SendsOf(surface)
    OBVIOUS
  <1>1. PICK c \in Range(surface) : s \in {Send(c, a, FALSE) : a \in RejectProbes(c)}
    BY DEF Candidates
  <1>2. PICK a \in RejectProbes(c) : s = Send(c, a, FALSE)
    BY <1>1
  <1>3. ~Broken(c)
    BY DEF RejectProbes
  <1>4. s \in Sends(c)
    BY <1>2 DEF Sends
  <1> QED BY <1>3, <1>4, SendIsOf

\* A probe goes anywhere.
LEMMA InsertedSends ==
    ASSUME NEW S, NEW plan \in Seq(S), NEW x \in S, NEW i \in 1..(Len(plan) + 1)
    PROVE  InsertAt(plan, i, x) \in Seq(S)
  <1>1. Len(plan) \in Nat
    BY LenProperties
  <1>2. SubSeq(plan, 1, i - 1) \in Seq(S)
    <2>1. 1 \in 1..(Len(plan) + 1) /\ i - 1 \in 0..Len(plan)
      BY <1>1
    <2>2. \A k \in 1..(i - 1) : k \in DOMAIN plan
      BY <1>1, <2>1, LenProperties
    <2> QED BY <2>1, <2>2, SubSeqProperties
  <1>3. SubSeq(plan, i, Len(plan)) \in Seq(S)
    BY <1>1, SubSeqProperties
  <1>4. <<x>> \in Seq(S)
    OBVIOUS
  <1>5. SubSeq(plan, 1, i - 1) \o <<x>> \in Seq(S)
    BY <1>2, <1>4, ConcatElements
  <1> QED BY <1>3, <1>5, ConcatElements DEF InsertAt

\* The plans with ever more probes.
WithAnother(s, targets) ==
    UNION {Sprinkled(plan, probe) : plan \in s, probe \in Candidates(targets)}
RunOfPlans(a, targets, probes) ==
    /\ \A n \in 0..probes :
           a[n] = IF n = 0 \/ Candidates(targets) = {} THEN {Normal(targets)}
                  ELSE WithAnother(a[n - 1], targets)
    /\ SendPlans(targets, probes) = a[probes]

\* There is such a run.
LEMMA PlansInTurn ==
    ASSUME NEW targets, NEW probes \in Nat
    PROVE  \E a : RunOfPlans(a, targets, probes)
  <1> DEFINE stop(i) == i = 0 \/ Candidates(targets) = {}
             Solves(g, k) == g = [i \in 0..k |-> IF stop(i) THEN {Normal(targets)}
                                                 ELSE WithAnother(g[i - 1], targets)]
             X == {k \in 0..probes : \E g : Solves(g, k)}
  <1>1. 0 \in X
    <2> DEFINE g == [i \in 0..0 |-> {Normal(targets)}]
    <2>1. \A i \in 0..0 : stop(i)
      OBVIOUS
    <2>2. Solves(g, 0)
      BY <2>1
    <2> HIDE DEF g, Solves
    <2>3. \E h : Solves(h, 0)
      BY <2>2
    <2> QED BY <2>3
  <1>2. ASSUME NEW k \in 0..(probes - 1), k \in X PROVE k + 1 \in X
    <2>1. PICK g : Solves(g, k)
      BY <1>2
    <2> DEFINE h == [i \in 0..(k + 1) |-> IF stop(i) THEN {Normal(targets)} ELSE WithAnother(g[i - 1], targets)]
    <2>2. \A i \in 0..k : g[i] = IF stop(i) THEN {Normal(targets)} ELSE WithAnother(g[i - 1], targets)
      BY <2>1
    <2>3. \A i \in 0..k : h[i] = g[i]
      <3>1. \A i \in 0..k : i \in 0..(k + 1)
        OBVIOUS
      <3> HIDE DEF stop
      <3> QED BY <2>2, <3>1
    <2>4. \A i \in 0..(k + 1) : ~stop(i) => h[i - 1] = g[i - 1]
      <3>1. \A i \in 0..(k + 1) : ~stop(i) => i - 1 \in 0..k
        OBVIOUS
      <3> HIDE DEF h, stop
      <3> QED BY <2>3, <3>1
    <2>5. h = [i \in 0..(k + 1) |-> IF stop(i) THEN {Normal(targets)} ELSE WithAnother(h[i - 1], targets)]
      <3> DEFINE r == [i \in 0..(k + 1) |-> IF stop(i) THEN {Normal(targets)} ELSE WithAnother(h[i - 1], targets)]
      <3>1. \A i \in 0..(k + 1) : h[i] = r[i]
        BY <2>4
      <3>2. DOMAIN h = 0..(k + 1) /\ DOMAIN r = 0..(k + 1)
        OBVIOUS
      <3> HIDE DEF stop
      <3>3. h = [i \in 0..(k + 1) |-> h[i]]
        OBVIOUS
      <3>4. r = [i \in 0..(k + 1) |-> r[i]]
        <4> HIDE DEF h
        <4> QED OBVIOUS
      <3> HIDE DEF h, r
      <3>5. h = r
        BY <3>1, <3>3, <3>4
      <3> QED BY <3>5 DEF r
    <2> HIDE DEF h
    <2>6. \E f : Solves(f, k + 1)
      BY <2>5
    <2>7. k + 1 \in 0..probes
      OBVIOUS
    <2> HIDE DEF Solves
    <2> QED BY <2>6, <2>7
  <1>3. probes \in X
    <2> HIDE DEF X
    <2>1. \A k \in 0..probes : k \in X
      BY <1>1, <1>2, Climb
    <2> QED BY <2>1
  <1> DEFINE a == CHOOSE g : Solves(g, probes)
  <1>4. Solves(a, probes)
    <2>1. \E g : Solves(g, probes)
      BY <1>3
    <2> HIDE DEF Solves
    <2> QED BY <2>1
  <1>5. SendPlans(targets, probes) = a[probes]
    BY DEF SendPlans, WithAnother
  <1> HIDE DEF a
  <1>6. \A n \in 0..probes : a[n] = IF stop(n) THEN {Normal(targets)} ELSE WithAnother(a[n - 1], targets)
    <2> HIDE DEF stop
    <2> QED BY <1>4
  <1>7. QED
    BY <1>5, <1>6 DEF RunOfPlans

-----------------------------------------------------------------------------
\* A plan is made of what a sweep may send.
LEMMA PlansAreSends ==
    ASSUME NEW surface \in Surfaces, NEW probes \in 0..MaxProbes
    PROVE  \A plan \in SendPlans(surface, probes) : plan \in Seq(SendsOf(surface))
  <1> DEFINE S == SendsOf(surface)
  <1>0. probes \in Nat
    BY SurfaceAssumption
  <1>1. PICK a : RunOfPlans(a, surface, probes)
    BY <1>0, PlansInTurn
  <1>2. /\ \A n \in 0..probes :
               a[n] = IF n = 0 \/ Candidates(surface) = {} THEN {Normal(surface)}
                      ELSE WithAnother(a[n - 1], surface)
        /\ SendPlans(surface, probes) = a[probes]
    BY <1>1 DEF RunOfPlans
  <1> DEFINE X == {n \in 0..probes : a[n] \subseteq Seq(S)}
  <1>3. {Normal(surface)} \subseteq Seq(S)
    BY NormalSends
  <1>4. 0 \in X
    BY <1>0, <1>2, <1>3
  <1>5. ASSUME NEW n \in 0..(probes - 1), n \in X PROVE n + 1 \in X
    <2>1. n + 1 \in 0..probes /\ n + 1 # 0 /\ (n + 1) - 1 = n
      BY <1>0
    <2>2. a[n + 1] = IF Candidates(surface) = {} THEN {Normal(surface)}
                     ELSE WithAnother(a[n], surface)
      BY <1>2, <2>1
    <2>3. WithAnother(a[n], surface) \subseteq Seq(S)
      <3> SUFFICES ASSUME NEW plan \in a[n], NEW probe \in Candidates(surface),
                          NEW q \in Sprinkled(plan, probe)
                   PROVE  q \in Seq(S)
        BY DEF WithAnother
      <3>1. plan \in Seq(S)
        BY <1>5
      <3>2. probe \in S
        BY CandidateSends
      <3>3. PICK i \in 1..(Len(plan) + 1) : q = InsertAt(plan, i, probe)
        BY DEF Sprinkled
      <3> HIDE DEF S
      <3> QED BY <3>1, <3>2, <3>3, InsertedSends
    <2>4. a[n + 1] \subseteq Seq(S)
      BY <1>3, <2>2, <2>3
    <2> QED BY <2>1, <2>4
  <1>6. probes \in X
    <2> HIDE DEF X
    <2>1. \A n \in 0..probes : n \in X
      BY <1>0, <1>4, <1>5, Climb
    <2> QED BY <1>0, <2>1
  <1> QED BY <1>2, <1>6

\* Arguments that fit can be sent, and nobody objects.
LEMMA FittingIsExecuted ==
    ASSUME NEW c, SoundCommand(c), ~Broken(c), NEW a \in Fitting(c)
    PROVE  Arguments(a) /\ Sendable(c, a) /\ ~Objects(c, a)
  <1>1. DOMAIN a = Names(c) /\ \A p \in Range(c.params) : a[p.name] \in Range(ExampleValues(p))
    BY DEF Fitting
  <1>2. ASSUME NEW p \in Range(c.params)
        PROVE  Fits(p, a[p.name]) /\ Taken(a, p) = Coerced(p, a[p.name])
    <2>1. ParameterSound(p) /\ ~Unsatisfiable(p)
      BY DEF SoundCommand, Broken
    <2>2. p.name \in Names(c)
      BY DEF Names
    <2> QED BY <1>1, <2>1, <2>2, ExamplesFit DEF Taken
  <1>3. Arguments(a)
    <2> SUFFICES ASSUME NEW n \in Names(c) PROVE IsValue(a[n])
      BY <1>1 DEF Arguments
    <2>1. PICK p \in Range(c.params) : p.name = n
      BY DEF Names
    <2> QED BY <1>2, <2>1 DEF Fits
  <1>4. Sendable(c, a) /\ ~Objects(c, a)
    BY <1>1, <1>2 DEF Sendable, Objects, Fits
  <1> QED BY <1>3, <1>4

\* A probe can be sent, and the vehicle objects.
LEMMA ProbeIsRejected ==
    ASSUME NEW c, SoundCommand(c), NEW a \in RejectProbes(c)
    PROVE  Arguments(a) /\ Sendable(c, a) /\ Objects(c, a)
  <1> DEFINE pushed == c.params[Min(Pushable(c))]
             x == InvalidValue(pushed)
  <1>1. ~Broken(c) /\ Pushable(c) # {} /\ a = [Baseline(c) EXCEPT ![pushed.name] = x]
    BY DEF RejectProbes
  <1>2. Min(Pushable(c)) \in Pushable(c)
    <2>1. DOMAIN c.params = 1..Len(c.params) /\ Len(c.params) \in Nat
      BY LenProperties DEF SoundCommand
    <2>2. Pushable(c) \in SUBSET Nat
      BY <2>1 DEF Pushable
    <2> QED BY <1>1, <2>2, LeastOf
  <1>3. pushed \in Range(c.params) /\ x # Nothing
    BY <1>2, RangeIs DEF Pushable
  <1> HIDE DEF pushed
  <1>4. ParameterSound(pushed) /\ ~Unsatisfiable(pushed)
    BY <1>1, <1>3 DEF SoundCommand, Broken
  <1>5. Offends(pushed, x)
    BY <1>3, <1>4, InvalidValueOffends
  <1> HIDE DEF x
  <1>6. Baseline(c) \in Fitting(c)
    BY <1>1, BaselineFits
  <1>7. DOMAIN Baseline(c) = Names(c) /\ pushed.name \in Names(c)
    BY <1>3, <1>6 DEF Fitting, Names
  <1>8. /\ DOMAIN a = Names(c) /\ a[pushed.name] = x
        /\ \A n \in Names(c) : n # pushed.name => a[n] = Baseline(c)[n]
    BY <1>1, <1>7
  <1>9. Arguments(Baseline(c)) /\ Sendable(c, Baseline(c))
    BY <1>1, <1>6, FittingIsExecuted
  <1>10. Arguments(a)
    <2> SUFFICES ASSUME NEW n \in Names(c) PROVE IsValue(a[n])
      BY <1>8 DEF Arguments
    <2>1. CASE n = pushed.name
      BY <1>5, <1>8, <2>1 DEF Offends
    <2>2. CASE n # pushed.name
      BY <1>7, <1>8, <1>9, <2>2 DEF Arguments
    <2> QED BY <2>1, <2>2
  <1>11. Taken(a, pushed) = Coerced(pushed, x)
    BY <1>7, <1>8 DEF Taken
  <1>12. ASSUME NEW p \in Range(c.params)
         PROVE  Taken(a, p) # Nothing /\ Packs(p, Taken(a, p))
    <2>1. CASE p.name = pushed.name
      <3>1. p = pushed
        BY <1>3, <2>1, ParamOfIs
      <3> QED BY <1>5, <1>11, <3>1 DEF Offends
    <2>2. CASE p.name # pushed.name
      <3>1. p.name \in Names(c)
        BY DEF Names
      <3>2. Taken(a, p) = Taken(Baseline(c), p)
        BY <1>7, <1>8, <2>2, <3>1 DEF Taken
      <3> QED BY <1>9, <3>2 DEF Sendable
    <2> QED BY <2>1, <2>2
  <1>13. Sendable(c, a)
    BY <1>8, <1>12 DEF Sendable
  <1>14. Objects(c, a)
    BY <1>3, <1>5, <1>11 DEF Objects, Offends
  <1> QED BY <1>10, <1>13, <1>14

-----------------------------------------------------------------------------
\* What becomes of one send, told whether it is the sweep's.
Agreed(o, swept) ==
    /\ o.send.validate /\ o.sent => o.echo = "EXECUTED"
    /\ o.send.validate /\ ~o.sent => o.echo \in {"REJECTED", "unsendable"}
    /\ swept => o.sent
    /\ ~o.send.validate => o.echo = "REJECTED"

\* An operator's send, whatever is typed.
LEMMA OperatorAgrees ==
    ASSUME NEW surface \in Surfaces, NEW c \in Range(surface),
           NEW given \in SUBSET Names(c), NEW args \in [given -> Typed]
    PROVE  Agreed(Outcome(Send(c, args, TRUE)), FALSE)
  <1>1. SoundCommand(c)
    BY SurfaceIsSound
  <1>2. Arguments(args)
    BY SurfaceAssumption DEF Arguments
  <1> DEFINE o == Outcome(Send(c, args, TRUE))
  <1>3. /\ o.send.validate = TRUE
        /\ o.sent <=> Sendable(c, args) /\ ~Objects(c, args)
        /\ o.echo = IF ~Sendable(c, args) THEN "unsendable"
                    ELSE IF Objects(c, args) THEN "REJECTED" ELSE "EXECUTED"
    BY <1>1, <1>2, OutcomeIs
  <1> HIDE DEF o
  <1>4. Agreed(o, FALSE)
    BY <1>3 DEF Agreed
  <1> QED BY <1>4 DEF o

\* The sweep's own: an example or a probe.
LEMMA SweepAgrees ==
    ASSUME NEW surface \in Surfaces, NEW s \in SendsOf(surface)
    PROVE  Agreed(Outcome(s), TRUE)
  <1> DEFINE D == {x \in Range(surface) : ~Broken(x)}
  <1>1. PICK c \in D : s \in Sends(c)
    BY DEF SendsOf
  <1>2. c \in Range(surface) /\ ~Broken(c) /\ SoundCommand(c)
    BY SurfaceIsSound
  <1> HIDE DEF D
  <1>3. CASE \E a \in Fitting(c) : s = Send(c, a, TRUE)
    <2>1. PICK a \in Fitting(c) : s = Send(c, a, TRUE)
      BY <1>3
    <2>2. Arguments(a) /\ Sendable(c, a) /\ ~Objects(c, a)
      BY <1>2, FittingIsExecuted
    <2> DEFINE o == Outcome(Send(c, a, TRUE))
    <2>3. /\ o.send.validate = TRUE
          /\ o.sent <=> Sendable(c, a) /\ ~Objects(c, a)
          /\ o.echo = IF ~Sendable(c, a) THEN "unsendable"
                      ELSE IF Objects(c, a) THEN "REJECTED" ELSE "EXECUTED"
      BY <1>2, <2>2, OutcomeIs
    <2> HIDE DEF o
    <2>4. Agreed(o, TRUE)
      BY <2>2, <2>3 DEF Agreed
    <2> QED BY <2>1, <2>4 DEF o
  <1>4. CASE \E a \in RejectProbes(c) : s = Send(c, a, FALSE)
    <2>1. PICK a \in RejectProbes(c) : s = Send(c, a, FALSE)
      BY <1>4
    <2>2. Arguments(a) /\ Sendable(c, a) /\ Objects(c, a)
      BY <1>2, ProbeIsRejected
    <2> DEFINE o == Outcome(Send(c, a, FALSE))
    <2>3. /\ o.send.validate = FALSE
          /\ o.sent <=> Sendable(c, a)
          /\ o.echo = IF ~Sendable(c, a) THEN "unsendable"
                      ELSE IF Objects(c, a) THEN "REJECTED" ELSE "EXECUTED"
      BY <1>2, <2>2, OutcomeIs
    <2> HIDE DEF o
    <2>4. Agreed(o, TRUE)
      BY <2>2, <2>3 DEF Agreed
    <2> QED BY <2>1, <2>4 DEF o
  <1> QED BY <1>1, <1>3, <1>4 DEF Sends

-----------------------------------------------------------------------------
\* A sweep carries out one plan, and the last outcome is as it should be.
ExerciseInv ==
    /\ DOMAIN sweep = {"plan", "at", "by", "last"}
    /\ sweep.at \in Nat /\ sweep.by \in {"nobody", "operator", "sweep"}
    /\ sweep.by = "sweep" =>
          \E surface \in Surfaces : sweep.plan \in Seq(SendsOf(surface))
    /\ \A o \in Range(sweep.last) : Agreed(o, sweep.by = "sweep")

\* It holds before anything is sent.
LEMMA InitExerciseInv == ExerciseInit => ExerciseInv
  <1>1. Range(<<>>) = {}
    BY RangeIs
  <1> QED BY <1>1 DEF ExerciseInit, ExerciseInv, Idle

\* The one outcome that is kept.
LEMMA OneIn == ASSUME NEW x PROVE Range(<<x>>) = {x}
  BY DEF Range

\* A plan is made of such sends.
LEMMA PlanSweepKeeps == ExerciseInv /\ PlanSweep => ExerciseInv'
  <1> SUFFICES ASSUME ExerciseInv, PlanSweep PROVE ExerciseInv'
    OBVIOUS
  <1>1. PICK surface \in Surfaces, probes \in 0..MaxProbes :
            \E plan \in SendPlans(surface, probes) :
                sweep' = [Idle EXCEPT !.plan = plan, !.by = "sweep"]
    BY DEF PlanSweep
  <1>2. PICK plan \in SendPlans(surface, probes) :
            sweep' = [Idle EXCEPT !.plan = plan, !.by = "sweep"]
    BY <1>1
  <1>3. plan \in Seq(SendsOf(surface))
    BY PlansAreSends
  <1>4. /\ DOMAIN sweep' = {"plan", "at", "by", "last"} /\ sweep'.plan = plan
        /\ sweep'.at = 0 /\ sweep'.by = "sweep" /\ sweep'.last = <<>>
    BY <1>2 DEF Idle
  <1>5. Range(sweep'.last) = {}
    BY <1>4, RangeIs
  <1> QED BY <1>3, <1>4, <1>5 DEF ExerciseInv

\* The next send of the plan.
LEMMA SendNextKeeps == ExerciseInv /\ SendNext => ExerciseInv'
  <1> SUFFICES ASSUME ExerciseInv, SendNext PROVE ExerciseInv'
    OBVIOUS
  <1> DEFINE s == sweep.plan[sweep.at + 1]
             o == Outcome(s)
  <1>1. PICK surface \in Surfaces : sweep.plan \in Seq(SendsOf(surface))
    BY DEF ExerciseInv, SendNext
  <1>2. s \in SendsOf(surface)
    <2>1. Len(sweep.plan) \in Nat /\ sweep.at \in Nat /\ sweep.at < Len(sweep.plan)
      BY <1>1, LenProperties DEF ExerciseInv, SendNext
    <2>2. sweep.at + 1 \in 1..Len(sweep.plan)
      BY <2>1
    <2> QED BY <1>1, <2>2, ElementOfSeq
  <1>3. Agreed(o, TRUE)
    BY <1>2, SweepAgrees
  <1> HIDE DEF s, o
  <1>4. sweep' = [sweep EXCEPT !.at = @ + 1, !.last = <<o>>] /\ sweep.by = "sweep"
    BY DEF SendNext, o, s
  <1>5. /\ DOMAIN sweep' = {"plan", "at", "by", "last"} /\ sweep'.plan = sweep.plan
        /\ sweep'.at = sweep.at + 1 /\ sweep'.by = "sweep" /\ sweep'.last = <<o>>
    BY <1>4 DEF ExerciseInv
  <1>6. Range(sweep'.last) = {o}
    BY <1>5, OneIn
  <1>7. sweep'.at \in Nat
    BY <1>5 DEF ExerciseInv
  <1>8. \A r \in Range(sweep'.last) : Agreed(r, sweep'.by = "sweep")
    BY <1>3, <1>5, <1>6 DEF Agreed
  <1> QED BY <1>1, <1>5, <1>7, <1>8 DEF ExerciseInv

\* A command that is typed.
LEMMA OperatorSendsKeeps == ExerciseInv /\ OperatorSends => ExerciseInv'
  <1> SUFFICES ASSUME ExerciseInv, OperatorSends PROVE ExerciseInv'
    OBVIOUS
  <1>1. PICK surface \in Surfaces : \E c \in Range(surface) :
            \E given \in SUBSET Names(c) : \E args \in [given -> Typed] :
                sweep' = [Idle EXCEPT !.by = "operator",
                                      !.last = <<Outcome(Send(c, args, TRUE))>>]
    BY DEF OperatorSends
  <1>2. PICK c \in Range(surface) :
            \E given \in SUBSET Names(c) : \E args \in [given -> Typed] :
                sweep' = [Idle EXCEPT !.by = "operator",
                                      !.last = <<Outcome(Send(c, args, TRUE))>>]
    BY <1>1
  <1>3. PICK given \in SUBSET Names(c) : \E args \in [given -> Typed] :
                sweep' = [Idle EXCEPT !.by = "operator",
                                      !.last = <<Outcome(Send(c, args, TRUE))>>]
    BY <1>2
  <1>4. PICK args \in [given -> Typed] :
                sweep' = [Idle EXCEPT !.by = "operator",
                                      !.last = <<Outcome(Send(c, args, TRUE))>>]
    BY <1>3
  <1> DEFINE o == Outcome(Send(c, args, TRUE))
  <1>5. Agreed(o, FALSE)
    BY OperatorAgrees
  <1> HIDE DEF o
  <1>6. sweep' = [Idle EXCEPT !.by = "operator", !.last = <<o>>]
    BY <1>4 DEF o
  <1>7. /\ DOMAIN sweep' = {"plan", "at", "by", "last"}
        /\ sweep'.at = 0 /\ sweep'.by = "operator" /\ sweep'.last = <<o>>
    BY <1>6 DEF Idle
  <1>8. Range(sweep'.last) = {o}
    BY <1>7, OneIn
  <1>9. \A r \in Range(sweep'.last) : Agreed(r, sweep'.by = "sweep")
    BY <1>5, <1>7, <1>8 DEF Agreed
  <1> QED BY <1>7, <1>9 DEF ExerciseInv

\* Ground and vehicle reach the same verdict.
THEOREM GroundAndVehicleAgree == ExerciseSpec => []VerdictsAgree
  <1>1. ExerciseInv /\ [ExerciseNext]_exerciseVars => ExerciseInv'
    <2> SUFFICES ASSUME ExerciseInv, [ExerciseNext]_exerciseVars PROVE ExerciseInv'
      OBVIOUS
    <2>1. CASE PlanSweep
      BY <2>1, PlanSweepKeeps
    <2>2. CASE SendNext
      BY <2>2, SendNextKeeps
    <2>3. CASE OperatorSends
      BY <2>3, OperatorSendsKeeps
    <2>4. CASE UNCHANGED exerciseVars
      BY <2>4 DEF exerciseVars, ExerciseInv
    <2> QED BY <2>1, <2>2, <2>3, <2>4 DEF ExerciseNext
  <1>2. ExerciseInv => VerdictsAgree
    BY DEF ExerciseInv, VerdictsAgree, Agreed
  <1> QED BY InitExerciseInv, <1>1, <1>2, PTL DEF ExerciseSpec
=============================================================================
