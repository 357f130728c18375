---------------------------- MODULE UploadProofs ----------------------------
(***************************************************************************)
(* What Upload guarantees for every number of grounds, every set of files  *)
(* they send and every length of the queues.                               *)
(***************************************************************************)
EXTENDS Upload, FileServiceProofs

FrameSet == [type : {"START", "FINISH"}]
            \cup [type : {"DATA"}, offset : 0..MaxSize, chunk : {<<b>> : b \in Bytes}]

Named == Names \cup BadNames \cup {""} \cup {Reported[n] : n \in BadNames}

ReceiptSet == [name : Named, size : 0..MaxSize, crc : Files \cup {NoCrc},
               status : Statuses, count : Nat]

\* The server has taken the START of g.
Begun(g) == uplink[g] = <<>> \/ uplink[g][1].type # "START"

\* The transfer of g is over, or was refused: there will be none.
Over(g) == Begun(g) /\ g \notin DOMAIN transfers

\* What g was told of a failure is true: nothing of its own landed, or will.
FailedAlone(g) == Over(g) /\ g \notin landedOwn

HasFile(g) == upload[g].name \in Stored /\ store[upload[g].name] = upload[g].content

\* What g may conclude from receipt r, its own or one it takes for its own.
Conclusive(g, r) ==
    Ours(g, r) =>
        /\ r.status = "SUCCESS" => g \in held
        /\ r.status = "FAILED" /\ upload[g].content # <<>> /\ ~HasTwin(g) => FailedAlone(g)

-----------------------------------------------------------------------------
UploadTypeOK ==
    /\ FTypeOK
    /\ upload \in [Ground -> Uploads \cup {NoUpload}]
    /\ verdict \in [Ground -> Verdicts]
    /\ uplink \in [Ground -> Seq(FrameSet)]
    /\ downlink \in [Ground -> Seq(ReceiptSet)]
    /\ conn \in [Ground -> ConnStates]

\* A transfer is of what its ground uploads, and its link stands.
OwnTransfer(g) ==
    g \in DOMAIN transfers =>
        /\ conn[g] \in {"open", "dropped"} /\ Begun(g)
        /\ transfers[g].name = upload[g].name
        /\ transfers[g].size = Len(upload[g].content)
        /\ transfers[g].crc = upload[g].content

(***************************************************************************)
(* What is known of each ground: a ground that has not begun has nothing   *)
(* under way, START comes first and once, what lies in its downlink and    *)
(* what it concluded from it is backed by the history.                     *)
(***************************************************************************)
OfGround(g) ==
    /\ upload[g] = NoUpload =>
           conn[g] = "none" /\ uplink[g] = <<>> /\ downlink[g] = <<>> /\ verdict[g] = "NONE"
    /\ upload[g] = NoUpload => g \notin landedOwn
    /\ \A i \in 2..Len(uplink[g]) : uplink[g][i].type # "START"
    /\ OwnTransfer(g)
    /\ g \in landedOwn => Over(g)
    /\ Watching(g) /\ HasFile(g) => g \in held
    /\ \A i \in DOMAIN downlink[g] : Conclusive(g, downlink[g][i])
    /\ verdict[g] = "SUCCESS" => g \in held
    /\ verdict[g] = "FAILED" /\ upload[g].content # <<>> /\ ~HasTwin(g) => FailedAlone(g)

UploadInv == UploadTypeOK /\ \A g \in Ground : OfGround(g)

-----------------------------------------------------------------------------
\* What is uploaded, and the frames it is sent as.
LEMMA UploadedFile ==
    ASSUME NEW u \in Uploads
    PROVE  /\ u \in [name : Names, content : Files] /\ u # NoUpload
           /\ u.name \in Names /\ u.content \in Files
           /\ u.content \in Seq(Bytes) /\ Len(u.content) \in 0..MaxSize
           /\ u.content = <<>> <=> Len(u.content) = 0
  <1>1. u \in [name : Names, content : Files]
    BY UploadAssumption
  <1>2. u.name \in Names /\ u.content \in Files
    BY <1>1
  <1>3. u # NoUpload
    <2>1. NoUpload.name = ""
      BY DEF NoUpload
    <2> QED BY <1>2, <2>1, NamesAssumption, Zenon
  <1>4. /\ u.content \in Seq(Bytes) /\ Len(u.content) \in Nat
        /\ Len(u.content) <= MaxSize
    BY <1>2, FilesAssumption, ContentIsSeq
  <1>5. Len(u.content) \in 0..MaxSize
    BY <1>4, SizesAssumption
  <1>6. u.content = <<>> <=> Len(u.content) = 0
    BY <1>4, EmptySeq, EmptyContent
  <1> QED BY <1>1, <1>2, <1>3, <1>4, <1>5, <1>6

\* An upload begins with its only START.
LEMMA FramesOfUpload ==
    ASSUME NEW u \in Uploads
    PROVE  /\ Frames(u) \in Seq(FrameSet) /\ Len(Frames(u)) \in Nat \ {0}
           /\ Frames(u)[1].type = "START"
           /\ \A i \in 2..Len(Frames(u)) : Frames(u)[i].type # "START"
  <1> DEFINE size == Len(u.content)
             fr(i) == CASE i = 1        -> [type |-> "START"]
                        [] i = size + 2 -> [type |-> "FINISH"]
                        [] OTHER        -> [type |-> "DATA", offset |-> i - 2,
                                            chunk |-> <<u.content[i - 1]>>]
  <1>1. /\ size \in 0..MaxSize /\ u.content \in Seq(Bytes) /\ MaxSize \in Nat
        /\ size \in Nat
    BY UploadedFile, SizesAssumption
  <1>2. Frames(u) = [i \in 1..(size + 2) |-> fr(i)]
    BY DEF Frames
  <1>3. \A i \in 1..(size + 2) : i # 1 /\ i # size + 2 => u.content[i - 1] \in Bytes
    <2> SUFFICES ASSUME NEW i \in 1..(size + 2), i # 1, i # size + 2
                 PROVE  u.content[i - 1] \in Bytes
      OBVIOUS
    <2>1. i - 1 \in 1..Len(u.content)
      BY <1>1
    <2> QED BY <1>1, <2>1, ElementOfSeq
  <1> HIDE DEF size
  <1>4. ASSUME NEW i \in 1..(size + 2)
        PROVE  fr(i) \in FrameSet /\ (fr(i).type = "START" <=> i = 1)
    <2>1. CASE i = 1
      <3>1. i # size + 2
        BY <1>1, <2>1
      <3>2. fr(i) = [type |-> "START"]
        BY <2>1, <3>1
      <3> QED BY <2>1, <3>2 DEF FrameSet
    <2>2. CASE i = size + 2
      <3>1. i # 1
        BY <1>1, <2>2
      <3>2. fr(i) = [type |-> "FINISH"]
        BY <2>2, <3>1
      <3> QED BY <3>1, <3>2 DEF FrameSet
    <2>3. CASE i # 1 /\ i # size + 2
      <3>1. fr(i) = [type |-> "DATA", offset |-> i - 2, chunk |-> <<u.content[i - 1]>>]
        BY <2>3
      <3>2. i - 2 \in 0..MaxSize
        BY <1>1, <2>3
      <3>3. <<u.content[i - 1]>> \in {<<b>> : b \in Bytes}
        BY <1>3, <2>3
      <3>4. [type |-> "DATA", offset |-> i - 2, chunk |-> <<u.content[i - 1]>>]
               \in [type : {"DATA"}, offset : 0..MaxSize, chunk : {<<b>> : b \in Bytes}]
        BY <3>2, <3>3
      <3>5. fr(i) \in FrameSet
        BY <3>1, <3>4 DEF FrameSet
      <3>6. fr(i).type = "DATA"
        BY <3>1
      <3> QED BY <2>3, <3>5, <3>6
    <2> QED BY <2>1, <2>2, <2>3
  <1> HIDE DEF fr
  <1>5. size + 2 \in Nat
    BY <1>1
  <1>6. Frames(u) \in Seq(FrameSet) /\ Len(Frames(u)) = size + 2
    BY <1>2, <1>4, <1>5, IsASeq
  <1>7. \A i \in 1..(size + 2) : Frames(u)[i] = fr(i)
    BY <1>2
  <1>8. 1 \in 1..(size + 2) /\ \A i \in 2..(size + 2) : i \in 1..(size + 2) /\ i # 1
    BY <1>1
  <1>9. size + 2 \in Nat \ {0}
    BY <1>1
  <1> QED BY <1>4, <1>6, <1>7, <1>8, <1>9

\* The fields of a frame that is not START or FINISH.
LEMMA FrameFields ==
    ASSUME NEW frame \in FrameSet
    PROVE  /\ frame.type \in {"START", "DATA", "FINISH"}
           /\ frame.type = "DATA" =>
                  frame.offset \in 0..MaxSize /\ \E b \in Bytes : frame.chunk = <<b>>
  <1>1. CASE frame \in [type : {"START", "FINISH"}]
    BY <1>1
  <1>2. CASE frame \in [type : {"DATA"}, offset : 0..MaxSize, chunk : {<<b>> : b \in Bytes}]
    BY <1>2
  <1> QED BY <1>1, <1>2 DEF FrameSet

-----------------------------------------------------------------------------
\* Receipts.
LEMMA ReceiptFields ==
    \A n, size, crc, status, count :
        LET r == Receipt(n, size, crc, status, count) IN
        /\ r.name = n /\ r.size = size /\ r.crc = crc /\ r.status = status
        /\ r.count = count
  BY DEF Receipt

\* Receipts have their type,
LEMMA ReceiptType ==
    ASSUME NEW n \in Named, NEW size \in 0..MaxSize, NEW crc \in Files \cup {NoCrc},
           NEW status \in Statuses, NEW count \in Nat
    PROVE  /\ Receipt(n, size, crc, status, count) \in ReceiptSet
           /\ <<Receipt(n, size, crc, status, count)>> \in Seq(ReceiptSet)
  <1>1. Receipt(n, size, crc, status, count) \in ReceiptSet
    BY DEF Receipt, ReceiptSet
  <1> QED BY <1>1

\* those about a transfer,
LEMMA VerdictType ==
    ASSUME FTypeOK, NEW g \in DOMAIN transfers, NEW status \in Statuses
    PROVE  Verdict(transfers[g], status) \in ReceiptSet
  <1>1. transfers[g] \in Transfer /\ landed \in Nat
    BY DEF FTypeOK
  <1>2. /\ transfers[g].name \in Named /\ transfers[g].size \in 0..MaxSize
        /\ transfers[g].crc \in Files
    BY <1>1 DEF Transfer, Named
  <1> QED BY <1>1, <1>2, ReceiptType DEF Verdict

\* about one that is aborted,
LEMMA AbortedType ==
    ASSUME FTypeOK, NEW g
    PROVE  Aborted(g) \in Seq(ReceiptSet)
  <1>1. "FAILED" \in Statuses
    BY DEF Statuses
  <1>2. CASE g \in DOMAIN transfers
    <2>1. Verdict(transfers[g], "FAILED") \in ReceiptSet
      BY <1>1, <1>2, VerdictType
    <2> QED BY <1>2, <2>1 DEF Aborted
  <1>3. CASE g \notin DOMAIN transfers
    BY <1>3, EmptySeq DEF Aborted
  <1> QED BY <1>2, <1>3

\* about a file of the store,
LEMMA ListingType ==
    ASSUME FTypeOK, NEW n \in Stored
    PROVE  /\ Listing(n) \in ReceiptSet
           /\ Len(store[n]) \in 0..MaxSize /\ store[n] \in Files
  <1>1. n \in Names /\ store[n] \in Files /\ landed \in Nat
    BY DEF FTypeOK, Stored
  <1>2. Len(store[n]) \in Nat /\ Len(store[n]) <= MaxSize
    BY <1>1, FilesAssumption, ContentIsSeq
  <1>3. Len(store[n]) \in 0..MaxSize
    BY <1>2, SizesAssumption
  <1>4. "SUCCESS" \in Statuses /\ n \in Named
    BY <1>1 DEF Statuses, Named
  <1> QED BY <1>1, <1>3, <1>4, ReceiptType DEF Listing

\* all that frames are answered with,
LEMMA UplinkReceipts ==
    ASSUME FTypeOK, NEW g \in Ground, Uplink(g)
    PROVE  receipts' \in Seq(ReceiptSet)
  <1>0. landed \in Nat /\ "FAILED" \in Statuses /\ "SUCCESS" \in Statuses
        /\ "IN_PROGRESS" \in Statuses
    BY DEF FTypeOK, Statuses
  <1>1. ASSUME Abort(g) PROVE receipts' \in Seq(ReceiptSet)
    BY <1>1, AbortedType DEF Abort
  <1>2. ASSUME NEW n \in Names \cup BadNames, NEW size \in 0..MaxSize, NEW crc \in Files,
               OnStart(g, n, size, crc)
        PROVE  receipts' \in Seq(ReceiptSet)
    <2>1. n \in Named /\ ReportedName(n) \in Named
      BY DEF Named, ReportedName
    <2>2. /\ Receipt(n, size, crc, "IN_PROGRESS", landed) \in ReceiptSet
          /\ Receipt(ReportedName(n), size, crc, "FAILED", landed) \in ReceiptSet
      BY <1>0, <2>1, ReceiptType
    <2>3. Aborted(g) \in Seq(ReceiptSet)
      BY AbortedType
    <2>4. \/ receipts' = Append(Aborted(g), Receipt(n, size, crc, "IN_PROGRESS", landed))
          \/ receipts' = Append(Aborted(g),
                                Receipt(ReportedName(n), size, crc, "FAILED", landed))
      BY <1>2 DEF OnStart
    <2> QED BY <2>2, <2>3, <2>4, AppendProperties
  <1>3. ASSUME NEW offset, NEW b, OnData(g, offset, <<b>>)
        PROVE  receipts' \in Seq(ReceiptSet)
    BY <1>1, <1>3, EmptySeq DEF OnData
  <1>4. ASSUME OnFinish(g) PROVE receipts' \in Seq(ReceiptSet)
    <2>1. CASE g \in DOMAIN transfers /\ Acceptable(transfers[g]) /\ Land(g)
      <3> DEFINE t == transfers[g]
      <3>1. t \in Transfer
        BY <2>1 DEF FTypeOK
      <3>2. t.name \in Named /\ t.size \in 0..MaxSize /\ t.crc \in Files
        BY <3>1 DEF Transfer, Named
      <3>3. t.buffer = t.crc
        BY <2>1 DEF Acceptable
      <3>4. receipts' = <<Receipt(t.name, t.size, t.buffer, "SUCCESS", landed + 1)>>
        BY <2>1 DEF Land
      <3>5. landed + 1 \in Nat
        BY <1>0
      <3> HIDE DEF t
      <3> QED BY <1>0, <3>2, <3>3, <3>4, <3>5, ReceiptType
    <2> QED BY <1>1, <1>4, <2>1 DEF OnFinish
  <1> QED BY <1>1, <1>2, <1>3, <1>4 DEF Uplink, OnMalformed, ConnectionClosed

\* and all that commands are.
LEMMA CommandReceipts ==
    ASSUME FTypeOK, FileCommand
    PROVE  receipts' \in Seq(ReceiptSet)
  <1>0. landed \in Nat /\ "FAILED" \in Statuses /\ "SUCCESS" \in Statuses
    BY DEF FTypeOK, Statuses
  <1>a. 0 \in 0..MaxSize /\ NoCrc \in Files \cup {NoCrc}
    BY SizesAssumption
  <1>1. StorageView \in Seq(ReceiptSet)
    <2>1. \A n \in Named : <<Receipt(n, 0, NoCrc, "SUCCESS", landed)>> \in Seq(ReceiptSet)
      BY <1>0, <1>a, ReceiptType
    <2>2. "" \in Named
      BY DEF Named
    <2> QED BY <2>1, <2>2, Zenon DEF StorageView
  <1>2. ASSUME NEW n \in Names \cup BadNames, FileDelete(n)
        PROVE  receipts' \in Seq(ReceiptSet)
    <2>1. n \in Named
      BY DEF Named
    <2>2. CASE n \in Stored /\ receipts' = <<Receipt(n, Len(store[n]), NoCrc, "SUCCESS", landed)>>
      BY <1>0, <1>a, <2>1, <2>2, ListingType, ReceiptType
    <2>3. CASE receipts' = <<Receipt(n, 0, NoCrc, "FAILED", landed)>>
      BY <1>0, <1>a, <2>1, <2>3, ReceiptType
    <2> QED BY <1>2, <2>2, <2>3 DEF FileDelete
  <1>3. ASSUME NEW order \in [1..Cardinality(Stored) -> Stored],
               receipts' = [i \in DOMAIN order |-> Listing(order[i])]
        PROVE  receipts' \in Seq(ReceiptSet)
    <2>1. Cardinality(Stored) \in Nat
      <3>1. Stored \subseteq Names /\ IsFiniteSet(Names)
        BY NamesAssumption DEF FTypeOK, Stored
      <3> QED BY <3>1, FS_Subset, FS_CardinalityType
    <2>2. \A i \in 1..Cardinality(Stored) : Listing(order[i]) \in ReceiptSet
      BY ListingType
    <2>3. receipts' = [i \in 1..Cardinality(Stored) |-> Listing(order[i])]
      BY <1>3
    <2> QED BY <2>1, <2>2, <2>3, IsASeq
  <1> QED BY <1>1, <1>2, <1>3 DEF FileCommand, FileList, FileStatus

-----------------------------------------------------------------------------
(***************************************************************************)
(* What a step of the vehicle for ground p does: it leaves the transfers   *)
(* of others alone, it lands at most the transfer of p, which is over      *)
(* then, and what it says of success is true of the store and what it says *)
(* of failure is about p, whose chance is gone.                            *)
(***************************************************************************)
Serves(p) ==
    /\ DOMAIN transfers' \ {p} = DOMAIN transfers \ {p}
    /\ \A g \in DOMAIN transfers \ {p} : transfers'[g] = transfers[g]
    /\ p \in DOMAIN transfers' =>
           /\ transfers'[p].name = upload[p].name
           /\ transfers'[p].size = Len(upload[p].content)
           /\ transfers'[p].crc = upload[p].content
    /\ landed' \in {landed, landed + 1}
    /\ landed' # landed => p \in DOMAIN transfers /\ p \notin DOMAIN transfers'
    /\ Over(p) => p \notin DOMAIN transfers'
    /\ \A i \in DOMAIN receipts' :
           LET r == receipts'[i] IN
           /\ r.status = "SUCCESS" => r.name \in DOMAIN store' /\ store'[r.name] = r.crc
           /\ r.status = "FAILED" =>
                  /\ Ours(p, r) /\ ~Over(p)
                  /\ p \notin DOMAIN transfers' /\ landed' = landed

\* An abort serves the ground whose transfer it was.
LEMMA AbortServes ==
    ASSUME UploadInv, NEW p \in Ground, Abort(p)
    PROVE  Serves(p)
  <1>1. OwnTransfer(p)
    BY DEF UploadInv, OfGround
  <1>2. /\ transfers' = Without(transfers, p) /\ landed' = landed
        /\ receipts' = Aborted(p)
    BY DEF Abort
  <1>3. /\ DOMAIN transfers' = DOMAIN transfers \ {p}
        /\ \A g \in DOMAIN transfers \ {p} : transfers'[g] = transfers[g]
    BY <1>2 DEF Without
  <1>4. ASSUME NEW i \in DOMAIN receipts'
        PROVE  receipts'[i].status = "FAILED" /\ Ours(p, receipts'[i]) /\ ~Over(p)
    <2>1. CASE p \in DOMAIN transfers
      <3>1. receipts' = <<Verdict(transfers[p], "FAILED")>>
        BY <1>2, <2>1 DEF Aborted
      <3>2. receipts'[i] = Verdict(transfers[p], "FAILED")
        BY <3>1
      <3> QED BY <1>1, <2>1, <3>2, ReceiptFields DEF Verdict, OwnTransfer, Ours, Over
    <2>2. CASE p \notin DOMAIN transfers
      BY <1>2, <2>2 DEF Aborted
    <2> QED BY <2>1, <2>2
  <1> QED BY <1>2, <1>3, <1>4 DEF Serves

\* START serves the ground that sent it.
LEMMA StartServes ==
    ASSUME UploadInv, NEW p \in Ground, upload[p] # NoUpload, ~Begun(p),
           OnStart(p, upload[p].name, Len(upload[p].content), upload[p].content)
    PROVE  Serves(p)
  <1> DEFINE n == upload[p].name
             size == Len(upload[p].content)
             crc == upload[p].content
             t == [name |-> n, size |-> size, crc |-> crc, buffer |-> <<>>]
  <1>1. p \notin DOMAIN transfers /\ Aborted(p) = <<>>
    BY DEF UploadInv, OfGround, OwnTransfer, Aborted
  <1>2. ReportedName(n) = n
    <2>1. upload[p] \in Uploads
      BY DEF UploadInv, UploadTypeOK
    <2> QED BY <2>1, UploadedFile, NamesAssumption DEF ReportedName
  <1>3. landed' = landed
    BY DEF OnStart
  <1>4. CASE /\ transfers' = With(transfers, p, t)
             /\ receipts' = Append(Aborted(p), Receipt(n, size, crc, "IN_PROGRESS", landed))
    <2>1. /\ DOMAIN transfers' = DOMAIN transfers \cup {p}
          /\ \A g \in DOMAIN transfers \ {p} : transfers'[g] = transfers[g]
          /\ transfers'[p] = t
      BY <1>4 DEF With
    <2>2. \A i \in DOMAIN receipts' : receipts'[i].status = "IN_PROGRESS"
      <3>1. receipts' = <<Receipt(n, size, crc, "IN_PROGRESS", landed)>>
        BY <1>1, <1>4
      <3> QED BY <3>1, ReceiptFields
    <2>3. t.name = n /\ t.size = size /\ t.crc = crc
      OBVIOUS
    <2> HIDE DEF t
    <2> QED BY <1>3, <2>1, <2>2, <2>3 DEF Serves, Over
  <1>5. CASE /\ transfers' = Without(transfers, p)
             /\ receipts' = Append(Aborted(p),
                                   Receipt(ReportedName(n), size, crc, "FAILED", landed))
    <2>1. /\ DOMAIN transfers' = DOMAIN transfers \ {p}
          /\ \A g \in DOMAIN transfers \ {p} : transfers'[g] = transfers[g]
      BY <1>5 DEF Without
    <2>2. ASSUME NEW i \in DOMAIN receipts'
          PROVE  receipts'[i].status = "FAILED" /\ Ours(p, receipts'[i])
      <3>1. receipts' = <<Receipt(n, size, crc, "FAILED", landed)>>
        BY <1>1, <1>2, <1>5
      <3>2. receipts'[i] = Receipt(n, size, crc, "FAILED", landed)
        BY <3>1
      <3> QED BY <3>2, ReceiptFields DEF Ours
    <2> QED BY <1>3, <2>1, <2>2 DEF Serves, Over
  <1> QED BY <1>4, <1>5 DEF OnStart

\* So does DATA,
LEMMA DataServes ==
    ASSUME UploadInv, NEW p \in Ground, NEW offset, NEW chunk, OnData(p, offset, chunk)
    PROVE  Serves(p)
  <1>1. CASE ~Continues(p, offset, chunk)
    BY <1>1, AbortServes DEF OnData
  <1>2. CASE Continues(p, offset, chunk)
    <2> DEFINE c == transfers[p].buffer \o chunk
    <2>1. /\ p \in DOMAIN transfers /\ receipts' = <<>> /\ landed' = landed
          /\ transfers' = [transfers EXCEPT ![p].buffer = c]
      BY <1>2 DEF OnData, Continues
    <2> HIDE DEF c
    <2>2. transfers[p] \in Transfer
      BY <2>1 DEF UploadInv, UploadTypeOK, FTypeOK
    <2>3. transfers'[p] = [transfers[p] EXCEPT !.buffer = c]
      BY <2>1
    <2>4. /\ transfers'[p].name = transfers[p].name
          /\ transfers'[p].size = transfers[p].size
          /\ transfers'[p].crc = transfers[p].crc
      BY <2>2, <2>3 DEF Transfer
    <2>5. OwnTransfer(p)
      BY DEF UploadInv, OfGround
    <2>6. /\ DOMAIN transfers' = DOMAIN transfers
          /\ \A g \in DOMAIN transfers \ {p} : transfers'[g] = transfers[g]
      BY <2>1
    <2>7. DOMAIN receipts' = {}
      BY <2>1
    <2> QED BY <2>1, <2>4, <2>5, <2>6, <2>7 DEF Serves, OwnTransfer, Over
  <1> QED BY <1>1, <1>2

\* and FINISH, whether the file lands or not.
LEMMA FinishServes ==
    ASSUME UploadInv, NEW p \in Ground, OnFinish(p)
    PROVE  Serves(p)
  <1>1. CASE Abort(p)
    BY <1>1, AbortServes
  <1>2. CASE p \in DOMAIN transfers /\ Acceptable(transfers[p]) /\ Land(p)
    <2> DEFINE t == transfers[p]
               q == Receipt(t.name, t.size, t.buffer, "SUCCESS", landed + 1)
    <2>1. /\ store' = With(store, t.name, t.buffer) /\ landed' = landed + 1
          /\ transfers' = Without(transfers, p) /\ receipts' = <<q>>
      BY <1>2 DEF Land
    <2>2. /\ DOMAIN transfers' = DOMAIN transfers \ {p}
          /\ \A g \in DOMAIN transfers \ {p} : transfers'[g] = transfers[g]
      BY <2>1 DEF Without
    <2>3. q.name = t.name /\ q.crc = t.buffer /\ q.status = "SUCCESS"
      BY ReceiptFields
    <2>4. t.name \in DOMAIN store' /\ store'[t.name] = t.buffer
      BY <2>1 DEF With
    <2> HIDE DEF q
    <2>5. \A i \in DOMAIN receipts' : receipts'[i] = q
      BY <2>1
    <2> QED BY <1>2, <2>1, <2>2, <2>3, <2>4, <2>5 DEF Serves
  <1> QED BY <1>1, <1>2 DEF OnFinish

\* A frame that arrives is a step of the file service, and serves its ground.
LEMMA FrameServes ==
    ASSUME UploadInv, NEW p \in Ground, FrameArrives(p)
    PROVE  Uplink(p) /\ Serves(p)
  <1> DEFINE frame == Head(uplink[p])
             u == upload[p]
  <1>1. conn[p] \in {"open", "dropped"} /\ uplink[p] # <<>>
    BY DEF FrameArrives
  <1>2. upload[p] # NoUpload /\ u \in Uploads
    BY <1>1 DEF UploadInv, OfGround, UploadTypeOK
  <1>3. uplink[p] \in Seq(FrameSet)
    BY DEF UploadInv, UploadTypeOK
  <1>4. frame \in FrameSet /\ frame = uplink[p][1]
    BY <1>1, <1>3
  <1>5. \/ /\ frame.type = "START"
           /\ OnStart(p, u.name, Len(u.content), u.content)
        \/ frame.type = "DATA" /\ OnData(p, frame.offset, frame.chunk)
        \/ frame.type = "FINISH" /\ OnFinish(p)
    BY DEF FrameArrives
  <1> HIDE DEF frame
  <1>6. CASE frame.type = "START" /\ OnStart(p, u.name, Len(u.content), u.content)
    <2>1. ~Begun(p)
      BY <1>1, <1>4, <1>6 DEF Begun
    <2>2. Serves(p)
      BY <1>2, <1>6, <2>1, StartServes
    <2>3. u.name \in Names \cup BadNames /\ Len(u.content) \in 0..MaxSize /\ u.content \in Files
      BY <1>2, UploadedFile
    <2> HIDE DEF u
    <2>4. Uplink(p)
      BY <1>6, <2>3 DEF Uplink
    <2> QED BY <2>2, <2>4
  <1>7. CASE frame.type = "DATA" /\ OnData(p, frame.offset, frame.chunk)
    <2>1. frame.offset \in 0..MaxSize /\ \E b \in Bytes : frame.chunk = <<b>>
      BY <1>4, <1>7, FrameFields
    <2>2. Uplink(p)
      BY <1>7, <2>1 DEF Uplink
    <2> QED BY <1>7, <2>2, DataServes
  <1>8. CASE frame.type = "FINISH" /\ OnFinish(p)
    BY <1>8, FinishServes DEF Uplink
  <1> QED BY <1>5, <1>6, <1>7, <1>8

\* What the operator's console is told: it says nothing of a ground's failure
\* that carries a checksum, and a SUCCESS with one is about what is stored.
LEMMA CommandTells ==
    ASSUME UploadInv, FileCommand, NEW i \in DOMAIN receipts',
           NEW g \in Ground, upload[g] # NoUpload, Ours(g, receipts'[i])
    PROVE  /\ receipts'[i].status = "SUCCESS" => HasFile(g)
           /\ receipts'[i].status = "FAILED" => upload[g].content = <<>>
  <1> DEFINE r == receipts'[i]
  <1>1. upload[g] \in Uploads
    BY DEF UploadInv, UploadTypeOK
  <1>2. /\ r.name = upload[g].name /\ r.size = Len(upload[g].content)
        /\ r.crc = upload[g].content
    BY DEF Ours
  <1>3. /\ upload[g].name \in Names
        /\ upload[g].content = <<>> <=> Len(upload[g].content) = 0
    BY <1>1, UploadedFile
  <1>4. FTypeOK
    BY DEF UploadInv, UploadTypeOK
  <1>5. CASE receipts' = StorageView
    <2>1. ASSUME NEW n, receipts' = <<Receipt(n, 0, NoCrc, "SUCCESS", landed)>>
          PROVE  r.name = n
      <3>1. r = Receipt(n, 0, NoCrc, "SUCCESS", landed)
        BY <2>1
      <3> QED BY <3>1, ReceiptFields
    <2>2. r.name = ""
      BY <1>5, <2>1, Zenon DEF StorageView
    <2> QED BY <1>2, <1>3, <2>2, NamesAssumption, Zenon
  <1>6. ASSUME NEW n, FileDelete(n)
        PROVE  /\ r.status = "SUCCESS" => HasFile(g)
               /\ r.status = "FAILED" => upload[g].content = <<>>
    <2>1. CASE n \in Stored /\ receipts' = <<Receipt(n, Len(store[n]), NoCrc, "SUCCESS", landed)>>
      <3>1. r = Receipt(n, Len(store[n]), NoCrc, "SUCCESS", landed)
        BY <2>1
      <3>2. /\ r.name = n /\ r.size = Len(store[n]) /\ r.crc = NoCrc
            /\ r.status = "SUCCESS"
        BY <3>1, ReceiptFields
      <3>3. upload[g].content = <<>> /\ Len(store[n]) = 0
        BY <1>2, <1>3, <3>2 DEF NoCrc
      <3>4. store[n] = <<>>
        <4>1. store[n] \in Seq(Bytes)
          BY <1>4, <2>1, FilesAssumption, ContentIsSeq DEF FTypeOK, Stored
        <4> QED BY <3>3, <4>1, EmptySeq
      <3> QED BY <1>2, <2>1, <3>2, <3>3, <3>4 DEF HasFile
    <2>2. CASE receipts' = <<Receipt(n, 0, NoCrc, "FAILED", landed)>>
      <3>1. r = Receipt(n, 0, NoCrc, "FAILED", landed)
        BY <2>2
      <3>2. r.crc = NoCrc /\ r.status = "FAILED"
        BY <3>1, ReceiptFields
      <3> QED BY <1>2, <3>2 DEF NoCrc
    <2> QED BY <1>6, <2>1, <2>2 DEF FileDelete
  <1>7. ASSUME NEW order \in [1..Cardinality(Stored) -> Stored],
               receipts' = [j \in DOMAIN order |-> Listing(order[j])]
        PROVE  r.status = "SUCCESS" /\ HasFile(g)
    <2>1. order[i] \in Stored /\ r = Listing(order[i])
      BY <1>7
    <2>2. /\ r.name = order[i] /\ r.crc = store[order[i]] /\ r.status = "SUCCESS"
      BY <2>1, ReceiptFields DEF Listing
    <2> QED BY <1>2, <2>1, <2>2 DEF HasFile
  <1> QED BY <1>5, <1>6, <1>7 DEF FileCommand, FileList, FileStatus

-----------------------------------------------------------------------------
\* A broadcast adds all the receipts to a queue or none, and drops a client at
\* worst.
LEMMA BroadcastEffect ==
    ASSUME UploadInv, NEW rs \in Seq(ReceiptSet), NEW c \in [Ground -> ConnStates],
           Broadcast(rs, c)
    PROVE  /\ downlink' \in [Ground -> Seq(ReceiptSet)] /\ conn' \in [Ground -> ConnStates]
           /\ \A g \in Ground :
                 /\ conn'[g] = c[g] \/ (c[g] = "open" /\ conn'[g] = "dropped")
                 /\ \/ downlink'[g] = downlink[g]
                    \/ /\ c[g] = "open" /\ verdict[g] = "NONE"
                       /\ downlink'[g] = downlink[g] \o rs
  <1>1. /\ downlink' = [g \in Ground |->
               IF c[g] = "open" /\ g \notin Full(rs, c) /\ verdict[g] = "NONE"
               THEN downlink[g] \o rs ELSE downlink[g]]
        /\ conn' = [g \in Ground |-> IF g \in Full(rs, c) THEN "dropped" ELSE c[g]]
    BY DEF Broadcast, Sent
  <1>2. \A g \in Ground : g \in Full(rs, c) => c[g] = "open"
    BY DEF Full
  <1>3. downlink \in [Ground -> Seq(ReceiptSet)] /\ "dropped" \in ConnStates
    BY DEF UploadInv, UploadTypeOK, ConnStates
  <1>4. \A g \in Ground : downlink[g] \o rs \in Seq(ReceiptSet)
    BY <1>3, ConcatProperties
  <1>5. downlink' \in [Ground -> Seq(ReceiptSet)]
    BY <1>1, <1>3, <1>4
  <1>6. conn' \in [Ground -> ConnStates]
    BY <1>1, <1>3
  <1> QED BY <1>1, <1>2, <1>5, <1>6

\* Uploads of the same name and content are the same.
LEMMA UploadFields ==
    \A u, v \in Uploads : u.name = v.name /\ u.content = v.content => u = v
  <1>1. \A u \in Uploads : u \in [name : Names, content : Files]
    BY UploadedFile
  <1> QED BY <1>1

\* What arrives in the queue behind what lies there.
LEMMA QueuedReceipts ==
    ASSUME NEW q \in Seq(ReceiptSet), NEW rs \in Seq(ReceiptSet), NEW i \in DOMAIN (q \o rs)
    PROVE  \/ i \in DOMAIN q /\ (q \o rs)[i] = q[i]
           \/ \E j \in DOMAIN rs : (q \o rs)[i] = rs[j]
  <1>1. /\ Len(q) \in Nat /\ Len(rs) \in Nat /\ i \in 1..Len(q) + Len(rs)
        /\ DOMAIN q = 1..Len(q) /\ DOMAIN rs = 1..Len(rs)
        /\ (q \o rs)[i] = IF i <= Len(q) THEN q[i] ELSE rs[i - Len(q)]
    <2>1. /\ Len(q) \in Nat /\ Len(rs) \in Nat
          /\ DOMAIN q = 1..Len(q) /\ DOMAIN rs = 1..Len(rs)
      BY LenProperties
    <2>2. /\ q \o rs \in Seq(ReceiptSet) /\ Len(q \o rs) = Len(q) + Len(rs)
          /\ \A k \in 1..Len(q) + Len(rs) :
                 (q \o rs)[k] = IF k <= Len(q) THEN q[k] ELSE rs[k - Len(q)]
      BY ConcatProperties
    <2>3. DOMAIN (q \o rs) = 1..Len(q) + Len(rs)
      BY <2>2, LenProperties
    <2> QED BY <2>1, <2>2, <2>3
  <1>2. CASE i <= Len(q)
    BY <1>1, <1>2
  <1>3. CASE ~(i <= Len(q))
    <2>1. i - Len(q) \in DOMAIN rs
      BY <1>1, <1>3
    <2> QED BY <1>1, <1>3, <2>1
  <1> QED BY <1>2, <1>3

(***************************************************************************)
(* A step of the vehicle for the grounds own keeps what is known of every  *)
(* ground, whoever hears its receipts.                                     *)
(***************************************************************************)
LEMMA ServedInv ==
    ASSUME UploadInv, NEW own \in SUBSET Ground, NEW c \in [Ground -> ConnStates],
           FTypeOK', upload' = upload, verdict' = verdict,
           uplink' \in [Ground -> Seq(FrameSet)], receipts' \in Seq(ReceiptSet),
           Broadcast(receipts', c), Witness(own),
           \A g \in Ground :
               \/ c[g] = conn[g]
               \/ g \in own /\ c[g] = "ended" /\ g \notin DOMAIN transfers',
           \A g \in Ground \ own :
               /\ uplink'[g] = uplink[g]
               /\ g \in DOMAIN transfers' <=> g \in DOMAIN transfers
               /\ g \in DOMAIN transfers => transfers'[g] = transfers[g],
           \A p \in own :
               /\ upload[p] # NoUpload /\ conn[p] \in {"open", "dropped"} /\ Serves(p)
               /\ uplink'[p] = <<>> \/ (uplink[p] # <<>> /\ uplink'[p] = Tail(uplink[p])),
           \A i \in DOMAIN receipts', g \in Ground :
               upload[g] # NoUpload /\ Ours(g, receipts'[i]) =>
                  /\ receipts'[i].status = "SUCCESS" => HasFile(g) \/ HasFile(g)'
                  /\ receipts'[i].status = "FAILED" =>
                        \/ upload[g].content = <<>>
                        \/ \E p \in own : /\ Ours(p, receipts'[i]) /\ ~Over(p)
                                          /\ p \notin DOMAIN transfers' /\ landed' = landed
    PROVE  UploadInv'
  <1>1. /\ downlink' \in [Ground -> Seq(ReceiptSet)] /\ conn' \in [Ground -> ConnStates]
        /\ \A g \in Ground :
              /\ conn'[g] = c[g] \/ (c[g] = "open" /\ conn'[g] = "dropped")
              /\ \/ downlink'[g] = downlink[g]
                 \/ /\ c[g] = "open" /\ verdict[g] = "NONE"
                    /\ downlink'[g] = downlink[g] \o receipts'
    BY BroadcastEffect
  <1>2. UploadTypeOK'
    BY <1>1 DEF UploadInv, UploadTypeOK
  <1>3. /\ landedOwn' = IF landed' > landed THEN landedOwn \cup own ELSE landedOwn
        /\ held' = held \cup {g \in Ground :
                              /\ Watching(g)
                              /\ upload[g].name \in DOMAIN store'
                              /\ store'[upload[g].name] = upload[g].content}
    BY DEF Witness
  <1>4. landed \in Nat /\ upload \in [Ground -> Uploads \cup {NoUpload}]
    BY DEF UploadInv, UploadTypeOK, FTypeOK
  <1>5. ASSUME NEW g \in Ground PROVE OfGround(g)'
    <2>1. OfGround(g) /\ uplink[g] \in Seq(FrameSet) /\ downlink[g] \in Seq(ReceiptSet)
          /\ uplink'[g] \in Seq(FrameSet)
      BY DEF UploadInv, UploadTypeOK
    <2>2. g \in own => Serves(g) /\ upload[g] # NoUpload
      OBVIOUS
    <2>3. \A i \in 2..Len(uplink'[g]) : uplink'[g][i].type # "START"
      <3>1. CASE uplink'[g] = uplink[g]
        BY <2>1, <3>1 DEF OfGround
      <3>2. CASE uplink'[g] = <<>>
        BY <3>2
      <3>3. CASE uplink[g] # <<>> /\ uplink'[g] = Tail(uplink[g])
        <4>1. /\ Len(uplink'[g]) = Len(uplink[g]) - 1 /\ Len(uplink[g]) \in Nat
              /\ \A i \in 1..Len(uplink'[g]) : uplink'[g][i] = uplink[g][i + 1]
          BY <2>1, <3>3, HeadTailProperties, LenProperties
        <4>2. SUFFICES ASSUME NEW i \in 2..Len(uplink'[g])
                       PROVE  uplink'[g][i].type # "START"
          OBVIOUS
        <4>3. i \in 1..Len(uplink'[g]) /\ i + 1 \in 2..Len(uplink[g])
          BY <4>1, <4>2
        <4> QED BY <2>1, <4>1, <4>3 DEF OfGround
      <3> QED BY <3>1, <3>2, <3>3
    <2>4. g \in own => Begun(g)'
      <3>1. SUFFICES ASSUME g \in own, uplink'[g] # <<>>, uplink[g] # <<>>,
                            uplink'[g] = Tail(uplink[g])
                     PROVE  uplink'[g][1].type # "START"
        BY DEF Begun
      <3>2. /\ Len(uplink'[g]) = Len(uplink[g]) - 1 /\ Len(uplink[g]) \in Nat
            /\ \A i \in 1..Len(uplink'[g]) : uplink'[g][i] = uplink[g][i + 1]
        BY <2>1, <3>1, HeadTailProperties, LenProperties
      <3>3. Len(uplink'[g]) # 0
        BY <2>1, <3>1, EmptySeq
      <3>5. Len(uplink'[g]) \in Nat
        BY <2>1, LenProperties
      <3>6. \A m, n \in Nat : m = n - 1 /\ m # 0 => 1 \in 1..m /\ 2 \in 2..n
        OBVIOUS
      <3>4. 1 \in 1..Len(uplink'[g]) /\ 2 \in 2..Len(uplink[g])
        BY <3>2, <3>3, <3>5, <3>6
      <3>7. uplink'[g][1] = uplink[g][2]
        <4>1. uplink'[g][1] = uplink[g][1 + 1]
          BY <3>2, <3>4
        <4> QED BY <4>1
      <3> QED BY <2>1, <3>4, <3>7 DEF OfGround
    <2>5. Begun(g) => Begun(g)'
      BY <2>4 DEF Begun
    <2>6. Over(g) => Over(g)'
      <3>1. CASE g \in own
        BY <2>2, <2>4, <3>1 DEF Over, Serves
      <3>2. CASE g \notin own
        BY <2>5, <3>2 DEF Over
      <3> QED BY <3>1, <3>2
    <2>7. g \in landedOwn' => g \in landedOwn \/ (g \in own /\ landed' # landed)
      BY <1>3, <1>4
    <2>8. FailedAlone(g) => FailedAlone(g)'
      <3>1. Over(g) /\ g \in own => landed' = landed
        BY <2>2 DEF Over, Serves
      <3> QED BY <2>6, <2>7, <3>1 DEF FailedAlone
    <2>9. upload[g] = NoUpload =>
             /\ conn'[g] = "none" /\ uplink'[g] = <<>> /\ downlink'[g] = <<>>
             /\ verdict'[g] = "NONE" /\ g \notin landedOwn'
      <3>1. SUFFICES ASSUME upload[g] = NoUpload
                     PROVE  /\ conn'[g] = "none" /\ uplink'[g] = <<>> /\ downlink'[g] = <<>>
                            /\ verdict'[g] = "NONE" /\ g \notin landedOwn'
        OBVIOUS
      <3>2. g \notin own /\ c[g] = conn[g] /\ conn[g] = "none"
        BY <2>1, <3>1 DEF OfGround
      <3>3. conn'[g] = "none" /\ downlink'[g] = downlink[g]
        BY <1>1, <3>2
      <3> QED BY <2>1, <2>7, <3>1, <3>2, <3>3 DEF OfGround
    <2>10. OwnTransfer(g)'
      <3>1. SUFFICES ASSUME g \in DOMAIN transfers'
                     PROVE  /\ conn'[g] \in {"open", "dropped"} /\ Begun(g)'
                            /\ transfers'[g].name = upload[g].name
                            /\ transfers'[g].size = Len(upload[g].content)
                            /\ transfers'[g].crc = upload[g].content
        BY DEF OwnTransfer
      <3>2. c[g] = conn[g]
        BY <3>1
      <3>3. CASE g \in own
        BY <1>1, <2>2, <2>4, <3>1, <3>2, <3>3 DEF Serves
      <3>4. CASE g \notin own
        BY <1>1, <2>1, <2>5, <3>1, <3>2, <3>4 DEF OfGround, OwnTransfer
      <3> QED BY <3>3, <3>4
    <2>11. g \in landedOwn' => Over(g)'
      <3>1. CASE g \in landedOwn
        BY <2>1, <2>6, <3>1 DEF OfGround
      <3>2. CASE g \in own /\ landed' # landed
        BY <2>2, <2>4, <3>2 DEF Over, Serves
      <3> QED BY <2>7, <3>1, <3>2
    <2>12. Watching(g)' /\ HasFile(g)' => g \in held'
      BY <1>3 DEF Watching, HasFile, Stored
    <2>13. (HasTwin(g)' <=> HasTwin(g)) /\ (g \in held => g \in held')
      BY <1>3 DEF HasTwin
    <2>14. ASSUME NEW r, Conclusive(g, r) PROVE Conclusive(g, r)'
      BY <2>8, <2>13, <2>14 DEF Conclusive, Ours
    <2>15. ASSUME NEW j \in DOMAIN receipts', c[g] = "open", verdict[g] = "NONE"
           PROVE  Conclusive(g, receipts[j])'
      <3> DEFINE r == receipts'[j]
      <3>1. conn[g] = "open" /\ upload[g] # NoUpload /\ Watching(g)
        <4>1. conn[g] = "open"
          BY <2>15
        <4>2. upload[g] # NoUpload
          BY <2>1, <4>1 DEF OfGround
        <4> QED BY <2>15, <4>1, <4>2 DEF Watching
      <3>2. SUFFICES ASSUME Ours(g, r)
                     PROVE  /\ r.status = "SUCCESS" => g \in held'
                            /\ r.status = "FAILED" /\ upload[g].content # <<>> /\ ~HasTwin(g)
                                  => FailedAlone(g)'
        BY <2>13 DEF Conclusive, Ours
      <3>3. ASSUME r.status = "SUCCESS" PROVE g \in held'
        <4>1. HasFile(g) \/ HasFile(g)'
          BY <3>1, <3>2, <3>3
        <4>2. HasFile(g) => g \in held'
          BY <2>1, <2>13, <3>1 DEF OfGround
        <4>3. Watching(g)'
          BY <3>1 DEF Watching
        <4> QED BY <2>12, <4>1, <4>2, <4>3
      <3>4. ASSUME r.status = "FAILED", upload[g].content # <<>>, ~HasTwin(g)
            PROVE  FailedAlone(g)'
        <4>1. PICK p \in own : /\ Ours(p, r) /\ ~Over(p)
                               /\ p \notin DOMAIN transfers' /\ landed' = landed
          BY <3>1, <3>2, <3>4
        <4>2. p \in Ground /\ upload[p] \in Uploads /\ upload[g] \in Uploads
          BY <1>4, <3>1
        <4>3. upload[g] = upload[p]
          <5>1. /\ upload[g].name = upload[p].name
                /\ upload[g].content = upload[p].content
            BY <3>2, <4>1 DEF Ours
          <5> QED BY <4>2, <5>1, UploadFields
        <4>4. p = g
          BY <3>4, <4>2, <4>3 DEF HasTwin
        <4>5. g \notin landedOwn
          BY <2>1, <4>1, <4>4 DEF OfGround
        <4> QED BY <2>4, <2>7, <4>1, <4>4, <4>5 DEF FailedAlone, Over
      <3> QED BY <3>3, <3>4
    <2>16. \A i \in DOMAIN downlink'[g] : Conclusive(g, downlink[g][i])'
      <3>1. SUFFICES ASSUME NEW i \in DOMAIN downlink'[g]
                     PROVE  Conclusive(g, downlink[g][i])'
        OBVIOUS
      <3>2. \A k \in DOMAIN downlink[g] : Conclusive(g, downlink[g][k])
        BY <2>1 DEF OfGround
      <3>3. CASE \E k \in DOMAIN downlink[g] : downlink'[g][i] = downlink[g][k]
        <4>1. PICK k \in DOMAIN downlink[g] : downlink'[g][i] = downlink[g][k]
          BY <3>3
        <4>2. ASSUME NEW r, r = downlink[g][k] PROVE Conclusive(g, r)'
          <5>1. Conclusive(g, r)
            BY <3>2, <4>2
          <5> QED BY <2>14, <5>1
        <4> QED BY <4>1, <4>2 DEF Conclusive, Ours
      <3>4. CASE c[g] = "open" /\ verdict[g] = "NONE"
                 /\ downlink'[g] = downlink[g] \o receipts'
        <4>1. \/ i \in DOMAIN downlink[g] /\ downlink'[g][i] = downlink[g][i]
              \/ \E j \in DOMAIN receipts' : downlink'[g][i] = receipts'[j]
          BY <2>1, <3>1, <3>4, QueuedReceipts
        <4>2. CASE \E j \in DOMAIN receipts' : downlink'[g][i] = receipts'[j]
          <5>1. PICK j \in DOMAIN receipts' : downlink'[g][i] = receipts'[j]
            BY <4>2
          <5>2. Conclusive(g, receipts[j])'
            BY <2>15, <3>4
          <5> QED BY <5>1, <5>2 DEF Conclusive, Ours
        <4> QED BY <3>3, <4>1, <4>2
      <3> QED BY <1>1, <3>1, <3>3, <3>4
    <2>17. verdict'[g] = "SUCCESS" => g \in held'
      BY <2>1, <2>13 DEF OfGround
    <2>18. verdict'[g] = "FAILED" /\ upload'[g].content # <<>> /\ ~HasTwin(g)' => FailedAlone(g)'
      BY <2>1, <2>8, <2>13 DEF OfGround
    <2> QED BY <2>3, <2>9, <2>10, <2>11, <2>12, <2>16, <2>17, <2>18 DEF OfGround
  <1> QED BY <1>2, <1>5 DEF UploadInv

-----------------------------------------------------------------------------
\* At first nobody uploads.
LEMMA InitUploadInv == UploadInit => UploadInv
  <1> SUFFICES ASSUME UploadInit PROVE UploadInv
    OBVIOUS
  <1>1. /\ Init /\ landedOwn = {} /\ held = {}
        /\ upload = [g \in Ground |-> NoUpload] /\ verdict = [g \in Ground |-> "NONE"]
        /\ uplink = [g \in Ground |-> <<>>] /\ downlink = [g \in Ground |-> <<>>]
        /\ conn = [g \in Ground |-> "none"]
    BY DEF UploadInit
  <1>2. FTypeOK /\ DOMAIN transfers = {}
    BY <1>1, InitType DEF Init
  <1>3. <<>> \in Seq(FrameSet) /\ <<>> \in Seq(ReceiptSet)
    BY EmptySeq
  <1>4. "NONE" \in Verdicts /\ "none" \in ConnStates
    BY DEF Verdicts, ConnStates
  <1>5. UploadTypeOK
    BY <1>1, <1>2, <1>3, <1>4 DEF UploadTypeOK
  <1>6. ASSUME NEW g \in Ground PROVE OfGround(g)
    <2>1. /\ upload[g] = NoUpload /\ verdict[g] = "NONE" /\ uplink[g] = <<>>
          /\ downlink[g] = <<>> /\ conn[g] = "none" /\ g \notin landedOwn
          /\ g \notin DOMAIN transfers
      BY <1>1, <1>2
    <2>2. ~Watching(g) /\ OwnTransfer(g)
      BY <2>1 DEF Watching, OwnTransfer
    <2>3. 2..Len(uplink[g]) = {} /\ DOMAIN downlink[g] = {}
      BY <2>1
    <2> QED BY <2>1, <2>2, <2>3 DEF OfGround
  <1> QED BY <1>5, <1>6 DEF UploadInv

\* What is left of a queue was in it.
LEMMA RestOfQueue ==
    ASSUME NEW q \in Seq(ReceiptSet), q # <<>>
    PROVE  /\ 1 \in DOMAIN q /\ Head(q) = q[1] /\ Tail(q) \in Seq(ReceiptSet)
           /\ \A i \in DOMAIN Tail(q) : \E k \in DOMAIN q : Tail(q)[i] = q[k]
  <1>1. /\ Tail(q) \in Seq(ReceiptSet) /\ Len(Tail(q)) = Len(q) - 1 /\ Len(q) \in Nat
        /\ \A i \in 1..Len(Tail(q)) : Tail(q)[i] = q[i + 1]
        /\ DOMAIN q = 1..Len(q) /\ DOMAIN Tail(q) = 1..Len(Tail(q))
    BY HeadTailProperties, LenProperties
  <1>2. Len(q) # 0
    BY EmptySeq
  <1>3. \A i \in DOMAIN Tail(q) : i + 1 \in DOMAIN q
    BY <1>1
  <1>4. 1 \in DOMAIN q
    BY <1>1, <1>2
  <1> QED BY <1>1, <1>3, <1>4

\* A step of one ground, or of its link, that the vehicle does not see.
LEMMA GroundKeeps ==
    ASSUME UploadInv, UploadTypeOK', NEW g \in Ground, OfGround(g)',
           UNCHANGED <<store, transfers, landed, landedOwn>>,
           upload' = upload \/ upload[g] = NoUpload,
           \A h \in Ground \ {g} :
               /\ upload'[h] = upload[h] /\ verdict'[h] = verdict[h]
               /\ uplink'[h] = uplink[h] /\ downlink'[h] = downlink[h]
               /\ conn'[h] = conn[h] /\ (h \in held' <=> h \in held)
    PROVE  UploadInv'
  <1>1. ASSUME NEW h \in Ground \ {g} PROVE OfGround(h)'
    <2>1. /\ OfGround(h)
          /\ upload'[h] = upload[h] /\ verdict'[h] = verdict[h]
          /\ uplink'[h] = uplink[h] /\ downlink'[h] = downlink[h]
          /\ conn'[h] = conn[h] /\ (h \in held' <=> h \in held)
      BY DEF UploadInv
    <2>2. upload[h].content # <<>> /\ HasTwin(h) => HasTwin(h)'
      <3>1. SUFFICES ASSUME upload[h].content # <<>>, HasTwin(h) PROVE HasTwin(h)'
        OBVIOUS
      <3>2. upload[h] # NoUpload
        <4>1. NoUpload.content = <<>>
          BY DEF NoUpload
        <4> QED BY <3>1, <4>1
      <3>3. PICK p \in Ground \ {h} : upload[p] = upload[h]
        BY <3>1 DEF HasTwin
      <3>4. upload'[p] = upload[p]
        BY <3>2, <3>3
      <3> QED BY <2>1, <3>3, <3>4 DEF HasTwin
    <2>3. /\ (Over(h)' <=> Over(h)) /\ (FailedAlone(h)' <=> FailedAlone(h))
          /\ (OwnTransfer(h)' <=> OwnTransfer(h))
          /\ (Watching(h)' <=> Watching(h)) /\ (HasFile(h)' <=> HasFile(h))
      BY <2>1 DEF Over, Begun, FailedAlone, OwnTransfer, Watching, HasFile, Stored
    <2>4. ASSUME NEW r, Conclusive(h, r) PROVE Conclusive(h, r)'
      BY <2>1, <2>2, <2>3, <2>4 DEF Conclusive, Ours
    <2>5. \A i \in DOMAIN downlink'[h] : Conclusive(h, downlink[h][i])'
      <3>1. SUFFICES ASSUME NEW i \in DOMAIN downlink[h]
                     PROVE  Conclusive(h, downlink[h][i])'
        BY <2>1
      <3>2. Conclusive(h, downlink[h][i])
        BY <2>1 DEF OfGround
      <3>3. ASSUME NEW r, r = downlink[h][i] PROVE Conclusive(h, r)'
        BY <2>4, <3>2, <3>3
      <3> QED BY <2>1, <3>3 DEF Conclusive, Ours
    <2> QED BY <2>1, <2>2, <2>3, <2>5 DEF OfGround
  <1> QED BY <1>1 DEF UploadInv

\* The end of a watch, with a verdict that the history backs.
LEMMA EndsInv ==
    ASSUME UploadInv, NEW g \in Ground, NEW v \in Verdicts, Ends(g, v), Watching(g),
           UNCHANGED <<vars, upload, uplink, conn, history>>,
           v = "SUCCESS" => g \in held,
           v = "FAILED" /\ upload[g].content # <<>> /\ ~HasTwin(g) => FailedAlone(g),
           v # "NONE"
    PROVE  UploadInv'
  <1>1. /\ verdict' = [verdict EXCEPT ![g] = v] /\ downlink' = [downlink EXCEPT ![g] = <<>>]
        /\ UNCHANGED <<store, transfers, landed, upload, uplink, conn, landedOwn, held>>
    BY DEF Ends, vars, history
  <1>2. UploadTypeOK /\ <<>> \in Seq(ReceiptSet)
    BY EmptySeq DEF UploadInv
  <1>3. UploadTypeOK'
    BY <1>1, <1>2 DEF UploadTypeOK, FTypeOK
  <1>4. verdict'[g] = v /\ downlink'[g] = <<>> /\ DOMAIN downlink'[g] = {}
    BY <1>1, <1>2 DEF UploadTypeOK
  <1>5. OfGround(g) /\ upload[g] # NoUpload
    BY DEF UploadInv, Watching
  <1>6. ~Watching(g)' /\ (HasTwin(g)' <=> HasTwin(g)) /\ (Over(g)' <=> Over(g))
        /\ (FailedAlone(g)' <=> FailedAlone(g)) /\ (OwnTransfer(g)' <=> OwnTransfer(g))
    BY <1>1, <1>4 DEF Watching, HasTwin, Over, Begun, FailedAlone, OwnTransfer
  <1>7. OfGround(g)'
    BY <1>1, <1>4, <1>5, <1>6 DEF OfGround
  <1>8. \A h \in Ground \ {g} : verdict'[h] = verdict[h] /\ downlink'[h] = downlink[h]
    BY <1>1, <1>2 DEF UploadTypeOK
  <1> QED BY <1>1, <1>3, <1>7, <1>8, GroundKeeps

\* Receipts that a ground has read, or that were lost, and a link that broke.
LEMMA FewerReceiptsInv ==
    ASSUME UploadInv, NEW g \in Ground, upload[g] # NoUpload,
           UNCHANGED <<vars, upload, verdict, uplink, history>>,
           NEW q \in Seq(ReceiptSet), downlink' = [downlink EXCEPT ![g] = q],
           \A i \in DOMAIN q : \E k \in DOMAIN downlink[g] : q[i] = downlink[g][k],
           conn' = conn \/ (conn[g] = "open" /\ conn' = [conn EXCEPT ![g] = "dropped"])
    PROVE  UploadInv'
  <1>1. UNCHANGED <<store, transfers, landed, landedOwn, held>>
    BY DEF vars, history
  <1>2. UploadTypeOK /\ "dropped" \in ConnStates
    BY DEF UploadInv, ConnStates
  <1>3. UploadTypeOK'
    BY <1>1, <1>2 DEF UploadTypeOK, FTypeOK
  <1>4. /\ downlink'[g] = q /\ OfGround(g)
        /\ conn'[g] = conn[g] \/ (conn[g] = "open" /\ conn'[g] = "dropped")
    BY <1>2 DEF UploadInv, UploadTypeOK
  <1>5. (Watching(g)' <=> Watching(g)) /\ (HasTwin(g)' <=> HasTwin(g))
        /\ (Over(g)' <=> Over(g)) /\ (FailedAlone(g)' <=> FailedAlone(g))
        /\ (HasFile(g)' <=> HasFile(g))
    BY <1>1 DEF Watching, HasTwin, Over, Begun, FailedAlone, HasFile, Stored
  <1>6. OwnTransfer(g)'
    BY <1>1, <1>4 DEF OfGround, OwnTransfer, Begun
  <1>7. \A i \in DOMAIN downlink'[g] : Conclusive(g, downlink[g][i])'
    <2>1. SUFFICES ASSUME NEW i \in DOMAIN q PROVE Conclusive(g, downlink[g][i])'
      BY <1>4
    <2>2. PICK k \in DOMAIN downlink[g] : q[i] = downlink[g][k]
      OBVIOUS
    <2>3. Conclusive(g, downlink[g][k])
      BY <1>4 DEF OfGround
    <2>4. ASSUME NEW r, r = downlink[g][k] PROVE Conclusive(g, r)'
      <3>1. Conclusive(g, r)
        BY <2>3, <2>4
      <3> QED BY <1>1, <1>5, <3>1 DEF Conclusive, Ours
    <2> QED BY <1>4, <2>2, <2>4 DEF Conclusive, Ours
  <1>8. OfGround(g)'
    BY <1>1, <1>4, <1>5, <1>6, <1>7 DEF OfGround
  <1>9. \A h \in Ground \ {g} : downlink'[h] = downlink[h] /\ conn'[h] = conn[h]
    BY <1>2 DEF UploadTypeOK
  <1> QED BY <1>1, <1>3, <1>8, <1>9, GroundKeeps

-----------------------------------------------------------------------------
\* The invariant is kept by a ground that begins an upload,
LEMMA UploadFileInv ==
    ASSUME UploadInv, NEW g \in Ground, NEW u \in Uploads, UploadFile(g, u)
    PROVE  UploadInv'
  <1>1. /\ upload[g] = NoUpload /\ upload' = [upload EXCEPT ![g] = u]
        /\ uplink' = [uplink EXCEPT ![g] = Frames(u)] /\ conn' = [conn EXCEPT ![g] = "open"]
        /\ UNCHANGED <<store, transfers, landed, verdict, downlink, landedOwn>>
        /\ held' = IF u.name \in Stored /\ store[u.name] = u.content
                   THEN held \cup {g} ELSE held
    BY DEF UploadFile, vars
  <1>2. UploadTypeOK /\ OfGround(g) /\ "open" \in ConnStates
    BY DEF UploadInv, ConnStates
  <1>3. /\ Frames(u) \in Seq(FrameSet) /\ u # NoUpload
        /\ \A i \in 2..Len(Frames(u)) : Frames(u)[i].type # "START"
    BY FramesOfUpload, UploadedFile
  <1>4. UploadTypeOK'
    BY <1>1, <1>2, <1>3 DEF UploadTypeOK, FTypeOK
  <1>5. upload'[g] = u /\ uplink'[g] = Frames(u) /\ conn'[g] = "open"
    BY <1>1, <1>2 DEF UploadTypeOK
  <1>6. /\ conn[g] = "none" /\ downlink[g] = <<>> /\ verdict[g] = "NONE"
        /\ g \notin landedOwn /\ g \notin DOMAIN transfers
    BY <1>1, <1>2 DEF OfGround, OwnTransfer
  <1>7. OwnTransfer(g)' /\ (HasFile(g)' => g \in held')
    BY <1>1, <1>5, <1>6 DEF OwnTransfer, HasFile, Stored
  <1>8. DOMAIN downlink'[g] = {} /\ verdict'[g] = "NONE" /\ g \notin landedOwn'
    BY <1>1, <1>6
  <1>9. OfGround(g)'
    BY <1>3, <1>5, <1>7, <1>8 DEF OfGround
  <1>10. \A h \in Ground \ {g} :
            /\ upload'[h] = upload[h] /\ verdict'[h] = verdict[h]
            /\ uplink'[h] = uplink[h] /\ downlink'[h] = downlink[h]
            /\ conn'[h] = conn[h] /\ (h \in held' <=> h \in held)
    BY <1>1, <1>2 DEF UploadTypeOK
  <1> QED BY <1>1, <1>4, <1>9, <1>10, GroundKeeps

\* by one that reads a receipt, whether it believes it or not,
LEMMA GroundReadsInv ==
    ASSUME UploadInv, NEW g \in Ground, GroundReads(g)
    PROVE  UploadInv'
  <1> DEFINE r == Head(downlink[g])
  <1>1. /\ Watching(g) /\ upload[g] # NoUpload /\ downlink[g] # <<>>
        /\ UNCHANGED <<vars, upload, uplink, conn, history>>
    BY DEF GroundReads, Watching
  <1>2. /\ downlink[g] \in Seq(ReceiptSet)
        /\ \A i \in DOMAIN downlink[g] : Conclusive(g, downlink[g][i])
    BY DEF UploadInv, UploadTypeOK, OfGround
  <1>3. /\ 1 \in DOMAIN downlink[g] /\ r = downlink[g][1]
        /\ Tail(downlink[g]) \in Seq(ReceiptSet)
        /\ \A i \in DOMAIN Tail(downlink[g]) :
               \E k \in DOMAIN downlink[g] : Tail(downlink[g])[i] = downlink[g][k]
    BY <1>1, <1>2, RestOfQueue
  <1> HIDE DEF r
  <1>4. Ours(g, r) =>
           /\ r.status = "SUCCESS" => g \in held
           /\ r.status = "FAILED" /\ upload[g].content # <<>> /\ ~HasTwin(g) => FailedAlone(g)
    BY <1>2, <1>3 DEF Conclusive
  <1>5. \/ /\ downlink' = [downlink EXCEPT ![g] = Tail(downlink[g])]
           /\ UNCHANGED verdict
        \/ Ours(g, r) /\ r.status = "FAILED" /\ Ends(g, "FAILED")
        \/ Ours(g, r) /\ r.status = "SUCCESS" /\ Ends(g, "SUCCESS")
    BY DEF GroundReads, Confirms, r
  <1>6. CASE /\ downlink' = [downlink EXCEPT ![g] = Tail(downlink[g])]
             /\ UNCHANGED verdict
    BY <1>1, <1>3, <1>6, FewerReceiptsInv
  <1>7. CASE Ours(g, r) /\ r.status = "FAILED" /\ Ends(g, "FAILED")
    <2>1. "FAILED" \in Verdicts
      BY DEF Verdicts
    <2> QED BY <1>1, <1>4, <1>7, <2>1, EndsInv
  <1>8. CASE Ours(g, r) /\ r.status = "SUCCESS" /\ Ends(g, "SUCCESS")
    <2>1. "SUCCESS" \in Verdicts
      BY DEF Verdicts
    <2> QED BY <1>1, <1>4, <1>8, <2>1, EndsInv
  <1> QED BY <1>5, <1>6, <1>7, <1>8

\* by every other step of a ground,
LEMMA GroundStepInv ==
    ASSUME UploadInv, NEW g \in Ground, GroundStep(g)
    PROVE  UploadInv'
  <1>1. "CLOSED" \in Verdicts /\ "TIMEOUT" \in Verdicts
    BY DEF Verdicts
  <1>2. ASSUME GroundSeesEnd(g) PROVE UploadInv'
    BY <1>1, <1>2, EndsInv DEF GroundSeesEnd
  <1>3. ASSUME GroundTimesOut(g) PROVE UploadInv'
    BY <1>1, <1>3, EndsInv DEF GroundTimesOut
  <1> QED BY <1>2, <1>3, UploadFileInv, GroundReadsInv DEF GroundStep


-----------------------------------------------------------------------------
\* by a link that is lost,
LEMMA LinkStepInv ==
    ASSUME UploadInv, NEW g \in Ground, LinkLost(g) \/ DownlinkLost(g)
    PROVE  UploadInv'
  <1>1. UploadTypeOK /\ OfGround(g) /\ <<>> \in Seq(ReceiptSet)
    BY EmptySeq DEF UploadInv
  <1>2. downlink[g] \in Seq(ReceiptSet) /\ downlink = [downlink EXCEPT ![g] = downlink[g]]
    BY <1>1 DEF UploadTypeOK
  <1>3. CASE LinkLost(g)
    BY <1>2, <1>3, FewerReceiptsInv DEF LinkLost, Watching, groundVars
  <1>4. CASE DownlinkLost(g)
    <2>1. upload[g] # NoUpload
      BY <1>1, <1>4 DEF DownlinkLost, OfGround
    <2>2. \A i \in DOMAIN <<>> : \E k \in DOMAIN downlink[g] : <<>>[i] = downlink[g][k]
      OBVIOUS
    <2> QED BY <1>1, <1>4, <2>1, <2>2, FewerReceiptsInv DEF DownlinkLost, groundVars
  <1> QED BY <1>3, <1>4

\* by a frame and its answer to all,
LEMMA FrameArrivesInv ==
    ASSUME UploadInv, NEW p \in Ground, FrameArrives(p)
    PROVE  UploadInv'
  <1>1. Uplink(p) /\ Serves(p)
    BY FrameServes
  <1>2. UploadTypeOK /\ OfGround(p) /\ FTypeOK
    BY DEF UploadInv, UploadTypeOK
  <1>3. FTypeOK' /\ receipts' \in Seq(ReceiptSet)
    BY <1>1, <1>2, UplinkType, UplinkReceipts
  <1>4. /\ conn[p] \in {"open", "dropped"} /\ uplink[p] # <<>>
        /\ uplink' = [uplink EXCEPT ![p] = Tail(uplink[p])]
        /\ Broadcast(receipts', conn) /\ Witness({p})
        /\ upload' = upload /\ verdict' = verdict
    BY DEF FrameArrives, groundVars
  <1>5. upload[p] # NoUpload
    BY <1>2, <1>4 DEF OfGround
  <1>6. uplink[p] \in Seq(FrameSet) /\ uplink \in [Ground -> Seq(FrameSet)]
        /\ conn \in [Ground -> ConnStates]
    BY <1>2 DEF UploadTypeOK
  <1>7. Tail(uplink[p]) \in Seq(FrameSet)
    BY <1>4, <1>6, HeadTailProperties
  <1>8. /\ uplink' \in [Ground -> Seq(FrameSet)] /\ uplink'[p] = Tail(uplink[p])
        /\ \A g \in Ground \ {p} : uplink'[g] = uplink[g]
    BY <1>4, <1>6, <1>7
  <1>9. \A g \in Ground \ {p} :
           /\ g \in DOMAIN transfers' <=> g \in DOMAIN transfers
           /\ g \in DOMAIN transfers => transfers'[g] = transfers[g]
    BY <1>1 DEF Serves
  <1>10. ASSUME NEW i \in DOMAIN receipts', NEW g \in Ground, Ours(g, receipts'[i])
         PROVE  /\ receipts'[i].status = "SUCCESS" => HasFile(g)'
                /\ receipts'[i].status = "FAILED" =>
                      /\ Ours(p, receipts'[i]) /\ ~Over(p)
                      /\ p \notin DOMAIN transfers' /\ landed' = landed
    BY <1>1, <1>4, <1>10 DEF Serves, Ours, HasFile, Stored
  <1> QED BY <1>1, <1>3, <1>4, <1>5, <1>6, <1>8, <1>9, <1>10, ServedInv

\* by the end of a connection,
LEMMA ConnectionEndsInv ==
    ASSUME UploadInv, NEW p \in Ground, ConnectionEnds(p)
    PROVE  UploadInv'
  <1> DEFINE c == [conn EXCEPT ![p] = "ended"]
  <1>1. /\ conn[p] \in {"open", "dropped"} /\ Abort(p) /\ Broadcast(receipts', c)
        /\ uplink' = [uplink EXCEPT ![p] = <<>>]
        /\ upload' = upload /\ verdict' = verdict
        /\ landedOwn' = landedOwn /\ held' = held
    BY DEF ConnectionEnds, groundVars, history
  <1>2. UploadTypeOK /\ OfGround(p) /\ FTypeOK /\ \A g \in Ground : OfGround(g)
    BY DEF UploadInv, UploadTypeOK
  <1>3. /\ store' = store /\ landed' = landed /\ receipts' = Aborted(p)
        /\ transfers' = Without(transfers, p)
    BY <1>1 DEF Abort
  <1>4. FTypeOK' /\ receipts' \in Seq(ReceiptSet) /\ Serves(p)
    BY <1>1, <1>2, <1>3, AbortType, AbortedType, AbortServes
  <1>5. upload[p] # NoUpload
    BY <1>1, <1>2 DEF OfGround
  <1>6. /\ c \in [Ground -> ConnStates] /\ c[p] = "ended"
        /\ \A g \in Ground \ {p} : c[g] = conn[g]
    BY <1>2 DEF UploadTypeOK, ConnStates
  <1>7. /\ uplink' \in [Ground -> Seq(FrameSet)] /\ uplink'[p] = <<>>
        /\ \A g \in Ground \ {p} : uplink'[g] = uplink[g]
    BY <1>1, <1>2, EmptySeq DEF UploadTypeOK
  <1>8. p \notin DOMAIN transfers'
    BY <1>3 DEF Without
  <1>9. \A g \in Ground \ {p} :
           /\ g \in DOMAIN transfers' <=> g \in DOMAIN transfers
           /\ g \in DOMAIN transfers => transfers'[g] = transfers[g]
    BY <1>3 DEF Without
  <1>10. Witness({p})
    <2>1. landed \in Nat
      BY <1>2 DEF FTypeOK
    <2>2. ~(landed' > landed)
      BY <1>3, <2>1
    <2>3. \A g \in Ground :
             Watching(g) /\ upload[g].name \in DOMAIN store'
                         /\ store'[upload[g].name] = upload[g].content => g \in held
      BY <1>2, <1>3 DEF OfGround, HasFile, Stored
    <2> QED BY <1>1, <2>2, <2>3 DEF Witness
  <1> HIDE DEF c
  <1>11. ASSUME NEW i \in DOMAIN receipts', NEW g \in Ground, Ours(g, receipts'[i])
         PROVE  /\ receipts'[i].status = "SUCCESS" => HasFile(g)'
                /\ receipts'[i].status = "FAILED" =>
                      /\ Ours(p, receipts'[i]) /\ ~Over(p)
                      /\ p \notin DOMAIN transfers' /\ landed' = landed
    BY <1>1, <1>4, <1>11 DEF Serves, Ours, HasFile, Stored
  <1> QED BY <1>1, <1>4, <1>5, <1>6, <1>7, <1>8, <1>9, <1>10, <1>11, ServedInv


\* by a command from the console,
LEMMA ConsoleCommandInv ==
    ASSUME UploadInv, ConsoleCommand
    PROVE  UploadInv'
  <1>1. /\ FileCommand /\ Broadcast(receipts', conn) /\ Witness({})
        /\ upload' = upload /\ verdict' = verdict /\ uplink' = uplink
    BY DEF ConsoleCommand, groundVars
  <1>2. FTypeOK /\ conn \in [Ground -> ConnStates] /\ uplink \in [Ground -> Seq(FrameSet)]
    BY DEF UploadInv, UploadTypeOK
  <1>3. FTypeOK' /\ receipts' \in Seq(ReceiptSet)
    <2>1. [Next]_vars
      BY <1>1 DEF Next
    <2> QED BY <1>1, <1>2, <2>1, NextType, CommandReceipts
  <1>4. transfers' = transfers
    BY <1>1 DEF FileCommand, FileList, FileStatus, FileDelete
  <1>5. ASSUME NEW i \in DOMAIN receipts', NEW g \in Ground,
               upload[g] # NoUpload, Ours(g, receipts'[i])
        PROVE  /\ receipts'[i].status = "SUCCESS" => HasFile(g)
               /\ receipts'[i].status = "FAILED" => upload[g].content = <<>>
    BY <1>1, <1>5, CommandTells
  <1>6. {} \in SUBSET Ground
    OBVIOUS
  <1> QED BY <1>1, <1>2, <1>3, <1>4, <1>5, <1>6, ServedInv

\* and by a restart of the vehicle.
LEMMA VehicleRestartsInv ==
    ASSUME UploadInv, VehicleRestarts
    PROVE  UploadInv'
  <1>1. /\ transfers' = <<>> /\ landed' = 0 /\ store' = store
        /\ conn' = [g \in Ground |-> IF conn[g] = "none" THEN "none" ELSE "ended"]
        /\ uplink' = [g \in Ground |-> <<>>]
        /\ UNCHANGED <<upload, verdict, downlink, landedOwn, held>>
    BY DEF VehicleRestarts, Restart, groundVars, history
  <1>2. UploadTypeOK /\ <<>> \in Seq(FrameSet) /\ DOMAIN transfers' = {}
    BY <1>1, EmptySeq DEF UploadInv
  <1>3. "none" \in ConnStates /\ "ended" \in ConnStates
    BY DEF ConnStates
  <1>4. FTypeOK'
    BY <1>1, <1>2 DEF UploadTypeOK, FTypeOK
  <1>5. UploadTypeOK'
    BY <1>1, <1>2, <1>3, <1>4 DEF UploadTypeOK
  <1>6. ASSUME NEW g \in Ground PROVE OfGround(g)'
    <2>1. /\ OfGround(g) /\ uplink'[g] = <<>> /\ g \notin DOMAIN transfers'
          /\ conn[g] = "none" => conn'[g] = "none"
      BY <1>1, <1>2 DEF UploadInv
    <2>2. /\ Over(g)' /\ OwnTransfer(g)' /\ (FailedAlone(g) => FailedAlone(g)')
          /\ (Watching(g)' <=> Watching(g)) /\ (HasFile(g)' <=> HasFile(g))
          /\ (HasTwin(g)' <=> HasTwin(g))
      BY <1>1, <2>1 DEF Over, Begun, OwnTransfer, FailedAlone, Watching, HasFile,
                        Stored, HasTwin
    <2>3. ASSUME NEW r, Conclusive(g, r) PROVE Conclusive(g, r)'
      BY <1>1, <2>2, <2>3 DEF Conclusive, Ours
    <2>4. \A i \in DOMAIN downlink'[g] : Conclusive(g, downlink[g][i])'
      <3>1. SUFFICES ASSUME NEW i \in DOMAIN downlink[g]
                     PROVE  Conclusive(g, downlink[g][i])'
        BY <1>1
      <3>2. Conclusive(g, downlink[g][i])
        BY <2>1 DEF OfGround
      <3>3. ASSUME NEW r, r = downlink[g][i] PROVE Conclusive(g, r)'
        BY <2>3, <3>2, <3>3
      <3> QED BY <1>1, <3>3 DEF Conclusive, Ours
    <2>5. 2..Len(uplink'[g]) = {}
      BY <2>1
    <2> QED BY <1>1, <2>1, <2>2, <2>4, <2>5 DEF OfGround
  <1> QED BY <1>5, <1>6 DEF UploadInv

\* Every step preserves the invariant.
LEMMA NextUploadInv == UploadInv /\ [UploadNext]_uploadVars => UploadInv'
  <1> SUFFICES ASSUME UploadInv, [UploadNext]_uploadVars PROVE UploadInv'
    OBVIOUS
  <1>1. ASSUME NEW g \in Ground, ConnectionStep(g) PROVE UploadInv'
    BY <1>1, FrameArrivesInv, ConnectionEndsInv, LinkStepInv DEF ConnectionStep
  <1>2. CASE UNCHANGED uploadVars
    <2>1. UNCHANGED <<store, transfers, landed, upload, verdict, uplink, downlink, conn,
                      landedOwn, held>>
      BY <1>2 DEF uploadVars, vars, groundVars, history
    <2>2. UploadTypeOK'
      BY <2>1 DEF UploadInv, UploadTypeOK, FTypeOK
    <2>3. \A g \in Ground : OfGround(g)'
      BY <2>1 DEF UploadInv, OfGround, OwnTransfer, Over, Begun, Watching, HasFile,
                  Stored, Conclusive, Ours, HasTwin, FailedAlone
    <2> QED BY <2>2, <2>3 DEF UploadInv
  <1> QED BY <1>1, <1>2, GroundStepInv, ConsoleCommandInv, VehicleRestartsInv DEF UploadNext

(***************************************************************************)
(* What is known of each ground (OfGround) holds in every state.           *)
(***************************************************************************)
THEOREM UploadInvariance == UploadSpec => []UploadInv
  BY InitUploadInv, NextUploadInv, PTL DEF UploadSpec

(***************************************************************************)
(* An upload reported as a success was in the store, as sent, at some      *)
(* moment of its watch: whichever receipt the ground believed, of another  *)
(* ground's transfer or of the operator's listing, whatever was dropped,   *)
(* lost or restarted meanwhile.                                            *)
(***************************************************************************)
THEOREM SuccessIsStored == UploadSpec => []SuccessMeansStored
  <1>1. UploadInv => SuccessMeansStored
    BY DEF UploadInv, OfGround, SuccessMeansStored
  <1> QED BY <1>1, UploadInvariance, PTL

(***************************************************************************)
(* A ground is wrongly told of a failure only by the receipt of a twin, or *)
(* if its file is empty.                                                   *)
(***************************************************************************)
THEOREM FailuresAreOwnOrTwins == UploadSpec => []FalseFailureNeedsATwin
  <1>1. UploadInv => FalseFailureNeedsATwin
    BY DEF UploadInv, OfGround, FailedAlone, FalseFailureNeedsATwin
  <1> QED BY <1>1, UploadInvariance, PTL

(***************************************************************************)
(* A transfer never outlives the connection that carries it: every way a   *)
(* reader can end discards the transfer it fed.                            *)
(***************************************************************************)
THEOREM TransfersKeepLinks == UploadSpec => []TransfersHaveLinks
  <1>1. UploadInv => TransfersHaveLinks
    BY DEF UploadInv, UploadTypeOK, FTypeOK, OfGround, OwnTransfer, TransfersHaveLinks
  <1> QED BY <1>1, UploadInvariance, PTL

-----------------------------------------------------------------------------
\* A step of the uploads is a step of the file service, or one it does not see.
LEMMA UploadStepIsServed ==
    UploadInv /\ [UploadNext]_uploadVars => [Next]_vars
  <1> SUFFICES ASSUME UploadInv, [UploadNext]_uploadVars PROVE [Next]_vars
    OBVIOUS
  <1>1. ASSUME NEW g \in Ground, GroundStep(g) PROVE UNCHANGED vars
    BY <1>1 DEF GroundStep, UploadFile, GroundReads, GroundSeesEnd, GroundTimesOut
  <1>2. ASSUME NEW g \in Ground, FrameArrives(g) PROVE Uplink(g)
    BY <1>2, FrameServes
  <1>3. ASSUME NEW g \in Ground, ConnectionEnds(g) PROVE Uplink(g)
    BY <1>3 DEF ConnectionEnds, Uplink, OnMalformed
  <1>4. ASSUME NEW g \in Ground, LinkLost(g) \/ DownlinkLost(g) PROVE UNCHANGED vars
    BY <1>4 DEF LinkLost, DownlinkLost
  <1>5. CASE UNCHANGED uploadVars
    BY <1>5 DEF uploadVars
  <1> QED BY <1>1, <1>2, <1>3, <1>4, <1>5
          DEF UploadNext, ConnectionStep, ConsoleCommand, VehicleRestarts, Next

(***************************************************************************)
(* The uploads use the file service as it is specified: what the grounds,  *)
(* their links and the operator do to it is one of its own steps, or none. *)
(* So all that is proved of the file service holds of it in their company. *)
(***************************************************************************)
THEOREM UploadsUseTheService == UploadSpec => Spec
  <1>1. UploadInit => Init
    BY DEF UploadInit
  <1> QED BY <1>1, UploadInvariance, UploadStepIsServed, PTL DEF UploadSpec, Spec

(***************************************************************************)
(* With grounds that upload at the same time, the store never grows past   *)
(* its quota, only what was verified lands and no transfer disappears in   *)
(* silence.                                                                *)
(***************************************************************************)
THEOREM UploadsKeepTheStore ==
    UploadSpec => NeverGrowsPastQuota /\ OnlyVerifiedFilesLand /\ EveryTransferIsAnswered
  BY UploadsUseTheService, QuotaHolds, FilesAreVerified, TransfersAreAnswered

=============================================================================
