------------------------- MODULE FileServiceProofs -------------------------
(***************************************************************************)
(* What FileService guarantees for every number of connections, every      *)
(* finite set of names and every quota.                                    *)
(***************************************************************************)
EXTENDS FileService, FiniteSetTheorems, SequenceTheorems, TLAPS

\* A content is a sequence of bytes that is not too long,
LEMMA ContentIsSeq ==
    ASSUME NEW c \in Content
    PROVE  c \in Seq(Bytes) /\ Len(c) \in Nat /\ Len(c) <= MaxSize
  <1>1. MaxSize \in Nat
    BY SizesAssumption
  <1>2. PICK n \in 0..MaxSize : c \in [1..n -> Bytes]
    BY DEF Content
  <1>3. c \in Seq(Bytes)
    BY <1>1, <1>2, SeqDef
  <1>4. n \in Nat /\ Len(c) \in Nat /\ 1..Len(c) = 1..n
    BY <1>1, <1>2, <1>3, LenProperties
  <1>5. n >= 1 => n \in 1..Len(c)
    BY <1>4
  <1>6. Len(c) >= 1 => Len(c) \in 1..n
    BY <1>4
  <1>7. Len(c) = n
    BY <1>4, <1>5, <1>6
  <1> QED BY <1>1, <1>2, <1>3, <1>7

\* and every such sequence is a content,
LEMMA SeqIsContent ==
    ASSUME NEW c \in Seq(Bytes), Len(c) <= MaxSize
    PROVE  c \in Content
  <1>1. Len(c) \in Nat /\ c \in [1..Len(c) -> Bytes]
    BY LenProperties
  <1>2. Len(c) \in 0..MaxSize
    BY <1>1, SizesAssumption
  <1> QED BY <1>1, <1>2 DEF Content

\* the empty one included.
LEMMA EmptyContent == <<>> \in Content /\ Len(<<>>) = 0
  <1>1. <<>> \in Seq(Bytes) /\ Len(<<>>) = 0
    OBVIOUS
  <1>2. Len(<<>>) <= MaxSize
    BY <1>1, SizesAssumption
  <1> QED BY <1>1, <1>2, SeqIsContent

-----------------------------------------------------------------------------
\* The store that a process finds at first has its type.
LEMMA InitType == Init => FTypeOK
  BY DEF Init, FTypeOK

\* A transfer that starts.
LEMMA OnStartType ==
    ASSUME FTypeOK, NEW g \in Ground, NEW n \in Names \cup BadNames,
           NEW size \in 0..MaxSize, NEW crc \in Files, OnStart(g, n, size, crc)
    PROVE  FTypeOK'
  <1> DEFINE t == [name |-> n, size |-> size, crc |-> crc, buffer |-> <<>>]
  <1>1. CASE n \in Names /\ transfers' = With(transfers, g, t)
    <2>1. t \in Transfer /\ t.buffer = <<>> /\ t.size = size
      BY <1>1, EmptyContent DEF Transfer
    <2>2. Len(t.buffer) <= t.size
      BY <2>1, EmptyContent
    <2> HIDE DEF t
    <2> QED BY <1>1, <2>1, <2>2 DEF FTypeOK, OnStart, With
  <1>2. CASE transfers' = Without(transfers, g)
    BY <1>2 DEF FTypeOK, OnStart, Without
  <1> QED BY <1>1, <1>2 DEF OnStart

\* An aborted transfer is only removed.
LEMMA AbortType ==
    ASSUME FTypeOK, NEW g \in Ground, Abort(g)
    PROVE  FTypeOK'
  BY DEF FTypeOK, Abort, Without

\* DATA adds to the buffer no more than the size that START declared.
LEMMA OnDataType ==
    ASSUME FTypeOK, NEW g \in Ground, NEW offset \in 0..MaxSize, NEW b \in Bytes,
           OnData(g, offset, <<b>>)
    PROVE  FTypeOK'
  <1>1. CASE ~Continues(g, offset, <<b>>)
    BY <1>1, AbortType DEF OnData
  <1>2. CASE Continues(g, offset, <<b>>)
    <2> DEFINE t == transfers[g]
               u == [t EXCEPT !.buffer = @ \o <<b>>]
    <2>1. g \in DOMAIN transfers /\ Len(t.buffer) + Len(<<b>>) <= t.size
      BY <1>2 DEF Continues
    <2>2. t \in Transfer
      BY <2>1 DEF FTypeOK
    <2>3. t.buffer \in Content /\ t.size \in 0..MaxSize
      BY <2>2 DEF Transfer
    <2>4. t.buffer \in Seq(Bytes)
      BY <2>3, ContentIsSeq
    <2>5. /\ <<b>> \in Seq(Bytes)
          /\ t.buffer \o <<b>> \in Seq(Bytes)
          /\ Len(t.buffer \o <<b>>) = Len(t.buffer) + Len(<<b>>)
      BY <2>4, ConcatProperties
    <2>6. Len(t.buffer \o <<b>>) <= t.size /\ Len(t.buffer \o <<b>>) \in Nat
      BY <2>5, <2>1, LenProperties
    <2>7. t.buffer \o <<b>> \in Content
      <3>1. MaxSize \in Nat
        BY SizesAssumption
      <3>2. Len(t.buffer \o <<b>>) <= MaxSize
        BY <3>1, <2>3, <2>6
      <3> QED BY <3>2, <2>5, SeqIsContent
    <2>8. u \in Transfer /\ u.buffer = t.buffer \o <<b>> /\ u.size = t.size
      BY <2>2, <2>7 DEF Transfer
    <2>9. Len(u.buffer) <= u.size
      BY <2>6, <2>8
    <2>10. /\ transfers' = [transfers EXCEPT ![g] = u]
           /\ UNCHANGED <<store, landed>>
      BY <1>2, <2>1 DEF OnData
    <2> HIDE DEF u
    <2> QED BY <2>1, <2>8, <2>9, <2>10 DEF FTypeOK
  <1> QED BY <1>1, <1>2

\* FINISH stores a content or nothing.
LEMMA OnFinishType ==
    ASSUME FTypeOK, NEW g \in Ground, OnFinish(g)
    PROVE  FTypeOK'
  <1>1. CASE g \in DOMAIN transfers /\ Acceptable(transfers[g]) /\ Land(g)
    <2>1. transfers[g] \in Transfer
      BY <1>1 DEF FTypeOK
    <2>2. transfers[g].name \in Names /\ transfers[g].crc \in Files
      BY <2>1 DEF Transfer
    <2>3. transfers[g].buffer \in Files
      BY <1>1, <2>2 DEF Acceptable
    <2>4. /\ store' = With(store, transfers[g].name, transfers[g].buffer)
          /\ transfers' = Without(transfers, g)
          /\ landed' = landed + 1
      BY <1>1 DEF Land
    <2> QED BY <2>2, <2>3, <2>4 DEF FTypeOK, With, Without
  <1> QED BY <1>1, AbortType DEF OnFinish

\* A frame of whatever type keeps the types.
LEMMA UplinkType ==
    ASSUME FTypeOK, NEW g \in Ground, Uplink(g)
    PROVE  FTypeOK'
  BY OnStartType, OnDataType, OnFinishType, AbortType
     DEF Uplink, OnMalformed, ConnectionClosed

\* Every step preserves the types.
LEMMA NextType == FTypeOK /\ [Next]_vars => FTypeOK'
  <1> SUFFICES ASSUME FTypeOK, [Next]_vars
               PROVE  FTypeOK'
    OBVIOUS
  <1>1. CASE \E g \in Ground : Uplink(g)
    BY <1>1, UplinkType
  <1>2. ASSUME NEW n \in Names \cup BadNames, FileDelete(n)
        PROVE  FTypeOK'
    BY <1>2 DEF FileDelete, FTypeOK, Without
  <1>3. CASE FileList \/ FileStatus
    BY <1>3 DEF FileList, FileStatus, FTypeOK
  <1>4. CASE Restart
    BY <1>4 DEF Restart, FTypeOK
  <1>5. CASE UNCHANGED vars
    BY <1>5 DEF FTypeOK, vars
  <1> QED BY <1>1, <1>2, <1>3, <1>4, <1>5 DEF Next, FileCommand

\* What the store and the transfers hold: file contents under accepted names,
\* and no transfer with more than it has declared.
THEOREM FileTypeCorrect == Spec => []FTypeOK
  BY InitType, NextType, PTL DEF Spec

-----------------------------------------------------------------------------
\* The bytes of a file n of size m.
BytesOf(n, m) == {n} \X (1..m)

\* A file occupies as many places as it has bytes.
LEMMA BytesOfFile ==
    ASSUME NEW n, NEW m \in Nat
    PROVE  IsFiniteSet(BytesOf(n, m)) /\ Cardinality(BytesOf(n, m)) = m
  <1>1. IsFiniteSet({n}) /\ Cardinality({n}) = 1
    BY FS_Singleton
  <1>2. IsFiniteSet(1..m) /\ Cardinality(1..m) = m
    BY FS_Interval
  <1>3. /\ IsFiniteSet({n} \X (1..m))
        /\ Cardinality({n} \X (1..m)) = Cardinality({n}) * Cardinality(1..m)
    BY <1>1, <1>2, FS_Product
  <1>4. Cardinality({n} \X (1..m)) = m
    BY <1>1, <1>2, <1>3
  <1> QED BY <1>3, <1>4 DEF BytesOf

\* A store of finitely many files has a finite size.
LEMMA OccupiedIsFinite == IsFiniteSet(Occupied) /\ Used \in Nat
  <1>1. IsFiniteSet(Names) /\ IsFiniteSet(1..MaxSize)
    <2>1. IsFiniteSet(Names)
      BY NamesAssumption
    <2>2. 1 \in Int /\ MaxSize \in Int
      BY SizesAssumption
    <2>3. IsFiniteSet(1..MaxSize)
      BY <2>2, FS_Interval
    <2> QED BY <2>1, <2>3
  <1>2. IsFiniteSet(Names \X (1..MaxSize))
    BY <1>1, FS_Product
  <1>3. Occupied \in SUBSET (Names \X (1..MaxSize))
    BY DEF Occupied
  <1>4. IsFiniteSet(Occupied)
    BY <1>2, <1>3, FS_Subset
  <1> QED BY <1>4, FS_CardinalityType DEF Used

\* The bytes a file occupies in the store.
LEMMA StoredFile ==
    ASSUME FTypeOK, NEW n \in Stored
    PROVE  /\ n \in Names /\ store[n] \in Content /\ Len(store[n]) \in Nat
           /\ BytesOf(n, Len(store[n])) = {b \in Occupied : b[1] = n}
  <1>1. n \in Names /\ store[n] \in Content
    BY FilesAssumption DEF FTypeOK, Stored
  <1>2. Len(store[n]) \in Nat /\ Len(store[n]) <= MaxSize
    BY <1>1, ContentIsSeq
  <1>3. BytesOf(n, Len(store[n])) \subseteq Occupied
    BY <1>1, <1>2, SizesAssumption DEF BytesOf, Occupied
  <1>4. {b \in Occupied : b[1] = n} \subseteq BytesOf(n, Len(store[n]))
    BY <1>1, <1>2, SizesAssumption DEF BytesOf, Occupied
  <1> QED BY <1>1, <1>2, <1>3, <1>4 DEF BytesOf

\* What the store occupies after a file has replaced its namesake.
LEMMA LandedBytes ==
    ASSUME FTypeOK, NEW n \in Names, NEW c \in Content, store' = With(store, n, c)
    PROVE  /\ Used' \in Nat
           /\ n \in Stored => Used' <= Used - Len(store[n]) + Len(c)
           /\ n \notin Stored => Used' <= Used + Len(c)
  <1> DEFINE Old == {b \in Occupied : b[1] = n}
             New == BytesOf(n, Len(c))
  <1>1. Len(c) \in Nat /\ Len(c) <= MaxSize
    BY ContentIsSeq
  <1>2. Occupied' \subseteq (Occupied \ Old) \cup New
    <2> SUFFICES ASSUME NEW b \in Occupied'
                 PROVE  b \in (Occupied \ Old) \cup New
      OBVIOUS
    <2>1. /\ b \in Names \X (1..MaxSize)
          /\ b[1] \in DOMAIN store'
          /\ b[2] <= Len(store'[b[1]])
      BY DEF Occupied, Stored
    <2>2. CASE b[1] = n
      <3>1. store'[b[1]] = c
        BY <2>2 DEF With
      <3>2. b[2] \in 1..Len(c)
        BY <2>1, <3>1, <1>1, SizesAssumption
      <3> QED BY <2>1, <2>2, <3>2 DEF BytesOf
    <2>3. CASE b[1] # n
      <3>1. b[1] \in DOMAIN store /\ store'[b[1]] = store[b[1]]
        BY <2>1, <2>3 DEF With
      <3> QED BY <2>1, <2>3, <3>1 DEF Occupied, Stored
    <2> QED BY <2>2, <2>3
  <1>3. IsFiniteSet(Occupied) /\ Used \in Nat
    BY OccupiedIsFinite
  <1>4. /\ IsFiniteSet(Occupied \ Old)
        /\ Cardinality(Occupied \ Old) = Used - Cardinality(Occupied \cap Old)
    BY <1>3, FS_Difference DEF Used
  <1>5. Occupied \cap Old = Old
    OBVIOUS
  <1>6. IsFiniteSet(New) /\ Cardinality(New) = Len(c)
    BY <1>1, BytesOfFile
  <1>7. /\ IsFiniteSet((Occupied \ Old) \cup New)
        /\ Cardinality((Occupied \ Old) \cup New) =
              Cardinality(Occupied \ Old) + Cardinality(New)
                  - Cardinality((Occupied \ Old) \cap New)
    BY <1>4, <1>6, FS_Union
  <1>8. (Occupied \ Old) \cap New = {}
    BY DEF BytesOf
  <1>9. Cardinality((Occupied \ Old) \cap New) = 0
    BY <1>8, FS_EmptySet
  <1>10. /\ IsFiniteSet(Occupied')
         /\ Cardinality(Occupied') <= Cardinality((Occupied \ Old) \cup New)
    BY <1>2, <1>7, FS_Subset
  <1>11. Used' \in Nat /\ Used' = Cardinality(Occupied')
    BY <1>10, FS_CardinalityType DEF Used
  <1>12. IsFiniteSet(Old) /\ Cardinality(Old) \in Nat
    BY <1>3, FS_Subset, FS_CardinalityType
  <1>13. Used' <= Used - Cardinality(Old) + Len(c)
    <2> HIDE DEF Old, New
    <2>1. Cardinality(Occupied \ Old) = Used - Cardinality(Old)
      BY <1>4, <1>5
    <2>2. Cardinality((Occupied \ Old) \cup New) = Used - Cardinality(Old) + Len(c)
      BY <2>1, <1>1, <1>3, <1>6, <1>7, <1>9, <1>12
    <2> QED BY <2>2, <1>10, <1>11, <1>3, <1>1, <1>12
  <1>14. n \in Stored => Cardinality(Old) = Len(store[n])
    BY StoredFile, BytesOfFile
  <1>15. n \notin Stored => Used' <= Used + Len(c)
    <2> HIDE DEF Old
    <2> QED BY <1>13, <1>11, <1>12, <1>3, <1>1
  <1> QED BY <1>11, <1>13, <1>14, <1>15

\* The arithmetic of room_for: the credit for a file that is replaced is given
\* once.
LEMMA RoomArithmetic ==
    ASSUME NEW after \in Nat, NEW old \in Nat, NEW len \in Nat,
           Used \in Nat, Quota \in Nat,
           after <= Used - old + len, len <= Available + old
    PROVE  after <= Used \/ after <= Quota
  BY DEF Available

\* A file that lands, in place of another or not, keeps the quota.
LEMMA LandKeepsQuota ==
    ASSUME FTypeOK, NEW g \in DOMAIN transfers, Acceptable(transfers[g]), Land(g)
    PROVE  Used' <= Used \/ Used' <= Quota
  <1> DEFINE t == transfers[g]
  <1>1. t \in Transfer
    BY DEF FTypeOK
  <1>2. /\ t.name \in Names /\ t.buffer \in Content
        /\ store' = With(store, t.name, t.buffer)
    BY <1>1 DEF Transfer, Land
  <1>3. Len(t.buffer) = t.size /\ RoomFor(t.name, t.size)
    BY DEF Acceptable
  <1>4. Len(t.buffer) \in Nat
    BY <1>2, ContentIsSeq
  <1>5. /\ Used' \in Nat
        /\ t.name \in Stored => Used' <= Used - Len(store[t.name]) + Len(t.buffer)
        /\ t.name \notin Stored => Used' <= Used + Len(t.buffer)
    BY <1>2, LandedBytes
  <1>6. Used \in Nat /\ Quota \in Nat
    BY OccupiedIsFinite, SizesAssumption
  <1> HIDE DEF t
  <1>7. CASE t.name \in Stored
    <2>1. Len(store[t.name]) \in Nat
      BY <1>7, StoredFile
    <2>2. Len(t.buffer) <= Available + Len(store[t.name])
      BY <1>3, <1>7 DEF RoomFor
    <2>3. Used' <= Used - Len(store[t.name]) + Len(t.buffer) /\ Used' \in Nat
      BY <1>5, <1>7
    <2> QED BY <2>1, <2>2, <2>3, <1>4, <1>6, RoomArithmetic
  <1>8. CASE t.name \notin Stored
    <2>1. Len(t.buffer) <= Available + 0
      BY <1>3, <1>8 DEF RoomFor
    <2> QED BY <2>1, <1>4, <1>5, <1>6, <1>8 DEF Available
  <1> QED BY <1>7, <1>8

\* FILE_DELETE takes nothing up.
LEMMA DeleteFrees ==
    ASSUME FTypeOK, NEW n, FileDelete(n)
    PROVE  Used' <= Used
  <1>1. Occupied' \subseteq Occupied
    BY DEF FileDelete, Without, Occupied, Stored
  <1>2. IsFiniteSet(Occupied) /\ Used \in Nat
    BY OccupiedIsFinite
  <1> QED BY <1>1, <1>2, FS_Subset DEF Used

\* Every step keeps the quota, or does not go further past it.
LEMMA NextKeepsQuota ==
    ASSUME FTypeOK, [Next]_vars
    PROVE  Used' <= Used \/ Used' <= Quota
  <1>1. ASSUME UNCHANGED store
        PROVE  Used' <= Used
    <2>1. Used' = Used
      BY <1>1 DEF Used, Occupied, Stored
    <2> QED BY <2>1, OccupiedIsFinite
  <1>2. ASSUME NEW g \in Ground, Uplink(g)
        PROVE  UNCHANGED store \/ \E p \in DOMAIN transfers : Acceptable(transfers[p]) /\ Land(p)
    BY <1>2 DEF Uplink, OnStart, OnData, OnFinish, OnMalformed, ConnectionClosed, Abort
  <1>3. ASSUME NEW n \in Names \cup BadNames, FileDelete(n)
        PROVE  Used' <= Used
    BY <1>3, DeleteFrees
  <1>4. FileList \/ FileStatus \/ Restart \/ UNCHANGED vars => UNCHANGED store
    BY DEF FileList, FileStatus, Restart, vars
  <1> QED BY <1>1, <1>2, <1>3, <1>4, LandKeepsQuota DEF Next, FileCommand

\* Whatever the connections, their transfers and what the disk held at first,
\* no step takes the store past the quota, or further past it.
THEOREM QuotaHolds == Spec => NeverGrowsPastQuota
  <1>1. FTypeOK /\ [Next]_vars => [Used' <= Used \/ Used' <= Quota]_vars
    BY NextKeepsQuota
  <1> QED BY <1>1, FileTypeCorrect, PTL DEF Spec, NeverGrowsPastQuota

-----------------------------------------------------------------------------
\* What a step may put in the store.
Verified(n) ==
    \E g \in DOMAIN transfers :
        /\ transfers[g].name = n
        /\ transfers[g].crc = store'[n]
        /\ transfers[g].size = Len(store'[n])
        /\ g \notin DOMAIN transfers'

\* A file that a step changes was verified by that step.
LEMMA NextVerifies ==
    ASSUME FTypeOK, [Next]_vars, NEW n \in Names, n \in DOMAIN store',
           n \in DOMAIN store => store'[n] # store[n]
    PROVE  Verified(n)
  <1>1. ~UNCHANGED store
    OBVIOUS
  <1>2. ASSUME NEW m \in Names \cup BadNames, FileDelete(m)
        PROVE  FALSE
    BY <1>2 DEF FileDelete, Without
  <1>3. PICK g \in Ground : Uplink(g)
    BY <1>1, <1>2 DEF Next, FileCommand, FileList, FileStatus, Restart, vars
  <1>4. g \in DOMAIN transfers /\ Acceptable(transfers[g]) /\ Land(g)
    BY <1>1, <1>3 DEF Uplink, OnStart, OnData, OnFinish, OnMalformed, ConnectionClosed, Abort
  <1>5. /\ store' = With(store, transfers[g].name, transfers[g].buffer)
        /\ g \notin DOMAIN transfers'
    BY <1>4 DEF Land, Without
  <1>6. n = transfers[g].name /\ store'[n] = transfers[g].buffer
    BY <1>5 DEF With
  <1> QED BY <1>4, <1>5, <1>6 DEF Verified, Acceptable

\* A file is in the store, or has another content there, only through a
\* complete transfer of it with the size and CRC its START declared.
THEOREM FilesAreVerified == Spec => OnlyVerifiedFilesLand
  <1> DEFINE Lands == \A n \in Names :
                 n \in DOMAIN store' /\ (n \in DOMAIN store => store'[n] # store[n])
                     => Verified(n)
  <1>1. FTypeOK /\ [Next]_vars => [Lands]_vars
    BY NextVerifies
  <1> QED BY <1>1, FileTypeCorrect, PTL DEF Spec, OnlyVerifiedFilesLand, Verified

-----------------------------------------------------------------------------
(***************************************************************************)
(* What a connection and the ground are told.                              *)
(***************************************************************************)
\* The terminal receipt of transfer g, first among those of this step.
Answered(g) ==
    /\ receipts' # <<>>
    /\ LET r == Head(receipts') IN
       /\ r.name = transfers[g].name
       /\ r.size = transfers[g].size /\ r.crc = transfers[g].crc
       /\ r.status \in {"SUCCESS", "FAILED"}
       /\ r.status = "SUCCESS" <=> landed' = landed + 1

\* A transfer has its type, and its buffer a length.
LEMMA TransferLength ==
    ASSUME FTypeOK, NEW g \in DOMAIN transfers
    PROVE  /\ transfers[g] \in Transfer
           /\ transfers[g].buffer \in Seq(Bytes) /\ Len(transfers[g].buffer) \in Nat
  <1>1. transfers[g] \in Transfer
    BY DEF FTypeOK
  <1>2. transfers[g].buffer \in Content
    BY <1>1 DEF Transfer
  <1> QED BY <1>1, <1>2, ContentIsSeq

\* A transfer that a step leaves alone goes on.
LEMMA UntouchedGoesOn ==
    ASSUME FTypeOK, NEW g \in DOMAIN transfers, g \in DOMAIN transfers',
           transfers'[g] = transfers[g]
    PROVE  GoesOn(g)
  BY TransferLength DEF GoesOn

\* A transfer that is discarded is answered as FAILED, whatever comes next.
LEMMA DiscardIsAnswered ==
    ASSUME FTypeOK, NEW g \in DOMAIN transfers, landed' = landed,
           \/ receipts' = Aborted(g)
           \/ \E r : receipts' = Append(Aborted(g), r)
    PROVE  Answered(g)
  <1> DEFINE v == Verdict(transfers[g], "FAILED")
  <1>1. Aborted(g) = <<v>>
    BY DEF Aborted
  <1>2. /\ v.name = transfers[g].name /\ v.size = transfers[g].size
        /\ v.crc = transfers[g].crc /\ v.status = "FAILED"
    BY DEF Verdict, Receipt
  <1> HIDE DEF v
  <1>3. receipts' # <<>> /\ Head(receipts') = v
    <2>1. CASE receipts' = <<v>>
      BY <2>1
    <2>2. ASSUME NEW r, receipts' = Append(<<v>>, r)
          PROVE  receipts' # <<>> /\ Head(receipts') = v
      <3>1. <<v>> \in Seq({v, r}) /\ Len(<<v>>) = 1 /\ <<v>>[1] = v
        OBVIOUS
      <3>2. /\ receipts' \in Seq({v, r}) /\ Len(receipts') = 2 /\ receipts'[1] = v
        BY <2>2, <3>1, AppendProperties
      <3> QED BY <3>2
    <2> QED BY <1>1, <2>1, <2>2
  <1>4. landed' # landed + 1
    BY DEF FTypeOK
  <1> QED BY <1>2, <1>3, <1>4 DEF Answered

\* A file that lands is answered with SUCCESS.
LEMMA LandIsAnswered ==
    ASSUME FTypeOK, NEW g \in DOMAIN transfers, Acceptable(transfers[g]), Land(g)
    PROVE  Answered(g)
  <1> DEFINE t == transfers[g]
             v == Receipt(t.name, t.size, t.buffer, "SUCCESS", landed + 1)
  <1>1. receipts' = <<v>> /\ landed' = landed + 1
    BY DEF Land
  <1>2. v.name = t.name /\ v.size = t.size /\ v.crc = t.crc /\ v.status = "SUCCESS"
    BY DEF Receipt, Acceptable
  <1> HIDE DEF v
  <1>3. receipts' # <<>> /\ Head(receipts') = v
    BY <1>1
  <1> QED BY <1>1, <1>2, <1>3 DEF Answered

\* A frame continues a transfer or answers it, its own or that of another
\* connection.
LEMMA UplinkAnswers ==
    ASSUME FTypeOK, NEW h \in Ground, Uplink(h), NEW g \in DOMAIN transfers
    PROVE  GoesOn(g) \/ Answered(g)
  <1>1. ASSUME Abort(h)
        PROVE  GoesOn(g) \/ Answered(g)
    <2>1. CASE g = h
      BY <1>1, <2>1, DiscardIsAnswered DEF Abort
    <2>2. CASE g # h
      <3>1. g \in DOMAIN transfers' /\ transfers'[g] = transfers[g]
        BY <1>1, <2>2 DEF Abort, Without
      <3> QED BY <3>1, UntouchedGoesOn
    <2> QED BY <2>1, <2>2
  <1>2. ASSUME NEW n \in Names \cup BadNames, NEW size \in 0..MaxSize, NEW crc \in Files,
               OnStart(h, n, size, crc)
        PROVE  GoesOn(g) \/ Answered(g)
    <2>1. CASE g = h
      <3>1. landed' = landed /\ \E r : receipts' = Append(Aborted(g), r)
        BY <1>2, <2>1 DEF OnStart
      <3> QED BY <3>1, DiscardIsAnswered
    <2>2. CASE g # h
      <3>1. g \in DOMAIN transfers' /\ transfers'[g] = transfers[g]
        BY <1>2, <2>2 DEF OnStart, With, Without
      <3> QED BY <3>1, UntouchedGoesOn
    <2> QED BY <2>1, <2>2
  <1>3. ASSUME NEW offset \in 0..MaxSize, NEW b \in Bytes, OnData(h, offset, <<b>>),
               ~Abort(h)
        PROVE  GoesOn(g)
    <2>1. /\ h \in DOMAIN transfers
          /\ transfers' = [transfers EXCEPT ![h].buffer = transfers[h].buffer \o <<b>>]
      BY <1>3 DEF OnData, Continues
    <2>2. CASE g # h
      BY <2>1, <2>2, UntouchedGoesOn
    <2>3. CASE g = h
      <3> DEFINE t == transfers[g]
                 c == t.buffer \o <<b>>
      <3>1. /\ g \in DOMAIN transfers' /\ transfers'[g] = [t EXCEPT !.buffer = c]
        BY <2>1, <2>3
      <3>2. /\ t \in Transfer /\ t.buffer \in Seq(Bytes) /\ Len(t.buffer) \in Nat
        BY TransferLength
      <3>3. Len(c) >= Len(t.buffer)
        BY <3>2, ConcatProperties
      <3> HIDE DEF c, t
      <3>4. transfers'[g].buffer = c
        BY <3>1, <3>2 DEF Transfer
      <3>5. [[t EXCEPT !.buffer = c] EXCEPT !.buffer = <<>>] = [t EXCEPT !.buffer = <<>>]
        BY <3>2 DEF Transfer
      <3> QED BY <3>1, <3>3, <3>4, <3>5 DEF GoesOn, t
    <2> QED BY <2>2, <2>3
  <1>4. ASSUME OnFinish(h), ~Abort(h)
        PROVE  GoesOn(g) \/ Answered(g)
    <2>1. h \in DOMAIN transfers /\ Acceptable(transfers[h]) /\ Land(h)
      BY <1>4 DEF OnFinish
    <2>2. CASE g = h
      BY <2>1, <2>2, LandIsAnswered
    <2>3. CASE g # h
      <3>1. g \in DOMAIN transfers' /\ transfers'[g] = transfers[g]
        BY <2>1, <2>3 DEF Land, Without
      <3> QED BY <3>1, UntouchedGoesOn
    <2> QED BY <2>2, <2>3
  <1> QED BY <1>1, <1>2, <1>3, <1>4 DEF Uplink, OnMalformed, ConnectionClosed

\* A transfer that is over is answered in that very step with its own
\* terminal receipt, unless the process restarts.
THEOREM TransfersAreAnswered == Spec => EveryTransferIsAnswered
  <1> DEFINE Answers == \A g \in DOMAIN transfers : GoesOn(g) \/ Restart \/ Answered(g)
  <1>1. FTypeOK /\ [Next]_vars => [Answers]_vars
    <2> SUFFICES ASSUME FTypeOK, Next, NEW g \in DOMAIN transfers
                 PROVE  GoesOn(g) \/ Restart \/ Answered(g)
      OBVIOUS
    <2>1. ASSUME FileCommand
          PROVE  GoesOn(g)
      <3>1. transfers' = transfers
        BY <2>1 DEF FileCommand, FileList, FileStatus, FileDelete
      <3> QED BY <3>1, UntouchedGoesOn
    <2> QED BY <2>1, UplinkAnswers DEF Next
  <1> QED BY <1>1, FileTypeCorrect, PTL DEF Spec, EveryTransferIsAnswered, Answered

\* The receipts of each handler tell the truth about the store.
LEMMA NextIsHonest ==
    ASSUME Next, NEW i \in DOMAIN receipts'
    PROVE  Honest(receipts[i])'
  <1> DEFINE r == receipts'[i]
  <1> SUFFICES ASSUME r.status = "SUCCESS", r.crc # NoCrc
               PROVE  r.name \in DOMAIN store' /\ store'[r.name] = r.crc /\ r.size = Len(r.crc)
    BY DEF Honest, Stored
  <1>1. \A n, size, crc, status, count :
           /\ Receipt(n, size, crc, status, count).status = status
           /\ Receipt(n, size, crc, status, count).crc = crc
           /\ Receipt(n, size, crc, status, count).name = n
           /\ Receipt(n, size, crc, status, count).size = size
    BY DEF Receipt
  <1>2. ASSUME NEW g, receipts' = Aborted(g)
        PROVE  FALSE
    <2>1. r = Verdict(transfers[g], "FAILED")
      BY <1>2 DEF Aborted
    <2> QED BY <1>1, <2>1 DEF Verdict
  <1>3. ASSUME NEW g, NEW q, q.status # "SUCCESS", receipts' = Append(Aborted(g), q)
        PROVE  FALSE
    <2>1. r = q \/ r = Verdict(transfers[g], "FAILED")
      BY <1>3 DEF Aborted
    <2> QED BY <1>1, <1>3, <2>1 DEF Verdict
  <1>4. ASSUME receipts' = StorageView
        PROVE  FALSE
    <2>1. \A n : /\ Receipt(n, 0, NoCrc, "SUCCESS", landed).crc = NoCrc
                 /\ receipts' = <<Receipt(n, 0, NoCrc, "SUCCESS", landed)>> =>
                       r = Receipt(n, 0, NoCrc, "SUCCESS", landed)
      BY <1>1
    <2>2. receipts' = <<Receipt("", 0, NoCrc, "SUCCESS", landed)>>
      BY <1>4 DEF StorageView
    <2> QED BY <2>1, <2>2, Zenon
  <1>5. ASSUME NEW g \in Ground, Uplink(g), ~Abort(g)
        PROVE  g \in DOMAIN transfers /\ Acceptable(transfers[g]) /\ Land(g)
    <2>1. ASSUME NEW n, NEW size, NEW crc, OnStart(g, n, size, crc)
          PROVE  FALSE
      <3>1. PICK q : q.status # "SUCCESS" /\ receipts' = Append(Aborted(g), q)
        BY <1>1, <2>1 DEF OnStart
      <3> QED BY <1>3, <3>1
    <2>2. ASSUME NEW offset, NEW b, OnData(g, offset, <<b>>)
          PROVE  FALSE
      <3>1. receipts' = <<>>
        BY <1>5, <2>2 DEF OnData
      <3> QED BY <3>1
    <2> QED BY <1>5, <2>1, <2>2 DEF Uplink, OnFinish, OnMalformed, ConnectionClosed
  <1>6. ASSUME NEW g \in DOMAIN transfers, Acceptable(transfers[g]), Land(g)
        PROVE  r.name \in DOMAIN store' /\ store'[r.name] = r.crc /\ r.size = Len(r.crc)
    <2> DEFINE t == transfers[g]
    <2>1. /\ r = Receipt(t.name, t.size, t.buffer, "SUCCESS", landed + 1)
          /\ store' = With(store, t.name, t.buffer)
      BY <1>6 DEF Land
    <2>2. t.size = Len(t.buffer)
      BY <1>6 DEF Acceptable
    <2> QED BY <1>1, <2>1, <2>2 DEF With
  <1>7. CASE FileList
    <2>1. CASE receipts' = StorageView
      BY <1>4, <2>1
    <2>2. CASE receipts' # StorageView
      <3>1. PICK order \in [1..Cardinality(Stored) -> Stored] :
               receipts' = [j \in DOMAIN order |-> Listing(order[j])]
        BY <1>7, <2>2 DEF FileList
      <3>2. store' = store /\ order[i] \in Stored /\ r = Listing(order[i])
        BY <1>7, <3>1 DEF FileList
      <3> QED BY <1>1, <3>2 DEF Listing, Stored
    <2> QED BY <2>1, <2>2
  <1>8. ASSUME NEW n, FileDelete(n)
        PROVE  FALSE
    <2>1. \/ r = Receipt(n, Len(store[n]), NoCrc, "SUCCESS", landed)
          \/ r = Receipt(n, 0, NoCrc, "FAILED", landed)
      BY <1>8 DEF FileDelete
    <2> QED BY <1>1, <2>1
  <1>9. CASE Restart
    <2>1. receipts' = <<>>
      BY <1>9 DEF Restart
    <2> QED BY <2>1
  <1>10. ASSUME NEW g, Abort(g)
         PROVE  FALSE
    BY <1>2, <1>10 DEF Abort
  <1> QED BY <1>4, <1>5, <1>6, <1>7, <1>8, <1>9, <1>10 DEF Next, FileCommand, FileStatus

\* A receipt that says SUCCESS of a content names a file that is in the store
\* with that content.
THEOREM ReceiptsTellTheTruth == Spec => ReceiptsAreHonest
  <1> DEFINE Truth == \A i \in DOMAIN receipts' : Honest(receipts[i])'
  <1>1. [Next]_vars => [Truth]_vars
    BY NextIsHonest
  <1> QED BY <1>1, PTL DEF Spec, ReceiptsAreHonest
=============================================================================
