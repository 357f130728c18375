---------------------------- MODULE FileService ----------------------------
(***************************************************************************)
(* The vehicle's file service (xtce_sim/fileservice.py): uplink frames of  *)
(* several connections are reassembled into transfers, one at most on each *)
(* connection, and land whole in one store under a quota.  Every handler   *)
(* is one step of the event loop, and answers with receipts.               *)
(*                                                                         *)
(* A file's content is a sequence of bytes.  The CRC-32 of a content is    *)
(* modelled by the content (collisions are left out) and that of an empty  *)
(* one is the 0 that receipts without a checksum carry.  A refused name is *)
(* reported cut to what the field of the receipt holds, so that it may     *)
(* read like the name of a stored file (Reported).                         *)
(***************************************************************************)
EXTENDS Integers, FiniteSets, Sequences

CONSTANTS
    Ground,     \* the connections an upload can come from
    Names,      \* the file names the store accepts
    BadNames,   \* file names that name_problem refuses
    Reported,   \* the name a receipt carries for each of them
    Bytes,      \* the bytes contents are made of
    Files,      \* the contents that START frames declare the CRC of
    MaxSize,    \* bound of the size of a content
    Quota,      \* FileStore.quota
    MaxLanded   \* bound of the counter of landed files

ASSUME NamesAssumption ==
    /\ IsFiniteSet(Names) /\ Names \cap BadNames = {} /\ "" \notin Names
    /\ DOMAIN Reported = BadNames

ASSUME SizesAssumption ==
    MaxSize \in Nat /\ Quota \in Nat \ {0} /\ MaxLanded \in Nat

Content == UNION {[1..n -> Bytes] : n \in 0..MaxSize}
NoCrc == <<>>

ASSUME FilesAssumption == Files \subseteq Content

Transfer == [name : Names, size : 0..MaxSize, crc : Files, buffer : Content]

Statuses == {"SUCCESS", "FAILED", "IN_PROGRESS"}

VARIABLES
    store,      \* the files on disk: a function from the names stored
    transfers,  \* _transfers: a function from the connections with one
    landed,     \* _received_count
    receipts    \* the receipts the last handler answered with

vars == <<store, transfers, landed, receipts>>

-----------------------------------------------------------------------------
With(f, x, v) == [y \in DOMAIN f \cup {x} |-> IF y = x THEN v ELSE f[y]]
Without(f, x) == [y \in DOMAIN f \ {x} |-> f[y]]

Stored == DOMAIN store

\* The bytes on disk, each by its file and its place in it.
Occupied == {b \in Names \X (1..MaxSize) :
                b[1] \in Stored /\ b[2] <= Len(store[b[1]])}

Used == Cardinality(Occupied)

Available == IF Used < Quota THEN Quota - Used ELSE 0

\* Whether size bytes fit, with credit for the file they replace.
RoomFor(n, size) ==
    size <= Available + (IF n \in Stored THEN Len(store[n]) ELSE 0)

Receipt(n, size, crc, status, count) ==
    [name |-> n, size |-> size, crc |-> crc, status |-> status, count |-> count]

ReportedName(n) == IF n \in BadNames THEN Reported[n] ELSE n

Verdict(t, status) == Receipt(t.name, t.size, t.crc, status, landed)

\* Mutant of Aborted: a transfer is discarded without a word.
AbortedSilently(g) == <<>>

\* The receipt of connection g's transfer, if it has one, when it is discarded.
Aborted(g) ==
    IF g \in DOMAIN transfers THEN <<Verdict(transfers[g], "FAILED")>> ELSE <<>>

-----------------------------------------------------------------------------
Init ==
    /\ store \in UNION {[S -> Files] : S \in SUBSET Names}
    /\ transfers = <<>>
    /\ landed = 0
    /\ receipts = <<>>

\* START replaces the transfer of its connection, if it is not refused itself.
OnStart(g, n, size, crc) ==
    /\ \/ /\ n \in Names /\ RoomFor(n, size)
          /\ transfers' = With(transfers, g, [name |-> n, size |-> size,
                                              crc |-> crc, buffer |-> <<>>])
          /\ receipts' = Append(Aborted(g), Receipt(n, size, crc, "IN_PROGRESS", landed))
       \/ /\ n \in BadNames \/ ~RoomFor(n, size)
          /\ transfers' = Without(transfers, g)
          /\ receipts' = Append(Aborted(g),
                                Receipt(ReportedName(n), size, crc, "FAILED", landed))
    /\ UNCHANGED <<store, landed>>

\* A frame that ends the transfer of its connection.
Abort(g) ==
    /\ transfers' = Without(transfers, g)
    /\ receipts' = Aborted(g)
    /\ UNCHANGED <<store, landed>>

Continues(g, offset, chunk) ==
    /\ g \in DOMAIN transfers
    /\ offset = Len(transfers[g].buffer)
    /\ offset + Len(chunk) <= transfers[g].size

\* DATA must continue the transfer where it is, and not pass its size.
OnData(g, offset, chunk) ==
    \/ /\ Continues(g, offset, chunk)
       /\ transfers' = [transfers EXCEPT ![g].buffer = @ \o chunk]
       /\ receipts' = <<>>
       /\ UNCHANGED <<store, landed>>
    \/ ~Continues(g, offset, chunk) /\ Abort(g)

\* Mutants of Acceptable: a check dropped, of the CRC, of the size, or of the
\* room, which START had promised.
AcceptableAnyCrc(t) == Len(t.buffer) = t.size /\ RoomFor(t.name, t.size)
AcceptableAnySize(t) == t.buffer = t.crc /\ RoomFor(t.name, t.size)
AcceptableAsPromised(t) == Len(t.buffer) = t.size /\ t.buffer = t.crc

\* What FINISH checks before it lands a transfer: size, CRC, and again room.
Acceptable(t) ==
    Len(t.buffer) = t.size /\ t.buffer = t.crc /\ RoomFor(t.name, t.size)

\* The file replaces its namesake in one step (rename), or, when the disk
\* refuses, not at all.
Land(g) ==
    LET t == transfers[g] IN
    /\ landed < MaxLanded
    /\ store' = With(store, t.name, t.buffer)
    /\ landed' = landed + 1
    /\ transfers' = Without(transfers, g)
    /\ receipts' = <<Receipt(t.name, t.size, t.buffer, "SUCCESS", landed + 1)>>

OnFinish(g) ==
    \/ g \in DOMAIN transfers /\ Acceptable(transfers[g]) /\ Land(g)
    \/ Abort(g)  \* a check or the write failed, or there was no transfer

OnMalformed(g) == Abort(g)

ConnectionClosed(g) == g \in DOMAIN transfers /\ Abort(g)

-----------------------------------------------------------------------------
Listing(n) == Receipt(n, Len(store[n]), store[n], "SUCCESS", landed)

StorageView == <<Receipt("", 0, NoCrc, "SUCCESS", landed)>>

\* FILE_LIST: a receipt for each file, the storage view when there is none.
FileList ==
    /\ \/ Stored = {} /\ receipts' = StorageView
       \/ /\ Stored # {}
          /\ \E order \in [1..Cardinality(Stored) -> Stored] :
                 /\ \A n \in Stored : \E i \in DOMAIN order : order[i] = n
                 /\ receipts' = [i \in DOMAIN order |-> Listing(order[i])]
    /\ UNCHANGED <<store, transfers, landed>>

FileStatus == receipts' = StorageView /\ UNCHANGED <<store, transfers, landed>>

FileDelete(n) ==
    /\ \/ /\ n \in Stored
          /\ store' = Without(store, n)
          /\ receipts' = <<Receipt(n, Len(store[n]), NoCrc, "SUCCESS", landed)>>
       \/ /\ n \notin Stored
          /\ store' = store
          /\ receipts' = <<Receipt(n, 0, NoCrc, "FAILED", landed)>>
    /\ UNCHANGED <<transfers, landed>>

\* The process ends and starts again: only the disk remains.
Restart ==
    /\ transfers' = <<>> /\ landed' = 0 /\ receipts' = <<>>
    /\ UNCHANGED store

-----------------------------------------------------------------------------
Uplink(g) ==
    \/ \E n \in Names \cup BadNames, size \in 0..MaxSize, crc \in Files :
           OnStart(g, n, size, crc)
    \/ \E offset \in 0..MaxSize, b \in Bytes : OnData(g, offset, <<b>>)
    \/ OnFinish(g)
    \/ OnMalformed(g)
    \/ ConnectionClosed(g)

FileCommand ==
    \/ FileList \/ FileStatus
    \/ \E n \in Names \cup BadNames : FileDelete(n)

Next ==
    \/ \E g \in Ground : Uplink(g)
    \/ FileCommand
    \/ Restart

Spec == Init /\ [][Next]_vars
-----------------------------------------------------------------------------
FTypeOK ==
    /\ DOMAIN store \subseteq Names
    /\ store \in [DOMAIN store -> Files]
    /\ DOMAIN transfers \subseteq Ground
    /\ transfers \in [DOMAIN transfers -> Transfer]
    /\ \A g \in DOMAIN transfers : Len(transfers[g].buffer) <= transfers[g].size
    /\ landed \in Nat

(***************************************************************************)
(* The store never grows past its quota, however many transfers were       *)
(* promised the same room at their START, whatever file they replace, and  *)
(* even when the disk held more than the quota before the process started. *)
(***************************************************************************)
NeverGrowsPastQuota == [][Used' <= Used \/ Used' <= Quota]_vars

(***************************************************************************)
(* What lands in the store is what a START declared: the file is new or    *)
(* different only when the transfer of that name is complete and has the   *)
(* CRC it was declared with.  So no mixture of two transfers, of two       *)
(* connections or of a superseded one ever becomes a file.                 *)
(***************************************************************************)
OnlyVerifiedFilesLand ==
    [][\A n \in Names :
           n \in DOMAIN store' /\ (n \in DOMAIN store => store'[n] # store[n]) =>
               \E g \in DOMAIN transfers :
                   /\ transfers[g].name = n
                   /\ transfers[g].crc = store'[n]
                   /\ transfers[g].size = Len(store'[n])
                   /\ g \notin DOMAIN transfers']_vars

\* Transfer g goes on: it is as it was, or has received more.
GoesOn(g) ==
    /\ g \in DOMAIN transfers'
    /\ [transfers'[g] EXCEPT !.buffer = <<>>] = [transfers[g] EXCEPT !.buffer = <<>>]
    /\ Len(transfers'[g].buffer) >= Len(transfers[g].buffer)

(***************************************************************************)
(* No transfer disappears in silence: one that is over (finished, broken,  *)
(* superseded, its link dropped) is answered, in that very step, with its  *)
(* own terminal receipt, and it says SUCCESS exactly if the file landed    *)
(* and was counted.  Only a restart of the process loses transfers.        *)
(***************************************************************************)
EveryTransferIsAnswered ==
    [][\A g \in DOMAIN transfers :
           GoesOn(g) \/ Restart \/
               /\ receipts' # <<>>
               /\ LET r == Head(receipts') IN
                  /\ r.name = transfers[g].name
                  /\ r.size = transfers[g].size /\ r.crc = transfers[g].crc
                  /\ r.status \in {"SUCCESS", "FAILED"}
                  /\ r.status = "SUCCESS" <=> landed' = landed + 1]_vars

(***************************************************************************)
(* A receipt that says SUCCESS of a content tells the truth about the      *)
(* store: the file it names is there, with that size and checksum.  (The   *)
(* storage view and the answer to FILE_DELETE carry no checksum.)          *)
(***************************************************************************)
Honest(r) ==
    r.status = "SUCCESS" /\ r.crc # NoCrc =>
        r.name \in Stored /\ store[r.name] = r.crc /\ r.size = Len(r.crc)

ReceiptsAreHonest == [][\A i \in DOMAIN receipts' : Honest(receipts[i])']_vars
=============================================================================
