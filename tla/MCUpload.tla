----------------------------- MODULE MCUpload -----------------------------
(***************************************************************************)
(* Two grounds upload the same file, files of the same name, or an empty   *)
(* file, into a store that may hold one of them already.                   *)
(***************************************************************************)
EXTENDS Upload, TLC

CONSTANTS f, x

MCNames == {f}
MCBadNames == {}
MCReported == <<>>
MCBytes == {x}
MCFiles == {<<>>, <<x>>}
MCUploads == [name : MCNames, content : {<<>>, <<x>>}]

\* No step and no property looks at the receipts of the last step.
WithoutReceipts ==
    <<store, transfers, landed, groundVars, uplink, downlink, conn, history>>

GroundSymmetry == Permutations(Ground)
=============================================================================
