--------------------------- MODULE MCFileService ---------------------------
(***************************************************************************)
(* FileService with two connections and two names that compete for room.   *)
(* The name the store refuses is reported cut to one that it accepts.      *)
(***************************************************************************)
EXTENDS FileService, TLC

CONSTANTS f, h, tooLong, x, y

MCNames == {f, h}
MCBadNames == {tooLong}
MCBytes == {x, y}
MCFiles == {<<>>, <<x>>, <<x, y>>}
MCReported == (tooLong :> f)

\* The receipts are what a step answers: no later step looks at them, and
\* the properties look at those of the step itself.
WithoutReceipts == <<store, transfers, landed>>

GroundSymmetry == Permutations(Ground)
=============================================================================
