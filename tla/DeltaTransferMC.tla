-------------------------- MODULE DeltaTransferMC --------------------------
(***************************************************************************)
(* Instances of DeltaTransfer for TLC.                                     *)
(***************************************************************************)
EXTENDS DeltaTransfer

\* A temporary file, an update in place, and appending, which is in place too.
AllModes == {<<FALSE, 0>>, <<TRUE, 0>>, <<TRUE, 1>>, <<TRUE, 2>>}
InPlaceModes == {<<TRUE, 0>>}

Even == {0, 2}
Bits == {0, 1}
=============================================================================
