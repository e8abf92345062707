--------------------------- MODULE MCFileTransfer ---------------------------
(***************************************************************************)
(* Instances of FileTransfer.                                              *)
(***************************************************************************)
EXTENDS FileTransfer

CONSTANTS Host, OneSize

\* One node shares everything, in files of one size.
HostShares == [s \in Share |-> Host]
SharesOfOneSize == [s \in Share |-> OneSize]
=============================================================================
