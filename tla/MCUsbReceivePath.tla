-------------------------- MODULE MCUsbReceivePath --------------------------
(***************************************************************************)
(* Instances of UsbReceivePath for TLC.  The ring is far smaller than the  *)
(* lines of the host, as the 512-byte ring is far smaller than a 4096-byte *)
(* line.                                                                   *)
(***************************************************************************)
EXTENDS UsbReceivePath

\* Lengths below, at and above the line limit of 2.
MixedLengths == 1..3
=============================================================================
