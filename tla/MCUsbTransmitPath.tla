------------------------- MODULE MCUsbTransmitPath -------------------------
(***************************************************************************)
(* The instance of UsbTransmitPath for TLC: the queue depth of the code,   *)
(* more lines than slots, and more than one bus reset, so that a line can  *)
(* be repeated, retired and followed by another in each phase.             *)
(***************************************************************************)
EXTENDS UsbTransmitPath
=============================================================================
