---------------------------- MODULE MCSdCardTest ----------------------------
(***************************************************************************)
(* Instances of SdCardTest for TLC: the three families of card the driver  *)
(* tells apart, and one that has fewer places than sectors.                *)
(***************************************************************************)
EXTENDS SdCardTest

Genuine(version, high) ==
  [version |-> version, high |-> high, places |-> BlockCount]

Families == {Genuine(1, FALSE), Genuine(2, FALSE), Genuine(2, TRUE)}
Counterfeit == [version |-> 2, high |-> TRUE, places |-> 1]
AllKinds == Families \cup {Counterfeit}
=============================================================================
