----------------------------- MODULE MCBleConn -----------------------------
(* Small instances of BleConn, with its history, for TLC: see the .cfg      *)
(* files.                                                                   *)
EXTENDS BleConnHistory

CONSTANTS MowerA, MowerB

OneMower  == {MowerA}
TwoMowers == {MowerA, MowerB}

ManualOnly    == {0}
AutoOnly      == {3}
ManualOrAuto  == {0, 3}
=============================================================================
