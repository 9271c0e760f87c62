---------------------------- MODULE MCHidBridge ----------------------------
(* Instances of HidBridge for model checking *)
EXTENDS HidBridge

CONSTANTS k1, k2
TwoCodes == {k1, k2}
OneCode  == {k1}
============================================================================
