---------------------------- MODULE MCBleClient ----------------------------
(* Two remotes for model-checking BleClient *)
EXTENDS BleClient

CONSTANTS A, B, Key

TwoRemotes == {A, B}
\* Each with a name of its own
OwnNames == [r \in TwoRemotes |-> r]
PageTargets == {B, Malformed}
Keys     == {VOICE, Key}
OneRemote == {A}
OneName  == [r \in OneRemote |-> r]
============================================================================
