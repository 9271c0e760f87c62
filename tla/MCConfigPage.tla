---------------------------- MODULE MCConfigPage ----------------------------
(* Instance of ConfigPage for model checking *)
EXTENDS ConfigPage

\* One of the three documents does not fit the vendor FIFO
LastBig == {MaxEdits}
=============================================================================
