------------------------------ MODULE MCAtmRun ------------------------------
(* Small instances of the run loop for TLC. *)
EXTENDS AtmRun

\* The restart stream comes before a history stream and one more in the list.
MCOutputs == <<"restart", "output">>
MCThreeOutputs == <<"restart", "output", "extra">>
=============================================================================
