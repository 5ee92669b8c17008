----------------------------- MODULE MCMachine -----------------------------
(* The machine for TLC.                                                    *)
EXTENDS Machine
============================================================================
