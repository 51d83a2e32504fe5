----------------------------- MODULE MCSimulator -----------------------------
(* Instances of Simulator for TLC                                           *)
EXTENDS Simulator

(* A job of two seconds, two of which exceed a limit of 3                   *)
LongJob == {[cpu |-> 2, io |-> 1, net |-> 1, life |-> 2]}
=============================================================================
