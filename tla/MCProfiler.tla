------------------------------ MODULE MCProfiler ------------------------------
(* Instances of Profiler for TLC                                            *)
EXTENDS Profiler

Uniform(l) == [cpu |-> l, io |-> l, net |-> l]

(* Loads less than one unit apart in a chain of more than one, and loads    *)
(* next to the 255 of a worker that is down                                 *)
Close == {Uniform(1), [cpu |-> 1, io |-> 2, net |-> 2], Uniform(2)}
NearDown == {Uniform(1), [cpu |-> 254, io |-> 255, net |-> 255]}

OneNode == <<3>>
ThreeNodes == <<3, 0, 2>>
=============================================================================
