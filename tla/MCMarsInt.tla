------------------------------ MODULE MCMarsInt ------------------------------
(* MarsInt with windows of a few cycles and handlers that outlast one.      *)
EXTENDS MarsInt

MCHandlerLen == [l \in {V, CMD, PWM} |-> IF l = CMD THEN 3 ELSE 2]

\* orderly, with V on the master
MCOrderlyV == {[v |-> {"master"}, ackAt |-> 3, overlap |-> FALSE]}

\* orderly, without V
MCOrderly == {[v |-> {}, ackAt |-> 3, overlap |-> FALSE]}

\* these two, and one that does everything
MCCarts == MCOrderlyV \cup MCOrderly
             \cup {[v |-> {"master"}, ackAt |-> 2, overlap |-> TRUE]}
=============================================================================
