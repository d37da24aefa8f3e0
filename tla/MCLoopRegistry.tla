--------------------------- MODULE MCLoopRegistry ---------------------------
(* A small instance of LoopRegistry.  Streams are numbers: they are         *)
(* interchangeable, so it is enough to start with limits in their order.    *)
EXTENDS LoopRegistry

MCStreams == 1..3

MCInit == Init /\ \A s, t \in Streams : s < t => limit[s] <= limit[t]

MCSpec == MCInit /\ [][Next]_vars /\ Fairness
=============================================================================
