----------------------------- MODULE MCUeControl -----------------------------
(* Instances of UeControl: a load field that wakes a stopped agent and a   *)
(* direction field that does not.                                          *)
EXTENDS UeControl

(* A start and a set with a load, a set of the other fields, and a stop.   *)
MCRequests ==
    {<<Waking, "start">>, <<Waking, "set">>, <<Fields \ Waking, "set">>, <<{}, "stop">>}

StartAndStop == {<<Waking, "start">>, <<{}, "stop">>}
===============================================================================
