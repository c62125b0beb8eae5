---------------------------- MODULE MCStreams ----------------------------
(* Instances of Streams for TLC: streams are named for their consumer and  *)
(* their buffer mode.                                                      *)
EXTENDS Streams

(* Five events: the second matches another policy and has another id, the  *)
(* third matches no policy.                                                *)
MCMatched == <<{1}, {2}, {}, {1}, {1}>>
MCEventId == <<10, 20, 10, 10, 10>>

(* A printer in block mode without filters, a printer in drop mode that    *)
(* filters on event id 10, and a gRPC call that asks for policy 1.         *)
MCBufferSize == [s \in Streams |-> 1]
MCPolicyMask == [s \in Streams |-> IF s = "grpc" THEN {1} ELSE {1, 2}]
MCEventMap == [s \in Streams |-> IF s = "drop" THEN {10} ELSE {}]
===========================================================================
