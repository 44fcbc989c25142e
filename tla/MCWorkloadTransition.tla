------------------------ MODULE MCWorkloadTransition ------------------------
(* Instances of WorkloadTransition for TLC. *)
EXTENDS WorkloadTransition

CONSTANTS a, b

TwoPhases   == <<a, b>>
Recurrence  == <<a, b, a>>
RepeatedLabel == <<a, b, b>>
=============================================================================
