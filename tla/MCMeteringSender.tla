-------------------------- MODULE MCMeteringSender --------------------------
(* Values of the constants of MeteringSender for model checking. *)
EXTENDS MeteringSender

\* Generation 1 leaves spec.replicas unset and 2 asks for two.
MCCrReplicas1 == <<0>>
MCCrReplicas2 == <<0, 2>>

=============================================================================
