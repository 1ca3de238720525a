----------------------------- MODULE MCMetering -----------------------------
(* Values of the constants of Metering for model checking. *)
EXTENDS Metering

\* The receiver is enabled, or not; switched off; on and off again; off and on again.
MCOnly  == <<TRUE>>
MCNever == <<FALSE>>
MCOff   == <<TRUE, FALSE>>
MCOnOff == <<FALSE, TRUE, FALSE>>
MCOffOn == <<TRUE, FALSE, TRUE>>

=============================================================================
