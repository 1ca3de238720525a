------------------------- MODULE MCOperandReconcile -------------------------
(* OperandReconcile for TLC: how the controllers start.                    *)
EXTENDS OperandReconcile

MCStart(kind, objects, watch) == [controller |-> kind, objects |-> objects, certs |-> watch]

\* A user interface in a new cluster, with cert-manager or without; a report
\* server in a new cluster, and over what an older operator made.
MCStarts ==
  { MCStart("ui", "none", "none"), MCStart("ui", "none", "watched"),
    MCStart("report", "none", "none"), MCStart("report", "older", "none") }

MCNewInterface == { MCStart("ui", "none", "watched") }

=============================================================================
