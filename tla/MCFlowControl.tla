--------------------------- MODULE MCFlowControl ---------------------------
(* Values for the parameters of FlowControl: where no interrupt is taken.    *)
EXTENDS FlowControl

\* The two windows in which an interrupt loses an update: inside the
\* read-modify-writes.
TakeWindow == {"dec_w"}
SetWindow  == {"set_w"}

Nowhere     == {}
NoRaces     == TakeWindow \cup SetWindow
=============================================================================
