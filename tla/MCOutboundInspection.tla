------------------------ MODULE MCOutboundInspection ------------------------
EXTENDS OutboundInspection, TLC

CONSTANTS o1, o2

\* One order that needs two of the three serials and can be cancelled, and a
\* prepaid one.
WantedDef == o1 :> 2 @@ o2 :> 1
=============================================================================
