--------------------------- MODULE MCProbeResponse --------------------------
(* ProbeResponse instantiated for TLC by the MCProbeResponse*.cfg files. *)
EXTENDS ProbeResponse

\* An inbound listening on one address.
MCAddresses == <<"a1">>
=============================================================================
