--------------------------- MODULE MCGatewayClient ---------------------------
(* Instances of GatewayClient for TLC. *)
EXTENDS GatewayClient

\* No limit, and a limit the faults can reach.
MCReconnectLimits == {-1, 2}

NoLimit == {-1}

=============================================================================
