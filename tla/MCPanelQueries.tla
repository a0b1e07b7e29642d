--------------------------- MODULE MCPanelQueries ---------------------------
(* PanelQueries for TLC: two addresses a device object can have.           *)
EXTENDS PanelQueries

CONSTANTS p, q

TwoAddresses == {p, q}
=============================================================================
