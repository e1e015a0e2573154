--------------------------- MODULE MCDemandPaging ---------------------------
(* Three pages of three bytes; two addresses lie outside of the nine bytes *)
(* and wrap around, three are in the same page.                            *)
EXTENDS DemandPaging

MCAddresses == {-1, 0, 1, 5, 9}
=============================================================================
