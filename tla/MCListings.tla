----------------------------- MODULE MCListings -----------------------------
(* An instance of Listings for TLC: the test flows alone.                  *)
EXTENDS Listings

FourRows == 1 .. 4

FlowsSpec == (ListingsInit /\ kind = "flows") /\ [][ListingsNext]_listingVars
=============================================================================
