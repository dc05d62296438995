----------------------------- MODULE MCListing -----------------------------
(***************************************************************************)
(* Instance of Listing for TLC.                                            *)
(***************************************************************************)
EXTENDS Listing

=============================================================================
