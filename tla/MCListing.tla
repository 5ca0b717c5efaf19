----------------------------- MODULE MCListing -----------------------------
(* Instances of Listing for TLC. *)
EXTENDS Listing

FewSizes == {0, 1, 3}
=============================================================================
