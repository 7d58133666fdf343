----------------------------- MODULE MCListing ------------------------------
(***************************************************************************)
(* Tables of at most six entries, pages of one, two and (by default) three. *)
(***************************************************************************)
EXTENDS Listing

Sizes == {-1, 1, 2}
=============================================================================
