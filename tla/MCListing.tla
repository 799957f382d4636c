------------------------------ MODULE MCListing ------------------------------
(***************************************************************************)
(* A creator and an admin, three surveys, two inserts at a time, and one   *)
(* client on its way through the pages.  Widths are scaled down: pages of  *)
(* at most two rows, offsets of 4 bits computed in 6.                      *)
(***************************************************************************)
EXTENDS Listing, TLC

CONSTANTS u1, u2, f1, f2

\* Nothing tells one survey id from another.
SameIds == Permutations(SurveyIds)

MCRoleOf == [u \in Users |-> IF u = u1 THEN "creator" ELSE "admin"]

\* No filter, and one that lets through half of what there may be.
MCFilters == {{f1, f2}, {f1}}
=============================================================================
