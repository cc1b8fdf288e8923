--------------------------- MODULE MCHeaderUpdate ---------------------------
(* Two updates of a group of six numbers, one of which no article has. *)
EXTENDS HeaderUpdate

\* The group grows, and old articles expire.
MCReplies == {[first |-> 1, last |-> 4], [first |-> 2, last |-> 6]}
=============================================================================
