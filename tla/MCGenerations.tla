--------------------------- MODULE MCGenerations ---------------------------
(* Generations with a nursery of a few words. *)
EXTENDS Generations

\* No request, one that fits, the whole nursery, and one word too many.
MCRequests == {0, 1, NURSERY_SIZE, NURSERY_SIZE + 1}
=============================================================================
