----------------------------- MODULE MCCheneyGC -----------------------------
(* CheneyGC and its graph, with a few objects of a word or two. *)
EXTENDS CheneyGraph

\* Stores that do not make an older generation point into a middle one: the
\* value is in the nursery, or no younger than the cell.
YoungOrOlder(g, h) == h = 0 \/ h >= g

\* Only the stores that this excludes.
OlderToMiddle(g, h) == 0 < h /\ h < g
=============================================================================
