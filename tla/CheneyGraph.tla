---------------------------- MODULE CheneyGraph ----------------------------
(* CheneyGC implements HeapGraph: the words are hidden behind their graph. *)
EXTENDS CheneyGC

\* Graph(mem, frames), which is computed once in a state.
VARIABLE graph

GraphVars == <<vars, graph>>

GraphInit == Init /\ graph = Graph(mem, frames)

GraphNext == Next /\ graph' = Graph(mem', frames')

GraphSpec == GraphInit /\ [][GraphNext]_GraphVars

H == INSTANCE HeapGraph WITH stack <- graph.stack, objs <- graph.objs

\* "The after graph of nodes reachable [...] is isomorphic to the before
\* graph" (gc_stack.h): no step of the collector changes what the mutator
\* sees, and every step of the mutator does what it means on that graph.
GraphPreserved == H!Spec
=============================================================================
