---------------------------- MODULE MCExportHeap ----------------------------
(* ExportHeap with two objects, in one or two generations.                   *)
EXTENDS ExportHeap

\* As in MCCheneyGC.
YoungOrOlder(g, h) == h = 0 \/ h >= g
=============================================================================
