------------------------- MODULE MCCollectorPipeline -------------------------
(* Two Jobs that write to different databases through the one writer.      *)
EXTENDS CollectorPipeline

CONSTANTS j1, j2, db1, db2

OwnDatabase == (j1 :> db1) @@ (j2 :> db2)
=============================================================================
