--------------------------- MODULE MCJobMutations ---------------------------
(* Two Jobs and one API request at a time, beside the package script or     *)
(* beside the mutations of the Interface.                                   *)
EXTENDS JobMutations

CONSTANTS c1, a, b

OneCaller     == {c1}
TwoJobs       == 1 .. 2
NoShape       == {}
TwoShapes     == {a, b}
PackageScript == {"pkg"}
InterfaceApi  == {"admin"}
=============================================================================
