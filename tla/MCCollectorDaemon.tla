-------------------------- MODULE MCCollectorDaemon --------------------------
(* Two Jobs, which are interchangeable.                                    *)
EXTENDS CollectorDaemon, TLC

CONSTANTS j1, j2

TwoJobs == {j1, j2}

JobSymmetry == Permutations(TwoJobs)
=============================================================================
