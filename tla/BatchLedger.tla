----------------------------- MODULE BatchLedger -----------------------------
(***************************************************************************)
(* What the collector's data plane promises, without readers, buffers,     *)
(* streams or flushes: every batch the queue accepts is answered exactly   *)
(* once, stored or failed, in the order of acceptance, and collecting a    *)
(* Job is over only when all of its batches are answered.                  *)
(***************************************************************************)
EXTENDS Naturals, Sequences

CONSTANT Jobs

VARIABLES
  log,       (* the accepted batches, in order, with the answer of each    *)
  collecting (* the Jobs being collected                                   *)

ledgerVars == <<log, collecting>>

Open(i) == log[i].outcome = "open"

Init == log = <<>> /\ collecting = {}

Begin(j) ==
  /\ j \notin collecting
  /\ collecting' = collecting \cup {j}
  /\ UNCHANGED log

Accept(j) ==
  /\ j \in collecting
  /\ log' = Append(log, [job |-> j, outcome |-> "open"])
  /\ UNCHANGED collecting

\* The writer answers the oldest open batches, down to the n-th of the log.
Answer(n) ==
  /\ Open(n)
  /\ \E result \in [{i \in 1 .. n : Open(i)} -> {"stored", "failed"}] :
       log' = [i \in DOMAIN log |->
                 IF i \in DOMAIN result THEN [log[i] EXCEPT !.outcome = result[i]]
                                        ELSE log[i]]
  /\ UNCHANGED collecting

End(j) ==
  /\ j \in collecting
  /\ \A i \in DOMAIN log : log[i].job = j => ~Open(i)
  /\ collecting' = collecting \ {j}
  /\ UNCHANGED log

Next ==
  \/ \E j \in Jobs : Begin(j) \/ Accept(j) \/ End(j)
  \/ \E n \in DOMAIN log : Answer(n)

Spec == Init /\ [][Next]_ledgerVars
=============================================================================
