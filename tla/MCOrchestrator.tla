--------------------------- MODULE MCOrchestrator ---------------------------
(* Instances of Orchestrator for TLC: two workers, three particles that move   *)
(* from one worker to the other between steps, and answers whose number of     *)
(* chunks differs from worker to worker and from step to step.  Two workers     *)
(* answer for two of the eight cells of their grid, so particles get lost: p2    *)
(* after step 1, the others after step 2, and step 3 has no particles.          *)
EXTENDS Orchestrator, TLC

CONSTANTS w1, w2, p1, p2, p3, old1, old2

MCWorker == {w1, w2}
MCParticle == {p1, p2, p3}
MCOldParticle == {old1, old2}

MCPlace == [s \in Step |->
  CASE s = 0 -> (p1 :> <<w1, 0>>) @@ (p2 :> <<w1, 2>>) @@ (p3 :> <<w2, 0>>) @@ (old1 :> <<w2, 0>>)
    [] s = 1 -> (p1 :> <<w2, 1>>) @@ (p3 :> <<w2, 0>>) @@ (old1 :> <<w1, 0>>)
    [] OTHER -> (p2 :> <<w1, 0>>) @@ (old1 :> <<w1, 0>>)]
MCTotal == [s \in Step |->
  IF s % 2 = 0 THEN (w1 :> 3) @@ (w2 :> 1) ELSE (w1 :> 1) @@ (w2 :> 2)]

(* Answers of a run that crashed, to its own steps 0 and 1: a whole answer of    *)
(* w2 to step 0, the last of w1's four chunks, and the first of w1's two to step 1. *)
OldAnswer(w, s, i, n, p) ==
  [worker |-> w, step |-> s, idx |-> i, total |-> n, particles |-> {p}]
MCLeftover == {OldAnswer(w2, 0, 0, 1, old1), OldAnswer(w1, 0, 3, 4, old2),
               OldAnswer(w1, 1, 0, 2, old2)}
=============================================================================
