------------------------------ MODULE StepSync ------------------------------
(* What the orchestrator promises to the clients that watch a simulation,    *)
(* without brokers, workers, chunks or retries: time advances one step at a  *)
(* time, every step produces exactly one frame, a frame shows every particle *)
(* that has not left the part of the box some worker answers for, and frames *)
(* leave in the order of their steps, each at most once.  A frame may be     *)
(* lost on its way out, and the simulation may give up for good.             *)
(* Orchestrator.tla implements this specification.                           *)
EXTENDS Naturals, Sequences

CONSTANTS Particle,      \* the particles of the simulation, by id
          MaxStep,       \* bound of the model on the number of steps
          Covered        \* Covered[s]: the ids within some worker's bounds after step s

VARIABLES step,          \* the step being computed
          outbox,        \* frames produced and not yet shown or lost
          shown,         \* frames the clients were shown, oldest first
          status         \* "running" or "stopped"

vars == <<step, outbox, shown, status>>

Frame == [t : Nat, ids : SUBSET Particle]

TypeOK == /\ step \in 0..MaxStep
          /\ outbox \in Seq(Frame)
          /\ shown \in Seq(Frame)
          /\ status \in {"running", "stopped"}

Init == /\ step = 0
        /\ outbox = <<>>
        /\ shown = <<>>
        /\ status = "running"

(* The particles that are left when step s begins.                          *)
Remaining(s) == {p \in Particle : \A r \in 0..(s - 1) : p \in Covered[r]}

(* One step of the simulation: a frame with every particle left, and the next step. *)
Advance == /\ status = "running"
           /\ step < MaxStep
           /\ outbox' = Append(outbox, [t |-> step, ids |-> Remaining(step + 1)])
           /\ step' = step + 1
           /\ UNCHANGED <<shown, status>>

Show == /\ outbox # <<>>
        /\ shown' = Append(shown, Head(outbox))
        /\ outbox' = Tail(outbox)
        /\ UNCHANGED <<step, status>>

Lose == /\ outbox # <<>>
        /\ outbox' = Tail(outbox)
        /\ UNCHANGED <<step, shown, status>>

GiveUp == /\ status = "running"
          /\ status' = "stopped"
          /\ UNCHANGED <<step, outbox, shown>>

Next == Advance \/ Show \/ Lose \/ GiveUp

(* The simulation does not hang: the step it is at gets done or given up (up *)
(* to the bound, where the model stops).                                     *)
Decide == step < MaxStep /\ (Advance \/ GiveUp)
Spec == Init /\ [][Next]_vars /\ WF_vars(Decide)
=============================================================================
