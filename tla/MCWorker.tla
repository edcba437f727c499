------------------------------ MODULE MCWorker ------------------------------
(* Instances of Worker for TLC.                                             *)
EXTENDS Worker, TLC

StepSymmetry == Permutations(Steps)
Symmetry == Permutations(Workers) \cup StepSymmetry

\* The part of a state later steps depend on: "seen" is read only by the
\* commit that follows it, a phase only while its step is undecided or running.
LiveState ==
    <<outbox, job, crashes, errors, runStatus, pendingStep, connectionApproved,
      stepStatus, execution, sshRuns, pc,
      [w \in Workers |-> pc[w] = "applying" /\ seen[w] = "aborted"],
      [s \in Steps |-> IF Active(s) THEN stepPhase[s] ELSE "diagnostic"]>>
-----------------------------------------------------------------------------
(* Liveness.  A worker waits for ever only where a bound of the model stops *)
(* it: no step id or no outbox row is left for its transaction.             *)

BoundReached ==
    \E w \in Workers :
        \/ pc[w] = "applying" /\ Len(outbox) >= MaxEvents
        \/ pc[w] = "proposing" /\ \A s \in Steps : stepStatus[s] # "none"

Open(e) == outbox[e].status \in {"pending", "processing", "failed"}

(* Whatever the technician does meanwhile, no handler of the worker gets    *)
(* stuck or loops: every outbox row is completed or dead-lettered.          *)
EveryRowIsHandled ==
    \A e \in 1..MaxEvents :
        (e \in DOMAIN outbox /\ Open(e))
            ~> (e \in DOMAIN outbox /\ ~Open(e)) \/ BoundReached

(* Without crashes and errors, an approved command ends (executed or        *)
(* failed) unless the run is moved out of the status the approval gave it.  *)
ApprovedCommandEnds ==
    \A s \in Steps :
        stepStatus[s] = "approved"
            ~> \/ stepStatus[s] \in {"executed", "failed"}
               \/ runStatus # StatusForApproved(stepPhase[s])
               \/ BoundReached
-----------------------------------------------------------------------------
(* A claim of the repository's documents that the code does not keep.       *)

(* docs/architecture-spec.md:356: "Aborted --> [*]", an aborted run stays   *)
(* aborted.  complete_command_execution writes the status it computed from  *)
(* a read that an abort has overtaken.                                      *)
AbortedIsFinal == [][runStatus = "aborted" => runStatus' = "aborted"]_vars

=============================================================================
