------------------------------ MODULE MCOutbox ------------------------------
(* Instances of Outbox for TLC, and what it promises under fairness.        *)
EXTENDS Outbox, TLC

Open(e) == outbox[e].status \in {"pending", "processing", "failed"}

(* Every enqueued row is eventually completed or dead-lettered and a        *)
(* claimed row is never stranded, whatever the handler does and wherever    *)
(* the worker crashes (claim_next_outbox_event, fail_outbox_event).         *)
EveryEventSettles ==
    \A e \in 1..MaxEvents :
        (e \in DOMAIN outbox /\ Open(e)) ~> (e \in DOMAIN outbox /\ ~Open(e))
=============================================================================
