----------------------------- MODULE AtLeastOnce -----------------------------
(***************************************************************************)
(* What the live service promises MTDS: a mark update is settled only once *)
(* a PricingLedger write of it took effect (mark_update_sub.py:10, "ack    *)
(* only after callback returns"), and is settled in the end if it can be.  *)
(* Writing a message again, before or after it is settled, is allowed.     *)
(***************************************************************************)
CONSTANTS Messages, Reliable
VARIABLE status

Status == {"unsent", "pending", "written", "settled"}

AloTypeOK == status \in [Messages -> Status]

Init == status = [m \in Messages |-> "unsent"]

Publish(m) == /\ status[m] = "unsent"
              /\ status' = [status EXCEPT ![m] = "pending"]

Write(m) == /\ status[m] = "pending"
            /\ status' = [status EXCEPT ![m] = "written"]

\* One acknowledgement settles a batch.
Settle(S) ==
  /\ \A m \in S : status[m] = "written"
  /\ status' = [m \in Messages |-> IF m \in S THEN "settled" ELSE status[m]]

Next == \/ \E m \in Messages : Publish(m) \/ Write(m)
        \/ \E S \in SUBSET Messages : Settle(S)

Spec == Init /\ [][Next]_status

\* A published message the service can process is settled in the end.
EventuallySettled ==
  \A m \in Reliable : (status[m] = "pending") ~> (status[m] = "settled")
=============================================================================
