---------------------------- MODULE MarkUpdateBus ----------------------------
(***************************************************************************)
(* The mark-update subscription as greeks-service uses it: MessageBus.pull *)
(* and MessageBus.acknowledge of unified_trading_library, which is not in  *)
(* the repository.  It delivers at least once: a pulled message is leased  *)
(* to the worker that pulled it, and is delivered again when the lease     *)
(* lapses before an acknowledgement arrives.  Delivery order is arbitrary. *)
(***************************************************************************)
EXTENDS Naturals, FiniteSets

CONSTANTS Messages,     \* the Pub/Sub messages MTDS publishes
          Workers,      \* service processes pulling the subscription
          Nobody,       \* no lease
          MaxMessages   \* mark_update_max_messages, the size of a pull

VARIABLES published,    \* messages MTDS has published
          acked,        \* messages the subscription will not deliver again
          lease         \* who holds the delivery of each message

ASSUME BusAssumption == /\ Nobody \notin Workers
                        /\ MaxMessages \in Nat \ {0}

busVars == <<published, acked, lease>>

BusTypeOK == /\ published \subseteq Messages
             /\ acked \subseteq Messages
             /\ lease \in [Messages -> Workers \cup {Nobody}]

BusInit == /\ published = {}
           /\ acked = {}
           /\ lease = [m \in Messages |-> Nobody]

Available == {m \in published \ acked : lease[m] = Nobody}

Publish(m) == /\ m \notin published
              /\ published' = published \cup {m}
              /\ UNCHANGED <<acked, lease>>

\* pull(subscription, max_messages) by w returned the messages S.
Deliver(w, S) ==
  /\ S \subseteq Available
  /\ Cardinality(S) <= MaxMessages
  /\ lease' = [m \in Messages |-> IF m \in S THEN w ELSE lease[m]]
  /\ UNCHANGED <<published, acked>>

\* The subscription settles the messages S, whoever holds them now.
Settle(S) ==
  /\ acked' = acked \cup S
  /\ lease' = [m \in Messages |-> IF m \in acked' THEN Nobody ELSE lease[m]]
  /\ UNCHANGED published

\* acknowledge(subscription, S) by w returned: what w still leases is settled,
\* an acknowledgement later than the lease may or may not be honoured.
Honoured(w, S) == {m \in S : lease[m] = w}
AcknowledgeAll(w, S) ==
  \E late \in SUBSET (S \ Honoured(w, S)) : Settle(Honoured(w, S) \cup late)

\* The acknowledgement deadline of m passed.
LeaseLapses(m) == /\ lease[m] # Nobody
                  /\ lease' = [lease EXCEPT ![m] = Nobody]
                  /\ UNCHANGED <<published, acked>>
=============================================================================
