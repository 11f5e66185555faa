--------------------------- MODULE MCNotification ---------------------------
(* The notification service for TLC: receipts and refunds, and the live      *)
(* views it shares with order tracking.  They have no state in common, so a  *)
(* behaviour has settled events, or refunds, or one open page.               *)
EXTENDS Receipts, Live

NoMail == (\A o \in Orders : copies[o] = 0) /\ (\A r \in Refunds : refund[r].copies = 0)

MCInit ==
    /\ Init
    /\ \/ /\ LiveInit("none")
          /\ (\A o \in Orders : copies[o] = 0) \/ (\A r \in Refunds : refund[r].copies = 0)
       \/ /\ LiveInit("track") \/ LiveInit("bell")
          /\ NoMail /\ reach = [o \in Orders |-> "good"]

MCNext ==
    \/ view = "none" /\ Next /\ UNCHANGED liveVars
    \/ view # "none" /\ LiveNext /\ UNCHANGED vars

MCSpec == MCInit /\ [][MCNext]_<<vars, liveVars>> /\ Fairness /\ LiveFairness

(* Rows, messages, pages and counters keep their shapes and their bounds:    *)
(* retries, attempts, deliveries (celery_app.py, workflows.py, stream.py).   *)
TypesOK == TypeOK /\ LiveTypeOK
=============================================================================
