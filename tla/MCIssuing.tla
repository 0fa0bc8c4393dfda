----------------------------- MODULE MCIssuing ------------------------------
(* Instances of Issuing for TLC: one card with a top-up, and two orders    *)
(* for which the wallet is too small.                                      *)
EXTENDS Issuing

CONSTANTS o1, o2, t1, t2

OneCard == [o \in Orders |-> o1]
TwoCards == [o \in Orders |-> o]
WithTopups == [o \in Orders |-> IF o = o2 THEN o2 ELSE o1]

(* A bound: the second order or the second top-up, not both. *)
OrderOrTopup == state[o2] = "absent" \/ state[t2] = "absent"

FeeOfFirst == [o \in Orders |-> IF TopUp(o) THEN 0 ELSE 1]
Equal == [o \in Orders |-> 2]
=============================================================================
