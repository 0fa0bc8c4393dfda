----------------------------- MODULE Principals -----------------------------
(***************************************************************************)
(* The persons of the local workspace and what they may do                 *)
(* (ca_principals): card administration and the finance workbench check    *)
(* the same rows.                                                          *)
(***************************************************************************)
CONSTANTS
  Actors,  \* persons with a session
  May      \* person -> permissions

Permissions == {"finance.create", "finance.approve", "finance.control", "finance.risk_check",
                "finance.execute", "finance.price_manage",
                "card.freeze", "card.unfreeze.request", "card.unfreeze.execute",
                "card.debit", "card.frozen_debit", "card.transfer_in", "card.transfer_out",
                "card.approve", "card.execute"}

ASSUME PrincipalsAssumption == May \in [Actors -> SUBSET Permissions]

Permit(a, p) == p \in May[a]
=============================================================================
