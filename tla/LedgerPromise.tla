--------------------------- MODULE LedgerPromise ---------------------------
(***************************************************************************)
(* What the ledger promises its callers about each operation, with no      *)
(* processes, HTTP, locks or retries: money takes one of the two paths     *)
(*   nothing -> moved                     a direct transfer                *)
(*   nothing -> held -> moved / returned  a transfer the provider decides  *)
(* and the caller is told only what is so.  In particular a refusal is     *)
(* final and means that nothing moved and nothing ever will.               *)
(***************************************************************************)
CONSTANT Keys

VARIABLES
  money,  \* key -> "nothing", "held", "moved" or "returned"
  told    \* key -> what the operation's state says to its callers

vars == <<money, told>>

Verdicts == {"open", "reserved", "done", "undone", "refused", "review"}

Init ==
  /\ money = [k \in Keys |-> "nothing"]
  /\ told = [k \in Keys |-> "open"]

(* Money moves only while the caller still waits for it, along one path.   *)
Transfer(k) ==
  /\ told[k] \in {"open", "reserved"}
  /\ \/ /\ told[k] = "open" /\ money[k] = "nothing"
        /\ \E m \in {"held", "moved"} : money' = [money EXCEPT ![k] = m]
     \/ /\ told[k] = "reserved" /\ money[k] = "held"
        /\ \E m \in {"moved", "returned"} : money' = [money EXCEPT ![k] = m]
  /\ UNCHANGED told

Tell(k, verdict) == told' = [told EXCEPT ![k] = verdict] /\ UNCHANGED money

Report(k) ==
  \/ told[k] = "open" /\ money[k] = "held" /\ Tell(k, "reserved")
  \/ told[k] \in {"open", "reserved"} /\ money[k] = "moved" /\ Tell(k, "done")
  \/ told[k] = "reserved" /\ money[k] = "returned" /\ Tell(k, "undone")
  \/ told[k] = "open" /\ money[k] = "nothing" /\ Tell(k, "refused")

(* An operator has to look at the operation: never when money is unsure.   *)
AskReview(k) ==
  /\ \/ told[k] = "open" /\ money[k] = "nothing"
     \/ told[k] = "reserved" /\ money[k] = "held"
  /\ Tell(k, "review")

Next == \E k \in Keys : Transfer(k) \/ Report(k) \/ AskReview(k)

Spec == Init /\ [][Next]_vars
=============================================================================
