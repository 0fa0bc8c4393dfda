----------------------------- MODULE CardAdmin ------------------------------
(***************************************************************************)
(* Card administration of the local workspace (card-admin.mjs): one card   *)
(* under test, the requests, reviews and jobs that restrict it or move its *)
(* money, and the customer's own freeze and request to lift a freeze.      *)
(*                                                                         *)
(* Every command is one transaction.  A job is answered later, by a worker *)
(* or by a person who asks again, and until then other requests, reviews   *)
(* and freezes of the same card go on.                                     *)
(***************************************************************************)
EXTENDS Integers, FiniteSetsExt, Principals

CONSTANTS
  CardOps,          \* operations, numbered in the order they are requested
  CardAmounts,      \* amounts that may be moved
  CardOpening,      \* account -> its opening entry
  MaxCardRevision   \* bound of the card's revision

ASSUME CardAssumption ==
  /\ CardOps \subseteq Nat \ {0}
  /\ CardAmounts \subseteq Nat \ {0}
  /\ CardOpening \in [{"wallet", "funds", "receivable"} -> Nat]
  /\ MaxCardRevision \in Nat
  /\ "nobody" \notin Actors  \* the reviewer of an operation that has none

VARIABLES
  card,   \* the row of ca_cards: restrictions, state at the provider, revision
  op,     \* operation -> its row of ca_operations
  job,    \* operation -> state of its row of ca_jobs
  held,   \* operation -> its row of ca_holds, 0 if there is none
  money   \* account -> sum of its ca_entries

cardVars == <<card, op, job, held, money>>

Accounts == {"wallet", "funds", "receivable"}
MoneyKinds == {"debit", "transfer_in", "transfer_out"}
SelfKinds == {"self_freeze", "self_unfreeze"}
CardKinds == {"freeze", "unfreeze"} \cup MoneyKinds \cup SelfKinds
Customer == "customer"
NoOne == "nobody"
NoOp == [kind |-> "none", requester |-> NoOne, reviewer |-> NoOne, asked |-> FALSE,
         amount |-> 0, revision |-> 0, approval |-> "none", execution |-> "none"]

CardInit ==
  /\ card = [risk |-> FALSE, self |-> FALSE, status |-> "active", revision |-> 0]
  /\ op = [o \in CardOps |-> NoOp]
  /\ job = [o \in CardOps |-> "none"]
  /\ held = [o \in CardOps |-> 0]
  /\ money = CardOpening

Source(kind) == IF kind = "transfer_in" THEN "wallet" ELSE "funds"
Target(kind) ==
  CASE kind = "debit" -> "receivable" [] kind = "transfer_in" -> "funds" [] OTHER -> "wallet"
OpsMade == {o \in CardOps : op[o] # NoOp}
HeldFrom(o, account) == IF Source(op[o].kind) = account THEN held[o] ELSE 0
OnHold(account) == SumFunction([o \in OpsMade |-> HeldFrom(o, account)])
Spendable(account) == money[account] - OnHold(account)
InFlight(o) == op[o].execution = "processing"
Unused(o) == op[o] = NoOp /\ \A p \in CardOps : p < o => op[p] # NoOp
Cramped == card.revision >= MaxCardRevision

(* Mistake: what the request found is not looked at again. *)
MayBeginAsAsked(o, by) ==
  /\ op[o].kind # "freeze" => card.revision = op[o].revision
  /\ op[o].kind = "unfreeze" =>
       card.risk /\ \A p \in CardOps \ {o} : ~InFlight(p)

(* beginExecution: what the card and the accounts must still be. *)
MayBegin(o, by) ==
  LET kind == op[o].kind IN
  /\ kind # "freeze" => card.revision = op[o].revision
  /\ kind = "unfreeze" => card.risk /\ \A p \in CardOps \ {o} : ~InFlight(p)
  /\ kind \in MoneyKinds =>
       /\ Spendable(Source(kind)) >= op[o].amount
       /\ card.risk => /\ Permit(by, "card.frozen_debit")
                       /\ Permit(op[o].requester, "card.frozen_debit")
       /\ card.risk \/ card.self => kind = "debit"

(* beginExecution: the money is held and a job is stored. *)
Begin(o, row) ==
  /\ op' = [op EXCEPT ![o] = [row EXCEPT !.execution = "processing"]]
  /\ job' = [job EXCEPT ![o] = "queued"]
  /\ held' = [held EXCEPT ![o] = row.amount]

-----------------------------------------------------------------------------
(* Requests.                                                               *)

Needs == [freeze |-> "card.freeze", unfreeze |-> "card.unfreeze.request",
          debit |-> "card.debit", transfer_in |-> "card.transfer_in",
          transfer_out |-> "card.transfer_out"]

(* capability and quote: whether the operation may be asked for now. *)
Capable(a, kind, n) ==
  /\ Permit(a, Needs[kind])
  /\ IF kind = "freeze" THEN ~card.risk ELSE \A p \in CardOps : ~InFlight(p)
  /\ kind = "unfreeze" => card.risk
  /\ kind \in MoneyKinds =>
       /\ card.risk /\ kind = "debit" => Permit(a, "card.frozen_debit")
       /\ card.risk \/ card.self => kind = "debit"
       /\ Spendable(Source(kind)) >= n

Row(a, kind, n, approval) ==
  [NoOp EXCEPT !.kind = kind, !.requester = a, !.amount = n, !.revision = card.revision,
               !.approval = approval, !.execution = "pending"]

(* requestCardOperation, for all but a freeze: it waits for a review. *)
Request(o, a, kind, n) ==
  /\ Unused(o) /\ kind # "freeze" /\ Capable(a, kind, n)
  /\ op' = [op EXCEPT ![o] = Row(a, kind, n, "pending")]
  /\ UNCHANGED <<card, job, held, money>>

(* requestCardOperation: a freeze restricts the card before the provider   *)
(* knows of it.                                                            *)
Freeze(o, a) ==
  /\ Unused(o) /\ Capable(a, "freeze", 0) /\ ~Cramped
  /\ card' = [card EXCEPT !.risk = TRUE, !.revision = @ + 1]
  /\ Begin(o, Row(a, "freeze", 0, "not_required"))
  /\ UNCHANGED money

(* clientCardFreeze: the customer's own freeze, or the end of it. *)
ClientFreeze(o) ==
  /\ Unused(o) /\ ~card.risk /\ \A p \in CardOps : ~InFlight(p)
  /\ Begin(o, Row(Customer, IF card.self THEN "self_unfreeze" ELSE "self_freeze", 0, "not_required"))
  /\ UNCHANGED <<card, money>>

Asked(o) == op[o].asked /\ op[o].revision = card.revision
Waiting(o) == op[o].approval \in {"pending", "returned"} \/ InFlight(o)

(* clientUnfreezeRequest: one request for each freeze at a time; one that  *)
(* was returned is sent again.                                             *)
ClientUnfreeze(o) ==
  /\ card.risk
  /\ \/ /\ Unused(o) /\ \A p \in CardOps : ~(Asked(p) /\ Waiting(p))
        /\ op' = [op EXCEPT ![o] = [Row(Customer, "unfreeze", 0, "pending") EXCEPT !.asked = TRUE]]
     \/ /\ Asked(o) /\ op[o].approval = "returned"
        /\ op' = [op EXCEPT ![o] = [@ EXCEPT !.approval = "pending", !.execution = "pending",
                                             !.reviewer = NoOne]]
  /\ UNCHANGED <<card, job, held, money>>

-----------------------------------------------------------------------------
(* reviewCardOperation.                                                    *)

Reviewable(o, a) ==
  op[o].approval = "pending" /\ Permit(a, "card.approve") /\ op[o].requester # a

(* An approved operation starts at once, or fails if it no longer may. *)
ApproveOp(o, a) ==
  /\ Reviewable(o, a) /\ Permit(a, "card.execute")
  /\ op[o].kind = "unfreeze" => Permit(a, "card.unfreeze.execute")
  /\ LET row == [op[o] EXCEPT !.approval = "approved", !.reviewer = a] IN
     IF MayBegin(o, a) THEN Begin(o, row)
     ELSE op' = [op EXCEPT ![o] = [row EXCEPT !.execution = "failed"]] /\ UNCHANGED <<job, held>>
  /\ UNCHANGED <<card, money>>

(* A customer's request may be returned instead of rejected. *)
RefuseOp(o, a) ==
  /\ Reviewable(o, a)
  /\ \E approval \in {"rejected"} \cup (IF op[o].asked THEN {"returned"} ELSE {}) :
       op' = [op EXCEPT ![o] = [@ EXCEPT !.approval = approval, !.reviewer = a,
                                         !.execution = "not_executed"]]
  /\ UNCHANGED <<card, job, held, money>>

-----------------------------------------------------------------------------
(* processCardJob: the provider's answer to a job.                         *)

(* Mistake: the end of the customer's freeze activates the card whatever   *)
(* else restricts it.                                                      *)
CardAfterSelfOnly(o) ==
  CASE op[o].kind = "freeze"   -> [card EXCEPT !.status = "paused"]
    [] op[o].kind = "unfreeze" ->
         [card EXCEPT !.risk = FALSE, !.revision = @ + 1,
                      !.status = IF card.self THEN "paused" ELSE "active"]
    [] op[o].kind \in SelfKinds ->
         [card EXCEPT !.self = (op[o].kind = "self_freeze"), !.revision = @ + 1,
                      !.status = IF op[o].kind = "self_freeze" THEN "paused" ELSE "active"]
    [] OTHER -> card

(* The card after its operation succeeded. *)
CardAfter(o) ==
  CASE op[o].kind = "freeze"   -> [card EXCEPT !.status = "paused"]
    [] op[o].kind = "unfreeze" ->
         [card EXCEPT !.risk = FALSE, !.revision = @ + 1,
                      !.status = IF card.self THEN "paused" ELSE "active"]
    [] op[o].kind \in SelfKinds ->
         [card EXCEPT !.self = (op[o].kind = "self_freeze"), !.revision = @ + 1,
                      !.status = IF card.risk \/ op[o].kind = "self_freeze" THEN "paused" ELSE "active"]
    [] OTHER -> card

(* Mistake: a queued transfer runs whatever happened to the card. *)
Overtaken(o) == FALSE /\ job[o] = "queued"

(* A transfer or an unfreeze that was not sent yet is dropped when the     *)
(* card has changed.                                                       *)
StateChanged(o) ==
  /\ job[o] = "queued" /\ op[o].kind \in {"transfer_in", "transfer_out", "unfreeze"}
  /\ card.revision # op[o].revision

Unknown(o) ==
  /\ job' = [job EXCEPT ![o] = "unknown"]
  /\ UNCHANGED <<card, op, held, money>>

(* The job is over and its hold is gone. *)
Finish(o, execution) ==
  /\ op' = [op EXCEPT ![o].execution = execution]
  /\ job' = [job EXCEPT ![o] = "done"]
  /\ held' = [held EXCEPT ![o] = 0]

Failed(o) == Finish(o, "failed") /\ UNCHANGED <<card, money>>

(* journal: the two entries of a movement. *)
Succeeded(o) ==
  /\ ~StateChanged(o)
  /\ op[o].kind = "unfreeze" => card.revision = op[o].revision
  /\ op[o].kind \in SelfKinds \cup {"unfreeze"} => ~Cramped
  /\ card' = CardAfter(o)
  /\ money' = IF op[o].kind \notin MoneyKinds THEN money
              ELSE [money EXCEPT ![Source(op[o].kind)] = @ - op[o].amount,
                                 ![Target(op[o].kind)] = @ + op[o].amount]
  /\ Finish(o, "succeeded")

ProcessCardJob(o) == InFlight(o) /\ (Unknown(o) \/ Failed(o) \/ Succeeded(o))

(* processQueuedCardJobs: a job whose transaction failed is set aside. *)
Work(o) ==
  /\ InFlight(o) /\ job[o] = "queued"
  /\ \/ ProcessCardJob(o)
     \/ job' = [job EXCEPT ![o] = "blocked"] /\ UNCHANGED <<card, op, held, money>>

(* writeOperation, refresh: a person asks for the result again. *)
Refresh(o, a) == Permit(a, "card.execute") /\ job[o] # "none" /\ ProcessCardJob(o)

-----------------------------------------------------------------------------
CardNext ==
  \E o \in CardOps :
    \/ ClientFreeze(o) \/ ClientUnfreeze(o) \/ Work(o)
    \/ \E a \in Actors :
         \/ Freeze(o, a) \/ Request(o, a, "unfreeze", 0)
         \/ \E kind \in MoneyKinds, n \in CardAmounts : Request(o, a, kind, n)
         \/ ApproveOp(o, a) \/ RefuseOp(o, a) \/ Refresh(o, a)

CardSpec == CardInit /\ [][CardNext]_cardVars

-----------------------------------------------------------------------------
(* Types of all variables. *)
CardTypes ==
  /\ card \in [risk : BOOLEAN, self : BOOLEAN, status : {"active", "paused"}, revision : Nat]
  /\ op \in [CardOps -> [kind : CardKinds \cup {"none"},
       requester : Actors \cup {Customer, NoOne}, reviewer : Actors \cup {NoOne},
       asked : BOOLEAN, amount : CardAmounts \cup {0}, revision : Nat,
       approval : {"none", "pending", "approved", "rejected", "returned", "not_required"},
       execution : {"none", "pending", "processing", "succeeded", "failed", "not_executed"}]]
  /\ job \in [CardOps -> {"none", "queued", "unknown", "blocked", "done"}]
  /\ held \in [CardOps -> Nat]
  /\ money \in [Accounts -> Nat]

(* What an operation that succeeded moved into an account.                 *)
MovedInto(o, account) ==
  IF op[o].kind \notin MoneyKinds \/ op[o].execution # "succeeded" THEN 0
  ELSE IF Source(op[o].kind) = account THEN -op[o].amount
  ELSE IF Target(op[o].kind) = account THEN op[o].amount ELSE 0

(* The accounts always say what the operations that succeeded say, each    *)
(* counted once, whoever asked how often; and what is held in flight is    *)
(* there (cards-and-transactions.md, 7.1).                                 *)
CardMoneyFits ==
  /\ \A account \in Accounts :
       money[account] = CardOpening[account] + SumFunction([o \in OpsMade |-> MovedInto(o, account)])
  /\ \A o \in CardOps : held[o] = IF InFlight(o) THEN op[o].amount ELSE 0
  /\ Spendable("wallet") >= 0 /\ Spendable("funds") >= 0

(* A freeze that came after a transfer was queued stops it, as long as the *)
(* worker has not failed on it and it was not sent: no money enters or     *)
(* leaves a card that is frozen when its transfer is first tried.          *)
FreezeStopsQueued ==
  [][\A o \in CardOps :
       /\ op[o].kind \in {"transfer_in", "transfer_out"} /\ job[o] = "queued"
       /\ op'[o].execution = "succeeded"
       => ~card.risk /\ ~card.self]_cardVars

(* The same for every transfer the provider has not been asked for, also   *)
(* one whose first attempt was rolled back.                                *)
FreezeStopsUnsent ==
  [][\A o \in CardOps :
       /\ op[o].kind \in {"transfer_in", "transfer_out"} /\ job[o] # "unknown"
       /\ InFlight(o) /\ op'[o].execution = "succeeded"
       => ~card.risk /\ ~card.self]_cardVars

(* A running unfreeze belongs to the freeze in force and no other change   *)
(* of the card runs beside it, so its late result never lifts a newer      *)
(* restriction: the check of processCardJob against that is never needed.  *)
UnfreezeIsCurrent ==
  \A o \in CardOps : op[o].kind = "unfreeze" /\ InFlight(o) =>
    /\ card.risk /\ op[o].revision = card.revision
    /\ op[o].reviewer \notin {op[o].requester, NoOne}
    /\ \A p \in CardOps \ {o} : InFlight(p) => op[p].kind \in MoneyKinds

(* What the provider knows of the card is what restricts it here: paused   *)
(* while the customer's freeze or a confirmed risk freeze is in force, in  *)
(* whatever order their results came, and active when nothing is.          *)
LatestFreeze(o) ==
  op[o].kind = "freeze" /\ \A p \in CardOps : op[p].kind = "freeze" => op[p].revision <= op[o].revision
PausedAsRestricted ==
  /\ card.self \/ (card.risk /\ \E o \in CardOps : LatestFreeze(o) /\ op[o].execution = "succeeded")
       => card.status = "paused"
  /\ ~card.risk /\ ~card.self => card.status = "active"

(* A freeze is lifted by a review of that freeze alone, and what the       *)
(* provider knows of the card is what restricts it here.                   *)
RestrictedAsReviewed == UnfreezeIsCurrent /\ PausedAsRestricted
=============================================================================
