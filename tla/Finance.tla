------------------------------ MODULE Finance -------------------------------
(***************************************************************************)
(* The finance workbench of the local workspace (crypto-finance.mjs):      *)
(* withdrawals with reviews, holds and an asynchronous payout channel, and *)
(* trades between the two assets of one customer at a quoted price, whose  *)
(* proceeds may be paid out by linked withdrawals.                         *)
(*                                                                         *)
(* Every command is one transaction, and a repeated command returns the    *)
(* stored result, so an identifier here is created once.  What interleaves *)
(* are the persons, who act on one order at different times, and the       *)
(* reports of the channel, which may be repeated, late or out of order.    *)
(***************************************************************************)
EXTENDS Integers, FiniteSetsExt, Principals

CONSTANTS
  Withdrawals, Trades,  \* orders that may be placed
  Amounts,              \* withdrawal -> amounts it may be placed for, even
  SmallUpTo,            \* up to this amount one review is enough
  WithdrawalFee,
  Outcome,              \* withdrawal -> what the channel makes of its payout
  Offers,               \* what may be sold and bought, and the fee of it
  Opening,              \* asset -> what the customer holds at first
  Inventory,            \* asset -> what the exchange holds at first
  MaxRevision,          \* withdrawal -> bound of its revisions
  MaxPrice              \* bound of the price's versions

Assets == {"USD", "USDT"}

ASSUME FinanceAssumption ==
  /\ Amounts \in [Withdrawals -> SUBSET {n \in Nat \ {0} : n % 2 = 0}]
  /\ WithdrawalFee \in Nat \ {0} /\ SmallUpTo \in Nat
  /\ Outcome \in [Withdrawals -> {"success", "timeout", "partial", "failure", "broken"}]
  /\ Offers \subseteq [sells : Assets, sell : Nat, fee : Nat, buy : Nat]
  /\ \A q \in Offers : q.fee <= q.sell
  /\ {Opening, Inventory} \subseteq [Assets -> Nat]
  /\ MaxRevision \in [Withdrawals -> Nat] /\ MaxPrice \in Nat

VARIABLES
  order,     \* withdrawal -> its row of fn_orders
  hold,      \* withdrawal -> its row of fn_holds, 0 if there is none
  reviews,   \* fn_reviews, with the amount the reviewer saw
  queries,   \* withdrawal -> queries of its row of fn_jobs, NoJob if there is none
  trade,     \* trade -> state and requester of its row of fn_orders
  quote,     \* trade -> its row of fn_fixed_quotes
  price,     \* latest version of fn_fixed_prices
  customer,  \* asset -> posted balance of the customer
  stock      \* asset -> posted balance of the exchange

financeVars == <<order, hold, reviews, queries, trade, quote, price, customer, stock>>

NoJob == -1
NoParent == "none"
Nobody == "nobody"
NoOrder == [requester |-> Nobody, amount |-> 0, revision |-> 0, approval |-> "absent",
            state |-> "absent", risk |-> "unchecked", execution |-> "not_submitted",
            delivered |-> 0, confirmations |-> 0, parent |-> NoParent]
NoTrade == [state |-> "absent", requester |-> Nobody]
NoOffer == [sells |-> "USD", sell |-> 0, fee |-> 0, buy |-> 0]
NoQuote == [version |-> 0, actor |-> Nobody, offer |-> NoOffer]

Approvals == {"absent", "pending", "reviewing", "approved", "rejected", "cancelled"}
OrderStates == {"absent", "pending", "returned", "awaiting_execution", "rejected",
                "cancelled", "processing", "exception", "completed"}
TradeStates == {"absent", "draft", "returned", "completed", "cancelled", "rejected"}
Risks == {"unchecked", "demo_checked", "blocked"}
Executions == {"not_submitted", "submitting", "channel_processing", "chain_confirming",
               "unknown", "completed", "failed"}
Over == {"completed", "failed"}

FinanceInit ==
  /\ order = [w \in Withdrawals |-> NoOrder]
  /\ hold = [w \in Withdrawals |-> 0]
  /\ reviews = {}
  /\ queries = [w \in Withdrawals |-> NoJob]
  /\ trade = [t \in Trades |-> NoTrade]
  /\ quote = [t \in Trades |-> NoQuote]
  /\ price = 1
  /\ customer = Opening
  /\ stock = Inventory

Exists(w) == order[w].approval # "absent"
Submitted(w) == order[w].execution # "not_submitted"
Placed == {w \in Withdrawals : Exists(w)}
Held(holds) == SumFunction([w \in Placed |-> holds[w]])
Nodes(amount) == IF amount <= SmallUpTo THEN {"reviewer"} ELSE {"reviewer", "controller"}

(* reserve: principal and fee are held, replacing what the order held.     *)
Reserve(w, total) ==
  /\ customer["USDT"] - Held([hold EXCEPT ![w] = 0]) >= total
  /\ hold' = [hold EXCEPT ![w] = total]

Release(w) == hold' = [hold EXCEPT ![w] = 0]
Keep(w) == hold' = hold

Rest == UNCHANGED <<trade, quote, price, stock>>

-----------------------------------------------------------------------------
(* The commands on a withdrawal before it is executed.                     *)

(* withdrawal: a new order, of a trade's proceeds if parent says so. *)
Withdraw(w, a, n, parent) ==
  /\ ~Exists(w) /\ Permit(a, "finance.create")
  /\ Reserve(w, n + WithdrawalFee)
  /\ order' = [order EXCEPT ![w] = [NoOrder EXCEPT
       !.requester = a, !.amount = n, !.revision = 1, !.approval = "pending",
       !.state = "pending", !.parent = parent]]
  /\ UNCHANGED <<reviews, queries, customer>> /\ Rest

NewWithdrawal(w, a, n) == Withdraw(w, a, n, NoParent)

Linked(t) == {w \in Withdrawals : order[w].parent = t
                                    /\ order[w].approval \notin {"rejected", "cancelled"}}

(* payout: a withdrawal linked to a trade that bought USDT. *)
Payout(t, w, a, n) ==
  /\ trade[t].state = "completed" /\ quote[t].offer.sells = "USD"
  /\ SumFunction([c \in Linked(t) |-> order[c].amount]) + n <= quote[t].offer.buy
  /\ Withdraw(w, a, n, t)

(* The sandbox checker refuses some addresses; which one an order has is   *)
(* left open.                                                              *)
RiskCheck(w, a) ==
  /\ Exists(w) /\ Permit(a, "finance.risk_check")
  /\ ~Submitted(w) /\ order[w].approval \in {"pending", "reviewing"}
  /\ \E risk \in {"demo_checked", "blocked"} : order' = [order EXCEPT ![w].risk = risk]
  /\ UNCHANGED <<hold, reviews, queries, customer>> /\ Rest

NodePermission == [reviewer |-> "finance.approve", controller |-> "finance.control"]
Passed(w, all) == {r.node : r \in {x \in all : x.order = w /\ x.revision = order[w].revision}}

(* Mistake: one person passes both nodes. *)
MayReviewTwice(w, a, node) ==
  /\ Exists(w) /\ Permit(a, NodePermission[node]) /\ order[w].requester # a
  /\ order[w].approval \in {"pending", "reviewing"} /\ ~Submitted(w)
  /\ order[w].state # "returned" /\ node \in Nodes(order[w].amount)

(* Whether a person may decide at a node: not on an own order, and once    *)
(* for each revision of it.                                                *)
MayReview(w, a, node) ==
  /\ Exists(w) /\ Permit(a, NodePermission[node]) /\ order[w].requester # a
  /\ order[w].approval \in {"pending", "reviewing"} /\ ~Submitted(w)
  /\ order[w].state # "returned" /\ node \in Nodes(order[w].amount)
  /\ \A r \in reviews : ~(r.order = w /\ r.revision = order[w].revision /\ r.actor = a)

(* approve, with the decision to approve; the last node approves the order. *)
Approve(w, a, node) ==
  /\ MayReview(w, a, node) /\ order[w].risk = "demo_checked"
  /\ reviews' = reviews \cup {[order |-> w, revision |-> order[w].revision, actor |-> a,
                               node |-> node, seen |-> order[w].amount]}
  /\ LET done == Nodes(order[w].amount) \subseteq Passed(w, reviews') IN
     order' = [order EXCEPT ![w].approval = IF done THEN "approved" ELSE "reviewing",
                            ![w].state = IF done THEN "awaiting_execution" ELSE "pending"]
  /\ UNCHANGED <<hold, queries, customer>> /\ Rest

(* Mistake: the refused order keeps its money. *)
RejectKeepingHold(w, a, node) ==
  /\ MayReview(w, a, node)
  /\ order' = [order EXCEPT ![w].approval = "rejected", ![w].state = "rejected"]
  /\ Keep(w)
  /\ UNCHANGED <<reviews, queries, customer>> /\ Rest

(* approve, with the decision to reject. *)
Reject(w, a, node) ==
  /\ MayReview(w, a, node)
  /\ order' = [order EXCEPT ![w].approval = "rejected", ![w].state = "rejected"]
  /\ Release(w)
  /\ UNCHANGED <<reviews, queries, customer>> /\ Rest

(* amend: the order starts again, with a new revision and a new hold. *)
Amend(w, a, n) ==
  /\ Exists(w) /\ Permit(a, "finance.create") /\ order[w].requester = a
  /\ ~Submitted(w) /\ order[w].approval \notin {"rejected", "cancelled"}
  /\ order[w].revision < MaxRevision[w]
  /\ order' = [order EXCEPT ![w] = [@ EXCEPT
       !.amount = n, !.revision = order[w].revision + 1, !.approval = "pending",
       !.state = "pending", !.risk = "unchecked"]]
  /\ Reserve(w, n + WithdrawalFee)
  /\ UNCHANGED <<reviews, queries, customer>> /\ Rest

Withdrawable(w) ==
  Exists(w) /\ ~Submitted(w) /\ order[w].approval \in {"pending", "reviewing", "approved"}

Cancel(w, a) ==
  /\ Withdrawable(w) /\ Permit(a, "finance.create") /\ order[w].requester = a
  /\ order' = [order EXCEPT ![w].approval = "cancelled", ![w].state = "cancelled"]
  /\ Release(w)
  /\ UNCHANGED <<reviews, queries, customer>> /\ Rest

(* return: the money stays held until the requester amends or cancels. *)
Return(w, a) ==
  /\ Withdrawable(w) /\ Permit(a, "finance.approve") /\ order[w].requester # a
  /\ order[w].revision < MaxRevision[w]
  /\ order' = [order EXCEPT ![w] = [@ EXCEPT !.state = "returned",
       !.approval = "pending", !.revision = order[w].revision + 1, !.risk = "unchecked"]]
  /\ UNCHANGED <<hold, reviews, queries, customer>> /\ Rest

(* execute: one job is stored for the channel. *)
Execute(w, a) ==
  /\ Permit(a, "finance.execute") /\ ~Submitted(w)
  /\ order[w].approval = "approved" /\ order[w].risk = "demo_checked"
  /\ hold[w] = order[w].amount + WithdrawalFee
  /\ queries' = [queries EXCEPT ![w] = 0]
  /\ order' = [order EXCEPT ![w].execution = "submitting", ![w].state = "processing"]
  /\ UNCHANGED <<hold, reviews, customer>> /\ Rest

-----------------------------------------------------------------------------
(* The channel: what it pays in the end, and what it may report of it.     *)
Half(w) == order[w].amount \div 2
Pays(w) ==
  CASE Outcome[w] = "failure" -> 0
    [] Outcome[w] = "broken"  -> Half(w)
    [] OTHER                  -> order[w].amount
Paid(w) == {0, Pays(w)} \cup (IF Outcome[w] = "partial" THEN {Half(w)} ELSE {})

Report(status, cumulative, confirmations) ==
  [status |-> status, cumulative |-> cumulative, confirmations |-> confirmations]
Deep == 20  \* confirmations from which a delivery counts

(* Reports that may arrive, in any order and as often as the channel likes.*)
Reports(w) ==
  {Report(s, n, 0) : s \in {"processing", "unknown"}, n \in Paid(w)}
    \cup {Report("confirmed", n, c) : n \in Paid(w) \ {0}, c \in {Deep - 1, Deep}}
    \cup (IF Outcome[w] \in {"failure", "broken"} THEN {Report("failed", Pays(w), 0)} ELSE {})

(* Mistake: a payout that is over still takes reports. *)
StaleByAmount(w, e) ==
  \/ e.cumulative < order[w].delivered
  \/ e.status = "confirmed" /\ e.cumulative = order[w].delivered
       /\ e.confirmations < order[w].confirmations

(* applyEvent: a report that is older than what is known changes nothing.  *)
Stale(w, e) ==
  \/ e.cumulative < order[w].delivered
  \/ e.status = "confirmed" /\ e.cumulative = order[w].delivered
       /\ e.confirmations < order[w].confirmations
  \/ order[w].execution \in Over

Move(w, execution, state) ==
  order' = [order EXCEPT ![w].execution = execution, ![w].state = state]

(* The order after the channel confirmed this much. *)
Delivered(w, e) ==
  LET all == e.cumulative = order[w].amount IN
  order' = [order EXCEPT ![w] = [@ EXCEPT
    !.delivered = e.cumulative, !.confirmations = e.confirmations,
    !.execution = IF all THEN "completed" ELSE "channel_processing",
    !.state = IF all THEN "completed" ELSE "processing"]]

(* Mistake: the delivery is posted in full each time it is reported. *)
DeliverAgain(w, e) ==
  /\ e.status = "confirmed" /\ e.confirmations >= Deep
  /\ Delivered(w, e)
  /\ LET all == e.cumulative = order[w].amount IN
     /\ customer' = [customer EXCEPT !["USDT"] =
          @ - e.cumulative - (IF all THEN WithdrawalFee ELSE 0)]
     /\ IF all THEN Release(w)
        ELSE hold' = [hold EXCEPT ![w] = @ - e.cumulative]

(* What was delivered since the last report is posted and leaves the hold; *)
(* the last delivery charges the fee and releases what is left.            *)
Deliver(w, e) ==
  /\ e.status = "confirmed" /\ e.confirmations >= Deep
  /\ Delivered(w, e)
  /\ LET delta == e.cumulative - order[w].delivered
         all == e.cumulative = order[w].amount IN
     /\ delta <= hold[w]
     /\ customer' = [customer EXCEPT !["USDT"] =
          @ - delta - (IF all THEN WithdrawalFee ELSE 0)]
     /\ IF all THEN Release(w) ELSE hold' = [hold EXCEPT ![w] = @ - delta]

Confirming(w, e) ==
  /\ e.status = "confirmed" /\ e.confirmations < Deep
  /\ Move(w, "chain_confirming", "processing")
  /\ UNCHANGED <<hold, customer>>

(* A failure is only taken when the deliveries it counts are posted. *)
Fail(w, e) ==
  /\ e.status = "failed" /\ e.cumulative = order[w].delivered
  /\ Move(w, "failed", "exception") /\ Release(w)
  /\ UNCHANGED customer

Progress(w, e) ==
  /\ e.status \in {"processing", "unknown"} /\ e.cumulative = order[w].delivered
  /\ IF e.status = "unknown" THEN Move(w, "unknown", "exception")
     ELSE Move(w, "channel_processing", "processing")
  /\ UNCHANGED <<hold, customer>>

ApplyEvent(w, e) ==
  IF Stale(w, e) THEN UNCHANGED <<order, hold, customer>>
  ELSE Deliver(w, e) \/ Confirming(w, e) \/ Fail(w, e) \/ Progress(w, e)

ReceiveEvent(w) ==
  /\ queries[w] # NoJob
  /\ \E e \in Reports(w) : ApplyEvent(w, e)
  /\ UNCHANGED <<reviews, queries>> /\ Rest

(* What the sandbox answers to a query of a job: by its mode, and the      *)
(* first time a timeout or a part.                                         *)
Answer(w) ==
  CASE Outcome[w] = "failure" -> Report("failed", order[w].delivered, Deep)
    [] Outcome[w] = "timeout" /\ queries[w] = 0 -> Report("unknown", order[w].delivered, Deep)
    [] Outcome[w] = "partial" /\ queries[w] = 0 -> Report("confirmed", Half(w), Deep)
    [] OTHER -> Report("confirmed", order[w].amount, Deep)

(* reconcile: only the result is asked for; the payout is never repeated.  *)
(* A broken payout is not one of the sandbox's modes.                      *)
Reconcile(w, a) ==
  /\ Permit(a, "finance.execute") /\ queries[w] # NoJob
  /\ order[w].execution \notin Over /\ Outcome[w] # "broken"
  /\ queries' = [queries EXCEPT ![w] = 1]
  /\ ApplyEvent(w, Answer(w))
  /\ UNCHANGED reviews /\ Rest

-----------------------------------------------------------------------------
(* Trades.                                                                 *)
Other(asset) == IF asset = "USD" THEN "USDT" ELSE "USD"
Available(asset) == customer[asset] - (IF asset = "USDT" THEN Held(hold) ELSE 0)
OrdersUnchanged == UNCHANGED <<order, hold, reviews, queries>>

SetPrice(a) ==
  /\ Permit(a, "finance.price_manage") /\ price < MaxPrice
  /\ price' = price + 1
  /\ UNCHANGED <<trade, quote, customer, stock>> /\ OrdersUnchanged

TradesUnchanged == UNCHANGED <<price, customer, stock>> /\ OrdersUnchanged
Settle(t, state) == trade' = [trade EXCEPT ![t].state = state]

(* A quote is usable while the price it was made at is the latest. *)
Quote(t, a) ==
  /\ Permit(a, "finance.create") /\ quote[t] = NoQuote
  /\ \E q \in Offers : quote' = [quote EXCEPT ![t] = [version |-> price, actor |-> a, offer |-> q]]
  /\ UNCHANGED trade /\ TradesUnchanged

Draft(t, a) ==
  /\ Permit(a, "finance.create") /\ trade[t] = NoTrade
  /\ quote[t].version = price /\ quote[t].actor = a
  /\ trade' = [trade EXCEPT ![t] = [state |-> "draft", requester |-> a]]
  /\ UNCHANGED quote /\ TradesUnchanged

(* The commands of a withdrawal that also take a draft: cancel, return,    *)
(* and a review that rejects it; its address is none, so no risk check and *)
(* no approval.                                                            *)
DropDraft(t, a) ==
  /\ Permit(a, "finance.create") /\ trade[t].requester = a /\ trade[t].state \in {"draft", "returned"}
  /\ Settle(t, "cancelled")
  /\ UNCHANGED quote /\ TradesUnchanged
ReturnDraft(t, a) ==
  /\ Permit(a, "finance.approve") /\ trade[t].requester # a /\ trade[t].state \in {"draft", "returned"}
  /\ Settle(t, "returned")
  /\ UNCHANGED quote /\ TradesUnchanged
RejectDraft(t, a) ==
  /\ Permit(a, "finance.approve") /\ trade[t].requester # a /\ trade[t].state = "draft"
  /\ Settle(t, "rejected")
  /\ UNCHANGED quote /\ TradesUnchanged

(* The two sides of a trade and its fee, which is part of what is sold. *)
Exchanged(q, bought) ==
  /\ customer' = [customer EXCEPT ![q.sells] = @ - q.sell, ![bought] = @ + q.buy]
  /\ stock' = [stock EXCEPT ![q.sells] = @ + q.sell - q.fee, ![bought] = @ - q.buy]

(* confirmOtc: the price is still the latest, the customer has what is     *)
(* sold and the exchange what is bought.                                   *)
ConfirmOtc(t, a) ==
  LET q == quote[t].offer  bought == Other(q.sells) IN
  /\ Permit(a, "finance.create") /\ trade[t] = [state |-> "draft", requester |-> a]
  /\ quote[t].version = price
  /\ Available(q.sells) >= q.sell /\ stock[bought] >= q.buy
  /\ Settle(t, "completed") /\ Exchanged(q, bought)
  /\ UNCHANGED <<quote, price>> /\ OrdersUnchanged

-----------------------------------------------------------------------------
Place(w, a) ==
  \E n \in Amounts[w] : NewWithdrawal(w, a, n) \/ Amend(w, a, n) \/ \E t \in Trades : Payout(t, w, a, n)
Examine(w, a) ==
  \/ RiskCheck(w, a) \/ Return(w, a) \/ Cancel(w, a)
  \/ \E node \in DOMAIN NodePermission : Approve(w, a, node) \/ Reject(w, a, node)
Exchange(t, a) ==
  \/ Quote(t, a) \/ Draft(t, a) \/ ConfirmOtc(t, a)
  \/ DropDraft(t, a) \/ ReturnDraft(t, a) \/ RejectDraft(t, a)

FinanceNext ==
  \/ \E w \in Withdrawals : ReceiveEvent(w)
  \/ \E w \in Withdrawals, a \in Actors :
       Place(w, a) \/ Examine(w, a) \/ Execute(w, a) \/ Reconcile(w, a)
  \/ \E t \in Trades, a \in Actors : Exchange(t, a)
  \/ \E a \in Actors : SetPrice(a)

FinanceSpec == FinanceInit /\ [][FinanceNext]_financeVars

-----------------------------------------------------------------------------
(* Types of all variables. *)
FinanceTypes ==
  /\ order \in [Withdrawals -> [requester : Actors \cup {Nobody}, amount : Nat, revision : Nat,
       approval : Approvals, state : OrderStates, risk : Risks,
       execution : Executions, delivered : Nat, confirmations : Nat,
       parent : Trades \cup {NoParent}]]
  /\ hold \in [Withdrawals -> Nat]
  /\ \A r \in reviews : r \in [order : Withdrawals, revision : Nat, actor : Actors,
                               node : DOMAIN NodePermission, seen : Nat]
  /\ queries \in [Withdrawals -> {NoJob, 0, 1}]
  /\ trade \in [Trades -> [state : TradeStates, requester : Actors \cup {Nobody}]]
  /\ quote \in [Trades -> [version : Nat, actor : Actors \cup {Nobody}, offer : Offers \cup {NoOffer}]] /\ price \in Nat
  /\ customer \in [Assets -> Int] /\ stock \in [Assets -> Int]

(* An order that is not over holds exactly what it may still cost, the fee *)
(* included, through every amendment, return and partial delivery; one     *)
(* that is over holds nothing (funds-and-operations.md, 4.3).              *)
StillHeld(w) ==
  order[w].approval \in {"pending", "reviewing", "approved"} /\ order[w].execution \notin Over
HoldsFit ==
  \A w \in Withdrawals :
    hold[w] = IF StillHeld(w) THEN order[w].amount + WithdrawalFee - order[w].delivered ELSE 0

(* What orders hold is there when the channel delivers: trades and other   *)
(* orders never use it, and the exchange sells only what it has.           *)
EverythingCovered ==
  /\ customer["USDT"] >= Held(hold) /\ customer["USD"] >= 0
  /\ \A asset \in Assets : stock[asset] >= 0

(* A payout that was submitted has been approved at every node its amount  *)
(* needs, for this revision and this amount, by different persons of whom  *)
(* none asked for it.                                                      *)
ExecutedAsReviewed ==
  \A w \in Withdrawals : Submitted(w) =>
    \E by \in [Nodes(order[w].amount) -> Actors] :
      /\ \A node \in DOMAIN by : /\ by[node] # order[w].requester
                                 /\ [order |-> w, revision |-> order[w].revision,
                                     actor |-> by[node], node |-> node,
                                     seen |-> order[w].amount] \in reviews
      /\ \A m, n \in DOMAIN by : m # n => by[m] # by[n]

(* What an order has cost, and what a trade took of the same asset.        *)
Spent(w) ==
  order[w].delivered + (IF order[w].execution = "completed" THEN WithdrawalFee ELSE 0)
CompletedTrades == {t \in Trades : trade[t].state = "completed"}
Sold(t) == IF quote[t].offer.sells = "USDT" THEN quote[t].offer.sell ELSE -quote[t].offer.buy

(* Whatever the order of the reports: an order that is over has posted     *)
(* what the channel paid, and the wallet lost that and the fee of the      *)
(* completed ones, nothing twice.                                          *)
DeliveredAsPaid ==
  /\ \A w \in Withdrawals :
       /\ order[w].delivered <= Pays(w)
       /\ order[w].execution \in Over => order[w].delivered = Pays(w)
  /\ customer["USDT"] = Opening["USDT"] - SumFunction([w \in Placed |-> Spent(w)])
                          - SumFunction([t \in CompletedTrades |-> Sold(t)])

(* The money of orders under way is there, and what the channel delivers   *)
(* is taken from it once (crypto-finance.mjs:1143 and 1268).               *)
DeliveredFromHolds == EverythingCovered /\ DeliveredAsPaid

(* A decision against an order and the end of a payout are final. *)
DecidedStays ==
  [][\A w \in Withdrawals :
       /\ order[w].approval \in {"rejected", "cancelled"} => order'[w] = order[w]
       /\ order[w].execution \in Over => order'[w] = order[w]]_financeVars

(* The linked payouts of a trade that count never exceed what it bought    *)
(* (funds-and-operations.md:85).                                           *)
PayoutsWithinProceeds ==
  \A t \in Trades :
    SumFunction([w \in Linked(t) |-> order[w].amount]) <= quote[t].offer.buy
=============================================================================
