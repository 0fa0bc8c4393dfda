-------------------------- MODULE BackOfficeProofs --------------------------
(***************************************************************************)
(* Proofs about what the operators of the local workspace decide, for any  *)
(* persons, orders, operations, amounts and bounds.                        *)
(*                                                                         *)
(* Finance: what an order holds, who has reviewed a payout that was        *)
(* submitted, and that a decision is final.  Everything that is proved of  *)
(* an order is a statement of that order alone (Sound), so an action is    *)
(* only looked at where it acts.  The customer's money is a sum over all   *)
(* orders and trades: an action changes the terms of one.                  *)
(*                                                                         *)
(* CardAdmin: whose results may lift a restriction, what the provider      *)
(* knows, and which queued transfers still run.  The revision of the card  *)
(* orders the operations: none is newer than the card, and a freeze is     *)
(* older than the restriction it made.  Last, the sums of the accounts.    *)
(***************************************************************************)
EXTENDS Finance, CardAdmin, SumProofs

OrderRow == [requester : Actors \cup {Nobody}, amount : Nat, revision : Nat,
        approval : Approvals, state : OrderStates, risk : Risks,
        execution : Executions, delivered : Nat, confirmations : Nat,
        parent : Trades \cup {NoParent}]
Review == [order : Withdrawals, revision : Nat, actor : Actors,
           node : DOMAIN NodePermission, seen : Nat]

OrderTypes ==
  /\ order \in [Withdrawals -> OrderRow]
  /\ hold \in [Withdrawals -> Nat]
  /\ queries \in [Withdrawals -> {NoJob, 0, 1}]
  /\ reviews \subseteq Review

(* The reviews of an order: each of a revision it has had, one of a person *)
(* for a revision; those of its revision saw its amount and are not its    *)
(* requester's.                                                            *)
Reviewed(w) ==
  /\ \A r \in reviews : r.order = w => r.revision \in 1..order[w].revision
  /\ \A r \in reviews : r.order = w /\ r.revision = order[w].revision =>
       r.seen = order[w].amount /\ r.actor # order[w].requester
  /\ \A q, r \in reviews :
       q.order = w /\ r.order = w /\ q.revision = r.revision /\ q.actor = r.actor => q = r

(* A payout has a job from when it is submitted, only approved orders are  *)
(* submitted, and an approved order was passed at every node.              *)
Sound(w) ==
  /\ Submitted(w) <=> queries[w] # NoJob
  /\ Submitted(w) => order[w].approval = "approved"
  /\ ~Submitted(w) => order[w].delivered = 0
  /\ Exists(w) <=> order[w].revision # 0
  /\ hold[w] = IF StillHeld(w) THEN order[w].amount + WithdrawalFee - order[w].delivered ELSE 0
  /\ order[w].approval = "approved" => Nodes(order[w].amount) \subseteq Passed(w, reviews)
  /\ Reviewed(w)

FInv == OrderTypes /\ \A w \in Withdrawals : Sound(w)

(* What an action leaves alone when it acts on one order.                  *)
OthersStand(w) ==
  /\ \A v \in Withdrawals \ {w} :
       order'[v] = order[v] /\ hold'[v] = hold[v] /\ queries'[v] = queries[v]
  /\ \A r : r.order # w => (r \in reviews' <=> r \in reviews)

-----------------------------------------------------------------------------
LEMMA SoundElsewhere ==
  ASSUME FInv, NEW w \in Withdrawals, OthersStand(w), NEW v \in Withdrawals \ {w}
  PROVE  Sound(v)'
<1>1. order'[v] = order[v] /\ hold'[v] = hold[v] /\ queries'[v] = queries[v]
  BY DEF OthersStand
<1>2. \A r : r.order = v => (r \in reviews' <=> r \in reviews)
  BY DEF OthersStand
<1>3. Passed(v, reviews)' = Passed(v, reviews)
  BY <1>1, <1>2 DEF Passed
<1>4. Reviewed(v)'
  BY <1>1, <1>2 DEF Reviewed, FInv, Sound
<1> QED BY <1>1, <1>3, <1>4 DEF FInv, Sound, Submitted, Exists, StillHeld

LEMMA FInvAt ==
  ASSUME FInv, NEW w \in Withdrawals, OthersStand(w), OrderTypes', Sound(w)'
  PROVE  FInv'
<1>1. ASSUME NEW v \in Withdrawals PROVE Sound(v)'
  <2>1. CASE v = w
    BY <2>1
  <2>2. CASE v # w
    BY <2>2, SoundElsewhere
  <2> QED BY <2>1, <2>2
<1> QED BY <1>1 DEF FInv

(* An order that stays as it is, whatever else changes.                    *)
LEMMA FInvUnchanged ==
  ASSUME FInv, UNCHANGED <<order, hold, reviews, queries>> PROVE FInv'
<1>1. OrderTypes'
  BY DEF FInv, OrderTypes
<1>2. ASSUME NEW w \in Withdrawals PROVE Sound(w)'
  BY DEF FInv, Sound, Reviewed, Submitted, Exists, StillHeld, Passed
<1> QED BY <1>1, <1>2 DEF FInv

(* The order's row changes, no review is made, and its job stays.          *)
LEMMA FInvRow ==
  ASSUME FInv, NEW w \in Withdrawals, NEW row \in OrderRow,
         order' = [order EXCEPT ![w] = row], hold' \in [Withdrawals -> Nat],
         \A v \in Withdrawals \ {w} : hold'[v] = hold[v],
         UNCHANGED <<reviews, queries>>, Sound(w)'
  PROVE  FInv'
<1>1. OthersStand(w)
  BY DEF OthersStand, FInv, OrderTypes
<1>2. OrderTypes'
  BY DEF FInv, OrderTypes
<1> QED BY <1>1, <1>2, FInvAt

(* The row keeps its revision, its amount and its requester: the reviews   *)
(* still say what they said of it.                                         *)
LEMMA ReviewsKept ==
  ASSUME FInv, NEW w \in Withdrawals, NEW row \in OrderRow,
         order' = [order EXCEPT ![w] = row], UNCHANGED reviews,
         row.revision = order[w].revision, row.amount = order[w].amount,
         row.requester = order[w].requester
  PROVE  Reviewed(w)' /\ Passed(w, reviews)' = Passed(w, reviews)
<1>1. order'[w] = row
  BY DEF FInv, OrderTypes
<1> QED BY <1>1 DEF FInv, Sound, Reviewed, Passed

(* A new revision has no review yet.                                       *)
LEMMA ReviewsOld ==
  ASSUME FInv, NEW w \in Withdrawals, NEW row \in OrderRow,
         order' = [order EXCEPT ![w] = row], UNCHANGED reviews,
         row.revision = order[w].revision + 1
  PROVE  Reviewed(w)'
<1>1. order'[w] = row /\ order[w].revision \in Nat
  BY DEF FInv, OrderTypes, OrderRow
<1> QED BY <1>1 DEF FInv, Sound, Reviewed

-----------------------------------------------------------------------------
(* The commands before an order is executed.                               *)

LEMMA WithdrawFInv ==
  ASSUME FInv, NEW w \in Withdrawals, NEW a \in Actors, NEW n \in Amounts[w],
         NEW parent \in Trades \cup {NoParent}, Withdraw(w, a, n, parent)
  PROVE  FInv'
<1> DEFINE row == [NoOrder EXCEPT !.requester = a, !.amount = n, !.revision = 1,
                     !.approval = "pending", !.state = "pending", !.parent = parent]
<1>1. n \in Nat /\ WithdrawalFee \in Nat /\ n + WithdrawalFee \in Nat
  BY FinanceAssumption
<1>2. /\ NoOrder \in OrderRow /\ NoOrder.execution = "not_submitted" /\ NoOrder.delivered = 0
      /\ "pending" \in Approvals /\ "pending" \in OrderStates
  BY DEF NoOrder, OrderRow, Approvals, OrderStates, Risks, Executions
<1>3. row \in OrderRow
  BY <1>1, <1>2 DEF OrderRow
<1>4. /\ row.revision = 1 /\ row.amount = n /\ row.approval = "pending" /\ row.delivered = 0
      /\ row.execution = "not_submitted"
  BY <1>1, <1>2 DEF OrderRow
<1>5. order' = [order EXCEPT ![w] = row] /\ order'[w] = row
  <2>1. order' = [order EXCEPT ![w] = row]
    BY DEF Withdraw
  <2> QED BY <2>1 DEF FInv, OrderTypes
<1>6. /\ hold' = [hold EXCEPT ![w] = n + WithdrawalFee] /\ hold'[w] = n + WithdrawalFee
      /\ hold' \in [Withdrawals -> Nat]
  <2>1. hold' = [hold EXCEPT ![w] = n + WithdrawalFee]
    BY DEF Withdraw, Reserve
  <2> QED BY <1>1, <2>1 DEF FInv, OrderTypes
<1>7. UNCHANGED <<reviews, queries>> /\ ~Exists(w)
  BY DEF Withdraw
<1> HIDE DEF row
<1>8. ~Submitted(w) /\ order[w].revision = 0
  BY <1>7 DEF FInv, Sound, Exists
<1>9. Reviewed(w)'
  <2>1. row.revision = order[w].revision + 1
    BY <1>4, <1>8
  <2> QED BY <1>3, <1>5, <1>7, <2>1, ReviewsOld
<1>10. Sound(w)'
  <2>1. ~Submitted(w)' /\ Exists(w)' /\ StillHeld(w)'
    BY <1>4, <1>5 DEF Submitted, Exists, StillHeld, Over
  <2>2. queries'[w] = NoJob
    BY <1>7, <1>8 DEF FInv, Sound
  <2> QED BY <1>1, <1>4, <1>5, <1>6, <1>9, <2>1, <2>2 DEF Sound
<1> QED BY <1>3, <1>5, <1>6, <1>7, <1>10, FInvRow

(* Actions that keep amount, revision, requester and deliveries of an      *)
(* order that was not submitted.                                           *)
LEMMA MarkedFInv ==
  ASSUME FInv, NEW w \in Withdrawals, Exists(w), ~Submitted(w), NEW row \in OrderRow,
         order' = [order EXCEPT ![w] = row], UNCHANGED <<hold, reviews, queries>>,
         row.revision = order[w].revision, row.amount = order[w].amount,
         row.requester = order[w].requester, row.delivered = order[w].delivered,
         row.execution = order[w].execution, row.approval = order[w].approval
  PROVE  FInv'
<1>1. order'[w] = row
  BY DEF FInv, OrderTypes
<1>2. Reviewed(w)' /\ Passed(w, reviews)' = Passed(w, reviews)
  BY ReviewsKept
<1>3. Sound(w)'
  BY <1>1, <1>2 DEF FInv, Sound, Submitted, Exists, StillHeld
<1> QED BY <1>3, FInvRow DEF FInv, OrderTypes

LEMMA RiskCheckFInv ==
  ASSUME FInv, NEW w \in Withdrawals, NEW a \in Actors, RiskCheck(w, a) PROVE FInv'
<1> PICK risk \in {"demo_checked", "blocked"} : order' = [order EXCEPT ![w].risk = risk]
  BY DEF RiskCheck
<1> DEFINE row == [order[w] EXCEPT !.risk = risk]
<1>1. row \in OrderRow
  BY DEF FInv, OrderTypes, OrderRow, Risks
<1>2. /\ row.revision = order[w].revision /\ row.amount = order[w].amount
      /\ row.requester = order[w].requester /\ row.delivered = order[w].delivered
      /\ row.execution = order[w].execution /\ row.approval = order[w].approval
  BY DEF FInv, OrderTypes, OrderRow
<1>3. order' = [order EXCEPT ![w] = row]
  OBVIOUS
<1>4. Exists(w) /\ ~Submitted(w) /\ UNCHANGED <<hold, reviews, queries>>
  BY DEF RiskCheck
<1> HIDE DEF row
<1> QED BY <1>1, <1>2, <1>3, <1>4, MarkedFInv

(* A decision against an order releases what it held.                      *)
LEMMA RefusedFInv ==
  ASSUME FInv, NEW w \in Withdrawals, Exists(w), ~Submitted(w), NEW against \in {"rejected", "cancelled"},
         order' = [order EXCEPT ![w].approval = against, ![w].state = against], Release(w),
         UNCHANGED <<reviews, queries>>
  PROVE  FInv'
<1> DEFINE row == [order[w] EXCEPT !.approval = against, !.state = against]
<1>1. row \in OrderRow
  <2>1. order[w] \in OrderRow /\ against \in Approvals /\ against \in OrderStates
    BY DEF FInv, OrderTypes, Approvals, OrderStates
  <2> QED BY <2>1 DEF OrderRow
<1>2. /\ row.revision = order[w].revision /\ row.amount = order[w].amount
      /\ row.requester = order[w].requester /\ row.delivered = order[w].delivered
      /\ row.execution = order[w].execution /\ row.approval = against
  BY DEF FInv, OrderTypes, OrderRow
<1>3. order' = [order EXCEPT ![w] = row] /\ order'[w] = row
  BY DEF FInv, OrderTypes
<1>4. hold' = [hold EXCEPT ![w] = 0] /\ hold'[w] = 0 /\ hold' \in [Withdrawals -> Nat]
  BY DEF Release, FInv, OrderTypes
<1> HIDE DEF row
<1>5. Reviewed(w)'
  BY <1>1, <1>2, <1>3, ReviewsKept
<1>6. Sound(w)'
  <2>1. ~StillHeld(w)'
    BY <1>2, <1>3 DEF StillHeld
  <2>2. Exists(w)' /\ ~Submitted(w)' /\ order[w].revision # 0 /\ queries'[w] = queries[w]
    BY <1>2, <1>3 DEF Exists, Submitted, FInv, Sound
  <2>3. order'[w].approval # "approved"
    BY <1>2, <1>3
  <2> QED BY <1>2, <1>3, <1>4, <1>5, <2>1, <2>2, <2>3 DEF FInv, Sound
<1> QED BY <1>1, <1>3, <1>4, <1>6, FInvRow DEF FInv, OrderTypes

LEMMA AmendFInv ==
  ASSUME FInv, NEW w \in Withdrawals, NEW a \in Actors, NEW n \in Amounts[w], Amend(w, a, n)
  PROVE  FInv'
<1> DEFINE row == [order[w] EXCEPT !.amount = n, !.revision = order[w].revision + 1,
                     !.approval = "pending", !.state = "pending", !.risk = "unchecked"]
<1>1. n \in Nat /\ WithdrawalFee \in Nat /\ n + WithdrawalFee \in Nat /\ order[w].revision \in Nat
  BY FinanceAssumption DEF FInv, OrderTypes, OrderRow
<1>2. row \in OrderRow
  <2>1. /\ order[w] \in OrderRow /\ "pending" \in Approvals /\ "pending" \in OrderStates
        /\ "unchecked" \in Risks /\ order[w].revision + 1 \in Nat
    BY <1>1 DEF FInv, OrderTypes, Approvals, OrderStates, Risks
  <2> QED BY <1>1, <2>1 DEF OrderRow
<1>3. /\ row.revision = order[w].revision + 1 /\ row.amount = n /\ row.approval = "pending"
      /\ row.delivered = order[w].delivered /\ row.execution = order[w].execution
  BY DEF FInv, OrderTypes, OrderRow
<1>4. order' = [order EXCEPT ![w] = row] /\ order'[w] = row
  <2>1. order' = [order EXCEPT ![w] = row]
    BY DEF Amend
  <2> QED BY <2>1 DEF FInv, OrderTypes
<1>5. /\ hold' = [hold EXCEPT ![w] = n + WithdrawalFee] /\ hold'[w] = n + WithdrawalFee
      /\ hold' \in [Withdrawals -> Nat]
  BY <1>1 DEF Amend, Reserve, FInv, OrderTypes
<1>6. UNCHANGED <<reviews, queries>> /\ ~Submitted(w)
  BY DEF Amend
<1> HIDE DEF row
<1>7. Reviewed(w)'
  BY <1>2, <1>3, <1>4, <1>6, ReviewsOld
<1>8. Sound(w)'
  <2>1. StillHeld(w)' /\ Exists(w)' /\ ~Submitted(w)'
    BY <1>3, <1>4, <1>6 DEF StillHeld, Exists, Submitted, Over
  <2>2. row.delivered = 0 /\ queries'[w] = NoJob /\ row.revision # 0
    BY <1>1, <1>3, <1>6 DEF FInv, Sound
  <2> QED BY <1>1, <1>3, <1>4, <1>5, <1>7, <2>1, <2>2 DEF Sound
<1> QED BY <1>2, <1>4, <1>5, <1>6, <1>8, FInvRow DEF FInv, OrderTypes

LEMMA ReturnFInv ==
  ASSUME FInv, NEW w \in Withdrawals, NEW a \in Actors, Return(w, a) PROVE FInv'
<1> DEFINE row == [order[w] EXCEPT !.state = "returned", !.approval = "pending",
                     !.revision = order[w].revision + 1, !.risk = "unchecked"]
<1>1. order[w].revision \in Nat
  BY DEF FInv, OrderTypes, OrderRow
<1>2. row \in OrderRow
  <2>1. /\ order[w] \in OrderRow /\ "pending" \in Approvals /\ "returned" \in OrderStates
        /\ "unchecked" \in Risks /\ order[w].revision + 1 \in Nat
    BY <1>1 DEF FInv, OrderTypes, Approvals, OrderStates, Risks
  <2> QED BY <2>1 DEF OrderRow
<1>3. /\ row.revision = order[w].revision + 1 /\ row.amount = order[w].amount
      /\ row.approval = "pending"
      /\ row.delivered = order[w].delivered /\ row.execution = order[w].execution
  BY DEF FInv, OrderTypes, OrderRow
<1>4. order' = [order EXCEPT ![w] = row] /\ order'[w] = row
  <2>1. order' = [order EXCEPT ![w] = row]
    BY DEF Return
  <2> QED BY <2>1 DEF FInv, OrderTypes
<1>5. UNCHANGED <<hold, reviews, queries>> /\ ~Submitted(w) /\ StillHeld(w)
  BY DEF Return, Withdrawable, StillHeld, Submitted, Over
<1> HIDE DEF row
<1>6. Reviewed(w)'
  BY <1>2, <1>3, <1>4, <1>5, ReviewsOld
<1>7. Sound(w)'
  <2>1. StillHeld(w)' /\ Exists(w)' /\ ~Submitted(w)'
    BY <1>3, <1>4, <1>5 DEF StillHeld, Exists, Submitted, Over
  <2>2. queries'[w] = NoJob /\ row.revision # 0 /\ row.delivered = 0
    BY <1>1, <1>3, <1>5 DEF FInv, Sound
  <2>3. hold'[w] = row.amount + WithdrawalFee - row.delivered
    BY <1>3, <1>5 DEF FInv, Sound
  <2> QED BY <1>3, <1>4, <1>6, <2>1, <2>2, <2>3 DEF Sound
<1> QED BY <1>2, <1>4, <1>5, <1>7, FInvRow DEF FInv, OrderTypes

(* A review counts for the revision it saw, and the node that completes    *)
(* them approves the order.                                                *)
LEMMA ApproveFInv ==
  ASSUME FInv, NEW w \in Withdrawals, NEW a \in Actors, NEW node \in DOMAIN NodePermission,
         Approve(w, a, node)
  PROVE  FInv'
<1> DEFINE new == [order |-> w, revision |-> order[w].revision, actor |-> a,
                   node |-> node, seen |-> order[w].amount]
           done == Nodes(order[w].amount) \subseteq Passed(w, reviews')
           approval == IF done THEN "approved" ELSE "reviewing"
           state == IF done THEN "awaiting_execution" ELSE "pending"
           row == [order[w] EXCEPT !.approval = approval, !.state = state]
<1>1. /\ order[w] \in OrderRow /\ approval \in Approvals /\ state \in OrderStates
      /\ order[w].revision \in Nat /\ order[w].amount \in Nat
  BY DEF FInv, OrderTypes, OrderRow, Approvals, OrderStates
<1>2. /\ row \in OrderRow
      /\ row.revision = order[w].revision /\ row.amount = order[w].amount
      /\ row.requester = order[w].requester /\ row.delivered = order[w].delivered
      /\ row.execution = order[w].execution /\ row.approval = approval
  <2> HIDE DEF approval, state
  <2> QED BY <1>1 DEF OrderRow
<1>3. order' = [order EXCEPT ![w] = row] /\ order'[w] = row
  <2>1. order' = [order EXCEPT ![w].approval = approval, ![w].state = state]
    BY DEF Approve
  <2> HIDE DEF approval, state
  <2> QED BY <2>1 DEF FInv, OrderTypes
<1>4. /\ reviews' = reviews \cup {new} /\ UNCHANGED <<hold, queries>>
      /\ Exists(w) /\ ~Submitted(w) /\ order[w].requester # a
      /\ order[w].approval \in {"pending", "reviewing"}
      /\ \A r \in reviews : ~(r.order = w /\ r.revision = order[w].revision /\ r.actor = a)
  BY DEF Approve, MayReview
<1>5. new \in Review /\ order[w].revision # 0
  BY <1>1, <1>4 DEF Review, FInv, Sound
<1>6. new.order = w /\ new.revision = order[w].revision /\ new.actor = a /\ new.seen = order[w].amount
  OBVIOUS
<1>7. Passed(w, reviews)' = Passed(w, reviews')
  BY <1>2, <1>3 DEF Passed
<1>8. approval = "approved" => Nodes(row.amount) \subseteq Passed(w, reviews)'
  BY <1>2, <1>7
<1>9. approval \in {"approved", "reviewing"}
  OBVIOUS
<1> HIDE DEF new, row, approval
<1>10. Reviewed(w)'
  <2>1. \A r \in reviews' : r.order = w => r.revision \in 1..order'[w].revision
    BY <1>1, <1>2, <1>3, <1>4, <1>5, <1>6 DEF FInv, Sound, Reviewed
  <2>2. \A r \in reviews' : r.order = w /\ r.revision = order'[w].revision =>
          r.seen = order'[w].amount /\ r.actor # order'[w].requester
    BY <1>2, <1>3, <1>4, <1>6 DEF FInv, Sound, Reviewed
  <2>3. \A q, r \in reviews' :
          q.order = w /\ r.order = w /\ q.revision = r.revision /\ q.actor = r.actor => q = r
    BY <1>4, <1>6 DEF FInv, Sound, Reviewed
  <2> QED BY <2>1, <2>2, <2>3 DEF Reviewed
<1>11. Sound(w)'
  <2>1. Exists(w)' /\ ~Submitted(w)' /\ StillHeld(w)' /\ StillHeld(w)
    BY <1>2, <1>3, <1>4, <1>9 DEF Exists, Submitted, StillHeld, Over
  <2>2. queries'[w] = NoJob /\ row.delivered = 0 /\ row.revision # 0
    BY <1>2, <1>4, <1>5 DEF FInv, Sound
  <2>3. hold'[w] = row.amount + WithdrawalFee - row.delivered
    BY <1>2, <1>4, <2>1 DEF FInv, Sound
  <2> QED BY <1>2, <1>3, <1>8, <1>10, <2>1, <2>2, <2>3 DEF Sound
<1>12. OthersStand(w)
  BY <1>3, <1>4, <1>6 DEF OthersStand, FInv, OrderTypes
<1>13. OrderTypes'
  BY <1>2, <1>3, <1>4, <1>5 DEF FInv, OrderTypes
<1> QED BY <1>11, <1>12, <1>13, FInvAt

-----------------------------------------------------------------------------
(* The payout.                                                             *)

LEMMA ExecuteFInv ==
  ASSUME FInv, NEW w \in Withdrawals, NEW a \in Actors, Execute(w, a) PROVE FInv'
<1> DEFINE row == [order[w] EXCEPT !.execution = "submitting", !.state = "processing"]
<1>1. order[w] \in OrderRow /\ "submitting" \in Executions /\ "processing" \in OrderStates
  BY DEF FInv, OrderTypes, Executions, OrderStates
<1>2. /\ row \in OrderRow
      /\ row.revision = order[w].revision /\ row.amount = order[w].amount
      /\ row.requester = order[w].requester /\ row.delivered = order[w].delivered
      /\ row.execution = "submitting" /\ row.approval = order[w].approval
  BY <1>1 DEF OrderRow
<1>3. order' = [order EXCEPT ![w] = row] /\ order'[w] = row
  <2>1. order' = [order EXCEPT ![w].execution = "submitting", ![w].state = "processing"]
    BY DEF Execute
  <2> QED BY <2>1 DEF FInv, OrderTypes
<1>4. /\ UNCHANGED <<hold, reviews>> /\ order[w].approval = "approved" /\ ~Submitted(w)
      /\ queries' = [queries EXCEPT ![w] = 0]
  BY DEF Execute
<1>5. queries'[w] = 0 /\ queries' \in [Withdrawals -> {NoJob, 0, 1}]
  BY <1>4 DEF FInv, OrderTypes
<1> HIDE DEF row
<1>6. Reviewed(w)' /\ Passed(w, reviews)' = Passed(w, reviews)
  BY <1>2, <1>3, <1>4, ReviewsKept
<1>7. Sound(w)'
  <2>1. Submitted(w)' /\ StillHeld(w)' /\ StillHeld(w) /\ Exists(w) /\ Exists(w)'
    BY <1>2, <1>3, <1>4 DEF Submitted, StillHeld, Over, Exists
  <2>2. queries'[w] # NoJob
    BY <1>5 DEF NoJob
  <2> QED BY <1>2, <1>3, <1>4, <1>6, <2>1, <2>2 DEF FInv, Sound
<1>8. OthersStand(w) /\ OrderTypes'
  BY <1>2, <1>3, <1>4, <1>5 DEF OthersStand, FInv, OrderTypes
<1> QED BY <1>7, <1>8, FInvAt

(* What the channel may report.                                            *)
LEMMA ReportTypes ==
  ASSUME FInv, NEW w \in Withdrawals
  PROVE  /\ Answer(w).cumulative \in Nat /\ Answer(w).confirmations \in Nat
         /\ \A e \in Reports(w) : e.cumulative \in Nat /\ e.confirmations \in Nat
<1>1. order[w].amount \in Nat /\ order[w].delivered \in Nat
  BY DEF FInv, OrderTypes, OrderRow
<1>2. Half(w) \in Nat
  BY <1>1 DEF Half
<1>3. Pays(w) \in Nat /\ \A n \in Paid(w) : n \in Nat
  BY <1>1, <1>2 DEF Pays, Paid
<1>4. Deep \in Nat /\ Deep - 1 \in Nat
  BY DEF Deep
<1>5. \A s : \A n, c \in Nat : Report(s, n, c).cumulative = n /\ Report(s, n, c).confirmations = c
  BY DEF Report
<1>6. Answer(w).cumulative \in Nat /\ Answer(w).confirmations \in Nat
  BY <1>1, <1>2, <1>4, <1>5 DEF Answer
<1>7. ASSUME NEW e \in Reports(w) PROVE e.cumulative \in Nat /\ e.confirmations \in Nat
  BY <1>3, <1>4, <1>5 DEF Reports
<1> QED BY <1>6, <1>7

(* A row that only moves on: execution, state, deliveries, confirmations.  *)
LEMMA RowMoves ==
  ASSUME FInv, NEW w \in Withdrawals, Submitted(w), NEW row \in OrderRow,
         order' = [order EXCEPT ![w] = row], UNCHANGED reviews,
         hold' \in [Withdrawals -> Nat], \A v \in Withdrawals \ {w} : hold'[v] = hold[v],
         queries' \in [Withdrawals -> {NoJob, 0, 1}], queries'[w] # NoJob,
         \A v \in Withdrawals \ {w} : queries'[v] = queries[v],
         row.revision = order[w].revision, row.amount = order[w].amount,
         row.requester = order[w].requester, row.approval = order[w].approval,
         row.execution # "not_submitted",
         hold'[w] = IF row.execution \in Over THEN 0
                    ELSE row.amount + WithdrawalFee - row.delivered
  PROVE  FInv'
<1>1. order'[w] = row
  BY DEF FInv, OrderTypes
<1>2. Reviewed(w)' /\ Passed(w, reviews)' = Passed(w, reviews)
  BY ReviewsKept
<1>3. order[w].approval = "approved"
  BY DEF FInv, Sound
<1>4. Sound(w)'
  <2>1. Submitted(w)' /\ Exists(w)' /\ Exists(w) /\ (StillHeld(w)' <=> row.execution \notin Over)
    BY <1>1, <1>3 DEF Submitted, Exists, StillHeld
  <2> QED BY <1>1, <1>2, <1>3, <2>1 DEF FInv, Sound
<1>5. OthersStand(w) /\ OrderTypes'
  BY DEF OthersStand, FInv, OrderTypes
<1> QED BY <1>4, <1>5, FInvAt

(* A report that is taken, whatever it says.                               *)
LEMMA ApplyEventFInv ==
  ASSUME FInv, NEW w \in Withdrawals, NEW e, e.cumulative \in Nat, e.confirmations \in Nat,
         Submitted(w), ApplyEvent(w, e), UNCHANGED reviews,
         queries' \in [Withdrawals -> {NoJob, 0, 1}], queries'[w] # NoJob,
         \A v \in Withdrawals \ {w} : queries'[v] = queries[v]
  PROVE  FInv'
<1>1. /\ order[w] \in OrderRow /\ hold[w] \in Nat /\ WithdrawalFee \in Nat
      /\ order[w].amount \in Nat /\ order[w].delivered \in Nat
  BY FinanceAssumption DEF FInv, OrderTypes, OrderRow
<1>2. hold[w] = IF order[w].execution \in Over THEN 0
                ELSE order[w].amount + WithdrawalFee - order[w].delivered
  BY DEF FInv, Sound, StillHeld
<1>3. CASE Stale(w, e)
  <2>1. order' = [order EXCEPT ![w] = order[w]] /\ hold' = hold
    BY <1>3 DEF ApplyEvent, FInv, OrderTypes
  <2> QED BY <1>1, <1>2, <2>1, RowMoves DEF FInv, OrderTypes, Submitted
<1>4. CASE ~Stale(w, e)
  <2>1. order[w].execution \notin Over /\ e.cumulative >= order[w].delivered
    BY <1>1, <1>4 DEF Stale
  <2>2. ASSUME NEW execution \in Executions \ {"not_submitted"}, NEW state \in OrderStates,
               Move(w, execution, state), hold' \in [Withdrawals -> Nat],
               \A v \in Withdrawals \ {w} : hold'[v] = hold[v],
               hold'[w] = IF execution \in Over THEN 0 ELSE hold[w]
        PROVE  FInv'
    <3> DEFINE row == [order[w] EXCEPT !.execution = execution, !.state = state]
    <3>1. /\ row \in OrderRow
          /\ row.revision = order[w].revision /\ row.amount = order[w].amount
          /\ row.requester = order[w].requester /\ row.delivered = order[w].delivered
          /\ row.execution = execution /\ row.approval = order[w].approval
      BY <1>1 DEF OrderRow
    <3>2. order' = [order EXCEPT ![w] = row]
      BY <2>2 DEF Move, FInv, OrderTypes
    <3> HIDE DEF row
    <3> QED BY <1>2, <2>1, <2>2, <3>1, <3>2, RowMoves
  <2>3. CASE Confirming(w, e) \/ Progress(w, e) \/ Fail(w, e)
    <3>1. /\ {"chain_confirming", "unknown", "channel_processing", "failed"}
               \subseteq Executions \ {"not_submitted"}
          /\ {"processing", "exception"} \subseteq OrderStates
          /\ {"chain_confirming", "unknown", "channel_processing"} \cap Over = {}
          /\ "failed" \in Over
      BY DEF Executions, OrderStates, Over
    <3>2. CASE Confirming(w, e)
      BY <2>2, <3>1, <3>2 DEF Confirming, FInv, OrderTypes
    <3>3. CASE Progress(w, e)
      BY <2>2, <3>1, <3>3 DEF Progress, FInv, OrderTypes
    <3>4. CASE Fail(w, e)
      <4>1. hold' = [hold EXCEPT ![w] = 0] /\ Move(w, "failed", "exception")
        BY <3>4 DEF Fail, Release
      <4>2. hold' \in [Withdrawals -> Nat] /\ hold'[w] = 0 /\ \A v \in Withdrawals \ {w} : hold'[v] = hold[v]
        BY <4>1 DEF FInv, OrderTypes
      <4> QED BY <2>2, <3>1, <4>1, <4>2
    <3> QED BY <2>3, <3>2, <3>3, <3>4
  <2>4. CASE Deliver(w, e)
    <3> DEFINE all == e.cumulative = order[w].amount
               delta == e.cumulative - order[w].delivered
               execution == IF all THEN "completed" ELSE "channel_processing"
               state == IF all THEN "completed" ELSE "processing"
               row == [order[w] EXCEPT !.delivered = e.cumulative, !.confirmations = e.confirmations,
                                       !.execution = execution, !.state = state]
    <3>1. /\ execution \in Executions \ {"not_submitted"} /\ state \in OrderStates
          /\ execution \in Over <=> all
      BY DEF Executions, OrderStates, Over
    <3>2. order' = [order EXCEPT ![w] = row]
      BY <2>4 DEF Deliver, Delivered
    <3>3. /\ row \in OrderRow
          /\ row.revision = order[w].revision /\ row.amount = order[w].amount
          /\ row.requester = order[w].requester /\ row.delivered = e.cumulative
          /\ row.execution = execution /\ row.approval = order[w].approval
      <4> HIDE DEF execution, state
      <4> QED BY <1>1, <3>1 DEF OrderRow
    <3>4. /\ delta <= hold[w] /\ delta \in Nat
          /\ hold' = [hold EXCEPT ![w] = IF all THEN 0 ELSE hold[w] - delta]
      BY <1>1, <2>1, <2>4 DEF Deliver, Release
    <3>5. /\ hold'[w] = IF all THEN 0 ELSE hold[w] - delta
          /\ hold' \in [Withdrawals -> Nat]
          /\ \A v \in Withdrawals \ {w} : hold'[v] = hold[v]
      BY <1>1, <3>4 DEF FInv, OrderTypes
    <3>6. hold'[w] = IF row.execution \in Over THEN 0
                     ELSE row.amount + WithdrawalFee - row.delivered
      BY <1>1, <1>2, <2>1, <3>1, <3>3, <3>5
    <3> HIDE DEF row, execution
    <3> QED BY <3>1, <3>2, <3>3, <3>5, <3>6, RowMoves
  <2> QED BY <1>4, <2>3, <2>4 DEF ApplyEvent
<1> QED BY <1>3, <1>4

LEMMA ReceiveEventFInv == ASSUME FInv, NEW w \in Withdrawals, ReceiveEvent(w) PROVE FInv'
<1>1. PICK e \in Reports(w) : ApplyEvent(w, e)
  BY DEF ReceiveEvent
<1>2. queries[w] # NoJob /\ UNCHANGED <<reviews, queries>>
  BY DEF ReceiveEvent
<1>3. Submitted(w) /\ queries \in [Withdrawals -> {NoJob, 0, 1}]
  BY <1>2 DEF FInv, Sound, OrderTypes
<1> QED BY <1>1, <1>2, <1>3, ReportTypes, ApplyEventFInv

LEMMA ReconcileFInv ==
  ASSUME FInv, NEW w \in Withdrawals, NEW a \in Actors, Reconcile(w, a) PROVE FInv'
<1>1. /\ queries[w] # NoJob /\ UNCHANGED reviews /\ ApplyEvent(w, Answer(w))
      /\ queries' = [queries EXCEPT ![w] = 1]
  BY DEF Reconcile
<1>2. /\ Submitted(w) /\ queries'[w] # NoJob /\ queries' \in [Withdrawals -> {NoJob, 0, 1}]
      /\ \A v \in Withdrawals \ {w} : queries'[v] = queries[v]
  BY <1>1 DEF FInv, Sound, OrderTypes, NoJob
<1> QED BY <1>1, <1>2, ReportTypes, ApplyEventFInv

-----------------------------------------------------------------------------
LEMMA FInvInit == FinanceInit => FInv
<1> SUFFICES ASSUME FinanceInit PROVE FInv
  OBVIOUS
<1>1. NoOrder \in OrderRow
  BY DEF NoOrder, OrderRow, Approvals, OrderStates, Risks, Executions
<1>2. OrderTypes
  BY <1>1 DEF FinanceInit, OrderTypes
<1>3. ASSUME NEW w \in Withdrawals PROVE Sound(w)
  <2>1. order[w] = NoOrder /\ hold[w] = 0 /\ queries[w] = NoJob /\ reviews = {}
    BY DEF FinanceInit
  <2>2. ~Submitted(w) /\ ~Exists(w) /\ ~StillHeld(w)
    BY <2>1 DEF Submitted, Exists, StillHeld, NoOrder
  <2> QED BY <2>1, <2>2 DEF Sound, Reviewed, NoOrder
<1> QED BY <1>2, <1>3 DEF FInv

(* Trades and prices leave the withdrawals alone.                          *)
LEMMA ExchangeFInv ==
  ASSUME FInv, NEW a \in Actors, SetPrice(a) \/ \E t \in Trades : Exchange(t, a)
  PROVE  FInv'
<1>1. UNCHANGED <<order, hold, reviews, queries>>
  BY DEF SetPrice, Exchange, Quote, Draft, ConfirmOtc, DropDraft, ReturnDraft, RejectDraft,
         TradesUnchanged, OrdersUnchanged
<1> QED BY <1>1, FInvUnchanged

LEMMA FInvNext == ASSUME FInv, [FinanceNext]_financeVars PROVE FInv'
<1>1. ASSUME NEW w \in Withdrawals, NEW a \in Actors, Place(w, a) PROVE FInv'
  <2> PICK n \in Amounts[w] : \/ NewWithdrawal(w, a, n) \/ Amend(w, a, n)
                              \/ \E t \in Trades : Payout(t, w, a, n)
    BY <1>1 DEF Place
  <2>1. CASE NewWithdrawal(w, a, n)
    BY <2>1, WithdrawFInv DEF NewWithdrawal
  <2>2. CASE \E t \in Trades : Payout(t, w, a, n)
    BY <2>2, WithdrawFInv DEF Payout
  <2> QED BY <2>1, <2>2, AmendFInv
<1>2. ASSUME NEW w \in Withdrawals, NEW a \in Actors, Examine(w, a) PROVE FInv'
  <2>1. CASE Cancel(w, a)
    BY <2>1, RefusedFInv DEF Cancel, Withdrawable
  <2>2. ASSUME NEW node \in DOMAIN NodePermission, Reject(w, a, node) PROVE FInv'
    BY <2>2, RefusedFInv DEF Reject, MayReview
  <2> QED BY <1>2, <2>1, <2>2, RiskCheckFInv, ReturnFInv, ApproveFInv DEF Examine
<1>3. CASE UNCHANGED financeVars
  BY <1>3, FInvUnchanged DEF financeVars
<1> QED
  BY <1>1, <1>2, <1>3, ExecuteFInv, ReceiveEventFInv, ReconcileFInv, ExchangeFInv DEF FinanceNext

-----------------------------------------------------------------------------
(* An order that is not over holds what it may still cost with the fee,    *)
(* and one that is over holds nothing (reserve, release and applyEvent).   *)
THEOREM HoldsAlwaysFit == FinanceSpec => []HoldsFit
<1>1. FInv => HoldsFit
  BY DEF FInv, Sound, HoldsFit
<1> QED BY <1>1, FInvInit, FInvNext, PTL DEF FinanceSpec

(* A payout that was submitted was approved at every node its amount       *)
(* needs, for this revision and amount, by different persons of whom none  *)
(* asked for it (approve and execute).                                     *)
THEOREM AlwaysExecutedAsReviewed == FinanceSpec => []ExecutedAsReviewed
<1>1. ASSUME FInv, NEW w \in Withdrawals, Submitted(w)
      PROVE  \E by \in [Nodes(order[w].amount) -> Actors] :
               /\ \A node \in DOMAIN by : /\ by[node] # order[w].requester
                                          /\ [order |-> w, revision |-> order[w].revision,
                                              actor |-> by[node], node |-> node,
                                              seen |-> order[w].amount] \in reviews
               /\ \A m, n \in DOMAIN by : m # n => by[m] # by[n]
  <2> DEFINE At(node, a) == [order |-> w, revision |-> order[w].revision, actor |-> a,
                             node |-> node, seen |-> order[w].amount]
             by == [node \in Nodes(order[w].amount) |-> CHOOSE a \in Actors : At(node, a) \in reviews]
  <2>1. Nodes(order[w].amount) \subseteq Passed(w, reviews)
    BY <1>1 DEF FInv, Sound
  <2>2. ASSUME NEW node \in Nodes(order[w].amount)
        PROVE  \E a \in Actors : At(node, a) \in reviews
    <3>1. PICK r \in reviews : r.order = w /\ r.revision = order[w].revision /\ r.node = node
      BY <2>1 DEF Passed
    <3>2. r \in Review /\ r.seen = order[w].amount
      BY <1>1, <3>1 DEF FInv, OrderTypes, Sound, Reviewed
    <3>3. r = [order |-> r.order, revision |-> r.revision, actor |-> r.actor,
               node |-> r.node, seen |-> r.seen] /\ r.actor \in Actors
      BY <3>2 DEF Review
    <3> QED BY <3>1, <3>2, <3>3
  <2>3. \A node \in Nodes(order[w].amount) : by[node] \in Actors /\ At(node, by[node]) \in reviews
    BY <2>2
  <2>4. by \in [Nodes(order[w].amount) -> Actors] /\ DOMAIN by = Nodes(order[w].amount)
    BY <2>3
  <2> HIDE DEF by
  <2>5. ASSUME NEW node \in DOMAIN by PROVE by[node] # order[w].requester
    <3>1. At(node, by[node]) \in reviews
      BY <2>3, <2>4
    <3> QED BY <1>1, <3>1 DEF FInv, Sound, Reviewed
  <2>6. ASSUME NEW m \in DOMAIN by, NEW n \in DOMAIN by, by[m] = by[n] PROVE m = n
    <3>1. At(m, by[m]) \in reviews /\ At(n, by[n]) \in reviews
      BY <2>3, <2>4
    <3>2. At(m, by[m]) = At(n, by[n])
      BY <1>1, <2>6, <3>1 DEF FInv, Sound, Reviewed
    <3> QED BY <3>2
  <2> QED BY <2>3, <2>4, <2>5, <2>6
<1>2. FInv => ExecutedAsReviewed
  BY <1>1 DEF ExecutedAsReviewed
<1> QED BY <1>2, FInvInit, FInvNext, PTL DEF FinanceSpec

(* What can still change is neither decided against nor paid out.          *)
Changeable(w) ==
  order[w].approval \notin {"rejected", "cancelled"} /\ order[w].execution \notin Over

LEMMA OnlyChangeable ==
  ASSUME FInv, [FinanceNext]_financeVars, NEW w \in Withdrawals, order'[w] # order[w]
  PROVE  Changeable(w)
<1> USE DEF Changeable, Over
<1>1. ASSUME NEW v \in Withdrawals, ReceiveEvent(v) \/ \E a \in Actors : Reconcile(v, a)
      PROVE  Changeable(w)
  <2>1. PICK e : ApplyEvent(v, e)
    BY <1>1 DEF ReceiveEvent, Reconcile
  <2>2. queries[v] # NoJob
    BY <1>1 DEF ReceiveEvent, Reconcile
  <2>3. order[v].approval = "approved"
    BY <2>2 DEF FInv, Sound
  <2>4. ~Stale(v, e)
    BY <2>1 DEF ApplyEvent
  <2>5. w = v
    BY <2>1, <2>4
       DEF ApplyEvent, Deliver, Delivered, Confirming, Fail, Progress, Move, FInv, OrderTypes
  <2> QED BY <2>3, <2>4, <2>5 DEF Stale
<1>2. ASSUME NEW v \in Withdrawals, NEW a \in Actors, NEW n \in Amounts[v], NEW parent,
             Withdraw(v, a, n, parent)
      PROVE  Changeable(w)
  <2>1. w = v /\ ~Exists(v)
    BY <1>2 DEF Withdraw, FInv, OrderTypes
  <2>2. ~Submitted(v)
    BY <2>1 DEF FInv, Sound, Exists
  <2> QED BY <2>1, <2>2 DEF Exists, Submitted
<1>3. ASSUME NEW v \in Withdrawals, NEW a \in Actors, NEW n \in Amounts[v], Amend(v, a, n)
      PROVE  Changeable(w)
  <2>1. w = v
    BY <1>3 DEF Amend, FInv, OrderTypes
  <2> QED BY <1>3, <2>1 DEF Amend, Submitted
<1>4. ASSUME NEW v \in Withdrawals, NEW a \in Actors, Examine(v, a) PROVE Changeable(w)
  <2>1. w = v
    BY <1>4 DEF Examine, RiskCheck, Return, Cancel, Approve, Reject, FInv, OrderTypes
  <2>2. ~Submitted(v) /\ order[v].approval \in {"pending", "reviewing", "approved"}
    BY <1>4 DEF Examine, RiskCheck, Return, Cancel, Approve, Reject, MayReview, Withdrawable
  <2> QED BY <2>1, <2>2 DEF Submitted
<1>5. ASSUME NEW v \in Withdrawals, NEW a \in Actors, Execute(v, a) PROVE Changeable(w)
  <2>1. w = v
    BY <1>5 DEF Execute, FInv, OrderTypes
  <2> QED BY <1>5, <2>1 DEF Execute, Submitted
<1>6. ASSUME NEW a \in Actors PROVE ~SetPrice(a) /\ \A t \in Trades : ~Exchange(t, a)
  BY DEF SetPrice, Exchange, Quote, Draft, ConfirmOtc, DropDraft, ReturnDraft, RejectDraft,
         TradesUnchanged, OrdersUnchanged
<1>7. ASSUME NEW v \in Withdrawals, NEW a \in Actors, Place(v, a) PROVE Changeable(w)
  <2> PICK n \in Amounts[v] : \/ NewWithdrawal(v, a, n) \/ Amend(v, a, n)
                              \/ \E t \in Trades : Payout(t, v, a, n)
    BY <1>7 DEF Place
  <2> QED BY <1>2, <1>3 DEF NewWithdrawal, Payout
<1>8. order' # order
  OBVIOUS
<1> QED BY <1>1, <1>4, <1>5, <1>6, <1>7, <1>8 DEF FinanceNext, financeVars

(* A decision against an order and the end of a payout are final, whatever *)
(* is asked or reported later.                                             *)
THEOREM DecisionsStay == FinanceSpec => DecidedStays
<1>1. FInv /\ [FinanceNext]_financeVars =>
        [\A w \in Withdrawals :
           /\ order[w].approval \in {"rejected", "cancelled"} => order'[w] = order[w]
           /\ order[w].execution \in Over => order'[w] = order[w]]_financeVars
  BY OnlyChangeable DEF Changeable
<1> QED BY <1>1, FInvInit, FInvNext, PTL DEF FinanceSpec, DecidedStays

(***************************************************************************)
(* The money.  What orders hold, what they have cost and what trades took  *)
(* are sums over the orders and trades there are.                          *)
(***************************************************************************)
TotalSpent == SumFunction([w \in Placed |-> Spent(w)])
TotalSold == SumFunction([t \in CompletedTrades |-> Sold(t)])

QuoteRow == [version : Nat, actor : Actors \cup {Nobody}, offer : Offers \cup {NoOffer}]
TradeRow == [state : TradeStates, requester : Actors \cup {Nobody}]

(* What an order has posted of what the channel pays.                      *)
PaidOut(w) ==
  order[w].delivered <= Pays(w) /\ (order[w].execution \in Over => order[w].delivered = Pays(w))

(* A trade has a quote of one of the offers.                               *)
FromOffer(t) ==
  /\ quote[t] # NoQuote => quote[t].offer \in Offers
  /\ trade[t].state # "absent" => quote[t] # NoQuote

BInv ==
  /\ IsFiniteSet(Placed) /\ IsFiniteSet(CompletedTrades)
  /\ customer \in [Assets -> Int] /\ stock \in [Assets -> Int] /\ price \in Nat \ {0}
  /\ quote \in [Trades -> QuoteRow] /\ trade \in [Trades -> TradeRow]
  /\ \A w \in Withdrawals : PaidOut(w)
  /\ \A t \in Trades : FromOffer(t)
  /\ EverythingCovered
  /\ customer["USDT"] = Opening["USDT"] - TotalSpent - TotalSold

(* The terms of the sums.                                                  *)
LEMMA OrderTerms ==
  ASSUME FInv, NEW w \in Withdrawals
  PROVE  /\ hold[w] \in Nat /\ Spent(w) \in Nat
         /\ w \notin Placed => hold[w] = 0 /\ Spent(w) = 0
<1>1. /\ hold[w] \in Nat /\ order[w].delivered \in Nat /\ WithdrawalFee \in Nat
  BY FinanceAssumption DEF FInv, OrderTypes, OrderRow
<1>2. ASSUME w \notin Placed PROVE hold[w] = 0 /\ Spent(w) = 0
  <2>1. order[w].approval = "absent"
    BY <1>2 DEF Placed, Exists
  <2>2. ~Submitted(w) /\ ~StillHeld(w)
    BY <2>1 DEF FInv, Sound, StillHeld
  <2> QED BY <2>2 DEF FInv, Sound, Submitted, Spent
<1> QED BY <1>1, <1>2 DEF Spent

(* What orders hold and have cost are numbers.                             *)
LEMMA OrderSumTypes ==
  ASSUME FInv, BInv
  PROVE  Held(hold) \in Nat /\ TotalSpent \in Int
<1>1. IsFiniteSet(Placed) /\ Placed \subseteq Withdrawals
  BY DEF BInv, Placed
<1>2. \A w \in Placed : [v \in Placed |-> hold[v]][w] \in Nat
  BY <1>1, OrderTerms
<1>3. \A w \in Placed : [v \in Placed |-> Spent(v)][w] \in Int
  BY <1>1, OrderTerms
<1>4. Held(hold) \in Nat
  BY <1>1, <1>2, SumNat DEF Held, SumFunction
<1>5. TotalSpent \in Int
  BY <1>1, <1>3, SumInt DEF TotalSpent, SumFunction
<1> QED BY <1>4, <1>5

(* What trades took is a number.                                           *)
LEMMA TradeSumTypes ==
  ASSUME BInv
  PROVE  TotalSold \in Int /\ \A t \in CompletedTrades : Sold(t) \in Int
<1>1. IsFiniteSet(CompletedTrades) /\ CompletedTrades \subseteq Trades
  BY DEF BInv, CompletedTrades
<1>2. ASSUME NEW t \in CompletedTrades PROVE Sold(t) \in Int
  <2>1. quote[t].offer \in Offers
    BY <1>1 DEF BInv, FromOffer, CompletedTrades
  <2>2. quote[t].offer.sell \in Nat /\ quote[t].offer.buy \in Nat
    BY <2>1, FinanceAssumption
  <2> QED BY <2>2 DEF Sold
<1>3. TotalSold \in Int
  BY <1>1, <1>2, SumInt DEF TotalSold, SumFunction
<1> QED BY <1>2, <1>3

(* When one order changes, the sums change by its terms.                   *)
LEMMA OneOrderChanges ==
  ASSUME FInv, FInv', BInv, NEW w \in Withdrawals, Exists(w)',
         \A v \in Withdrawals \ {w} : order'[v] = order[v] /\ hold'[v] = hold[v]
  PROVE  /\ IsFiniteSet(Placed')
         /\ Held(hold)' = Held(hold) - hold[w] + hold'[w]
         /\ TotalSpent' = TotalSpent - Spent(w) + Spent(w)'
<1>1. Placed' = Placed \cup {w}
  BY DEF Placed, Exists
<1>2. IsFiniteSet(Placed) /\ Placed \subseteq Withdrawals
  BY DEF BInv, Placed
<1>3. hold'[w] \in Int /\ Spent(w)' \in Int
  <2>1. hold'[w] \in Nat /\ order'[w].delivered \in Nat /\ WithdrawalFee \in Nat
    BY FinanceAssumption DEF FInv, OrderTypes, OrderRow
  <2> QED BY <2>1 DEF Spent
<1>4. Held(hold)' = Held(hold) - hold[w] + hold'[w]
  <2> PICK f, g, old : /\ f = [v \in Placed |-> hold[v]]
                       /\ g = [v \in Placed \cup {w} |-> hold'[v]]
                       /\ old = hold[w]
    OBVIOUS
  <2>1. /\ \A v \in Placed : f[v] \in Int
        /\ w \in Placed => f[w] = old
        /\ w \notin Placed => old = 0
    BY <1>2, OrderTerms
  <2>2. g[w] = hold'[w] /\ g[w] \in Int /\ \A v \in Placed \ {w} : g[v] = f[v]
    BY <1>2, <1>3 DEF Spent
  <2>3. Held(hold)' = SumFunctionOnSet(g, Placed \cup {w}) /\ Held(hold) = SumFunctionOnSet(f, Placed)
    BY <1>1 DEF Held, SumFunction
  <2>4. SumFunctionOnSet(g, Placed \cup {w}) = SumFunctionOnSet(f, Placed) - old + g[w]
    BY <1>2, <2>1, <2>2, SumPut, SMTT(20)
  <2> QED BY <2>2, <2>3, <2>4
<1>5. TotalSpent' = TotalSpent - Spent(w) + Spent(w)'
  <2> PICK f, g, old : /\ f = [v \in Placed |-> Spent(v)]
                       /\ g = [v \in Placed \cup {w} |-> Spent(v)']
                       /\ old = Spent(w)
    OBVIOUS
  <2>1. /\ \A v \in Placed : f[v] \in Int
        /\ w \in Placed => f[w] = old
        /\ w \notin Placed => old = 0
    BY <1>2, OrderTerms
  <2>2. g[w] = Spent(w)' /\ g[w] \in Int /\ \A v \in Placed \ {w} : g[v] = f[v]
    BY <1>2, <1>3 DEF Spent
  <2>3. TotalSpent' = SumFunctionOnSet(g, Placed \cup {w}) /\ TotalSpent = SumFunctionOnSet(f, Placed)
    BY <1>1 DEF TotalSpent, SumFunction
  <2>4. SumFunctionOnSet(g, Placed \cup {w}) = SumFunctionOnSet(f, Placed) - old + g[w]
    BY <1>2, <2>1, <2>2, SumPut, SMTT(20)
  <2> QED BY <2>2, <2>3, <2>4
<1> QED BY <1>1, <1>2, <1>4, <1>5, FS_AddElement

(* What the other orders hold, as Reserve asks for it.                     *)
LEMMA HeldByOthers ==
  ASSUME FInv, BInv, NEW w \in Withdrawals
  PROVE  Held([hold EXCEPT ![w] = 0]) = Held(hold) - hold[w]
<1> DEFINE without == [hold EXCEPT ![w] = 0]
           f == [v \in Placed |-> hold[v]]
           g == [v \in Placed |-> without[v]]
<1>1. IsFiniteSet(Placed) /\ Placed \subseteq Withdrawals
  BY DEF BInv, Placed
<1>2. \A v \in Withdrawals : without[v] = IF v = w THEN 0 ELSE hold[v]
  BY DEF FInv, OrderTypes
<1>3. \A v \in Placed : f[v] \in Int /\ g[v] \in Int /\ (v # w => g[v] = f[v])
  BY <1>1, <1>2, OrderTerms
<1>4. Held(hold) = SumFunctionOnSet(f, Placed) /\ Held(without) = SumFunctionOnSet(g, Placed)
  BY DEF Held, SumFunction
<1>5. CASE w \in Placed
  <2>1. f[w] = hold[w] /\ g[w] = 0
    BY <1>2, <1>5
  <2> HIDE DEF f, g, without
  <2>2. SumFunctionOnSet(g, Placed) = SumFunctionOnSet(f, Placed) - f[w] + g[w]
    BY <1>1, <1>3, <1>5, SumChange
  <2>3. hold[w] \in Int /\ SumFunctionOnSet(f, Placed) \in Int
    BY <1>1, <1>3, OrderTerms, SumInt
  <2> QED BY <1>4, <2>1, <2>2, <2>3 DEF without
<1>6. CASE w \notin Placed
  <2>1. hold[w] = 0 /\ Held(hold) \in Int
    BY <1>6, OrderTerms, OrderSumTypes
  <2> HIDE DEF f, g, without
  <2>2. SumFunctionOnSet(g, Placed) = SumFunctionOnSet(f, Placed)
    BY <1>1, <1>3, <1>6, SumSame
  <2> QED BY <1>4, <2>1, <2>2 DEF without
<1> QED BY <1>5, <1>6

(* A step of one order keeps the money, when the customer loses what it    *)
(* adds to the cost of the order and still has what orders hold.           *)
LEMMA OrderStep ==
  ASSUME FInv, FInv', BInv, NEW w \in Withdrawals, Exists(w)',
         \A v \in Withdrawals \ {w} : order'[v] = order[v] /\ hold'[v] = hold[v],
         Rest, customer' \in [Assets -> Int], customer'["USD"] = customer["USD"],
         customer'["USDT"] = customer["USDT"] + Spent(w) - Spent(w)',
         customer'["USDT"] >= Held(hold) - hold[w] + hold'[w],
         PaidOut(w)'
  PROVE  BInv'
<1>1. /\ IsFiniteSet(Placed')
      /\ Held(hold)' = Held(hold) - hold[w] + hold'[w]
      /\ TotalSpent' = TotalSpent - Spent(w) + Spent(w)'
  BY OneOrderChanges
<1>2. /\ UNCHANGED <<trade, quote, price, stock>>
      /\ CompletedTrades' = CompletedTrades /\ TotalSold' = TotalSold
      /\ \A t \in Trades : FromOffer(t)' = FromOffer(t)
  BY DEF Rest, CompletedTrades, TotalSold, Sold, FromOffer
<1>3. \A v \in Withdrawals : PaidOut(v)'
  <2>1. \A v \in Withdrawals \ {w} : PaidOut(v)' = PaidOut(v)
    BY DEF PaidOut, Pays, Half
  <2> QED BY <2>1 DEF BInv
<1>4. EverythingCovered'
  BY <1>1, <1>2 DEF EverythingCovered, BInv
<1>5. customer'["USDT"] = Opening["USDT"] - TotalSpent' - TotalSold'
  <2>1. Spent(w) \in Int /\ TotalSpent \in Int
    BY OrderTerms, OrderSumTypes
  <2>2. Spent(w)' \in Int
    <3>1. order'[w].delivered \in Nat /\ WithdrawalFee \in Nat
      BY FinanceAssumption DEF FInv, OrderTypes, OrderRow
    <3> QED BY <3>1 DEF Spent
  <2>3. Opening["USDT"] \in Int /\ customer["USDT"] \in Int /\ TotalSold \in Int
    BY FinanceAssumption, TradeSumTypes DEF BInv, Assets
  <2>4. customer["USDT"] = Opening["USDT"] - TotalSpent - TotalSold
    BY DEF BInv
  <2> QED BY <1>1, <1>2, <2>1, <2>2, <2>3, <2>4
<1> QED BY <1>1, <1>2, <1>3, <1>4, <1>5 DEF BInv

(* A step that costs the customer nothing and holds no more than is there. *)
LEMMA FreeStep ==
  ASSUME FInv, FInv', BInv, NEW w \in Withdrawals, Exists(w)',
         \A v \in Withdrawals \ {w} : order'[v] = order[v] /\ hold'[v] = hold[v],
         Rest, UNCHANGED customer, Spent(w)' = Spent(w), PaidOut(w)',
         \/ hold'[w] <= hold[w]
         \/ customer["USDT"] - Held([hold EXCEPT ![w] = 0]) >= hold'[w]
  PROVE  BInv'
<1>1. /\ Held(hold) \in Int /\ hold[w] \in Int /\ hold'[w] \in Int /\ Spent(w) \in Int
      /\ customer["USDT"] \in Int
  BY OrderTerms, OrderSumTypes DEF BInv, Assets, FInv, OrderTypes
<1>2. customer["USDT"] >= Held(hold) /\ Held([hold EXCEPT ![w] = 0]) = Held(hold) - hold[w]
  BY HeldByOthers DEF BInv, EverythingCovered
<1>3. /\ customer'["USDT"] >= Held(hold) - hold[w] + hold'[w]
      /\ customer'["USDT"] = customer["USDT"] + Spent(w) - Spent(w)'
      /\ customer' \in [Assets -> Int] /\ customer'["USD"] = customer["USD"]
  BY <1>1, <1>2 DEF BInv
<1> QED BY <1>3, OrderStep

(* An order that was not submitted has cost nothing.                       *)
LEMMA UnsubmittedStep ==
  ASSUME FInv, FInv', BInv, NEW w \in Withdrawals, ~Submitted(w), ~Submitted(w)', Exists(w)',
         \A v \in Withdrawals \ {w} : order'[v] = order[v] /\ hold'[v] = hold[v],
         Rest, UNCHANGED customer,
         \/ hold'[w] <= hold[w]
         \/ customer["USDT"] - Held([hold EXCEPT ![w] = 0]) >= hold'[w]
  PROVE  BInv'
<1>1. order[w].delivered = 0 /\ order'[w].delivered = 0
  BY DEF FInv, Sound
<1>2. Spent(w)' = Spent(w)
  BY <1>1 DEF Spent, Submitted
<1>3. PaidOut(w)'
  <2>1. order'[w].amount \in Nat
    BY DEF FInv, OrderTypes, OrderRow
  <2>2. Pays(w)' \in Nat
    BY <2>1 DEF Pays, Half
  <2> QED BY <1>1, <2>2 DEF PaidOut, Submitted, Over
<1> QED BY <1>2, <1>3, FreeStep

(* A new or amended order reserves what it holds.                          *)
LEMMA PlaceBInv ==
  ASSUME FInv, FInv', BInv, NEW w \in Withdrawals, NEW a \in Actors, Place(w, a) PROVE BInv'
<1> PICK n \in Amounts[w] : \/ NewWithdrawal(w, a, n) \/ Amend(w, a, n)
                            \/ \E t \in Trades : Payout(t, w, a, n)
  BY DEF Place
<1>1. ASSUME NEW parent, Withdraw(w, a, n, parent) PROVE BInv'
  <2>1. ~Exists(w) /\ Reserve(w, n + WithdrawalFee) /\ Rest /\ UNCHANGED customer
    BY <1>1 DEF Withdraw
  <2>2. ~Submitted(w)
    BY <2>1 DEF FInv, Sound, Exists
  <2>3. order'[w].approval = "pending" /\ order'[w].execution = "not_submitted"
        /\ \A v \in Withdrawals \ {w} : order'[v] = order[v]
    BY <1>1 DEF Withdraw, NoOrder, FInv, OrderTypes
  <2>4. /\ hold'[w] = n + WithdrawalFee /\ \A v \in Withdrawals \ {w} : hold'[v] = hold[v]
        /\ customer["USDT"] - Held([hold EXCEPT ![w] = 0]) >= n + WithdrawalFee
    BY <2>1 DEF Reserve, FInv, OrderTypes
  <2> QED BY <2>1, <2>2, <2>3, <2>4, UnsubmittedStep DEF Submitted, Exists
<1>2. CASE Amend(w, a, n)
  <2>1. Exists(w) /\ ~Submitted(w) /\ Reserve(w, n + WithdrawalFee) /\ Rest /\ UNCHANGED customer
    BY <1>2 DEF Amend
  <2>2. order[w] \in OrderRow
    BY DEF FInv, OrderTypes
  <2>3. order'[w].approval = "pending" /\ order'[w].execution = order[w].execution
        /\ \A v \in Withdrawals \ {w} : order'[v] = order[v]
    BY <1>2, <2>2 DEF Amend, FInv, OrderTypes, OrderRow
  <2>4. /\ hold'[w] = n + WithdrawalFee /\ \A v \in Withdrawals \ {w} : hold'[v] = hold[v]
        /\ customer["USDT"] - Held([hold EXCEPT ![w] = 0]) >= n + WithdrawalFee
    BY <2>1 DEF Reserve, FInv, OrderTypes
  <2> QED BY <2>1, <2>3, <2>4, UnsubmittedStep DEF Submitted, Exists
<1> QED BY <1>1, <1>2 DEF NewWithdrawal, Payout

(* Reviews, returns and cancellations reserve nothing.                     *)
LEMMA ExamineBInv ==
  ASSUME FInv, FInv', BInv, NEW w \in Withdrawals, NEW a \in Actors, Examine(w, a) PROVE BInv'
<1>1. ~Submitted(w) /\ Exists(w) /\ Rest /\ UNCHANGED customer
  BY DEF Examine, RiskCheck, Return, Cancel, Approve, Reject, MayReview, Withdrawable
<1>2. order[w] \in OrderRow /\ hold[w] \in Nat
  BY DEF FInv, OrderTypes
<1>3. \A v \in Withdrawals \ {w} : order'[v] = order[v] /\ hold'[v] = hold[v]
  BY DEF Examine, RiskCheck, Return, Cancel, Approve, Reject, Release, FInv, OrderTypes
<1>4. hold'[w] <= hold[w]
  BY <1>2 DEF Examine, RiskCheck, Return, Cancel, Approve, Reject, Release, FInv, OrderTypes
<1> DEFINE Waits == order'[w].execution = order[w].execution /\ order'[w].approval # "absent"
<1>5. Waits
  <2>1. CASE RiskCheck(w, a)
    BY <1>1, <1>2, <2>1 DEF RiskCheck, FInv, OrderTypes, OrderRow, Exists
  <2>2. CASE Return(w, a)
    BY <1>2, <2>2 DEF Return, FInv, OrderTypes, OrderRow
  <2>3. CASE Cancel(w, a)
    BY <1>2, <2>3 DEF Cancel, FInv, OrderTypes, OrderRow
  <2>4. ASSUME NEW node, Approve(w, a, node) PROVE Waits
    BY <1>2, <2>4 DEF Approve, FInv, OrderTypes, OrderRow
  <2>5. ASSUME NEW node, Reject(w, a, node) PROVE Waits
    BY <1>2, <2>5 DEF Reject, FInv, OrderTypes, OrderRow
  <2> QED BY <2>1, <2>2, <2>3, <2>4, <2>5 DEF Examine
<1> QED BY <1>1, <1>3, <1>4, <1>5, UnsubmittedStep DEF Submitted, Exists

(* A payout that starts keeps its hold.                                    *)
LEMMA ExecuteBInv ==
  ASSUME FInv, FInv', BInv, NEW w \in Withdrawals, NEW a \in Actors, Execute(w, a) PROVE BInv'
<1>1. /\ ~Submitted(w) /\ order[w].approval = "approved" /\ UNCHANGED <<hold, customer>> /\ Rest
      /\ order' = [order EXCEPT ![w].execution = "submitting", ![w].state = "processing"]
  BY DEF Execute
<1>2. order[w] \in OrderRow /\ hold[w] \in Nat
  BY DEF FInv, OrderTypes
<1>3. /\ order'[w].execution = "submitting" /\ order'[w].approval = "approved"
      /\ order'[w].delivered = order[w].delivered /\ order'[w].amount = order[w].amount
      /\ \A v \in Withdrawals \ {w} : order'[v] = order[v]
  BY <1>1, <1>2 DEF FInv, OrderTypes, OrderRow
<1>4. Spent(w)' = Spent(w) /\ PaidOut(w)'
  BY <1>1, <1>3 DEF Spent, PaidOut, Pays, Half, Over, Submitted, BInv
<1>5. Exists(w)'
  BY <1>3 DEF Exists
<1>6. hold'[w] <= hold[w] /\ \A v \in Withdrawals : hold'[v] = hold[v]
  BY <1>1, <1>2
<1> QED BY <1>1, <1>3, <1>4, <1>5, <1>6, FreeStep

(* What the channel reports of an order is what it pays in the end, or a   *)
(* part of it.                                                             *)
LEMMA ReportPays ==
  ASSUME FInv, BInv, NEW w \in Withdrawals,
         NEW e, e \in Reports(w) \/ (e = Answer(w) /\ Outcome[w] # "broken")
  PROVE  /\ e.status = "confirmed" =>
              e.cumulative <= Pays(w) /\ (e.cumulative = order[w].amount => e.cumulative = Pays(w))
         /\ e.status = "failed" /\ e.cumulative = order[w].delivered => order[w].delivered = Pays(w)
<1> DEFINE n == order[w].amount
           d == order[w].delivered
<1>1. n \in Nat /\ d \in Nat /\ d <= Pays(w)
  BY DEF FInv, OrderTypes, OrderRow, BInv, PaidOut
<1>2. /\ Half(w) \in Nat /\ Half(w) <= n /\ (Half(w) = n => n = 0)
  BY <1>1 DEF Half
<1>3. Outcome[w] \in {"success", "timeout", "partial", "failure", "broken"}
  BY FinanceAssumption
<1>4. /\ Outcome[w] = "failure" => Pays(w) = 0
      /\ Outcome[w] = "broken" => Pays(w) = Half(w)
      /\ Outcome[w] \in {"success", "timeout", "partial"} => Pays(w) = n
  BY DEF Pays
<1>5. \A s, m, c : /\ Report(s, m, c).status = s /\ Report(s, m, c).cumulative = m
  BY DEF Report
<1> HIDE DEF n, d
<1>6. CASE e \in Reports(w)
  <2>1. \/ e.status \in {"processing", "unknown"}
        \/ e.status = "confirmed" /\ e.cumulative \in Paid(w) \ {0}
        \/ e.status = "failed" /\ e.cumulative = Pays(w)
    BY <1>5, <1>6 DEF Reports
  <2>2. e.cumulative \in Paid(w) \ {0} =>
          e.cumulative = Pays(w) \/ (e.cumulative = Half(w) /\ Outcome[w] = "partial")
    BY DEF Paid
  <2>3. Pays(w) \in Nat
    BY <1>1, <1>2 DEF Pays, n
  <2>4. CASE e.status = "confirmed" /\ e.cumulative = Half(w) /\ Outcome[w] = "partial"
    BY <1>2, <1>4, <2>4 DEF n
  <2>5. CASE e.status = "confirmed" /\ e.cumulative = Pays(w)
    BY <2>3, <2>5
  <2>6. CASE e.status = "failed" /\ e.cumulative = Pays(w)
    BY <2>6
  <2> QED BY <2>1, <2>2, <2>4, <2>5, <2>6
<1>7. CASE e = Answer(w) /\ Outcome[w] # "broken"
  <2>1. CASE Outcome[w] = "failure"
    <3>1. e.status = "failed"
      BY <1>5, <1>7, <2>1 DEF Answer
    <3> QED BY <1>1, <1>4, <2>1, <3>1 DEF d
  <2>2. CASE Outcome[w] # "failure"
    <3>1. \/ e.status = "unknown"
          \/ e.status = "confirmed" /\ e.cumulative = Half(w) /\ Outcome[w] = "partial"
          \/ e.status = "confirmed" /\ e.cumulative = n
      BY <1>5, <1>7, <2>2 DEF Answer, n
    <3>2. Pays(w) = n
      BY <1>3, <1>4, <1>7, <2>2
    <3> QED BY <1>1, <1>2, <3>1, <3>2 DEF n
  <2> QED BY <2>1, <2>2
<1> QED BY <1>6, <1>7

(* A report that is taken: the customer loses what it adds to the order's  *)
(* deliveries, with the fee when they are complete, and the hold goes down *)
(* by as much.                                                             *)
LEMMA ApplyEventBInv ==
  ASSUME FInv, FInv', BInv, NEW w \in Withdrawals, Submitted(w), Rest,
         NEW e, e \in Reports(w) \/ (e = Answer(w) /\ Outcome[w] # "broken"), ApplyEvent(w, e)
  PROVE  BInv'
<1>1. /\ order[w] \in OrderRow /\ hold[w] \in Nat /\ WithdrawalFee \in Nat
      /\ order[w].amount \in Nat /\ order[w].delivered \in Nat /\ e.cumulative \in Nat
  BY FinanceAssumption, ReportTypes DEF FInv, OrderTypes, OrderRow
<1>2. /\ hold[w] = IF order[w].execution \in Over THEN 0
                   ELSE order[w].amount + WithdrawalFee - order[w].delivered
      /\ order[w].approval = "approved"
  BY DEF FInv, Sound, StillHeld
<1>3. CASE Stale(w, e)
  <2>1. UNCHANGED <<order, hold, customer>>
    BY <1>3 DEF ApplyEvent
  <2>2. Exists(w)' /\ Spent(w)' = Spent(w) /\ PaidOut(w)' /\ hold'[w] <= hold[w]
    BY <1>1, <1>2, <2>1 DEF Exists, Spent, PaidOut, Pays, Half, BInv
  <2> QED BY <2>1, <2>2, FreeStep
<1>4. CASE ~Stale(w, e)
  <2>1. order[w].execution \notin Over /\ e.cumulative >= order[w].delivered
    BY <1>1, <1>4 DEF Stale
  <2>2. ASSUME NEW execution, NEW state, Move(w, execution, state), customer' = customer,
               \/ execution \notin Over
               \/ execution = "failed" /\ order[w].delivered = Pays(w),
               \A v \in Withdrawals \ {w} : hold'[v] = hold[v], hold'[w] <= hold[w]
        PROVE  BInv'
    <3>1. /\ order'[w].execution = execution /\ order'[w].approval = "approved"
          /\ order'[w].delivered = order[w].delivered /\ order'[w].amount = order[w].amount
          /\ \A v \in Withdrawals \ {w} : order'[v] = order[v]
      BY <1>1, <1>2, <2>2 DEF Move, FInv, OrderTypes, OrderRow
    <3>2. Exists(w)' /\ Spent(w)' = Spent(w)
      BY <2>1, <2>2, <3>1 DEF Exists, Spent, Over
    <3>3. PaidOut(w)'
      BY <2>2, <3>1 DEF PaidOut, Pays, Half, BInv
    <3> QED BY <2>2, <3>1, <3>2, <3>3, FreeStep
  <2>3. CASE Confirming(w, e)
    BY <1>1, <2>2, <2>3 DEF Confirming, Over
  <2>4. CASE Progress(w, e)
    BY <1>1, <2>2, <2>4 DEF Progress, Over
  <2>5. CASE Fail(w, e)
    <3>1. order[w].delivered = Pays(w)
      BY <2>5, ReportPays DEF Fail
    <3>2. hold'[w] = 0 /\ \A v \in Withdrawals \ {w} : hold'[v] = hold[v]
      BY <2>5 DEF Fail, Release, FInv, OrderTypes
    <3> QED BY <1>1, <2>2, <2>5, <3>1, <3>2 DEF Fail
  <2>6. CASE Deliver(w, e)
    <3> DEFINE all == e.cumulative = order[w].amount
               delta == e.cumulative - order[w].delivered
               cost == delta + (IF all THEN WithdrawalFee ELSE 0)
    <3>1. /\ order'[w].delivered = e.cumulative
          /\ order'[w].execution = IF all THEN "completed" ELSE "channel_processing"
          /\ order'[w].approval = "approved" /\ order'[w].amount = order[w].amount
          /\ \A v \in Withdrawals \ {w} : order'[v] = order[v]
      BY <1>1, <1>2, <2>6 DEF Deliver, Delivered, FInv, OrderTypes, OrderRow
    <3>2. /\ customer' = [customer EXCEPT !["USDT"] = @ - delta - (IF all THEN WithdrawalFee ELSE 0)]
          /\ customer \in [Assets -> Int] /\ delta \in Nat /\ delta <= hold[w]
      BY <1>1, <2>1, <2>6 DEF Deliver, BInv
    <3>3. cost \in Nat
      BY <1>1, <3>2
    <3>4. /\ customer' \in [Assets -> Int] /\ customer'["USD"] = customer["USD"]
          /\ customer'["USDT"] = customer["USDT"] - cost
      BY <1>1, <3>2 DEF Assets
    <3>5. /\ hold' = [hold EXCEPT ![w] = IF all THEN 0 ELSE hold[w] - delta]
      BY <2>6 DEF Deliver, Release
    <3>6. /\ hold'[w] = hold[w] - cost
          /\ \A v \in Withdrawals \ {w} : hold'[v] = hold[v]
      BY <1>1, <1>2, <2>1, <3>2, <3>5 DEF FInv, OrderTypes
    <3>7. Spent(w)' = Spent(w) + cost
      BY <1>1, <2>1, <3>1 DEF Spent, Over
    <3>8. PaidOut(w)'
      <4>1. /\ e.cumulative <= Pays(w) /\ (all => e.cumulative = Pays(w)) /\ Pays(w)' = Pays(w)
        BY <2>6, <3>1, ReportPays DEF Deliver, Pays, Half
      <4> QED BY <3>1, <4>1 DEF PaidOut, Over
    <3>9. Exists(w)'
      BY <3>1 DEF Exists
    <3> HIDE DEF cost, delta, all
    <3>10. /\ Spent(w) \in Int /\ customer["USDT"] \in Int /\ Held(hold) \in Int
           /\ customer["USDT"] >= Held(hold)
      BY OrderTerms, OrderSumTypes DEF BInv, EverythingCovered, Assets
    <3>11. /\ customer'["USDT"] = customer["USDT"] + Spent(w) - Spent(w)'
           /\ customer'["USDT"] >= Held(hold) - hold[w] + hold'[w]
      BY <1>1, <3>3, <3>4, <3>6, <3>7, <3>10
    <3> QED BY <3>1, <3>4, <3>6, <3>8, <3>9, <3>11, OrderStep
  <2> QED BY <1>4, <2>3, <2>4, <2>5, <2>6 DEF ApplyEvent
<1> QED BY <1>3, <1>4

(* Quotes, drafts and prices move no money.                                *)
LEMMA QuietExchange ==
  ASSUME BInv, UNCHANGED <<order, hold, customer, stock>>, price' \in Nat \ {0},
         quote' \in [Trades -> QuoteRow], trade' \in [Trades -> TradeRow],
         \A t \in Trades : FromOffer(t)',
         \A t \in Trades : trade'[t].state = "completed" <=> trade[t].state = "completed",
         \A t \in Trades : trade[t].state # "absent" => quote'[t] = quote[t]
  PROVE  BInv'
<1>1. Placed' = Placed /\ Held(hold)' = Held(hold) /\ TotalSpent' = TotalSpent
  BY DEF Placed, Exists, Held, TotalSpent, Spent
<1>2. CompletedTrades' = CompletedTrades
  BY DEF CompletedTrades
<1>3. [t \in CompletedTrades |-> Sold(t)]' = [t \in CompletedTrades |-> Sold(t)]
  <2>1. \A t \in CompletedTrades : quote'[t] = quote[t]
    BY DEF CompletedTrades
  <2> QED BY <1>2, <2>1 DEF Sold
<1>4. TotalSold' = TotalSold
  BY <1>3 DEF TotalSold
<1> QED BY <1>1, <1>2, <1>4 DEF BInv, EverythingCovered, PaidOut, Pays, Half

(* One asset goes down and the other up.                                   *)
LEMMA TwoSides ==
  ASSUME NEW m \in [Assets -> Int], NEW down \in Int, NEW up \in Int
  PROVE  /\ LET new == [m EXCEPT !["USD"] = down, !["USDT"] = up] IN
            new \in [Assets -> Int] /\ new["USD"] = down /\ new["USDT"] = up
         /\ LET new == [m EXCEPT !["USDT"] = down, !["USD"] = up] IN
            new \in [Assets -> Int] /\ new["USDT"] = down /\ new["USD"] = up
  BY DEF Assets

(* A trade that is struck takes what it sells from what nobody holds.      *)
LEMMA ConfirmBInv ==
  ASSUME FInv, BInv, NEW t \in Trades, NEW a \in Actors, ConfirmOtc(t, a) PROVE BInv'
<1> DEFINE q == quote[t].offer
           bought == Other(q.sells)
<1>1. /\ trade[t].state = "draft" /\ UNCHANGED <<quote, price, order, hold>>
      /\ Available(q.sells) >= q.sell /\ stock[bought] >= q.buy
      /\ trade' = [trade EXCEPT ![t].state = "completed"] /\ Exchanged(q, bought)
  BY DEF ConfirmOtc, Settle, OrdersUnchanged
<1>2. q \in Offers /\ quote[t] # NoQuote
  BY <1>1 DEF BInv, FromOffer
<1>3. /\ q.sells \in {"USD", "USDT"} /\ q.sell \in Nat /\ q.fee \in Nat /\ q.buy \in Nat
      /\ q.fee <= q.sell
  BY <1>2, FinanceAssumption DEF Assets
<1>4. bought = IF q.sells = "USD" THEN "USDT" ELSE "USD"
  BY DEF Other
<1>5. trade' \in [Trades -> TradeRow] /\ trade'[t].state = "completed"
      /\ \A u \in Trades \ {t} : trade'[u] = trade[u]
  BY <1>1 DEF BInv, TradeRow, TradeStates
<1>6. Placed' = Placed /\ Held(hold)' = Held(hold) /\ TotalSpent' = TotalSpent
  BY <1>1 DEF Placed, Exists, Held, TotalSpent, Spent
<1>7. CompletedTrades' = CompletedTrades \cup {t} /\ t \notin CompletedTrades
  BY <1>1, <1>5 DEF CompletedTrades
<1>8. TotalSold' = TotalSold + Sold(t) /\ TotalSold \in Int /\ IsFiniteSet(CompletedTrades')
  <2> PICK f, g : /\ f = [u \in CompletedTrades |-> Sold(u)]
                  /\ g = [u \in CompletedTrades \cup {t} |-> Sold(u)]
    OBVIOUS
  <2>1. \A u \in CompletedTrades : f[u] \in Int /\ g[u] = f[u]
    BY TradeSumTypes
  <2>2. g[t] = Sold(t) /\ g[t] \in Int
    BY <1>3 DEF Sold
  <2>3. IsFiniteSet(CompletedTrades)
    BY DEF BInv
  <2>4. SumFunctionOnSet(g, CompletedTrades \cup {t}) = SumFunctionOnSet(f, CompletedTrades) + g[t]
    BY <1>7, <2>1, <2>2, <2>3, SumGains
  <2>5. TotalSold = SumFunctionOnSet(f, CompletedTrades)
    BY DEF TotalSold, SumFunction
  <2>6. TotalSold' = SumFunctionOnSet(g, CompletedTrades \cup {t})
    BY <1>1, <1>7 DEF TotalSold, SumFunction, Sold
  <2> QED BY <1>7, <2>2, <2>3, <2>4, <2>5, <2>6, TradeSumTypes, FS_AddElement
<1>9. /\ customer' = [customer EXCEPT ![q.sells] = @ - q.sell, ![bought] = @ + q.buy]
      /\ stock' = [stock EXCEPT ![q.sells] = @ + q.sell - q.fee, ![bought] = @ - q.buy]
  BY <1>1 DEF Exchanged
<1>10. /\ customer \in [Assets -> Int] /\ stock \in [Assets -> Int]
       /\ customer["USDT"] >= Held(hold) /\ customer["USD"] >= 0
       /\ stock["USD"] >= 0 /\ stock["USDT"] >= 0 /\ Held(hold) \in Nat
       /\ customer["USDT"] = Opening["USDT"] - TotalSpent - TotalSold
       /\ TotalSpent \in Int /\ Opening["USDT"] \in Int
  BY OrderSumTypes, FinanceAssumption DEF BInv, EverythingCovered, Assets
<1>11. Sold(t) = IF q.sells = "USDT" THEN q.sell ELSE -q.buy
  BY DEF Sold
<1>12. q.sells = "USDT" => customer["USDT"] - Held(hold) >= q.sell
  BY <1>1 DEF Available
<1>13. q.sells = "USD" => customer["USD"] - 0 >= q.sell
  BY <1>1 DEF Available
<1>14. /\ customer' \in [Assets -> Int] /\ stock' \in [Assets -> Int]
       /\ customer'["USDT"] >= Held(hold) /\ customer'["USD"] >= 0
       /\ stock'["USD"] >= 0 /\ stock'["USDT"] >= 0
       /\ customer'["USDT"] = customer["USDT"] - Sold(t)
  <2>1. stock[bought] >= q.buy
    BY <1>1
  <2> HIDE DEF q, bought
  <2>2. CASE q.sells = "USDT"
    <3>1. /\ customer' = [customer EXCEPT !["USDT"] = @ - q.sell, !["USD"] = @ + q.buy]
          /\ stock' = [stock EXCEPT !["USDT"] = @ + q.sell - q.fee, !["USD"] = @ - q.buy]
          /\ stock["USD"] >= q.buy
      BY <1>4, <1>9, <2>1, <2>2
    <3> QED BY <1>3, <1>10, <1>11, <1>12, <2>2, <3>1, TwoSides DEF Assets
  <2>3. CASE q.sells = "USD"
    <3>1. /\ customer' = [customer EXCEPT !["USD"] = @ - q.sell, !["USDT"] = @ + q.buy]
          /\ stock' = [stock EXCEPT !["USD"] = @ + q.sell - q.fee, !["USDT"] = @ - q.buy]
          /\ stock["USDT"] >= q.buy
      BY <1>4, <1>9, <2>1, <2>3
    <3> QED BY <1>3, <1>10, <1>11, <1>13, <2>3, <3>1, TwoSides DEF Assets
  <2> QED BY <1>3, <2>2, <2>3
<1>15. EverythingCovered'
  BY <1>6, <1>14 DEF EverythingCovered, Assets
<1>16. customer'["USDT"] = Opening["USDT"] - TotalSpent' - TotalSold'
  <2>1. Sold(t) \in Int
    BY <1>3 DEF Sold
  <2> QED BY <1>6, <1>8, <1>10, <1>14, <2>1
<1>17. \A u \in Trades : FromOffer(u)'
  BY <1>1, <1>2, <1>5 DEF FromOffer, BInv
<1>18. \A w \in Withdrawals : PaidOut(w)'
  BY <1>1 DEF BInv, PaidOut, Pays, Half
<1> QED BY <1>1, <1>5, <1>6, <1>8, <1>14, <1>15, <1>16, <1>17, <1>18 DEF BInv

(* Only a trade that is struck moves money.                                *)
LEMMA ExchangeBInv ==
  ASSUME FInv, BInv, NEW t \in Trades, NEW a \in Actors, Exchange(t, a) PROVE BInv'
<1> USE DEF TradesUnchanged, OrdersUnchanged
<1>1. /\ trade \in [Trades -> TradeRow] /\ quote \in [Trades -> QuoteRow] /\ price \in Nat \ {0}
      /\ \A u \in Trades : FromOffer(u)
  BY DEF BInv
<1>2. CASE Quote(t, a)
  <2>1. PICK q \in Offers :
          quote' = [quote EXCEPT ![t] = [version |-> price, actor |-> a, offer |-> q]]
    BY <1>2 DEF Quote
  <2>2. quote[t] = NoQuote /\ UNCHANGED <<trade, price, order, hold, customer, stock>>
    BY <1>2 DEF Quote
  <2>3. [version |-> price, actor |-> a, offer |-> q] \in QuoteRow
    BY <1>1 DEF QuoteRow
  <2>4. /\ quote' \in [Trades -> QuoteRow] /\ quote'[t].offer = q /\ quote'[t].version = price
        /\ \A u \in Trades \ {t} : quote'[u] = quote[u]
    BY <1>1, <2>1, <2>3
  <2>5. quote'[t] # NoQuote /\ trade[t].state = "absent"
    BY <1>1, <2>2, <2>4 DEF NoQuote, FromOffer
  <2>6. \A u \in Trades : FromOffer(u)'
    BY <1>1, <2>2, <2>4, <2>5 DEF FromOffer
  <2>7. \A u \in Trades : trade[u].state # "absent" => quote'[u] = quote[u]
    BY <2>4, <2>5
  <2> QED BY <1>1, <2>2, <2>4, <2>6, <2>7, QuietExchange
<1>3. ASSUME NEW row \in TradeRow, trade' = [trade EXCEPT ![t] = row],
             row.state \notin {"absent", "completed"}, trade[t].state # "completed",
             trade[t].state = "absent" => quote[t].version = price,
             UNCHANGED <<quote, price, order, hold, customer, stock>>
      PROVE  BInv'
  <2>1. trade' \in [Trades -> TradeRow] /\ trade'[t] = row
        /\ \A u \in Trades \ {t} : trade'[u] = trade[u]
    BY <1>1, <1>3
  <2>2. quote[t] # NoQuote
    BY <1>1, <1>3 DEF FromOffer, NoQuote
  <2>3. \A u \in Trades : FromOffer(u)'
    BY <1>1, <1>3, <2>1, <2>2 DEF FromOffer
  <2>4. \A u \in Trades : trade'[u].state = "completed" <=> trade[u].state = "completed"
    BY <1>3, <2>1
  <2> QED BY <1>1, <1>3, <2>1, <2>3, <2>4, QuietExchange
<1>4. CASE Draft(t, a)
  <2> DEFINE row == [state |-> "draft", requester |-> a]
  <2>1. row \in TradeRow /\ row.state = "draft"
    BY DEF TradeRow, TradeStates
  <2>2. /\ trade[t] = NoTrade /\ quote[t].version = price /\ trade' = [trade EXCEPT ![t] = row]
        /\ UNCHANGED <<quote, price, order, hold, customer, stock>>
    BY <1>4 DEF Draft
  <2>3. trade[t].state = "absent"
    BY <2>2 DEF NoTrade
  <2> HIDE DEF row
  <2> QED BY <1>3, <2>1, <2>2, <2>3
<1>5. ASSUME NEW state \in {"cancelled", "returned", "rejected"}, Settle(t, state),
             trade[t].state \in {"draft", "returned"},
             UNCHANGED <<quote, price, order, hold, customer, stock>>
      PROVE  BInv'
  <2> DEFINE row == [trade[t] EXCEPT !.state = state]
  <2>1. row \in TradeRow /\ row.state = state
    BY <1>1 DEF TradeRow, TradeStates
  <2>2. trade' = [trade EXCEPT ![t] = row]
    BY <1>5 DEF Settle
  <2> HIDE DEF row
  <2> QED BY <1>3, <1>5, <2>1, <2>2
<1>6. CASE DropDraft(t, a)
  BY <1>5, <1>6 DEF DropDraft
<1>7. CASE ReturnDraft(t, a)
  BY <1>5, <1>7 DEF ReturnDraft
<1>8. CASE RejectDraft(t, a)
  BY <1>5, <1>8 DEF RejectDraft
<1> QED BY <1>2, <1>4, <1>6, <1>7, <1>8, ConfirmBInv DEF Exchange

(* Nor does a price.                                                       *)
LEMMA SetPriceBInv == ASSUME BInv, NEW a \in Actors, SetPrice(a) PROVE BInv'
<1>1. price' = price + 1 /\ price' \in Nat \ {0}
  BY DEF SetPrice, BInv
<1>2. UNCHANGED <<trade, quote, customer, stock, order, hold>>
  BY DEF SetPrice, OrdersUnchanged
<1>3. \A t \in Trades : FromOffer(t)'
  BY <1>2 DEF BInv, FromOffer
<1> QED BY <1>1, <1>2, <1>3, QuietExchange DEF BInv

(* Every step keeps the money.                                             *)
LEMMA BInvNext == ASSUME FInv, BInv, [FinanceNext]_financeVars PROVE BInv'
<1>1. FInv'
  BY FInvNext
<1>2. ASSUME NEW w \in Withdrawals, ReceiveEvent(w) PROVE BInv'
  <2>1. Submitted(w) /\ Rest /\ \E e \in Reports(w) : ApplyEvent(w, e)
    BY <1>2 DEF ReceiveEvent, FInv, Sound
  <2> QED BY <1>1, <2>1, ApplyEventBInv
<1>3. ASSUME NEW w \in Withdrawals, NEW a \in Actors, Reconcile(w, a) PROVE BInv'
  <2>1. Submitted(w) /\ Rest /\ ApplyEvent(w, Answer(w)) /\ Outcome[w] # "broken"
    BY <1>3 DEF Reconcile, FInv, Sound
  <2> QED BY <1>1, <2>1, ApplyEventBInv
<1>4. CASE UNCHANGED financeVars
  BY <1>4, QuietExchange DEF financeVars, BInv, FromOffer
<1> QED
  BY <1>1, <1>2, <1>3, <1>4, PlaceBInv, ExamineBInv, ExecuteBInv, ExchangeBInv, SetPriceBInv
     DEF FinanceNext

(* At the start there is no order and no trade.                            *)
LEMMA BInvInit == FinanceInit => BInv
<1> SUFFICES ASSUME FinanceInit PROVE BInv
  OBVIOUS
<1>1. /\ \A w \in Withdrawals : order[w] = NoOrder
      /\ \A t \in Trades : trade[t] = NoTrade /\ quote[t] = NoQuote
      /\ price = 1 /\ customer = Opening /\ stock = Inventory
  BY DEF FinanceInit
<1>2. Placed = {} /\ CompletedTrades = {}
  BY <1>1 DEF Placed, Exists, CompletedTrades, NoOrder, NoTrade
<1>3. TotalSpent = 0 /\ TotalSold = 0 /\ Held(hold) = 0
  BY <1>2, SumEmpty DEF TotalSpent, TotalSold, Held, SumFunction
<1>4. customer \in [Assets -> Nat] /\ stock \in [Assets -> Nat]
  BY <1>1, FinanceAssumption
<1>5. EverythingCovered /\ customer["USDT"] = Opening["USDT"] - TotalSpent - TotalSold
  <2>1. customer["USDT"] \in Nat /\ customer["USD"] \in Nat /\ \A asset \in Assets : stock[asset] \in Nat
    BY <1>4 DEF Assets
  <2> QED BY <1>1, <1>3, <2>1 DEF EverythingCovered
<1>6. \A w \in Withdrawals : PaidOut(w)
  BY <1>1 DEF PaidOut, Pays, Half, NoOrder, Over
<1>7. \A t \in Trades : FromOffer(t)
  BY <1>1 DEF FromOffer, NoTrade
<1>8. NoQuote \in QuoteRow /\ NoTrade \in TradeRow
  BY DEF NoQuote, QuoteRow, NoTrade, TradeRow, TradeStates
<1>9. quote \in [Trades -> QuoteRow] /\ trade \in [Trades -> TradeRow]
  BY <1>8 DEF FinanceInit
<1> QED BY <1>1, <1>2, <1>4, <1>5, <1>6, <1>7, <1>9, FS_EmptySet DEF BInv

(* What orders hold is there when the channel delivers, and whatever order *)
(* the reports come in, the customer loses what the channel paid and the   *)
(* fee of complete payouts, nothing twice (reserve, applyEvent and         *)
(* confirmOtc).                                                            *)
THEOREM AlwaysDeliveredFromHolds == FinanceSpec => []DeliveredFromHolds
<1>1. BInv => DeliveredFromHolds
  BY DEF BInv, DeliveredFromHolds, DeliveredAsPaid, PaidOut, TotalSpent, TotalSold
<1> QED BY <1>1, FInvInit, FInvNext, BInvInit, BInvNext, PTL DEF FinanceSpec

(* The rows and balances of the workbench stay of their types.             *)
THEOREM FinanceTyped == FinanceSpec => []FinanceTypes
<1>1. FInv /\ BInv => FinanceTypes
  BY DEF FInv, OrderTypes, OrderRow, Review, BInv, QuoteRow, TradeRow, FinanceTypes
<1> QED BY <1>1, FInvInit, FInvNext, BInvInit, BInvNext, PTL DEF FinanceSpec

-----------------------------------------------------------------------------

OpRow ==
  [kind : CardKinds \cup {"none"},
   requester : Actors \cup {Customer, NoOne}, reviewer : Actors \cup {NoOne},
   asked : BOOLEAN, amount : CardAmounts \cup {0}, revision : Nat,
   approval : {"none", "pending", "approved", "rejected", "returned", "not_required"},
   execution : {"none", "pending", "processing", "succeeded", "failed", "not_executed"}]
JobStates == {"none", "queued", "unknown", "blocked", "done"}
Transfers == {"transfer_in", "transfer_out"}
CardRow == [risk : BOOLEAN, self : BOOLEAN, status : {"active", "paused"}, revision : Nat]

OpTypes == card \in CardRow /\ op \in [CardOps -> OpRow] /\ job \in [CardOps -> JobStates]

(* What is known of an operation, the card's revision considered.          *)
OpKept(o) ==
  /\ op[o].approval \in {"pending", "returned"} =>
       op[o].execution # "processing" /\ op[o].kind \in {"unfreeze"} \cup MoneyKinds
  /\ job[o] = "queued" => op[o].execution = "processing"
  /\ op[o].revision <= card.revision
  /\ op[o].kind = "freeze" =>
       op[o].revision < card.revision /\ (op[o].execution = "processing" => card.risk)
  /\ op[o].kind \in Transfers /\ op[o].execution = "processing"
       /\ op[o].revision = card.revision => ~card.risk /\ ~card.self

CInv ==
  OpTypes /\ (\A o \in CardOps : OpKept(o)) /\ UnfreezeIsCurrent /\ PausedAsRestricted

(* The rows of an operation and its job are all that changes of them.      *)
Puts(o, row, state) == op' = [op EXCEPT ![o] = row] /\ job' = [job EXCEPT ![o] = state]

-----------------------------------------------------------------------------
LEMMA PutsTyped ==
  ASSUME OpTypes, NEW o \in CardOps, NEW row \in OpRow, NEW state \in JobStates,
         Puts(o, row, state), card' \in CardRow
  PROVE  /\ OpTypes' /\ op'[o] = row /\ job'[o] = state
         /\ \A p \in CardOps \ {o} : op'[p] = op[p] /\ job'[p] = job[p]
  BY DEF OpTypes, Puts

(* An operation that is not at work changes beside the card.               *)
LEMMA QuietPut ==
  ASSUME CInv, NEW o \in CardOps, NEW row \in OpRow, NEW state \in JobStates,
         Puts(o, row, state), card' = card,
         row.execution # "processing", state # "queued", row.revision <= card.revision,
         row.approval \in {"pending", "returned"} => row.kind \in {"unfreeze"} \cup MoneyKinds,
         row.kind = "freeze" => /\ op[o].kind = "freeze" /\ row.revision = op[o].revision
                                /\ row.execution = "succeeded" => op[o].execution = "succeeded",
         op[o].kind = "freeze" => row.kind = "freeze"
  PROVE  CInv'
<1>1. /\ OpTypes' /\ op'[o] = row /\ job'[o] = state
      /\ \A p \in CardOps \ {o} : op'[p] = op[p] /\ job'[p] = job[p]
  BY PutsTyped DEF CInv, OpTypes
<1>2. ASSUME NEW p \in CardOps PROVE OpKept(p)'
  BY <1>1 DEF CInv, OpKept
<1>3. UnfreezeIsCurrent'
  BY <1>1 DEF CInv, UnfreezeIsCurrent, InFlight
<1>4. PausedAsRestricted'
  <2>1. ASSUME NEW p \in CardOps, LatestFreeze(p)', op'[p].execution = "succeeded"
        PROVE  LatestFreeze(p) /\ op[p].execution = "succeeded"
    <3>1. \A q \in CardOps : op[q].kind = "freeze" =>
            op'[q].kind = "freeze" /\ op'[q].revision = op[q].revision
      BY <1>1
    <3>2. op[p].kind = "freeze" /\ op[p].revision = op'[p].revision /\ op[p].execution = "succeeded"
      BY <1>1, <2>1 DEF LatestFreeze
    <3> QED BY <2>1, <3>1, <3>2 DEF LatestFreeze
  <2> QED BY <2>1 DEF CInv, PausedAsRestricted
<1> QED BY <1>1, <1>2, <1>3, <1>4 DEF CInv

(* An operation that is no freeze begins.                                  *)
LEMMA BeginPut ==
  ASSUME CInv, NEW o \in CardOps, NEW row \in OpRow, Puts(o, row, "queued"), card' = card,
         row.execution = "processing", row.kind # "freeze", op[o].kind # "freeze",
         row.approval \notin {"pending", "returned"}, row.revision = card.revision,
         row.kind \in Transfers => ~card.risk /\ ~card.self,
         row.kind = "unfreeze" => /\ card.risk /\ row.reviewer \notin {row.requester, NoOne}
                                  /\ \A p \in CardOps \ {o} : ~InFlight(p),
         row.kind \notin MoneyKinds => \A p \in CardOps \ {o} : ~InFlight(p)
  PROVE  CInv'
<1>0. "queued" \in JobStates
  BY DEF JobStates
<1>1. /\ OpTypes' /\ op'[o] = row /\ job'[o] = "queued"
      /\ \A p \in CardOps \ {o} : op'[p] = op[p] /\ job'[p] = job[p]
  BY <1>0, PutsTyped DEF CInv, OpTypes
<1>2. ASSUME NEW p \in CardOps PROVE OpKept(p)'
  <2>1. CASE p = o
    <3>1. row.revision \in Nat
      BY DEF OpRow
    <3> QED BY <1>1, <2>1, <3>1 DEF OpKept
  <2>2. CASE p # o
    BY <1>1, <2>2 DEF CInv, OpKept
  <2> QED BY <2>1, <2>2
<1>3. UnfreezeIsCurrent'
  BY <1>1 DEF CInv, UnfreezeIsCurrent, InFlight
<1>4. PausedAsRestricted'
  <2>1. ASSUME NEW p \in CardOps, LatestFreeze(p)', op'[p].execution = "succeeded"
        PROVE  LatestFreeze(p) /\ op[p].execution = "succeeded"
    <3>1. p # o /\ \A q \in CardOps : op[q].kind = "freeze" => op'[q] = op[q]
      BY <1>1, <2>1
    <3> QED BY <1>1, <2>1, <3>1 DEF LatestFreeze
  <2> QED BY <2>1 DEF CInv, PausedAsRestricted
<1> QED BY <1>1, <1>2, <1>3, <1>4 DEF CInv

(* A freeze restricts the card and is the latest from then on.             *)
LEMMA FreezePut ==
  ASSUME CInv, NEW o \in CardOps, NEW row \in OpRow, Puts(o, row, "queued"),
         ~card.risk, card' = [card EXCEPT !.risk = TRUE, !.revision = card.revision + 1],
         row.execution = "processing", row.kind = "freeze",
         row.approval \notin {"pending", "returned"}, row.revision = card.revision
  PROVE  CInv'
<1>0. "queued" \in JobStates /\ card.revision \in Nat
  BY DEF JobStates, CInv, OpTypes, CardRow
<1>1. /\ card' \in CardRow /\ card'.risk /\ card'.self = card.self /\ card'.status = card.status
      /\ card'.revision = card.revision + 1
  <2>1. card \in CardRow /\ card.revision + 1 \in Nat
    BY <1>0 DEF CInv, OpTypes
  <2> QED BY <2>1 DEF CardRow
<1>2. /\ OpTypes' /\ op'[o] = row /\ job'[o] = "queued"
      /\ \A p \in CardOps \ {o} : op'[p] = op[p] /\ job'[p] = job[p]
  BY <1>0, <1>1, PutsTyped DEF CInv
<1>3. \A p \in CardOps : op[p].revision \in Nat /\ op[p].revision <= card.revision
  BY DEF CInv, OpTypes, OpRow, OpKept
<1>4. ASSUME NEW p \in CardOps PROVE OpKept(p)'
  <2>1. CASE p = o
    BY <1>0, <1>1, <1>2, <2>1 DEF OpKept, Transfers
  <2>2. CASE p # o
    BY <1>0, <1>1, <1>2, <1>3, <2>2 DEF CInv, OpKept
  <2> QED BY <2>1, <2>2
<1>5. UnfreezeIsCurrent'
  BY <1>2 DEF CInv, UnfreezeIsCurrent, InFlight
<1>6. PausedAsRestricted'
  <2>1. ASSUME NEW p \in CardOps, LatestFreeze(p)', op'[p].execution = "succeeded" PROVE FALSE
    <3>1. p # o /\ op[p].kind = "freeze"
      BY <1>2, <2>1 DEF LatestFreeze
    <3>2. op[p].revision < card.revision
      BY <3>1 DEF CInv, OpKept
    <3>3. op'[o].revision <= op'[p].revision
      BY <1>2, <2>1 DEF LatestFreeze
    <3> QED BY <1>0, <1>2, <1>3, <3>1, <3>2, <3>3
  <2> QED BY <1>1, <2>1 DEF CInv, PausedAsRestricted
<1> QED BY <1>2, <1>4, <1>5, <1>6 DEF CInv

-----------------------------------------------------------------------------
(* Results.                                                                *)

(* A result that leaves the card alone, or that says of a freeze what the  *)
(* card is.                                                                *)
LEMMA FinishedRow ==
  ASSUME CInv, NEW o \in CardOps,
         NEW execution \in {"succeeded", "failed"}, Finish(o, execution)
  PROVE  LET row == [op[o] EXCEPT !.execution = execution] IN
         /\ Puts(o, row, "done") /\ row \in OpRow
         /\ row.execution = execution /\ row.kind = op[o].kind /\ row.revision = op[o].revision
         /\ row.approval = op[o].approval /\ row.requester = op[o].requester
         /\ row.reviewer = op[o].reviewer
<1> DEFINE row == [op[o] EXCEPT !.execution = execution]
<1>1. /\ op[o] \in OpRow
      /\ execution \in {"none", "pending", "processing", "succeeded", "failed", "not_executed"}
  BY DEF CInv, OpTypes
<1>2. /\ row \in OpRow
      /\ row.execution = execution /\ row.kind = op[o].kind /\ row.revision = op[o].revision
      /\ row.approval = op[o].approval /\ row.requester = op[o].requester
      /\ row.reviewer = op[o].reviewer
  BY <1>1 DEF OpRow
<1>3. Puts(o, row, "done")
  BY DEF Finish, Puts
<1> QED BY <1>2, <1>3

LEMMA QuietFinish ==
  ASSUME CInv, NEW o \in CardOps, InFlight(o), card' = card,
         NEW execution \in {"succeeded", "failed"}, Finish(o, execution),
         op[o].kind = "freeze" => execution = "failed"
  PROVE  CInv'
<1> DEFINE row == [op[o] EXCEPT !.execution = execution]
<1>1. /\ Puts(o, row, "done") /\ row \in OpRow /\ row.execution = execution
      /\ row.kind = op[o].kind /\ row.revision = op[o].revision /\ row.approval = op[o].approval
  BY FinishedRow
<1>2. op[o].revision <= card.revision /\ op[o].approval \notin {"pending", "returned"}
  BY DEF CInv, OpKept, InFlight
<1>3. "done" \in JobStates
  BY DEF JobStates
<1> HIDE DEF row
<1> QED BY <1>1, <1>2, <1>3, QuietPut

(* A result that changes the card.                                         *)
LEMMA CardFinish ==
  ASSUME CInv, NEW o \in CardOps, InFlight(o), Succeeded(o), op[o].kind \notin MoneyKinds
  PROVE  CInv'
<1> DEFINE row == [op[o] EXCEPT !.execution = "succeeded"]
<1>1. /\ Puts(o, row, "done") /\ row \in OpRow /\ row.execution = "succeeded"
      /\ row.kind = op[o].kind /\ row.revision = op[o].revision /\ row.approval = op[o].approval
  BY FinishedRow DEF Succeeded
<1> HIDE DEF row
<1>2. /\ card \in CardRow /\ card.revision \in Nat /\ card.revision + 1 \in Nat
      /\ "done" \in JobStates
      /\ \A p \in CardOps : op[p].revision \in Nat /\ op[p].revision <= card.revision
  BY DEF CInv, OpTypes, CardRow, OpRow, OpKept, JobStates
<1>3. card' = CardAfter(o) /\ (op[o].kind = "unfreeze" => card.revision = op[o].revision)
  BY DEF Succeeded
<1>4. CASE op[o].kind = "freeze"
  <2>1. card' = [card EXCEPT !.status = "paused"]
    BY <1>3, <1>4 DEF CardAfter, SelfKinds
  <2>2. /\ card' \in CardRow /\ card'.risk = card.risk /\ card'.self = card.self
        /\ card'.status = "paused" /\ card'.revision = card.revision
    BY <1>2, <2>1 DEF CardRow
  <2>3. /\ OpTypes' /\ op'[o] = row /\ job'[o] = "done"
        /\ \A p \in CardOps \ {o} : op'[p] = op[p] /\ job'[p] = job[p]
    BY <1>1, <1>2, <2>2, PutsTyped DEF CInv
  <2>4. ASSUME NEW p \in CardOps PROVE OpKept(p)'
    BY <1>1, <2>2, <2>3 DEF CInv, OpKept, InFlight
  <2>5. card.risk
    BY <1>4 DEF CInv, OpKept, InFlight
  <2>6. UnfreezeIsCurrent'
    BY <1>1, <2>2, <2>3 DEF CInv, UnfreezeIsCurrent, InFlight
  <2>7. PausedAsRestricted'
    BY <2>2, <2>5 DEF PausedAsRestricted
  <2> QED BY <2>3, <2>4, <2>6, <2>7 DEF CInv
<1>5. CASE op[o].kind = "unfreeze" \/ op[o].kind \in SelfKinds
  <2>1. /\ card' \in CardRow /\ card'.revision = card.revision + 1
        /\ card'.self \/ card'.risk => card'.status = "paused"
        /\ ~card'.self /\ ~card'.risk => card'.status = "active"
        /\ op[o].kind \in SelfKinds => card'.risk = card.risk
    <3>1. CASE op[o].kind = "unfreeze"
      <4>1. card' = [card EXCEPT !.risk = FALSE, !.revision = card.revision + 1,
                                 !.status = IF card.self THEN "paused" ELSE "active"]
        BY <1>3, <3>1 DEF CardAfter, SelfKinds
      <4> QED BY <1>2, <3>1, <4>1 DEF CardRow, SelfKinds
    <3>2. CASE op[o].kind \in SelfKinds
      <4> DEFINE self == op[o].kind = "self_freeze"
                 status == IF card.risk \/ self THEN "paused" ELSE "active"
      <4>1. card' = [card EXCEPT !.self = self, !.revision = card.revision + 1, !.status = status]
        BY <1>3, <3>2 DEF CardAfter, SelfKinds
      <4>2. self \in BOOLEAN /\ status \in {"active", "paused"}
        OBVIOUS
      <4>3. /\ card' \in CardRow /\ card'.revision = card.revision + 1
            /\ card'.self = self /\ card'.status = status /\ card'.risk = card.risk
        <5> HIDE DEF self, status
        <5> QED BY <1>2, <4>1, <4>2 DEF CardRow
      <4> QED BY <4>3
    <3> QED BY <1>5, <3>1, <3>2
  <2>2. /\ OpTypes' /\ op'[o] = row /\ job'[o] = "done"
        /\ \A p \in CardOps \ {o} : op'[p] = op[p] /\ job'[p] = job[p]
    BY <1>1, <1>2, <2>1, PutsTyped DEF CInv
  <2>3. /\ \A p \in CardOps \ {o} : InFlight(p) => op[p].kind \in MoneyKinds
        \/ op[o].kind \in SelfKinds
    BY <1>5 DEF CInv, UnfreezeIsCurrent
  <2>4. ASSUME NEW p \in CardOps PROVE OpKept(p)'
    <3>1. CASE p = o
      <4>1. row.kind # "freeze" /\ row.kind \notin Transfers
        BY <1>1, <1>5 DEF SelfKinds, Transfers
      <4> QED BY <1>1, <1>2, <2>1, <2>2, <3>1, <4>1 DEF CInv, OpKept, InFlight
    <3>2. CASE p # o
      <4>1. op[p].revision # card'.revision /\ op[p].revision <= card'.revision
        BY <1>2, <2>1
      <4>2. op[p].kind = "freeze" =>
              op[p].revision < card'.revision /\ (op[p].execution = "processing" => card'.risk)
        <5>1. "freeze" \notin MoneyKinds
          BY DEF MoneyKinds
        <5> QED BY <1>2, <2>1, <2>3, <3>2, <5>1 DEF CInv, OpKept, InFlight
      <4> QED BY <2>2, <3>2, <4>1, <4>2 DEF CInv, OpKept
    <3> QED BY <3>1, <3>2
  <2>5. UnfreezeIsCurrent'
    <3>1. \A p \in CardOps : op[p].kind = "unfreeze" /\ InFlight(p) => p = o
      <4>1. "unfreeze" \notin MoneyKinds /\ "unfreeze" \notin SelfKinds
            /\ \A k \in SelfKinds : k \notin MoneyKinds
        BY DEF MoneyKinds, SelfKinds
      <4> QED BY <1>5, <4>1 DEF CInv, UnfreezeIsCurrent
    <3> QED BY <1>1, <2>2, <3>1 DEF UnfreezeIsCurrent, InFlight
  <2>6. PausedAsRestricted'
    BY <2>1 DEF PausedAsRestricted
  <2> QED BY <2>2, <2>4, <2>5, <2>6 DEF CInv
<1>6. CASE op[o].kind \notin {"freeze", "unfreeze"} \cup SelfKinds
  <2>1. card' = card
    BY <1>3, <1>6 DEF CardAfter
  <2> QED BY <1>6, <2>1, QuietFinish DEF Succeeded
<1> QED BY <1>4, <1>5, <1>6

(* What the provider answers, or that it does not.                         *)
LEMMA AnswerCInv ==
  ASSUME CInv, NEW o \in CardOps, ProcessCardJob(o) \/ Work(o) PROVE CInv'
<1>1. ASSUME UNCHANGED <<card, op>>, NEW state \in JobStates \ {"queued"},
             job' = [job EXCEPT ![o] = state]
      PROVE  CInv'
  <2>1. /\ OpTypes' /\ \A p \in CardOps : job'[p] = "queued" => job[p] = "queued"
    BY <1>1 DEF CInv, OpTypes
  <2>2. \A p \in CardOps : OpKept(p)'
    BY <1>1, <2>1 DEF CInv, OpKept
  <2>3. UnfreezeIsCurrent' /\ PausedAsRestricted'
    BY <1>1 DEF CInv, UnfreezeIsCurrent, PausedAsRestricted, InFlight, LatestFreeze
  <2> QED BY <2>1, <2>2, <2>3 DEF CInv
<1>2. "unknown" \in JobStates \ {"queued"} /\ "blocked" \in JobStates \ {"queued"}
  BY DEF JobStates
<1>3. CASE Unknown(o)
  BY <1>1, <1>2, <1>3 DEF Unknown
<1>4. CASE InFlight(o) /\ Failed(o)
  BY <1>4, QuietFinish DEF Failed
<1>5. CASE InFlight(o) /\ Succeeded(o)
  <2>1. CASE op[o].kind \in MoneyKinds
    <3>1. card' = card /\ op[o].kind # "freeze"
      BY <1>5, <2>1 DEF Succeeded, CardAfter, MoneyKinds, SelfKinds
    <3> QED BY <1>5, <3>1, QuietFinish DEF Succeeded
  <2>2. CASE op[o].kind \notin MoneyKinds
    BY <1>5, <2>2, CardFinish
  <2> QED BY <2>1, <2>2
<1>6. CASE job' = [job EXCEPT ![o] = "blocked"] /\ UNCHANGED <<card, op>>
  BY <1>1, <1>2, <1>6
<1> QED BY <1>3, <1>4, <1>5, <1>6 DEF ProcessCardJob, Work

-----------------------------------------------------------------------------
(* Requests and reviews.                                                   *)

LEMMA NoOpTyped == NoOp \in OpRow
  BY DEF NoOp, OpRow

(* A row that Row makes.                                                   *)
LEMMA RowTyped ==
  ASSUME CInv, NEW a \in Actors \cup {Customer}, NEW kind \in CardKinds,
         NEW n \in CardAmounts \cup {0}, NEW approval \in {"pending", "not_required"}
  PROVE  /\ Row(a, kind, n, approval) \in OpRow
         /\ Row(a, kind, n, approval).kind = kind
         /\ Row(a, kind, n, approval).revision = card.revision
         /\ Row(a, kind, n, approval).approval = approval
         /\ Row(a, kind, n, approval).execution = "pending"
<1>1. card.revision \in Nat
  BY DEF CInv, OpTypes, CardRow
<1> QED BY <1>1, NoOpTyped DEF Row, OpRow

LEMMA RequestCInv ==
  ASSUME CInv, NEW o \in CardOps, NEW a \in Actors, NEW kind \in {"unfreeze"} \cup MoneyKinds,
         NEW n \in CardAmounts \cup {0}, Request(o, a, kind, n)
  PROVE  CInv'
<1> DEFINE row == Row(a, kind, n, "pending")
<1>1. kind \in CardKinds /\ kind # "freeze" /\ op[o].kind # "freeze"
  BY DEF CardKinds, MoneyKinds, Request, Unused, NoOp
<1>2. /\ row \in OpRow /\ row.kind = kind /\ row.revision = card.revision
      /\ row.execution = "pending"
  BY <1>1, RowTyped
<1>3. Puts(o, row, job[o]) /\ card' = card /\ job[o] \in JobStates
  BY DEF Request, Puts, CInv, OpTypes
<1>4. job[o] # "queued" /\ card.revision \in Nat
  BY DEF CInv, OpKept, Request, Unused, NoOp, OpTypes, CardRow
<1> HIDE DEF row
<1> QED BY <1>1, <1>2, <1>3, <1>4, QuietPut

LEMMA ClientUnfreezeCInv == ASSUME CInv, NEW o \in CardOps, ClientUnfreeze(o) PROVE CInv'
<1>1. /\ card' = card /\ job[o] \in JobStates /\ \A row : op' = [op EXCEPT ![o] = row] => Puts(o, row, job[o])
      /\ card.revision \in Nat
  BY DEF ClientUnfreeze, Puts, CInv, OpTypes, CardRow
<1>2. CASE Unused(o) /\ op' = [op EXCEPT ![o] = [Row(Customer, "unfreeze", 0, "pending") EXCEPT !.asked = TRUE]]
  <2> DEFINE made == Row(Customer, "unfreeze", 0, "pending")
             row == [made EXCEPT !.asked = TRUE]
  <2>1. /\ made \in OpRow /\ made.kind = "unfreeze" /\ made.revision = card.revision
        /\ made.execution = "pending"
    BY RowTyped DEF CardKinds
  <2>2. /\ row \in OpRow /\ row.kind = "unfreeze" /\ row.revision = card.revision
        /\ row.execution = "pending"
    <3> HIDE DEF made
    <3> QED BY <2>1 DEF OpRow
  <2>3. job[o] # "queued" /\ op[o].kind # "freeze"
    BY <1>2 DEF CInv, OpKept, Unused, NoOp
  <2>4. Puts(o, row, job[o])
    BY <1>1, <1>2
  <2> HIDE DEF row
  <2> QED BY <1>1, <2>2, <2>3, <2>4, QuietPut
<1>3. CASE /\ op[o].approval = "returned"
           /\ op' = [op EXCEPT ![o] = [@ EXCEPT !.approval = "pending", !.execution = "pending",
                                                !.reviewer = NoOne]]
  <2> DEFINE row == [op[o] EXCEPT !.approval = "pending", !.execution = "pending", !.reviewer = NoOne]
  <2>1. op[o] \in OpRow /\ op[o].kind \in {"unfreeze"} \cup MoneyKinds /\ job[o] # "queued"
        /\ op[o].revision <= card.revision
    BY <1>3 DEF CInv, OpKept, OpTypes
  <2>2. /\ row \in OpRow /\ row.kind = op[o].kind /\ row.revision = op[o].revision
        /\ row.execution = "pending"
    BY <2>1 DEF OpRow
  <2>3. Puts(o, row, job[o])
    BY <1>1, <1>3
  <2>4. op[o].kind # "freeze"
    BY <2>1 DEF MoneyKinds
  <2> HIDE DEF row
  <2> QED BY <1>1, <2>1, <2>2, <2>3, <2>4, QuietPut
<1> QED BY <1>2, <1>3 DEF ClientUnfreeze

(* What Begin stores.                                                      *)
LEMMA Begun ==
  ASSUME NEW o \in CardOps, NEW row \in OpRow, Begin(o, row)
  PROVE  LET new == [row EXCEPT !.execution = "processing"] IN
         /\ Puts(o, new, "queued") /\ new \in OpRow /\ new.execution = "processing"
         /\ new.kind = row.kind /\ new.revision = row.revision /\ new.approval = row.approval
         /\ new.requester = row.requester /\ new.reviewer = row.reviewer
  BY DEF Begin, Puts, OpRow

LEMMA ClientFreezeCInv == ASSUME CInv, NEW o \in CardOps, ClientFreeze(o) PROVE CInv'
<1> DEFINE kind == IF card.self THEN "self_unfreeze" ELSE "self_freeze"
           made == Row(Customer, kind, 0, "not_required")
           row == [made EXCEPT !.execution = "processing"]
<1>1. /\ kind \in CardKinds /\ kind \notin {"freeze", "unfreeze"} /\ kind \notin Transfers
      /\ op[o].kind # "freeze"
  BY DEF CardKinds, SelfKinds, Transfers, ClientFreeze, Unused, NoOp
<1>2. /\ made \in OpRow /\ made.kind = kind /\ made.revision = card.revision
      /\ made.approval = "not_required"
  <2> HIDE DEF kind
  <2> QED BY <1>1, RowTyped
<1>3. Begin(o, made) /\ card' = card /\ \A p \in CardOps : ~InFlight(p)
  BY DEF ClientFreeze
<1> HIDE DEF made, kind
<1>4. /\ Puts(o, row, "queued") /\ row \in OpRow /\ row.execution = "processing"
      /\ row.kind = kind /\ row.revision = card.revision /\ row.approval = "not_required"
  BY <1>2, <1>3, Begun
<1> HIDE DEF row
<1> QED BY <1>1, <1>3, <1>4, BeginPut

LEMMA FreezeCInv == ASSUME CInv, NEW o \in CardOps, NEW a \in Actors, Freeze(o, a) PROVE CInv'
<1> DEFINE made == Row(a, "freeze", 0, "not_required")
           row == [made EXCEPT !.execution = "processing"]
<1>1. /\ made \in OpRow /\ made.kind = "freeze" /\ made.revision = card.revision
      /\ made.approval = "not_required"
  BY RowTyped DEF CardKinds
<1>2. /\ Begin(o, made) /\ ~card.risk
      /\ card' = [card EXCEPT !.risk = TRUE, !.revision = card.revision + 1]
  BY DEF Freeze, Capable
<1> HIDE DEF made
<1>3. /\ Puts(o, row, "queued") /\ row \in OpRow /\ row.execution = "processing"
      /\ row.kind = "freeze" /\ row.revision = card.revision /\ row.approval = "not_required"
  BY <1>1, <1>2, Begun
<1> HIDE DEF row
<1> QED BY <1>2, <1>3, FreezePut

(* A reviewed operation that waited is no freeze.                          *)
LEMMA PendingIs ==
  ASSUME CInv, NEW o \in CardOps, op[o].approval = "pending"
  PROVE  /\ op[o] \in OpRow /\ job[o] \in JobStates \ {"queued"} /\ op[o].kind # "freeze"
         /\ op[o].revision <= card.revision /\ op[o].kind \in {"unfreeze"} \cup MoneyKinds
  BY DEF CInv, OpKept, OpTypes, MoneyKinds

LEMMA ApproveCInv == ASSUME CInv, NEW o \in CardOps, NEW a \in Actors, ApproveOp(o, a) PROVE CInv'
<1> DEFINE row == [op[o] EXCEPT !.approval = "approved", !.reviewer = a]
<1>1. /\ op[o].approval = "pending" /\ op[o].requester # a /\ card' = card
      /\ IF MayBegin(o, a) THEN Begin(o, row)
         ELSE op' = [op EXCEPT ![o] = [row EXCEPT !.execution = "failed"]] /\ job' = job
  BY DEF ApproveOp, Reviewable
<1>2. /\ row \in OpRow /\ row.kind = op[o].kind /\ row.revision = op[o].revision
      /\ row.approval = "approved" /\ row.reviewer = a /\ row.requester = op[o].requester
  BY <1>1, PendingIs DEF OpRow
<1> HIDE DEF row
<1>3. CASE MayBegin(o, a)
  <2> DEFINE new == [row EXCEPT !.execution = "processing"]
  <2>1. /\ Puts(o, new, "queued") /\ new \in OpRow /\ new.execution = "processing"
        /\ new.kind = op[o].kind /\ new.revision = op[o].revision /\ new.approval = "approved"
        /\ new.requester = op[o].requester /\ new.reviewer = a
    BY <1>1, <1>2, <1>3, Begun
  <2>2. op[o].kind \in Transfers => ~card.risk /\ ~card.self
    BY <1>3 DEF MayBegin, Transfers, MoneyKinds
  <2>3. op[o].kind = "unfreeze" => card.risk /\ \A p \in CardOps \ {o} : ~InFlight(p)
    BY <1>3 DEF MayBegin
  <2>4. op[o].revision = card.revision
    BY <1>1, <1>3, PendingIs DEF MayBegin
  <2>5. a # NoOne
    BY CardAssumption DEF NoOne
  <2> HIDE DEF new
  <2> QED BY <1>1, <2>1, <2>2, <2>3, <2>4, <2>5, PendingIs, BeginPut
<1>4. CASE ~MayBegin(o, a)
  <2> DEFINE new == [row EXCEPT !.execution = "failed"]
  <2>1. /\ new \in OpRow /\ new.execution = "failed" /\ new.kind = op[o].kind
        /\ new.revision = op[o].revision /\ new.approval = "approved"
    BY <1>2 DEF OpRow
  <2>2. Puts(o, new, job[o])
    BY <1>1, <1>4 DEF Puts, CInv, OpTypes
  <2> HIDE DEF new
  <2> QED BY <1>1, <2>1, <2>2, PendingIs, QuietPut
<1> QED BY <1>3, <1>4

LEMMA RefuseCInv == ASSUME CInv, NEW o \in CardOps, NEW a \in Actors, RefuseOp(o, a) PROVE CInv'
<1>1. PICK approval \in {"rejected", "returned"} :
        op' = [op EXCEPT ![o] = [@ EXCEPT !.approval = approval, !.reviewer = a,
                                          !.execution = "not_executed"]]
  BY DEF RefuseOp
<1> DEFINE row == [op[o] EXCEPT !.approval = approval, !.reviewer = a, !.execution = "not_executed"]
<1>2. op[o].approval = "pending" /\ card' = card /\ job' = job
  BY DEF RefuseOp, Reviewable
<1>3. /\ row \in OpRow /\ row.kind = op[o].kind /\ row.revision = op[o].revision
      /\ row.execution = "not_executed"
  BY <1>2, PendingIs DEF OpRow
<1>4. Puts(o, row, job[o])
  BY <1>1, <1>2 DEF Puts, CInv, OpTypes
<1> HIDE DEF row
<1> QED BY <1>2, <1>3, <1>4, PendingIs, QuietPut

-----------------------------------------------------------------------------
LEMMA CInvInit == CardInit => CInv
<1> SUFFICES ASSUME CardInit PROVE CInv
  OBVIOUS
<1>1. OpTypes
  BY NoOpTyped DEF CardInit, OpTypes, CardRow, JobStates
<1>2. \A o \in CardOps : op[o] = NoOp /\ job[o] = "none" /\ card.revision = 0
  BY DEF CardInit
<1> QED
  BY <1>1, <1>2
     DEF CInv, OpKept, NoOp, UnfreezeIsCurrent, PausedAsRestricted, InFlight, CardInit, Transfers

LEMMA CInvNext == ASSUME CInv, [CardNext]_cardVars PROVE CInv'
<1>1. CASE UNCHANGED cardVars
  BY <1>1 DEF cardVars, CInv, OpTypes, OpKept, UnfreezeIsCurrent, PausedAsRestricted, InFlight, LatestFreeze
<1>2. ASSUME NEW o \in CardOps, NEW a \in Actors, NEW kind \in MoneyKinds, NEW n \in CardAmounts,
             Request(o, a, kind, n)
      PROVE  CInv'
  BY <1>2, RequestCInv
<1>3. ASSUME NEW o \in CardOps, NEW a \in Actors, Request(o, a, "unfreeze", 0) PROVE CInv'
  BY <1>3, RequestCInv
<1>4. ASSUME NEW o \in CardOps, NEW a \in Actors, Refresh(o, a) PROVE CInv'
  BY <1>4, AnswerCInv DEF Refresh
<1> QED
  BY <1>1, <1>2, <1>3, <1>4, ClientFreezeCInv, ClientUnfreezeCInv, AnswerCInv, FreezeCInv,
     ApproveCInv, RefuseCInv DEF CardNext

(* A running unfreeze belongs to the freeze in force, was reviewed by      *)
(* somebody else, and no other change of the card runs beside it           *)
(* (beginExecution and processCardJob).                                    *)
THEOREM UnfreezeStaysCurrent == CardSpec => []UnfreezeIsCurrent
<1>1. CInv => UnfreezeIsCurrent
  BY DEF CInv
<1> QED BY <1>1, CInvInit, CInvNext, PTL DEF CardSpec

(* The provider's state of the card is what restricts it here, in whatever *)
(* order results come (processCardJob).                                    *)
THEOREM AlwaysPausedAsRestricted == CardSpec => []PausedAsRestricted
<1>1. CInv => PausedAsRestricted
  BY DEF CInv
<1> QED BY <1>1, CInvInit, CInvNext, PTL DEF CardSpec

(* Only a result makes an operation one that succeeded.                    *)
LEMMA OnlyResults ==
  ASSUME CInv, [CardNext]_cardVars, NEW o \in CardOps,
         op[o].execution = "processing", op'[o].execution = "succeeded"
  PROVE  Succeeded(o)
<1> USE DEF CInv, OpTypes
<1>1. ASSUME NEW p \in CardOps, NEW a \in Actors, RefuseOp(p, a) PROVE FALSE
  BY <1>1 DEF RefuseOp, OpRow
<1>2. ASSUME NEW p \in CardOps, NEW a \in Actors, ApproveOp(p, a) PROVE FALSE
  <2> DEFINE row == [op[p] EXCEPT !.approval = "approved", !.reviewer = a]
  <2>1. row \in OpRow
    BY DEF OpRow
  <2>2. \/ op' = [op EXCEPT ![p] = [row EXCEPT !.execution = "processing"]]
        \/ op' = [op EXCEPT ![p] = [row EXCEPT !.execution = "failed"]]
    BY <1>2 DEF ApproveOp, Begin
  <2> HIDE DEF row
  <2>3. op'[p].execution \in {"processing", "failed"} /\ \A q \in CardOps \ {p} : op'[q] = op[q]
    BY <2>1, <2>2 DEF OpRow
  <2> QED BY <2>3
<1>3. ASSUME NEW p \in CardOps, NEW a \in Actors, NEW kind, NEW n, Request(p, a, kind, n)
      PROVE  FALSE
  BY <1>3 DEF Request, Unused, NoOp
<1>4. ASSUME NEW p \in CardOps, NEW a \in Actors, Freeze(p, a) PROVE FALSE
  BY <1>4 DEF Freeze, Begin, Unused, NoOp
<1>5. ASSUME NEW p \in CardOps, ClientFreeze(p) PROVE FALSE
  BY <1>5 DEF ClientFreeze, InFlight
<1>6. ASSUME NEW p \in CardOps, ClientUnfreeze(p) PROVE FALSE
  BY <1>6 DEF ClientUnfreeze, Unused, NoOp, OpKept
<1>7. ASSUME NEW p \in CardOps, Work(p) \/ ProcessCardJob(p) PROVE Succeeded(o)
  <2>1. CASE Succeeded(p)
    <3>1. o = p
      BY <2>1 DEF Succeeded, Finish
    <3> QED BY <2>1, <3>1
  <2>2. CASE Failed(p)
    <3>1. op'[o].execution = "failed" \/ op'[o] = op[o]
      BY <2>2 DEF Failed, Finish, OpRow
    <3> QED BY <3>1
  <2>3. CASE op' = op
    BY <2>3
  <2> QED BY <1>7, <2>1, <2>2, <2>3 DEF Work, ProcessCardJob, Unknown
<1>8. op' # op
  OBVIOUS
<1> QED
  BY <1>1, <1>2, <1>3, <1>4, <1>5, <1>6, <1>7, <1>8 DEF CardNext, Refresh, cardVars

(* A freeze that came after a transfer was queued stops it, as long as it  *)
(* was not sent (stateChanged of processCardJob).                          *)
THEOREM FreezeAlwaysStopsQueued == CardSpec => FreezeStopsQueued
<1>1. ASSUME CInv, [CardNext]_cardVars, NEW o \in CardOps,
             op[o].kind \in {"transfer_in", "transfer_out"}, job[o] = "queued",
             op'[o].execution = "succeeded"
      PROVE  ~card.risk /\ ~card.self
  <2>1. op[o].execution = "processing"
    BY <1>1 DEF CInv, OpKept
  <2>2. Succeeded(o)
    BY <1>1, <2>1, OnlyResults
  <2>3. op[o].revision = card.revision
    BY <1>1, <2>2 DEF Succeeded, StateChanged
  <2> QED BY <1>1, <2>1, <2>3 DEF CInv, OpKept, Transfers
<1>2. CInv /\ [CardNext]_cardVars =>
        [\A o \in CardOps :
           /\ op[o].kind \in {"transfer_in", "transfer_out"} /\ job[o] = "queued"
           /\ op'[o].execution = "succeeded"
           => ~card.risk /\ ~card.self]_cardVars
  BY <1>1
<1> QED BY <1>2, CInvInit, CInvNext, PTL DEF CardSpec, FreezeStopsQueued

(* A freeze is lifted by a review of that freeze alone, and the provider's *)
(* status follows the restrictions.                                        *)
THEOREM AlwaysRestrictedAsReviewed == CardSpec => []RestrictedAsReviewed
<1>1. UnfreezeIsCurrent /\ PausedAsRestricted => RestrictedAsReviewed
  BY DEF RestrictedAsReviewed
<1> QED
  BY <1>1, UnfreezeStaysCurrent, AlwaysPausedAsRestricted, PTL

(***************************************************************************)
(* The money.  An operation that is not at work holds none, and one that   *)
(* waits for a review has not moved any.                                   *)
(***************************************************************************)
MInv ==
  /\ IsFiniteSet(OpsMade)
  /\ held \in [CardOps -> Nat] /\ money \in [Accounts -> Int]
  /\ \A o \in CardOps :
       /\ op[o].approval \in {"pending", "returned"} => op[o].execution # "succeeded"
       /\ op[o].kind \notin MoneyKinds => op[o].amount = 0
  /\ CardMoneyFits

Holds(row) == IF row.execution = "processing" THEN row.amount ELSE 0

(* Amounts are numbers.                                                    *)
LEMMA RowAmount == ASSUME NEW row \in OpRow PROVE row.amount \in Nat
<1>1. CardAmounts \cup {0} \subseteq Nat
  BY CardAssumption
<1>2. row.amount \in CardAmounts \cup {0}
  BY DEF OpRow
<1> QED BY <1>1, <1>2

(* What a row holds and has moved, as it is stored.                        *)
LEMMA TermsTyped ==
  ASSUME CInv, MInv, NEW o \in CardOps, NEW account \in Accounts
  PROVE  /\ HeldFrom(o, account) \in Nat /\ MovedInto(o, account) \in Int
         /\ o \notin OpsMade => HeldFrom(o, account) = 0 /\ MovedInto(o, account) = 0
<1>1. op[o].amount \in Nat /\ held[o] \in Nat
  BY RowAmount DEF CInv, OpTypes, MInv
<1>2. o \notin OpsMade => held[o] = 0 /\ op[o].execution = "none"
  BY DEF OpsMade, MInv, CardMoneyFits, NoOp, InFlight
<1> QED BY <1>1, <1>2 DEF HeldFrom, MovedInto

(* What is held of an account, and what it has got.                        *)
LEMMA OnHoldTyped ==
  ASSUME CInv, MInv, NEW account \in Accounts
  PROVE  OnHold(account) \in Int /\ \A o \in CardOps : HeldFrom(o, account) <= OnHold(account)
<1> DEFINE f == [o \in OpsMade |-> HeldFrom(o, account)]
<1>1. IsFiniteSet(OpsMade) /\ \A o \in OpsMade : f[o] \in Nat
  BY TermsTyped DEF MInv, OpsMade
<1>2. OnHold(account) = SumFunctionOnSet(f, OpsMade)
  BY DEF OnHold, SumFunction
<1>3. \A o \in OpsMade : f[o] = HeldFrom(o, account)
  OBVIOUS
<1> HIDE DEF f
<1>4. OnHold(account) \in Nat
  BY <1>1, <1>2, SumNat
<1>5. \A o \in OpsMade : HeldFrom(o, account) <= OnHold(account)
  BY <1>1, <1>2, <1>3, SumAtLeast
<1>6. \A o \in CardOps : o \notin OpsMade => HeldFrom(o, account) = 0
  BY TermsTyped
<1> QED BY <1>4, <1>5, <1>6

LEMMA MovedTyped ==
  ASSUME CInv, MInv, NEW account \in Accounts
  PROVE  SumFunction([o \in OpsMade |-> MovedInto(o, account)]) \in Int
<1> DEFINE f == [o \in OpsMade |-> MovedInto(o, account)]
<1>1. IsFiniteSet(OpsMade) /\ \A o \in OpsMade : f[o] \in Int
  BY TermsTyped DEF MInv, OpsMade
<1> QED BY <1>1, SumInt DEF SumFunction

(* Two entries leave a sum in every account.                               *)
LEMMA TwoEntries ==
  ASSUME NEW m \in [Accounts -> Int], NEW n \in Nat, NEW a \in Accounts, NEW b \in Accounts
  PROVE  [m EXCEPT ![a] = @ - n, ![b] = @ + n] \in [Accounts -> Int]
<1> DEFINE paid == [m EXCEPT ![a] = @ - n]
<1>1. paid \in [Accounts -> Int]
  OBVIOUS
<1> HIDE DEF paid
<1>2. [paid EXCEPT ![b] = @ + n] \in [Accounts -> Int]
  BY <1>1
<1> QED BY <1>2 DEF paid

(* When one row changes, each account's holds and movements change by the  *)
(* terms of that row.                                                      *)
LEMMA OneRowChanges ==
  ASSUME CInv, MInv, CInv', NEW o \in CardOps, NEW row \in OpRow, op' = [op EXCEPT ![o] = row],
         row.execution # "none", held' = [held EXCEPT ![o] = Holds(row)]
  PROVE  /\ OpsMade' = OpsMade \cup {o} /\ IsFiniteSet(OpsMade')
         /\ \A account \in Accounts :
              /\ OnHold(account)' = OnHold(account) - HeldFrom(o, account) + HeldFrom(o, account)'
              /\ SumFunction([p \in OpsMade |-> MovedInto(p, account)])' =
                   SumFunction([p \in OpsMade |-> MovedInto(p, account)])
                     - MovedInto(o, account) + MovedInto(o, account)'
<1>1. /\ op'[o] = row /\ held'[o] = Holds(row)
      /\ \A p \in CardOps \ {o} : op'[p] = op[p] /\ held'[p] = held[p]
  BY DEF CInv, OpTypes, MInv
<1>2. OpsMade' = OpsMade \cup {o}
  BY <1>1 DEF OpsMade, NoOp
<1>3. IsFiniteSet(OpsMade) /\ OpsMade \subseteq CardOps
  BY DEF MInv, OpsMade
<1>4. row.amount \in Nat
  BY RowAmount
<1>5. ASSUME NEW account \in Accounts
      PROVE  /\ HeldFrom(o, account)' \in Int /\ MovedInto(o, account)' \in Int
             /\ \A p \in OpsMade \ {o} : /\ HeldFrom(p, account)' = HeldFrom(p, account)
                                         /\ MovedInto(p, account)' = MovedInto(p, account)
  <2>1. HeldFrom(o, account)' \in Int /\ MovedInto(o, account)' \in Int
    BY <1>1, <1>4 DEF HeldFrom, MovedInto, Holds
  <2> QED BY <1>1, <1>3, <2>1 DEF HeldFrom, MovedInto
<1>6. ASSUME NEW account \in Accounts
      PROVE  OnHold(account)' = OnHold(account) - HeldFrom(o, account) + HeldFrom(o, account)'
  <2> DEFINE f == [p \in OpsMade |-> HeldFrom(p, account)]
             g == [p \in OpsMade \cup {o} |-> HeldFrom(p, account)']
  <2>1. /\ \A p \in OpsMade : f[p] \in Int
        /\ o \in OpsMade => f[o] = HeldFrom(o, account)
        /\ o \notin OpsMade => HeldFrom(o, account) = 0
    BY <1>3, TermsTyped
  <2>2. g[o] = HeldFrom(o, account)' /\ g[o] \in Int /\ \A p \in OpsMade \ {o} : g[p] = f[p]
    BY <1>5
  <2>3. OnHold(account)' = SumFunctionOnSet(g, OpsMade \cup {o})
    BY <1>2 DEF OnHold, SumFunction
  <2>4. OnHold(account) = SumFunctionOnSet(f, OpsMade)
    BY DEF OnHold, SumFunction
  <2> HIDE DEF f
  <2> DEFINE old == HeldFrom(o, account)
  <2>5. SumFunctionOnSet(g, OpsMade \cup {o}) = SumFunctionOnSet(f, OpsMade) - old + g[o]
    <3> HIDE DEF old
    <3>1. /\ o \in OpsMade => f[o] = old
          /\ o \notin OpsMade => old = 0
      BY <2>1 DEF old
    <3> QED BY <1>3, <2>1, <2>2, <3>1, SumPut
  <2> QED BY <2>2, <2>3, <2>4, <2>5
<1>7. ASSUME NEW account \in Accounts
      PROVE  SumFunction([p \in OpsMade |-> MovedInto(p, account)])' =
               SumFunction([p \in OpsMade |-> MovedInto(p, account)])
                 - MovedInto(o, account) + MovedInto(o, account)'
  <2> DEFINE f == [p \in OpsMade |-> MovedInto(p, account)]
             g == [p \in OpsMade \cup {o} |-> MovedInto(p, account)']
  <2>1. /\ \A p \in OpsMade : f[p] \in Int
        /\ o \in OpsMade => f[o] = MovedInto(o, account)
        /\ o \notin OpsMade => MovedInto(o, account) = 0
    BY <1>3, TermsTyped
  <2>2. g[o] = MovedInto(o, account)' /\ g[o] \in Int /\ \A p \in OpsMade \ {o} : g[p] = f[p]
    BY <1>5
  <2>3. SumFunction([p \in OpsMade |-> MovedInto(p, account)])' = SumFunctionOnSet(g, OpsMade \cup {o})
    BY <1>2 DEF SumFunction
  <2>4. SumFunction([p \in OpsMade |-> MovedInto(p, account)]) = SumFunctionOnSet(f, OpsMade)
    BY DEF SumFunction
  <2> HIDE DEF f
  <2> DEFINE old == MovedInto(o, account)
  <2>5. SumFunctionOnSet(g, OpsMade \cup {o}) = SumFunctionOnSet(f, OpsMade) - old + g[o]
    <3> HIDE DEF old
    <3>1. /\ o \in OpsMade => f[o] = old
          /\ o \notin OpsMade => old = 0
      BY <2>1 DEF old
    <3> QED BY <1>3, <2>1, <2>2, <3>1, SumPut
  <2> QED BY <2>2, <2>3, <2>4, <2>5
<1> QED BY <1>2, <1>3, <1>6, <1>7, FS_AddElement

(* A change of one row that moves no money keeps the accounts, when there  *)
(* is enough for what the row holds from now on.                           *)
LEMMA RowKeepsMoney ==
  ASSUME CInv, MInv, CInv', NEW o \in CardOps, NEW row \in OpRow, op' = [op EXCEPT ![o] = row],
         row.execution # "none", held' = [held EXCEPT ![o] = Holds(row)], money' = money,
         row.execution # "succeeded", op[o].execution # "succeeded",
         row.kind \notin MoneyKinds => row.amount = 0,
         \A account \in {"wallet", "funds"} :
           Spendable(account) + HeldFrom(o, account) >= HeldFrom(o, account)'
  PROVE  MInv'
<1>1. /\ op'[o] = row /\ held'[o] = Holds(row)
      /\ \A p \in CardOps \ {o} : op'[p] = op[p] /\ held'[p] = held[p]
  BY DEF CInv, OpTypes, MInv
<1>2. row.amount \in Nat /\ {"wallet", "funds"} \subseteq Accounts
  BY RowAmount DEF Accounts
<1>3. /\ IsFiniteSet(OpsMade') /\ held' \in [CardOps -> Nat] /\ money' \in [Accounts -> Int]
  BY <1>2, OneRowChanges DEF MInv, Holds
<1>4. \A p \in CardOps :
        /\ op'[p].approval \in {"pending", "returned"} => op'[p].execution # "succeeded"
        /\ op'[p].kind \notin MoneyKinds => op'[p].amount = 0
        /\ held'[p] = IF InFlight(p)' THEN op'[p].amount ELSE 0
  BY <1>1 DEF MInv, CardMoneyFits, InFlight, Holds
<1>5. ASSUME NEW account \in Accounts
      PROVE  money'[account] =
               CardOpening[account] + SumFunction([p \in OpsMade |-> MovedInto(p, account)])'
  <2>1. MovedInto(o, account) = 0 /\ MovedInto(o, account)' = 0
    BY <1>1 DEF MovedInto
  <2>2. SumFunction([p \in OpsMade |-> MovedInto(p, account)])' =
          SumFunction([p \in OpsMade |-> MovedInto(p, account)]) - 0 + 0
    BY <2>1, OneRowChanges
  <2>3. money[account] = CardOpening[account] + SumFunction([p \in OpsMade |-> MovedInto(p, account)])
    BY DEF MInv, CardMoneyFits
  <2>4. money[account] \in Int /\ CardOpening[account] \in Int
    BY CardAssumption DEF MInv, Accounts
  <2>5. SumFunction([p \in OpsMade |-> MovedInto(p, account)]) \in Int
    BY MovedTyped
  <2> QED BY <2>2, <2>3, <2>4, <2>5
<1>6. ASSUME NEW account \in {"wallet", "funds"} PROVE Spendable(account)' >= 0
  <2>1. account \in Accounts /\ HeldFrom(o, account) \in Int /\ money[account] \in Int
    BY <1>2, TermsTyped DEF MInv
  <2>2. HeldFrom(o, account)' \in Int
    BY <1>1, <1>2 DEF HeldFrom, Holds
  <2>3. OnHold(account)' = OnHold(account) - HeldFrom(o, account) + HeldFrom(o, account)'
    BY <2>1, OneRowChanges
  <2>4. OnHold(account) \in Int
    BY <2>1, OnHoldTyped
  <2> QED BY <2>1, <2>2, <2>3, <2>4 DEF Spendable
<1> QED BY <1>3, <1>4, <1>5, <1>6 DEF MInv, CardMoneyFits

(* An operation that is not at work and does not go to work.               *)
LEMMA QuietMoney ==
  ASSUME CInv, MInv, CInv', NEW o \in CardOps, NEW row \in OpRow, op' = [op EXCEPT ![o] = row],
         row.execution # "none", UNCHANGED <<held, money>>,
         row.execution \notin {"processing", "succeeded"},
         op[o].execution \notin {"processing", "succeeded"},
         row.kind \notin MoneyKinds => row.amount = 0
  PROVE  MInv'
<1>1. Holds(row) = 0 /\ held[o] = 0 /\ held = [held EXCEPT ![o] = 0]
  BY DEF Holds, MInv, CardMoneyFits, InFlight
<1>2. op'[o] = row /\ held'[o] = 0
  BY <1>1 DEF CInv, OpTypes
<1>3. \A account \in {"wallet", "funds"} :
        Spendable(account) + HeldFrom(o, account) >= HeldFrom(o, account)'
  <2>1. ASSUME NEW account \in {"wallet", "funds"}
        PROVE  Spendable(account) + HeldFrom(o, account) >= HeldFrom(o, account)'
    <3>1. HeldFrom(o, account) = 0 /\ HeldFrom(o, account)' = 0 /\ Spendable(account) >= 0
      BY <1>1, <1>2, <2>1 DEF HeldFrom, MInv, CardMoneyFits
    <3>2. Spendable(account) \in Int
      BY <2>1, OnHoldTyped DEF Spendable, MInv, Accounts
    <3> QED BY <3>1, <3>2
  <2> QED BY <2>1
<1> QED BY <1>1, <1>3, RowKeepsMoney

(* An operation goes to work and holds its amount: what MayBegin and the   *)
(* requests that begin at once have made sure of.                          *)
LEMMA BeginMoney ==
  ASSUME CInv, MInv, CInv', NEW o \in CardOps, NEW row \in OpRow, Begin(o, row), money' = money,
         op[o].execution \notin {"processing", "succeeded"},
         row.kind \in MoneyKinds => Spendable(Source(row.kind)) >= row.amount,
         row.kind \notin MoneyKinds => row.amount = 0
  PROVE  MInv'
<1> DEFINE new == [row EXCEPT !.execution = "processing"]
<1>1. /\ op' = [op EXCEPT ![o] = new] /\ new \in OpRow /\ new.execution = "processing"
      /\ new.kind = row.kind /\ new.amount = row.amount
  BY DEF Begin, OpRow
<1> HIDE DEF new
<1>2. held' = [held EXCEPT ![o] = Holds(new)] /\ Holds(new) = row.amount
  BY <1>1 DEF Begin, Holds
<1>3. held[o] = 0 /\ op'[o] = new /\ held'[o] = row.amount
  BY <1>1, <1>2 DEF MInv, CardMoneyFits, InFlight, CInv, OpTypes
<1>4. ASSUME NEW account \in {"wallet", "funds"}
      PROVE  Spendable(account) + HeldFrom(o, account) >= HeldFrom(o, account)'
  <2>1. HeldFrom(o, account) = 0 /\ Spendable(account) >= 0
    BY <1>3 DEF HeldFrom, MInv, CardMoneyFits
  <2>2. HeldFrom(o, account)' = IF Source(row.kind) = account THEN row.amount ELSE 0
    BY <1>1, <1>3 DEF HeldFrom
  <2>3. Spendable(account) \in Int
    BY OnHoldTyped DEF Spendable, MInv, Accounts
  <2> QED BY <2>1, <2>2, <2>3
<1> QED BY <1>1, <1>2, <1>4, RowKeepsMoney

(* An operation fails and holds nothing any more.                          *)
LEMMA FailedMoney ==
  ASSUME CInv, MInv, CInv', NEW o \in CardOps, InFlight(o), Failed(o) PROVE MInv'
<1> DEFINE row == [op[o] EXCEPT !.execution = "failed"]
<1>1. /\ op' = [op EXCEPT ![o] = row] /\ row \in OpRow /\ row.execution = "failed"
      /\ row.kind = op[o].kind /\ row.amount = op[o].amount
  BY DEF Failed, Finish, CInv, OpTypes, OpRow
<1> HIDE DEF row
<1>2. /\ held' = [held EXCEPT ![o] = Holds(row)] /\ Holds(row) = 0 /\ money' = money
      /\ op'[o] = row /\ held'[o] = 0
  BY <1>1 DEF Failed, Finish, Holds, CInv, OpTypes, MInv
<1>3. ASSUME NEW account \in {"wallet", "funds"}
      PROVE  Spendable(account) + HeldFrom(o, account) >= HeldFrom(o, account)'
  <2>1. HeldFrom(o, account) \in Nat /\ Spendable(account) >= 0 /\ HeldFrom(o, account)' = 0
    BY <1>2, TermsTyped DEF HeldFrom, MInv, CardMoneyFits, Accounts
  <2>2. Spendable(account) \in Int
    BY OnHoldTyped DEF Spendable, MInv, Accounts
  <2> QED BY <2>1, <2>2
<1>4. row.execution # "none" /\ (row.kind \notin MoneyKinds => row.amount = 0)
  BY <1>1 DEF MInv
<1>5. op[o].execution # "succeeded"
  BY DEF InFlight
<1> QED BY <1>1, <1>2, <1>3, <1>4, <1>5, RowKeepsMoney

(* An operation succeeds: what it held is what it moves.                   *)
LEMMA SucceededMoney ==
  ASSUME CInv, MInv, CInv', NEW o \in CardOps, InFlight(o), Succeeded(o) PROVE MInv'
<1> DEFINE row == [op[o] EXCEPT !.execution = "succeeded"]
           n == op[o].amount
           kind == op[o].kind
           Total(account) == SumFunction([p \in OpsMade |-> MovedInto(p, account)])
<1>1. /\ op' = [op EXCEPT ![o] = row] /\ row \in OpRow /\ row.execution = "succeeded"
      /\ row.kind = kind /\ row.amount = n /\ row.approval = op[o].approval
  BY DEF Succeeded, Finish, CInv, OpTypes, OpRow
<1> HIDE DEF row
<1>2. /\ held' = [held EXCEPT ![o] = Holds(row)] /\ Holds(row) = 0
      /\ op'[o] = row /\ held'[o] = 0
      /\ \A p \in CardOps \ {o} : op'[p] = op[p] /\ held'[p] = held[p]
  BY <1>1 DEF Succeeded, Finish, Holds, CInv, OpTypes, MInv
<1>3. held[o] = n /\ n \in Nat
  BY RowAmount DEF MInv, CardMoneyFits, CInv, OpTypes
<1>4. ASSUME NEW account \in Accounts
      PROVE  /\ money[account] \in Int /\ CardOpening[account] \in Int
             /\ Total(account) \in Int /\ OnHold(account) \in Int
             /\ money[account] = CardOpening[account] + Total(account)
             /\ OnHold(account)' = OnHold(account) - HeldFrom(o, account)
             /\ Total(account)' = Total(account) + MovedInto(o, account)'
  <2>1. HeldFrom(o, account)' = 0 /\ MovedInto(o, account) = 0
    BY <1>2 DEF HeldFrom, MovedInto, InFlight
  <2>2. HeldFrom(o, account) \in Int /\ OnHold(account) \in Int /\ Total(account) \in Int
    BY TermsTyped, OnHoldTyped, MovedTyped
  <2>3. MovedInto(o, account)' \in Int
    BY <1>1, <1>2, <1>3 DEF MovedInto
  <2>4. /\ OnHold(account)' = OnHold(account) - HeldFrom(o, account) + 0
        /\ Total(account)' = Total(account) - 0 + MovedInto(o, account)'
    BY <1>1, <1>2, <1>3, <2>1, OneRowChanges
  <2>5. /\ money[account] \in Int /\ CardOpening[account] \in Int
        /\ money[account] = CardOpening[account] + Total(account)
    BY CardAssumption DEF MInv, CardMoneyFits, Accounts
  <2> HIDE DEF Total
  <2> QED BY <2>2, <2>3, <2>4, <2>5
<1>5. ASSUME NEW account \in Accounts
      PROVE  money'[account] = money[account] + MovedInto(o, account)'
  <2>1. Source(kind) \in Accounts /\ Target(kind) \in Accounts /\ Source(kind) # Target(kind)
    BY DEF Source, Target, Accounts
  <2>2. money' = IF kind \notin MoneyKinds THEN money
                 ELSE [money EXCEPT ![Source(kind)] = @ - n, ![Target(kind)] = @ + n]
    BY DEF Succeeded
  <2>3. MovedInto(o, account)' = IF kind \notin MoneyKinds THEN 0
                                 ELSE IF Source(kind) = account THEN -n
                                 ELSE IF Target(kind) = account THEN n ELSE 0
    BY <1>1, <1>2 DEF MovedInto
  <2>4. money \in [Accounts -> Int] /\ money[account] \in Int
    BY DEF MInv
  <2> HIDE DEF n, kind
  <2> QED BY <1>3, <2>1, <2>2, <2>3, <2>4
<1>6. ASSUME NEW account \in {"wallet", "funds"} PROVE Spendable(account)' >= 0
  <2>1. account \in Accounts /\ Spendable(account) >= 0
    BY DEF Accounts, MInv, CardMoneyFits
  <2>2. HeldFrom(o, account) = IF Source(kind) = account THEN n ELSE 0
    BY <1>3 DEF HeldFrom
  <2>3. MovedInto(o, account)' \in Int /\ MovedInto(o, account)' + HeldFrom(o, account) >= 0
    <3>1. CASE kind \notin MoneyKinds
      BY <1>1, <1>2, <1>3, <2>2, <3>1 DEF MovedInto
    <3>2. CASE kind \in MoneyKinds
      BY <1>1, <1>2, <1>3, <2>2, <3>2 DEF MovedInto
    <3> QED BY <3>1, <3>2
  <2>4. HeldFrom(o, account) \in Int /\ money'[account] = money[account] + MovedInto(o, account)'
    BY <1>5, <2>1, TermsTyped
  <2>5. /\ money[account] \in Int /\ OnHold(account) \in Int
        /\ OnHold(account)' = OnHold(account) - HeldFrom(o, account)
    BY <1>4, <2>1
  <2>6. Spendable(account)' = Spendable(account) + (MovedInto(o, account)' + HeldFrom(o, account))
    BY <2>3, <2>4, <2>5 DEF Spendable
  <2> QED BY <2>1, <2>3, <2>4, <2>5, <2>6 DEF Spendable
<1>7. /\ IsFiniteSet(OpsMade') /\ held' \in [CardOps -> Nat] /\ money' \in [Accounts -> Int]
  <2>1. money' \in [Accounts -> Int]
    <3>1. kind \notin MoneyKinds => money' = money
      BY DEF Succeeded
    <3>2. kind \in MoneyKinds =>
            money' = [money EXCEPT ![Source(kind)] = @ - n, ![Target(kind)] = @ + n]
      BY DEF Succeeded
    <3>3. money \in [Accounts -> Int]
      BY DEF MInv
    <3>4. kind \in MoneyKinds => Source(kind) \in Accounts /\ Target(kind) \in Accounts
      BY DEF Source, Target, Accounts
    <3> HIDE DEF n, kind
    <3> QED BY <1>3, <3>1, <3>2, <3>3, <3>4, TwoEntries
  <2>2. IsFiniteSet(OpsMade')
    BY <1>1, <1>2, OneRowChanges
  <2>3. held' \in [CardOps -> Nat]
    BY <1>2 DEF MInv
  <2> QED BY <2>1, <2>2, <2>3
<1>8. \A p \in CardOps :
        /\ op'[p].approval \in {"pending", "returned"} => op'[p].execution # "succeeded"
        /\ op'[p].kind \notin MoneyKinds => op'[p].amount = 0
        /\ held'[p] = IF InFlight(p)' THEN op'[p].amount ELSE 0
  <2>1. op[o].approval \notin {"pending", "returned"}
    BY DEF CInv, OpKept, InFlight
  <2> QED BY <1>1, <1>2, <2>1 DEF MInv, CardMoneyFits, InFlight
<1>9. \A account \in Accounts : money'[account] = CardOpening[account] + Total(account)'
  <2> SUFFICES ASSUME NEW account \in Accounts
               PROVE  money'[account] = CardOpening[account] + Total(account)'
    OBVIOUS
  <2>1. MovedInto(o, account)' \in Int
    BY <1>1, <1>2, <1>3 DEF MovedInto
  <2> HIDE DEF Total
  <2> QED BY <1>4, <1>5, <2>1
<1> QED BY <1>6, <1>7, <1>8, <1>9 DEF MInv, CardMoneyFits

(* Every step keeps the money.                                             *)
LEMMA MInvNext == ASSUME CInv, MInv, [CardNext]_cardVars PROVE MInv'
<1> USE CInvNext
<1>1. CASE UNCHANGED <<op, held, money>>
  BY <1>1 DEF MInv, CardMoneyFits, OpsMade, InFlight, Spendable, OnHold, HeldFrom, MovedInto
<1>2. ASSUME NEW o \in CardOps, NEW a \in Actors, NEW kind \in {"unfreeze"} \cup MoneyKinds,
             NEW n \in CardAmounts \cup {0}, kind = "unfreeze" => n = 0, Request(o, a, kind, n)
      PROVE  MInv'
  <2> DEFINE row == Row(a, kind, n, "pending")
  <2>1. kind \in CardKinds
    BY DEF CardKinds
  <2>2. row \in OpRow /\ row.execution = "pending" /\ row.kind = kind
    BY <2>1, RowTyped
  <2>3. row.amount = n
    BY NoOpTyped DEF Row, OpRow
  <2>4. op[o].execution = "none" /\ op' = [op EXCEPT ![o] = row] /\ UNCHANGED <<held, money>>
    BY <1>2 DEF Request, Unused, NoOp
  <2>5. row.kind \notin MoneyKinds => row.amount = 0
    BY <1>2, <2>2, <2>3
  <2> HIDE DEF row
  <2> QED BY <2>2, <2>4, <2>5, QuietMoney
<1>3. ASSUME NEW o \in CardOps, ClientUnfreeze(o) PROVE MInv'
  <2>1. CASE Unused(o) /\ op' = [op EXCEPT ![o] = [Row(Customer, "unfreeze", 0, "pending") EXCEPT !.asked = TRUE]]
    <3> DEFINE made == Row(Customer, "unfreeze", 0, "pending")
               row == [made EXCEPT !.asked = TRUE]
    <3>1. made \in OpRow /\ made.execution = "pending" /\ made.amount = 0
      BY RowTyped, NoOpTyped DEF CardKinds, Row, OpRow
    <3>2. row \in OpRow /\ row.execution = "pending" /\ row.amount = 0
      <4> HIDE DEF made
      <4> QED BY <3>1 DEF OpRow
    <3>3. op[o].execution = "none" /\ op' = [op EXCEPT ![o] = row] /\ UNCHANGED <<held, money>>
      BY <1>3, <2>1 DEF ClientUnfreeze, Unused, NoOp
    <3> HIDE DEF row
    <3> QED BY <3>2, <3>3, QuietMoney
  <2>2. CASE /\ op[o].approval = "returned"
             /\ op' = [op EXCEPT ![o] = [@ EXCEPT !.approval = "pending", !.execution = "pending",
                                                  !.reviewer = NoOne]]
    <3> DEFINE row == [op[o] EXCEPT !.approval = "pending", !.execution = "pending", !.reviewer = NoOne]
    <3>1. /\ op[o] \in OpRow /\ op[o].execution \notin {"processing", "succeeded"}
          /\ op[o].kind \notin MoneyKinds => op[o].amount = 0
      BY <2>2 DEF CInv, OpKept, OpTypes, MInv
    <3>2. /\ row \in OpRow /\ row.kind = op[o].kind /\ row.amount = op[o].amount
          /\ row.execution = "pending"
      BY <3>1 DEF OpRow
    <3>3. op' = [op EXCEPT ![o] = row] /\ UNCHANGED <<held, money>>
      BY <1>3, <2>2 DEF ClientUnfreeze
    <3> HIDE DEF row
    <3> QED BY <3>1, <3>2, <3>3, QuietMoney
  <2> QED BY <1>3, <2>1, <2>2 DEF ClientUnfreeze
<1>4. ASSUME NEW o \in CardOps, NEW a \in Actors \cup {Customer}, Unused(o), money' = money,
             NEW kind \in CardKinds \ MoneyKinds, Begin(o, Row(a, kind, 0, "not_required"))
      PROVE  MInv'
  <2> DEFINE row == Row(a, kind, 0, "not_required")
  <2>1. row \in OpRow /\ row.kind = kind
    BY RowTyped
  <2>3. row.amount = 0
    BY NoOpTyped DEF Row, OpRow
  <2>2. op[o].execution = "none" /\ Begin(o, row)
    BY <1>4 DEF Unused, NoOp
  <2> HIDE DEF row
  <2> QED BY <1>4, <2>1, <2>2, <2>3, BeginMoney
<1>5. ASSUME NEW o \in CardOps, NEW a \in Actors, Freeze(o, a) PROVE MInv'
  <2>1. "freeze" \in CardKinds \ MoneyKinds
    BY DEF CardKinds, MoneyKinds
  <2> QED BY <1>4, <1>5, <2>1 DEF Freeze
<1>6. ASSUME NEW o \in CardOps, ClientFreeze(o) PROVE MInv'
  <2>1. {"self_freeze", "self_unfreeze"} \subseteq CardKinds \ MoneyKinds
    BY DEF CardKinds, SelfKinds, MoneyKinds
  <2> QED BY <1>4, <1>6, <2>1 DEF ClientFreeze
<1>7. ASSUME NEW o \in CardOps, NEW a \in Actors, ApproveOp(o, a) PROVE MInv'
  <2> DEFINE row == [op[o] EXCEPT !.approval = "approved", !.reviewer = a]
             failed == [row EXCEPT !.execution = "failed"]
  <2>1. op[o] \in OpRow /\ op[o].execution \notin {"processing", "succeeded"}
    BY <1>7 DEF ApproveOp, Reviewable, CInv, OpKept, OpTypes, MInv
  <2>2. row \in OpRow /\ row.kind = op[o].kind /\ row.amount = op[o].amount
    BY <2>1 DEF OpRow
  <2>3. /\ money' = money
        /\ IF MayBegin(o, a) THEN Begin(o, row)
           ELSE op' = [op EXCEPT ![o] = failed] /\ held' = held
    BY <1>7 DEF ApproveOp
  <2>4. op[o].kind \notin MoneyKinds => op[o].amount = 0
    BY DEF MInv
  <2> HIDE DEF row
  <2>5. CASE MayBegin(o, a)
    <3>1. op[o].kind \in MoneyKinds => Spendable(Source(op[o].kind)) >= op[o].amount
      BY <2>5 DEF MayBegin
    <3> QED BY <2>1, <2>2, <2>3, <2>4, <2>5, <3>1, BeginMoney
  <2>6. CASE ~MayBegin(o, a)
    <3>1. /\ failed \in OpRow /\ failed.kind = op[o].kind /\ failed.amount = op[o].amount
          /\ failed.execution = "failed"
      BY <2>2 DEF OpRow
    <3> HIDE DEF failed
    <3> QED BY <2>1, <2>3, <2>4, <2>6, <3>1, QuietMoney
  <2> QED BY <2>5, <2>6
<1>8. ASSUME NEW o \in CardOps, NEW a \in Actors, RefuseOp(o, a) PROVE MInv'
  <2>1. PICK approval \in {"rejected", "returned"} :
          op' = [op EXCEPT ![o] = [@ EXCEPT !.approval = approval, !.reviewer = a,
                                            !.execution = "not_executed"]]
    BY <1>8 DEF RefuseOp
  <2> DEFINE row == [op[o] EXCEPT !.approval = approval, !.reviewer = a, !.execution = "not_executed"]
  <2>2. /\ op[o] \in OpRow /\ op[o].execution \notin {"processing", "succeeded"}
        /\ op[o].kind \notin MoneyKinds => op[o].amount = 0
    BY <1>8 DEF RefuseOp, Reviewable, CInv, OpKept, OpTypes, MInv
  <2>3. /\ row \in OpRow /\ row.kind = op[o].kind /\ row.amount = op[o].amount
        /\ row.execution = "not_executed"
    BY <2>2 DEF OpRow
  <2>4. op' = [op EXCEPT ![o] = row] /\ UNCHANGED <<held, money>>
    BY <1>8, <2>1 DEF RefuseOp
  <2> HIDE DEF row
  <2> QED BY <2>2, <2>3, <2>4, QuietMoney
<1>9. ASSUME NEW o \in CardOps, ProcessCardJob(o) \/ Work(o) PROVE MInv'
  BY <1>1, <1>9, FailedMoney, SucceededMoney DEF ProcessCardJob, Work, Unknown
<1>10. ASSUME NEW o \in CardOps, NEW a \in Actors, Refresh(o, a) PROVE MInv'
  BY <1>9, <1>10 DEF Refresh
<1>11. ASSUME NEW o \in CardOps, NEW a \in Actors,
              \/ Request(o, a, "unfreeze", 0)
              \/ \E kind \in MoneyKinds, n \in CardAmounts : Request(o, a, kind, n)
       PROVE  MInv'
  <2>1. "unfreeze" \notin MoneyKinds
    BY DEF MoneyKinds
  <2> QED BY <1>2, <1>11, <2>1
<1>12. CASE UNCHANGED cardVars
  BY <1>1, <1>12 DEF cardVars
<1> QED
  BY <1>3, <1>5, <1>6, <1>7, <1>8, <1>9, <1>10, <1>11, <1>12 DEF CardNext

(* At the start nothing is held and nothing has moved.                     *)
LEMMA MInvInit == CardInit => MInv
<1> SUFFICES ASSUME CardInit PROVE MInv
  OBVIOUS
<1>1. /\ OpsMade = {} /\ money = CardOpening
      /\ \A o \in CardOps : op[o] = NoOp /\ held[o] = 0
  BY DEF CardInit, OpsMade
<1>2. \A account \in Accounts : OnHold(account) = 0
  BY <1>1, SumEmpty DEF OnHold, SumFunction
<1>3. \A account \in Accounts : SumFunction([o \in OpsMade |-> MovedInto(o, account)]) = 0
  BY <1>1, SumEmpty DEF SumFunction
<1>4. CardOpening \in [Accounts -> Nat]
  BY CardAssumption DEF Accounts
<1>5. \A o \in CardOps : ~InFlight(o) /\ op[o].approval = "none" /\ op[o].amount = 0
  BY <1>1 DEF InFlight, NoOp
<1>6. \A account \in Accounts :
        money[account] \in Nat /\ money[account] = CardOpening[account] + 0
  BY <1>1, <1>4
<1>7. Spendable("wallet") >= 0 /\ Spendable("funds") >= 0
  BY <1>2, <1>6 DEF Spendable, Accounts
<1>8. held \in [CardOps -> Nat]
  BY DEF CardInit
<1> QED BY <1>1, <1>3, <1>4, <1>5, <1>6, <1>7, <1>8, FS_EmptySet DEF MInv, CardMoneyFits

(* However often an operation is asked after, its amount moves once, and   *)
(* what operations at work hold stays covered: no account is overspent by  *)
(* operations reviewed while others run (beginExecution, processCardJob).  *)
THEOREM CardMoneyAlwaysFits == CardSpec => []CardMoneyFits
<1>1. MInv => CardMoneyFits
  BY DEF MInv
<1> QED BY <1>1, CInvInit, CInvNext, MInvInit, MInvNext, PTL DEF CardSpec

(* The rows, jobs, holds and accounts of a card stay of their types; no    *)
(* account is ever below zero.                                             *)
THEOREM CardsTyped == CardSpec => []CardTypes
<1>1. ASSUME CInv, MInv PROVE CardTypes
  <2>1. ASSUME NEW account \in {"wallet", "funds"} PROVE money[account] >= 0
    <3>1. OnHold(account) \in Nat
      <4>1. IsFiniteSet(OpsMade) /\ \A o \in OpsMade : HeldFrom(o, account) \in Nat
        BY <1>1, TermsTyped DEF MInv, OpsMade, Accounts
      <4> QED BY <4>1, SumNat DEF OnHold, SumFunction
    <3>2. Spendable(account) >= 0 /\ money[account] \in Int
      BY <1>1 DEF MInv, CardMoneyFits, Accounts
    <3> QED BY <3>1, <3>2 DEF Spendable
  <2>2. money["receivable"] >= 0
    <3> DEFINE f == [o \in OpsMade |-> MovedInto(o, "receivable")]
    <3>1. IsFiniteSet(OpsMade) /\ \A o \in OpsMade : f[o] \in Nat
      BY <1>1, RowAmount DEF MInv, OpsMade, MovedInto, Source, CInv, OpTypes
    <3>2. SumFunction(f) \in Nat
      BY <3>1, SumNat DEF SumFunction
    <3>3. money["receivable"] = CardOpening["receivable"] + SumFunction(f)
      BY <1>1 DEF MInv, CardMoneyFits, Accounts
    <3>4. CardOpening["receivable"] \in Nat
      BY CardAssumption
    <3> QED BY <3>2, <3>3, <3>4
  <2>3. money \in [Accounts -> Nat]
    BY <1>1, <2>1, <2>2 DEF MInv, Accounts
  <2> QED
    BY <1>1, <2>3 DEF CardTypes, CInv, MInv, OpTypes, CardRow, OpRow, JobStates
<1> QED BY <1>1, CInvInit, CInvNext, MInvInit, MInvNext, PTL DEF CardSpec
=============================================================================
