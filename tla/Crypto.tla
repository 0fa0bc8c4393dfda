------------------------------- MODULE Crypto -------------------------------
(***************************************************************************)
(* The crypto funds orders of one customer on the live channel:            *)
(* internal/cryptofunds.  Withdrawals (reviewed, paid out by the custody   *)
(* channel), exchanges and deposits, each driven through its ledger moves  *)
(* by Process, which holds the customer's lock and saves the order once,   *)
(* at its end.  What it wrote elsewhere by then stays when it stops before:*)
(* the ledger's operations, and the row of the payout request, which is    *)
(* committed by itself before the channel is asked.                        *)
(*                                                                         *)
(* The ledger appears as it promises to behave (LedgerPromise); a payout   *)
(* whose answer was lost may still be made, and what the channel said of a *)
(* payout that is over it says for ever.                                   *)
(***************************************************************************)
EXTENDS Integers, FiniteSetsExt

CONSTANTS
  Payouts,       \* orders of the kind withdrawal
  Conversions,   \* orders of the kind otc
  Incoming,      \* orders of the kind deposit: one for each chain transfer
  CryptoTerms,   \* order -> its currencies, amount, fee and amount received;
                 \* nothing is quoted for an amount that is not positive
  CryptoOpening  \* currency -> what the wallet holds at first

CryptoOrders == Payouts \cup Conversions \cup Incoming
Coins == {"USD", "USDT"}

ASSUME CryptoAssumption ==
  /\ Payouts \cap Conversions = {} /\ Incoming \cap (Payouts \cup Conversions) = {}
  /\ CryptoTerms \in [CryptoOrders -> [sells: Coins, buys: Coins, amount: Nat, fee: Nat, receive: Nat]]
  /\ \A o \in Payouts \cup Conversions : CryptoTerms[o].amount > 0
  /\ \A o \in Conversions : CryptoTerms[o].fee = 0
  /\ CryptoOpening \in [Coins -> Nat]

VARIABLES
  filed,      \* crypto_orders.state, "absent" before the row exists
  resolution, \* why the hold of an order goes back
  driver,     \* the Process that holds the customer's lock: order, step, state
  leg,        \* the ledger operation of each move of an order
  recorded,   \* orders with a row in funds_provider_requests
  known,      \* orders whose provider_id is stored
  wire,       \* payout requests the channel may still execute
  custody,    \* the payout at the channel
  made        \* payouts the channel made for the order

cryptoVars == <<filed, resolution, driver, leg, recorded, known, wire, custody, made>>

FiledStates == {"absent", "reserving", "pending_review", "processing", "unknown", "releasing",
                "completed", "rejected", "cancelled", "failed"}
CryptoOver == {"completed", "rejected", "cancelled", "failed"}
CryptoLegs == {"reserve", "release", "buy_reserve", "sell_settle", "buy_release", "payout", "fee",
               "credit"}
Resting == [order |-> "none", step |-> "none", state |-> "none"]

CryptoInit ==
  /\ filed = [o \in CryptoOrders |-> "absent"]
  /\ resolution = [o \in CryptoOrders |-> "none"]
  /\ driver = Resting
  /\ leg = [o \in CryptoOrders |-> [l \in CryptoLegs |-> "absent"]]
  /\ recorded = {} /\ known = {} /\ wire = {}
  /\ custody = [o \in Payouts |-> "none"]
  /\ made = [o \in Payouts |-> 0]

-----------------------------------------------------------------------------
(* The ledger's side: what each move takes from where.                     *)
MovesWith(released) ==
  [o \in CryptoOrders |->
     LET t == CryptoTerms[o]
         move(from, to, amount) == [from |-> from, to |-> to, amount |-> amount] IN
     [reserve     |-> move(<<"wallet", t.sells>>, <<"hold", o>>, t.amount + t.fee),
      release     |-> move(<<"hold", o>>, <<"wallet", t.sells>>, released[o]),
      buy_reserve |-> move(<<"clearing", t.buys>>, <<"buy", o>>, t.receive),
      sell_settle |-> move(<<"hold", o>>, <<"clearing", t.sells>>, t.amount),
      buy_release |-> move(<<"buy", o>>, <<"wallet", t.buys>>, t.receive),
      payout      |-> move(<<"hold", o>>, <<"clearing", t.sells>>, t.amount),
      fee         |-> move(<<"hold", o>>, <<"fees", t.sells>>, t.fee),
      credit      |-> move(<<"clearing", t.buys>>, <<"wallet", t.buys>>, t.amount)]]

(* Mistake: the fee is kept when the hold goes back. *)
MovesKeepingFee == MovesWith([o \in CryptoOrders |-> CryptoTerms[o].amount])

Moves == MovesWith([o \in CryptoOrders |-> CryptoTerms[o].amount + CryptoTerms[o].fee])

MovedLegs == {m \in CryptoOrders \X CryptoLegs : leg[m[1]][m[2]] \in {"posted", "applied"}}
SumOfLegs(ms) == SumFunction([m \in ms |-> Moves[m[1]][m[2]].amount])
Holding(a) ==
  (IF a[1] = "wallet" THEN CryptoOpening[a[2]] ELSE 0)
    + SumOfLegs({m \in MovedLegs : Moves[m[1]][m[2]].to = a})
    - SumOfLegs({m \in MovedLegs : Moves[m[1]][m[2]].from = a})
Payable(o, l) ==
  \/ Moves[o][l].from[1] = "clearing"
  \/ Holding(Moves[o][l].from) >= Moves[o][l].amount

LegChange(o, l, from, to) ==
  /\ leg[o][l] = from /\ leg' = [leg EXCEPT ![o][l] = to]
  /\ UNCHANGED <<filed, resolution, driver, recorded, known, wire, custody, made>>

(* The money moves, the operation learns it, or nothing can be moved.      *)
LedgerStep(o, l) ==
  \/ LegChange(o, l, "pending", "posted") /\ Payable(o, l)
  \/ LegChange(o, l, "posted", "applied")
  \/ LegChange(o, l, "pending", "refused") /\ ~Payable(o, l)

-----------------------------------------------------------------------------
ChannelUnchanged == UNCHANGED <<recorded, known, wire, custody, made>>
Aside == leg' = leg /\ ChannelUnchanged
File(o, s) == filed' = [filed EXCEPT ![o] = s]

(* Commands and verified deposits wait for the customer's lock.            *)
Command(o, from, to, why) ==
  /\ driver = Resting
  /\ filed[o] = from /\ File(o, to)
  /\ resolution' = [resolution EXCEPT ![o] = why]
  /\ UNCHANGED driver /\ Aside

PlaceOrder(o) == o \in Payouts \cup Conversions /\ Command(o, "absent", "reserving", "none")
(* liveEvent: callbacks for a transfer that has its order find that order. *)
DepositVerified(o) == o \in Incoming /\ Command(o, "absent", "processing", "none")
ApprovePayout(o) == o \in Payouts /\ Command(o, "pending_review", "processing", "none")
RejectPayout(o) == o \in Payouts /\ Command(o, "pending_review", "releasing", "rejected")
CancelPayout(o) == o \in Payouts /\ Command(o, "pending_review", "releasing", "cancelled")

-----------------------------------------------------------------------------
(* Process.  driver.state is the state the order would be saved with.      *)
Driving(o, step) == driver.order = o /\ driver.step = step
GoTo(o, step, s) == driver' = [order |-> o, step |-> step, state |-> s]
Proceed(o, step, s) == GoTo(o, step, s) /\ UNCHANGED <<filed, resolution>>
SaveAs(o, s) == File(o, s) /\ driver' = Resting /\ UNCHANGED resolution
SaveResolved(o, s, why) ==
  /\ File(o, s) /\ driver' = Resting
  /\ resolution' = [resolution EXCEPT ![o] = why]

WorkOf(o) ==
  CASE o \in Payouts     -> "request"
    [] o \in Conversions -> "buy_reserve"
    [] o \in Incoming    -> "credit"
FirstStep(o) ==
  CASE filed[o] = "reserving" -> "reserve"
    [] filed[o] = "releasing" -> "release"
    [] OTHER                  -> WorkOf(o)

Drive(o) ==
  /\ driver = Resting
  /\ filed[o] \in {"reserving", "processing", "releasing", "unknown"}
  /\ Proceed(o, FirstStep(o), IF filed[o] = "unknown" THEN "processing" ELSE filed[o])
  /\ Aside

(* It stops before it has saved anything. *)
DriverStops ==
  /\ driver # Resting
  /\ driver' = Resting
  /\ UNCHANGED <<filed, resolution>> /\ Aside

(* move: submit the operation of the leg, whose key is the order's.        *)
SubmitLeg(o, l) ==
  /\ Driving(o, l)
  /\ Moves[o][l].amount > 0
  /\ LegChange(o, l, "absent", "pending")

FollowedBy == [buy_reserve |-> "sell_settle", sell_settle |-> "buy_release", payout |-> "fee"]

LegDone(o, l) ==
  /\ Driving(o, l)
  /\ leg[o][l] = "applied" \/ Moves[o][l].amount = 0
  /\ CASE l = "reserve" ->
            IF o \in Payouts THEN SaveAs(o, "pending_review")
            ELSE Proceed(o, "buy_reserve", "processing")
       [] l = "release" -> SaveAs(o, resolution[o])
       [] l \in DOMAIN FollowedBy -> Proceed(o, FollowedBy[l], driver.state)
       [] OTHER -> SaveAs(o, "completed")
  /\ Aside

(* The wallet does not cover a reservation: the order is over.  Any other  *)
(* refusal, and an answer that does not come, leave the order where it is. *)
LegRefused(o) ==
  /\ Driving(o, "reserve") /\ leg[o]["reserve"] = "refused"
  /\ SaveAs(o, "rejected") /\ Aside
LegUnanswered(o, l) ==
  /\ Driving(o, l)
  /\ SaveAs(o, driver.state) /\ Aside

-----------------------------------------------------------------------------
(* payout: a withdrawal is asked for once, and asked about afterwards.     *)
(* The row cannot be read, or the network, coin or address is not ready.   *)
PayoutUnready(o) ==
  /\ Driving(o, "request")
  /\ SaveAs(o, "unknown") /\ Aside

RecordPayout(o) ==
  /\ Driving(o, "request") /\ o \notin recorded
  /\ recorded' = recorded \cup {o}
  /\ Proceed(o, "post", driver.state)
  /\ UNCHANGED <<leg, known, wire, custody, made>>

RecallPayout(o) ==
  /\ Driving(o, "request") /\ o \in recorded
  /\ IF o \in known THEN Proceed(o, "query", driver.state) ELSE SaveAs(o, "unknown")
  /\ Aside

PostPayout(o) ==
  /\ Driving(o, "post")
  /\ wire' = wire \cup {o}
  /\ Proceed(o, "wait", driver.state)
  /\ UNCHANGED <<leg, recorded, known, custody, made>>

PayoutAnswered(o) ==
  /\ Driving(o, "wait") /\ o \notin wire /\ custody[o] # "none"
  /\ known' = known \cup {o}
  /\ Proceed(o, "query", driver.state)
  /\ UNCHANGED <<leg, recorded, wire, custody, made>>

(* Mistake: a request without an answer counts as failed. *)
PayoutUnansweredIsFailure(o) ==
  /\ Driving(o, "wait")
  /\ SaveResolved(o, "releasing", "failed") /\ Aside

PayoutUnanswered(o) ==
  /\ Driving(o, "wait")
  /\ SaveAs(o, "unknown") /\ Aside

(* QueryPayout: no answer, one that is open, or one whose transaction is   *)
(* not verified on the chain says nothing.                                 *)
PayoutUnclear(o) ==
  /\ Driving(o, "query")
  /\ SaveAs(o, "unknown") /\ Aside
PayoutFailed(o) ==
  /\ Driving(o, "query") /\ custody[o] = "failed"
  /\ SaveResolved(o, "releasing", "failed") /\ Aside
PayoutConfirmed(o) ==
  /\ Driving(o, "query") /\ custody[o] = "paid"
  /\ Proceed(o, "payout", driver.state) /\ Aside

(* liveEvent: a callback tells the identifier of a payout.                 *)
PayoutCalledBack(o) ==
  /\ custody[o] # "none" /\ o \in recorded
  /\ known' = known \cup {o}
  /\ UNCHANGED <<filed, resolution, driver, leg, recorded, wire, custody, made>>

(* The custody channel. *)
CustodyMakes(o) ==
  /\ o \in wire /\ wire' = wire \ {o}
  /\ custody' = [custody EXCEPT ![o] = IF @ = "none" THEN "open" ELSE @]
  /\ made' = [made EXCEPT ![o] = @ + 1]
  /\ UNCHANGED <<filed, resolution, driver, leg, recorded, known>>
CustodyDrops(o) ==
  /\ o \in wire /\ wire' = wire \ {o}
  /\ UNCHANGED <<filed, resolution, driver, leg, recorded, known, custody, made>>
CustodyEnds(o, how) ==
  /\ custody[o] = "open" /\ custody' = [custody EXCEPT ![o] = how]
  /\ UNCHANGED <<filed, resolution, driver, leg, recorded, known, wire, made>>

-----------------------------------------------------------------------------
PayoutStep(o) ==
  \/ ApprovePayout(o) \/ RejectPayout(o) \/ CancelPayout(o)
  \/ PayoutUnready(o) \/ RecordPayout(o) \/ RecallPayout(o) \/ PostPayout(o)
  \/ PayoutAnswered(o) \/ PayoutUnanswered(o)
  \/ PayoutUnclear(o) \/ PayoutFailed(o) \/ PayoutConfirmed(o)
  \/ PayoutCalledBack(o) \/ CustodyMakes(o) \/ CustodyDrops(o)
  \/ \E how \in {"paid", "failed"} : CustodyEnds(o, how)

CryptoNext ==
  \/ \E o \in CryptoOrders : PlaceOrder(o) \/ DepositVerified(o) \/ Drive(o) \/ LegRefused(o)
  \/ \E o \in CryptoOrders, l \in CryptoLegs :
       LedgerStep(o, l) \/ SubmitLeg(o, l) \/ LegDone(o, l) \/ LegUnanswered(o, l)
  \/ DriverStops
  \/ \E o \in Payouts : PayoutStep(o)

CryptoSpec == CryptoInit /\ [][CryptoNext]_cryptoVars

-----------------------------------------------------------------------------
CryptoTypes ==
  /\ filed \in [CryptoOrders -> FiledStates]
  /\ resolution \in [CryptoOrders -> {"none", "rejected", "cancelled", "failed"}]
  /\ driver = Resting \/ driver \in [order: CryptoOrders,
       step: CryptoLegs \cup {"request", "post", "wait", "query"},
       state: {"reserving", "processing", "releasing"}]
  /\ leg \in [CryptoOrders -> [CryptoLegs -> {"absent", "pending", "posted", "applied", "refused"}]]
  /\ recorded \subseteq Payouts /\ known \subseteq recorded /\ wire \subseteq recorded
  /\ custody \in [Payouts -> {"none", "open", "paid", "failed"}]
  /\ made \in [Payouts -> Nat]

(* A withdrawal is paid out once at most.  Its hold goes back only when    *)
(* the channel was never asked or said that the payout failed, and is      *)
(* spent only when it was paid (cryptofunds/live.go:254, "payout returns   *)
(* confirmed or failed only from matching authenticated evidence").        *)
PaidOutOnce ==
  \A o \in Payouts :
    /\ made[o] <= 1
    /\ leg[o]["release"] # "absent" =>
         \/ custody[o] = "failed"
         \/ o \notin recorded /\ o \notin wire /\ custody[o] = "none"
    /\ leg[o]["payout"] # "absent" => custody[o] = "paid"

(* Whatever stops Process between two moves, an order that is over leaves  *)
(* nothing in escrow, no move but a reservation lacks money, and money     *)
(* that was bought is there only after the money sold for it left          *)
(* (cryptofunds/worker.go:158).                                            *)
NothingStranded ==
  /\ \A o \in CryptoOrders :
       /\ filed[o] \in CryptoOver => Holding(<<"hold", o>>) = 0 /\ Holding(<<"buy", o>>) = 0
       /\ \A l \in CryptoLegs \ {"reserve"} : leg[o][l] # "refused"
  /\ \A o \in Conversions : leg[o]["buy_release"] # "absent" => leg[o]["sell_settle"] = "applied"
=============================================================================
