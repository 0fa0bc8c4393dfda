------------------------------- MODULE Wallet -------------------------------
(***************************************************************************)
(* The customer's wallet in the portal (portal/model.ts): deposits,        *)
(* exchanges at a quote, withdrawals, and money moved to and from cards,   *)
(* with the simulated outcomes of the orders.  Every action is one         *)
(* transition of the whole state; which request carries it, and how often, *)
(* is the matter of module PortalPage.  An event that was already applied  *)
(* changes nothing and is left out.                                        *)
(***************************************************************************)
EXTENDS Integers, FiniteSetsExt

CONSTANTS
  WalletIds,      \* identifiers of orders and quotes, in the order they are made
  WalletCards,
  MoveAmounts,    \* amounts that may be moved
  PayoutFee,      \* fee of a withdrawal
  Receives,       \* amount exchanged -> amount received
  WalletOpening,  \* currency -> what is available at first
  CardBudget      \* card -> what is on it at first

Currencies == {"USD", "USDT"}

ASSUME WalletAssumption ==
  /\ WalletIds \subseteq Nat /\ MoveAmounts \subseteq Nat \ {0} /\ PayoutFee \in Nat
  /\ Receives \in [MoveAmounts -> Nat]
  /\ WalletOpening \in [Currencies -> Nat] /\ CardBudget \in [WalletCards -> Nat]
  /\ "none" \notin WalletCards

VARIABLES
  balance,   \* currency -> state.balance and finance.usdt
  reserved,  \* currency -> finance.heldUsd and finance.heldUsdt
  budget,    \* card -> its balance
  frozen,    \* card -> whether the customer froze it
  address,   \* whether the address of the customer's book is enabled
  item       \* identifier -> the order or the quote of finance

walletVars == <<balance, reserved, budget, frozen, address, item>>

NoItem == [kind |-> "none", status |-> "none", from |-> "USD", amount |-> 0, fee |-> 0,
           receive |-> 0, card |-> "none", quote |-> -1]

WalletInit ==
  /\ balance = WalletOpening /\ reserved = [c \in Currencies |-> 0]
  /\ budget = CardBudget /\ frozen = [c \in WalletCards |-> FALSE] /\ address = TRUE
  /\ item = [i \in WalletIds |-> NoItem]

Fresh(i) == item[i] = NoItem /\ \A j \in WalletIds : j < i => item[j] # NoItem
Made(i, row) == item' = [item EXCEPT ![i] = row]
Opposite(c) == IF c = "USD" THEN "USDT" ELSE "USD"

(* What an order takes from the wallet until its result is known. *)
Hold(i) == item[i].amount + (IF item[i].kind = "withdraw" THEN item[i].fee ELSE 0)

(* reserve and release: available money becomes reserved, and back. *)
ReserveFunds(c, n) ==
  /\ balance[c] >= n
  /\ balance' = [balance EXCEPT ![c] = @ - n] /\ reserved' = [reserved EXCEPT ![c] = @ + n]
ReleaseFunds(i) ==
  /\ reserved[item[i].from] >= Hold(i)
  /\ balance' = [balance EXCEPT ![item[i].from] = @ + Hold(i)]
  /\ reserved' = [reserved EXCEPT ![item[i].from] = @ - Hold(i)]

CardsUnchanged == UNCHANGED <<budget, frozen, address>>
FundsUnchanged == UNCHANGED <<balance, reserved>>

-----------------------------------------------------------------------------
(* The customer's actions.                                                 *)
Deposit(i, n) ==
  /\ Fresh(i)
  /\ Made(i, [NoItem EXCEPT !.kind = "deposit", !.status = "awaited", !.from = "USDT",
                            !.amount = n, !.receive = n])
  /\ FundsUnchanged /\ CardsUnchanged

AskQuote(i, c, n) ==
  /\ Fresh(i)
  /\ Made(i, [NoItem EXCEPT !.kind = "quote", !.status = "usable", !.from = c,
                            !.amount = n, !.receive = Receives[n]])
  /\ FundsUnchanged /\ CardsUnchanged

(* A quote lasts a minute. *)
QuoteExpires(i) ==
  /\ item[i].kind = "quote" /\ item[i].status = "usable"
  /\ item' = [item EXCEPT ![i].status = "expired"]
  /\ FundsUnchanged /\ CardsUnchanged

Exchanging(q) == [item[q] EXCEPT !.kind = "exchange", !.status = "processing", !.quote = q]

ExchangeAtQuote(i, q) ==
  /\ Fresh(i) /\ item[q].kind = "quote" /\ item[q].status = "usable"
  /\ ReserveFunds(item[q].from, item[q].amount)
  /\ item' = [item EXCEPT ![q].status = "used", ![i] = Exchanging(q)]
  /\ CardsUnchanged

ToggleAddress == address' = ~address /\ UNCHANGED <<budget, frozen, item>> /\ FundsUnchanged

WithdrawFunds(i, n) ==
  /\ Fresh(i) /\ address
  /\ ReserveFunds("USDT", n + PayoutFee)
  /\ Made(i, [NoItem EXCEPT !.kind = "withdraw", !.status = "review", !.from = "USDT",
                            !.amount = n, !.fee = PayoutFee, !.receive = n])
  /\ CardsUnchanged

TopUp(i, c, n) ==
  /\ Fresh(i) /\ ~frozen[c] /\ n <= balance["USD"]
  /\ balance' = [balance EXCEPT !["USD"] = @ - n]
  /\ budget' = [budget EXCEPT ![c] = @ + n]
  /\ Made(i, [NoItem EXCEPT !.kind = "topup", !.status = "completed", !.amount = n,
                            !.receive = n, !.card = c])
  /\ UNCHANGED <<reserved, frozen, address>>

(* The money leaves the card at once and reaches the wallet with the result. *)
CardReturn(i, c, n) ==
  /\ Fresh(i) /\ ~frozen[c] /\ budget[c] >= n
  /\ budget' = [budget EXCEPT ![c] = @ - n]
  /\ Made(i, [NoItem EXCEPT !.kind = "return", !.status = "processing", !.amount = n,
                            !.receive = n, !.card = c])
  /\ UNCHANGED <<frozen, address>> /\ FundsUnchanged

ToggleFreeze(c) ==
  /\ frozen' = [frozen EXCEPT ![c] = ~@]
  /\ UNCHANGED <<budget, address, item>> /\ FundsUnchanged

Ends(i, status) == item' = [item EXCEPT ![i].status = status]

(* Mistake: a withdrawal that was cancelled can be cancelled again. *)
CancelAgain(i) ==
  /\ item[i].kind = "withdraw" /\ item[i].status = "review"
  /\ ReleaseFunds(i) /\ UNCHANGED item /\ CardsUnchanged

CancelWithdrawal(i) ==
  /\ item[i].kind = "withdraw" /\ item[i].status = "review"
  /\ ReleaseFunds(i) /\ Ends(i, "cancelled") /\ CardsUnchanged

-----------------------------------------------------------------------------
(* finance/simulate: the events of an order.                               *)
DepositEvent(i) ==
  /\ item[i].kind = "deposit"
  /\ \/ item[i].status = "awaited" /\ Ends(i, "confirming") /\ FundsUnchanged
     \/ item[i].status = "confirming" /\ Ends(i, "checking") /\ FundsUnchanged
     \/ /\ item[i].status \in {"confirming", "checking"} /\ Ends(i, "completed")
        /\ balance' = [balance EXCEPT !["USDT"] = @ + item[i].receive] /\ UNCHANGED reserved
  /\ CardsUnchanged

ReviewEvent(i) ==
  /\ item[i].kind = "withdraw" /\ item[i].status = "review"
  /\ \/ Ends(i, "processing") /\ FundsUnchanged
     \/ Ends(i, "rejected") /\ ReleaseFunds(i)
  /\ CardsUnchanged

Pending(i) == item[i].status \in {"processing", "unknown"}

(* A result that times out stays to be found; the money stays reserved. *)
UnknownEvent(i) ==
  /\ item[i].kind \in {"withdraw", "exchange", "return"} /\ item[i].status = "processing"
  /\ Ends(i, "unknown") /\ FundsUnchanged /\ CardsUnchanged

CompleteEvent(i) ==
  /\ Pending(i) /\ Ends(i, "completed")
  /\ \/ /\ item[i].kind = "withdraw" /\ reserved["USDT"] >= Hold(i)
        /\ reserved' = [reserved EXCEPT !["USDT"] = @ - Hold(i)] /\ UNCHANGED balance
     \/ /\ item[i].kind = "exchange" /\ reserved[item[i].from] >= Hold(i)
        /\ reserved' = [reserved EXCEPT ![item[i].from] = @ - Hold(i)]
        /\ balance' = [balance EXCEPT ![Opposite(item[i].from)] = @ + item[i].receive]
     \/ /\ item[i].kind = "return"
        /\ balance' = [balance EXCEPT !["USD"] = @ + item[i].receive] /\ UNCHANGED reserved
  /\ CardsUnchanged

(* A return that failed goes back to its card, also to a frozen one. *)
FailEvent(i) ==
  /\ Pending(i) /\ Ends(i, "failed")
  /\ \/ item[i].kind \in {"withdraw", "exchange"} /\ ReleaseFunds(i) /\ UNCHANGED budget
     \/ /\ item[i].kind = "return" /\ FundsUnchanged
        /\ budget' = [budget EXCEPT ![item[i].card] = @ + item[i].amount]
  /\ UNCHANGED <<frozen, address>>

WalletNext ==
  \/ ToggleAddress
  \/ \E i \in WalletIds :
       \/ QuoteExpires(i) \/ CancelWithdrawal(i)
       \/ DepositEvent(i) \/ ReviewEvent(i) \/ UnknownEvent(i) \/ CompleteEvent(i) \/ FailEvent(i)
       \/ \E q \in WalletIds : ExchangeAtQuote(i, q)
       \/ \E n \in MoveAmounts :
            \/ Deposit(i, n) \/ WithdrawFunds(i, n) \/ \E c \in Currencies : AskQuote(i, c, n)
            \/ \E c \in WalletCards : TopUp(i, c, n) \/ CardReturn(i, c, n)
  \/ \E c \in WalletCards : ToggleFreeze(c)

WalletSpec == WalletInit /\ [][WalletNext]_walletVars

-----------------------------------------------------------------------------
(* Types of all variables. *)
WalletTypes ==
  /\ balance \in [Currencies -> Nat] /\ reserved \in [Currencies -> Nat]
  /\ budget \in [WalletCards -> Nat] /\ frozen \in [WalletCards -> BOOLEAN] /\ address \in BOOLEAN
  /\ item \in [WalletIds -> [
       kind : {"none", "deposit", "quote", "exchange", "withdraw", "topup", "return"},
       status : {"none", "awaited", "confirming", "checking", "usable", "used", "expired",
                 "review", "processing", "unknown", "completed", "failed", "rejected", "cancelled"},
       from : Currencies, amount : Nat, fee : Nat, receive : Nat,
       card : WalletCards \cup {"none"}, quote : WalletIds \cup {-1}]]

(* What an order did to a currency so far. *)
Undone(i) == item[i].status \in {"failed", "rejected", "cancelled"}
Taken(i, c) ==
  IF item[i].kind \in {"exchange", "withdraw", "topup"} /\ item[i].from = c /\ ~Undone(i)
  THEN Hold(i) ELSE 0
Brought(i, c) ==
  IF item[i].status = "completed"
       /\ \/ item[i].kind = "deposit" /\ c = "USDT"
          \/ item[i].kind = "exchange" /\ item[i].from # c
          \/ item[i].kind = "return" /\ c = "USD"
  THEN item[i].receive ELSE 0
Underway(i) == item[i].status \in {"review", "processing", "unknown"}
OnCard(i, c) ==
  IF item[i].card # c \/ Undone(i) THEN 0
  ELSE IF item[i].kind = "topup" THEN item[i].amount ELSE -item[i].amount

Change(i, c) == Brought(i, c) - Taken(i, c)
Withheld(i, c) == IF Underway(i) /\ item[i].kind # "return" THEN Taken(i, c) ELSE 0
Entries == {i \in WalletIds : item[i] # NoItem}

(* Every balance is what the orders say: each order took and brought its   *)
(* amount once, the reserved money is that of the orders whose result is   *)
(* open, a failure gave everything back, the fee included, and no quote    *)
(* served two orders.                                                      *)
WalletMatchesOrders ==
  /\ \A c \in Currencies :
       /\ balance[c] = WalletOpening[c] + SumFunction([i \in Entries |-> Change(i, c)])
       /\ reserved[c] = SumFunction([i \in Entries |-> Withheld(i, c)])
  /\ \A c \in WalletCards :
       budget[c] = CardBudget[c] + SumFunction([i \in Entries |-> OnCard(i, c)])
  /\ \A i, j \in WalletIds : item[i].quote # -1 /\ item[i].quote = item[j].quote => i = j
=============================================================================
