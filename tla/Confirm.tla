------------------------------- MODULE Confirm ------------------------------
(***************************************************************************)
(* The dialogs that show what an action will do before they send it: the   *)
(* inputs are priced or checked, the result is shown, and a click confirms *)
(* it.  Prices, answers and clicks come in any order; an answer may be     *)
(* lost although the server has acted, and the click is repeated, or the   *)
(* request for the price, which may outlive the inputs it was for.         *)
(***************************************************************************)
EXTENDS Integers, FiniteSets

CONSTANT MaxShown  \* bound of the prices asked for, and of the clicks

ASSUME ConfirmAssumption == MaxShown \in Nat

VARIABLES
  dialog,    \* what the dialog on the page does
  inputs,    \* what its inputs hold
  offered,   \* the price on the page, or NothingShown
  pricing,   \* the price under way, or NothingShown
  unanswered, \* the request for a price kept without an answer, or NothingShown
  pricings,  \* prices asked for so far
  clicks,    \* confirmations sent so far
  sending,   \* the confirmation under way and its outcome, or NoClick
  kept,      \* the confirmation of unknown outcome that is kept, or NoClick
  executed,  \* what the server has done
  closed     \* the dialog has gone

confirmVars ==
  <<dialog, inputs, offered, pricing, unanswered, pricings, clicks, sending, kept, executed, closed>>

InputValues == {1, 2}
NothingShown == [of |-> 0, id |-> 0, fresh |-> FALSE, overtaken |-> FALSE]
NoClick == [what |-> 0, priced |-> 0, typed |-> 0, overtaken |-> FALSE, id |-> 0, key |-> 0, state |-> "none"]

-----------------------------------------------------------------------------
(* from: who makes the price (the "server", the "page" itself, or the      *)
(* server with every change of the "inputs"); hides: the price takes the   *)
(* place of the inputs; edits: inputs that change while a price is under   *)
(* way let it come ("late") or drop it ("drop"), or are "locked"; keeps: a *)
(* request for a price without an answer is kept and repeated; expires: a  *)
(* price may be confirmed for a while; sends: the "price" or the "inputs"; *)
(* once: what tells the server that a click was repeated: the "dialog" it  *)
(* is from, the "price", the price and a "key" kept with a click of        *)
(* unknown outcome, or "nothing".                                          *)
Dialog(from, hides, edits, keeps, expires, sends, once) ==
  [from |-> from, hides |-> hides, edits |-> edits, keeps |-> keeps, expires |-> expires,
   sends |-> sends, once |-> once]

CardAction == Dialog("server", TRUE, "late", FALSE, FALSE, "inputs", "dialog")
ExchangeForm == Dialog("server", FALSE, "locked", FALSE, TRUE, "price", "price")
WithdrawForm == Dialog("page", FALSE, "late", FALSE, FALSE, "inputs", "nothing")
ImportForm == Dialog("page", FALSE, "late", FALSE, FALSE, "price", "nothing")
FundsForm == Dialog("server", FALSE, "locked", TRUE, TRUE, "price", "key")
OtcForm == Dialog("inputs", FALSE, "drop", FALSE, TRUE, "price", "key")

AllDialogs == {CardAction, ExchangeForm, WithdrawForm, ImportForm, FundsForm, OtcForm}

-----------------------------------------------------------------------------
NothingSent == sending = NoClick /\ kept = NoClick
NothingAsked == pricing = NothingShown /\ unanswered = NothingShown

(* A price that was asked for inputs the page no longer has.               *)
OfOtherInputs(price) == IF price = NothingShown THEN price ELSE [price EXCEPT !.overtaken = TRUE]

MayEdit ==
  /\ ~closed /\ (dialog.hides => offered = NothingShown)
  /\ dialog.edits = "locked" => NothingAsked /\ sending = NoClick
  /\ dialog.once = "key" => NothingSent

Edited(v) ==
  /\ v # inputs /\ MayEdit /\ inputs' = v
  /\ pricing' = IF dialog.edits = "drop" THEN NothingShown ELSE OfOtherInputs(pricing)
  /\ UNCHANGED <<dialog, unanswered, pricings, clicks, sending, kept, executed, closed>>

(* Mistake: what is shown stays when the inputs change. *)
EditKeepingPrice(v) == Edited(v) /\ UNCHANGED offered

(* What is shown goes with the inputs it was for. *)
EditInputs(v) == Edited(v) /\ offered' = NothingShown

(* The page is left and opened again with other inputs, the other tab of   *)
(* the card for one: an answer under way is not shown any more, but the    *)
(* request may stay kept without one.                                      *)
LeavePage(v) ==
  /\ dialog.keeps /\ ~closed
  /\ inputs' = v /\ offered' = NothingShown /\ pricing' = NothingShown
  /\ \/ unanswered' = OfOtherInputs(IF pricing = NothingShown THEN unanswered ELSE pricing)
     \/ pricing # NothingShown /\ unanswered' = NothingShown
  /\ UNCHANGED <<dialog, pricings, clicks, sending, kept, executed, closed>>

Priced(id) == [of |-> inputs, id |-> id, fresh |-> TRUE, overtaken |-> FALSE]
AskPrice ==
  /\ ~closed /\ NothingSent /\ unanswered = NothingShown /\ pricings < MaxShown /\ pricings' = pricings + 1
  /\ CASE dialog.from = "page"   -> offered' = Priced(pricings') /\ UNCHANGED pricing
       [] dialog.from = "inputs" -> offered' = NothingShown /\ pricing' = Priced(pricings')
       [] dialog.from = "server" ->
            /\ pricing = NothingShown /\ (dialog.hides => offered = NothingShown) /\ pricing' = Priced(pricings')
            /\ offered' = IF dialog.once = "price" THEN NothingShown ELSE offered
  /\ UNCHANGED <<dialog, inputs, unanswered, clicks, sending, kept, executed, closed>>

PriceArrives ==
  /\ pricing # NothingShown /\ pricing' = NothingShown /\ offered' = pricing
  /\ UNCHANGED <<dialog, inputs, unanswered, pricings, clicks, sending, kept, executed, closed>>

(* Refused, or no answer: a request that is kept is repeated as it was,    *)
(* whatever the inputs are by then.                                        *)
PriceFails ==
  /\ pricing # NothingShown /\ pricing' = NothingShown
  /\ unanswered' \in (IF dialog.keeps THEN {pricing, NothingShown} ELSE {NothingShown})
  /\ UNCHANGED <<dialog, inputs, offered, pricings, clicks, sending, kept, executed, closed>>

RetryPrice ==
  /\ unanswered # NothingShown /\ pricing = NothingShown /\ NothingSent
  /\ pricing' = unanswered /\ unanswered' = NothingShown
  /\ UNCHANGED <<dialog, inputs, offered, pricings, clicks, sending, kept, executed, closed>>

Expire ==
  /\ dialog.expires /\ offered.fresh /\ offered' = [offered EXCEPT !.fresh = FALSE]
  /\ UNCHANGED <<dialog, inputs, pricing, unanswered, pricings, clicks, sending, kept, executed, closed>>

(* Back to the inputs. *)
Back ==
  /\ dialog.hides /\ offered # NothingShown /\ sending = NoClick /\ offered' = NothingShown
  /\ UNCHANGED <<dialog, inputs, pricing, unanswered, pricings, clicks, sending, kept, executed, closed>>

(* Mistake: every click is a request of its own. *)
KeyOfClick == clicks'

KeyFor == CASE dialog.once = "dialog" -> 1
            [] dialog.once = "price"  -> offered.id
            [] OTHER                  -> clicks'

ConfirmPrice ==
  /\ offered.fresh /\ ~closed /\ NothingSent /\ clicks < MaxShown
  /\ dialog.from = "server" => NothingAsked
  /\ clicks' = clicks + 1
  /\ sending' = [what |-> IF dialog.sends = "price" THEN offered.of ELSE inputs,
                 priced |-> offered.of, typed |-> inputs, overtaken |-> offered.overtaken,
                 id |-> offered.id, key |-> KeyFor, state |-> "sent"]
  /\ UNCHANGED <<dialog, inputs, offered, pricing, unanswered, pricings, kept, executed, closed>>

(* The server answers a repeated click with what it has done; a price is   *)
(* used once; everything may be refused, what was done before too.         *)
Repeated == {e \in executed: dialog.once \in {"dialog", "key"} /\ e.key = sending.key}
Used == {e \in executed: dialog.once \in {"price", "key"} /\ e.id = sending.id}

ServeClick ==
  /\ sending.state = "sent"
  /\ \/ /\ Repeated = {} /\ Used = {}
        /\ executed' = executed \cup {[sending EXCEPT !.state = "done"]}
        /\ sending' = [sending EXCEPT !.state = "done"]
     \/ /\ \E e \in Repeated: e.what = sending.what
        /\ sending' = [sending EXCEPT !.state = "done"] /\ UNCHANGED executed
     \/ sending' = [sending EXCEPT !.state = "refused"] /\ UNCHANGED executed
  /\ UNCHANGED <<dialog, inputs, offered, pricing, unanswered, pricings, clicks, kept, closed>>

ClickDone ==
  /\ sending.state = "done" /\ sending' = NoClick /\ kept' = NoClick
  /\ offered' = CASE dialog.once = "price"   -> [offered EXCEPT !.fresh = FALSE]
                [] dialog = WithdrawForm -> offered
                [] OTHER                 -> NothingShown
  /\ closed' = (dialog.once = "dialog")
  /\ UNCHANGED <<dialog, inputs, pricing, unanswered, pricings, clicks, executed>>

ClickRefused ==
  /\ sending.state = "refused" /\ sending' = NoClick /\ kept' = NoClick
  /\ UNCHANGED <<dialog, inputs, offered, pricing, unanswered, pricings, clicks, executed, closed>>

(* No answer, whether the server has acted or not. *)
ClickLost ==
  /\ sending # NoClick /\ sending' = NoClick
  /\ kept' = IF dialog.once = "key" THEN [sending EXCEPT !.state = "sent"] ELSE NoClick
  /\ UNCHANGED <<dialog, inputs, offered, pricing, unanswered, pricings, clicks, executed, closed>>

RetryKept ==
  /\ kept # NoClick /\ sending = NoClick /\ sending' = kept
  /\ UNCHANGED <<dialog, inputs, offered, pricing, unanswered, pricings, clicks, kept, executed, closed>>

ConfirmInit ==
  /\ dialog \in AllDialogs /\ inputs = 1 /\ offered = NothingShown /\ NothingAsked
  /\ pricings = 0 /\ clicks = 0 /\ sending = NoClick /\ kept = NoClick
  /\ executed = {} /\ closed = FALSE

ConfirmNext ==
  \/ \E v \in InputValues: EditInputs(v) \/ LeavePage(v)
  \/ AskPrice \/ PriceArrives \/ PriceFails \/ RetryPrice \/ Expire \/ Back \/ ConfirmPrice
  \/ ServeClick \/ ClickDone \/ ClickRefused \/ ClickLost \/ RetryKept

Clicks == [what: InputValues, priced: InputValues, typed: InputValues, overtaken: BOOLEAN,
           id: 1..MaxShown, key: 1..MaxShown, state: {"sent", "done", "refused"}]

ConfirmTypes ==
  /\ dialog \in AllDialogs /\ inputs \in InputValues
  /\ {offered, pricing, unanswered} \subseteq
       [of: {0} \cup InputValues, id: 0..MaxShown, fresh: BOOLEAN, overtaken: BOOLEAN]
  /\ pricings \in 0..MaxShown /\ clicks \in 0..MaxShown /\ closed \in BOOLEAN
  /\ {sending, kept} \ {NoClick} \subseteq Clicks /\ executed \subseteq Clicks

-----------------------------------------------------------------------------
(* The page showed the price next to the inputs it was made for. *)
AsShown(e) == e.priced = e.typed

(* Whatever is under way, was executed or is repeated was confirmed on a   *)
(* page whose price was that of its inputs.  Two dialogs alone may confirm *)
(* a price of other inputs, and only one that was overtaken on its way:    *)
(* the card's, whose inputs change under the preview, and that of the      *)
(* funds, which repeats a request from before it was left.  And however    *)
(* often a click is repeated after a lost answer, a price that was         *)
(* confirmed is executed once, and so is a dialog that names its request.  *)
ConfirmedOnceAsShown ==
  /\ \A e \in executed \cup {sending, kept}: AsShown(e) \/ (e.overtaken /\ dialog \in {CardAction, FundsForm})
  /\ dialog.once # "nothing" =>
       \A e, f \in executed: (e.id = f.id \/ dialog.once = "dialog") => e = f

(* What the card's dialog sends, and what the server does to the card, is  *)
(* what was previewed (CardAdminPage.tsx, preview and submit).             *)
SentAsConfirmed ==
  dialog = CardAction => \A e \in executed \cup {sending}: e.what = e.priced

(* A price of the funds is confirmed for the inputs the page has: a change *)
(* of the direction, amount or network voids the quote (CustomerFunds.tsx, *)
(* invalidate and run).                                                    *)
FundsAsShown ==
  dialog = FundsForm => \A e \in executed \cup {sending}: AsShown(e)
=============================================================================
