---------------------------- MODULE MCWorkspace -----------------------------
(* The parts of the local workspace and of the client's pages, side by     *)
(* side.  No part reads or writes another's state, so that a behaviour of  *)
(* the whole is one of each part: one part runs in each behaviour here,    *)
(* and the others keep their initial state.                                *)
EXTENDS Finance, CardAdmin, Management, Catalog, Wallet, PortalPage, CvvSession, Checkout, Fx, Crypto, Screens,
        Editors, Confirm, Inbox, CardDesk, TLC

VARIABLE part

Parts == {"finance", "cards", "management", "catalog", "wallet", "portal", "cvv", "checkout",
          "fx", "crypto", "screens", "editors", "confirm", "inbox", "desk"}

Start ==
  /\ FinanceInit /\ CardInit /\ ManagementInit /\ CatalogInit
  /\ WalletInit /\ PortalInit /\ CvvInit /\ CheckoutInit /\ FxInit
  /\ CryptoInit /\ ScreensInit /\ EditorsInit /\ ConfirmInit /\ InboxInit /\ DeskInit
(* The card first viewed, the screen, the form and the dialog matter only  *)
(* in their own parts.                                                     *)
Init ==
  /\ Start /\ part \in Parts
  /\ part # "cvv" => viewed[1] = "s1"
  /\ part # "screens" => screen = OverviewPage
  /\ part # "editors" => editor = SettingsForm
  /\ part # "confirm" => dialog = CardAction

Only(p) == part = p /\ part' = p
FinancePart ==
  /\ Only("finance") /\ FinanceNext
  /\ UNCHANGED <<cardVars, managementVars, catalogVars, walletVars, portalVars, cvvVars, checkoutVars,
                 fxVars, cryptoVars, screenVars, editorVars, confirmVars, inboxVars, deskVars>>
CardPart ==
  /\ Only("cards") /\ CardNext
  /\ UNCHANGED <<financeVars, managementVars, catalogVars, walletVars, portalVars, cvvVars, checkoutVars,
                 fxVars, cryptoVars, screenVars, editorVars, confirmVars, inboxVars, deskVars>>
ManagementPart ==
  /\ Only("management") /\ ManagementNext
  /\ UNCHANGED <<financeVars, cardVars, catalogVars, walletVars, portalVars, cvvVars, checkoutVars,
                 fxVars, cryptoVars, screenVars, editorVars, confirmVars, inboxVars, deskVars>>
CatalogPart ==
  /\ Only("catalog") /\ CatalogNext
  /\ UNCHANGED <<financeVars, cardVars, managementVars, walletVars, portalVars, cvvVars, checkoutVars,
                 fxVars, cryptoVars, screenVars, editorVars, confirmVars, inboxVars, deskVars>>
WalletPart ==
  /\ Only("wallet") /\ WalletNext
  /\ UNCHANGED <<financeVars, cardVars, managementVars, catalogVars, portalVars, cvvVars, checkoutVars,
                 fxVars, cryptoVars, screenVars, editorVars, confirmVars, inboxVars, deskVars>>
PortalPart ==
  /\ Only("portal") /\ PortalNext
  /\ UNCHANGED <<financeVars, cardVars, managementVars, catalogVars, walletVars, cvvVars, checkoutVars,
                 fxVars, cryptoVars, screenVars, editorVars, confirmVars, inboxVars, deskVars>>
CvvPart ==
  /\ Only("cvv") /\ CvvNext
  /\ UNCHANGED <<financeVars, cardVars, managementVars, catalogVars, walletVars, portalVars, checkoutVars,
                 fxVars, cryptoVars, screenVars, editorVars, confirmVars, inboxVars, deskVars>>
CheckoutPart ==
  /\ Only("checkout") /\ CheckoutNext
  /\ UNCHANGED <<financeVars, cardVars, managementVars, catalogVars, walletVars, portalVars, cvvVars,
                 fxVars, cryptoVars, screenVars, editorVars, confirmVars, inboxVars, deskVars>>
FxPart ==
  /\ Only("fx") /\ FxNext
  /\ UNCHANGED <<financeVars, cardVars, managementVars, catalogVars, walletVars, portalVars, cvvVars,
                 checkoutVars, cryptoVars, screenVars, editorVars, confirmVars, inboxVars, deskVars>>
CryptoPart ==
  /\ Only("crypto") /\ CryptoNext
  /\ UNCHANGED <<financeVars, cardVars, managementVars, catalogVars, walletVars, portalVars, cvvVars,
                 checkoutVars, fxVars, screenVars, editorVars, confirmVars, inboxVars, deskVars>>
ScreensPart ==
  /\ Only("screens") /\ ScreensNext
  /\ UNCHANGED <<financeVars, cardVars, managementVars, catalogVars, walletVars, portalVars, cvvVars,
                 checkoutVars, fxVars, cryptoVars, editorVars, confirmVars, inboxVars, deskVars>>
EditorsPart ==
  /\ Only("editors") /\ EditorsNext
  /\ UNCHANGED <<financeVars, cardVars, managementVars, catalogVars, walletVars, portalVars, cvvVars,
                 checkoutVars, fxVars, cryptoVars, screenVars, confirmVars, inboxVars, deskVars>>
ConfirmPart ==
  /\ Only("confirm") /\ ConfirmNext
  /\ UNCHANGED <<financeVars, cardVars, managementVars, catalogVars, walletVars, portalVars, cvvVars,
                 checkoutVars, fxVars, cryptoVars, screenVars, editorVars, inboxVars, deskVars>>
InboxPart ==
  /\ Only("inbox") /\ InboxNext
  /\ UNCHANGED <<financeVars, cardVars, managementVars, catalogVars, walletVars, portalVars, cvvVars,
                 checkoutVars, fxVars, cryptoVars, screenVars, editorVars, confirmVars, deskVars>>
DeskPart ==
  /\ Only("desk") /\ DeskNext
  /\ UNCHANGED <<financeVars, cardVars, managementVars, catalogVars, walletVars, portalVars, cvvVars,
                 checkoutVars, fxVars, cryptoVars, screenVars, editorVars, confirmVars, inboxVars>>

Next ==
  \/ FinancePart \/ CardPart \/ ManagementPart \/ CatalogPart
  \/ WalletPart \/ PortalPart \/ CvvPart \/ CheckoutPart \/ FxPart \/ CryptoPart
  \/ ScreensPart \/ EditorsPart \/ ConfirmPart \/ InboxPart \/ DeskPart

vars == <<financeVars, cardVars, managementVars, catalogVars, walletVars, portalVars, cvvVars,
          checkoutVars, fxVars, cryptoVars, screenVars, editorVars, confirmVars, inboxVars, deskVars, part>>
Spec == Init /\ [][Next]_vars

(* One part alone, for the runs that end in a counterexample. *)
FxOnly == Init /\ part = "fx" /\ [][FxPart]_vars
FinanceOnly == Init /\ part = "finance" /\ [][FinancePart]_vars
CardsOnly == Init /\ part = "cards" /\ [][CardPart]_vars
ConfirmOnly == Init /\ part = "confirm" /\ [][ConfirmPart]_vars

(* The variables of the part that runs keep to their types (part and the   *)
(* other variables do not change).                                         *)
WorkspaceTypes ==
  /\ part = "finance" => FinanceTypes
  /\ part = "cards" => CardTypes
  /\ part = "management" => ManagementTypes
  /\ part = "catalog" => CatalogTypes
  /\ part = "wallet" => WalletTypes
  /\ part = "portal" => PortalTypes
  /\ part = "cvv" => CvvTypes
  /\ part = "checkout" => CheckoutTypes
  /\ part = "fx" => FxTypes
  /\ part = "crypto" => CryptoTypes
  /\ part = "screens" => ScreensTypes
  /\ part = "editors" => EditorsTypes
  /\ part = "confirm" => ConfirmTypes
  /\ part = "inbox" => InboxTypes
  /\ part = "desk" => DeskTypes

-----------------------------------------------------------------------------
(* A bound: new terms or another mount of the form, not both; a second     *)
(* price or an amended withdrawal, not both.                               *)
OneNewsAtATime ==
  /\ mount = 1 \/ published = 1
  /\ price < 2 \/ \A w \in Withdrawals: order[w].revision <= 1

-----------------------------------------------------------------------------
(* ann asks, bob and cat review; bob works on the cards. *)
MCMay ==
  ("ann" :> {"finance.create", "finance.approve", "card.freeze", "card.unfreeze.request",
             "card.debit", "card.frozen_debit", "card.transfer_in", "card.transfer_out"})
  @@ ("bob" :> {"finance.control", "finance.risk_check", "finance.execute", "card.debit",
                "card.transfer_out", "card.approve", "card.execute", "card.frozen_debit",
                "card.unfreeze.execute"})
  @@ ("cat" :> {"finance.control", "finance.approve", "finance.price_manage"})

MCAmounts == ("w1" :> {2, 4}) @@ ("w2" :> {2})
MCMaxRevision == ("w1" :> 2) @@ ("w2" :> 1)
MCOutcome == ("w1" :> "partial") @@ ("w2" :> "broken")
MCOffers == {[sells |-> "USD", sell |-> 3, fee |-> 1, buy |-> 2],
             [sells |-> "USDT", sell |-> 3, fee |-> 1, buy |-> 2]}
MCOpening == ("USD" :> 3) @@ ("USDT" :> 4)
MCInventory == ("USD" :> 2) @@ ("USDT" :> 2)

MCCardOpening == ("wallet" :> 2) @@ ("funds" :> 3) @@ ("receivable" :> 0)

MCReceives == 2 :> 1
MCWalletOpening == ("USD" :> 3) @@ ("USDT" :> 4)
MCBudget == "c1" :> 2

(* A purchase that posts another amount a day later, one that nothing reads *)
(* again, and a refund.                                                    *)
MCFxSays ==
  ("buy" :> {[status |-> "pending", amount |-> -3, date |-> "d1"],
             [status |-> "posted", amount |-> -4, date |-> "d2"]})
  @@ ("other" :> {[status |-> "posted", amount |-> -2, date |-> "d1"]})
  @@ ("refund" :> {[status |-> "posted", amount |-> 1, date |-> "d2"]})
MCFxReads == ("buy" :> 2) @@ ("other" :> 0) @@ ("refund" :> 0)
MCFxEvents == "e1" :> "buy"

(* A withdrawal and an exchange, of which the wallet covers only one until *)
(* the deposit is credited.                                                *)
MCCryptoTerms ==
  ("out" :> [sells |-> "USDT", buys |-> "USDT", amount |-> 2, fee |-> 1, receive |-> 2])
  @@ ("swap" :> [sells |-> "USDT", buys |-> "USD", amount |-> 2, fee |-> 0, receive |-> 1])
  @@ ("in" :> [sells |-> "USDT", buys |-> "USDT", amount |-> 1, fee |-> 0, receive |-> 1])
MCCryptoOpening == ("USDT" :> 4) @@ ("USD" :> 0)

MCDeskQueries ==
  {AllCards, [AllCards EXCEPT !.status = "active"],
   [AllCards EXCEPT !.product = "k1"], [AllCards EXCEPT !.path = "k1"]}
=============================================================================
