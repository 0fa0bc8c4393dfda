----------------------------- MODULE PageProofs -----------------------------
(***************************************************************************)
(* Proofs about pages of the client, the screens, forms and dialogs of     *)
(* both front ends and the customer's wallet, for any constants.           *)
(*                                                                         *)
(* CvvSession: types, SecretIsCurrent and NothingStays are inductive       *)
(* together: an answer writes only where the sequence it was asked under   *)
(* is the current one, and whatever empties the node also raises it.       *)
(*                                                                         *)
(* Checkout: Quoted says what a quote and a request that may still answer  *)
(* are for; Sent says whose key a request without an outcome has.  The     *)
(* types of the form (FormTyped) and of its orders (KeysTyped) go together.*)
(*                                                                         *)
(* Screens: ScreenFits says what the one reading that may still be shown   *)
(* is for, and that its answer is not older than what is shown.            *)
(*                                                                         *)
(* Wallet: Booked says what the row of an entry says by its kind, next to  *)
(* the sums.  Every step changes one entry, so the sums over the entries   *)
(* change by what that entry does (lemmas of SumProofs); the quote of an   *)
(* exchange changes too, and moves nothing before or after.                *)
(*                                                                         *)
(* PortalPage: PortalFits says what a call under way may still be told,    *)
(* that the loads and the readings and actions that make a page busy are   *)
(* one of a kind, and which requests the server remembers.                 *)
(*                                                                         *)
(* Confirm: ConfirmFits says that a price that was not overtaken is of the *)
(* inputs, that those of four dialogs never are, and that a dialog that    *)
(* names its request has one name for all its clicks.                      *)
(*                                                                         *)
(* Editors: EditorFits says that what the page has read of the present     *)
(* revision is the record, that a draft and a request are so where nothing *)
(* was typed, and that a form on the page has the revision of its draft.   *)
(*                                                                         *)
(* CardDesk: DeskFits says that a card is as frozen as the page shows it   *)
(* while neither the revision of the state nor that of the card moves, and *)
(* that a request still says what the server would do.                     *)
(*                                                                         *)
(* Inbox: InboxFits says what a list that is read or shown is for, and that*)
(* a mark of the present revision knows all notices there are.  That only  *)
(* a page beyond the last one is empty where something matches rests on    *)
(* EachRank: in a finite set of numbers each rank below its size is taken. *)
(***************************************************************************)
EXTENDS CvvSession, Checkout, Screens, Wallet, PortalPage, Confirm, Editors, CardDesk, Inbox, SumProofs, FiniteSetTheorems, TLAPS

Safe == CvvTypes /\ SecretIsCurrent /\ NothingStays

LEMMA SafeInit == CvvInit => Safe
  BY CvvAssumption DEF CvvInit, Safe, CvvTypes, SecretIsCurrent, NothingStays, Idle

(* Emptying the node is safe whatever else is under way.                   *)
LEMMA ClearIsSafe ==
  ASSUME Safe, NEW p \in {"idle", "error"}, ClearTo(p), wanted' \subseteq wanted,
         view' = view, viewed' = viewed, owner' = owner, front' \in BOOLEAN
  PROVE  Safe'
  BY DEF Safe, CvvTypes, SecretIsCurrent, NothingStays, ClearTo, Cleared

(* A request that vanishes leaves everything else alone.                   *)
LEMMA VanishIsSafe == ASSUME Safe, NEW r \in wanted, Vanish(r) PROVE Safe'
  BY DEF Safe, CvvTypes, SecretIsCurrent, NothingStays, Vanish, Context

LEMMA ViewIsSafe == ASSUME Safe, NEW card \in SecretCards, ViewCard(card) PROVE Safe'
<1>1. view' \in 1..MaxViews /\ viewed' \in [1..view' -> SecretCards]
  BY CvvAssumption DEF Safe, CvvTypes, ViewCard
<1> QED BY <1>1 DEF Safe, CvvTypes, SecretIsCurrent, NothingStays, ViewCard, Idle

LEMMA ShowIsSafe == ASSUME Safe, ShowSecret PROVE Safe'
<1>1. CASE IsActive
  <2>1. wanted' \subseteq Requested
    <3>1. view \in 1..MaxViews /\ cvv.sequence + 1 \in Nat
      BY DEF Safe, CvvTypes
    <3>2. [session |-> view, request |-> cvv.sequence + 1, stage |-> "login"] \in Requested
      BY <3>1 DEF Requested
    <3> QED BY <1>1, <3>2 DEF Safe, CvvTypes, ShowSecret
  <2>2. cvv' = [sequence |-> cvv.sequence + 1, request |-> TRUE, expiry |-> FALSE]
    BY <1>1 DEF ShowSecret, Cleared
  <2>3. cvv' \in [sequence: Nat, request: BOOLEAN, expiry: BOOLEAN] /\ cvv'.request
    BY <2>2 DEF Safe, CvvTypes
  <2>4. node' = Blank /\ phase' = "loading"
    BY <1>1 DEF ShowSecret
  <2> QED
    BY <2>1, <2>3, <2>4 DEF Safe, CvvTypes, SecretIsCurrent, NothingStays, ShowSecret, Context
<1>2. CASE ~IsActive
  BY <1>2, ClearIsSafe DEF Safe, CvvTypes, ShowSecret, Context
<1> QED BY <1>1, <1>2

LEMMA LoginIsSafe == ASSUME Safe, NEW r \in wanted, LoginArrives(r) PROVE Safe'
<1>1. CASE Vanish(r)
  BY <1>1, VanishIsSafe
<1>2. CASE ShowFailed(r)
  BY <1>2, ClearIsSafe DEF Safe, CvvTypes, ShowFailed, Context
<1>3. CASE wanted' = (wanted \ {r}) \cup {[r EXCEPT !.stage = "secret"]}
             /\ UNCHANGED <<cvv, node, phase>> /\ Context
  <2>1. wanted' \subseteq Requested
    BY <1>3 DEF Safe, CvvTypes, Requested
  <2> QED BY <1>3, <2>1 DEF Safe, CvvTypes, SecretIsCurrent, NothingStays, Context
<1> QED BY <1>1, <1>2, <1>3 DEF LoginArrives

LEMMA SecretIsSafe == ASSUME Safe, NEW r \in wanted, SecretArrives(r) PROVE Safe'
<1>1. CASE Vanish(r)
  BY <1>1, VanishIsSafe
<1>2. CASE ShowFailed(r)
  BY <1>2, ClearIsSafe DEF Safe, CvvTypes, ShowFailed, Context
<1>3. CASE wanted' = wanted \ {r} /\ ClearTo("idle") /\ Context
  BY <1>3, ClearIsSafe DEF Safe, CvvTypes, Context
<1>4. CASE ~Void(r) /\ IsActive /\ Write(r)
  <2>1. r.session = view /\ front
    BY <1>4 DEF Void, IsActive
  <2>2. viewed[view] \in SecretCards
    BY DEF Safe, CvvTypes
  <2> QED BY <1>4, <2>1, <2>2 DEF Safe, CvvTypes, SecretIsCurrent, NothingStays, Write, Context
<1> QED BY <1>1, <1>2, <1>3, <1>4 DEF SecretArrives

(* Hiding, leaving, coming back, logging out and the two timers.           *)
LEMMA RestIsSafe ==
  ASSUME Safe, HideSecret \/ Leave \/ ComeBack \/ LogOut \/ RequestTimeout \/ ExpiryTimeout
  PROVE  Safe'
<1>1. CASE HideSecret \/ Leave \/ RequestTimeout \/ ExpiryTimeout
  BY <1>1, ClearIsSafe
     DEF Safe, CvvTypes, HideSecret, Leave, RequestTimeout, ExpiryTimeout, Context
<1>2. CASE ComeBack
  BY <1>2 DEF Safe, CvvTypes, SecretIsCurrent, NothingStays, ComeBack
<1>3. CASE LogOut
  BY <1>3 DEF Safe, CvvTypes, SecretIsCurrent, NothingStays, LogOut
<1> QED BY <1>1, <1>2, <1>3

LEMMA SafeNext == ASSUME Safe, [CvvNext]_cvvVars PROVE Safe'
<1>1. CASE UNCHANGED cvvVars
  BY <1>1 DEF cvvVars, Safe, CvvTypes, SecretIsCurrent, NothingStays
<1> QED
  BY <1>1, ViewIsSafe, ShowIsSafe, LoginIsSafe, SecretIsSafe, RestIsSafe DEF CvvNext

(* In every reachable state all three hold.                                *)
THEOREM AlwaysSafe == CvvSpec => []Safe
<1>1. Safe /\ [CvvNext]_cvvVars => Safe'
  BY SafeNext
<1> QED BY SafeInit, <1>1, PTL DEF CvvSpec

(* The details a page shows are those of the card in view, in a page that  *)
(* is in sight (clear, show and dispose of remoteCvv.ts), and details and  *)
(* requests that wait have a timer that ends them (its schedule calls).    *)
THEOREM SecretAlwaysKept == CvvSpec => []SecretIsKept
<1>1. Safe => SecretIsKept
  BY DEF Safe, SecretIsKept
<1> QED BY AlwaysSafe, <1>1, PTL

(* The type invariant of the secret view.                                  *)
THEOREM CvvTyped == CvvSpec => []CvvTypes
<1>1. Safe => CvvTypes
  BY DEF Safe
<1> QED BY AlwaysSafe, <1>1, PTL

-----------------------------------------------------------------------------
(* The form that orders a card.                                            *)

Requests(rs) == \A r \in rs:
  r = [product |-> r.product, funding |-> r.funding, since |-> r.since, active |-> r.active]

(* The quote shown and the request that may replace it are for the form.   *)
Fits(q) == q.product = form.product /\ q.product = form.selected /\ q.funding = form.funding
Quoted ==
  /\ offer # Unpriced => Fits(offer)
  /\ \A r \in asking: r.active => Fits(r)
  /\ Requests(asking)

(* The form on the page waits for at most one answer, to the request it    *)
(* keeps; a key of this form without an outcome is the one that is kept.   *)
Sent ==
  /\ mount \in Nat /\ IsFiniteSet(asked)
  /\ \A a \in asked: a.key \in Nat \ {0} /\ a.mount \in Nat /\ a.mount <= mount
  /\ \A a \in asked: a.mount = mount /\ a.key \notin settled => a.key = pending
  /\ \A r \in posted: /\ r = [mount |-> r.mount, key |-> r.key]
                      /\ r.mount \in Nat /\ r.mount <= mount
                      /\ r.mount = mount => busy /\ r.key = pending
  /\ OneOrderUnknown

-----------------------------------------------------------------------------
(* The quote.                                                              *)

LEMMA SilencedIsSilent ==
  ASSUME Requests(asking), NEW r \in Silenced(asking)
  PROVE  /\ ~r.active
         /\ r = [product |-> r.product, funding |-> r.funding, since |-> r.since, active |-> r.active]
<1> PICK q \in asking: r = [q EXCEPT !.active = FALSE]
  BY DEF Silenced
<1>1. q = [product |-> q.product, funding |-> q.funding, since |-> q.since, active |-> q.active]
  BY DEF Requests
<1>2. r = [product |-> q.product, funding |-> q.funding, since |-> q.since, active |-> FALSE]
  BY <1>1
<1> QED BY <1>2

(* What the quote's effect leaves is for the form it ran for.              *)
LEMMA RequotedFits ==
  ASSUME Quoted, NEW f, NEW key, Requoted(f, key), form' = f
  PROVE  Quoted'
<1>1. offer' = Unpriced
  BY DEF Requoted
<1> DEFINE new == [product |-> f.product, funding |-> f.funding, since |-> published, active |-> TRUE]
<1>3. Requests(asking')
  <2>1. \A r \in Silenced(asking):
          r = [product |-> r.product, funding |-> r.funding, since |-> r.since, active |-> r.active]
    BY SilencedIsSilent DEF Quoted
  <2>2. new = [product |-> new.product, funding |-> new.funding, since |-> new.since,
               active |-> new.active]
    OBVIOUS
  <2>3. asking' \subseteq Silenced(asking) \cup {new}
    BY DEF Requoted
  <2> HIDE DEF new
  <2> QED BY <2>1, <2>2, <2>3 DEF Requests
<1>2. ASSUME NEW r \in asking', r.active PROVE Fits(r)'
  <2>1. \A q \in Silenced(asking): ~q.active
    BY SilencedIsSilent DEF Quoted
  <2>2. r \notin Silenced(asking)
    BY <1>2, <2>1
  <2>3. /\ r = [product |-> f.product, funding |-> f.funding, since |-> published, active |-> TRUE]
        /\ f.product = f.selected
    BY <1>2, <2>2 DEF Requoted
  <2>4. r.product = f.product /\ r.funding = f.funding
    BY <2>3
  <2> QED BY <2>3, <2>4 DEF Fits
<1> QED BY <1>1, <1>2, <1>3 DEF Quoted, Requests

LEMMA QuotedUnchanged ==
  ASSUME Quoted, UNCHANGED <<form, offer, asking>> PROVE Quoted'
  BY DEF Quoted, Fits, Requests

LEMMA NewFormFits == ASSUME Quoted, NEW key, NewForm(key) PROVE Quoted'
<1>1. /\ \A q \in Silenced(asking): ~q.active
      /\ Requests(Silenced(asking))
  BY SilencedIsSilent DEF Quoted, Requests
<1>2. offer' = Unpriced /\ asking' = Silenced(asking)
  BY DEF NewForm
<1>3. Requests(asking)' /\ \A q \in asking': ~q.active
  BY <1>1, <1>2 DEF Requests
<1> QED BY <1>2, <1>3 DEF Quoted

(* An answer counts only while its request may answer.                     *)
LEMMA ArrivalFits == ASSUME Quoted, NEW r \in asking, QuoteArrives(r) PROVE Quoted'
<1>1. asking' \subseteq asking /\ form' = form
  BY DEF QuoteArrives
<1>2. offer' # Unpriced => Fits(offer)'
  <2>1. CASE r.active /\ \E v \in r.since..published:
               offer' = [product |-> r.product, funding |-> r.funding, version |-> v, fresh |-> TRUE]
    BY <2>1, <1>1 DEF Quoted, Fits
  <2>2. CASE offer' = offer
    BY <2>2, <1>1 DEF Quoted, Fits
  <2> QED BY <2>1, <2>2 DEF QuoteArrives
<1> QED BY <1>1, <1>2 DEF Quoted, Fits, Requests

LEMMA QuotedNext == ASSUME Quoted, [CheckoutNext]_checkoutVars PROVE Quoted'
<1>1. ASSUME NEW p \in ShopProducts, Select(p) PROVE Quoted'
  BY <1>1, RequotedFits DEF Select
<1>2. ASSUME NEW n \in Fundings, Fund(n) PROVE Quoted'
  BY <1>2, RequotedFits DEF Fund
<1>3. ASSUME NEW r \in loading, ProductLoads(r) PROVE Quoted'
  BY <1>3, RequotedFits, QuotedUnchanged DEF ProductLoads
<1>4. CASE OfferExpires
  <2>1. offer' = [offer EXCEPT !.fresh = FALSE] /\ UNCHANGED <<form, asking>> /\ offer # Unpriced
    BY <1>4 DEF OfferExpires
  <2>2. offer'.product = offer.product /\ offer'.funding = offer.funding
    BY <2>1
  <2> QED BY <2>1, <2>2 DEF Quoted, Fits, Requests
<1>5. CASE Reprice
  BY <1>5, RequotedFits DEF Reprice
<1>6. CASE PublishTerms \/ Agree \/ Resubmit
  BY <1>6, QuotedUnchanged DEF PublishTerms, Agree, Resubmit
<1>7. CASE TermsArrive
  <2> PICK v \in 1..published: /\ form' = [form EXCEPT !.version = v]
                               /\ IF v # form.version THEN Requoted(form', pending)
                                  ELSE UNCHANGED <<offer, agreed, asking>>
    BY <1>7 DEF TermsArrive
  <2>1. CASE v # form.version
    BY <2>1, RequotedFits
  <2>2. CASE v = form.version
    BY <2>2 DEF Quoted, Fits, Requests
  <2> QED BY <2>1, <2>2
<1>8. CASE Submit
  BY <1>8, RequotedFits DEF Submit
<1>9. CASE Remount
  BY <1>9, NewFormFits DEF Remount
<1>10. ASSUME NEW r \in posted, OrderOpens(r) \/ OrderRefused(r) \/ OrderUnknown(r) PROVE Quoted'
  <2>1. CASE OrderOpens(r)
    BY <2>1, NewFormFits, QuotedUnchanged DEF OrderOpens
  <2>2. CASE OrderRefused(r)
    BY <2>2, RequotedFits, QuotedUnchanged DEF OrderRefused
  <2>3. CASE OrderUnknown(r)
    BY <2>3, QuotedUnchanged DEF OrderUnknown
  <2> QED BY <1>10, <2>1, <2>2, <2>3
<1>11. CASE UNCHANGED checkoutVars
  BY <1>11, QuotedUnchanged DEF checkoutVars
<1> QED
  BY <1>1, <1>2, <1>3, <1>4, <1>5, <1>6, <1>7, <1>8, <1>9, <1>10, <1>11, ArrivalFits DEF CheckoutNext

(* Only submit makes a key.                                                *)
LEMMA SubmitAsks == ASSUME [CheckoutNext]_checkoutVars, asked' # asked PROVE Submit
  BY DEF CheckoutNext, checkoutVars, Select, Fund, ProductLoads, QuoteArrives, OfferExpires,
         Reprice, PublishTerms, TermsArrive, Agree, Resubmit, Remount, OrderOpens, OrderRefused,
         OrderUnknown, Known, Orders

(* An order is sent for the product, the amount and the terms the form     *)
(* shows (the quote's effect and submit of CardIssuing.tsx).               *)
THEOREM AlwaysOrderedAsShown == CheckoutSpec => OrderedAsShown
<1>1. CheckoutInit => Quoted
  BY DEF CheckoutInit, Quoted, Requests
<1>2. Quoted /\ [CheckoutNext]_checkoutVars => Quoted'
  BY QuotedNext
<1>3. Quoted /\ [CheckoutNext]_checkoutVars =>
        [asked' # asked => /\ offer.product = form.selected /\ offer.product = form.product
                           /\ offer.funding = form.funding /\ offer.version = form.version]_checkoutVars
  BY SubmitAsks DEF Submit, Quoted, Fits
<1> QED BY <1>1, <1>2, <1>3, PTL DEF CheckoutSpec, OrderedAsShown

-----------------------------------------------------------------------------
(* The kept request.                                                       *)

LEMMA SentUnchanged ==
  ASSUME Sent, UNCHANGED <<mount, busy, pending, posted, asked, settled>> PROVE Sent'
  BY DEF Sent, OneOrderUnknown

LEMMA SubmitSent == ASSUME Sent, Submit PROVE Sent'
<1>1. /\ pending = NoKey /\ ~busy /\ mount' = mount /\ settled' = settled /\ busy'
      /\ pending' = Cardinality(asked) + 1
      /\ asked' = asked \cup {[key |-> pending', mount |-> mount]}
      /\ posted' = posted \cup {[mount |-> mount, key |-> pending']}
  BY DEF Submit, Post
<1>2. Cardinality(asked) \in Nat /\ IsFiniteSet(asked')
  BY <1>1, FS_CardinalityType, FS_AddElement DEF Sent
<1>3. \A a \in asked: a.mount = mount => a.key \in settled
  BY <1>1 DEF Sent, NoKey
<1>4. \A r \in posted: r.mount # mount
  BY <1>1 DEF Sent
<1>5. OneOrderUnknown'
  BY <1>1, <1>3 DEF Sent, OneOrderUnknown
<1> QED BY <1>1, <1>2, <1>3, <1>4, <1>5 DEF Sent

LEMMA ResubmitSent == ASSUME Sent, Resubmit PROVE Sent'
  BY DEF Sent, OneOrderUnknown, Resubmit, Post

(* A new form waits for nothing and has made no key.                       *)
LEMMA NewFormSent ==
  ASSUME Sent, NEW key, NewForm(key), asked' = asked, posted' \subseteq posted,
         settled \subseteq settled'
  PROVE  Sent'
<1>1. mount' = mount + 1 /\ mount' \in Nat
  BY DEF NewForm, Sent
<1>2. OneOrderUnknown'
  BY DEF Sent, OneOrderUnknown
<1>3. \A a \in asked': a.mount \in Nat /\ a.mount <= mount' /\ a.mount # mount'
  BY <1>1 DEF Sent
<1>4. \A r \in posted': r.mount \in Nat /\ r.mount <= mount' /\ r.mount # mount'
  BY <1>1 DEF Sent
<1> QED BY <1>1, <1>2, <1>3, <1>4 DEF Sent

LEMMA OutcomeSent ==
  ASSUME Sent, NEW r \in posted, OrderOpens(r) \/ OrderRefused(r) \/ OrderUnknown(r)
  PROVE  Sent'
<1>1. \A q \in posted \ {r}: r.mount = mount => q.mount # mount
  BY DEF Sent
<1>2. CASE OrderOpens(r)
  <2>1. posted' = posted \ {r} /\ asked' = asked /\ settled' = settled \cup {r.key}
    BY <1>2 DEF OrderOpens, Known
  <2>2. CASE NewForm(NoKey)
    BY <2>1, <2>2, NewFormSent
  <2>3. CASE r.mount # mount /\ UNCHANGED <<mount, busy, pending>>
    BY <2>1, <2>3 DEF Sent, OneOrderUnknown
  <2> QED BY <1>2, <2>2, <2>3 DEF OrderOpens
<1>3. CASE OrderRefused(r)
  <2>1. /\ posted' = posted \ {r} /\ asked' = asked /\ settled' = settled \cup {r.key}
        /\ mount' = mount
    BY <1>3 DEF OrderRefused, Known
  <2>2. CASE r.mount = mount /\ pending' = NoKey /\ busy' = FALSE
    <3>1. \A a \in asked: a.mount = mount => a.key \in settled'
      BY <2>1, <2>2 DEF Sent
    <3> QED BY <1>1, <2>1, <2>2, <3>1 DEF Sent, OneOrderUnknown
  <2>3. CASE r.mount # mount /\ UNCHANGED <<busy, pending>>
    BY <2>1, <2>3 DEF Sent, OneOrderUnknown
  <2> QED BY <1>3, <2>2, <2>3 DEF OrderRefused
<1>4. CASE OrderUnknown(r)
  BY <1>1, <1>4 DEF OrderUnknown, Sent, OneOrderUnknown
<1> QED BY <1>2, <1>3, <1>4

LEMMA SentNext == ASSUME Sent, [CheckoutNext]_checkoutVars PROVE Sent'
<1>1. CASE Submit
  BY <1>1, SubmitSent
<1>2. CASE Resubmit
  BY <1>2, ResubmitSent
<1>3. CASE Remount
  BY <1>3, NewFormSent DEF Remount
<1>4. CASE \E r \in posted: OrderOpens(r) \/ OrderRefused(r) \/ OrderUnknown(r)
  BY <1>4, OutcomeSent
<1>5. CASE \/ \E p \in ShopProducts: Select(p)
           \/ \E n \in Fundings: Fund(n)
           \/ \E r \in loading: ProductLoads(r)
           \/ \E r \in asking: QuoteArrives(r)
           \/ OfferExpires \/ Reprice \/ PublishTerms \/ TermsArrive \/ Agree
           \/ UNCHANGED checkoutVars
  BY <1>5, SentUnchanged
     DEF checkoutVars, Select, Fund, ProductLoads, QuoteArrives, OfferExpires, Reprice,
         PublishTerms, TermsArrive, Agree, Orders
<1> QED BY <1>1, <1>2, <1>3, <1>4, <1>5 DEF CheckoutNext

(* One mount of the form never sends a second order while the outcome of   *)
(* its first is unknown (pending and the catch of submit).                 *)
THEOREM AlwaysOneOrderUnknown == CheckoutSpec => []OneOrderUnknown
<1>1. CheckoutInit => Sent
  BY FS_EmptySet DEF CheckoutInit, Sent, OneOrderUnknown
<1>2. Sent /\ [CheckoutNext]_checkoutVars => Sent'
  BY SentNext
<1>3. Sent => OneOrderUnknown
  BY DEF Sent
<1> QED BY <1>1, <1>2, <1>3, PTL DEF CheckoutSpec

(* The types of what the form shows and waits for, and of the orders.      *)
ShopKinds == ShopProducts \cup {NoChoice}
ShopForms == [selected: ShopKinds, product: ShopKinds, funding: Fundings, version: 0..MaxTerms]
ShopQuotes == [product: ShopProducts, funding: Fundings, version: 1..MaxTerms, fresh: BOOLEAN]
ShopLoads == [product: ShopProducts, active: BOOLEAN]
ShopAsks == [product: ShopProducts, funding: Fundings, since: 1..MaxTerms, active: BOOLEAN]
FormTyped ==
  /\ mount \in 1..MaxMounts /\ form \in ShopForms /\ offer \in ShopQuotes \cup {Unpriced}
  /\ agreed \in BOOLEAN /\ reading \in BOOLEAN /\ published \in 1..MaxTerms
  /\ loading \subseteq ShopLoads /\ asking \subseteq ShopAsks
KeysTyped ==
  /\ busy \in BOOLEAN /\ pending \in 0..MaxKeys /\ stored \in 0..MaxKeys /\ settled \subseteq 0..MaxKeys
  /\ posted \subseteq [mount: 1..MaxMounts, key: 1..MaxKeys]
  /\ asked \subseteq [key: 1..MaxKeys, mount: 1..MaxMounts]

LEMMA EmptyTyped == Empty \in ShopForms
  BY CheckoutAssumption DEF Empty, ShopForms, ShopKinds

LEMMA SilencedTyped ==
  ASSUME FormTyped PROVE Silenced(loading) \subseteq ShopLoads /\ Silenced(asking) \subseteq ShopAsks
<1>1. ASSUME NEW r \in ShopLoads PROVE [r EXCEPT !.active = FALSE] \in ShopLoads
  BY DEF ShopLoads
<1>2. ASSUME NEW r \in ShopAsks PROVE [r EXCEPT !.active = FALSE] \in ShopAsks
  BY DEF ShopAsks
<1>3. loading \subseteq ShopLoads /\ asking \subseteq ShopAsks
  BY DEF FormTyped
<1> QED BY <1>1, <1>2, <1>3 DEF Silenced

LEMMA RequotedTyped ==
  ASSUME FormTyped, NEW f \in ShopForms, NEW key, Requoted(f, key)
  PROVE  offer' = Unpriced /\ agreed' = FALSE /\ asking' \subseteq ShopAsks
<1>1. offer' = Unpriced /\ agreed' = FALSE
  BY DEF Requoted
<1>2. CASE f.product # NoChoice /\ asking' = Silenced(asking) \cup
             {[product |-> f.product, funding |-> f.funding, since |-> published, active |-> TRUE]}
  <2>1. f.product \in ShopProducts /\ f.funding \in Fundings /\ published \in 1..MaxTerms
    BY <1>2 DEF ShopForms, ShopKinds, FormTyped
  <2>2. [product |-> f.product, funding |-> f.funding, since |-> published, active |-> TRUE] \in ShopAsks
    BY <2>1 DEF ShopAsks
  <2> QED BY <1>1, <1>2, <2>2, SilencedTyped
<1>3. CASE asking' = Silenced(asking)
  BY <1>1, <1>3, SilencedTyped
<1> QED BY <1>2, <1>3 DEF Requoted

(* The form, whatever its orders.                                          *)
LEMMA NewFormTyped ==
  ASSUME FormTyped, KeysTyped, NEW key \in 0..MaxKeys, NewForm(key), published' = published
  PROVE  FormTyped' /\ busy' = FALSE /\ pending' \in 0..MaxKeys
<1>1. mount' \in 1..MaxMounts
  BY CheckoutAssumption DEF NewForm, FormTyped
<1> QED BY <1>1, EmptyTyped, SilencedTyped DEF NewForm, FormTyped

LEMMA FormStays ==
  ASSUME FormTyped, KeysTyped, [CheckoutNext]_checkoutVars
  PROVE  FormTyped'
<1>0. form \in ShopForms /\ MaxTerms \in Nat \ {0} /\ published \in 1..MaxTerms /\ Minimum \in Fundings
  BY CheckoutAssumption DEF FormTyped
<1>1. ASSUME NEW p \in ShopProducts, Select(p) PROVE FormTyped'
  <2>1. form' \in ShopForms
    BY <1>0, <1>1 DEF Select, ShopForms, ShopKinds
  <2>2. [product |-> p, active |-> TRUE] \in ShopLoads
    BY DEF ShopLoads
  <2>3. loading' \subseteq ShopLoads
    BY <1>1, <2>2, SilencedTyped DEF Select
  <2>4. offer' = Unpriced /\ agreed' = FALSE /\ asking' \subseteq ShopAsks
    BY <1>1, <2>1, RequotedTyped DEF Select
  <2> QED BY <1>1, <2>1, <2>3, <2>4 DEF Select, FormTyped
<1>2. ASSUME NEW n \in Fundings, Fund(n) PROVE FormTyped'
  <2>1. form' \in ShopForms
    BY <1>0, <1>2 DEF Fund, ShopForms
  <2>2. offer' = Unpriced /\ agreed' = FALSE /\ asking' \subseteq ShopAsks
    BY <1>2, <2>1, RequotedTyped DEF Fund
  <2> QED BY <1>2, <2>1, <2>2 DEF Fund, FormTyped
<1>3. ASSUME NEW r \in loading, ProductLoads(r) PROVE FormTyped'
  <2>1. r \in ShopLoads /\ loading' \subseteq ShopLoads
    BY <1>3 DEF FormTyped, ProductLoads
  <2>2. CASE r.active
    <3>1. form' \in ShopForms
      BY <1>0, <1>3, <2>1, <2>2 DEF ProductLoads, ShopForms, ShopKinds, ShopLoads
    <3>2. offer' = Unpriced /\ agreed' = FALSE /\ asking' \subseteq ShopAsks
      BY <1>3, <2>2, <3>1, RequotedTyped DEF ProductLoads
    <3> QED BY <1>3, <2>1, <3>1, <3>2 DEF ProductLoads, FormTyped
  <2>3. CASE ~r.active
    BY <1>3, <2>1, <2>3 DEF ProductLoads, FormTyped
  <2> QED BY <2>2, <2>3
<1>4. ASSUME NEW r \in asking, QuoteArrives(r) PROVE FormTyped'
  <2>1. r \in ShopAsks /\ asking' \subseteq ShopAsks
    BY <1>4 DEF FormTyped, QuoteArrives
  <2>2. ASSUME NEW v \in r.since..published
        PROVE  [product |-> r.product, funding |-> r.funding, version |-> v, fresh |-> TRUE] \in ShopQuotes
    <3>1. v \in 1..MaxTerms
      BY <1>0, <2>1 DEF ShopAsks
    <3> QED BY <2>1, <3>1 DEF ShopAsks, ShopQuotes
  <2>3. offer' \in ShopQuotes \cup {Unpriced} /\ reading' \in BOOLEAN
    BY <1>4, <2>2 DEF QuoteArrives, FormTyped
  <2> QED BY <1>4, <2>1, <2>3 DEF QuoteArrives, FormTyped
<1>5. CASE OfferExpires
  <2>1. offer \in ShopQuotes /\ offer' = [offer EXCEPT !.fresh = FALSE]
    BY <1>5 DEF OfferExpires, FormTyped
  <2>2. offer' \in ShopQuotes
    BY <2>1 DEF ShopQuotes
  <2> QED BY <1>5, <2>2 DEF OfferExpires, FormTyped
<1>6. CASE Reprice
  BY <1>0, <1>6, RequotedTyped DEF Reprice, FormTyped
<1>7. CASE PublishTerms
  <2>1. published' \in 1..MaxTerms
    BY <1>0, <1>7 DEF PublishTerms
  <2> QED BY <1>7, <2>1 DEF PublishTerms, FormTyped
<1>8. CASE TermsArrive
  <2> PICK v \in 1..published : /\ form' = [form EXCEPT !.version = v]
                                /\ IF v # form.version THEN Requoted(form', pending)
                                                       ELSE UNCHANGED <<offer, agreed, asking>>
    BY <1>8 DEF TermsArrive
  <2>1. form' \in ShopForms
    BY <1>0 DEF ShopForms
  <2>2. offer' \in ShopQuotes \cup {Unpriced} /\ agreed' \in BOOLEAN /\ asking' \subseteq ShopAsks
    BY <2>1, RequotedTyped DEF FormTyped
  <2> QED BY <1>8, <2>1, <2>2 DEF TermsArrive, FormTyped
<1>9. CASE Agree \/ Resubmit
  BY <1>9 DEF Agree, Resubmit, FormTyped
<1>10. CASE Submit
  BY <1>0, <1>10, RequotedTyped DEF Submit, FormTyped
<1>11. CASE Remount
  BY <1>11, NewFormTyped DEF Remount, KeysTyped
<1>12. ASSUME NEW r \in posted, OrderOpens(r) PROVE FormTyped'
  <2>1. published' = published /\ NoKey \in 0..MaxKeys
    BY <1>12, CheckoutAssumption DEF OrderOpens, Known, NoKey
  <2>2. CASE NewForm(NoKey)
    BY <2>1, <2>2, NewFormTyped
  <2>3. CASE UNCHANGED <<mount, form, offer, agreed, loading, asking, reading, busy, pending>>
    BY <2>1, <2>3 DEF FormTyped
  <2> QED BY <1>12, <2>2, <2>3 DEF OrderOpens
<1>13. ASSUME NEW r \in posted, OrderRefused(r) PROVE FormTyped'
  <2>1. UNCHANGED <<published, mount, form, loading>>
    BY <1>13 DEF OrderRefused, Known
  <2>2. CASE reading' = TRUE /\ Requoted(form, NoKey)
    BY <1>0, <2>1, <2>2, RequotedTyped DEF FormTyped
  <2>3. CASE UNCHANGED <<offer, agreed, asking, reading, busy, pending>>
    BY <2>1, <2>3 DEF FormTyped
  <2> QED BY <1>13, <2>2, <2>3 DEF OrderRefused
<1>14. ASSUME NEW r \in posted, OrderUnknown(r) PROVE FormTyped'
  BY <1>14 DEF OrderUnknown, FormTyped
<1>15. CASE UNCHANGED checkoutVars
  BY <1>15 DEF checkoutVars, FormTyped
<1> QED BY <1>1, <1>2, <1>3, <1>4, <1>5, <1>6, <1>7, <1>8, <1>9, <1>10, <1>11, <1>12, <1>13, <1>14, <1>15
        DEF CheckoutNext

(* The orders, whatever the form shows.                                    *)
LEMMA KeysUnchanged == ASSUME KeysTyped, UNCHANGED Orders PROVE KeysTyped'
  BY DEF KeysTyped, Orders

LEMMA KeysStay ==
  ASSUME FormTyped, KeysTyped, IsFiniteSet(asked), [CheckoutNext]_checkoutVars
  PROVE  KeysTyped'
<1>0. NoKey = 0 /\ NoKey \in 0..MaxKeys /\ MaxKeys \in Nat /\ mount \in 1..MaxMounts
  BY CheckoutAssumption DEF NoKey, FormTyped
<1>1. ASSUME NEW p \in ShopProducts, Select(p) PROVE KeysTyped'
  BY <1>1, KeysUnchanged DEF Select
<1>2. ASSUME NEW n \in Fundings, Fund(n) PROVE KeysTyped'
  BY <1>2, KeysUnchanged DEF Fund
<1>3. ASSUME NEW r \in loading, ProductLoads(r) PROVE KeysTyped'
  BY <1>3, KeysUnchanged DEF ProductLoads
<1>4. ASSUME NEW r \in asking, QuoteArrives(r) PROVE KeysTyped'
  BY <1>4, KeysUnchanged DEF QuoteArrives
<1>5. CASE OfferExpires \/ Reprice \/ PublishTerms \/ TermsArrive \/ Agree
  BY <1>5, KeysUnchanged DEF OfferExpires, Reprice, PublishTerms, TermsArrive, Agree
<1>6. CASE Submit
  <2>1. /\ pending' = Cardinality(asked) + 1 /\ stored' = pending' /\ settled' = settled /\ busy' = TRUE
        /\ Cardinality(asked) < MaxKeys
        /\ posted' = posted \cup {[mount |-> mount, key |-> pending']}
        /\ asked' = asked \cup {[key |-> pending', mount |-> mount]}
    BY <1>6 DEF Submit, Post
  <2>2. Cardinality(asked) \in Nat
    BY FS_CardinalityType
  <2>3. pending' \in 1..MaxKeys
    BY <1>0, <2>1, <2>2
  <2>4. /\ [mount |-> mount, key |-> pending'] \in [mount: 1..MaxMounts, key: 1..MaxKeys]
        /\ [key |-> pending', mount |-> mount] \in [key: 1..MaxKeys, mount: 1..MaxMounts]
    BY <1>0, <2>3
  <2> QED BY <1>0, <2>1, <2>3, <2>4 DEF KeysTyped
<1>7. CASE Resubmit
  <2>1. /\ pending # NoKey /\ stored' = pending /\ busy' = TRUE /\ UNCHANGED <<pending, asked, settled>>
        /\ posted' = posted \cup {[mount |-> mount, key |-> pending]}
    BY <1>7 DEF Resubmit, Post
  <2>2. pending \in 1..MaxKeys
    BY <1>0, <2>1 DEF KeysTyped
  <2>3. [mount |-> mount, key |-> pending] \in [mount: 1..MaxMounts, key: 1..MaxKeys]
    BY <1>0, <2>2
  <2> QED BY <2>1, <2>3 DEF KeysTyped
<1>8. CASE Remount
  <2>1. busy' = FALSE /\ pending' \in 0..MaxKeys
    BY <1>8, NewFormTyped DEF Remount, KeysTyped
  <2> QED BY <1>8, <2>1 DEF Remount, KeysTyped
<1>9. ASSUME NEW r \in posted, OrderOpens(r) \/ OrderRefused(r) PROVE KeysTyped'
  <2>1. posted' \subseteq posted /\ stored' = NoKey /\ settled' = settled \cup {r.key} /\ UNCHANGED <<published, asked>>
    BY <1>9 DEF OrderOpens, OrderRefused, Known
  <2>2. r.key \in 0..MaxKeys
    BY <1>0 DEF KeysTyped
  <2>3. busy' \in BOOLEAN /\ pending' \in 0..MaxKeys
    BY <1>0, <1>9, <2>1, NewFormTyped DEF OrderOpens, OrderRefused, KeysTyped
  <2> QED BY <1>0, <2>1, <2>2, <2>3 DEF KeysTyped
<1>10. ASSUME NEW r \in posted, OrderUnknown(r) PROVE KeysTyped'
  BY <1>10 DEF OrderUnknown, KeysTyped
<1>11. CASE UNCHANGED checkoutVars
  BY <1>11, KeysUnchanged DEF checkoutVars, Orders
<1> QED BY <1>1, <1>2, <1>3, <1>4, <1>5, <1>6, <1>7, <1>8, <1>9, <1>10, <1>11 DEF CheckoutNext

(* The type invariant of the form; that the keys are numbered one by one   *)
(* needs that only so many were asked for.                                 *)
THEOREM CheckoutTyped == CheckoutSpec => []CheckoutTypes
<1>1. CheckoutInit => FormTyped /\ KeysTyped /\ Sent
  <2> SUFFICES ASSUME CheckoutInit PROVE FormTyped /\ KeysTyped /\ Sent
    OBVIOUS
  <2>0. 1 \in 1..MaxMounts /\ 1 \in 1..MaxTerms /\ 0 \in 0..MaxKeys
    BY CheckoutAssumption
  <2>1. FormTyped
    <3>1. mount = 1 /\ published = 1 /\ form = Empty /\ offer = Unpriced /\ agreed = FALSE /\ reading = TRUE
      BY DEF CheckoutInit
    <3>2. loading = {} /\ asking = {}
      BY DEF CheckoutInit
    <3> QED BY <2>0, <3>1, <3>2, EmptyTyped DEF FormTyped
  <2>2. KeysTyped
    <3>1. busy = FALSE /\ pending = 0 /\ stored = 0 /\ settled = {} /\ posted = {} /\ asked = {}
      BY DEF CheckoutInit, NoKey
    <3> QED BY <2>0, <3>1 DEF KeysTyped
  <2>3. Sent
    BY FS_EmptySet DEF CheckoutInit, Sent, OneOrderUnknown
  <2> QED BY <2>1, <2>2, <2>3
<1>2. FormTyped /\ KeysTyped /\ Sent /\ [CheckoutNext]_checkoutVars => (FormTyped /\ KeysTyped /\ Sent)'
  BY FormStays, KeysStay, SentNext DEF Sent
<1>3. FormTyped /\ KeysTyped => CheckoutTypes
  BY DEF FormTyped, KeysTyped, CheckoutTypes, ShopForms, ShopQuotes, ShopLoads, ShopAsks, ShopKinds
<1> QED BY <1>1, <1>2, <1>3, PTL DEF CheckoutSpec

-----------------------------------------------------------------------------
(* The screens.                                                            *)

(* The one reading that may still be shown is for the query, and none that *)
(* was answered is older than what is shown.                               *)
Awaited ==
  /\ \A r \in readings: r.live =>
       r.query = query /\ (r.answer # Unread => shown.version <= r.answer /\ r.answer <= world)
  /\ \A r, s \in readings: r.live /\ s.live => r = s
Settled ==
  /\ ~Reading /\ ~failed => shown # Nothing /\ shown.query = query
  /\ screen.hook.keeps # "any" /\ shown # Nothing => shown.query = query
ScreenFits == ScreensTypes /\ Awaited /\ shown.version <= world /\ Settled

LEMMA EmptyScreen == Home \in Queries /\ Nothing.version = -1 /\ Nothing \in AnyAnswer
  BY ScreensAssumption DEF AnyAnswer, Nothing, Home, Queries, Words

LEMMA NewReading ==
  ASSUME NEW q \in Queries
  PROVE  /\ Started(q) \in AnyReading
         /\ Started(q).query = q /\ Started(q).answer = Unread /\ Started(q).live
  BY ScreensAssumption DEF AnyReading, Started, Unread

LEMMA ReadingFields ==
  ASSUME NEW r \in AnyReading
  PROVE  /\ r.query \in Queries /\ r.answer \in Int /\ r.live \in BOOLEAN
         /\ [r EXCEPT !.live = FALSE] \in AnyReading /\ ~[r EXCEPT !.live = FALSE].live
<1>1. r \in [query: Queries, answer: -1..MaxWorld, live: BOOLEAN]
  BY DEF AnyReading
<1>2. r.query \in Queries /\ r.answer \in Int /\ r.live \in BOOLEAN
  BY <1>1, ScreensAssumption
<1>3. ~[r EXCEPT !.live = FALSE].live
  BY <1>1
<1>4. [r EXCEPT !.live = FALSE] \in [query: Queries, answer: -1..MaxWorld, live: BOOLEAN]
  BY <1>1
<1> QED BY <1>2, <1>3, <1>4 DEF AnyReading

LEMMA ScreensStart == ScreensInit => ScreenFits
<1> SUFFICES ASSUME ScreensInit PROVE ScreenFits
  OBVIOUS
<1>1. query = Home /\ shown = Nothing /\ ~failed /\ world = 0 /\ readings = {Started(Home)}
  BY DEF ScreensInit
<1>2. ScreensTypes
  <2>1. screen \in AllScreens /\ box \in Words /\ failed \in BOOLEAN
    BY DEF ScreensInit, Words
  <2>2. world \in 0..MaxWorld
    BY <1>1, ScreensAssumption
  <2> QED BY <1>1, <2>1, <2>2, NewReading, EmptyScreen DEF ScreensTypes
<1>3. Awaited /\ Reading
  BY <1>1, EmptyScreen, NewReading DEF Awaited, Reading
<1>4. shown.version <= world
  BY <1>1, EmptyScreen
<1> QED BY <1>1, <1>2, <1>3, <1>4 DEF ScreenFits, Settled

(* The readings of ended effects stay silent; the new one is awaited.      *)
LEMMA EffectFits ==
  ASSUME ScreenFits, NEW q \in Queries, readings' = Silent(readings) \cup {Started(q)}, query' = q,
         shown' = shown \/ shown' = Nothing, box' \in Words, failed' \in BOOLEAN,
         screen.hook.keeps # "any" /\ shown' # Nothing => shown'.query = q,
         UNCHANGED <<screen, world>>
  PROVE  ScreenFits'
<1>1. \A r \in Silent(readings): r \in AnyReading /\ ~r.live
  BY ReadingFields DEF Silent, ScreenFits, ScreensTypes
<1>2. \A r \in readings': r \in AnyReading /\ (r.live => r = Started(q))
  BY <1>1, NewReading
<1>3. Awaited' /\ Reading'
  BY <1>2, NewReading DEF Awaited, Reading
<1>4. ScreensTypes'
  BY <1>2, EmptyScreen DEF ScreenFits, ScreensTypes
<1>5. shown'.version <= world'
  BY EmptyScreen DEF ScreenFits, ScreensTypes
<1> QED BY <1>3, <1>4, <1>5 DEF ScreenFits, Settled

LEMMA AskFits ==
  ASSUME ScreenFits, NEW q \in Queries, query' = q, ReadFor(q), box' \in Words
  PROVE  ScreenFits'
<1>1. shown' = shown \/ shown' = Nothing
  BY DEF ReadFor, Kept
<1>2. screen.hook.keeps # "any" /\ shown' # Nothing => shown'.query = q
  BY DEF ReadFor, Kept
<1> QED BY <1>1, <1>2, EffectFits DEF ReadFor

LEMMA RereadFits == ASSUME ScreenFits, Reread PROVE ScreenFits'
<1>1. query \in Queries /\ box' \in Words /\ failed' \in BOOLEAN
  BY DEF Reread, ScreenFits, ScreensTypes
<1> QED BY <1>1, EffectFits DEF Reread, ScreenFits, Settled

LEMMA AnswerFits ==
  ASSUME ScreenFits, NEW r \in readings, AnswerReading(r)
  PROVE  ScreenFits'
<1> DEFINE a == [r EXCEPT !.answer = world]
<1>1. r \in AnyReading /\ world \in 0..MaxWorld
  BY DEF ScreenFits, ScreensTypes
<1>2. a \in AnyReading /\ a.query = r.query /\ a.live = r.live /\ a.answer = world
  BY <1>1 DEF AnyReading
<1> HIDE DEF a
<1>3. readings' = (readings \ {r}) \cup {a} /\ UNCHANGED <<screen, query, box, shown, failed, world>>
  BY DEF AnswerReading, a
<1>4. ScreensTypes'
  BY <1>2, <1>3 DEF ScreenFits, ScreensTypes
<1>5. Awaited'
  <2>1. ASSUME NEW s \in readings', s.live
        PROVE  s.query = query /\ (s.answer # Unread => shown.version <= s.answer /\ s.answer <= world)
    BY <1>1, <1>2, <1>3, <2>1 DEF ScreenFits, Awaited
  <2>2. ASSUME NEW s \in readings', NEW t \in readings', s.live, t.live PROVE s = t
    BY <1>2, <1>3, <2>2 DEF ScreenFits, Awaited
  <2> QED BY <1>3, <2>1, <2>2 DEF Awaited
<1>6. Reading' <=> Reading
  <2>1. ASSUME NEW s \in readings, s.live PROVE \E t \in readings': t.live
    BY <1>2, <1>3, <2>1
  <2>2. ASSUME NEW s \in readings', s.live PROVE \E t \in readings: t.live
    BY <1>2, <1>3, <2>2
  <2> QED BY <2>1, <2>2 DEF Reading
<1> QED BY <1>3, <1>4, <1>5, <1>6 DEF ScreenFits, Settled

LEMMA OverFits ==
  ASSUME ScreenFits, NEW r \in readings, Arrive(r) \/ FailReading(r)
  PROVE  ScreenFits'
<1>1. r \in AnyReading /\ r.live \in BOOLEAN
  BY ReadingFields DEF ScreenFits, ScreensTypes
<1>2. readings' = readings \ {r} /\ UNCHANGED <<screen, query, box, world>>
  BY DEF Arrive, FailReading
<1>3. CASE ~r.live
  <2>1. shown' = shown /\ failed' = failed
    BY <1>3 DEF Arrive, FailReading, ScreenFits, ScreensTypes
  <2>2. Reading' <=> Reading
    BY <1>2, <1>3 DEF Reading
  <2> QED BY <1>2, <2>1, <2>2 DEF ScreenFits, ScreensTypes, Awaited, Settled
<1>4. CASE r.live
  <2>1. r.query = query /\ \A s \in readings': ~s.live
    BY <1>2, <1>4 DEF ScreenFits, Awaited
  <2>2. Awaited' /\ ~Reading'
    BY <2>1 DEF Awaited, Reading
  <2>3. CASE Arrive(r)
    <3>1. shown' = [query |-> query, version |-> r.answer] /\ failed' = FALSE /\ r.answer # Unread
      BY <1>4, <2>1, <2>3 DEF Arrive
    <3>2. shown' \in AnyAnswer /\ shown'.query = query /\ shown'.version = r.answer
      BY <1>1, <3>1 DEF AnyReading, AnyAnswer, ScreenFits, ScreensTypes
    <3>3. shown' # Nothing
      BY <3>1, <3>2, EmptyScreen DEF Unread
    <3>4. ScreensTypes'
      BY <1>2, <3>1, <3>2 DEF ScreenFits, ScreensTypes
    <3>5. shown'.version <= world'
      BY <1>2, <1>4, <3>1, <3>2 DEF ScreenFits, Awaited
    <3> QED BY <1>2, <2>2, <3>2, <3>3, <3>4, <3>5 DEF ScreenFits, Settled
  <2>4. CASE FailReading(r)
    <3>1. failed' = TRUE /\ (shown' = shown \/ shown' = Nothing)
      BY <1>4, <2>4 DEF FailReading
    <3>2. ScreensTypes' /\ shown'.version <= world'
      BY <1>2, <3>1, EmptyScreen DEF ScreenFits, ScreensTypes
    <3> QED BY <1>2, <2>2, <3>1, <3>2 DEF ScreenFits, Settled
  <2> QED BY <2>3, <2>4
<1> QED BY <1>1, <1>3, <1>4

LEMMA ScreensStay == ASSUME ScreenFits, [ScreensNext]_screenVars PROVE ScreenFits'
<1> USE DEF ScreenFits
<1>1. ASSUME NEW w \in Words, Type(w) PROVE ScreenFits'
  BY <1>1 DEF Type, ScreensTypes, Awaited, Settled, Reading
<1>2. ASSUME NEW w \in Words, Key(w) PROVE ScreenFits'
  <2>1. [word |-> w, page |-> 0] \in Queries /\ box' \in Words
    BY <1>2 DEF Key, Queries, ScreensTypes
  <2> QED BY <1>2, <2>1, AskFits DEF Key, Ask
<1>3. ASSUME NEW n \in {0, 1}, Turn(n) PROVE ScreenFits'
  <2>1. [query EXCEPT !.page = n] \in Queries /\ box' \in Words
    BY <1>3 DEF Turn, Queries, ScreensTypes
  <2> QED BY <1>3, <2>1, AskFits DEF Turn, Ask
<1>4. ASSUME NEW q \in Queries, Visit(q) PROVE ScreenFits'
  <2>1. box' \in Words
    BY <1>4 DEF Visit, Queries, ScreensTypes
  <2> QED BY <1>4, <2>1, AskFits DEF Visit, Ask
<1>5. CASE SubmitQuery
  <2>1. [word |-> box, page |-> 0] \in Queries /\ box' \in Words
    BY <1>5 DEF SubmitQuery, Queries, ScreensTypes
  <2> QED BY <1>5, <2>1, AskFits DEF SubmitQuery, Ask
<1>6. CASE Reload
  BY <1>6, AskFits DEF Reload, ScreensTypes
<1>7. CASE Reread
  BY <1>7, RereadFits
<1>8. CASE WorldChanges
  <2>1. shown.version \in Int /\ world \in Int /\ world' = world + 1 /\ world' \in 0..MaxWorld
    BY <1>8, ScreensAssumption DEF WorldChanges, ScreensTypes, AnyAnswer
  <2>2. \A r \in readings: r.answer \in Int
    BY ReadingFields DEF ScreensTypes
  <2>3. Awaited' /\ shown'.version <= world'
    BY <1>8, <2>1, <2>2 DEF WorldChanges, Awaited
  <2>4. ScreensTypes' /\ Settled'
    BY <1>8, <2>1 DEF WorldChanges, ScreensTypes, Settled, Reading
  <2> QED BY <2>3, <2>4
<1>9. ASSUME NEW r \in readings, AnswerReading(r) \/ Arrive(r) \/ FailReading(r) PROVE ScreenFits'
  BY <1>9, AnswerFits, OverFits
<1>10. CASE UNCHANGED screenVars
  BY <1>10 DEF screenVars, ScreensTypes, Awaited, Settled, Reading
<1> QED BY <1>1, <1>2, <1>3, <1>4, <1>5, <1>6, <1>7, <1>8, <1>9, <1>10 DEF ScreensNext

(* What replaces an answer on the screen is another reading's, asked later. *)
LEMMA ShownGrows ==
  ASSUME ScreenFits, [ScreensNext]_screenVars, shown' # Nothing
  PROVE  shown' = shown \/ shown'.version >= shown.version
<1>1. ASSUME NEW r \in readings, Arrive(r), r.live PROVE shown'.version >= shown.version
  <2>1. shown'.version = r.answer /\ r.answer # Unread
    BY <1>1 DEF Arrive
  <2>2. r.answer \in Int
    BY ReadingFields DEF ScreenFits, ScreensTypes
  <2>3. shown.version \in Int
    BY ScreensAssumption DEF ScreenFits, ScreensTypes, AnyAnswer
  <2> QED BY <1>1, <2>1, <2>2, <2>3 DEF ScreenFits, Awaited
<1>2. ASSUME NEW q, ReadFor(q) PROVE shown' = shown
  BY <1>2 DEF ReadFor, Kept
<1> QED BY <1>1, <1>2 DEF ScreensNext, screenVars, Type, Key, Turn, Visit, SubmitQuery, Reload, Reread, Ask,
             AnswerReading, Arrive, FailReading, WorldChanges

(* In every screen, for any number of readings under way: one that neither *)
(* reads nor shows an error shows the answer to its query, and what it     *)
(* shows of a query never gives way to an older answer (useData, useLoad,  *)
(* useIssuing and the other hooks that read).                              *)
THEOREM AlwaysForTheQuery == ScreensInit /\ [][ScreensNext]_screenVars => ShownForTheQuery
<1> DEFINE Right == /\ ~Reading /\ ~failed => shown # Nothing /\ shown.query = query
                    /\ screen.hook.keeps # "any" /\ shown # Nothing => shown.query = query
           Grows == shown' # Nothing /\ shown # Nothing /\ shown'.query = shown.query
                      => shown'.version >= shown.version
<1>1. ScreenFits => Right
  BY DEF ScreenFits, Settled
<1>2. ScreenFits /\ [ScreensNext]_screenVars => [Grows]_screenVars
  <2>1. ASSUME ScreenFits PROVE shown.version \in Int
    BY <2>1 DEF ScreenFits, ScreensTypes, AnyAnswer
  <2> QED BY <2>1, ShownGrows
<1>3. ScreenFits /\ [ScreensNext]_screenVars => ScreenFits'
  BY ScreensStay
<1> QED BY ScreensStart, <1>1, <1>2, <1>3, PTL DEF ShownForTheQuery

(* The type invariant of the screens.                                      *)
THEOREM ScreensTyped == ScreensInit /\ [][ScreensNext]_screenVars => []ScreensTypes
<1>1. ScreenFits => ScreensTypes
  BY DEF ScreenFits
<1>2. ScreenFits /\ [ScreensNext]_screenVars => ScreenFits'
  BY ScreensStay
<1> QED BY ScreensStart, <1>1, <1>2, PTL

-----------------------------------------------------------------------------
(* The wallet.                                                             *)

(* What the row of an entry says by its kind.                              *)
RowStates ==
  [none |-> {"none"}, deposit |-> {"awaited", "confirming", "checking", "completed"},
   quote |-> {"usable", "used", "expired"},
   exchange |-> {"processing", "unknown", "completed", "failed"},
   withdraw |-> {"review", "processing", "unknown", "completed", "failed", "rejected", "cancelled"},
   topup |-> {"completed"}, return |-> {"processing", "unknown", "completed", "failed"}]

RowOfKind(i) ==
  /\ item[i].kind \in DOMAIN RowStates /\ item[i].status \in RowStates[item[i].kind]
  /\ item[i].kind = "none" => item[i] = NoItem
  /\ item[i].kind \in {"deposit", "withdraw"} => item[i].from = "USDT"
  /\ item[i].kind \in {"topup", "return"} => item[i].from = "USD" /\ item[i].card \in WalletCards
  /\ item[i].kind \notin {"topup", "return"} => item[i].card = "none"
  /\ item[i].quote # -1 =>
       /\ item[i].kind = "exchange" /\ item[i].quote \in WalletIds
       /\ item[item[i].quote].kind = "quote" /\ item[item[i].quote].status = "used"

Booked ==
  /\ WalletTypes
  /\ IsFiniteSet(Entries)
  /\ \A i \in WalletIds : RowOfKind(i)
  /\ WalletMatchesOrders


(* What an entry did is a number, and nothing when there is none.          *)
LEMMA EntryTyped ==
  ASSUME WalletTypes, NEW i \in WalletIds
  PROVE  /\ Hold(i) \in Nat
         /\ \A c \in Currencies : Change(i, c) \in Int /\ Withheld(i, c) \in Int
         /\ \A c \in WalletCards : OnCard(i, c) \in Int
         /\ i \notin Entries =>
              /\ \A c \in Currencies : Change(i, c) = 0 /\ Withheld(i, c) = 0
              /\ \A c \in WalletCards : OnCard(i, c) = 0
<1>1. item[i].amount \in Nat /\ item[i].fee \in Nat /\ item[i].receive \in Nat
  BY DEF WalletTypes
<1>2. Hold(i) \in Nat
  BY <1>1 DEF Hold
<1>3. \A c \in Currencies : /\ Taken(i, c) \in {0, Hold(i)} /\ Brought(i, c) \in {0, item[i].receive}
  BY DEF Taken, Brought
<1>4. \A c \in Currencies : Change(i, c) \in Int /\ Withheld(i, c) \in Int
  BY <1>1, <1>2, <1>3 DEF Change, Withheld
<1>5. \A c \in WalletCards : OnCard(i, c) \in Int
  BY <1>1 DEF OnCard
<1>6. ASSUME i \notin Entries
      PROVE  /\ \A c \in Currencies : Change(i, c) = 0 /\ Withheld(i, c) = 0
             /\ \A c \in WalletCards : OnCard(i, c) = 0
  <2>1. item[i].kind = "none" /\ item[i].status = "none" /\ item[i].card = "none"
    BY <1>6 DEF Entries, NoItem
  <2>2. \A c \in Currencies : Taken(i, c) = 0 /\ Brought(i, c) = 0
    BY <2>1 DEF Taken, Brought
  <2> QED BY <2>1, <2>2, WalletAssumption DEF Change, Withheld, OnCard
<1> QED BY <1>2, <1>4, <1>5, <1>6

(* When one entry changes, the sums over the entries change by it.         *)
LEMMA OneEntryChanges ==
  ASSUME Booked, WalletTypes', NEW i \in WalletIds, Entries' = Entries \cup {i},
         \A j \in Entries \ {i} :
           /\ \A c \in Currencies : Change(j, c)' = Change(j, c) /\ Withheld(j, c)' = Withheld(j, c)
           /\ \A c \in WalletCards : OnCard(j, c)' = OnCard(j, c),
         \A c \in Currencies :
           /\ balance'[c] = balance[c] - Change(i, c) + Change(i, c)'
           /\ reserved'[c] = reserved[c] - Withheld(i, c) + Withheld(i, c)',
         \A c \in WalletCards : budget'[c] = budget[c] - OnCard(i, c) + OnCard(i, c)'
  PROVE  /\ IsFiniteSet(Entries')
         /\ \A c \in Currencies :
              /\ balance'[c] = WalletOpening[c] + SumFunction([j \in Entries' |-> Change(j, c)'])
              /\ reserved'[c] = SumFunction([j \in Entries' |-> Withheld(j, c)'])
         /\ \A c \in WalletCards :
              budget'[c] = CardBudget[c] + SumFunction([j \in Entries' |-> OnCard(j, c)'])
<1>1. IsFiniteSet(Entries) /\ Entries \subseteq WalletIds /\ i \in Entries'
  BY DEF Booked, Entries
<1>2. IsFiniteSet(Entries \cup {i})
  BY <1>1, FS_AddElement
<1>3. IsFiniteSet(Entries')
  BY <1>2, Zenon
<1>4. /\ \A c \in Currencies : /\ Change(i, c)' \in Int /\ Withheld(i, c)' \in Int
                               /\ WalletOpening[c] \in Int
      /\ \A c \in WalletCards : OnCard(i, c)' \in Int /\ CardBudget[c] \in Int
  <2>1. /\ \A c \in Currencies : Change(i, c)' \in Int /\ Withheld(i, c)' \in Int
        /\ \A c \in WalletCards : OnCard(i, c)' \in Int
    <3>1. item'[i].amount \in Nat /\ item'[i].fee \in Nat /\ item'[i].receive \in Nat
      BY DEF WalletTypes
    <3>2. Hold(i)' \in Nat
      BY <3>1 DEF Hold
    <3>3. \A c \in Currencies : Taken(i, c)' \in {0, Hold(i)'} /\ Brought(i, c)' \in {0, item'[i].receive}
      BY DEF Taken, Brought
    <3> QED BY <3>1, <3>2, <3>3 DEF Change, Withheld, OnCard
  <2> QED BY <2>1, WalletAssumption
<1>5. ASSUME NEW c \in Currencies
      PROVE  balance'[c] = WalletOpening[c] + SumFunction([j \in Entries' |-> Change(j, c)'])
  <2> PICK f, g, old : /\ f = [j \in Entries |-> Change(j, c)]
                       /\ g = [j \in Entries \cup {i} |-> Change(j, c)']
                       /\ old = Change(i, c)
    OBVIOUS
  <2>1. /\ \A j \in Entries : f[j] \in Int
        /\ i \in Entries => f[i] = old
        /\ i \notin Entries => old = 0
        /\ old \in Int
    BY <1>1, EntryTyped DEF Booked
  <2>2. g[i] = Change(i, c)' /\ g[i] \in Int /\ \A j \in Entries \ {i} : g[j] = f[j]
    BY <1>1, <1>4
  <2>3. /\ SumFunction([j \in Entries' |-> Change(j, c)']) = SumFunctionOnSet(g, Entries \cup {i})
        /\ SumFunction([j \in Entries |-> Change(j, c)]) = SumFunctionOnSet(f, Entries)
    BY DEF SumFunction
  <2>4. SumFunctionOnSet(g, Entries \cup {i}) = SumFunctionOnSet(f, Entries) - old + g[i]
    BY <1>1, <2>1, <2>2, SumPut, SMTT(20)
  <2>5. SumFunctionOnSet(f, Entries) \in Int
    BY <1>1, <2>1, SumInt
  <2>6. balance[c] = WalletOpening[c] + SumFunctionOnSet(f, Entries)
    BY <2>3 DEF Booked, WalletMatchesOrders
  <2>7. balance'[c] = balance[c] - old + g[i]
    BY <2>2
  <2> QED BY <1>4, <2>1, <2>2, <2>3, <2>4, <2>5, <2>6, <2>7
<1>6. ASSUME NEW c \in Currencies
      PROVE  reserved'[c] = SumFunction([j \in Entries' |-> Withheld(j, c)'])
  <2> PICK f, g, old : /\ f = [j \in Entries |-> Withheld(j, c)]
                       /\ g = [j \in Entries \cup {i} |-> Withheld(j, c)']
                       /\ old = Withheld(i, c)
    OBVIOUS
  <2>1. /\ \A j \in Entries : f[j] \in Int
        /\ i \in Entries => f[i] = old
        /\ i \notin Entries => old = 0
        /\ old \in Int
    BY <1>1, EntryTyped DEF Booked
  <2>2. g[i] = Withheld(i, c)' /\ g[i] \in Int /\ \A j \in Entries \ {i} : g[j] = f[j]
    BY <1>1, <1>4
  <2>3. /\ SumFunction([j \in Entries' |-> Withheld(j, c)']) = SumFunctionOnSet(g, Entries \cup {i})
        /\ SumFunction([j \in Entries |-> Withheld(j, c)]) = SumFunctionOnSet(f, Entries)
    BY DEF SumFunction
  <2>4. SumFunctionOnSet(g, Entries \cup {i}) = SumFunctionOnSet(f, Entries) - old + g[i]
    BY <1>1, <2>1, <2>2, SumPut, SMTT(20)
  <2>5. reserved[c] = SumFunctionOnSet(f, Entries)
    BY <2>3 DEF Booked, WalletMatchesOrders
  <2>6. reserved'[c] = reserved[c] - old + g[i]
    BY <2>2
  <2> QED BY <2>3, <2>4, <2>5, <2>6
<1>7. ASSUME NEW c \in WalletCards
      PROVE  budget'[c] = CardBudget[c] + SumFunction([j \in Entries' |-> OnCard(j, c)'])
  <2> PICK f, g, old : /\ f = [j \in Entries |-> OnCard(j, c)]
                       /\ g = [j \in Entries \cup {i} |-> OnCard(j, c)']
                       /\ old = OnCard(i, c)
    OBVIOUS
  <2>1. /\ \A j \in Entries : f[j] \in Int
        /\ i \in Entries => f[i] = old
        /\ i \notin Entries => old = 0
        /\ old \in Int
    BY <1>1, EntryTyped DEF Booked
  <2>2. g[i] = OnCard(i, c)' /\ g[i] \in Int /\ \A j \in Entries \ {i} : g[j] = f[j]
    BY <1>1, <1>4
  <2>3. /\ SumFunction([j \in Entries' |-> OnCard(j, c)']) = SumFunctionOnSet(g, Entries \cup {i})
        /\ SumFunction([j \in Entries |-> OnCard(j, c)]) = SumFunctionOnSet(f, Entries)
    BY DEF SumFunction
  <2>4. SumFunctionOnSet(g, Entries \cup {i}) = SumFunctionOnSet(f, Entries) - old + g[i]
    BY <1>1, <2>1, <2>2, SumPut, SMTT(20)
  <2>5. SumFunctionOnSet(f, Entries) \in Int
    BY <1>1, <2>1, SumInt
  <2>6. budget[c] = CardBudget[c] + SumFunctionOnSet(f, Entries)
    BY <2>3 DEF Booked, WalletMatchesOrders
  <2>7. budget'[c] = budget[c] - old + g[i]
    BY <2>2
  <2> QED BY <1>4, <2>1, <2>2, <2>3, <2>4, <2>5, <2>6, <2>7
<1> QED BY <1>3, <1>5, <1>6, <1>7

(* What one entry does is all that changes. *)
LEMMA EntryIsBooked ==
  ASSUME Booked, NEW i \in WalletIds, NEW row, item' = [item EXCEPT ![i] = row],
         row.kind # "none", row.quote = item[i].quote, RowOfKind(i)',
         ~ (item[i].kind = "quote" /\ item[i].status = "used"), WalletTypes',
         \A c \in Currencies :
           /\ balance'[c] = balance[c] - Change(i, c) + Change(i, c)'
           /\ reserved'[c] = reserved[c] - Withheld(i, c) + Withheld(i, c)',
         \A c \in WalletCards : budget'[c] = budget[c] - OnCard(i, c) + OnCard(i, c)'
  PROVE  Booked'
<1>1. item'[i] = row /\ \A j \in WalletIds \ {i} : item'[j] = item[j]
  BY DEF Booked, WalletTypes
<1>2. Entries' = Entries \cup {i}
  BY <1>1 DEF Entries, NoItem
<1>3. \A j \in Entries \ {i} :
        /\ \A c \in Currencies : Change(j, c)' = Change(j, c) /\ Withheld(j, c)' = Withheld(j, c)
        /\ \A c \in WalletCards : OnCard(j, c)' = OnCard(j, c)
  BY <1>1 DEF Entries, Change, Withheld, OnCard, Taken, Brought, Hold, Underway, Undone
<1>4. /\ IsFiniteSet(Entries')
      /\ \A c \in Currencies :
           /\ balance'[c] = WalletOpening[c] + SumFunction([j \in Entries' |-> Change(j, c)'])
           /\ reserved'[c] = SumFunction([j \in Entries' |-> Withheld(j, c)'])
      /\ \A c \in WalletCards :
           budget'[c] = CardBudget[c] + SumFunction([j \in Entries' |-> OnCard(j, c)'])
  BY <1>2, <1>3, OneEntryChanges
<1>5. ASSUME NEW j \in WalletIds PROVE RowOfKind(j)'
  <2>1. CASE j # i
    <3>1. RowOfKind(j) /\ item'[j] = item[j]
      BY <1>1, <2>1 DEF Booked
    <3>2. item[j].quote # -1 => item[j].quote # i /\ item'[item[j].quote] = item[item[j].quote]
      BY <1>1, <3>1 DEF RowOfKind
    <3> QED BY <3>1, <3>2 DEF RowOfKind
  <2> QED BY <2>1
<1>6. \A j, k \in WalletIds : item'[j].quote # -1 /\ item'[j].quote = item'[k].quote => j = k
  BY <1>1 DEF Booked, WalletMatchesOrders
<1>7. WalletMatchesOrders'
  BY <1>4, <1>6 DEF WalletMatchesOrders
<1> QED BY <1>4, <1>5, <1>7 DEF Booked

LEMMA FreshIs ==
  ASSUME Booked, NEW i \in WalletIds, Fresh(i)
  PROVE  /\ item[i] = NoItem /\ item[i].kind = "none" /\ item[i].quote = -1
         /\ \A c \in Currencies : Change(i, c) = 0 /\ Withheld(i, c) = 0
         /\ \A c \in WalletCards : OnCard(i, c) = 0
<1>1. item[i] = NoItem /\ i \notin Entries
  BY DEF Fresh, Entries
<1> QED BY <1>1, EntryTyped DEF NoItem, Booked

(* New entries that move nothing, a withdrawal, and money on or off a card. *)
LEMMA NewEntryIsBooked ==
  ASSUME Booked, NEW i \in WalletIds, NEW n \in MoveAmounts,
         \/ Deposit(i, n) \/ WithdrawFunds(i, n) \/ \E c \in Currencies : AskQuote(i, c, n)
         \/ \E c \in WalletCards : TopUp(i, c, n) \/ CardReturn(i, c, n)
  PROVE  Booked'
<1>0. n \in Nat /\ n + PayoutFee \in Nat /\ Receives[n] \in Nat /\ PayoutFee \in Nat
  BY WalletAssumption
<1>1. Fresh(i)
  BY DEF Deposit, WithdrawFunds, AskQuote, TopUp, CardReturn
<1>2. /\ item[i].kind = "none" /\ item[i].quote = -1
      /\ \A c \in Currencies : Change(i, c) = 0 /\ Withheld(i, c) = 0
      /\ \A c \in WalletCards : OnCard(i, c) = 0
      /\ balance \in [Currencies -> Nat] /\ reserved \in [Currencies -> Nat] /\ budget \in [WalletCards -> Nat]
  BY <1>1, FreshIs DEF Booked, WalletTypes
<1>3. CASE Deposit(i, n) \/ \E c \in Currencies : AskQuote(i, c, n)
  <2>1. PICK row : /\ item' = [item EXCEPT ![i] = row]
                   /\ row \in [kind : {"deposit", "quote"}, status : {"awaited", "usable"}, from : Currencies,
                               amount : Nat, fee : Nat, receive : Nat, card : {"none"}, quote : {-1}]
                   /\ row.kind = "deposit" => row.status = "awaited" /\ row.from = "USDT"
                   /\ row.kind = "quote" => row.status = "usable"
    <3>1. CASE Deposit(i, n)
      <4> DEFINE r == [NoItem EXCEPT !.kind = "deposit", !.status = "awaited", !.from = "USDT",
                                     !.amount = n, !.receive = n]
      <4>1. /\ r \in [kind : {"deposit", "quote"}, status : {"awaited", "usable"}, from : Currencies,
                      amount : Nat, fee : Nat, receive : Nat, card : {"none"}, quote : {-1}]
            /\ r.kind = "deposit" /\ r.status = "awaited" /\ r.from = "USDT"
        BY <1>0 DEF NoItem, Currencies
      <4>2. item' = [item EXCEPT ![i] = r]
        BY <3>1 DEF Deposit, Made
      <4> HIDE DEF r
      <4> QED BY <4>1, <4>2
    <3>2. CASE \E c \in Currencies : AskQuote(i, c, n)
      <4> PICK c \in Currencies : AskQuote(i, c, n)
        BY <3>2
      <4> DEFINE r == [NoItem EXCEPT !.kind = "quote", !.status = "usable", !.from = c,
                                     !.amount = n, !.receive = Receives[n]]
      <4>1. /\ r \in [kind : {"deposit", "quote"}, status : {"awaited", "usable"}, from : Currencies,
                      amount : Nat, fee : Nat, receive : Nat, card : {"none"}, quote : {-1}]
            /\ r.kind = "quote" /\ r.status = "usable"
        BY <1>0 DEF NoItem
      <4>2. item' = [item EXCEPT ![i] = r]
        BY DEF AskQuote, Made
      <4> HIDE DEF r
      <4> QED BY <4>1, <4>2
    <3> QED BY <1>3, <3>1, <3>2
  <2>2. UNCHANGED <<balance, reserved, budget, frozen, address>>
    BY <1>3 DEF Deposit, AskQuote, FundsUnchanged, CardsUnchanged
  <2>3. item'[i] = row
    BY <2>1 DEF Booked, WalletTypes
  <2>4. WalletTypes'
    BY <2>1, <2>2 DEF Booked, WalletTypes, Currencies
  <2>5. RowOfKind(i)'
    BY <2>1, <2>3 DEF RowOfKind, RowStates
  <2>6. /\ \A c \in Currencies : Change(i, c)' = 0 /\ Withheld(i, c)' = 0
        /\ \A c \in WalletCards : OnCard(i, c)' = 0
    <3>1. /\ item'[i].kind \notin {"exchange", "withdraw", "topup", "return"} /\ item'[i].status # "completed"
          /\ item'[i].card = "none"
      BY <2>1, <2>3
    <3>2. \A c \in Currencies : Taken(i, c)' = 0 /\ Brought(i, c)' = 0
      BY <3>1 DEF Taken, Brought
    <3> QED BY <3>1, <3>2, WalletAssumption DEF Change, Withheld, OnCard
  <2>7. /\ \A c \in Currencies : /\ balance'[c] = balance[c] - Change(i, c) + Change(i, c)'
                               /\ reserved'[c] = reserved[c] - Withheld(i, c) + Withheld(i, c)'
        /\ \A c \in WalletCards : budget'[c] = budget[c] - OnCard(i, c) + OnCard(i, c)'
    BY <1>2, <2>2, <2>6
  <2> QED BY <1>2, <2>1, <2>4, <2>5, <2>7, EntryIsBooked
<1>4. CASE WithdrawFunds(i, n)
  <2> DEFINE row == [NoItem EXCEPT !.kind = "withdraw", !.status = "review", !.from = "USDT",
                                   !.amount = n, !.fee = PayoutFee, !.receive = n]
  <2>1. /\ item' = [item EXCEPT ![i] = row] /\ balance["USDT"] >= n + PayoutFee
        /\ balance' = [balance EXCEPT !["USDT"] = balance["USDT"] - (n + PayoutFee)]
        /\ reserved' = [reserved EXCEPT !["USDT"] = reserved["USDT"] + (n + PayoutFee)]
        /\ UNCHANGED <<budget, frozen, address>>
    BY <1>4 DEF WithdrawFunds, ReserveFunds, Made, CardsUnchanged
  <2>2. /\ row.kind = "withdraw" /\ row.status = "review" /\ row.from = "USDT" /\ row.amount = n
        /\ row.fee = PayoutFee /\ row.receive = n /\ row.card = "none" /\ row.quote = -1
        /\ row \in [kind : {"withdraw"}, status : {"review"}, from : {"USDT"}, amount : Nat, fee : Nat,
                    receive : Nat, card : {"none"}, quote : {-1}]
    BY <1>0 DEF NoItem
  <2> HIDE DEF row
  <2>3. item'[i] = row
    BY <2>1 DEF Booked, WalletTypes
  <2>4. WalletTypes'
    <3>1. balance["USDT"] - (n + PayoutFee) \in Nat /\ reserved["USDT"] + (n + PayoutFee) \in Nat
      BY <1>0, <1>2, <2>1 DEF Currencies
    <3> QED BY <2>1, <2>2, <3>1 DEF Booked, WalletTypes, Currencies
  <2>5. RowOfKind(i)'
    BY <2>2, <2>3 DEF RowOfKind, RowStates
  <2>6. /\ Change(i, "USDT")' = -(n + PayoutFee) /\ Withheld(i, "USDT")' = n + PayoutFee
        /\ Change(i, "USD")' = 0 /\ Withheld(i, "USD")' = 0
        /\ \A c \in WalletCards : OnCard(i, c)' = 0
    BY <1>0, <2>2, <2>3, WalletAssumption
       DEF Change, Withheld, OnCard, Taken, Brought, Underway, Undone, Hold
  <2>7. \A c \in Currencies : /\ balance'[c] = balance[c] - Change(i, c) + Change(i, c)'
                              /\ reserved'[c] = reserved[c] - Withheld(i, c) + Withheld(i, c)'
    BY <1>0, <1>2, <2>1, <2>6 DEF Currencies
  <2>8. \A c \in WalletCards : budget'[c] = budget[c] - OnCard(i, c) + OnCard(i, c)'
    BY <1>2, <2>1, <2>6
  <2> QED BY <1>2, <2>1, <2>2, <2>4, <2>5, <2>7, <2>8, EntryIsBooked
<1>5. ASSUME NEW c \in WalletCards, TopUp(i, c, n) PROVE Booked'
  <2> DEFINE row == [NoItem EXCEPT !.kind = "topup", !.status = "completed", !.amount = n,
                                   !.receive = n, !.card = c]
  <2>1. /\ item' = [item EXCEPT ![i] = row] /\ n <= balance["USD"]
        /\ balance' = [balance EXCEPT !["USD"] = balance["USD"] - n]
        /\ budget' = [budget EXCEPT ![c] = budget[c] + n]
        /\ UNCHANGED <<reserved, frozen, address>>
    BY <1>5 DEF TopUp, Made
  <2>2. /\ row.kind = "topup" /\ row.status = "completed" /\ row.from = "USD" /\ row.amount = n
        /\ row.receive = n /\ row.card = c /\ row.quote = -1
        /\ row \in [kind : {"topup"}, status : {"completed"}, from : {"USD"}, amount : Nat, fee : Nat,
                    receive : Nat, card : WalletCards, quote : {-1}]
    BY <1>0 DEF NoItem
  <2> HIDE DEF row
  <2>3. item'[i] = row
    BY <2>1 DEF Booked, WalletTypes
  <2>4. WalletTypes'
    <3>1. balance["USD"] - n \in Nat /\ budget[c] + n \in Nat
      BY <1>0, <1>2, <2>1 DEF Currencies
    <3> QED BY <2>1, <2>2, <3>1 DEF Booked, WalletTypes, Currencies
  <2>5. RowOfKind(i)'
    BY <2>2, <2>3 DEF RowOfKind, RowStates
  <2>6. /\ Change(i, "USD")' = -n /\ Withheld(i, "USD")' = 0
        /\ Change(i, "USDT")' = 0 /\ Withheld(i, "USDT")' = 0
        /\ \A d \in WalletCards : OnCard(i, d)' = IF d = c THEN n ELSE 0
    <3>1. Hold(i)' = n
      BY <1>0, <2>2, <2>3 DEF Hold
    <3>2. /\ Taken(i, "USD")' = n /\ Taken(i, "USDT")' = 0 /\ Brought(i, "USD")' = 0
          /\ Brought(i, "USDT")' = 0 /\ ~ Underway(i)'
      BY <2>2, <2>3, <3>1 DEF Taken, Brought, Undone, Underway
    <3>3. /\ item'[i].kind = "topup" /\ item'[i].card = c /\ item'[i].amount = n
          /\ item'[i].status = "completed"
      BY <2>2, <2>3
    <3>4. \A d \in WalletCards : OnCard(i, d)' = IF d = c THEN n ELSE 0
      BY <3>3 DEF OnCard, Undone
    <3> QED BY <1>0, <3>2, <3>4 DEF Change, Withheld
  <2>7. \A d \in Currencies : /\ balance'[d] = balance[d] - Change(i, d) + Change(i, d)'
                              /\ reserved'[d] = reserved[d] - Withheld(i, d) + Withheld(i, d)'
    BY <1>0, <1>2, <2>1, <2>6 DEF Currencies
  <2>8. \A d \in WalletCards : budget'[d] = budget[d] - OnCard(i, d) + OnCard(i, d)'
    BY <1>0, <1>2, <2>1, <2>6
  <2> QED BY <1>2, <2>1, <2>2, <2>4, <2>5, <2>7, <2>8, EntryIsBooked
<1>6. ASSUME NEW c \in WalletCards, CardReturn(i, c, n) PROVE Booked'
  <2> DEFINE row == [NoItem EXCEPT !.kind = "return", !.status = "processing", !.amount = n,
                                   !.receive = n, !.card = c]
  <2>1. /\ item' = [item EXCEPT ![i] = row] /\ budget[c] >= n
        /\ budget' = [budget EXCEPT ![c] = budget[c] - n]
        /\ UNCHANGED <<balance, reserved, frozen, address>>
    BY <1>6 DEF CardReturn, Made, FundsUnchanged
  <2>2. /\ row.kind = "return" /\ row.status = "processing" /\ row.from = "USD" /\ row.amount = n
        /\ row.receive = n /\ row.card = c /\ row.quote = -1
        /\ row \in [kind : {"return"}, status : {"processing"}, from : {"USD"}, amount : Nat, fee : Nat,
                    receive : Nat, card : WalletCards, quote : {-1}]
    BY <1>0 DEF NoItem
  <2> HIDE DEF row
  <2>3. item'[i] = row
    BY <2>1 DEF Booked, WalletTypes
  <2>4. WalletTypes'
    <3>1. budget[c] - n \in Nat
      BY <1>0, <1>2, <2>1
    <3> QED BY <2>1, <2>2, <3>1 DEF Booked, WalletTypes, Currencies
  <2>5. RowOfKind(i)'
    BY <2>2, <2>3 DEF RowOfKind, RowStates
  <2>6. /\ \A d \in Currencies : Change(i, d)' = 0 /\ Withheld(i, d)' = 0
        /\ \A d \in WalletCards : OnCard(i, d)' = IF d = c THEN -n ELSE 0
    BY <1>0, <2>2, <2>3 DEF Change, Withheld, OnCard, Taken, Brought, Underway, Undone, Hold
  <2>7. \A d \in Currencies : /\ balance'[d] = balance[d] - Change(i, d) + Change(i, d)'
                              /\ reserved'[d] = reserved[d] - Withheld(i, d) + Withheld(i, d)'
    BY <1>0, <1>2, <2>1, <2>6
  <2>8. \A d \in WalletCards : budget'[d] = budget[d] - OnCard(i, d) + OnCard(i, d)'
    BY <1>0, <1>2, <2>1, <2>6
  <2> QED BY <1>2, <2>1, <2>2, <2>4, <2>5, <2>7, <2>8, EntryIsBooked
<1> QED BY <1>3, <1>4, <1>5, <1>6

(* A new status of an entry is all that changes, beside the money.         *)
LEMMA StatusIsBooked ==
  ASSUME Booked, NEW i \in WalletIds, NEW s, Ends(i, s),
         item[i].kind # "none", s \in RowStates[item[i].kind],
         ~ (item[i].kind = "quote" /\ item[i].status = "used"),
         balance' \in [Currencies -> Nat], reserved' \in [Currencies -> Nat],
         budget' \in [WalletCards -> Nat], frozen' = frozen, address' = address,
         \A c \in Currencies :
           /\ balance'[c] = balance[c] - Change(i, c) + Change(i, c)'
           /\ reserved'[c] = reserved[c] - Withheld(i, c) + Withheld(i, c)',
         \A c \in WalletCards : budget'[c] = budget[c] - OnCard(i, c) + OnCard(i, c)'
  PROVE  Booked'
<1> DEFINE row == [item[i] EXCEPT !.status = s]
<1>1. /\ item' = [item EXCEPT ![i] = row]
      /\ row.kind = item[i].kind /\ row.status = s /\ row.from = item[i].from
      /\ row.card = item[i].card /\ row.quote = item[i].quote
  BY DEF Booked, WalletTypes, Ends
<1>2. WalletTypes'
  <2>1. s \in UNION {RowStates[k] : k \in DOMAIN RowStates}
    BY DEF Booked, RowOfKind
  <2>2. s \in {"none", "awaited", "confirming", "checking", "usable", "used", "expired",
               "review", "processing", "unknown", "completed", "failed", "rejected", "cancelled"}
    BY <2>1 DEF RowStates
  <2> QED BY <2>2 DEF Booked, WalletTypes, Ends
<1> HIDE DEF row
<1>3. item'[i] = row /\ \A j \in WalletIds \ {i} : item'[j] = item[j]
  BY <1>1 DEF Booked, WalletTypes
<1>4. RowOfKind(i) /\ (item[i].quote # -1 => item'[item[i].quote] = item[item[i].quote])
  BY <1>3 DEF Booked, RowOfKind
<1>5. RowOfKind(i)'
  BY <1>1, <1>3, <1>4 DEF RowOfKind
<1> QED BY <1>1, <1>2, <1>5, EntryIsBooked

(* The result of an order, and the end of a quote or of a deposit.         *)
LEMMA OldEntryIsBooked ==
  ASSUME Booked, NEW i \in WalletIds,
         \/ QuoteExpires(i) \/ CancelWithdrawal(i) \/ DepositEvent(i) \/ ReviewEvent(i)
         \/ UnknownEvent(i) \/ CompleteEvent(i) \/ FailEvent(i)
  PROVE  Booked'
<1>1. /\ RowOfKind(i) /\ Hold(i) \in Nat /\ item[i].receive \in Nat /\ item[i].amount \in Nat
      /\ balance \in [Currencies -> Nat] /\ reserved \in [Currencies -> Nat] /\ budget \in [WalletCards -> Nat]
      /\ \A c \in Currencies : Change(i, c) \in Int /\ Withheld(i, c) \in Int
      /\ \A c \in WalletCards : OnCard(i, c) \in Int
      /\ "USD" \in Currencies /\ "USDT" \in Currencies
  BY EntryTyped DEF Booked, WalletTypes, Currencies
<1>2. ASSUME NEW s, Ends(i, s)
      PROVE  /\ item'[i].kind = item[i].kind /\ item'[i].status = s /\ item'[i].from = item[i].from
             /\ item'[i].amount = item[i].amount /\ item'[i].receive = item[i].receive
             /\ item'[i].fee = item[i].fee
             /\ item'[i].card = item[i].card /\ Hold(i)' = Hold(i)
  BY <1>2 DEF Booked, WalletTypes, Hold, Ends
<1>3. ASSUME NEW s, Ends(i, s), UNCHANGED <<balance, reserved, budget, frozen, address>>,
             \/ item[i].kind = "quote" /\ item[i].status = "usable" /\ s = "expired"
             \/ item[i].kind = "deposit" /\ item[i].status # "completed" /\ s \in {"confirming", "checking"}
             \/ item[i].kind = "withdraw" /\ item[i].status = "review" /\ s = "processing"
             \/ item[i].kind \in {"withdraw", "exchange", "return"} /\ item[i].status = "processing" /\ s = "unknown"
      PROVE  Booked'
  <2>1. item[i].kind # "none" /\ s \in RowStates[item[i].kind] /\ ~ (item[i].kind = "quote" /\ item[i].status = "used")
    BY <1>3 DEF RowStates
  <2>2. /\ item[i].status # "completed" /\ s # "completed" /\ ~ Undone(i) /\ ~ Undone(i)'
        /\ Underway(i)' = Underway(i)
    BY <1>1, <1>2, <1>3 DEF RowOfKind, RowStates, Undone, Underway
  <2>3. \A c \in Currencies : Taken(i, c)' = Taken(i, c) /\ Brought(i, c) = 0 /\ Brought(i, c)' = 0
    BY <1>2, <1>3, <2>2 DEF Taken, Brought
  <2>4. \A c \in Currencies : Change(i, c)' = Change(i, c) /\ Withheld(i, c)' = Withheld(i, c)
    BY <1>2, <1>3, <2>2, <2>3 DEF Change, Withheld
  <2>5. \A c \in WalletCards : OnCard(i, c)' = OnCard(i, c)
    BY <1>2, <1>3, <2>2 DEF OnCard
  <2> QED BY <1>1, <1>3, <2>1, <2>4, <2>5, StatusIsBooked
<1>4. ASSUME NEW s, Ends(i, s), ReleaseFunds(i), UNCHANGED <<budget, frozen, address>>,
             item[i].kind \in {"withdraw", "exchange"}, s \in RowStates[item[i].kind], s \in {"cancelled", "rejected", "failed"},
             Underway(i)
      PROVE  Booked'
  <2>1. item[i].from \in Currencies /\ item[i].card = "none"
    BY <1>1, <1>4 DEF RowOfKind, Booked, WalletTypes
  <2>2. ~ Undone(i) /\ Undone(i)' /\ ~ Underway(i)' /\ item[i].status # "completed" /\ item'[i].status # "completed"
    BY <1>2, <1>4 DEF Undone, Underway
  <2>3. \A c \in Currencies :
          /\ Taken(i, c) = IF c = item[i].from THEN Hold(i) ELSE 0
          /\ Taken(i, c)' = 0 /\ Brought(i, c) = 0 /\ Brought(i, c)' = 0
    BY <1>2, <1>4, <2>2 DEF Taken, Brought
  <2>4. \A c \in Currencies :
          /\ Change(i, c) = IF c = item[i].from THEN -Hold(i) ELSE 0
          /\ Withheld(i, c) = IF c = item[i].from THEN Hold(i) ELSE 0
          /\ Change(i, c)' = 0 /\ Withheld(i, c)' = 0
    BY <1>1, <1>2, <1>4, <2>2, <2>3 DEF Change, Withheld
  <2>5. \A c \in WalletCards : OnCard(i, c) = 0 /\ OnCard(i, c)' = 0
    BY <1>2, <1>4, <2>1, WalletAssumption DEF OnCard
  <2>6. /\ balance' \in [Currencies -> Nat] /\ reserved' \in [Currencies -> Nat]
        /\ \A c \in Currencies :
             /\ balance'[c] = balance[c] - Change(i, c) + Change(i, c)'
             /\ reserved'[c] = reserved[c] - Withheld(i, c) + Withheld(i, c)'
    BY <1>1, <1>4, <2>1, <2>4 DEF ReleaseFunds
  <2> QED BY <1>1, <1>4, <2>5, <2>6, StatusIsBooked
<1>5. CASE QuoteExpires(i) \/ UnknownEvent(i)
  <2>1. QuoteExpires(i) => Ends(i, "expired") /\ item[i].kind = "quote" /\ item[i].status = "usable"
    BY DEF QuoteExpires, Ends
  <2>2. UNCHANGED <<balance, reserved, budget, frozen, address>>
    BY <1>5 DEF QuoteExpires, UnknownEvent, FundsUnchanged, CardsUnchanged
  <2> QED BY <1>3, <1>5, <2>1, <2>2 DEF UnknownEvent
<1>6. CASE CancelWithdrawal(i)
  BY <1>4, <1>6 DEF CancelWithdrawal, CardsUnchanged, Underway, RowStates
<1>7. CASE ReviewEvent(i)
  <2>1. CASE Ends(i, "processing") /\ FundsUnchanged
    BY <1>3, <1>7, <2>1 DEF ReviewEvent, FundsUnchanged, CardsUnchanged
  <2>2. CASE Ends(i, "rejected") /\ ReleaseFunds(i)
    BY <1>4, <1>7, <2>2 DEF ReviewEvent, CardsUnchanged, Underway, RowStates
  <2> QED BY <1>7, <2>1, <2>2 DEF ReviewEvent
<1>8. CASE DepositEvent(i)
  <2> DEFINE Credited == /\ item[i].status \in {"confirming", "checking"} /\ Ends(i, "completed")
                         /\ balance' = [balance EXCEPT !["USDT"] = balance["USDT"] + item[i].receive]
                         /\ UNCHANGED reserved
  <2>1. ASSUME NEW s \in {"confirming", "checking"}, Ends(i, s), FundsUnchanged, item[i].status # "completed"
        PROVE  Booked'
    BY <1>3, <1>8, <2>1 DEF DepositEvent, FundsUnchanged, CardsUnchanged
  <2>2. CASE Credited
    <3>1. /\ Ends(i, "completed") /\ item[i].kind = "deposit"
          /\ item[i].status \in {"confirming", "checking"}
          /\ balance' = [balance EXCEPT !["USDT"] = balance["USDT"] + item[i].receive]
          /\ UNCHANGED <<reserved, budget, frozen, address>>
      BY <1>8, <2>2 DEF DepositEvent, CardsUnchanged
    <3>2. "completed" \in RowStates[item[i].kind] /\ item[i].card = "none"
      BY <1>1, <3>1 DEF RowStates, RowOfKind
    <3>3. \A c \in Currencies :
            /\ Taken(i, c) = 0 /\ Taken(i, c)' = 0 /\ Brought(i, c) = 0
            /\ Brought(i, c)' = IF c = "USDT" THEN item[i].receive ELSE 0
      BY <1>2, <3>1 DEF Taken, Brought
    <3>4. \A c \in Currencies :
            /\ Change(i, c) = 0 /\ Change(i, c)' = (IF c = "USDT" THEN item[i].receive ELSE 0)
            /\ Withheld(i, c) = 0 /\ Withheld(i, c)' = 0
      BY <1>1, <3>3 DEF Change, Withheld
    <3>5. \A c \in WalletCards : OnCard(i, c) = 0 /\ OnCard(i, c)' = 0
      BY <1>2, <3>1, <3>2, WalletAssumption DEF OnCard
    <3>6. /\ balance' \in [Currencies -> Nat]
          /\ \A c \in Currencies : /\ balance'[c] = balance[c] - Change(i, c) + Change(i, c)'
                                   /\ reserved'[c] = reserved[c] - Withheld(i, c) + Withheld(i, c)'
      BY <1>1, <3>1, <3>4
    <3> QED BY <1>1, <3>1, <3>2, <3>5, <3>6, StatusIsBooked
  <2> QED BY <1>8, <2>1, <2>2 DEF DepositEvent
<1>9. CASE CompleteEvent(i)
  <2>1. /\ Ends(i, "completed") /\ Pending(i) /\ UNCHANGED <<budget, frozen, address>>
        /\ item[i].kind \in {"withdraw", "exchange", "return"}
    BY <1>9 DEF CompleteEvent, CardsUnchanged
  <2>2. /\ "completed" \in RowStates[item[i].kind] /\ item[i].from \in Currencies
        /\ item[i].kind = "withdraw" => item[i].from = "USDT"
        /\ item[i].kind = "return" => item[i].from = "USD"
    BY <1>1, <2>1 DEF RowStates, RowOfKind, Booked, WalletTypes
  <2>3. /\ ~ Undone(i) /\ ~ Undone(i)' /\ Underway(i) /\ ~ Underway(i)' /\ item[i].status # "completed"
        /\ item'[i].status = "completed"
    BY <1>2, <2>1 DEF Undone, Underway, Pending
  <2>4. \A c \in WalletCards : OnCard(i, c)' = OnCard(i, c)
    BY <1>2, <2>1, <2>3 DEF OnCard
  <2>5. \A c \in Currencies :
          /\ Taken(i, c)' = Taken(i, c) /\ Taken(i, c) \in {0, Hold(i)} /\ Brought(i, c) = 0
          /\ Brought(i, c)' = IF \/ item[i].kind = "exchange" /\ item[i].from # c
                                 \/ item[i].kind = "return" /\ c = "USD"
                              THEN item[i].receive ELSE 0
    BY <1>2, <2>1, <2>3 DEF Taken, Brought
  <2>6. \A c \in Currencies :
          /\ Change(i, c)' = Change(i, c) + Brought(i, c)'
          /\ Withheld(i, c)' = 0
          /\ Withheld(i, c) = IF item[i].kind # "return" /\ c = item[i].from THEN Hold(i) ELSE 0
    <3>1. \A c \in Currencies : item[i].kind # "return" => Taken(i, c) = IF c = item[i].from THEN Hold(i) ELSE 0
      BY <2>1, <2>3 DEF Taken
    <3> QED BY <1>1, <2>3, <2>5, <3>1 DEF Change, Withheld
  <2>7. /\ balance' \in [Currencies -> Nat] /\ reserved' \in [Currencies -> Nat]
        /\ \A c \in Currencies :
             /\ balance'[c] = balance[c] + Brought(i, c)'
             /\ reserved'[c] = reserved[c] - Withheld(i, c)
    <3>1. CASE item[i].kind = "withdraw"
      BY <1>1, <1>9, <2>2, <2>5, <2>6, <3>1 DEF CompleteEvent
    <3>2. CASE item[i].kind = "exchange"
      <4>1. Opposite(item[i].from) \in Currencies
            /\ \A c \in Currencies : c # item[i].from <=> c = Opposite(item[i].from)
        BY <2>2 DEF Opposite, Currencies
      <4>2. /\ reserved[item[i].from] >= Hold(i)
            /\ reserved' = [reserved EXCEPT ![item[i].from] = reserved[item[i].from] - Hold(i)]
            /\ balance' = [balance EXCEPT ![Opposite(item[i].from)] =
                             balance[Opposite(item[i].from)] + item[i].receive]
        BY <1>9, <3>2 DEF CompleteEvent
      <4>3. /\ \A c \in Currencies : Brought(i, c)' = IF c = Opposite(item[i].from) THEN item[i].receive ELSE 0
            /\ \A c \in Currencies : Withheld(i, c) = IF c = item[i].from THEN Hold(i) ELSE 0
        BY <2>5, <2>6, <3>2, <4>1
      <4> QED BY <1>1, <2>2, <4>1, <4>2, <4>3
    <3>3. CASE item[i].kind = "return"
      BY <1>1, <1>9, <2>2, <2>5, <2>6, <3>3 DEF CompleteEvent
    <3> QED BY <2>1, <3>1, <3>2, <3>3
  <2>8. \A c \in Currencies :
          /\ balance'[c] = balance[c] - Change(i, c) + Change(i, c)'
          /\ reserved'[c] = reserved[c] - Withheld(i, c) + Withheld(i, c)'
    BY <1>1, <2>5, <2>6, <2>7
  <2> QED BY <1>1, <2>1, <2>2, <2>4, <2>7, <2>8, StatusIsBooked
<1>10. CASE FailEvent(i)
  <2>1. CASE item[i].kind \in {"withdraw", "exchange"}
    BY <1>4, <1>10, <2>1 DEF FailEvent, Pending, Underway, RowStates
  <2>2. CASE item[i].kind = "return"
    <3>1. /\ Ends(i, "failed") /\ Pending(i)
          /\ UNCHANGED <<balance, reserved, frozen, address>>
          /\ budget' = [budget EXCEPT ![item[i].card] = budget[item[i].card] + item[i].amount]
      BY <1>10, <2>2 DEF FailEvent, FundsUnchanged
    <3>2. "failed" \in RowStates[item[i].kind] /\ item[i].card \in WalletCards
      BY <1>1, <2>2 DEF RowStates, RowOfKind
    <3>3. ~ Undone(i) /\ Undone(i)' /\ item[i].status # "completed" /\ item'[i].status # "completed"
      BY <1>2, <3>1 DEF Pending, Undone
    <3>4. \A c \in Currencies : Taken(i, c) = 0 /\ Taken(i, c)' = 0 /\ Brought(i, c) = 0 /\ Brought(i, c)' = 0
      BY <1>2, <2>2, <3>1, <3>3 DEF Taken, Brought
    <3>5. \A c \in Currencies : /\ Change(i, c)' = 0 /\ Change(i, c) = 0
                               /\ Withheld(i, c)' = 0 /\ Withheld(i, c) = 0
      BY <3>4 DEF Change, Withheld
    <3>6. \A c \in WalletCards : /\ OnCard(i, c)' = 0
                                 /\ OnCard(i, c) = IF c = item[i].card THEN -item[i].amount ELSE 0
      BY <1>2, <2>2, <3>1, <3>3 DEF OnCard
    <3>7. /\ budget' \in [WalletCards -> Nat]
          /\ \A c \in WalletCards : budget'[c] = budget[c] - OnCard(i, c) + OnCard(i, c)'
      BY <1>1, <3>1, <3>2, <3>6
    <3> QED BY <1>1, <2>2, <3>1, <3>2, <3>5, <3>7, StatusIsBooked
  <2> QED BY <1>10, <2>1, <2>2 DEF FailEvent
<1> QED BY <1>5, <1>6, <1>7, <1>8, <1>9, <1>10

(* A quote served its one order: it moves nothing itself.                  *)
LEMMA ExchangeIsBooked ==
  ASSUME Booked, NEW i \in WalletIds, NEW q \in WalletIds, ExchangeAtQuote(i, q)
  PROVE  Booked'
<1>1. /\ Fresh(i) /\ item[q].kind = "quote" /\ item[q].status = "usable" /\ item[i].kind = "none" /\ i # q
      /\ \A c \in Currencies : Change(i, c) = 0 /\ Withheld(i, c) = 0
      /\ \A c \in WalletCards : OnCard(i, c) = 0
      /\ UNCHANGED <<budget, frozen, address>>
  BY FreshIs DEF ExchangeAtQuote, CardsUnchanged
<1> DEFINE c0 == item[q].from
           n  == item[q].amount
<1>2. /\ c0 \in Currencies /\ n \in Nat /\ RowOfKind(q) /\ item[q].card = "none" /\ item[q].quote = -1
      /\ balance \in [Currencies -> Nat] /\ reserved \in [Currencies -> Nat] /\ budget \in [WalletCards -> Nat]
  BY <1>1 DEF Booked, WalletTypes, RowOfKind
<1>3. /\ balance[c0] >= n
      /\ balance' = [balance EXCEPT ![c0] = balance[c0] - n]
      /\ reserved' = [reserved EXCEPT ![c0] = reserved[c0] + n]
  BY DEF ExchangeAtQuote, ReserveFunds
<1>4. /\ item'[q] = [item[q] EXCEPT !.status = "used"]
      /\ item'[i] = Exchanging(q)
      /\ DOMAIN item' = WalletIds
      /\ \A j \in WalletIds \ {i, q} : item'[j] = item[j]
  BY <1>1 DEF ExchangeAtQuote, Booked, WalletTypes
<1>5. /\ item'[q].kind = "quote" /\ item'[q].status = "used" /\ item'[q].card = "none" /\ item'[q].quote = -1
      /\ item'[i].kind = "exchange" /\ item'[i].status = "processing" /\ item'[i].card = "none"
      /\ item'[i].quote = q /\ item'[i].from = c0 /\ item'[i].amount = n
  BY <1>1, <1>2, <1>4 DEF Exchanging, Booked, WalletTypes
<1>6. WalletTypes'
  <2>1. balance[c0] - n \in Nat /\ reserved[c0] + n \in Nat
    BY <1>2, <1>3
  <2>2. balance' \in [Currencies -> Nat] /\ reserved' \in [Currencies -> Nat]
    BY <1>2, <1>3, <2>1
  <2> DEFINE Rows == [
          kind : {"none", "deposit", "quote", "exchange", "withdraw", "topup", "return"},
          status : {"none", "awaited", "confirming", "checking", "usable", "used", "expired",
                    "review", "processing", "unknown", "completed", "failed", "rejected", "cancelled"},
          from : Currencies, amount : Nat, fee : Nat, receive : Nat,
          card : WalletCards \cup {"none"}, quote : WalletIds \cup {-1}]
  <2>3. item' \in [WalletIds -> Rows]
    <3>1. item \in [WalletIds -> Rows]
      BY DEF Booked, WalletTypes
    <3> PICK r : r = item[q] /\ r \in Rows
      BY <3>1
    <3>2. [r EXCEPT !.status = "used"] \in Rows
      OBVIOUS
    <3>4. [r EXCEPT !.kind = "exchange", !.status = "processing", !.quote = q] \in Rows
      OBVIOUS
    <3>3. item' = [item EXCEPT ![q] = [r EXCEPT !.status = "used"],
                               ![i] = [r EXCEPT !.kind = "exchange", !.status = "processing", !.quote = q]]
      BY DEF ExchangeAtQuote, Exchanging
    <3> HIDE DEF Rows
    <3> QED BY <3>1, <3>2, <3>3, <3>4
  <2> QED BY <1>1, <2>2, <2>3 DEF Booked, WalletTypes
<1>7. Entries' = Entries \cup {i}
  BY <1>1, <1>4, <1>5 DEF Entries, NoItem
<1>8. /\ \A c \in Currencies : Change(q, c)' = Change(q, c) /\ Withheld(q, c)' = Withheld(q, c)
      /\ \A c \in WalletCards : OnCard(q, c)' = OnCard(q, c)
  <2>1. \A c \in Currencies : Taken(q, c)' = 0 /\ Taken(q, c) = 0 /\ Brought(q, c)' = 0 /\ Brought(q, c) = 0
    BY <1>1, <1>5 DEF Taken, Brought
  <2>2. \A c \in WalletCards : OnCard(q, c)' = 0 /\ OnCard(q, c) = 0
    BY <1>2, <1>5, WalletAssumption DEF OnCard
  <2> QED BY <2>1, <2>2 DEF Change, Withheld
<1>9. ASSUME NEW j \in Entries \ {i}
      PROVE  /\ \A c \in Currencies : Change(j, c)' = Change(j, c) /\ Withheld(j, c)' = Withheld(j, c)
             /\ \A c \in WalletCards : OnCard(j, c)' = OnCard(j, c)
  <2>1. CASE j = q
    BY <1>8, <2>1
  <2>2. CASE j # q
    <3>1. item'[j] = item[j]
      BY <1>4, <2>2 DEF Entries
    <3> QED BY <3>1 DEF Change, Withheld, OnCard, Taken, Brought, Hold, Underway, Undone
  <2> QED BY <2>1, <2>2
<1>10. /\ \A c \in Currencies : /\ Change(i, c)' = IF c = c0 THEN -n ELSE 0
                                /\ Withheld(i, c)' = IF c = c0 THEN n ELSE 0
       /\ \A c \in WalletCards : OnCard(i, c)' = 0
  <2>1. Hold(i)' = n
    BY <1>2, <1>5 DEF Hold
  <2>2. \A c \in Currencies : Taken(i, c)' = (IF c = c0 THEN n ELSE 0) /\ Brought(i, c)' = 0
    BY <1>5, <2>1 DEF Taken, Brought, Undone
  <2>3. Underway(i)' /\ item'[i].kind # "return"
    BY <1>5 DEF Underway
  <2>4. \A c \in WalletCards : OnCard(i, c)' = 0
    BY <1>5, WalletAssumption DEF OnCard
  <2> QED BY <1>2, <2>2, <2>3, <2>4 DEF Change, Withheld
<1>11. /\ \A c \in Currencies :
            /\ balance'[c] = balance[c] - Change(i, c) + Change(i, c)'
            /\ reserved'[c] = reserved[c] - Withheld(i, c) + Withheld(i, c)'
       /\ \A c \in WalletCards : budget'[c] = budget[c] - OnCard(i, c) + OnCard(i, c)'
  BY <1>1, <1>2, <1>3, <1>10
<1>12. /\ IsFiniteSet(Entries')
       /\ \A c \in Currencies :
            /\ balance'[c] = WalletOpening[c] + SumFunction([j \in Entries' |-> Change(j, c)'])
            /\ reserved'[c] = SumFunction([j \in Entries' |-> Withheld(j, c)'])
       /\ \A c \in WalletCards :
            budget'[c] = CardBudget[c] + SumFunction([j \in Entries' |-> OnCard(j, c)'])
  BY <1>6, <1>7, <1>9, <1>11, OneEntryChanges
<1>13. ASSUME NEW j \in WalletIds PROVE RowOfKind(j)'
  <2>1. CASE j = i
    BY <1>5, <2>1 DEF RowOfKind, RowStates
  <2>2. CASE j = q
    BY <1>5, <2>2 DEF RowOfKind, RowStates
  <2>3. CASE j \notin {i, q}
    <3>1. RowOfKind(j) /\ item'[j] = item[j]
      BY <1>4, <2>3 DEF Booked
    <3>2. item[j].quote # -1 => item'[item[j].quote] = item[item[j].quote]
      BY <1>1, <1>4, <3>1 DEF RowOfKind
    <3> QED BY <3>1, <3>2 DEF RowOfKind
  <2> QED BY <2>1, <2>2, <2>3
<1>14. ASSUME NEW j \in WalletIds, NEW k \in WalletIds, item'[j].quote # -1, item'[j].quote = item'[k].quote
       PROVE  j = k
  <2>1. \A l \in WalletIds : item'[l].quote = q => l = i
    <3> TAKE l \in WalletIds
    <3>1. CASE l \notin {i, q}
      BY <1>1, <1>4, <3>1, WalletAssumption DEF Booked, RowOfKind
    <3> QED BY <1>5, <3>1, WalletAssumption
  <2>2. CASE item'[j].quote = q
    BY <1>14, <2>1, <2>2
  <2>3. CASE item'[j].quote # q
    <3>1. j \notin {i, q} /\ k \notin {i, q}
      BY <1>5, <1>14, <2>3
    <3>2. item[j].quote # -1 /\ item[j].quote = item[k].quote
      BY <1>4, <1>14, <3>1
    <3> QED BY <3>2 DEF Booked, WalletMatchesOrders
  <2> QED BY <2>2, <2>3
<1>15. WalletMatchesOrders'
  BY <1>12, <1>14 DEF WalletMatchesOrders
<1> QED BY <1>6, <1>12, <1>13, <1>15 DEF Booked

(* At first there are no entries and every balance is the opening one.     *)
LEMMA BookedInit ==
  ASSUME WalletInit PROVE Booked
<1>1. WalletTypes
  BY WalletAssumption DEF WalletInit, WalletTypes, NoItem, Currencies
<1>2. Entries = {} /\ \A i \in WalletIds : item[i] = NoItem
  BY DEF WalletInit, Entries
<1>3. IsFiniteSet({})
  BY FS_EmptySet
<1>4. IsFiniteSet(Entries)
  BY <1>2, <1>3, Zenon
<1>5. \A i \in WalletIds : RowOfKind(i) /\ item[i].quote = -1
  BY <1>2 DEF RowOfKind, RowStates, NoItem
<1>6. /\ \A c \in Currencies : /\ SumFunction([i \in Entries |-> Change(i, c)]) = 0
                               /\ SumFunction([i \in Entries |-> Withheld(i, c)]) = 0
      /\ \A c \in WalletCards : SumFunction([i \in Entries |-> OnCard(i, c)]) = 0
  <2>1. \A f : DOMAIN f = {} => SumFunction(f) = 0
    BY SumEmpty DEF SumFunction
  <2> QED BY <1>2, <2>1
<1>7. WalletMatchesOrders
  BY <1>5, <1>6, WalletAssumption DEF WalletMatchesOrders, WalletInit
<1> QED BY <1>1, <1>4, <1>5, <1>7 DEF Booked

LEMMA BookedNext ==
  ASSUME Booked, [WalletNext]_walletVars PROVE Booked'
<1>1. CASE item' = item /\ balance' = balance /\ reserved' = reserved /\ budget' = budget
           /\ frozen' \in [WalletCards -> BOOLEAN] /\ address' \in BOOLEAN
  <2>1. WalletTypes'
    BY <1>1 DEF Booked, WalletTypes
  <2>2. Entries' = Entries /\ \A i \in WalletIds : RowOfKind(i)'
    BY <1>1 DEF Booked, Entries, RowOfKind
  <2>3. WalletMatchesOrders'
    <3>1. \A i, c : Change(i, c)' = Change(i, c) /\ Withheld(i, c)' = Withheld(i, c) /\ OnCard(i, c)' = OnCard(i, c)
      BY <1>1 DEF Change, Withheld, OnCard, Taken, Brought, Hold, Underway, Undone
    <3>2. \A c : /\ [i \in Entries' |-> Change(i, c)'] = [i \in Entries |-> Change(i, c)]
                 /\ [i \in Entries' |-> Withheld(i, c)'] = [i \in Entries |-> Withheld(i, c)]
                 /\ [i \in Entries' |-> OnCard(i, c)'] = [i \in Entries |-> OnCard(i, c)]
      BY <2>2, <3>1
    <3>3. \A c : /\ SumFunction([i \in Entries' |-> Change(i, c)']) = SumFunction([i \in Entries |-> Change(i, c)])
                 /\ SumFunction([i \in Entries' |-> Withheld(i, c)']) = SumFunction([i \in Entries |-> Withheld(i, c)])
                 /\ SumFunction([i \in Entries' |-> OnCard(i, c)']) = SumFunction([i \in Entries |-> OnCard(i, c)])
      BY <3>2, Zenon
    <3> QED BY <1>1, <3>3 DEF Booked, WalletMatchesOrders
  <2>4. IsFiniteSet(Entries')
    BY <2>2, Zenon DEF Booked
  <2> QED BY <2>1, <2>2, <2>3, <2>4 DEF Booked
<1>2. CASE UNCHANGED walletVars \/ ToggleAddress \/ \E c \in WalletCards : ToggleFreeze(c)
  BY <1>1, <1>2 DEF walletVars, ToggleAddress, ToggleFreeze, FundsUnchanged, Booked, WalletTypes
<1>3. CASE WalletNext
  BY <1>2, <1>3, NewEntryIsBooked, OldEntryIsBooked, ExchangeIsBooked DEF WalletNext
<1> QED BY <1>2, <1>3

LEMMA AlwaysBooked == WalletSpec => []Booked
BY BookedInit, BookedNext, PTL DEF WalletSpec

(* The wallet's types. *)
THEOREM WalletTyped == WalletSpec => []WalletTypes
<1>1. Booked => WalletTypes
  BY DEF Booked
<1> QED BY <1>1, AlwaysBooked, PTL

(* Every balance of the wallet, what is reserved and what is on the cards  *)
(* is the opening balance and what the orders did, each once, whatever the *)
(* events and however they are ordered (applyPortalAction).                *)
THEOREM WalletAlwaysMatches == WalletSpec => []WalletMatchesOrders
<1>1. Booked => WalletMatchesOrders
  BY DEF Booked
<1> QED BY <1>1, AlwaysBooked, PTL

-----------------------------------------------------------------------------
(* The pages of a customer.                                                *)

(* What a page may still be told, and what the server remembers.           *)
PortalCalls ==
  [page : Pages \cup {Nowhere}, why : {"load", "poll", "recover", "action", "dialog"},
   base : Nat \cup {-1}, request : Pages \X Nat, answer : Nat \cup {Unanswered, Refused}]
Exclusive == {"action", "recover"}

ActionsFit ==
  /\ IsFiniteSet(actions)
  /\ \A a \in actions : a.on < revision /\ (a.request[1] = Nowhere => a.request[2] = a.on)
CallFits(c) ==
  /\ c.answer <= revision
  /\ c.why = "dialog" =>
       /\ c.page # Nowhere => c.request = <<c.page, 0>>
       /\ c.answer >= 0 => \E a \in actions : a.request = c.request
  /\ c.why = "load" => c.page # Nowhere /\ ~page[c.page].loaded
  /\ c.why \in Exclusive /\ c.page # Nowhere =>
       /\ page[c.page].busy /\ page[c.page].loaded
       /\ c.answer >= 0 => c.answer >= page[c.page].shown
OneOfPage ==
  \A c, d \in calls :
    /\ c.page = d.page /\ c.page # Nowhere
    /\ {c.why, d.why} \subseteq {"load"} \/ {c.why, d.why} \subseteq Exclusive
    => c = d
PortalFits ==
  /\ PortalTypes /\ calls \subseteq PortalCalls
  /\ AppliedOnce /\ ActionsFit /\ OneOfPage
  /\ \A p \in Pages : page[p].shown <= revision
  /\ \A c \in calls : CallFits(c)

LEMMA PortalStart == PortalInit => PortalFits
<1> SUFFICES ASSUME PortalInit PROVE PortalFits
  OBVIOUS
<1>1. \A c \in calls : \E p \in Pages :
        c = [page |-> p, why |-> "load", base |-> 0, request |-> <<p, 0>>, answer |-> Unanswered]
  BY DEF PortalInit, Read, Call
<1>2. PortalTypes /\ calls \subseteq PortalCalls
  BY <1>1 DEF PortalInit, PortalTypes, PortalCalls, Unanswered, Refused
<1>3. AppliedOnce /\ ActionsFit
  BY FS_EmptySet DEF PortalInit, AppliedOnce, ActionsFit
<1>4. OneOfPage
  BY <1>1 DEF OneOfPage, Exclusive
<1>5. \A c \in calls : CallFits(c)
  BY <1>1, PortalPageAssumption DEF CallFits, PortalInit, Exclusive, Unanswered
<1>6. \A p \in Pages : page[p].shown <= revision
  BY DEF PortalInit
<1> QED BY <1>2, <1>3, <1>4, <1>5, <1>6 DEF PortalFits

(* One action more at the server.                                          *)
LEMMA OneActionMore ==
  ASSUME PortalFits, NEW r \in (Pages \cup {Nowhere}) \X Nat, revision' = revision + 1,
         actions' = actions \cup {[request |-> r, on |-> revision]},
         \A a \in actions : a.request # r, r[1] = Nowhere => r[2] = revision,
         \A p \in Pages : page'[p].dialog = page[p].dialog
  PROVE  AppliedOnce' /\ ActionsFit' /\ revision' \in Nat
         /\ actions' \subseteq [request : (Pages \cup {Nowhere}) \X Nat, on : Nat]
<1> DEFINE new == [request |-> r, on |-> revision]
<1>1. /\ IsFiniteSet(actions) /\ Cardinality(actions) = revision /\ revision \in Nat
      /\ actions \subseteq [request : (Pages \cup {Nowhere}) \X Nat, on : Nat]
      /\ \A a \in actions : a.on < revision
  BY DEF PortalFits, PortalTypes, AppliedOnce, ActionsFit
<1>2. new.request = r /\ new.on = revision /\ new \in [request : (Pages \cup {Nowhere}) \X Nat, on : Nat]
  BY <1>1
<1>3. new \notin actions /\ actions' = actions \cup {new}
  BY <1>1, <1>2
<1> HIDE DEF new
<1>4. IsFiniteSet(actions \cup {new}) /\ Cardinality(actions \cup {new}) = revision + 1
  BY <1>1, <1>3, FS_AddElement
<1>5. IsFiniteSet(actions') /\ Cardinality(actions') = revision'
  BY <1>3, <1>4, Zenon
<1>6. \A a \in actions' : a.on < revision' /\ (a.request[1] = Nowhere => a.request[2] = a.on)
  BY <1>1, <1>2, <1>3 DEF PortalFits, ActionsFit
<1>7. \A a, b \in actions' : a.request = b.request \/ a.on = b.on => a = b
  BY <1>1, <1>2, <1>3 DEF PortalFits, AppliedOnce
<1>8. \A p \in Pages : page'[p].dialog = "done" => \E a \in actions' : a.request = <<p, 0>>
  BY <1>3 DEF PortalFits, AppliedOnce
<1> QED BY <1>1, <1>2, <1>3, <1>5, <1>6, <1>7, <1>8 DEF AppliedOnce, ActionsFit

LEMMA ElsewhereFits == ASSUME PortalFits, Elsewhere PROVE PortalFits'
<1> DEFINE r == <<Nowhere, revision>>
<1>1. /\ revision \in Nat /\ UNCHANGED <<page, calls, requests>> /\ revision' = revision + 1
      /\ actions' = actions \cup {[request |-> r, on |-> revision]}
      /\ r \in (Pages \cup {Nowhere}) \X Nat /\ r[1] = Nowhere /\ r[2] = revision
      /\ \A p \in Pages : page[p].shown \in Nat \cup {-1}
      /\ \A c \in calls : c.answer \in Nat \cup {Unanswered, Refused}
  BY DEF Elsewhere, PortalFits, PortalTypes
<1>2. \A a \in actions : a.request # r
  BY <1>1 DEF PortalFits, PortalTypes, ActionsFit
<1> HIDE DEF r
<1>3. AppliedOnce' /\ ActionsFit' /\ revision' \in Nat
      /\ actions' \subseteq [request : (Pages \cup {Nowhere}) \X Nat, on : Nat]
  BY <1>1, <1>2, OneActionMore
<1>4. \A c \in calls : CallFits(c)'
  BY <1>1 DEF CallFits, PortalFits, Unanswered, Refused
<1> QED BY <1>1, <1>3, <1>4 DEF PortalFits, PortalTypes, OneOfPage

(* What a page asks.                                                       *)
LEMMA AskingFits ==
  ASSUME PortalFits, NEW p \in Pages, Poll(p) \/ ApplyAction(p) \/ SubmitDialog(p)
  PROVE  PortalFits'
<1>1. /\ p # Nowhere /\ revision \in Nat /\ requests \in Nat /\ UNCHANGED <<revision, actions>>
      /\ page \in [Pages -> [shown : Nat \cup {-1}, loaded : BOOLEAN, busy : BOOLEAN,
                             dialog : {"open", "sending", "failed", "done"}]]
  BY PortalPageAssumption DEF Poll, ApplyAction, SubmitDialog, ServerUnchanged, PortalFits, PortalTypes
<1>2. PICK c : /\ calls' = calls \cup {c} /\ c \in PortalCalls /\ c.page = p /\ c.answer = Unanswered
               /\ c.why = "dialog" => c.request = <<p, 0>>
               /\ \/ c.why = "poll" /\ page' = page /\ requests' = requests
                  \/ /\ c.why = "action" /\ ~page[p].busy /\ page[p].loaded /\ requests' = requests + 1
                     /\ page' = [page EXCEPT ![p].busy = TRUE]
                  \/ /\ c.why = "dialog" /\ requests' = requests
                     /\ page' = [page EXCEPT ![p].dialog = "sending"]
  <2>1. CASE Poll(p)
    <3> DEFINE c == Read(p, "poll")
    <3>1. c \in PortalCalls /\ c.page = p /\ c.answer = Unanswered /\ c.why = "poll"
      BY DEF PortalCalls, Read, Call
    <3> HIDE DEF c
    <3>2. calls' = calls \cup {c} /\ page' = page /\ requests' = requests
      BY <2>1 DEF Poll, c
    <3> QED BY <3>1, <3>2
  <2>2. CASE ApplyAction(p)
    <3> DEFINE c == Call(p, "action", page[p].shown, <<p, requests'>>)
    <3>1. c \in PortalCalls /\ c.page = p /\ c.answer = Unanswered /\ c.why = "action"
      BY <1>1, <2>2 DEF PortalCalls, Call, ApplyAction
    <3>2. /\ calls' = calls \cup {c} /\ ~page[p].busy /\ page[p].loaded /\ requests' = requests + 1
          /\ page' = [page EXCEPT ![p].busy = TRUE]
      BY <2>2 DEF ApplyAction
    <3> HIDE DEF c
    <3> QED BY <3>1, <3>2
  <2>3. CASE SubmitDialog(p)
    <3> DEFINE c == Call(p, "dialog", page[p].shown, <<p, 0>>)
    <3>1. c \in PortalCalls /\ c.page = p /\ c.answer = Unanswered /\ c.why = "dialog" /\ c.request = <<p, 0>>
      BY <1>1, <2>3 DEF PortalCalls, Call
    <3>2. /\ calls' = calls \cup {c} /\ requests' = requests /\ page' = [page EXCEPT ![p].dialog = "sending"]
      BY <2>3 DEF SubmitDialog
    <3> HIDE DEF c
    <3> QED BY <3>1, <3>2
  <2> QED BY <2>1, <2>2, <2>3
<1>3. /\ \A q \in Pages : /\ page'[q].shown = page[q].shown /\ page'[q].loaded = page[q].loaded
                          /\ page'[q].dialog = "done" => page[q].dialog = "done"
                          /\ page[q].busy => page'[q].busy
                          /\ c.why = "action" => page'[p].busy
      /\ page' \in [Pages -> [shown : Nat \cup {-1}, loaded : BOOLEAN, busy : BOOLEAN,
                              dialog : {"open", "sending", "failed", "done"}]]
  <2> DEFINE Rows == [shown : Nat \cup {-1}, loaded : BOOLEAN, busy : BOOLEAN,
                      dialog : {"open", "sending", "failed", "done"}]
  <2> PICK row : row = page[p] /\ row \in Rows
    BY <1>1
  <2>1. /\ [row EXCEPT !.busy = TRUE] \in Rows /\ [row EXCEPT !.dialog = "sending"] \in Rows
        /\ [row EXCEPT !.busy = TRUE].shown = row.shown /\ [row EXCEPT !.dialog = "sending"].shown = row.shown
        /\ [row EXCEPT !.busy = TRUE].loaded = row.loaded /\ [row EXCEPT !.dialog = "sending"].loaded = row.loaded
        /\ [row EXCEPT !.busy = TRUE].dialog = row.dialog /\ [row EXCEPT !.dialog = "sending"].dialog = "sending"
        /\ [row EXCEPT !.busy = TRUE].busy /\ [row EXCEPT !.dialog = "sending"].busy = row.busy
    OBVIOUS
  <2>2. \/ page' = page /\ c.why # "action"
        \/ page' = [page EXCEPT ![p] = [row EXCEPT !.busy = TRUE]]
        \/ page' = [page EXCEPT ![p] = [row EXCEPT !.dialog = "sending"]] /\ c.why # "action"
    BY <1>2
  <2>3. page \in [Pages -> Rows]
    BY <1>1
  <2>4. page' \in [Pages -> Rows]
    <3> HIDE DEF Rows
    <3> QED BY <2>1, <2>2, <2>3
  <2>5. \A q \in Pages : q # p => page'[q] = page[q]
    BY <2>2, <2>3
  <2>6. /\ page'[p].shown = row.shown /\ page'[p].loaded = row.loaded
        /\ page'[p].dialog = "done" => row.dialog = "done"
        /\ row.busy => page'[p].busy
        /\ c.why = "action" => page'[p].busy
    BY <2>1, <2>2, <2>3
  <2> QED BY <2>4, <2>5, <2>6
<1>4. PortalTypes' /\ calls' \subseteq PortalCalls
  BY <1>1, <1>2, <1>3 DEF PortalFits, PortalTypes, PortalCalls
<1>5. AppliedOnce' /\ ActionsFit'
  BY <1>1, <1>3 DEF PortalFits, AppliedOnce, ActionsFit
<1>6. \A d \in calls' : CallFits(d)'
  <2>1. \A d \in calls : d.page # Nowhere => d.page \in Pages
    BY DEF PortalFits, PortalTypes
  <2>2. \A d \in calls : CallFits(d)'
    BY <1>1, <1>3, <2>1 DEF PortalFits, CallFits
  <2>3. CallFits(c)'
    BY <1>1, <1>2, <1>3 DEF CallFits, Exclusive, Unanswered
  <2> QED BY <1>2, <2>2, <2>3
<1>7. OneOfPage'
  <2>1. \A d \in calls : c.why \in Exclusive /\ d.page = p => d.why \notin Exclusive
    BY <1>1, <1>2 DEF PortalFits, CallFits, Exclusive
  <2> QED BY <1>2, <2>1 DEF PortalFits, OneOfPage, Exclusive
<1>8. \A q \in Pages : page'[q].shown <= revision'
  BY <1>1, <1>3 DEF PortalFits
<1> QED BY <1>4, <1>5, <1>6, <1>7, <1>8 DEF PortalFits

(* What a page is told.                                                    *)
LEMMA ReceiveFits ==
  ASSUME PortalFits, NEW c \in calls, Receive(c)
  PROVE  /\ PortalFits'
         /\ \A p \in Pages : page[p].loaded => page'[p].shown >= page[p].shown
<1> DEFINE Rows == [shown : Nat \cup {-1}, loaded : BOOLEAN, busy : BOOLEAN,
                    dialog : {"open", "sending", "failed", "done"}]
<1>1. /\ c \in PortalCalls /\ c.page \in Pages /\ c.page # Nowhere /\ c.answer \in Nat /\ c.answer <= revision
      /\ revision \in Nat /\ requests \in Nat /\ page \in [Pages -> Rows] /\ CallFits(c)
      /\ UNCHANGED <<revision, actions, requests>> /\ calls' = calls \ {c}
      /\ page' = [page EXCEPT ![c.page] = ShowAnswer(page[c.page], c)]
      /\ c.why \in {"load", "poll", "recover", "action", "dialog"}
  BY DEF Receive, PortalFits, PortalTypes, PortalCalls, CallFits, Unanswered, Refused, ServerUnchanged
<1> PICK p, row, next : /\ p = c.page /\ row = page[p] /\ next = ShowAnswer(row, c) /\ row \in Rows
  BY <1>1
<1>2. /\ next \in Rows
      /\ c.why = "load" => next.shown = c.answer /\ next.busy = row.busy /\ next.dialog = row.dialog
      /\ c.why # "load" => next.loaded = row.loaded
      /\ c.why = "poll" => /\ next.busy = row.busy /\ next.dialog = row.dialog
                           /\ next.shown \in {row.shown, c.answer} /\ next.shown >= row.shown
                           /\ row.busy => next.shown = row.shown
      /\ c.why = "dialog" => next.shown = row.shown /\ next.busy = row.busy
      /\ c.why \in Exclusive => next.shown = c.answer /\ next.dialog = row.dialog
  <2>1. CASE c.why = "load"
    <3>1. next = [row EXCEPT !.shown = c.answer, !.loaded = TRUE]
      BY <2>1 DEF ShowAnswer
    <3> QED BY <1>1, <2>1, <3>1 DEF Exclusive
  <2>2. CASE c.why = "poll"
    <3>1. next = IF row.busy \/ c.answer < row.shown THEN row ELSE [row EXCEPT !.shown = c.answer]
      BY <2>2 DEF ShowAnswer
    <3>2. CASE row.busy \/ c.answer < row.shown
      BY <1>1, <2>2, <3>1, <3>2 DEF Exclusive
    <3>3. CASE ~ (row.busy \/ c.answer < row.shown)
      <4>1. next = [row EXCEPT !.shown = c.answer]
        BY <3>1, <3>3
      <4> QED BY <1>1, <2>2, <3>3, <4>1 DEF Exclusive
    <3> QED BY <3>2, <3>3
  <2>3. CASE c.why = "dialog"
    <3>1. next = [row EXCEPT !.dialog = "done"]
      BY <2>3 DEF ShowAnswer
    <3> QED BY <1>1, <2>3, <3>1 DEF Exclusive
  <2>4. CASE c.why \in Exclusive
    <3>1. next = [row EXCEPT !.shown = c.answer, !.busy = FALSE]
      BY <2>4 DEF ShowAnswer, Exclusive
    <3> QED BY <1>1, <2>4, <3>1 DEF Exclusive
  <2> QED BY <1>1, <2>1, <2>2, <2>3, <2>4 DEF Exclusive
<1> HIDE DEF Rows
<1>3. /\ page' \in [Pages -> Rows] /\ page'[p] = next /\ \A q \in Pages \ {p} : page'[q] = page[q]
  BY <1>1, <1>2
<1>4. /\ next.shown <= revision /\ next.shown \in Int /\ row.shown \in Int
      /\ row.loaded => next.loaded /\ next.shown >= row.shown
  <2>1. row.shown <= revision /\ row.shown \in Int /\ next.shown \in Int
    BY <1>1, <1>2 DEF PortalFits, Rows
  <2>2. /\ c.why = "load" => ~row.loaded
        /\ c.why \in Exclusive => c.answer >= row.shown
    BY <1>1 DEF CallFits
  <2> QED BY <1>1, <1>2, <2>1, <2>2 DEF Exclusive
<1>5. ASSUME NEW d \in calls \ {c} PROVE CallFits(d)'
  <2>1. /\ CallFits(d) /\ (d.page = Nowhere \/ d.page \in Pages)
        /\ d.page = p => ~ {c.why, d.why} \subseteq {"load"} /\ ~ {c.why, d.why} \subseteq Exclusive
    BY <1>1 DEF PortalFits, PortalTypes, OneOfPage
  <2>2. CASE d.page # p
    BY <1>1, <1>3, <2>1, <2>2 DEF CallFits
  <2>3. CASE d.page = p
    <3>1. d.page = p /\ page[d.page] = row /\ page'[d.page] = next /\ p # Nowhere
      BY <1>1, <1>3, <2>3
    <3>2. d.why = "load" => ~ next.loaded
      BY <1>2, <2>1, <3>1 DEF CallFits
    <3>3. d.why \in Exclusive => next.busy /\ next.loaded /\ next.shown = row.shown
      <4> SUFFICES ASSUME d.why \in Exclusive PROVE next.busy /\ next.loaded /\ next.shown = row.shown
        OBVIOUS
      <4>1. row.busy /\ row.loaded /\ c.why \notin Exclusive
        BY <2>1, <3>1 DEF CallFits
      <4>2. c.why # "load"
        BY <1>1, <4>1 DEF CallFits
      <4> QED BY <1>1, <1>2, <4>1, <4>2 DEF Exclusive
    <3> QED BY <1>1, <2>1, <3>1, <3>2, <3>3 DEF CallFits
  <2> QED BY <2>2, <2>3
<1>6. PortalTypes' /\ calls' \subseteq PortalCalls
  BY <1>1, <1>3 DEF PortalFits, PortalTypes, Rows
<1>7. ActionsFit' /\ OneOfPage'
  BY <1>1 DEF PortalFits, ActionsFit, OneOfPage
<1>8. AppliedOnce'
  <2>1. ASSUME NEW q \in Pages, page'[q].dialog = "done" PROVE \E a \in actions : a.request = <<q, 0>>
    <3>1. CASE q # p \/ c.why # "dialog"
      <4>1. page[q].dialog = "done"
        BY <1>1, <1>2, <1>3, <2>1, <3>1 DEF Exclusive
      <4> QED BY <4>1 DEF PortalFits, AppliedOnce
    <3>2. CASE q = p /\ c.why = "dialog"
      BY <1>1, <3>2 DEF CallFits
    <3> QED BY <3>1, <3>2
  <2> QED BY <1>1, <2>1 DEF PortalFits, AppliedOnce
<1>9. \A q \in Pages : page'[q].shown <= revision'
  BY <1>1, <1>3, <1>4 DEF PortalFits
<1>10. \A q \in Pages : page[q].loaded => page'[q].shown >= page[q].shown
  BY <1>3, <1>4 DEF PortalFits, PortalTypes
<1> QED BY <1>1, <1>5, <1>6, <1>7, <1>8, <1>9, <1>10 DEF PortalFits

LEMMA FailureFits == ASSUME PortalFits, NEW c \in calls, CallFails(c) PROVE PortalFits'
<1> DEFINE Rows == [shown : Nat \cup {-1}, loaded : BOOLEAN, busy : BOOLEAN,
                    dialog : {"open", "sending", "failed", "done"}]
<1>1. /\ c \in PortalCalls /\ c.page \in Pages /\ c.page # Nowhere
      /\ revision \in Nat /\ requests \in Nat /\ page \in [Pages -> Rows] /\ CallFits(c)
      /\ UNCHANGED <<revision, actions, requests>>
      /\ c.why \in {"load", "poll", "recover", "action", "dialog"}
  BY DEF CallFails, PortalFits, PortalTypes, PortalCalls, ServerUnchanged
<1> PICK p, row : p = c.page /\ row = page[p] /\ row \in Rows
  BY <1>1
<1> DEFINE next == IF c.why = "recover" THEN [row EXCEPT !.busy = FALSE]
                   ELSE IF c.why = "dialog" THEN [row EXCEPT !.dialog = "failed"] ELSE row
<1>2. /\ next \in Rows /\ next.shown = row.shown /\ next.loaded = row.loaded
      /\ c.why # "recover" => next.busy = row.busy
      /\ next.dialog = "done" => row.dialog = "done"
  OBVIOUS
<1>3. page' = [page EXCEPT ![p] = next]
  <2>1. CASE c.why = "recover"
    BY <1>1, <2>1 DEF CallFails
  <2>2. CASE c.why = "dialog"
    BY <1>1, <2>2 DEF CallFails
  <2>3. CASE c.why \notin {"recover", "dialog"}
    BY <1>1, <2>3 DEF CallFails
  <2> QED BY <2>1, <2>2, <2>3
<1> HIDE DEF next, Rows
<1>4. /\ page' \in [Pages -> Rows] /\ page'[p] = next /\ \A q \in Pages \ {p} : page'[q] = page[q]
  BY <1>1, <1>2, <1>3
<1> DEFINE late == [c EXCEPT !.page = Nowhere]
           again == Read(p, "recover")
<1>5. /\ late \in PortalCalls /\ late.page = Nowhere /\ late.why = c.why /\ late.answer = c.answer
      /\ again \in PortalCalls /\ again.page = p /\ again.why = "recover" /\ again.answer = Unanswered
  BY <1>1 DEF PortalCalls, Read, Call
<1>6. /\ \A d \in calls' : \/ d \in calls \ {c}
                           \/ d = late /\ c.why \in {"action", "dialog"} /\ c.answer = Unanswered
                           \/ d = again /\ c.why = "action"
  BY <1>1 DEF CallFails, Late
<1> HIDE DEF late, again
<1>7. ASSUME NEW d \in calls \ {c} PROVE CallFits(d)'
  <2>1. /\ CallFits(d) /\ (d.page = Nowhere \/ d.page \in Pages)
        /\ d.page = p => ~ {c.why, d.why} \subseteq Exclusive
    BY <1>1 DEF PortalFits, PortalTypes, OneOfPage
  <2>2. CASE d.page # p
    BY <1>1, <1>4, <2>1, <2>2 DEF CallFits
  <2>3. CASE d.page = p
    <3>1. page[d.page] = row /\ page'[d.page] = next /\ (d.why \in Exclusive => c.why # "recover")
      BY <1>4, <2>1, <2>3 DEF Exclusive
    <3> QED BY <1>1, <1>2, <2>1, <3>1 DEF CallFits
  <2> QED BY <2>2, <2>3
<1>8. c.why \in {"action", "dialog"} /\ c.answer = Unanswered => CallFits(late)'
  BY <1>1, <1>5 DEF CallFits, Unanswered
<1>9. c.why = "action" => CallFits(again)'
  BY <1>1, <1>2, <1>4, <1>5 DEF CallFits, Unanswered, Exclusive
<1>10. calls' \subseteq PortalCalls /\ \A d \in calls' : CallFits(d)'
  BY <1>5, <1>6, <1>7, <1>8, <1>9 DEF PortalFits
<1>11. PortalTypes'
  BY <1>1, <1>4, <1>10 DEF PortalFits, PortalTypes, Rows, PortalCalls
<1>12. OneOfPage'
  <2>1. \A d \in calls \ {c} : d.page = p /\ c.why = "action" => d.why \notin Exclusive
    BY <1>1 DEF PortalFits, OneOfPage, Exclusive
  <2>2. again.why \notin {"load"} /\ late.page = Nowhere
    BY <1>5
  <2> QED BY <1>5, <1>6, <2>1, <2>2 DEF PortalFits, OneOfPage
<1>13. ActionsFit' /\ AppliedOnce'
  <2>1. \A q \in Pages : page'[q].dialog = "done" => page[q].dialog = "done"
    BY <1>2, <1>4
  <2> QED BY <1>1, <2>1 DEF PortalFits, ActionsFit, AppliedOnce
<1>14. \A q \in Pages : page'[q].shown <= revision'
  BY <1>1, <1>2, <1>4 DEF PortalFits
<1> QED BY <1>10, <1>11, <1>12, <1>13, <1>14 DEF PortalFits

LEMMA FailureShows ==
  ASSUME PortalFits, NEW c \in calls, CallFails(c)
  PROVE  \A p \in Pages : page'[p].shown = page[p].shown
<1>1. c.page \in Pages /\ page \in [Pages -> [shown : Nat \cup {-1}, loaded : BOOLEAN, busy : BOOLEAN,
                                              dialog : {"open", "sending", "failed", "done"}]]
  BY DEF CallFails, PortalFits, PortalTypes
<1>2. \/ page' = [page EXCEPT ![c.page].busy = FALSE]
      \/ page' = [page EXCEPT ![c.page].dialog = "failed"]
      \/ page' = page
  BY DEF CallFails
<1> QED BY <1>1, <1>2

(* What the server answers.                                                *)
LEMMA AnswerStays ==
  ASSUME PortalFits, NEW c \in calls, c.answer = Unanswered, NEW n \in Nat \cup {Refused},
         Answered(c, n), page' = page, requests' = requests, revision' \in Nat, revision' >= revision,
         n = Refused \/ n = revision', actions \subseteq actions',
         c.why = "dialog" /\ n # Refused => \E a \in actions' : a.request = c.request,
         actions' \subseteq [request : (Pages \cup {Nowhere}) \X Nat, on : Nat], AppliedOnce', ActionsFit'
  PROVE  PortalFits'
<1> DEFINE new == [c EXCEPT !.answer = n]
<1>1. /\ c \in PortalCalls /\ CallFits(c) /\ (c.page = Nowhere \/ c.page \in Pages)
      /\ \A p \in Pages : page[p].shown \in Int /\ page[p].shown <= revision
      /\ revision \in Nat
  BY DEF PortalFits, PortalTypes, PortalCalls
<1>2. /\ new \in PortalCalls /\ new.page = c.page /\ new.why = c.why /\ new.answer = n /\ new.request = c.request
  BY <1>1 DEF PortalCalls
<1>3. calls' = (calls \ {c}) \cup (IF c.page = Nowhere THEN {} ELSE {new})
  BY DEF Answered
<1> HIDE DEF new
<1>4. \A d \in calls' : d \in calls \ {c} \/ (d = new /\ c.page # Nowhere)
  BY <1>3
<1>5. ASSUME NEW d \in calls PROVE CallFits(d)'
  BY <1>1 DEF PortalFits, PortalTypes, CallFits, Unanswered, Refused
<1>6. c.page # Nowhere => CallFits(new)'
  <2> SUFFICES ASSUME c.page # Nowhere PROVE CallFits(new)'
    OBVIOUS
  <2>1. page[c.page].shown \in Int /\ page[c.page].shown <= revision
    BY <1>1
  <2> QED BY <1>1, <1>2, <2>1 DEF CallFits, Refused, Unanswered
<1>7. OneOfPage'
  <2>1. \A d \in calls \ {c} : d.page = c.page /\ c.page # Nowhere =>
          ~ {c.why, d.why} \subseteq {"load"} /\ ~ {c.why, d.why} \subseteq Exclusive
    BY DEF PortalFits, OneOfPage
  <2> QED BY <1>2, <1>4, <2>1 DEF PortalFits, OneOfPage
<1>8. calls' \subseteq PortalCalls
  BY <1>2, <1>4 DEF PortalFits
<1>9. PortalTypes'
  BY <1>8 DEF PortalFits, PortalTypes, PortalCalls
<1>10. \A p \in Pages : page'[p].shown <= revision'
  BY <1>1
<1> QED BY <1>4, <1>5, <1>6, <1>7, <1>8, <1>9, <1>10 DEF PortalFits

LEMMA ServerFits ==
  ASSUME PortalFits, NEW c \in calls, ServeRead(c) \/ PortalAction(c)
  PROVE  PortalFits' /\ page' = page
<1>1. /\ c \in PortalCalls /\ c.answer = Unanswered /\ page' = page /\ requests' = requests
      /\ revision \in Nat /\ c.request \in (Pages \cup {Nowhere}) \X Nat /\ c.request[1] # Nowhere
      /\ AppliedOnce /\ ActionsFit /\ actions \subseteq [request : (Pages \cup {Nowhere}) \X Nat, on : Nat]
  BY PortalPageAssumption DEF ServeRead, PortalAction, PortalFits, PortalTypes, PortalCalls
<1>2. ASSUME NEW n \in Nat \cup {Refused}, Answered(c, n), ServerUnchanged, n = Refused \/ n = revision,
             c.why = "dialog" /\ n # Refused => \E a \in actions : a.request = c.request
      PROVE  PortalFits'
  <2>1. UNCHANGED <<revision, actions>>
    BY <1>2 DEF ServerUnchanged
  <2>2. AppliedOnce' /\ ActionsFit'
    BY <1>1, <2>1 DEF AppliedOnce, ActionsFit
  <2>3. /\ revision' \in Nat /\ revision' >= revision /\ (n = Refused \/ n = revision')
        /\ actions \subseteq actions'
        /\ c.why = "dialog" /\ n # Refused => \E a \in actions' : a.request = c.request
        /\ actions' \subseteq [request : (Pages \cup {Nowhere}) \X Nat, on : Nat]
    BY <1>1, <1>2, <2>1
  <2> QED BY <1>1, <1>2, <2>2, <2>3, AnswerStays
<1>3. CASE ServeRead(c)
  BY <1>1, <1>2, <1>3 DEF ServeRead
<1>4. CASE Applied(c) # {} /\ Answered(c, revision) /\ ServerUnchanged
  BY <1>1, <1>2, <1>4 DEF Applied
<1>5. CASE Refuse(c)
  BY <1>1, <1>2, <1>5 DEF Refuse
<1>6. CASE Applied(c) = {} /\ Apply(c)
  <2>1. /\ revision' = revision + 1 /\ Answered(c, revision')
        /\ actions' = actions \cup {[request |-> c.request, on |-> revision]}
        /\ \A a \in actions : a.request # c.request
    BY <1>6 DEF Apply, Applied
  <2>2. AppliedOnce' /\ ActionsFit' /\ revision' \in Nat
        /\ actions' \subseteq [request : (Pages \cup {Nowhere}) \X Nat, on : Nat]
    BY <1>1, <2>1, OneActionMore
  <2>3. \E a \in actions' : a.request = c.request
    <3>1. /\ [request |-> c.request, on |-> revision] \in actions'
          /\ [request |-> c.request, on |-> revision].request = c.request
      BY <2>1
    <3> QED BY <3>1, Zenon
  <2> QED BY <1>1, <2>1, <2>2, <2>3, AnswerStays
<1>7. CASE PortalAction(c)
  BY <1>4, <1>5, <1>6, <1>7 DEF PortalAction
<1> QED BY <1>1, <1>3, <1>7

LEMMA PortalStays ==
  ASSUME PortalFits, [PortalNext]_portalVars
  PROVE  /\ PortalFits'
         /\ \A p \in Pages : page[p].loaded => page'[p].shown >= page[p].shown
<1>1. /\ page \in [Pages -> [shown : Nat \cup {-1}, loaded : BOOLEAN, busy : BOOLEAN,
                             dialog : {"open", "sending", "failed", "done"}]]
      /\ \A p \in Pages : page[p].shown \in Int
  BY DEF PortalFits, PortalTypes
<1>2. CASE UNCHANGED portalVars
  BY <1>1, <1>2 DEF portalVars, PortalFits, PortalTypes, AppliedOnce, ActionsFit, OneOfPage, CallFits
<1>3. CASE Elsewhere
  BY <1>1, <1>3, ElsewhereFits DEF Elsewhere
<1>4. ASSUME NEW p \in Pages, Poll(p) \/ ApplyAction(p) \/ SubmitDialog(p)
      PROVE  PortalFits' /\ \A q \in Pages : page[q].loaded => page'[q].shown >= page[q].shown
  <2>1. \/ page' = page
        \/ page' = [page EXCEPT ![p].busy = TRUE]
        \/ page' = [page EXCEPT ![p].dialog = "sending"]
    BY <1>4 DEF Poll, ApplyAction, SubmitDialog
  <2>2. \A q \in Pages : page'[q].shown = page[q].shown
    BY <1>1, <2>1
  <2> QED BY <1>1, <1>4, <2>2, AskingFits
<1>5. ASSUME NEW c \in calls, CallFails(c)
      PROVE  PortalFits' /\ \A q \in Pages : page[q].loaded => page'[q].shown >= page[q].shown
  BY <1>1, <1>5, FailureFits, FailureShows
<1>6. ASSUME NEW c \in calls, ServeRead(c) \/ PortalAction(c)
      PROVE  PortalFits' /\ \A q \in Pages : page[q].loaded => page'[q].shown >= page[q].shown
  BY <1>1, <1>6, ServerFits
<1> QED BY <1>2, <1>3, <1>4, <1>5, <1>6, ReceiveFits DEF PortalNext

LEMMA AlwaysPortalFits == PortalSpec => []PortalFits
BY PortalStart, PortalStays, PTL DEF PortalSpec

(* However often a request was sent, and whichever answers were lost, it   *)
(* changed the customer's state at most once (portalAction keeps what it   *)
(* applied under the request), and a dialog that says it is done had its   *)
(* request applied.                                                        *)
THEOREM AlwaysAppliedOnce == PortalSpec => []AppliedOnce
<1>1. PortalFits => AppliedOnce
  BY DEF PortalFits
<1> QED BY <1>1, AlwaysPortalFits, PTL

(* The type invariant of the portal's pages.                               *)
THEOREM PortalTyped == PortalSpec => []PortalTypes
<1>1. PortalFits => PortalTypes
  BY DEF PortalFits
<1> QED BY AlwaysPortalFits, <1>1, PTL

(* A page that has loaded never shows an older state than before, although *)
(* polls, actions and the readings after failures overtake each other      *)
(* (Portal.tsx, refresh and applyAction).                                  *)
THEOREM AlwaysShownForward == PortalSpec => ShownForward
<1>1. ASSUME PortalFits, [PortalNext]_portalVars
      PROVE  [\A p \in Pages : page[p].loaded => page'[p].shown >= page[p].shown]_portalVars
  BY <1>1, PortalStays
<1> QED BY <1>1, AlwaysPortalFits, PTL DEF PortalSpec, ShownForward

-----------------------------------------------------------------------------
(* The dialogs that confirm.                                               *)

(* A price on the page, under way or kept is of the inputs the page has or *)
(* was overtaken, which only two dialogs let happen; a dialog that names   *)
(* its request has one name for all its clicks.                            *)
Prices == [of: {0} \cup InputValues, id: 0..MaxShown, fresh: BOOLEAN, overtaken: BOOLEAN]
Sendings == Clicks \cup {NoClick}
Outliving == {CardAction, FundsForm}
PriceFits(p, now) ==
  /\ p \in Prices
  /\ p # NothingShown => p.of \in InputValues /\ p.id \in 1..MaxShown /\ (p.of = now \/ p.overtaken)
  /\ dialog \notin Outliving => ~ p.overtaken
ClickFits(s) ==
  /\ AsShown(s) \/ (s.overtaken /\ dialog \in Outliving)
  /\ dialog.once = "dialog" => s = NoClick \/ s.key = 1
ConfirmFits ==
  /\ ConfirmTypes
  /\ PriceFits(offered, inputs) /\ PriceFits(pricing, inputs) /\ PriceFits(unanswered, inputs)
  /\ ~ dialog.keeps => unanswered = NothingShown
  /\ dialog.from = "page" => pricing = NothingShown
  /\ ClickFits(sending) /\ ClickFits(kept) /\ \A e \in executed: ClickFits(e)
  /\ dialog.once # "nothing" => \A e, f \in executed: (e.id = f.id \/ dialog.once = "dialog") => e = f

LEMMA Dialogs ==
  ASSUME dialog \in AllDialogs
  PROVE  /\ dialog.once = "dialog" <=> dialog = CardAction
         /\ dialog.from \in {"page", "inputs", "server"}
         /\ dialog.once \in {"dialog", "price", "key", "nothing"}
         /\ dialog.edits = "late" => dialog.from = "page" \/ dialog \in Outliving
         /\ dialog.edits \in {"late", "drop", "locked"}
         /\ dialog.edits = "drop" => dialog.from = "inputs"
         /\ dialog.keeps => dialog \in Outliving /\ dialog.from = "server" /\ dialog.edits = "locked"
  BY DEF AllDialogs, CardAction, ExchangeForm, WithdrawForm, ImportForm, FundsForm, OtcForm, Dialog, Outliving

(* Nothing shown is always a fit price, and one that is overtaken is fit   *)
(* whatever the inputs become.                                             *)
LEMMA PriceMoves ==
  ASSUME MaxShown \in Nat, NEW p, NEW now, PriceFits(p, now), NEW v
  PROVE  /\ NothingShown \in Prices /\ PriceFits(NothingShown, v)
         /\ dialog \in Outliving => PriceFits(OfOtherInputs(p), v)
<1>1. NothingShown \in Prices /\ ~ NothingShown.overtaken
  BY DEF Prices, NothingShown
<1>2. PriceFits(NothingShown, v)
  BY <1>1 DEF PriceFits
<1>3. ASSUME dialog \in Outliving, p # NothingShown
      PROVE  PriceFits([p EXCEPT !.overtaken = TRUE], v)
  <2>1. p \in Prices /\ p.of \in InputValues /\ p.id \in 1..MaxShown
    BY <1>3 DEF PriceFits
  <2>2. /\ [p EXCEPT !.overtaken = TRUE] \in Prices /\ [p EXCEPT !.overtaken = TRUE].overtaken
        /\ [p EXCEPT !.overtaken = TRUE].of = p.of /\ [p EXCEPT !.overtaken = TRUE].id = p.id
    BY <2>1 DEF Prices
  <2> QED BY <1>3, <2>1, <2>2 DEF PriceFits
<1> QED BY <1>1, <1>2, <1>3 DEF OfOtherInputs

LEMMA ConfirmStart == ConfirmInit => ConfirmFits
<1> SUFFICES ASSUME ConfirmInit PROVE ConfirmFits
  OBVIOUS
<1>1. NothingShown \in Prices /\ ~ NothingShown.overtaken
  BY ConfirmAssumption DEF NothingShown, Prices
<1>2. ConfirmTypes
  <2>1. 1 \in InputValues /\ 0 \in 0..MaxShown
    BY ConfirmAssumption DEF InputValues
  <2> QED BY <1>1, <2>1 DEF ConfirmInit, ConfirmTypes, Prices, NothingAsked
<1>3. offered = NothingShown /\ pricing = NothingShown /\ unanswered = NothingShown
  BY DEF ConfirmInit, NothingAsked
<1>4. PriceFits(offered, inputs) /\ PriceFits(pricing, inputs) /\ PriceFits(unanswered, inputs)
  BY <1>1, <1>3 DEF PriceFits
<1>5. ClickFits(NoClick)
  BY DEF ClickFits, AsShown, NoClick
<1> QED BY <1>2, <1>3, <1>4, <1>5 DEF ConfirmFits, ConfirmInit

LEMMA ConfirmFields ==
  ASSUME ConfirmFits
  PROVE  /\ offered \in Prices /\ pricing \in Prices /\ unanswered \in Prices
         /\ sending \in Sendings /\ kept \in Sendings
         /\ executed \subseteq Clicks /\ dialog \in AllDialogs /\ inputs \in InputValues
         /\ pricings \in 0..MaxShown /\ clicks \in 0..MaxShown /\ closed \in BOOLEAN /\ MaxShown \in Nat
         /\ ~ NothingShown.fresh /\ NothingShown \in Prices
  BY ConfirmAssumption DEF ConfirmFits, ConfirmTypes, Prices, Sendings, NothingShown

(* A step that keeps the confirmations: only what is shown changes.        *)
LEMMA ShowingFits ==
  ASSUME ConfirmFits, UNCHANGED <<dialog, clicks, sending, kept, executed, closed>>,
         inputs' \in InputValues, pricings' \in 0..MaxShown,
         PriceFits(offered', inputs'), PriceFits(pricing', inputs'), PriceFits(unanswered', inputs'),
         ~ dialog.keeps => unanswered' = NothingShown,
         dialog.from = "page" => pricing' = NothingShown
  PROVE  ConfirmFits'
<1>1. offered' \in Prices /\ pricing' \in Prices /\ unanswered' \in Prices
  BY DEF PriceFits
<1>2. ConfirmTypes'
  BY <1>1, ConfirmFields DEF ConfirmFits, ConfirmTypes, Prices
<1>3. PriceFits(offered, inputs)' /\ PriceFits(pricing, inputs)' /\ PriceFits(unanswered, inputs)'
  BY DEF PriceFits
<1>4. ClickFits(sending)' /\ ClickFits(kept)' /\ \A e \in executed': ClickFits(e)'
  BY DEF ConfirmFits, ClickFits
<1> QED BY <1>2, <1>3, <1>4 DEF ConfirmFits

LEMMA PriceStepFits ==
  ASSUME ConfirmFits,
         \/ \E v \in InputValues: EditInputs(v) \/ LeavePage(v)
         \/ AskPrice \/ PriceArrives \/ PriceFails \/ RetryPrice \/ Expire \/ Back
  PROVE  ConfirmFits'
<1>1. /\ inputs \in InputValues /\ pricings \in 0..MaxShown /\ MaxShown \in Nat /\ dialog \in AllDialogs
      /\ offered \in Prices /\ pricing \in Prices /\ ~ NothingShown.fresh
  BY ConfirmFields
<1>2. /\ PriceFits(offered, inputs) /\ PriceFits(pricing, inputs) /\ PriceFits(unanswered, inputs)
      /\ ~ dialog.keeps => unanswered = NothingShown
      /\ dialog.from = "page" => pricing = NothingShown
  BY DEF ConfirmFits
<1>3. \A v: PriceFits(NothingShown, v)
  BY <1>1, <1>2, PriceMoves
<1>4. CASE \E v \in InputValues: EditInputs(v)
  <2> PICK v \in InputValues: EditInputs(v)
    BY <1>4
  <2>1. /\ inputs' = v /\ offered' = NothingShown /\ unanswered' = unanswered /\ MayEdit
        /\ pricing' = IF dialog.edits = "drop" THEN NothingShown ELSE OfOtherInputs(pricing)
        /\ UNCHANGED <<dialog, pricings, clicks, sending, kept, executed, closed>>
    BY DEF EditInputs, Edited
  <2>2. unanswered = NothingShown
    BY <1>1, <1>2, <2>1, Dialogs DEF MayEdit, NothingAsked
  <2>3. dialog.edits = "locked" => pricing = NothingShown
    BY <2>1 DEF MayEdit, NothingAsked
  <2>4. PriceFits(pricing', v) /\ (pricing = NothingShown => pricing' = NothingShown)
    <3>1. pricing = NothingShown => pricing' = NothingShown
      BY <2>1 DEF OfOtherInputs
    <3>2. dialog \in Outliving => PriceFits(OfOtherInputs(pricing), v)
      BY <1>1, <1>2, PriceMoves
    <3>3. dialog.edits = "drop" \/ pricing = NothingShown \/ dialog \in Outliving
      BY <1>1, <1>2, <2>3, Dialogs
    <3> QED BY <1>3, <2>1, <3>1, <3>2, <3>3
  <2> QED BY <1>1, <1>2, <1>3, <2>1, <2>2, <2>3, <2>4, ShowingFits
<1>5. CASE \E v \in InputValues: LeavePage(v)
  <2> PICK v \in InputValues: LeavePage(v)
    BY <1>5
  <2>1. /\ inputs' = v /\ offered' = NothingShown /\ pricing' = NothingShown /\ dialog.keeps
        /\ unanswered' \in {OfOtherInputs(unanswered), OfOtherInputs(pricing), NothingShown}
        /\ UNCHANGED <<dialog, pricings, clicks, sending, kept, executed, closed>>
    BY DEF LeavePage
  <2> QED BY <1>1, <1>2, <1>3, <2>1, PriceMoves, Dialogs, ShowingFits
<1>6. CASE AskPrice
  <2> DEFINE priced == Priced(pricings')
  <2>1. /\ priced \in Prices /\ ~ priced.overtaken /\ priced.of = inputs /\ priced.id \in 1..MaxShown
        /\ pricings' \in 0..MaxShown
    BY <1>1, <1>6 DEF AskPrice, Priced, Prices
  <2>2. UNCHANGED <<dialog, inputs, unanswered, clicks, sending, kept, executed, closed>>
    BY <1>6 DEF AskPrice
  <2> HIDE DEF priced
  <2>3. PriceFits(priced, inputs)
    BY <1>1, <2>1 DEF PriceFits
  <2>4. CASE dialog.from = "page"
    <3>1. offered' = priced /\ pricing' = pricing
      BY <1>6, <2>4 DEF AskPrice, priced
    <3> QED BY <1>1, <1>2, <2>1, <2>2, <2>3, <3>1, ShowingFits
  <2>5. CASE dialog.from # "page"
    <3>1. pricing' = priced /\ offered' \in {offered, NothingShown}
      BY <1>1, <1>6, <2>5, Dialogs DEF AskPrice, priced
    <3> QED BY <1>1, <1>2, <1>3, <2>1, <2>2, <2>3, <2>5, <3>1, ShowingFits
  <2> QED BY <2>4, <2>5
<1>7. CASE PriceArrives \/ PriceFails \/ RetryPrice \/ Back
  <2>1. /\ UNCHANGED <<dialog, inputs, pricings, clicks, sending, kept, executed, closed>>
        /\ offered' \in {offered, pricing, NothingShown}
        /\ pricing' \in {pricing, unanswered, NothingShown}
        /\ unanswered' \in {unanswered, pricing, NothingShown}
    BY <1>7 DEF PriceArrives, PriceFails, RetryPrice, Back
  <2>2. ~ dialog.keeps => unanswered' = NothingShown
    BY <1>1, <1>2, <1>7, Dialogs DEF PriceArrives, PriceFails, RetryPrice, Back
  <2>3. dialog.from = "page" => pricing' = NothingShown
    BY <1>1, <1>2, <1>7, Dialogs DEF PriceArrives, PriceFails, RetryPrice, Back
  <2> QED BY <1>1, <1>2, <1>3, <2>1, <2>2, <2>3, ShowingFits
<1>8. CASE Expire
  <2>1. /\ offered' = [offered EXCEPT !.fresh = FALSE] /\ offered # NothingShown
        /\ UNCHANGED <<dialog, inputs, pricing, unanswered, pricings, clicks, sending, kept, executed, closed>>
    BY <1>1, <1>8 DEF Expire
  <2>2. PriceFits(offered', inputs)
    <3>1. /\ offered' \in Prices /\ offered'.of = offered.of /\ offered'.id = offered.id
          /\ offered'.overtaken = offered.overtaken
      BY <1>1, <2>1 DEF Prices
    <3> QED BY <1>2, <2>1, <3>1 DEF PriceFits
  <2> QED BY <1>1, <1>2, <2>1, <2>2, ShowingFits
<1> QED BY <1>4, <1>5, <1>6, <1>7, <1>8

LEMMA ClickStepFits ==
  ASSUME ConfirmFits, ConfirmPrice \/ ServeClick \/ ClickDone \/ ClickRefused \/ ClickLost \/ RetryKept
  PROVE  ConfirmFits'
<1>1. /\ offered \in Prices /\ pricing \in Prices /\ unanswered \in Prices
      /\ sending \in Sendings /\ kept \in Sendings
      /\ executed \subseteq Clicks /\ dialog \in AllDialogs /\ inputs \in InputValues
      /\ pricings \in 0..MaxShown /\ clicks \in 0..MaxShown /\ closed \in BOOLEAN /\ MaxShown \in Nat
      /\ ~ NothingShown.fresh /\ NothingShown \in Prices
  BY ConfirmFields
<1>2. /\ PriceFits(offered, inputs) /\ PriceFits(pricing, inputs) /\ PriceFits(unanswered, inputs)
      /\ ~ dialog.keeps => unanswered = NothingShown
      /\ dialog.from = "page" => pricing = NothingShown
      /\ ClickFits(sending) /\ ClickFits(kept) /\ \A e \in executed: ClickFits(e)
      /\ dialog.once # "nothing" => \A e, f \in executed: (e.id = f.id \/ dialog.once = "dialog") => e = f
  BY DEF ConfirmFits
<1>3. /\ ClickFits(NoClick) /\ NoClick \in Sendings /\ NoClick.state = "none"
      /\ UNCHANGED <<dialog, inputs, pricing, unanswered, pricings>>
  BY DEF ClickFits, AsShown, NoClick, Sendings, ConfirmPrice, ServeClick, ClickDone, ClickRefused, ClickLost, RetryKept
<1>4. ASSUME PriceFits(offered', inputs), clicks' \in 0..MaxShown,
             sending' \in Sendings, kept' \in Sendings, closed' \in BOOLEAN, executed' \subseteq Clicks,
             ClickFits(sending'), ClickFits(kept'), \A e \in executed': ClickFits(e),
             dialog.once # "nothing" =>
               \A e, f \in executed': (e.id = f.id \/ dialog.once = "dialog") => e = f
      PROVE  ConfirmFits'
  <2>1. ConfirmTypes'
    BY <1>1, <1>3, <1>4 DEF ConfirmTypes, PriceFits, Prices, Sendings
  <2>2. ClickFits(sending)' /\ ClickFits(kept)' /\ \A e \in executed': ClickFits(e)'
    BY <1>3, <1>4 DEF ClickFits
  <2>3. /\ PriceFits(offered, inputs)' /\ PriceFits(pricing, inputs)' /\ PriceFits(unanswered, inputs)'
        /\ ~ dialog'.keeps => unanswered' = NothingShown
        /\ dialog'.from = "page" => pricing' = NothingShown
    BY <1>2, <1>3, <1>4 DEF PriceFits
  <2> QED BY <1>3, <1>4, <2>1, <2>2, <2>3 DEF ConfirmFits
<1>5. ASSUME NEW s \in Clicks, ClickFits(s), NEW st \in {"sent", "done", "refused"}
      PROVE  /\ [s EXCEPT !.state = st] \in Clicks /\ ClickFits([s EXCEPT !.state = st])
             /\ [s EXCEPT !.state = st].id = s.id /\ [s EXCEPT !.state = st].key = s.key
             /\ [s EXCEPT !.state = st].state = st
  BY <1>5 DEF ClickFits, AsShown, Clicks, NoClick
<1>6. sending.state \in {"sent", "done", "refused"} \/ sending # NoClick => sending \in Clicks
  BY <1>1, <1>3 DEF Sendings
<1>7. CASE ConfirmPrice
  <2> DEFINE s == [what |-> IF dialog.sends = "price" THEN offered.of ELSE inputs,
                   priced |-> offered.of, typed |-> inputs, overtaken |-> offered.overtaken,
                   id |-> offered.id, key |-> KeyFor, state |-> "sent"]
  <2>1. /\ offered.fresh /\ clicks < MaxShown /\ clicks' = clicks + 1 /\ sending' = s
        /\ UNCHANGED <<offered, kept, executed, closed>>
    BY <1>7 DEF ConfirmPrice
  <2>2. /\ offered.of \in InputValues /\ offered.id \in 1..MaxShown /\ offered.overtaken \in BOOLEAN
        /\ offered.of = inputs \/ offered.overtaken
        /\ dialog \notin Outliving => ~ offered.overtaken
    BY <1>1, <1>2, <2>1 DEF PriceFits, Prices
  <2>3. KeyFor \in 1..MaxShown /\ (dialog.once = "dialog" => KeyFor = 1)
    BY <1>1, <2>1, <2>2 DEF KeyFor
  <2>4. s \in Clicks
    BY <1>1, <2>2, <2>3 DEF Clicks
  <2>5. ClickFits(s)
    BY <2>2, <2>3 DEF ClickFits, AsShown
  <2> HIDE DEF s
  <2> QED BY <1>1, <1>2, <1>4, <2>1, <2>4, <2>5 DEF Sendings
<1>8. CASE ServeClick
  <2>1. sending.state = "sent" /\ sending \in Clicks /\ UNCHANGED <<offered, clicks, kept, closed>>
    BY <1>6, <1>8 DEF ServeClick
  <2> PICK done, refused : /\ done = [sending EXCEPT !.state = "done"]
                           /\ refused = [sending EXCEPT !.state = "refused"]
    OBVIOUS
  <2>2. /\ done \in Clicks /\ ClickFits(done) /\ refused \in Clicks /\ ClickFits(refused)
        /\ done.id = sending.id /\ done.key = sending.key
    BY <1>2, <1>5, <2>1
  <2>3. CASE executed' = executed
    <3>1. sending' \in {done, refused}
      BY <1>8 DEF ServeClick
    <3> QED BY <1>1, <1>2, <1>4, <2>1, <2>2, <2>3, <3>1 DEF Sendings
  <2>4. CASE Repeated = {} /\ Used = {} /\ executed' = executed \cup {done} /\ sending' = done
    <3>1. dialog.once = "dialog" => executed = {}
      <4> SUFFICES ASSUME dialog.once = "dialog", NEW e \in executed PROVE FALSE
        OBVIOUS
      <4>1. e.key = 1 /\ sending.key = 1
        <5>1. e # NoClick /\ sending # NoClick
          BY <1>1, <2>1 DEF Clicks, NoClick
        <5> QED BY <1>2, <5>1 DEF ClickFits
      <4> QED BY <2>4, <4>1 DEF Repeated
    <3>2. dialog.once \in {"price", "key"} => \A e \in executed: e.id # done.id
      BY <2>2, <2>4 DEF Used
    <3>3. dialog.once # "nothing" =>
            \A e, f \in executed': (e.id = f.id \/ dialog.once = "dialog") => e = f
      <4>1. dialog.once = "dialog" => \A e, f \in executed': e = f
        BY <2>4, <3>1
      <4>2. dialog.once \in {"price", "key"} => \A e, f \in executed': e.id = f.id => e = f
        BY <1>2, <2>4, <3>2
      <4> QED BY <1>1, <4>1, <4>2, Dialogs
    <3> QED BY <1>1, <1>2, <1>4, <2>1, <2>2, <2>4, <3>3 DEF Sendings
  <2> QED BY <1>8, <2>3, <2>4 DEF ServeClick
<1>9. CASE ClickDone
  <2>1. PriceFits(offered', inputs)
    <3>1. PriceFits([offered EXCEPT !.fresh = FALSE], inputs)
      <4>1. CASE offered = NothingShown
        <5>1. offered.fresh = FALSE
          BY <4>1 DEF NothingShown
        <5>2. [offered EXCEPT !.fresh = FALSE] = offered
          BY <1>1, <5>1 DEF Prices
        <5> QED BY <1>2, <5>2
      <4>2. CASE offered # NothingShown
        <5>1. /\ [offered EXCEPT !.fresh = FALSE] \in Prices /\ [offered EXCEPT !.fresh = FALSE].of = offered.of
              /\ [offered EXCEPT !.fresh = FALSE].id = offered.id
              /\ [offered EXCEPT !.fresh = FALSE].overtaken = offered.overtaken
          BY <1>1 DEF Prices
        <5> QED BY <1>2, <4>2, <5>1 DEF PriceFits
      <4> QED BY <4>1, <4>2
    <3>2. offered' \in {[offered EXCEPT !.fresh = FALSE], offered, NothingShown}
      BY <1>9 DEF ClickDone
    <3>3. PriceFits(NothingShown, inputs)
      BY <1>1, <1>2, PriceMoves
    <3> QED BY <1>2, <3>1, <3>2, <3>3
  <2> QED BY <1>1, <1>2, <1>3, <1>4, <1>9, <2>1 DEF ClickDone
<1>10. CASE ClickRefused \/ RetryKept
  BY <1>1, <1>2, <1>3, <1>4, <1>10 DEF ClickRefused, RetryKept
<1>11. CASE ClickLost
  <2>1. /\ sending \in Clicks /\ sending' = NoClick /\ UNCHANGED <<offered, clicks, executed, closed>>
        /\ kept' \in {[sending EXCEPT !.state = "sent"], NoClick}
    BY <1>6, <1>11 DEF ClickLost
  <2>2. kept' \in Sendings /\ ClickFits(kept')
    <3>1. ClickFits(sending)
      BY <1>2
    <3>2. [sending EXCEPT !.state = "sent"] \in Clicks /\ ClickFits([sending EXCEPT !.state = "sent"])
      BY <1>5, <2>1, <3>1
    <3> QED BY <1>3, <2>1, <3>2 DEF Sendings
  <2> QED BY <1>1, <1>2, <1>3, <1>4, <2>1, <2>2
<1> QED BY <1>7, <1>8, <1>9, <1>10, <1>11

LEMMA ConfirmStays == ASSUME ConfirmFits, [ConfirmNext]_confirmVars PROVE ConfirmFits'
<1>1. CASE UNCHANGED confirmVars
  BY <1>1 DEF confirmVars, ConfirmFits, ConfirmTypes, PriceFits, ClickFits
<1> QED BY <1>1, PriceStepFits, ClickStepFits DEF ConfirmNext

LEMMA AlwaysConfirmFits == ConfirmInit /\ [][ConfirmNext]_confirmVars => []ConfirmFits
BY ConfirmStart, ConfirmStays, PTL

(* Whatever a dialog sends or the server executes was confirmed with the   *)
(* price of the inputs on the page, the overtaken prices of the card's     *)
(* dialog and of the funds excepted; and however often a click is repeated *)
(* after a lost answer, a confirmed price is executed once.                *)
THEOREM AlwaysConfirmedOnce == ConfirmInit /\ [][ConfirmNext]_confirmVars => []ConfirmedOnceAsShown
<1>1. ConfirmFits => ConfirmedOnceAsShown
  BY DEF ConfirmFits, ConfirmedOnceAsShown, ClickFits, Outliving
<1> QED BY <1>1, AlwaysConfirmFits, PTL

(* The type invariant of the dialogs.                                      *)
THEOREM ConfirmTyped == ConfirmInit /\ [][ConfirmNext]_confirmVars => []ConfirmTypes
<1>1. ConfirmFits => ConfirmTypes
  BY DEF ConfirmFits
<1> QED BY <1>1, AlwaysConfirmFits, PTL

-----------------------------------------------------------------------------
(* The forms of the administration.                                        *)

(* A reading of the record is of a revision there was, and of the present  *)
(* one it is the present record; a draft and a request are so where        *)
(* nothing was typed.                                                      *)
IsCopy(x) == x.revision <= current.revision /\ (x.revision = current.revision => x = current)
KeepsTheRest(x, changed) ==
  /\ x.revision <= current.revision
  /\ x.revision = current.revision => \A i \in Inputs \ changed : x[i] = current[i]
EditorFits ==
  /\ EditorsTypes
  /\ IsCopy(seen) /\ IsCopy(rereading.record)
  /\ Visible => draft.revision = seen.revision
  /\ editor.seeds = "revision" => draft.revision = seen.revision /\ ~editor.clears
  /\ KeepsTheRest(draft, typed)
  /\ \A r \in sent : r.state = "sent" => KeepsTheRest(r, r.typed)

LEMMA EditorStart == EditorsInit => EditorFits
<1> SUFFICES ASSUME EditorsInit PROVE EditorFits
  OBVIOUS
<1>1. /\ editor \in AllForms /\ current = New /\ seen = NotRead /\ draft = NotRead /\ typed = {}
      /\ open \in BOOLEAN /\ waits = "nothing" /\ sent = {} /\ rereading = ReadingAsked /\ ~Visible
  BY DEF EditorsInit, AllForms, Visible
<1>2. /\ NotRead = [name |-> 0, note |-> 0, revision |-> -1] /\ ReadingAsked = [asked |-> TRUE, record |-> NotRead]
      /\ MaxEdits \in Nat \ {0}
  <2>1. NotRead = [name |-> 0, note |-> 0, revision |-> -1]
    BY DEF NotRead, New
  <2>2. ReadingAsked = [asked |-> TRUE, record |-> NotRead]
    BY DEF ReadingAsked
  <2> QED BY <2>1, <2>2, EditorsAssumption
<1>3. EditorsTypes
  BY <1>1, <1>2 DEF EditorsTypes, Records, Values, New
<1>4. editor.seeds = "revision" => ~editor.clears
  BY <1>1 DEF AllForms, SettingsForm, CatalogEditor, CustomerEditor, ProductForm, ChannelForm, OwnerDialog, FeeEditor, Form
<1> QED BY <1>1, <1>2, <1>3, <1>4 DEF EditorFits, IsCopy, KeepsTheRest, New

(* What the forms are.                                                     *)
FormSet == [seeds: {"revision", "reading", "opening"}, sends: {"page", "draft"},
            after: {"stays", "reads", "waits"}, clears: BOOLEAN, locks: BOOLEAN]
LEMMA FormIs ==
  ASSUME EditorFits
  PROVE  /\ editor.seeds \in {"revision", "reading", "opening"}
         /\ editor.sends \in {"page", "draft"}
         /\ editor.after \in {"stays", "reads", "waits"}
         /\ editor.clears \in BOOLEAN
<1>1. editor \in AllForms
  BY DEF EditorFits, EditorsTypes
<1>2. \A seeds \in {"revision", "reading", "opening"}, sends \in {"page", "draft"},
         after \in {"stays", "reads", "waits"}, clears \in BOOLEAN, locks \in BOOLEAN :
        Form(seeds, sends, after, clears, locks) \in FormSet
  BY DEF Form, FormSet
<1>3. SettingsForm \in FormSet /\ CatalogEditor \in FormSet /\ CustomerEditor \in FormSet
  BY <1>2 DEF SettingsForm, CatalogEditor, CustomerEditor
<1>4. ProductForm \in FormSet /\ ChannelForm \in FormSet /\ OwnerDialog \in FormSet /\ FeeEditor \in FormSet
  BY <1>2 DEF ProductForm, ChannelForm, OwnerDialog, FeeEditor
<1>5. editor \in FormSet
  BY <1>1, <1>3, <1>4 DEF AllForms
<1> QED BY <1>5 DEF FormSet

(* What the records are.                                                   *)
LEMMA RecordsAre ==
  ASSUME EditorFits
  PROVE  /\ current \in Records /\ seen \in Records \cup {NotRead} /\ rereading.record \in Records \cup {NotRead}
         /\ draft \in [name: Values, note: Values, revision: -1..MaxEdits]
         /\ NotRead = [name |-> 0, note |-> 0, revision |-> -1] /\ NotRead \notin Records
         /\ MaxEdits \in Nat /\ MaxEdits > 0
         /\ \A x \in Records : x.revision \in Nat
BY EditorsAssumption DEF EditorFits, EditorsTypes, NotRead, New, Records

(* The page changes and the server does not: what is read stays a copy.    *)
LEMMA PageEdits ==
  ASSUME EditorFits, NEW i \in OurInputs, NEW v \in Values, ChangeInput(i, v) PROVE EditorFits'
<1>1. /\ draft' = [draft EXCEPT ![i] = v] /\ typed' = typed \cup {i} /\ i \in Inputs
      /\ UNCHANGED <<editor, current, seen, open, waits, sent, rereading>>
  BY EditorsAssumption DEF ChangeInput
<1>2. /\ draft' \in [name: Values, note: Values, revision: -1..MaxEdits]
      /\ draft'.revision = draft.revision /\ \A j \in Inputs \ {i} : draft'[j] = draft[j]
  <2>1. CASE i = "name"
    BY <1>1, <2>1, RecordsAre DEF Inputs
  <2>2. CASE i = "note"
    BY <1>1, <2>2, RecordsAre DEF Inputs
  <2> QED BY <1>1, <2>1, <2>2 DEF Inputs
<1>3. EditorsTypes'
  BY <1>1, <1>2 DEF EditorFits, EditorsTypes
<1> QED BY <1>1, <1>2, <1>3 DEF EditorFits, IsCopy, KeepsTheRest, Visible

LEMMA FormSaved == ASSUME EditorFits, SaveForm PROVE EditorFits'
<1> DEFINE r == [name |-> draft.name, note |-> draft.note, typed |-> typed, state |-> "sent",
                 revision |-> IF editor.sends = "page" THEN seen.revision ELSE draft.revision]
<1>1. /\ Visible /\ sent' = sent \cup {r} /\ waits' = "outcome"
      /\ UNCHANGED <<editor, current, seen, draft, typed, open, rereading>>
  BY DEF SaveForm
<1>2. r.revision = draft.revision /\ draft.revision = seen.revision /\ seen \in Records
  BY <1>1, RecordsAre DEF EditorFits, Visible
<1>3. r \in [name: Values, note: Values, revision: 0..MaxEdits, typed: SUBSET Inputs,
             state: {"sent", "saved", "refused"}]
  <2>1. typed \in SUBSET Inputs
    BY DEF EditorFits, EditorsTypes
  <2>2. r.revision \in 0..MaxEdits
    BY <1>2 DEF Records
  <2> QED BY <2>1, <2>2, RecordsAre
<1>4. KeepsTheRest(r, r.typed)
  BY <1>2 DEF EditorFits, KeepsTheRest, Inputs
<1> HIDE DEF r
<1>5. EditorsTypes'
  BY <1>1, <1>3 DEF EditorFits, EditorsTypes
<1> QED BY <1>1, <1>4, <1>5 DEF EditorFits, IsCopy, KeepsTheRest, Visible

(* The record changes: every reading, draft and request is of a revision   *)
(* before.                                                                 *)
LEMMA RecordChanges ==
  ASSUME EditorFits, current' \in Records, current'.revision = current.revision + 1,
         UNCHANGED <<editor, seen, draft, typed, open, waits, rereading>>,
         sent' \subseteq [name: Values, note: Values, revision: 0..MaxEdits, typed: SUBSET Inputs,
                          state: {"sent", "saved", "refused"}],
         \A r \in sent' : r.state = "sent" => r \in sent
  PROVE  EditorFits'
<1>1. EditorsTypes'
  BY DEF EditorFits, EditorsTypes
<1>2. current.revision \in Int /\ seen.revision \in Int /\ draft.revision \in Int /\ rereading.record.revision \in Int
      /\ \A r \in sent' : r.revision \in Int
  BY RecordsAre
<1> QED BY <1>1, <1>2 DEF EditorFits, IsCopy, KeepsTheRest, Visible

LEMMA SaveServed == ASSUME EditorFits, NEW r \in sent, ServeSave(r) PROVE EditorFits'
<1>1. /\ r \in [name: Values, note: Values, revision: 0..MaxEdits, typed: SUBSET Inputs,
                state: {"sent", "saved", "refused"}]
      /\ sent \subseteq [name: Values, note: Values, revision: 0..MaxEdits, typed: SUBSET Inputs,
                         state: {"sent", "saved", "refused"}]
  BY DEF EditorFits, EditorsTypes
<1>2. UNCHANGED <<editor, seen, draft, typed, open, waits, rereading>>
  BY DEF ServeSave
<1>3. CASE /\ r.revision = current.revision /\ current.revision < MaxEdits
           /\ current' = [RecordOf(r) EXCEPT !.revision = @ + 1]
           /\ sent' = (sent \ {r}) \cup {[r EXCEPT !.state = "saved"]}
  <2>1. [RecordOf(r) EXCEPT !.revision = @ + 1] = [name |-> r.name, note |-> r.note, revision |-> r.revision + 1]
    BY DEF RecordOf
  <2>2. current' \in Records /\ current'.revision = current.revision + 1
    BY <1>1, <1>3, <2>1, RecordsAre DEF Records
  <2>3. [r EXCEPT !.state = "saved"] \in [name: Values, note: Values, revision: 0..MaxEdits, typed: SUBSET Inputs,
                                          state: {"sent", "saved", "refused"}]
        /\ [r EXCEPT !.state = "saved"].state = "saved"
    BY <1>1
  <2>4. sent' \subseteq [name: Values, note: Values, revision: 0..MaxEdits, typed: SUBSET Inputs,
                         state: {"sent", "saved", "refused"}]
    BY <1>1, <1>3, <2>3
  <2>5. \A q \in sent' : q.state = "sent" => q \in sent
    BY <1>3, <2>3
  <2> QED BY <1>2, <2>2, <2>4, <2>5, RecordChanges
<1>4. CASE /\ sent' = (sent \ {r}) \cup {[r EXCEPT !.state = "refused"]}
           /\ current' = current
  <2>1. [r EXCEPT !.state = "refused"] \in [name: Values, note: Values, revision: 0..MaxEdits, typed: SUBSET Inputs,
                                            state: {"sent", "saved", "refused"}]
        /\ [r EXCEPT !.state = "refused"].state = "refused"
    BY <1>1
  <2>2. EditorsTypes'
    BY <1>1, <1>2, <1>4, <2>1 DEF EditorFits, EditorsTypes
  <2>3. \A q \in sent' : q.state = "sent" => q \in sent
    BY <1>4, <2>1
  <2> QED BY <1>2, <1>4, <2>2, <2>3 DEF EditorFits, IsCopy, KeepsTheRest, Visible
<1> QED BY <1>3, <1>4 DEF ServeSave

LEMMA OthersSaved ==
  ASSUME EditorFits, NEW i \in TheirInputs, NEW v \in Values, OthersSave(i, v) PROVE EditorFits'
<1>1. current' = [[current EXCEPT ![i] = v] EXCEPT !.revision = current.revision + 1] /\ i \in Inputs
      /\ current.revision < MaxEdits
  BY EditorsAssumption DEF OthersSave, Inputs
<1>2. current \in Records
  BY RecordsAre
<1>3. current' \in Records /\ current'.revision = current.revision + 1
  <2>1. current.revision + 1 \in 0..MaxEdits
    <3>1. current.revision \in 0..MaxEdits /\ MaxEdits \in Nat
      BY <1>2, RecordsAre DEF Records
    <3>2. current.revision < MaxEdits
      BY DEF OthersSave
    <3> QED BY <3>1, <3>2
  <2>2. CASE i = "name"
    BY <1>1, <1>2, <2>1, <2>2 DEF Records
  <2>3. CASE i = "note"
    BY <1>1, <1>2, <2>1, <2>3 DEF Records
  <2> QED BY <1>1, <2>2, <2>3 DEF Inputs
<1>4. sent' = sent /\ UNCHANGED <<editor, seen, draft, typed, open, waits, rereading>>
  BY DEF OthersSave
<1>5. sent' \subseteq [name: Values, note: Values, revision: 0..MaxEdits, typed: SUBSET Inputs,
                       state: {"sent", "saved", "refused"}]
  BY <1>4 DEF EditorFits, EditorsTypes
<1> QED BY <1>3, <1>4, <1>5, RecordChanges

(* The record stays, no request is added and what the page shows of the    *)
(* record stays or goes.                                                   *)
LEMMA PageWaits ==
  ASSUME EditorFits, UNCHANGED <<editor, current, draft, typed>>, sent' \subseteq sent,
         open' = open \/ ~open', seen' = seen \/ (seen' = NotRead /\ editor.clears = TRUE),
         open' \in BOOLEAN, waits' \in {"nothing", "outcome", "reading", "over"},
         rereading' \in [asked: BOOLEAN, record: Records \cup {NotRead}],
         rereading'.record \in {rereading.record, NotRead, current}
  PROVE  EditorFits'
<1>1. IsCopy(NotRead) /\ IsCopy(current)
  BY RecordsAre DEF IsCopy
<1>2. IsCopy(seen)' /\ IsCopy(rereading.record)'
  <2>1. seen' \in {seen, NotRead}
    OBVIOUS
  <2> QED BY <1>1, <2>1 DEF EditorFits, IsCopy
<1>3. EditorsTypes'
  BY DEF EditorFits, EditorsTypes
<1>4. Visible' => Visible /\ seen' = seen
  BY DEF Visible
<1>5. KeepsTheRest(draft, typed)' /\ \A r \in sent' : r.state = "sent" => KeepsTheRest(r, r.typed)'
  BY DEF EditorFits, KeepsTheRest
<1> QED BY <1>2, <1>3, <1>4, <1>5 DEF EditorFits

LEMMA RecordArrived == ASSUME EditorFits, RecordArrives PROVE EditorFits'
<1>1. /\ seen' = rereading.record /\ rereading.record # NotRead /\ rereading' = [asked |-> FALSE, record |-> NotRead]
      /\ open' = (open /\ editor.seeds # "opening") /\ UNCHANGED <<editor, current, sent>>
      /\ IF Seeded(seen') THEN draft' = seen' /\ typed' = {} ELSE UNCHANGED <<draft, typed>>
  BY DEF RecordArrives, NoReading
<1>2. seen' \in Records /\ rereading'.record = NotRead
  BY <1>1, RecordsAre
<1>3. IsCopy(seen)' /\ IsCopy(rereading.record)'
  <2>1. IsCopy(NotRead)
    BY RecordsAre DEF IsCopy
  <2> QED BY <1>1, <1>2, <2>1 DEF EditorFits, IsCopy
<1>4. waits' \in {"nothing", "outcome", "reading", "over"} /\ open' \in BOOLEAN
  BY <1>1 DEF RecordArrives, EditorFits, EditorsTypes
<1>5. draft' \in [name: Values, note: Values, revision: -1..MaxEdits] /\ typed' \subseteq Inputs
  <2>1. seen' \in [name: Values, note: Values, revision: -1..MaxEdits]
    BY <1>2, RecordsAre DEF Records
  <2> QED BY <1>1, <2>1 DEF EditorFits, EditorsTypes
<1>6. EditorsTypes'
  BY <1>1, <1>2, <1>4, <1>5 DEF EditorFits, EditorsTypes
<1>7. KeepsTheRest(draft, typed)'
  BY <1>1, <1>3 DEF EditorFits, KeepsTheRest, IsCopy
<1>8. (Visible => draft.revision = seen.revision)' /\ (editor.seeds = "revision" => draft'.revision = seen'.revision)
  BY <1>1, <1>2, FormIs DEF Seeded, EditorFits, Visible
<1>9. \A r \in sent' : r.state = "sent" => KeepsTheRest(r, r.typed)'
  BY <1>1 DEF EditorFits, KeepsTheRest
<1> QED BY <1>1, <1>3, <1>6, <1>7, <1>8, <1>9 DEF EditorFits

LEMMA EditorStays == ASSUME EditorFits, [EditorsNext]_editorVars PROVE EditorFits'
<1> DEFINE Places == [asked: BOOLEAN, record: Records \cup {NotRead}]
<1>1. /\ rereading \in Places /\ waits \in {"nothing", "outcome", "reading", "over"} /\ open \in BOOLEAN
      /\ ReadingAsked \in Places /\ ReadingAsked.record = NotRead /\ ReadingAsked = [asked |-> TRUE, record |-> NotRead]
      /\ NoReading \in Places /\ NoReading.record = NotRead
      /\ current \in Records
  <2>1. ReadingAsked = [asked |-> TRUE, record |-> NotRead] /\ NoReading = [asked |-> FALSE, record |-> NotRead]
    BY DEF ReadingAsked, NoReading
  <2>2. rereading \in Places /\ waits \in {"nothing", "outcome", "reading", "over"} /\ open \in BOOLEAN
    BY DEF EditorFits, EditorsTypes
  <2> QED BY <2>1, <2>2, RecordsAre
<1>2. Reads => /\ rereading' \in Places /\ rereading'.record = NotRead
               /\ seen' = seen \/ (seen' = NotRead /\ editor.clears = TRUE)
  BY <1>1, FormIs DEF Reads
<1> HIDE DEF Places
<1>3. CASE UNCHANGED editorVars
  BY <1>3 DEF editorVars, EditorFits, EditorsTypes, IsCopy, KeepsTheRest, Visible
<1>4. CASE OpenForm
  <2>1. /\ draft' = seen /\ typed' = {} /\ open' = TRUE /\ seen # NotRead /\ editor.seeds = "opening"
        /\ UNCHANGED <<editor, current, seen, waits, sent, rereading>>
    BY <1>4 DEF OpenForm
  <2>2. seen \in Records /\ seen \in [name: Values, note: Values, revision: -1..MaxEdits]
    BY <2>1, RecordsAre DEF Records
  <2>3. EditorsTypes'
    BY <2>1, <2>2 DEF EditorFits, EditorsTypes
  <2> QED BY <2>1, <2>3 DEF EditorFits, IsCopy, KeepsTheRest, Visible
<1>5. CASE CloseForm
  BY <1>1, <1>5, PageWaits DEF CloseForm, Places
<1>6. ASSUME NEW r \in sent, SaveAnswered(r) PROVE EditorFits'
  <2>1. sent' \subseteq sent /\ UNCHANGED <<editor, current, draft, typed, open>>
    BY <1>6 DEF SaveAnswered
  <2>2. waits' \in {"nothing", "outcome", "reading", "over"}
    BY <1>1, <1>6, FormIs DEF SaveAnswered
  <2>3. (UNCHANGED <<seen, rereading>>) \/ Reads
    BY <1>6 DEF SaveAnswered
  <2>4. seen' = seen \/ (seen' = NotRead /\ editor.clears = TRUE)
    BY <1>2, <2>3
  <2>5. rereading' \in Places /\ rereading'.record \in {rereading.record, NotRead, current}
    BY <1>1, <1>2, <2>3
  <2> QED BY <1>1, <2>1, <2>2, <2>4, <2>5, PageWaits DEF Places
<1>7. ASSUME NEW r \in sent, SaveFailed(r) PROVE EditorFits'
  <2>1. /\ sent' \subseteq sent /\ UNCHANGED <<editor, current, seen, draft, typed, open, rereading>>
        /\ waits' \in {"nothing", "outcome", "reading", "over"}
    BY <1>1, <1>7 DEF SaveFailed
  <2> QED BY <1>1, <2>1, PageWaits DEF Places
<1>8. CASE ReadRecord
  <2>1. /\ Reads /\ waits' \in {"nothing", "outcome", "reading", "over"}
        /\ UNCHANGED <<editor, current, draft, typed, open, sent>>
    BY <1>1, <1>8 DEF ReadRecord
  <2> QED BY <1>1, <1>2, <2>1, PageWaits DEF Places
<1>9. CASE ServeRecord
  <2>1. /\ rereading' \in Places /\ rereading'.record = current
        /\ UNCHANGED <<editor, current, seen, draft, typed, open, waits, sent>>
    <3>1. [ReadingAsked EXCEPT !.record = current] \in Places /\ [ReadingAsked EXCEPT !.record = current].record = current
      BY <1>1 DEF Places
    <3> QED BY <1>9, <3>1 DEF ServeRecord
  <2> QED BY <1>1, <2>1, PageWaits DEF Places
<1>10. CASE RecordFails
  <2>1. /\ rereading' = NoReading /\ waits' \in {"nothing", "outcome", "reading", "over"}
        /\ UNCHANGED <<editor, current, seen, draft, typed, open, sent>>
    BY <1>1, <1>10 DEF RecordFails
  <2> QED BY <1>1, <2>1, PageWaits DEF Places
<1>11. ASSUME NEW i \in OurInputs, NEW v \in Values, ChangeInput(i, v) PROVE EditorFits'
  BY <1>11, PageEdits
<1>12. ASSUME NEW i \in TheirInputs, NEW v \in Values, OthersSave(i, v) PROVE EditorFits'
  BY <1>12, OthersSaved
<1>13. ASSUME NEW r \in sent, ServeSave(r) PROVE EditorFits'
  BY <1>13, SaveServed
<1>14. CASE SaveForm
  BY <1>14, FormSaved
<1>15. CASE RecordArrives
  BY <1>15, RecordArrived
<1> QED BY <1>3, <1>4, <1>5, <1>6, <1>7, <1>8, <1>9, <1>10, <1>11, <1>12, <1>13, <1>14, <1>15 DEF EditorsNext

LEMMA AlwaysEditorFits == EditorsInit /\ [][EditorsNext]_editorVars => []EditorFits
BY EditorStart, EditorStays, PTL

(* A request that is served was sent for the record as it is but for what  *)
(* was typed.                                                              *)
LEMMA ServedAsTyped ==
  ASSUME EditorFits, [EditorsNext]_editorVars, NEW r \in sent, r \notin sent', r.state = "sent",
         NEW i \in Inputs \ r.typed
  PROVE  current'[i] = current[i]
<1>1. CASE current' = current
  BY <1>1
<1>2. CASE \E q \in sent : ServeSave(q)
  <2> PICK q \in sent : ServeSave(q)
    BY <1>2
  <2>1. q = r
    BY DEF ServeSave
  <2>2. CASE current' # current
    <3>1. r.revision = current.revision /\ current' = [RecordOf(r) EXCEPT !.revision = @ + 1]
      BY <2>1, <2>2 DEF ServeSave
    <3>2. current'[i] = r[i]
      BY <3>1 DEF RecordOf, Inputs
    <3> QED BY <3>1, <3>2 DEF EditorFits, KeepsTheRest
  <2> QED BY <1>1, <2>2
<1>3. CASE \E j \in TheirInputs, v \in Values : OthersSave(j, v)
  BY <1>3 DEF OthersSave
<1>4. CASE \E j \in OurInputs, v \in Values : ChangeInput(j, v)
  BY <1>4 DEF ChangeInput
<1>5. CASE OpenForm \/ CloseForm \/ SaveForm \/ ReadRecord \/ ServeRecord \/ RecordArrives \/ RecordFails
           \/ UNCHANGED editorVars
  BY <1>1, <1>5 DEF OpenForm, CloseForm, SaveForm, ReadRecord, ServeRecord, RecordArrives, RecordFails, editorVars
<1>6. CASE \E q \in sent : SaveAnswered(q) \/ SaveFailed(q)
  BY <1>1, <1>6 DEF SaveAnswered, SaveFailed
<1> QED BY <1>2, <1>3, <1>4, <1>5, <1>6 DEF EditorsNext

(* A form that is saved changes what was typed in it and nothing else,     *)
(* whatever others have changed and whatever the page has read meanwhile   *)
(* (the forms SettingsForm to FeeEditor).                                  *)
THEOREM AlwaysSavesWhatWasTyped == EditorsInit /\ [][EditorsNext]_editorVars => SavesOnlyWhatWasTyped
<1>1. EditorFits /\ [EditorsNext]_editorVars =>
        [\A r \in sent \ sent' : r.state = "sent" /\ [r EXCEPT !.state = "saved"] \in sent'
           => \A i \in Inputs \ r.typed : current'[i] = current[i]]_editorVars
  BY ServedAsTyped
<1> QED BY <1>1, AlwaysEditorFits, PTL DEF SavesOnlyWhatWasTyped

(* The types of the forms.                                                 *)
THEOREM EditorsTyped == EditorsInit /\ [][EditorsNext]_editorVars => []EditorsTypes
<1>1. EditorFits => EditorsTypes
  BY DEF EditorFits
<1> QED BY <1>1, AlwaysEditorFits, PTL

-----------------------------------------------------------------------------
(* The card center.                                                        *)

HeldRow ==
  [self: BOOLEAN, risk: BOOLEAN, managed: BOOLEAN, job: {"none", "freeze", "unfreeze"},
   revision: 0..MaxHeldRevision]

(* What is known of a card in a state with two revisions is what it is     *)
(* now, when neither has moved.                                            *)
StillSo(base, cardRevision, c, stopped) ==
  /\ base <= deskRevision /\ cardRevision <= owned[c].revision
  /\ base = deskRevision /\ cardRevision = owned[c].revision => stopped = Frozen(owned[c])
DeskFits ==
  /\ owned \in [DeskCards -> HeldRow] /\ deskRevision \in 0..MaxDeskRevision
  /\ desk \in [revision: Nat, cards: [DeskCards -> HeldRow]]
  /\ sought \in [status: Statuses, product: DeskCards \cup {NoCard}, path: DeskCards \cup {NoCard}]
  /\ confirmed \in DeskCards \cup {NoCard}
  /\ toggle \in [id: DeskCards, says: BOOLEAN, base: Nat, card: 0..MaxHeldRevision,
                 state: {"sent", "done", "refused"}] \cup {NoToggle}
  /\ picked \subseteq Found(desk.cards, sought)
  /\ desk.revision <= deskRevision
  /\ \A c \in DeskCards : StillSo(desk.revision, desk.cards[c].revision, c, Frozen(desk.cards[c]))
  /\ toggle.state = "sent" => StillSo(toggle.base, toggle.card, toggle.id, ~toggle.says)

LEMMA DeskStart == DeskInit => DeskFits
BY CardDeskAssumption
   DEF DeskInit, DeskFits, HeldRow, NewCard, AtPresent, AllCards, Statuses, NoToggle, StillSo, Found

(* The page, with the server as it is.                                     *)
LEMMA GivenFits ==
  ASSUME DeskFits, UNCHANGED <<owned, deskRevision>>, sought' = sought,
         Given(AtPresent) \/ UNCHANGED <<desk, picked>>
  PROVE  /\ desk' \in [revision: Nat, cards: [DeskCards -> HeldRow]] /\ desk'.revision <= deskRevision
         /\ picked' \subseteq Found(desk'.cards, sought)
         /\ \A c \in DeskCards : StillSo(desk'.revision, desk'.cards[c].revision, c, Frozen(desk'.cards[c]))
<1>1. CASE Given(AtPresent)
  <2>1. desk' = [revision |-> deskRevision, cards |-> owned] /\ picked' = picked \cap Found(owned, sought)
    BY <1>1 DEF Given, AtPresent
  <2> QED BY <2>1 DEF DeskFits, StillSo, HeldRow
<1>2. CASE UNCHANGED <<desk, picked>>
  BY <1>2 DEF DeskFits
<1> QED BY <1>1, <1>2

(* The server changes a card, with a new revision of the state, of the     *)
(* card, or neither where it stays as frozen as it was.                    *)
LEMMA CardWritten ==
  ASSUME DeskFits, NEW c \in DeskCards, NEW k \in HeldRow, owned' = [owned EXCEPT ![c] = k],
         deskRevision' \in 0..MaxDeskRevision, deskRevision' >= deskRevision, k.revision >= owned[c].revision,
         deskRevision' = deskRevision /\ k.revision = owned[c].revision => Frozen(k) = Frozen(owned[c]),
         UNCHANGED <<desk, sought, picked, confirmed>>,
         toggle' = toggle \/ (toggle.state = "sent" /\ toggle' = [toggle EXCEPT !.state = "done"])
  PROVE  DeskFits'
<1>1. /\ owned' \in [DeskCards -> HeldRow] /\ owned'[c] = k
      /\ \A d \in DeskCards : d # c => owned'[d] = owned[d]
      /\ \A d \in DeskCards : owned[d].revision \in Nat /\ owned'[d].revision \in Nat /\ deskRevision \in Nat
  BY DEF DeskFits, HeldRow
<1>2. ASSUME NEW d \in DeskCards, NEW b \in Nat, NEW n \in Nat, NEW f, StillSo(b, n, d, f)
      PROVE  StillSo(b, n, d, f)'
  <2>1. CASE d # c
    BY <1>1, <1>2, <2>1 DEF StillSo
  <2>2. CASE d = c
    BY <1>1, <1>2, <2>2 DEF StillSo
  <2> QED BY <2>1, <2>2
<1>3. (\A d \in DeskCards : StillSo(desk.revision, desk.cards[d].revision, d, Frozen(desk.cards[d])))'
  <2> SUFFICES ASSUME NEW d \in DeskCards
               PROVE  StillSo(desk.revision, desk.cards[d].revision, d, Frozen(desk.cards[d]))'
    OBVIOUS
  <2> PICK b, n, f : b = desk.revision /\ n = desk.cards[d].revision /\ f = Frozen(desk.cards[d])
    OBVIOUS
  <2>1. b \in Nat /\ n \in Nat /\ StillSo(b, n, d, f)
    BY DEF DeskFits, HeldRow
  <2>2. StillSo(b, n, d, f)'
    BY <1>2, <2>1
  <2> QED BY <2>2 DEF StillSo, Frozen
<1>4. (toggle.state = "sent" => StillSo(toggle.base, toggle.card, toggle.id, ~toggle.says))'
  <2> SUFFICES ASSUME toggle'.state = "sent" PROVE StillSo(toggle.base, toggle.card, toggle.id, ~toggle.says)'
    OBVIOUS
  <2>1. toggle' = toggle
    BY DEF DeskFits, NoToggle
  <2> PICK b, n, d, f : b = toggle.base /\ n = toggle.card /\ d = toggle.id /\ f = ~toggle.says
    OBVIOUS
  <2>2. b \in Nat /\ n \in Nat /\ d \in DeskCards /\ StillSo(b, n, d, f)
    BY <2>1 DEF DeskFits, NoToggle
  <2>3. StillSo(b, n, d, f)'
    BY <1>2, <2>2
  <2> QED BY <2>1, <2>3 DEF StillSo
<1>5. toggle' \in [id: DeskCards, says: BOOLEAN, base: Nat, card: 0..MaxHeldRevision,
                   state: {"sent", "done", "refused"}] \cup {NoToggle}
  BY DEF DeskFits, NoToggle
<1>6. desk'.revision <= deskRevision'
  BY <1>1 DEF DeskFits
<1> QED BY <1>1, <1>3, <1>4, <1>5, <1>6 DEF DeskFits

(* The page moves on by itself.                                            *)
LEMMA PageMovesFit ==
  ASSUME DeskFits, UNCHANGED <<owned, deskRevision, desk>>,
         \/ \E q \in DeskQueries : Seek(q)
         \/ \E cs \in SUBSET DeskCards : PickCards(cs)
         \/ \E c \in DeskCards : AskFreeze(c)
         \/ CancelFreeze \/ ConfirmFreeze
  PROVE  DeskFits'
<1>1. /\ \A c \in DeskCards : desk.cards[c] \in HeldRow /\ desk.revision \in Nat
      /\ \A c : Frozen(desk.cards[c]) \in BOOLEAN
  BY DEF DeskFits, Frozen
<1>2. ASSUME NEW c \in DeskCards PROVE StillSo(desk.revision, desk.cards[c].revision, c, Frozen(desk.cards[c]))'
  BY DEF DeskFits, StillSo, Frozen
<1>3. ASSUME NEW q \in DeskQueries, Seek(q) PROVE DeskFits'
  <2>1. q \in [status: Statuses, product: DeskCards \cup {NoCard}, path: DeskCards \cup {NoCard}]
    BY CardDeskAssumption
  <2>2. picked' \subseteq Found(desk.cards, q) /\ sought' = q /\ confirmed' = confirmed /\ toggle' = toggle
    BY <1>3 DEF Seek
  <2> QED BY <1>2, <2>1, <2>2 DEF DeskFits, StillSo
<1>4. ASSUME NEW cs \in SUBSET DeskCards, PickCards(cs) PROVE DeskFits'
  <2>1. picked' \subseteq Found(desk.cards, sought) /\ sought' = sought /\ confirmed' = confirmed /\ toggle' = toggle
    BY <1>4 DEF PickCards, DeskFits
  <2> QED BY <1>2, <2>1 DEF DeskFits, StillSo
<1>5. ASSUME NEW c \in DeskCards, AskFreeze(c) PROVE DeskFits'
  BY <1>2, <1>5 DEF AskFreeze, DeskFits, StillSo
<1>6. CASE CancelFreeze
  BY <1>2, <1>6 DEF CancelFreeze, DeskFits, StillSo
<1>7. CASE ConfirmFreeze
  <2>1. picked' = picked /\ sought' = sought /\ confirmed' = NoCard /\ confirmed \in DeskCards
    BY <1>7 DEF ConfirmFreeze, DeskFits
  <2>2. CASE toggle' = toggle
    BY <1>2, <2>1, <2>2 DEF DeskFits, StillSo
  <2>3. CASE toggle' = [id |-> confirmed, says |-> ~Frozen(desk.cards[confirmed]), base |-> desk.revision,
                        card |-> desk.cards[confirmed].revision, state |-> "sent"]
    <3>1. toggle' \in [id: DeskCards, says: BOOLEAN, base: Nat, card: 0..MaxHeldRevision,
                       state: {"sent", "done", "refused"}]
      BY <1>1, <2>1, <2>3 DEF HeldRow
    <3>2. StillSo(toggle'.base, toggle'.card, toggle'.id, ~toggle'.says)
      BY <1>1, <2>1, <2>3 DEF DeskFits
    <3> QED BY <1>2, <2>1, <3>1, <3>2 DEF DeskFits, StillSo
  <2> QED BY <1>7, <2>2, <2>3 DEF ConfirmFreeze
<1> QED BY <1>3, <1>4, <1>5, <1>6, <1>7

LEMMA TakenFits ==
  ASSUME DeskFits, NEW c \in DeskCards, MayToggle(owned[c]), TakenOn(c),
         UNCHANGED <<desk, sought, picked, confirmed>>,
         toggle' = toggle \/ (toggle.state = "sent" /\ toggle' = [toggle EXCEPT !.state = "done"])
  PROVE  DeskFits'
<1> PICK k : k = Toggled(owned[c])
  OBVIOUS
<1>1. k \in HeldRow /\ k.revision = owned[c].revision /\ owned' = [owned EXCEPT ![c] = k]
  BY DEF Toggled, DeskFits, HeldRow, TakenOn
<1>2. deskRevision' \in 0..MaxDeskRevision /\ deskRevision' >= deskRevision /\ deskRevision' # deskRevision
  BY CardDeskAssumption DEF TakenOn, DeskFits
<1>3. k.revision >= owned[c].revision
  BY <1>1 DEF HeldRow
<1>4. deskRevision' = deskRevision /\ k.revision = owned[c].revision => Frozen(k) = Frozen(owned[c])
  BY <1>2
<1> QED BY <1>1, <1>2, <1>3, <1>4, CardWritten

LEMMA ServeToggleFits == ASSUME DeskFits, ServeToggle PROVE DeskFits'
<1>1. toggle.state = "sent" /\ toggle.id \in DeskCards
  BY DEF ServeToggle, DeskFits, NoToggle
<1>2. CASE toggle.base = deskRevision /\ MayToggle(owned[toggle.id])
  <2>1. TakenOn(toggle.id) /\ toggle' = [toggle EXCEPT !.state = "done"]
    BY <1>2 DEF ServeToggle
  <2> QED BY <1>1, <1>2, <2>1, TakenFits DEF ServeToggle
<1>3. CASE ~ (toggle.base = deskRevision /\ MayToggle(owned[toggle.id]))
  <2>1. /\ toggle' = [toggle EXCEPT !.state = "refused"]
        /\ UNCHANGED <<owned, deskRevision, desk, sought, picked, confirmed>>
    BY <1>3 DEF ServeToggle, DeskServerUnchanged
  <2> QED BY <1>1, <2>1 DEF DeskFits, StillSo, NoToggle
<1> QED BY <1>2, <1>3

(* What the card administration does to a card.                            *)
LEMMA AdministeredFits ==
  ASSUME DeskFits, NEW c \in DeskCards,
         Adopt(c) \/ JobDone(c) \/ JobFailed(c) \/ PutUnderRisk(c) \/ ReleaseRisk(c)
  PROVE  DeskFits'
<1>1. owned[c] \in HeldRow /\ deskRevision \in 0..MaxDeskRevision /\ deskRevision \in Nat /\ owned[c].revision \in Nat
  BY DEF DeskFits, HeldRow
<1>2. UNCHANGED <<deskRevision, desk, sought, picked, confirmed, toggle>>
  BY DEF Adopt, JobDone, JobFailed, PutUnderRisk, ReleaseRisk, Administer, DeskPageUnchanged
<1>3. ASSUME NEW self \in BOOLEAN, NEW risk \in BOOLEAN, NEW job \in {"none", "freeze", "unfreeze"},
             Administer(c, self, risk, job)
      PROVE  DeskFits'
  <2> PICK k : k = [owned[c] EXCEPT !.self = self, !.risk = risk, !.job = job, !.revision = owned[c].revision + 1]
    OBVIOUS
  <2>1. owned' = [owned EXCEPT ![c] = k] /\ owned[c].revision < MaxHeldRevision
    BY <1>3 DEF Administer
  <2>2. k.revision = owned[c].revision + 1 /\ k.revision \in 0..MaxHeldRevision
    BY <1>1, <2>1, CardDeskAssumption DEF HeldRow
  <2>3. k \in HeldRow
    BY <1>1, <2>2 DEF HeldRow
  <2>4. /\ k.revision >= owned[c].revision /\ deskRevision' >= deskRevision /\ deskRevision' \in 0..MaxDeskRevision
        /\ deskRevision' = deskRevision /\ k.revision = owned[c].revision => Frozen(k) = Frozen(owned[c])
    BY <1>1, <1>2, <2>2
  <2> QED BY <1>2, <2>1, <2>3, <2>4, CardWritten
<1>4. CASE Adopt(c)
  <2> PICK k : k = [owned[c] EXCEPT !.managed = TRUE]
    OBVIOUS
  <2>1. k \in HeldRow /\ k.revision = owned[c].revision /\ Frozen(k) = Frozen(owned[c])
    BY <1>1 DEF HeldRow, Frozen
  <2>2. owned' = [owned EXCEPT ![c] = k]
    BY <1>4 DEF Adopt
  <2>3. k.revision >= owned[c].revision /\ deskRevision' >= deskRevision /\ deskRevision' \in 0..MaxDeskRevision
    BY <1>1, <1>2, <2>1
  <2> QED BY <1>2, <2>1, <2>2, <2>3, CardWritten
<1>5. CASE JobFailed(c)
  <2> PICK k : k = [owned[c] EXCEPT !.job = "none"]
    OBVIOUS
  <2>1. k \in HeldRow /\ k.revision = owned[c].revision /\ Frozen(k) = Frozen(owned[c])
    BY <1>1 DEF HeldRow, Frozen
  <2>2. owned' = [owned EXCEPT ![c] = k]
    BY <1>5 DEF JobFailed
  <2>3. k.revision >= owned[c].revision /\ deskRevision' >= deskRevision /\ deskRevision' \in 0..MaxDeskRevision
    BY <1>1, <1>2, <2>1
  <2> QED BY <1>2, <2>1, <2>2, <2>3, CardWritten
<1>6. CASE JobDone(c)
  BY <1>1, <1>3, <1>6 DEF JobDone, HeldRow
<1>7. CASE PutUnderRisk(c)
  BY <1>1, <1>3, <1>7 DEF PutUnderRisk, HeldRow
<1>8. CASE ReleaseRisk(c)
  BY <1>1, <1>3, <1>8 DEF ReleaseRisk, HeldRow
<1> QED BY <1>4, <1>5, <1>6, <1>7, <1>8

LEMMA DeskStays == ASSUME DeskFits, [DeskNext]_deskVars PROVE DeskFits'
<1>1. CASE UNCHANGED deskVars
  BY <1>1 DEF deskVars, DeskFits, StillSo, Frozen
<1>2. ASSUME NEW q \in DeskQueries, Seek(q) PROVE DeskFits'
  BY <1>2, PageMovesFit DEF Seek, DeskServerUnchanged
<1>3. ASSUME NEW cs \in SUBSET DeskCards, PickCards(cs) PROVE DeskFits'
  BY <1>3, PageMovesFit DEF PickCards, DeskServerUnchanged
<1>4. ASSUME NEW c \in DeskCards, AskFreeze(c) PROVE DeskFits'
  BY <1>4, PageMovesFit DEF AskFreeze, DeskServerUnchanged
<1>5. CASE CancelFreeze
  BY <1>5, PageMovesFit DEF CancelFreeze, DeskServerUnchanged
<1>6. CASE ConfirmFreeze
  BY <1>6, PageMovesFit DEF ConfirmFreeze, DeskServerUnchanged
<1>7. ASSUME NEW c \in DeskCards, ToggledElsewhere(c) PROVE DeskFits'
  <2>1. MayToggle(owned[c]) /\ TakenOn(c) /\ UNCHANGED <<desk, sought, picked, confirmed, toggle>>
    BY <1>7 DEF ToggledElsewhere, DeskPageUnchanged
  <2> QED BY <2>1, TakenFits
<1>8. CASE ToggleOver
  <2>1. /\ UNCHANGED <<owned, deskRevision, sought, confirmed>> /\ toggle' = NoToggle
        /\ Given(AtPresent) \/ UNCHANGED <<desk, picked>>
    BY <1>8 DEF ToggleOver, DeskServerUnchanged
  <2>2. toggle'.state # "sent"
    BY <2>1 DEF NoToggle
  <2> QED BY <2>1, <2>2, GivenFits DEF DeskFits, StillSo, Frozen
<1>9. CASE PollDesk
  <2>1. UNCHANGED <<owned, deskRevision, sought, confirmed, toggle>> /\ Given(AtPresent) /\ toggle = NoToggle
    BY <1>9 DEF PollDesk, DeskServerUnchanged
  <2>2. toggle'.state # "sent"
    BY <2>1 DEF NoToggle
  <2> QED BY <2>1, <2>2, GivenFits DEF DeskFits, StillSo, Frozen
<1> QED BY <1>1, <1>2, <1>3, <1>4, <1>5, <1>6, <1>7, <1>8, <1>9, ServeToggleFits, AdministeredFits DEF DeskNext

LEMMA AlwaysDeskFits == DeskInit /\ [][DeskNext]_deskVars => []DeskFits
BY DeskStart, DeskStays, PTL

(* A click carried out does what the button said: the states the page and  *)
(* the server had of this card were the same.                              *)
LEMMA ToggledAsSaid ==
  ASSUME DeskFits, [DeskNext]_deskVars, toggle.state = "sent", toggle'.state = "done",
         owned[toggle.id].revision = toggle.card
  PROVE  Goal(owned'[toggle.id]) = toggle.says
<1>1. CASE ServeToggle
  <2>1. toggle.id \in DeskCards /\ toggle.says \in BOOLEAN
    BY DEF DeskFits, NoToggle
  <2>2. toggle.base = deskRevision /\ MayToggle(owned[toggle.id]) /\ TakenOn(toggle.id)
    <3>1. toggle \in [id: DeskCards, says: BOOLEAN, base: Nat, card: 0..MaxHeldRevision,
                      state: {"sent", "done", "refused"}]
      BY DEF DeskFits, NoToggle
    <3>2. [toggle EXCEPT !.state = "refused"].state = "refused"
      BY <3>1
    <3> QED BY <1>1, <3>2 DEF ServeToggle
  <2>3. ~toggle.says = Frozen(owned[toggle.id])
    BY <2>1, <2>2 DEF DeskFits, StillSo
  <2> PICK k : k = owned[toggle.id]
    OBVIOUS
  <2>4. k \in HeldRow /\ ~k.risk /\ owned'[toggle.id] = Toggled(k)
    BY <2>1, <2>2 DEF DeskFits, MayToggle, TakenOn
  <2>5. Goal(Toggled(k)) = ~k.self
    BY <2>4 DEF Goal, Toggled, HeldRow
  <2>6. Frozen(k) = k.self
    BY <2>4 DEF Frozen, HeldRow
  <2> QED BY <2>1, <2>3, <2>4, <2>5, <2>6 DEF HeldRow
<1>2. ASSUME ~ServeToggle PROVE FALSE
  <2>1. toggle # NoToggle
    BY DEF NoToggle
  <2>2. CASE \E c \in DeskCards : AskFreeze(c) \/ ToggledElsewhere(c) \/ Adopt(c) \/ JobDone(c) \/ JobFailed(c)
                                 \/ PutUnderRisk(c) \/ ReleaseRisk(c)
    <3>1. toggle' = toggle
      BY <2>2 DEF AskFreeze, ToggledElsewhere, Adopt, JobDone, JobFailed, PutUnderRisk, ReleaseRisk,
                  Administer, DeskPageUnchanged
    <3> QED BY <3>1
  <2>3. CASE \E q \in DeskQueries : Seek(q)
    BY <2>3 DEF Seek
  <2>4. CASE \E cs \in SUBSET DeskCards : PickCards(cs)
    BY <2>4 DEF PickCards
  <2>5. CASE CancelFreeze \/ ConfirmFreeze \/ UNCHANGED deskVars
    BY <2>1, <2>5 DEF CancelFreeze, ConfirmFreeze, deskVars
  <2>6. CASE ToggleOver \/ PollDesk
    <3>1. toggle' = NoToggle
      BY <2>6 DEF ToggleOver, PollDesk
    <3> QED BY <3>1 DEF NoToggle
  <2> QED BY <1>2, <2>2, <2>3, <2>4, <2>5, <2>6 DEF DeskNext
<1> QED BY <1>1, <1>2

(* Whatever states the page is given, the cards that are exported are      *)
(* those the reader has picked, and a click does what its button said      *)
(* unless the card administration has changed the card (CardCenter.tsx).   *)
THEOREM AlwaysFreezesAsSaid == DeskInit /\ [][DeskNext]_deskVars => FreezesAsSaid
<1>1. DeskFits => (picked # {} => Exported = picked)
  BY DEF DeskFits, Exported
<1>2. DeskFits /\ [DeskNext]_deskVars =>
        [toggle.state = "sent" /\ toggle'.state = "done" /\ owned[toggle.id].revision = toggle.card
           => Goal(owned'[toggle.id]) = toggle.says]_deskVars
  BY ToggledAsSaid
<1> QED BY <1>1, <1>2, AlwaysDeskFits, PTL DEF FreezesAsSaid

(* The types of the card center.                                           *)
THEOREM DeskTyped == DeskInit /\ [][DeskNext]_deskVars => []DeskTypes
<1>1. DeskFits => DeskTypes
  BY DEF DeskFits, DeskTypes, HeldRow, StillSo, Found, NoToggle
<1> QED BY <1>1, AlwaysDeskFits, PTL

-----------------------------------------------------------------------------
(* The message center.                                                     *)

InboxRows ==
  {r \in [of: Wanted, read: UNION {[s -> BOOLEAN] : s \in SUBSET (1..MaxNotes)}, total: Int, unread: Int] :
     DOMAIN r.read \subseteq DOMAIN notes}

(* An answer has an empty page only when nothing matches, or when it is    *)
(* beyond the last one; a list that is read shows nothing selected.        *)
PageHolds(r) == DOMAIN r.read = {} => r.total = 0 \/ r.of.page > LastPage(r.total)
InboxFits ==
  /\ notes \in Seq(BOOLEAN) /\ Len(notes) <= MaxNotes /\ noteRevision \in 0..MaxNoteRevision
  /\ mine \in [revision: Nat, notes: Seq(BOOLEAN)]
  /\ mine.revision <= noteRevision /\ Len(mine.notes) <= Len(notes)
  /\ mine.revision = noteRevision => Len(mine.notes) = Len(notes)
  /\ onList \in Wanted /\ rows \in InboxRows /\ listFailed \in BOOLEAN
  /\ listing \in [of: Wanted, state: {"idle", "asked", "answered"}, answer: InboxRows]
  /\ ticked \subseteq DOMAIN rows.read
  /\ listing.state # "idle" => ticked = {} /\ listing.of = onList
  /\ listing.state = "answered" =>
       /\ listing.answer.of = onList /\ listing.answer.total \in 0..MaxNotes /\ PageHolds(listing.answer)
  /\ listing.state = "idle" /\ ~listFailed => rows.of = onList /\ (DOMAIN rows.read = {} => rows.total = 0)
  /\ marking.ids \subseteq DOMAIN notes
  /\ marking \in [ids: SUBSET (1..MaxNotes), read: BOOLEAN, base: Nat, known: Nat,
                  state: {"none", "sent", "done", "refused"}]
  /\ marking.state = "sent" =>
       marking.base <= noteRevision /\ (marking.base = noteRevision => marking.known = Len(notes))

(* A finite set of numbers has a greatest one.                             *)
LEMMA Greatest ==
  ASSUME NEW M, IsFiniteSet(M), M \subseteq Int, M # {}
  PROVE  \E x \in M : \A y \in M : y <= x
<1> DEFINE Q == {s \in SUBSET M : s # {} => \E x \in s : \A y \in s : y <= x}
<1>1. ASSUME NEW s \in SUBSET M, \A x \in s : s \ {x} \in Q PROVE s \in Q
  <2> SUFFICES ASSUME s # {} PROVE \E x \in s : \A y \in s : y <= x
    OBVIOUS
  <2> PICK z \in s : TRUE
    OBVIOUS
  <2>1. CASE s \ {z} = {}
    BY <2>1
  <2>2. CASE s \ {z} # {}
    <3> PICK x \in s \ {z} : \A y \in s \ {z} : y <= x
      BY <1>1, <2>2
    <3>1. x \in Int /\ z \in Int /\ \A y \in s : y = z \/ y <= x
      OBVIOUS
    <3> QED BY <3>1
  <2> QED BY <2>1, <2>2
<1> HIDE DEF Q
<1>2. M \in Q
  BY <1>1, SetInduction
<1> QED BY <1>2 DEF Q

(* In a finite set of numbers there is, for each count below its size, a   *)
(* number that so many are greater than.                                   *)
LEMMA EachRank ==
  ASSUME NEW M, IsFiniteSet(M), M \subseteq Int, NEW j \in Nat, j < Cardinality(M)
  PROVE  \E n \in M : Cardinality({m \in M : m > n}) = j
<1> DEFINE Ranked(s) == \A k \in Nat : k < Cardinality(s) => \E n \in s : Cardinality({m \in s : m > n}) = k
<1> DEFINE Q == {s \in SUBSET M : Ranked(s)}
<1>1. ASSUME NEW s \in SUBSET M, \A x \in s : s \ {x} \in Q PROVE s \in Q
  <2>1. IsFiniteSet(s) /\ s \subseteq Int
    BY FS_Subset
  <2> SUFFICES ASSUME NEW k \in Nat, k < Cardinality(s) PROVE \E n \in s : Cardinality({m \in s : m > n}) = k
    OBVIOUS
  <2>2. s # {}
    BY FS_EmptySet
  <2>3. PICK x \in s : \A y \in s : y <= x
    BY <2>1, <2>2, Greatest
  <2>4. Cardinality(s \ {x}) = Cardinality(s) - 1
    BY <2>1, FS_RemoveElement
  <2>5. CASE k = 0
    <3>0. \A m \in s : m \in Int /\ ~ (m > x)
      BY <2>1, <2>3
    <3>1. {m \in s : m > x} = {}
      BY <3>0
    <3>2. Cardinality({m \in s : m > x}) = 0
      BY <3>1, FS_EmptySet
    <3> QED BY <2>5, <3>2
  <2>6. CASE k # 0
    <3>0. Cardinality(s) \in Nat
      BY <2>1, FS_CardinalityType
    <3>1. k - 1 \in Nat /\ k - 1 < Cardinality(s \ {x})
      BY <2>4, <2>6, <3>0
    <3>2. PICK n \in s \ {x} : Cardinality({m \in s \ {x} : m > n}) = k - 1
      <4>1. s \ {x} \in Q
        BY <1>1
      <4>2. \A i \in Nat : i < Cardinality(s \ {x}) =>
              \E n \in s \ {x} : Cardinality({m \in s \ {x} : m > n}) = i
        BY <4>1
      <4> HIDE DEF Q
      <4> QED BY <3>1, <4>2
    <3>3. PICK above : above = {m \in s \ {x} : m > n}
      OBVIOUS
    <3>4. {m \in s : m > n} = above \cup {x} /\ x \notin above
      BY <2>1, <2>3, <3>3
    <3>5. IsFiniteSet(above)
      BY <2>1, <3>3, FS_Subset
    <3>6. Cardinality(above) = k - 1
      BY <3>2, <3>3, Zenon
    <3>7. Cardinality(above \cup {x}) = Cardinality(above) + 1
      BY <3>4, <3>5, FS_AddElement
    <3>8. Cardinality(above \cup {x}) = k
      BY <3>6, <3>7
    <3>9. Cardinality({m \in s : m > n}) = k
      BY <3>4, <3>8, Zenon
    <3> QED BY <3>9
  <2> QED BY <2>5, <2>6
<1> HIDE DEF Q
<1>2. M \in Q
  BY <1>1, SetInduction
<1> QED BY <1>2 DEF Q

(* Whole pages.                                                            *)
LEMMA Divided ==
  ASSUME NEW p \in Nat \ {0}, NEW nth \in Nat, NEW c \in Nat, nth <= c \div p
  PROVE  /\ nth * p \in Nat /\ nth * p <= c /\ (nth * p) \div p = nth
<1>1. nth * p <= c
  OBVIOUS
<1>2. nth * p \in Nat
  OBVIOUS
<1>3. (nth * p) \div p = nth
  OBVIOUS
<1> QED BY <1>1, <1>2, <1>3

(* A page that is not beyond the last one has a notice.                    *)
LEMMA PageOf ==
  ASSUME NEW M, IsFiniteSet(M), M \subseteq Int, NEW nth \in Nat, OnPage(M, nth) = {}
  PROVE  Cardinality(M) = 0 \/ nth > LastPage(Cardinality(M))
<1> SUFFICES ASSUME Cardinality(M) # 0, ~ (nth > LastPage(Cardinality(M))) PROVE FALSE
  OBVIOUS
<1>1. PICK c \in Nat : c + 1 = Cardinality(M)
  BY FS_CardinalityType
<1>2. PerPage \in Nat \ {0}
  BY InboxAssumption
<1>3. LastPage(Cardinality(M)) = c \div PerPage /\ c \div PerPage \in Nat
  BY <1>1, <1>2 DEF LastPage
<1>4. nth <= c \div PerPage
  BY <1>3
<1>5. nth * PerPage \in Nat /\ nth * PerPage <= c /\ (nth * PerPage) \div PerPage = nth
  BY <1>2, <1>4, Divided
<1>6. PICK j \in Nat : j <= c /\ j \div PerPage = nth
  BY <1>5
<1>7. j < Cardinality(M)
  BY <1>1, <1>6
<1>8. PICK n \in M : Cardinality({m \in M : m > n}) = j
  BY <1>7, EachRank
<1> QED BY <1>6, <1>8 DEF OnPage

(* What the server answers for a query.                                    *)
LEMMA ListedIs ==
  ASSUME InboxFits, NEW q \in Wanted
  PROVE  /\ Listed(q) \in InboxRows /\ Listed(q).of = q /\ Listed(q).total \in 0..MaxNotes
         /\ PageHolds(Listed(q))
<1>1. q.status \in Flags /\ q.page \in Nat /\ MaxNotes \in Nat /\ Len(notes) \in Nat /\ Len(notes) <= MaxNotes
      /\ DOMAIN notes = 1..Len(notes)
  BY InboxAssumption DEF Wanted, InboxFits
<1>2. ASSUME NEW status
      PROVE  /\ Matching(status) \subseteq DOMAIN notes /\ IsFiniteSet(Matching(status))
             /\ Cardinality(Matching(status)) \in 0..MaxNotes
  <2>1. IsFiniteSet(1..Len(notes)) /\ Cardinality(1..Len(notes)) = Len(notes)
    <3> PICK k \in Nat : k = Len(notes)
      BY <1>1
    <3>1. \A a, b \in Int : IsFiniteSet(a..b) /\ Cardinality(a..b) = IF a > b THEN 0 ELSE b-a+1
      BY FS_Interval, Zenon
    <3>2. 1 \in Int /\ k \in Int
      OBVIOUS
    <3>3. IsFiniteSet(1..k) /\ Cardinality(1..k) = IF 1 > k THEN 0 ELSE k-1+1
      BY <3>1, <3>2, Zenon
    <3>4. Cardinality(1..k) = k
      BY <3>3
    <3> QED BY <3>3, <3>4
  <2>2. Matching(status) \subseteq 1..Len(notes)
    BY <1>1 DEF Matching
  <2>3. IsFiniteSet(Matching(status)) /\ Cardinality(Matching(status)) <= Len(notes)
    BY <2>1, <2>2, FS_Subset
  <2>4. Cardinality(Matching(status)) \in Nat
    BY <2>3, FS_CardinalityType
  <2> QED BY <1>1, <2>2, <2>3, <2>4
<1> PICK M, P : M = Matching(q.status) /\ P = OnPage(M, q.page)
  OBVIOUS
<1>3. P \subseteq DOMAIN notes /\ P \subseteq 1..MaxNotes
  BY <1>1, <1>2 DEF OnPage
<1>4. [n \in P |-> notes[n]] \in [P -> BOOLEAN]
  BY <1>3 DEF InboxFits
<1>5. Listed(q) = [of |-> q, read |-> [n \in P |-> notes[n]], total |-> Cardinality(M),
                   unread |-> Cardinality(Matching("unread"))]
  BY DEF Listed
<1>6. Listed(q) \in InboxRows
  <2>1. [n \in P |-> notes[n]] \in UNION {[s -> BOOLEAN] : s \in SUBSET (1..MaxNotes)}
    BY <1>3, <1>4
  <2>2. Cardinality(M) \in Int /\ Cardinality(Matching("unread")) \in Int
    BY <1>2
  <2> QED BY <1>3, <1>5, <2>1, <2>2 DEF InboxRows
<1>7. PageHolds(Listed(q))
  <2>1. IsFiniteSet(M)
    BY <1>2, Zenon
  <2>2. M \subseteq Int /\ q.page \in Nat
    BY <1>1, <1>2
  <2>3. OnPage(M, q.page) = {} => Cardinality(M) = 0 \/ q.page > LastPage(Cardinality(M))
    BY <2>1, <2>2, PageOf
  <2>4. P = {} => Cardinality(M) = 0 \/ q.page > LastPage(Cardinality(M))
    BY <2>3
  <2> QED BY <1>5, <2>4 DEF PageHolds
<1> QED BY <1>2, <1>5, <1>6, <1>7

(* The last page is one of those a list may be asked for.                  *)
LEMMA LastPageIs ==
  ASSUME NEW total \in 0..MaxNotes PROVE LastPage(total) \in 0..(MaxNotes - 1)
<1>1. MaxNotes \in Nat \ {0} /\ PerPage \in Nat \ {0}
  BY InboxAssumption
<1>2. CASE total = 0
  BY <1>1, <1>2 DEF LastPage
<1>3. CASE total # 0
  <2>1. total - 1 \in Nat /\ total - 1 <= MaxNotes - 1
    BY <1>1, <1>3
  <2>2. (total - 1) \div PerPage \in Nat /\ (total - 1) \div PerPage <= total - 1
    BY <1>1, <2>1
  <2> QED BY <1>1, <1>3, <2>1, <2>2 DEF LastPage
<1> QED BY <1>2, <1>3

LEMMA NoRowsFit == NoRows \in InboxRows /\ DOMAIN NoRows.read = {} /\ NoRows.of \in Wanted
<1>1. MaxNotes \in Nat \ {0}
  BY InboxAssumption
<1>2. NoRows.of = [status |-> "all", page |-> 0] /\ NoRows.read = <<>> /\ NoRows.total = -1 /\ NoRows.unread = 0
  BY DEF NoRows
<1>3. NoRows.of \in Wanted
  BY <1>1, <1>2 DEF Wanted, Flags
<1>4. <<>> \in [{} -> BOOLEAN] /\ DOMAIN <<>> = {}
  OBVIOUS
<1>5. <<>> \in UNION {[s -> BOOLEAN] : s \in SUBSET (1..MaxNotes)}
  BY <1>4
<1>6. NoRows \in InboxRows
  <2>1. NoRows \in [of: Wanted, read: UNION {[s -> BOOLEAN] : s \in SUBSET (1..MaxNotes)}, total: Int, unread: Int]
    <3>1. PICK tables : tables = UNION {[s -> BOOLEAN] : s \in SUBSET (1..MaxNotes)}
      OBVIOUS
    <3>2. NoRows.read \in tables
      BY <1>2, <1>5, <3>1
    <3>3. NoRows = [of |-> NoRows.of, read |-> NoRows.read, total |-> NoRows.total, unread |-> NoRows.unread]
      BY DEF NoRows
    <3>4. NoRows.total \in Int /\ NoRows.unread \in Int
      BY <1>2
    <3>5. NoRows \in [of: Wanted, read: tables, total: Int, unread: Int]
      BY <1>3, <3>2, <3>3, <3>4
    <3> QED BY <3>1, <3>5, Zenon
  <2> QED BY <1>2, <1>4, <2>1 DEF InboxRows
<1> QED BY <1>2, <1>3, <1>4, <1>6

LEMMA InboxStart == InboxInit => InboxFits
<1> SUFFICES ASSUME InboxInit PROVE InboxFits
  OBVIOUS
<1>1. /\ notes = <<FALSE>> /\ noteRevision = 0 /\ mine = [revision |-> 0, notes |-> <<FALSE>>]
      /\ onList = NoRows.of /\ rows = NoRows /\ listFailed = FALSE /\ ticked = {} /\ marking = NoMarking
      /\ listing = [Unlisted EXCEPT !.state = "asked"]
  BY DEF InboxInit, Present
<1>2. listing = [of |-> NoRows.of, state |-> "asked", answer |-> NoRows]
  BY <1>1 DEF Unlisted
<1>3. <<FALSE>> \in Seq(BOOLEAN) /\ Len(<<FALSE>>) = 1
  OBVIOUS
<1>4. MaxNotes \in Nat \ {0} /\ MaxNoteRevision \in Nat
  BY InboxAssumption
<1>5. marking = [ids |-> {}, read |-> FALSE, base |-> 0, known |-> 0, state |-> "none"]
  BY <1>1 DEF NoMarking
<1>6. marking \in [ids: SUBSET (1..MaxNotes), read: BOOLEAN, base: Nat, known: Nat,
                   state: {"none", "sent", "done", "refused"}]
  BY <1>5
<1>7. listing \in [of: Wanted, state: {"idle", "asked", "answered"}, answer: InboxRows]
      /\ listing.state = "asked" /\ listing.of = onList
  <2>1. listing.of \in Wanted /\ NoRows \in InboxRows
    BY <1>2, NoRowsFit
  <2>2. onList = NoRows.of
    BY <1>1
  <2> QED BY <1>2, <2>1, <2>2
<1>8. notes \in Seq(BOOLEAN) /\ Len(notes) = 1 /\ mine \in [revision: Nat, notes: Seq(BOOLEAN)]
      /\ mine.revision = 0 /\ Len(mine.notes) = 1 /\ noteRevision \in 0..MaxNoteRevision
  BY <1>1, <1>3, <1>4
<1>9. onList \in Wanted /\ rows \in InboxRows /\ listFailed \in BOOLEAN /\ ticked = {}
      /\ marking.ids = {} /\ marking.state = "none"
  <2>1. onList \in Wanted /\ rows \in InboxRows
    BY <1>1, NoRowsFit, Zenon
  <2>2. marking.ids = {} /\ marking.state = "none"
    BY <1>5
  <2> QED BY <1>1, <2>1, <2>2
<1> QED BY <1>1, <1>4, <1>6, <1>7, <1>8, <1>9 DEF InboxFits

(* The list is read again.                                                 *)
LEMMA AgainFits ==
  ASSUME InboxFits, NEW q \in Wanted, ListAgain(q), UNCHANGED <<notes, noteRevision>>,
         rows' \in InboxRows, mine' = mine \/ mine' = Present, marking' = marking \/ marking' = NoMarking
  PROVE  InboxFits'
<1>1. /\ onList' = q /\ listing' = [of |-> q, state |-> "asked", answer |-> NoRows]
      /\ ticked' = {} /\ listFailed' = FALSE
  BY DEF ListAgain
<1>2. InboxRows' = InboxRows
  BY DEF InboxRows
<1>3. /\ mine' \in [revision: Nat, notes: Seq(BOOLEAN)]
      /\ mine'.revision <= noteRevision /\ Len(mine'.notes) <= Len(notes)
      /\ mine'.revision = noteRevision => Len(mine'.notes) = Len(notes)
  <2>1. CASE mine' = mine
    BY <2>1 DEF InboxFits
  <2>2. CASE mine' = [revision |-> noteRevision, notes |-> notes]
    BY <2>2 DEF InboxFits
  <2> QED BY <2>1, <2>2 DEF Present
<1>4. NoMarking.state = "none" /\ NoMarking.ids = {} /\
      NoMarking \in [ids: SUBSET (1..MaxNotes), read: BOOLEAN, base: Nat, known: Nat,
                     state: {"none", "sent", "done", "refused"}]
  BY DEF NoMarking
<1>5. listing' \in [of: Wanted, state: {"idle", "asked", "answered"}, answer: InboxRows]
  BY <1>1, NoRowsFit
<1>6. /\ marking'.ids \subseteq DOMAIN notes
      /\ marking' \in [ids: SUBSET (1..MaxNotes), read: BOOLEAN, base: Nat, known: Nat,
                       state: {"none", "sent", "done", "refused"}]
      /\ marking'.state = "sent" =>
           marking'.base <= noteRevision /\ (marking'.base = noteRevision => marking'.known = Len(notes))
  BY <1>4 DEF InboxFits
<1> QED BY <1>1, <1>2, <1>3, <1>5, <1>6 DEF InboxFits

(* A new revision of the state: no notice goes, and the page hears nothing *)
(* of it.                                                                  *)
LEMMA ServerMoves ==
  ASSUME InboxFits, notes' \in Seq(BOOLEAN), Len(notes') <= MaxNotes, Len(notes') >= Len(notes),
         noteRevision' = noteRevision + 1, noteRevision < MaxNoteRevision,
         UNCHANGED <<mine, onList, listing, rows, listFailed, ticked>>,
         marking' = marking \/ (marking.state = "sent" /\ marking' = [marking EXCEPT !.state = "done"])
  PROVE  InboxFits'
<1>1. /\ Len(notes) \in Nat /\ Len(notes') \in Nat /\ noteRevision \in Nat /\ MaxNoteRevision \in Nat
      /\ noteRevision' \in 0..MaxNoteRevision /\ noteRevision' > noteRevision
      /\ DOMAIN notes = 1..Len(notes) /\ DOMAIN notes' = 1..Len(notes')
  BY InboxAssumption DEF InboxFits
<1>2. DOMAIN notes \subseteq DOMAIN notes'
  BY <1>1
<1>3. \A r \in InboxRows : r \in InboxRows'
  BY <1>2 DEF InboxRows
<1>4. /\ mine'.revision <= noteRevision' /\ Len(mine'.notes) <= Len(notes') /\ mine'.revision # noteRevision'
  BY <1>1 DEF InboxFits
<1>5. /\ marking' \in [ids: SUBSET (1..MaxNotes), read: BOOLEAN, base: Nat, known: Nat,
                       state: {"none", "sent", "done", "refused"}]
      /\ marking'.ids = marking.ids /\ marking'.base = marking.base
      /\ marking'.state = "sent" => marking.state = "sent"
  BY DEF InboxFits
<1>6. marking'.ids \subseteq DOMAIN notes' /\ (marking'.state = "sent" => marking'.base < noteRevision')
  BY <1>1, <1>2, <1>5 DEF InboxFits
<1>7. listing' \in [of: Wanted, state: {"idle", "asked", "answered"}, answer: InboxRows'] /\ rows' \in InboxRows'
  BY <1>3 DEF InboxFits
<1>8. /\ onList' \in Wanted /\ listFailed' \in BOOLEAN /\ ticked' \subseteq DOMAIN rows'.read
      /\ mine' \in [revision: Nat, notes: Seq(BOOLEAN)]
      /\ listing'.state # "idle" => ticked' = {} /\ listing'.of = onList'
      /\ listing'.state = "answered" =>
           /\ listing'.answer.of = onList' /\ listing'.answer.total \in 0..MaxNotes /\ PageHolds(listing'.answer)
      /\ listing'.state = "idle" /\ ~listFailed' => rows'.of = onList' /\ (DOMAIN rows'.read = {} => rows'.total = 0)
  BY DEF InboxFits
<1>9. marking'.state = "sent" =>
        marking'.base <= noteRevision' /\ (marking'.base = noteRevision' => marking'.known = Len(notes'))
  BY <1>1, <1>5, <1>6
<1> QED BY <1>1, <1>4, <1>5, <1>6, <1>7, <1>8, <1>9 DEF InboxFits, PageHolds

(* The page alone, and what it has sent.                                   *)
LEMMA PageStays ==
  ASSUME InboxFits, UNCHANGED <<notes, noteRevision, mine, onList>>,
         rows' \in InboxRows, listFailed' \in BOOLEAN, ticked' \subseteq DOMAIN rows'.read,
         listing' \in [of: Wanted, state: {"idle", "asked", "answered"}, answer: InboxRows],
         listing'.state # "idle" => ticked' = {} /\ listing'.of = onList,
         listing'.state = "answered" =>
           listing'.answer.of = onList /\ listing'.answer.total \in 0..MaxNotes /\ PageHolds(listing'.answer),
         listing'.state = "idle" /\ ~listFailed' => rows'.of = onList /\ (DOMAIN rows'.read = {} => rows'.total = 0),
         marking' = marking \/ /\ marking' \in [ids: SUBSET (1..MaxNotes), read: BOOLEAN, base: Nat, known: Nat,
                                                state: {"none", "sent", "done", "refused"}]
                               /\ marking'.ids \subseteq DOMAIN notes
                               /\ marking'.state = "sent" => /\ marking'.base <= noteRevision
                                                             /\ marking'.base = noteRevision => marking'.known = Len(notes)
  PROVE  InboxFits'
<1>1. InboxRows' = InboxRows
  BY DEF InboxRows
<1>2. /\ marking' \in [ids: SUBSET (1..MaxNotes), read: BOOLEAN, base: Nat, known: Nat,
                       state: {"none", "sent", "done", "refused"}]
      /\ marking'.ids \subseteq DOMAIN notes
      /\ marking'.state = "sent" => /\ marking'.base <= noteRevision
                                    /\ marking'.base = noteRevision => marking'.known = Len(notes)
  BY DEF InboxFits
<1>3. /\ mine' \in [revision: Nat, notes: Seq(BOOLEAN)] /\ mine' = mine
      /\ mine.revision <= noteRevision /\ Len(mine.notes) <= Len(notes)
      /\ mine.revision = noteRevision => Len(mine.notes) = Len(notes)
      /\ notes \in Seq(BOOLEAN) /\ Len(notes) <= MaxNotes /\ noteRevision \in 0..MaxNoteRevision
      /\ onList \in Wanted
  BY DEF InboxFits
<1> QED BY <1>1, <1>2, <1>3 DEF InboxFits, PageHolds

(* What is known of the page, a conjunct at a time.                        *)
LEMMA PageIs ==
  ASSUME InboxFits
  PROVE  /\ onList \in Wanted /\ onList.page \in Nat /\ rows \in InboxRows /\ listFailed \in BOOLEAN
         /\ listing \in [of: Wanted, state: {"idle", "asked", "answered"}, answer: InboxRows]
         /\ ticked \subseteq DOMAIN rows.read
         /\ listing.state # "idle" => ticked = {} /\ listing.of = onList
         /\ listing.state = "answered" =>
              listing.answer.of = onList /\ listing.answer.total \in 0..MaxNotes /\ PageHolds(listing.answer)
         /\ listing.state = "idle" /\ ~listFailed => rows.of = onList /\ (DOMAIN rows.read = {} => rows.total = 0)
         /\ DOMAIN rows.read \subseteq DOMAIN notes
         /\ DOMAIN notes \subseteq 1..MaxNotes
<1>1. DOMAIN rows.read \subseteq DOMAIN notes
  BY DEF InboxFits, InboxRows
<1>2. DOMAIN notes \subseteq 1..MaxNotes
  BY InboxAssumption DEF InboxFits
<1>3. onList \in Wanted /\ onList.page \in Nat
  BY InboxAssumption DEF InboxFits, Wanted
<1> QED BY <1>1, <1>2, <1>3 DEF InboxFits

LEMMA MarkFits ==
  ASSUME InboxFits, NEW ids \in SUBSET DOMAIN notes, NEW read \in BOOLEAN, Mark(ids, read) PROVE InboxFits'
<1>1. /\ marking' = [ids |-> ids, read |-> read, base |-> mine.revision, known |-> Len(mine.notes), state |-> "sent"]
      /\ UNCHANGED <<notes, noteRevision, mine, onList, listing, rows, listFailed, ticked>>
  BY DEF Mark, InboxServerUnchanged
<1>2. /\ mine.revision \in Nat /\ Len(mine.notes) \in Nat
      /\ mine.revision <= noteRevision /\ (mine.revision = noteRevision => Len(mine.notes) = Len(notes))
      /\ ids \subseteq 1..MaxNotes
  BY PageIs DEF InboxFits
<1>3. /\ marking' \in [ids: SUBSET (1..MaxNotes), read: BOOLEAN, base: Nat, known: Nat,
                       state: {"none", "sent", "done", "refused"}]
      /\ marking'.ids \subseteq DOMAIN notes
      /\ marking'.base <= noteRevision /\ (marking'.base = noteRevision => marking'.known = Len(notes))
  BY <1>1, <1>2
<1> QED BY <1>1, <1>3, PageIs, PageStays

LEMMA ListArrivesFits == ASSUME InboxFits, ListArrives PROVE InboxFits'
<1> PICK last : last = LastPage(listing.answer.total)
  OBVIOUS
<1>1. /\ listing.state = "answered" /\ rows' = listing.answer
      /\ UNCHANGED <<notes, noteRevision, mine, marking>>
  BY DEF ListArrives, InboxServerUnchanged
<1>2. /\ listing.answer \in InboxRows /\ listing.answer.of = onList /\ PageHolds(listing.answer)
      /\ last \in 0..(MaxNotes - 1) /\ ticked = {} /\ onList \in Wanted /\ onList.page \in Nat
  BY <1>1, PageIs, LastPageIs
<1>3. CASE onList.page > last
  <2> PICK q : q = [onList EXCEPT !.page = last]
    OBVIOUS
  <2>1. ListAgain(q)
    BY <1>3 DEF ListArrives
  <2>2. q \in Wanted
    BY <1>2 DEF Wanted
  <2>3. rows' \in InboxRows
    BY <1>1, <1>2
  <2> QED BY <1>1, <2>1, <2>2, <2>3, AgainFits
<1>4. CASE ~ (onList.page > last)
  <2>1. listing' = Unlisted /\ UNCHANGED <<onList, ticked, listFailed>>
    BY <1>4 DEF ListArrives
  <2>2. listing' \in [of: Wanted, state: {"idle", "asked", "answered"}, answer: InboxRows] /\ listing'.state = "idle"
    BY <2>1, NoRowsFit DEF Unlisted
  <2>3. rows'.of = onList /\ (DOMAIN rows'.read = {} => rows'.total = 0) /\ rows' \in InboxRows
    BY <1>1, <1>2, <1>4 DEF PageHolds
  <2>4. listFailed' \in BOOLEAN /\ ticked' = {}
    BY <1>2, <2>1, PageIs
  <2> QED BY <1>1, <2>1, <2>2, <2>3, <2>4, PageStays
<1> QED BY <1>3, <1>4

LEMMA InboxStays == ASSUME InboxFits, [InboxNext]_inboxVars PROVE InboxFits'
<1>1. CASE UNCHANGED inboxVars
  BY <1>1, PageIs, PageStays DEF inboxVars
<1>2. ASSUME NEW q \in Wanted, WantList(q) PROVE InboxFits'
  BY <1>2, PageIs, AgainFits DEF WantList, InboxServerUnchanged
<1>3. CASE RetryList
  BY <1>3, PageIs, AgainFits DEF RetryList, InboxServerUnchanged
<1>4. CASE ServeList
  <2>1. /\ listing.state = "asked" /\ listing' = [listing EXCEPT !.state = "answered", !.answer = Listed(listing.of)]
        /\ UNCHANGED <<notes, noteRevision, mine, onList, rows, listFailed, ticked, marking>>
    BY <1>4 DEF ServeList, InboxServerUnchanged
  <2>2. listing.of \in Wanted /\ listing.of = onList /\ ticked = {}
    BY <2>1, PageIs
  <2>3. listing'.of = onList /\ listing'.state = "answered" /\ listing'.answer = Listed(onList)
    BY <2>1, <2>2, PageIs
  <2>4. /\ listing'.answer \in InboxRows /\ listing'.answer.of = onList
        /\ listing'.answer.total \in 0..MaxNotes /\ PageHolds(listing'.answer)
    BY <2>2, <2>3, ListedIs
  <2>5. listing' \in [of: Wanted, state: {"idle", "asked", "answered"}, answer: InboxRows]
    BY <2>1, <2>3, <2>4, PageIs
  <2> QED BY <2>1, <2>2, <2>3, <2>4, <2>5, PageIs, PageStays
<1>5. CASE ListArrives
  BY <1>5, ListArrivesFits
<1>6. CASE ListFails
  <2>1. /\ listing' = Unlisted /\ rows' = NoRows /\ listFailed' = TRUE /\ ticked' = ticked /\ ticked = {}
        /\ UNCHANGED <<notes, noteRevision, mine, onList, marking>>
    BY <1>6, PageIs DEF ListFails, InboxServerUnchanged
  <2>2. listing' \in [of: Wanted, state: {"idle", "asked", "answered"}, answer: InboxRows] /\ listing'.state = "idle"
    BY <2>1, NoRowsFit DEF Unlisted
  <2>3. rows' \in InboxRows /\ ticked' \subseteq DOMAIN rows'.read
    BY <2>1, NoRowsFit
  <2> QED BY <2>1, <2>2, <2>3, PageStays
<1>7. ASSUME NEW ns \in SUBSET DOMAIN rows.read, Tick(ns) PROVE InboxFits'
  BY <1>7, PageIs, PageStays DEF Tick, InboxServerUnchanged
<1>8. ASSUME NEW n \in DOMAIN rows.read, MarkRow(n) \/ OpenNotice(n) PROVE InboxFits'
  <2>1. PICK read : read = ~rows.read[n]
    OBVIOUS
  <2>2. {n} \in SUBSET DOMAIN notes
    BY PageIs
  <2>3. Mark({n}, read) \/ Mark({n}, TRUE)
    BY <1>8, <2>1 DEF MarkRow, OpenNotice
  <2>4. read \in BOOLEAN
    BY <2>1
  <2> QED BY <2>2, <2>3, <2>4, MarkFits
<1>9. ASSUME NEW read \in BOOLEAN, MarkTicked(read) PROVE InboxFits'
  <2>1. Mark(ticked, read) /\ ticked \in SUBSET DOMAIN notes
    BY <1>9, PageIs DEF MarkTicked
  <2> QED BY <2>1, MarkFits
<1>10. CASE MarkAll
  <2>1. Mark({}, TRUE) /\ {} \in SUBSET DOMAIN notes
    BY <1>10 DEF MarkAll
  <2> QED BY <2>1, MarkFits
<1>11. CASE ServeMark
  <2>1. marking.state = "sent" /\ UNCHANGED <<mine, onList, listing, rows, listFailed, ticked>>
        /\ marking \in [ids: SUBSET (1..MaxNotes), read: BOOLEAN, base: Nat, known: Nat,
                        state: {"none", "sent", "done", "refused"}]
        /\ notes \in Seq(BOOLEAN) /\ Len(notes) \in Nat /\ Len(notes) <= MaxNotes
        /\ marking.ids \subseteq DOMAIN notes
    BY <1>11 DEF ServeMark, InboxFits
  <2>2. CASE marking.base = noteRevision
    <3>1. /\ noteRevision < MaxNoteRevision /\ notes' = Marked(marking) /\ noteRevision' = noteRevision + 1
          /\ marking' = [marking EXCEPT !.state = "done"]
      BY <1>11, <2>2 DEF ServeMark
    <3>2. Marked(marking) \in Seq(BOOLEAN) /\ Len(Marked(marking)) = Len(notes)
      BY <2>1 DEF Marked
    <3> QED BY <2>1, <3>1, <3>2, ServerMoves
  <2>3. CASE marking.base # noteRevision
    <3>1. marking' = [marking EXCEPT !.state = "refused"] /\ UNCHANGED <<notes, noteRevision>>
      BY <1>11, <2>3 DEF ServeMark, InboxServerUnchanged
    <3>2. /\ marking' \in [ids: SUBSET (1..MaxNotes), read: BOOLEAN, base: Nat, known: Nat,
                           state: {"none", "sent", "done", "refused"}]
          /\ marking'.ids \subseteq DOMAIN notes /\ marking'.state = "refused"
      BY <2>1, <3>1
    <3> QED BY <2>1, <3>1, <3>2, PageIs, PageStays
  <2> QED BY <2>2, <2>3
<1>12. CASE MarkOver
  <2>1. marking' = NoMarking /\ rows' = rows /\ UNCHANGED <<notes, noteRevision>>
    BY <1>12 DEF MarkOver, InboxServerUnchanged
  <2>2. CASE mine' = Present /\ ListAgain(onList)
    BY <2>1, <2>2, PageIs, AgainFits
  <2>3. CASE UNCHANGED <<mine, onList, listing, listFailed, ticked>>
    <3>1. /\ NoMarking \in [ids: SUBSET (1..MaxNotes), read: BOOLEAN, base: Nat, known: Nat,
                            state: {"none", "sent", "done", "refused"}]
          /\ NoMarking.ids \subseteq DOMAIN notes /\ NoMarking.state = "none"
      BY DEF NoMarking
    <3> QED BY <2>1, <2>3, <3>1, PageIs, PageStays
  <2> QED BY <1>12, <2>2, <2>3 DEF MarkOver
<1>13. CASE PollState
  BY <1>13, PageIs, AgainFits DEF PollState, InboxServerUnchanged
<1>14. CASE NoticeArrives
  <2>1. /\ notes' = Append(notes, FALSE) /\ noteRevision' = noteRevision + 1 /\ noteRevision < MaxNoteRevision
        /\ Len(notes) < MaxNotes /\ UNCHANGED <<mine, onList, listing, rows, listFailed, ticked, marking>>
    BY <1>14 DEF NoticeArrives
  <2>2. notes \in Seq(BOOLEAN) /\ MaxNotes \in Nat
    BY InboxAssumption DEF InboxFits
  <2>3. Append(notes, FALSE) \in Seq(BOOLEAN) /\ Len(Append(notes, FALSE)) = Len(notes) + 1 /\ Len(notes) \in Nat
    BY <2>2
  <2>4. Len(notes') <= MaxNotes /\ Len(notes') >= Len(notes) /\ notes' \in Seq(BOOLEAN)
    BY <2>1, <2>2, <2>3
  <2> QED BY <2>1, <2>4, ServerMoves
<1>15. ASSUME NEW n \in DOMAIN notes, MarkedElsewhere(n) PROVE InboxFits'
  <2>1. /\ notes' = [notes EXCEPT ![n] = ~notes[n]] /\ noteRevision' = noteRevision + 1 /\ noteRevision < MaxNoteRevision
        /\ UNCHANGED <<mine, onList, listing, rows, listFailed, ticked, marking>>
    BY <1>15 DEF MarkedElsewhere
  <2>2. notes \in Seq(BOOLEAN) /\ Len(notes) <= MaxNotes /\ Len(notes) \in Nat
    BY DEF InboxFits
  <2>3. notes' \in Seq(BOOLEAN) /\ Len(notes') = Len(notes)
    BY <2>1, <2>2
  <2> QED BY <2>1, <2>2, <2>3, ServerMoves
<1> QED BY <1>1, <1>2, <1>3, <1>4, <1>5, <1>6, <1>7, <1>8, <1>9, <1>10, <1>11, <1>12, <1>13, <1>14, <1>15
        DEF InboxNext

LEMMA AlwaysInboxFits == InboxInit /\ [][InboxNext]_inboxVars => []InboxFits
BY InboxStart, InboxStays, PTL

(* A mark that is carried out names the revision the notices have, and the *)
(* page knew them all.                                                     *)
LEMMA MarkedWhileKnown ==
  ASSUME InboxFits, [InboxNext]_inboxVars, marking.state = "sent", marking'.state = "done",
         NEW n \in DOMAIN notes
  PROVE  n <= marking.known
<1>1. marking' # marking /\ marking' # NoMarking /\ ~Unmarking
  BY DEF NoMarking, Unmarking
<1>2. ServeMark
  <2>1. \A ids, read : ~Mark(ids, read)
    BY <1>1 DEF Mark
  <2>2. \/ ServeMark
        \/ UNCHANGED marking
        \/ MarkOver
        \/ PollState
    BY <2>1 DEF InboxNext, inboxVars, WantList, RetryList, ServeList, ListArrives, ListFails, Tick, MarkRow, OpenNotice,
                MarkTicked, MarkAll, NoticeArrives, MarkedElsewhere
  <2> QED BY <1>1, <2>2 DEF MarkOver, PollState
<1>3. marking.base = noteRevision
  BY <1>2 DEF ServeMark, InboxFits
<1>4. marking.known = Len(notes) /\ notes \in Seq(BOOLEAN)
  BY <1>3 DEF InboxFits
<1> QED BY <1>4

(* What is selected is on the page that is shown, a list at rest shows the *)
(* page that is asked for, and a mark of all notices changes none that     *)
(* came after the state the page had (MessageCenter.tsx).                  *)
THEOREM AlwaysMarksWhatWasThere == InboxInit /\ [][InboxNext]_inboxVars => MarksWhatWasThere
<1>1. InboxFits => /\ ticked \subseteq DOMAIN rows.read
                   /\ listing.state = "idle" /\ ~listFailed => rows.of = onList /\ (DOMAIN rows.read = {} => rows.total = 0)
  BY DEF InboxFits
<1>2. InboxFits /\ [InboxNext]_inboxVars =>
        [\A n \in DOMAIN notes:
           marking.state = "sent" /\ marking'.state = "done" /\ notes'[n] # notes[n] => n <= marking.known]_inboxVars
  BY MarkedWhileKnown
<1> QED BY <1>1, <1>2, AlwaysInboxFits, PTL DEF MarksWhatWasThere

(* The type invariant of the message center.                               *)
THEOREM InboxTyped == InboxInit /\ [][InboxNext]_inboxVars => []InboxTypes
<1>1. InboxFits => InboxTypes
  BY PageIs DEF InboxFits, InboxTypes, InboxRows
<1> QED BY <1>1, AlwaysInboxFits, PTL
=============================================================================
