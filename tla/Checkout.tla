------------------------------ MODULE Checkout ------------------------------
(***************************************************************************)
(* The form that opens a card (Checkout in CardIssuing.tsx): a product and *)
(* an amount are chosen, a quote is asked for 400 ms later, the terms are  *)
(* accepted, and the order is sent under a key that is kept until its      *)
(* outcome is known (pending.ts).  Each mount of the form has a state of   *)
(* its own; requests survive it, and so does the session storage.          *)
(***************************************************************************)
EXTENDS Integers, FiniteSets

CONSTANTS
  ShopProducts, \* products of the list
  Fundings,     \* initial balances that may be entered
  Minimum,      \* the balance a loaded product proposes
  MaxTerms,     \* bound of the versions of the terms
  MaxKeys,      \* bound of the orders sent
  MaxMounts,    \* bound of the mounts of the form
  MaxQuotes     \* bound of the quote requests under way

ASSUME CheckoutAssumption ==
  /\ Minimum \in Fundings
  /\ MaxTerms \in Nat \ {0} /\ MaxKeys \in Nat /\ MaxMounts \in Nat \ {0} /\ MaxQuotes \in Nat

VARIABLES
  mount,     \* number of the form on the page
  form,      \* what it shows: product, amount, version of the terms
  offer,     \* the quote it shows, or Unpriced
  agreed,    \* both boxes are ticked
  loading,   \* product requests under way
  asking,    \* quote requests under way
  published, \* version of the terms at the server
  reading,   \* the terms are being read again
  busy,      \* an order request of this mount is under way
  pending,   \* key of the request that has no outcome, or NoKey
  stored,    \* the same in the session storage
  posted,    \* order requests under way
  asked,     \* history: the keys and the mounts that made them
  settled    \* history: keys whose outcome the page has seen

checkoutVars == <<mount, form, offer, agreed, loading, asking, published, reading, busy,
                  pending, stored, posted, asked, settled>>

Unpriced == [product |-> "none"]
NoKey == 0
NoChoice == "none"
Empty == [selected |-> NoChoice, product |-> NoChoice, funding |-> Minimum, version |-> 0]

CheckoutInit ==
  /\ mount = 1 /\ form = Empty /\ offer = Unpriced /\ agreed = FALSE
  /\ loading = {} /\ asking = {} /\ published = 1 /\ reading = TRUE
  /\ busy = FALSE /\ pending = NoKey /\ stored = NoKey /\ posted = {}
  /\ asked = {} /\ settled = {}

Orders == <<busy, pending, stored, posted, asked, settled>>

(* The end of an effect takes the right to answer from its request. *)
Silenced(requests) == {[r EXCEPT !.active = FALSE]: r \in requests}

(* The quote's effect, run whenever what it depends on has changed: quote  *)
(* and consent are gone, and a complete form asks again.                   *)
Requoted(f, key) ==
  /\ offer' = Unpriced /\ agreed' = FALSE
  /\ \/ /\ f.product # NoChoice /\ f.product = f.selected /\ key = NoKey
        /\ Cardinality(asking) < MaxQuotes
        /\ asking' = Silenced(asking) \cup
             {[product |-> f.product, funding |-> f.funding, since |-> published, active |-> TRUE]}
     \/ /\ f.product = NoChoice \/ f.product # f.selected \/ key # NoKey
        /\ asking' = Silenced(asking)

Select(p) ==
  /\ ~busy /\ pending = NoKey /\ p # form.selected
  /\ form' = [form EXCEPT !.selected = p, !.product = NoChoice]
  /\ loading' = Silenced(loading) \cup {[product |-> p, active |-> TRUE]}
  /\ Requoted(form', pending)
  /\ UNCHANGED <<mount, published, reading, Orders>>

ProductLoads(r) ==
  /\ r \in loading /\ loading' = loading \ {r}
  /\ IF r.active
     THEN /\ form' = [form EXCEPT !.product = r.product, !.funding = Minimum]
          /\ Requoted(form', pending)
     ELSE UNCHANGED <<form, offer, agreed, asking>>
  /\ UNCHANGED <<mount, published, reading, Orders>>

Fund(n) ==
  /\ form.product # NoChoice /\ n # form.funding
  /\ form' = [form EXCEPT !.funding = n] /\ Requoted(form', pending)
  /\ UNCHANGED <<mount, loading, published, reading, Orders>>

(* Mistake: any answer to a quote request is shown. *)
QuoteArrivesLate(r) ==
  /\ r \in asking /\ asking' = asking \ {r} /\ reading' = TRUE
  /\ \E v \in r.since..published:
       offer' = [product |-> r.product, funding |-> r.funding, version |-> v, fresh |-> TRUE]
  /\ UNCHANGED <<mount, form, agreed, loading, published, Orders>>

(* The timer is cleared or the answer ignored where the effect has ended. *)
QuoteArrives(r) ==
  /\ r \in asking /\ asking' = asking \ {r}
  /\ \/ /\ r.active /\ reading' = TRUE
        /\ \E v \in r.since..published:
             offer' = [product |-> r.product, funding |-> r.funding, version |-> v, fresh |-> TRUE]
     \/ UNCHANGED <<offer, reading>>
  /\ UNCHANGED <<mount, form, agreed, loading, published, Orders>>

OfferExpires ==
  /\ offer # Unpriced /\ offer.fresh /\ offer' = [offer EXCEPT !.fresh = FALSE]
  /\ UNCHANGED <<mount, form, agreed, loading, asking, published, reading, Orders>>

(* The button that prices again. *)
Reprice ==
  /\ offer # Unpriced /\ ~offer.fresh /\ Requoted(form, pending)
  /\ UNCHANGED <<mount, form, loading, published, reading, Orders>>

PublishTerms ==
  /\ published < MaxTerms /\ published' = published + 1
  /\ UNCHANGED <<mount, form, offer, agreed, loading, asking, reading, Orders>>

TermsArrive ==
  /\ reading /\ reading' = FALSE
  /\ \E v \in {v \in 1..published: v >= form.version}:
       /\ form' = [form EXCEPT !.version = v]
       /\ IF v # form.version THEN Requoted(form', pending) ELSE UNCHANGED <<offer, agreed, asking>>
  /\ UNCHANGED <<mount, loading, published, Orders>>

Agree ==
  /\ offer # Unpriced /\ ~agreed /\ agreed' = TRUE
  /\ UNCHANGED <<mount, form, offer, loading, asking, published, reading, Orders>>

Post(key) == posted' = posted \cup {[mount |-> mount, key |-> key]} /\ busy' = TRUE

Submit ==
  /\ ~busy /\ pending = NoKey /\ Cardinality(asked) < MaxKeys
  /\ offer # Unpriced /\ offer.fresh /\ agreed /\ offer.version = form.version
  /\ pending' = Cardinality(asked) + 1 /\ stored' = pending' /\ Post(pending')
  /\ asked' = asked \cup {[key |-> pending', mount |-> mount]}
  /\ Requoted(form, pending')
  /\ UNCHANGED <<mount, form, loading, published, reading, settled>>

(* The warning's button sends the kept request again. *)
Resubmit ==
  /\ ~busy /\ pending # NoKey /\ stored' = pending /\ Post(pending)
  /\ UNCHANGED <<mount, form, offer, agreed, loading, asking, published, reading, pending, asked, settled>>

(* Another mount of the form begins, with what the storage holds. *)
NewForm(key) ==
  /\ mount < MaxMounts /\ mount' = mount + 1
  /\ form' = Empty /\ offer' = Unpriced /\ agreed' = FALSE
  /\ loading' = Silenced(loading) /\ asking' = Silenced(asking)
  /\ reading' = TRUE /\ busy' = FALSE /\ pending' = key

Known(r) ==
  /\ r \in posted /\ posted' = posted \ {r} /\ stored' = NoKey /\ settled' = settled \cup {r.key}
  /\ UNCHANGED <<published, asked>>

(* The order exists: the page shows it and the form is left.  The storage  *)
(* is emptied whatever it holds by now.                                    *)
OrderOpens(r) ==
  /\ Known(r)
  /\ \/ r.mount = mount /\ NewForm(NoKey)
     \/ /\ r.mount # mount
        /\ UNCHANGED <<mount, form, offer, agreed, loading, asking, reading, busy, pending>>

(* 400 or 409: the request is forgotten and the terms are read again. *)
OrderRefused(r) ==
  /\ Known(r)
  /\ \/ /\ r.mount = mount /\ pending' = NoKey /\ busy' = FALSE /\ reading' = TRUE
        /\ Requoted(form, NoKey)
     \/ r.mount # mount /\ UNCHANGED <<offer, agreed, asking, reading, busy, pending>>
  /\ UNCHANGED <<mount, form, loading>>

(* Mistake: every error ends the request. *)
OrderUnknownForgotten(r) ==
  /\ r \in posted /\ posted' = posted \ {r} /\ stored' = NoKey
  /\ r.mount = mount /\ pending' = NoKey /\ busy' = FALSE /\ Requoted(form, NoKey)
  /\ UNCHANGED <<mount, form, loading, published, reading, asked, settled>>

OrderUnknown(r) ==
  /\ r \in posted /\ posted' = posted \ {r}
  /\ busy' = IF r.mount = mount THEN FALSE ELSE busy
  /\ UNCHANGED <<mount, form, offer, agreed, loading, asking, published, reading, pending, stored, asked, settled>>

(* The page is left and comes back. *)
Remount == NewForm(stored) /\ UNCHANGED <<published, stored, posted, asked, settled>>

CheckoutNext ==
  \/ \E p \in ShopProducts: Select(p)
  \/ \E n \in Fundings: Fund(n)
  \/ \E r \in loading: ProductLoads(r)
  \/ \E r \in asking: QuoteArrives(r)
  \/ OfferExpires \/ Reprice \/ PublishTerms \/ TermsArrive \/ Agree
  \/ Submit \/ Resubmit \/ Remount
  \/ \E r \in posted: OrderOpens(r) \/ OrderRefused(r) \/ OrderUnknown(r)

CheckoutSpec == CheckoutInit /\ [][CheckoutNext]_checkoutVars

CheckoutTypes ==
  LET Kinds == ShopProducts \cup {NoChoice}
      Form == [selected: Kinds, product: Kinds, funding: Fundings, version: 0..MaxTerms]
      Quotes == [product: ShopProducts, funding: Fundings, version: 1..MaxTerms, fresh: BOOLEAN]
  IN /\ mount \in 1..MaxMounts /\ form \in Form /\ offer \in Quotes \cup {Unpriced}
     /\ {agreed, reading, busy} \subseteq BOOLEAN /\ published \in 1..MaxTerms
     /\ loading \subseteq [product: ShopProducts, active: BOOLEAN]
     /\ asking \subseteq [product: ShopProducts, funding: Fundings, since: 1..MaxTerms, active: BOOLEAN]
     /\ {pending, stored} \cup settled \subseteq 0..MaxKeys
     /\ posted \subseteq [mount: 1..MaxMounts, key: 1..MaxKeys]
     /\ asked \subseteq [key: 1..MaxKeys, mount: 1..MaxMounts]

-----------------------------------------------------------------------------
(* An order is sent for the quote of the product, the amount and the terms *)
(* the form shows when it is sent: no answer that comes late, and no       *)
(* version of the terms that came in between, changes what was agreed to   *)
(* (the quote's effect and submit).                                        *)
OrderedAsShown ==
  [][asked' # asked => /\ offer.product = form.selected /\ offer.product = form.product
                      /\ offer.funding = form.funding /\ offer.version = form.version]_checkoutVars

(* One mount of the form never sends a second order while the outcome of   *)
(* its first is unknown: the kept request is sent again under its key      *)
(* (pending and the catch of submit).                                      *)
OneOrderUnknown == \A a, b \in asked:
  a.mount = b.mount /\ {a.key, b.key} \cap settled = {} => a.key = b.key
=============================================================================
