------------------------------ MODULE CardDesk ------------------------------
(***************************************************************************)
(* The card center of the customer's workspace (CardCenter.tsx): the cards *)
(* that match a query, those the reader has picked of them, and the dialog *)
(* that freezes a card or unfreezes it.  The action sent is a toggle: what *)
(* it does is decided at the server.                                       *)
(***************************************************************************)
EXTENDS Integers, FiniteSets

CONSTANTS
  DeskCards,       \* cards of the customer
  Adopted,         \* those the card administration takes over
  DeskQueries,     \* status, product and path of the queries
  MaxDeskRevision, \* bound of the revisions of the portal's state
  MaxHeldRevision  \* bound of the revisions of a card of the card administration

NoCard == "none"
Statuses == {"all", "active", "frozen", "risk"}

ASSUME CardDeskAssumption ==
  /\ Adopted \subseteq DeskCards /\ MaxDeskRevision \in Nat /\ MaxHeldRevision \in Nat
  /\ NoCard \notin DeskCards
  /\ DeskQueries \subseteq
       [status: Statuses, product: DeskCards \cup {NoCard}, path: DeskCards \cup {NoCard}]

VARIABLES
  owned,         \* the server's cards
  deskRevision, \* revision of the portal's state
  desk,         \* the state the page has: its revision and its cards
  sought,       \* status and product of the query, and the card of the path
  picked,       \* cards the reader has selected
  confirmed,    \* card of the dialog, or NoCard
  toggle        \* the action under way

deskVars == <<owned, deskRevision, desk, sought, picked, confirmed, toggle>>

AllCards == [status |-> "all", product |-> NoCard, path |-> NoCard]
NoToggle == [id |-> NoCard, says |-> FALSE, base |-> 0, card |-> 0, state |-> "none"]

(* managed: the card administration has a row for the card; job: the       *)
(* change of self it is carrying out.                                      *)
NewCard == [self |-> FALSE, risk |-> FALSE, managed |-> FALSE, job |-> "none", revision |-> 0]

(* cardStatus: what is shown of a card (view, overlayCardAdmin). *)
Frozen(k) == k.self \/ k.risk
StatusOf(k) == IF k.risk THEN "risk" ELSE IF k.self THEN "frozen" ELSE "active"

(* filterCards.  Each card is of a product of its own. *)
Found(cards, q) ==
  {c \in DeskCards: q.status \in {"all", StatusOf(cards[c])} /\ q.product \in {NoCard, c}}

(* exportCards: the picked ones of those that match, or all of these. *)
Exported == IF picked = {} THEN Found(desk.cards, sought) ELSE Found(desk.cards, sought) \cap picked

AtPresent == [revision |-> deskRevision, cards |-> owned]

(* The page has another state: cards that match no longer are not picked.  *)
Given(state) == desk' = state /\ picked' = picked \cap Found(state.cards, sought)

DeskServerUnchanged == UNCHANGED <<owned, deskRevision>>

-----------------------------------------------------------------------------
(* The query and the selection.                                            *)

(* Another status or path takes the selection away, another product only   *)
(* what does not match it.                                                 *)
Seek(q) ==
  /\ q # sought /\ sought' = q
  /\ picked' = IF q.status # sought.status \/ q.path # sought.path THEN {} ELSE picked \cap Found(desk.cards, q)
  /\ UNCHANGED <<desk, confirmed, toggle>> /\ DeskServerUnchanged

(* A box, or those of the page shown; the picked ones of other pages stay. *)
PickCards(cs) ==
  /\ sought.path = NoCard /\ confirmed = NoCard
  /\ cs \subseteq Found(desk.cards, sought)
  /\ picked' \in {picked \cup cs, picked \ cs} /\ picked' # picked
  /\ UNCHANGED <<desk, sought, confirmed, toggle>> /\ DeskServerUnchanged

-----------------------------------------------------------------------------
(* The dialog.                                                             *)

(* From the menu of a row or from the card's page; a card under risk       *)
(* control has another dialog (UnfreezeRequestDialog).                     *)
AskFreeze(c) ==
  /\ confirmed = NoCard /\ ~desk.cards[c].risk
  /\ IF sought.path = NoCard THEN c \in Found(desk.cards, sought) ELSE c = sought.path
  /\ confirmed' = c
  /\ UNCHANGED <<desk, sought, picked, toggle>> /\ DeskServerUnchanged
CancelFreeze ==
  /\ confirmed # NoCard /\ confirmed' = NoCard
  /\ UNCHANGED <<desk, sought, picked, toggle>> /\ DeskServerUnchanged

(* The button says what the state of the page, not of the opening, says.   *)
(* While another action is saved nothing is sent (applyAction).            *)
ConfirmFreeze ==
  /\ confirmed # NoCard /\ confirmed' = NoCard
  /\ toggle' = IF toggle # NoToggle THEN toggle
               ELSE [id |-> confirmed, says |-> ~Frozen(desk.cards[confirmed]), base |-> desk.revision,
                     card |-> desk.cards[confirmed].revision, state |-> "sent"]
  /\ UNCHANGED <<desk, sought, picked>> /\ DeskServerUnchanged

-----------------------------------------------------------------------------
(* The server.                                                             *)

(* clientCardFreeze: the administration's operation for a card with a row, *)
(* one at a time; transition: the portal's own card at once.               *)
Toggled(k) ==
  IF k.managed THEN [k EXCEPT !.job = IF k.self THEN "unfreeze" ELSE "freeze"]
  ELSE [k EXCEPT !.self = ~k.self]
MayToggle(k) == ~k.risk /\ k.job = "none"
Goal(k) == IF k.managed THEN k.job = "freeze" ELSE k.self

TakenOn(c) ==
  /\ deskRevision < MaxDeskRevision /\ deskRevision' = deskRevision + 1
  /\ owned' = [owned EXCEPT ![c] = Toggled(@)]

(* Mistake: the revision the page had is not compared. *)
ServeToggleAnyway ==
  /\ toggle.state = "sent" /\ MayToggle(owned[toggle.id]) /\ TakenOn(toggle.id)
  /\ toggle' = [toggle EXCEPT !.state = "done"] /\ UNCHANGED <<desk, sought, picked, confirmed>>

(* portalAction: refused on an older state. *)
ServeToggle ==
  /\ toggle.state = "sent"
  /\ IF toggle.base = deskRevision /\ MayToggle(owned[toggle.id])
     THEN TakenOn(toggle.id) /\ toggle' = [toggle EXCEPT !.state = "done"]
     ELSE toggle' = [toggle EXCEPT !.state = "refused"] /\ DeskServerUnchanged
  /\ UNCHANGED <<desk, sought, picked, confirmed>>

(* applyAction: the state of the answer, or the one read after an error;   *)
(* when that fails too the page keeps its own.                             *)
ToggleOver ==
  /\ toggle.state # "none" /\ toggle' = NoToggle
  /\ \/ Given(AtPresent)
     \/ UNCHANGED <<desk, picked>>
  /\ UNCHANGED <<sought, confirmed>> /\ DeskServerUnchanged

(* refresh, every five seconds. *)
PollDesk ==
  /\ toggle = NoToggle /\ desk # AtPresent /\ Given(AtPresent)
  /\ UNCHANGED <<sought, confirmed, toggle>> /\ DeskServerUnchanged

DeskPageUnchanged == UNCHANGED <<desk, sought, picked, confirmed, toggle>>

(* Another page of the customer. *)
ToggledElsewhere(c) == MayToggle(owned[c]) /\ TakenOn(c) /\ DeskPageUnchanged

(* The card administration: it takes the portal's cards over when it is    *)
(* started, carries an operation out or fails to, and puts a card under    *)
(* risk control or releases it.  The portal's revision stays.              *)
Administer(c, self, risk, job) ==
  /\ owned[c].managed /\ owned[c].revision < MaxHeldRevision
  /\ owned' = [owned EXCEPT ![c] = [owned[c] EXCEPT !.self = self, !.risk = risk, !.job = job,
                                                   !.revision = owned[c].revision + 1]]
  /\ UNCHANGED deskRevision /\ DeskPageUnchanged
Adopt(c) ==
  /\ c \in Adopted /\ ~owned[c].managed /\ owned' = [owned EXCEPT ![c].managed = TRUE]
  /\ UNCHANGED deskRevision /\ DeskPageUnchanged
JobDone(c) == owned[c].job # "none" /\ Administer(c, owned[c].job = "freeze", owned[c].risk, "none")
JobFailed(c) ==
  /\ owned[c].job # "none" /\ owned' = [owned EXCEPT ![c].job = "none"]
  /\ UNCHANGED deskRevision /\ DeskPageUnchanged
PutUnderRisk(c) == ~owned[c].risk /\ Administer(c, owned[c].self, TRUE, owned[c].job)
ReleaseRisk(c) == owned[c].risk /\ Administer(c, owned[c].self, FALSE, owned[c].job)

DeskInit ==
  /\ owned = [c \in DeskCards |-> NewCard] /\ deskRevision = 0 /\ desk = AtPresent
  /\ sought = AllCards
  /\ picked = {} /\ confirmed = NoCard /\ toggle = NoToggle

DeskNext ==
  \/ \E q \in DeskQueries: Seek(q)
  \/ \E cs \in SUBSET DeskCards: PickCards(cs)
  \/ \E c \in DeskCards:
       \/ AskFreeze(c) \/ ToggledElsewhere(c) \/ Adopt(c) \/ JobDone(c) \/ JobFailed(c)
       \/ PutUnderRisk(c) \/ ReleaseRisk(c)
  \/ CancelFreeze \/ ConfirmFreeze \/ ServeToggle \/ ToggleOver \/ PollDesk

DeskTypes ==
  /\ \A c \in DeskCards:
       /\ owned[c].self \in BOOLEAN /\ owned[c].risk \in BOOLEAN /\ owned[c].managed \in BOOLEAN
       /\ owned[c].job \in {"none", "freeze", "unfreeze"} /\ owned[c].revision \in 0..MaxHeldRevision
       /\ desk.cards[c].revision <= owned[c].revision
  /\ deskRevision \in 0..MaxDeskRevision /\ desk.revision <= deskRevision
  /\ sought.status \in Statuses /\ picked \subseteq DeskCards /\ confirmed \in DeskCards \cup {NoCard}
  /\ toggle.id \in DeskCards \cup {NoCard} /\ toggle.state \in {"none", "sent", "done", "refused"}

-----------------------------------------------------------------------------
(* The cards that are exported are those the reader has picked whenever    *)
(* any is, though the state changes under the selection; and a click does  *)
(* what its button said, unless the card administration has changed this   *)
(* card since the state the page had: only the portal's revision is        *)
(* compared, and that of the card is not (portalAction, clientCardFreeze). *)
FreezesAsSaid ==
  /\ [](picked # {} => Exported = picked)
  /\ [][toggle.state = "sent" /\ toggle'.state = "done" /\ owned[toggle.id].revision = toggle.card
          => Goal(owned'[toggle.id]) = toggle.says]_deskVars
=============================================================================
