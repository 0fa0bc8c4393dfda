----------------------------- MODULE CvvSession -----------------------------
(***************************************************************************)
(* The view of a card's secret details (remoteCvv.ts, RemoteCardCvv.tsx).  *)
(* The component creates a session for the card in view and disposes of it *)
(* when the view changes; all sessions write to the same node of the page. *)
(* Requests of older sessions, or of the same one before it was hidden,    *)
(* may be answered at any time.                                            *)
(***************************************************************************)
EXTENDS Integers, FiniteSets

CONSTANTS
  SecretCards,  \* cards that may be viewed
  MaxViews,     \* bound of the sessions created
  MaxSequence   \* bound of a session's sequence

ASSUME CvvAssumption == MaxViews \in Nat \ {0} /\ MaxSequence \in Nat

VARIABLES
  view,    \* number of the session in view; older ones are disposed of
  viewed,  \* session -> its card
  cvv,     \* sequence and timers of the session in view
  wanted,  \* requests that are not over
  node,    \* the card whose details the page shows, or Blank
  phase,   \* status of the component
  front,   \* the page is visible and has the focus
  owner    \* the user who opened the view is still logged in

cvvVars == <<view, viewed, cvv, wanted, node, phase, front, owner>>

Blank == "blank"
Idle == [sequence |-> 0, request |-> FALSE, expiry |-> FALSE]
IsActive == front /\ owner
Cleared == [sequence |-> cvv.sequence + 1, request |-> FALSE, expiry |-> FALSE]
Room == cvv.sequence < MaxSequence

CvvInit ==
  /\ view = 1 /\ viewed \in [{1} -> SecretCards] /\ cvv = Idle /\ wanted = {}
  /\ node = Blank /\ phase = "idle" /\ front = TRUE /\ owner = TRUE

(* clear: requests and timers are void and the node is emptied. *)
ClearTo(p) == cvv' = Cleared /\ node' = Blank /\ phase' = p
Context == UNCHANGED <<view, viewed, front, owner>>

(* The effect's end disposes of the session, the next one begins. *)
ViewCard(card) ==
  /\ view < MaxViews
  /\ view' = view + 1 /\ viewed' = [s \in 1..view' |-> IF s = view' THEN card ELSE viewed[s]]
  /\ cvv' = Idle /\ node' = Blank /\ phase' = "idle"
  /\ owner' = TRUE
  /\ UNCHANGED <<wanted, front>>

(* show: by the button, or at once where all details are shown. *)
ShowSecret ==
  /\ Room /\ phase \in {"idle", "error"}
  /\ IF IsActive
     THEN /\ cvv' = [Cleared EXCEPT !.request = TRUE] /\ node' = Blank /\ phase' = "loading"
          /\ wanted' = wanted \cup {[session |-> view, request |-> cvv.sequence + 1, stage |-> "login"]}
     ELSE ClearTo("error") /\ UNCHANGED wanted
  /\ Context

HideSecret == Room /\ phase = "visible" /\ ClearTo("idle") /\ UNCHANGED wanted /\ Context

(* blur, pagehide and visibilitychange hide the details. *)
Leave ==
  /\ Room /\ front /\ front' = FALSE
  /\ ClearTo("idle") /\ UNCHANGED <<view, viewed, owner, wanted>>
ComeBack == ~front /\ front' = TRUE /\ UNCHANGED <<view, viewed, owner, wanted, cvv, node, phase>>
LogOut == owner /\ owner' = FALSE /\ UNCHANGED <<view, viewed, front, wanted, cvv, node, phase>>

Void(r) == r.session # view \/ r.request # cvv.sequence
ShowFailed(r) == wanted' = wanted \ {r} /\ ClearTo("error") /\ Context
Vanish(r) == wanted' = wanted \ {r} /\ UNCHANGED <<cvv, node, phase>> /\ Context

(* The login token: for another user it is an error, and for a page that *)
(* is out of sight nothing more happens.                                 *)
LoginArrives(r) ==
  /\ r.stage = "login"
  /\ \/ (Void(r) \/ ~IsActive) /\ Vanish(r)
     \/ ~Void(r) /\ ShowFailed(r)
     \/ /\ ~Void(r) /\ IsActive
        /\ wanted' = (wanted \ {r}) \cup {[r EXCEPT !.stage = "secret"]}
        /\ UNCHANGED <<cvv, node, phase>> /\ Context

(* The body of a good answer is written to the page. *)
Write(r) ==
  /\ wanted' = wanted \ {r} /\ node' = viewed[r.session] /\ phase' = "visible"
  /\ cvv' = [cvv EXCEPT !.request = FALSE, !.expiry = TRUE]
  /\ Context

(* Mistake: an answer is not tested against the session's sequence. *)
SecretArrivesUnchecked(r) == r.stage = "secret" /\ IsActive /\ Write(r)

SecretArrives(r) ==
  /\ r.stage = "secret"
  /\ \/ Void(r) /\ Vanish(r)
     \/ ~Void(r) /\ ShowFailed(r)
     \/ ~Void(r) /\ ~IsActive /\ wanted' = wanted \ {r} /\ ClearTo("idle") /\ Context
     \/ ~Void(r) /\ IsActive /\ Write(r)

RequestTimeout == cvv.request /\ ClearTo("error") /\ UNCHANGED wanted /\ Context
ExpiryTimeout == cvv.expiry /\ ClearTo("idle") /\ UNCHANGED wanted /\ Context

CvvNext ==
  \/ \E card \in SecretCards: ViewCard(card)
  \/ ShowSecret \/ HideSecret \/ Leave \/ ComeBack \/ LogOut
  \/ RequestTimeout \/ ExpiryTimeout
  \/ \E r \in wanted: LoginArrives(r) \/ SecretArrives(r)

CvvSpec == CvvInit /\ [][CvvNext]_cvvVars

Requested == [session: 1..MaxViews, request: Nat, stage: {"login", "secret"}]
CvvTypes ==
  /\ view \in 1..MaxViews /\ viewed \in [1..view -> SecretCards]
  /\ cvv \in [sequence: Nat, request: BOOLEAN, expiry: BOOLEAN]
  /\ wanted \subseteq Requested /\ node \in SecretCards \cup {Blank}
  /\ phase \in {"idle", "loading", "visible", "error"}
  /\ front \in BOOLEAN /\ owner \in BOOLEAN

-----------------------------------------------------------------------------
(* What the page shows are the details of the card in view, in a page that *)
(* is in sight: an answer that comes late, for another card or for a view  *)
(* that was hidden since, writes nothing (clear, show and dispose).        *)
SecretIsCurrent == node # Blank => node = viewed[view] /\ front /\ phase = "visible"

(* Details on the page always have a timer that takes them away, and a     *)
(* request that waits, though its answer may have vanished without a word, *)
(* one that ends the waiting (the two schedule calls of show).             *)
NothingStays == (node # Blank => cvv.expiry) /\ (phase = "loading" => cvv.request)

(* Whatever answers late, a secret is shown for the card and request in    *)
(* view only, and not for longer than its timer (remoteCvv.ts:97).         *)
SecretIsKept == SecretIsCurrent /\ NothingStays
=============================================================================
