----------------------------- MODULE PortalPage -----------------------------
(***************************************************************************)
(* Browser pages of one customer (Portal.tsx, UnfreezeRequestDialog.tsx)   *)
(* and the server's record of their actions (portal.mjs).  A page shows    *)
(* the state it last read, sends the revision of it with each action, and  *)
(* reads again every few seconds.  Calls may be answered late, in another  *)
(* order, or never as far as the page knows, although the server acted.    *)
(***************************************************************************)
EXTENDS Integers, FiniteSets

CONSTANTS
  Pages,
  MaxPortalRevision,  \* bound of the server's revision
  MaxPolls            \* polls of a page under way at once

Nowhere == "nowhere"

ASSUME PortalPageAssumption ==
  MaxPortalRevision \in Nat /\ MaxPolls \in Nat /\ Nowhere \notin Pages

VARIABLES
  revision,  \* revision of portal_state
  actions,   \* portal_actions: the requests that were applied, and on which revision
  page,      \* page -> what its components remember
  calls,     \* calls a page waits for, and writes it no longer waits for
  requests   \* action requests made so far

portalVars == <<revision, actions, page, calls, requests>>

Unanswered == -1
Refused == -2
Call(p, why, base, request) ==
  [page |-> p, why |-> why, base |-> base, request |-> request, answer |-> Unanswered]
Read(p, why) == Call(p, why, 0, <<p, 0>>)

PortalInit ==
  /\ revision = 0 /\ actions = {} /\ requests = 0
  /\ page = [p \in Pages |-> [shown |-> -1, loaded |-> FALSE, busy |-> FALSE, dialog |-> "open"]]
  /\ calls = {Read(p, "load") : p \in Pages}

ServerUnchanged == UNCHANGED <<revision, actions>>
Polls(p) == {c \in calls : c.page = p /\ c.why = "poll"}

-----------------------------------------------------------------------------
(* The page.                                                               *)

(* refresh: every five seconds and on focus, unless an action is saved.    *)
Poll(p) ==
  /\ ~page[p].busy /\ Cardinality(Polls(p)) < MaxPolls
  /\ calls' = calls \cup {Read(p, "poll")}
  /\ UNCHANGED <<page, requests>> /\ ServerUnchanged

(* applyAction and writePortal: each action is a request of its own. *)
ApplyAction(p) ==
  /\ page[p].loaded /\ ~page[p].busy /\ requests < MaxPortalRevision
  /\ requests' = requests + 1
  /\ page' = [page EXCEPT ![p].busy = TRUE]
  /\ calls' = calls \cup {Call(p, "action", page[p].shown, <<p, requests'>>)}
  /\ ServerUnchanged

(* The dialog keeps its request until it is done, but not the revision. *)
SubmitDialog(p) ==
  /\ page[p].loaded /\ page[p].dialog \in {"open", "failed"}
  /\ page' = [page EXCEPT ![p].dialog = "sending"]
  /\ calls' = calls \cup {Call(p, "dialog", page[p].shown, <<p, 0>>)}
  /\ UNCHANGED requests /\ ServerUnchanged

(* Mistake: a poll is shown however old it is. *)
ShowAny(row, c) ==
  CASE c.why = "load"    -> [row EXCEPT !.shown = c.answer, !.loaded = TRUE]
    [] c.why = "poll"    -> IF row.busy THEN row ELSE [row EXCEPT !.shown = c.answer]
    [] c.why = "dialog"  -> [row EXCEPT !.dialog = "done"]
    [] OTHER             -> [row EXCEPT !.shown = c.answer, !.busy = FALSE]

(* What a page does with an answer.  A poll is dropped while an action is  *)
(* saved, and when what is shown is newer.                                 *)
ShowAnswer(row, c) ==
  CASE c.why = "load"    -> [row EXCEPT !.shown = c.answer, !.loaded = TRUE]
    [] c.why = "poll"    -> IF row.busy \/ c.answer < row.shown THEN row
                            ELSE [row EXCEPT !.shown = c.answer]
    [] c.why = "dialog"  -> [row EXCEPT !.dialog = "done"]
    [] OTHER             -> [row EXCEPT !.shown = c.answer, !.busy = FALSE]

Receive(c) ==
  /\ c.page # Nowhere /\ c.answer >= 0
  /\ page' = [page EXCEPT ![c.page] = ShowAnswer(@, c)]
  /\ calls' = calls \ {c}
  /\ UNCHANGED requests /\ ServerUnchanged

(* A write the page gives up may still reach the server. *)
Late(c) ==
  IF c.answer = Unanswered /\ c.why \in {"action", "dialog"} THEN {[c EXCEPT !.page = Nowhere]} ELSE {}

(* An answer is an error or is lost: a failed action reads the state again *)
(* before the next one, a failed reading changes nothing.                  *)
CallFails(c) ==
  /\ c.page # Nowhere
  /\ calls' = (calls \ {c}) \cup Late(c)
                \cup (IF c.why = "action" THEN {Read(c.page, "recover")} ELSE {})
  /\ page' = CASE c.why = "recover" -> [page EXCEPT ![c.page].busy = FALSE]
               [] c.why = "dialog"  -> [page EXCEPT ![c.page].dialog = "failed"]
               [] OTHER             -> page
  /\ UNCHANGED requests /\ ServerUnchanged

-----------------------------------------------------------------------------
(* The server.                                                             *)

Answered(c, answer) ==
  calls' = (calls \ {c}) \cup (IF c.page = Nowhere THEN {} ELSE {[c EXCEPT !.answer = answer]})

ServeRead(c) ==
  /\ c.why \in {"load", "poll", "recover"} /\ c.answer = Unanswered
  /\ Answered(c, revision)
  /\ UNCHANGED <<page, requests>> /\ ServerUnchanged

Applied(c) == {a \in actions : a.request = c.request}
Refuse(c) == Answered(c, Refused) /\ ServerUnchanged
Apply(c) ==
  /\ revision' = revision + 1
  /\ actions' = actions \cup {[request |-> c.request, on |-> revision]}
  /\ Answered(c, revision + 1)

(* Mistake: a repeated request is checked like a new one. *)
PortalActionAgain(c) ==
  /\ c.why \in {"action", "dialog"} /\ c.answer = Unanswered
  /\ \/ c.base = revision /\ revision < MaxPortalRevision /\ Apply(c)
     \/ Refuse(c)
  /\ UNCHANGED <<page, requests>>

(* portalAction: a request that was applied is answered with the present   *)
(* state; a new one is refused when the page's state is old, or by the     *)
(* rules of the action.                                                    *)
PortalAction(c) ==
  /\ c.why \in {"action", "dialog"} /\ c.answer = Unanswered
  /\ \/ Applied(c) # {} /\ Answered(c, revision) /\ ServerUnchanged
     \/ Applied(c) = {} /\ c.base = revision /\ revision < MaxPortalRevision /\ Apply(c)
     \/ Applied(c) = {} /\ Refuse(c)
  /\ UNCHANGED <<page, requests>>

(* An action of the same customer from a page that is not modelled. *)
Elsewhere ==
  /\ revision < MaxPortalRevision
  /\ revision' = revision + 1
  /\ actions' = actions \cup {[request |-> <<Nowhere, revision>>, on |-> revision]}
  /\ UNCHANGED <<page, calls, requests>>

PortalNext ==
  \/ Elsewhere
  \/ \E p \in Pages : Poll(p) \/ ApplyAction(p) \/ SubmitDialog(p)
  \/ \E c \in calls : Receive(c) \/ CallFails(c) \/ ServeRead(c) \/ PortalAction(c)

PortalSpec == PortalInit /\ [][PortalNext]_portalVars

-----------------------------------------------------------------------------
(* Types of all variables. *)
PortalTypes ==
  /\ revision \in Nat /\ requests \in Nat
  /\ actions \subseteq [request : (Pages \cup {Nowhere}) \X Nat, on : Nat]
  /\ page \in [Pages -> [shown : Nat \cup {-1}, loaded : BOOLEAN, busy : BOOLEAN,
                         dialog : {"open", "sending", "failed", "done"}]]
  /\ \A c \in calls :
       /\ c.page \in Pages \cup {Nowhere} /\ c.why \in {"load", "poll", "recover", "action", "dialog"}
       /\ c.request \in Pages \X Nat /\ c.answer \in Nat \cup {Unanswered, Refused}

(* Each change of the state is one request's and each request changes it   *)
(* at most once, however often it was sent and whichever answers were      *)
(* lost; a dialog that reports success has its request applied.            *)
AppliedOnce ==
  /\ Cardinality(actions) = revision
  /\ \A a, b \in actions : a.request = b.request \/ a.on = b.on => a = b
  /\ \A p \in Pages : page[p].dialog = "done" => \E a \in actions : a.request = <<p, 0>>

(* A page never goes back to an older state once it has loaded, although   *)
(* polls, actions and the readings after failures overtake each other.     *)
ShownForward ==
  [][\A p \in Pages : page[p].loaded => page'[p].shown >= page[p].shown]_portalVars
=============================================================================
