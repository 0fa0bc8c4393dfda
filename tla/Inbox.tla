-------------------------------- MODULE Inbox -------------------------------
(***************************************************************************)
(* The message center of the customer's workspace (MessageCenter.tsx): a   *)
(* list of notices, newest first, read from the server for a filter and a  *)
(* page, and the marks the reader puts on them.  Each mark is an action of *)
(* the portal, which names the revision of the state the page has.         *)
(***************************************************************************)
EXTENDS Integers, Sequences, FiniteSets

CONSTANTS
  MaxNotes,        \* bound of the notices
  PerPage,         \* notices on a page of the list
  MaxNoteRevision  \* bound of the revisions of the portal's state

ASSUME InboxAssumption == MaxNotes \in Nat \ {0} /\ PerPage \in Nat \ {0} /\ MaxNoteRevision \in Nat

VARIABLES
  notes,         \* the server's notices in the order they came: read or not
  noteRevision,  \* revision of the portal's state
  mine,          \* the state the page has: its revision and its notices
  onList,        \* filter and page of the list
  listing,       \* the reading the effect waits for, and its answer
  rows,          \* the answer on the screen, or NoRows
  listFailed,    \* an error is in its place
  ticked,        \* notices the reader has selected
  marking        \* the mark under way

inboxVars == <<notes, noteRevision, mine, onList, listing, rows, listFailed, ticked, marking>>

Flags == {"all", "unread", "read"}
Wanted == [status: Flags, page: 0..(MaxNotes - 1)]
NoRows == [of |-> [status |-> "all", page |-> 0], read |-> <<>>, total |-> -1, unread |-> 0]
Unlisted == [of |-> NoRows.of, state |-> "idle", answer |-> NoRows]
NoMarking == [ids |-> {}, read |-> FALSE, base |-> 0, known |-> 0, state |-> "none"]

-----------------------------------------------------------------------------
(* queryMessages: newest first, the filter before the page. *)
Matching(status) == {n \in DOMAIN notes: status = "all" \/ notes[n] = (status = "read")}
OnPage(ns, page) == {n \in ns: Cardinality({m \in ns: m > n}) \div PerPage = page}
Listed(q) ==
  [of |-> q, read |-> [n \in OnPage(Matching(q.status), q.page) |-> notes[n]],
   total |-> Cardinality(Matching(q.status)), unread |-> Cardinality(Matching("unread"))]
LastPage(total) == IF total = 0 THEN 0 ELSE (total - 1) \div PerPage

Present == [revision |-> noteRevision, notes |-> notes]

(* The effect of the list: it runs for each query and for each state the   *)
(* page is given, equal or not; nothing stays selected.                    *)
ListAgain(q) ==
  /\ onList' = q /\ listing' = [of |-> q, state |-> "asked", answer |-> NoRows]
  /\ ticked' = {} /\ listFailed' = FALSE

InboxServerUnchanged == UNCHANGED <<notes, noteRevision>>

-----------------------------------------------------------------------------
(* The list.                                                               *)

(* A tab, a search, a page or a link. *)
WantList(q) == q # onList /\ ListAgain(q) /\ UNCHANGED <<mine, rows, marking>> /\ InboxServerUnchanged
RetryList == listFailed /\ ListAgain(onList) /\ UNCHANGED <<mine, rows, marking>> /\ InboxServerUnchanged

ServeList ==
  /\ listing.state = "asked" /\ listing' = [listing EXCEPT !.state = "answered", !.answer = Listed(listing.of)]
  /\ UNCHANGED <<mine, onList, rows, listFailed, ticked, marking>> /\ InboxServerUnchanged

(* A page beyond the last one is replaced by the last one. *)
ListArrives ==
  /\ listing.state = "answered" /\ rows' = listing.answer
  /\ LET last == LastPage(listing.answer.total) IN
     IF onList.page > last THEN ListAgain([onList EXCEPT !.page = last])
     ELSE listing' = Unlisted /\ UNCHANGED <<onList, ticked, listFailed>>
  /\ UNCHANGED <<mine, marking>> /\ InboxServerUnchanged

ListFails ==
  /\ listing.state # "idle" /\ listing' = Unlisted /\ rows' = NoRows /\ listFailed' = TRUE
  /\ UNCHANGED <<mine, onList, ticked, marking>> /\ InboxServerUnchanged

-----------------------------------------------------------------------------
(* The marks.                                                              *)
Unmarking == marking = NoMarking

(* The boxes are locked while the list is read or a mark is saved. *)
Tick(ns) ==
  /\ listing.state = "idle" /\ Unmarking /\ ns # ticked /\ ns \subseteq DOMAIN rows.read
  /\ ticked' = ns
  /\ UNCHANGED <<mine, onList, listing, rows, listFailed, marking>> /\ InboxServerUnchanged

(* update: the ids the reader named, or every notice there is. *)
Mark(ids, read) ==
  /\ Unmarking
  /\ marking' = [ids |-> ids, read |-> read, base |-> mine.revision, known |-> Len(mine.notes), state |-> "sent"]
  /\ UNCHANGED <<mine, onList, listing, rows, listFailed, ticked>> /\ InboxServerUnchanged

MarkTicked(read) == ticked # {} /\ Mark(ticked, read)
MarkRow(n) == listing.state = "idle" /\ Mark({n}, ~rows.read[n])
OpenNotice(n) == ~rows.read[n] /\ Mark({n}, TRUE)
AnyUnread == IF rows = NoRows THEN \E n \in DOMAIN mine.notes: ~mine.notes[n] ELSE rows.unread > 0
MarkAll == AnyUnread /\ Mark({}, TRUE)

(* The portal's rule "read": named notices, or all of them. *)
Marked(m) == [n \in DOMAIN notes |-> IF m.ids = {} \/ n \in m.ids THEN m.read ELSE notes[n]]

(* Mistake: a mark is not compared with the present revision. *)
ServeMarkAnyway ==
  /\ marking.state = "sent" /\ noteRevision < MaxNoteRevision
  /\ notes' = Marked(marking) /\ noteRevision' = noteRevision + 1 /\ marking' = [marking EXCEPT !.state = "done"]
  /\ UNCHANGED <<mine, onList, listing, rows, listFailed, ticked>>

(* portalAction: a mark on an older state is refused. *)
ServeMark ==
  /\ marking.state = "sent"
  /\ IF marking.base = noteRevision
     THEN /\ noteRevision < MaxNoteRevision /\ notes' = Marked(marking) /\ noteRevision' = noteRevision + 1
          /\ marking' = [marking EXCEPT !.state = "done"]
     ELSE marking' = [marking EXCEPT !.state = "refused"] /\ InboxServerUnchanged
  /\ UNCHANGED <<mine, onList, listing, rows, listFailed, ticked>>

(* applyAction: the state of the answer, or after an error the state read  *)
(* again, whether the server has acted or not; when that fails too the     *)
(* page keeps its own.                                                     *)
MarkOver ==
  /\ ~Unmarking /\ marking' = NoMarking
  /\ \/ mine' = Present /\ ListAgain(onList)
     \/ UNCHANGED <<mine, onList, listing, listFailed, ticked>>
  /\ UNCHANGED rows /\ InboxServerUnchanged

(* refresh, every five seconds: the page is given the state again. *)
PollState ==
  /\ Unmarking /\ mine' = Present /\ ListAgain(onList)
  /\ UNCHANGED <<rows, marking>> /\ InboxServerUnchanged

(* Other pages of the customer: an action adds a notice, or marks some. *)
NoticeArrives ==
  /\ Len(notes) < MaxNotes /\ noteRevision < MaxNoteRevision
  /\ notes' = Append(notes, FALSE) /\ noteRevision' = noteRevision + 1
  /\ UNCHANGED <<mine, onList, listing, rows, listFailed, ticked, marking>>
MarkedElsewhere(n) ==
  /\ noteRevision < MaxNoteRevision /\ notes' = [notes EXCEPT ![n] = ~@] /\ noteRevision' = noteRevision + 1
  /\ UNCHANGED <<mine, onList, listing, rows, listFailed, ticked, marking>>

InboxInit ==
  /\ notes = <<FALSE>> /\ noteRevision = 0 /\ mine = Present
  /\ onList = NoRows.of /\ listing = [Unlisted EXCEPT !.state = "asked"]
  /\ rows = NoRows /\ listFailed = FALSE /\ ticked = {} /\ marking = NoMarking

InboxNext ==
  \/ \E q \in Wanted: WantList(q)
  \/ RetryList \/ ServeList \/ ListArrives \/ ListFails
  \/ \E ns \in SUBSET DOMAIN rows.read: Tick(ns)
  \/ \E n \in DOMAIN rows.read: MarkRow(n) \/ OpenNotice(n)
  \/ \E read \in BOOLEAN: MarkTicked(read)
  \/ MarkAll \/ ServeMark \/ MarkOver \/ PollState \/ NoticeArrives
  \/ \E n \in DOMAIN notes: MarkedElsewhere(n)

InboxTypes ==
  /\ notes \in Seq(BOOLEAN) /\ Len(notes) <= MaxNotes /\ noteRevision \in 0..MaxNoteRevision
  /\ mine.revision <= noteRevision /\ Len(mine.notes) <= Len(notes)
  /\ onList \in Wanted /\ listing.of \in Wanted /\ listing.state \in {"idle", "asked", "answered"}
  /\ rows.of \in Wanted /\ DOMAIN rows.read \subseteq DOMAIN notes
  /\ listFailed \in BOOLEAN /\ ticked \subseteq DOMAIN notes
  /\ marking.ids \subseteq DOMAIN notes /\ marking.state \in {"none", "sent", "done", "refused"}

-----------------------------------------------------------------------------
(* What the reader has selected is on the page that is shown (the batch    *)
(* acts on this page only, message-center.md); a list that is not being    *)
(* read shows the page that is asked for, and an empty one only when       *)
(* nothing matches; and a mark, of all notices too, changes none that came *)
(* after the state the page had, whatever arrived while it was sent.       *)
MarksWhatWasThere ==
  /\ [](ticked \subseteq DOMAIN rows.read)
  /\ [](listing.state = "idle" /\ ~listFailed =>
          rows.of = onList /\ (DOMAIN rows.read = {} => rows.total = 0))
  /\ [][\A n \in DOMAIN notes:
          marking.state = "sent" /\ marking'.state = "done" /\ notes'[n] # notes[n] => n <= marking.known]_inboxVars
=============================================================================
