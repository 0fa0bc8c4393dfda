------------------------------- MODULE Editors ------------------------------
(***************************************************************************)
(* The forms of the administration that change a stored record: the form   *)
(* keeps a draft of what it read, sends it with the revision it read, and  *)
(* the record is changed by others meanwhile.  The forms differ in when    *)
(* the draft is made again, in what a saved form does next and in what     *)
(* stays on the page while it reads.                                       *)
(***************************************************************************)
EXTENDS Integers, FiniteSets

CONSTANTS
  OurInputs,    \* inputs this form is used for
  TheirInputs,  \* inputs others change
  MaxEdits      \* bound of the revision of the record

Inputs == {"name", "note"}

ASSUME EditorsAssumption ==
  OurInputs \subseteq Inputs /\ TheirInputs \subseteq Inputs /\ MaxEdits \in Nat \ {0}

VARIABLES
  editor,    \* what the form on the page does
  current,   \* the record at the server
  seen,      \* the record the page has read, or NotRead
  draft,     \* what the inputs hold, and the revision they were made of
  typed,     \* the inputs changed since the draft was made
  open,      \* the form is on the page
  waits,     \* what the form waits for, or "over" once it was saved for good
  sent,      \* requests under way and their outcome
  rereading  \* the reading under way: asked, or what was answered

editorVars == <<editor, current, seen, draft, typed, open, waits, sent, rereading>>

Values == {0, 1}
Records == [name: Values, note: Values, revision: 0..MaxEdits]
New == [name |-> 0, note |-> 0, revision |-> 0]
NotRead == [New EXCEPT !.revision = -1]
NoReading == [asked |-> FALSE, record |-> NotRead]
ReadingAsked == [asked |-> TRUE, record |-> NotRead]

-----------------------------------------------------------------------------
(* seeds: what makes the draft again (a new "revision", every "reading",   *)
(* or "opening" the dialog); sends: the revision sent is that of the page  *)
(* or of the draft; after: a saved form "stays" as it is, "reads" again,   *)
(* or "waits" for that reading; clears: the page is empty while it reads;  *)
(* locks: the inputs are disabled while the form waits.                    *)
Form(seeds, sends, after, clears, locks) ==
  [seeds |-> seeds, sends |-> sends, after |-> after, clears |-> clears, locks |-> locks]

SettingsForm == Form("revision", "page", "stays", FALSE, FALSE)
CatalogEditor == Form("reading", "draft", "reads", TRUE, FALSE)
CustomerEditor == Form("reading", "draft", "reads", TRUE, FALSE)
ProductForm == Form("revision", "page", "reads", FALSE, FALSE)
ChannelForm == Form("revision", "page", "reads", FALSE, FALSE)
OwnerDialog == Form("opening", "page", "waits", FALSE, FALSE)
FeeEditor == Form("revision", "page", "waits", FALSE, TRUE)

AllForms == {SettingsForm, CatalogEditor, CustomerEditor, ProductForm, ChannelForm,
             OwnerDialog, FeeEditor}

-----------------------------------------------------------------------------
Visible == open /\ seen # NotRead
RecordOf(r) == [name |-> r.name, note |-> r.note, revision |-> r.revision]

(* A form that is mounted anew with each revision hears nothing of what    *)
(* the one before it has sent; its page does.                              *)
Hears(r) == editor.seeds # "revision" \/ r.revision = seen.revision

ChangeInput(i, v) ==
  /\ Visible /\ draft[i] # v /\ waits # "over" /\ (editor.locks => waits = "nothing")
  /\ draft' = [draft EXCEPT ![i] = v] /\ typed' = typed \cup {i}
  /\ UNCHANGED <<editor, current, seen, open, waits, sent, rereading>>

OpenForm ==
  /\ editor.seeds = "opening" /\ ~open /\ seen # NotRead
  /\ open' = TRUE /\ draft' = seen /\ typed' = {}
  /\ UNCHANGED <<editor, current, seen, waits, sent, rereading>>

CloseForm ==
  /\ editor.seeds = "opening" /\ open /\ waits = "nothing"
  /\ open' = FALSE
  /\ UNCHANGED <<editor, current, seen, draft, typed, waits, sent, rereading>>

(* The forms that stay as they are send only what was changed.             *)
SaveForm ==
  /\ Visible /\ waits = "nothing" /\ Cardinality(sent) < 2
  /\ editor.after = "stays" \/ editor.locks => typed # {}
  /\ sent' = sent \cup
       {[name |-> draft.name, note |-> draft.note, typed |-> typed, state |-> "sent",
         revision |-> IF editor.sends = "page" THEN seen.revision ELSE draft.revision]}
  /\ waits' = "outcome"
  /\ UNCHANGED <<editor, current, seen, draft, typed, open, rereading>>

(* The server changes a record for the revision it has, and for no other.  *)
ServeSave(r) ==
  /\ r.state = "sent"
  /\ \/ /\ r.revision = current.revision /\ current.revision < MaxEdits
        /\ current' = [RecordOf(r) EXCEPT !.revision = @ + 1]
        /\ sent' = (sent \ {r}) \cup {[r EXCEPT !.state = "saved"]}
     \/ /\ r.revision # current.revision
        /\ sent' = (sent \ {r}) \cup {[r EXCEPT !.state = "refused"]}
        /\ UNCHANGED current
  /\ UNCHANGED <<editor, seen, draft, typed, open, waits, rereading>>

Reads == rereading' = ReadingAsked /\ seen' = IF editor.clears THEN NotRead ELSE seen

SaveAnswered(r) ==
  /\ r.state = "saved" /\ sent' = sent \ {r}
  /\ IF editor.after = "stays" THEN UNCHANGED <<seen, rereading>> ELSE Reads
  /\ waits' = IF ~Hears(r) THEN waits
              ELSE [stays |-> "over", reads |-> "nothing", waits |-> "reading"][editor.after]
  /\ UNCHANGED <<editor, current, draft, typed, open>>

(* Refused, or lost before or after the server has served it.              *)
SaveFailed(r) ==
  /\ sent' = sent \ {r} /\ waits' = IF Hears(r) THEN "nothing" ELSE waits
  /\ UNCHANGED <<editor, current, seen, draft, typed, open, rereading>>

OthersSave(i, v) ==
  /\ current.revision < MaxEdits /\ current[i] # v
  /\ current' = [current EXCEPT ![i] = v, !.revision = @ + 1]
  /\ UNCHANGED <<editor, seen, draft, typed, open, waits, sent, rereading>>

(* Read again by hand, or for what another form of the page has saved.     *)
ReadRecord ==
  /\ waits # "outcome" \/ editor.after = "reads"
  /\ Reads /\ waits' = IF editor.after = "waits" THEN "reading" ELSE waits
  /\ UNCHANGED <<editor, current, draft, typed, open, sent>>

ServeRecord ==
  /\ rereading = ReadingAsked /\ rereading' = [ReadingAsked EXCEPT !.record = current]
  /\ UNCHANGED <<editor, current, seen, draft, typed, open, waits, sent>>

(* Mistake: the form keeps its draft when the page has read again.         *)
SeededOnce(r) == editor.seeds # "opening" /\ draft = NotRead

(* The draft is made again.                                                *)
Seeded(r) ==
  \/ editor.seeds = "revision" /\ r.revision # seen.revision
  \/ editor.seeds = "reading"

(* A form mounted anew waits for nothing, unless its page does; a dialog   *)
(* closes with the reading that follows what was saved.                    *)
RecordArrives ==
  /\ rereading.record # NotRead /\ rereading' = NoReading
  /\ seen' = rereading.record
  /\ IF Seeded(seen') THEN draft' = seen' /\ typed' = {} ELSE UNCHANGED <<draft, typed>>
  /\ open' = (open /\ editor.seeds # "opening")
  /\ waits' = IF editor.after = "waits" \/ (editor.seeds = "revision" /\ seen'.revision # seen.revision)
              THEN "nothing" ELSE waits
  /\ UNCHANGED <<editor, current, sent>>

RecordFails ==
  /\ rereading # NoReading /\ rereading' = NoReading
  /\ waits' = IF waits = "reading" THEN "nothing" ELSE waits
  /\ UNCHANGED <<editor, current, seen, draft, typed, open, sent>>

EditorsInit ==
  /\ editor \in AllForms /\ current = New /\ seen = NotRead /\ draft = NotRead /\ typed = {}
  /\ open = (editor.seeds # "opening") /\ waits = "nothing" /\ sent = {} /\ rereading = ReadingAsked

EditorsNext ==
  \/ \E i \in OurInputs, v \in Values: ChangeInput(i, v)
  \/ \E i \in TheirInputs, v \in Values: OthersSave(i, v)
  \/ OpenForm \/ CloseForm \/ SaveForm \/ ReadRecord \/ ServeRecord \/ RecordArrives \/ RecordFails
  \/ \E r \in sent: ServeSave(r) \/ SaveAnswered(r) \/ SaveFailed(r)

EditorsTypes ==
  /\ editor \in AllForms /\ current \in Records /\ seen \in Records \cup {NotRead}
  /\ draft \in [name: Values, note: Values, revision: -1..MaxEdits]
  /\ typed \subseteq Inputs /\ open \in BOOLEAN
  /\ waits \in {"nothing", "outcome", "reading", "over"}
  /\ sent \subseteq [name: Values, note: Values, revision: 0..MaxEdits, typed: SUBSET Inputs,
                    state: {"sent", "saved", "refused"}]
  /\ rereading \in [asked: BOOLEAN, record: Records \cup {NotRead}]

-----------------------------------------------------------------------------
(* A form that is saved changes what was typed in it and nothing else:     *)
(* what others have changed since the page was read, and what an older     *)
(* draft still holds, is never written over (the revision that goes with a *)
(* draft, SettingsForm to FeeEditor).                                      *)
SavesOnlyWhatWasTyped ==
  [][\A r \in sent \ sent': r.state = "sent" /\ [r EXCEPT !.state = "saved"] \in sent'
       => \A i \in Inputs \ r.typed: current'[i] = current[i]]_editorVars
=============================================================================
