--------------------------------- MODULE Fx ---------------------------------
(***************************************************************************)
(* The cross-currency projection of the local workspace (fx/store.mjs):    *)
(* records of a source that answers reads in any order and gives no        *)
(* version, the relations of later records to the purchase they belong to, *)
(* the daily report that is rebuilt when it is dirty, and the detail page  *)
(* that computes the same sums on its own (fx/query.mjs).                  *)
(*                                                                         *)
(* Amounts are those of the account, in one currency and one account; the  *)
(* original currency, the time zones and the columns are left out.         *)
(***************************************************************************)
EXTENDS Integers, FiniteSetsExt

CONSTANTS
  Buys,       \* records of the category purchase
  Followups,  \* refunds, fees, cashback and adjustments
  FxSays,     \* record -> what the source may answer: status, amount and date
  FxReads,    \* record -> bound of the reads that are begun
  FxEvents,   \* event -> the record it is about
  FxKinds,    \* kinds of relation: a pair is stored once under each
  MaxRelations\* bound: relations that are stored

FxIds == Buys \cup Followups
FxDates == UNION {{v.date : v \in FxSays[r]} : r \in FxIds}

ASSUME FxAssumption ==
  /\ Buys \cap Followups = {}
  /\ FxReads \in [FxIds -> Nat]
  /\ \A r \in FxIds : FxSays[r] \subseteq [status: {"pending", "posted"}, amount: Int, date: FxDates]
  /\ IsFiniteSet(FxDates) /\ "unassigned" \notin FxDates
  /\ MaxRelations \in Nat

VARIABLES
  fx,        \* record -> its row, or Unregistered
  observed,  \* record -> request -> the answer, or Unseen
  relations, \* fx_relations: child, parent, kind, and whether it is confirmed
  heard,     \* events received
  dirty,     \* the report is out of date
  daily      \* the stored report: basis and day -> net amount and open issues

fxVars == <<fx, observed, relations, heard, dirty, daily>>

Unregistered == [status |-> "none"]
Unseen == [status |-> "none"]
Bases == {"posted", "order"}
Buckets == Bases \X (FxDates \cup {"unassigned"})

FxInit ==
  /\ fx = [r \in FxIds |-> Unregistered]
  /\ observed = [r \in FxIds |-> [n \in 1..FxReads[r] |-> Unseen]]
  /\ relations = {}
  /\ heard = {}
  /\ dirty = FALSE
  /\ daily = [b \in Buckets |-> [net |-> 0, issues |-> 0]]

Registered == {r \in FxIds : fx[r] # Unregistered}
PostedOf(rs) == {r \in rs : fx[r].status = "posted"}
Sum(rs) == SumFunction([r \in rs |-> fx[r].amount])

(* own: what the row of a record shows. *)
Shown(r) == [status |-> fx[r].status, amount |-> fx[r].amount, date |-> fx[r].date]
RowOf(v, requested, applied, sync) ==
  [status |-> v.status, amount |-> v.amount, date |-> v.date,
   requested |-> requested, applied |-> applied, sync |-> sync]

-----------------------------------------------------------------------------
(* Every change of a record, and every new relation, makes the report      *)
(* dirty (the triggers of 007_cross_currency.sql).                         *)
Written(r, row) == fx' = [fx EXCEPT ![r] = row] /\ dirty' = TRUE

Register(r, v) ==
  /\ r \notin Registered
  /\ Written(r, RowOf(v, 0, 0, "current"))
  /\ UNCHANGED <<observed, relations, heard, daily>>

BeginRead(r) ==
  /\ r \in Registered
  /\ fx[r].requested < FxReads[r]
  /\ Written(r, [fx[r] EXCEPT !.requested = @ + 1])
  /\ UNCHANGED <<observed, relations, heard, daily>>

(* Mistake: the order of the requests is forgotten. *)
SupersededByStatus(row, n, v) == row.status = "posted" /\ v.status # "posted"

(* An answer is kept and does not overwrite when a later read was begun,   *)
(* or when it would take back a posting.                                   *)
Superseded(row, n, v) ==
  n < row.requested \/ (row.status = "posted" /\ v.status # "posted")

(* applyRead: a second answer to the same request changes nothing. *)
ApplyRead(r, n, v) ==
  /\ r \in Registered
  /\ n \in 1..fx[r].requested
  /\ observed[r][n] = Unseen
  /\ observed' = [observed EXCEPT ![r][n] = v]
  /\ Written(r, IF Superseded(fx[r], n, v) THEN [fx[r] EXCEPT !.sync = "resync_required"]
                ELSE RowOf(v, fx[r].requested, n, "current"))
  /\ UNCHANGED <<relations, heard, daily>>

(* receiveEvent: a notification is no content, it only asks for a read;    *)
(* its repetitions are counted as deliveries and change nothing.           *)
Notified(e) ==
  /\ e \notin heard
  /\ heard' = heard \cup {e}
  /\ LET r == FxEvents[e] IN
     IF r \in Registered THEN Written(r, [fx[r] EXCEPT !.sync = "refresh_required"])
     ELSE UNCHANGED <<fx, dirty>>
  /\ UNCHANGED <<observed, relations, daily>>

(* addRelation: the parent is a purchase, the child any other record, a    *)
(* purchase too; a relation is confirmed only when no other purchase is    *)
(* confirmed for the record.  What is stored under child, parent and kind  *)
(* stays as it is.                                                         *)
Relations == [child: FxIds, parent: Buys, kind: FxKinds, confirmed: BOOLEAN]
Confirmations(c) == {l \in relations : l.child = c /\ l.confirmed}

AddRelation(l) ==
  /\ {l.child, l.parent} \subseteq Registered /\ l.child # l.parent
  /\ l.confirmed => \A o \in Confirmations(l.child) : o.parent = l.parent
  /\ ~\E o \in relations : <<o.child, o.parent, o.kind>> = <<l.child, l.parent, l.kind>>
  /\ Cardinality(relations) < MaxRelations
  /\ relations' = relations \cup {l}
  /\ dirty' = TRUE
  /\ UNCHANGED <<fx, observed, heard, daily>>

-----------------------------------------------------------------------------
(* rootDate, rebuildDaily: where a record is counted. *)
PostedAt(r) == IF fx[r].status = "posted" THEN fx[r].date ELSE "unassigned"
ParentOf(c) == (CHOOSE l \in Confirmations(c) : TRUE).parent
RootDate(r) ==
  IF r \in Buys THEN PostedAt(r)
  ELSE IF Cardinality(Confirmations(r)) = 1 THEN PostedAt(ParentOf(r))
  ELSE "unassigned"
DayOf(r, basis) == IF basis = "posted" THEN fx[r].date ELSE RootDate(r)

Rebuilt ==
  [b \in Buckets |->
     LET counted == {r \in Registered : DayOf(r, b[1]) = b[2]} IN
     [net |-> -Sum(PostedOf(counted)),
      issues |-> Cardinality({r \in counted : fx[r].sync # "current"})]]

(* report: what is dirty is rebuilt before it is read. *)
ReadReport ==
  /\ dirty
  /\ daily' = Rebuilt /\ dirty' = FALSE
  /\ UNCHANGED <<fx, observed, relations, heard>>

(* detail: the purchase of a record that one relation confirms, and the    *)
(* net amount of a purchase with every record confirmed to belong to it.   *)
RootOf(r) ==
  IF r \in Followups /\ Cardinality(Confirmations(r)) = 1 THEN ParentOf(r) ELSE r
Children(root) == {c \in FxIds : \E l \in Confirmations(c) : l.parent = root}
NetOf(root) == -Sum(PostedOf({root} \cup Children(root)))

-----------------------------------------------------------------------------
FxNext ==
  \/ \E r \in FxIds : \E v \in FxSays[r] : Register(r, v)
  \/ \E r \in FxIds : BeginRead(r)
  \/ \E r \in FxIds : \E n \in 1..FxReads[r], v \in FxSays[r] : ApplyRead(r, n, v)
  \/ \E e \in DOMAIN FxEvents : Notified(e)
  \/ \E l \in Relations : AddRelation(l)
  \/ ReadReport

FxSpec == FxInit /\ [][FxNext]_fxVars

-----------------------------------------------------------------------------
FxTypes ==
  /\ \A r \in Registered :
       /\ Shown(r) \in FxSays[r]
       /\ fx[r].requested \in 0..FxReads[r] /\ fx[r].applied \in 0..fx[r].requested
       /\ fx[r].sync \in {"current", "refresh_required", "resync_required"}
  /\ \A r \in FxIds : \A n \in 1..FxReads[r] : observed[r][n] \in FxSays[r] \cup {Unseen}
  /\ relations \subseteq Relations
  /\ heard \subseteq DOMAIN FxEvents /\ dirty \in BOOLEAN
  /\ daily \in [Buckets -> [net: Int, issues: Nat]]

(* A record that says it is current shows the answer to the latest request *)
(* that was answered, in whatever order the answers came: applyRead keeps  *)
(* late answers and answers that would take back a posting, and marks the  *)
(* record instead (fx/store.mjs:101).                                      *)
CurrentIsNewest ==
  \A r \in Registered :
    /\ fx[r].sync = "current" =>
         \A n \in 1..FxReads[r] : observed[r][n] # Unseen => n <= fx[r].applied
    /\ fx[r].applied # 0 => Shown(r) = observed[r][fx[r].applied]

(* Records of a purchase's details whose own details are others': a child  *)
(* that is a purchase, and one related under two kinds.                    *)
Strays(root) == {c \in Children(root) : RootOf(c) # root}
OwnNet(root) == NetOf(root) + Sum(PostedOf(Strays(root)))

(* A report that is not dirty agrees with the detail pages: on every day   *)
(* the net amount by order is the sum of what the details of the records   *)
(* of that day show, less the strays, which the report counts on the day   *)
(* of their own details; so each record counts once.  The records that are *)
(* not current are counted (fx/query.mjs:199 and 332).                     *)
ReportAgrees ==
  ~dirty =>
    LET roots == {r \in Registered : RootOf(r) = r} IN
    /\ \A b \in Buckets :
         b[1] = "order" =>
           daily[b].net = SumFunction([r \in {s \in roots : RootDate(s) = b[2]} |-> OwnNet(r)])
    /\ SumFunction([d \in FxDates \cup {"unassigned"} |-> daily[<<"posted", d>>].issues])
         = Cardinality({r \in Registered : fx[r].sync # "current"})

(* Records and reports say what is newest: a current record shows the last *)
(* answer, and a clean report adds up to the details.                      *)
ReportsAreCurrent == CurrentIsNewest /\ ReportAgrees
=============================================================================
