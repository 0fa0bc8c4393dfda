------------------------------ MODULE Issuing -------------------------------
(***************************************************************************)
(* The card-issuing saga of one customer: internal/issuing.Service over    *)
(* the funds ledger and the card provider (Slash).                         *)
(*                                                                         *)
(* An order reserves the fee and the first funding, asks the provider for  *)
(* a restricted card, charges the fee, moves the funding to the card's     *)
(* account and raises the card's limit.  A top-up funds the card of an     *)
(* order whose first funding failed.  Process runs one order at a time     *)
(* under its session lock; it may stop between any two calls (a crash, an  *)
(* expired context, an error return), and then the tick starts it again    *)
(* from the state that was committed last.                                 *)
(*                                                                         *)
(* The ledger appears as it promises to behave (LedgerPromise): a move     *)
(* that was submitted is applied or refused at some later time, whoever    *)
(* drives it, and a repeat of it changes nothing.                          *)
(***************************************************************************)
EXTENDS Integers, Sequences, FiniteSetsExt

CONSTANTS
  Orders,       \* orders the customer may place, top-ups included
  CardOrder,    \* order -> the order that created its card (itself, or its parent)
  Fee,          \* order -> fee_minor
  Funding,      \* order -> funding_minor
  Opening,      \* what the wallet holds at first
  Steadfast,    \* a limit the provider refused once, it refuses for ever
  ReadsRefused  \* reading a card may be answered 400 or 422

ASSUME IssuingAssumption ==
  /\ CardOrder \in [Orders -> Orders]
  /\ \A o \in Orders : CardOrder[CardOrder[o]] = CardOrder[o]
  /\ Fee \in [Orders -> Nat]
  /\ \A o \in Orders : CardOrder[o] # o => Fee[o] = 0
  /\ Funding \in [Orders -> Nat \ {0}]
  /\ Opening \in Nat
  /\ {Steadfast, ReadsRefused} \subseteq BOOLEAN

VARIABLES
  state,     \* issuing_orders.state, "absent" before the row exists
  run,       \* what the process that holds the order's session lock is doing
  op,        \* the ledger operation of each leg of the order
  limit,     \* the order's card at the provider: its limit, if there is one
  inflight,  \* requests the provider may execute after the client gave up
  refused,   \* orders whose limit the provider has refused
  blocked,   \* the supplier is in issuing_supplier_blocks
  allowed,   \* the customer is enrolled, active and approved
  paused     \* the product is not active

vars == <<state, run, op, limit, inflight, refused, blocked, allowed, paused>>

States == {"absent", "queued", "reserved", "creating", "provider_unknown",
           "created", "fee_charged", "funded", "enabling", "active",
           "releasing", "failed", "funding_failed", "review_required"}
Steps == {"idle", "transfer", "create", "record_created", "find", "record_found",
          "read", "put", "check", "conclude"}
Answers == {"none", "restricted", "loose", "ok", "rejected", "denied", "unknown"}
Legs == {"reserve", "fee", "fund", "unfund_hold", "unfund", "release"}

NoCard == -1
Loose == -2   \* a card whose limit is neither zero nor a funding

TopUp(o) == CardOrder[o] # o

-----------------------------------------------------------------------------
(* The ledger: the accounts and amounts of the legs, and what has moved.   *)
Amount(o, leg) ==
  CASE leg \in {"reserve", "release"} -> Fee[o] + Funding[o]
    [] leg = "fee" -> Fee[o]
    [] OTHER       -> Funding[o]

Wallet == <<"wallet">>
Revenue == <<"fee_revenue">>
Hold(o) == <<"order", o>>
CardAccount(o) == <<"card", CardOrder[o]>>

Source(o, leg) ==
  CASE leg = "reserve"     -> Wallet
    [] leg = "unfund_hold" -> CardAccount(o)
    [] OTHER               -> Hold(o)
Dest(o, leg) ==
  CASE leg \in {"reserve", "unfund_hold"} -> Hold(o)
    [] leg = "fee"                        -> Revenue
    [] leg = "fund"                       -> CardAccount(o)
    [] OTHER                              -> Wallet

Moved == {m \in Orders \X Legs : op[m[1]][m[2]] \in {"posted", "applied"}}
SumOf(moves) == SumFunction([m \in moves |-> Amount(m[1], m[2])])
Balance(a) ==
  (IF a = Wallet THEN Opening ELSE 0)
    + SumOf({m \in Moved : Dest(m[1], m[2]) = a})
    - SumOf({m \in Moved : Source(m[1], m[2]) = a})

Unsettled(o, leg) == op[o][leg] \in {"pending", "posted"}
SetOp(o, leg, value) == op' = [op EXCEPT ![o][leg] = value]
OnlyOpChanges == UNCHANGED <<state, run, limit, inflight, refused, blocked, allowed, paused>>

(* Blnk moves the money of a submitted operation. *)
PostLeg(o, leg) ==
  /\ op[o][leg] = "pending"
  /\ Balance(Source(o, leg)) >= Amount(o, leg)
  /\ SetOp(o, leg, "posted")
  /\ OnlyOpChanges

(* The ledger learns that it has moved: the operation is applied. *)
SettleLeg(o, leg) ==
  /\ op[o][leg] = "posted"
  /\ SetOp(o, leg, "applied")
  /\ OnlyOpChanges

(* The source does not cover it: the operation is over without effect. *)
RefuseLeg(o, leg) ==
  /\ op[o][leg] = "pending"
  /\ Balance(Source(o, leg)) < Amount(o, leg)
  /\ SetOp(o, leg, "refused")
  /\ OnlyOpChanges

-----------------------------------------------------------------------------
Idle == [step |-> "idle", answer |-> "none"]
Goto(o, step, answer) == run' = [run EXCEPT ![o] = [step |-> step, answer |-> answer]]
Stop(o) == run' = [run EXCEPT ![o] = Idle]
Enter(o, s) == state' = [state EXCEPT ![o] = s]
At(o, step) == run[o].step = step

ProviderUnchanged == UNCHANGED <<limit, inflight, refused>>
SettingsUnchanged == UNCHANGED <<blocked, allowed, paused>>
OutsideUnchanged == ProviderUnchanged /\ SettingsUnchanged /\ UNCHANGED op

Open == ~blocked /\ allowed
Product(o) == TopUp(o) \/ ~paused

Init ==
  /\ state = [o \in Orders |-> "absent"]
  /\ run = [o \in Orders |-> Idle]
  /\ op = [o \in Orders |-> [leg \in Legs |-> "absent"]]
  /\ limit = [o \in Orders |-> NoCard]
  /\ inflight = {}
  /\ refused = {}
  /\ blocked = FALSE /\ allowed = TRUE /\ paused = FALSE

(* Submit: a new order, when the wallet covers it and no ledger operation  *)
(* is pending.                                                             *)
Submit(o) ==
  /\ state[o] = "absent" /\ ~TopUp(o)
  /\ Open /\ ~paused
  /\ \A p \in Orders, leg \in Legs : ~Unsettled(p, leg)
  /\ Balance(Wallet) >= Fee[o] + Funding[o]
  /\ Enter(o, "queued")
  /\ UNCHANGED run /\ OutsideUnchanged

(* Mistake: another top-up may still be under way. *)
TopupAgain(o) ==
  /\ state[o] = "absent" /\ TopUp(o)
  /\ state[CardOrder[o]] = "funding_failed"
  /\ Open
  /\ Enter(o, "queued")
  /\ UNCHANGED run /\ OutsideUnchanged

(* Topup: new funding for a card whose first funding failed. *)
Topup(o) ==
  /\ state[o] = "absent" /\ TopUp(o)
  /\ state[CardOrder[o]] = "funding_failed"
  /\ \A p \in Orders : TopUp(p) /\ CardOrder[p] = CardOrder[o]
       => state[p] \in {"absent", "failed", "funding_failed"}
  /\ Open
  /\ Enter(o, "queued")
  /\ UNCHANGED run /\ OutsideUnchanged

-----------------------------------------------------------------------------
(* Process, the states that wait for the ledger.                           *)
Transfers == [queued      |-> [legs |-> <<"reserve">>, next |-> "reserved"],
              created     |-> [legs |-> <<"fee">>, next |-> "fee_charged"],
              fee_charged |-> [legs |-> <<"fund">>, next |-> "funded"],
              enabling    |-> [legs |-> <<"unfund_hold", "unfund">>,
                               next |-> "funding_failed"],
              releasing   |-> [legs |-> <<"release">>, next |-> "failed"]]

(* Mistake: money is only sent back while the provider may be used. *)
MayTransferOnlyWhenOpen(o) ==
  Open /\ state[o] \in {"queued", "created", "fee_charged", "releasing"}

(* A reservation that was submitted is recovered whatever was paused since;*)
(* funding the card needs the provider and the customer; the fee of a card *)
(* that exists and the release of a reservation wait for nobody.           *)
MayTransfer(o) ==
  \/ state[o] = "queued" /\ (op[o]["reserve"] # "absent" \/ (Open /\ Product(o)))
  \/ state[o] \in {"created", "releasing"}
  \/ state[o] = "fee_charged" /\ Open

BeginTransfer(o) ==
  /\ At(o, "idle") /\ MayTransfer(o)
  /\ Goto(o, "transfer", "none")
  /\ UNCHANGED state /\ OutsideUnchanged

Done(o, leg) == op[o][leg] = "applied" \/ Amount(o, leg) = 0

(* Submit of the ledger: the operation is durable before the order's row   *)
(* is.  A card pays back through the order's hold, one leg after the other.*)
SubmitLeg(o) ==
  /\ At(o, "transfer")
  /\ LET legs == Transfers[state[o]].legs IN
     \E i \in DOMAIN legs :
       /\ \A j \in 1..i-1 : Done(o, legs[j])
       /\ ~Done(o, legs[i]) /\ op[o][legs[i]] = "absent"
       /\ SetOp(o, legs[i], "pending")
  /\ UNCHANGED <<state, run>> /\ ProviderUnchanged /\ SettingsUnchanged

(* All legs are applied: the order's next state is committed. *)
Transferred(o) ==
  /\ At(o, "transfer")
  /\ \A i \in DOMAIN Transfers[state[o]].legs : Done(o, Transfers[state[o]].legs[i])
  /\ Enter(o, Transfers[state[o]].next) /\ Stop(o)
  /\ OutsideUnchanged

(* The wallet did not cover the reservation. *)
ReserveRefused(o) ==
  /\ At(o, "transfer") /\ state[o] = "queued"
  /\ op[o]["reserve"] = "refused"
  /\ Enter(o, "failed") /\ Stop(o)
  /\ OutsideUnchanged

(* Mistake: a reservation that may have been posted is forgotten. *)
FailQueuedAnyway(o) ==
  /\ At(o, "idle") /\ state[o] = "queued"
  /\ ~(Open /\ Product(o))
  /\ Enter(o, "failed")
  /\ UNCHANGED run /\ OutsideUnchanged

(* A queued order whose reservation nobody submitted and which is no       *)
(* longer allowed.                                                         *)
FailQueued(o) ==
  /\ At(o, "idle") /\ state[o] = "queued"
  /\ op[o]["reserve"] = "absent" /\ ~(Open /\ Product(o))
  /\ Enter(o, "failed")
  /\ UNCHANGED run /\ OutsideUnchanged

(* A reserved order that is no longer allowed is released. *)
ReleaseReserved(o) ==
  /\ At(o, "idle") /\ state[o] = "reserved"
  /\ ~(Open /\ Product(o))
  /\ Enter(o, "releasing")
  /\ UNCHANGED run /\ OutsideUnchanged

(* A top-up has its card already. *)
SkipCreate(o) ==
  /\ At(o, "idle") /\ state[o] = "reserved" /\ TopUp(o) /\ Open
  /\ Enter(o, "fee_charged")
  /\ UNCHANGED run /\ OutsideUnchanged

-----------------------------------------------------------------------------
(* Process, creating the card.                                             *)

(* "creating" is committed before the provider is asked. *)
BeginCreate(o) ==
  /\ At(o, "idle") /\ state[o] = "reserved" /\ ~TopUp(o) /\ Open /\ ~paused
  /\ Enter(o, "creating") /\ Goto(o, "create", "none")
  /\ OutsideUnchanged

Seen(o) == IF limit[o] = 0 THEN "restricted" ELSE "loose"

(* POST /card: the card is made, perhaps without the restriction asked     *)
(* for, and the response may get lost.                                     *)
CreateCard(o) ==
  /\ At(o, "create")
  /\ \E made \in {0, Loose} :
       /\ limit' = [limit EXCEPT ![o] = made]
       /\ \E answer \in {IF made = 0 THEN "restricted" ELSE "loose", "unknown"} :
            Goto(o, "record_created", answer)
  /\ UNCHANGED <<state, op, inflight, refused>> /\ SettingsUnchanged

(* POST /card is refused, denied or lost, or it arrives later. *)
CreateFails(o) ==
  /\ At(o, "create")
  /\ \/ /\ UNCHANGED inflight
        /\ \E answer \in {"rejected", "denied", "unknown"} : Goto(o, "record_created", answer)
     \/ /\ inflight' = inflight \cup {<<"create", o>>}
        /\ Goto(o, "record_created", "unknown")
  /\ UNCHANGED <<state, op, limit, refused>> /\ SettingsUnchanged

CreateLate(o) ==
  /\ <<"create", o>> \in inflight
  /\ inflight' = inflight \ {<<"create", o>>}
  /\ \E made \in {0, Loose} : limit' = [limit EXCEPT ![o] = made]
  /\ UNCHANGED <<state, run, op, refused>> /\ SettingsUnchanged

(* An order whose request may have been made only looks for its card. *)
BeginFind(o) ==
  /\ At(o, "idle") /\ state[o] \in {"creating", "provider_unknown"}
  /\ ~blocked
  /\ Goto(o, "find", "none")
  /\ UNCHANGED state /\ OutsideUnchanged

FindCard(o) ==
  /\ At(o, "find")
  /\ \/ limit[o] # NoCard /\ Goto(o, "record_found", Seen(o))
     \/ \E answer \in {"rejected", "denied", "unknown"} : Goto(o, "record_found", answer)
  /\ UNCHANGED state /\ OutsideUnchanged

(* Mistakes: a state the table does not have; no answer taken for a refusal. *)
RecordedMisnamed(o) ==
  CASE run[o].answer = "restricted" -> "created"
    [] run[o].answer = "loose"      -> "review"
    [] OTHER                        -> "provider_unknown"
RecordedHastily(o) ==
  CASE run[o].answer = "restricted" -> "created"
    [] run[o].answer = "loose"      -> "review_required"
    [] run[o].answer \notin {"restricted", "loose"} /\ At(o, "record_created") -> "releasing"
    [] OTHER                        -> "provider_unknown"

(* recordCard: only the answer to the request itself can say that there    *)
(* will be no card.                                                        *)
Recorded(o) ==
  CASE run[o].answer = "restricted" -> "created"
    [] run[o].answer = "loose"      -> "review_required"
    [] run[o].answer \in {"rejected", "denied"} /\ At(o, "record_created") -> "releasing"
    [] OTHER                        -> "provider_unknown"

RecordCard(o) ==
  /\ run[o].step \in {"record_created", "record_found"}
  /\ Enter(o, Recorded(o)) /\ Stop(o)
  /\ blocked' = (blocked \/ run[o].answer = "denied")
  /\ UNCHANGED <<op, allowed, paused>> /\ ProviderUnchanged

-----------------------------------------------------------------------------
(* Process, enabling the card: Enable reads the card, raises its limit and *)
(* reads it again.                                                         *)
BeginEnable(o) ==
  /\ At(o, "idle") /\ state[o] \in {"funded", "enabling"} /\ Open
  /\ Enter(o, "enabling") /\ Goto(o, "read", "none")
  /\ OutsideUnchanged

ReadFails == {"denied", "unknown"} \cup (IF ReadsRefused THEN {"rejected"} ELSE {})

ReadCard(o) ==
  LET seen == limit[CardOrder[o]] IN
  /\ At(o, "read")
  /\ \/ seen = Funding[o] /\ Goto(o, "conclude", "ok")
     \/ seen = 0 /\ Goto(o, "put", "none")
     \/ seen \notin {0, Funding[o]} /\ Goto(o, "conclude", "unknown")
     \/ \E answer \in ReadFails : Goto(o, "conclude", answer)
  /\ UNCHANGED state /\ OutsideUnchanged

Accepts(o) == Steadfast => o \notin refused

PutAccepted(o) ==
  /\ At(o, "put") /\ Accepts(o)
  /\ limit' = [limit EXCEPT ![CardOrder[o]] = Funding[o]]
  /\ Goto(o, "check", "unknown")
  /\ UNCHANGED <<state, op, inflight, refused>> /\ SettingsUnchanged

PutRefused(o) ==
  /\ At(o, "put")
  /\ refused' = refused \cup {o}
  /\ Goto(o, "check", "rejected")
  /\ UNCHANGED <<state, op, limit, inflight>> /\ SettingsUnchanged

(* The limit is denied, or the request is lost or arrives later. *)
PutFails(o) ==
  /\ At(o, "put")
  /\ \/ /\ UNCHANGED inflight
        /\ \E answer \in {"denied", "unknown"} : Goto(o, "check", answer)
     \/ /\ inflight' = inflight \cup {<<"put", o>>}
        /\ Goto(o, "check", "unknown")
  /\ UNCHANGED <<state, op, limit, refused>> /\ SettingsUnchanged

PutLate(o) ==
  /\ <<"put", o>> \in inflight /\ Accepts(o)
  /\ inflight' = inflight \ {<<"put", o>>}
  /\ limit' = [limit EXCEPT ![CardOrder[o]] = Funding[o]]
  /\ UNCHANGED <<state, run, op, refused>> /\ SettingsUnchanged

Checked(o) ==
  LET seen == limit[CardOrder[o]] IN
  IF run[o].answer = "denied" THEN "denied"
  ELSE IF seen = Funding[o] THEN "ok"
  ELSE IF seen = 0 THEN run[o].answer ELSE "unknown"

CheckCard(o) ==
  /\ At(o, "check")
  /\ \E answer \in ReadFails \cup {Checked(o)} : Goto(o, "conclude", answer)
  /\ UNCHANGED state /\ OutsideUnchanged

(* The card is usable: the order, and for a top-up its parent, are active. *)
Enabled(o) ==
  /\ At(o, "conclude") /\ run[o].answer = "ok"
  /\ state' = [state EXCEPT ![o] = "active", ![CardOrder[o]] = "active"]
  /\ Stop(o)
  /\ OutsideUnchanged

(* The limit was refused: the first funding goes back before the order's   *)
(* row says so.                                                            *)
EnableRejected(o) ==
  /\ At(o, "conclude") /\ run[o].answer = "rejected"
  /\ Goto(o, "transfer", "none")
  /\ UNCHANGED state /\ OutsideUnchanged

EnableUnknown(o) ==
  /\ At(o, "conclude") /\ run[o].answer \in {"denied", "unknown"}
  /\ Stop(o)
  /\ blocked' = (blocked \/ run[o].answer = "denied")
  /\ UNCHANGED <<state, op, allowed, paused>> /\ ProviderUnchanged

(* A crash, an expired context, an error of the database or of the ledger. *)
GiveUp(o) ==
  /\ ~At(o, "idle")
  /\ Stop(o)
  /\ UNCHANGED state /\ OutsideUnchanged

-----------------------------------------------------------------------------
(* The operators: recovery of an order, and the settings.                  *)

(* Recovery looks again for a card whose restriction was not verified. *)
Recover(o) ==
  /\ state[o] = "review_required"
  /\ Enter(o, "provider_unknown")
  /\ UNCHANGED run /\ OutsideUnchanged

(* Somebody restricts the card at the provider's. *)
RestrictCard(o) ==
  /\ limit[o] = Loose
  /\ limit' = [limit EXCEPT ![o] = 0]
  /\ UNCHANGED <<state, run, op, inflight, refused>> /\ SettingsUnchanged

SaveEnrollment ==
  /\ allowed' = ~allowed
  /\ UNCHANGED <<state, run, op, blocked, paused>> /\ ProviderUnchanged
SaveProduct ==
  /\ paused' = ~paused
  /\ UNCHANGED <<state, run, op, blocked, allowed>> /\ ProviderUnchanged
ResumeSupplier ==
  /\ blocked /\ blocked' = FALSE
  /\ UNCHANGED <<state, run, op, allowed, paused>> /\ ProviderUnchanged

Ledger(o) == \E leg \in Legs : PostLeg(o, leg) \/ SettleLeg(o, leg) \/ RefuseLeg(o, leg)
Place(o) == Submit(o) \/ Topup(o)
Decide(o) ==
  FailQueued(o) \/ ReleaseReserved(o) \/ SkipCreate(o)
Transfer(o) ==
  BeginTransfer(o) \/ SubmitLeg(o) \/ Transferred(o) \/ ReserveRefused(o)
Create(o) ==
  BeginCreate(o) \/ CreateCard(o) \/ CreateFails(o) \/ CreateLate(o)
    \/ BeginFind(o) \/ FindCard(o) \/ RecordCard(o)
Enable(o) ==
  \/ BeginEnable(o) \/ ReadCard(o)
  \/ PutAccepted(o) \/ PutRefused(o) \/ PutFails(o) \/ PutLate(o)
  \/ CheckCard(o) \/ Enabled(o) \/ EnableRejected(o) \/ EnableUnknown(o)
Operate(o) == Recover(o) \/ RestrictCard(o)

Next ==
  \/ \E o \in Orders : Place(o) \/ Decide(o) \/ Transfer(o) \/ Create(o) \/ Enable(o)
                         \/ GiveUp(o) \/ Operate(o) \/ Ledger(o)
  \/ SaveEnrollment \/ SaveProduct \/ ResumeSupplier

Spec == Init /\ [][Next]_vars

(***************************************************************************)
(* Fairness: the tick starts every order that is due, a call ends with its *)
(* context, and a transfer that is started for ever is not interrupted     *)
(* every time: its legs, which nobody else has to drive, get through.  The *)
(* provider, the customer and the operators owe nothing.                   *)
(***************************************************************************)
Fairness ==
  \A o \in Orders :
    /\ WF_vars(GiveUp(o)) /\ WF_vars(Decide(o))
    /\ SF_vars(BeginTransfer(o)) /\ SF_vars(SubmitLeg(o))
    /\ SF_vars(At(o, "transfer") /\ Ledger(o))
    /\ SF_vars(Transferred(o) \/ ReserveRefused(o))

FairSpec == Spec /\ Fairness

-----------------------------------------------------------------------------
(* Types of all variables. *)
TypeOK ==
  /\ state \in [Orders -> States]
  /\ run \in [Orders -> [step : Steps, answer : Answers]]
  /\ op \in [Orders -> [Legs -> {"absent", "pending", "posted", "applied", "refused"}]]
  /\ limit \in [Orders -> Nat \cup {NoCard, Loose}]
  /\ inflight \subseteq {"create", "put"} \X Orders
  /\ refused \subseteq Orders
  /\ {blocked, allowed, paused} \subseteq BOOLEAN

Asked(o, leg) == op[o][leg] # "absent"
NoneOpen(o) == \A leg \in Legs : ~Unsettled(o, leg)

(* The terms of checkout.go, for an order that is over: a failed one gave  *)
(* back everything, one whose funding failed gave back the funding and     *)
(* kept the fee, an active one (or the top-up that replaced its funding)   *)
(* paid both; and no move of it is still under way.                        *)
SettledByTheTerms ==
  \A o \in Orders :
    /\ state[o] \in {"failed", "funding_failed", "active"} =>
         NoneOpen(o) /\ Balance(Hold(o)) = 0
    /\ state[o] = "failed" => \A leg \in {"fee", "fund"} : ~Asked(o, leg)
    /\ state[o] = "funding_failed" => Done(o, "fee") \/ TopUp(o)
    /\ state[o] = "funding_failed" => Done(o, "unfund")

(* The prepayment goes back only when there is no card and none can come   *)
(* any more, and the fee is charged only for a card that exists            *)
(* (client-card-issuing.md:25 and :95).                                    *)
MoneyFollowsTheCard ==
  \A o \in Orders : ~TopUp(o) =>
    /\ Asked(o, "release") => limit[o] = NoCard /\ <<"create", o>> \notin inflight
    /\ Asked(o, "fee") => limit[o] # NoCard

(* A card is asked for once: before "creating" is committed the provider   *)
(* has not been asked, and an order never returns to such a state          *)
(* (client-card-issuing.md:80, an unknown result is not issued again).     *)
AskedOnce ==
  \A o \in Orders : state[o] \in {"absent", "queued", "reserved"} =>
    /\ limit[o] = NoCard /\ <<"create", o>> \notin inflight
    /\ run[o].step \in {"idle", "transfer"}

(* A card is asked for once, and the money follows it: what is asked for   *)
(* and what is settled fit in every order (client-card-issuing.md:80).     *)
FollowsTheCard == MoneyFollowsTheCard /\ AskedOnce

(* What the provider lets a card spend is what its account holds: a card   *)
(* whose funding went back stays restricted, and two top-ups never add up  *)
(* (client-card-issuing.md:30 and :97).                                    *)
LimitIsFunded ==
  \A o \in Orders : limit[o] > 0 => Balance(CardAccount(o)) = limit[o]

(* An active order has a card that is usable and funded. *)
ActiveIsFunded ==
  \A o \in Orders : state[o] = "active" =>
    limit[CardOrder[o]] > 0 /\ Balance(CardAccount(o)) > 0

(* Only a reservation can be refused for lack of money: what an order's    *)
(* hold or its card owes later is always there.                            *)
OnlyReservationsAreRefused ==
  \A o \in Orders, leg \in Legs \ {"reserve"} : op[o][leg] # "refused"

(* What a card may spend, and what an active order promises, is there,     *)
(* whatever the provider accepted late or read back                        *)
(* (issuing/engine.go:259-283); and a move that follows a reservation      *)
(* never lacks the money it moves.                                         *)
SpendingIsFunded == LimitIsFunded /\ ActiveIsFunded /\ OnlyReservationsAreRefused

(* States that wait for nothing but the ledger pass: a reservation that    *)
(* failed is released, the fee of a card is charged.                       *)
LedgerStatesPass ==
  \A o \in Orders, s \in {"queued", "created", "releasing"} :
    state[o] = s ~> state[o] # s

-----------------------------------------------------------------------------
(* Why AskedOnce and MoneyFollowsTheCard hold: the inductive invariant.    *)

(* There is no card of this order and none on its way. *)
Cardless(o) == limit[o] = NoCard /\ <<"create", o>> \notin inflight

(* A process is only where the committed state of its order lets it be. *)
RunsFit ==
  \A o \in Orders :
    /\ At(o, "transfer") => state[o] \in DOMAIN Transfers
    /\ run[o].step \in {"create", "record_created"} => state[o] = "creating"
    /\ run[o].step \in {"find", "record_found"} => state[o] \in {"creating", "provider_unknown"}
    /\ run[o].step \in {"read", "put", "check", "conclude"} => state[o] = "enabling"

(* What the provider's answer says of the card when it is recorded. *)
AnswersFit ==
  \A o \in Orders :
    /\ At(o, "create") => Cardless(o)
    /\ run[o].step \in {"record_created", "record_found"} =>
         /\ run[o].answer \in {"restricted", "loose"} => limit[o] # NoCard
         /\ At(o, "record_created") /\ run[o].answer \in {"rejected", "denied"} => Cardless(o)

(* Where an order may have a card, and where it must have one. *)
CardsFit ==
  \A o \in Orders :
    /\ state[o] \in {"absent", "queued", "reserved", "releasing", "failed"} => Cardless(o)
    /\ TopUp(o) => /\ Cardless(o)
                   /\ state[o] \notin {"creating", "provider_unknown", "created", "review_required"}
    /\ ~TopUp(o) /\ state[o] \in {"created", "review_required", "fee_charged", "funded",
                                   "enabling", "active", "funding_failed"}
         => limit[o] # NoCard

(* Only a card whose first funding failed has top-ups, and only a card     *)
(* that was to be enabled has requests for a limit under way.              *)
TopupsFit ==
  \A o \in Orders :
    /\ TopUp(o) /\ state[o] # "absent" =>
         state[CardOrder[o]] \in {"funding_failed", "active"}
    /\ <<"put", o>> \in inflight =>
         state[CardOrder[o]] \in {"enabling", "funding_failed", "active"}

(* Which moves an order has submitted, by its state. *)
MovesFit ==
  \A o \in Orders :
    /\ Asked(o, "release") => state[o] \in {"releasing", "failed"}
    /\ Asked(o, "fee") /\ ~TopUp(o) => limit[o] # NoCard

Inductive ==
  TypeOK /\ RunsFit /\ AnswersFit /\ CardsFit /\ TopupsFit /\ MovesFit

-----------------------------------------------------------------------------
(* Why SettledByTheTerms and SpendingIsFunded hold, when a limit that was  *)
(* refused stays refused and a read is not: what more is inductive.        *)

(* The moves an order has made, by its state: the reservation before       *)
(* anything else, and the return of the funding from the card first.       *)
MovesInOrder ==
  \A o \in Orders :
    /\ state[o] = "absent" => ~Asked(o, "reserve")
    /\ state[o] \notin {"absent", "queued", "failed"} => op[o]["reserve"] = "applied"
    /\ state[o] = "failed" =>
         \/ op[o]["reserve"] \in {"absent", "refused"} /\ ~Asked(o, "release")
         \/ op[o]["reserve"] = "applied" /\ op[o]["release"] = "applied"
    /\ Asked(o, "fee") => Fee[o] > 0
    /\ Asked(o, "fee") =>
         state[o] \in {"created", "fee_charged", "funded", "enabling", "active", "funding_failed"}
    /\ state[o] \in {"fee_charged", "funded", "enabling", "active", "funding_failed"} =>
         Fee[o] = 0 \/ op[o]["fee"] = "applied"
    /\ Asked(o, "fund") =>
         state[o] \in {"fee_charged", "funded", "enabling", "active", "funding_failed"}
    /\ state[o] \in {"funded", "enabling", "active", "funding_failed"} => op[o]["fund"] = "applied"
    /\ Asked(o, "unfund_hold") => state[o] \in {"enabling", "active", "funding_failed"}
    /\ Asked(o, "unfund") => op[o]["unfund_hold"] = "applied"
    /\ state[o] = "funding_failed" \/ (state[o] = "active" /\ Asked(o, "unfund_hold"))
         => op[o]["unfund"] = "applied"

(* An order that claims nothing of its card (any more): an order that      *)
(* became active with a top-up is one that gave its own funding back.      *)
Over(o) ==
  \/ state[o] \in {"absent", "failed", "funding_failed"}
  \/ state[o] = "active" /\ op[o]["unfund"] = "applied"

SameCard(o, p) == CardOrder[o] = CardOrder[p]

(* Of the orders of one card, one at most is not over. *)
OneClaims ==
  \A o, p \in Orders : o # p /\ SameCard(o, p) => Over(o) \/ Over(p)

(* A funding goes back only when its limit was refused and the card is     *)
(* restricted; an order becomes active only when the card has its limit.   *)
GoesBack(o) ==
  \/ Asked(o, "unfund_hold")
  \/ At(o, "transfer")
  \/ At(o, "conclude") /\ run[o].answer = "rejected"

RefusalsFit ==
  \A o \in Orders :
    /\ Asked(o, "unfund_hold") => o \in refused
    /\ At(o, "check") => run[o].answer # "ok"
    /\ At(o, "check") /\ run[o].answer = "rejected" => o \in refused
    /\ state[o] = "enabling" /\ GoesBack(o) => o \in refused /\ limit[CardOrder[o]] = 0
    /\ At(o, "conclude") /\ run[o].answer = "ok" => limit[CardOrder[o]] = Funding[o]

(* What a card may spend is the funding of an order that has not asked for *)
(* it back.                                                                *)
Spends(o) == state[o] \in {"enabling", "active"} /\ ~Asked(o, "unfund_hold")

Backed(o) == \E p \in Orders : CardOrder[p] = o /\ limit[o] = Funding[p] /\ Spends(p)

LimitsFit ==
  \A o \in Orders :
    /\ limit[o] > 0 => Backed(o)
    /\ state[o] = "active" => limit[CardOrder[o]] > 0
    /\ <<"create", o>> \in inflight => limit[o] = NoCard
    /\ <<"put", o>> \in inflight => state[o] \in {"enabling", "active", "funding_failed"}

(* What an order's hold has, and what it left on its card. *)
Paid(o, leg) == IF <<o, leg>> \in Moved THEN Amount(o, leg) ELSE 0
HeldFor(o) ==
  Paid(o, "reserve") - Paid(o, "fee") - Paid(o, "fund")
    + Paid(o, "unfund_hold") - Paid(o, "unfund") - Paid(o, "release")
OnCard(o) == Paid(o, "fund") - Paid(o, "unfund_hold")

BalancesFit ==
  /\ IsFiniteSet(Moved)
  /\ \A o \in Orders :
       /\ Balance(Hold(o)) = HeldFor(o)
       /\ (\A p \in Orders : p # o /\ SameCard(o, p) => Over(p))
            => Balance(CardAccount(o)) = OnCard(o)

Funded ==
  /\ MovesInOrder /\ OneClaims /\ RefusalsFit /\ LimitsFit /\ BalancesFit
  /\ OnlyReservationsAreRefused
=============================================================================
