---------------------------- MODULE IssuingProofs ----------------------------
(***************************************************************************)
(* Proofs about Issuing, for any number of orders and top-ups, any fees    *)
(* and fundings, and whatever the provider answers: Issuing's Inductive is *)
(* preserved by every action, and so is Funded, which says where the money *)
(* is, when a limit that was refused stays refused and reading a card is   *)
(* not refused for good; the safety properties follow from the two.        *)
(***************************************************************************)
EXTENDS Issuing, SumProofs

(* A card belongs to an order that is not a top-up.                        *)
LEMMA CardOrders ==
  ASSUME NEW o \in Orders
  PROVE  CardOrder[o] \in Orders /\ ~TopUp(CardOrder[o])
  BY IssuingAssumption DEF TopUp

(* Committing a state changes one order.                                   *)
LEMMA EnterEffect ==
  ASSUME TypeOK, NEW o \in Orders, NEW s \in States, Enter(o, s)
  PROVE  /\ state' \in [Orders -> States]
         /\ state'[o] = s
         /\ \A p \in Orders : p # o => state'[p] = state[p]
  BY DEF TypeOK, Enter

(* A process of an order goes on.                                          *)
LEMMA GotoEffect ==
  ASSUME TypeOK, NEW o \in Orders, NEW step \in Steps, NEW answer \in Answers,
         Goto(o, step, answer)
  PROVE  /\ run' \in [Orders -> [step : Steps, answer : Answers]]
         /\ run'[o].step = step /\ run'[o].answer = answer
         /\ \A p \in Orders : p # o => run'[p] = run[p]
  BY DEF TypeOK, Goto

(* A process of an order ends.                                             *)
LEMMA StopEffect ==
  ASSUME TypeOK, NEW o \in Orders, Stop(o)
  PROVE  /\ run' \in [Orders -> [step : Steps, answer : Answers]]
         /\ run'[o].step = "idle"
         /\ \A p \in Orders : p # o => run'[p] = run[p]
  BY DEF TypeOK, Stop, Idle, Steps, Answers

(* What a step that leaves some variables alone cannot disturb.            *)
LEMMA Undisturbed ==
  ASSUME Inductive
  PROVE  /\ UNCHANGED <<state, run>> => RunsFit'
         /\ UNCHANGED <<run, limit, inflight>> => AnswersFit'
         /\ UNCHANGED <<state, limit, inflight>> => CardsFit'
         /\ UNCHANGED <<state, inflight>> => TopupsFit'
         /\ UNCHANGED <<state, op, limit>> => MovesFit'
<1> USE DEF Inductive
<1>1. UNCHANGED <<state, run>> => RunsFit'
  BY DEF RunsFit, At
<1>2. ASSUME UNCHANGED <<run, limit, inflight>> PROVE AnswersFit'
  <2>1. \A o \in Orders : Cardless(o)' <=> Cardless(o)
    BY <1>2 DEF Cardless
  <2> QED BY <1>2, <2>1 DEF AnswersFit, At
<1>3. UNCHANGED <<state, limit, inflight>> => CardsFit'
  BY DEF CardsFit, Cardless
<1>4. UNCHANGED <<state, inflight>> => TopupsFit'
  BY DEF TopupsFit
<1>5. UNCHANGED <<state, op, limit>> => MovesFit'
  BY DEF MovesFit, Asked
<1> QED BY <1>1, <1>2, <1>3, <1>4, <1>5

(* Moving the money or submitting a move.                                  *)
LEMMA OpStep ==
  ASSUME Inductive, UNCHANGED <<state, run, limit, inflight, refused, blocked, allowed, paused>>,
         NEW o \in Orders, NEW leg \in Legs,
         NEW value \in {"pending", "posted", "applied", "refused"}, SetOp(o, leg, value),
         leg = "release" => Asked(o, leg) \/ state[o] = "releasing",
         leg = "fee" => Asked(o, leg) \/ state[o] = "created"
  PROVE  Inductive'
<1>1. TypeOK'
  BY DEF Inductive, TypeOK, SetOp
<1>2. \A p \in Orders, l \in Legs : Asked(p, l)' => Asked(p, l) \/ (p = o /\ l = leg)
  BY DEF Inductive, TypeOK, SetOp, Asked
<1>3. MovesFit'
  BY <1>2 DEF Inductive, MovesFit, CardsFit, Legs
<1> QED BY <1>1, <1>3, Undisturbed DEF Inductive

(* A step of one order's process that leaves its state and card alone.     *)
LEMMA RunStep ==
  ASSUME Inductive, UNCHANGED <<state, op, limit, inflight, allowed, paused>>,
         refused' \subseteq Orders, blocked' \in BOOLEAN,
         NEW o \in Orders,
         \/ Stop(o)
         \/ \E step \in Steps, answer \in Answers :
              /\ Goto(o, step, answer)
              /\ step = "transfer" => state[o] \in DOMAIN Transfers
              /\ step \notin {"create", "record_created"}
              /\ step \in {"read", "put", "check", "conclude"} => state[o] = "enabling"
              /\ step \in {"find", "record_found"} =>
                   state[o] \in {"creating", "provider_unknown"}
              /\ step = "record_found" /\ answer \in {"restricted", "loose"} =>
                   limit[o] # NoCard
  PROVE  Inductive'
<1> USE DEF Inductive
<1>1. CASE Stop(o)
  <2>1. TypeOK'
    BY <1>1, StopEffect DEF TypeOK
  <2>2. RunsFit'
    BY <1>1, StopEffect DEF RunsFit, At
  <2>3. AnswersFit'
    BY <1>1, StopEffect DEF AnswersFit, At, Cardless
  <2> QED BY <2>1, <2>2, <2>3, Undisturbed
<1>2. ASSUME NEW step \in Steps, NEW answer \in Answers, Goto(o, step, answer),
             step = "transfer" => state[o] \in DOMAIN Transfers,
             step \notin {"create", "record_created"},
             step \in {"read", "put", "check", "conclude"} => state[o] = "enabling",
             step \in {"find", "record_found"} => state[o] \in {"creating", "provider_unknown"},
             step = "record_found" /\ answer \in {"restricted", "loose"} => limit[o] # NoCard
      PROVE  Inductive'
  <2>1. TypeOK'
    BY <1>2, GotoEffect DEF TypeOK
  <2>2. /\ run'[o].step = step /\ run'[o].answer = answer
        /\ \A p \in Orders : p # o => run'[p] = run[p]
    BY <1>2, GotoEffect
  <2>3. RunsFit'
    BY <1>2, <2>2 DEF RunsFit, At
  <2>4. AnswersFit'
    BY <1>2, <2>2 DEF AnswersFit, At, Cardless
  <2> QED BY <2>1, <2>3, <2>4, Undisturbed
<1> QED BY <1>1, <1>2

(* A step that commits a state and leaves the order's process idle.        *)
LEMMA StateStep ==
  ASSUME Inductive, UNCHANGED <<op, limit, inflight, refused, allowed, paused>>,
         blocked' \in BOOLEAN,
         NEW o \in Orders, NEW s \in States, Enter(o, s),
         Stop(o) \/ (At(o, "idle") /\ UNCHANGED run),
         s \in {"absent", "queued", "reserved", "releasing", "failed"} => Cardless(o),
         TopUp(o) => s \notin {"creating", "provider_unknown", "created", "review_required"},
         ~TopUp(o) /\ s \in {"created", "review_required", "fee_charged", "funded",
                             "enabling", "active", "funding_failed"}
           => limit[o] # NoCard,
         TopUp(o) /\ s # "absent" => state[CardOrder[o]] \in {"funding_failed", "active"},
         state[o] \in {"enabling", "funding_failed", "active"} =>
           s = "active" \/ (state[o] = "enabling" /\ s = "funding_failed"),
         Asked(o, "release") => s \in {"releasing", "failed"}
  PROVE  Inductive'
<1> USE DEF Inductive
<1>1. /\ state' \in [Orders -> States] /\ state'[o] = s
      /\ \A p \in Orders : p # o => state'[p] = state[p]
  BY EnterEffect
<1>2. /\ run' \in [Orders -> [step : Steps, answer : Answers]]
      /\ run'[o].step = "idle"
      /\ \A p \in Orders : p # o => run'[p] = run[p]
  BY StopEffect DEF At, TypeOK
<1>3. TypeOK'
  BY <1>1, <1>2 DEF TypeOK
<1>4. RunsFit'
  BY <1>1, <1>2 DEF RunsFit, At
<1>5. \A p \in Orders : (Cardless(p)' <=> Cardless(p)) /\ \A l : Asked(p, l)' <=> Asked(p, l)
  BY DEF Cardless, Asked
<1>6. AnswersFit'
  BY <1>2, <1>5 DEF AnswersFit, At
<1>7. CardsFit'
  BY <1>1, <1>5 DEF CardsFit
<1>8. TopupsFit'
  <2>1. \A p \in Orders : CardOrder[p] \in Orders
    BY CardOrders
  <2>2. \A p \in Orders :
          /\ state[p] \in {"funding_failed", "active"} => state'[p] \in {"funding_failed", "active"}
          /\ state[p] \in {"enabling", "funding_failed", "active"} =>
               state'[p] \in {"enabling", "funding_failed", "active"}
    BY <1>1
  <2> QED BY <1>1, <2>1, <2>2 DEF TopupsFit
<1>9. MovesFit'
  BY <1>1, <1>5 DEF MovesFit
<1> QED BY <1>3, <1>4, <1>6, <1>7, <1>8, <1>9

(* A step of the provider on the card of an order, after which there is    *)
(* one.                                                                    *)
LEMMA CardStep ==
  ASSUME Inductive, UNCHANGED <<state, op, refused, blocked, allowed, paused>>,
         NEW c \in Orders, ~Cardless(c), ~TopUp(c),
         NEW made \in Nat \cup {Loose}, limit' = [limit EXCEPT ![c] = made],
         inflight' \subseteq inflight, UNCHANGED run
  PROVE  Inductive'
<1> USE DEF Inductive
<1>1. /\ limit'[c] = made /\ made # NoCard
      /\ \A p \in Orders : p # c => limit'[p] = limit[p]
  BY DEF TypeOK, NoCard, Loose
<1>2. TypeOK'
  BY DEF TypeOK, Loose, NoCard
<1>3. \A p \in Orders : Cardless(p) => Cardless(p)'
  BY <1>1 DEF Cardless
<1>4. \A p \in Orders : limit[p] # NoCard => limit'[p] # NoCard
  BY <1>1
<1>5. AnswersFit'
  BY <1>3, <1>4 DEF AnswersFit, At
<1>6. CardsFit'
  BY <1>3, <1>4 DEF CardsFit
<1>7. TopupsFit'
  BY DEF TopupsFit
<1>8. MovesFit'
  BY <1>4 DEF MovesFit, Asked
<1> QED BY <1>2, <1>5, <1>6, <1>7, <1>8, Undisturbed

(* A process is only at work in a state that has work for it.              *)
LEMMA IdleStates ==
  ASSUME Inductive, NEW o \in Orders,
         state[o] \in {"absent", "reserved", "funded", "active", "failed", "funding_failed",
                       "review_required"}
  PROVE  At(o, "idle")
<1>1. run[o].step \in Steps
  BY DEF Inductive, TypeOK
<1> QED BY <1>1 DEF Inductive, RunsFit, At, Steps, Transfers

(* Placing an order or a top-up.                                           *)
LEMMA PlaceInductive ==
  ASSUME Inductive, NEW o \in Orders, Submit(o) \/ Topup(o) PROVE Inductive'
<1>1. At(o, "idle") /\ Cardless(o) /\ ~Asked(o, "release")
  BY IdleStates DEF Submit, Topup, Inductive, CardsFit, MovesFit
<1>2. /\ Enter(o, "queued") /\ "queued" \in States /\ state[o] = "absent"
      /\ UNCHANGED <<run, op, limit, inflight, refused, blocked, allowed, paused>>
      /\ TopUp(o) => state[CardOrder[o]] = "funding_failed"
  BY DEF Submit, Topup, OutsideUnchanged, ProviderUnchanged, SettingsUnchanged, States
<1>3. blocked' \in BOOLEAN
  BY <1>2 DEF Inductive, TypeOK
<1> QED BY <1>1, <1>2, <1>3, StateStep

(* An order that is no longer allowed, and a top-up, which has its card.   *)
LEMMA DecideInductive ==
  ASSUME Inductive, NEW o \in Orders, Decide(o) PROVE Inductive'
<1> USE DEF Inductive
<1>1. /\ Cardless(o) /\ ~Asked(o, "release")
      /\ TopUp(o) => state[CardOrder[o]] \in {"funding_failed", "active"}
  BY DEF Decide, FailQueued, ReleaseReserved, SkipCreate, CardsFit, MovesFit, TopupsFit
<1>2. PICK s \in {"failed", "releasing", "fee_charged"} :
        /\ Enter(o, s) /\ (s = "fee_charged" => TopUp(o))
        /\ At(o, "idle") /\ state[o] \in {"queued", "reserved"}
        /\ UNCHANGED <<run, op, limit, inflight, refused, blocked, allowed, paused>>
  BY DEF Decide, FailQueued, ReleaseReserved, SkipCreate, OutsideUnchanged,
         ProviderUnchanged, SettingsUnchanged
<1>3. blocked' \in BOOLEAN /\ s \in States
  BY <1>2 DEF TypeOK, States
<1> QED BY <1>1, <1>2, <1>3, StateStep

(* The legs of a state: only a release is submitted in "releasing", and    *)
(* only the fee in "created".                                              *)
LEMMA LegsOfStates ==
  ASSUME NEW s \in DOMAIN Transfers, NEW i \in DOMAIN Transfers[s].legs
  PROVE  /\ Transfers[s].legs[i] \in Legs
         /\ Transfers[s].legs[i] = "release" => s = "releasing"
         /\ Transfers[s].legs[i] = "fee" => s = "created"
<1>1. s \in {"queued", "created", "fee_charged", "enabling", "releasing"}
  BY DEF Transfers
<1>2. CASE s = "queued"
  <2>1. Transfers[s] = [legs |-> <<"reserve">>, next |-> "reserved"]
    BY <1>2 DEF Transfers
  <2>2. Transfers[s].legs[i] = "reserve"
    BY <2>1
  <2> QED BY <1>2, <2>2 DEF Legs
<1>3. CASE s = "created"
  <2>1. Transfers[s] = [legs |-> <<"fee">>, next |-> "fee_charged"]
    BY <1>3 DEF Transfers
  <2>2. Transfers[s].legs[i] = "fee"
    BY <2>1
  <2> QED BY <1>3, <2>2 DEF Legs
<1>4. CASE s = "fee_charged"
  <2>1. Transfers[s] = [legs |-> <<"fund">>, next |-> "funded"]
    BY <1>4 DEF Transfers
  <2>2. Transfers[s].legs[i] = "fund"
    BY <2>1
  <2> QED BY <1>4, <2>2 DEF Legs
<1>5. CASE s = "releasing"
  <2>1. Transfers[s] = [legs |-> <<"release">>, next |-> "failed"]
    BY <1>5 DEF Transfers
  <2>2. Transfers[s].legs[i] = "release"
    BY <2>1
  <2> QED BY <1>5, <2>2 DEF Legs
<1>6. CASE s = "enabling"
  <2>1. Transfers[s] = [legs |-> <<"unfund_hold", "unfund">>, next |-> "funding_failed"]
    BY <1>6 DEF Transfers
  <2>2. Transfers[s].legs = <<"unfund_hold", "unfund">>
    BY <2>1
  <2>3. i \in {1, 2}
    BY <2>2
  <2>4. Transfers[s].legs[i] \in {"unfund_hold", "unfund"}
    BY <2>2, <2>3
  <2> QED BY <2>4 DEF Legs
<1> QED BY <1>1, <1>2, <1>3, <1>4, <1>5, <1>6

(* The state after the moves of a state are applied.                       *)
LEMMA NextOfStates ==
  /\ DOMAIN Transfers = {"queued", "created", "fee_charged", "enabling", "releasing"}
  /\ Transfers["queued"].next = "reserved"
  /\ Transfers["created"].next = "fee_charged"
  /\ Transfers["fee_charged"].next = "funded"
  /\ Transfers["enabling"].next = "funding_failed"
  /\ Transfers["releasing"].next = "failed"
<1>1. DOMAIN Transfers = {"queued", "created", "fee_charged", "enabling", "releasing"}
  BY DEF Transfers
<1>2. Transfers["queued"].next = "reserved"
  <2>1. Transfers["queued"] = [legs |-> <<"reserve">>, next |-> "reserved"]
    BY DEF Transfers
  <2> QED BY <2>1
<1>3. Transfers["created"].next = "fee_charged"
  <2>1. Transfers["created"] = [legs |-> <<"fee">>, next |-> "fee_charged"]
    BY DEF Transfers
  <2> QED BY <2>1
<1>4. Transfers["fee_charged"].next = "funded"
  <2>1. Transfers["fee_charged"] = [legs |-> <<"fund">>, next |-> "funded"]
    BY DEF Transfers
  <2> QED BY <2>1
<1>5. Transfers["enabling"].next = "funding_failed"
  <2>1. Transfers["enabling"] = [legs |-> <<"unfund_hold", "unfund">>, next |-> "funding_failed"]
    BY DEF Transfers
  <2> QED BY <2>1
<1>6. Transfers["releasing"].next = "failed"
  <2>1. Transfers["releasing"] = [legs |-> <<"release">>, next |-> "failed"]
    BY DEF Transfers
  <2> QED BY <2>1
<1> QED BY <1>1, <1>2, <1>3, <1>4, <1>5, <1>6

(* Submitting the moves of a state, and what comes when they are applied.  *)
LEMMA TransferInductive ==
  ASSUME Inductive, NEW o \in Orders, Transfer(o) PROVE Inductive'
<1> USE DEF Inductive, OutsideUnchanged, ProviderUnchanged, SettingsUnchanged
<1>1. CASE BeginTransfer(o)
  <2>1. state[o] \in DOMAIN Transfers
    BY <1>1 DEF BeginTransfer, MayTransfer, Transfers
  <2>2. /\ Goto(o, "transfer", "none") /\ "transfer" \in Steps /\ "none" \in Answers
        /\ UNCHANGED <<state, op, limit, inflight, allowed, paused>>
        /\ refused' \subseteq Orders /\ blocked' \in BOOLEAN
    BY <1>1 DEF BeginTransfer, Steps, Answers, TypeOK
  <2> QED BY <2>1, <2>2, RunStep
<1>2. CASE SubmitLeg(o)
  <2>1. state[o] \in DOMAIN Transfers
    BY <1>2 DEF SubmitLeg, RunsFit
  <2>2. PICK i \in DOMAIN Transfers[state[o]].legs :
               SetOp(o, Transfers[state[o]].legs[i], "pending")
    BY <1>2 DEF SubmitLeg
  <2>3. UNCHANGED <<state, run, limit, inflight, refused, blocked, allowed, paused>>
    BY <1>2 DEF SubmitLeg
  <2> DEFINE leg == Transfers[state[o]].legs[i]
  <2>4. /\ leg \in Legs
        /\ leg = "release" => state[o] = "releasing"
        /\ leg = "fee" => state[o] = "created"
    BY <2>1, LegsOfStates
  <2> HIDE DEF leg
  <2> QED BY <2>2, <2>3, <2>4, OpStep DEF leg
<1>3. CASE Transferred(o) \/ ReserveRefused(o)
  <2>1. state[o] \in DOMAIN Transfers
    BY <1>3 DEF Transferred, ReserveRefused, RunsFit
  <2>2. PICK s \in {"reserved", "failed", "fee_charged", "funded", "funding_failed"} :
          /\ Enter(o, s) /\ Stop(o)
          /\ \/ state[o] = "queued" /\ s \in {"reserved", "failed"}
             \/ state[o] = "created" /\ s = "fee_charged"
             \/ state[o] = "fee_charged" /\ s = "funded"
             \/ state[o] = "enabling" /\ s = "funding_failed"
             \/ state[o] = "releasing" /\ s = "failed"
          /\ UNCHANGED <<op, limit, inflight, refused, blocked, allowed, paused>>
    <3>1. CASE Transferred(o)
      BY <2>1, <3>1, NextOfStates DEF Transferred
    <3>2. CASE ReserveRefused(o)
      BY <3>2 DEF ReserveRefused
    <3> QED BY <1>3, <3>1, <3>2
  <2>3. /\ blocked' \in BOOLEAN /\ s \in States
        /\ s \in {"reserved", "failed"} => Cardless(o)
        /\ ~TopUp(o) /\ s \notin {"reserved", "failed"} => limit[o] # NoCard
        /\ TopUp(o) => state[CardOrder[o]] \in {"funding_failed", "active"}
        /\ Asked(o, "release") => s = "failed"
    BY <2>2 DEF TypeOK, States, CardsFit, TopupsFit, MovesFit
  <2> QED BY <2>2, <2>3, StateStep
<1> QED BY <1>1, <1>2, <1>3 DEF Transfer

(* Asking for the card, and looking for it.                                *)
LEMMA CreateInductive ==
  ASSUME Inductive, NEW o \in Orders, Create(o) PROVE Inductive'
<1> USE DEF Inductive, OutsideUnchanged, ProviderUnchanged, SettingsUnchanged
<1>1. CASE BeginCreate(o)
  <2>1. /\ At(o, "idle") /\ state[o] = "reserved" /\ ~TopUp(o) /\ Cardless(o)
        /\ ~Asked(o, "release")
        /\ UNCHANGED <<op, limit, inflight, refused, blocked, allowed, paused>>
    BY <1>1 DEF BeginCreate, CardsFit, MovesFit
  <2>2. /\ state' \in [Orders -> States] /\ state'[o] = "creating"
        /\ \A p \in Orders : p # o => state'[p] = state[p]
    BY <1>1, EnterEffect DEF BeginCreate, States
  <2>3. /\ run' \in [Orders -> [step : Steps, answer : Answers]]
        /\ run'[o].step = "create"
        /\ \A p \in Orders : p # o => run'[p] = run[p]
    BY <1>1, GotoEffect DEF BeginCreate, Steps, Answers
  <2>4. \A p \in Orders : (Cardless(p)' <=> Cardless(p)) /\ \A l : Asked(p, l)' <=> Asked(p, l)
    BY <2>1 DEF Cardless, Asked
  <2>5. TypeOK'
    BY <2>1, <2>2, <2>3 DEF TypeOK
  <2>6. RunsFit' /\ AnswersFit'
    BY <2>1, <2>2, <2>3, <2>4 DEF RunsFit, AnswersFit, At
  <2>7. CardsFit' /\ MovesFit'
    BY <2>1, <2>2, <2>4 DEF CardsFit, MovesFit
  <2>8. TopupsFit'
    BY <2>1, <2>2, CardOrders DEF TopupsFit
  <2> QED BY <2>5, <2>6, <2>7, <2>8
<1>2. CASE CreateCard(o) \/ CreateFails(o)
  <2>1. state[o] = "creating" /\ ~TopUp(o)
    BY <1>2 DEF CreateCard, CreateFails, At, RunsFit, CardsFit
  <2>2. PICK answer \in {"restricted", "loose", "rejected", "denied", "unknown"} :
          /\ Goto(o, "record_created", answer)
          /\ \/ /\ UNCHANGED inflight
                /\ \E made \in {0, Loose} : limit' = [limit EXCEPT ![o] = made]
                /\ answer \notin {"rejected", "denied"}
             \/ /\ UNCHANGED <<limit, inflight>>
                /\ answer \notin {"restricted", "loose"}
             \/ /\ UNCHANGED limit
                /\ inflight' = inflight \cup {<<"create", o>>}
                /\ answer = "unknown"
    BY <1>2 DEF CreateCard, CreateFails
  <2>3. UNCHANGED <<state, op, refused, blocked, allowed, paused>>
    BY <1>2 DEF CreateCard, CreateFails
  <2>4. /\ run' \in [Orders -> [step : Steps, answer : Answers]]
        /\ run'[o].step = "record_created" /\ run'[o].answer = answer
        /\ \A p \in Orders : p # o => run'[p] = run[p]
    BY <2>2, GotoEffect DEF Steps, Answers
  <2>5. /\ limit' \in [Orders -> Nat \cup {NoCard, Loose}]
        /\ \A p \in Orders : p # o => limit'[p] = limit[p]
        /\ answer \in {"restricted", "loose"} => limit'[o] # NoCard
        /\ limit[o] # NoCard => limit'[o] # NoCard
    BY <2>2 DEF TypeOK, NoCard, Loose
  <2>6. /\ inflight \subseteq inflight' /\ inflight' \subseteq inflight \cup {<<"create", o>>}
        /\ inflight' \subseteq {"create", "put"} \X Orders
    BY <2>2 DEF TypeOK
  <2>7. /\ \A p \in Orders : p # o => (Cardless(p)' <=> Cardless(p))
        /\ answer \in {"rejected", "denied"} => (Cardless(o)' <=> Cardless(o))
    BY <2>2, <2>5, <2>6 DEF Cardless
  <2>8. TypeOK'
    BY <2>3, <2>4, <2>5, <2>6 DEF TypeOK
  <2>9. RunsFit'
    BY <2>1, <2>3, <2>4 DEF RunsFit, At
  <2>10. AnswersFit'
    <3>1. Cardless(o)
      BY <1>2 DEF AnswersFit, CreateCard, CreateFails
    <3> QED BY <2>4, <2>5, <2>7, <3>1 DEF AnswersFit, At
  <2>11. CardsFit'
    BY <2>1, <2>3, <2>5, <2>7 DEF CardsFit
  <2>12. TopupsFit'
    BY <2>3, <2>6 DEF TopupsFit
  <2>13. MovesFit'
    BY <2>3, <2>5 DEF MovesFit, Asked
  <2> QED BY <2>8, <2>9, <2>10, <2>11, <2>12, <2>13
<1>3. CASE CreateLate(o)
  <2>1. ~Cardless(o) /\ ~TopUp(o)
    BY <1>3 DEF CreateLate, Cardless, CardsFit
  <2>2. PICK made \in Nat \cup {Loose} : limit' = [limit EXCEPT ![o] = made]
    BY <1>3 DEF CreateLate
  <2>3. inflight' \subseteq inflight /\ UNCHANGED <<state, run, op, refused, blocked, allowed, paused>>
    BY <1>3 DEF CreateLate
  <2> QED BY <2>1, <2>2, <2>3, CardStep
<1>4. CASE BeginFind(o) \/ FindCard(o)
  <2>1. state[o] \in {"creating", "provider_unknown"}
    BY <1>4 DEF BeginFind, FindCard, RunsFit, At
  <2>2. PICK step \in {"find", "record_found"}, answer \in Answers :
          /\ Goto(o, step, answer)
          /\ step = "record_found" /\ answer \in {"restricted", "loose"} => limit[o] # NoCard
    BY <1>4 DEF BeginFind, FindCard, Seen, Answers
  <2>3. /\ UNCHANGED <<state, op, limit, inflight, allowed, paused>>
        /\ refused' \subseteq Orders /\ blocked' \in BOOLEAN
    BY <1>4 DEF BeginFind, FindCard, TypeOK
  <2>4. step \in Steps
    BY <2>2 DEF Steps
  <2> QED BY <2>1, <2>2, <2>3, <2>4, RunStep
<1>5. CASE RecordCard(o)
  <2> DEFINE answer == run[o].answer
             s == Recorded(o)
  <2>1. /\ Enter(o, s) /\ Stop(o) /\ run[o].step \in {"record_created", "record_found"}
        /\ UNCHANGED <<op, limit, inflight, refused, allowed, paused>>
        /\ blocked' \in BOOLEAN
    BY <1>5 DEF RecordCard, TypeOK
  <2>2. state[o] \in {"creating", "provider_unknown"} /\ ~TopUp(o) /\ ~Asked(o, "release")
    BY <2>1 DEF RunsFit, CardsFit, MovesFit
  <2>3. /\ s \in {"created", "review_required", "releasing", "provider_unknown"}
        /\ s \in {"created", "review_required"} => answer \in {"restricted", "loose"}
        /\ s = "releasing" => At(o, "record_created") /\ answer \in {"rejected", "denied"}
    BY DEF Recorded
  <2>4. /\ s \in {"created", "review_required"} => limit[o] # NoCard
        /\ s = "releasing" => Cardless(o)
    BY <2>1, <2>3 DEF AnswersFit
  <2>5. s \in States
    BY <2>3 DEF States
  <2> HIDE DEF s
  <2> QED BY <2>1, <2>2, <2>3, <2>4, <2>5, StateStep
<1> QED BY <1>1, <1>2, <1>3, <1>4, <1>5 DEF Create

(* The card an enabling order raises the limit of, and the card of a       *)
(* request that is still under way.                                        *)
LEMMA CardOfEnabling ==
  ASSUME Inductive, NEW o \in Orders, state[o] = "enabling" \/ <<"put", o>> \in inflight
  PROVE  /\ CardOrder[o] \in Orders /\ ~TopUp(CardOrder[o]) /\ ~Cardless(CardOrder[o])
         /\ state[CardOrder[o]] \in {"enabling", "funding_failed", "active"}
<1>1. CardOrder[o] \in Orders /\ ~TopUp(CardOrder[o])
  BY CardOrders
<1>2. state[CardOrder[o]] \in {"enabling", "funding_failed", "active"}
  BY DEF Inductive, TopupsFit, TopUp
<1> QED BY <1>1, <1>2 DEF Inductive, CardsFit, Cardless

(* A step of an enabling order at the provider: its process goes on, its   *)
(* card may get the limit, and a request may stay under way.               *)
LEMMA LimitStep ==
  ASSUME Inductive, UNCHANGED <<state, op, blocked, allowed, paused>>,
         refused' \subseteq Orders,
         NEW o \in Orders, state[o] = "enabling",
         NEW answer \in Answers, Goto(o, "check", answer),
         UNCHANGED limit \/ limit' = [limit EXCEPT ![CardOrder[o]] = Funding[o]],
         UNCHANGED inflight \/ inflight' = inflight \cup {<<"put", o>>}
  PROVE  Inductive'
<1> DEFINE c == CardOrder[o]
<1> USE DEF Inductive
<1>1. /\ c \in Orders /\ ~TopUp(c) /\ ~Cardless(c)
      /\ state[c] \in {"enabling", "funding_failed", "active"}
  BY CardOfEnabling
<1>2. /\ run' \in [Orders -> [step : Steps, answer : Answers]]
      /\ run'[o].step = "check" /\ run'[o].answer = answer
      /\ \A p \in Orders : p # o => run'[p] = run[p]
  BY GotoEffect DEF Steps
<1>3. Funding[o] \in Nat \ {0}
  BY IssuingAssumption
<1> HIDE DEF c
<1>4. /\ limit' \in [Orders -> Nat \cup {NoCard, Loose}]
      /\ \A p \in Orders : p # c => limit'[p] = limit[p]
      /\ \A p \in Orders : limit[p] # NoCard => limit'[p] # NoCard
  BY <1>3 DEF c, TypeOK, NoCard, Loose
<1>5. \A p \in Orders : <<"create", p>> \in inflight' <=> <<"create", p>> \in inflight
  OBVIOUS
<1>6. inflight' \subseteq {"create", "put"} \X Orders
  BY DEF TypeOK
<1>7. \A p \in Orders : Cardless(p) => Cardless(p)'
  BY <1>1, <1>4, <1>5 DEF Cardless
<1>8. TypeOK'
  BY <1>2, <1>4, <1>6 DEF TypeOK
<1>9. RunsFit'
  BY <1>2 DEF RunsFit, At
<1>10. AnswersFit'
  BY <1>2, <1>4, <1>7 DEF AnswersFit, At
<1>11. CardsFit'
  BY <1>4, <1>7 DEF CardsFit
<1>12. TopupsFit'
  <2>1. \A p \in Orders : <<"put", p>> \in inflight' => <<"put", p>> \in inflight \/ p = o
    OBVIOUS
  <2> QED BY <1>1, <2>1 DEF TopupsFit, c
<1>13. MovesFit'
  BY <1>4 DEF MovesFit, Asked
<1> QED BY <1>8, <1>9, <1>10, <1>11, <1>12, <1>13

(* Reading the card, raising its limit, and what follows.                  *)
LEMMA EnableInductive ==
  ASSUME Inductive, NEW o \in Orders, Enable(o) PROVE Inductive'
<1> USE DEF Inductive, OutsideUnchanged, ProviderUnchanged, SettingsUnchanged
<1>1. CASE BeginEnable(o)
  <2>1. /\ state[o] \in {"funded", "enabling"}
        /\ UNCHANGED <<op, limit, inflight, refused, blocked, allowed, paused>>
    BY <1>1 DEF BeginEnable
  <2>2. /\ state' \in [Orders -> States] /\ state'[o] = "enabling"
        /\ \A p \in Orders : p # o => state'[p] = state[p]
    BY <1>1, EnterEffect DEF BeginEnable, States
  <2>3. /\ run' \in [Orders -> [step : Steps, answer : Answers]]
        /\ run'[o].step = "read"
        /\ \A p \in Orders : p # o => run'[p] = run[p]
    BY <1>1, GotoEffect DEF BeginEnable, Steps, Answers
  <2>4. \A p \in Orders : (Cardless(p)' <=> Cardless(p)) /\ \A l : Asked(p, l)' <=> Asked(p, l)
    BY <2>1 DEF Cardless, Asked
  <2>5. TypeOK'
    BY <2>1, <2>2, <2>3 DEF TypeOK
  <2>6. RunsFit' /\ AnswersFit'
    BY <2>1, <2>2, <2>3, <2>4 DEF RunsFit, AnswersFit, At
  <2>7. CardsFit' /\ MovesFit'
    BY <2>1, <2>2, <2>4 DEF CardsFit, MovesFit
  <2>8. TopupsFit'
    BY <2>1, <2>2, CardOrders DEF TopupsFit
  <2> QED BY <2>5, <2>6, <2>7, <2>8
<1>2. CASE ReadCard(o) \/ CheckCard(o)
  <2>1. state[o] = "enabling" /\ run[o].answer \in Answers
    BY <1>2 DEF ReadCard, CheckCard, RunsFit, At, TypeOK
  <2>2. PICK step \in {"put", "conclude"}, answer \in Answers : Goto(o, step, answer)
    BY <1>2, <2>1 DEF ReadCard, CheckCard, Checked, ReadFails, Answers
  <2>3. /\ UNCHANGED <<state, op, limit, inflight, allowed, paused>>
        /\ refused' \subseteq Orders /\ blocked' \in BOOLEAN
    BY <1>2 DEF ReadCard, CheckCard, TypeOK
  <2>4. step \in Steps
    BY <2>2 DEF Steps
  <2> QED BY <2>1, <2>2, <2>3, <2>4, RunStep
<1>3. CASE PutAccepted(o) \/ PutRefused(o) \/ PutFails(o)
  <2>1. state[o] = "enabling"
    BY <1>3 DEF PutAccepted, PutRefused, PutFails, RunsFit, At
  <2>2. PICK answer \in Answers : Goto(o, "check", answer)
    BY <1>3 DEF PutAccepted, PutRefused, PutFails, Answers
  <2>3. /\ UNCHANGED <<state, op, blocked, allowed, paused>> /\ refused' \subseteq Orders
        /\ UNCHANGED limit \/ limit' = [limit EXCEPT ![CardOrder[o]] = Funding[o]]
        /\ UNCHANGED inflight \/ inflight' = inflight \cup {<<"put", o>>}
    BY <1>3 DEF PutAccepted, PutRefused, PutFails, TypeOK
  <2> QED BY <2>1, <2>2, <2>3, LimitStep
<1>4. CASE PutLate(o)
  <2>1. Funding[o] \in Nat /\ CardOrder[o] \in Orders
        /\ ~TopUp(CardOrder[o]) /\ ~Cardless(CardOrder[o])
    BY <1>4, CardOfEnabling, IssuingAssumption DEF PutLate
  <2>2. /\ UNCHANGED <<state, run, op, refused, blocked, allowed, paused>>
        /\ inflight' \subseteq inflight
        /\ limit' = [limit EXCEPT ![CardOrder[o]] = Funding[o]]
    BY <1>4 DEF PutLate
  <2> QED BY <2>1, <2>2, CardStep
<1>5. CASE Enabled(o)
  <2> DEFINE c == CardOrder[o]
  <2>1. /\ state[o] = "enabling" /\ Stop(o)
        /\ state' = [state EXCEPT ![o] = "active", ![c] = "active"]
        /\ UNCHANGED <<op, limit, inflight, refused, blocked, allowed, paused>>
    BY <1>5 DEF Enabled, RunsFit, At
  <2>2. c \in Orders /\ ~TopUp(c) /\ ~Cardless(c) /\ (c # o => TopUp(o))
    BY <2>1, CardOfEnabling DEF TopUp
  <2>3. c # o => state[c] \in {"funding_failed", "active"} /\ At(c, "idle")
    BY <2>1, <2>2, IdleStates DEF TopupsFit
  <2> HIDE DEF c
  <2>4. /\ state' \in [Orders -> States] /\ state'[o] = "active" /\ state'[c] = "active"
        /\ \A p \in Orders : p \notin {o, c} => state'[p] = state[p]
    BY <2>1, <2>2 DEF TypeOK, States
  <2>5. /\ run' \in [Orders -> [step : Steps, answer : Answers]]
        /\ run'[o].step = "idle"
        /\ \A p \in Orders : p # o => run'[p] = run[p]
    BY <2>1, StopEffect
  <2>6. \A p \in Orders : (Cardless(p)' <=> Cardless(p)) /\ \A l : Asked(p, l)' <=> Asked(p, l)
    BY <2>1 DEF Cardless, Asked
  <2>7. TypeOK'
    BY <2>1, <2>4, <2>5 DEF TypeOK
  <2>8. RunsFit' /\ AnswersFit'
    <3>1. c # o => run'[c].step = "idle"
      BY <2>2, <2>3, <2>5 DEF At
    <3> QED BY <2>1, <2>4, <2>5, <2>6, <3>1 DEF RunsFit, AnswersFit, At
  <2>9. CardsFit'
    <3>1. limit[c] # NoCard
      BY <2>1, <2>2, <2>3 DEF CardsFit
    <3>2. ASSUME NEW p \in Orders, p \in {o, c}
          PROVE  /\ TopUp(p) => Cardless(p)
                 /\ ~TopUp(p) => limit'[p] # NoCard
      BY <2>1, <2>2, <3>1, <3>2 DEF CardsFit
    <3> QED BY <2>1, <2>2, <2>4, <2>6, <3>2 DEF CardsFit
  <2>10. MovesFit'
    <3>1. ~Asked(o, "release") /\ ~Asked(c, "release")
      BY <2>1, <2>2, <2>3 DEF MovesFit
    <3> QED BY <2>1, <2>4, <2>6, <3>1 DEF MovesFit
  <2>11. TopupsFit'
    <3>1. \A p \in Orders : CardOrder[p] \in Orders
      BY CardOrders
    <3>2. \A p \in Orders :
            /\ state[p] \in {"funding_failed", "active"} => state'[p] \in {"funding_failed", "active"}
            /\ state[p] \in {"enabling", "funding_failed", "active"} =>
                 state'[p] \in {"enabling", "funding_failed", "active"}
      BY <2>4
    <3>3. state'[CardOrder[o]] = "active"
      BY <2>4 DEF c
    <3>4. ASSUME NEW p \in Orders, TopUp(p), state'[p] # "absent"
          PROVE  state'[CardOrder[p]] \in {"funding_failed", "active"}
      <4>1. p # c
        BY <2>2, <3>4
      <4>2. CASE p = o
        BY <3>3, <4>2
      <4>3. CASE p # o
        BY <2>4, <3>1, <3>2, <3>4, <4>1, <4>3 DEF TopupsFit
      <4> QED BY <4>2, <4>3
    <3> QED BY <2>1, <3>1, <3>2, <3>4 DEF TopupsFit
  <2> QED BY <2>7, <2>8, <2>9, <2>10, <2>11
<1>6. CASE EnableRejected(o)
  <2>1. state[o] \in DOMAIN Transfers
    BY <1>6, NextOfStates DEF EnableRejected, RunsFit, At
  <2>2. /\ Goto(o, "transfer", "none") /\ "transfer" \in Steps /\ "none" \in Answers
        /\ UNCHANGED <<state, op, limit, inflight, allowed, paused>>
        /\ refused' \subseteq Orders /\ blocked' \in BOOLEAN
    BY <1>6 DEF EnableRejected, Steps, Answers, TypeOK
  <2> QED BY <2>1, <2>2, RunStep
<1>7. CASE EnableUnknown(o)
  <2>1. /\ Stop(o) /\ UNCHANGED <<state, op, limit, inflight, allowed, paused>>
        /\ refused' \subseteq Orders /\ blocked' \in BOOLEAN
    BY <1>7 DEF EnableUnknown, TypeOK
  <2> QED BY <2>1, RunStep
<1> QED BY <1>1, <1>2, <1>3, <1>4, <1>5, <1>6, <1>7 DEF Enable

(* A process that stops, the operators, and the provider's card.           *)
LEMMA OperateInductive ==
  ASSUME Inductive, NEW o \in Orders, GiveUp(o) \/ Operate(o) PROVE Inductive'
<1> USE DEF Inductive, OutsideUnchanged, ProviderUnchanged, SettingsUnchanged
<1>1. CASE GiveUp(o)
  <2>1. /\ Stop(o) /\ UNCHANGED <<state, op, limit, inflight, allowed, paused>>
        /\ refused' \subseteq Orders /\ blocked' \in BOOLEAN
    BY <1>1 DEF GiveUp, TypeOK
  <2> QED BY <2>1, RunStep
<1>2. CASE Recover(o)
  <2>1. /\ state[o] = "review_required" /\ Enter(o, "provider_unknown")
        /\ UNCHANGED <<run, op, limit, inflight, refused, allowed, paused>>
        /\ blocked' \in BOOLEAN /\ "provider_unknown" \in States
    BY <1>2 DEF Recover, TypeOK, States
  <2>2. At(o, "idle") /\ ~TopUp(o) /\ ~Asked(o, "release")
    BY <2>1, IdleStates DEF CardsFit, MovesFit
  <2> QED BY <2>1, <2>2, StateStep
<1>3. CASE RestrictCard(o)
  <2>1. limit[o] # NoCard /\ ~Cardless(o)
    BY <1>3 DEF RestrictCard, Cardless, Loose, NoCard
  <2>2. ~TopUp(o)
    BY <2>1 DEF CardsFit
  <2>3. /\ limit' = [limit EXCEPT ![o] = 0] /\ inflight' \subseteq inflight
        /\ UNCHANGED <<state, run, op, refused, blocked, allowed, paused>>
    BY <1>3 DEF RestrictCard
  <2> QED BY <2>1, <2>2, <2>3, CardStep
<1> QED BY <1>1, <1>2, <1>3 DEF Operate

(* The ledger moves what was submitted, or refuses it.                     *)
LEMMA LedgerInductive ==
  ASSUME Inductive, NEW o \in Orders, Ledger(o) PROVE Inductive'
<1>1. PICK leg \in Legs : PostLeg(o, leg) \/ SettleLeg(o, leg) \/ RefuseLeg(o, leg)
  BY DEF Ledger
<1>2. PICK value \in {"posted", "applied", "refused"} : SetOp(o, leg, value)
  BY <1>1 DEF PostLeg, SettleLeg, RefuseLeg
<1>3. Asked(o, leg) /\ UNCHANGED <<state, run, limit, inflight, refused, blocked, allowed, paused>>
  BY <1>1 DEF PostLeg, SettleLeg, RefuseLeg, OnlyOpChanges, Asked
<1> QED BY <1>2, <1>3, OpStep

(* The settings, and a step in which nothing happens.                      *)
LEMMA SettingsInductive ==
  ASSUME Inductive,
         SaveEnrollment \/ SaveProduct \/ ResumeSupplier \/ UNCHANGED vars
  PROVE  Inductive'
<1>1. /\ UNCHANGED <<state, run, op, limit, inflight, refused>>
      /\ {blocked, allowed, paused}' \subseteq BOOLEAN
  BY DEF SaveEnrollment, SaveProduct, ResumeSupplier, vars, ProviderUnchanged, Inductive, TypeOK
<1>2. TypeOK'
  BY <1>1 DEF Inductive, TypeOK
<1> QED BY <1>1, <1>2, Undisturbed DEF Inductive

(* At first no order exists, no process runs and the provider has no card. *)
LEMMA InitInductive == ASSUME Init PROVE Inductive
<1>1. TypeOK
  BY DEF Init, TypeOK, States, Steps, Answers, Idle, Legs
<1>2. \A o \in Orders : /\ state[o] = "absent" /\ run[o].step = "idle" /\ Cardless(o)
                        /\ \A leg \in Legs : ~Asked(o, leg)
  BY DEF Init, Idle, Cardless, Asked
<1>3. RunsFit /\ AnswersFit
  BY <1>2 DEF RunsFit, AnswersFit, At
<1>4. CardsFit /\ MovesFit
  BY <1>2 DEF CardsFit, MovesFit, Legs
<1>5. TopupsFit
  BY <1>2 DEF TopupsFit, Init
<1> QED BY <1>1, <1>3, <1>4, <1>5 DEF Inductive

(* Every step of the saga, of the provider, of the ledger and of the       *)
(* operators keeps the inductive invariant.                                *)
LEMMA NextInductive ==
  ASSUME Inductive, [Next]_vars PROVE Inductive'
<1>1. ASSUME NEW o \in Orders, Place(o) PROVE Inductive'
  BY <1>1, PlaceInductive DEF Place
<1>2. ASSUME NEW o \in Orders, Decide(o) PROVE Inductive'
  BY <1>2, DecideInductive
<1>3. ASSUME NEW o \in Orders, Transfer(o) PROVE Inductive'
  BY <1>3, TransferInductive
<1>4. ASSUME NEW o \in Orders, Create(o) PROVE Inductive'
  BY <1>4, CreateInductive
<1>5. ASSUME NEW o \in Orders, Enable(o) PROVE Inductive'
  BY <1>5, EnableInductive
<1>6. ASSUME NEW o \in Orders, GiveUp(o) \/ Operate(o) PROVE Inductive'
  BY <1>6, OperateInductive
<1>7. ASSUME NEW o \in Orders, Ledger(o) PROVE Inductive'
  BY <1>7, LedgerInductive
<1>8. ASSUME SaveEnrollment \/ SaveProduct \/ ResumeSupplier \/ UNCHANGED vars PROVE Inductive'
  BY <1>8, SettingsInductive
<1> QED BY <1>1, <1>2, <1>3, <1>4, <1>5, <1>6, <1>7, <1>8 DEF Next

(* The inductive invariant holds in every state: a process is only where   *)
(* its order's committed state lets it be, a recorded answer tells the     *)
(* truth about the card, and cards, top-ups and moves fit the states.      *)
THEOREM AlwaysInductive == Spec => []Inductive
<1>1. Init => Inductive
  BY InitInductive
<1>2. Inductive /\ [Next]_vars => Inductive'
  BY NextInductive
<1> QED BY <1>1, <1>2, PTL DEF Spec

(* Every order is in a state of the table, every process at a step of      *)
(* Process, and every leg's operation where the ledger can have it.        *)
THEOREM AlwaysTyped == Spec => []TypeOK
<1>1. Inductive => TypeOK
  BY DEF Inductive
<1> QED BY <1>1, AlwaysInductive, PTL

(* The provider has not been asked for a card before "creating" is         *)
(* committed, and no order returns to a state from which it would be asked *)
(* again, whatever crashes, late requests and top-ups there are.           *)
THEOREM CardAskedOnce == Spec => []AskedOnce
<1>1. Inductive => AskedOnce
  <2> SUFFICES ASSUME Inductive, NEW o \in Orders, state[o] \in {"absent", "queued", "reserved"}
               PROVE  Cardless(o) /\ run[o].step \in {"idle", "transfer"}
    BY DEF AskedOnce, Cardless
  <2>1. Cardless(o)
    BY DEF Inductive, CardsFit
  <2>2. run[o].step \in Steps
    BY DEF Inductive, TypeOK
  <2>3. run[o].step \in {"idle", "transfer"}
    BY <2>2 DEF Inductive, RunsFit, Steps
  <2> QED BY <2>1, <2>3
<1> QED BY <1>1, AlwaysInductive, PTL

(* The prepayment is only sent back when there is no card and none can     *)
(* come any more, and the fee is only charged for a card that exists.      *)
THEOREM MoneyAlwaysFollowsTheCard == Spec => []MoneyFollowsTheCard
<1>1. Inductive => MoneyFollowsTheCard
  BY DEF Inductive, CardsFit, MovesFit, MoneyFollowsTheCard, Cardless
<1> QED BY <1>1, AlwaysInductive, PTL

(* Of every order: the card is asked for once, and the prepayment and the  *)
(* fee follow the card.                                                    *)
THEOREM AlwaysFollowsTheCard == Spec => []FollowsTheCard
<1>1. MoneyFollowsTheCard /\ AskedOnce => FollowsTheCard
  BY DEF FollowsTheCard
<1> QED
  BY <1>1, CardAskedOnce, MoneyAlwaysFollowsTheCard, PTL

-----------------------------------------------------------------------------
(* The money: what the orders' holds and cards have.                       *)

(* What a move moves is an amount of money.                                *)
LEMMA AmountsAreNat ==
  ASSUME NEW o \in Orders, NEW leg \in Legs
  PROVE  /\ Amount(o, leg) \in Nat /\ Fee[o] \in Nat /\ Funding[o] \in Nat \ {0}
         /\ leg \in {"reserve", "release"} => Amount(o, leg) = Fee[o] + Funding[o]
         /\ leg = "fee" => Amount(o, leg) = Fee[o]
         /\ leg \in {"fund", "unfund_hold", "unfund"} => Amount(o, leg) = Funding[o]
BY IssuingAssumption DEF Amount, Legs

(* The sum of some moves, and what one more move adds to it.               *)
LEMMA SumOfMoves ==
  ASSUME NEW moves, IsFiniteSet(moves), moves \subseteq Orders \X Legs
  PROVE  /\ SumOf(moves) \in Int
         /\ \A o \in Orders, leg \in Legs : <<o, leg>> \notin moves =>
              SumOf(moves \cup {<<o, leg>>}) = SumOf(moves) + Amount(o, leg)
<1> DEFINE f == [m \in moves |-> Amount(m[1], m[2])]
<1>1. \A m \in moves : f[m] \in Int
  <2> SUFFICES ASSUME NEW m \in moves PROVE f[m] \in Int
    OBVIOUS
  <2>1. m[1] \in Orders /\ m[2] \in Legs /\ f[m] = Amount(m[1], m[2])
    OBVIOUS
  <2> HIDE DEF f
  <2> QED BY <2>1, AmountsAreNat
<1>2. SumOf(moves) = SumFunctionOnSet(f, moves)
  BY DEF SumOf, SumFunction
<1>3. ASSUME NEW o \in Orders, NEW leg \in Legs, <<o, leg>> \notin moves
      PROVE  SumOf(moves \cup {<<o, leg>>}) = SumOf(moves) + Amount(o, leg)
  <2> DEFINE more == moves \cup {<<o, leg>>}
             g == [m \in more |-> Amount(m[1], m[2])]
  <2>1. SumOf(more) = SumFunctionOnSet(g, more)
    BY DEF SumOf, SumFunction
  <2>2. g[<<o, leg>>] = Amount(o, leg) /\ Amount(o, leg) \in Int
    BY AmountsAreNat
  <2>3. \A m \in moves : g[m] = f[m]
    OBVIOUS
  <2> HIDE DEF f, g
  <2>4. SumFunctionOnSet(g, more) = SumFunctionOnSet(f, moves) + g[<<o, leg>>]
    BY <1>1, <1>3, <2>2, <2>3, SumGains
  <2> QED BY <1>2, <2>1, <2>2, <2>4
<1> QED BY <1>1, <1>2, <1>3, SumInt

(* What goes into an account, what goes out of it, and what it starts with. *)
Into(a) == {m \in Moved : Dest(m[1], m[2]) = a}
OutOf(a) == {m \in Moved : Source(m[1], m[2]) = a}
OpeningOf(a) == IF a = Wallet THEN Opening ELSE 0

(* A balance is what the account started with, and what came and went.     *)
LEMMA BalanceOf ==
  ASSUME NEW a, IsFiniteSet(Moved)
  PROVE  /\ IsFiniteSet(Into(a)) /\ IsFiniteSet(OutOf(a))
         /\ Into(a) \subseteq Orders \X Legs /\ OutOf(a) \subseteq Orders \X Legs
         /\ OpeningOf(a) \in Int /\ SumOf(Into(a)) \in Int /\ SumOf(OutOf(a)) \in Int
         /\ Balance(a) = OpeningOf(a) + SumOf(Into(a)) - SumOf(OutOf(a))
<1>1. /\ Into(a) \subseteq Moved /\ OutOf(a) \subseteq Moved /\ Moved \subseteq Orders \X Legs
  BY DEF Into, OutOf, Moved
<1>2. IsFiniteSet(Into(a)) /\ IsFiniteSet(OutOf(a))
  BY <1>1, FS_Subset
<1>3. OpeningOf(a) \in Int
  BY IssuingAssumption DEF OpeningOf
<1>4. Into(a) \subseteq Orders \X Legs /\ OutOf(a) \subseteq Orders \X Legs
  BY <1>1
<1>5. SumOf(Into(a)) \in Int /\ SumOf(OutOf(a)) \in Int
  BY <1>2, <1>4, SumOfMoves
<1>6. Balance(a) = OpeningOf(a) + SumOf(Into(a)) - SumOf(OutOf(a))
  BY DEF Balance, Into, OutOf, OpeningOf
<1> QED BY <1>2, <1>3, <1>4, <1>5, <1>6

(* A step that moves no money changes no balance.                          *)
LEMMA NothingMoves ==
  ASSUME Moved' = Moved
  PROVE  /\ \A a : Balance(a)' = Balance(a)
         /\ \A o, leg : Paid(o, leg)' = Paid(o, leg)
         /\ \A o : HeldFor(o)' = HeldFor(o) /\ OnCard(o)' = OnCard(o)
<1>1. \A a : Balance(a)' = Balance(a)
  BY DEF Balance
<1>2. \A o, leg : Paid(o, leg)' = Paid(o, leg)
  BY DEF Paid
<1> QED BY <1>1, <1>2 DEF HeldFor, OnCard

(* When Blnk moves the money of a leg, its destination gains the amount    *)
(* and its source loses it.                                                *)
LEMMA MoneyMoves ==
  ASSUME TypeOK, IsFiniteSet(Moved), NEW o \in Orders, NEW leg \in Legs, PostLeg(o, leg)
  PROVE  /\ IsFiniteSet(Moved')
         /\ \A p, l : <<p, l>> # <<o, leg>> => Paid(p, l)' = Paid(p, l)
         /\ Paid(o, leg) = 0 /\ Paid(o, leg)' = Amount(o, leg)
         /\ \A a : /\ Balance(a) \in Int
                   /\ Balance(a)' = Balance(a)
                        + (IF Dest(o, leg) = a THEN Amount(o, leg) ELSE 0)
                        - (IF Source(o, leg) = a THEN Amount(o, leg) ELSE 0)
<1> DEFINE m == <<o, leg>>
<1>1. m \notin Moved /\ Moved' = Moved \cup {m} /\ m \in Orders \X Legs
  <2>1. /\ op[o][leg] = "pending" /\ op'[o][leg] = "posted"
        /\ \A p \in Orders, l \in Legs : <<p, l>> # m => op'[p][l] = op[p][l]
    BY DEF PostLeg, SetOp, TypeOK
  <2>2. m[1] = o /\ m[2] = leg /\ m \in Orders \X Legs
    OBVIOUS
  <2>3. \A n \in Orders \X Legs : n[1] \in Orders /\ n[2] \in Legs /\ n = <<n[1], n[2]>>
    OBVIOUS
  <2> QED BY <2>1, <2>2, <2>3 DEF Moved
<1>2. IsFiniteSet(Moved')
  BY <1>1, FS_AddElement
<1>3. /\ \A p, l : <<p, l>> # m => Paid(p, l)' = Paid(p, l)
      /\ Paid(o, leg) = 0 /\ Paid(o, leg)' = Amount(o, leg)
  BY <1>1 DEF Paid
<1>4. ASSUME NEW a
      PROVE  /\ Balance(a) \in Int
             /\ Balance(a)' = Balance(a)
                  + (IF Dest(o, leg) = a THEN Amount(o, leg) ELSE 0)
                  - (IF Source(o, leg) = a THEN Amount(o, leg) ELSE 0)
  <2> DEFINE in == {n \in Moved' : Dest(n[1], n[2]) = a}
             out == {n \in Moved' : Source(n[1], n[2]) = a}
  <2>1. Balance(a)' = OpeningOf(a) + SumOf(in) - SumOf(out)
    BY DEF Balance, OpeningOf
  <2>2. /\ IsFiniteSet(Into(a)) /\ IsFiniteSet(OutOf(a))
        /\ Into(a) \subseteq Orders \X Legs /\ OutOf(a) \subseteq Orders \X Legs
        /\ OpeningOf(a) \in Int /\ SumOf(Into(a)) \in Int /\ SumOf(OutOf(a)) \in Int
        /\ Balance(a) = OpeningOf(a) + SumOf(Into(a)) - SumOf(OutOf(a))
    BY BalanceOf
  <2>3. m[1] = o /\ m[2] = leg /\ Amount(o, leg) \in Nat
    BY AmountsAreNat
  <2>4. m \notin Into(a) /\ m \notin OutOf(a)
    BY <1>1 DEF Into, OutOf
  <2>5. SumOf(in) = SumOf(Into(a)) + (IF Dest(o, leg) = a THEN Amount(o, leg) ELSE 0)
    <3>1. CASE Dest(o, leg) = a
      <4>1. in = Into(a) \cup {m}
        BY <1>1, <2>3, <3>1 DEF Into
      <4> HIDE DEF in
      <4>2. SumOf(Into(a) \cup {<<o, leg>>}) = SumOf(Into(a)) + Amount(o, leg)
        BY <2>2, <2>4, SumOfMoves
      <4> QED BY <3>1, <4>1, <4>2
    <3>2. CASE Dest(o, leg) # a
      <4>1. in = Into(a)
        BY <1>1, <2>3, <3>2 DEF Into
      <4> HIDE DEF in
      <4> QED BY <2>2, <3>2, <4>1
    <3> QED BY <3>1, <3>2
  <2>6. SumOf(out) = SumOf(OutOf(a)) + (IF Source(o, leg) = a THEN Amount(o, leg) ELSE 0)
    <3>1. CASE Source(o, leg) = a
      <4>1. out = OutOf(a) \cup {m}
        BY <1>1, <2>3, <3>1 DEF OutOf
      <4> HIDE DEF out
      <4>2. SumOf(OutOf(a) \cup {<<o, leg>>}) = SumOf(OutOf(a)) + Amount(o, leg)
        BY <2>2, <2>4, SumOfMoves
      <4> QED BY <3>1, <4>1, <4>2
    <3>2. CASE Source(o, leg) # a
      <4>1. out = OutOf(a)
        BY <1>1, <2>3, <3>2 DEF OutOf
      <4> HIDE DEF out
      <4> QED BY <2>2, <3>2, <4>1
    <3> QED BY <3>1, <3>2
  <2> HIDE DEF in, out, m
  <2> QED BY <2>1, <2>2, <2>3, <2>5, <2>6
<1> QED BY <1>2, <1>3, <1>4

(* What a card gave back is what it got.                                   *)
LEMMA GaveBackAll ==
  ASSUME NEW o \in Orders,
         op[o]["fund"] \in {"absent", "applied"}, op[o]["unfund_hold"] = op[o]["fund"]
  PROVE  OnCard(o) = 0
<1>1. <<o, "fund">> \in Moved <=> <<o, "unfund_hold">> \in Moved
  BY DEF Moved, Legs
<1>2. Amount(o, "fund") = Amount(o, "unfund_hold") /\ Amount(o, "fund") \in Nat
  BY AmountsAreNat DEF Legs
<1>3. Paid(o, "fund") = Paid(o, "unfund_hold") /\ Paid(o, "fund") \in Nat
  BY <1>1, <1>2 DEF Paid
<1> QED BY <1>3 DEF OnCard

(* What an order that is over left on its card: nothing.                   *)
LEMMA OverLeavesNothing ==
  ASSUME Inductive, MovesInOrder, NEW o \in Orders, Over(o)
  PROVE  /\ OnCard(o) = 0
         /\ op[o]["fund"] \in {"absent", "applied"} /\ op[o]["unfund_hold"] = op[o]["fund"]
<1>1. op[o]["fund"] \in {"absent", "applied"} /\ op[o]["unfund_hold"] = op[o]["fund"]
  BY DEF Inductive, TypeOK, MovesInOrder, Over, Asked, Legs
<1> QED BY <1>1, GaveBackAll

(* Committing states moves no money, and what cards have stays right as    *)
(* long as of the orders of one card one at most is not over.              *)
LEMMA BalancesStay ==
  ASSUME Inductive, MovesInOrder, OneClaims, BalancesFit, UNCHANGED op,
         Inductive', MovesInOrder'
  PROVE  BalancesFit'
<1>1. Moved' = Moved
  BY DEF Moved
<1>2. /\ \A a : Balance(a)' = Balance(a)
      /\ \A o : HeldFor(o)' = HeldFor(o) /\ OnCard(o)' = OnCard(o)
  BY <1>1, NothingMoves
<1>3. ASSUME NEW o \in Orders, \A p \in Orders : p # o /\ SameCard(o, p) => Over(p)'
      PROVE  Balance(CardAccount(o)) = OnCard(o)
  <2>1. CASE \A p \in Orders : p # o /\ SameCard(o, p) => Over(p)
    BY <2>1 DEF BalancesFit
  <2>2. ASSUME NEW p \in Orders, p # o, SameCard(o, p), ~Over(p)
        PROVE  Balance(CardAccount(o)) = OnCard(o)
    <3>1. \A q \in Orders : q # p /\ SameCard(p, q) => Over(q)
      BY <2>2 DEF OneClaims
    <3>2. Balance(CardAccount(p)) = OnCard(p)
      BY <3>1 DEF BalancesFit
    <3>3. Over(o) /\ Over(p)'
      BY <1>3, <2>2, <3>1 DEF SameCard
    <3>4. OnCard(o) = 0
      BY <3>3, OverLeavesNothing
    <3>5. OnCard(p) = 0
      <4>1. op'[p]["fund"] \in {"absent", "applied"} /\ op'[p]["unfund_hold"] = op'[p]["fund"]
        BY <3>3 DEF Inductive, TypeOK, MovesInOrder, Over, Asked, Legs
      <4> QED BY <4>1, GaveBackAll
    <3> QED BY <1>2, <2>2, <3>2, <3>4, <3>5 DEF CardAccount, SameCard
  <2> QED BY <2>1, <2>2
<1>4. IsFiniteSet(Moved')
  BY <1>1 DEF BalancesFit
<1>5. \A o \in Orders : Balance(Hold(o))' = HeldFor(o)'
  BY <1>2 DEF BalancesFit, Hold
<1>6. \A o \in Orders : CardAccount(o)' = CardAccount(o)
                          /\ \A p \in Orders : SameCard(o, p)' <=> SameCard(o, p)
  BY DEF CardAccount, SameCard
<1>7. \A o \in Orders : (\A p \in Orders : p # o /\ SameCard(o, p) => Over(p)')
                          => Balance(CardAccount(o))' = OnCard(o)'
  BY <1>2, <1>3, <1>6
<1> QED BY <1>4, <1>5, <1>6, <1>7 DEF BalancesFit

(* What a step that leaves the orders' states and moves alone keeps.       *)
LEMMA UndisturbedFunded ==
  ASSUME Inductive, Funded, UNCHANGED <<state, op>>
  PROVE  MovesInOrder' /\ OneClaims' /\ BalancesFit' /\ OnlyReservationsAreRefused'
<1>1. MovesInOrder' /\ OnlyReservationsAreRefused'
  BY DEF Funded, MovesInOrder, OnlyReservationsAreRefused, Asked
<1>2. \A o \in Orders : Over(o)' <=> Over(o)
  BY DEF Over
<1>3. Moved' = Moved
  BY DEF Moved
<1>4. OneClaims'
  BY <1>2 DEF Funded, OneClaims, SameCard
<1>5. BalancesFit'
  <2>1. /\ \A a : Balance(a)' = Balance(a)
        /\ \A o : HeldFor(o)' = HeldFor(o) /\ OnCard(o)' = OnCard(o)
    BY <1>3, NothingMoves
  <2>2. BalancesFit
    BY DEF Funded
  <2> QED BY <1>2, <1>3, <2>1, <2>2 DEF BalancesFit, SameCard, Hold, CardAccount
<1> QED BY <1>1, <1>4, <1>5

(* A step that commits a state other than "active" leaves everything       *)
(* funded, when the moves of the order fit the state it enters.            *)
LEMMA StateFunded ==
  ASSUME Inductive, Funded, Inductive', UNCHANGED <<op, limit, inflight, refused>>,
         NEW o \in Orders, NEW s \in States, Enter(o, s),
         s \notin {"absent", "active"},
         state[o] \notin {"active", "funding_failed", "failed"},
         state[o] = "enabling" => s \in {"enabling", "funding_failed"},
         s \notin {"queued", "failed"} => op[o]["reserve"] = "applied",
         s = "failed" =>
           \/ op[o]["reserve"] \in {"absent", "refused"} /\ ~Asked(o, "release")
           \/ op[o]["reserve"] = "applied" /\ op[o]["release"] = "applied",
         Asked(o, "fee") =>
           s \in {"created", "fee_charged", "funded", "enabling", "funding_failed"},
         s \in {"fee_charged", "funded", "enabling", "funding_failed"} =>
           Fee[o] = 0 \/ op[o]["fee"] = "applied",
         Asked(o, "fund") => s \in {"fee_charged", "funded", "enabling", "funding_failed"},
         s \in {"funded", "enabling", "funding_failed"} => op[o]["fund"] = "applied",
         Asked(o, "unfund_hold") => s \in {"enabling", "funding_failed"},
         s = "funding_failed" => op[o]["unfund"] = "applied",
         Over(o) => \A p \in Orders : p # o /\ SameCard(o, p) => Over(p),
         \A p \in Orders : p # o => run'[p] = run[p],
         run'[o].step \notin {"check", "conclude", "transfer"}
  PROVE  Funded'
<1>1. /\ state' \in [Orders -> States] /\ state'[o] = s
      /\ \A p \in Orders : p # o => state'[p] = state[p]
  BY EnterEffect DEF Inductive
<1>2. \A p, leg : Asked(p, leg)' <=> Asked(p, leg)
  BY DEF Asked
<1>3. MovesInOrder'
  <2> SUFFICES ASSUME NEW p \in Orders
               PROVE  MovesInOrder!(p)'
    BY DEF MovesInOrder
  <2>1. CASE p = o
    BY <1>1, <1>2, <2>1 DEF Funded, MovesInOrder
  <2>2. CASE p # o
    BY <1>1, <1>2, <2>2 DEF Funded, MovesInOrder
  <2> QED BY <2>1, <2>2
<1>4. \A p \in Orders : p # o => (Over(p)' <=> Over(p))
  BY <1>1 DEF Over
<1>5. OneClaims'
  <2>1. \A p, q \in Orders : SameCard(p, q)' <=> SameCard(p, q)
    BY DEF SameCard
  <2>2. ASSUME NEW p \in Orders, NEW q \in Orders, p # q, SameCard(p, q)
        PROVE  Over(p)' \/ Over(q)'
    <3>1. (Over(p) \/ Over(q)) /\ SameCard(q, p)
      BY <2>2 DEF Funded, OneClaims, SameCard
    <3> QED BY <1>4, <2>2, <3>1
  <2> QED BY <2>1, <2>2 DEF OneClaims
<1>6. RefusalsFit'
  <2>1. \A p \in Orders : p # o => (GoesBack(p)' <=> GoesBack(p))
    BY <1>2 DEF GoesBack, At
  <2>2. GoesBack(o)' <=> Asked(o, "unfund_hold")
    BY <1>2 DEF GoesBack, At
  <2>3. s = "enabling" /\ Asked(o, "unfund_hold") => state[o] = "enabling" /\ GoesBack(o)
    BY DEF Funded, MovesInOrder, GoesBack
  <2> QED BY <1>1, <1>2, <2>1, <2>2, <2>3 DEF Funded, RefusalsFit, At
<1>7. LimitsFit'
  <2>1. ASSUME NEW p \in Orders, Spends(p), limit[CardOrder[p]] > 0 PROVE Spends(p)'
    <3>1. CASE p # o
      BY <1>1, <1>2, <2>1, <3>1 DEF Spends
    <3>2. CASE p = o
      <4>1. s # "funding_failed"
        BY <2>1, <3>2 DEF Funded, MovesInOrder, Spends, Asked
      <4> QED BY <1>1, <1>2, <2>1, <3>2, <4>1 DEF Spends
    <3> QED BY <3>1, <3>2
  <2>2. \A p \in Orders : limit'[p] > 0 => Backed(p)'
    BY <2>1 DEF Funded, LimitsFit, Backed
  <2>3. \A p \in Orders : state'[p] = "active" => limit'[CardOrder[p]] > 0
    BY <1>1 DEF Funded, LimitsFit
  <2>4. \A p \in Orders : <<"create", p>> \in inflight' => limit'[p] = NoCard
    BY DEF Funded, LimitsFit
  <2>5. \A p \in Orders : <<"put", p>> \in inflight' =>
          state'[p] \in {"enabling", "active", "funding_failed"}
    BY <1>1 DEF Funded, LimitsFit
  <2> QED BY <2>2, <2>3, <2>4, <2>5 DEF LimitsFit
<1>8. BalancesFit' /\ OnlyReservationsAreRefused'
  BY <1>3, BalancesStay DEF Funded, OnlyReservationsAreRefused
<1> QED BY <1>3, <1>5, <1>6, <1>7, <1>8 DEF Funded

(* Placing an order or a top-up: no other order of the card has a claim.   *)
LEMMA PlaceFunded ==
  ASSUME Inductive, Funded, Inductive', NEW o \in Orders, Submit(o) \/ Topup(o) PROVE Funded'
<1>1. /\ Enter(o, "queued") /\ "queued" \in States /\ state[o] = "absent"
      /\ UNCHANGED <<run, op, limit, inflight, refused>>
  BY DEF Submit, Topup, OutsideUnchanged, ProviderUnchanged, States
<1>2. At(o, "idle")
  BY <1>1, IdleStates
<1>3. \A leg \in Legs : ~Asked(o, leg)
  BY <1>1 DEF Inductive, MovesFit, Funded, MovesInOrder, Legs, Asked
<1>4. \A p \in Orders : p # o /\ SameCard(o, p) => Over(p)
  <2> SUFFICES ASSUME NEW p \in Orders, p # o, SameCard(o, p) PROVE Over(p)
    OBVIOUS
  <2>1. CASE Submit(o)
    <3>1. CardOrder[o] = o /\ CardOrder[p] = o /\ TopUp(p)
      BY <2>1 DEF Submit, TopUp, SameCard
    <3> QED BY <1>1, <3>1 DEF Inductive, TopupsFit, Over
  <2>2. CASE Topup(o)
    <3>1. CardOrder[p] = CardOrder[o] /\ state[CardOrder[o]] = "funding_failed"
      BY <2>2 DEF Topup, SameCard
    <3>2. CASE TopUp(p)
      BY <2>2, <3>1, <3>2 DEF Topup, Over
    <3>3. CASE ~TopUp(p)
      BY <3>1, <3>3 DEF TopUp, Over
    <3> QED BY <3>2, <3>3
  <2> QED BY <2>1, <2>2
<1>5. run'[o].step = "idle"
  BY <1>1, <1>2 DEF At
<1> QED BY <1>1, <1>3, <1>4, <1>5, StateFunded DEF Legs

(* An order that is no longer allowed, and a top-up, which has its card.   *)
LEMMA DecideFunded ==
  ASSUME Inductive, Funded, Inductive', NEW o \in Orders, Decide(o) PROVE Funded'
<1>1. PICK s \in {"failed", "releasing", "fee_charged"} :
        /\ Enter(o, s) /\ At(o, "idle")
        /\ s = "failed" => state[o] = "queued" /\ op[o]["reserve"] = "absent"
        /\ s # "failed" => state[o] = "reserved"
        /\ s = "fee_charged" => TopUp(o)
        /\ UNCHANGED <<run, op, limit, inflight, refused>>
  BY DEF Decide, FailQueued, ReleaseReserved, SkipCreate, OutsideUnchanged, ProviderUnchanged
<1>2. /\ s \in States /\ state[o] \in {"queued", "reserved"} /\ ~Over(o)
      /\ ~Asked(o, "release") /\ ~Asked(o, "fee") /\ ~Asked(o, "fund") /\ ~Asked(o, "unfund_hold")
      /\ s # "failed" => op[o]["reserve"] = "applied"
      /\ TopUp(o) => Fee[o] = 0
      /\ run'[o].step = "idle"
  BY <1>1, IssuingAssumption
     DEF Inductive, MovesFit, Funded, MovesInOrder, Over, States, At, TopUp
<1> QED BY <1>1, <1>2, StateFunded

(* The moves a state waits for.                                            *)
LEMMA LegsAre ==
  /\ Transfers["queued"].legs = <<"reserve">>
  /\ Transfers["created"].legs = <<"fee">>
  /\ Transfers["fee_charged"].legs = <<"fund">>
  /\ Transfers["enabling"].legs = <<"unfund_hold", "unfund">>
  /\ Transfers["releasing"].legs = <<"release">>
<1>1. Transfers["queued"].legs = <<"reserve">>
  <2>1. Transfers["queued"] = [legs |-> <<"reserve">>, next |-> "reserved"]
    BY DEF Transfers
  <2> QED BY <2>1
<1>2. Transfers["created"].legs = <<"fee">>
  <2>1. Transfers["created"] = [legs |-> <<"fee">>, next |-> "fee_charged"]
    BY DEF Transfers
  <2> QED BY <2>1
<1>3. Transfers["fee_charged"].legs = <<"fund">>
  <2>1. Transfers["fee_charged"] = [legs |-> <<"fund">>, next |-> "funded"]
    BY DEF Transfers
  <2> QED BY <2>1
<1>4. Transfers["enabling"].legs = <<"unfund_hold", "unfund">>
  <2>1. Transfers["enabling"] = [legs |-> <<"unfund_hold", "unfund">>, next |-> "funding_failed"]
    BY DEF Transfers
  <2> QED BY <2>1
<1>5. Transfers["releasing"].legs = <<"release">>
  <2>1. Transfers["releasing"] = [legs |-> <<"release">>, next |-> "failed"]
    BY DEF Transfers
  <2> QED BY <2>1
<1> QED BY <1>1, <1>2, <1>3, <1>4, <1>5

(* The moves of a state are applied, or the reservation was refused.       *)
LEMMA TransferredFunded ==
  ASSUME Inductive, Funded, Inductive', NEW o \in Orders, Transferred(o) \/ ReserveRefused(o)
  PROVE  Funded'
<1>1. state[o] \in DOMAIN Transfers /\ Stop(o) /\ UNCHANGED <<op, limit, inflight, refused>>
  BY DEF Transferred, ReserveRefused, Inductive, RunsFit, OutsideUnchanged, ProviderUnchanged
<1>2. /\ run'[o].step = "idle" /\ \A p \in Orders : p # o => run'[p] = run[p]
      /\ ~Over(o)
  BY <1>1, StopEffect, NextOfStates DEF Inductive, Over
<1>3. CASE ReserveRefused(o)
  <2>1. /\ Enter(o, "failed") /\ "failed" \in States /\ state[o] = "queued"
        /\ op[o]["reserve"] = "refused"
    BY <1>3 DEF ReserveRefused, States
  <2>2. \A leg \in {"release", "fee", "fund", "unfund_hold"} : ~Asked(o, leg)
    BY <2>1 DEF Inductive, MovesFit, Funded, MovesInOrder
  <2> QED BY <1>1, <1>2, <2>1, <2>2, StateFunded
<1>4. CASE Transferred(o)
  <2> DEFINE legs == Transfers[state[o]].legs
  <2>1. \A i \in DOMAIN legs : Done(o, legs[i])
    BY <1>4 DEF Transferred
  <2>2. Enter(o, Transfers[state[o]].next)
    BY <1>4 DEF Transferred
  <2>3. \A leg \in Legs \ {"fee"} : Done(o, leg) => op[o][leg] = "applied"
    <3>1. \A leg \in Legs \ {"fee"} : Amount(o, leg) # 0
      BY AmountsAreNat DEF Legs
    <3> QED BY <3>1 DEF Done
  <2>4. CASE state[o] = "queued"
    <3>1. legs = <<"reserve">>
      BY <2>4, LegsAre
    <3>2. op[o]["reserve"] = "applied"
      BY <2>1, <2>3, <3>1 DEF Legs
    <3>3. Enter(o, "reserved") /\ "reserved" \in States
      BY <2>2, <2>4, NextOfStates DEF States
    <3>4. \A leg \in {"release", "fee", "fund", "unfund_hold"} : ~Asked(o, leg)
      BY <2>4 DEF Inductive, MovesFit, Funded, MovesInOrder
    <3> QED BY <1>1, <1>2, <2>4, <3>2, <3>3, <3>4, StateFunded
  <2>5. CASE state[o] = "created"
    <3>1. legs = <<"fee">>
      BY <2>5, LegsAre
    <3>2. Fee[o] = 0 \/ op[o]["fee"] = "applied"
      BY <2>1, <3>1, AmountsAreNat DEF Legs, Done
    <3>3. Enter(o, "fee_charged") /\ "fee_charged" \in States
      BY <2>2, <2>5, NextOfStates DEF States
    <3>4. op[o]["reserve"] = "applied" /\ ~Asked(o, "unfund_hold")
      BY <2>5 DEF Funded, MovesInOrder
    <3> QED BY <1>1, <1>2, <2>5, <3>2, <3>3, <3>4, StateFunded
  <2>6. CASE state[o] = "fee_charged"
    <3>1. legs = <<"fund">>
      BY <2>6, LegsAre
    <3>2. op[o]["fund"] = "applied"
      BY <2>1, <2>3, <3>1 DEF Legs
    <3>3. Enter(o, "funded") /\ "funded" \in States
      BY <2>2, <2>6, NextOfStates DEF States
    <3>4. /\ op[o]["reserve"] = "applied" /\ ~Asked(o, "unfund_hold")
          /\ Fee[o] = 0 \/ op[o]["fee"] = "applied"
      BY <2>6 DEF Funded, MovesInOrder
    <3> QED BY <1>1, <1>2, <2>6, <3>2, <3>3, <3>4, StateFunded
  <2>7. CASE state[o] = "enabling"
    <3>1. legs = <<"unfund_hold", "unfund">>
      BY <2>7, LegsAre
    <3>2. op[o]["unfund"] = "applied"
      <4>1. 2 \in DOMAIN legs /\ legs[2] = "unfund"
        BY <3>1
      <4> HIDE DEF legs
      <4> QED BY <2>1, <2>3, <4>1 DEF Legs
    <3>3. Enter(o, "funding_failed") /\ "funding_failed" \in States
      BY <2>2, <2>7, NextOfStates DEF States
    <3>4. /\ op[o]["reserve"] = "applied" /\ op[o]["fund"] = "applied"
          /\ Fee[o] = 0 \/ op[o]["fee"] = "applied"
      BY <2>7 DEF Funded, MovesInOrder
    <3> QED BY <1>1, <1>2, <2>7, <3>2, <3>3, <3>4, StateFunded
  <2>8. CASE state[o] = "releasing"
    <3>1. legs = <<"release">>
      BY <2>8, LegsAre
    <3>2. op[o]["release"] = "applied"
      BY <2>1, <2>3, <3>1 DEF Legs
    <3>3. Enter(o, "failed") /\ "failed" \in States
      BY <2>2, <2>8, NextOfStates DEF States
    <3>4. /\ op[o]["reserve"] = "applied"
          /\ \A leg \in {"fee", "fund", "unfund_hold"} : ~Asked(o, leg)
      BY <2>8 DEF Funded, MovesInOrder
    <3> QED BY <1>1, <1>2, <2>8, <3>2, <3>3, <3>4, StateFunded
  <2> QED BY <1>1, <2>4, <2>5, <2>6, <2>7, <2>8, NextOfStates
<1> QED BY <1>3, <1>4

(* "creating" and "enabling" are committed, an answer is recorded, and a   *)
(* recovery looks for the card again.                                      *)
LEMMA EnterFunded ==
  ASSUME Inductive, Funded, Inductive', NEW o \in Orders,
         BeginCreate(o) \/ RecordCard(o) \/ Recover(o) \/ BeginEnable(o)
  PROVE  Funded'
<1>1. /\ UNCHANGED <<op, limit, inflight, refused>>
      /\ state[o] \in {"reserved", "creating", "provider_unknown", "review_required",
                       "funded", "enabling"}
  BY DEF BeginCreate, RecordCard, Recover, BeginEnable, OutsideUnchanged, ProviderUnchanged,
         Inductive, RunsFit
<1>2. op[o]["reserve"] = "applied" /\ ~Over(o) /\ ~Asked(o, "release")
  BY <1>1 DEF Funded, MovesInOrder, Over, Inductive, MovesFit
<1>3. CASE BeginEnable(o)
  <2>1. /\ Enter(o, "enabling") /\ "enabling" \in States /\ state[o] \in {"funded", "enabling"}
        /\ Goto(o, "read", "none") /\ "read" \in Steps /\ "none" \in Answers
    BY <1>3 DEF BeginEnable, States, Steps, Answers
  <2>2. run'[o].step = "read" /\ \A p \in Orders : p # o => run'[p] = run[p]
    BY <2>1, GotoEffect DEF Inductive
  <2>3. op[o]["fund"] = "applied" /\ (Fee[o] = 0 \/ op[o]["fee"] = "applied")
    BY <2>1 DEF Funded, MovesInOrder
  <2> QED BY <1>1, <1>2, <2>1, <2>2, <2>3, StateFunded
<1>4. CASE BeginCreate(o) \/ RecordCard(o) \/ Recover(o)
  <2>1. state[o] \in {"reserved", "creating", "provider_unknown", "review_required"}
    BY <1>4 DEF BeginCreate, RecordCard, Recover, Inductive, RunsFit
  <2>2. ~Asked(o, "fee") /\ ~Asked(o, "fund") /\ ~Asked(o, "unfund_hold")
    BY <2>1 DEF Funded, MovesInOrder
  <2>3. PICK s \in {"creating", "created", "review_required", "releasing", "provider_unknown"} :
          Enter(o, s)
    BY <1>4 DEF BeginCreate, RecordCard, Recover, Recorded
  <2>4. run'[o].step \in {"create", "idle"} /\ \A p \in Orders : p # o => run'[p] = run[p]
    <3>1. CASE BeginCreate(o)
      BY <3>1, GotoEffect DEF BeginCreate, Inductive, Steps, Answers
    <3>2. CASE RecordCard(o)
      BY <3>2, StopEffect DEF RecordCard, Inductive
    <3>3. CASE Recover(o)
      BY <3>3, IdleStates DEF Recover, At
    <3> QED BY <1>4, <3>1, <3>2, <3>3
  <2>5. s \in States
    BY <2>3 DEF States
  <2> QED BY <1>1, <1>2, <2>1, <2>2, <2>3, <2>4, <2>5, StateFunded
<1> QED BY <1>3, <1>4

(* A step of one order's process that commits nothing and leaves the       *)
(* provider's cards alone.                                                 *)
LEMMA RunFunded ==
  ASSUME Inductive, Funded, UNCHANGED <<state, op, limit>>, refused \subseteq refused',
         NEW o \in Orders, \A p \in Orders : p # o => run'[p] = run[p],
         \A p \in Orders : <<"create", p>> \in inflight' => limit[p] = NoCard,
         \A p \in Orders : <<"put", p>> \in inflight' =>
           state[p] \in {"enabling", "active", "funding_failed"},
         run'[o].step = "check" => run'[o].answer # "ok",
         run'[o].step = "check" /\ run'[o].answer = "rejected" => o \in refused',
         state[o] = "enabling" /\ run'[o].step = "transfer" =>
           o \in refused' /\ limit[CardOrder[o]] = 0,
         run'[o].step = "conclude" /\ run'[o].answer = "rejected" =>
           o \in refused' /\ limit[CardOrder[o]] = 0,
         run'[o].step = "conclude" /\ run'[o].answer = "ok" =>
           limit[CardOrder[o]] = Funding[o]
  PROVE  Funded'
<1>1. \A p, leg : Asked(p, leg)' <=> Asked(p, leg)
  BY DEF Asked
<1>2. RefusalsFit'
  <2> SUFFICES ASSUME NEW p \in Orders PROVE RefusalsFit!(p)'
    BY DEF RefusalsFit
  <2>1. CASE p = o
    <3>1. Asked(o, "unfund_hold") => o \in refused /\ GoesBack(o)
      BY DEF Funded, RefusalsFit, GoesBack
    <3> QED BY <1>1, <2>1, <3>1 DEF Funded, RefusalsFit, At, GoesBack
  <2>2. CASE p # o
    <3>1. GoesBack(p)' <=> GoesBack(p)
      BY <1>1, <2>2 DEF GoesBack, At
    <3> QED BY <1>1, <2>2, <3>1 DEF Funded, RefusalsFit, At
  <2> QED BY <2>1, <2>2
<1>3. LimitsFit'
  <2>1. \A p \in Orders : Spends(p)' <=> Spends(p)
    BY <1>1 DEF Spends
  <2> QED BY <2>1 DEF Funded, LimitsFit, Backed
<1> QED BY <1>2, <1>3, UndisturbedFunded DEF Funded

(* A step of the provider on a card that had no limit to spend.            *)
LEMMA CardFunded ==
  ASSUME Inductive, Funded, UNCHANGED <<state, op, refused>>,
         NEW c \in Orders, NEW made \in {0, Loose}, limit' = [limit EXCEPT ![c] = made],
         limit[c] \in {NoCard, Loose},
         inflight' \subseteq inflight, <<"create", c>> \notin inflight',
         \/ UNCHANGED run
         \/ \E answer \in Answers : Goto(c, "record_created", answer)
  PROVE  Funded'
<1>1. /\ limit'[c] \in {0, Loose} /\ \A p \in Orders : p # c => limit'[p] = limit[p]
  BY DEF Inductive, TypeOK
<1>2. \A p, leg : Asked(p, leg)' <=> Asked(p, leg)
  BY DEF Asked
<1>3. \A p \in Orders : run'[p] = run[p] \/ (p = c /\ run'[p].step = "record_created")
  BY GotoEffect DEF Inductive, Steps
<1>4. \A p \in Orders : CardOrder[p] \in Orders /\ Funding[p] \in Nat \ {0}
  BY IssuingAssumption
<1>5. RefusalsFit'
  <2> SUFFICES ASSUME NEW p \in Orders PROVE RefusalsFit!(p)'
    BY DEF RefusalsFit
  <2>1. GoesBack(p)' => GoesBack(p)
    BY <1>2, <1>3 DEF GoesBack, At
  <2>2. At(p, "check")' \/ At(p, "conclude")' => run'[p] = run[p]
    BY <1>3 DEF At
  <2>3. limit[CardOrder[p]] \in {0, Funding[p]} => CardOrder[p] # c
    BY <1>4 DEF NoCard, Loose
  <2> QED BY <1>1, <1>2, <1>4, <2>1, <2>2, <2>3 DEF Funded, RefusalsFit, At
<1>6. LimitsFit'
  <2>1. \A p \in Orders : Spends(p)' <=> Spends(p)
    BY <1>2 DEF Spends
  <2>2. ~(limit[c] > 0) /\ ~(limit'[c] > 0)
    BY <1>1 DEF NoCard, Loose
  <2>3. \A p \in Orders : limit'[p] > 0 => limit[p] > 0 /\ limit'[p] = limit[p]
    BY <1>1, <2>2
  <2>4. \A p \in Orders : limit[p] > 0 => limit'[p] > 0
    BY <1>1, <2>2
  <2>5. \A p \in Orders : <<"create", p>> \in inflight' => limit'[p] = NoCard
    BY <1>1 DEF Funded, LimitsFit
  <2> QED BY <1>4, <2>1, <2>3, <2>4, <2>5 DEF Funded, LimitsFit, Backed
<1> QED BY <1>5, <1>6, UndisturbedFunded DEF Funded

(* The provider raises the limit of a card, at once or late, for an order  *)
(* whose limit it has not refused: that order has not asked for its        *)
(* funding back, and no other order has a claim on the card.               *)
LEMMA LimitFunded ==
  ASSUME Inductive, Funded, UNCHANGED <<state, op, refused>>,
         NEW o \in Orders, o \notin refused,
         state[o] = "enabling" \/ <<"put", o>> \in inflight,
         limit' = [limit EXCEPT ![CardOrder[o]] = Funding[o]],
         inflight' \subseteq inflight,
         UNCHANGED run \/ Goto(o, "check", "unknown")
  PROVE  Funded'
<1> DEFINE c == CardOrder[o]
<1>1. c \in Orders /\ Funding[o] \in Nat \ {0} /\ limit[c] # NoCard
  <2>1. ~TopUp(c) /\ state[c] \in {"enabling", "funding_failed", "active"}
    BY CardOfEnabling
  <2> HIDE DEF c
  <2>2. c \in Orders
    BY CardOfEnabling DEF c
  <2> QED BY <2>1, <2>2, IssuingAssumption DEF Inductive, CardsFit
<1>2. ~Asked(o, "unfund_hold") /\ Spends(o) /\ ~Over(o)
  <2>1. ~Asked(o, "unfund_hold")
    BY DEF Funded, RefusalsFit
  <2>2. ~Asked(o, "unfund")
    BY <2>1 DEF Funded, MovesInOrder, Asked
  <2>3. state[o] \in {"enabling", "active"}
    <3>1. state[o] \in {"enabling", "active", "funding_failed"}
      BY DEF Funded, LimitsFit
    <3> QED BY <2>2, <3>1 DEF Funded, MovesInOrder, Asked
  <2> QED BY <2>1, <2>2, <2>3 DEF Spends, Over, Asked
<1>3. \A p \in Orders : p # o /\ CardOrder[p] = c => Over(p) /\ state[p] # "enabling"
  BY <1>2 DEF Funded, OneClaims, SameCard, Over
<1> HIDE DEF c
<1>4. limit'[c] = Funding[o] /\ \A p \in Orders : p # c => limit'[p] = limit[p]
  BY <1>1 DEF c, Inductive, TypeOK
<1>5. \A p, leg : Asked(p, leg)' <=> Asked(p, leg)
  BY DEF Asked
<1>6. \A p \in Orders : run'[p] = run[p] \/ (p = o /\ run'[p].step = "check"
                                               /\ run'[p].answer = "unknown")
  BY GotoEffect DEF Inductive, Steps, Answers
<1>7. RefusalsFit'
  <2> SUFFICES ASSUME NEW p \in Orders PROVE RefusalsFit!(p)'
    BY DEF RefusalsFit
  <2>1. GoesBack(p)' => GoesBack(p)
    BY <1>5, <1>6 DEF GoesBack, At
  <2>2. CASE CardOrder[p] # c
    <3>1. limit'[CardOrder[p]] = limit[CardOrder[p]]
      BY <1>4, <2>2, IssuingAssumption
    <3> QED BY <1>5, <1>6, <2>1, <3>1 DEF Funded, RefusalsFit, At
  <2>3. CASE CardOrder[p] = c /\ p # o
    <3>1. state[p] # "enabling" /\ run[p].step # "conclude"
      BY <1>3, <2>3 DEF Inductive, RunsFit, At
    <3>2. run'[p] = run[p]
      BY <1>6, <2>3
    <3> QED BY <1>5, <3>1, <3>2 DEF Funded, RefusalsFit, At
  <2>4. CASE p = o
    <3>1. ~(state[o] = "enabling" /\ GoesBack(o))
      BY DEF Funded, RefusalsFit
    <3>2. CardOrder[p] = c
      BY <2>4 DEF c
    <3>3. At(o, "check")' => run'[o].answer # "ok" /\ (run'[o].answer = "rejected" => o \in refused')
      BY <1>6 DEF Funded, RefusalsFit, At
    <3> QED BY <1>2, <1>4, <1>5, <2>1, <2>4, <3>1, <3>2, <3>3 DEF At
  <2> QED BY <2>2, <2>3, <2>4
<1>8. LimitsFit'
  <2>1. \A p \in Orders : Spends(p)' <=> Spends(p)
    BY <1>5 DEF Spends
  <2>2. \A p \in Orders : <<"create", p>> \in inflight' => limit'[p] = NoCard
    <3>1. <<"create", c>> \notin inflight
      BY <1>1 DEF Funded, LimitsFit
    <3> QED BY <1>4, <3>1 DEF Funded, LimitsFit
  <2>3. ASSUME NEW p \in Orders, limit'[p] > 0
        PROVE  Backed(p)'
    <3>1. CASE p = c
      BY <1>2, <1>4, <2>1, <3>1 DEF c, Backed
    <3>2. CASE p # c
      BY <1>4, <2>1, <2>3, <3>2 DEF Funded, LimitsFit, Backed
    <3> QED BY <3>1, <3>2
  <2>4. \A p \in Orders : limit[p] > 0 => limit'[p] > 0
    BY <1>1, <1>4
  <2>5. \A p \in Orders : <<"put", p>> \in inflight' =>
          state'[p] \in {"enabling", "active", "funding_failed"}
    BY DEF Funded, LimitsFit
  <2>6. \A p \in Orders : state'[p] = "active" => limit'[CardOrder[p]] > 0
    BY <2>4, IssuingAssumption DEF Funded, LimitsFit
  <2> QED BY <2>2, <2>3, <2>5, <2>6 DEF LimitsFit
<1> QED BY <1>7, <1>8, UndisturbedFunded DEF Funded

(* An order whose card has its limit is active, and with a top-up the      *)
(* order that created the card.                                            *)
LEMMA EnabledFunded ==
  ASSUME Inductive, Funded, Inductive', NEW o \in Orders, Enabled(o) PROVE Funded'
<1> DEFINE c == CardOrder[o]
<1>1. /\ state[o] = "enabling" /\ Stop(o) /\ At(o, "conclude") /\ run[o].answer = "ok"
      /\ state' = [state EXCEPT ![o] = "active", ![c] = "active"]
      /\ UNCHANGED <<op, limit, inflight, refused>>
  BY DEF Enabled, OutsideUnchanged, ProviderUnchanged, Inductive, RunsFit, At
<1>2. /\ c \in Orders /\ CardOrder[c] = c /\ Funding[o] \in Nat \ {0}
      /\ c # o => TopUp(o) /\ state[c] \in {"funding_failed", "active"}
  BY <1>1, IssuingAssumption DEF TopUp, Inductive, TopupsFit
<1>3. limit[c] = Funding[o] /\ limit[c] > 0
  BY <1>1, <1>2 DEF Funded, RefusalsFit
<1>4. ~Asked(o, "unfund_hold") /\ ~Asked(o, "unfund") /\ ~Over(o)
  <2>1. ~Asked(o, "unfund_hold")
    BY <1>1, <1>3 DEF Funded, RefusalsFit, GoesBack
  <2>2. ~Asked(o, "unfund")
    BY <2>1 DEF Funded, MovesInOrder, Asked
  <2> QED BY <1>1, <2>1, <2>2 DEF Over
<1>5. \A p \in Orders : p # o /\ CardOrder[p] = c => Over(p)
  BY <1>4 DEF Funded, OneClaims, SameCard
<1>6. c # o => Over(c) /\ op[c]["unfund"] = "applied"
  BY <1>2, <1>5 DEF Funded, MovesInOrder, Over
<1> HIDE DEF c
<1>7. /\ state'[o] = "active" /\ state'[c] = "active"
      /\ \A p \in Orders : p \notin {o, c} => state'[p] = state[p]
  BY <1>1, <1>2 DEF Inductive, TypeOK
<1>8. run'[o].step = "idle" /\ \A p \in Orders : p # o => run'[p] = run[p]
  BY <1>1, StopEffect DEF Inductive
<1>9. \A p, leg : Asked(p, leg)' <=> Asked(p, leg)
  BY <1>1 DEF Asked
<1>10. \A p \in Orders : Over(p)' <=> Over(p)
  BY <1>1, <1>4, <1>6, <1>7 DEF Over, Asked
<1>11. MovesInOrder'
  <2> SUFFICES ASSUME NEW p \in Orders PROVE MovesInOrder!(p)'
    BY DEF MovesInOrder
  <2>1. CASE p = o
    BY <1>1, <1>4, <1>7, <1>9, <2>1 DEF Funded, MovesInOrder
  <2>2. CASE p = c /\ c # o
    <3>1. state'[p] = "active" /\ op' = op
      BY <1>1, <1>7, <2>2
    <3>2. state[p] \in {"funding_failed", "active"}
      BY <1>2, <2>2
    <3>3. /\ op[p]["reserve"] = "applied" /\ op[p]["fund"] = "applied"
          /\ op[p]["unfund"] = "applied" /\ (Fee[p] = 0 \/ op[p]["fee"] = "applied")
          /\ Asked(p, "fee") => Fee[p] > 0
          /\ Asked(p, "unfund") => op[p]["unfund_hold"] = "applied"
      BY <1>6, <2>2, <3>2 DEF Funded, MovesInOrder
    <3>4. \A leg : Asked(p, leg)' <=> Asked(p, leg)
      BY <1>9
    <3> QED BY <3>1, <3>3, <3>4
  <2>3. CASE p \notin {o, c}
    <3>1. state'[p] = state[p] /\ op' = op
      BY <1>1, <1>7, <2>3
    <3> QED BY <1>9, <3>1 DEF Funded, MovesInOrder
  <2> QED BY <2>1, <2>2, <2>3
<1>12. OneClaims'
  BY <1>10 DEF Funded, OneClaims, SameCard
<1>13. RefusalsFit'
  <2> SUFFICES ASSUME NEW p \in Orders PROVE RefusalsFit!(p)'
    BY DEF RefusalsFit
  <2>1. CASE p = o
    BY <1>4, <1>7, <1>8, <1>9, <2>1 DEF At
  <2>2. CASE p # o
    <3>1. GoesBack(p)' <=> GoesBack(p)
      BY <1>8, <1>9, <2>2 DEF GoesBack, At
    <3>2. state'[p] = "enabling" => state[p] = "enabling"
      BY <1>7, <2>2
    <3> QED BY <1>1, <1>8, <1>9, <2>2, <3>1, <3>2 DEF Funded, RefusalsFit, At
  <2> QED BY <2>1, <2>2
<1>14. LimitsFit'
  <2>1. \A p \in Orders : Spends(p) => Spends(p)'
    BY <1>4, <1>7, <1>9 DEF Spends
  <2>2. \A p \in Orders : state'[p] = "active" => limit'[CardOrder[p]] > 0
    <3> SUFFICES ASSUME NEW p \in Orders, state'[p] = "active" PROVE limit[CardOrder[p]] > 0
      BY <1>1
    <3>1. CASE p = o
      BY <1>3, <3>1 DEF c
    <3>2. CASE p = c
      BY <1>2, <1>3, <3>2
    <3>3. CASE p \notin {o, c}
      BY <1>7, <3>3 DEF Funded, LimitsFit
    <3> QED BY <3>1, <3>2, <3>3
  <2>3. \A p \in Orders : state[p] \in {"enabling", "active", "funding_failed"} =>
          state'[p] \in {"enabling", "active", "funding_failed"}
    BY <1>7
  <2> QED BY <1>1, <2>1, <2>2, <2>3 DEF Funded, LimitsFit, Backed
<1>15. BalancesFit' /\ OnlyReservationsAreRefused'
  BY <1>1, <1>11, BalancesStay DEF Funded, OnlyReservationsAreRefused
<1> QED BY <1>11, <1>12, <1>13, <1>14, <1>15 DEF Funded

(* Reading the card, raising its limit, and what follows, when a limit     *)
(* that was refused stays refused and a read is not.                       *)
LEMMA EnableFunded ==
  ASSUME Steadfast, ~ReadsRefused, Inductive, Funded, Inductive', NEW o \in Orders, Enable(o)
  PROVE  Funded'
<1> USE DEF OutsideUnchanged, ProviderUnchanged
<1>1. CASE BeginEnable(o)
  BY <1>1, EnterFunded
<1>2. CASE Enabled(o)
  BY <1>2, EnabledFunded
<1>3. CASE PutAccepted(o)
  <2>1. o \notin refused /\ state[o] = "enabling" /\ inflight' = inflight
    BY <1>3 DEF PutAccepted, Accepts, Inductive, RunsFit, At
  <2>2. Goto(o, "check", "unknown") /\ limit' = [limit EXCEPT ![CardOrder[o]] = Funding[o]]
        /\ UNCHANGED <<state, op, refused>>
    BY <1>3 DEF PutAccepted
  <2> QED BY <2>1, <2>2, LimitFunded
<1>4. CASE PutLate(o)
  <2>1. o \notin refused /\ <<"put", o>> \in inflight /\ inflight' \subseteq inflight
    BY <1>4 DEF PutLate, Accepts
  <2>2. UNCHANGED run /\ limit' = [limit EXCEPT ![CardOrder[o]] = Funding[o]]
        /\ UNCHANGED <<state, op, refused>>
    BY <1>4 DEF PutLate
  <2> QED BY <2>1, <2>2, LimitFunded
<1>5. CASE PutRefused(o) \/ PutFails(o)
  <2>1. /\ UNCHANGED <<state, op, limit>> /\ refused \subseteq refused' /\ state[o] = "enabling"
        /\ inflight' \subseteq inflight \cup {<<"put", o>>}
    BY <1>5 DEF PutRefused, PutFails, Inductive, RunsFit, At
  <2>2. PICK answer \in Answers \ {"ok"} :
          Goto(o, "check", answer) /\ (answer = "rejected" => o \in refused')
    BY <1>5 DEF PutRefused, PutFails, Answers
  <2>3. /\ run'[o].step = "check" /\ run'[o].answer = answer
        /\ \A p \in Orders : p # o => run'[p] = run[p]
    BY <2>2, GotoEffect DEF Inductive, Steps
  <2>4. /\ \A p \in Orders : <<"create", p>> \in inflight' => limit[p] = NoCard
        /\ \A p \in Orders : <<"put", p>> \in inflight' =>
             state[p] \in {"enabling", "active", "funding_failed"}
    BY <2>1 DEF Funded, LimitsFit
  <2> QED BY <2>1, <2>2, <2>3, <2>4, RunFunded
<1>6. CASE ReadCard(o) \/ CheckCard(o)
  <2>1. UNCHANGED <<state, op, limit, inflight, refused>> /\ state[o] = "enabling"
    BY <1>6 DEF ReadCard, CheckCard, Inductive, RunsFit, At
  <2>2. PICK step \in {"put", "conclude"}, answer \in Answers :
          /\ Goto(o, step, answer)
          /\ step = "conclude" /\ answer = "rejected" => o \in refused /\ limit[CardOrder[o]] = 0
          /\ step = "conclude" /\ answer = "ok" => limit[CardOrder[o]] = Funding[o]
    <3>1. CASE ReadCard(o)
      BY <3>1 DEF ReadCard, ReadFails, Answers
    <3>2. CASE CheckCard(o)
      <4>1. PICK answer \in ReadFails \cup {Checked(o)} : Goto(o, "conclude", answer)
        BY <3>2 DEF CheckCard
      <4>2. run[o].answer \in Answers \ {"ok"} /\ (run[o].answer = "rejected" => o \in refused)
        BY <3>2 DEF Inductive, TypeOK, CheckCard, Funded, RefusalsFit
      <4>3. answer \in Answers
        BY <4>1, <4>2 DEF ReadFails, Checked, Answers
      <4>4. CASE answer \in ReadFails
        BY <4>1, <4>3, <4>4 DEF ReadFails
      <4>5. CASE answer = Checked(o)
        <5>1. answer = "ok" => limit[CardOrder[o]] = Funding[o]
          BY <4>2, <4>5 DEF Checked
        <5>2. answer = "rejected" => o \in refused /\ limit[CardOrder[o]] = 0
          BY <4>2, <4>5 DEF Checked
        <5> QED BY <4>1, <4>3, <5>1, <5>2
      <4> QED BY <4>4, <4>5
    <3> QED BY <1>6, <3>1, <3>2
  <2>3. /\ run'[o].step = step /\ run'[o].answer = answer
        /\ \A p \in Orders : p # o => run'[p] = run[p]
    BY <2>2, GotoEffect DEF Inductive, Steps
  <2>4. /\ \A p \in Orders : <<"create", p>> \in inflight' => limit[p] = NoCard
        /\ \A p \in Orders : <<"put", p>> \in inflight' =>
             state[p] \in {"enabling", "active", "funding_failed"}
    BY <2>1 DEF Funded, LimitsFit
  <2> QED BY <2>1, <2>2, <2>3, <2>4, RunFunded
<1>7. CASE EnableRejected(o)
  <2>1. UNCHANGED <<state, op, limit, inflight, refused>> /\ state[o] = "enabling"
        /\ o \in refused /\ limit[CardOrder[o]] = 0
    BY <1>7 DEF EnableRejected, Inductive, RunsFit, At, Funded, RefusalsFit, GoesBack
  <2>2. run'[o].step = "transfer" /\ \A p \in Orders : p # o => run'[p] = run[p]
    BY <1>7, GotoEffect DEF EnableRejected, Inductive, Steps, Answers
  <2> QED BY <2>1, <2>2, RunFunded DEF Funded, LimitsFit
<1>8. CASE EnableUnknown(o)
  <2>1. UNCHANGED <<state, op, limit, inflight, refused>>
    BY <1>8 DEF EnableUnknown
  <2>2. run'[o].step = "idle" /\ \A p \in Orders : p # o => run'[p] = run[p]
    BY <1>8, StopEffect DEF EnableUnknown, Inductive
  <2> QED BY <2>1, <2>2, RunFunded DEF Funded, LimitsFit
<1> QED BY <1>1, <1>2, <1>3, <1>4, <1>5, <1>6, <1>7, <1>8 DEF Enable

(* Asking for the card, and looking for it.                                *)
LEMMA CreateFunded ==
  ASSUME Inductive, Funded, Inductive', NEW o \in Orders, Create(o) PROVE Funded'
<1> USE DEF OutsideUnchanged, ProviderUnchanged
<1>1. CASE BeginCreate(o) \/ RecordCard(o)
  BY <1>1, EnterFunded
<1>2. CASE CreateCard(o)
  <2>1. limit[o] = NoCard /\ <<"create", o>> \notin inflight
    BY <1>2 DEF CreateCard, Inductive, AnswersFit, Cardless
  <2>2. PICK made \in {0, Loose} : limit' = [limit EXCEPT ![o] = made]
    BY <1>2 DEF CreateCard
  <2>3. UNCHANGED <<state, op, refused, inflight>>
        /\ \E answer \in Answers : Goto(o, "record_created", answer)
    BY <1>2 DEF CreateCard, Answers
  <2> QED BY <2>1, <2>2, <2>3, CardFunded
<1>3. CASE CreateLate(o)
  <2>1. limit[o] = NoCard /\ inflight' = inflight \ {<<"create", o>>}
    BY <1>3 DEF CreateLate, Funded, LimitsFit
  <2>2. PICK made \in {0, Loose} : limit' = [limit EXCEPT ![o] = made]
    BY <1>3 DEF CreateLate
  <2>3. UNCHANGED <<state, op, refused, run>>
    BY <1>3 DEF CreateLate
  <2> QED BY <2>1, <2>2, <2>3, CardFunded
<1>4. CASE CreateFails(o) \/ BeginFind(o) \/ FindCard(o)
  <2>1. /\ UNCHANGED <<state, op, limit, refused>>
        /\ inflight' = inflight \/ (inflight' = inflight \cup {<<"create", o>>} /\ limit[o] = NoCard)
    BY <1>4 DEF CreateFails, BeginFind, FindCard, Inductive, AnswersFit, Cardless
  <2>2. PICK step \in {"record_created", "find", "record_found"}, answer \in Answers :
          Goto(o, step, answer)
    BY <1>4 DEF CreateFails, BeginFind, FindCard, Seen, Answers
  <2>3. /\ run'[o].step = step /\ \A p \in Orders : p # o => run'[p] = run[p]
    BY <2>2, GotoEffect DEF Inductive, Steps
  <2>4. /\ \A p \in Orders : <<"create", p>> \in inflight' => limit[p] = NoCard
        /\ \A p \in Orders : <<"put", p>> \in inflight' =>
             state[p] \in {"enabling", "active", "funding_failed"}
    BY <2>1 DEF Funded, LimitsFit
  <2> QED BY <2>1, <2>3, <2>4, RunFunded
<1> QED BY <1>1, <1>2, <1>3, <1>4 DEF Create

(* A process that stops, the operators, and the provider's card.           *)
LEMMA OperateFunded ==
  ASSUME Inductive, Funded, Inductive', NEW o \in Orders, GiveUp(o) \/ Operate(o) PROVE Funded'
<1> USE DEF OutsideUnchanged, ProviderUnchanged
<1>1. CASE Recover(o)
  BY <1>1, EnterFunded
<1>2. CASE GiveUp(o)
  <2>1. UNCHANGED <<state, op, limit, inflight, refused>>
    BY <1>2 DEF GiveUp
  <2>2. run'[o].step = "idle" /\ \A p \in Orders : p # o => run'[p] = run[p]
    BY <1>2, StopEffect DEF GiveUp, Inductive
  <2> QED BY <2>1, <2>2, RunFunded DEF Funded, LimitsFit
<1>3. CASE RestrictCard(o)
  <2>1. limit[o] = Loose /\ <<"create", o>> \notin inflight
    <3>1. limit[o] = Loose /\ Loose # NoCard
      BY <1>3 DEF RestrictCard, NoCard, Loose
    <3> QED BY <3>1 DEF Funded, LimitsFit
  <2>2. limit' = [limit EXCEPT ![o] = 0] /\ UNCHANGED <<state, op, refused, run, inflight>>
    BY <1>3 DEF RestrictCard
  <2> QED BY <2>1, <2>2, CardFunded
<1> QED BY <1>1, <1>2, <1>3 DEF Operate

(* Submitting a move of the state the order is in, and a move that Blnk or *)
(* the ledger goes on with.                                                *)
LEMMA SubmittedInOrder ==
  ASSUME Inductive, Funded, UNCHANGED <<state, run, limit, inflight, refused>>,
         NEW o \in Orders, NEW leg \in Legs, op[o][leg] = "absent", SetOp(o, leg, "pending"),
         At(o, "transfer"),
         \/ state[o] = "queued" /\ leg = "reserve"
         \/ state[o] = "created" /\ leg = "fee" /\ Fee[o] > 0
         \/ state[o] = "fee_charged" /\ leg = "fund"
         \/ state[o] = "enabling" /\ leg = "unfund_hold"
         \/ state[o] = "enabling" /\ leg = "unfund" /\ op[o]["unfund_hold"] = "applied"
         \/ state[o] = "releasing" /\ leg = "release"
  PROVE  Funded'
<1>1. /\ op'[o][leg] = "pending"
      /\ \A p \in Orders, l \in Legs : <<p, l>> # <<o, leg>> => op'[p][l] = op[p][l]
  BY DEF SetOp, Inductive, TypeOK
<1>2. /\ \A p \in Orders, l \in Legs : <<p, l>> # <<o, leg>> => (Asked(p, l)' <=> Asked(p, l))
      /\ Asked(o, leg)' /\ ~Asked(o, leg)
  BY <1>1 DEF Asked
<1>3. MovesInOrder'
  <2> SUFFICES ASSUME NEW p \in Orders PROVE MovesInOrder!(p)'
    BY DEF MovesInOrder
  <2>1. CASE p # o
    BY <1>1, <1>2, <2>1 DEF Funded, MovesInOrder, Legs
  <2>2. CASE p = o
    <3>1. leg = "unfund_hold" => ~Asked(o, "unfund")
      BY DEF Funded, MovesInOrder
    <3> QED BY <1>1, <1>2, <2>2, <3>1 DEF Funded, MovesInOrder, Legs
  <2> QED BY <2>1, <2>2
<1>4. \A p \in Orders : Over(p)' <=> Over(p)
  BY <1>1 DEF Over, Legs
<1>5. OneClaims'
  BY <1>4 DEF Funded, OneClaims, SameCard
<1>6. state[o] = "enabling" => o \in refused /\ limit[CardOrder[o]] = 0
  BY DEF Funded, RefusalsFit, GoesBack
<1>7. RefusalsFit'
  <2> SUFFICES ASSUME NEW p \in Orders PROVE RefusalsFit!(p)'
    BY DEF RefusalsFit
  <2>1. Asked(p, "unfund_hold")' => Asked(p, "unfund_hold") \/ (p = o /\ state[o] = "enabling")
    BY <1>2 DEF Legs
  <2>2. GoesBack(p)' => GoesBack(p) \/ p = o
    BY <2>1 DEF GoesBack, At
  <2> QED BY <1>6, <2>1, <2>2 DEF Funded, RefusalsFit, At
<1>8. LimitsFit'
  <2>1. ASSUME NEW p \in Orders, Spends(p), limit[CardOrder[p]] > 0 PROVE Spends(p)'
    <3>1. Asked(p, "unfund_hold")' => Asked(p, "unfund_hold") \/ (p = o /\ state[o] = "enabling")
      BY <1>2 DEF Legs
    <3> QED BY <1>6, <2>1, <3>1 DEF Spends
  <2> QED BY <2>1 DEF Funded, LimitsFit, Backed
<1>9. BalancesFit'
  <2>1. Moved' = Moved
    BY <1>1 DEF Moved
  <2>2. /\ \A a : Balance(a)' = Balance(a)
        /\ \A p : HeldFor(p)' = HeldFor(p) /\ OnCard(p)' = OnCard(p)
    BY <2>1, NothingMoves
  <2>3. BalancesFit
    BY DEF Funded
  <2> QED BY <1>4, <2>1, <2>2, <2>3 DEF BalancesFit, SameCard, Hold, CardAccount
<1>10. OnlyReservationsAreRefused'
  BY <1>1 DEF Funded, OnlyReservationsAreRefused
<1> QED BY <1>3, <1>5, <1>7, <1>8, <1>9, <1>10 DEF Funded

(* Submitting the moves of a state, and what comes when they are applied.  *)
LEMMA TransferFunded ==
  ASSUME Inductive, Funded, Inductive', NEW o \in Orders, Transfer(o) PROVE Funded'
<1> USE DEF OutsideUnchanged, ProviderUnchanged
<1>1. CASE BeginTransfer(o)
  <2>1. UNCHANGED <<state, op, limit, inflight, refused>> /\ state[o] # "enabling"
    BY <1>1 DEF BeginTransfer, MayTransfer
  <2>2. run'[o].step = "transfer" /\ \A p \in Orders : p # o => run'[p] = run[p]
    BY <1>1, GotoEffect DEF BeginTransfer, Inductive, Steps, Answers
  <2> QED BY <2>1, <2>2, RunFunded DEF Funded, LimitsFit
<1>2. CASE Transferred(o) \/ ReserveRefused(o)
  BY <1>2, TransferredFunded
<1>3. CASE SubmitLeg(o)
  <2> DEFINE legs == Transfers[state[o]].legs
  <2>1. /\ state[o] \in {"queued", "created", "fee_charged", "enabling", "releasing"}
        /\ At(o, "transfer") /\ UNCHANGED <<state, run, limit, inflight, refused>>
    BY <1>3, NextOfStates DEF SubmitLeg, Inductive, RunsFit
  <2>2. PICK i \in DOMAIN legs :
          /\ \A j \in 1..i-1 : Done(o, legs[j])
          /\ ~Done(o, legs[i]) /\ op[o][legs[i]] = "absent"
          /\ SetOp(o, legs[i], "pending")
    BY <1>3 DEF SubmitLeg
  <2>3. CASE state[o] = "enabling"
    <3>1. legs = <<"unfund_hold", "unfund">>
      BY <2>3, LegsAre
    <3>2. CASE i = 1
      <4>1. legs[i] = "unfund_hold"
        BY <3>1, <3>2
      <4> QED BY <2>1, <2>2, <2>3, <4>1, SubmittedInOrder DEF Legs
    <3>3. CASE i # 1
      <4>1. i = 2 /\ legs[i] = "unfund" /\ 1 \in 1..i-1 /\ legs[1] = "unfund_hold"
        BY <3>1, <3>3
      <4>2. op[o]["unfund_hold"] = "applied"
        <5>1. Done(o, "unfund_hold")
          BY <2>2, <4>1
        <5>2. Amount(o, "unfund_hold") # 0
          BY AmountsAreNat DEF Legs
        <5> QED BY <5>1, <5>2 DEF Done
      <4> QED BY <2>1, <2>2, <2>3, <4>1, <4>2, SubmittedInOrder DEF Legs
    <3> QED BY <3>2, <3>3
  <2>4. CASE state[o] # "enabling"
    <3>1. PICK leg \in Legs :
            /\ legs = <<leg>>
            /\ \/ state[o] = "queued" /\ leg = "reserve"
               \/ state[o] = "created" /\ leg = "fee"
               \/ state[o] = "fee_charged" /\ leg = "fund"
               \/ state[o] = "releasing" /\ leg = "release"
      BY <2>1, <2>4, LegsAre DEF Legs
    <3>2. legs[i] = leg
      BY <3>1
    <3>3. leg = "fee" => Fee[o] > 0
      BY <2>2, <3>2, AmountsAreNat DEF Done, Legs
    <3> QED BY <2>1, <2>2, <3>1, <3>2, <3>3, SubmittedInOrder
  <2> QED BY <2>3, <2>4
<1> QED BY <1>1, <1>2, <1>3 DEF Transfer

(* What an order's hold has when a move out of it is pending, and what its *)
(* card has when the funding is to go back: enough.                        *)
LEMMA MoneyIsThere ==
  ASSUME Inductive, Funded, NEW o \in Orders, NEW leg \in Legs \ {"reserve"},
         op[o][leg] = "pending"
  PROVE  Balance(Source(o, leg)) >= Amount(o, leg)
<1> DEFINE paid(l) == IF op[o][l] \in {"posted", "applied"} THEN Amount(o, l) ELSE 0
<1>1. /\ \A l \in Legs : Paid(o, l) = paid(l)
      /\ Asked(o, leg)
  BY DEF Paid, Moved, Asked
<1>2. /\ Fee[o] \in Nat /\ Funding[o] \in Nat
      /\ Amount(o, "reserve") = Fee[o] + Funding[o] /\ Amount(o, "release") = Fee[o] + Funding[o]
      /\ Amount(o, "fee") = Fee[o] /\ Amount(o, "fund") = Funding[o]
      /\ Amount(o, "unfund_hold") = Funding[o] /\ Amount(o, "unfund") = Funding[o]
  BY AmountsAreNat DEF Legs
<1>3. /\ Balance(Hold(o)) = HeldFor(o)
      /\ (\A p \in Orders : p # o /\ SameCard(o, p) => Over(p))
            => Balance(CardAccount(o)) = OnCard(o)
  BY DEF Funded, BalancesFit
<1>4. /\ HeldFor(o) = paid("reserve") - paid("fee") - paid("fund")
                        + paid("unfund_hold") - paid("unfund") - paid("release")
      /\ OnCard(o) = paid("fund") - paid("unfund_hold")
  BY <1>1 DEF HeldFor, OnCard, Legs
<1>5. \A l \in Legs : ~Asked(o, l) => op[o][l] = "absent"
  BY DEF Asked
<1>6. MovesInOrder /\ (Asked(o, "release") => state[o] \in {"releasing", "failed"})
  BY DEF Funded, Inductive, MovesFit
<1>7. CASE leg = "fee"
  <2>1. /\ op[o]["reserve"] = "applied" /\ state[o] = "created"
        /\ \A l \in {"fund", "unfund_hold", "unfund", "release"} : op[o][l] = "absent"
    BY <1>1, <1>5, <1>6, <1>7 DEF MovesInOrder, Legs, Asked
  <2>2. HeldFor(o) = Fee[o] + Funding[o]
    BY <1>2, <1>4, <1>7, <2>1
  <2> QED BY <1>2, <1>3, <1>7, <2>2 DEF Source
<1>8. CASE leg = "fund"
  <2>1. /\ op[o]["reserve"] = "applied" /\ (Fee[o] = 0 \/ op[o]["fee"] = "applied")
        /\ \A l \in {"unfund_hold", "unfund", "release"} : op[o][l] = "absent"
    BY <1>1, <1>5, <1>6, <1>8 DEF MovesInOrder, Legs, Asked
  <2>2. paid("fee") = Fee[o]
    BY <1>2, <2>1
  <2>3. HeldFor(o) = Funding[o]
    BY <1>2, <1>4, <1>8, <2>1, <2>2
  <2> QED BY <1>2, <1>3, <1>8, <2>3 DEF Source
<1>9. CASE leg = "unfund_hold"
  <2>1. state[o] = "enabling" /\ op[o]["fund"] = "applied"
    BY <1>1, <1>5, <1>6, <1>9 DEF MovesInOrder, Legs, Asked
  <2>2. \A p \in Orders : p # o /\ SameCard(o, p) => Over(p)
    BY <2>1 DEF Funded, OneClaims, Over
  <2>3. OnCard(o) = Funding[o]
    BY <1>2, <1>4, <1>9, <2>1
  <2> QED BY <1>2, <1>3, <1>9, <2>2, <2>3 DEF Source
<1>10. CASE leg = "unfund"
  <2>1. /\ op[o]["reserve"] = "applied" /\ (Fee[o] = 0 \/ op[o]["fee"] = "applied")
        /\ op[o]["fund"] = "applied" /\ op[o]["unfund_hold"] = "applied"
        /\ op[o]["release"] = "absent"
    BY <1>1, <1>5, <1>6, <1>10 DEF MovesInOrder, Legs, Asked
  <2>2. paid("fee") = Fee[o]
    BY <1>2, <2>1
  <2>3. HeldFor(o) = Funding[o]
    BY <1>2, <1>4, <1>10, <2>1, <2>2
  <2> QED BY <1>2, <1>3, <1>10, <2>3 DEF Source
<1>11. CASE leg = "release"
  <2>1. /\ op[o]["reserve"] = "applied"
        /\ \A l \in {"fee", "fund", "unfund_hold", "unfund"} : op[o][l] = "absent"
    BY <1>1, <1>5, <1>6, <1>11 DEF MovesInOrder, Legs, Asked
  <2>2. HeldFor(o) = Fee[o] + Funding[o]
    BY <1>2, <1>4, <1>11, <2>1
  <2> QED BY <1>2, <1>3, <1>11, <2>2 DEF Source
<1> QED BY <1>7, <1>8, <1>9, <1>10, <1>11 DEF Legs

(* What the ledger's steps on a move that was asked for keep.              *)
LEMMA LedgerKeeps ==
  ASSUME Inductive, Funded, UNCHANGED <<state, run, limit, inflight, refused>>,
         NEW o \in Orders, NEW leg \in Legs,
         NEW before \in {"pending", "posted"}, op[o][leg] = before,
         NEW after \in {"posted", "applied", "refused"}, SetOp(o, leg, after),
         after = "refused" => leg = "reserve" /\ before = "pending"
  PROVE  /\ MovesInOrder' /\ OneClaims' /\ RefusalsFit' /\ LimitsFit'
         /\ OnlyReservationsAreRefused'
         /\ \A p \in Orders : Over(p)' <=> Over(p)
<1>1. /\ op'[o][leg] = after /\ Asked(o, leg)
      /\ \A p \in Orders, l \in Legs : <<p, l>> # <<o, leg>> => op'[p][l] = op[p][l]
  BY DEF SetOp, Inductive, TypeOK, Asked
<1>2. \A p \in Orders, l \in Legs : Asked(p, l)' <=> Asked(p, l)
  BY <1>1 DEF Asked
<1>3. \A p \in Orders, l \in Legs : op[p][l] \in {"absent", "applied", "refused"} => op'[p][l] = op[p][l]
  BY <1>1
<1>4. MovesInOrder'
  <2> SUFFICES ASSUME NEW p \in Orders PROVE MovesInOrder!(p)'
    BY DEF MovesInOrder
  <2>1. \A l \in Legs : Asked(p, l)' <=> Asked(p, l)
    BY <1>2
  <2>2. \A l \in Legs : op[p][l] \in {"absent", "applied", "refused"} => op'[p][l] = op[p][l]
    BY <1>3
  <2> QED BY <2>1, <2>2 DEF Funded, MovesInOrder, Legs
<1>5. \A p \in Orders : Over(p)' <=> Over(p)
  <2> SUFFICES ASSUME NEW p \in Orders, state[p] = "active"
               PROVE  op'[p]["unfund"] = "applied" <=> op[p]["unfund"] = "applied"
    BY DEF Over
  <2>1. op[p]["unfund"] \notin {"pending", "posted"}
    BY DEF Funded, MovesInOrder, Asked
  <2> QED BY <1>1, <2>1 DEF Legs
<1>6. OneClaims'
  BY <1>5 DEF Funded, OneClaims, SameCard
<1>7. RefusalsFit'
  <2>1. \A p \in Orders : GoesBack(p)' <=> GoesBack(p)
    BY <1>2 DEF GoesBack, At, Legs
  <2> QED BY <1>2, <2>1 DEF Funded, RefusalsFit, At, Legs
<1>8. LimitsFit'
  <2>1. \A p \in Orders : Spends(p)' <=> Spends(p)
    BY <1>2 DEF Spends, Legs
  <2> QED BY <2>1 DEF Funded, LimitsFit, Backed
<1>9. OnlyReservationsAreRefused'
  BY <1>1 DEF Funded, OnlyReservationsAreRefused
<1> QED BY <1>4, <1>5, <1>6, <1>7, <1>8, <1>9

(* The accounts of the wallet, the revenue, the orders and the cards.      *)
LEMMA AccountsDiffer ==
  ASSUME NEW o \in Orders, NEW p \in Orders
  PROVE  /\ Hold(p) \notin {Wallet, Revenue, CardAccount(o)}
         /\ CardAccount(p) \notin {Wallet, Revenue, Hold(o)}
         /\ Hold(p) = Hold(o) <=> p = o
         /\ CardAccount(p) = CardAccount(o) <=> SameCard(o, p)
<1>1. Hold(p) # Wallet /\ Hold(p) # Revenue /\ CardAccount(p) # Wallet /\ CardAccount(p) # Revenue
  <2>1. Len(Wallet) = 1 /\ Len(Revenue) = 1 /\ Len(Hold(p)) = 2 /\ Len(CardAccount(p)) = 2
    BY DEF Hold, Wallet, Revenue, CardAccount
  <2> QED BY <2>1
<1>2. Hold(p) # CardAccount(o) /\ CardAccount(p) # Hold(o)
  <2>1. Hold(p)[1] = "order" /\ CardAccount(o)[1] = "card"
        /\ Hold(o)[1] = "order" /\ CardAccount(p)[1] = "card"
    BY DEF Hold, CardAccount
  <2> QED BY <2>1
<1>3. Hold(p) = Hold(o) <=> p = o
  BY DEF Hold
<1>4. CardAccount(p) = CardAccount(o) <=> SameCard(o, p)
  BY DEF CardAccount, SameCard
<1> QED BY <1>1, <1>2, <1>3, <1>4

(* When Blnk moves money, the holds and the cards have what their orders   *)
(* paid into them.                                                         *)
LEMMA BalancesMove ==
  ASSUME Inductive, Funded, NEW o \in Orders, NEW leg \in Legs, PostLeg(o, leg),
         \A p \in Orders : Over(p)' <=> Over(p)
  PROVE  BalancesFit'
<1> DEFINE amount == Amount(o, leg)
<1>1. /\ IsFiniteSet(Moved')
      /\ \A p, l : <<p, l>> # <<o, leg>> => Paid(p, l)' = Paid(p, l)
      /\ Paid(o, leg) = 0 /\ Paid(o, leg)' = amount
      /\ \A a : /\ Balance(a) \in Int
                /\ Balance(a)' = Balance(a)
                     + (IF Dest(o, leg) = a THEN amount ELSE 0)
                     - (IF Source(o, leg) = a THEN amount ELSE 0)
  BY MoneyMoves DEF Inductive, Funded, BalancesFit
<1>2. amount \in Nat
  BY AmountsAreNat
<1>3. \A p \in Orders, l \in Legs : Paid(p, l) \in Nat
  BY AmountsAreNat DEF Paid
<1> HIDE DEF amount
<1>4. ASSUME NEW p \in Orders
      PROVE  Balance(Hold(p))' = HeldFor(p)'
  <2>1. Balance(Hold(p)) = HeldFor(p)
    BY DEF Funded, BalancesFit
  <2>2. Balance(Hold(p))' = Balance(Hold(p))
          + (IF Dest(o, leg) = Hold(p) THEN amount ELSE 0)
          - (IF Source(o, leg) = Hold(p) THEN amount ELSE 0)
    <3>1. Hold(p)' = Hold(p)
      BY DEF Hold
    <3> QED BY <1>1, <3>1
  <2>3. CASE p # o
    <3>1. Dest(o, leg) # Hold(p) /\ Source(o, leg) # Hold(p)
      BY <2>3, AccountsDiffer DEF Dest, Source
    <3>2. HeldFor(p)' = HeldFor(p)
      BY <1>1, <2>3 DEF HeldFor
    <3> QED BY <1>1, <2>1, <2>2, <3>1, <3>2
  <2>4. CASE p = o
    <3>1. \A l \in Legs : /\ Paid(o, l) \in Nat
                          /\ l # leg => Paid(o, l)' = Paid(o, l)
      BY <1>1, <1>3
    <3>2. /\ Dest(o, leg) = Hold(o) <=> leg \in {"reserve", "unfund_hold"}
          /\ Source(o, leg) = Hold(o) <=> leg \in {"fee", "fund", "unfund", "release"}
      BY AccountsDiffer DEF Dest, Source, Legs
    <3>3. HeldFor(o)' = HeldFor(o)
            + (IF leg \in {"reserve", "unfund_hold"} THEN amount ELSE 0)
            - (IF leg \in {"fee", "fund", "unfund", "release"} THEN amount ELSE 0)
      <4>1. CASE leg = "reserve"
        BY <1>1, <1>2, <3>1, <4>1 DEF HeldFor, Legs
      <4>2. CASE leg = "fee"
        BY <1>1, <1>2, <3>1, <4>2 DEF HeldFor, Legs
      <4>3. CASE leg = "fund"
        BY <1>1, <1>2, <3>1, <4>3 DEF HeldFor, Legs
      <4>4. CASE leg = "unfund_hold"
        BY <1>1, <1>2, <3>1, <4>4 DEF HeldFor, Legs
      <4>5. CASE leg = "unfund"
        BY <1>1, <1>2, <3>1, <4>5 DEF HeldFor, Legs
      <4>6. CASE leg = "release"
        BY <1>1, <1>2, <3>1, <4>6 DEF HeldFor, Legs
      <4> QED BY <4>1, <4>2, <4>3, <4>4, <4>5, <4>6 DEF Legs
    <3> QED BY <1>2, <2>1, <2>2, <2>4, <3>2, <3>3
  <2> QED BY <2>3, <2>4
<1>5. ASSUME NEW p \in Orders, \A q \in Orders : q # p /\ SameCard(p, q) => Over(q)
      PROVE  Balance(CardAccount(p))' = OnCard(p)'
  <2>1. Balance(CardAccount(p)) = OnCard(p)
    BY <1>5 DEF Funded, BalancesFit
  <2>2. Balance(CardAccount(p))' = Balance(CardAccount(p))
          + (IF Dest(o, leg) = CardAccount(p) THEN amount ELSE 0)
          - (IF Source(o, leg) = CardAccount(p) THEN amount ELSE 0)
    <3>1. CardAccount(p)' = CardAccount(p)
      BY DEF CardAccount
    <3> QED BY <1>1, <3>1
  <2>3. CASE p # o
    <3>1. leg \in {"fund", "unfund_hold"} => ~SameCard(p, o)
      BY <1>5, <2>3, OverLeavesNothing DEF PostLeg, Funded
    <3>2. Dest(o, leg) # CardAccount(p) /\ Source(o, leg) # CardAccount(p)
      BY <3>1, AccountsDiffer DEF Dest, Source, SameCard
    <3>3. OnCard(p)' = OnCard(p)
      BY <1>1, <2>3 DEF OnCard
    <3> QED BY <1>1, <2>1, <2>2, <3>2, <3>3
  <2>4. CASE p = o
    <3>1. /\ Dest(o, leg) = CardAccount(o) <=> leg = "fund"
          /\ Source(o, leg) = CardAccount(o) <=> leg = "unfund_hold"
      BY AccountsDiffer DEF Dest, Source, Legs
    <3>2. OnCard(o)' = OnCard(o) + (IF leg = "fund" THEN amount ELSE 0)
                         - (IF leg = "unfund_hold" THEN amount ELSE 0)
      <4>1. /\ Paid(o, "fund") \in Nat /\ Paid(o, "unfund_hold") \in Nat
            /\ leg # "fund" => Paid(o, "fund")' = Paid(o, "fund")
            /\ leg # "unfund_hold" => Paid(o, "unfund_hold")' = Paid(o, "unfund_hold")
        BY <1>1, <1>3 DEF Legs
      <4> QED BY <1>1, <1>2, <4>1 DEF OnCard
    <3> QED BY <1>2, <2>1, <2>2, <2>4, <3>1, <3>2
  <2> QED BY <2>3, <2>4
<1>6. \A p, q \in Orders : SameCard(p, q)' <=> SameCard(p, q)
  BY DEF SameCard
<1>7. \A p \in Orders : (\A q \in Orders : q # p /\ SameCard(p, q) => Over(q))'
                          => Balance(CardAccount(p))' = OnCard(p)'
  BY <1>5, <1>6
<1> QED BY <1>1, <1>4, <1>7 DEF BalancesFit

(* The ledger moves what was submitted; only a reservation can find too    *)
(* little money.                                                           *)
LEMMA LedgerFunded ==
  ASSUME Inductive, Funded, NEW o \in Orders, Ledger(o) PROVE Funded'
<1>1. PICK leg \in Legs : PostLeg(o, leg) \/ SettleLeg(o, leg) \/ RefuseLeg(o, leg)
  BY DEF Ledger
<1>2. UNCHANGED <<state, run, limit, inflight, refused>>
  BY <1>1 DEF PostLeg, SettleLeg, RefuseLeg, OnlyOpChanges
<1>3. CASE PostLeg(o, leg)
  <2>1. op[o][leg] = "pending" /\ SetOp(o, leg, "posted")
    BY <1>3 DEF PostLeg
  <2>2. /\ MovesInOrder' /\ OneClaims' /\ RefusalsFit' /\ LimitsFit' /\ OnlyReservationsAreRefused'
        /\ \A p \in Orders : Over(p)' <=> Over(p)
    BY <1>2, <2>1, LedgerKeeps
  <2>3. BalancesFit'
    BY <1>3, <2>2, BalancesMove
  <2> QED BY <2>2, <2>3 DEF Funded
<1>4. CASE SettleLeg(o, leg) \/ RefuseLeg(o, leg)
  <2>1. PICK before \in {"pending", "posted"}, after \in {"applied", "refused"} :
          /\ op[o][leg] = before /\ SetOp(o, leg, after)
          /\ before = "pending" <=> after = "refused"
          /\ after = "refused" => leg = "reserve"
    <3>1. CASE SettleLeg(o, leg)
      BY <3>1 DEF SettleLeg
    <3>2. CASE RefuseLeg(o, leg)
      <4>1. op[o][leg] = "pending" /\ SetOp(o, leg, "refused")
            /\ Balance(Source(o, leg)) < Amount(o, leg)
        BY <3>2 DEF RefuseLeg
      <4>2. Amount(o, leg) \in Int /\ Balance(Source(o, leg)) \in Int
        <5>1. IsFiniteSet(Moved)
          BY DEF Funded, BalancesFit
        <5> QED BY <5>1, AmountsAreNat, BalanceOf
      <4>3. leg = "reserve"
        BY <4>1, <4>2, MoneyIsThere
      <4> QED BY <4>1, <4>3
    <3> QED BY <1>4, <3>1, <3>2
  <2>2. /\ MovesInOrder' /\ OneClaims' /\ RefusalsFit' /\ LimitsFit' /\ OnlyReservationsAreRefused'
        /\ \A p \in Orders : Over(p)' <=> Over(p)
    BY <1>2, <2>1, LedgerKeeps
  <2>3. Moved' = Moved
    <3>1. /\ op'[o][leg] = after
          /\ \A p \in Orders, l \in Legs : <<p, l>> # <<o, leg>> => op'[p][l] = op[p][l]
      BY <2>1 DEF SetOp, Inductive, TypeOK
    <3>2. after \in {"posted", "applied"} <=> before \in {"posted", "applied"}
      BY <2>1
    <3>3. \A m \in Orders \X Legs : m[1] \in Orders /\ m[2] \in Legs /\ m = <<m[1], m[2]>>
      OBVIOUS
    <3> QED BY <2>1, <3>1, <3>2, <3>3 DEF Moved
  <2>4. /\ \A a : Balance(a)' = Balance(a)
        /\ \A p : HeldFor(p)' = HeldFor(p) /\ OnCard(p)' = OnCard(p)
    BY <2>3, NothingMoves
  <2>5. BalancesFit
    BY DEF Funded
  <2>6. BalancesFit'
    BY <2>2, <2>3, <2>4, <2>5 DEF BalancesFit, SameCard, Hold, CardAccount
  <2> QED BY <2>2, <2>6 DEF Funded
<1> QED BY <1>1, <1>3, <1>4

(* At first nothing was moved and no order has a claim on a card.          *)
LEMMA InitFunded == ASSUME Init PROVE Funded
<1>1. \A o \in Orders : /\ state[o] = "absent" /\ run[o].step = "idle" /\ limit[o] = NoCard
                        /\ \A leg \in Legs : op[o][leg] = "absent"
  BY DEF Init, Idle
<1>2. MovesInOrder /\ OneClaims /\ RefusalsFit /\ OnlyReservationsAreRefused
  BY <1>1 DEF MovesInOrder, OneClaims, RefusalsFit, OnlyReservationsAreRefused, Over, Asked,
              At, Legs
<1>3. LimitsFit
  <2>1. inflight = {}
    BY DEF Init
  <2> QED BY <1>1, <2>1 DEF LimitsFit, NoCard
<1>4. BalancesFit
  <2>1. Moved = {}
    BY <1>1 DEF Moved
  <2>2. SumOf({}) = 0
    BY SumEmpty DEF SumOf, SumFunction
  <2>3. \A a : Into(a) = {} /\ OutOf(a) = {}
    BY <2>1 DEF Into, OutOf
  <2>4. IsFiniteSet(Moved)
    BY <2>1, FS_EmptySet
  <2>5. \A a : a # Wallet => Balance(a) = 0
    <3> SUFFICES ASSUME NEW a, a # Wallet PROVE Balance(a) = 0
      OBVIOUS
    <3>1. Balance(a) = OpeningOf(a) + SumOf(Into(a)) - SumOf(OutOf(a))
      BY <2>4, BalanceOf
    <3>2. Into(a) = {} /\ OutOf(a) = {} /\ OpeningOf(a) = 0
      BY <2>3 DEF OpeningOf
    <3> QED BY <2>2, <3>1, <3>2
  <2>6. \A o, leg : Paid(o, leg) = 0
    BY <2>1 DEF Paid
  <2>7. \A o \in Orders : HeldFor(o) = 0 /\ OnCard(o) = 0
    BY <2>6 DEF HeldFor, OnCard
  <2> QED BY <2>4, <2>5, <2>7, AccountsDiffer DEF BalancesFit
<1> QED BY <1>2, <1>3, <1>4 DEF Funded

(* Every step keeps the money where the orders' states say it is.          *)
LEMMA NextFunded ==
  ASSUME Steadfast, ~ReadsRefused, Inductive, Funded, Inductive', [Next]_vars PROVE Funded'
<1>1. ASSUME NEW o \in Orders, Place(o) PROVE Funded'
  BY <1>1, PlaceFunded DEF Place
<1>2. ASSUME NEW o \in Orders, Decide(o) PROVE Funded'
  BY <1>2, DecideFunded
<1>3. ASSUME NEW o \in Orders, Transfer(o) PROVE Funded'
  BY <1>3, TransferFunded
<1>4. ASSUME NEW o \in Orders, Create(o) PROVE Funded'
  BY <1>4, CreateFunded
<1>5. ASSUME NEW o \in Orders, Enable(o) PROVE Funded'
  BY <1>5, EnableFunded
<1>6. ASSUME NEW o \in Orders, GiveUp(o) \/ Operate(o) PROVE Funded'
  BY <1>6, OperateFunded
<1>7. ASSUME NEW o \in Orders, Ledger(o) PROVE Funded'
  BY <1>7, LedgerFunded
<1>8. ASSUME SaveEnrollment \/ SaveProduct \/ ResumeSupplier \/ UNCHANGED vars PROVE Funded'
  <2>1. UNCHANGED <<state, run, op, limit, inflight, refused>>
    BY <1>8 DEF SaveEnrollment, SaveProduct, ResumeSupplier, vars, ProviderUnchanged
  <2>2. /\ \A p, leg : Asked(p, leg)' <=> Asked(p, leg)
        /\ \A p : GoesBack(p)' <=> GoesBack(p)
        /\ \A p : Spends(p)' <=> Spends(p)
    BY <2>1 DEF Asked, GoesBack, Spends, At
  <2>3. RefusalsFit' /\ LimitsFit'
    BY <2>1, <2>2 DEF Funded, RefusalsFit, LimitsFit, Backed, At
  <2> QED BY <2>1, <2>3, UndisturbedFunded DEF Funded
<1> QED BY <1>1, <1>2, <1>3, <1>4, <1>5, <1>6, <1>7, <1>8 DEF Next

(* When a refused limit stays refused and reading a card is not refused    *)
(* for good, the moves of an order follow its states, one order at most    *)
(* has a claim on a card, a limit is only there for the order that paid    *)
(* for it, and every hold and every card has what was paid into it.        *)
THEOREM AlwaysFunded ==
  ASSUME Steadfast, ~ReadsRefused PROVE Spec => [](Inductive /\ Funded)
<1>1. Init => Inductive /\ Funded
  BY InitInductive, InitFunded
<1>2. (Inductive /\ Funded) /\ [Next]_vars => (Inductive /\ Funded)'
  BY NextInductive, NextFunded
<1> QED BY <1>1, <1>2, PTL DEF Spec

(* What an order's hold has when the order is over: nothing.               *)
LEMMA OverIsSettled ==
  ASSUME Inductive, Funded, NEW o \in Orders,
         state[o] \in {"failed", "funding_failed", "active"}
  PROVE  NoneOpen(o) /\ Balance(Hold(o)) = 0
<1> DEFINE paid(l) == IF op[o][l] \in {"posted", "applied"} THEN Amount(o, l) ELSE 0
<1>1. \A l \in Legs : Paid(o, l) = paid(l)
  BY DEF Paid, Moved
<1>2. /\ Fee[o] \in Nat /\ Funding[o] \in Nat
      /\ Amount(o, "reserve") = Fee[o] + Funding[o] /\ Amount(o, "release") = Fee[o] + Funding[o]
      /\ Amount(o, "fee") = Fee[o] /\ Amount(o, "fund") = Funding[o]
      /\ Amount(o, "unfund_hold") = Funding[o] /\ Amount(o, "unfund") = Funding[o]
  BY AmountsAreNat DEF Legs
<1>3. Balance(Hold(o)) = paid("reserve") - paid("fee") - paid("fund")
                           + paid("unfund_hold") - paid("unfund") - paid("release")
  BY <1>1 DEF Funded, BalancesFit, HeldFor, Legs
<1>4. \A l \in Legs : ~Asked(o, l) => op[o][l] = "absent"
  BY DEF Asked
<1>5. MovesInOrder /\ (Asked(o, "release") => state[o] \in {"releasing", "failed"})
  BY DEF Funded, Inductive, MovesFit
<1>6. CASE state[o] = "failed"
  <2>1. /\ \A l \in {"fee", "fund", "unfund_hold", "unfund"} : op[o][l] = "absent"
        /\ \/ op[o]["reserve"] \in {"absent", "refused"} /\ op[o]["release"] = "absent"
           \/ op[o]["reserve"] = "applied" /\ op[o]["release"] = "applied"
    BY <1>4, <1>5, <1>6 DEF MovesInOrder, Asked, Legs
  <2> QED BY <1>2, <1>3, <2>1 DEF NoneOpen, Unsettled, Legs
<1>7. CASE state[o] \in {"funding_failed", "active"}
  <2>1. /\ op[o]["reserve"] = "applied" /\ op[o]["release"] = "absent"
        /\ op[o]["fund"] = "applied"
        /\ \/ Fee[o] = 0 /\ op[o]["fee"] = "absent"
           \/ op[o]["fee"] = "applied"
        /\ \/ op[o]["unfund_hold"] = "applied" /\ op[o]["unfund"] = "applied"
           \/ op[o]["unfund_hold"] = "absent" /\ op[o]["unfund"] = "absent"
    BY <1>2, <1>4, <1>5, <1>7 DEF MovesInOrder, Asked, Legs
  <2>2. paid("fee") = Fee[o] /\ paid("reserve") = Fee[o] + Funding[o] /\ paid("release") = 0
        /\ paid("fund") = Funding[o] /\ paid("unfund_hold") = paid("unfund")
        /\ paid("unfund") \in Nat
    BY <1>2, <2>1
  <2>3. Balance(Hold(o)) = 0
    <3> HIDE DEF paid
    <3> QED BY <1>2, <1>3, <2>2
  <2>4. NoneOpen(o)
    BY <2>1 DEF NoneOpen, Unsettled, Legs
  <2> QED BY <2>3, <2>4
<1> QED BY <1>6, <1>7

(* An order that is over was settled by the terms: a failed one gave back  *)
(* everything, one whose funding failed gave back the funding and kept the *)
(* fee, an active one holds nothing any more; and no move of it is open.   *)
THEOREM AlwaysSettledByTheTerms ==
  ASSUME Steadfast, ~ReadsRefused PROVE Spec => []SettledByTheTerms
<1>1. Inductive /\ Funded => SettledByTheTerms
  <2> SUFFICES ASSUME Inductive, Funded PROVE SettledByTheTerms
    OBVIOUS
  <2>1. \A o \in Orders : state[o] \in {"failed", "funding_failed", "active"} =>
          NoneOpen(o) /\ Balance(Hold(o)) = 0
    BY OverIsSettled
  <2>2. \A o \in Orders : state[o] = "failed" => \A leg \in {"fee", "fund"} : ~Asked(o, leg)
    BY DEF Funded, MovesInOrder
  <2>3. \A o \in Orders : state[o] = "funding_failed" => Done(o, "fee") /\ Done(o, "unfund")
    BY AmountsAreNat DEF Funded, MovesInOrder, Done, Legs
  <2> QED BY <2>1, <2>2, <2>3 DEF SettledByTheTerms
<1> QED BY <1>1, AlwaysFunded, PTL

(* What a card may spend is in its account, an active order has a card     *)
(* with a limit and money, and no move but a reservation is ever refused   *)
(* for lack of money, whatever the provider does late or says wrongly.     *)
THEOREM SpendingAlwaysFunded ==
  ASSUME Steadfast, ~ReadsRefused PROVE Spec => []SpendingIsFunded
<1>1. Inductive /\ Funded => SpendingIsFunded
  <2> SUFFICES ASSUME Inductive, Funded PROVE SpendingIsFunded
    OBVIOUS
  <2>1. ASSUME NEW c \in Orders, limit[c] > 0 PROVE Balance(CardAccount(c)) = limit[c]
    <3>1. PICK o \in Orders : CardOrder[o] = c /\ limit[c] = Funding[o] /\ Spends(o)
      BY <2>1 DEF Funded, LimitsFit, Backed
    <3>2. ~Asked(o, "unfund_hold") /\ ~Asked(o, "unfund") /\ op[o]["fund"] = "applied" /\ ~Over(o)
      BY <3>1 DEF Spends, Funded, MovesInOrder, Asked, Over
    <3>3. \A p \in Orders : p # o /\ SameCard(o, p) => Over(p)
      BY <3>2 DEF Funded, OneClaims
    <3>4. OnCard(o) = Funding[o]
      <4>1. Paid(o, "fund") = Funding[o] /\ Paid(o, "unfund_hold") = 0 /\ Funding[o] \in Nat
        BY <3>2, AmountsAreNat DEF Paid, Moved, Legs, Asked
      <4> QED BY <4>1 DEF OnCard
    <3>5. Balance(CardAccount(o)) = OnCard(o)
      BY <3>3 DEF Funded, BalancesFit
    <3>6. CardAccount(c) = CardAccount(o)
      BY <3>1, IssuingAssumption DEF CardAccount
    <3> QED BY <3>1, <3>4, <3>5, <3>6
  <2>2. ASSUME NEW o \in Orders, state[o] = "active"
        PROVE  limit[CardOrder[o]] > 0 /\ Balance(CardAccount(o)) > 0
    <3>1. limit[CardOrder[o]] > 0 /\ CardOrder[o] \in Orders
      BY <2>2, IssuingAssumption DEF Funded, LimitsFit
    <3>2. CardAccount(CardOrder[o]) = CardAccount(o)
      BY IssuingAssumption DEF CardAccount
    <3>3. Balance(CardAccount(CardOrder[o])) = limit[CardOrder[o]]
      BY <2>1, <3>1
    <3> QED BY <3>1, <3>2, <3>3
  <2> QED BY <2>1, <2>2 DEF SpendingIsFunded, LimitIsFunded, ActiveIsFunded, Funded
<1> QED BY <1>1, AlwaysFunded, PTL
=============================================================================
