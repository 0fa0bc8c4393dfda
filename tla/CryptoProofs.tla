---------------------------- MODULE CryptoProofs ----------------------------
(***************************************************************************)
(* Proofs about Crypto, for any orders, terms and balances, whatever the   *)
(* channel, the ledger and the crashes do: a withdrawal is paid out once   *)
(* at most, and its hold goes back only when it is not.  Outside says what *)
(* an order's row tells of the channel, Inside where Process may be.       *)
(*                                                                         *)
(* And whatever stops Process between two moves, nothing is stranded.      *)
(* Escrowed counts the two accounts of an order by its own moves alone     *)
(* (lemmas of SumProofs); InTurn is the order the moves are made in,       *)
(* RowFits what the saved order says was moved, StepFits what Process has  *)
(* done before the step it is at.                                          *)
(***************************************************************************)
EXTENDS Crypto, SumProofs

Working == {"request", "post", "wait", "query", "payout", "fee"}
Converting == {"buy_reserve", "sell_settle", "buy_release", "credit"}

(* A release has a reason, and Process takes a step its row calls for.     *)
Steady(o) ==
  /\ filed[o] = "releasing" => resolution[o] \in {"rejected", "cancelled", "failed"}
  /\ driver.order = o /\ (driver.step = "release" \/ driver.state = "releasing")
       => filed[o] = "releasing"

(* What the order's row tells of the channel. *)
Outside(o) ==
  /\ made[o] \in {0, 1}
  /\ o \in wire \/ o \notin recorded => made[o] = 0
  /\ custody[o] = "none" <=> made[o] = 0
  /\ filed[o] \in {"absent", "reserving", "pending_review", "rejected", "cancelled"}
       => o \notin recorded
  /\ filed[o] = "releasing" => IF resolution[o] = "failed" THEN custody[o] = "failed"
                               ELSE o \notin recorded
  /\ filed[o] = "failed" => custody[o] = "failed"
  /\ leg[o]["release"] # "absent" => filed[o] \in {"releasing", "rejected", "cancelled", "failed"}
  /\ leg[o]["payout"] # "absent" => custody[o] = "paid"

(* Where Process may be with an order. *)
Inside(o) ==
  driver.order = o =>
    /\ driver.step \notin Converting
    /\ driver.step = "reserve" => filed[o] = "reserving" /\ driver.state = "reserving"
    /\ driver.step = "release" => driver.state = "releasing"
    /\ driver.step \in Working => filed[o] \in {"processing", "unknown"} /\ driver.state = "processing"
    /\ driver.step \in Working \ {"request"} => o \in recorded
    /\ driver.step = "post" => o \notin wire /\ made[o] = 0
    /\ driver.step \in {"payout", "fee"} => custody[o] = "paid"

Consistent ==
  /\ CryptoTypes
  /\ \A o \in CryptoOrders : Steady(o)
  /\ \A o \in Payouts : Outside(o) /\ Inside(o)

-----------------------------------------------------------------------------
LEMMA SoundInit == CryptoInit => Consistent
  BY CryptoAssumption
     DEF CryptoInit, Consistent, CryptoTypes, Steady, Outside, Inside, Driving, Resting, FiledStates,
         CryptoLegs, CryptoOrders, Working, Converting

(* A step that changes one order, beside the ledger and the channel.       *)
LEMMA OneOrder ==
  ASSUME Consistent, NEW o \in CryptoOrders, CryptoTypes',
         leg' = leg, ChannelUnchanged,
         \A p \in CryptoOrders \ {o} : filed'[p] = filed[p] /\ resolution'[p] = resolution[p],
         driver' = Resting \/ driver'.order = o,
         Steady(o)', o \in Payouts => Outside(o)' /\ Inside(o)'
  PROVE  Consistent'
<1>1. ASSUME NEW p \in CryptoOrders PROVE Steady(p)'
  BY <1>1 DEF Consistent, Steady, Driving, Resting
<1>2. ASSUME NEW p \in Payouts PROVE Outside(p)'
  BY <1>2 DEF Consistent, Outside, ChannelUnchanged, CryptoOrders
<1>3. ASSUME NEW p \in Payouts PROVE Inside(p)'
  <2>1. CASE p = o
    BY <2>1
  <2>2. CASE p # o
    BY <1>3, <2>2, CryptoAssumption DEF Inside, Resting, CryptoOrders, Working, Converting
  <2> QED BY <2>1, <2>2
<1> QED BY <1>1, <1>2, <1>3 DEF Consistent

(* The commands, and a deposit that was verified. *)
LEMMA CommandIsSound ==
  ASSUME Consistent, NEW o \in CryptoOrders,
         PlaceOrder(o) \/ DepositVerified(o)
           \/ ApprovePayout(o) \/ RejectPayout(o) \/ CancelPayout(o)
  PROVE  Consistent'
<1>1. /\ driver = Resting /\ driver' = Resting /\ leg' = leg /\ ChannelUnchanged
      /\ \A p \in CryptoOrders \ {o} : filed'[p] = filed[p] /\ resolution'[p] = resolution[p]
  BY DEF Consistent, CryptoTypes, PlaceOrder, DepositVerified, ApprovePayout, RejectPayout,
         CancelPayout, Command, Aside, File
<1>2. /\ filed'[o] \in {"reserving", "processing", "releasing"}
      /\ filed'[o] = "reserving" => filed[o] = "absent"
      /\ filed'[o] = "processing" => filed[o] = "pending_review" \/ o \notin Payouts
      /\ filed'[o] = "releasing" => /\ filed[o] = "pending_review"
                                    /\ resolution'[o] \in {"rejected", "cancelled"}
  BY CryptoAssumption
     DEF Consistent, CryptoTypes, PlaceOrder, DepositVerified, ApprovePayout, RejectPayout,
         CancelPayout, Command, File, CryptoOrders
<1>3. CryptoTypes'
  BY DEF Consistent, CryptoTypes, PlaceOrder, DepositVerified, ApprovePayout, RejectPayout,
         CancelPayout, Command, Aside, File, ChannelUnchanged, FiledStates
<1>4. Steady(o)'
  BY <1>1, <1>2 DEF Steady, Driving, Resting
<1>5. ASSUME o \in Payouts PROVE Outside(o)' /\ Inside(o)'
  BY <1>1, <1>2, <1>5
     DEF Consistent, Outside, Inside, Resting, ChannelUnchanged, Working, Converting
<1> QED BY <1>1, <1>3, <1>4, <1>5, OneOrder

(* Process begins, and stops without having saved. *)
LEMMA DriveIsSound == ASSUME Consistent, NEW o \in CryptoOrders, Drive(o) PROVE Consistent'
<1> DEFINE s == IF filed[o] = "unknown" THEN "processing" ELSE filed[o]
<1>1. /\ driver' = [order |-> o, step |-> FirstStep(o), state |-> s]
      /\ filed[o] \in {"reserving", "processing", "releasing", "unknown"}
      /\ UNCHANGED <<filed, resolution, leg>> /\ ChannelUnchanged
  BY DEF Drive, Proceed, GoTo, Aside
<1>2. /\ filed[o] = "reserving" => FirstStep(o) = "reserve"
      /\ filed[o] = "releasing" => FirstStep(o) = "release"
      /\ filed[o] \in {"processing", "unknown"} =>
           /\ o \in Payouts => FirstStep(o) = "request"
           /\ o \notin Payouts => FirstStep(o) \in {"buy_reserve", "credit"}
  <2>1. /\ o \in Payouts => WorkOf(o) = "request"
        /\ o \notin Payouts => WorkOf(o) \in {"buy_reserve", "credit"}
    BY CryptoAssumption DEF WorkOf, CryptoOrders
  <2>2. FirstStep(o) = IF filed[o] = "reserving" THEN "reserve"
                       ELSE IF filed[o] = "releasing" THEN "release" ELSE WorkOf(o)
    BY DEF FirstStep
  <2> QED BY <2>1, <2>2
<1>3. CryptoTypes'
  BY <1>1, <1>2 DEF Consistent, CryptoTypes, ChannelUnchanged, CryptoLegs
<1>4. Steady(o)'
  BY <1>1, <1>2 DEF Consistent, Steady, Driving
<1>5. ASSUME o \in Payouts PROVE Outside(o)' /\ Inside(o)'
  BY <1>1, <1>2, <1>5 DEF Consistent, Outside, Inside, ChannelUnchanged, Working, Converting
<1> QED BY <1>1, <1>3, <1>4, <1>5, OneOrder

LEMMA StopIsSound == ASSUME Consistent, DriverStops PROVE Consistent'
<1>1. CryptoTypes'
  BY DEF Consistent, CryptoTypes, DriverStops, Aside, ChannelUnchanged
<1>2. ASSUME NEW o \in CryptoOrders PROVE Steady(o)'
  BY <1>2 DEF Consistent, Steady, Driving, DriverStops, Resting
<1>3. ASSUME NEW o \in Payouts PROVE Outside(o)' /\ Inside(o)'
  BY <1>3 DEF Consistent, Outside, Inside, DriverStops, Aside, ChannelUnchanged, Resting, Working,
              Converting
<1> QED BY <1>1, <1>2, <1>3 DEF Consistent

-----------------------------------------------------------------------------
(* The ledger's operations. *)
LEMMA LegIsSound ==
  ASSUME Consistent, NEW o \in CryptoOrders, NEW l \in CryptoLegs, LedgerStep(o, l) \/ SubmitLeg(o, l)
  PROVE  Consistent'
<1>1. PICK from, to \in {"absent", "pending", "posted", "applied", "refused"} :
        LegChange(o, l, from, to) /\ (from = "absent" => Driving(o, l))
  BY DEF LedgerStep, SubmitLeg
<1>2. /\ leg[o][l] = from
      /\ leg'[o][l] = to
      /\ \A p \in CryptoOrders, m \in CryptoLegs : <<p, m>> # <<o, l>> => leg'[p][m] = leg[p][m]
      /\ leg' \in [CryptoOrders -> [CryptoLegs -> {"absent", "pending", "posted", "applied", "refused"}]]
  BY <1>1 DEF LegChange, Consistent, CryptoTypes
<1>3. CryptoTypes'
  BY <1>1, <1>2 DEF Consistent, CryptoTypes, LegChange
<1>4. ASSUME NEW p \in CryptoOrders PROVE Steady(p)'
  BY <1>1, <1>4 DEF Consistent, Steady, Driving, LegChange
<1>5. ASSUME NEW p \in Payouts PROVE Inside(p)'
  BY <1>1, <1>5 DEF Consistent, Inside, LegChange
<1>6. ASSUME NEW p \in Payouts PROVE Outside(p)'
  <2>1. /\ leg'[p]["release"] # "absent" =>
             leg[p]["release"] # "absent" \/ Driving(p, "release")
        /\ leg'[p]["payout"] # "absent" => leg[p]["payout"] # "absent" \/ Driving(p, "payout")
    BY <1>1, <1>2, <1>6 DEF CryptoLegs, CryptoOrders
  <2>2. Driving(p, "release") => filed[p] = "releasing"
    BY DEF Consistent, Steady, Driving, CryptoOrders
  <2>3. Driving(p, "payout") => custody[p] = "paid"
    BY DEF Consistent, Inside, Driving
  <2> QED BY <1>1, <2>1, <2>2, <2>3 DEF Consistent, Outside, LegChange
<1> QED BY <1>3, <1>4, <1>5, <1>6 DEF Consistent

(* Saving the order ends Process. *)
LEMMA SaveIsSound ==
  ASSUME Consistent, NEW o \in CryptoOrders, NEW s \in FiledStates,
         driver.order = o, SaveAs(o, s), Aside,
         s = "releasing" => resolution[o] \in {"rejected", "cancelled", "failed"},
         o \in Payouts => Outside(o)'
  PROVE  Consistent'
<1>1. /\ driver' = Resting /\ resolution' = resolution /\ leg' = leg /\ ChannelUnchanged
      /\ filed'[o] = s /\ \A p \in CryptoOrders \ {o} : filed'[p] = filed[p]
  BY DEF SaveAs, File, Aside, Consistent, CryptoTypes
<1>2. CryptoTypes'
  BY DEF Consistent, CryptoTypes, SaveAs, File, Aside, ChannelUnchanged
<1>3. Steady(o)'
  BY <1>1 DEF Steady, Driving, Resting
<1>4. o \in Payouts => Inside(o)'
  BY <1>1 DEF Inside, Resting, Working, Converting
<1> QED BY <1>1, <1>2, <1>3, <1>4, OneOrder

(* Going on to another step saves nothing. *)
LEMMA ProceedIsSound ==
  ASSUME Consistent, NEW o \in CryptoOrders, NEW step, NEW s, Proceed(o, step, s), Aside,
         step \in (CryptoLegs \ {"release"}) \cup {"request", "post", "wait", "query"},
         s \in {"reserving", "processing", "releasing"}, s = "releasing" => filed[o] = "releasing",
         o \in Payouts => Inside(o)'
  PROVE  Consistent'
<1>1. /\ driver' = [order |-> o, step |-> step, state |-> s]
      /\ UNCHANGED <<filed, resolution, leg>> /\ ChannelUnchanged
  BY DEF Proceed, GoTo, Aside
<1>2. CryptoTypes'
  BY <1>1 DEF Consistent, CryptoTypes, ChannelUnchanged
<1>3. Steady(o)'
  BY <1>1 DEF Consistent, Steady, Driving
<1>4. o \in Payouts => Outside(o)'
  BY <1>1 DEF Consistent, Outside, ChannelUnchanged
<1> QED BY <1>1, <1>2, <1>3, <1>4, OneOrder

LEMMA LegDoneIsSound ==
  ASSUME Consistent, NEW o \in CryptoOrders, NEW l \in CryptoLegs, LegDone(o, l)
  PROVE  Consistent'
<1>1. driver.order = o /\ driver.step = l /\ Aside /\ Steady(o) /\ (o \in Payouts => Outside(o) /\ Inside(o))
  BY DEF LegDone, Driving, Consistent
<1>2. CASE l = "reserve" /\ o \in Payouts
  <2>1. SaveAs(o, "pending_review") /\ filed[o] = "reserving"
    BY <1>1, <1>2 DEF LegDone, Inside, FollowedBy
  <2>2. Outside(o)'
    BY <1>1, <1>2, <2>1 DEF Outside, SaveAs, File, Aside, ChannelUnchanged, Consistent, CryptoTypes
  <2> QED BY <1>1, <2>1, <2>2, SaveIsSound DEF FiledStates
<1>3. CASE l = "reserve" /\ o \notin Payouts
  <2>1. Proceed(o, "buy_reserve", "processing")
    BY <1>3 DEF LegDone, FollowedBy
  <2> QED BY <1>1, <1>3, <2>1, ProceedIsSound DEF CryptoLegs
<1>4. CASE l = "release"
  <2>1. SaveAs(o, resolution[o]) /\ filed[o] = "releasing"
    BY <1>1, <1>4 DEF LegDone, Steady, FollowedBy
  <2>2. resolution[o] \in {"rejected", "cancelled", "failed"}
    BY <1>1, <2>1 DEF Steady
  <2>3. ASSUME o \in Payouts PROVE Outside(o)'
    BY <1>1, <2>1, <2>2, <2>3
       DEF Outside, SaveAs, File, Aside, ChannelUnchanged, Consistent, CryptoTypes
  <2> QED BY <1>1, <2>1, <2>2, <2>3, SaveIsSound DEF FiledStates
<1>5. CASE l \in DOMAIN FollowedBy
  <2>1. Proceed(o, FollowedBy[l], driver.state) /\ l \in {"buy_reserve", "sell_settle", "payout"}
    BY <1>5 DEF LegDone, FollowedBy
  <2>2. /\ FollowedBy[l] \in {"sell_settle", "buy_release", "fee"}
        /\ FollowedBy[l] = "fee" <=> l = "payout"
    BY <2>1 DEF FollowedBy
  <2>3. /\ driver.state \in {"reserving", "processing", "releasing"}
        /\ driver.state = "releasing" => filed[o] = "releasing"
    BY <1>1, <2>1 DEF Consistent, CryptoTypes, Resting, Steady
  <2>4. ASSUME o \in Payouts PROVE Inside(o)'
    BY <1>1, <2>1, <2>2, <2>4
       DEF Inside, Proceed, GoTo, Aside, ChannelUnchanged, Working, Converting
  <2> QED BY <1>1, <2>1, <2>2, <2>3, <2>4, ProceedIsSound DEF CryptoLegs
<1>6. CASE l \in {"buy_release", "fee", "credit"}
  <2>1. SaveAs(o, "completed")
    BY <1>6 DEF LegDone, FollowedBy
  <2>2. ASSUME o \in Payouts PROVE Outside(o)'
    <3>1. filed[o] \in {"processing", "unknown"}
      BY <1>1, <1>6, <2>2 DEF Inside, Working, Converting
    <3> QED BY <1>1, <2>1, <2>2, <3>1
            DEF Outside, SaveAs, File, Aside, ChannelUnchanged, Consistent, CryptoTypes
  <2> QED BY <1>1, <2>1, <2>2, SaveIsSound DEF FiledStates
<1> QED BY <1>2, <1>3, <1>4, <1>5, <1>6 DEF CryptoLegs, FollowedBy

LEMMA LegFailsIsSound ==
  ASSUME Consistent, NEW o \in CryptoOrders, NEW l \in CryptoLegs, LegRefused(o) \/ LegUnanswered(o, l)
  PROVE  Consistent'
<1>1. driver.order = o /\ Aside /\ Steady(o) /\ (o \in Payouts => Outside(o) /\ Inside(o))
  BY DEF LegRefused, LegUnanswered, Driving, Consistent
<1>2. CASE LegRefused(o)
  <2>1. SaveAs(o, "rejected") /\ driver.step = "reserve"
    BY <1>2 DEF LegRefused, Driving
  <2>2. ASSUME o \in Payouts PROVE Outside(o)'
    BY <1>1, <2>1, <2>2
       DEF Inside, Outside, SaveAs, File, Aside, ChannelUnchanged, Consistent, CryptoTypes
  <2> QED BY <1>1, <2>1, <2>2, SaveIsSound DEF FiledStates
<1>3. CASE LegUnanswered(o, l)
  <2>1. SaveAs(o, driver.state) /\ driver.step = l
    BY <1>3 DEF LegUnanswered, Driving
  <2>2. driver.state \in {"reserving", "processing", "releasing"}
    BY <1>1, <2>1 DEF Consistent, CryptoTypes, Resting, CryptoLegs
  <2>3. driver.state = "releasing" => resolution[o] \in {"rejected", "cancelled", "failed"}
    BY <1>1 DEF Steady
  <2>4. ASSUME o \in Payouts PROVE Outside(o)'
    <3>1. \/ driver.state = filed[o]
          \/ driver.state = "processing" /\ filed[o] = "unknown"
      BY <1>1, <2>1, <2>4 DEF Inside, Steady, Working, Converting, CryptoLegs
    <3> QED BY <1>1, <2>1, <2>4, <3>1
            DEF Outside, SaveAs, File, Aside, ChannelUnchanged, Consistent, CryptoTypes
  <2> QED BY <1>1, <2>1, <2>2, <2>3, <2>4, SaveIsSound DEF FiledStates
<1> QED BY <1>2, <1>3

-----------------------------------------------------------------------------
(* The payout: what Process asks and learns of the channel. *)
LEMMA AskIsSound ==
  ASSUME Consistent, NEW o \in Payouts,
         RecordPayout(o) \/ PostPayout(o) \/ PayoutAnswered(o)
  PROVE  Consistent'
<1>1. driver.order = o /\ o \in CryptoOrders /\ Steady(o) /\ Outside(o) /\ Inside(o)
  BY DEF RecordPayout, PostPayout, PayoutAnswered, Driving, Consistent, CryptoOrders
<1>2. /\ UNCHANGED <<filed, resolution, leg, custody, made>>
      /\ driver.step \in {"request", "post", "wait"} /\ driver.state = "processing"
      /\ filed[o] \in {"processing", "unknown"}
      /\ \E step \in {"post", "wait", "query"} :
           driver' = [order |-> o, step |-> step, state |-> "processing"]
  BY <1>1 DEF RecordPayout, PostPayout, PayoutAnswered, Driving, Proceed, GoTo, Inside, Working
<1>3. /\ recorded \subseteq recorded' /\ recorded' \subseteq recorded \cup {o}
      /\ known \subseteq known' /\ known' \subseteq known \cup {o}
      /\ wire \subseteq wire' /\ wire' \subseteq wire \cup {o}
      /\ o \in recorded' /\ (o \in wire' => made[o] = 0)
      /\ driver'.step = "post" => o \notin wire' /\ made[o] = 0
  <2>1. CASE RecordPayout(o)
    BY <1>1, <2>1 DEF RecordPayout, Proceed, GoTo, Outside, Consistent, CryptoTypes
  <2>2. CASE PostPayout(o)
    BY <1>1, <2>2 DEF PostPayout, Driving, Proceed, GoTo, Inside, Working
  <2>3. CASE PayoutAnswered(o)
    BY <1>1, <2>3 DEF PayoutAnswered, Driving, Proceed, GoTo, Inside, Working
  <2> QED BY <2>1, <2>2, <2>3
<1>4. CryptoTypes'
  BY <1>1, <1>2, <1>3 DEF Consistent, CryptoTypes
<1>5. ASSUME NEW p \in CryptoOrders PROVE Steady(p)'
  BY <1>2, <1>5 DEF Consistent, Steady
<1>6. ASSUME NEW p \in Payouts PROVE Outside(p)' /\ Inside(p)'
  <2>1. CASE p = o
    BY <1>1, <1>2, <1>3, <2>1 DEF Outside, Inside, Working, Converting
  <2>2. CASE p # o
    BY <1>2, <1>3, <1>6, <2>2 DEF Consistent, Outside, Inside
  <2> QED BY <2>1, <2>2
<1> QED BY <1>4, <1>5, <1>6 DEF Consistent

LEMMA LearnIsSound ==
  ASSUME Consistent, NEW o \in Payouts,
         PayoutUnready(o) \/ RecallPayout(o) \/ PayoutUnanswered(o) \/ PayoutUnclear(o)
           \/ PayoutFailed(o) \/ PayoutConfirmed(o)
  PROVE  Consistent'
<1>1. driver.order = o /\ o \in CryptoOrders /\ Steady(o) /\ Outside(o) /\ Inside(o) /\ Aside
  BY DEF PayoutUnready, RecallPayout, PayoutUnanswered, PayoutUnclear, PayoutFailed,
         PayoutConfirmed, Driving, Consistent, CryptoOrders
<1>2. /\ driver.step \in {"request", "wait", "query"} /\ driver.state = "processing"
      /\ filed[o] \in {"processing", "unknown"}
  BY <1>1 DEF PayoutUnready, RecallPayout, PayoutUnanswered, PayoutUnclear, PayoutFailed,
         PayoutConfirmed, Driving, Inside, Working
<1>3. CASE SaveAs(o, "unknown")
  <2>1. Outside(o)'
    BY <1>1, <1>2, <1>3 DEF Outside, SaveAs, File, Aside, ChannelUnchanged, Consistent, CryptoTypes
  <2> QED BY <1>1, <1>3, <2>1, SaveIsSound DEF FiledStates
<1>4. CASE RecallPayout(o) /\ Proceed(o, "query", driver.state)
  <2>1. Inside(o)'
    BY <1>1, <1>2, <1>4
       DEF Inside, RecallPayout, Proceed, GoTo, Aside, ChannelUnchanged, Working, Converting
  <2> QED BY <1>1, <1>2, <1>4, <2>1, ProceedIsSound
<1>5. CASE PayoutConfirmed(o)
  <2>1. Inside(o)'
    BY <1>1, <1>2, <1>5
       DEF Inside, PayoutConfirmed, Driving, Proceed, GoTo, Aside, ChannelUnchanged, Working, Converting
  <2> QED BY <1>1, <1>2, <1>5, <2>1, ProceedIsSound DEF PayoutConfirmed, CryptoLegs
<1>6. CASE PayoutFailed(o)
  <2>1. /\ filed' = [filed EXCEPT ![o] = "releasing"] /\ driver' = Resting
        /\ resolution' = [resolution EXCEPT ![o] = "failed"] /\ custody[o] = "failed"
    BY <1>6 DEF PayoutFailed, SaveResolved, File
  <2>2. CryptoTypes'
    BY <1>1, <2>1 DEF Consistent, CryptoTypes, Aside, ChannelUnchanged, FiledStates
  <2>3. Steady(o)' /\ Inside(o)'
    BY <1>1, <2>1 DEF Consistent, CryptoTypes, Steady, Inside, Resting, Working, Converting
  <2>4. Outside(o)'
    BY <1>1, <1>2, <2>1 DEF Outside, Aside, ChannelUnchanged, Consistent, CryptoTypes
  <2>5. \A p \in CryptoOrders \ {o} : filed'[p] = filed[p] /\ resolution'[p] = resolution[p]
    BY <2>1 DEF Consistent, CryptoTypes
  <2> QED BY <1>1, <2>1, <2>2, <2>3, <2>4, <2>5, OneOrder DEF Aside
<1> QED
  BY <1>3, <1>4, <1>5, <1>6
     DEF PayoutUnready, RecallPayout, PayoutUnanswered, PayoutUnclear

(* The channel, on its own. *)
LEMMA CustodyIsSound ==
  ASSUME Consistent, NEW o \in Payouts,
         PayoutCalledBack(o) \/ CustodyMakes(o) \/ CustodyDrops(o)
           \/ \E how \in {"paid", "failed"} : CustodyEnds(o, how)
  PROVE  Consistent'
<1>1. UNCHANGED <<filed, resolution, driver, leg, recorded>> /\ wire' \subseteq wire
  BY DEF PayoutCalledBack, CustodyMakes, CustodyDrops, CustodyEnds
<1>2. /\ made' \in [Payouts -> Nat] /\ custody' \in [Payouts -> {"none", "open", "paid", "failed"}]
      /\ \A p \in Payouts \ {o} : made'[p] = made[p] /\ custody'[p] = custody[p]
      /\ \/ made'[o] = made[o] /\ custody'[o] = custody[o]
         \/ o \in wire /\ o \notin wire' /\ made[o] = 0 /\ made'[o] = 1 /\ custody'[o] = "open"
         \/ made'[o] = made[o] /\ custody[o] = "open" /\ custody'[o] \in {"paid", "failed"}
  <2>1. CASE CustodyMakes(o)
    BY <2>1 DEF CustodyMakes, Consistent, CryptoTypes, Outside
  <2>2. CASE \E how \in {"paid", "failed"} : CustodyEnds(o, how)
    BY <2>2 DEF CustodyEnds, Consistent, CryptoTypes
  <2>3. CASE PayoutCalledBack(o) \/ CustodyDrops(o)
    BY <2>3 DEF PayoutCalledBack, CustodyDrops, Consistent, CryptoTypes
  <2> QED BY <2>1, <2>2, <2>3
<1>3. known' \subseteq recorded
  BY DEF PayoutCalledBack, CustodyMakes, CustodyDrops, CustodyEnds, Consistent, CryptoTypes
<1>4. CryptoTypes'
  BY <1>1, <1>2, <1>3 DEF Consistent, CryptoTypes
<1>5. ASSUME NEW p \in CryptoOrders PROVE Steady(p)'
  BY <1>1, <1>5 DEF Consistent, Steady
<1>6. ASSUME NEW p \in Payouts PROVE Outside(p)' /\ Inside(p)'
  <2>1. CASE p # o
    BY <1>1, <1>2, <1>6, <2>1 DEF Consistent, Outside, Inside
  <2>2. CASE p = o
    <3>1. Outside(o) /\ Inside(o) /\ wire \subseteq recorded
      BY DEF Consistent, CryptoTypes
    <3> QED BY <1>1, <1>2, <2>2, <3>1 DEF Outside, Inside
  <2> QED BY <2>1, <2>2
<1> QED BY <1>4, <1>5, <1>6 DEF Consistent

-----------------------------------------------------------------------------
LEMMA SoundNext == ASSUME Consistent, [CryptoNext]_cryptoVars PROVE Consistent'
<1>1. ASSUME NEW o \in Payouts, PayoutStep(o) PROVE Consistent'
  BY <1>1, CommandIsSound, AskIsSound, LearnIsSound, CustodyIsSound DEF PayoutStep, CryptoOrders
<1>2. CASE UNCHANGED cryptoVars
  <2>1. CryptoTypes'
    BY <1>2 DEF cryptoVars, Consistent, CryptoTypes
  <2>2. ASSUME NEW o \in CryptoOrders PROVE Steady(o)'
    BY <1>2, <2>2 DEF cryptoVars, Consistent, Steady
  <2>3. ASSUME NEW o \in Payouts PROVE Outside(o)' /\ Inside(o)'
    BY <1>2, <2>3 DEF cryptoVars, Consistent, Outside, Inside
  <2> QED BY <2>1, <2>2, <2>3 DEF Consistent
<1>3. ASSUME NEW o \in CryptoOrders, PlaceOrder(o) \/ DepositVerified(o) \/ Drive(o) \/ LegRefused(o)
      PROVE  Consistent'
  <2>1. CASE LegRefused(o)
    BY <2>1, LegFailsIsSound DEF CryptoLegs
  <2> QED BY <1>3, <2>1, CommandIsSound, DriveIsSound
<1>4. ASSUME NEW o \in CryptoOrders, NEW l \in CryptoLegs,
             LedgerStep(o, l) \/ SubmitLeg(o, l) \/ LegDone(o, l) \/ LegUnanswered(o, l)
      PROVE  Consistent'
  BY <1>4, LegIsSound, LegDoneIsSound, LegFailsIsSound
<1> QED BY <1>1, <1>2, <1>3, <1>4, StopIsSound DEF CryptoNext

(* In every reachable state the rows, Process and the channel fit.         *)
THEOREM AlwaysSound == CryptoSpec => []Consistent
<1>1. Consistent /\ [CryptoNext]_cryptoVars => Consistent'
  BY SoundNext
<1> QED BY SoundInit, <1>1, PTL DEF CryptoSpec

(* A withdrawal is paid out once at most, its hold is spent only when it   *)
(* was paid and goes back only when it never will be (payout, Process).    *)
THEOREM AlwaysPaidOutOnce == CryptoSpec => []PaidOutOnce
<1>1. Consistent => PaidOutOnce
  <2> SUFFICES ASSUME Consistent, NEW o \in Payouts
               PROVE  /\ made[o] <= 1
                      /\ leg[o]["release"] # "absent" =>
                           \/ custody[o] = "failed"
                           \/ o \notin recorded /\ o \notin wire /\ custody[o] = "none"
                      /\ leg[o]["payout"] # "absent" => custody[o] = "paid"
    BY DEF PaidOutOnce
  <2>1. Outside(o) /\ wire \subseteq recorded
    BY DEF Consistent, CryptoTypes
  <2> QED BY <2>1 DEF Outside
<1> QED BY AlwaysSound, <1>1, PTL

(* The type invariant of the crypto funds orders.                          *)
THEOREM CryptoTyped == CryptoSpec => []CryptoTypes
<1>1. Consistent => CryptoTypes
  BY DEF Consistent
<1> QED BY AlwaysSound, <1>1, PTL
-----------------------------------------------------------------------------
(* What an order moved, and what is left of it in escrow.                  *)
Carried(o, l) == IF <<o, l>> \in MovedLegs THEN Moves[o][l].amount ELSE 0
LeftInHold(o) ==
  Carried(o, "reserve") - Carried(o, "release") - Carried(o, "sell_settle")
    - Carried(o, "payout") - Carried(o, "fee")
LeftBought(o) == Carried(o, "buy_reserve") - Carried(o, "buy_release")

(* The two escrows of an order hold what the order itself moved.           *)
Escrowed ==
  /\ IsFiniteSet(MovedLegs)
  /\ \A o \in CryptoOrders :
       Holding(<<"hold", o>>) = LeftInHold(o) /\ Holding(<<"buy", o>>) = LeftBought(o)

(* The moves each kind of order makes, and what comes before a move.       *)
PartsOf(o) ==
  IF o \in Payouts THEN {"reserve", "release", "payout", "fee"}
  ELSE IF o \in Conversions THEN {"reserve", "buy_reserve", "sell_settle", "buy_release"}
  ELSE {"credit"}
Before == [reserve |-> {}, release |-> {"reserve"}, buy_reserve |-> {"reserve"},
           sell_settle |-> {"reserve", "buy_reserve"},
           buy_release |-> {"reserve", "buy_reserve", "sell_settle"},
           payout |-> {"reserve"}, fee |-> {"reserve", "payout"}, credit |-> {}]

MoveDone(o, l) == leg[o][l] = "applied" \/ Moves[o][l].amount = 0

(* A move is asked for in its turn, and never lacks the money but first.   *)
InTurn(o) ==
  /\ \A l \in CryptoLegs : leg[o][l] # "absent" =>
       /\ l \in PartsOf(o) /\ Moves[o][l].amount > 0
       /\ \A m \in Before[l] : MoveDone(o, m)
       /\ l # "reserve" => leg[o][l] # "refused"
  /\ leg[o]["fee"] # "absent" => custody[o] = "paid"

(* What the order's row says was moved.                                    *)
RowFits(o) ==
  /\ o \in Incoming => filed[o] \in {"absent", "processing", "completed"}
  /\ o \in Conversions => filed[o] \in {"absent", "reserving", "processing", "completed", "rejected"}
  /\ o \notin Incoming => 
       /\ filed[o] \notin {"absent", "reserving", "rejected"} => MoveDone(o, "reserve")
       /\ filed[o] = "completed" => \A l \in PartsOf(o) \ {"release"} : MoveDone(o, l)
       /\ filed[o] \in {"rejected", "cancelled", "failed"} =>
            \/ leg[o]["reserve"] = "refused"
            \/ o \in Payouts /\ MoveDone(o, "reserve") /\ MoveDone(o, "release")

(* Where Process may be with an order.                                     *)
StepFits(o) ==
  driver # Resting /\ driver.order = o =>
    /\ driver.step \in PartsOf(o) \/ (o \in Payouts /\ driver.step \in Working)
    /\ driver.step \in CryptoLegs => \A m \in Before[driver.step] : MoveDone(o, m)
    /\ driver.step # "reserve" /\ o \notin Incoming => MoveDone(o, "reserve")
    /\ driver.step = "reserve" => filed[o] = "reserving" /\ driver.state = "reserving"
    /\ driver.step # "reserve" /\ o \notin Payouts => driver.state = "processing"

Fitting == \A o \in CryptoOrders : InTurn(o) /\ RowFits(o) /\ StepFits(o)
Whole == Escrowed /\ Fitting
-----------------------------------------------------------------------------
(* Each move by its name, and what every move is. *)
MoveIs(o, l, from, to, amount) ==
  Moves[o][l].from = from /\ Moves[o][l].to = to /\ Moves[o][l].amount = amount

LEMMA MovesAre ==
  ASSUME NEW o \in CryptoOrders, NEW t, t = CryptoTerms[o]
  PROVE  /\ t.amount \in Nat /\ t.fee \in Nat /\ t.receive \in Nat
         /\ MoveIs(o, "reserve", <<"wallet", t.sells>>, <<"hold", o>>, t.amount + t.fee)
         /\ MoveIs(o, "release", <<"hold", o>>, <<"wallet", t.sells>>, t.amount + t.fee)
         /\ MoveIs(o, "buy_reserve", <<"clearing", t.buys>>, <<"buy", o>>, t.receive)
         /\ MoveIs(o, "sell_settle", <<"hold", o>>, <<"clearing", t.sells>>, t.amount)
         /\ MoveIs(o, "buy_release", <<"buy", o>>, <<"wallet", t.buys>>, t.receive)
         /\ MoveIs(o, "payout", <<"hold", o>>, <<"clearing", t.sells>>, t.amount)
         /\ MoveIs(o, "fee", <<"hold", o>>, <<"fees", t.sells>>, t.fee)
         /\ MoveIs(o, "credit", <<"clearing", t.buys>>, <<"wallet", t.buys>>, t.amount)
  BY CryptoAssumption DEF MoveIs, Moves, MovesWith

LEMMA MovesTyped ==
  ASSUME NEW o \in CryptoOrders, NEW l \in CryptoLegs PROVE Moves[o][l].amount \in Nat
<1> DEFINE t == CryptoTerms[o]
<1>1. t.amount \in Nat /\ t.fee \in Nat /\ t.receive \in Nat /\ t.amount + t.fee \in Nat
  BY CryptoAssumption
<1>2. Moves[o][l].amount \in {t.amount + t.fee, t.amount, t.fee, t.receive}
  <2> HIDE DEF t
  <2> QED BY MovesAre DEF CryptoLegs, MoveIs, t
<1> QED BY <1>1, <1>2

(* What several moves moved, and with one more. *)
LEMMA SumOfMoreLegs ==
  ASSUME NEW ms, IsFiniteSet(ms), ms \subseteq CryptoOrders \X CryptoLegs
  PROVE  /\ SumOfLegs(ms) \in Int
         /\ \A o \in CryptoOrders, l \in CryptoLegs : <<o, l>> \notin ms =>
              SumOfLegs(ms \cup {<<o, l>>}) = SumOfLegs(ms) + Moves[o][l].amount
<1> DEFINE f == [m \in ms |-> Moves[m[1]][m[2]].amount]
<1>1. \A m \in ms : f[m] \in Int
  <2> SUFFICES ASSUME NEW m \in ms PROVE f[m] \in Int
    OBVIOUS
  <2>1. m[1] \in CryptoOrders /\ m[2] \in CryptoLegs /\ f[m] = Moves[m[1]][m[2]].amount
    OBVIOUS
  <2> HIDE DEF f
  <2> QED BY <2>1, MovesTyped
<1>2. SumOfLegs(ms) = SumFunctionOnSet(f, ms)
  BY DEF SumOfLegs, SumFunction
<1>3. ASSUME NEW o \in CryptoOrders, NEW l \in CryptoLegs, <<o, l>> \notin ms
      PROVE  SumOfLegs(ms \cup {<<o, l>>}) = SumOfLegs(ms) + Moves[o][l].amount
  <2> DEFINE more == ms \cup {<<o, l>>}
             g == [m \in more |-> Moves[m[1]][m[2]].amount]
  <2>1. SumOfLegs(more) = SumFunctionOnSet(g, more)
    BY DEF SumOfLegs, SumFunction
  <2>2. g[<<o, l>>] = Moves[o][l].amount /\ Moves[o][l].amount \in Int
    BY MovesTyped
  <2>3. \A m \in ms : g[m] = f[m]
    OBVIOUS
  <2> HIDE DEF f, g
  <2>4. SumFunctionOnSet(g, more) = SumFunctionOnSet(f, ms) + g[<<o, l>>]
    BY <1>1, <1>3, <2>2, <2>3, SumGains
  <2> QED BY <1>2, <2>1, <2>2, <2>4
<1> QED BY <1>1, <1>2, <1>3, SumInt

(* What came into an account and what went out of it.                      *)
Came(a) == {m \in MovedLegs : Moves[m[1]][m[2]].to = a}
Went(a) == {m \in MovedLegs : Moves[m[1]][m[2]].from = a}

(* When the ledger moves the money of an order, the account it goes to has *)
(* so much more and the account it comes from so much less.                *)
LEMMA MoneyOfLegMoves ==
  ASSUME CryptoTypes, IsFiniteSet(MovedLegs), NEW o \in CryptoOrders, NEW l \in CryptoLegs,
         LegChange(o, l, "pending", "posted")
  PROVE  /\ <<o, l>> \notin MovedLegs /\ MovedLegs' = MovedLegs \cup {<<o, l>>}
         /\ IsFiniteSet(MovedLegs')
         /\ \A a : a[1] # "wallet" =>
              /\ Holding(a) \in Int
              /\ Holding(a)' = Holding(a)
                   + (IF Moves[o][l].to = a THEN Moves[o][l].amount ELSE 0)
                   - (IF Moves[o][l].from = a THEN Moves[o][l].amount ELSE 0)
<1> DEFINE m == <<o, l>>
<1>1. m \notin MovedLegs /\ MovedLegs' = MovedLegs \cup {m} /\ MovedLegs \subseteq CryptoOrders \X CryptoLegs
  <2>1. /\ leg[o][l] = "pending" /\ leg'[o][l] = "posted"
        /\ \A p \in CryptoOrders, n \in CryptoLegs : <<p, n>> # m => leg'[p][n] = leg[p][n]
    BY DEF LegChange, CryptoTypes
  <2>2. m[1] = o /\ m[2] = l /\ m \in CryptoOrders \X CryptoLegs
    OBVIOUS
  <2>3. \A n \in CryptoOrders \X CryptoLegs :
          n[1] \in CryptoOrders /\ n[2] \in CryptoLegs /\ n = <<n[1], n[2]>>
    OBVIOUS
  <2> QED BY <2>1, <2>2, <2>3 DEF MovedLegs
<1>2. IsFiniteSet(MovedLegs')
  BY <1>1, FS_AddElement
<1>3. ASSUME NEW a, a[1] # "wallet"
      PROVE  /\ Holding(a) \in Int
             /\ Holding(a)' = Holding(a)
                  + (IF Moves[o][l].to = a THEN Moves[o][l].amount ELSE 0)
                  - (IF Moves[o][l].from = a THEN Moves[o][l].amount ELSE 0)
  <2> PICK in, out : /\ in = {n \in MovedLegs' : Moves[n[1]][n[2]].to = a}
                     /\ out = {n \in MovedLegs' : Moves[n[1]][n[2]].from = a}
    OBVIOUS
  <2>1. /\ Came(a) \subseteq CryptoOrders \X CryptoLegs /\ Went(a) \subseteq CryptoOrders \X CryptoLegs
        /\ IsFiniteSet(Came(a)) /\ IsFiniteSet(Went(a))
    BY <1>1, FS_Subset DEF Came, Went
  <2>2. SumOfLegs(Came(a)) \in Int /\ SumOfLegs(Went(a)) \in Int /\ Moves[o][l].amount \in Nat
    BY <2>1, SumOfMoreLegs, MovesTyped
  <2>3. m[1] = o /\ m[2] = l /\ m \notin Came(a) /\ m \notin Went(a)
    BY <1>1 DEF Came, Went
  <2>4. SumOfLegs(in) = SumOfLegs(Came(a)) + (IF Moves[o][l].to = a THEN Moves[o][l].amount ELSE 0)
    <3>1. in = IF Moves[o][l].to = a THEN Came(a) \cup {m} ELSE Came(a)
      BY <1>1, <2>3 DEF Came
    <3>2. SumOfLegs(Came(a) \cup {<<o, l>>}) = SumOfLegs(Came(a)) + Moves[o][l].amount
      BY <2>1, <2>3, SumOfMoreLegs
    <3>3. CASE Moves[o][l].to = a
      BY <3>1, <3>2, <3>3
    <3>4. CASE Moves[o][l].to # a
      <4>1. in = Came(a)
        BY <3>1, <3>4
      <4>2. SumOfLegs(in) = SumOfLegs(Came(a))
        BY <4>1, Zenon
      <4> QED BY <2>2, <3>4, <4>2
    <3> QED BY <3>3, <3>4
  <2>5. SumOfLegs(out) = SumOfLegs(Went(a)) + (IF Moves[o][l].from = a THEN Moves[o][l].amount ELSE 0)
    <3>1. out = IF Moves[o][l].from = a THEN Went(a) \cup {m} ELSE Went(a)
      BY <1>1, <2>3 DEF Went
    <3>2. SumOfLegs(Went(a) \cup {<<o, l>>}) = SumOfLegs(Went(a)) + Moves[o][l].amount
      BY <2>1, <2>3, SumOfMoreLegs
    <3>3. CASE Moves[o][l].from = a
      BY <3>1, <3>2, <3>3
    <3>4. CASE Moves[o][l].from # a
      <4>1. out = Went(a)
        BY <3>1, <3>4
      <4>2. SumOfLegs(out) = SumOfLegs(Went(a))
        BY <4>1, Zenon
      <4> QED BY <2>2, <3>4, <4>2
    <3> QED BY <3>3, <3>4
  <2>6. /\ Holding(a) = 0 + SumOfLegs(Came(a)) - SumOfLegs(Went(a))
        /\ Holding(a)' = 0 + SumOfLegs(in) - SumOfLegs(out)
    BY <1>3 DEF Holding, Came, Went
  <2> QED BY <2>2, <2>4, <2>5, <2>6
<1> QED BY <1>1, <1>2, <1>3
LEMMA LeftIsInt ==
  ASSUME NEW o \in CryptoOrders
  PROVE  /\ \A l \in CryptoLegs : Carried(o, l) \in Int
         /\ LeftInHold(o) \in Int /\ LeftBought(o) \in Int
<1>1. \A l \in CryptoLegs : Carried(o, l) \in Int
  BY MovesTyped DEF Carried
<1>2. /\ Carried(o, "reserve") \in Int /\ Carried(o, "release") \in Int
      /\ Carried(o, "sell_settle") \in Int /\ Carried(o, "payout") \in Int
      /\ Carried(o, "fee") \in Int /\ Carried(o, "buy_reserve") \in Int
      /\ Carried(o, "buy_release") \in Int
  BY <1>1 DEF CryptoLegs
<1> QED BY <1>1, <1>2 DEF LeftInHold, LeftBought

LEMMA NothingCarried ==
  ASSUME Escrowed, MovedLegs' = MovedLegs PROVE Escrowed'
<1>1. /\ \A a : Holding(a)' = Holding(a)
      /\ \A o, l : Carried(o, l)' = Carried(o, l)
  BY DEF Holding, Carried
<1>2. \A o : LeftInHold(o)' = LeftInHold(o) /\ LeftBought(o)' = LeftBought(o)
  BY <1>1 DEF LeftInHold, LeftBought
<1> QED BY <1>1, <1>2 DEF Escrowed

(* Only the moves of an order touch its escrows. *)
LEMMA LegCarried ==
  ASSUME CryptoTypes, Escrowed, NEW o \in CryptoOrders, NEW l \in CryptoLegs,
         LegChange(o, l, "pending", "posted")
  PROVE  Escrowed'
<1> DEFINE amount == Moves[o][l].amount
           change(a) == (IF Moves[o][l].to = a THEN amount ELSE 0)
                          - (IF Moves[o][l].from = a THEN amount ELSE 0)
<1>1. /\ <<o, l>> \notin MovedLegs /\ MovedLegs' = MovedLegs \cup {<<o, l>>}
      /\ IsFiniteSet(MovedLegs')
      /\ \A a : a[1] # "wallet" =>
              /\ Holding(a) \in Int
              /\ Holding(a)' = Holding(a)
                   + (IF Moves[o][l].to = a THEN Moves[o][l].amount ELSE 0)
                   - (IF Moves[o][l].from = a THEN Moves[o][l].amount ELSE 0)
  BY MoneyOfLegMoves DEF Escrowed
<1>2. /\ \A p, m : <<p, m>> # <<o, l>> => Carried(p, m)' = Carried(p, m)
      /\ Carried(o, l) = 0 /\ Carried(o, l)' = amount /\ amount \in Nat
  BY <1>1, MovesTyped DEF Carried
<1>3. ASSUME NEW p \in CryptoOrders
      PROVE  Holding(<<"hold", p>>)' = LeftInHold(p)' /\ Holding(<<"buy", p>>)' = LeftBought(p)'
  <2>1. /\ Holding(<<"hold", p>>) = LeftInHold(p) /\ Holding(<<"buy", p>>) = LeftBought(p)
        /\ Holding(<<"hold", p>>)' = Holding(<<"hold", p>>)
             + (IF Moves[o][l].to = <<"hold", p>> THEN amount ELSE 0)
             - (IF Moves[o][l].from = <<"hold", p>> THEN amount ELSE 0)
        /\ Holding(<<"buy", p>>)' = Holding(<<"buy", p>>)
             + (IF Moves[o][l].to = <<"buy", p>> THEN amount ELSE 0)
             - (IF Moves[o][l].from = <<"buy", p>> THEN amount ELSE 0)
    BY <1>1, <1>3 DEF Escrowed
  <2>2. LeftInHold(p) \in Int /\ LeftBought(p) \in Int
    BY LeftIsInt
  <2>3. CASE p # o
    <3>1. LeftInHold(p)' = LeftInHold(p) /\ LeftBought(p)' = LeftBought(p)
      BY <1>2, <2>3 DEF LeftInHold, LeftBought
    <3>2. /\ Moves[o][l].to # <<"hold", p>> /\ Moves[o][l].from # <<"hold", p>>
          /\ Moves[o][l].to # <<"buy", p>> /\ Moves[o][l].from # <<"buy", p>>
      BY <2>3, MovesAre DEF MoveIs, CryptoLegs
    <3>3. /\ (IF Moves[o][l].to = <<"hold", p>> THEN amount ELSE 0) = 0
          /\ (IF Moves[o][l].from = <<"hold", p>> THEN amount ELSE 0) = 0
          /\ (IF Moves[o][l].to = <<"buy", p>> THEN amount ELSE 0) = 0
          /\ (IF Moves[o][l].from = <<"buy", p>> THEN amount ELSE 0) = 0
      BY <3>2, Zenon
    <3>4. /\ Holding(<<"hold", p>>)' = LeftInHold(p) + 0 - 0
          /\ Holding(<<"buy", p>>)' = LeftBought(p) + 0 - 0
      BY <2>1, <3>3, Zenon
    <3> QED BY <2>2, <3>1, <3>4
  <2>4. CASE p = o
    <3>1. /\ Moves[o][l].to = <<"hold", p>> <=> l = "reserve"
          /\ Moves[o][l].from = <<"hold", p>> <=> l \in {"release", "sell_settle", "payout", "fee"}
          /\ Moves[o][l].to = <<"buy", p>> <=> l = "buy_reserve"
          /\ Moves[o][l].from = <<"buy", p>> <=> l = "buy_release"
      BY <2>4, MovesAre DEF MoveIs, CryptoLegs
    <3>2. \A m \in CryptoLegs : Carried(p, m) \in Int /\ Carried(p, m)' = IF m = l THEN amount ELSE Carried(p, m)
      BY <1>2, <2>4, LeftIsInt
    <3>3. LeftInHold(p)' = LeftInHold(p) + (IF l = "reserve" THEN amount ELSE 0)
            - (IF l \in {"release", "sell_settle", "payout", "fee"} THEN amount ELSE 0)
      BY <1>2, <2>4, <3>2 DEF LeftInHold, CryptoLegs
    <3>4. LeftBought(p)' = LeftBought(p) + (IF l = "buy_reserve" THEN amount ELSE 0)
            - (IF l = "buy_release" THEN amount ELSE 0)
      BY <1>2, <2>4, <3>2 DEF LeftBought, CryptoLegs
    <3> QED BY <2>1, <2>2, <3>1, <3>3, <3>4, <1>2
  <2> QED BY <2>3, <2>4
<1> QED BY <1>1, <1>3 DEF Escrowed

LEMMA EscrowedNext == ASSUME CryptoTypes, Escrowed, [CryptoNext]_cryptoVars PROVE Escrowed'
<1>1. ASSUME NEW o \in CryptoOrders, NEW l \in CryptoLegs, NEW from, NEW to,
             LegChange(o, l, from, to),
             from \in {"posted", "applied"} <=> to \in {"posted", "applied"}
      PROVE  Escrowed'
  <2>1. /\ leg[o][l] = from /\ leg'[o][l] = to
        /\ \A p \in CryptoOrders, n \in CryptoLegs : <<p, n>> # <<o, l>> => leg'[p][n] = leg[p][n]
    BY <1>1 DEF LegChange, CryptoTypes
  <2>2. MovedLegs' = MovedLegs
    BY <1>1, <2>1 DEF MovedLegs
  <2> QED BY <2>2, NothingCarried
<1>2. CASE leg' = leg
  BY <1>2, NothingCarried DEF MovedLegs
<1>3. ASSUME NEW o \in CryptoOrders, NEW l \in CryptoLegs, LedgerStep(o, l) \/ SubmitLeg(o, l)
      PROVE  Escrowed'
  BY <1>1, <1>3, LegCarried DEF LedgerStep, SubmitLeg
<1>4. ASSUME NEW o \in Payouts, PayoutStep(o) PROVE leg' = leg
  BY <1>4 DEF PayoutStep, ApprovePayout, RejectPayout, CancelPayout, Command, PayoutUnready,
              RecordPayout, RecallPayout, PostPayout, PayoutAnswered, PayoutUnanswered,
              PayoutUnclear, PayoutFailed, PayoutConfirmed, PayoutCalledBack, CustodyMakes,
              CustodyDrops, CustodyEnds, Aside
<1>5. ASSUME NEW o \in CryptoOrders, NEW l \in CryptoLegs,
             \/ PlaceOrder(o) \/ DepositVerified(o) \/ Drive(o) \/ LegRefused(o)
             \/ LegDone(o, l) \/ LegUnanswered(o, l) \/ DriverStops
      PROVE  leg' = leg
  BY <1>5 DEF PlaceOrder, DepositVerified, Command, Drive, LegRefused, LegDone, LegUnanswered,
              DriverStops, Aside
<1>6. "credit" \in CryptoLegs
  BY DEF CryptoLegs
<1> QED BY <1>2, <1>3, <1>4, <1>5, <1>6 DEF CryptoNext, cryptoVars, DriverStops, Aside
-----------------------------------------------------------------------------
(* A move that is done moved its amount; one not asked for moved nothing.  *)
LEMMA DoneIsCarried ==
  ASSUME CryptoTypes, NEW o \in CryptoOrders, NEW l \in CryptoLegs
  PROVE  /\ MoveDone(o, l) => Carried(o, l) = Moves[o][l].amount
         /\ leg[o][l] \notin {"posted", "applied"} => Carried(o, l) = 0
         /\ Carried(o, l) \in {0, Moves[o][l].amount}
         /\ 0 <= Carried(o, l) /\ Carried(o, l) <= Moves[o][l].amount
<1>1. <<o, l>> \in MovedLegs <=> leg[o][l] \in {"posted", "applied"}
  BY DEF MovedLegs
<1>2. Moves[o][l].amount \in Nat
  BY MovesTyped
<1> QED BY <1>1, <1>2 DEF MoveDone, Carried

(* A withdrawal's hold is not spent in two ways. *)
LEMMA SpentOneWay ==
  ASSUME Consistent, Fitting, NEW o \in Payouts, leg[o]["release"] # "absent"
  PROVE  leg[o]["payout"] = "absent" /\ leg[o]["fee"] = "absent"
<1>1. Outside(o) /\ InTurn(o) /\ o \in CryptoOrders
  BY DEF Consistent, Fitting, CryptoOrders
<1>2. custody[o] # "paid"
  BY <1>1 DEF Outside
<1> QED BY <1>1, <1>2 DEF Outside, InTurn

(* Nothing but the wallet ever lacks the money of a move. *)
LEMMA EscrowCovers ==
  ASSUME Consistent, Whole, NEW o \in CryptoOrders, NEW l \in CryptoLegs \ {"reserve"},
         leg[o][l] = "pending"
  PROVE  Payable(o, l)
<1> DEFINE t == CryptoTerms[o]
<1>1. CryptoTypes /\ InTurn(o) /\ Fitting
  BY DEF Consistent, Whole, Fitting
<1>2. /\ l \in PartsOf(o) /\ \A m \in Before[l] : MoveDone(o, m)
      /\ \A m \in CryptoLegs : m \notin PartsOf(o) => leg[o][m] = "absent"
  BY <1>1 DEF InTurn
<1>3. /\ Holding(<<"hold", o>>) = LeftInHold(o) /\ Holding(<<"buy", o>>) = LeftBought(o)
  BY DEF Whole, Escrowed
<1>4. t.amount \in Nat /\ t.fee \in Nat /\ t.receive \in Nat
  BY CryptoAssumption
<1>5. \A m \in CryptoLegs :
        /\ leg[o][m] \notin {"posted", "applied"} => Carried(o, m) = 0
        /\ MoveDone(o, m) => Carried(o, m) = Moves[o][m].amount
        /\ Carried(o, m) \in {0, Moves[o][m].amount}
  BY <1>1, DoneIsCarried
<1>6. Carried(o, l) = 0
  BY <1>5
<1>7. CASE l \in {"buy_reserve", "credit"}
  <2>1. Moves[o][l].from = <<"clearing", t.buys>>
    BY <1>7, MovesAre DEF MoveIs
  <2> QED BY <2>1 DEF Payable
<1>8. CASE l = "release" /\ o \in Payouts
  <2>1. leg[o]["payout"] = "absent" /\ leg[o]["fee"] = "absent" /\ leg[o]["sell_settle"] = "absent"
    BY <1>1, <1>2, <1>8, SpentOneWay DEF PartsOf, CryptoLegs
  <2>2. Carried(o, "payout") = 0 /\ Carried(o, "fee") = 0 /\ Carried(o, "sell_settle") = 0
    BY <1>5, <2>1 DEF CryptoLegs
  <2>3. Carried(o, "reserve") = t.amount + t.fee /\ Carried(o, "release") = 0
    <3>1. "reserve" \in Before[l]
      BY <1>8 DEF Before
    <3>2. Carried(o, "reserve") = Moves[o]["reserve"].amount
      BY <1>2, <1>5, <3>1 DEF CryptoLegs
    <3> QED BY <1>6, <1>8, <3>2, MovesAre DEF MoveIs
  <2>4. LeftInHold(o) = t.amount + t.fee
    BY <1>4, <2>2, <2>3 DEF LeftInHold
  <2>5. Moves[o][l].from = <<"hold", o>> /\ Moves[o][l].amount = t.amount + t.fee
    BY <1>8, MovesAre DEF MoveIs
  <2> QED BY <1>3, <1>4, <2>4, <2>5 DEF Payable
<1>9. CASE l \in {"payout", "fee"} /\ o \in Payouts
  <2>1. leg[o]["release"] = "absent" /\ leg[o]["sell_settle"] = "absent"
    BY <1>1, <1>2, <1>9, SpentOneWay DEF PartsOf, CryptoLegs
  <2>2. Carried(o, "release") = 0 /\ Carried(o, "sell_settle") = 0
    BY <1>5, <2>1 DEF CryptoLegs
  <2>3. /\ Carried(o, "reserve") = t.amount + t.fee
        /\ Carried(o, "payout") \in {0, t.amount} /\ Carried(o, "fee") \in {0, t.fee}
    <3>1. "reserve" \in Before[l]
      BY <1>9 DEF Before
    <3>2. MoveDone(o, "reserve")
      BY <1>2, <3>1
    <3>3. /\ Carried(o, "reserve") = Moves[o]["reserve"].amount
          /\ Carried(o, "payout") \in {0, Moves[o]["payout"].amount}
          /\ Carried(o, "fee") \in {0, Moves[o]["fee"].amount}
      BY <1>5, <3>2 DEF CryptoLegs
    <3> QED BY <3>3, MovesAre DEF MoveIs
  <2>4. LeftInHold(o) = t.amount + t.fee - Carried(o, "payout") - Carried(o, "fee")
    BY <1>4, <2>2, <2>3 DEF LeftInHold
  <2>5. /\ Moves[o][l].from = <<"hold", o>>
        /\ l = "payout" => Moves[o][l].amount = t.amount
        /\ l = "fee" => Moves[o][l].amount = t.fee
    BY <1>9, MovesAre DEF MoveIs
  <2>6. LeftInHold(o) >= Moves[o][l].amount
    BY <1>4, <1>6, <1>9, <2>3, <2>4, <2>5
  <2> QED BY <1>3, <2>5, <2>6 DEF Payable
<1>10. CASE l = "sell_settle" /\ o \in Conversions
  <2>1. leg[o]["release"] = "absent" /\ leg[o]["payout"] = "absent" /\ leg[o]["fee"] = "absent"
    BY <1>2, <1>10, CryptoAssumption DEF PartsOf, CryptoLegs
  <2>2. Carried(o, "release") = 0 /\ Carried(o, "payout") = 0 /\ Carried(o, "fee") = 0
    BY <1>5, <2>1 DEF CryptoLegs
  <2>3. Carried(o, "reserve") = t.amount + t.fee
    <3>1. "reserve" \in Before[l]
      BY <1>10 DEF Before
    <3>2. Carried(o, "reserve") = Moves[o]["reserve"].amount
      BY <1>2, <1>5, <3>1 DEF CryptoLegs
    <3> QED BY <3>2, MovesAre DEF MoveIs
  <2>4. LeftInHold(o) = t.amount + t.fee
    BY <1>4, <1>6, <1>10, <2>2, <2>3 DEF LeftInHold
  <2>5. Moves[o][l].from = <<"hold", o>> /\ Moves[o][l].amount = t.amount
    BY <1>10, MovesAre DEF MoveIs
  <2> QED BY <1>3, <1>4, <2>4, <2>5 DEF Payable
<1>11. CASE l = "buy_release" /\ o \in Conversions
  <2>1. Carried(o, "buy_reserve") = t.receive
    <3>1. "buy_reserve" \in Before[l]
      BY <1>11 DEF Before
    <3>2. Carried(o, "buy_reserve") = Moves[o]["buy_reserve"].amount
      BY <1>2, <1>5, <3>1 DEF CryptoLegs
    <3> QED BY <3>2, MovesAre DEF MoveIs
  <2>2. LeftBought(o) = t.receive
    BY <1>4, <1>6, <1>11, <2>1 DEF LeftBought
  <2>3. Moves[o][l].from = <<"buy", o>> /\ Moves[o][l].amount = t.receive
    BY <1>11, MovesAre DEF MoveIs
  <2> QED BY <1>3, <1>4, <2>2, <2>3 DEF Payable
<1> QED
  BY <1>2, <1>7, <1>8, <1>9, <1>10, <1>11, CryptoAssumption DEF PartsOf, CryptoLegs

(* What holds in every reachable state is what the property asks.          *)
LEMMA WholeStrandsNothing == ASSUME Consistent, Whole PROVE NothingStranded
<1>1. CryptoTypes /\ Fitting /\ \A o \in CryptoOrders : InTurn(o) /\ RowFits(o)
  BY DEF Consistent, Whole, Fitting
<1>2. ASSUME NEW o \in CryptoOrders, filed[o] \in CryptoOver
      PROVE  LeftInHold(o) = 0 /\ LeftBought(o) = 0
  <2> DEFINE t == CryptoTerms[o]
  <2>1. /\ t.amount \in Nat /\ t.fee \in Nat /\ t.receive \in Nat
        /\ o \in Conversions => t.fee = 0
    BY CryptoAssumption
  <2>2. \A m \in CryptoLegs :
          /\ leg[o][m] = "absent" \/ leg[o][m] = "refused" => Carried(o, m) = 0
          /\ MoveDone(o, m) => Carried(o, m) = Moves[o][m].amount
    BY <1>1, DoneIsCarried
  <2>3. \A m \in CryptoLegs : m \notin PartsOf(o) => leg[o][m] = "absent"
    BY <1>1 DEF InTurn
  <2>4. CASE filed[o] = "completed" /\ o \in Payouts
    <3>1. /\ MoveDone(o, "reserve") /\ MoveDone(o, "payout") /\ MoveDone(o, "fee")
      BY <1>1, <2>4, CryptoAssumption DEF RowFits, PartsOf
    <3>2. leg[o]["release"] = "absent"
      BY <2>4 DEF Consistent, Outside
    <3>3. /\ leg[o]["sell_settle"] = "absent" /\ leg[o]["buy_reserve"] = "absent"
          /\ leg[o]["buy_release"] = "absent"
      BY <2>3, <2>4 DEF PartsOf, CryptoLegs
    <3>4. /\ Carried(o, "reserve") = t.amount + t.fee /\ Carried(o, "payout") = t.amount
          /\ Carried(o, "fee") = t.fee /\ Carried(o, "release") = 0 /\ Carried(o, "sell_settle") = 0
          /\ Carried(o, "buy_reserve") = 0 /\ Carried(o, "buy_release") = 0
      BY <2>2, <3>1, <3>2, <3>3, MovesAre DEF MoveIs, CryptoLegs
    <3> QED BY <2>1, <3>4 DEF LeftInHold, LeftBought
  <2>5. CASE filed[o] = "completed" /\ o \in Conversions
    <3>1. /\ MoveDone(o, "reserve") /\ MoveDone(o, "buy_reserve") /\ MoveDone(o, "sell_settle")
          /\ MoveDone(o, "buy_release")
      BY <1>1, <2>5, CryptoAssumption DEF RowFits, PartsOf
    <3>2. leg[o]["release"] = "absent" /\ leg[o]["payout"] = "absent" /\ leg[o]["fee"] = "absent"
      BY <2>3, <2>5, CryptoAssumption DEF PartsOf, CryptoLegs
    <3>3. /\ Carried(o, "reserve") = t.amount + t.fee /\ Carried(o, "sell_settle") = t.amount
          /\ Carried(o, "release") = 0 /\ Carried(o, "payout") = 0 /\ Carried(o, "fee") = 0
          /\ Carried(o, "buy_reserve") = t.receive /\ Carried(o, "buy_release") = t.receive
      BY <2>2, <3>1, <3>2, MovesAre DEF MoveIs, CryptoLegs
    <3>4. t.fee = 0
      BY <2>1, <2>5
    <3>5. LeftInHold(o) = 0
      BY <2>1, <3>3, <3>4 DEF LeftInHold
    <3>6. LeftBought(o) = 0
      BY <2>1, <3>3 DEF LeftBought
    <3> QED BY <3>5, <3>6
  <2>6. CASE o \in Incoming \/ leg[o]["reserve"] = "refused"
    <3>1. \A m \in CryptoLegs \ {"credit"} : leg[o][m] \in {"absent", "refused"}
      <4>1. CASE o \in Incoming
        BY <2>3, <4>1, CryptoAssumption DEF PartsOf
      <4>2. CASE leg[o]["reserve"] = "refused"
        <5>1. ~ MoveDone(o, "reserve") /\ InTurn(o)
          BY <1>1, <4>2, MovesTyped DEF InTurn, MoveDone, CryptoLegs
        <5>2. \A m \in CryptoLegs \ {"credit", "reserve"} : "reserve" \in Before[m]
          BY DEF Before, CryptoLegs
        <5> QED BY <4>2, <5>1, <5>2 DEF InTurn
      <4> QED BY <2>6, <4>1, <4>2
    <3>2. /\ Carried(o, "reserve") = 0 /\ Carried(o, "sell_settle") = 0
          /\ Carried(o, "release") = 0 /\ Carried(o, "payout") = 0 /\ Carried(o, "fee") = 0
          /\ Carried(o, "buy_reserve") = 0 /\ Carried(o, "buy_release") = 0
      BY <2>2, <3>1 DEF CryptoLegs
    <3> QED BY <3>2 DEF LeftInHold, LeftBought
  <2>7. CASE o \in Payouts /\ MoveDone(o, "reserve") /\ MoveDone(o, "release")
                /\ filed[o] \in {"rejected", "cancelled", "failed"}
    <3>1. leg[o]["release"] = "applied"
      <4>1. t.amount + t.fee # 0 /\ Moves[o]["release"].amount = t.amount + t.fee
        BY <2>1, <2>7, MovesAre, CryptoAssumption DEF MoveIs
      <4> QED BY <2>7, <4>1 DEF MoveDone
    <3>2. /\ leg[o]["payout"] = "absent" /\ leg[o]["fee"] = "absent"
          /\ leg[o]["sell_settle"] = "absent" /\ leg[o]["buy_reserve"] = "absent"
          /\ leg[o]["buy_release"] = "absent"
      BY <1>1, <2>3, <2>7, <3>1, SpentOneWay DEF PartsOf, CryptoLegs
    <3>3. /\ Carried(o, "reserve") = t.amount + t.fee /\ Carried(o, "release") = t.amount + t.fee
          /\ Carried(o, "payout") = 0 /\ Carried(o, "fee") = 0 /\ Carried(o, "sell_settle") = 0
          /\ Carried(o, "buy_reserve") = 0 /\ Carried(o, "buy_release") = 0
      BY <2>2, <2>7, <3>2, MovesAre DEF MoveIs, CryptoLegs
    <3> QED BY <2>1, <3>3 DEF LeftInHold, LeftBought
  <2> QED BY <1>1, <1>2, <2>4, <2>5, <2>6, <2>7 DEF RowFits, CryptoOver, CryptoOrders
<1>3. ASSUME NEW o \in CryptoOrders, filed[o] \in CryptoOver
      PROVE  Holding(<<"hold", o>>) = 0 /\ Holding(<<"buy", o>>) = 0
  BY <1>2, <1>3 DEF Whole, Escrowed
<1>4. ASSUME NEW o \in CryptoOrders, NEW l \in CryptoLegs \ {"reserve"} PROVE leg[o][l] # "refused"
  BY <1>1, <1>4 DEF InTurn
<1>5. ASSUME NEW o \in Conversions, leg[o]["buy_release"] # "absent"
      PROVE  leg[o]["sell_settle"] = "applied"
  <2>1. o \in CryptoOrders /\ CryptoTerms[o].amount \in Nat /\ CryptoTerms[o].amount > 0
    BY CryptoAssumption DEF CryptoOrders
  <2>2. MoveDone(o, "sell_settle")
    BY <1>1, <1>5, <2>1 DEF InTurn, Before, CryptoLegs
  <2>3. Moves[o]["sell_settle"].amount = CryptoTerms[o].amount
    BY <2>1, MovesAre DEF MoveIs
  <2> QED BY <2>1, <2>2, <2>3 DEF MoveDone
<1> QED BY <1>3, <1>4, <1>5 DEF NothingStranded
-----------------------------------------------------------------------------
LEMMA WholeInit == CryptoInit => Whole
<1> SUFFICES ASSUME CryptoInit PROVE Whole
  OBVIOUS
<1>1. MovedLegs = {}
  BY DEF CryptoInit, MovedLegs
<1>2. IsFiniteSet(MovedLegs)
  BY <1>1, FS_EmptySet
<1>3. ASSUME NEW o \in CryptoOrders
      PROVE  Holding(<<"hold", o>>) = LeftInHold(o) /\ Holding(<<"buy", o>>) = LeftBought(o)
  <2>1. \A l : Carried(o, l) = 0
    BY <1>1 DEF Carried
  <2>2. LeftInHold(o) = 0 /\ LeftBought(o) = 0
    BY <2>1 DEF LeftInHold, LeftBought
  <2>3. SumOfLegs({}) = 0
    BY SumEmpty DEF SumOfLegs, SumFunction
  <2>4. ASSUME NEW a, a[1] # "wallet" PROVE Holding(a) = 0
    <3>1. /\ {m \in MovedLegs : Moves[m[1]][m[2]].to = a} = {}
          /\ {m \in MovedLegs : Moves[m[1]][m[2]].from = a} = {}
      BY <1>1
    <3>2. Holding(a) = 0 + SumOfLegs({}) - SumOfLegs({})
      BY <2>4, <3>1 DEF Holding
    <3> QED BY <2>3, <3>2
  <2> QED BY <2>2, <2>4
<1>4. ASSUME NEW o \in CryptoOrders PROVE InTurn(o) /\ RowFits(o) /\ StepFits(o)
  BY CryptoAssumption DEF CryptoInit, InTurn, RowFits, StepFits, Resting, CryptoLegs, CryptoOrders
<1> QED BY <1>2, <1>3, <1>4 DEF Whole, Escrowed, Fitting

(* The order of the kind of o, and what may be asked for after a step.     *)
LEMMA KindsOf ==
  ASSUME NEW o \in CryptoOrders
  PROVE  /\ o \in Payouts => o \notin Conversions /\ o \notin Incoming
         /\ o \in Conversions => o \notin Payouts /\ o \notin Incoming
         /\ o \in Incoming => o \notin Payouts /\ o \notin Conversions
         /\ o \in Payouts \/ o \in Conversions \/ o \in Incoming
         /\ o \in Payouts => PartsOf(o) = {"reserve", "release", "payout", "fee"}
         /\ o \in Conversions => PartsOf(o) = {"reserve", "buy_reserve", "sell_settle", "buy_release"}
         /\ o \in Incoming => PartsOf(o) = {"credit"}
  BY CryptoAssumption DEF CryptoOrders, PartsOf

(* A step of Process, a command or the channel that asks the ledger for    *)
(* nothing: what is left to show is about the one order it is about.       *)
LEMMA OthersFit ==
  ASSUME CryptoTypes, Fitting, NEW o \in CryptoOrders, leg' = leg, 
         \A p \in Payouts : custody[p] = "paid" => custody'[p] = "paid",
         \A p \in CryptoOrders \ {o} : filed'[p] = filed[p],
         driver' = Resting \/ driver'.order = o \/ driver' = driver,
         RowFits(o)', StepFits(o)'
  PROVE  Fitting'
<1>1. ASSUME NEW p \in CryptoOrders, NEW l PROVE MoveDone(p, l)' <=> MoveDone(p, l)
  BY DEF MoveDone
<1>2. ASSUME NEW p \in CryptoOrders PROVE InTurn(p)'
  <2>1. InTurn(p)
    BY <1>2 DEF Fitting
  <2>2. leg[p]["fee"] # "absent" => p \in Payouts
    BY <2>1, KindsOf DEF InTurn, CryptoLegs
  <2> QED BY <1>1, <2>1, <2>2 DEF InTurn
<1>3. ASSUME NEW p \in CryptoOrders, p # o PROVE RowFits(p)' /\ StepFits(p)'
  <2>1. RowFits(p) /\ StepFits(p) /\ filed'[p] = filed[p]
    BY <1>3 DEF Fitting
  <2>2. RowFits(p)'
    BY <1>1, <1>3, <2>1 DEF RowFits
  <2>3. StepFits(p)'
    <3>1. driver' # Resting /\ driver'.order = p => driver' = driver
      BY <1>3
    <3> QED BY <1>1, <1>3, <2>1, <3>1 DEF StepFits
  <2> QED BY <2>2, <2>3
<1> QED BY <1>2, <1>3 DEF Fitting

LEMMA LedgerFits ==
  ASSUME Consistent, Whole, NEW o \in CryptoOrders, NEW l \in CryptoLegs, LedgerStep(o, l) \/ SubmitLeg(o, l)
  PROVE  Fitting'
<1>1. PICK from, to \in {"absent", "pending", "posted", "applied", "refused"} :
        /\ LegChange(o, l, from, to) /\ from # "applied"
        /\ (from = "absent" => Driving(o, l) /\ Moves[o][l].amount > 0)
        /\ (to = "refused" => from = "pending" /\ ~ Payable(o, l))
        /\ from = "refused" => FALSE
  BY DEF LedgerStep, SubmitLeg
<1>2. /\ leg[o][l] = from /\ leg'[o][l] = to
      /\ \A p \in CryptoOrders, m \in CryptoLegs : <<p, m>> # <<o, l>> => leg'[p][m] = leg[p][m]
      /\ UNCHANGED <<filed, driver, custody>>
  BY <1>1 DEF LegChange, Consistent, CryptoTypes
<1>3. ASSUME NEW p \in CryptoOrders, NEW m \in CryptoLegs
      PROVE  MoveDone(p, m) => MoveDone(p, m)'
  BY <1>1, <1>2 DEF MoveDone
<1>4. InTurn(o) /\ RowFits(o) /\ StepFits(o) /\ \A p \in CryptoOrders : InTurn(p) /\ RowFits(p) /\ StepFits(p)
  BY DEF Whole, Fitting
<1>5. \A m \in CryptoLegs : Before[m] \subseteq CryptoLegs
  BY DEF Before, CryptoLegs
<1>6. ASSUME NEW p \in CryptoOrders PROVE InTurn(p)'
  <2>1. CASE from = "absent"
    <3>1. driver.order = o /\ driver.step = l
      BY <1>1, <2>1 DEF Driving
    <3>2. l \in PartsOf(o) /\ \A m \in Before[l] : MoveDone(o, m)
      BY <1>4, <3>1, KindsOf DEF StepFits, Resting, Working, CryptoLegs
    <3>3. l = "fee" => custody[o] = "paid"
      BY <3>1, <3>2, KindsOf DEF Consistent, Inside
    <3>4. ASSUME NEW m \in CryptoLegs, leg'[p][m] # "absent"
          PROVE  /\ m \in PartsOf(p) /\ Moves[p][m].amount > 0
                 /\ \A n \in Before[m] : MoveDone(p, n)'
                 /\ m # "reserve" => leg'[p][m] # "refused"
                 /\ m = "fee" => custody[p] = "paid"
      <4>1. CASE p = o /\ m = l
        BY <1>1, <1>2, <1>3, <1>5, <2>1, <3>2, <3>3, <4>1
      <4>2. CASE <<p, m>> # <<o, l>>
        BY <1>2, <1>3, <1>4, <1>5, <1>6, <3>4, <4>2 DEF InTurn
      <4> QED BY <4>1, <4>2
    <3> QED BY <1>2, <3>4 DEF InTurn, CryptoLegs
  <2>2. CASE from # "absent"
    <3>1. to = "refused" => l = "reserve"
      BY <1>1, <1>2, EscrowCovers
    <3>2. ASSUME NEW m \in CryptoLegs, leg'[p][m] # "absent"
          PROVE  /\ m \in PartsOf(p) /\ Moves[p][m].amount > 0
                 /\ \A n \in Before[m] : MoveDone(p, n)'
                 /\ m # "reserve" => leg'[p][m] # "refused"
                 /\ m = "fee" => custody[p] = "paid"
      <4>1. leg[p][m] # "absent"
        BY <1>2, <1>6, <2>2, <3>2
      <4>2. leg'[p][m] = "refused" => leg[p][m] = "refused" \/ m = "reserve"
        BY <1>2, <1>6, <3>1
      <4> QED BY <1>3, <1>4, <1>5, <1>6, <4>1, <4>2 DEF InTurn
    <3> QED BY <1>2, <3>2 DEF InTurn, CryptoLegs
  <2> QED BY <2>1, <2>2
<1>7. ASSUME NEW p \in CryptoOrders PROVE RowFits(p)' /\ StepFits(p)'
  <2>1. PartsOf(p) \subseteq CryptoLegs /\ {"reserve", "release"} \subseteq CryptoLegs
    BY KindsOf DEF CryptoLegs
  <2>2. leg[p]["reserve"] = "refused" => leg'[p]["reserve"] = "refused"
    BY <1>1, <1>2 DEF CryptoLegs
  <2>3. RowFits(p)'
    BY <1>2, <1>3, <1>4, <2>1, <2>2 DEF RowFits
  <2>4. StepFits(p)'
    BY <1>2, <1>3, <1>4, <1>5, <2>1 DEF StepFits
  <2> QED BY <2>3, <2>4
<1> QED BY <1>6, <1>7 DEF Fitting
(* Commands, and what happens beside Process. *)
LEMMA CommandFits ==
  ASSUME Consistent, Fitting, NEW o \in CryptoOrders,
         PlaceOrder(o) \/ DepositVerified(o)
           \/ ApprovePayout(o) \/ RejectPayout(o) \/ CancelPayout(o)
  PROVE  Fitting'
<1>1. /\ driver' = Resting /\ leg' = leg /\ custody' = custody
      /\ \A p \in CryptoOrders \ {o} : filed'[p] = filed[p]
  BY DEF Consistent, CryptoTypes, PlaceOrder, DepositVerified, ApprovePayout, RejectPayout,
         CancelPayout, Command, Aside, ChannelUnchanged, File
<1>2. \/ filed[o] = "absent" /\ filed'[o] = "reserving" /\ o \in Payouts \cup Conversions
      \/ filed[o] = "absent" /\ filed'[o] = "processing" /\ o \in Incoming
      \/ filed[o] = "pending_review" /\ filed'[o] \in {"processing", "releasing"} /\ o \in Payouts
  BY DEF Consistent, CryptoTypes, PlaceOrder, DepositVerified, ApprovePayout, RejectPayout,
         CancelPayout, Command, File
<1>3. RowFits(o)'
  BY <1>1, <1>2, KindsOf DEF Fitting, RowFits, MoveDone
<1>4. StepFits(o)'
  BY <1>1 DEF StepFits
<1> QED BY <1>1, <1>3, <1>4, OthersFit DEF Consistent

LEMMA DriveFits == ASSUME Consistent, Fitting, NEW o \in CryptoOrders, Drive(o) PROVE Fitting'
<1> DEFINE s == IF filed[o] = "unknown" THEN "processing" ELSE filed[o]
<1>1. /\ driver' = [order |-> o, step |-> FirstStep(o), state |-> s]
      /\ filed[o] \in {"reserving", "processing", "releasing", "unknown"}
      /\ UNCHANGED <<filed, leg, custody>>
  BY DEF Drive, Proceed, GoTo, Aside, ChannelUnchanged
<1>2. RowFits(o)
  BY DEF Fitting
<1>3. /\ o \in Payouts => WorkOf(o) = "request"
      /\ o \in Conversions => WorkOf(o) = "buy_reserve"
      /\ o \in Incoming => WorkOf(o) = "credit"
  BY KindsOf DEF WorkOf
<1>4. FirstStep(o) = IF filed[o] = "reserving" THEN "reserve"
                     ELSE IF filed[o] = "releasing" THEN "release" ELSE WorkOf(o)
  BY DEF FirstStep
<1>5. StepFits(o)'
  <2>1. /\ driver'.step = FirstStep(o) /\ driver'.state = s
        /\ \A l : MoveDone(o, l)' <=> MoveDone(o, l)
    BY <1>1 DEF MoveDone
  <2>2. CASE o \in Payouts
    BY <1>1, <1>2, <1>3, <1>4, <2>1, <2>2, KindsOf DEF RowFits, StepFits, Before, Working, CryptoLegs
  <2>3. CASE o \in Conversions
    BY <1>1, <1>2, <1>3, <1>4, <2>1, <2>3, KindsOf DEF RowFits, StepFits, Before, Working, CryptoLegs
  <2>4. CASE o \in Incoming
    BY <1>1, <1>2, <1>3, <1>4, <2>1, <2>4, KindsOf DEF RowFits, StepFits, Before, Working, CryptoLegs
  <2> QED BY <2>2, <2>3, <2>4, KindsOf
<1>6. RowFits(o)'
  BY <1>1, <1>2 DEF RowFits, MoveDone
<1> QED BY <1>1, <1>5, <1>6, OthersFit DEF Consistent

LEMMA AsideFits ==
  ASSUME Consistent, Fitting,
         \/ DriverStops
         \/ \E o \in Payouts : \/ PayoutCalledBack(o) \/ CustodyMakes(o) \/ CustodyDrops(o)
                               \/ \E how \in {"paid", "failed"} : CustodyEnds(o, how)
  PROVE  Fitting'
<1>1. UNCHANGED <<filed, leg>> /\ (driver' = Resting \/ driver' = driver)
  BY DEF DriverStops, Aside, PayoutCalledBack, CustodyMakes, CustodyDrops, CustodyEnds
<1>2. \A p \in Payouts : custody[p] = "paid" => custody'[p] = "paid"
  BY DEF DriverStops, Aside, ChannelUnchanged, PayoutCalledBack, CustodyMakes, CustodyDrops,
         CustodyEnds, Consistent, CryptoTypes
<1>3. ASSUME NEW o \in CryptoOrders PROVE RowFits(o)' /\ StepFits(o)'
  BY <1>1, <1>3 DEF Fitting, RowFits, StepFits, MoveDone
<1>4. ASSUME NEW o \in CryptoOrders PROVE Fitting'
  BY <1>1, <1>2, <1>3, OthersFit DEF Consistent
<1> QED BY <1>4 DEF Fitting

(* Process saves the order, or goes on. *)
LEMMA SaveFits ==
  ASSUME Consistent, Fitting, NEW o \in CryptoOrders, NEW s \in FiledStates, File(o, s),
         driver' = Resting, leg' = leg, custody' = custody,
         o \in Incoming => s \in {"processing", "completed"},
         o \in Conversions => s \in {"reserving", "processing", "completed", "rejected"},
         o \notin Incoming =>
           /\ s \notin {"reserving", "rejected"} => MoveDone(o, "reserve")
           /\ s = "completed" => \A l \in PartsOf(o) \ {"release"} : MoveDone(o, l)
           /\ s \in {"rejected", "cancelled", "failed"} =>
                \/ leg[o]["reserve"] = "refused"
                \/ o \in Payouts /\ MoveDone(o, "reserve") /\ MoveDone(o, "release")
  PROVE  Fitting'
<1>1. filed'[o] = s /\ \A p \in CryptoOrders \ {o} : filed'[p] = filed[p]
  BY DEF File, Consistent, CryptoTypes
<1>2. \A l : MoveDone(o, l)' <=> MoveDone(o, l)
  BY DEF MoveDone
<1>3. RowFits(o)'
  BY <1>1, <1>2 DEF RowFits
<1>4. StepFits(o)'
  BY DEF StepFits
<1> QED BY <1>1, <1>3, <1>4, OthersFit DEF Consistent

LEMMA ProceedFits ==
  ASSUME Consistent, Fitting, NEW o \in CryptoOrders, NEW step, NEW s, Proceed(o, step, s),
         leg' = leg, custody' = custody, step # "reserve",
         step \in PartsOf(o) \/ (o \in Payouts /\ step \in Working),
         step \in CryptoLegs => \A m \in Before[step] : MoveDone(o, m),
         o \notin Incoming => MoveDone(o, "reserve"),
         o \notin Payouts => s = "processing"
  PROVE  Fitting'
<1>1. /\ filed' = filed /\ driver'.order = o /\ driver'.step = step /\ driver'.state = s
  BY DEF Proceed, GoTo
<1>2. \A l : MoveDone(o, l)' <=> MoveDone(o, l)
  BY DEF MoveDone
<1>3. RowFits(o)'
  BY <1>1, <1>2 DEF Fitting, RowFits
<1>4. StepFits(o)'
  BY <1>1, <1>2 DEF StepFits
<1> QED BY <1>1, <1>3, <1>4, OthersFit DEF Consistent

LEMMA LegDoneFits ==
  ASSUME Consistent, Fitting, NEW o \in CryptoOrders, NEW l \in CryptoLegs, LegDone(o, l)
  PROVE  Fitting'
<1>1. /\ driver.order = o /\ driver.step = l /\ driver # Resting
      /\ leg' = leg /\ custody' = custody /\ MoveDone(o, l)
  BY DEF LegDone, Driving, Aside, ChannelUnchanged, MoveDone, Resting, CryptoLegs
<1>2. /\ StepFits(o) /\ RowFits(o)
      /\ l \in PartsOf(o) \/ (o \in Payouts /\ l \in Working)
      /\ \A m \in Before[l] : MoveDone(o, m)
      /\ l # "reserve" /\ o \notin Incoming => MoveDone(o, "reserve")
  BY <1>1 DEF Fitting, StepFits
<1>3. CASE l = "reserve"
  <2>1. o \notin Incoming /\ MoveDone(o, "reserve")
    BY <1>1, <1>2, <1>3, KindsOf
  <2>2. CASE o \in Payouts
    <3>1. File(o, "pending_review") /\ driver' = Resting
      BY <1>3, <2>2 DEF LegDone, SaveAs, FollowedBy
    <3> QED BY <1>1, <2>1, <2>2, <3>1, SaveFits, KindsOf DEF FiledStates
  <2>3. CASE o \in Conversions
    <3>1. Proceed(o, "buy_reserve", "processing")
      BY <1>3, <2>3, KindsOf DEF LegDone, FollowedBy
    <3> QED BY <1>1, <2>1, <2>3, <3>1, ProceedFits, KindsOf DEF Before
  <2> QED BY <2>1, <2>2, <2>3, KindsOf
<1>4. CASE l = "release"
  <2>1. File(o, resolution[o]) /\ driver' = Resting
    BY <1>4 DEF LegDone, SaveAs, FollowedBy
  <2>2. resolution[o] \in {"rejected", "cancelled", "failed"}
    BY <1>1, <1>4 DEF Consistent, Steady
  <2>3. o \in Payouts /\ MoveDone(o, "reserve") /\ MoveDone(o, "release")
    BY <1>1, <1>2, <1>4, KindsOf DEF Before, Working
  <2> QED BY <1>1, <2>1, <2>2, <2>3, SaveFits, KindsOf DEF FiledStates
<1>5. CASE l \in DOMAIN FollowedBy
  <2>1. /\ Proceed(o, FollowedBy[l], driver.state) /\ l \in {"buy_reserve", "sell_settle", "payout"}
        /\ FollowedBy[l] = IF l = "buy_reserve" THEN "sell_settle"
                           ELSE IF l = "sell_settle" THEN "buy_release" ELSE "fee"
    BY <1>5 DEF LegDone, FollowedBy
  <2>2. CASE o \in Payouts
    <3>1. l = "payout" /\ FollowedBy[l] = "fee" /\ MoveDone(o, "reserve") /\ MoveDone(o, "payout")
      BY <1>1, <1>2, <2>1, <2>2, KindsOf DEF Working
    <3> QED BY <1>1, <2>1, <2>2, <3>1, ProceedFits, KindsOf DEF Before
  <2>3. CASE o \in Conversions
    <3>1. /\ l # "payout" /\ MoveDone(o, "reserve") /\ MoveDone(o, "buy_reserve")
          /\ l = "sell_settle" => MoveDone(o, "sell_settle")
          /\ driver.state = "processing"
      BY <1>1, <1>2, <2>1, <2>3, KindsOf DEF Before, StepFits
    <3> QED BY <1>1, <2>1, <2>3, <3>1, ProceedFits, KindsOf DEF Before
  <2>4. o \notin Incoming
    BY <1>2, <2>1, KindsOf
  <2> QED BY <2>2, <2>3, <2>4, KindsOf
<1>6. CASE l \in {"buy_release", "fee", "credit"}
  <2>1. File(o, "completed") /\ driver' = Resting
    BY <1>6 DEF LegDone, SaveAs, FollowedBy
  <2>2. o \notin Incoming => /\ MoveDone(o, "reserve")
                             /\ \A m \in PartsOf(o) \ {"release"} : MoveDone(o, m)
    BY <1>1, <1>2, <1>6, KindsOf DEF Before, Working
  <2> QED BY <1>1, <2>1, <2>2, SaveFits, KindsOf DEF FiledStates
<1> QED BY <1>3, <1>4, <1>5, <1>6 DEF CryptoLegs, FollowedBy

LEMMA LegFailsFits ==
  ASSUME Consistent, Fitting, NEW o \in CryptoOrders, NEW l \in CryptoLegs, LegRefused(o) \/ LegUnanswered(o, l)
  PROVE  Fitting'
<1>1. driver.order = o /\ driver # Resting /\ leg' = leg /\ custody' = custody /\ driver' = Resting
  BY DEF LegRefused, LegUnanswered, Driving, Resting, Aside, ChannelUnchanged, SaveAs, CryptoLegs
<1>2. StepFits(o) /\ RowFits(o)
  BY DEF Fitting
<1>3. CASE LegRefused(o)
  <2>1. File(o, "rejected") /\ leg[o]["reserve"] = "refused" /\ driver.step = "reserve"
    BY <1>3 DEF LegRefused, SaveAs, Driving
  <2>2. o \notin Incoming
    BY <1>1, <1>2, <2>1, KindsOf DEF StepFits
  <2> QED BY <1>1, <2>1, <2>2, SaveFits DEF FiledStates
<1>4. CASE LegUnanswered(o, l)
  <2>1. File(o, driver.state) /\ driver.step = l
    BY <1>4 DEF LegUnanswered, SaveAs, Driving
  <2>2. driver.state \in {"reserving", "processing", "releasing"}
    BY <1>1 DEF Consistent, CryptoTypes
  <2>3. /\ o \notin Payouts => driver.state \in {"reserving", "processing"}
        /\ o \in Incoming => driver.state = "processing"
        /\ driver.state # "reserving" /\ o \notin Incoming => MoveDone(o, "reserve")
    BY <1>1, <1>2, <2>1, <2>2, KindsOf DEF StepFits
  <2> QED BY <1>1, <2>1, <2>2, <2>3, SaveFits, KindsOf DEF FiledStates
<1> QED BY <1>3, <1>4

LEMMA PayoutFits ==
  ASSUME Consistent, Fitting, NEW o \in Payouts,
         \/ RecordPayout(o) \/ PostPayout(o) \/ PayoutAnswered(o)
         \/ PayoutUnready(o) \/ RecallPayout(o) \/ PayoutUnanswered(o) \/ PayoutUnclear(o)
         \/ PayoutFailed(o) \/ PayoutConfirmed(o)
  PROVE  Fitting'
<1>1. /\ o \in CryptoOrders /\ driver.order = o /\ driver # Resting
      /\ leg' = leg /\ custody' = custody /\ driver.step \in {"request", "post", "wait", "query"}
  BY DEF RecordPayout, PostPayout, PayoutAnswered, PayoutUnready, RecallPayout, PayoutUnanswered,
         PayoutUnclear, PayoutFailed, PayoutConfirmed, Driving, Resting, Aside, ChannelUnchanged,
         CryptoOrders
<1>2. o \notin Incoming /\ o \notin Conversions /\ MoveDone(o, "reserve")
  BY <1>1, KindsOf DEF Fitting, StepFits
<1>3. \/ \E step \in {"post", "wait", "query", "payout"} : Proceed(o, step, driver.state)
      \/ \E s \in {"unknown", "releasing"} : File(o, s) /\ driver' = Resting
  BY DEF RecordPayout, PostPayout, PayoutAnswered, PayoutUnready, RecallPayout, PayoutUnanswered,
         PayoutUnclear, PayoutFailed, PayoutConfirmed, SaveAs, SaveResolved
<1>4. CASE \E step \in {"post", "wait", "query", "payout"} : Proceed(o, step, driver.state)
  BY <1>1, <1>2, <1>4, ProceedFits DEF Working, Before, CryptoLegs
<1>5. CASE \E s \in {"unknown", "releasing"} : File(o, s) /\ driver' = Resting
  BY <1>1, <1>2, <1>5, SaveFits DEF FiledStates
<1> QED BY <1>3, <1>4, <1>5

LEMMA WholeNext == ASSUME Consistent, Whole, [CryptoNext]_cryptoVars PROVE Whole'
<1>1. Escrowed' /\ Fitting
  BY EscrowedNext DEF Consistent, Whole
<1> SUFFICES Fitting'
  BY <1>1 DEF Whole
<1>2. ASSUME NEW o \in Payouts, PayoutStep(o) PROVE Fitting'
  BY <1>1, <1>2, CommandFits, PayoutFits, AsideFits DEF PayoutStep, CryptoOrders
<1>3. CASE UNCHANGED cryptoVars
  <2>1. UNCHANGED <<filed, driver, leg, custody>>
    BY <1>3 DEF cryptoVars
  <2>2. ASSUME NEW o \in CryptoOrders PROVE InTurn(o)' /\ RowFits(o)' /\ StepFits(o)'
    <3>1. InTurn(o) /\ RowFits(o) /\ StepFits(o)
      BY <1>1, <2>2 DEF Fitting
    <3>2. InTurn(o)'
      BY <2>1, <3>1 DEF InTurn, MoveDone
    <3>3. RowFits(o)' /\ StepFits(o)'
      BY <2>1, <3>1 DEF RowFits, StepFits, MoveDone
    <3> QED BY <3>2, <3>3
  <2> QED BY <2>2 DEF Fitting
<1>4. ASSUME NEW o \in CryptoOrders, PlaceOrder(o) \/ DepositVerified(o) \/ Drive(o) \/ LegRefused(o)
      PROVE  Fitting'
  <2>1. "reserve" \in CryptoLegs
    BY DEF CryptoLegs
  <2> QED BY <1>1, <1>4, <2>1, CommandFits, DriveFits, LegFailsFits
<1>5. ASSUME NEW o \in CryptoOrders, NEW l \in CryptoLegs,
             LedgerStep(o, l) \/ SubmitLeg(o, l) \/ LegDone(o, l) \/ LegUnanswered(o, l)
      PROVE  Fitting'
  BY <1>1, <1>5, LedgerFits, LegDoneFits, LegFailsFits
<1>6. CASE DriverStops
  BY <1>1, <1>6, AsideFits
<1> QED BY <1>2, <1>3, <1>4, <1>5, <1>6 DEF CryptoNext

(* Wherever Process stops, an order that is over leaves nothing in escrow, *)
(* no move but a reservation ever lacks its money, and bought money is     *)
(* handed over only after the money sold for it left (cryptofunds/worker). *)
THEOREM NeverStranded == CryptoSpec => []NothingStranded
<1>1. CryptoInit => Consistent /\ Whole
  BY SoundInit, WholeInit
<1>2. Consistent /\ Whole /\ [CryptoNext]_cryptoVars => (Consistent /\ Whole)'
  BY SoundNext, WholeNext
<1>3. Consistent /\ Whole => NothingStranded
  BY WholeStrandsNothing
<1> QED BY <1>1, <1>2, <1>3, PTL DEF CryptoSpec
=============================================================================
