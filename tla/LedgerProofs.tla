---------------------------- MODULE LedgerProofs ----------------------------
(***************************************************************************)
(* Proofs about Ledger, for any number of processes, operations, accounts  *)
(* and commands.  Ledger's Inductive is preserved by every action; the     *)
(* safety properties are its conjuncts or follow from them.  Then the      *)
(* ledger is shown to implement LedgerPromise, and what a transit account  *)
(* holds to be the sum of the reservations on it.                          *)
(***************************************************************************)
EXTENDS Ledger, SumProofs

(* The legs of a stored command move a positive amount between accounts.   *)
LEMMA LegTypes ==
  ASSUME NEW r \in References, command[r[1]] \in Commands
  PROVE  /\ From(r) \in Accounts /\ To(r) \in Accounts
         /\ command[r[1]].amount \in Nat \ {0}
  BY LedgerAssumption DEF From, To, CommandType

(* Only a settlement or a clearing account may be debited below zero.      *)
LEMMA OverdraftKinds ==
  ASSUME NEW r \in References, command[r[1]] \in Commands, WellFormed(command[r[1]]),
         AllowOverdraft(r), r[2] \in {"commit", "release"} => TwoPhase(r[1])
  PROVE  KindOf[From(r)] \in {"card", "clearing"}
<1>1. CASE KindOf[From(r)] = "clearing"
  BY <1>1
<1>2. CASE command[r[1]].kind = "card_settlement"
  <2>1. ~TwoPhase(r[1])
    BY <1>2 DEF TwoPhase
  <2>2. From(r) = command[r[1]].source
    BY <2>1 DEF From
  <2>3. KindOf[command[r[1]].source] = "card"
    BY <1>2 DEF WellFormed
  <2> QED BY <2>2, <2>3
<1> QED BY <1>1, <1>2 DEF AllowOverdraft

(* What Blnk does with a request: it writes at most the reference asked    *)
(* for, never rewrites one, and debits no protected account below zero.    *)
LEMMA ExecuteEffect ==
  ASSUME NEW r \in References, Execute(r), RowsAreSound, NeverOverdrawn,
         blnk \in [References -> {"none", "APPLIED", "REJECTED", "FOREIGN"}],
         balance \in [Accounts -> Int],
         r[1] \in Keys, state[r[1]] # "absent",
         r[2] \in {"commit", "release"} => TwoPhase(r[1])
  PROVE  /\ blnk' \in [References -> {"none", "APPLIED", "REJECTED", "FOREIGN"}]
         /\ balance' \in [Accounts -> Int]
         /\ \A q \in References : q # r => blnk'[q] = blnk[q]
         /\ blnk[r] # "none" => blnk'[r] = blnk[r]
         /\ \A a \in Accounts :
              KindOf[a] \in {"wallet", "transit", "escrow"} => balance'[a] >= 0
<1>1. command[r[1]] \in Commands /\ WellFormed(command[r[1]])
  BY DEF RowsAreSound
<1>2. /\ From(r) \in Accounts /\ To(r) \in Accounts
      /\ command[r[1]].amount \in Nat \ {0}
  BY <1>1, LegTypes
<1>3. CASE blnk[r] = "none" /\ Covered(r)
  <2>1. blnk' = [blnk EXCEPT ![r] = "APPLIED"]
    BY <1>3 DEF Execute
  <2>2. balance' = [balance EXCEPT ![From(r)] = @ - command[r[1]].amount,
                                   ![To(r)]   = @ + command[r[1]].amount]
    BY <1>3 DEF Execute
  <2>3. balance' \in [Accounts -> Int]
    BY <2>2, <1>2
  <2>4. ASSUME NEW a \in Accounts, KindOf[a] \in {"wallet", "transit", "escrow"}
        PROVE  balance'[a] >= 0
    <3>1. balance[a] >= 0
      BY <2>4 DEF NeverOverdrawn
    <3>2. a = From(r) => balance[a] >= command[r[1]].amount
      BY <2>4, <1>1, <1>3, OverdraftKinds DEF Covered
    <3> QED BY <2>2, <3>1, <3>2, <1>2
  <2> QED BY <1>3, <2>1, <2>3, <2>4
<1>4. CASE blnk[r] = "none" /\ ~Covered(r)
  BY <1>4 DEF Execute, NeverOverdrawn
<1>5. CASE blnk[r] # "none"
  BY <1>5 DEF Execute, NeverOverdrawn
<1> QED BY <1>3, <1>4, <1>5

(* The empty database and an untouched Blnk satisfy the invariant. *)
THEOREM InitInductive == Init => Inductive
<1> SUFFICES ASSUME Init PROVE Inductive
  OBVIOUS
<1> USE LedgerAssumption DEF Init
<1>1. TypeOK
  BY DEF TypeOK, States, WorkerType, Idle, Steps, Results
<1>2. RowsAreSound /\ ClaimsAreBacked
  BY DEF RowsAreSound, ClaimsAreBacked, ClaimBacked, Applied
<1>3. WorkIsLocked /\ AnswersAreTrue
  BY DEF WorkIsLocked, AnswersAreTrue, Idle
<1>4. LegsAreDue
  BY DEF LegsAreDue, LegsDue, Touched, References, Phases
<1>5. NeverOverdrawn
  BY DEF NeverOverdrawn
<1> QED BY <1>1, <1>2, <1>3, <1>4, <1>5 DEF Inductive

(* Rows are changed only while nobody holds the lock. *)
LEMMA SubmitInductive ==
  ASSUME Inductive, NEW c \in Commands, Submit(c) PROVE Inductive'
<1> USE LedgerAssumption DEF Inductive, Submit
<1>1. c.key \in Keys /\ command'[c.key] = c /\ state'[c.key] = "pending"
  BY DEF CommandType, TypeOK
<1>2. \A k \in Keys : k # c.key => command'[k] = command[k] /\ state'[k] = state[k]
  BY DEF TypeOK
<1>3. TypeOK'
  BY DEF TypeOK, States, CommandType
<1>4. RowsAreSound'
  BY <1>1, <1>2 DEF RowsAreSound, TwoPhase
<1>5. WorkIsLocked' /\ AnswersAreTrue'
  BY DEF WorkIsLocked, AnswersAreTrue, Reference, TypeOK
<1>6. LegsAreDue'
  BY <1>1, <1>2 DEF LegsAreDue, LegsDue, Touched, TwoPhase
<1>7. ClaimsAreBacked'
  BY <1>1, <1>2 DEF ClaimsAreBacked, ClaimBacked, Applied, TwoPhase
<1>8. NeverOverdrawn'
  BY DEF NeverOverdrawn
<1> QED BY <1>3, <1>4, <1>5, <1>6, <1>7, <1>8

(* The provider's verdict only decides a reservation that is in the journal. *)
LEMMA ResolveInductive ==
  ASSUME Inductive, NEW k \in Keys, NEW outcome \in DOMAIN Decision, Resolve(k, outcome)
  PROVE  Inductive'
<1> USE LedgerAssumption DEF Inductive, Resolve
<1>1. Decision[outcome] \in {"commit_pending", "release_pending", "provider_unknown"}
  BY DEF Decision
<1>2. state' = [state EXCEPT ![k] = Decision[outcome]]
  OBVIOUS
<1> HIDE DEF Decision
<1>3. TypeOK'
  BY <1>1 DEF TypeOK, States
<1>4. RowsAreSound'
  BY <1>1 DEF RowsAreSound, TwoPhase, TypeOK
<1>5. WorkIsLocked' /\ AnswersAreTrue'
  BY DEF WorkIsLocked, AnswersAreTrue, Reference, TypeOK
<1>6. LegsAreDue'
  BY <1>1 DEF LegsAreDue, LegsDue, Touched, TwoPhase, TypeOK
<1>7. ClaimsAreBacked'
  BY <1>1 DEF ClaimsAreBacked, ClaimBacked, Applied, TwoPhase, TypeOK
<1>8. NeverOverdrawn'
  BY DEF NeverOverdrawn
<1> QED BY <1>3, <1>4, <1>5, <1>6, <1>7, <1>8

(* Process takes the lock and reads a row that is due. *)
LEMMA BeginInductive ==
  ASSUME Inductive, NEW w \in Workers, NEW k \in Keys, Begin(w, k) PROVE Inductive'
<1> USE LedgerAssumption DEF Inductive, Begin
<1>1. PhaseOf(k) \in Phases
  BY DEF PhaseOf, Phases, Runnable
<1>2. <<k, PhaseOf(k)>> \in References
  BY <1>1 DEF References
<1>3. TypeOK'
  BY <1>2 DEF TypeOK, WorkerType, Steps, Results
<1>4. RowsAreSound' /\ LegsAreDue' /\ ClaimsAreBacked' /\ NeverOverdrawn'
  BY DEF RowsAreSound, LegsAreDue, LegsDue, Touched, ClaimsAreBacked, ClaimBacked, Applied, NeverOverdrawn, TwoPhase
<1>5. \A v \in Workers : v # w => worker'[v].step = "idle"
  BY DEF WorkIsLocked, TypeOK
<1>6. worker'[w] = [step |-> "lookup", ref |-> <<k, PhaseOf(k)>>, answer |-> "none"]
  BY DEF TypeOK
<1>7. WorkIsLocked'
  <2>1. PhaseOf(k)' = PhaseOf(k)
    BY DEF PhaseOf, TwoPhase
  <2> QED BY <1>2, <1>5, <1>6, <2>1 DEF WorkIsLocked, Reference
<1>8. AnswersAreTrue'
  BY <1>5, <1>6 DEF AnswersAreTrue
<1> QED BY <1>3, <1>4, <1>7, <1>8

(* A step of Goto changes one process, and of it only the step and the answer. *)
LEMMA GotoEffect ==
  ASSUME TypeOK, NEW w \in Workers, NEW step \in Steps, NEW answer \in Results,
         Goto(w, step, answer)
  PROVE  /\ worker' \in [Workers -> WorkerType]
         /\ worker'[w] = [step |-> step, ref |-> Reference(w), answer |-> answer]
         /\ \A v \in Workers : v # w => worker'[v] = worker[v]
  BY DEF TypeOK, Goto, WorkerType, Reference

(* A step that only moves the process at work on, with the row, Blnk and   *)
(* the late requests as they were.                                         *)
LEMMA GotoInductive ==
  ASSUME Inductive, NEW w \in Workers, worker[w].step # "idle",
         NEW step \in Steps \ {"idle"}, NEW answer \in Results, Goto(w, step, answer),
         UNCHANGED <<command, state, journal, lock, blnk, balance, late>>,
         step = "recheck" => answer \in {"rejected", "unknown"},
         step = "finish" =>
           /\ answer # "none"
           /\ answer = "ok" => blnk[Reference(w)] = "APPLIED"
           /\ answer = "conflict" => blnk[Reference(w)] = "FOREIGN"
  PROVE  Inductive'
<1> USE DEF Inductive, Goto
<1>1. TypeOK'
  BY DEF TypeOK, WorkerType
<1>2. RowsAreSound' /\ LegsAreDue' /\ ClaimsAreBacked' /\ NeverOverdrawn'
  BY DEF RowsAreSound, LegsAreDue, LegsDue, Touched, ClaimsAreBacked, ClaimBacked, Applied, NeverOverdrawn, TwoPhase
<1>3. /\ worker'[w].step = step /\ worker'[w].answer = answer
      /\ \A v \in Workers : v # w => worker'[v] = worker[v]
      /\ \A v \in Workers : Reference(v)' = Reference(v)
      /\ \A k : PhaseOf(k)' = PhaseOf(k)
  BY DEF TypeOK, WorkerType, Reference, PhaseOf, TwoPhase
<1>4. WorkIsLocked'
  BY <1>3 DEF WorkIsLocked
<1>5. AnswersAreTrue'
  BY <1>3 DEF AnswersAreTrue
<1> QED BY <1>1, <1>2, <1>4, <1>5

(* Apply reads "ok" and "conflict" off the transaction Blnk really holds. *)
LEMMA VerdictIsTrue ==
  ASSUME Inductive, NEW w \in Workers, worker[w].step # "idle", blnk[Reference(w)] # "none"
  PROVE  /\ Verdict(Reference(w)) \in Results \ {"none", "unknown"}
         /\ Verdict(Reference(w)) = "ok" <=> blnk[Reference(w)] = "APPLIED"
         /\ Verdict(Reference(w)) = "conflict" <=> blnk[Reference(w)] = "FOREIGN"
         /\ Verdict(Reference(w)) = "rejected" <=> blnk[Reference(w)] = "REJECTED"
<1>1. blnk[Reference(w)] \in {"APPLIED", "REJECTED", "FOREIGN"}
  BY DEF Inductive, TypeOK, WorkIsLocked
<1> QED BY <1>1 DEF Verdict, Results

(* The first Lookup keeps the invariant. *)
LEMMA LookupInductive ==
  ASSUME Inductive, NEW w \in Workers, Lookup(w) PROVE Inductive'
<1> USE DEF Lookup
<1>1. CASE blnk[Reference(w)] = "none"
  BY <1>1, GotoInductive DEF Steps, Results
<1>2. CASE blnk[Reference(w)] # "none"
  BY <1>2, VerdictIsTrue, GotoInductive DEF Steps, Results
<1> QED BY <1>1, <1>2

(* A Lookup that fails keeps the invariant: its answer says nothing. *)
LEMMA LookupFailsInductive ==
  ASSUME Inductive, NEW w \in Workers, LookupFails(w) PROVE Inductive'
  BY GotoInductive DEF LookupFails, Steps, Results

(* The second Lookup keeps the invariant: what it finds is what Blnk holds. *)
LEMMA RecheckInductive ==
  ASSUME Inductive, NEW w \in Workers, Recheck(w) PROVE Inductive'
<1> USE DEF Recheck
<1>1. CASE blnk[Reference(w)] = "none"
  <2>1. worker[w].answer \in {"rejected", "unknown"}
    BY DEF Inductive, AnswersAreTrue
  <2> QED BY <1>1, <2>1, GotoInductive DEF Steps, Results
<1>2. CASE blnk[Reference(w)] # "none"
  BY <1>2, VerdictIsTrue, GotoInductive DEF Steps, Results
<1> QED BY <1>1, <1>2

(* A crash frees the lock and leaves rows, journal and Blnk alone. *)
LEMMA CrashInductive ==
  ASSUME Inductive, NEW w \in Workers, Crash(w) PROVE Inductive'
<1> USE LedgerAssumption DEF Inductive, Crash
<1>1. TypeOK'
  BY DEF TypeOK, WorkerType, Idle, Steps, Results
<1>2. RowsAreSound' /\ LegsAreDue' /\ ClaimsAreBacked' /\ NeverOverdrawn'
  BY DEF RowsAreSound, LegsAreDue, LegsDue, Touched, ClaimsAreBacked, ClaimBacked, Applied, NeverOverdrawn, TwoPhase
<1>3. \A v \in Workers : worker'[v].step = "idle"
  BY DEF WorkIsLocked, TypeOK, Idle
<1>4. WorkIsLocked' /\ AnswersAreTrue'
  BY <1>3 DEF WorkIsLocked, AnswersAreTrue
<1> QED BY <1>1, <1>2, <1>4

(* A leg Blnk may newly have seen is the one its row's state calls for.    *)
LEMMA LegsStayDue ==
  ASSUME Inductive, NEW r \in References,
         state[r[1]] \in Runnable, r[2] = PhaseOf(r[1]),
         UNCHANGED <<command, state, journal>>,
         \A q \in References : q # r /\ Touched(q)' => Touched(q)
  PROVE  LegsAreDue'
<1> USE DEF Inductive
<1> SUFFICES ASSUME NEW k \in Keys PROVE LegsDue(k)'
  BY DEF LegsAreDue, LegsDue
<1>1. \A ph \in Phases : <<k, ph>> \in References
  BY DEF References
<1>2. CASE k # r[1]
  <2>1. \A ph \in Phases : Touched(<<k, ph>>)' => Touched(<<k, ph>>)
    BY <1>1, <1>2
  <2> QED BY <2>1 DEF LegsAreDue, LegsDue, Phases, TwoPhase
<1>3. CASE k = r[1]
  <2>1. \A ph \in Phases : ph # PhaseOf(k) /\ Touched(<<k, ph>>)' => Touched(<<k, ph>>)
    BY <1>1, <1>3
  <2>2. CASE state[k] = "pending"
    BY <1>3, <2>1, <2>2 DEF LegsAreDue, LegsDue, PhaseOf, Phases, TwoPhase
  <2>3. CASE state[k] = "commit_pending"
    BY <1>3, <2>1, <2>3 DEF LegsAreDue, LegsDue, PhaseOf, Phases, TwoPhase, ClaimsAreBacked, ClaimBacked, RowsAreSound
  <2>4. CASE state[k] = "release_pending"
    BY <1>3, <2>1, <2>4 DEF LegsAreDue, LegsDue, PhaseOf, Phases, TwoPhase, ClaimsAreBacked, ClaimBacked, RowsAreSound
  <2> QED BY <1>3, <2>2, <2>3, <2>4 DEF Runnable
<1> QED BY <1>2, <1>3

(* The request of the process at work, whatever comes of it: Blnk may      *)
(* write its reference, or keep the request for later.                     *)
LEMMA RequestInductive ==
  ASSUME Inductive, NEW w \in Workers, worker[w].step = "post",
         \/ Execute(Reference(w)) /\ UNCHANGED late
         \/ /\ UNCHANGED <<blnk, balance>>
            /\ \/ UNCHANGED late
               \/ /\ late[Reference(w)] < MaxLate
                  /\ late' = [late EXCEPT ![Reference(w)] = @ + 1],
         NEW step \in {"recheck", "finish"}, NEW answer \in Results, Goto(w, step, answer),
         UNCHANGED <<command, state, journal, lock>>,
         step = "recheck" => answer \in {"rejected", "unknown"},
         step = "finish" =>
           /\ answer \notin {"none", "conflict"}
           /\ answer = "ok" => blnk'[Reference(w)] = "APPLIED"
  PROVE  Inductive'
<1> DEFINE r == Reference(w)
<1> USE LedgerAssumption DEF Inductive
<1>1. /\ r \in References /\ r[1] \in Keys
      /\ state[r[1]] \in Runnable /\ r[2] = PhaseOf(r[1]) /\ lock = w
  BY DEF WorkIsLocked, References
<1>2. r[2] \in {"commit", "release"} => TwoPhase(r[1])
  BY <1>1 DEF PhaseOf, Runnable, RowsAreSound
<1>3. blnk \in [References -> {"none", "APPLIED", "REJECTED", "FOREIGN"}]
      /\ balance \in [Accounts -> Int]
  BY DEF TypeOK
<1>4. /\ blnk' \in [References -> {"none", "APPLIED", "REJECTED", "FOREIGN"}]
      /\ balance' \in [Accounts -> Int]
      /\ \A q \in References : q # r => blnk'[q] = blnk[q]
      /\ blnk[r] # "none" => blnk'[r] = blnk[r]
      /\ \A a \in Accounts :
           KindOf[a] \in {"wallet", "transit", "escrow"} => balance'[a] >= 0
  <2>1. CASE Execute(r)
    <3>1. state[r[1]] # "absent"
      BY <1>1 DEF Runnable
    <3> QED BY <1>1, <1>2, <1>3, <2>1, <3>1, ExecuteEffect
  <2>2. CASE UNCHANGED <<blnk, balance>>
    BY <1>3, <2>2 DEF NeverOverdrawn
  <2> QED BY <2>1, <2>2
<1>5. /\ late' \in [References -> 0..MaxLate]
      /\ \A q \in References : q # r => late'[q] = late[q]
  BY <1>1 DEF TypeOK
<1>6. TypeOK'
  <2>1. worker' \in [Workers -> WorkerType]
    BY GotoEffect DEF Steps
  <2> QED BY <2>1, <1>4, <1>5 DEF TypeOK
<1>7. RowsAreSound' /\ NeverOverdrawn'
  BY <1>4 DEF RowsAreSound, NeverOverdrawn, TwoPhase
<1>8. ClaimsAreBacked'
  <2>1. Applied \subseteq Applied'
    BY <1>4 DEF Applied
  <2> QED BY <2>1 DEF ClaimsAreBacked, ClaimBacked, TwoPhase
<1>9. LegsAreDue'
  <2>1. \A q \in References : q # r /\ Touched(q)' => Touched(q)
    BY <1>4, <1>5 DEF Touched
  <2> QED BY <1>1, <2>1, LegsStayDue
<1>10. /\ worker'[w].step = step /\ worker'[w].answer = answer
       /\ \A v \in Workers : v # w => worker'[v].step = "idle"
       /\ worker'[w].ref = worker[w].ref
       /\ \A k : PhaseOf(k)' = PhaseOf(k)
  <2>1. \A v \in Workers : v # w => worker'[v].step = "idle"
    BY <1>1 DEF TypeOK, Goto, WorkIsLocked
  <2>2. \A k : PhaseOf(k)' = PhaseOf(k)
    BY DEF PhaseOf, TwoPhase
  <2> QED BY <2>1, <2>2 DEF TypeOK, WorkerType, Goto
<1>11. WorkIsLocked'
  BY <1>1, <1>10 DEF WorkIsLocked, Reference
<1>12. AnswersAreTrue'
  BY <1>10 DEF AnswersAreTrue, Reference
<1> QED BY <1>6, <1>7, <1>8, <1>9, <1>11, <1>12

(* A POST that answers keeps the invariant. *)
LEMMA PostInductive ==
  ASSUME Inductive, NEW w \in Workers, Post(w) PROVE Inductive'
<1> DEFINE r == Reference(w)
<1>1. worker[w].step = "post" /\ Execute(r) /\ UNCHANGED <<command, state, journal, lock, late>>
  BY DEF Post
<1>2. CASE blnk[r] # "none"
  <2>1. Goto(w, "recheck", "unknown")
    BY <1>2 DEF Post
  <2> QED BY <1>1, <2>1, RequestInductive DEF Results
<1>3. CASE blnk[r] = "none" /\ Covered(r)
  <2>1. Goto(w, "finish", "ok")
    BY <1>3 DEF Post
  <2>2. r \in References /\ blnk \in [References -> {"none", "APPLIED", "REJECTED", "FOREIGN"}]
    BY <1>1 DEF Inductive, TypeOK, WorkIsLocked
  <2>3. blnk'[r] = "APPLIED"
    BY <1>1, <1>3, <2>2 DEF Execute
  <2> QED BY <1>1, <2>1, <2>3, RequestInductive DEF Results
<1>4. CASE blnk[r] = "none" /\ ~Covered(r)
  <2>1. Goto(w, "recheck", "rejected")
    BY <1>4 DEF Post
  <2> QED BY <1>1, <2>1, RequestInductive DEF Results
<1> QED BY <1>2, <1>3, <1>4

(* A POST whose response is lost keeps the invariant. *)
LEMMA PostResponseLostInductive ==
  ASSUME Inductive, NEW w \in Workers, PostResponseLost(w) PROVE Inductive'
  BY RequestInductive DEF PostResponseLost, Results

(* A POST the client stops waiting for keeps the invariant. *)
LEMMA PostAbandonedInductive ==
  ASSUME Inductive, NEW w \in Workers, PostAbandoned(w) PROVE Inductive'
  BY RequestInductive DEF PostAbandoned, Results

(* An abandoned request that Blnk executes late keeps the invariant. *)
LEMMA LateExecutionInductive ==
  ASSUME Inductive, NEW r \in References, LateExecution(r) PROVE Inductive'
<1> USE LedgerAssumption DEF Inductive, LateExecution
<1>1. Touched(r)
  BY DEF Touched
<1>2. /\ r[1] \in Keys /\ state[r[1]] # "absent"
      /\ r[2] \in {"commit", "release"} => TwoPhase(r[1])
  <2>1. PICK k \in Keys, ph \in Phases : r = <<k, ph>>
    BY DEF References
  <2>2. \/ Touched(<<k, "post">>) /\ ph = "post"
        \/ Touched(<<k, "reserve">>) /\ ph = "reserve"
        \/ Touched(<<k, "commit">>) /\ ph = "commit"
        \/ Touched(<<k, "release">>) /\ ph = "release"
    BY <1>1, <2>1 DEF Phases
  <2> QED BY <2>1, <2>2 DEF LegsAreDue, LegsDue
<1>3. /\ blnk' \in [References -> {"none", "APPLIED", "REJECTED", "FOREIGN"}]
      /\ balance' \in [Accounts -> Int]
      /\ \A q \in References : q # r => blnk'[q] = blnk[q]
      /\ blnk[r] # "none" => blnk'[r] = blnk[r]
      /\ \A a \in Accounts :
           KindOf[a] \in {"wallet", "transit", "escrow"} => balance'[a] >= 0
  BY <1>2, ExecuteEffect DEF TypeOK
<1>4. /\ late' \in [References -> 0..MaxLate]
      /\ \A q \in References : q # r => late'[q] = late[q]
  BY DEF TypeOK
<1>5. TypeOK'
  BY <1>3, <1>4 DEF TypeOK
<1>6. RowsAreSound' /\ NeverOverdrawn' /\ WorkIsLocked'
  BY <1>3 DEF RowsAreSound, NeverOverdrawn, WorkIsLocked, Reference, PhaseOf, TwoPhase
<1>7. ClaimsAreBacked'
  <2>1. Applied \subseteq Applied'
    BY <1>3 DEF Applied
  <2> QED BY <2>1 DEF ClaimsAreBacked, ClaimBacked, TwoPhase
<1>8. LegsAreDue'
  <2>1. \A q \in References : Touched(q)' => Touched(q)
    BY <1>1, <1>3, <1>4 DEF Touched
  <2>2. \A k \in Keys, ph \in Phases : Touched(<<k, ph>>)' => Touched(<<k, ph>>)
    BY <2>1 DEF References
  <2> QED BY <2>2 DEF LegsAreDue, LegsDue, Phases, TwoPhase
<1>9. AnswersAreTrue'
  <2>1. \A q \in References : blnk[q] # "none" => blnk'[q] = blnk[q]
    BY <1>3
  <2>2. \A w \in Workers : worker[w].step = "finish" => Reference(w) \in References
    BY DEF WorkIsLocked
  <2>3. \A w \in Workers : worker'[w] = worker[w] /\ Reference(w)' = Reference(w)
    BY DEF Reference
  <2> QED BY <2>1, <2>2, <2>3 DEF AnswersAreTrue
<1> QED BY <1>5, <1>6, <1>7, <1>8, <1>9

(* What an attempt makes of the state of its row. *)
LEMMA StateAfterEffect ==
  ASSUME Inductive, NEW w \in Workers, worker[w].step = "finish"
  PROVE  LET r == Reference(w)
             k == r[1]
             answer == worker[w].answer
             after == StateAfter(r, answer)
         IN  /\ answer = "ok" => after = NextState(k)
             /\ answer = "unknown" => after = state[k]
             /\ answer = "conflict" => after = "review_required"
             /\ answer = "rejected" => \/ after = "review_required"
                                       \/ after = "rejected" /\ state[k] = "pending"
             /\ answer \in {"ok", "unknown", "conflict", "rejected"}
<1> DEFINE r == Reference(w)
<1>1. worker[w].answer \in {"ok", "unknown", "conflict", "rejected"}
  BY DEF Inductive, TypeOK, WorkerType, Results, AnswersAreTrue
<1>2. /\ r[1] \in Keys /\ state[r[1]] \in Runnable /\ r[2] = PhaseOf(r[1])
  BY DEF Inductive, WorkIsLocked, References
<1>3. Refusable(r) => state[r[1]] = "pending"
  <2>1. CASE r[2] = "reserve"
    BY <1>2, <2>1 DEF PhaseOf, Runnable
  <2>2. CASE command[r[1]].kind = "crypto_move"
    <3>1. ~TwoPhase(r[1])
      BY <2>2 DEF TwoPhase
    <3> QED BY <1>2, <3>1 DEF Runnable, Inductive, RowsAreSound
  <2> QED BY <2>1, <2>2 DEF Refusable
<1> QED BY <1>1, <1>3 DEF StateAfter

(* The commit of an attempt keeps the invariant: the journal gains only what *)
(* Blnk holds, and the row moves on only when its leg is in the journal.      *)
LEMMA FinishInductive ==
  ASSUME Inductive, NEW w \in Workers, Finish(w) PROVE Inductive'
<1> USE LedgerAssumption DEF Inductive
<1>1. PICK k \in Keys, ph \in Phases, answer \in {"ok", "unknown", "conflict", "rejected"} :
        /\ Reference(w) = <<k, ph>> /\ answer = worker[w].answer
        /\ ph = PhaseOf(k) /\ state[k] \in Runnable /\ lock = w
  BY DEF Finish, WorkIsLocked, References, AnswersAreTrue, TypeOK, WorkerType, Results
<1> DEFINE r == <<k, ph>>
<1>2. PICK after :
        /\ answer = "ok" => after = NextState(k)
        /\ answer = "unknown" => after = state[k]
        /\ answer = "conflict" => after = "review_required"
        /\ answer = "rejected" => \/ after = "review_required"
                                  \/ after = "rejected" /\ state[k] = "pending"
        /\ after = StateAfter(r, answer)
  BY <1>1, StateAfterEffect DEF Finish
<1>3. /\ state' = [state EXCEPT ![k] = after]
      /\ journal' = IF answer = "ok" THEN journal \cup {r} ELSE journal
      /\ UNCHANGED <<command, blnk, balance, late>>
  BY <1>1, <1>2 DEF Finish
<1>4. r \in References /\ (answer = "ok" => r \in Applied)
  BY <1>1 DEF AnswersAreTrue, Applied, References, Finish
<1>5. NextState(k) \in {"awaiting_provider", "applied", "released"}
  BY <1>1 DEF NextState, Runnable
<1>6. after \in States \ {"absent"}
  BY <1>1, <1>2, <1>5 DEF States, Runnable
<1>7. /\ state'[k] = after
      /\ \A j \in Keys : j # k => state'[j] = state[j]
      /\ journal \subseteq journal'
  BY <1>1, <1>3 DEF TypeOK
<1>8. TypeOK'
  <2>1. worker' \in [Workers -> WorkerType]
    BY DEF Finish, TypeOK, WorkerType, Idle, Steps, Results
  <2> QED BY <1>1, <1>3, <1>4, <1>6, <2>1 DEF TypeOK, Finish
<1>9. \A v \in Workers : worker'[v].step = "idle"
  BY <1>1 DEF Finish, WorkIsLocked, TypeOK, Idle
<1>10. WorkIsLocked' /\ AnswersAreTrue' /\ NeverOverdrawn'
  BY <1>3, <1>9 DEF WorkIsLocked, AnswersAreTrue, NeverOverdrawn
<1>11. NextState(k) = "awaiting_provider" \/ NextState(k) = "released" => TwoPhase(k)
  BY <1>1 DEF NextState, Runnable, RowsAreSound
<1>12. RowsAreSound'
  BY <1>1, <1>2, <1>3, <1>5, <1>6, <1>7, <1>11 DEF RowsAreSound, Runnable, TwoPhase
<1>13. ClaimsAreBacked'
  <2>1. journal' \subseteq Applied'
    BY <1>3, <1>4 DEF ClaimsAreBacked, ClaimBacked, Applied
  <2>2. \A j \in Keys : j # k => ClaimBacked(j)'
    BY <1>3, <1>7 DEF ClaimsAreBacked, ClaimBacked, TwoPhase
  <2>3. ClaimBacked(k)'
    <3>1. CASE answer = "ok" /\ state[k] = "pending"
      BY <1>1, <1>2, <1>3, <1>7, <3>1 DEF PhaseOf, NextState, TwoPhase, ClaimsAreBacked, ClaimBacked
    <3>2. CASE answer = "ok" /\ state[k] = "commit_pending"
      BY <1>1, <1>2, <1>3, <1>7, <3>2 DEF PhaseOf, NextState, TwoPhase, ClaimsAreBacked, ClaimBacked, RowsAreSound
    <3>3. CASE answer = "ok" /\ state[k] = "release_pending"
      BY <1>1, <1>2, <1>3, <1>7, <3>3 DEF PhaseOf, NextState, TwoPhase, ClaimsAreBacked, ClaimBacked
    <3>4. CASE answer # "ok"
      BY <1>1, <1>2, <1>3, <1>7, <3>4 DEF ClaimsAreBacked, ClaimBacked, TwoPhase, Runnable
    <3> QED BY <1>1, <3>1, <3>2, <3>3, <3>4 DEF Runnable
  <2> QED BY <2>1, <2>2, <2>3 DEF ClaimsAreBacked, ClaimBacked
<1>14. LegsAreDue'
  <2>1. \A q \in References : Touched(q)' <=> Touched(q)
    BY <1>3 DEF Touched
  <2>2. \A j \in Keys, p \in Phases : Touched(<<j, p>>)' <=> Touched(<<j, p>>)
    BY <2>1 DEF References
  <2>3. \A j \in Keys : j # k => LegsDue(j)'
    BY <1>3, <1>7, <2>2 DEF LegsAreDue, LegsDue, TwoPhase, Phases
  <2>4. LegsDue(k)'
    <3>1. after \in {"commit_pending", "applied", "review_required"}
            \/ state[k] # "commit_pending"
      BY <1>2, <1>5 DEF NextState
    <3>2. after \in {"release_pending", "released", "review_required"}
            \/ state[k] # "release_pending"
      BY <1>2, <1>5 DEF NextState
    <3> QED BY <1>1, <1>3, <1>6, <1>7, <2>2, <3>1, <3>2 DEF LegsAreDue, LegsDue, TwoPhase, Phases, Runnable
  <2> QED BY <2>3, <2>4 DEF LegsAreDue, LegsDue
<1> QED BY <1>8, <1>10, <1>12, <1>13, <1>14

(* Every step keeps the invariant. *)
THEOREM NextInductive == Inductive /\ [Next]_vars => Inductive'
<1> SUFFICES ASSUME Inductive, [Next]_vars PROVE Inductive'
  OBVIOUS
<1>1. ASSUME NEW c \in Commands, Submit(c) PROVE Inductive'
  BY <1>1, SubmitInductive
<1>2. ASSUME NEW k \in Keys, NEW outcome \in DOMAIN Decision, Resolve(k, outcome)
      PROVE Inductive'
  BY <1>2, ResolveInductive
<1>3. ASSUME NEW w \in Workers, NEW k \in Keys, Begin(w, k) PROVE Inductive'
  BY <1>3, BeginInductive
<1>4. ASSUME NEW w \in Workers, Continue(w) PROVE Inductive'
  BY <1>4, LookupInductive, LookupFailsInductive, PostInductive, PostResponseLostInductive,
     PostAbandonedInductive, RecheckInductive, FinishInductive, CrashInductive DEF Continue
<1>5. ASSUME NEW r \in References, LateExecution(r) PROVE Inductive'
  BY <1>5, LateExecutionInductive
<1>6. CASE UNCHANGED vars
  <2> USE <1>6 DEF vars, Inductive
  <2>1. TypeOK' /\ RowsAreSound' /\ NeverOverdrawn'
    BY DEF TypeOK, RowsAreSound, NeverOverdrawn, TwoPhase
  <2>2. LegsAreDue' /\ ClaimsAreBacked'
    BY DEF LegsAreDue, LegsDue, Touched, ClaimsAreBacked, ClaimBacked, Applied, TwoPhase
  <2>3. \A k : PhaseOf(k)' = PhaseOf(k)
    BY DEF PhaseOf, TwoPhase
  <2>4. WorkIsLocked' /\ AnswersAreTrue'
    BY <2>3 DEF WorkIsLocked, AnswersAreTrue, Reference
  <2> QED BY <2>1, <2>2, <2>4
<1> QED BY <1>1, <1>2, <1>3, <1>4, <1>5, <1>6 DEF Next

(* The invariant holds of every state the ledger reaches. *)
THEOREM AlwaysInductive == Spec => []Inductive
  BY InitInductive, NextInductive, PTL DEF Spec

(* Every variable keeps its type. *)
THEOREM TypeCorrect == Spec => []TypeOK
<1>1. Inductive => TypeOK
  BY DEF Inductive
<1> QED BY <1>1, AlwaysInductive, PTL

(* The journal and the states are never ahead of Blnk (Process, service.go). *)
THEOREM ClaimsBacked == Spec => []ClaimsAreBacked
<1>1. Inductive => ClaimsAreBacked
  BY DEF Inductive
<1> QED BY <1>1, AlwaysInductive, PTL

(* A reservation is committed or released, never both, never unreserved. *)
THEOREM SpentOnce == Spec => []OneOutcome
<1>1. Inductive => OneOutcome
  BY DEF Inductive, LegsAreDue, LegsDue, ClaimsAreBacked, OneOutcome, Applied, Touched
<1> QED BY <1>1, AlwaysInductive, PTL

(* No customer account is overdrawn by racing transfers. *)
THEOREM NoOverdraft == Spec => []NeverOverdrawn
<1>1. Inductive => NeverOverdrawn
  BY DEF Inductive
<1> QED BY <1>1, AlwaysInductive, PTL

(* A decision and a settled operation are never reversed. *)
THEOREM DecisionsAreFinal == Spec => DecisionIsFinal
<1> DEFINE Final == \A k \in Keys :
      /\ state[k] = "commit_pending" => state'[k] \in {"commit_pending", "applied", "review_required"}
      /\ state[k] = "release_pending" => state'[k] \in {"release_pending", "released", "review_required"}
      /\ state[k] \in Settled \cup {"review_required"} => state'[k] = state[k]
<1>1. Inductive /\ [Next]_vars => Final
  <2> SUFFICES ASSUME Inductive, [Next]_vars PROVE Final
    OBVIOUS
  <2> USE DEF Settled, Inductive, TypeOK
  <2>1. CASE \E c \in Commands : Submit(c)
    BY <2>1 DEF Submit
  <2>2. CASE \E k \in Keys, outcome \in DOMAIN Decision : Resolve(k, outcome)
    BY <2>2 DEF Resolve
  <2>3. ASSUME NEW w \in Workers, Finish(w) PROVE Final
    <3>1. PICK k \in Keys :
            \E after : /\ state' = [state EXCEPT ![k] = after]
                      /\ state[k] \in Runnable
                      /\ \/ after \in {NextState(k), state[k], "review_required"}
                         \/ after = "rejected" /\ state[k] = "pending"
      BY <2>3, StateAfterEffect DEF Finish, WorkIsLocked, References
    <3>2. PICK after : /\ state' = [state EXCEPT ![k] = after]
                       /\ state[k] \in Runnable
                       /\ \/ after \in {NextState(k), state[k], "review_required"}
                          \/ after = "rejected" /\ state[k] = "pending"
      BY <3>1
    <3> QED BY <3>2 DEF NextState, Runnable
  <2>4. CASE UNCHANGED state
    BY <2>4
  <2>5. ASSUME NEW w \in Workers, Continue(w), ~Finish(w) PROVE UNCHANGED state
    BY <2>5 DEF Continue, Lookup, LookupFails, Post, PostResponseLost, PostAbandoned, Recheck, Crash
  <2> QED BY <2>1, <2>2, <2>3, <2>4, <2>5 DEF Next, Begin, LateExecution, vars
<1>2. Final => [Final]_vars
  OBVIOUS
<1> QED BY <1>1, AlwaysInductive, PTL DEF Spec, DecisionIsFinal

-----------------------------------------------------------------------------
(* With no late requests (MaxLate = 0), the invariant extends to what a    *)
(* refusal says of Blnk.                                                   *)

(* A request leaves the row at work as the only possible mismatch. *)
LEMMA PromptRequest ==
  ASSUME PromptInductive, NEW w \in Workers, worker[w].step = "post",
         NEW step \in {"recheck", "finish"}, NEW answer \in Results, Goto(w, step, answer),
         UNCHANGED <<command, state, journal>>,
         \A q \in References : q # Reference(w) => blnk'[q] = blnk[q],
         answer = "rejected" => blnk'[Reference(w)] # "APPLIED"
  PROVE  RefusalsAreTrue' /\ RejectedMovesNothing' /\ MismatchIsPending'
<1> USE DEF PromptInductive, Inductive
<1>1. PICK r \in References : /\ r = Reference(w) /\ r[1] \in Keys
                              /\ state[r[1]] \in Runnable /\ r[2] = PhaseOf(r[1]) /\ lock = w
  BY DEF WorkIsLocked, References
<1>2. \A k : PhaseOf(k)' = PhaseOf(k)
  BY DEF PhaseOf, TwoPhase
<1>3. RejectedMovesNothing'
  <2>1. \A k \in Keys, ph \in Phases : state[k] = "rejected" => <<k, ph>> # r
    BY <1>1 DEF Runnable
  <2> QED BY <1>1, <2>1 DEF RejectedMovesNothing, Applied, References
<1>4. MismatchIsPending'
  BY <1>1, <1>2 DEF MismatchIsPending, Applied
<1>5. RefusalsAreTrue'
  <2>1. \A v \in Workers : v # w => worker[v].step = "idle"
    BY <1>1 DEF WorkIsLocked
  <2>2. /\ worker'[w] = [step |-> step, ref |-> Reference(w), answer |-> answer]
        /\ \A v \in Workers : v # w => worker'[v] = worker[v]
    BY GotoEffect DEF Steps
  <2> QED BY <1>1, <2>1, <2>2 DEF RefusalsAreTrue, Reference
<1> QED BY <1>3, <1>4, <1>5

(* A finished attempt leaves no mismatch behind, and refuses only what     *)
(* Blnk has not applied.                                                   *)
LEMMA PromptFinish ==
  ASSUME PromptInductive, NEW w \in Workers, Finish(w)
  PROVE  RefusalsAreTrue' /\ RejectedMovesNothing' /\ MismatchIsPending'
<1> USE DEF PromptInductive, Inductive
<1>1. PICK k \in Keys, ph \in Phases, answer \in {"ok", "unknown", "conflict", "rejected"} :
        /\ Reference(w) = <<k, ph>> /\ answer = worker[w].answer
        /\ ph = PhaseOf(k) /\ state[k] \in Runnable /\ lock = w
  BY DEF Finish, WorkIsLocked, References, AnswersAreTrue, TypeOK, WorkerType, Results
<1> DEFINE r == <<k, ph>>
<1>2. PICK after :
        /\ answer = "ok" => after = NextState(k)
        /\ answer = "unknown" => after = state[k]
        /\ answer = "conflict" => after = "review_required"
        /\ answer = "rejected" => \/ after = "review_required"
                                  \/ after = "rejected" /\ state[k] = "pending"
        /\ after = StateAfter(r, answer)
  BY <1>1, StateAfterEffect DEF Finish
<1>3. /\ state' = [state EXCEPT ![k] = after]
      /\ journal' = IF answer = "ok" THEN journal \cup {r} ELSE journal
      /\ UNCHANGED <<command, blnk, balance, late>>
  BY <1>1, <1>2 DEF Finish
<1>4. /\ answer = "conflict" => r \notin Applied
      /\ answer = "rejected" => r \notin Applied
  BY <1>1 DEF AnswersAreTrue, RefusalsAreTrue, Applied, Finish
<1>5. NextState(k) \in {"awaiting_provider", "applied", "released"}
  BY <1>1 DEF NextState, Runnable
<1>6. /\ state'[k] = after
      /\ \A j \in Keys : j # k => state'[j] = state[j]
  BY <1>1, <1>3 DEF TypeOK
<1>7. RefusalsAreTrue'
  <2>1. \A v \in Workers : worker'[v].step = "idle"
    BY <1>1 DEF Finish, WorkIsLocked, TypeOK, Idle
  <2> QED BY <2>1 DEF RefusalsAreTrue
<1>8. \A q \in Applied \ journal : q[1] = k => q = r
  BY <1>1 DEF MismatchIsPending, Applied, References
<1>9. RejectedMovesNothing'
  <2> SUFFICES ASSUME NEW j \in Keys, NEW p \in Phases, state'[j] = "rejected",
                      <<j, p>> \in Applied
               PROVE  FALSE
    BY <1>3 DEF RejectedMovesNothing, Applied
  <2>1. CASE j # k
    BY <1>6, <2>1 DEF RejectedMovesNothing
  <2>2. CASE j = k
    <3>1. answer = "rejected" /\ state[k] = "pending"
      BY <1>1, <1>2, <1>5, <1>6, <2>2 DEF Runnable
    <3>2. Touched(<<k, p>>)
      BY <2>2 DEF Touched, Applied
    <3>3. p = ph
      BY <1>1, <3>1, <3>2 DEF LegsAreDue, LegsDue, PhaseOf, Phases
    <3> QED BY <1>4, <2>2, <3>1, <3>3
  <2> QED BY <2>1, <2>2
<1>10. MismatchIsPending'
  <2> SUFFICES ASSUME NEW q \in Applied \ journal, q \notin journal'
               PROVE  state'[q[1]] \in Runnable /\ q[2] = PhaseOf(q[1])'
    BY <1>3 DEF MismatchIsPending, Applied
  <2>1. q[1] \in Keys /\ state[q[1]] \in Runnable /\ q[2] = PhaseOf(q[1])
    BY DEF MismatchIsPending, Applied, References
  <2>2. state'[q[1]] = state[q[1]]
    <3>1. CASE q[1] # k
      BY <1>6, <2>1, <3>1
    <3>2. CASE q[1] = k
      <4>1. answer = "unknown"
        BY <1>1, <1>3, <1>4, <1>8, <3>2
      <4> QED BY <1>2, <1>6, <3>2, <4>1
    <3> QED BY <3>1, <3>2
  <2> QED BY <1>3, <2>1, <2>2 DEF PhaseOf, TwoPhase
<1> QED BY <1>7, <1>9, <1>10

(* Every step preserves the extended invariant. *)
THEOREM NextPrompt ==
  ASSUME MaxLate = 0, PromptInductive, [Next]_vars PROVE PromptInductive'
<1> USE DEF PromptInductive
<1>1. Inductive'
  BY NextInductive
<1>2. late \in [References -> {0}]
  BY DEF Inductive, TypeOK
<1> DEFINE Goal == RefusalsAreTrue' /\ RejectedMovesNothing' /\ MismatchIsPending'
<1>3. ASSUME NEW c \in Commands, Submit(c) PROVE Goal
  <2>1. c.key \in Keys
    BY LedgerAssumption DEF CommandType
  <2>2. /\ \A k \in Keys : k # c.key => state'[k] = state[k] /\ command'[k] = command[k]
        /\ state[c.key] = "absent" /\ state'[c.key] = "pending"
        /\ UNCHANGED <<journal, worker, blnk>>
    BY <1>3, <2>1 DEF Submit, Inductive, TypeOK
  <2>3. \A q \in Applied \ journal : q[1] \in Keys /\ q[1] # c.key
    BY <2>2 DEF MismatchIsPending, Applied, References, Runnable
  <2>4. MismatchIsPending'
    <3>1. \A q \in Applied \ journal : PhaseOf(q[1])' = PhaseOf(q[1])
      BY <2>2, <2>3 DEF PhaseOf, TwoPhase
    <3> QED BY <2>2, <2>3, <3>1 DEF MismatchIsPending, Applied
  <2> QED BY <2>2, <2>4 DEF RefusalsAreTrue, RejectedMovesNothing, Applied, Reference
<1>4. ASSUME NEW k \in Keys, NEW outcome \in DOMAIN Decision, Resolve(k, outcome) PROVE Goal
  <2>1. Decision[outcome] # "rejected"
    BY DEF Decision
  <2>2. /\ state'[k] = Decision[outcome] /\ state[k] \notin Runnable
        /\ \A j \in Keys : j # k => state'[j] = state[j]
        /\ UNCHANGED <<command, journal, worker, blnk>>
    BY <1>4 DEF Resolve, Inductive, TypeOK, Runnable
  <2>3. \A q \in Applied \ journal : q[1] \in Keys /\ q[1] # k
    BY <2>2 DEF MismatchIsPending, Applied, References
  <2>4. MismatchIsPending'
    <3>1. \A q \in Applied \ journal : PhaseOf(q[1])' = PhaseOf(q[1])
      BY <2>2, <2>3 DEF PhaseOf, TwoPhase
    <3> QED BY <2>2, <2>3, <3>1 DEF MismatchIsPending, Applied
  <2> QED BY <2>1, <2>2, <2>4 DEF RefusalsAreTrue, RejectedMovesNothing, Applied, Reference
<1>5. ASSUME UNCHANGED <<command, state, journal, blnk>>, RefusalsAreTrue' PROVE Goal
  BY <1>5 DEF RejectedMovesNothing, MismatchIsPending, Applied, PhaseOf, TwoPhase
<1>6. ASSUME NEW w \in Workers, NEW k \in Keys, Begin(w, k) PROVE Goal
  <2>1. \A v \in Workers :
          worker'[v] = worker[v] \/ worker'[v].step = "lookup"
    BY <1>6 DEF Begin, Inductive, TypeOK
  <2>2. RefusalsAreTrue'
    BY <1>6, <2>1 DEF Begin, RefusalsAreTrue, Reference
  <2> QED BY <1>5, <1>6, <2>2 DEF Begin
<1>7. ASSUME NEW w \in Workers, Lookup(w) \/ LookupFails(w) \/ Recheck(w) \/ Crash(w)
      PROVE  Goal
  <2>1. UNCHANGED <<command, state, journal, blnk>>
    BY <1>7 DEF Lookup, LookupFails, Recheck, Crash
  <2>2. worker[w].step # "idle"
    BY <1>7 DEF Lookup, LookupFails, Recheck, Crash
  <2>3. PICK step \in Steps, answer \in Results :
          /\ Goto(w, step, answer) \/ worker' = [worker EXCEPT ![w] = Idle]
          /\ step \in {"recheck", "finish"} /\ answer = "rejected" /\ Goto(w, step, answer)
               => blnk[Reference(w)] # "APPLIED"
    <3>1. CASE Lookup(w) \/ Recheck(w)
      <4>1. CASE blnk[Reference(w)] = "none"
        <5>1. worker[w].answer \in Results
          BY DEF Inductive, TypeOK, WorkerType
        <5> QED BY <3>1, <4>1, <5>1 DEF Lookup, Recheck, Steps, Results
      <4>2. CASE blnk[Reference(w)] # "none"
        BY <2>2, <3>1, <4>2, VerdictIsTrue DEF Lookup, Recheck, Steps, Results
      <4> QED BY <4>1, <4>2
    <3>2. CASE LookupFails(w)
      BY <3>2 DEF LookupFails, Steps, Results
    <3>3. CASE Crash(w)
      BY <3>3 DEF Crash, Steps, Results
    <3> QED BY <1>7, <3>1, <3>2, <3>3
  <2>4. RefusalsAreTrue'
    <3>1. CASE Goto(w, step, answer)
      <4>1. /\ worker'[w] = [step |-> step, ref |-> Reference(w), answer |-> answer]
            /\ \A v \in Workers : v # w => worker'[v] = worker[v]
        BY <3>1, GotoEffect DEF Inductive
      <4> QED BY <2>1, <2>3, <3>1, <4>1 DEF RefusalsAreTrue, Reference
    <3>2. CASE worker' = [worker EXCEPT ![w] = Idle]
      BY <2>1, <3>2 DEF RefusalsAreTrue, Reference, Inductive, TypeOK, Idle
    <3> QED BY <2>3, <3>1, <3>2
  <2> QED BY <1>5, <2>1, <2>4
<1>8. ASSUME NEW w \in Workers, Post(w) \/ PostResponseLost(w) PROVE Goal
  <2>1. /\ worker[w].step = "post" /\ Execute(Reference(w))
        /\ UNCHANGED <<command, state, journal>>
    BY <1>8 DEF Post, PostResponseLost
  <2>2. /\ Reference(w) \in References
        /\ blnk \in [References -> {"none", "APPLIED", "REJECTED", "FOREIGN"}]
    BY <2>1 DEF Inductive, TypeOK, WorkIsLocked
  <2>3. \A q \in References : q # Reference(w) => blnk'[q] = blnk[q]
    BY <2>1, <2>2 DEF Execute
  <2>4. PICK step \in {"recheck", "finish"}, answer \in Results :
          /\ Goto(w, step, answer)
          /\ answer = "rejected" => blnk[Reference(w)] = "none" /\ ~Covered(Reference(w))
    BY <1>8 DEF Post, PostResponseLost, Results
  <2>5. answer = "rejected" => blnk'[Reference(w)] # "APPLIED"
    BY <2>1, <2>2, <2>4 DEF Execute
  <2> QED BY <2>1, <2>3, <2>4, <2>5, PromptRequest
<1>9. ASSUME NEW w \in Workers, PostAbandoned(w) PROVE Goal
  BY <1>9, PromptRequest DEF PostAbandoned, Results
<1>10. ASSUME NEW w \in Workers, Finish(w) PROVE Goal
  BY <1>10, PromptFinish
<1>11. ASSUME NEW r \in References, LateExecution(r) PROVE Goal
  BY <1>2, <1>11 DEF LateExecution
<1>12. ASSUME UNCHANGED vars PROVE Goal
  <2>1. RefusalsAreTrue'
    BY <1>12 DEF vars, RefusalsAreTrue, Reference
  <2>2. UNCHANGED <<command, state, journal, blnk>>
    BY <1>12 DEF vars
  <2> QED BY <1>5, <2>1, <2>2
<1>13. Goal
  BY <1>3, <1>4, <1>6, <1>7, <1>8, <1>9, <1>10, <1>11, <1>12 DEF Next, Continue
<1> QED BY <1>1, <1>13

(* The extended invariant holds throughout, if no request is late. *)
THEOREM AlwaysPrompt == ASSUME MaxLate = 0 PROVE Spec => []PromptInductive
<1>1. Init => PromptInductive
  <2> SUFFICES ASSUME Init PROVE PromptInductive
    OBVIOUS
  <2>1. Inductive
    BY InitInductive
  <2>2. Applied = {}
    BY DEF Init, Applied
  <2>3. RefusalsAreTrue
    BY DEF Init, RefusalsAreTrue, Idle
  <2> QED BY <2>1, <2>2, <2>3 DEF PromptInductive, RejectedMovesNothing, MismatchIsPending
<1>2. PromptInductive /\ [Next]_vars => PromptInductive'
  BY NextPrompt
<1> QED BY <1>1, <1>2, PTL DEF Spec

(* A rejected operation has moved nothing, if no request is late. *)
THEOREM RefusalsMoveNothing == ASSUME MaxLate = 0 PROVE Spec => []RejectedMovesNothing
<1>1. PromptInductive => RejectedMovesNothing
  BY DEF PromptInductive
<1> QED BY <1>1, AlwaysPrompt, PTL

(* No mismatch outlives its operation, if no request is late. *)
THEOREM MismatchesArePending == ASSUME MaxLate = 0 PROVE Spec => []MismatchIsPending
<1>1. PromptInductive => MismatchIsPending
  BY DEF PromptInductive
<1> QED BY <1>1, AlwaysPrompt, PTL

(* If Blnk executes nothing after the client went away, an operation that  *)
(* is over has left nothing behind.                                        *)
THEOREM AlwaysOverIsSettled == ASSUME MaxLate = 0 PROVE Spec => []OverIsSettled
<1>1. RejectedMovesNothing /\ MismatchIsPending => OverIsSettled
  BY DEF OverIsSettled
<1> QED
  BY <1>1, RefusalsMoveNothing, MismatchesArePending, PTL

(***************************************************************************)
(* The ledger implements LedgerPromise: with no late requests, each step   *)
(* is a step of the promise for one operation, or changes nothing that     *)
(* callers can see.                                                        *)
(***************************************************************************)

(* What a step may do to the money of an operation of which callers know   *)
(* told, and what it may tell them while the money stays where it is.      *)
MayMove == {<<"open", "nothing", "held">>, <<"open", "nothing", "moved">>,
            <<"reserved", "held", "moved">>, <<"reserved", "held", "returned">>}
MayTell == {<<"held", "open", "reserved">>, <<"moved", "open", "done">>,
            <<"moved", "reserved", "done">>, <<"returned", "reserved", "undone">>,
            <<"nothing", "open", "refused">>, <<"nothing", "open", "review">>,
            <<"held", "reserved", "review">>}

(* A step that changes one operation, in one of the ways allowed, is a     *)
(* step of the promise.                                                    *)
LEMMA OneOperation ==
  ASSUME NEW k \in Keys,
         \A j \in Keys : j # k => Money(j)' = Money(j) /\ Told(j)' = Told(j),
         \/ Money(k)' = Money(k) /\ Told(k)' = Told(k)
         \/ Told(k)' = Told(k) /\ <<Told(k), Money(k), Money(k)'>> \in MayMove
         \/ Money(k)' = Money(k) /\ <<Money(k), Told(k), Told(k)'>> \in MayTell
  PROVE  [Promise!Next]_Promise!vars
<1> DEFINE money == [j \in Keys |-> Money(j)]
           told == [j \in Keys |-> Told(j)]
<1>1. CASE Money(k)' = Money(k) /\ Told(k)' = Told(k)
  <2>1. money' = money /\ told' = told
    BY <1>1
  <2> QED BY <2>1 DEF Promise!vars
<1>2. CASE Told(k)' = Told(k) /\ <<Told(k), Money(k), Money(k)'>> \in MayMove
  <2>1. told' = told /\ money' = [money EXCEPT ![k] = Money(k)']
    BY <1>2
  <2>2. Promise!Transfer(k)
    BY <1>2, <2>1 DEF Promise!Transfer, MayMove
  <2> QED BY <2>2 DEF Promise!Next
<1>3. CASE Money(k)' = Money(k) /\ <<Money(k), Told(k), Told(k)'>> \in MayTell
  <2>1. money' = money /\ told' = [told EXCEPT ![k] = Told(k)']
    BY <1>3
  <2>2. Promise!Tell(k, Told(k)')
    BY <2>1 DEF Promise!Tell
  <2>3. Promise!Report(k) \/ Promise!AskReview(k)
    BY <1>3, <2>2 DEF Promise!Report, Promise!AskReview, MayTell
  <2> QED BY <2>3 DEF Promise!Next
<1> QED BY <1>1, <1>2, <1>3

(* The legs that may be at Blnk, by the state of the row.                  *)
LEMMA LegsByState ==
  ASSUME Inductive, NEW k \in Keys, state[k] \in Runnable
  PROVE  /\ state[k] = "pending" =>
              /\ <<k, "commit">> \notin Applied /\ <<k, "release">> \notin Applied
              /\ IF TwoPhase(k) THEN <<k, "post">> \notin Applied
                                ELSE <<k, "reserve">> \notin Applied
         /\ state[k] \in {"commit_pending", "release_pending"} =>
              <<k, "reserve">> \in Applied /\ <<k, "post">> \notin Applied
         /\ state[k] = "commit_pending" => <<k, "release">> \notin Applied
         /\ state[k] = "release_pending" => <<k, "commit">> \notin Applied
<1>1. \A p \in Phases : <<k, p>> \in Applied => Touched(<<k, p>>)
  BY DEF Touched, Applied
<1>2. LegsDue(k) /\ ClaimBacked(k) /\ journal \subseteq Applied
  BY DEF Inductive, LegsAreDue, ClaimsAreBacked
<1>3. state[k] \in {"commit_pending", "release_pending"} => TwoPhase(k)
  BY DEF Inductive, RowsAreSound
<1> QED BY <1>1, <1>2, <1>3 DEF LegsDue, ClaimBacked, Phases

(* Steps that neither move money nor change a state.                       *)
LEMMA Unseen ==
  ASSUME UNCHANGED blnk, \A k \in Keys : Told(k)' = Told(k)
  PROVE  [Promise!Next]_Promise!vars
<1> DEFINE money == [j \in Keys |-> Money(j)]
           told == [j \in Keys |-> Told(j)]
<1>1. \A k \in Keys : Money(k)' = Money(k)
  BY DEF Money, Applied
<1>2. money' = money /\ told' = told
  BY <1>1
<1> QED BY <1>2 DEF Promise!vars

(* Blnk executes the request of a process at work.                         *)
LEMMA RequestMoves ==
  ASSUME Inductive, NEW w \in Workers, worker[w].step # "idle",
         Execute(Reference(w)), UNCHANGED <<command, state>>
  PROVE  [Promise!Next]_Promise!vars
<1>1. PICK k \in Keys, ph \in Phases : /\ Reference(w) = <<k, ph>>
                                       /\ state[k] \in Runnable /\ ph = PhaseOf(k)
  BY DEF Inductive, WorkIsLocked, References
<1> DEFINE r == <<k, ph>>
<1>2. \A j \in Keys : Told(j)' = Told(j)
  BY DEF Told
<1>3. blnk \in [References -> {"none", "APPLIED", "REJECTED", "FOREIGN"}] /\ r \in References
  BY <1>1 DEF Inductive, TypeOK, References
<1>4. CASE Applied' = Applied
  <2>1. \A j \in Keys : Money(j)' = Money(j)
    BY <1>4 DEF Money
  <2> QED BY <1>1, <1>2, <2>1, OneOperation
<1>5. CASE Applied' # Applied
  <2>1. r \notin Applied /\ Applied' = Applied \cup {r}
    BY <1>1, <1>3, <1>5 DEF Execute, Applied
  <2>2. \A j \in Keys : j # k => Money(j)' = Money(j)
    BY <2>1 DEF Money
  <2>3. <<Told(k), Money(k), Money(k)'>> \in MayMove
    <3>1. CASE state[k] = "pending" /\ TwoPhase(k)
      <4>1. ph = "reserve" /\ Told(k) = "open"
        BY <1>1, <3>1 DEF PhaseOf, Told
      <4>2. Money(k) = "nothing" /\ Money(k)' = "held"
        BY <2>1, <3>1, <4>1, LegsByState DEF Money, Runnable
      <4> QED BY <4>1, <4>2 DEF MayMove
    <3>2. CASE state[k] = "pending" /\ ~TwoPhase(k)
      <4>1. ph = "post" /\ Told(k) = "open"
        BY <1>1, <3>2 DEF PhaseOf, Told
      <4>2. Money(k) = "nothing" /\ Money(k)' = "moved"
        BY <2>1, <3>2, <4>1, LegsByState DEF Money, Runnable
      <4> QED BY <4>1, <4>2 DEF MayMove
    <3>3. CASE state[k] = "commit_pending"
      <4>1. ph = "commit" /\ Told(k) = "reserved"
        BY <1>1, <3>3 DEF PhaseOf, Told
      <4>2. Money(k) = "held" /\ Money(k)' = "moved"
        BY <2>1, <3>3, <4>1, LegsByState DEF Money, Runnable
      <4> QED BY <4>1, <4>2 DEF MayMove
    <3>4. CASE state[k] = "release_pending"
      <4>1. ph = "release" /\ Told(k) = "reserved"
        BY <1>1, <3>4 DEF PhaseOf, Told
      <4>2. Money(k) = "held" /\ Money(k)' = "returned"
        BY <2>1, <3>4, <4>1, LegsByState DEF Money, Runnable
      <4> QED BY <4>1, <4>2 DEF MayMove
    <3> QED BY <1>1, <3>1, <3>2, <3>3, <3>4 DEF Runnable
  <2> QED BY <1>2, <2>2, <2>3, OneOperation
<1> QED BY <1>4, <1>5

(* The commit of an attempt tells what is so of the money.                 *)
LEMMA FinishTells ==
  ASSUME PromptInductive, NEW w \in Workers, Finish(w)
  PROVE  [Promise!Next]_Promise!vars
<1> USE DEF PromptInductive, Inductive
<1>1. PICK k \in Keys, ph \in Phases, answer \in {"ok", "unknown", "conflict", "rejected"} :
        /\ Reference(w) = <<k, ph>> /\ answer = worker[w].answer
        /\ ph = PhaseOf(k) /\ state[k] \in Runnable
  BY DEF Finish, WorkIsLocked, References, AnswersAreTrue, TypeOK, WorkerType, Results
<1> DEFINE r == <<k, ph>>
<1>2. PICK after :
        /\ answer = "ok" => after = NextState(k)
        /\ answer = "unknown" => after = state[k]
        /\ answer = "conflict" => after = "review_required"
        /\ answer = "rejected" => \/ after = "review_required"
                                  \/ after = "rejected" /\ state[k] = "pending"
        /\ after = StateAfter(r, answer)
  BY <1>1, StateAfterEffect DEF Finish
<1>3. /\ state'[k] = after
      /\ \A j \in Keys : j # k => state'[j] = state[j]
      /\ UNCHANGED blnk
  BY <1>1, <1>2 DEF Finish, TypeOK
<1>4. \A j \in Keys : Money(j)' = Money(j)
  BY <1>3 DEF Money, Applied
<1>5. \A j \in Keys : j # k => Told(j)' = Told(j)
  BY <1>3 DEF Told
<1>6. /\ answer = "ok" => r \in Applied
      /\ answer \in {"conflict", "rejected"} => r \notin Applied
  BY <1>1 DEF AnswersAreTrue, RefusalsAreTrue, Applied, Finish, References
<1>7. CASE answer = "unknown"
  <2>1. Told(k)' = Told(k)
    BY <1>2, <1>3, <1>7 DEF Told
  <2> QED BY <1>4, <1>5, <2>1, OneOperation
<1>8. CASE answer = "ok"
  <2>1. <<Money(k), Told(k), Told(k)'>> \in MayTell
    <3>1. CASE state[k] = "pending" /\ TwoPhase(k)
      <4>1. ph = "reserve" /\ Told(k) = "open" /\ Told(k)' = "reserved"
        BY <1>1, <1>2, <1>3, <1>8, <3>1 DEF PhaseOf, NextState, Told
      <4>2. Money(k) = "held"
        BY <1>6, <1>8, <3>1, <4>1, LegsByState DEF Money, Runnable
      <4> QED BY <4>1, <4>2 DEF MayTell
    <3>2. CASE state[k] = "pending" /\ ~TwoPhase(k)
      <4>1. ph = "post" /\ Told(k) = "open" /\ Told(k)' = "done"
        BY <1>1, <1>2, <1>3, <1>8, <3>2 DEF PhaseOf, NextState, Told
      <4>2. Money(k) = "moved"
        BY <1>6, <1>8, <4>1 DEF Money
      <4> QED BY <4>1, <4>2 DEF MayTell
    <3>3. CASE state[k] = "commit_pending"
      <4>1. ph = "commit" /\ Told(k) = "reserved" /\ Told(k)' = "done"
        BY <1>1, <1>2, <1>3, <1>8, <3>3 DEF PhaseOf, NextState, Told
      <4>2. Money(k) = "moved"
        BY <1>6, <1>8, <4>1 DEF Money
      <4> QED BY <4>1, <4>2 DEF MayTell
    <3>4. CASE state[k] = "release_pending"
      <4>1. ph = "release" /\ Told(k) = "reserved" /\ Told(k)' = "undone"
        BY <1>1, <1>2, <1>3, <1>8, <3>4 DEF PhaseOf, NextState, Told
      <4>2. Money(k) = "returned"
        BY <1>6, <1>8, <3>4, <4>1, LegsByState DEF Money, Runnable
      <4> QED BY <4>1, <4>2 DEF MayTell
    <3> QED BY <1>1, <3>1, <3>2, <3>3, <3>4 DEF Runnable
  <2> QED BY <1>4, <1>5, <2>1, OneOperation
<1>9. CASE answer \in {"conflict", "rejected"}
  <2>1. <<Money(k), Told(k), Told(k)'>> \in MayTell
    <3>1. CASE state[k] = "pending"
      <4>1. ph \in {"post", "reserve"} /\ (TwoPhase(k) <=> ph = "reserve")
        BY <1>1, <3>1 DEF PhaseOf
      <4>2. Told(k) = "open" /\ Told(k)' \in {"refused", "review"}
        BY <1>2, <1>3, <1>9, <3>1 DEF Told
      <4>3. Money(k) = "nothing"
        BY <1>6, <1>9, <3>1, <4>1, LegsByState DEF Money, Runnable
      <4> QED BY <4>2, <4>3 DEF MayTell
    <3>2. CASE state[k] \in {"commit_pending", "release_pending"}
      <4>1. ph = IF state[k] = "commit_pending" THEN "commit" ELSE "release"
        BY <1>1, <3>2 DEF PhaseOf
      <4>2. Told(k) = "reserved" /\ Told(k)' = "review"
        BY <1>2, <1>3, <1>9, <3>2 DEF Told
      <4>3. Money(k) = "held"
        BY <1>6, <1>9, <3>2, <4>1, LegsByState DEF Money, Runnable
      <4> QED BY <4>2, <4>3 DEF MayTell
    <3> QED BY <1>1, <3>1, <3>2 DEF Runnable
  <2> QED BY <1>4, <1>5, <2>1, OneOperation
<1> QED BY <1>7, <1>8, <1>9

(* Every step of the ledger is one of the promise, or none callers see.    *)
LEMMA NextPromises ==
  ASSUME MaxLate = 0, PromptInductive, [Next]_vars
  PROVE  [Promise!Next]_Promise!vars
<1> USE DEF PromptInductive, Inductive
<1>1. ASSUME NEW c \in Commands, Submit(c) PROVE [Promise!Next]_Promise!vars
  <2>1. /\ \A k \in Keys : k # c.key => state'[k] = state[k]
        /\ c.key \in Keys /\ state[c.key] = "absent" /\ state'[c.key] = "pending"
        /\ UNCHANGED blnk
    BY <1>1, LedgerAssumption DEF Submit, TypeOK, CommandType
  <2>2. \A k \in Keys : Told(k)' = Told(k)
    BY <2>1 DEF Told
  <2> QED BY <2>1, <2>2, Unseen
<1>2. ASSUME NEW k \in Keys, NEW outcome \in DOMAIN Decision, Resolve(k, outcome)
      PROVE  [Promise!Next]_Promise!vars
  <2>1. /\ \A j \in Keys : j # k => state'[j] = state[j]
        /\ state[k] \in {"awaiting_provider", "provider_unknown"}
        /\ state'[k] \in {"commit_pending", "release_pending", "provider_unknown"}
        /\ UNCHANGED blnk
    BY <1>2 DEF Resolve, TypeOK, Decision
  <2>2. \A j \in Keys : Told(j)' = Told(j)
    BY <2>1 DEF Told
  <2> QED BY <2>1, <2>2, Unseen
<1>3. ASSUME UNCHANGED <<state, blnk>> PROVE [Promise!Next]_Promise!vars
  <2>1. \A k \in Keys : Told(k)' = Told(k)
    BY <1>3 DEF Told
  <2> QED BY <1>3, <2>1, Unseen
<1>4. ASSUME NEW w \in Workers, Post(w) \/ PostResponseLost(w)
      PROVE  [Promise!Next]_Promise!vars
  BY <1>4, RequestMoves DEF Post, PostResponseLost
<1>5. ASSUME NEW w \in Workers, Finish(w) PROVE [Promise!Next]_Promise!vars
  BY <1>5, FinishTells
<1>6. ASSUME NEW r \in References, LateExecution(r) PROVE [Promise!Next]_Promise!vars
  <2>1. late[r] = 0
    BY DEF TypeOK
  <2> QED BY <1>6, <2>1 DEF LateExecution
<1>7. ASSUME NEW w \in Workers, Lookup(w) \/ LookupFails(w) \/ PostAbandoned(w)
                                  \/ Recheck(w) \/ Crash(w)
      PROVE  UNCHANGED <<state, blnk>>
  BY <1>7 DEF Lookup, LookupFails, PostAbandoned, Recheck, Crash
<1>8. ASSUME NEW w \in Workers, NEW k \in Keys, Begin(w, k) PROVE UNCHANGED <<state, blnk>>
  BY <1>8 DEF Begin
<1>9. CASE UNCHANGED vars
  BY <1>3, <1>9 DEF vars
<1> QED BY <1>1, <1>2, <1>3, <1>4, <1>5, <1>6, <1>7, <1>8, <1>9 DEF Next, Continue

(* The ledger keeps its promise, if no request is late: what callers see   *)
(* of an operation follows its money, step by step.                        *)
THEOREM PromiseIsKept == ASSUME MaxLate = 0 PROVE Spec => KeepsPromise
<1>1. Init => Promise!Init
  <2> SUFFICES ASSUME Init PROVE Promise!Init
    OBVIOUS
  <2>1. Applied = {}
    BY DEF Init, Applied
  <2>2. \A k \in Keys : Money(k) = "nothing" /\ Told(k) = "open"
    BY <2>1 DEF Init, Money, Told
  <2> QED BY <2>2 DEF Promise!Init
<1>2. PromptInductive /\ [Next]_vars => [Promise!Next]_Promise!vars
  BY NextPromises
<1> QED BY <1>1, <1>2, AlwaysPrompt, PTL DEF Spec, KeepsPromise, Promise!Spec

(***************************************************************************)
(* The sum kept by the transit accounts.                                   *)
(***************************************************************************)


(* A transit account holds the amounts of the reservations open on it, of  *)
(* which there are finitely many, though operations need not be.           *)
TransitIsExact(t) ==
  /\ IsFiniteSet(OpenOn(t))
  /\ \A k \in OpenOn(t) : command[k].amount \in Nat
  /\ balance[t] = SumFunction(Reserved(t))

(* So does every transit account.                                          *)
TransitsAreExact == \A t \in Accounts : KindOf[t] = "transit" => TransitIsExact(t)

(* A request that Blnk may execute was due: its operation is in the form   *)
(* that the leg belongs to, and the other outcome of it is excluded.       *)
Due(r) ==
  /\ state[r[1]] # "absent"
  /\ r[2] = "post" <=> ~TwoPhase(r[1])
  /\ r[2] = "commit"  => <<r[1], "reserve">> \in Applied /\ <<r[1], "release">> \notin Applied
  /\ r[2] = "release" => <<r[1], "reserve">> \in Applied /\ <<r[1], "commit">> \notin Applied

(* What a worker is about to post is due.                                  *)
LEMMA WorkIsDue ==
  ASSUME Inductive, NEW w \in Workers, worker[w].step # "idle"
  PROVE  Reference(w) \in References /\ Due(Reference(w))
<1>1. PICK k \in Keys, ph \in Phases : Reference(w) = <<k, ph>>
  BY DEF Inductive, WorkIsLocked, References
<1>2. state[k] \in Runnable /\ ph = PhaseOf(k)
  BY <1>1 DEF Inductive, WorkIsLocked
<1>3. /\ state[k] \in {"commit_pending", "release_pending"} => TwoPhase(k) /\ <<k, "reserve">> \in Applied
      /\ \A p \in Phases : <<k, p>> \in Applied => Touched(<<k, p>>)
  BY DEF Inductive, RowsAreSound, ClaimsAreBacked, ClaimBacked, Applied, Touched
<1>4. /\ state[k] = "commit_pending" => <<k, "release">> \notin Applied
      /\ state[k] = "release_pending" => <<k, "commit">> \notin Applied
  BY <1>3 DEF Inductive, LegsAreDue, LegsDue, Phases
<1> QED BY <1>1, <1>2, <1>3, <1>4 DEF Due, Runnable, PhaseOf, References

(* So is a request whose answer was lost, when Blnk still holds it.        *)
LEMMA LateIsDue ==
  ASSUME Inductive, NEW r \in References, late[r] > 0
  PROVE  Due(r)
<1>1. PICK k \in Keys, ph \in Phases : r = <<k, ph>>
  BY DEF References
<1>2. LegsDue(k) /\ journal \subseteq Applied
  BY DEF Inductive, LegsAreDue, ClaimsAreBacked
<1>3. Touched(<<k, ph>>) /\ \A p \in Phases : <<k, p>> \in Applied => Touched(<<k, p>>)
  BY <1>1 DEF Touched, Applied
<1> QED BY <1>1, <1>2, <1>3 DEF Due, LegsDue, Phases

(* Only the legs of a transfer to a card touch a transit account: the      *)
(* reservation credits it, and either outcome debits it.                   *)
LEMMA TransitLegs ==
  ASSUME Inductive, NEW r \in References, Due(r), NEW t \in Accounts, KindOf[t] = "transit"
  PROVE  /\ To(r) = t <=> r[2] = "reserve" /\ command[r[1]].transit = t
         /\ From(r) = t <=> r[2] \in {"commit", "release"} /\ command[r[1]].transit = t
<1>1. PICK k \in Keys, ph \in Phases : r = <<k, ph>>
  BY DEF References
<1>2. command[k] \in Commands /\ WellFormed(command[k])
  BY <1>1 DEF Inductive, RowsAreSound, Due
<1>3. KindOf[command[k].source] # "transit" /\ KindOf[command[k].destination] # "transit"
  <2>1. command[k].kind \in OperationKinds
    BY <1>2, LedgerAssumption DEF CommandType
  <2> QED BY <1>2, <2>1 DEF WellFormed, OperationKinds
<1> QED BY <1>1, <1>2, <1>3 DEF From, To, Due, Phases

(* Blnk executing a due request opens or closes the reservation whose     *)
(* amount it moves, and leaves every other transit account alone.          *)
LEMMA ExecuteKeepsTransits ==
  ASSUME Inductive, TransitsAreExact, NEW r \in References, Due(r), Execute(r), UNCHANGED command
  PROVE  TransitsAreExact'
<1> SUFFICES ASSUME NEW t \in Accounts, KindOf[t] = "transit" PROVE TransitIsExact(t)'
  BY DEF TransitsAreExact
<1>1. PICK k \in Keys, ph \in Phases : r = <<k, ph>>
  BY DEF References
<1>2. TransitIsExact(t)
  BY DEF TransitsAreExact
<1>3. CASE Applied' = Applied /\ UNCHANGED balance
  <2>1. OpenOn(t)' = OpenOn(t)
    BY <1>3 DEF OpenOn
  <2> QED BY <1>2, <1>3, <2>1 DEF TransitIsExact, Reserved
<1>4. CASE blnk[r] = "none" /\ Covered(r)
  <2> DEFINE n == command[k].amount
  <2>1. /\ blnk' = [blnk EXCEPT ![r] = "APPLIED"] /\ DOMAIN blnk = References
        /\ balance' = [balance EXCEPT ![From(r)] = @ - n, ![To(r)] = @ + n]
    BY <1>1, <1>4 DEF Execute, Inductive, TypeOK
  <2>10. Applied' = Applied \cup {r} /\ r \notin Applied
    BY <1>4, <2>1 DEF Applied
  <2>2. /\ From(r) \in Accounts /\ To(r) \in Accounts /\ n \in Nat \ {0}
        /\ balance \in [Accounts -> Int]
    BY <1>1, LegTypes DEF Due, Inductive, RowsAreSound, TypeOK
  <2>3. /\ To(r) = t <=> ph = "reserve" /\ command[k].transit = t
        /\ From(r) = t <=> ph \in {"commit", "release"} /\ command[k].transit = t
    BY <1>1, TransitLegs
  <2>4. balance'[t] = IF To(r) = t THEN balance[t] + n
                      ELSE IF From(r) = t THEN balance[t] - n ELSE balance[t]
    BY <2>1, <2>2, <2>3
  <2>5. ph = "reserve" => <<k, "commit">> \notin Applied /\ <<k, "release">> \notin Applied
    <3>1. \A p \in Phases : <<k, p>> \in Applied => Touched(<<k, p>>)
      BY DEF Touched, Applied
    <3> QED BY <1>1, <2>10, <3>1 DEF Inductive, LegsAreDue, LegsDue, ClaimsAreBacked, Phases
  <2>6. OpenOn(t)' = IF To(r) = t THEN OpenOn(t) \cup {k}
                     ELSE IF From(r) = t THEN OpenOn(t) \ {k} ELSE OpenOn(t)
    BY <1>1, <2>3, <2>5, <2>10 DEF OpenOn, Phases, Due
  <2>7. CASE To(r) # t /\ From(r) # t
    BY <1>2, <2>4, <2>6, <2>7 DEF TransitIsExact, Reserved
  <2> DEFINE open == OpenOn(t)
             f == [j \in OpenOn(t) |-> command[j].amount]
  <2>8. CASE To(r) = t
    <3> DEFINE g == [j \in open \cup {k} |-> command[j].amount]
    <3>1. k \notin open
      BY <1>1, <2>3, <2>8, <2>10 DEF OpenOn
    <3>2. SumFunctionOnSet(g, open \cup {k}) = SumFunctionOnSet(f, open) + g[k]
      BY <1>2, <2>2, <3>1, SumGains DEF TransitIsExact
    <3>3. OpenOn(t)' = open \cup {k} /\ Reserved(t)' = g
      BY <2>6, <2>8 DEF Reserved
    <3>4. IsFiniteSet(open \cup {k})
      BY <1>2, FS_AddElement DEF TransitIsExact
    <3>5. SumFunction(g) = SumFunction(f) + n
      BY <3>2 DEF SumFunction
    <3>6. \A j \in open \cup {k} : command[j].amount \in Nat
      BY <1>2, <2>2 DEF TransitIsExact
    <3> QED BY <1>2, <2>4, <2>8, <3>3, <3>4, <3>5, <3>6 DEF TransitIsExact, Reserved
  <2>9. CASE From(r) = t
    <3> DEFINE g == [j \in open \ {k} |-> command[j].amount]
    <3>1. k \in open
      BY <1>1, <2>1, <2>3, <2>9, <2>10 DEF OpenOn, Due, Applied, References
    <3>2. SumFunctionOnSet(g, open \ {k}) = SumFunctionOnSet(f, open) - f[k]
      BY <1>2, <2>2, <3>1, SumLoses DEF TransitIsExact
    <3>3. OpenOn(t)' = open \ {k} /\ Reserved(t)' = g
      BY <2>3, <2>6, <2>9 DEF Reserved
    <3>4. IsFiniteSet(open \ {k})
      BY <1>2, FS_RemoveElement DEF TransitIsExact
    <3>5. SumFunction(g) = SumFunction(f) - n
      BY <3>1, <3>2 DEF SumFunction
    <3> QED BY <1>2, <2>3, <2>4, <2>9, <3>3, <3>4, <3>5 DEF TransitIsExact, Reserved
  <2> QED BY <2>7, <2>8, <2>9
<1>5. CASE ~(blnk[r] = "none" /\ Covered(r))
  BY <1>3, <1>5 DEF Execute, Applied, Inductive, TypeOK
<1> QED BY <1>4, <1>5

(* Steps that leave Blnk and its balances alone do not change what is open. *)
LEMMA OthersKeepTransits ==
  ASSUME TransitsAreExact, UNCHANGED <<blnk, balance>>,
         \A k \in Keys : <<k, "reserve">> \in Applied => command'[k] = command[k]
  PROVE  TransitsAreExact'
<1> SUFFICES ASSUME NEW t \in Accounts, KindOf[t] = "transit" PROVE TransitIsExact(t)'
  BY DEF TransitsAreExact
<1>1. OpenOn(t)' = OpenOn(t) /\ \A k \in OpenOn(t) : command'[k] = command[k]
  BY DEF OpenOn, Applied
<1>2. Reserved(t)' = Reserved(t)
  BY <1>1 DEF Reserved
<1> QED BY <1>1, <1>2 DEF TransitsAreExact, TransitIsExact

(* Every step keeps the transit accounts exact.                            *)
LEMMA NextKeepsTransits ==
  ASSUME Inductive, TransitsAreExact, [Next]_vars PROVE TransitsAreExact'
<1>1. ASSUME NEW c \in Commands, Submit(c) PROVE TransitsAreExact'
  <2>1. \A k \in Keys : <<k, "reserve">> \in Applied => state[k] # "absent"
    BY DEF Inductive, LegsAreDue, LegsDue, Touched, Applied
  <2> QED BY <1>1, <2>1, OthersKeepTransits DEF Submit, Inductive, TypeOK
<1>2. ASSUME NEW w \in Workers, Post(w) \/ PostResponseLost(w) PROVE TransitsAreExact'
  BY <1>2, WorkIsDue, ExecuteKeepsTransits DEF Post, PostResponseLost
<1>3. ASSUME NEW r \in References, LateExecution(r) PROVE TransitsAreExact'
  BY <1>3, LateIsDue, ExecuteKeepsTransits DEF LateExecution
<1>4. CASE UNCHANGED <<command, blnk, balance>>
  BY <1>4, OthersKeepTransits
<1> QED
  BY <1>1, <1>2, <1>3, <1>4 DEF Next, Continue, Resolve, Begin, Lookup, LookupFails,
     PostAbandoned, Recheck, Finish, Crash, vars

(* A transit account never holds more or less than the reservations that   *)
(* were executed and not yet settled or returned: what Blnk moves for a    *)
(* transfer to a card and what the operations say stay equal.              *)
THEOREM TransitsHoldOpenReservations == Spec => []TransitHoldsOpenReservations
<1>1. Init => TransitsAreExact
  <2> SUFFICES ASSUME Init, NEW t \in Accounts PROVE TransitIsExact(t)
    BY DEF TransitsAreExact
  <2>1. Applied = {}
    BY DEF Init, Applied
  <2>2. OpenOn(t) = {} /\ balance[t] = 0
    BY <2>1 DEF Init, OpenOn
  <2>3. SumFunction(Reserved(t)) = 0
    BY <2>2, SumEmpty DEF SumFunction, Reserved
  <2> QED BY <2>2, <2>3, FS_EmptySet DEF TransitIsExact
<1>2. Inductive /\ TransitsAreExact /\ [Next]_vars => TransitsAreExact'
  BY NextKeepsTransits
<1>3. TransitsAreExact => TransitHoldsOpenReservations
  BY DEF TransitsAreExact, TransitIsExact, TransitHoldsOpenReservations
<1> QED BY <1>1, <1>2, <1>3, AlwaysInductive, PTL DEF Spec
=============================================================================
