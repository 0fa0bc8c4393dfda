------------------------------- MODULE Ledger -------------------------------
(***************************************************************************)
(* The funds ledger of one customer: internal/ledger.Service, which keeps  *)
(* operations and an append-only journal in PostgreSQL, and blnk.Client,   *)
(* which moves the balances in Blnk over HTTP.                             *)
(*                                                                         *)
(* Several processes (the API, the workers, the CLI) call Process on the   *)
(* same operations.  A call holds the customer's advisory lock and a       *)
(* database transaction from Begin to Finish; the HTTP requests happen in  *)
(* between, so every step below may be followed by a crash that rolls the  *)
(* transaction back while Blnk keeps what it already did.  A request that  *)
(* the client stopped waiting for may still be executed by Blnk later.     *)
(***************************************************************************)
EXTENDS Integers, FiniteSetsExt

CONSTANTS
  Workers,    \* processes that call Process
  Keys,       \* effect keys: the identity of an economic event
  Accounts,   \* ledger accounts of the customer
  Commands,   \* the commands callers may submit (records, see CommandType)
  KindOf,     \* account -> "wallet", "card", "transit", "escrow", "clearing", "fee"
  CardOf,     \* account -> the external card it belongs to (or no card)
  Driven,     \* effect keys of orders that a worker retries until they move
  Preexisting,\* references Blnk already holds with another payload
  Nobody,     \* the free customer lock
  MaxLate     \* bound: abandoned requests per reference Blnk may still execute

AccountKinds == {"wallet", "card", "transit", "escrow", "clearing", "fee"}
OperationKinds ==
  {"crypto_move", "wallet_credit", "card_settlement", "card_refund", "wallet_to_card"}
Phases == {"post", "reserve", "commit", "release"}
References == Keys \X Phases

CommandType == [key : Keys, kind : OperationKinds, source : Accounts,
                destination : Accounts, transit : Accounts, amount : Nat \ {0}]

ASSUME LedgerAssumption ==
  /\ KindOf \in [Accounts -> AccountKinds]
  /\ Commands \subseteq CommandType
  /\ Preexisting \subseteq References
  /\ Nobody \notin Workers
  /\ MaxLate \in Nat

ASSUME DrivenAssumption ==
  /\ Driven \subseteq Keys
  /\ \A c \in Commands : c.key \in Driven => c.kind # "wallet_to_card"

VARIABLES
  command,   \* ledger_operations: key -> the command stored under it
  state,     \* ledger_operations.state, "absent" before the row exists
  journal,   \* ledger_journal: references known locally to be applied
  lock,      \* pg_advisory_xact_lock of the customer
  worker,    \* what each process is doing inside Process
  blnk,      \* Blnk transactions by reference
  balance,   \* Blnk balances
  late       \* abandoned requests that Blnk may still execute

vars == <<command, state, journal, lock, worker, blnk, balance, late>>

States == {"absent", "pending", "awaiting_provider", "provider_unknown",
           "commit_pending", "release_pending", "applied", "released",
           "rejected", "review_required"}
Runnable == {"pending", "commit_pending", "release_pending"}
Settled == {"applied", "released", "rejected"}
Results == {"none", "ok", "rejected", "conflict", "unknown"}
Steps == {"idle", "lookup", "post", "recheck", "finish"}

(***************************************************************************)
(* Submit: the shape each kind of operation must have.                     *)
(***************************************************************************)
WellFormed(c) ==
  LET from == KindOf[c.source]
      to   == KindOf[c.destination]
  IN  /\ c.source # c.destination
      /\ CASE c.kind = "crypto_move" ->
                \/ from \in {"wallet", "card"} /\ to = "escrow"
                \/ from = "escrow" /\ to \in {"wallet", "card", "clearing", "fee"}
                \/ from = "clearing" /\ to = "escrow"
           [] c.kind = "wallet_credit"   -> from = "clearing" /\ to = "wallet"
           [] c.kind = "card_settlement" -> from = "card" /\ to = "clearing"
           [] c.kind = "card_refund"     -> from = "clearing" /\ to = "card"
           [] c.kind = "wallet_to_card"  ->
                /\ from = "wallet" /\ to = "card"
                /\ KindOf[c.transit] = "transit"
                /\ CardOf[c.transit] = CardOf[c.destination]

(***************************************************************************)
(* Process: which leg an operation in a runnable state posts.              *)
(***************************************************************************)
TwoPhase(k) == command[k].kind = "wallet_to_card"

PhaseOf(k) ==
  CASE state[k] = "pending"         -> IF TwoPhase(k) THEN "reserve" ELSE "post"
    [] state[k] = "commit_pending"  -> "commit"
    [] state[k] = "release_pending" -> "release"

NextState(k) ==
  CASE state[k] = "pending"         -> IF TwoPhase(k) THEN "awaiting_provider" ELSE "applied"
    [] state[k] = "commit_pending"  -> "applied"
    [] state[k] = "release_pending" -> "released"

(* Mistake: the commit takes the money from the source, not the transit. *)
FromIgnoringCommit(r) ==
  LET c == command[r[1]] IN IF r[2] = "release" THEN c.transit ELSE c.source

From(r) == LET c == command[r[1]]
           IN  IF r[2] \in {"commit", "release"} THEN c.transit ELSE c.source
To(r) == LET c == command[r[1]]
         IN  CASE r[2] = "reserve" -> c.transit
               [] r[2] = "release" -> c.source
               [] OTHER            -> c.destination

(* Mistake: only transfers to a card are kept from overdrawing. *)
AllowOverdraftElsewhere(r) == command[r[1]].kind # "wallet_to_card"

AllowOverdraft(r) ==
  KindOf[From(r)] = "clearing" \/ command[r[1]].kind = "card_settlement"

(***************************************************************************)
(* Blnk, as the client uses it: a reference is written at most once, the   *)
(* source may go below zero only when the request allows it, and a refused *)
(* transfer may or may not leave a REJECTED transaction behind.            *)
(***************************************************************************)
Covered(r) ==
  AllowOverdraft(r) \/ balance[From(r)] >= command[r[1]].amount

Execute(r) ==
  \/ /\ blnk[r] = "none" /\ Covered(r)
     /\ blnk' = [blnk EXCEPT ![r] = "APPLIED"]
     /\ balance' = [balance EXCEPT ![From(r)] = @ - command[r[1]].amount,
                                   ![To(r)]   = @ + command[r[1]].amount]
  \/ /\ blnk[r] = "none" /\ ~Covered(r)
     /\ blnk' \in {blnk, [blnk EXCEPT ![r] = "REJECTED"]}
     /\ UNCHANGED balance
  \/ /\ blnk[r] # "none"
     /\ UNCHANGED <<blnk, balance>>

Idle == [step |-> "idle", ref |-> <<>>, answer |-> "none"]
Reference(w) == worker[w].ref
Goto(w, step, answer) ==
  worker' = [worker EXCEPT ![w].step = step, ![w].answer = answer]

(* What Apply makes of the transaction it finds under its reference. *)
Verdict(r) ==
  CASE blnk[r] = "APPLIED"  -> "ok"
    [] blnk[r] = "REJECTED" -> "rejected"
    [] blnk[r] = "FOREIGN"  -> "conflict"

-----------------------------------------------------------------------------
Init ==
  /\ command = [k \in Keys |-> <<>>]
  /\ state = [k \in Keys |-> "absent"]
  /\ journal = {}
  /\ lock = Nobody
  /\ worker = [w \in Workers |-> Idle]
  /\ blnk = [r \in References |-> IF r \in Preexisting THEN "FOREIGN" ELSE "none"]
  /\ balance = [a \in Accounts |-> 0]
  /\ late = [r \in References |-> 0]

(* Submit: the first command under an effect key wins; a repeat of it is a *)
(* no-op and another payload under the same key is ErrConflict.            *)
Submit(c) ==
  /\ lock = Nobody
  /\ WellFormed(c)
  /\ state[c.key] = "absent"
  /\ command' = [command EXCEPT ![c.key] = c]
  /\ state' = [state EXCEPT ![c.key] = "pending"]
  /\ UNCHANGED <<journal, lock, worker, blnk, balance, late>>

Decision == [confirmed |-> "commit_pending", rejected |-> "release_pending",
             unknown |-> "provider_unknown"]

(* Mistake: the provider may change its mind. *)
ResolveAgain(k, outcome) ==
  /\ lock = Nobody
  /\ state[k] \in {"awaiting_provider", "provider_unknown", "commit_pending", "release_pending"}
  /\ TwoPhase(k)
  /\ state' = [state EXCEPT ![k] = Decision[outcome]]
  /\ UNCHANGED <<command, journal, lock, worker, blnk, balance, late>>

(* Resolve: the verified outcome of the card provider. *)
Resolve(k, outcome) ==
  /\ lock = Nobody
  /\ state[k] \in {"awaiting_provider", "provider_unknown"}
  /\ TwoPhase(k)
  /\ state' = [state EXCEPT ![k] = Decision[outcome]]
  /\ UNCHANGED <<command, journal, lock, worker, blnk, balance, late>>

(* Process, up to the first HTTP request. *)
Begin(w, k) ==
  /\ lock = Nobody
  /\ worker[w].step = "idle"
  /\ state[k] \in Runnable
  /\ lock' = w
  /\ worker' = [worker EXCEPT ![w] =
                  [step |-> "lookup", ref |-> <<k, PhaseOf(k)>>, answer |-> "none"]]
  /\ UNCHANGED <<command, state, journal, blnk, balance, late>>

(* Apply: the first Lookup answers. *)
Lookup(w) ==
  /\ worker[w].step = "lookup"
  /\ IF blnk[Reference(w)] = "none"
       THEN Goto(w, "post", "none")
       ELSE Goto(w, "finish", Verdict(Reference(w)))
  /\ UNCHANGED <<command, state, journal, lock, blnk, balance, late>>

(* Either Lookup fails: the outcome stays unknown. *)
LookupFails(w) ==
  /\ worker[w].step \in {"lookup", "recheck"}
  /\ Goto(w, "finish", "unknown")
  /\ UNCHANGED <<command, state, journal, lock, blnk, balance, late>>

(* Apply: the POST is executed and its response arrives. *)
Post(w) ==
  LET r == Reference(w) IN
  /\ worker[w].step = "post"
  /\ Execute(r)
  /\ \/ blnk[r] # "none" /\ Goto(w, "recheck", "unknown")
     \/ blnk[r] = "none" /\ Covered(r) /\ Goto(w, "finish", "ok")
     \/ blnk[r] = "none" /\ ~Covered(r) /\ Goto(w, "recheck", "rejected")
  /\ UNCHANGED <<command, state, journal, lock, late>>

(* Mistake: a timeout is taken for a refusal. *)
PostResponseLostIsRefusal(w) ==
  /\ worker[w].step = "post"
  /\ Execute(Reference(w))
  /\ Goto(w, "finish", "rejected")
  /\ UNCHANGED <<command, state, journal, lock, late>>

(* Apply: the POST is executed and its response is lost. *)
PostResponseLost(w) ==
  /\ worker[w].step = "post"
  /\ Execute(Reference(w))
  /\ Goto(w, "recheck", "unknown")
  /\ UNCHANGED <<command, state, journal, lock, late>>

(* Apply: the client gives up first; the request is lost or arrives late. *)
PostAbandoned(w) ==
  LET r == Reference(w) IN
  /\ worker[w].step = "post"
  /\ \/ UNCHANGED late
     \/ late[r] < MaxLate /\ late' = [late EXCEPT ![r] = @ + 1]
  /\ Goto(w, "recheck", "unknown")
  /\ UNCHANGED <<command, state, journal, lock, blnk, balance>>

(* Blnk executes a request nobody waits for any more. *)
LateExecution(r) ==
  /\ late[r] > 0
  /\ late' = [late EXCEPT ![r] = @ - 1]
  /\ Execute(r)
  /\ UNCHANGED <<command, state, journal, lock, worker>>

(* Apply: the second Lookup answers.  No transaction under the reference   *)
(* is a rejection only if Blnk itself said so.                             *)
Recheck(w) ==
  LET r == Reference(w) IN
  /\ worker[w].step = "recheck"
  /\ Goto(w, "finish",
          IF blnk[r] # "none" THEN Verdict(r) ELSE worker[w].answer)
  /\ UNCHANGED <<command, state, journal, lock, blnk, balance, late>>

(* A refused leg of which nothing can have moved. *)
Refusable(r) ==
  \/ r[2] = "reserve"
  \/ command[r[1]].kind = "crypto_move" /\ KindOf[From(r)] \in {"wallet", "card"}

(* Mistakes: a state the table does not have, a lost answer taken for a    *)
(* success, a conflict taken for a success.                                *)
StateAfterMisnamed(r, answer) ==
  IF answer = "rejected" THEN "failed"
  ELSE IF answer = "ok" THEN NextState(r[1]) ELSE state[r[1]]
StateAfterOptimistic(r, answer) ==
  CASE answer \in {"ok", "unknown"} -> NextState(r[1])
    [] answer = "rejected" -> IF Refusable(r) THEN "rejected" ELSE "review_required"
    [] answer = "conflict" -> "review_required"
StateAfterConflictIsDone(r, answer) ==
  CASE answer \in {"ok", "conflict"} -> NextState(r[1])
    [] answer = "rejected" -> IF Refusable(r) THEN "rejected" ELSE "review_required"
    [] answer = "unknown"  -> state[r[1]]

(* The operation's state after an attempt with the given answer. *)
StateAfter(r, answer) ==
  CASE answer = "ok"       -> NextState(r[1])
    [] answer = "rejected" -> IF Refusable(r) THEN "rejected" ELSE "review_required"
    [] answer = "conflict" -> "review_required"
    [] answer = "unknown"  -> state[r[1]]

(* Process, after the last HTTP request: journal, state and audit commit   *)
(* together and the lock is released.                                      *)
Finish(w) ==
  LET r == Reference(w)
      answer == worker[w].answer
  IN
  /\ worker[w].step = "finish"
  /\ journal' = IF answer = "ok" THEN journal \cup {r} ELSE journal
  /\ state' = [state EXCEPT ![r[1]] = StateAfter(r, answer)]
  /\ lock' = Nobody
  /\ worker' = [worker EXCEPT ![w] = Idle]
  /\ UNCHANGED <<command, blnk, balance, late>>

(* Mistake: the lock is the session's, and a process that gives up keeps   *)
(* the session.                                                            *)
CrashKeepsLock(w) ==
  /\ worker[w].step # "idle"
  /\ worker' = [worker EXCEPT ![w] = Idle]
  /\ UNCHANGED <<command, state, journal, lock, blnk, balance, late>>

(* The process dies, its context expires or the commit fails: PostgreSQL   *)
(* rolls back and frees the lock, Blnk keeps what it has executed.         *)
Crash(w) ==
  /\ worker[w].step # "idle"
  /\ lock' = Nobody
  /\ worker' = [worker EXCEPT ![w] = Idle]
  /\ UNCHANGED <<command, state, journal, blnk, balance, late>>

Continue(w) ==
  \/ Lookup(w) \/ LookupFails(w)
  \/ Post(w) \/ PostResponseLost(w) \/ PostAbandoned(w)
  \/ Recheck(w) \/ Finish(w) \/ Crash(w)

Next ==
  \/ \E c \in Commands : Submit(c)
  \/ \E k \in Keys, outcome \in DOMAIN Decision : Resolve(k, outcome)
  \/ \E w \in Workers, k \in Keys : Begin(w, k)
  \/ \E w \in Workers : Continue(w)
  \/ \E r \in References : LateExecution(r)

Spec == Init /\ [][Next]_vars

(***************************************************************************)
(* Fairness: what the workers of the orders schedule.  The crypto, manual  *)
(* funds and issuing workers pass again and again over the orders that     *)
(* wait for the ledger (cryptofunds/worker.go and manualfunds/worker.go,   *)
(* Drain; issuing/engine.go, Tick) and each pass calls Process on the      *)
(* order's own operation: its key is in Driven.  An HTTP request times     *)
(* out, and a step repeated for ever on such an operation does not fail    *)
(* every time.  Nothing is owed to any other operation: a wallet_to_card   *)
(* transfer is submitted, resolved and processed by cmd/ledger alone       *)
(* (docs/integrations/blnk.md:68), and the ledger's own Drain has no other *)
(* caller.  Nor to new commands, the provider's verdict, late requests.    *)
(***************************************************************************)
On(w, k) == worker[w].step # "idle" /\ Reference(w)[1] = k
Answered(w) == worker[w].answer # "unknown"

Fairness ==
  /\ \A w \in Workers : WF_vars(Continue(w))
  /\ \A k \in Driven :
       /\ SF_vars(\E w \in Workers : Begin(w, k))
       /\ SF_vars(\E w \in Workers : On(w, k) /\ Lookup(w))
       /\ SF_vars(\E w \in Workers : On(w, k) /\ Post(w))
       /\ SF_vars(\E w \in Workers : On(w, k) /\ Answered(w) /\ Recheck(w))
       /\ SF_vars(\E w \in Workers : On(w, k) /\ Answered(w) /\ Finish(w))

FairSpec == Spec /\ Fairness

-----------------------------------------------------------------------------
Applied == {r \in References : blnk[r] = "APPLIED"}

WorkerType == [step : Steps, ref : References \cup {<<>>}, answer : Results]

(* Types of all variables. *)
TypeOK ==
  /\ command \in [Keys -> Commands \cup {<<>>}]
  /\ state \in [Keys -> States]
  /\ journal \subseteq References
  /\ lock \in Workers \cup {Nobody}
  /\ worker \in [Workers -> WorkerType]
  /\ blnk \in [References -> {"none", "APPLIED", "REJECTED", "FOREIGN"}]
  /\ balance \in [Accounts -> Int]
  /\ late \in [References -> 0..MaxLate]

(* What an operation's state says has moved, has moved in Blnk and is in   *)
(* the local journal: the state and the journal are never ahead of Blnk,   *)
(* whatever responses were lost (Process commits them after Apply).        *)
ClaimBacked(k) ==
  /\ state[k] \in {"awaiting_provider", "provider_unknown", "commit_pending",
                    "release_pending", "released"}
       => <<k, "reserve">> \in journal
  /\ state[k] = "released" => <<k, "release">> \in journal
  /\ state[k] = "applied" =>
       IF TwoPhase(k) THEN {<<k, "reserve">>, <<k, "commit">>} \subseteq journal
                      ELSE <<k, "post">> \in journal

ClaimsAreBacked == journal \subseteq Applied /\ \A k \in Keys : ClaimBacked(k)

(* A reservation is spent once: Blnk never holds both the commit and the   *)
(* release of an operation, and neither without its reservation, whatever  *)
(* crashes, retries and late requests do.                                  *)
OneOutcome ==
  \A k \in Keys :
    /\ ~({<<k, "commit">>, <<k, "release">>} \subseteq Applied)
    /\ \A ph \in {"commit", "release"} :
         <<k, ph>> \in Applied => <<k, "reserve">> \in Applied

(* The reservations still open on a transit account.                       *)
OpenOn(t) ==
  {k \in Keys : /\ <<k, "reserve">> \in Applied
                /\ {<<k, "commit">>, <<k, "release">>} \cap Applied = {}
                /\ command[k].transit = t}

(* What each of them reserved.                                             *)
Reserved(t) == [k \in OpenOn(t) |-> command[k].amount]

(* A transit account shared by several transfers to a card holds exactly   *)
(* the reservations that are still open, so each can always be committed   *)
(* or released in full: another transfer never spends it.                  *)
TransitHoldsOpenReservations ==
  \A t \in Accounts : KindOf[t] = "transit" => balance[t] = SumFunction(Reserved(t))

(* Customer-initiated transfers never overdraw (service.go, Process):      *)
(* wallets, transit and escrow accounts never go below zero, however       *)
(* transfers race on the same account.  A card may: settlement is a fact.  *)
NeverOverdrawn ==
  \A a \in Accounts :
    KindOf[a] \in {"wallet", "transit", "escrow"} => balance[a] >= 0

(* A rejected operation moved nothing: "rejected" is final, no worker will *)
(* look at the operation again (docs/integrations/blnk.md:34).             *)
RejectedMovesNothing ==
  \A k \in Keys, ph \in Phases :
    state[k] = "rejected" => <<k, ph>> \notin Applied

(* Snapshot compares Blnk with the journal under the customer lock.  What  *)
(* Blnk applied and the journal lacks is the very leg a pending operation  *)
(* retries: no mismatch is left behind by an operation that is over.       *)
MismatchIsPending ==
  \A r \in Applied \ journal :
    state[r[1]] \in Runnable /\ r[2] = PhaseOf(r[1])

(* An operation that is over has left nothing behind: a rejected one moved *)
(* nothing, and every movement the journal lacks is one that an open       *)
(* operation will record.                                                  *)
OverIsSettled == RejectedMovesNothing /\ MismatchIsPending

(* The provider's verdict is never reversed, and a settled operation never *)
(* changes again: Resolve accepts a contradiction in no state.             *)
DecisionIsFinal ==
  [][\A k \in Keys :
       /\ state[k] = "commit_pending" => state'[k] \in {"commit_pending", "applied", "review_required"}
       /\ state[k] = "release_pending" => state'[k] \in {"release_pending", "released", "review_required"}
       /\ state[k] \in Settled \cup {"review_required"} => state'[k] = state[k]]_vars

(* An operation that a worker drives does not wait for Blnk for ever,      *)
(* whoever else uses the same wallet and holds the customer's lock in      *)
(* between: a lost answer is found by its reference, a process that gives  *)
(* up leaves the lock free (Process), and a leg that cannot be paid is     *)
(* rejected rather than tried again.                                       *)
DueWorkCompletes ==
  \A k \in Driven : state[k] \in Runnable ~> state[k] \notin Runnable

-----------------------------------------------------------------------------
(* Why the properties hold: the inductive invariant.                       *)

(* A row of ledger_operations holds a well-formed command, and only a      *)
(* two-phase one goes through the states of a reservation.                 *)
RowsAreSound ==
  \A k \in Keys :
    /\ state[k] # "absent" => command[k] \in Commands /\ WellFormed(command[k])
    /\ state[k] \in {"awaiting_provider", "provider_unknown", "commit_pending",
                      "release_pending", "released"} => TwoPhase(k)

(* The process at work holds the customer's lock, so the row it read stays *)
(* as it was: the leg it posts is the leg the row's state calls for.       *)
WorkIsLocked ==
  \A w \in Workers : worker[w].step # "idle" =>
    /\ lock = w
    /\ Reference(w) \in References
    /\ state[Reference(w)[1]] \in Runnable
    /\ Reference(w)[2] = PhaseOf(Reference(w)[1])

(* What an answer says of Blnk at the time it is used. *)
AnswersAreTrue ==
  \A w \in Workers :
    /\ worker[w].step = "recheck" => worker[w].answer \in {"rejected", "unknown"}
    /\ worker[w].step = "finish" =>
         /\ worker[w].answer # "none"
         /\ worker[w].answer = "ok" => blnk[Reference(w)] = "APPLIED"
         /\ worker[w].answer = "conflict" => blnk[Reference(w)] = "FOREIGN"

(* A leg Blnk may have seen was called for by the state of its row, and    *)
(* the second leg of a transfer only once the first one is in the journal. *)
Touched(r) == late[r] > 0 \/ blnk[r] \in {"APPLIED", "REJECTED"}

LegsDue(k) ==
  /\ Touched(<<k, "post">>) => state[k] # "absent" /\ ~TwoPhase(k)
  /\ Touched(<<k, "reserve">>) => state[k] # "absent" /\ TwoPhase(k)
  /\ Touched(<<k, "commit">>) =>
       /\ state[k] \in {"commit_pending", "applied", "review_required"}
       /\ <<k, "reserve">> \in journal /\ TwoPhase(k)
  /\ Touched(<<k, "release">>) =>
       /\ state[k] \in {"release_pending", "released", "review_required"}
       /\ <<k, "reserve">> \in journal /\ TwoPhase(k)
  /\ ~(Touched(<<k, "commit">>) /\ Touched(<<k, "release">>))

LegsAreDue == \A k \in Keys : LegsDue(k)

Inductive ==
  /\ TypeOK /\ RowsAreSound /\ WorkIsLocked /\ AnswersAreTrue
  /\ LegsAreDue /\ ClaimsAreBacked /\ NeverOverdrawn

(* With no late requests, a refusal also means that nothing was applied.   *)
RefusalsAreTrue ==
  \A w \in Workers :
    worker[w].step \in {"recheck", "finish"} /\ worker[w].answer = "rejected"
      => blnk[Reference(w)] # "APPLIED"

PromptInductive ==
  Inductive /\ RefusalsAreTrue /\ RejectedMovesNothing /\ MismatchIsPending

-----------------------------------------------------------------------------
(* The abstract ledger this one implements: where an operation's money is, *)
(* read off Blnk, and what its state tells the callers.                    *)
Money(k) ==
  IF <<k, "post">> \in Applied \/ <<k, "commit">> \in Applied THEN "moved"
  ELSE IF <<k, "release">> \in Applied THEN "returned"
  ELSE IF <<k, "reserve">> \in Applied THEN "held" ELSE "nothing"

Told(k) ==
  CASE state[k] \in {"absent", "pending"} -> "open"
    [] state[k] \in {"awaiting_provider", "provider_unknown",
                     "commit_pending", "release_pending"} -> "reserved"
    [] state[k] = "applied"  -> "done"
    [] state[k] = "released" -> "undone"
    [] state[k] = "rejected" -> "refused"
    [] state[k] = "review_required" -> "review"

Promise == INSTANCE LedgerPromise
             WITH money <- [k \in Keys |-> Money(k)],
                  told <- [k \in Keys |-> Told(k)]

(* The ledger keeps its promise, as long as Blnk executes no request after *)
(* the client stopped waiting for it (MaxLate = 0): the state an operation *)
(* shows follows the money in Blnk, step by step.                          *)
KeepsPromise == Promise!Spec
=============================================================================
