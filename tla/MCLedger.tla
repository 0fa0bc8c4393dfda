------------------------------ MODULE MCLedger ------------------------------
(* Ledger with one wallet, one card with its transit account, an escrow and *)
(* the clearing account, small enough for TLC.                              *)
EXTENDS Ledger, TLC

CONSTANTS w1, w2

MCWorkers == {w1, w2}
MCAccounts == {"wallet", "card", "hold", "escrow", "clearing"}
MCKindOf == [a \in MCAccounts |-> IF a = "hold" THEN "transit" ELSE a]
MCCardOf == [a \in MCAccounts |-> IF a \in {"card", "hold"} THEN "card" ELSE "none"]

Cmd(k, kind, from, to, amount) ==
  [key |-> k, kind |-> kind, source |-> from, destination |-> to,
   transit |-> IF kind = "wallet_to_card" THEN "hold" ELSE from, amount |-> amount]

Credit(n) == Cmd("credit", "wallet_credit", "clearing", "wallet", n)
Fund(k, n) == Cmd(k, "wallet_to_card", "wallet", "card", n)
Hold(k, n) == Cmd(k, "crypto_move", "wallet", "escrow", n)

WorkerSymmetry == Permutations(MCWorkers)

(* A credit of 3, two transfers to the card and a hold that cannot all be  *)
(* paid, on one transit account.                                           *)
RaceKeys == {"credit", "t1", "t2", "hold"}
RaceCommands == {Credit(3), Fund("t1", 2), Fund("t2", 1), Hold("hold", 1)}

(* A credit and a hold that the workers drive; a transfer that is left to  *)
(* the command line, takes from the same wallet and finds the reference of *)
(* its commit used for something else; a settlement that may overdraw the  *)
(* card.                                                                   *)
MixKeys == {"credit", "hold", "t1", "spend"}
MixCommands == {Credit(2), Hold("hold", 1), Fund("t1", 2),
                Cmd("spend", "card_settlement", "card", "clearing", 1)}
MixPreexisting == {<<"t1", "commit">>}
MixDriven == {"credit", "hold"}

(* A transfer with and without the credit that pays it. *)
LateKeys == {"t1", "credit"}
LateCommands == {Credit(2), Fund("t1", 2)}
=============================================================================
