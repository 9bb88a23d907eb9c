---------------------------- MODULE LendingBook ----------------------------
(***************************************************************************)
(* What a lending pool promises its users, without indices, rates, prices  *)
(* or totals: every step concerns one user's entry for one token; what an  *)
(* entry gains or loses goes through the vault to the unit; and only       *)
(* interest, on an existing debt, changes an entry for free.               *)
(***************************************************************************)
EXTENDS Integers

CONSTANTS Users, Tokens, WETH

VARIABLES
  saved,   (* per token and user, what the user may claim                  *)
  owed,    (* per token and user, what the user must repay                 *)
  vault    (* per token, what the pool holds                               *)

bookVars == <<saved, owed, vault>>

Init ==
  /\ saved = [t \in Tokens |-> [u \in Users |-> 0]]
  /\ owed  = [t \in Tokens |-> [u \in Users |-> 0]]
  /\ vault = [t \in Tokens |-> 0]

(* Only u's debt in t changes.  It becomes base, plus interest if there    *)
(* was a debt before.                                                      *)
Owes(t, u, base) ==
  /\ owed' = [owed EXCEPT ![t][u] = owed'[t][u]]
  /\ owed'[t][u] >= base
  /\ owed[t][u] = 0 => owed'[t][u] = base

(* u moves amount, which is negative for a withdrawal, into the vault.     *)
Transfer(t, u) ==
  LET amount == saved'[t][u] - saved[t][u]
  IN  /\ saved[t][u] + amount >= 0
      /\ vault[t] + amount >= 0
      /\ saved' = [saved EXCEPT ![t][u] = @ + amount]
      /\ vault' = [vault EXCEPT ![t] = @ + amount]
      /\ Owes(t, u, owed[t][u])

Lend(t, u) ==
  LET amount == vault[t] - vault'[t]
  IN  /\ amount > 0
      /\ vault[t] >= amount
      /\ vault' = [vault EXCEPT ![t] = @ - amount]
      /\ Owes(t, u, owed[t][u] + amount)
      /\ UNCHANGED saved

Pay(t, u) ==
  LET amount == vault'[t] - vault[t]
  IN  /\ amount >= 0
      /\ vault' = [vault EXCEPT ![t] = @ + amount]
      /\ Owes(t, u, owed[t][u] - amount)
      /\ UNCHANGED saved

(* Somebody repays up to half of u's debt and is given WETH for it, which  *)
(* is written off u's savings in t.                                        *)
Settle(t, u) ==
  LET seized == saved[t][u] - saved'[t][u]
      repaid == vault'[t] - vault[t] + (IF t = WETH THEN seized ELSE 0)
      paidIn == [vault EXCEPT ![t] = @ + repaid]
  IN  /\ repaid >= 0
      /\ seized \in 0 .. saved[t][u]
      /\ repaid <= owed'[t][u]
      /\ saved' = [saved EXCEPT ![t][u] = @ - seized]
      /\ vault' = [paidIn EXCEPT ![WETH] = @ - seized]
      /\ Owes(t, u, owed[t][u] - repaid)

Next ==
  \E t \in Tokens, u \in Users :
    \/ Transfer(t, u)
    \/ Lend(t, u)
    \/ Pay(t, u)
    \/ Settle(t, u)

Spec == Init /\ [][Next]_bookVars
=============================================================================
