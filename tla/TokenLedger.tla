---------------------------- MODULE TokenLedger ----------------------------
(***************************************************************************)
(* The part of the SPL token program and of the associated-token-account   *)
(* program that the escrow program calls.  Both are external: they are     *)
(* modelled from the CPIs in src/ (transfer, close_account, and the `init` *)
(* and `init_if_needed` constraints).                                      *)
(*                                                                         *)
(* A token account is named by its mint and its authority.  Constraints    *)
(* that accept any account with that mint and authority (`token::mint`,    *)
(* `token::authority`) are modelled by the associated one.                 *)
(***************************************************************************)
EXTENDS Integers, FiniteSets

VARIABLES accounts,   \* the token accounts that exist
          balance     \* the amount each of them holds, 0 where absent

ATA(mint, holder) == <<mint, holder>>

CanTransfer(from, to, amount) ==
    {from, to} \subseteq accounts /\ amount <= balance[from]

Moved(bal, from, to, amount) ==
    [bal EXCEPT ![from] = @ - amount, ![to] = @ + amount]

(* token::transfer: fails, and the instruction with it, without the funds. *)
Transfer(from, to, amount) ==
    /\ CanTransfer(from, to, amount)
    /\ balance' = Moved(balance, from, to, amount)
    /\ UNCHANGED accounts

(* `init` on a token account followed by a deposit: the account is new.    *)
OpenWithDeposit(from, to, amount) ==
    /\ to \notin accounts
    /\ from \in accounts
    /\ amount <= balance[from]
    /\ accounts' = accounts \cup {to}
    /\ balance' = Moved(balance, from, to, amount)

(* transfer of everything the account holds, then close_account on it.     *)
DrainAndClose(from, to) ==
    /\ {from, to} \subseteq accounts
    /\ accounts' = accounts \ {from}
    /\ balance' = Moved(balance, from, to, balance[from])
=============================================================================
