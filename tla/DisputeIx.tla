----------------------------- MODULE DisputeIx -----------------------------
(***************************************************************************)
(* instructions/dispute.rs: a rejected claimer appeals; the admin decides, *)
(* or after the window anyone does, for the deliverer.  No handler here    *)
(* reads the task's status.                                                *)
(***************************************************************************)
EXTENDS EscrowState

(* Mutants: a dispute after the last rejection; the clock is not read.     *)
DisputableOrCancelled == {"Rejected", "Cancelled"}
AsDisputedUnstamped(claim) == [claim EXCEPT !.status = "Disputed"]

Disputable == {"Rejected"}
AsDisputed(claim) ==
    [claim EXCEPT !.status = "Disputed", !.disputed_at = now]

OpenDispute(claimer, t, c) ==
    /\ ClaimOn(t, c)
    /\ claims[c].claimer = claimer
    /\ claims[c].status \in Disputable
    /\ claims' = [claims EXCEPT ![c] = AsDisputed(@)]
    /\ UNCHANGED <<config, tasks, accounts, balance, now>>

UnderDispute(t, c) ==
    /\ Initialized
    /\ ClaimOn(t, c)
    /\ claims[c].status = "Disputed"

(* Whoever wins, every token account of both outcomes must be passed.      *)
ResolveAccounts(t, c) ==
    {Vault(t), Wallet(claims[c].claimer), Wallet(tasks[t].poster), FeeVault}

ResolveForDeliverer(t, c) ==
    /\ PayDeliverer(t, c)
    /\ Settled(c, "ResolvedDeliverer")
    /\ SlotApproved(t)

ResolveForPoster(t, c) ==
    /\ RefundSlot(t)
    /\ Settled(c, "ResolvedPoster")
    /\ SlotRefunded(t)

ResolveDispute(signer, t, c) ==
    /\ UnderDispute(t, c)
    /\ config.admin = signer
    /\ ResolveAccounts(t, c) \subseteq accounts
    /\ ResolveForDeliverer(t, c) \/ ResolveForPoster(t, c)
    /\ UNCHANGED <<config, now>>

AutoResolveDispute(t, c) ==
    /\ UnderDispute(t, c)
    /\ WindowElapsed(claims[c].disputed_at, AUTO_DISPUTE_WINDOW_SECS)
    /\ ResolveForDeliverer(t, c)
    /\ UNCHANGED <<config, now>>
=============================================================================
