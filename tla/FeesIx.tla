------------------------------- MODULE FeesIx -------------------------------
(***************************************************************************)
(* instructions/fees.rs: the admin moves fees out of the fee vault.  The   *)
(* destination is any token account of the pinned mint, whoever owns it.   *)
(***************************************************************************)
EXTENDS EscrowState

WithdrawFees(signer, holder, amount) ==
    /\ Initialized
    /\ config.admin = signer
    /\ Transfer(FeeVault, ATA(config.usdc_mint, holder), amount)
    /\ UNCHANGED <<config, tasks, claims, now>>
=============================================================================
