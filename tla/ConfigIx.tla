----------------------------- MODULE ConfigIx ------------------------------
(***************************************************************************)
(* instructions/config.rs: creating the config singleton and the three     *)
(* admin-only updates of it.                                               *)
(***************************************************************************)
EXTENDS EscrowState

OnlyConfig == UNCHANGED <<tasks, claims, accounts, balance, now>>

(* Anyone may call it, once: the config and the fee vault are `init`.      *)
InitializeConfig(mint, admin, fee_bps) ==
    /\ ~Initialized
    /\ ATA(mint, ConfigPda) \notin accounts
    /\ fee_bps <= FEE_BPS_CAP
    /\ config' = [admin |-> admin, usdc_mint |-> mint, fee_bps |-> fee_bps]
    /\ accounts' = accounts \cup {ATA(mint, ConfigPda)}
    /\ UNCHANGED <<tasks, claims, balance, now>>

IsAdmin(signer) == Initialized /\ config.admin = signer

UpdateAdmin(signer, new_admin) ==
    /\ IsAdmin(signer)
    /\ config' = [config EXCEPT !.admin = new_admin]
    /\ OnlyConfig

UpdateFee(signer, new_fee_bps) ==
    /\ IsAdmin(signer)
    /\ new_fee_bps <= FEE_BPS_CAP
    /\ config' = [config EXCEPT !.fee_bps = new_fee_bps]
    /\ OnlyConfig

(* Re-pins the mint and nothing else: no vault is moved or created.        *)
UpdateMint(signer, new_mint) ==
    /\ IsAdmin(signer)
    /\ config' = [config EXCEPT !.usdc_mint = new_mint]
    /\ OnlyConfig
=============================================================================
