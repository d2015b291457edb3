------------------------------- MODULE Escrow -------------------------------
(***************************************************************************)
(* The whole program: lib.rs dispatches each transaction to one handler,   *)
(* in any order, from any signer.  Around it, the environment: the clock,  *)
(* token accounts created outside the program, and plain token transfers   *)
(* into a vault.                                                           *)
(*                                                                         *)
(* The *Inputs constants are the instruction arguments a run tries.  Only  *)
(* MaxTime bounds the behaviours; the rest is finite because slots, claim  *)
(* ids and money are.                                                      *)
(***************************************************************************)
EXTENDS ConfigIx, TaskIx, ClaimIx, DisputeIx, FeesIx

CONSTANTS AdminInputs, FeeBpsInputs, BountyInputs, SlotInputs,
          DeadlineInputs, ClaimDeadlineInputs, WithdrawInputs,
          DonationInputs,   \* amounts sent into a vault from outside
          OutOfBandAtas,    \* token accounts created outside the program
          ClosableAtas,     \* user accounts their owners may close
          FundedAtas,       \* user accounts that hold InitialFunds at first
          InitialFunds,
          MaxTime           \* the clock stops here

ASSUME InputAssumption ==
    /\ AdminInputs \subseteq Users
    /\ FeeBpsInputs \subseteq Nat
    /\ BountyInputs \subseteq U64
    /\ SlotInputs \subseteq Nat
    /\ DeadlineInputs \subseteq Int
    /\ ClaimDeadlineInputs \subseteq Nat
    /\ WithdrawInputs \subseteq U64
    /\ DonationInputs \subseteq U64
    /\ OutOfBandAtas \subseteq Mints \X Holders
    /\ ClosableAtas \subseteq Mints \X Users
    /\ FundedAtas \subseteq Mints \X Users
    /\ InitialFunds \in U64
    /\ MaxTime \in Nat \ {0}

Init ==
    /\ config = NoAccount
    /\ tasks = [t \in TaskIds |-> NoAccount]
    /\ claims = [c \in ClaimIds |-> NoAccount]
    /\ accounts = FundedAtas
    /\ balance = [a \in Mints \X Holders |->
                    IF a \in FundedAtas THEN InitialFunds ELSE 0]
    /\ now = 1

ConfigNext ==
    \/ \E mint \in Mints, admin \in AdminInputs, fee_bps \in FeeBpsInputs :
         InitializeConfig(mint, admin, fee_bps)
    \/ \E signer \in Users :
         \/ \E admin \in AdminInputs : UpdateAdmin(signer, admin)
         \/ \E fee_bps \in FeeBpsInputs : UpdateFee(signer, fee_bps)
         \/ \E mint \in Mints : UpdateMint(signer, mint)

TaskNext ==
    \E t \in TaskIds :
      \/ \E poster \in Users, bounty \in BountyInputs,
            max_slots \in SlotInputs, secs \in ClaimDeadlineInputs,
            ts \in DeadlineInputs :
           InitializeTask(poster, t, bounty, max_slots, secs, ts)
      \/ \E poster \in Users : CancelBeforeEnroll(poster, t)
      \/ \E caller \in Users : CloseTask(caller, t)
      \/ AutoCancelTask(t)

ClaimNext ==
    \E t \in TaskIds, c \in ClaimIds :
      \/ \E claimer \in Users, mint \in Mints : Enroll(claimer, mint, t, c)
      \/ \E signer \in Users :
           \/ Submit(signer, t, c)
           \/ ApproveClaim(signer, t, c)
           \/ RejectClaim(signer, t, c)
           \/ OpenDispute(signer, t, c)
           \/ ResolveDispute(signer, t, c)
      \/ AutoApprove(t, c)
      \/ AutoResolveDispute(t, c)

FeesNext ==
    \E signer \in Users, holder \in Holders, amount \in WithdrawInputs :
      WithdrawFees(signer, holder, amount)

(* External: time passes. *)
Tick ==
    /\ now < MaxTime
    /\ now' = now + 1
    /\ UNCHANGED <<config, tasks, claims, accounts, balance>>

(* External: the associated-token program creates an account for anyone.   *)
CreateAta(a) ==
    /\ a \notin accounts
    /\ accounts' = accounts \cup {a}
    /\ UNCHANGED <<config, tasks, claims, balance, now>>

(* External: the owner closes his own account, which must be empty.  The   *)
(* handlers never check that an account they paid once is still there.     *)
CloseAta(a) ==
    /\ a \in accounts
    /\ balance[a] = 0
    /\ accounts' = accounts \ {a}
    /\ UNCHANGED <<config, tasks, claims, balance, now>>

(* External: a user's plain SPL transfer into a task's vault.              *)
Donate(mint, user, t, amount) ==
    /\ Transfer(ATA(mint, user), ATA(mint, t), amount)
    /\ UNCHANGED <<config, tasks, claims, now>>

EnvironmentNext ==
    \/ Tick
    \/ \E a \in OutOfBandAtas : CreateAta(a)
    \/ \E a \in ClosableAtas : CloseAta(a)
    \/ \E mint \in Mints, user \in Users, t \in TaskIds,
          amount \in DonationInputs : Donate(mint, user, t, amount)

Next ==
    ConfigNext \/ TaskNext \/ ClaimNext \/ FeesNext \/ EnvironmentNext

Spec == Init /\ [][Next]_vars

(***************************************************************************)
(* The rule config.rs gives the admin: re-pin the mint only while no task  *)
(* is funded.  The program does not enforce it.                            *)
(***************************************************************************)
MintFlipRule ==
    Initialized /\ config'.usdc_mint # config.usdc_mint
        => \A t \in TaskIds : ~IsOpen(t)

PinnedSpec == Init /\ [][Next /\ MintFlipRule]_vars
=============================================================================
