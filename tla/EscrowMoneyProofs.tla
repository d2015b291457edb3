-------------------------- MODULE EscrowMoneyProofs --------------------------
(***************************************************************************)
(* Where the money goes.  Every step is first reduced to what it does to   *)
(* the vaults; the theorems about vaults and settlements follow from that. *)
(***************************************************************************)
EXTENDS EscrowSlotProofs

-----------------------------------------------------------------------------
(* Different holders, different accounts.                                  *)

LEMMA AtaInjective ==
    ASSUME NEW mint, NEW other, NEW h, NEW k, ATA(mint, h) = ATA(other, k)
    PROVE  mint = other /\ h = k
  BY DEF ATA

LEMMA VaultAddresses ==
    ASSUME NEW mint \in Mints, NEW t \in TaskIds
    PROVE  /\ ATA(mint, t) \in Addresses
           /\ \A n, u : u \in Users => ATA(mint, t) # ATA(n, u)
           /\ \A n : ATA(mint, t) # ATA(n, ConfigPda)
           /\ \A n, u : u # t => ATA(mint, t) # ATA(n, u)
           /\ \A n, u : n # mint => ATA(mint, t) # ATA(n, u)
  BY AtaType, HolderTypes, HolderAssumption DEF ATA

LEMMA WalletIsNoFeeVault ==
    ASSUME NEW u \in Users
    PROVE  Wallet(u) # FeeVault
  BY HolderAssumption DEF Wallet, FeeVault, ATA

LEMMA PinnedMint ==
    ASSUME TypeOK, Initialized
    PROVE  config.usdc_mint \in Mints
  BY ExistingAccounts DEF EscrowConfig

-----------------------------------------------------------------------------
(* What a step does to tasks, claims and vaults, whichever instruction it  *)
(* is.  All but the last happen under a config they leave alone.           *)

FundsVault(t) ==
    /\ Initialized
    /\ FundsTask(t)
    /\ OpenWithDeposit(Wallet(tasks'[t].poster), Vault(t),
                       tasks'[t].bounty * tasks'[t].max_slots)
    /\ UNCHANGED config

EndsTask(t) ==
    /\ Initialized
    /\ RemovesTask(t) \/ ClosesTask(t)
    /\ DrainAndClose(Vault(t), Wallet(tasks[t].poster))
    /\ UNCHANGED config

(* Enrolment may create the claimer's account.                             *)
MovesNoMoney(t, c) ==
    /\ \/ TakesSlot(t, c)
       \/ MovesClaim(t, c, ClaimStatus \ Terminal) /\ UNCHANGED tasks
    /\ accounts \subseteq accounts'
    /\ \A a \in accounts' : a \in accounts \/ a \in Mints \X Users
    /\ UNCHANGED <<config, balance>>

PaysSlot(t, c) ==
    /\ Initialized
    /\ MovesClaim(t, c, PaidStatus)
    /\ SlotApproved(t)
    /\ PayDeliverer(t, c)
    /\ UNCHANGED config

RefundsSlot(t, c) ==
    /\ Initialized
    /\ MovesClaim(t, c, RefundedStatus)
    /\ SlotRefunded(t)
    /\ RefundSlot(t)
    /\ UNCHANGED config

(* A withdrawal of fees or a donation: never out of a vault.               *)
PlainTransfer ==
    /\ SameBooks
    /\ \E mint \in Mints, other \in Mints, h \in Holders \ TaskIds,
          k \in Holders, amount \in Nat :
         Transfer(ATA(mint, h), ATA(other, k), amount)
    /\ UNCHANGED config

(* Settings, time, and accounts created or closed outside the program.     *)
NoBusiness ==
    /\ SameBooks
    /\ UNCHANGED balance
    /\ Initialized => Initialized'
    /\ \A mint \in Mints, t \in TaskIds :
         /\ ATA(mint, t) \in accounts => ATA(mint, t) \in accounts'
         /\ ATA(mint, t) \in accounts' =>
              ATA(mint, t) \in accounts \cup OutOfBandAtas

OnTask(t) ==
    \/ FundsVault(t)
    \/ EndsTask(t)
    \/ \E c \in ClaimIds :
         MovesNoMoney(t, c) \/ PaysSlot(t, c) \/ RefundsSlot(t, c)

MoneyStep ==
    \/ \E t \in TaskIds : OnTask(t)
    \/ PlainTransfer
    \/ NoBusiness

-----------------------------------------------------------------------------
(* Every step is one of these.                                             *)

LEMMA InitializeTaskMoney ==
    ASSUME Inv0, NEW poster \in Users, NEW t \in TaskIds,
           NEW bounty \in U64, NEW max_slots \in Nat, NEW secs \in Nat,
           NEW ts \in Int,
           InitializeTask(poster, t, bounty, max_slots, secs, ts)
    PROVE  FundsVault(t)
  <1>1. FundsTask(t)
    BY InitializeTaskStep
  <1>2. /\ tasks'[t].poster = poster
        /\ tasks'[t].bounty = bounty
        /\ tasks'[t].max_slots = max_slots
    BY DEF Inv0, TypeOK, InitializeTask
  <1>3. OpenWithDeposit(Wallet(poster), Vault(t), bounty * max_slots)
    BY DEF InitializeTask, Deposit
  <1> QED
    BY <1>1, <1>2, <1>3 DEF FundsVault, InitializeTask

LEMMA TaskNextMoney ==
    ASSUME Inv0, TaskNext
    PROVE  MoneyStep
  <1>1. PICK t \in TaskIds :
          \/ \E poster \in Users, bounty \in BountyInputs,
                max_slots \in SlotInputs, secs \in ClaimDeadlineInputs,
                ts \in DeadlineInputs :
               InitializeTask(poster, t, bounty, max_slots, secs, ts)
          \/ \E poster \in Users : CancelBeforeEnroll(poster, t)
          \/ \E caller \in Users : CloseTask(caller, t)
          \/ AutoCancelTask(t)
    BY DEF TaskNext
  <1>2. CASE \E poster \in Users, bounty \in BountyInputs,
                max_slots \in SlotInputs, secs \in ClaimDeadlineInputs,
                ts \in DeadlineInputs :
               InitializeTask(poster, t, bounty, max_slots, secs, ts)
    <2>1. FundsVault(t)
      BY <1>2, InputAssumption, InitializeTaskMoney
    <2> QED
      BY <2>1 DEF MoneyStep, OnTask
  <1>3. CASE \E poster \in Users : CancelBeforeEnroll(poster, t)
    <2>1. PICK poster \in Users : CancelBeforeEnroll(poster, t)
      BY <1>3
    <2>2. RemovesTask(t)
      BY <2>1, CancelBeforeEnrollStep
    <2>3. EndsTask(t)
      BY <2>1, <2>2 DEF CancelBeforeEnroll, EndsTask
    <2> QED
      BY <2>3 DEF MoneyStep, OnTask
  <1>4. CASE AutoCancelTask(t) \/ \E caller \in Users : CloseTask(caller, t)
    <2>1. ClosesTask(t) /\ Initialized /\ RefundAndClose(t)
      BY <1>4, AutoCancelTaskStep, CloseTaskStep DEF AutoCancelTask, CloseTask
    <2>2. EndsTask(t)
      BY <2>1 DEF RefundAndClose, EndsTask
    <2> QED
      BY <2>2 DEF MoneyStep, OnTask
  <1> QED
    BY <1>1, <1>2, <1>3, <1>4

LEMMA PaidSlotMoney ==
    ASSUME Inv0, NEW t \in TaskIds, NEW c \in ClaimIds,
           \/ \E poster \in Users : ApproveClaim(poster, t, c)
           \/ AutoApprove(t, c)
           \/ /\ UnderDispute(t, c) /\ ResolveForDeliverer(t, c)
              /\ UNCHANGED <<config, now>>
    PROVE  PaysSlot(t, c)
  <1>1. MovesClaim(t, c, PaidStatus) /\ SlotApproved(t)
    BY ApproveClaimStep, ResolveForDelivererStep
  <1>2. Initialized /\ PayDeliverer(t, c) /\ UNCHANGED config
    BY DEF ApproveClaim, AutoApprove, UnderReview, UnderDispute,
       ResolveForDeliverer
  <1> QED
    BY <1>1, <1>2 DEF PaysSlot

LEMMA DisputeLostMoney ==
    ASSUME Inv0, NEW t \in TaskIds, NEW c \in ClaimIds, UnderDispute(t, c),
           ResolveForPoster(t, c), UNCHANGED <<config, now>>
    PROVE  RefundsSlot(t, c)
  BY ResolveForPosterStep DEF UnderDispute, ResolveForPoster, RefundsSlot

LEMMA RejectClaimMoney ==
    ASSUME Inv0, NEW poster \in Users, NEW t \in TaskIds, NEW c \in ClaimIds,
           RejectClaim(poster, t, c)
    PROVE  MovesNoMoney(t, c) \/ RefundsSlot(t, c)
  <1>1. Initialized /\ UNCHANGED config /\ tasks \in [TaskIds -> EscrowTask \cup {NoAccount}]
    BY DEF Inv0, TypeOK, RejectClaim, UnderReview
  <1>2. tasks[t] \in EscrowTask
    BY ExistingAccounts DEF Inv0, RejectClaim, UnderReview, ClaimOn
  <1>3. CASE RejectForRework(t, c)
    <2>1. UNCHANGED <<tasks, accounts, balance>>
      BY <1>3 DEF RejectForRework
    <2>2. ~SlotRefunded(t)
      BY <1>1, <1>2, <2>1 DEF SlotRefunded, EscrowTask
    <2>3. MovesClaim(t, c, ClaimStatus \ Terminal)
      BY <2>2, RejectClaimStep
    <2> QED
      BY <1>1, <2>1, <2>3 DEF MovesNoMoney
  <1>4. CASE RejectForGood(t, c)
    <2>1. SlotRefunded(t) /\ RefundSlot(t)
      BY <1>4 DEF RejectForGood
    <2>2. ~UNCHANGED tasks
      BY <1>1, <1>2, <2>1 DEF SlotRefunded, EscrowTask
    <2>3. MovesClaim(t, c, RefundedStatus)
      BY <2>2, RejectClaimStep
    <2> QED
      BY <1>1, <2>1, <2>3 DEF RefundsSlot
  <1> QED
    BY <1>3, <1>4 DEF RejectClaim

LEMMA ClaimNextMoney ==
    ASSUME Inv0, ClaimNext
    PROVE  MoneyStep
  <1>1. PICK t \in TaskIds, c \in ClaimIds :
          \/ \E claimer \in Users, mint \in Mints : Enroll(claimer, mint, t, c)
          \/ \E signer \in Users :
               \/ Submit(signer, t, c)
               \/ ApproveClaim(signer, t, c)
               \/ RejectClaim(signer, t, c)
               \/ OpenDispute(signer, t, c)
               \/ ResolveDispute(signer, t, c)
          \/ AutoApprove(t, c)
          \/ AutoResolveDispute(t, c)
    BY DEF ClaimNext
  <1> DEFINE Outcome ==
        MovesNoMoney(t, c) \/ PaysSlot(t, c) \/ RefundsSlot(t, c)
  <1>2. ASSUME NEW claimer \in Users, NEW mint \in Mints,
               Enroll(claimer, mint, t, c)
        PROVE  Outcome
    <2>1. TakesSlot(t, c)
      BY <1>2, EnrollStep
    <2>2. /\ accounts' = accounts \cup {ATA(mint, claimer)}
          /\ UNCHANGED <<config, balance>>
          /\ ATA(mint, claimer) \in Mints \X Users
      BY <1>2 DEF Enroll, ATA
    <2>3. MovesNoMoney(t, c)
      BY <2>1, <2>2 DEF MovesNoMoney
    <2> QED
      BY <2>3
  <1>3. ASSUME NEW signer \in Users,
               Submit(signer, t, c) \/ OpenDispute(signer, t, c)
        PROVE  Outcome
    <2>1. MovesClaim(t, c, ClaimStatus \ Terminal) /\ UNCHANGED tasks
      BY <1>3, SubmitStep, OpenDisputeStep
    <2>2. UNCHANGED <<config, accounts, balance>>
      BY <1>3 DEF Submit, OpenDispute
    <2>3. MovesNoMoney(t, c)
      BY <2>1, <2>2 DEF MovesNoMoney
    <2> QED
      BY <2>3
  <1>4. ASSUME NEW signer \in Users, ApproveClaim(signer, t, c)
        PROVE  Outcome
    BY <1>4, PaidSlotMoney
  <1>5. ASSUME NEW signer \in Users, RejectClaim(signer, t, c)
        PROVE  Outcome
    BY <1>5, RejectClaimMoney
  <1>6. ASSUME NEW signer \in Users, ResolveDispute(signer, t, c)
        PROVE  Outcome
    BY <1>6, PaidSlotMoney, DisputeLostMoney DEF ResolveDispute
  <1>7. ASSUME AutoApprove(t, c)
        PROVE  Outcome
    BY <1>7, PaidSlotMoney
  <1>8. ASSUME AutoResolveDispute(t, c)
        PROVE  Outcome
    BY <1>8, PaidSlotMoney DEF AutoResolveDispute
  <1>9. Outcome
    BY <1>1, <1>2, <1>3, <1>4, <1>5, <1>6, <1>7, <1>8
  <1> QED
    BY <1>9 DEF MoneyStep, OnTask

LEMMA ConfigNextMoney ==
    ASSUME Inv0, ConfigNext
    PROVE  MoneyStep
  <1>1. ASSUME NEW mint \in Mints, NEW admin \in AdminInputs,
               NEW fee_bps \in FeeBpsInputs,
               InitializeConfig(mint, admin, fee_bps)
        PROVE  NoBusiness
    <2>1. \A other, t : t \in TaskIds => ATA(other, t) # ATA(mint, ConfigPda)
      BY HolderAssumption DEF ATA
    <2> QED
      BY <1>1, <2>1 DEF InitializeConfig, NoBusiness, SameBooks
  <1>2. ASSUME NEW signer \in Users,
               \/ \E admin \in AdminInputs : UpdateAdmin(signer, admin)
               \/ \E fee_bps \in FeeBpsInputs : UpdateFee(signer, fee_bps)
               \/ \E mint \in Mints : UpdateMint(signer, mint)
        PROVE  NoBusiness
    <2>1. OnlyConfig
      BY <1>2 DEF UpdateAdmin, UpdateFee, UpdateMint
    <2>2. config' \in EscrowConfig
      <3>1. config \in EscrowConfig
        BY <1>2, ExistingAccounts
        DEF Inv0, UpdateAdmin, UpdateFee, UpdateMint, IsAdmin
      <3>2. CASE \E admin \in AdminInputs : UpdateAdmin(signer, admin)
        BY <3>1, <3>2, InputAssumption DEF UpdateAdmin, EscrowConfig
      <3>3. CASE \E fee_bps \in FeeBpsInputs : UpdateFee(signer, fee_bps)
        BY <3>1, <3>3, InputAssumption DEF UpdateFee, EscrowConfig, FEE_BPS_CAP
      <3>4. CASE \E mint \in Mints : UpdateMint(signer, mint)
        BY <3>1, <3>4 DEF UpdateMint, EscrowConfig
      <3> QED
        BY <1>2, <3>2, <3>3, <3>4
    <2> QED
      BY <2>1, <2>2, NoAccountAssumption
      DEF OnlyConfig, NoBusiness, SameBooks, Initialized
  <1> QED
    BY <1>1, <1>2 DEF ConfigNext, MoneyStep

LEMMA FeesNextMoney ==
    ASSUME Inv0, FeesNext
    PROVE  MoneyStep
  <1>1. PICK signer \in Users, holder \in Holders, amount \in WithdrawInputs :
          WithdrawFees(signer, holder, amount)
    BY DEF FeesNext
  <1>2. config.usdc_mint \in Mints /\ amount \in Nat
    BY <1>1, PinnedMint, InputAssumption DEF Inv0, WithdrawFees, U64
  <1>3. Transfer(ATA(config.usdc_mint, ConfigPda),
                 ATA(config.usdc_mint, holder), amount)
    BY <1>1 DEF WithdrawFees, FeeVault
  <1>4. ConfigPda \in Holders \ TaskIds
    BY HolderAssumption, HolderTypes
  <1>5. UNCHANGED <<config, tasks, claims>>
    BY <1>1 DEF WithdrawFees
  <1>6. PlainTransfer
    BY <1>2, <1>3, <1>4, <1>5 DEF PlainTransfer, SameBooks
  <1> QED
    BY <1>6 DEF MoneyStep

LEMMA EnvironmentNextMoney ==
    ASSUME Inv0, EnvironmentNext
    PROVE  MoneyStep
  <1>1. CASE Tick
    BY <1>1 DEF Tick, MoneyStep, NoBusiness, SameBooks, Initialized
  <1>2. ASSUME NEW a \in OutOfBandAtas, CreateAta(a)
        PROVE  MoneyStep
    BY <1>2 DEF CreateAta, MoneyStep, NoBusiness, SameBooks, Initialized
  <1>3. ASSUME NEW a \in ClosableAtas, CloseAta(a)
        PROVE  MoneyStep
    <2>1. a \in Mints \X Users
      BY InputAssumption
    <2>2. \A mint, t : t \in TaskIds => ATA(mint, t) # a
      BY <2>1, HolderAssumption DEF ATA
    <2>3. NoBusiness
      BY <1>3, <2>2 DEF CloseAta, NoBusiness, SameBooks, Initialized
    <2> QED
      BY <2>3 DEF MoneyStep
  <1>4. ASSUME NEW mint \in Mints, NEW user \in Users, NEW t \in TaskIds,
               NEW amount \in DonationInputs, Donate(mint, user, t, amount)
        PROVE  MoneyStep
    <2>1. /\ user \in Holders \ TaskIds /\ t \in Holders
          /\ amount \in Nat
      BY HolderTypes, HolderAssumption, InputAssumption DEF U64
    <2>2. PlainTransfer
      BY <1>4, <2>1 DEF Donate, PlainTransfer, SameBooks
    <2> QED
      BY <2>2 DEF MoneyStep
  <1> QED
    BY <1>1, <1>2, <1>3, <1>4 DEF EnvironmentNext

LEMMA NextMoney ==
    ASSUME Inv0, [Next]_vars
    PROVE  MoneyStep
  <1>1. CASE UNCHANGED vars
    BY <1>1 DEF vars, MoneyStep, NoBusiness, SameBooks, Initialized
  <1> QED
    BY <1>1, TaskNextMoney, ClaimNextMoney, ConfigNextMoney,
       FeesNextMoney, EnvironmentNextMoney DEF Next

-----------------------------------------------------------------------------
(* What each of them does to the balances.                                 *)

LEMMA PaidAmounts ==
    ASSUME Inv0, NEW t \in TaskIds, NEW c \in ClaimIds, PaysSlot(t, c)
    PROVE  LET split   == ComputeFeeSplit(tasks[t].bounty, config.fee_bps)
               claimer == Wallet(claims[c].claimer)
           IN  /\ balance'[Vault(t)] = balance[Vault(t)] - tasks[t].bounty
               /\ balance'[claimer] = balance[claimer] + split.net
               /\ balance'[FeeVault] = balance[FeeVault] + split.fee
               /\ \A a \in Addresses \ {Vault(t), claimer, FeeVault} :
                    balance'[a] = balance[a]
               /\ UNCHANGED accounts
  <1> DEFINE split == ComputeFeeSplit(tasks[t].bounty, config.fee_bps)
             claimer == Wallet(claims[c].claimer)
             paid == Moved(balance, Vault(t), claimer, split.net)
  <1>1. /\ TypeOK /\ Initialized /\ TaskExists(t) /\ ClaimExists(c)
        /\ PayDeliverer(t, c)
    BY DEF PaysSlot, MovesClaim, ClaimOn, Inv0
  <1>2. /\ tasks[t].bounty \in U64
        /\ config.fee_bps \in 0 .. FEE_BPS_CAP
        /\ claims[c].claimer \in Users
    BY <1>1, ExistingAccounts DEF EscrowTask, EscrowConfig, EscrowClaim
  <1>3. split.net \in Nat /\ split.fee \in Nat
        /\ split.net + split.fee = tasks[t].bounty
    BY <1>2, FeeSplitIsExact
  <1>4. /\ Vault(t) \in Addresses /\ claimer \in Addresses
        /\ FeeVault \in Addresses
    BY <1>1, <1>2, PinnedAddresses
  <1>5. Vault(t) # claimer /\ Vault(t) # FeeVault /\ claimer # FeeVault
    BY <1>2, HolderAssumption, VaultIsNoWallet, WalletIsNoFeeVault
    DEF Vault, FeeVault, ATA
  <1>6. /\ split.net <= balance[Vault(t)]
        /\ balance' = Moved(paid, Vault(t), FeeVault, split.fee)
        /\ UNCHANGED accounts
    BY <1>1 DEF PayDeliverer
  <1>7. balance \in [Addresses -> Nat]
    BY <1>1, TypeOKLedger DEF LedgerOK
  <1> HIDE DEF split, claimer
  <1>8. paid \in [Addresses -> Nat]
    BY <1>3, <1>4, <1>6, <1>7, MovedType
  <1>9. /\ paid[Vault(t)] = balance[Vault(t)] - split.net
        /\ paid[claimer] = balance[claimer] + split.net
        /\ \A a \in Addresses \ {Vault(t), claimer} : paid[a] = balance[a]
    BY <1>3, <1>4, <1>5, <1>7, MovedValues
  <1> HIDE DEF paid
  <1>10. /\ balance'[Vault(t)] = paid[Vault(t)] - split.fee
         /\ balance'[FeeVault] = paid[FeeVault] + split.fee
         /\ \A a \in Addresses \ {Vault(t), FeeVault} : balance'[a] = paid[a]
    <2> DEFINE after == Moved(paid, Vault(t), FeeVault, split.fee)
    <2>1. /\ after[Vault(t)] = paid[Vault(t)] - split.fee
          /\ after[FeeVault] = paid[FeeVault] + split.fee
          /\ \A a \in Addresses \ {Vault(t), FeeVault} : after[a] = paid[a]
      BY <1>3, <1>4, <1>5, <1>8, MovedValues
    <2>2. balance' = after
      BY <1>6
    <2> HIDE DEF after
    <2> QED
      BY <2>1, <2>2
  <1>11. balance[Vault(t)] \in Nat /\ tasks[t].bounty \in Nat
    BY <1>2, <1>4, <1>7 DEF U64
  <1>12. balance'[Vault(t)] = balance[Vault(t)] - tasks[t].bounty
    BY <1>3, <1>9, <1>10, <1>11
  <1>13. /\ balance'[claimer] = balance[claimer] + split.net
         /\ balance'[FeeVault] = balance[FeeVault] + split.fee
         /\ \A a \in Addresses \ {Vault(t), claimer, FeeVault} :
              balance'[a] = balance[a]
    BY <1>4, <1>5, <1>9, <1>10
  <1> QED
    BY <1>6, <1>12, <1>13 DEF split, claimer

LEMMA RefundedAmounts ==
    ASSUME Inv0, NEW t \in TaskIds, NEW c \in ClaimIds, RefundsSlot(t, c)
    PROVE  LET poster == Wallet(tasks[t].poster)
           IN  /\ balance'[Vault(t)] = balance[Vault(t)] - tasks[t].bounty
               /\ balance'[poster] = balance[poster] + tasks[t].bounty
               /\ \A a \in Addresses \ {Vault(t), poster} :
                    balance'[a] = balance[a]
               /\ UNCHANGED accounts
  <1>1. /\ TypeOK /\ Initialized /\ TaskExists(t) /\ RefundSlot(t)
    BY DEF RefundsSlot, MovesClaim, ClaimOn, Inv0
  <1>2. tasks[t].bounty \in Nat /\ tasks[t].poster \in Users
    BY <1>1, ExistingAccounts DEF EscrowTask, U64
  <1>3. /\ Vault(t) \in Addresses /\ Wallet(tasks[t].poster) \in Addresses
        /\ Vault(t) # Wallet(tasks[t].poster)
    BY <1>1, <1>2, PinnedAddresses, VaultIsNoWallet
  <1>4. balance \in [Addresses -> Nat]
    BY <1>1, TypeOKLedger DEF LedgerOK
  <1> QED
    BY <1>1, <1>2, <1>3, <1>4, MovedValues DEF RefundSlot, Transfer

LEMMA EndedAmounts ==
    ASSUME Inv0, NEW t \in TaskIds, EndsTask(t)
    PROVE  LET poster == Wallet(tasks[t].poster)
           IN  /\ balance'[Vault(t)] = 0
               /\ balance'[poster] = balance[poster] + balance[Vault(t)]
               /\ \A a \in Addresses \ {Vault(t), poster} :
                    balance'[a] = balance[a]
               /\ accounts' = accounts \ {Vault(t)}
  <1>1. /\ TypeOK /\ Initialized /\ TaskExists(t)
        /\ DrainAndClose(Vault(t), Wallet(tasks[t].poster))
    BY DEF EndsTask, RemovesTask, ClosesTask, IsOpen, Inv0
  <1>2. tasks[t].poster \in Users
    BY <1>1, ExistingAccounts DEF EscrowTask
  <1>3. /\ Vault(t) \in Addresses /\ Wallet(tasks[t].poster) \in Addresses
        /\ Vault(t) # Wallet(tasks[t].poster)
    BY <1>1, <1>2, PinnedAddresses, VaultIsNoWallet
  <1>4. balance \in [Addresses -> Nat] /\ balance[Vault(t)] \in Nat
    BY <1>1, <1>3, TypeOKLedger DEF LedgerOK
  <1> QED
    BY <1>1, <1>3, <1>4, MovedValues DEF DrainAndClose

(* The deposit is all the new vault holds.                                 *)
LEMMA FundedAmounts ==
    ASSUME Inv0, NEW t \in TaskIds, FundsVault(t)
    PROVE  LET deposit == tasks'[t].bounty * tasks'[t].max_slots
               poster  == Wallet(tasks'[t].poster)
           IN  /\ tasks'[t] \in EscrowTask
               /\ Vault(t) \notin accounts
               /\ balance'[Vault(t)] = deposit
               /\ balance'[poster] = balance[poster] - deposit
               /\ \A a \in Addresses \ {Vault(t), poster} :
                    balance'[a] = balance[a]
               /\ accounts' = accounts \cup {Vault(t)}
  <1> DEFINE deposit == tasks'[t].bounty * tasks'[t].max_slots
             poster  == Wallet(tasks'[t].poster)
  <1>1. /\ TypeOK /\ Initialized
        /\ OpenWithDeposit(poster, Vault(t), deposit)
    BY DEF FundsVault, Inv0
  <1>2. tasks'[t] \in EscrowTask
    BY <1>1 DEF FundsVault, FundsTask, TypeOK
  <1>3. tasks'[t].poster \in Users /\ deposit \in Nat
    BY <1>2 DEF EscrowTask, U64, MAX_SLOTS_LIMIT
  <1>4. /\ Vault(t) \in Addresses /\ poster \in Addresses
        /\ Vault(t) # poster
    BY <1>1, <1>3, PinnedAddresses, VaultIsNoWallet
  <1> HIDE DEF deposit, poster
  <1>5. balance \in [Addresses -> Nat]
    BY <1>1, TypeOKLedger DEF LedgerOK
  <1>6. Vault(t) \notin accounts /\ balance[Vault(t)] = 0
    BY <1>1, <1>4, TypeOKLedger DEF LedgerOK, OpenWithDeposit
  <1>7. /\ balance'[Vault(t)] = deposit
        /\ balance'[poster] = balance[poster] - deposit
        /\ \A a \in Addresses \ {Vault(t), poster} : balance'[a] = balance[a]
        /\ accounts' = accounts \cup {Vault(t)}
    BY <1>1, <1>3, <1>4, <1>5, <1>6, MovedValues DEF OpenWithDeposit
  <1> QED
    BY <1>2, <1>6, <1>7 DEF deposit, poster

-----------------------------------------------------------------------------
(* Seen from the vaults, of whatever mint: a step on one task touches that *)
(* task's vault of the pinned mint and no other.                           *)

KeepsVault(mint, u) ==
    /\ balance'[ATA(mint, u)] = balance[ATA(mint, u)]
    /\ ATA(mint, u) \in accounts' <=> ATA(mint, u) \in accounts

LEMMA VaultIsPinned ==
    ASSUME NEW mint, NEW u, NEW t, ATA(mint, u) = Vault(t)
    PROVE  mint = config.usdc_mint /\ u = t
  BY DEF Vault, ATA

LEMMA MovesNoMoneyVaults ==
    ASSUME Inv0, NEW t \in TaskIds, NEW c \in ClaimIds, MovesNoMoney(t, c),
           NEW mint \in Mints, NEW u \in TaskIds
    PROVE  KeepsVault(mint, u)
  <1>1. ATA(mint, u) \notin Mints \X Users
    BY HolderAssumption DEF ATA
  <1> QED
    BY <1>1 DEF MovesNoMoney, KeepsVault

LEMMA OtherVaultsKept ==
    ASSUME Inv0, NEW t \in TaskIds, OnTask(t),
           NEW mint \in Mints, NEW u \in TaskIds,
           u # t \/ mint # config.usdc_mint
    PROVE  KeepsVault(mint, u)
  <1> DEFINE v == ATA(mint, u)
  <1>1. /\ v \in Addresses
        /\ v # Vault(t)
        /\ v # FeeVault
        /\ \A user \in Users : v # Wallet(user)
    BY VaultAddresses, VaultIsPinned DEF FeeVault, Wallet
  <1>2. CASE FundsVault(t)
    <2>1. tasks'[t].poster \in Users
      BY <1>2, FundedAmounts DEF EscrowTask
    <2> QED
      BY <1>1, <1>2, <2>1, FundedAmounts DEF KeepsVault
  <1>3. CASE EndsTask(t)
    <2>1. tasks[t].poster \in Users
      BY <1>3, ExistingAccounts
      DEF EndsTask, RemovesTask, ClosesTask, IsOpen, Inv0, EscrowTask
    <2> QED
      BY <1>1, <1>3, <2>1, EndedAmounts DEF KeepsVault
  <1>4. ASSUME NEW c \in ClaimIds, PaysSlot(t, c)
        PROVE  KeepsVault(mint, u)
    <2>1. claims[c].claimer \in Users
      BY <1>4, ExistingAccounts
      DEF PaysSlot, MovesClaim, ClaimOn, Inv0, EscrowClaim
    <2> QED
      BY <1>1, <1>4, <2>1, PaidAmounts DEF KeepsVault
  <1>5. ASSUME NEW c \in ClaimIds, RefundsSlot(t, c)
        PROVE  KeepsVault(mint, u)
    <2>1. tasks[t].poster \in Users
      BY <1>5, ExistingAccounts
      DEF RefundsSlot, MovesClaim, ClaimOn, Inv0, EscrowTask
    <2> QED
      BY <1>1, <1>5, <2>1, RefundedAmounts DEF KeepsVault
  <1> QED
    BY <1>2, <1>3, <1>4, <1>5, MovesNoMoneyVaults DEF OnTask

LEMMA PlainTransferVaults ==
    ASSUME Inv0, PlainTransfer, NEW mint \in Mints, NEW u \in TaskIds
    PROVE  /\ balance'[ATA(mint, u)] >= balance[ATA(mint, u)]
           /\ UNCHANGED accounts
  <1> DEFINE v == ATA(mint, u)
  <1>1. PICK m \in Mints, n \in Mints, h \in Holders \ TaskIds, k \in Holders,
             amount \in Nat : Transfer(ATA(m, h), ATA(n, k), amount)
    BY DEF PlainTransfer
  <1> DEFINE from == ATA(m, h)
             to   == ATA(n, k)
  <1>2. /\ v \in Addresses /\ from \in Addresses /\ to \in Addresses
        /\ v # from
    BY AtaType, HolderTypes DEF ATA
  <1>3. /\ balance \in [Addresses -> Nat]
        /\ balance' = Moved(balance, from, to, amount)
        /\ UNCHANGED accounts
    BY <1>1, TypeOKLedger DEF LedgerOK, Transfer, Inv0
  <1> HIDE DEF v, from, to
  <1>4. balance[v] \in Nat
    BY <1>2, <1>3
  <1>5. balance'[v] = balance[v] \/ balance'[v] = balance[v] + amount
    BY <1>2, <1>3 DEF Moved
  <1> QED
    BY <1>3, <1>4, <1>5 DEF v

-----------------------------------------------------------------------------
(* What each of them does to a task and to what it owes.                   *)

LEMMA TimesLess ==
    ASSUME NEW b \in Int, NEW n \in Int
    PROVE  b * (n - 1) = b * n - b
  OBVIOUS

LEMMA OwedType ==
    ASSUME NEW t, tasks[t] \in EscrowTask
    PROVE  /\ tasks[t].bounty \in Nat \ {0}
           /\ Owed(t) \in Int
  BY DEF EscrowTask, U64, MAX_SLOTS_LIMIT, Owed

LEMMA SameTaskOwesSame ==
    ASSUME NEW u, tasks'[u] = tasks[u]
    PROVE  Owed(u)' = Owed(u) /\ (IsOpen(u)' <=> IsOpen(u))
  BY DEF Owed, IsOpen, TaskExists

(* A settled slot: one bounty less is owed, and nothing else changes but   *)
(* its counter.                                                            *)
LEMMA SettledTask ==
    ASSUME Inv0, NEW t \in TaskIds, NEW c \in ClaimIds,
           PaysSlot(t, c) \/ RefundsSlot(t, c)
    PROVE  /\ tasks[t] \in EscrowTask /\ tasks'[t] \in EscrowTask
           /\ Terms(tasks'[t]) = Terms(tasks[t])
           /\ tasks'[t].bounty = tasks[t].bounty
           /\ tasks'[t].poster = tasks[t].poster
           /\ tasks'[t].max_slots = tasks[t].max_slots
           /\ tasks'[t].status = tasks[t].status
           /\ \/ /\ PaysSlot(t, c)
                 /\ tasks'[t].slots_approved = tasks[t].slots_approved + 1
              \/ /\ RefundsSlot(t, c)
                 /\ tasks'[t].slots_approved = tasks[t].slots_approved
           /\ IsOpen(t)' <=> IsOpen(t)
           /\ Owed(t)' = Owed(t) - tasks[t].bounty
           /\ \A u \in TaskIds \ {t} : tasks'[u] = tasks[u]
  <1>1. tasks[t] \in EscrowTask /\ TaskExists(t)
    BY ExistingAccounts
    DEF PaysSlot, RefundsSlot, MovesClaim, ClaimOn, Inv0
  <1>2. tasks \in [TaskIds -> EscrowTask \cup {NoAccount}]
    BY DEF Inv0, TypeOK
  <1>3. \A u \in TaskIds \ {t} : tasks'[u] = tasks[u]
    BY <1>2 DEF PaysSlot, RefundsSlot, SlotApproved, SlotRefunded
  <1> DEFINE kept ==
        /\ tasks'[t] \in EscrowTask
        /\ tasks'[t].bounty = tasks[t].bounty
        /\ tasks'[t].poster = tasks[t].poster
        /\ tasks'[t].max_slots = tasks[t].max_slots
        /\ tasks'[t].status = tasks[t].status
        /\ tasks'[t].task_deadline_ts = tasks[t].task_deadline_ts
        /\ tasks'[t].claim_deadline_secs = tasks[t].claim_deadline_secs
  <1> DEFINE left(task) == task.max_slots - task.slots_approved
                                          - task.slots_refunded
  <1>4. /\ kept
        /\ left(tasks'[t]) = left(tasks[t]) - 1
        /\ \/ /\ PaysSlot(t, c)
              /\ tasks'[t].slots_approved = tasks[t].slots_approved + 1
           \/ /\ RefundsSlot(t, c)
              /\ tasks'[t].slots_approved = tasks[t].slots_approved
    <2>1. CASE PaysSlot(t, c)
      <3>1. tasks'[t] = [tasks[t] EXCEPT !.slots_approved = @ + 1]
        BY <1>2, <2>1 DEF PaysSlot, SlotApproved
      <3>2. /\ kept
            /\ tasks'[t].slots_approved = tasks[t].slots_approved + 1
            /\ tasks'[t].slots_refunded = tasks[t].slots_refunded
        BY <1>1, <3>1 DEF EscrowTask
      <3> QED
        BY <1>1, <2>1, <3>2 DEF EscrowTask, MAX_SLOTS_LIMIT
    <2>2. CASE RefundsSlot(t, c)
      <3>1. tasks'[t] = [tasks[t] EXCEPT !.slots_refunded = @ + 1]
        BY <1>2, <2>2 DEF RefundsSlot, SlotRefunded
      <3>2. /\ kept
            /\ tasks'[t].slots_approved = tasks[t].slots_approved
            /\ tasks'[t].slots_refunded = tasks[t].slots_refunded + 1
        BY <1>1, <3>1 DEF EscrowTask
      <3> QED
        BY <1>1, <2>2, <3>2 DEF EscrowTask, MAX_SLOTS_LIMIT
    <2> QED
      BY <2>1, <2>2
  <1>5. /\ tasks[t].bounty \in Int
        /\ left(tasks[t]) \in Int
    BY <1>1 DEF EscrowTask, U64, MAX_SLOTS_LIMIT
  <1>6. Owed(t)' = Owed(t) - tasks[t].bounty
    <2>1. Owed(t) = tasks[t].bounty * left(tasks[t])
      BY DEF Owed
    <2>2. Owed(t)' = tasks[t].bounty * left(tasks'[t])
      BY <1>4 DEF Owed
    <2> HIDE DEF left
    <2> QED
      BY <1>4, <1>5, <2>1, <2>2, TimesLess
  <1>7. (TaskExists(t))'
    BY <1>4, NoAccountAssumption DEF TaskExists
  <1>8. IsOpen(t)' <=> IsOpen(t)
    BY <1>1, <1>4, <1>7 DEF IsOpen
  <1>9. Terms(tasks'[t]) = Terms(tasks[t])
    BY <1>4 DEF Terms
  <1> QED
    BY <1>1, <1>3, <1>4, <1>6, <1>8, <1>9

LEMMA OtherTasksKept ==
    ASSUME Inv0, NEW t \in TaskIds, OnTask(t)
    PROVE  \A u \in TaskIds \ {t} : tasks'[u] = tasks[u]
  BY DEF OnTask, Inv0, TypeOK, FundsVault, FundsTask, EndsTask, RemovesTask,
     ClosesTask, MovesNoMoney, TakesSlot, PaysSlot, SlotApproved,
     RefundsSlot, SlotRefunded

(* Taking a slot or moving a live claim changes no term, status or debt.   *)
LEMMA UnpaidTask ==
    ASSUME Inv0, NEW t \in TaskIds, NEW c \in ClaimIds, MovesNoMoney(t, c)
    PROVE  /\ tasks[t] \in EscrowTask /\ tasks'[t] \in EscrowTask
           /\ tasks'[t].poster = tasks[t].poster
           /\ tasks'[t].bounty = tasks[t].bounty
           /\ tasks'[t].max_slots = tasks[t].max_slots
           /\ tasks'[t].status = tasks[t].status
           /\ tasks'[t].slots_approved = tasks[t].slots_approved
           /\ Owed(t)' = Owed(t)
           /\ IsOpen(t)' <=> IsOpen(t)
  <1>1. tasks[t] \in EscrowTask /\ TaskExists(t)
    BY ExistingAccounts
    DEF MovesNoMoney, TakesSlot, IsOpen, MovesClaim, ClaimOn, Inv0
  <1>2. \/ tasks' = tasks
        \/ tasks' = [tasks EXCEPT ![t].slots_enrolled = @ + 1]
    BY DEF MovesNoMoney, TakesSlot
  <1>3. \/ tasks'[t] = tasks[t]
        \/ tasks'[t] = [tasks[t] EXCEPT !.slots_enrolled = @ + 1]
    BY <1>2 DEF Inv0, TypeOK
  <1>4. /\ tasks'[t] \in EscrowTask
        /\ tasks'[t].poster = tasks[t].poster
        /\ tasks'[t].bounty = tasks[t].bounty
        /\ tasks'[t].max_slots = tasks[t].max_slots
        /\ tasks'[t].status = tasks[t].status
        /\ tasks'[t].slots_approved = tasks[t].slots_approved
        /\ tasks'[t].slots_refunded = tasks[t].slots_refunded
    BY <1>1, <1>3 DEF EscrowTask
  <1>5. (TaskExists(t))'
    BY <1>4, NoAccountAssumption DEF TaskExists
  <1> QED
    BY <1>1, <1>4, <1>5 DEF Owed, IsOpen

(* A new task owes its whole deposit; an ended one is not open.            *)
LEMMA FundedTask ==
    ASSUME Inv0, NEW t \in TaskIds, FundsVault(t)
    PROVE  /\ IsOpen(t)'
           /\ tasks'[t].slots_approved = 0
           /\ Owed(t)' = tasks'[t].bounty * tasks'[t].max_slots
           /\ Owed(t)' \in Nat
  <1>1. PICK task \in EscrowTask :
          /\ task.slots_approved = 0
          /\ task.slots_refunded = 0
          /\ task.status = "Open"
          /\ tasks' = [tasks EXCEPT ![t] = task]
    BY DEF FundsVault, FundsTask
  <1>2. tasks'[t] = task
    BY <1>1 DEF Inv0, TypeOK
  <1>3. IsOpen(t)'
    BY <1>1, <1>2, NoAccountAssumption DEF IsOpen, TaskExists
  <1>4. /\ task.max_slots - task.slots_approved - task.slots_refunded
             = task.max_slots
        /\ task.bounty * task.max_slots \in Nat
    BY <1>1 DEF EscrowTask, U64, MAX_SLOTS_LIMIT
  <1> QED
    BY <1>1, <1>2, <1>3, <1>4 DEF Owed

LEMMA EndedTask ==
    ASSUME Inv0, NEW t \in TaskIds, EndsTask(t)
    PROVE  IsOpen(t) /\ ~IsOpen(t)'
  <1>1. TypeOK /\ IsOpen(t)
    BY DEF Inv0, EndsTask, RemovesTask, ClosesTask
  <1>2. CASE RemovesTask(t)
    BY <1>1, <1>2 DEF TypeOK, RemovesTask, IsOpen, TaskExists
  <1>3. CASE ClosesTask(t)
    <2>1. tasks[t] \in EscrowTask
      BY <1>1, ExistingAccounts DEF IsOpen
    <2>2. tasks'[t] = [tasks[t] EXCEPT !.status = "Closed"]
      BY <1>1, <1>3 DEF TypeOK, ClosesTask
    <2>3. tasks'[t].status = "Closed"
      BY <2>1, <2>2 DEF EscrowTask
    <2> QED
      BY <1>1, <2>3 DEF IsOpen
  <1> QED
    BY <1>1, <1>2, <1>3 DEF EndsTask

-----------------------------------------------------------------------------
(* The vault that covered a task still does: no step takes from it more    *)
(* than what the task then owes less.                                      *)

Covers(mint, u) ==
    /\ ATA(mint, u) \in accounts
    /\ balance[ATA(mint, u)] >= Owed(u)

LEMMA KeptVaultCovers ==
    ASSUME NEW mint, NEW u, Covers(mint, u), KeepsVault(mint, u),
           Owed(u)' = Owed(u)
    PROVE  Covers(mint, u)'
  BY DEF Covers, KeepsVault, ATA

LEMMA VaultCoversStep ==
    ASSUME Inv0, VaultCoversOpenSlots, [Next]_vars
    PROVE  VaultCoversOpenSlots'
  <1> SUFFICES ASSUME NEW u \in TaskIds, IsOpen(u)'
               PROVE  \E mint \in Mints : Covers(mint, u)'
    BY DEF VaultCoversOpenSlots, Covers
  <1> DEFINE Covered == \E mint \in Mints : Covers(mint, u)
  <1>1. MoneyStep
    BY NextMoney
  <1>2. IsOpen(u) => Covered
    BY DEF VaultCoversOpenSlots, Covers
  <1>3. ASSUME NEW t \in TaskIds, u # t, OnTask(t)
        PROVE  \E mint \in Mints : Covers(mint, u)'
    <2>1. Owed(u)' = Owed(u) /\ (IsOpen(u)' <=> IsOpen(u))
      BY <1>3, OtherTasksKept, SameTaskOwesSame
    <2>2. PICK mint \in Mints : Covers(mint, u)
      BY <1>2, <2>1
    <2>3. KeepsVault(mint, u)
      BY <1>3, OtherVaultsKept
    <2> QED
      BY <2>1, <2>2, <2>3, KeptVaultCovers
  <1>4. ASSUME FundsVault(u)
        PROVE  \E mint \in Mints : Covers(mint, u)'
    <2>1. /\ balance'[Vault(u)] = tasks'[u].bounty * tasks'[u].max_slots
          /\ Vault(u) \in accounts'
      BY <1>4, FundedAmounts
    <2>2. /\ Owed(u)' = tasks'[u].bounty * tasks'[u].max_slots
          /\ Owed(u)' \in Nat
      BY <1>4, FundedTask
    <2>3. config.usdc_mint \in Mints
      BY <1>4, PinnedMint DEF FundsVault, Inv0
    <2>4. Covers(config.usdc_mint, u)' <=>
            Vault(u) \in accounts' /\ balance'[Vault(u)] >= Owed(u)'
      BY <1>4 DEF Covers, Vault, ATA, FundsVault
    <2>5. UNCHANGED config
      BY <1>4 DEF FundsVault
    <2> QED
      BY <2>1, <2>2, <2>3, <2>4, <2>5
  <1>5. ASSUME NEW c \in ClaimIds, MovesNoMoney(u, c)
        PROVE  \E mint \in Mints : Covers(mint, u)'
    <2>1. Owed(u)' = Owed(u) /\ (IsOpen(u)' <=> IsOpen(u))
      BY <1>5, UnpaidTask
    <2>2. PICK mint \in Mints : Covers(mint, u)
      BY <1>2, <2>1
    <2> QED
      BY <1>5, <2>1, <2>2, MovesNoMoneyVaults, KeptVaultCovers
  <1>6. ASSUME NEW c \in ClaimIds, PaysSlot(u, c) \/ RefundsSlot(u, c)
        PROVE  \E mint \in Mints : Covers(mint, u)'
    <2>1. /\ tasks[u] \in EscrowTask
          /\ IsOpen(u)
          /\ Owed(u)' = Owed(u) - tasks[u].bounty
      BY <1>6, SettledTask
    <2>2. PICK mint \in Mints : Covers(mint, u)
      BY <1>2, <2>1
    <2>3. Owed(u) \in Int /\ tasks[u].bounty \in Nat
      BY <2>1, OwedType
    <2>4. balance[ATA(mint, u)] \in Nat
      BY VaultAddresses, TypeOKLedger DEF LedgerOK, Inv0
    <2>5. CASE mint = config.usdc_mint
      <3>1. /\ balance'[Vault(u)] = balance[Vault(u)] - tasks[u].bounty
            /\ UNCHANGED accounts
        BY <1>6, PaidAmounts, RefundedAmounts
      <3> QED
        BY <2>1, <2>2, <2>3, <2>4, <2>5, <3>1 DEF Covers, Vault, ATA
    <2>6. CASE mint # config.usdc_mint
      <3>1. KeepsVault(mint, u)
        BY <1>6, <2>6, OtherVaultsKept DEF OnTask
      <3> QED
        BY <2>1, <2>2, <2>3, <2>4, <3>1 DEF Covers, KeepsVault, ATA
    <2> QED
      BY <2>5, <2>6
  <1>7. ASSUME PlainTransfer \/ NoBusiness
        PROVE  \E mint \in Mints : Covers(mint, u)'
    <2>1. tasks[u] \in EscrowTask \cup {NoAccount} /\ tasks'[u] = tasks[u]
      BY <1>7 DEF PlainTransfer, NoBusiness, SameBooks, Inv0, TypeOK
    <2>2. /\ Owed(u)' = Owed(u)
          /\ IsOpen(u)
      BY <2>1, SameTaskOwesSame
    <2>3. Owed(u) \in Int
      BY <2>1, <2>2, OwedType DEF IsOpen, TaskExists
    <2>4. PICK mint \in Mints : Covers(mint, u)
      BY <1>2, <2>2
    <2>5. balance[ATA(mint, u)] \in Nat
      BY VaultAddresses, TypeOKLedger DEF LedgerOK, Inv0
    <2>6. CASE PlainTransfer
      <3>1. /\ balance'[ATA(mint, u)] >= balance[ATA(mint, u)]
            /\ UNCHANGED accounts
        BY <2>6, PlainTransferVaults
      <3>2. balance'[ATA(mint, u)] \in Nat
        <4>1. balance' \in [Addresses -> Nat]
          BY TypeStep DEF TypeOK, Addresses
        <4> QED
          BY <4>1, VaultAddresses
      <3> QED
        BY <2>2, <2>3, <2>4, <2>5, <3>1, <3>2 DEF Covers, ATA
    <2>7. CASE NoBusiness
      BY <2>2, <2>4, <2>7 DEF Covers, NoBusiness, ATA
    <2> QED
      BY <1>7, <2>6, <2>7
  <1>8. ~EndsTask(u)
    BY EndedTask
  <1>9. OnTask(u) => \E mint \in Mints : Covers(mint, u)'
    BY <1>4, <1>5, <1>6, <1>8 DEF OnTask
  <1> QED
    BY <1>1, <1>3, <1>7, <1>9 DEF MoneyStep

(* Some vault of every open task holds all that the task owes: no order of *)
(* payouts, refunds, donations, fee changes and mint flips leaves a slot   *)
(* that is still due unfunded.                                             *)
THEOREM VaultsCoverOpenSlots == Spec => []VaultCoversOpenSlots
  <1>1. Init => VaultCoversOpenSlots
    BY DEF Init, VaultCoversOpenSlots, IsOpen, TaskExists
  <1>2. Inv0 /\ VaultCoversOpenSlots /\ [Next]_vars => VaultCoversOpenSlots'
    BY VaultCoversStep
  <1> QED
    BY <1>1, <1>2, SpecInv0, PTL DEF Spec

-----------------------------------------------------------------------------
(* How money leaves a vault.                                               *)

(* A task ends with all its claims settled: a removed one has none, and a  *)
(* closed one has no active slot.                                          *)
LEMMA EndedClaimsSettled ==
    ASSUME Inv0, SlotAccounting, NEW t \in TaskIds, EndsTask(t)
    PROVE  \A c \in ClaimsOf(t) : claims[c].status \in Terminal
  <1>1. TypeOK /\ TaskExists(t) /\ Books(t)
    BY BooksAreSlotAccounting
    DEF Inv0, EndsTask, RemovesTask, ClosesTask, IsOpen
  <1>2. CASE RemovesTask(t)
    <2>1. Cardinality(ClaimsOf(t)) = 0
      BY <1>1, <1>2 DEF Books, RemovesTask
    <2>2. ClaimsOf(t) = {}
      BY <2>1, FiniteSlots, FS_EmptySet
    <2> QED
      BY <2>2
  <1>3. CASE ClosesTask(t)
    BY <1>1, <1>3, NoActiveSlotNoLiveClaim DEF ClosesTask
  <1> QED
    BY <1>2, <1>3 DEF EndsTask

(* A payout or refund settles its claim and no other.                      *)
LEMMA SettlesOne ==
    ASSUME Inv0, NEW t \in TaskIds, NEW c \in ClaimIds,
           PaysSlot(t, c) \/ RefundsSlot(t, c)
    PROVE  /\ c \in ClaimsOf(t)
           /\ claims[c].task = t
           /\ Settles(c)
           /\ PaysSlot(t, c) => claims'[c].status \in PaidStatus
           /\ RefundsSlot(t, c) => claims'[c].status \in RefundedStatus
           /\ claims'[c].task = t /\ claims'[c].claimer = claims[c].claimer
           /\ ClaimExists(c)'
           /\ \A d \in ClaimIds \ {c} : claims'[d] = claims[d] /\ ~Settles(d)
  <1>1. PICK statuses \in {PaidStatus, RefundedStatus} :
          /\ MovesClaim(t, c, statuses)
          /\ PaysSlot(t, c) => statuses = PaidStatus
          /\ RefundsSlot(t, c) => statuses = RefundedStatus
    <2>1. PaysSlot(t, c) => MovesClaim(t, c, PaidStatus)
      BY DEF PaysSlot
    <2>2. RefundsSlot(t, c) => MovesClaim(t, c, RefundedStatus)
      BY DEF RefundsSlot
    <2>3. ~(PaysSlot(t, c) /\ RefundsSlot(t, c))
      BY <2>1, <2>2
      DEF MovesClaim, Inv0, TypeOK, PaidStatus, RefundedStatus
    <2> QED
      BY <2>1, <2>2, <2>3
  <1>2. PICK claim \in EscrowClaim :
          /\ claim.task = t
          /\ claim.claimer = claims[c].claimer
          /\ claim.status \in statuses
          /\ claims' = [claims EXCEPT ![c] = claim]
    BY <1>1 DEF MovesClaim
  <1>3. /\ claims'[c] = claim
        /\ \A d \in ClaimIds \ {c} : claims'[d] = claims[d]
    BY <1>2 DEF Inv0, TypeOK
  <1>4. ClaimOn(t, c) /\ claims[c].status \notin Terminal
    BY <1>1 DEF MovesClaim
  <1>5. \A d \in ClaimIds \ {c} : ~Settles(d)
    BY <1>3 DEF Settles
  <1>6. Settles(c) /\ c \in ClaimsOf(t) /\ claims[c].task = t
    BY <1>1, <1>2, <1>3, <1>4 DEF Settles, ClaimOn, ClaimsOf, Terminal
  <1>7. ClaimExists(c)'
    BY <1>3, NoAccountAssumption DEF ClaimExists
  <1> QED
    BY <1>1, <1>2, <1>3, <1>5, <1>6, <1>7

(* Nothing else settles a claim.                                           *)
LEMMA SettledBySlot ==
    ASSUME Inv0, [Next]_vars, NEW c \in ClaimIds, Settles(c)
    PROVE  \E t \in TaskIds :
             claims[c].task = t /\ (PaysSlot(t, c) \/ RefundsSlot(t, c))
  <1>1. MoneyStep
    BY NextMoney
  <1>2. ~(claims'[c] = claims[c])
    BY DEF Settles
  <1>3. PICK t \in TaskIds, d \in ClaimIds :
          MovesNoMoney(t, d) \/ PaysSlot(t, d) \/ RefundsSlot(t, d)
    BY <1>1, <1>2
    DEF MoneyStep, OnTask, PlainTransfer, NoBusiness, SameBooks, FundsVault,
        FundsTask, EndsTask, RemovesTask, ClosesTask
  <1>4. ~MovesNoMoney(t, d)
    <2>1. CASE TakesSlot(t, d)
      <3>1. c # d
        BY <2>1 DEF TakesSlot, Settles
      <3> QED
        BY <1>2, <2>1, <3>1 DEF TakesSlot, Inv0, TypeOK
    <2>2. CASE MovesClaim(t, d, ClaimStatus \ Terminal)
      BY <1>2, <2>2 DEF MovesClaim, Inv0, TypeOK, Settles
    <2> QED
      BY <2>1, <2>2 DEF MovesNoMoney
  <1>5. c = d
    BY <1>2, <1>3, <1>4, SettlesOne
  <1> QED
    BY <1>3, <1>4, <1>5, SettlesOne

LEMMA VaultPaysStep ==
    ASSUME Inv1, [Next]_vars, NEW t \in TaskIds, NEW mint \in Mints,
           Gain(ATA(mint, t)) < 0
    PROVE  \/ /\ Gain(ATA(mint, t)) = -tasks[t].bounty
              /\ \E c \in ClaimsOf(t) :
                   Settles(c) /\ \A d \in ClaimIds \ {c} : ~Settles(d)
           \/ /\ IsOpen(t) /\ ~IsOpen(t)'
              /\ \A c \in ClaimsOf(t) : claims[c].status \in Terminal
              /\ balance'[ATA(mint, t)] = 0
  <1> DEFINE v == ATA(mint, t)
  <1>1. Inv0 /\ SlotAccounting /\ MoneyStep
    BY NextMoney DEF Inv1
  <1>2. balance[v] \in Nat /\ balance'[v] \in Nat
    <2>1. balance \in [Addresses -> Nat] /\ balance' \in [Addresses -> Nat]
      BY <1>1, TypeStep DEF Inv0, TypeOK, Addresses
    <2> QED
      BY <2>1, VaultAddresses
  <1>3. balance'[v] < balance[v]
    BY <1>2 DEF Gain
  <1>4. ~PlainTransfer /\ ~NoBusiness
    BY <1>1, <1>2, <1>3, PlainTransferVaults DEF NoBusiness
  <1>5. ~KeepsVault(mint, t)
    BY <1>2, <1>3 DEF KeepsVault
  <1>6. OnTask(t) /\ mint = config.usdc_mint
    <2>1. PICK u \in TaskIds : OnTask(u)
      BY <1>1, <1>4 DEF MoneyStep
    <2> QED
      BY <1>1, <1>5, <2>1, OtherVaultsKept
  <1>7. v = Vault(t)
    BY <1>6 DEF Vault
  <1>8. ~FundsVault(t)
    <2>1. ASSUME FundsVault(t) PROVE FALSE
      <3>1. v \notin accounts
        BY <1>1, <1>7, <2>1, FundedAmounts
      <3>2. balance[v] = 0
        BY <1>1, <3>1, VaultAddresses, TypeOKLedger DEF Inv0, LedgerOK
      <3> QED
        BY <1>2, <1>3, <3>2
    <2> QED
      BY <2>1
  <1>9. CASE EndsTask(t)
    BY <1>1, <1>7, <1>9, EndedAmounts, EndedTask, EndedClaimsSettled
  <1>10. ASSUME NEW c \in ClaimIds, PaysSlot(t, c) \/ RefundsSlot(t, c)
         PROVE  /\ Gain(v) = -tasks[t].bounty
                /\ \E d \in ClaimsOf(t) :
                     Settles(d) /\ \A e \in ClaimIds \ {d} : ~Settles(e)
    <2>1. balance'[v] = balance[v] - tasks[t].bounty
      BY <1>1, <1>7, <1>10, PaidAmounts, RefundedAmounts
    <2>2. tasks[t].bounty \in Nat
      BY <1>1, <1>10, SettledTask, OwedType
    <2>3. Gain(v) = -tasks[t].bounty
      BY <1>2, <2>1, <2>2 DEF Gain
    <2> QED
      BY <1>1, <1>10, <2>3, SettlesOne
  <1>11. \A c \in ClaimIds : ~MovesNoMoney(t, c)
    BY <1>1, <1>5, MovesNoMoneyVaults
  <1> QED
    BY <1>6, <1>8, <1>9, <1>10, <1>11 DEF OnTask

(* Money leaves a vault, of any mint, as one bounty for one claim settled  *)
(* in the same step, or altogether when its task ends with every claim     *)
(* settled: no admin instruction moves it, no claim is paid twice, no task *)
(* is paid out of another's vault (lib.rs:8).                              *)
THEOREM VaultsPaySlotsOrRefunds == Spec => VaultPaysSlotOrRefund
  <1> DEFINE A == \A t \in TaskIds, mint \in Mints :
         Gain(ATA(mint, t)) < 0 =>
           \/ /\ Gain(ATA(mint, t)) = -tasks[t].bounty
              /\ \E c \in ClaimsOf(t) :
                   Settles(c) /\ \A d \in ClaimIds \ {c} : ~Settles(d)
           \/ /\ IsOpen(t) /\ ~IsOpen(t)'
              /\ \A c \in ClaimsOf(t) : claims[c].status \in Terminal
              /\ balance'[ATA(mint, t)] = 0
  <1>1. Inv1 /\ [Next]_vars => A
    BY VaultPaysStep
  <1>2. Inv1 /\ [Next]_vars => [A]_vars
    BY <1>1
  <1> QED
    BY <1>2, SpecInv1, PTL DEF Spec, VaultPaysSlotOrRefund

-----------------------------------------------------------------------------
(* Who gets it.                                                            *)

LEMMA SettlementStep ==
    ASSUME Inv0, [Next]_vars, NEW c \in ClaimIds, Settles(c)
    PROVE  LET t      == claims[c].task
               bounty == tasks[t].bounty
               fee    == Gain(FeeVault)
           IN  /\ Gain(Vault(t)) = -bounty
               /\ IF claims'[c].status \in PaidStatus
                  THEN /\ Gain(Wallet(claims[c].claimer)) + fee = bounty
                       /\ fee * BPS_DENOMINATOR <= bounty * config.fee_bps
                       /\ bounty * config.fee_bps < (fee + 1) * BPS_DENOMINATOR
                       /\ 20 * fee <= bounty
                  ELSE Gain(Wallet(tasks[t].poster)) = bounty
  <1>1. PICK t \in TaskIds :
          claims[c].task = t /\ (PaysSlot(t, c) \/ RefundsSlot(t, c))
    BY SettledBySlot
  <1> DEFINE bounty  == tasks[t].bounty
             split   == ComputeFeeSplit(bounty, config.fee_bps)
             claimer == Wallet(claims[c].claimer)
             poster  == Wallet(tasks[t].poster)
  <1>2. /\ TypeOK /\ Initialized
        /\ tasks[t] \in EscrowTask /\ claims[c] \in EscrowClaim
    BY <1>1, ExistingAccounts, SettledTask DEF Inv0, PaysSlot, RefundsSlot, Settles
  <1>3. /\ bounty \in U64 /\ bounty \in Nat
        /\ config.fee_bps \in 0 .. FEE_BPS_CAP
    BY <1>2, ExistingAccounts DEF EscrowTask, EscrowConfig, U64
  <1>4. /\ balance[Vault(t)] \in Nat /\ balance[FeeVault] \in Nat
        /\ balance[claimer] \in Nat /\ balance[poster] \in Nat
    <2>1. balance \in [Addresses -> Nat]
      BY <1>2, TypeOKLedger DEF LedgerOK
    <2> QED
      BY <1>2, <2>1, PinnedAddresses DEF EscrowTask, EscrowClaim
  <1>5. Gain(Vault(t)) = -bounty
    BY <1>1, <1>3, <1>4, PaidAmounts, RefundedAmounts DEF Gain
  <1>6. CASE PaysSlot(t, c)
    <2>1. /\ Gain(claimer) = split.net
          /\ Gain(FeeVault) = split.fee
      <3>1. /\ balance'[claimer] = balance[claimer] + split.net
            /\ balance'[FeeVault] = balance[FeeVault] + split.fee
        BY <1>6, PaidAmounts
      <3>2. split.net \in Nat /\ split.fee \in Nat
        BY <1>3, FeeSplitIsExact
      <3> HIDE DEF split, claimer
      <3> QED
        BY <1>4, <3>1, <3>2 DEF Gain
    <2>2. claims'[c].status \in PaidStatus
      BY <1>6, SettlesOne
    <2>3. /\ split.net + split.fee = bounty
          /\ split.fee * BPS_DENOMINATOR <= bounty * config.fee_bps
          /\ bounty * config.fee_bps < (split.fee + 1) * BPS_DENOMINATOR
          /\ 20 * split.fee <= bounty
      BY <1>3, FeeSplitIsExact
    <2> HIDE DEF split
    <2> QED
      BY <1>1, <1>5, <2>1, <2>2, <2>3
  <1>7. CASE RefundsSlot(t, c)
    <2>1. Gain(poster) = bounty
      BY <1>3, <1>4, <1>7, RefundedAmounts DEF Gain
    <2>2. claims'[c].status \notin PaidStatus
      BY <1>7, SettlesOne DEF PaidStatus, RefundedStatus
    <2> QED
      BY <1>1, <1>5, <2>1, <2>2
  <1> QED
    BY <1>1, <1>6, <1>7

(* A settled slot's bounty reaches the right party whole: claimer and fee  *)
(* vault share it exactly, by the floor of the configured fee and at most  *)
(* a twentieth, or the poster has all of it back.                          *)
THEOREM SettlementsSplitTheBounty == Spec => SettlementSplitsBounty
  <1> DEFINE A == \A c \in ClaimIds : Settles(c) =>
         LET t      == claims[c].task
             bounty == tasks[t].bounty
             fee    == Gain(FeeVault)
         IN  /\ Gain(Vault(t)) = -bounty
             /\ IF claims'[c].status \in PaidStatus
                THEN /\ Gain(Wallet(claims[c].claimer)) + fee = bounty
                     /\ fee * BPS_DENOMINATOR <= bounty * config.fee_bps
                     /\ bounty * config.fee_bps < (fee + 1) * BPS_DENOMINATOR
                     /\ 20 * fee <= bounty
                ELSE Gain(Wallet(tasks[t].poster)) = bounty
  <1>1. Inv0 /\ [Next]_vars => A
    BY SettlementStep
  <1>2. Inv0 /\ [Next]_vars => [A]_vars
    BY <1>1
  <1> QED
    BY <1>2, SpecInv0, PTL DEF Spec, SettlementSplitsBounty
=============================================================================
