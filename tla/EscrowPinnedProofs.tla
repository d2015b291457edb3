-------------------------- MODULE EscrowPinnedProofs --------------------------
(***************************************************************************)
(* What follows when the admin keeps to the rule at config.rs:103-107 and  *)
(* re-pins the mint only while no task is open: the vault the handlers     *)
(* reach is the funded one, what is due goes through and stays due, claims *)
(* are decided in the end, and a task that is done leaves nothing behind.  *)
(***************************************************************************)
EXTENDS EscrowMoneyProofs, EscrowLiveness

PinnedNext == Next /\ MintFlipRule

(* Tasks come after the config.                                            *)
TasksHaveConfig == \A t \in TaskIds : TaskExists(t) => Initialized

(* A vault that only the program can have created is the pinned vault of   *)
(* an open task.                                                           *)
ProgramVaultsOpen ==
    \A t \in TaskIds, mint \in Mints :
      ATA(mint, t) \in accounts \ OutOfBandAtas =>
        Initialized /\ IsOpen(t) /\ mint = config.usdc_mint

PinnedInv ==
    /\ Inv1
    /\ TasksHaveConfig
    /\ ProgramVaultsOpen
    /\ PinnedVaultCoversOpenSlots

-----------------------------------------------------------------------------
LEMMA PinnedStepIsStep ==
    ASSUME [PinnedNext]_vars
    PROVE  [Next]_vars
  BY DEF PinnedNext

(* Under an open task the pinned mint is fixed, and so is its vault.       *)
LEMMA OpenTaskKeepsMint ==
    ASSUME PinnedInv, [PinnedNext]_vars, NEW t \in TaskIds, IsOpen(t)
    PROVE  /\ Initialized
           /\ config'.usdc_mint = config.usdc_mint
           /\ Vault(t)' = Vault(t)
  <1>1. Initialized
    BY DEF PinnedInv, TasksHaveConfig, IsOpen
  <1>2. config'.usdc_mint = config.usdc_mint
    BY <1>1 DEF PinnedNext, MintFlipRule, vars
  <1> QED
    BY <1>1, <1>2 DEF Vault, ATA

LEMMA PinnedMoney ==
    ASSUME PinnedInv, [PinnedNext]_vars
    PROVE  Inv0 /\ SlotAccounting /\ MoneyStep
  BY PinnedStepIsStep, NextMoney DEF PinnedInv, Inv1

(* No step takes the config away.                                          *)
LEMMA InitializedStays ==
    ASSUME MoneyStep, Initialized
    PROVE  Initialized'
  BY DEF MoneyStep, OnTask, FundsVault, EndsTask, MovesNoMoney, PaysSlot,
     RefundsSlot, PlainTransfer, NoBusiness, Initialized

LEMMA OnTaskNeedsConfig ==
    ASSUME PinnedInv, NEW t \in TaskIds, OnTask(t)
    PROVE  Initialized /\ UNCHANGED config
  <1>1. ASSUME NEW c \in ClaimIds, MovesNoMoney(t, c)
        PROVE  TaskExists(t)
    BY <1>1 DEF MovesNoMoney, TakesSlot, MovesClaim, ClaimOn, IsOpen
  <1> QED
    BY <1>1 DEF PinnedInv, TasksHaveConfig, OnTask, FundsVault, EndsTask,
       MovesNoMoney, PaysSlot, RefundsSlot

LEMMA TasksHaveConfigStep ==
    ASSUME PinnedInv, [PinnedNext]_vars
    PROVE  TasksHaveConfig'
  <1>1. MoneyStep
    BY PinnedMoney
  <1>2. CASE \E t \in TaskIds : OnTask(t)
    BY <1>1, <1>2, OnTaskNeedsConfig, InitializedStays DEF TasksHaveConfig
  <1>3. CASE PlainTransfer \/ NoBusiness
    BY <1>1, <1>3, InitializedStays
    DEF PinnedInv, TasksHaveConfig, PlainTransfer, NoBusiness, SameBooks,
        TaskExists
  <1> QED
    BY <1>1, <1>2, <1>3 DEF MoneyStep

-----------------------------------------------------------------------------
(* A task stays open until it ends.                                        *)
LEMMA StaysOpen ==
    ASSUME Inv0, NEW t \in TaskIds, IsOpen(t), MoneyStep, ~EndsTask(t)
    PROVE  IsOpen(t)'
  <1>1. ASSUME NEW u \in TaskIds, OnTask(u), u # t
        PROVE  IsOpen(t)'
    BY <1>1, OtherTasksKept, SameTaskOwesSame
  <1>2. ASSUME NEW c \in ClaimIds,
               \/ FundsVault(t) \/ MovesNoMoney(t, c)
               \/ PaysSlot(t, c) \/ RefundsSlot(t, c)
        PROVE  IsOpen(t)'
    BY <1>2, FundedTask, UnpaidTask, SettledTask
  <1>3. FundsVault(t) => IsOpen(t)'
    BY FundedTask
  <1>4. CASE PlainTransfer \/ NoBusiness
    BY <1>4 DEF PlainTransfer, NoBusiness, SameBooks, IsOpen, TaskExists
  <1> QED
    BY <1>1, <1>2, <1>3, <1>4 DEF MoneyStep, OnTask

LEMMA ProgramVaultsOpenStep ==
    ASSUME PinnedInv, [PinnedNext]_vars
    PROVE  ProgramVaultsOpen'
  <1> SUFFICES ASSUME NEW t \in TaskIds, NEW mint \in Mints,
                      ATA(mint, t) \in accounts',
                      ATA(mint, t) \notin OutOfBandAtas
               PROVE  Initialized' /\ IsOpen(t)' /\ mint = config'.usdc_mint
    BY DEF ProgramVaultsOpen, ATA
  <1> DEFINE v == ATA(mint, t)
  <1>1. Inv0 /\ MoneyStep
    BY PinnedMoney
  <1>2. v \in accounts =>
          Initialized /\ IsOpen(t) /\ mint = config.usdc_mint
    BY DEF PinnedInv, ProgramVaultsOpen
  <1>3. CASE v \in accounts /\ ~EndsTask(t)
    BY <1>1, <1>2, <1>3, StaysOpen, OpenTaskKeepsMint, InitializedStays
  <1>4. ~EndsTask(t)
    <2>1. ASSUME EndsTask(t) PROVE FALSE
      <3>1. accounts' = accounts \ {Vault(t)}
        BY <1>1, <2>1, EndedAmounts
      <3>2. mint = config.usdc_mint
        BY <1>2, <3>1
      <3> QED
        BY <3>1, <3>2 DEF Vault
    <2> QED
      BY <2>1
  <1>5. CASE v \notin accounts
    <2>1. ~PlainTransfer /\ ~NoBusiness
      BY <1>1, <1>5, PlainTransferVaults DEF NoBusiness
    <2>2. PICK u \in TaskIds : OnTask(u)
      BY <1>1, <2>1 DEF MoneyStep
    <2>3. u = t /\ mint = config.usdc_mint
      BY <1>1, <1>5, <2>2, OtherVaultsKept DEF KeepsVault
    <2>4. \A c \in ClaimIds :
            ~MovesNoMoney(t, c) /\ ~PaysSlot(t, c) /\ ~RefundsSlot(t, c)
      BY <1>1, <1>5, MovesNoMoneyVaults, PaidAmounts, RefundedAmounts
      DEF KeepsVault
    <2>5. FundsVault(t)
      BY <1>4, <2>2, <2>3, <2>4 DEF OnTask
    <2> QED
      BY <1>1, <2>3, <2>5, FundedTask DEF FundsVault, Initialized
  <1> QED
    BY <1>3, <1>4, <1>5

-----------------------------------------------------------------------------
(* The vault that the handlers reach covers the open slots.                *)

PinnedCovers(t) ==
    /\ Vault(t) \in accounts
    /\ balance[Vault(t)] >= Owed(t)

LEMMA PinnedCoversStep ==
    ASSUME PinnedInv, [PinnedNext]_vars
    PROVE  PinnedVaultCoversOpenSlots'
  <1> SUFFICES ASSUME NEW t \in TaskIds, IsOpen(t)'
               PROVE  PinnedCovers(t)'
    BY DEF PinnedVaultCoversOpenSlots, PinnedCovers
  <1>1. Inv0 /\ MoneyStep
    BY PinnedMoney
  <1>2. CASE FundsVault(t)
    <2>1. /\ balance'[Vault(t)] = tasks'[t].bounty * tasks'[t].max_slots
          /\ Vault(t) \in accounts'
          /\ Owed(t)' = tasks'[t].bounty * tasks'[t].max_slots
          /\ Owed(t)' \in Nat
      BY <1>1, <1>2, FundedAmounts, FundedTask
    <2>2. Vault(t)' = Vault(t)
      BY <1>2 DEF FundsVault, Vault
    <2> QED
      BY <2>1, <2>2 DEF PinnedCovers
  <1>3. CASE ~FundsVault(t)
    <2>1. IsOpen(t)
      <3>1. ASSUME NEW u \in TaskIds, OnTask(u), u # t
            PROVE  IsOpen(t)
        BY <1>1, <3>1, OtherTasksKept, SameTaskOwesSame
      <3>2. ASSUME NEW c \in ClaimIds,
                   MovesNoMoney(t, c) \/ PaysSlot(t, c) \/ RefundsSlot(t, c)
            PROVE  IsOpen(t)
        BY <1>1, <3>2, UnpaidTask, SettledTask
      <3>3. CASE PlainTransfer \/ NoBusiness
        BY <3>3 DEF PlainTransfer, NoBusiness, SameBooks, IsOpen, TaskExists
      <3> QED
        BY <1>1, <1>3, <3>1, <3>2, <3>3, EndedTask DEF MoneyStep, OnTask
    <2>2. /\ Vault(t)' = Vault(t) /\ config.usdc_mint \in Mints
          /\ Vault(t) = ATA(config.usdc_mint, t)
      BY <1>1, <2>1, OpenTaskKeepsMint, PinnedMint DEF Inv0, Vault
    <2>3. PinnedCovers(t) /\ tasks[t] \in EscrowTask
      BY <1>1, <2>1, ExistingAccounts
      DEF PinnedInv, PinnedVaultCoversOpenSlots, PinnedCovers, Inv0, IsOpen
    <2>4. /\ Owed(t) \in Int /\ tasks[t].bounty \in Nat
          /\ balance[Vault(t)] \in Nat /\ balance'[Vault(t)] \in Nat
      <3>1. balance \in [Addresses -> Nat] /\ balance' \in [Addresses -> Nat]
        BY <1>1, PinnedStepIsStep, TypeStep DEF Inv0, TypeOK, Addresses
      <3> QED
        BY <2>2, <2>3, <3>1, OwedType, VaultAddresses
    <2>5. CASE /\ KeepsVault(config.usdc_mint, t)
               /\ Owed(t)' = Owed(t)
      BY <2>2, <2>3, <2>5 DEF PinnedCovers, KeepsVault
    <2>6. ASSUME NEW c \in ClaimIds, PaysSlot(t, c) \/ RefundsSlot(t, c)
          PROVE  PinnedCovers(t)'
      <3>1. /\ balance'[Vault(t)] = balance[Vault(t)] - tasks[t].bounty
            /\ UNCHANGED accounts
            /\ Owed(t)' = Owed(t) - tasks[t].bounty
        BY <1>1, <2>6, PaidAmounts, RefundedAmounts, SettledTask
      <3>2. balance'[Vault(t)'] = balance'[Vault(t)]
        BY <2>2
      <3> QED
        BY <2>2, <2>3, <2>4, <3>1, <3>2 DEF PinnedCovers
    <2>7. CASE PlainTransfer
      <3>1. /\ balance'[Vault(t)] >= balance[Vault(t)]
            /\ UNCHANGED accounts
            /\ Owed(t)' = Owed(t)
        BY <1>1, <2>2, <2>7, PlainTransferVaults, SameTaskOwesSame
        DEF PlainTransfer, SameBooks
      <3> QED
        BY <2>2, <2>3, <2>4, <3>1 DEF PinnedCovers
    <2>8. CASE NoBusiness
      <3>1. /\ UNCHANGED balance
            /\ Vault(t) \in accounts'
            /\ Owed(t)' = Owed(t)
        BY <2>2, <2>3, <2>8, SameTaskOwesSame
        DEF NoBusiness, SameBooks, PinnedCovers
      <3> QED
        BY <2>2, <2>3, <3>1 DEF PinnedCovers
    <2>9. ASSUME NEW u \in TaskIds, OnTask(u), u # t
          PROVE  PinnedCovers(t)'
      <3>1. /\ KeepsVault(config.usdc_mint, t)
            /\ Owed(t)' = Owed(t)
        BY <1>1, <2>2, <2>9, OtherVaultsKept, OtherTasksKept, SameTaskOwesSame
      <3> QED
        BY <2>5, <3>1
    <2>10. ASSUME NEW c \in ClaimIds, MovesNoMoney(t, c)
           PROVE  PinnedCovers(t)'
      <3>1. /\ KeepsVault(config.usdc_mint, t)
            /\ Owed(t)' = Owed(t)
        BY <1>1, <2>2, <2>10, MovesNoMoneyVaults, UnpaidTask
      <3> QED
        BY <2>5, <3>1
    <2>11. ~EndsTask(t)
      BY <1>1, EndedTask
    <2>12. OnTask(t) => PinnedCovers(t)'
      BY <1>3, <2>6, <2>10, <2>11 DEF OnTask
    <2> QED
      BY <1>1, <2>7, <2>8, <2>9, <2>12 DEF MoneyStep
  <1> QED
    BY <1>2, <1>3

-----------------------------------------------------------------------------
LEMMA PinnedInvStep ==
    ASSUME PinnedInv, [PinnedNext]_vars
    PROVE  PinnedInv'
  <1>1. Inv1'
    BY PinnedStepIsStep, Inv1Step DEF PinnedInv
  <1>2. TasksHaveConfig'
    BY TasksHaveConfigStep
  <1>3. ProgramVaultsOpen'
    BY ProgramVaultsOpenStep
  <1>4. PinnedVaultCoversOpenSlots'
    BY PinnedCoversStep
  <1> QED
    BY <1>1, <1>2, <1>3, <1>4 DEF PinnedInv

LEMMA InitPinned ==
    ASSUME Init
    PROVE  TasksHaveConfig /\ ProgramVaultsOpen /\ PinnedVaultCoversOpenSlots
  <1>1. \A t \in TaskIds : ~TaskExists(t)
    BY DEF Init, TaskExists
  <1>2. \A t \in TaskIds, mint \in Mints : ATA(mint, t) \notin accounts
    <2>1. accounts \subseteq Mints \X Users
      BY InputAssumption DEF Init
    <2> QED
      BY <2>1, HolderAssumption DEF ATA
  <1> QED
    BY <1>1, <1>2
    DEF TasksHaveConfig, ProgramVaultsOpen, PinnedVaultCoversOpenSlots, IsOpen

LEMMA PinnedIsSpec == PinnedSpec => Spec
  <1>1. [PinnedNext]_vars => [Next]_vars
    BY PinnedStepIsStep
  <1> QED
    BY <1>1, PTL DEF PinnedSpec, PinnedNext, Spec

LEMMA PinnedSpecInv == PinnedSpec => []PinnedInv
  <1>1. Init /\ Inv1 => PinnedInv
    BY InitPinned DEF PinnedInv
  <1>2. PinnedInv /\ [PinnedNext]_vars => PinnedInv'
    BY PinnedInvStep
  <1>3. PinnedSpec => []Inv1
    BY PinnedIsSpec, SpecInv1, PTL
  <1> QED
    BY <1>1, <1>2, <1>3, PTL DEF PinnedSpec, PinnedNext

(* While the admin keeps to the rule, the vault that approve, reject and   *)
(* the dispute handlers reach holds every bounty still due, whatever is    *)
(* settled, donated or withdrawn around it.                                *)
THEOREM PinnedVaultsCoverOpenSlots == PinnedSpec => []PinnedVaultCoversOpenSlots
  <1>1. PinnedInv => PinnedVaultCoversOpenSlots
    BY DEF PinnedInv
  <1> QED
    BY <1>1, PinnedSpecInv, PTL

-----------------------------------------------------------------------------
(* The guards that money can fail.                                         *)

(* What paying or refunding a claim's slot asks of the vault.              *)
SlotIsFunded(t, c) ==
    LET split == ComputeFeeSplit(tasks[t].bounty, config.fee_bps)
        paid  == Moved(balance, Vault(t), Wallet(claims[c].claimer), split.net)
    IN  /\ split.ok
        /\ split.net <= balance[Vault(t)]
        /\ split.fee <= paid[Vault(t)]
        /\ tasks[t].bounty <= balance[Vault(t)]

(* The vault is there, no live claim's payout or refund can fail on the    *)
(* amount, and nothing but a live claim keeps a task from closing.         *)
VaultBlocksNothing ==
    \A t \in TaskIds : IsOpen(t) =>
      /\ Vault(t) \in accounts
      /\ \A c \in ClaimsOf(t) :
           claims[c].status \notin Terminal => SlotIsFunded(t, c)
      /\ (\A c \in ClaimsOf(t) : claims[c].status \in Terminal)
           => ActiveSlots(tasks[t]) = 0

SettledClaims(t) == {c \in ClaimsOf(t) : claims[c].status \in Terminal}

(* The counters of paid and of refunded slots add up to the settled claims.*)
LEMMA SettledSlots ==
    ASSUME TypeOK, NEW t \in TaskIds, TaskExists(t), Books(t)
    PROVE  /\ IsFiniteSet(SettledClaims(t))
           /\ tasks[t].slots_approved + tasks[t].slots_refunded
                = Cardinality(SettledClaims(t))
  <1>1. SettledClaims(t) = PaidClaims(t) \cup RefundedClaims(t)
    BY DEF SettledClaims, PaidClaims, RefundedClaims, Terminal
  <1>2. PaidClaims(t) \cap RefundedClaims(t) = {}
    BY DEF PaidClaims, RefundedClaims, PaidStatus, RefundedStatus
  <1>3. /\ IsFiniteSet(SettledClaims(t))
        /\ Cardinality(SettledClaims(t))
             = Cardinality(PaidClaims(t)) + Cardinality(RefundedClaims(t))
                 - Cardinality({})
    BY <1>1, <1>2, FiniteSlots, FS_Union
  <1>4. /\ Cardinality(PaidClaims(t)) \in Nat
        /\ Cardinality(RefundedClaims(t)) \in Nat
        /\ Cardinality({}) = 0
    BY FiniteSlots, FS_CardinalityType, FS_EmptySet
  <1>5. Cardinality(SettledClaims(t))
          = Cardinality(PaidClaims(t)) + Cardinality(RefundedClaims(t))
    BY <1>3, <1>4
  <1> QED
    BY <1>3, <1>5 DEF Books

LEMMA PlusOne ==
    ASSUME NEW b \in Int, NEW n \in Int
    PROVE  b * (n + 1) = b * n + b
  OBVIOUS

LEMMA NatTimesNat ==
    ASSUME NEW b \in Nat, NEW n \in Nat
    PROVE  b * n \in Nat
  OBVIOUS

(* A live claim's slot is among those still owed.                          *)
LEMMA LiveSlotIsOwed ==
    ASSUME TypeOK, NEW t \in TaskIds, TaskExists(t), Books(t),
           NEW c \in ClaimsOf(t), claims[c].status \notin Terminal
    PROVE  Owed(t) >= tasks[t].bounty
  <1> DEFINE approved == tasks[t].slots_approved
             refunded == tasks[t].slots_refunded
             bounty == tasks[t].bounty
             left == tasks[t].max_slots - approved - refunded
  <1>1. /\ tasks[t].max_slots \in Nat /\ bounty \in Nat
        /\ approved \in Nat /\ refunded \in Nat
        /\ tasks[t].slots_enrolled \in Nat
    BY ExistingAccounts DEF EscrowTask, U64, MAX_SLOTS_LIMIT
  <1>2. SettledClaims(t) \subseteq ClaimsOf(t)
        /\ SettledClaims(t) # ClaimsOf(t)
    BY DEF SettledClaims
  <1>3. Cardinality(SettledClaims(t)) < Cardinality(ClaimsOf(t))
    <2>1. /\ Cardinality(SettledClaims(t)) <= Cardinality(ClaimsOf(t))
          /\ Cardinality(SettledClaims(t)) # Cardinality(ClaimsOf(t))
      BY <1>2, FiniteSlots, FS_Subset
    <2>2. /\ Cardinality(SettledClaims(t)) \in Nat
          /\ Cardinality(ClaimsOf(t)) \in Nat
      BY SettledSlots, FiniteSlots, FS_CardinalityType
    <2> QED
      BY <2>1, <2>2
  <1>4. approved + refunded < tasks[t].slots_enrolled
    BY <1>3, SettledSlots DEF Books
  <1>5. tasks[t].slots_enrolled <= tasks[t].max_slots
    BY DEF Books
  <1>6. left \in Int /\ left - 1 \in Nat /\ left = (left - 1) + 1
    BY <1>1, <1>4, <1>5
  <1>7. Owed(t) = bounty * left
    BY DEF Owed
  <1> HIDE DEF left, bounty
  <1>8. bounty * left = bounty * (left - 1) + bounty
    BY <1>1, <1>6, PlusOne
  <1>9. bounty * (left - 1) \in Nat
    BY <1>1, <1>6, NatTimesNat
  <1>10. Owed(t) >= bounty
    BY <1>1, <1>7, <1>8, <1>9
  <1> QED
    BY <1>10 DEF bounty

LEMMA CoveredSlotIsFunded ==
    ASSUME TypeOK, Initialized, NEW t \in TaskIds, TaskExists(t),
           NEW c \in ClaimsOf(t), tasks[t].bounty <= balance[Vault(t)]
    PROVE  SlotIsFunded(t, c)
  <1> DEFINE bounty == tasks[t].bounty
             claimer == Wallet(claims[c].claimer)
             split == ComputeFeeSplit(bounty, config.fee_bps)
             paid == Moved(balance, Vault(t), claimer, split.net)
  <1>1. /\ bounty \in U64 /\ bounty \in Nat
        /\ config.fee_bps \in 0 .. FEE_BPS_CAP
        /\ claims[c].claimer \in Users
    BY ExistingAccounts
    DEF EscrowTask, EscrowConfig, EscrowClaim, U64, ClaimsOf
  <1>2. /\ split.ok
        /\ split.net \in Nat /\ split.fee \in Nat
        /\ split.net + split.fee = bounty
    BY <1>1, FeeSplitIsExact
  <1>3. /\ Vault(t) \in Addresses /\ claimer \in Addresses
        /\ Vault(t) # claimer
        /\ balance \in [Addresses -> Nat]
    BY <1>1, PinnedAddresses, VaultIsNoWallet, TypeOKLedger DEF LedgerOK
  <1> HIDE DEF split, claimer, bounty
  <1>4. paid[Vault(t)] = balance[Vault(t)] - split.net
    BY <1>2, <1>3, MovedValues
  <1>5. balance[Vault(t)] \in Nat
    BY <1>3
  <1>6. bounty <= balance[Vault(t)]
    BY DEF bounty
  <1> HIDE DEF paid
  <1>7. split.net <= balance[Vault(t)] /\ split.fee <= paid[Vault(t)]
    BY <1>1, <1>2, <1>4, <1>5, <1>6
  <1> QED
    BY <1>2, <1>6, <1>7 DEF SlotIsFunded, split, claimer, paid, bounty

(* With every claim settled, the counters leave no active slot.            *)
LEMMA AllSettledNoActiveSlot ==
    ASSUME TypeOK, NEW t \in TaskIds, TaskExists(t), Books(t),
           \A c \in ClaimsOf(t) : claims[c].status \in Terminal
    PROVE  ActiveSlots(tasks[t]) = 0
  <1>1. SettledClaims(t) = ClaimsOf(t)
    BY DEF SettledClaims
  <1>2. tasks[t].slots_approved + tasks[t].slots_refunded
          = tasks[t].slots_enrolled
    BY <1>1, SettledSlots DEF Books
  <1>3. /\ tasks[t].slots_approved \in Nat
        /\ tasks[t].slots_refunded \in Nat
        /\ tasks[t].slots_enrolled \in Nat
    BY ExistingAccounts DEF EscrowTask
  <1> QED
    BY <1>2, <1>3 DEF ActiveSlots, SaturatingSub

(* The vault in reach can pay every live claim of its task.                *)
LiveClaimsCovered ==
    \A c \in ClaimIds :
      ClaimExists(c) /\ claims[c].status \notin Terminal =>
        /\ IsOpen(claims[c].task)
        /\ Vault(claims[c].task) \in accounts
        /\ tasks[claims[c].task].bounty <= balance[Vault(claims[c].task)]

LEMMA LiveClaimIsCovered == PinnedInv => LiveClaimsCovered
  <1> SUFFICES ASSUME PinnedInv, NEW c \in ClaimIds, ClaimExists(c),
                      claims[c].status \notin Terminal
               PROVE  /\ IsOpen(claims[c].task)
                      /\ Vault(claims[c].task) \in accounts
                      /\ tasks[claims[c].task].bounty
                           <= balance[Vault(claims[c].task)]
    BY DEF LiveClaimsCovered
  <1> DEFINE t == claims[c].task
  <1>1. TypeOK /\ t \in TaskIds /\ c \in ClaimsOf(t)
    BY ExistingAccounts DEF PinnedInv, Inv1, Inv0, EscrowClaim, ClaimsOf
  <1>2. IsOpen(t)
    BY DEF PinnedInv, Inv1, LiveClaimHasOpenTask
  <1> HIDE DEF t
  <1>3. Initialized /\ TaskExists(t) /\ Books(t)
    BY <1>1, <1>2, BooksAreSlotAccounting
    DEF PinnedInv, Inv1, TasksHaveConfig, IsOpen
  <1>4. Vault(t) \in accounts /\ balance[Vault(t)] >= Owed(t)
    BY <1>1, <1>2 DEF PinnedInv, PinnedVaultCoversOpenSlots
  <1>5. Owed(t) >= tasks[t].bounty
    BY <1>1, <1>3, LiveSlotIsOwed
  <1>6. /\ tasks[t].bounty \in Nat /\ Owed(t) \in Int
        /\ balance[Vault(t)] \in Nat
    BY <1>1, <1>3, ExistingAccounts, OwedType, PinnedAddresses, TypeOKLedger
    DEF LedgerOK
  <1> QED
    BY <1>2, <1>4, <1>5, <1>6 DEF t

(* What OnlyAccountsBlock says of money, without ENABLED: under the admin  *)
(* rule no review, no dispute and no closing of an open task is held up by *)
(* its vault or by what other slots were paid (claim.rs:238, claim.rs:364, *)
(* task.rs:271).                                                           *)
THEOREM VaultsBlockNothing == PinnedSpec => []VaultBlocksNothing
  <1>1. PinnedInv => VaultBlocksNothing
    <2> SUFFICES ASSUME PinnedInv, NEW t \in TaskIds, IsOpen(t)
                 PROVE  /\ Vault(t) \in accounts
                        /\ \A c \in ClaimsOf(t) :
                             claims[c].status \notin Terminal
                               => SlotIsFunded(t, c)
                        /\ (\A c \in ClaimsOf(t) :
                              claims[c].status \in Terminal)
                             => ActiveSlots(tasks[t]) = 0
      BY DEF VaultBlocksNothing
    <2>1. TypeOK /\ Initialized /\ TaskExists(t) /\ Books(t)
      BY BooksAreSlotAccounting
      DEF PinnedInv, Inv1, Inv0, TasksHaveConfig, IsOpen
    <2>2. Vault(t) \in accounts
      BY DEF PinnedInv, PinnedVaultCoversOpenSlots
    <2>3. ASSUME NEW c \in ClaimsOf(t), claims[c].status \notin Terminal
          PROVE  SlotIsFunded(t, c)
      BY <2>1, <2>3, LiveClaimIsCovered, CoveredSlotIsFunded
      DEF ClaimsOf, LiveClaimsCovered
    <2> QED
      BY <2>1, <2>2, <2>3, AllSettledNoActiveSlot
  <1> QED
    BY <1>1, PinnedSpecInv, PTL

-----------------------------------------------------------------------------
(* What is due.                                                            *)

LEMMA DueStaysDueStep ==
    ASSUME PinnedInv, [PinnedNext]_vars, NEW t \in TaskIds, NEW c \in ClaimIds,
           CrankDue(t, c), claims'[c] = claims[c]
    PROVE  CrankDue(t, c)'
  <1>1. /\ ClaimExists(c) /\ claims[c].task = t
        /\ claims[c].status \in {"Submitted", "Disputed"}
        /\ claims[c].status \notin Terminal
    BY ReviewedIsLive DEF CrankDue, UnderReview, UnderDispute, ClaimOn
  <1>2. PinnedInv'
    BY PinnedInvStep
  <1>3. LiveClaimsCovered'
    BY <1>2, LiveClaimIsCovered, PTL
  <1>4. ClaimExists(c)'
    BY <1>1 DEF ClaimExists
  <1>5. /\ IsOpen(t)'
        /\ Vault(t)' \in accounts'
        /\ tasks'[t].bounty <= balance'[Vault(t)']
    BY <1>1, <1>3, <1>4 DEF LiveClaimsCovered
  <1>6. Initialized'
    BY <1>2, <1>5 DEF PinnedInv, TasksHaveConfig, IsOpen
  <1>7. now \in Nat /\ now' \in Nat /\ now <= now'
    BY PinnedStepIsStep, NextStep DEF PinnedInv, Inv1, Inv0, TypeOK, StepOK
  <1>8. claims[c].submitted_at \in Nat /\ claims[c].disputed_at \in Nat
    BY <1>1, ExistingAccounts DEF PinnedInv, Inv1, Inv0, EscrowClaim
  <1>9. CASE /\ UnderReview(t, c)
             /\ WindowElapsed(claims[c].submitted_at, AUTO_APPROVE_WINDOW_SECS)
    <2>1. UnderReview(t, c)'
      BY <1>1, <1>4, <1>5, <1>6, <1>9 DEF UnderReview, ClaimOn, IsOpen, TaskExists
    <2>2. WindowElapsed(claims[c].submitted_at, AUTO_APPROVE_WINDOW_SECS)'
      BY <1>7, <1>8, <1>9, WindowAssumption DEF WindowElapsed
    <2> QED
      BY <1>5, <2>1, <2>2 DEF CrankDue
  <1>10. CASE /\ UnderDispute(t, c)
              /\ WindowElapsed(claims[c].disputed_at, AUTO_DISPUTE_WINDOW_SECS)
    <2>1. UnderDispute(t, c)'
      BY <1>1, <1>4, <1>5, <1>6, <1>10 DEF UnderDispute, ClaimOn, IsOpen, TaskExists
    <2>2. WindowElapsed(claims[c].disputed_at, AUTO_DISPUTE_WINDOW_SECS)'
      BY <1>7, <1>8, <1>10, WindowAssumption DEF WindowElapsed
    <2> QED
      BY <1>5, <2>1, <2>2 DEF CrankDue
  <1> QED
    BY <1>9, <1>10 DEF CrankDue

(* A crank that has come due waits for as long as it takes: other slots    *)
(* paid or refunded from the same vault, fee changes, donations, the       *)
(* admin and the clock do not take it away.  This is why weak fairness of  *)
(* the cranks is enough for a review and a dispute to end.                 *)
THEOREM DueCranksStayDue == PinnedSpec => DueStaysDue
  <1>1. PinnedInv /\ [PinnedNext]_vars
          => [\A t \in TaskIds, c \in ClaimIds :
                CrankDue(t, c) /\ claims'[c] = claims[c]
                  => CrankDue(t, c)']_vars
    BY DueStaysDueStep
  <1> QED
    BY <1>1, PinnedSpecInv, PTL DEF PinnedSpec, PinnedNext, DueStaysDue

-----------------------------------------------------------------------------
(* What goes through.  OnlyAccountsBlock says that an instruction is       *)
(* ENABLED.  The provers know nothing of ENABLED, but what it means can be *)
(* said without it: each primed variable is given a value computed from    *)
(* the accounts as they are, and the step to those values is a step of the *)
(* handler.                                                                *)

(* The values after one slot's payout, for a claim left in `status`.       *)
AfterPayout(t, c, status) ==
    LET split == ComputeFeeSplit(tasks[t].bounty, config.fee_bps)
        paid  == Moved(balance, Vault(t), Wallet(claims[c].claimer), split.net)
    IN  /\ balance' = Moved(paid, Vault(t), FeeVault, split.fee)
        /\ tasks' = [tasks EXCEPT ![t].slots_approved = @ + 1]
        /\ claims' = [claims EXCEPT ![c].status = status]
        /\ UNCHANGED <<config, accounts, now>>

(* The values after a rejection: below the cap nothing but the claim       *)
(* changes, at the cap the slot's bounty moves back to the poster.         *)
AfterRejection(t, c) ==
    LET rejections == claims[c].rejections + 1
        rejected(status) == [claims EXCEPT ![c].status = status,
                                           ![c].rejections = rejections]
    IN  /\ IF rejections < MAX_REJECTIONS
           THEN /\ claims' = rejected("Rejected")
                /\ UNCHANGED <<tasks, balance>>
           ELSE /\ claims' = rejected("Cancelled")
                /\ tasks' = [tasks EXCEPT ![t].slots_refunded = @ + 1]
                /\ balance' = Moved(balance, Vault(t), Wallet(tasks[t].poster),
                                    tasks[t].bounty)
        /\ UNCHANGED <<config, accounts, now>>

(* The values after a task is closed.                                      *)
AfterClosing(t) ==
    /\ balance' = Moved(balance, Vault(t), Wallet(tasks[t].poster),
                        balance[Vault(t)])
    /\ accounts' = accounts \ {Vault(t)}
    /\ tasks' = [tasks EXCEPT ![t].status = "Closed"]
    /\ UNCHANGED <<config, claims, now>>

(* All a payout asks for, besides the state the claim is in.               *)
LEMMA PayoutGoesThrough ==
    ASSUME PinnedInv, NEW t \in TaskIds, NEW c \in ClaimsOf(t),
           claims[c].status \notin Terminal, Payable(c),
           NEW status \in ClaimStatus, AfterPayout(t, c, status)
    PROVE  /\ Initialized /\ TaskExists(t) /\ tasks[t].status = "Open"
           /\ ClaimOn(t, c)
           /\ PayDeliverer(t, c)
           /\ Settled(c, status)
           /\ SlotApproved(t)
           /\ UNCHANGED <<config, now>>
  <1>1. c \in ClaimIds /\ ClaimExists(c) /\ claims[c].task = t
    BY DEF ClaimsOf
  <1>2. /\ IsOpen(t) /\ Vault(t) \in accounts
        /\ tasks[t].bounty <= balance[Vault(t)]
    BY <1>1, LiveClaimIsCovered DEF LiveClaimsCovered
  <1>3. TypeOK /\ Initialized /\ TaskExists(t)
    BY <1>2 DEF PinnedInv, Inv1, Inv0, TasksHaveConfig, IsOpen
  <1>4. SlotIsFunded(t, c)
    BY <1>2, <1>3, CoveredSlotIsFunded
  <1>5. PayDeliverer(t, c)
    BY <1>2, <1>4 DEF PayDeliverer, SlotIsFunded, Payable, AfterPayout
  <1> QED
    BY <1>1, <1>2, <1>3, <1>5
    DEF AfterPayout, Settled, SlotApproved, ClaimOn, IsOpen

(* Work under review: the poster can approve it as soon as the deliverer   *)
(* and the fee vault have their accounts, anyone can once the window has   *)
(* elapsed, and the poster can reject it while he has his own              *)
(* (claim.rs:187, claim.rs:300, claim.rs:417).                             *)
THEOREM ReviewsGoThrough ==
    ASSUME PinnedInv, NEW t \in TaskIds, NEW c \in ClaimsOf(t),
           claims[c].status = "Submitted"
    PROVE  /\ Payable(c) /\ AfterPayout(t, c, "Approved")
                => ApproveClaim(tasks[t].poster, t, c)
           /\ Payable(c) /\ AfterPayout(t, c, "Approved")
                /\ WindowElapsed(claims[c].submitted_at,
                                 AUTO_APPROVE_WINDOW_SECS)
                => AutoApprove(t, c)
           /\ Refundable(t) /\ AfterRejection(t, c)
                => RejectClaim(tasks[t].poster, t, c)
  <1>1. claims[c].status \notin Terminal /\ "Approved" \in ClaimStatus
    BY DEF Terminal, PaidStatus, RefundedStatus, ClaimStatus
  <1>2. c \in ClaimIds /\ ClaimExists(c) /\ claims[c].task = t
    BY DEF ClaimsOf
  <1>3. /\ IsOpen(t) /\ Vault(t) \in accounts
        /\ tasks[t].bounty <= balance[Vault(t)]
    BY <1>1, <1>2, LiveClaimIsCovered DEF LiveClaimsCovered
  <1>4. UnderReview(t, c)
    BY <1>2, <1>3
    DEF UnderReview, ClaimOn, IsOpen, PinnedInv, TasksHaveConfig
  <1>5. ASSUME Payable(c), AfterPayout(t, c, "Approved")
        PROVE  /\ ApproveClaim(tasks[t].poster, t, c)
               /\ WindowElapsed(claims[c].submitted_at,
                                AUTO_APPROVE_WINDOW_SECS) => AutoApprove(t, c)
    BY <1>1, <1>4, <1>5, PayoutGoesThrough DEF ApproveClaim, AutoApprove
  <1>6. ASSUME Refundable(t), AfterRejection(t, c)
        PROVE  RejectClaim(tasks[t].poster, t, c)
    <2>1. {Vault(t), Wallet(tasks[t].poster)} \subseteq accounts
      BY <1>3, <1>6 DEF Refundable
    <2>2. CASE MayRework(claims[c])
      BY <1>4, <1>6, <2>1, <2>2
      DEF RejectClaim, RejectForRework, AsRejected, AfterRejection, MayRework
    <2>3. CASE ~MayRework(claims[c])
      BY <1>3, <1>4, <1>6, <2>1, <2>3
      DEF RejectClaim, RejectForGood, RefundSlot, Transfer, CanTransfer,
          SlotRefunded, AsRejected, AfterRejection, MayRework
    <2> QED
      BY <2>2, <2>3
  <1> QED
    BY <1>5, <1>6

(* A dispute whose window has elapsed: anyone can have it settled for the  *)
(* deliverer, and the admin could for him before that, if the poster's     *)
(* account is there too, which that handler asks for (dispute.rs:61,       *)
(* dispute.rs:195).                                                        *)
THEOREM DisputesGoThrough ==
    ASSUME PinnedInv, NEW t \in TaskIds, NEW c \in ClaimsOf(t),
           claims[c].status = "Disputed", Payable(c),
           AfterPayout(t, c, "ResolvedDeliverer")
    PROVE  /\ WindowElapsed(claims[c].disputed_at, AUTO_DISPUTE_WINDOW_SECS)
                => AutoResolveDispute(t, c)
           /\ Refundable(t) => ResolveDispute(config.admin, t, c)
  <1>1. /\ claims[c].status \notin Terminal
        /\ "ResolvedDeliverer" \in ClaimStatus
    BY DEF Terminal, PaidStatus, RefundedStatus, ClaimStatus
  <1>2. /\ UnderDispute(t, c)
        /\ ResolveForDeliverer(t, c)
        /\ UNCHANGED <<config, now>>
    BY <1>1, PayoutGoesThrough DEF UnderDispute, ResolveForDeliverer
  <1>3. c \in ClaimIds /\ ClaimExists(c) /\ claims[c].task = t
    BY DEF ClaimsOf
  <1>4. Vault(t) \in accounts
    BY <1>1, <1>3, LiveClaimIsCovered DEF LiveClaimsCovered
  <1>5. Refundable(t) => ResolveAccounts(t, c) \subseteq accounts
    BY <1>4 DEF Refundable, Payable, ResolveAccounts
  <1> QED
    BY <1>2, <1>5 DEF AutoResolveDispute, ResolveDispute

(* A task with every claim settled: its poster can close it at any time,   *)
(* and anyone can once its deadline has passed, as long as the poster has  *)
(* an account to refund to (task.rs:233).                                  *)
THEOREM ClosingsGoThrough ==
    ASSUME PinnedInv, NEW t \in TaskIds, IsOpen(t), Refundable(t),
           \A c \in ClaimsOf(t) : claims[c].status \in Terminal,
           AfterClosing(t)
    PROVE  /\ CloseTask(tasks[t].poster, t)
           /\ DeadlinePassed(t) => \A caller \in Users : CloseTask(caller, t)
  <1>1. TypeOK /\ Initialized /\ TaskExists(t) /\ Books(t)
    BY BooksAreSlotAccounting
    DEF PinnedInv, Inv1, Inv0, TasksHaveConfig, IsOpen
  <1>2. Vault(t) \in accounts
    BY DEF PinnedInv, PinnedVaultCoversOpenSlots
  <1>3. ActiveSlots(tasks[t]) = 0
    BY <1>1, AllSettledNoActiveSlot
  <1>4. RefundAndClose(t)
    BY <1>2 DEF RefundAndClose, DrainAndClose, AfterClosing, Refundable, IsOpen
  <1> QED
    BY <1>1, <1>3, <1>4 DEF CloseTask

-----------------------------------------------------------------------------
(* What is decided in the end.  EscrowLiveness states fairness with WF,    *)
(* which is about ENABLED.  Here it is stated with the state predicate     *)
(* that ReviewsGoThrough and DisputesGoThrough show to be enough for the   *)
(* crank to go through.                                                    *)

Undecided(c) == Has(c, {"Submitted", "Disputed"})

(* The window of whatever the claim waits for has run out.                 *)
Expired(c) ==
    \/ /\ Has(c, {"Submitted"})
       /\ WindowElapsed(claims[c].submitted_at, AUTO_APPROVE_WINDOW_SECS)
    \/ /\ Has(c, {"Disputed"})
       /\ WindowElapsed(claims[c].disputed_at, AUTO_DISPUTE_WINDOW_SECS)

Crank(c) == \E t \in TaskIds : AutoApprove(t, c) \/ AutoResolveDispute(t, c)

(* The hourly job: a crank that can be called from some time on is called. *)
CrankHeeded(c) == <>[](Expired(c) /\ Payable(c)) => []<><<Crank(c)>>_vars

(* Time: no window stays open for ever.  While a claim waits its stamp     *)
(* does not change, so a clock that passes every time is enough.           *)
WindowRunsOut(c) == Undecided(c) ~> Expired(c) \/ ~Undecided(c)

(* From some time on the claimer and the fee vault have the accounts that  *)
(* the payout of an expired claim goes to.                                 *)
PayeesStay(c) == <>[](Expired(c) => Payable(c))

(* An expired claim is due: its task is open and its vault can pay.        *)
LEMMA ExpiredIsDue ==
    ASSUME PinnedInv, NEW c \in ClaimIds, Expired(c)
    PROVE  claims[c].task \in TaskIds /\ CrankDue(claims[c].task, c)
  <1> DEFINE t == claims[c].task
  <1>1. ClaimExists(c) /\ claims[c].status \notin Terminal
    BY DEF Expired, Has, Terminal, PaidStatus, RefundedStatus
  <1>2. t \in TaskIds
    BY <1>1, ExistingAccounts DEF PinnedInv, Inv1, Inv0, EscrowClaim
  <1>3. /\ IsOpen(t) /\ Vault(t) \in accounts
        /\ tasks[t].bounty <= balance[Vault(t)]
    BY <1>1, LiveClaimIsCovered DEF LiveClaimsCovered
  <1>4. Initialized /\ ClaimOn(t, c) /\ tasks[t].status = "Open"
    BY <1>1, <1>2, <1>3 DEF PinnedInv, TasksHaveConfig, IsOpen, ClaimOn
  <1> QED
    BY <1>2, <1>3, <1>4
    DEF Expired, Has, CrankDue, UnderReview, UnderDispute

(* That is all the crank needs: the step it takes is there to be taken.    *)
LEMMA ExpiredGoesThrough ==
    ASSUME PinnedInv, NEW c \in ClaimIds, Expired(c), Payable(c)
    PROVE  \E status \in {"Approved", "ResolvedDeliverer"} :
             AfterPayout(claims[c].task, c, status) => Crank(c)
  <1> DEFINE t == claims[c].task
  <1>1. t \in TaskIds /\ c \in ClaimsOf(t)
    BY ExpiredIsDue DEF Expired, Has, ClaimsOf
  <1>2. CASE /\ Has(c, {"Submitted"})
             /\ WindowElapsed(claims[c].submitted_at, AUTO_APPROVE_WINDOW_SECS)
    BY <1>1, <1>2, ReviewsGoThrough DEF Has, Crank
  <1>3. CASE /\ Has(c, {"Disputed"})
             /\ WindowElapsed(claims[c].disputed_at, AUTO_DISPUTE_WINDOW_SECS)
    BY <1>1, <1>3, DisputesGoThrough DEF Has, Crank
  <1> QED
    BY <1>2, <1>3 DEF Expired

(* Whatever is written to a claim that waits, it waits no longer.          *)
LEMMA WriteDecides ==
    ASSUME PinnedInv, [PinnedNext]_vars, NEW c \in ClaimIds,
           Undecided(c), claims'[c] # claims[c]
    PROVE  /\ ~Undecided(c)'
           /\ Has(c, {"Disputed"}) => Has(c, Terminal)'
  <1>1. Inv0 /\ [Next]_vars
    BY PinnedStepIsStep DEF PinnedInv, Inv1
  <1>2. ClaimExists(c) /\ claims[c].status \in {"Submitted", "Disputed"}
    BY DEF Undecided, Has
  <1>3. ClaimWritten(c) /\ ClaimExists(c)'
    BY <1>1, <1>2, NextWrites, ClaimsMoveOnStep DEF Inv0
  <1>4. TurnedDown(c) \/ Decided(c)
    BY <1>2, <1>3
    DEF ClaimWritten, Born, HandedIn, Contested, Submittable, Disputable
  <1>5. /\ claims'[c].status \in {"Rejected"} \cup Terminal
        /\ claims[c].status = "Disputed" => claims'[c].status \in Terminal
    BY <1>1, <1>2, <1>3, <1>4, WrittenClaim
    DEF Terminal, RefundedStatus, TurnedDown
  <1>6. ~Undecided(c)'
    BY <1>5 DEF Undecided, Has, Terminal, PaidStatus, RefundedStatus
  <1>7. Has(c, {"Disputed"}) => Has(c, Terminal)'
    BY <1>3, <1>5 DEF Has
  <1> QED
    BY <1>6, <1>7

(* Time does not stop a window from having run out.                        *)
LEMMA ExpiredUntilDecided ==
    ASSUME PinnedInv, [PinnedNext]_vars, NEW c \in ClaimIds, Expired(c)
    PROVE  Expired(c)' \/ ~Undecided(c)'
  <1>1. CASE claims'[c] # claims[c]
    BY <1>1, WriteDecides DEF Expired, Undecided, Has
  <1>2. CASE claims'[c] = claims[c]
    <2>1. /\ claims[c].task \in TaskIds
          /\ CrankDue(claims[c].task, c)'
      BY <1>2, ExpiredIsDue, DueStaysDueStep
    <2> QED
      BY <2>1 DEF CrankDue, UnderReview, UnderDispute, ClaimOn, Expired, Has
  <1> QED
    BY <1>1, <1>2

LEMMA CrankDecides ==
    ASSUME PinnedInv, [PinnedNext]_vars, NEW c \in ClaimIds, Crank(c)
    PROVE  Undecided(c) /\ ~Undecided(c)'
  <1>1. PICK t \in TaskIds : AutoApprove(t, c) \/ AutoResolveDispute(t, c)
    BY DEF Crank
  <1>2. Undecided(c) /\ ClaimExists(c)
    BY <1>1 DEF AutoApprove, AutoResolveDispute, UnderReview, UnderDispute,
       ClaimOn, Undecided, Has
  <1>3. TypeOK
    BY DEF PinnedInv, Inv1, Inv0
  <1>4. claims'[c] # claims[c]
    <2>1. \E status \in {"Approved", "ResolvedDeliverer"} : Settled(c, status)
      BY <1>1 DEF AutoApprove, AutoResolveDispute, ResolveForDeliverer
    <2>2. claims[c] \in EscrowClaim
      BY <1>2, <1>3, ExistingAccounts
    <2>3. claims'[c].status \in {"Approved", "ResolvedDeliverer"}
      BY <1>3, <2>1, <2>2 DEF Settled, TypeOK, EscrowClaim
    <2> QED
      BY <1>2, <2>3 DEF Undecided, Has
  <1> QED
    BY <1>2, <1>4, WriteDecides

LEMMA ClaimIsDecided ==
    ASSUME NEW c \in ClaimIds
    PROVE  PinnedSpec /\ WindowRunsOut(c) /\ CrankHeeded(c) /\ PayeesStay(c)
             => /\ Has(c, {"Submitted"}) ~> ~Has(c, {"Submitted"})
                /\ Has(c, {"Disputed"}) ~> Has(c, Terminal)
  <1>1. PinnedInv /\ [PinnedNext]_vars /\ Expired(c)
          => Expired(c)' \/ ~Undecided(c)'
    BY ExpiredUntilDecided
  <1>2. PinnedInv /\ [PinnedNext]_vars /\ <<Crank(c)>>_vars
          => ~Undecided(c)'
    BY CrankDecides
  <1>3. PinnedInv /\ [PinnedNext]_vars /\ Has(c, {"Disputed"})
          => Has(c, {"Disputed"})' \/ Has(c, Terminal)'
    BY WriteDecides DEF Has, Undecided, ClaimExists
  <1>4. Has(c, {"Submitted"}) \/ Has(c, {"Disputed"}) <=> Undecided(c)
    BY DEF Has, Undecided
  <1> QED
    BY <1>1, <1>2, <1>3, <1>4, PinnedSpecInv, PTL
    DEF PinnedSpec, PinnedNext, WindowRunsOut, CrankHeeded, PayeesStay

DecisionAssumptions ==
    \A c \in ClaimIds : WindowRunsOut(c) /\ CrankHeeded(c) /\ PayeesStay(c)

(* Silence of the poster is no veto: if the clock runs, the crank is       *)
(* called once it can be, and the accounts it pays to are there, then work *)
(* under review is decided, whatever poster, admin, other deliverers,      *)
(* donors and fee changes do meanwhile (overview.md:232).                  *)
THEOREM ReviewsEnd == PinnedSpec /\ DecisionAssumptions => ReviewEnds
  <1>1. ASSUME NEW c \in ClaimIds
        PROVE  PinnedSpec /\ WindowRunsOut(c) /\ CrankHeeded(c) /\ PayeesStay(c)
                 => (Has(c, {"Submitted"}) ~> ~Has(c, {"Submitted"}))
    BY ClaimIsDecided
  <1> QED
    BY <1>1 DEF DecisionAssumptions, ReviewEnds

(* Nor is silence of the admin: a dispute is settled (overview.md:233).    *)
THEOREM DisputesEnd == PinnedSpec /\ DecisionAssumptions => DisputeEnds
  <1>1. ASSUME NEW c \in ClaimIds
        PROVE  PinnedSpec /\ WindowRunsOut(c) /\ CrankHeeded(c) /\ PayeesStay(c)
                 => (Has(c, {"Disputed"}) ~> Has(c, Terminal))
    BY ClaimIsDecided
  <1> QED
    BY <1>1 DEF DecisionAssumptions, DisputeEnds

(* A deliverer who keeps going, with the state predicate in the place of   *)
(* ENABLED: Submit asks for no more.                                       *)
GoesOn(c) == \E u \in Users, t \in TaskIds : Submit(u, t, c) \/ OpenDispute(u, t, c)

DelivererGoesOn(c) == <>[]Has(c, Submittable) => []<><<GoesOn(c)>>_vars

LEMMA DelivererMayGoOn ==
    ASSUME PinnedInv, NEW c \in ClaimIds, Has(c, Submittable),
           claims' = [claims EXCEPT ![c] = AsSubmitted(claims[c])],
           UNCHANGED <<config, tasks, accounts, balance, now>>
    PROVE  GoesOn(c)
  <1> DEFINE t == claims[c].task
  <1>1. /\ ClaimExists(c) /\ claims[c].status \in Submittable
        /\ claims[c].status \notin Terminal
    BY DEF Has, Submittable, Terminal, PaidStatus, RefundedStatus
  <1>2. t \in TaskIds /\ claims[c].claimer \in Users
    BY <1>1, ExistingAccounts DEF PinnedInv, Inv1, Inv0, EscrowClaim
  <1>3. TaskExists(t)
    BY <1>1, LiveClaimIsCovered DEF LiveClaimsCovered, IsOpen
  <1>4. Submit(claims[c].claimer, t, c)
    BY <1>1, <1>3 DEF Submit, ClaimOn
  <1> QED
    BY <1>2, <1>4 DEF GoesOn

(* The claim has come at least this far on its way, which is 7 long.       *)
Past(c, n) == ClaimExists(c) /\ Progress(claims[c]) >= n

LEMMA StagesOfAClaim ==
    ASSUME PinnedInv, NEW c \in ClaimIds
    PROVE  /\ ClaimExists(c) /\ ~Past(c, 1) => Has(c, Submittable)
           /\ Past(c, 1) /\ ~Past(c, 2) => Undecided(c)
           /\ Past(c, 2) /\ ~Past(c, 3) => Has(c, Submittable)
           /\ Past(c, 3) /\ ~Past(c, 4) => Undecided(c)
           /\ Past(c, 4) /\ ~Past(c, 5) => Has(c, Submittable)
           /\ Past(c, 5) /\ ~Past(c, 7) => Undecided(c)
           /\ Past(c, 7) => Has(c, Terminal)
  <1> DEFINE k == claims[c]
  <1>1. CASE ~ClaimExists(c)
    BY <1>1 DEF Past
  <1>2. CASE ClaimExists(c)
    <2>1. k.status \in ClaimStatus /\ k.rejections \in Nat
      BY <1>2, ExistingAccounts
      DEF PinnedInv, Inv1, Inv0, EscrowClaim, MAX_REJECTIONS
    <2>2. k.status \notin Terminal => k.rejections \in 0 .. 2
      BY <1>2, <2>1, BelowCap
      DEF PinnedInv, Inv1, Inv0, ClaimHistory, Consistent, MAX_REJECTIONS,
          Terminal, RefundedStatus
    <2>3. CASE k.status \in Terminal
      <3>1. Progress(k) = 7
        BY <2>3 DEF Progress, MAX_REJECTIONS, Terminal, PaidStatus,
           RefundedStatus
      <3> QED
        BY <1>2, <2>3, <3>1 DEF Past, Has
    <2>4. CASE k.status = "Disputed"
      <3>1. Progress(k) = 6
        BY <2>4 DEF Progress, MAX_REJECTIONS, Terminal, PaidStatus,
           RefundedStatus
      <3> QED
        BY <1>2, <2>4, <3>1 DEF Past, Has, Undecided
    <2>5. CASE k.status = "Submitted"
      <3>1. Progress(k) \in {1, 3, 5}
        BY <2>2, <2>5 DEF Progress, Terminal, PaidStatus, RefundedStatus
      <3> QED
        BY <1>2, <2>5, <3>1 DEF Past, Has, Undecided
    <2>6. CASE k.status \in Submittable
      <3>1. Progress(k) \in {0, 2, 4}
        BY <2>2, <2>6 DEF Progress, Submittable, Terminal, PaidStatus,
           RefundedStatus
      <3> QED
        BY <1>2, <2>6, <3>1 DEF Past, Has
    <2> QED
      BY <2>1, <2>3, <2>4, <2>5, <2>6 DEF ClaimStatus, Submittable
  <1> QED
    BY <1>1, <1>2

(* The way is not gone back.                                               *)
LEMMA PastStays ==
    ASSUME PinnedInv, [PinnedNext]_vars, NEW c \in ClaimIds, ClaimExists(c)
    PROVE  /\ ClaimExists(c)'
           /\ \A n \in 1 .. 7 : Past(c, n) => Past(c, n)'
  <1>1. Inv0 /\ [Next]_vars
    BY PinnedStepIsStep DEF PinnedInv, Inv1
  <1>2. CASE claims'[c] = claims[c]
    BY <1>2 DEF Past, ClaimExists
  <1>3. CASE claims'[c] # claims[c]
    <2>1. ClaimExists(c)' /\ Progress(claims'[c]) > Progress(claims[c])
      BY <1>1, <1>3, ClaimsMoveOnStep
    <2>2. Progress(claims[c]) \in Int /\ Progress(claims'[c]) \in Int
      <3>1. ASSUME NEW k \in EscrowClaim
            PROVE  Progress(k) \in Int
        BY DEF Progress, EscrowClaim, MAX_REJECTIONS
      <3>2. claims[c] \in EscrowClaim /\ claims'[c] \in EscrowClaim
        <4>1. TypeOK /\ TypeOK'
          BY PinnedInvStep DEF PinnedInv, Inv1, Inv0
        <4> QED
          BY <2>1, <4>1 DEF TypeOK, ClaimExists
      <3> QED
        BY <3>1, <3>2
    <2> QED
      BY <2>1, <2>2 DEF Past
  <1> QED
    BY <1>2, <1>3

LEMMA GoingOnMoves ==
    ASSUME PinnedInv, [PinnedNext]_vars, NEW c \in ClaimIds, GoesOn(c)
    PROVE  Undecided(c)'
  <1>1. PICK u \in Users, t \in TaskIds :
          Submit(u, t, c) \/ OpenDispute(u, t, c)
    BY DEF GoesOn
  <1>2. TypeOK /\ ClaimExists(c)
    BY <1>1 DEF PinnedInv, Inv1, Inv0, Submit, OpenDispute, ClaimOn
  <1>3. claims[c] \in EscrowClaim
    BY <1>2, ExistingAccounts
  <1>4. claims'[c].status \in {"Submitted", "Disputed"}
    BY <1>1, <1>2, <1>3
    DEF TypeOK, Submit, OpenDispute, AsSubmitted, AsDisputed, EscrowClaim
  <1>5. ClaimExists(c)'
    BY <1>2, PastStays
  <1> QED
    BY <1>4, <1>5 DEF Undecided, Has

(* Every claim comes to its end: if its deliverer goes on, and time, crank *)
(* and payees are as above, it is paid, refunded or cancelled, however     *)
(* poster and admin act or fail to (claim.rs:124, dispute.rs:30).  This is *)
(* what DiligentRelease rests on.                                          *)
THEOREM ClaimIsSettled ==
    ASSUME NEW c \in ClaimIds
    PROVE  PinnedSpec /\ WindowRunsOut(c) /\ CrankHeeded(c) /\ PayeesStay(c)
             /\ DelivererGoesOn(c)
             => (ClaimExists(c) ~> Has(c, Terminal))
  <1>1. PinnedSpec /\ WindowRunsOut(c) /\ CrankHeeded(c) /\ PayeesStay(c)
          => (Undecided(c) ~> ~Undecided(c))
    <2>1. PinnedInv /\ [PinnedNext]_vars /\ Expired(c)
            => Expired(c)' \/ ~Undecided(c)'
      BY ExpiredUntilDecided
    <2>2. PinnedInv /\ [PinnedNext]_vars /\ <<Crank(c)>>_vars
            => ~Undecided(c)'
      BY CrankDecides
    <2> QED
      BY <2>1, <2>2, PinnedSpecInv, PTL
      DEF PinnedSpec, PinnedNext, WindowRunsOut, CrankHeeded, PayeesStay
  <1>2. PinnedInv /\ [PinnedNext]_vars /\ <<GoesOn(c)>>_vars => Undecided(c)'
    BY GoingOnMoves
  <1>3. Undecided(c) => ~Has(c, Submittable)
    BY DEF Undecided, Has, Submittable
  <1>4. PinnedInv
          => /\ ClaimExists(c) /\ ~Past(c, 1) => Has(c, Submittable)
             /\ Past(c, 1) /\ ~Past(c, 2) => Undecided(c)
             /\ Past(c, 2) /\ ~Past(c, 3) => Has(c, Submittable)
             /\ Past(c, 3) /\ ~Past(c, 4) => Undecided(c)
             /\ Past(c, 4) /\ ~Past(c, 5) => Has(c, Submittable)
             /\ Past(c, 5) /\ ~Past(c, 7) => Undecided(c)
             /\ Past(c, 7) => Has(c, Terminal)
    BY StagesOfAClaim
  <1>5. PinnedInv /\ [PinnedNext]_vars
          => /\ ClaimExists(c) => ClaimExists(c)'
             /\ Past(c, 1) => Past(c, 1)'
             /\ Past(c, 2) => Past(c, 2)'
             /\ Past(c, 3) => Past(c, 3)'
             /\ Past(c, 4) => Past(c, 4)'
             /\ Past(c, 5) => Past(c, 5)'
    BY PastStays DEF Past
  <1> QED
    BY <1>1, <1>2, <1>3, <1>4, <1>5, PinnedSpecInv, PTL
    DEF PinnedSpec, PinnedNext, DelivererGoesOn

-----------------------------------------------------------------------------
(* What a finished task leaves.                                            *)

(* Nobody makes a token account for a task outside the program.  Without   *)
(* this the properties below fail: money sent to such an account is out of *)
(* the handlers' reach.                                                    *)
NoStrayVaults == OutOfBandAtas \cap (Mints \X TaskIds) = {}

LEMMA UnopenedVaultIsEmpty ==
    ASSUME NoStrayVaults, PinnedInv, NEW t \in TaskIds, NEW mint \in Mints,
           ~(Initialized /\ IsOpen(t) /\ mint = config.usdc_mint)
    PROVE  ATA(mint, t) \notin accounts /\ balance[ATA(mint, t)] = 0
  <1>1. ATA(mint, t) \notin OutOfBandAtas
    BY DEF NoStrayVaults, ATA
  <1>2. ATA(mint, t) \notin accounts
    BY <1>1 DEF PinnedInv, ProgramVaultsOpen
  <1> QED
    BY <1>2, VaultAddresses, TypeOKLedger
    DEF PinnedInv, Inv1, Inv0, LedgerOK

(* A task that is closed, or cancelled and gone, has left nothing in any   *)
(* vault, of any mint, donations included; nor has an id never used.       *)
THEOREM DoneTasksHoldNothing ==
    ASSUME NoStrayVaults
    PROVE  PinnedSpec => []DoneTaskHoldsNothing
  <1>1. PinnedInv => DoneTaskHoldsNothing
    BY UnopenedVaultIsEmpty DEF DoneTaskHoldsNothing
  <1> QED
    BY <1>1, PinnedSpecInv, PTL
=============================================================================
