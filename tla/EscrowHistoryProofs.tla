-------------------------- MODULE EscrowHistoryProofs --------------------------
(***************************************************************************)
(* Theorems about what has happened: how long a claim waited before the    *)
(* clock decided it, and what a task has cost its poster.                  *)
(***************************************************************************)
EXTENDS EscrowHistory, EscrowPinnedProofs

allVars == <<vars, history>>

LEMMA HistoryStepIsStep ==
    ASSUME [HistoryNext]_allVars
    PROVE  [Next]_vars
  BY DEF HistoryNext, allVars

LEMMA HistoryIsSpec == HistorySpec => Spec
  <1>1. [HistoryNext]_allVars => [Next]_vars
    BY HistoryStepIsStep
  <1>2. HistoryInit => Init
    BY DEF HistoryInit
  <1> QED
    BY <1>1, <1>2, PTL DEF HistorySpec, Spec, allVars

-----------------------------------------------------------------------------
(* Waiting.                                                                *)

(* A claim comes to wait at the moment it is stamped with.                 *)
Stamped(c) ==
    /\ ~ClaimExists(c) \/ claims[c].status # claims'[c].status
    /\ claims'[c].status = "Submitted" => claims'[c].submitted_at = now
    /\ claims'[c].status = "Disputed" => claims'[c].disputed_at = now

LEMMA NextStamps ==
    ASSUME Inv0, [Next]_vars
    PROVE  \A c \in ClaimIds : claims'[c] = claims[c] \/ Stamped(c)
  <1> SUFFICES ASSUME NEW c \in ClaimIds, ClaimWritten(c)
               PROVE  Stamped(c)
    BY NextWrites DEF Inv0
  <1>1. CASE Born(c)
    BY <1>1 DEF Born, Stamped
  <1>2. CASE ClaimExists(c) /\ HandedIn(c)
    BY <1>2, WrittenClaim DEF HandedIn, Submittable, Stamped
  <1>3. CASE ClaimExists(c) /\ Contested(c)
    BY <1>3, WrittenClaim DEF Contested, Disputable, Stamped
  <1>4. CASE ClaimExists(c) /\ TurnedDown(c)
    BY <1>4, WrittenClaim DEF TurnedDown, Stamped
  <1>5. CASE ClaimExists(c) /\ Decided(c)
    BY <1>5, WrittenClaim
    DEF Decided, Stamped, Terminal, PaidStatus, RefundedStatus
  <1> QED
    BY <1>1, <1>2, <1>3, <1>4, <1>5 DEF ClaimWritten

(* What is recorded as the start of the wait is the stamp that the window  *)
(* is computed from.                                                       *)
WaitIsStamped ==
    \A c \in ClaimIds : ClaimExists(c) =>
      /\ claims[c].status = "Submitted" =>
           pending_since[c] = claims[c].submitted_at
      /\ claims[c].status = "Disputed" =>
           pending_since[c] = claims[c].disputed_at

LEMMA WaitIsStampedStep ==
    ASSUME Inv0, WaitIsStamped, [HistoryNext]_allVars
    PROVE  WaitIsStamped'
  <1>1. CASE UNCHANGED allVars
    BY <1>1 DEF WaitIsStamped, allVars, vars, history, ClaimExists
  <1>2. CASE HistoryNext
    <2> SUFFICES ASSUME NEW c \in ClaimIds, ClaimExists(c)'
                 PROVE  /\ claims'[c].status = "Submitted" =>
                             pending_since'[c] = claims'[c].submitted_at
                        /\ claims'[c].status = "Disputed" =>
                             pending_since'[c] = claims'[c].disputed_at
      BY DEF WaitIsStamped
    <2>1. pending_since'[c] = IF StartsWaiting(c) THEN now ELSE pending_since[c]
      BY <1>2 DEF HistoryNext, Record
    <2>2. claims'[c] = claims[c] \/ Stamped(c)
      BY HistoryStepIsStep, NextStamps
    <2>3. CASE claims'[c] = claims[c]
      <3>1. ClaimExists(c) /\ ~StartsWaiting(c)
        BY <2>3 DEF ClaimExists, StartsWaiting
      <3> QED
        BY <2>1, <2>3, <3>1 DEF WaitIsStamped
    <2>4. CASE Stamped(c)
      <3>1. claims'[c].status \in {"Submitted", "Disputed"} => StartsWaiting(c)
        BY <2>4 DEF Stamped, StartsWaiting, Waits
      <3> QED
        BY <2>1, <2>4, <3>1 DEF Stamped
    <2> QED
      BY <2>2, <2>3, <2>4
  <1> QED
    BY <1>1, <1>2

LEMMA HistorySpecWaits == HistorySpec => [](Inv0 /\ WaitIsStamped)
  <1>1. HistoryInit => WaitIsStamped
    BY DEF HistoryInit, Init, WaitIsStamped, ClaimExists
  <1>2. Inv0 /\ WaitIsStamped /\ [HistoryNext]_allVars => WaitIsStamped'
    BY WaitIsStampedStep
  <1>3. HistorySpec => []Inv0
    BY HistoryIsSpec, SpecInv0, PTL
  <1> QED
    BY <1>1, <1>2, <1>3, PTL DEF HistorySpec, allVars

(* Silence is consent only after a full window: however often a claim was  *)
(* rejected, resubmitted and disputed, the clock decides it no sooner than *)
(* the whole window after it last came to wait.                            *)
THEOREM WindowsAreFull == HistorySpec => FullWindow
  <1> DEFINE A == \A t \in TaskIds, c \in ClaimIds :
         /\ AutoApprove(t, c)
              => now - pending_since[c] >= AUTO_APPROVE_WINDOW_SECS
         /\ AutoResolveDispute(t, c)
              => now - pending_since[c] >= AUTO_DISPUTE_WINDOW_SECS
  <1>1. Inv0 /\ WaitIsStamped => A
    BY DEF WaitIsStamped, AutoApprove, UnderReview, AutoResolveDispute,
       UnderDispute, ClaimOn, WindowElapsed
  <1>2. Inv0 /\ WaitIsStamped => [A]_vars
    BY <1>1
  <1> QED
    BY <1>2, HistorySpecWaits, PTL DEF FullWindow

-----------------------------------------------------------------------------
(* Cost.                                                                   *)

CostRight(t) ==
    cost[t] = IF IsOpen(t)
              THEN balance[Vault(t)] + tasks[t].bounty * tasks[t].slots_approved
              ELSE IF TaskExists(t)
                   THEN tasks[t].bounty * tasks[t].slots_approved
                   ELSE 0

PinnedHistoryNext == HistoryNext /\ MintFlipRule

LEMMA PinnedHistoryStep ==
    ASSUME [PinnedHistoryNext]_allVars
    PROVE  [PinnedNext]_vars
  BY DEF PinnedHistoryNext, HistoryNext, PinnedNext, allVars

LEMMA PinnedHistoryIsPinned == PinnedHistorySpec => PinnedSpec
  <1>1. [PinnedHistoryNext]_allVars => [PinnedNext]_vars
    BY PinnedHistoryStep
  <1>2. HistoryInit => Init
    BY DEF HistoryInit
  <1> QED
    BY <1>1, <1>2, PTL
    DEF PinnedHistorySpec, PinnedHistoryNext, PinnedSpec, PinnedNext, allVars

(* A task and a vault that a step leaves alone cost what they did.         *)
LEMMA CostKept ==
    ASSUME PinnedInv, NEW t \in TaskIds, CostRight(t),
           cost'[t] = CostAfter(t), UNCHANGED config,
           tasks'[t] = tasks[t],
           Initialized => balance'[Vault(t)] = balance[Vault(t)]
    PROVE  CostRight(t)'
  <1>1. IsOpen(t) => Initialized
    BY DEF PinnedInv, TasksHaveConfig, IsOpen
  <1>2. cost'[t] = cost[t]
    <2>1. CASE ~Initialized
      BY <2>1 DEF CostAfter
    <2>2. CASE Initialized
      <3>1. balance[Vault(t)] \in Nat
        BY <2>2, PinnedAddresses, TypeOKLedger
        DEF LedgerOK, PinnedInv, Inv1, Inv0
      <3>2. Gain(Vault(t)) = 0
        BY <2>2, <3>1 DEF Gain
      <3> QED
        BY <2>2, <3>2 DEF CostAfter
    <2> QED
      BY <2>1, <2>2
  <1> QED
    BY <1>1, <1>2 DEF CostRight, IsOpen, TaskExists, Vault

LEMMA FundsVaultCost ==
    ASSUME PinnedInv, NEW t \in TaskIds, FundsVault(t), CostRight(t),
           cost'[t] = CostAfter(t)
    PROVE  CostRight(t)'
  <1> DEFINE deposit == tasks'[t].bounty * tasks'[t].max_slots
  <1>1. /\ Inv0 /\ TypeOK /\ Initialized /\ UNCHANGED config
        /\ ~TaskExists(t)
    BY DEF PinnedInv, Inv1, Inv0, FundsVault, FundsTask
  <1>2. cost[t] = 0
    BY <1>1 DEF CostRight, IsOpen
  <1>3. /\ tasks'[t] \in EscrowTask
        /\ Vault(t) \notin accounts
        /\ balance'[Vault(t)] = deposit
    BY <1>1, FundedAmounts
  <1>4. balance[Vault(t)] = 0
    BY <1>1, <1>3, PinnedAddresses, TypeOKLedger DEF LedgerOK
  <1>5. IsOpen(t)' /\ tasks'[t].slots_approved = 0
    BY <1>1, FundedTask
  <1>6. /\ deposit \in Nat /\ deposit > 0
        /\ tasks'[t].bounty * tasks'[t].slots_approved = 0
    <2>1. tasks'[t].bounty \in Nat \ {0} /\ tasks'[t].max_slots \in Nat \ {0}
      BY <1>3 DEF EscrowTask, U64, MAX_SLOTS_LIMIT
    <2> QED
      BY <1>5, <2>1
  <1> HIDE DEF deposit
  <1>7. Gain(Vault(t)) = deposit
    BY <1>3, <1>4, <1>6 DEF Gain
  <1>8. cost'[t] = deposit
    BY <1>1, <1>2, <1>6, <1>7 DEF CostAfter
  <1>9. balance'[Vault(t)'] = deposit
    BY <1>1, <1>3 DEF Vault
  <1> QED
    BY <1>5, <1>6, <1>8, <1>9 DEF CostRight

LEMMA EndsTaskCost ==
    ASSUME PinnedInv, NEW t \in TaskIds, EndsTask(t), CostRight(t),
           cost'[t] = CostAfter(t)
    PROVE  CostRight(t)'
  <1>1. /\ Inv0 /\ TypeOK /\ SlotAccounting /\ Initialized
        /\ IsOpen(t) /\ ~IsOpen(t)'
    BY EndedTask DEF PinnedInv, Inv1, Inv0, EndsTask
  <1>2. tasks[t] \in EscrowTask /\ TaskExists(t)
    BY <1>1, ExistingAccounts DEF IsOpen
  <1> DEFINE poster == Wallet(tasks[t].poster)
             paid   == tasks[t].bounty * tasks[t].slots_approved
  <1>3. balance[Vault(t)] \in Nat /\ balance[poster] \in Nat /\ paid \in Nat
    <2>1. balance \in [Addresses -> Nat]
      BY <1>1, TypeOKLedger DEF LedgerOK
    <2> QED
      BY <1>1, <1>2, <2>1, PinnedAddresses DEF EscrowTask, U64
  <1>4. /\ balance'[Vault(t)] = 0
        /\ balance'[poster] = balance[poster] + balance[Vault(t)]
    BY <1>1, EndedAmounts
  <1>5. cost[t] = balance[Vault(t)] + paid
    BY <1>1 DEF CostRight
  <1> HIDE DEF paid, poster
  <1>6. /\ Gain(Vault(t)) = -balance[Vault(t)]
        /\ Refund(t) = balance[Vault(t)]
    BY <1>3, <1>4 DEF Gain, Refund, poster
  <1>7. cost'[t] = paid
    <2>1. CASE balance[Vault(t)] = 0
      BY <1>1, <1>3, <1>5, <1>6, <2>1 DEF CostAfter
    <2>2. CASE balance[Vault(t)] > 0
      <3>1. Gain(Vault(t)) < 0 /\ ~(Gain(Vault(t)) > 0)
        BY <1>3, <1>6, <2>2
      <3>2. cost'[t] = cost[t] - Refund(t)
        BY <1>1, <3>1 DEF CostAfter
      <3> QED
        BY <1>3, <1>5, <1>6, <3>2
    <2> QED
      BY <1>3, <2>1, <2>2
  <1>8. CASE RemovesTask(t)
    <2>1. ~TaskExists(t)'
      BY <1>1, <1>8 DEF RemovesTask, TypeOK, TaskExists
    <2>2. tasks[t].slots_approved = 0
      <3>1. Cardinality(ClaimsOf(t)) = 0
        BY <1>1, <1>2, <1>8, BooksAreSlotAccounting DEF Books, RemovesTask
      <3>2. ClaimsOf(t) = {}
        BY <3>1, FiniteSlots, FS_EmptySet
      <3>3. PaidClaims(t) = {}
        BY <3>2 DEF PaidClaims
      <3>4. Cardinality({}) = 0
        BY FS_EmptySet
      <3> QED
        BY <1>1, <1>2, <3>3, <3>4, BooksAreSlotAccounting DEF Books
    <2>3. paid = 0
      BY <1>2, <2>2 DEF paid, EscrowTask, U64
    <2> QED
      BY <1>1, <1>7, <2>1, <2>3 DEF CostRight
  <1>9. CASE ClosesTask(t)
    <2>1. tasks'[t] = [tasks[t] EXCEPT !.status = "Closed"]
      BY <1>1, <1>9 DEF TypeOK, ClosesTask
    <2>2. /\ tasks'[t] \in EscrowTask
          /\ tasks'[t].bounty = tasks[t].bounty
          /\ tasks'[t].slots_approved = tasks[t].slots_approved
      BY <1>2, <2>1 DEF EscrowTask, TaskStatus
    <2>3. TaskExists(t)'
      BY <2>2, NoAccountAssumption DEF TaskExists
    <2> QED
      BY <1>1, <1>7, <2>2, <2>3 DEF CostRight, paid
  <1> QED
    BY <1>8, <1>9 DEF EndsTask

(* A paid slot moves its bounty from what is still there to what was       *)
(* approved: the poster gets none of it, for he is not the claimer.        *)
LEMMA SettlesSlotCost ==
    ASSUME PinnedInv, NEW t \in TaskIds, NEW c \in ClaimIds,
           PaysSlot(t, c) \/ RefundsSlot(t, c), CostRight(t),
           cost'[t] = CostAfter(t)
    PROVE  CostRight(t)'
  <1>1. /\ Inv0 /\ TypeOK /\ Initialized /\ UNCHANGED config
        /\ ClaimExists(c) /\ claims[c].task = t
        /\ claims[c].status \notin Terminal
    BY DEF PinnedInv, Inv1, Inv0, PaysSlot, RefundsSlot, MovesClaim, ClaimOn
  <1>2. /\ IsOpen(t)
        /\ tasks[t].poster # claims[c].claimer
    BY <1>1
    DEF PinnedInv, Inv1, LiveClaimHasOpenTask, ClaimerIsNotPoster
  <1>3. /\ tasks[t] \in EscrowTask /\ tasks'[t] \in EscrowTask
        /\ claims[c] \in EscrowClaim
        /\ tasks'[t].bounty = tasks[t].bounty
        /\ IsOpen(t)'
        /\ \/ /\ PaysSlot(t, c)
              /\ tasks'[t].slots_approved = tasks[t].slots_approved + 1
           \/ /\ RefundsSlot(t, c)
              /\ tasks'[t].slots_approved = tasks[t].slots_approved
    BY <1>1, <1>2, SettledTask, ExistingAccounts
  <1> DEFINE poster == Wallet(tasks[t].poster)
             bounty == tasks[t].bounty
             paid   == bounty * tasks[t].slots_approved
  <1>4. /\ balance[Vault(t)] \in Nat /\ balance[poster] \in Nat
        /\ bounty \in Nat \ {0} /\ tasks[t].slots_approved \in Nat
        /\ paid \in Nat
    <2>1. balance \in [Addresses -> Nat]
      BY <1>1, TypeOKLedger DEF LedgerOK
    <2> QED
      BY <1>1, <1>3, <2>1, PinnedAddresses DEF EscrowTask, U64
  <1>5. cost[t] = balance[Vault(t)] + paid
    BY <1>2 DEF CostRight
  <1>6. balance'[Vault(t)] = balance[Vault(t)] - bounty
    BY <1>1, PaidAmounts, RefundedAmounts
  <1>7. Vault(t)' = Vault(t)
    BY <1>1 DEF Vault
  <1> HIDE DEF paid
  <1>8. cost'[t] = cost[t] - Refund(t)
    <2>1. Gain(Vault(t)) < 0 /\ ~(Gain(Vault(t)) > 0)
      BY <1>4, <1>6 DEF Gain
    <2> QED
      BY <1>1, <2>1 DEF CostAfter
  <1>9. CASE /\ PaysSlot(t, c)
             /\ tasks'[t].slots_approved = tasks[t].slots_approved + 1
    <2>1. Refund(t) = 0
      <3>1. /\ poster \in Addresses
            /\ poster # Vault(t) /\ poster # FeeVault
            /\ poster # Wallet(claims[c].claimer)
        BY <1>1, <1>2, <1>3, PinnedAddresses, VaultIsNoWallet,
           WalletIsNoFeeVault
        DEF EscrowTask, Wallet, ATA
      <3>2. balance'[poster] = balance[poster]
        BY <1>1, <1>9, <3>1, PaidAmounts
      <3> QED
        BY <1>4, <3>2 DEF Refund, Gain
    <2>2. tasks'[t].bounty * tasks'[t].slots_approved = paid + bounty
      BY <1>3, <1>4, <1>9, PlusOne DEF paid
    <2>3. cost'[t] = (balance[Vault(t)] - bounty) + (paid + bounty)
      BY <1>4, <1>5, <1>8, <2>1
    <2> QED
      BY <1>3, <1>6, <1>7, <2>2, <2>3 DEF CostRight
  <1>10. CASE /\ RefundsSlot(t, c)
              /\ tasks'[t].slots_approved = tasks[t].slots_approved
    <2>1. Refund(t) = bounty
      <3>1. balance'[poster] = balance[poster] + bounty
        BY <1>1, <1>10, RefundedAmounts
      <3> QED
        BY <1>4, <3>1 DEF Refund, Gain
    <2>2. tasks'[t].bounty * tasks'[t].slots_approved = paid
      BY <1>3, <1>10 DEF paid
    <2>3. cost'[t] = (balance[Vault(t)] - bounty) + paid
      BY <1>4, <1>5, <1>8, <2>1
    <2> QED
      BY <1>3, <1>6, <1>7, <2>2, <2>3 DEF CostRight
  <1> QED
    BY <1>3, <1>9, <1>10

LEMMA MovesNoMoneyCost ==
    ASSUME PinnedInv, NEW t \in TaskIds, NEW c \in ClaimIds,
           MovesNoMoney(t, c), CostRight(t), cost'[t] = CostAfter(t)
    PROVE  CostRight(t)'
  <1>1. /\ Inv0 /\ UNCHANGED config /\ UNCHANGED balance
    BY DEF PinnedInv, Inv1, MovesNoMoney
  <1>2. /\ tasks[t] \in EscrowTask /\ tasks'[t] \in EscrowTask
        /\ tasks'[t].bounty = tasks[t].bounty
        /\ tasks'[t].slots_approved = tasks[t].slots_approved
        /\ IsOpen(t)' <=> IsOpen(t)
    BY <1>1, UnpaidTask
  <1>3. TaskExists(t) /\ TaskExists(t)'
    BY <1>2, NoAccountAssumption DEF TaskExists
  <1>4. Initialized
    BY <1>3 DEF PinnedInv, TasksHaveConfig
  <1>5. balance[Vault(t)] \in Nat
    BY <1>1, <1>4, PinnedAddresses, TypeOKLedger DEF LedgerOK, Inv0
  <1>6. Gain(Vault(t)) = 0
    BY <1>1, <1>5 DEF Gain
  <1>7. cost'[t] = cost[t]
    BY <1>4, <1>6 DEF CostAfter
  <1>8. balance'[Vault(t)'] = balance[Vault(t)]
    BY <1>1 DEF Vault
  <1> QED
    BY <1>2, <1>3, <1>7, <1>8 DEF CostRight

(* A donation to an open task is a cost; to a task that is not open there  *)
(* is no vault to donate to.                                               *)
LEMMA PlainTransferCost ==
    ASSUME NoStrayVaults, PinnedInv, [PinnedNext]_vars, PlainTransfer,
           NEW t \in TaskIds, CostRight(t), cost'[t] = CostAfter(t)
    PROVE  CostRight(t)'
  <1>1. /\ Inv0 /\ TypeOK /\ UNCHANGED config /\ tasks'[t] = tasks[t]
    BY DEF PinnedInv, Inv1, Inv0, PlainTransfer, SameBooks
  <1>2. CASE ~Initialized
    BY <1>1, <1>2, CostKept
  <1>3. CASE Initialized
    <2>1. config.usdc_mint \in Mints /\ Vault(t) = ATA(config.usdc_mint, t)
      BY <1>1, <1>3, PinnedMint DEF Vault
    <2>2. /\ balance'[Vault(t)] >= balance[Vault(t)]
          /\ UNCHANGED accounts
      BY <1>1, <2>1, PlainTransferVaults
    <2>3. balance[Vault(t)] \in Nat /\ balance'[Vault(t)] \in Nat
      <3>1. balance \in [Addresses -> Nat] /\ balance' \in [Addresses -> Nat]
        BY <1>1, PinnedStepIsStep, TypeStep DEF TypeOK, Addresses
      <3> QED
        BY <1>1, <1>3, <3>1, PinnedAddresses
    <2>4. CASE ~IsOpen(t)
      <3>1. Vault(t) \notin accounts
        BY <2>1, <2>4, UnopenedVaultIsEmpty
      <3>2. balance'[Vault(t)] = 0 /\ balance[Vault(t)] = 0
        <4>1. LedgerOK /\ LedgerOK'
          BY <1>1, PinnedStepIsStep, TypeStep DEF TypeOK, LedgerOK, Addresses
        <4> QED
          BY <1>1, <1>3, <2>2, <3>1, <4>1, PinnedAddresses DEF LedgerOK
      <3> QED
        BY <1>1, <3>2, CostKept
    <2>5. CASE IsOpen(t)
      <3>1. tasks[t] \in EscrowTask
        BY <1>1, <2>5, ExistingAccounts DEF IsOpen
      <3> DEFINE paid == tasks[t].bounty * tasks[t].slots_approved
      <3>2. paid \in Nat
        BY <3>1 DEF EscrowTask, U64
      <3>3. cost[t] = balance[Vault(t)] + paid
        BY <2>5 DEF CostRight
      <3> HIDE DEF paid
      <3>4. Gain(Vault(t)) = balance'[Vault(t)] - balance[Vault(t)]
        BY DEF Gain
      <3>5. cost'[t] = cost[t] + Gain(Vault(t))
        <4>1. CASE Gain(Vault(t)) > 0
          <5>1. ~(Gain(Vault(t)) < 0)
            BY <2>2, <2>3, <3>4
          <5> QED
            BY <1>3, <4>1, <5>1 DEF CostAfter
        <4>2. CASE Gain(Vault(t)) = 0
          <5>1. cost'[t] = cost[t]
            BY <1>3, <4>2 DEF CostAfter
          <5> QED
            BY <2>3, <3>2, <3>3, <4>2, <5>1
        <4> QED
          BY <2>2, <2>3, <3>4, <4>1, <4>2
      <3>6. cost'[t] = balance'[Vault(t)] + paid
        BY <2>3, <3>2, <3>3, <3>4, <3>5
      <3>7. /\ IsOpen(t)'
            /\ balance'[Vault(t)'] = balance'[Vault(t)]
        BY <1>1, <2>5 DEF IsOpen, TaskExists, Vault
      <3> QED
        BY <1>1, <3>6, <3>7 DEF CostRight, paid
    <2> QED
      BY <2>4, <2>5
  <1> QED
    BY <1>2, <1>3

LEMMA NoBusinessCost ==
    ASSUME PinnedInv, [PinnedNext]_vars, NoBusiness,
           NEW t \in TaskIds, CostRight(t), cost'[t] = CostAfter(t)
    PROVE  CostRight(t)'
  <1>1. /\ TypeOK /\ UNCHANGED balance /\ tasks'[t] = tasks[t]
    BY DEF PinnedInv, Inv1, Inv0, NoBusiness, SameBooks
  <1>2. cost'[t] = cost[t]
    <2>1. CASE ~Initialized
      BY <2>1 DEF CostAfter
    <2>2. CASE Initialized
      <3>1. balance[Vault(t)] \in Nat
        BY <1>1, <2>2, PinnedAddresses, TypeOKLedger DEF LedgerOK
      <3>2. Gain(Vault(t)) = 0
        BY <1>1, <3>1 DEF Gain
      <3> QED
        BY <2>2, <3>2 DEF CostAfter
    <2> QED
      BY <2>1, <2>2
  <1>3. (IsOpen(t)' <=> IsOpen(t)) /\ (TaskExists(t)' <=> TaskExists(t))
    BY <1>1 DEF IsOpen, TaskExists
  <1>4. IsOpen(t) => balance'[Vault(t)'] = balance[Vault(t)]
    BY <1>1, OpenTaskKeepsMint
  <1> QED
    BY <1>1, <1>2, <1>3, <1>4 DEF CostRight

LEMMA CostStep ==
    ASSUME NoStrayVaults, PinnedInv, PosterPaysApprovedSlots,
           [PinnedHistoryNext]_allVars
    PROVE  PosterPaysApprovedSlots'
  <1> SUFFICES ASSUME NEW t \in TaskIds
               PROVE  CostRight(t)'
    BY DEF PosterPaysApprovedSlots, CostRight
  <1>1. CostRight(t)
    BY DEF PosterPaysApprovedSlots, CostRight
  <1>2. CASE UNCHANGED allVars
    BY <1>1, <1>2
    DEF CostRight, allVars, vars, history, IsOpen, TaskExists, Vault
  <1>3. CASE PinnedHistoryNext
    <2>1. cost'[t] = CostAfter(t)
      BY <1>3 DEF PinnedHistoryNext, HistoryNext, Record
    <2>2. [PinnedNext]_vars /\ Inv0 /\ MoneyStep
      BY PinnedHistoryStep, PinnedMoney
    <2>3. ASSUME NEW u \in TaskIds, OnTask(u), u # t
          PROVE  CostRight(t)'
      <3>1. /\ Initialized /\ UNCHANGED config
            /\ config.usdc_mint \in Mints
            /\ tasks'[t] = tasks[t]
        BY <2>2, <2>3, OnTaskNeedsConfig, OtherTasksKept, PinnedMint DEF Inv0
      <3>2. balance'[Vault(t)] = balance[Vault(t)]
        BY <2>2, <2>3, <3>1, OtherVaultsKept DEF KeepsVault, Vault
      <3> QED
        BY <1>1, <2>1, <3>1, <3>2, CostKept
    <2>4. OnTask(t) => CostRight(t)'
      BY <1>1, <2>1, FundsVaultCost, EndsTaskCost, MovesNoMoneyCost,
         SettlesSlotCost DEF OnTask
    <2> QED
      BY <1>1, <2>1, <2>2, <2>3, <2>4, PlainTransferCost, NoBusinessCost
      DEF MoneyStep
  <1> QED
    BY <1>2, <1>3

(* Over the whole life of a task its poster pays for the approved slots    *)
(* and for nothing else: what went into the vault and did not come back to *)
(* him is still there, or is the bounties of the slots counted approved.   *)
THEOREM PostersPayApprovedSlots ==
    ASSUME NoStrayVaults
    PROVE  PinnedHistorySpec => []PosterPaysApprovedSlots
  <1>1. HistoryInit => PosterPaysApprovedSlots
    BY DEF HistoryInit, Init, PosterPaysApprovedSlots, IsOpen, TaskExists
  <1>2. PinnedInv /\ PosterPaysApprovedSlots /\ [PinnedHistoryNext]_allVars
          => PosterPaysApprovedSlots'
    BY CostStep
  <1>3. PinnedHistorySpec => []PinnedInv
    BY PinnedHistoryIsPinned, PinnedSpecInv, PTL
  <1> QED
    BY <1>1, <1>2, <1>3, PTL
    DEF PinnedHistorySpec, PinnedHistoryNext, allVars
=============================================================================
