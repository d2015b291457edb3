---------------------------- MODULE EscrowProofs ----------------------------
(***************************************************************************)
(* Theorems about Spec for all users, task ids, claim ids, mints, inputs   *)
(* and widths.                                                             *)
(***************************************************************************)
EXTENDS EscrowProperties, FeeMathProofs, FiniteSetTheorems

Addresses == Mints \X Holders

-----------------------------------------------------------------------------
(* Facts about the account types.                                          *)

LEMMA AtaType ==
    ASSUME NEW mint \in Mints, NEW holder \in Holders
    PROVE  ATA(mint, holder) \in Addresses
  BY DEF ATA, Addresses

LEMMA HolderTypes ==
    /\ \A u \in Users : u \in Holders
    /\ \A t \in TaskIds : t \in Holders
    /\ ConfigPda \in Holders
  BY DEF Holders

LEMMA ExistingAccounts ==
    ASSUME TypeOK
    PROVE  /\ Initialized => config \in EscrowConfig
           /\ \A t \in TaskIds : TaskExists(t) => tasks[t] \in EscrowTask
           /\ \A c \in ClaimIds : ClaimExists(c) => claims[c] \in EscrowClaim
  BY DEF TypeOK, Initialized, TaskExists, ClaimExists

LEMMA PinnedAddresses ==
    ASSUME TypeOK, Initialized
    PROVE  /\ \A t \in TaskIds : Vault(t) \in Addresses
           /\ \A u \in Users : Wallet(u) \in Addresses
           /\ FeeVault \in Addresses
  <1>1. config.usdc_mint \in Mints
    BY ExistingAccounts DEF EscrowConfig
  <1> QED
    BY <1>1, AtaType, HolderTypes DEF Vault, Wallet, FeeVault

-----------------------------------------------------------------------------
(* Facts about the ledger.                                                 *)

LEMMA MovedType ==
    ASSUME NEW bal \in [Addresses -> Nat],
           NEW from \in Addresses, NEW to \in Addresses,
           NEW amount \in Nat, amount <= bal[from]
    PROVE  Moved(bal, from, to, amount) \in [Addresses -> Nat]
  BY DEF Moved

LEMMA MovedValues ==
    ASSUME NEW bal \in [Addresses -> Nat],
           NEW from \in Addresses, NEW to \in Addresses, from # to,
           NEW amount \in Nat
    PROVE  /\ Moved(bal, from, to, amount)[from] = bal[from] - amount
           /\ Moved(bal, from, to, amount)[to] = bal[to] + amount
           /\ \A a \in Addresses \ {from, to} :
                Moved(bal, from, to, amount)[a] = bal[a]
  BY DEF Moved

LEMMA MovedElsewhere ==
    ASSUME NEW bal \in [Addresses -> Nat],
           NEW from \in Addresses, NEW to \in Addresses, NEW amount \in Nat
    PROVE  \A a \in Addresses \ {from, to} :
             Moved(bal, from, to, amount)[a] = bal[a]
  BY DEF Moved

LedgerOK ==
    /\ accounts \subseteq Addresses
    /\ balance \in [Addresses -> Nat]
    /\ \A a \in Addresses : a \notin accounts => balance[a] = 0

LEMMA TransferType ==
    ASSUME LedgerOK, NEW from \in Addresses, NEW to \in Addresses,
           NEW amount \in Nat, Transfer(from, to, amount)
    PROVE  LedgerOK'
  BY MovedType, MovedElsewhere DEF LedgerOK, Transfer, CanTransfer

LEMMA OpenWithDepositType ==
    ASSUME LedgerOK, NEW from \in Addresses, NEW to \in Addresses,
           NEW amount \in Nat, OpenWithDeposit(from, to, amount)
    PROVE  LedgerOK'
  <1>1. /\ balance' = Moved(balance, from, to, amount)
        /\ accounts' = accounts \cup {to} /\ from \in accounts
        /\ amount <= balance[from]
    BY DEF OpenWithDeposit
  <1>2. balance' \in [Addresses -> Nat]
    BY <1>1, MovedType DEF LedgerOK
  <1>3. \A a \in Addresses \ {from, to} : balance'[a] = balance[a]
    BY <1>1, MovedElsewhere DEF LedgerOK
  <1> QED
    BY <1>1, <1>2, <1>3 DEF LedgerOK

LEMMA DrainAndCloseType ==
    ASSUME LedgerOK, NEW from \in Addresses, NEW to \in Addresses,
           from # to, DrainAndClose(from, to)
    PROVE  LedgerOK'
  <1>1. balance[from] \in Nat /\ balance[from] <= balance[from]
    BY DEF LedgerOK
  <1>2. balance' \in [Addresses -> Nat]
    BY <1>1, MovedType DEF LedgerOK, DrainAndClose
  <1>3. /\ balance'[from] = 0
        /\ \A a \in Addresses \ {from, to} : balance'[a] = balance[a]
    BY <1>1, MovedValues DEF LedgerOK, DrainAndClose
  <1> QED
    BY <1>2, <1>3 DEF LedgerOK, DrainAndClose

(* Vaults and wallets are different accounts: no user is a task.           *)
LEMMA VaultIsNoWallet ==
    ASSUME NEW t \in TaskIds, NEW u \in Users
    PROVE  Vault(t) # Wallet(u)
  BY HolderAssumption DEF Vault, Wallet, ATA

(* A payout finds the fee still in the vault once the net has left it.     *)
LEMMA PayDelivererType ==
    ASSUME TypeOK, Initialized, NEW t \in TaskIds, NEW c \in ClaimIds,
           TaskExists(t), ClaimExists(c), PayDeliverer(t, c)
    PROVE  LedgerOK'
  <1> DEFINE split == ComputeFeeSplit(tasks[t].bounty, config.fee_bps)
             claimer == Wallet(claims[c].claimer)
             paid == Moved(balance, Vault(t), claimer, split.net)
  <1>1. /\ tasks[t].bounty \in U64
        /\ config.fee_bps \in 0 .. FEE_BPS_CAP
        /\ claims[c].claimer \in Users
    BY ExistingAccounts DEF EscrowTask, EscrowConfig, EscrowClaim
  <1>2. split.net \in Nat /\ split.fee \in Nat
    BY <1>1, FeeSplitIsExact
  <1>3. /\ Vault(t) \in Addresses
        /\ claimer \in Addresses
        /\ FeeVault \in Addresses
    BY <1>1, PinnedAddresses
  <1>4. LedgerOK
    BY DEF TypeOK, LedgerOK, Addresses
  <1>5. /\ split.net <= balance[Vault(t)]
        /\ split.fee <= paid[Vault(t)]
        /\ balance' = Moved(paid, Vault(t), FeeVault, split.fee)
        /\ UNCHANGED accounts
    BY DEF PayDeliverer
  <1> HIDE DEF split, claimer
  <1>6. paid \in [Addresses -> Nat]
    BY <1>2, <1>3, <1>4, <1>5, MovedType DEF LedgerOK
  <1> HIDE DEF paid
  <1>7. Moved(paid, Vault(t), FeeVault, split.fee) \in [Addresses -> Nat]
    BY <1>2, <1>3, <1>5, <1>6, MovedType
  <1>8. \A a \in Addresses \ {Vault(t), claimer, FeeVault} :
          balance'[a] = balance[a]
    <2>1. \A a \in Addresses \ {Vault(t), claimer} : paid[a] = balance[a]
      BY <1>2, <1>3, <1>4, MovedElsewhere DEF paid, LedgerOK
    <2>2. \A a \in Addresses \ {Vault(t), FeeVault} :
            balance'[a] = paid[a]
      BY <1>2, <1>3, <1>5, <1>6, MovedElsewhere
    <2> QED
      BY <2>1, <2>2
  <1>9. {Vault(t), claimer, FeeVault} \subseteq accounts
    BY DEF PayDeliverer, claimer
  <1> QED
    BY <1>4, <1>5, <1>7, <1>8, <1>9 DEF LedgerOK

-----------------------------------------------------------------------------
(* What a step does to tasks and claims, whichever instruction it is.      *)

SameBooks == UNCHANGED <<tasks, claims>>

FundsTask(t) ==
    /\ ~TaskExists(t)
    /\ \E task \in EscrowTask :
         /\ task.slots_enrolled = 0
         /\ task.slots_approved = 0
         /\ task.slots_refunded = 0
         /\ task.status = "Open"
         /\ tasks' = [tasks EXCEPT ![t] = task]
    /\ UNCHANGED claims

RemovesTask(t) ==
    /\ IsOpen(t)
    /\ tasks[t].slots_enrolled = 0
    /\ tasks' = [tasks EXCEPT ![t] = NoAccount]
    /\ UNCHANGED claims

ClosesTask(t) ==
    /\ IsOpen(t)
    /\ ActiveSlots(tasks[t]) = 0
    /\ tasks' = [tasks EXCEPT ![t].status = "Closed"]
    /\ UNCHANGED claims

TakesSlot(t, c) ==
    /\ IsOpen(t)
    /\ ~ClaimExists(c)
    /\ tasks[t].slots_enrolled < tasks[t].max_slots
    /\ \E claim \in EscrowClaim :
         /\ claim.task = t
         /\ claim.claimer # tasks[t].poster
         /\ claim.status = "Enrolled"
         /\ claims' = [claims EXCEPT ![c] = claim]
    /\ tasks' = [tasks EXCEPT ![t].slots_enrolled = @ + 1]

(* The claim goes to one of the given statuses, on the same task and for   *)
(* the same claimer.                                                       *)
MovesClaim(t, c, statuses) ==
    /\ ClaimOn(t, c)
    /\ claims[c].status \notin Terminal
    /\ \E claim \in EscrowClaim :
         /\ claim.task = t
         /\ claim.claimer = claims[c].claimer
         /\ claim.status \in statuses
         /\ claims' = [claims EXCEPT ![c] = claim]

Effect ==
    \/ SameBooks
    \/ \E t \in TaskIds : FundsTask(t) \/ RemovesTask(t) \/ ClosesTask(t)
    \/ \E t \in TaskIds, c \in ClaimIds :
         \/ TakesSlot(t, c)
         \/ MovesClaim(t, c, ClaimStatus \ Terminal) /\ UNCHANGED tasks
         \/ MovesClaim(t, c, PaidStatus) /\ SlotApproved(t)
         \/ MovesClaim(t, c, RefundedStatus) /\ SlotRefunded(t)

(* Every effect keeps the accounts well-typed.                             *)
LEMMA EffectTypes ==
    ASSUME TypeOK, Effect
    PROVE  /\ tasks' \in [TaskIds -> EscrowTask \cup {NoAccount}]
           /\ claims' \in [ClaimIds -> EscrowClaim \cup {NoAccount}]
  <1>1. /\ tasks \in [TaskIds -> EscrowTask \cup {NoAccount}]
        /\ claims \in [ClaimIds -> EscrowClaim \cup {NoAccount}]
    BY DEF TypeOK
  <1>2. \A task \in EscrowTask :
          /\ [task EXCEPT !.status = "Closed"] \in EscrowTask
          /\ [task EXCEPT !.slots_enrolled = @ + 1] \in EscrowTask
          /\ [task EXCEPT !.slots_approved = @ + 1] \in EscrowTask
          /\ [task EXCEPT !.slots_refunded = @ + 1] \in EscrowTask
    BY DEF EscrowTask, TaskStatus
  <1>3. CASE SameBooks
    BY <1>1, <1>3 DEF SameBooks
  <1>4. ASSUME NEW t \in TaskIds, FundsTask(t) \/ RemovesTask(t)
        PROVE  /\ tasks' \in [TaskIds -> EscrowTask \cup {NoAccount}]
               /\ claims' = claims
    BY <1>1, <1>4 DEF FundsTask, RemovesTask
  <1>5. ASSUME NEW t \in TaskIds, TaskExists(t),
               \/ tasks' = tasks
               \/ tasks' = [tasks EXCEPT ![t].status = "Closed"]
               \/ tasks' = [tasks EXCEPT ![t].slots_enrolled = @ + 1]
               \/ SlotApproved(t)
               \/ SlotRefunded(t)
        PROVE  tasks' \in [TaskIds -> EscrowTask \cup {NoAccount}]
    <2>1. tasks[t] \in EscrowTask
      BY <1>1, <1>5 DEF TaskExists
    <2>2. PICK task \in EscrowTask : tasks' = [tasks EXCEPT ![t] = task]
      <3>1. CASE tasks' = tasks
        <4>1. tasks' = [tasks EXCEPT ![t] = tasks[t]]
          BY <1>1, <3>1
        <4> QED BY <2>1, <4>1
      <3>2. CASE tasks' = [tasks EXCEPT ![t].status = "Closed"]
        BY <2>1, <1>2, <3>2
      <3>3. CASE tasks' = [tasks EXCEPT ![t].slots_enrolled = @ + 1]
        BY <2>1, <1>2, <3>3
      <3>4. CASE SlotApproved(t)
        BY <2>1, <1>2, <3>4 DEF SlotApproved
      <3>5. CASE SlotRefunded(t)
        BY <2>1, <1>2, <3>5 DEF SlotRefunded
      <3> QED
        BY <1>5, <3>1, <3>2, <3>3, <3>4, <3>5
    <2> QED
      BY <1>1, <2>2
  <1>6. ASSUME NEW t \in TaskIds, ClosesTask(t)
        PROVE  /\ tasks' \in [TaskIds -> EscrowTask \cup {NoAccount}]
               /\ claims' = claims
    BY <1>5, <1>6 DEF ClosesTask, IsOpen
  <1>7. ASSUME NEW t \in TaskIds, NEW c \in ClaimIds, TakesSlot(t, c)
        PROVE  /\ tasks' \in [TaskIds -> EscrowTask \cup {NoAccount}]
               /\ claims' \in [ClaimIds -> EscrowClaim \cup {NoAccount}]
    BY <1>1, <1>5, <1>7 DEF TakesSlot, IsOpen
  <1>8. ASSUME NEW t \in TaskIds, NEW c \in ClaimIds, NEW statuses,
               MovesClaim(t, c, statuses),
               tasks' = tasks \/ SlotApproved(t) \/ SlotRefunded(t)
        PROVE  /\ tasks' \in [TaskIds -> EscrowTask \cup {NoAccount}]
               /\ claims' \in [ClaimIds -> EscrowClaim \cup {NoAccount}]
    BY <1>1, <1>5, <1>8 DEF MovesClaim, ClaimOn
  <1> QED
    BY <1>1, <1>3, <1>4, <1>6, <1>7, <1>8 DEF Effect

-----------------------------------------------------------------------------
(* Every instruction has one of these effects and leaves ledger, config    *)
(* and clock well-typed.                                                   *)

LedgerStep == LedgerOK' /\ UNCHANGED <<config, now>>

Inv0 == TypeOK /\ ClaimHistory

LEMMA TypeOKLedger ==
    ASSUME TypeOK PROVE LedgerOK
  BY DEF TypeOK, LedgerOK, Addresses

(* A claim under review has been rejected at most twice.                   *)
LEMMA BelowCap ==
    ASSUME Inv0, NEW c \in ClaimIds, ClaimExists(c),
           claims[c].status # "Cancelled"
    PROVE  /\ claims[c].rejections \in Nat
           /\ claims[c].rejections + 1 <= MAX_REJECTIONS
  <1>1. claims[c].rejections \in 0 .. MAX_REJECTIONS
    BY ExistingAccounts DEF Inv0, EscrowClaim
  <1>2. claims[c].rejections # MAX_REJECTIONS
    BY DEF Inv0, ClaimHistory, Consistent
  <1> QED
    BY <1>1, <1>2 DEF MAX_REJECTIONS

LEMMA InitializeTaskStep ==
    ASSUME Inv0, NEW poster \in Users, NEW t \in TaskIds,
           NEW bounty \in U64, NEW max_slots \in Nat, NEW secs \in Nat,
           NEW ts \in Int,
           InitializeTask(poster, t, bounty, max_slots, secs, ts)
    PROVE  FundsTask(t) /\ LedgerStep
  <1> DEFINE task == [poster |-> poster, bounty |-> bounty,
                      max_slots |-> max_slots, slots_enrolled |-> 0,
                      slots_approved |-> 0, slots_refunded |-> 0,
                      status |-> "Open", task_deadline_ts |-> ts,
                      claim_deadline_secs |-> secs]
  <1>1. task \in EscrowTask
    BY DEF InitializeTask, EscrowTask, TaskStatus, U64
  <1>2. FundsTask(t)
    <2>1. /\ ~TaskExists(t)
          /\ tasks' = [tasks EXCEPT ![t] = task]
          /\ UNCHANGED claims
      BY DEF InitializeTask
    <2>2. /\ task.slots_enrolled = 0 /\ task.slots_approved = 0
          /\ task.slots_refunded = 0 /\ task.status = "Open"
      OBVIOUS
    <2> HIDE DEF task
    <2> QED
      BY <1>1, <2>1, <2>2 DEF FundsTask
  <1>3. Deposit(bounty, max_slots) \in Nat
    BY U64Assumption DEF Deposit, U64
  <1>4. Wallet(poster) \in Addresses /\ Vault(t) \in Addresses
    BY PinnedAddresses DEF Inv0, InitializeTask
  <1>5. LedgerOK'
    BY <1>3, <1>4, TypeOKLedger, OpenWithDepositType DEF Inv0, InitializeTask
  <1> QED
    BY <1>2, <1>5 DEF InitializeTask, LedgerStep

LEMMA CancelBeforeEnrollStep ==
    ASSUME Inv0, NEW poster \in Users, NEW t \in TaskIds,
           CancelBeforeEnroll(poster, t)
    PROVE  RemovesTask(t) /\ LedgerStep
  <1>1. Wallet(poster) \in Addresses /\ Vault(t) \in Addresses
    BY PinnedAddresses DEF Inv0, CancelBeforeEnroll
  <1>2. LedgerOK'
    BY <1>1, TypeOKLedger, DrainAndCloseType, VaultIsNoWallet DEF Inv0, CancelBeforeEnroll
  <1> QED
    BY <1>2 DEF CancelBeforeEnroll, NeverEnrolled, RemovesTask, IsOpen,
                LedgerStep

LEMMA RefundAndCloseStep ==
    ASSUME Inv0, NEW t \in TaskIds, Initialized, TaskExists(t),
           ActiveSlots(tasks[t]) = 0, RefundAndClose(t)
    PROVE  ClosesTask(t) /\ LedgerStep
  <1>1. tasks[t].poster \in Users
    BY ExistingAccounts DEF Inv0, EscrowTask
  <1>2. Wallet(tasks[t].poster) \in Addresses /\ Vault(t) \in Addresses
    BY <1>1, PinnedAddresses DEF Inv0
  <1>3. LedgerOK'
    BY <1>1, <1>2, TypeOKLedger, DrainAndCloseType, VaultIsNoWallet DEF Inv0, RefundAndClose
  <1> QED
    BY <1>3 DEF RefundAndClose, ClosesTask, IsOpen, LedgerStep

LEMMA CloseTaskStep ==
    ASSUME Inv0, NEW caller \in Users, NEW t \in TaskIds,
           CloseTask(caller, t)
    PROVE  ClosesTask(t) /\ LedgerStep
  BY RefundAndCloseStep DEF CloseTask

LEMMA AutoCancelTaskStep ==
    ASSUME Inv0, NEW t \in TaskIds, AutoCancelTask(t)
    PROVE  ClosesTask(t) /\ LedgerStep
  <1>1. tasks[t] \in EscrowTask /\ tasks[t].slots_enrolled = 0
    BY ExistingAccounts DEF Inv0, AutoCancelTask, NeverEnrolled
  <1>2. ActiveSlots(tasks[t]) = 0
    BY <1>1 DEF ActiveSlots, SaturatingSub, EscrowTask
  <1> QED
    BY <1>2, RefundAndCloseStep DEF AutoCancelTask

LEMMA EnrollStep ==
    ASSUME Inv0, NEW claimer \in Users, NEW mint \in Mints,
           NEW t \in TaskIds, NEW c \in ClaimIds,
           Enroll(claimer, mint, t, c)
    PROVE  TakesSlot(t, c) /\ LedgerStep
  <1> DEFINE claim == [task |-> t, claimer |-> claimer,
                       status |-> "Enrolled", enrolled_at |-> now,
                       submitted_at |-> 0, disputed_at |-> 0,
                       rejections |-> 0]
  <1>1. claim \in EscrowClaim
    BY DEF Inv0, TypeOK, EscrowClaim, ClaimStatus, MAX_REJECTIONS
  <1>2. TakesSlot(t, c)
    <2>1. /\ IsOpen(t) /\ ~ClaimExists(c)
          /\ tasks[t].slots_enrolled < tasks[t].max_slots
          /\ claimer # tasks[t].poster
          /\ claims' = [claims EXCEPT ![c] = claim]
          /\ tasks' = [tasks EXCEPT ![t].slots_enrolled = @ + 1]
      BY DEF Enroll
    <2>2. claim.task = t /\ claim.claimer = claimer /\ claim.status = "Enrolled"
      OBVIOUS
    <2> HIDE DEF claim
    <2> QED
      BY <1>1, <2>1, <2>2 DEF TakesSlot
  <1>3. ATA(mint, claimer) \in Addresses
    BY AtaType, HolderTypes
  <1>4. LedgerOK'
    BY <1>3, TypeOKLedger DEF Inv0, Enroll, LedgerOK
  <1> QED
    BY <1>2, <1>4 DEF Enroll, LedgerStep

LEMMA SubmitStep ==
    ASSUME Inv0, NEW claimer \in Users, NEW t \in TaskIds,
           NEW c \in ClaimIds, Submit(claimer, t, c)
    PROVE  /\ MovesClaim(t, c, ClaimStatus \ Terminal) /\ UNCHANGED tasks
           /\ LedgerStep
  <1> DEFINE claim == AsSubmitted(claims[c])
  <1>1. claims[c] \in EscrowClaim
    BY ExistingAccounts DEF Inv0, Submit, ClaimOn
  <1>2. now \in Nat
    BY DEF Inv0, TypeOK
  <1>3. claim \in EscrowClaim
    BY <1>1, <1>2 DEF AsSubmitted, EscrowClaim, ClaimStatus
  <1>4. /\ claim.task = claims[c].task
        /\ claim.claimer = claims[c].claimer
        /\ claim.status = "Submitted"
    BY <1>1 DEF AsSubmitted, EscrowClaim
  <1>5. claims' = [claims EXCEPT ![c] = claim]
    BY DEF Submit
  <1> HIDE DEF claim
  <1>6. MovesClaim(t, c, ClaimStatus \ Terminal)
    BY <1>3, <1>4, <1>5 DEF Submit, MovesClaim, ClaimOn, Submittable,
       ClaimStatus, Terminal, PaidStatus, RefundedStatus
  <1> QED
    BY <1>6, TypeOKLedger DEF Inv0, Submit, LedgerStep, LedgerOK

LEMMA OpenDisputeStep ==
    ASSUME Inv0, NEW claimer \in Users, NEW t \in TaskIds,
           NEW c \in ClaimIds, OpenDispute(claimer, t, c)
    PROVE  /\ MovesClaim(t, c, ClaimStatus \ Terminal) /\ UNCHANGED tasks
           /\ LedgerStep
  <1> DEFINE claim == AsDisputed(claims[c])
  <1>1. claims[c] \in EscrowClaim
    BY ExistingAccounts DEF Inv0, OpenDispute, ClaimOn
  <1>2. now \in Nat
    BY DEF Inv0, TypeOK
  <1>3. claim \in EscrowClaim
    BY <1>1, <1>2 DEF AsDisputed, EscrowClaim, ClaimStatus
  <1>4. /\ claim.task = claims[c].task
        /\ claim.claimer = claims[c].claimer
        /\ claim.status = "Disputed"
    BY <1>1 DEF AsDisputed, EscrowClaim
  <1>5. claims' = [claims EXCEPT ![c] = claim]
    BY DEF OpenDispute
  <1> HIDE DEF claim
  <1>6. MovesClaim(t, c, ClaimStatus \ Terminal)
    BY <1>3, <1>4, <1>5 DEF OpenDispute, MovesClaim, ClaimOn, Disputable,
       ClaimStatus, Terminal, PaidStatus, RefundedStatus
  <1> QED
    BY <1>6, TypeOKLedger DEF Inv0, OpenDispute, LedgerStep, LedgerOK

(* Settling a live claim one way or the other.                             *)
LEMMA SettledMoves ==
    ASSUME Inv0, NEW t \in TaskIds, NEW c \in ClaimIds, ClaimOn(t, c),
           claims[c].status \notin Terminal,
           NEW status \in ClaimStatus, Settled(c, status)
    PROVE  MovesClaim(t, c, {status})
  <1> DEFINE claim == [claims[c] EXCEPT !.status = status]
  <1>1. claims[c] \in EscrowClaim
    BY ExistingAccounts DEF Inv0, ClaimOn
  <1>2. /\ claim \in EscrowClaim
        /\ claim.task = claims[c].task
        /\ claim.claimer = claims[c].claimer
        /\ claim.status = status
    BY <1>1 DEF EscrowClaim
  <1>3. claims' = [claims EXCEPT ![c] = claim]
    BY DEF Settled
  <1> HIDE DEF claim
  <1> QED
    BY <1>2, <1>3 DEF MovesClaim, ClaimOn

LEMMA PaidMoves ==
    ASSUME Inv0, Initialized, NEW t \in TaskIds, NEW c \in ClaimIds,
           ClaimOn(t, c), claims[c].status \notin Terminal,
           NEW status \in PaidStatus, Settled(c, status),
           PayDeliverer(t, c), UNCHANGED <<config, now>>
    PROVE  MovesClaim(t, c, PaidStatus) /\ LedgerStep
  <1>1. status \in ClaimStatus
    BY DEF ClaimStatus, Terminal
  <1>2. MovesClaim(t, c, {status})
    BY <1>1, SettledMoves
  <1>3. MovesClaim(t, c, PaidStatus)
    BY <1>2 DEF MovesClaim
  <1>4. LedgerOK'
    BY PayDelivererType DEF Inv0, ClaimOn
  <1> QED
    BY <1>3, <1>4 DEF LedgerStep

LEMMA RefundSlotType ==
    ASSUME Inv0, Initialized, NEW t \in TaskIds, TaskExists(t), RefundSlot(t)
    PROVE  LedgerOK'
  <1>1. tasks[t].poster \in Users /\ tasks[t].bounty \in Nat
    BY ExistingAccounts DEF Inv0, EscrowTask, U64
  <1>2. Wallet(tasks[t].poster) \in Addresses /\ Vault(t) \in Addresses
    BY <1>1, PinnedAddresses DEF Inv0
  <1> QED
    BY <1>1, <1>2, TypeOKLedger, TransferType DEF Inv0, RefundSlot

LEMMA ReviewedIsLive ==
    ASSUME NEW t \in TaskIds, NEW c \in ClaimIds,
           UnderReview(t, c) \/ UnderDispute(t, c)
    PROVE  /\ Initialized /\ ClaimOn(t, c)
           /\ claims[c].status \notin Terminal
  BY DEF UnderReview, UnderDispute, Terminal, PaidStatus, RefundedStatus

LEMMA ApproveClaimStep ==
    ASSUME Inv0, NEW t \in TaskIds, NEW c \in ClaimIds,
           \/ \E poster \in Users : ApproveClaim(poster, t, c)
           \/ AutoApprove(t, c)
    PROVE  MovesClaim(t, c, PaidStatus) /\ SlotApproved(t) /\ LedgerStep
  <1>1. /\ UnderReview(t, c) /\ PayDeliverer(t, c)
        /\ Settled(c, "Approved") /\ SlotApproved(t)
        /\ UNCHANGED <<config, now>>
    BY DEF ApproveClaim, AutoApprove
  <1>2. "Approved" \in PaidStatus
    BY DEF PaidStatus
  <1> QED
    BY <1>1, <1>2, ReviewedIsLive, PaidMoves

LEMMA ResolveForDelivererStep ==
    ASSUME Inv0, NEW t \in TaskIds, NEW c \in ClaimIds, UnderDispute(t, c),
           ResolveForDeliverer(t, c), UNCHANGED <<config, now>>
    PROVE  MovesClaim(t, c, PaidStatus) /\ SlotApproved(t) /\ LedgerStep
  <1>1. "ResolvedDeliverer" \in PaidStatus
    BY DEF PaidStatus
  <1> QED
    BY <1>1, ReviewedIsLive, PaidMoves DEF ResolveForDeliverer

LEMMA ResolveForPosterStep ==
    ASSUME Inv0, NEW t \in TaskIds, NEW c \in ClaimIds, UnderDispute(t, c),
           ResolveForPoster(t, c), UNCHANGED <<config, now>>
    PROVE  MovesClaim(t, c, RefundedStatus) /\ SlotRefunded(t) /\ LedgerStep
  <1>1. "ResolvedPoster" \in RefundedStatus /\ "ResolvedPoster" \in ClaimStatus
    BY DEF RefundedStatus, ClaimStatus, Terminal
  <1>2. /\ Initialized /\ ClaimOn(t, c) /\ TaskExists(t)
        /\ claims[c].status \notin Terminal
    BY ReviewedIsLive DEF ClaimOn
  <1>3. MovesClaim(t, c, {"ResolvedPoster"})
    BY <1>1, <1>2, SettledMoves DEF ResolveForPoster
  <1>4. MovesClaim(t, c, RefundedStatus)
    BY <1>1, <1>3 DEF MovesClaim
  <1>5. LedgerOK'
    BY <1>2, RefundSlotType DEF ResolveForPoster
  <1> QED
    BY <1>4, <1>5 DEF ResolveForPoster, LedgerStep

LEMMA RejectClaimStep ==
    ASSUME Inv0, NEW poster \in Users, NEW t \in TaskIds, NEW c \in ClaimIds,
           RejectClaim(poster, t, c)
    PROVE  /\ \/ MovesClaim(t, c, ClaimStatus \ Terminal) /\ UNCHANGED tasks
              \/ MovesClaim(t, c, RefundedStatus) /\ SlotRefunded(t)
           /\ LedgerStep
  <1>1. /\ Initialized /\ ClaimOn(t, c) /\ TaskExists(t)
        /\ claims[c].status \notin Terminal
    BY ReviewedIsLive DEF RejectClaim, ClaimOn
  <1>2. claims[c] \in EscrowClaim
    BY <1>1, ExistingAccounts DEF Inv0, ClaimOn
  <1>3. /\ claims[c].rejections \in Nat
        /\ claims[c].rejections + 1 <= MAX_REJECTIONS
    BY <1>1, BelowCap DEF ClaimOn, Terminal, RefundedStatus
  <1>4. \A status \in ClaimStatus :
          /\ AsRejected(claims[c], status) \in EscrowClaim
          /\ AsRejected(claims[c], status).task = claims[c].task
          /\ AsRejected(claims[c], status).claimer = claims[c].claimer
          /\ AsRejected(claims[c], status).status = status
    <2>1. claims[c].rejections + 1 \in 0 .. MAX_REJECTIONS
      BY <1>3 DEF MAX_REJECTIONS
    <2> DEFINE r == claims[c].rejections + 1
    <2> HIDE DEF r
    <2>2. \A status \in ClaimStatus :
            LET k == [claims[c] EXCEPT !.status = status, !.rejections = r]
            IN  /\ k \in EscrowClaim
                /\ k.task = claims[c].task
                /\ k.claimer = claims[c].claimer
                /\ k.status = status
      BY <1>2, <2>1 DEF EscrowClaim, r
    <2> QED
      BY <2>2 DEF AsRejected, r
  <1>5. ASSUME NEW status \in ClaimStatus,
               claims' = [claims EXCEPT ![c] = AsRejected(@, status)]
        PROVE  MovesClaim(t, c, {status})
    <2>1. claims' = [claims EXCEPT ![c] = AsRejected(claims[c], status)]
      BY <1>5
    <2> QED
      BY <1>1, <1>4, <2>1 DEF MovesClaim, ClaimOn
  <1>6. CASE RejectForRework(t, c)
    <2>1. "Rejected" \in ClaimStatus \ Terminal
      BY DEF ClaimStatus, Terminal, PaidStatus, RefundedStatus
    <2>2. MovesClaim(t, c, {"Rejected"})
      BY <1>5, <1>6, <2>1 DEF RejectForRework
    <2>3. MovesClaim(t, c, ClaimStatus \ Terminal)
      BY <2>1, <2>2 DEF MovesClaim
    <2> QED
      BY <1>6, <2>3, TypeOKLedger
      DEF Inv0, RejectForRework, RejectClaim, LedgerStep, LedgerOK
  <1>7. CASE RejectForGood(t, c)
    <2>1. "Cancelled" \in RefundedStatus /\ "Cancelled" \in ClaimStatus
      BY DEF ClaimStatus, Terminal, RefundedStatus
    <2>2. MovesClaim(t, c, {"Cancelled"})
      BY <1>5, <1>7, <2>1 DEF RejectForGood
    <2>3. MovesClaim(t, c, RefundedStatus)
      BY <2>1, <2>2 DEF MovesClaim
    <2>4. LedgerOK'
      BY <1>1, <1>7, RefundSlotType DEF RejectForGood
    <2> QED
      BY <1>7, <2>3, <2>4 DEF RejectForGood, RejectClaim, LedgerStep
  <1> QED
    BY <1>6, <1>7 DEF RejectClaim

-----------------------------------------------------------------------------
(* The groups of Next.                                                     *)

StepOK ==
    /\ Effect
    /\ LedgerOK'
    /\ config' \in EscrowConfig \cup {NoAccount}
    /\ now' \in Nat \ {0}
    /\ now <= now'

LEMMA BookStep ==
    ASSUME Inv0, Effect, LedgerStep
    PROVE  StepOK
  BY DEF Inv0, TypeOK, LedgerStep, StepOK

LEMMA TaskNextStep ==
    ASSUME Inv0, TaskNext
    PROVE  StepOK
  <1>1. PICK t \in TaskIds :
          \/ \E poster \in Users, bounty \in BountyInputs,
                max_slots \in SlotInputs, secs \in ClaimDeadlineInputs,
                ts \in DeadlineInputs :
               InitializeTask(poster, t, bounty, max_slots, secs, ts)
          \/ \E poster \in Users : CancelBeforeEnroll(poster, t)
          \/ \E caller \in Users : CloseTask(caller, t)
          \/ AutoCancelTask(t)
    BY DEF TaskNext
  <1>2. (FundsTask(t) \/ RemovesTask(t) \/ ClosesTask(t)) /\ LedgerStep
    BY <1>1, InputAssumption, InitializeTaskStep, CancelBeforeEnrollStep,
       CloseTaskStep, AutoCancelTaskStep
  <1> QED
    BY <1>2, BookStep DEF Effect

LEMMA ClaimNextStep ==
    ASSUME Inv0, ClaimNext
    PROVE  StepOK
  <1>1. PICK t \in TaskIds, c \in ClaimIds :
          \/ \E claimer \in Users, mint \in Mints : Enroll(claimer, mint, t, c)
          \/ \E signer \in Users :
               \/ Submit(signer, t, c)
               \/ ApproveClaim(signer, t, c)
               \/ RejectClaim(signer, t, c)
               \/ OpenDispute(signer, t, c)
               \/ ResolveDispute(signer, t, c)
          \/ AutoApprove(t, c)
          \/ AutoResolveDispute(t, c)
    BY DEF ClaimNext
  <1> DEFINE Outcome ==
        \/ TakesSlot(t, c)
        \/ MovesClaim(t, c, ClaimStatus \ Terminal) /\ UNCHANGED tasks
        \/ MovesClaim(t, c, PaidStatus) /\ SlotApproved(t)
        \/ MovesClaim(t, c, RefundedStatus) /\ SlotRefunded(t)
  <1>2. ASSUME NEW claimer \in Users, NEW mint \in Mints,
               Enroll(claimer, mint, t, c)
        PROVE  Outcome /\ LedgerStep
    BY <1>2, EnrollStep
  <1>3. ASSUME NEW signer \in Users,
               Submit(signer, t, c) \/ OpenDispute(signer, t, c)
        PROVE  Outcome /\ LedgerStep
    BY <1>3, SubmitStep, OpenDisputeStep
  <1>4. ASSUME NEW signer \in Users, ApproveClaim(signer, t, c)
        PROVE  Outcome /\ LedgerStep
    BY <1>4, ApproveClaimStep
  <1>5. ASSUME NEW signer \in Users, RejectClaim(signer, t, c)
        PROVE  Outcome /\ LedgerStep
    BY <1>5, RejectClaimStep
  <1>6. ASSUME NEW signer \in Users, ResolveDispute(signer, t, c)
        PROVE  Outcome /\ LedgerStep
    BY <1>6, ResolveForDelivererStep, ResolveForPosterStep DEF ResolveDispute
  <1>7. ASSUME AutoApprove(t, c)
        PROVE  Outcome /\ LedgerStep
    BY <1>7, ApproveClaimStep
  <1>8. ASSUME AutoResolveDispute(t, c)
        PROVE  Outcome /\ LedgerStep
    BY <1>8, ResolveForDelivererStep DEF AutoResolveDispute
  <1>9. Outcome /\ LedgerStep
    BY <1>1, <1>2, <1>3, <1>4, <1>5, <1>6, <1>7, <1>8
  <1> QED
    BY <1>9, BookStep DEF Effect

LEMMA ConfigNextStep ==
    ASSUME Inv0, ConfigNext
    PROVE  StepOK
  <1>0. LedgerOK /\ now \in Nat \ {0} /\ now <= now
    BY TypeOKLedger DEF Inv0, TypeOK
  <1>1. ASSUME NEW mint \in Mints, NEW admin \in AdminInputs,
               NEW fee_bps \in FeeBpsInputs,
               InitializeConfig(mint, admin, fee_bps)
        PROVE  StepOK
    <2>1. config' \in EscrowConfig
      BY <1>1, InputAssumption DEF InitializeConfig, EscrowConfig, FEE_BPS_CAP
    <2>2. ATA(mint, ConfigPda) \in Addresses
      BY AtaType, HolderTypes
    <2> QED
      BY <1>0, <1>1, <2>1, <2>2
      DEF InitializeConfig, LedgerOK, StepOK, Effect, SameBooks
  <1>2. ASSUME NEW signer \in Users,
               \/ \E admin \in AdminInputs : UpdateAdmin(signer, admin)
               \/ \E fee_bps \in FeeBpsInputs : UpdateFee(signer, fee_bps)
               \/ \E mint \in Mints : UpdateMint(signer, mint)
        PROVE  StepOK
    <2>1. config \in EscrowConfig
      BY <1>2, ExistingAccounts
      DEF Inv0, UpdateAdmin, UpdateFee, UpdateMint, IsAdmin
    <2>2. config' \in EscrowConfig
      <3>1. CASE \E admin \in AdminInputs : UpdateAdmin(signer, admin)
        BY <2>1, <3>1, InputAssumption DEF UpdateAdmin, EscrowConfig
      <3>2. CASE \E fee_bps \in FeeBpsInputs : UpdateFee(signer, fee_bps)
        BY <2>1, <3>2, InputAssumption DEF UpdateFee, EscrowConfig, FEE_BPS_CAP
      <3>3. CASE \E mint \in Mints : UpdateMint(signer, mint)
        BY <2>1, <3>3 DEF UpdateMint, EscrowConfig
      <3> QED
        BY <1>2, <3>1, <3>2, <3>3
    <2>3. OnlyConfig
      BY <1>2 DEF UpdateAdmin, UpdateFee, UpdateMint
    <2> QED
      BY <1>0, <2>2, <2>3 DEF OnlyConfig, LedgerOK, StepOK, Effect, SameBooks
  <1> QED
    BY <1>1, <1>2 DEF ConfigNext

LEMMA FeesNextStep ==
    ASSUME Inv0, FeesNext
    PROVE  StepOK
  <1>0. LedgerOK /\ now \in Nat \ {0} /\ now <= now
    BY TypeOKLedger DEF Inv0, TypeOK
  <1>1. PICK signer \in Users, holder \in Holders, amount \in WithdrawInputs :
          WithdrawFees(signer, holder, amount)
    BY DEF FeesNext
  <1>2. Initialized /\ config.usdc_mint \in Mints
    BY <1>1, ExistingAccounts DEF Inv0, WithdrawFees, EscrowConfig
  <1>3. FeeVault \in Addresses /\ ATA(config.usdc_mint, holder) \in Addresses
    BY <1>2, PinnedAddresses, AtaType DEF Inv0
  <1>4. amount \in Nat
    BY InputAssumption DEF U64
  <1>5. LedgerOK'
    BY <1>0, <1>1, <1>3, <1>4, TransferType DEF WithdrawFees
  <1> QED
    BY <1>0, <1>1, <1>5
    DEF Inv0, TypeOK, WithdrawFees, StepOK, Effect, SameBooks

LEMMA EnvironmentNextStep ==
    ASSUME Inv0, EnvironmentNext
    PROVE  StepOK
  <1>0. /\ LedgerOK /\ now \in Nat \ {0} /\ now <= now
        /\ config \in EscrowConfig \cup {NoAccount}
    BY TypeOKLedger DEF Inv0, TypeOK
  <1>1. CASE Tick
    BY <1>0, <1>1 DEF Tick, StepOK, Effect, SameBooks, LedgerOK
  <1>2. ASSUME NEW a \in OutOfBandAtas, CreateAta(a)
        PROVE  StepOK
    BY <1>0, <1>2, InputAssumption
    DEF CreateAta, StepOK, Effect, SameBooks, LedgerOK, Addresses
  <1>4. ASSUME NEW a \in ClosableAtas, CloseAta(a)
        PROVE  StepOK
    BY <1>0, <1>4 DEF CloseAta, StepOK, Effect, SameBooks, LedgerOK
  <1>3. ASSUME NEW mint \in Mints, NEW user \in Users, NEW t \in TaskIds,
               NEW amount \in DonationInputs, Donate(mint, user, t, amount)
        PROVE  StepOK
    <2>1. ATA(mint, user) \in Addresses /\ ATA(mint, t) \in Addresses
      BY AtaType, HolderTypes
    <2>2. amount \in Nat
      BY InputAssumption DEF U64
    <2>3. LedgerOK'
      BY <1>0, <1>3, <2>1, <2>2, TransferType DEF Donate
    <2> QED
      BY <1>0, <1>3, <2>3 DEF Donate, StepOK, Effect, SameBooks
  <1> QED
    BY <1>1, <1>2, <1>3, <1>4 DEF EnvironmentNext

LEMMA NextStep ==
    ASSUME Inv0, [Next]_vars
    PROVE  StepOK
  <1>1. CASE UNCHANGED vars
    BY <1>1, TypeOKLedger
    DEF vars, Inv0, TypeOK, StepOK, Effect, SameBooks, LedgerOK
  <1> QED
    BY <1>1, TaskNextStep, ClaimNextStep, ConfigNextStep, FeesNextStep,
       EnvironmentNextStep DEF Next

LEMMA TypeStep ==
    ASSUME Inv0, [Next]_vars
    PROVE  TypeOK'
  BY NextStep, EffectTypes DEF Inv0, StepOK, LedgerOK, TypeOK, Addresses

-----------------------------------------------------------------------------
(* Claim histories.                                                        *)

(* Time passing alone does not spoil a history.                            *)
LEMMA ConsistentLater ==
    ASSUME NEW k \in EscrowClaim, now \in Nat, now' \in Nat, now <= now',
           Consistent(k)
    PROVE  Consistent(k)'
  <1>1. /\ k.enrolled_at \in Nat /\ k.submitted_at \in Nat
        /\ k.disputed_at \in Nat
    BY DEF EscrowClaim
  <1> QED
    BY <1>1 DEF Consistent

(* One claim is replaced by one with a consistent history.                 *)
Rewrites(c, claim) ==
    /\ claims' = [claims EXCEPT ![c] = claim]
    /\ Consistent(claim)
    /\ UNCHANGED now

LEMMA EnrollHistory ==
    ASSUME Inv0, NEW claimer \in Users, NEW mint \in Mints,
           NEW t \in TaskIds, NEW c \in ClaimIds, Enroll(claimer, mint, t, c)
    PROVE  \E claim : Rewrites(c, claim)
  <1> DEFINE claim == [task |-> t, claimer |-> claimer,
                       status |-> "Enrolled", enrolled_at |-> now,
                       submitted_at |-> 0, disputed_at |-> 0,
                       rejections |-> 0]
  <1>1. claims' = [claims EXCEPT ![c] = claim] /\ now' = now
    BY DEF Enroll
  <1>2. Consistent(claim)
    BY DEF Inv0, TypeOK, Consistent, MAX_REJECTIONS
  <1> QED
    BY <1>1, <1>2 DEF Rewrites

LEMMA SubmitHistory ==
    ASSUME Inv0, NEW claimer \in Users, NEW t \in TaskIds, NEW c \in ClaimIds,
           Submit(claimer, t, c)
    PROVE  \E claim : Rewrites(c, claim)
  <1>1. /\ claims[c] \in EscrowClaim /\ Consistent(claims[c])
        /\ claims[c].status \in {"Enrolled", "Rejected"}
    BY ExistingAccounts DEF Inv0, Submit, ClaimOn, ClaimHistory, Submittable
  <1>2. claims' = [claims EXCEPT ![c] = AsSubmitted(claims[c])] /\ now' = now
    BY DEF Submit
  <1>3. Consistent(AsSubmitted(claims[c]))
    BY <1>1 DEF Inv0, TypeOK, EscrowClaim, Consistent, AsSubmitted
  <1> QED
    BY <1>2, <1>3 DEF Rewrites

LEMMA OpenDisputeHistory ==
    ASSUME Inv0, NEW claimer \in Users, NEW t \in TaskIds, NEW c \in ClaimIds,
           OpenDispute(claimer, t, c)
    PROVE  \E claim : Rewrites(c, claim)
  <1>1. /\ claims[c] \in EscrowClaim /\ Consistent(claims[c])
        /\ claims[c].status = "Rejected"
    BY ExistingAccounts DEF Inv0, OpenDispute, ClaimOn, ClaimHistory, Disputable
  <1>2. claims' = [claims EXCEPT ![c] = AsDisputed(claims[c])] /\ now' = now
    BY DEF OpenDispute
  <1>3. Consistent(AsDisputed(claims[c]))
    BY <1>1 DEF Inv0, TypeOK, EscrowClaim, Consistent, AsDisputed
  <1> QED
    BY <1>2, <1>3 DEF Rewrites

LEMMA RejectClaimHistory ==
    ASSUME Inv0, NEW poster \in Users, NEW t \in TaskIds, NEW c \in ClaimIds,
           RejectClaim(poster, t, c)
    PROVE  \E claim : Rewrites(c, claim)
  <1>1. /\ claims[c] \in EscrowClaim /\ Consistent(claims[c])
        /\ claims[c].status = "Submitted" /\ now' = now
    BY ExistingAccounts
    DEF Inv0, RejectClaim, UnderReview, ClaimOn, ClaimHistory
  <1>2. CASE RejectForRework(t, c)
    <2>1. Consistent(AsRejected(claims[c], "Rejected"))
      BY <1>1, <1>2 DEF RejectForRework, MayRework, EscrowClaim, Consistent,
         AsRejected, MAX_REJECTIONS
    <2> QED
      BY <1>1, <1>2, <2>1 DEF RejectForRework, Rewrites
  <1>3. CASE RejectForGood(t, c)
    <2>1. claims[c].rejections + 1 = MAX_REJECTIONS
      BY <1>1, <1>3
      DEF RejectForGood, MayRework, EscrowClaim, Consistent, MAX_REJECTIONS
    <2>2. Consistent(AsRejected(claims[c], "Cancelled"))
      BY <1>1, <2>1 DEF EscrowClaim, Consistent, AsRejected, MAX_REJECTIONS
    <2> QED
      BY <1>1, <1>3, <2>2 DEF RejectForGood, Rewrites
  <1> QED
    BY <1>2, <1>3 DEF RejectClaim

LEMMA SettledHistory ==
    ASSUME Inv0, NEW t \in TaskIds, NEW c \in ClaimIds,
           UNCHANGED now,
           \/ UnderReview(t, c) /\ Settled(c, "Approved")
           \/ UnderDispute(t, c) /\ Settled(c, "ResolvedDeliverer")
           \/ UnderDispute(t, c) /\ Settled(c, "ResolvedPoster")
    PROVE  \E claim : Rewrites(c, claim)
  <1>1. claims[c] \in EscrowClaim /\ Consistent(claims[c])
    BY ExistingAccounts DEF Inv0, UnderReview, UnderDispute, ClaimOn, ClaimHistory
  <1>2. ASSUME NEW status \in ClaimStatus, Settled(c, status),
               \/ claims[c].status = "Submitted" /\ status = "Approved"
               \/ /\ claims[c].status = "Disputed"
                  /\ status \in {"ResolvedDeliverer", "ResolvedPoster"}
        PROVE  \E claim : Rewrites(c, claim)
    <2>1. Consistent([claims[c] EXCEPT !.status = status])
      BY <1>1, <1>2 DEF EscrowClaim, Consistent, MAX_REJECTIONS
    <2> QED
      BY <1>2, <2>1 DEF Settled, Rewrites
  <1> QED
    BY <1>2 DEF UnderReview, UnderDispute, ClaimStatus, Terminal, PaidStatus,
       RefundedStatus

LEMMA ClaimNextHistory ==
    ASSUME Inv0, ClaimNext
    PROVE  \E c \in ClaimIds : \E claim : Rewrites(c, claim)
  <1>1. PICK t \in TaskIds, c \in ClaimIds :
          \/ \E claimer \in Users, mint \in Mints : Enroll(claimer, mint, t, c)
          \/ \E signer \in Users :
               \/ Submit(signer, t, c)
               \/ ApproveClaim(signer, t, c)
               \/ RejectClaim(signer, t, c)
               \/ OpenDispute(signer, t, c)
               \/ ResolveDispute(signer, t, c)
          \/ AutoApprove(t, c)
          \/ AutoResolveDispute(t, c)
    BY DEF ClaimNext
  <1>2. ASSUME NEW signer \in Users, ApproveClaim(signer, t, c)
        PROVE  \E claim : Rewrites(c, claim)
    BY <1>2, SettledHistory DEF ApproveClaim
  <1>3. ASSUME NEW signer \in Users, ResolveDispute(signer, t, c)
        PROVE  \E claim : Rewrites(c, claim)
    BY <1>3, SettledHistory
    DEF ResolveDispute, ResolveForDeliverer, ResolveForPoster
  <1>4. ASSUME AutoApprove(t, c)
        PROVE  \E claim : Rewrites(c, claim)
    BY <1>4, SettledHistory DEF AutoApprove
  <1>5. ASSUME AutoResolveDispute(t, c)
        PROVE  \E claim : Rewrites(c, claim)
    BY <1>5, SettledHistory DEF AutoResolveDispute, ResolveForDeliverer
  <1>6. \E claim : Rewrites(c, claim)
    BY <1>1, <1>2, <1>3, <1>4, <1>5, EnrollHistory, SubmitHistory,
       OpenDisputeHistory, RejectClaimHistory
  <1> QED
    BY <1>6

LEMMA HistoryStep ==
    ASSUME Inv0, [Next]_vars
    PROVE  ClaimHistory'
  <1>1. /\ now \in Nat /\ now' \in Nat /\ now <= now'
        /\ claims \in [ClaimIds -> EscrowClaim \cup {NoAccount}]
    BY NextStep DEF Inv0, TypeOK, StepOK
  <1>2. \A c \in ClaimIds : ClaimExists(c) => Consistent(claims[c])
    BY DEF Inv0, ClaimHistory
  <1>3. CASE ClaimNext
    <2>0. PICK c \in ClaimIds : \E claim : Rewrites(c, claim)
      BY <1>3, ClaimNextHistory
    <2>1. PICK claim : Rewrites(c, claim)
      BY <2>0
    <2>2. now' = now /\ Consistent(claim)
      BY <2>1 DEF Rewrites
    <2>3. \A d \in ClaimIds : claims'[d] = IF d = c THEN claim ELSE claims[d]
      BY <1>1, <2>1 DEF Rewrites
    <2>4. ASSUME NEW d \in ClaimIds, claims'[d] # NoAccount
          PROVE  Consistent(claims[d])'
      BY <1>2, <2>2, <2>3, <2>4 DEF ClaimExists, Consistent
    <2> QED
      BY <2>4 DEF ClaimHistory, ClaimExists
  <1>4. CASE UNCHANGED claims
    <2>1. ASSUME NEW c \in ClaimIds, claims[c] # NoAccount
          PROVE  Consistent(claims[c])'
      <3>1. claims[c] \in EscrowClaim /\ Consistent(claims[c])
        BY <1>1, <1>2, <2>1 DEF ClaimExists
      <3> QED
        BY <1>1, <1>4, <3>1, ConsistentLater DEF Consistent
    <2> QED
      BY <1>4, <2>1 DEF ClaimHistory, ClaimExists
  <1>5. CASE TaskNext
    BY <1>4, <1>5 DEF TaskNext, InitializeTask, CancelBeforeEnroll, CloseTask,
       AutoCancelTask, RefundAndClose
  <1>6. CASE ConfigNext
    BY <1>4, <1>6 DEF ConfigNext, InitializeConfig, UpdateAdmin, UpdateFee,
       UpdateMint, OnlyConfig
  <1>7. CASE FeesNext
    BY <1>4, <1>7 DEF FeesNext, WithdrawFees
  <1>8. CASE EnvironmentNext
    BY <1>4, <1>8 DEF EnvironmentNext, Tick, CreateAta, CloseAta, Donate
  <1>9. CASE UNCHANGED vars
    BY <1>4, <1>9 DEF vars
  <1> QED
    BY <1>3, <1>5, <1>6, <1>7, <1>8, <1>9 DEF Next

LEMMA InitInv0 ==
    ASSUME Init
    PROVE  Inv0
  <1>1. TypeOK
    BY InputAssumption DEF Init, TypeOK, Holders, U64
  <1>2. ClaimHistory
    BY DEF Init, ClaimHistory, ClaimExists
  <1> QED
    BY <1>1, <1>2 DEF Inv0

LEMMA SpecInv0 == Spec => []Inv0
  <1>1. Init => Inv0
    BY InitInv0
  <1>2. Inv0 /\ [Next]_vars => Inv0'
    BY TypeStep, HistoryStep DEF Inv0
  <1> QED
    BY <1>1, <1>2, PTL DEF Spec

(* Every account always holds a value of its type, and no token balance    *)
(* ever goes below zero: no u64 subtraction of the token program can fail  *)
(* after the checks the handlers rely on.                                  *)
THEOREM TypeCorrect == Spec => []TypeOK
  <1>1. Inv0 => TypeOK
    BY DEF Inv0
  <1> QED
    BY <1>1, SpecInv0, PTL

(* The stamps, the rejection count and the status of a claim always fit    *)
(* together, whatever the windows and the order of the calls.              *)
THEOREM ClaimHistoryCorrect == Spec => []ClaimHistory
  <1>1. Inv0 => ClaimHistory
    BY DEF Inv0
  <1> QED
    BY <1>1, SpecInv0, PTL
=============================================================================
