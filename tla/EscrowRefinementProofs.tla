------------------------ MODULE EscrowRefinementProofs ------------------------
(***************************************************************************)
(* The program implements AbstractEscrow, for every instance in which the  *)
(* admin keeps to the rule on the mint and nobody makes token accounts for *)
(* tasks outside the program.                                              *)
(***************************************************************************)
EXTENDS EscrowPinnedProofs, EscrowRefinement

Held(t) == IF Initialized THEN balance[Vault(t)] ELSE 0

-----------------------------------------------------------------------------
(* The mapping, value by value.                                            *)

LEMMA DealOfTask ==
    ASSUME NEW task \in EscrowTask
    PROVE  /\ DealOf(task) = [poster |-> task.poster, bounty |-> task.bounty,
                              size |-> task.max_slots,
                              open |-> task.status = "Open"]
           /\ DealOf(task) \in Deals!Deal
           /\ DealOf(task) # NoAccount
           /\ DealOf(task).poster = task.poster
           /\ DealOf(task).bounty = task.bounty
           /\ DealOf(task).size = task.max_slots
           /\ DealOf(task).open <=> task.status = "Open"
  <1>1. task # NoAccount
    BY NoAccountAssumption
  <1>2. DealOf(task) = [poster |-> task.poster, bounty |-> task.bounty,
                        size |-> task.max_slots,
                        open |-> task.status = "Open"]
    BY <1>1 DEF DealOf
  <1>3. /\ task.poster \in Users /\ task.bounty \in Nat \ {0}
        /\ task.max_slots \in Nat \ {0}
    BY DEF EscrowTask, U64, MAX_SLOTS_LIMIT
  <1>4. DealOf(task) \in Deals!Deal
    BY <1>2, <1>3 DEF Deals!Deal
  <1>5. DealOf(task) # NoAccount
    BY <1>4, NoDealAssumption
  <1>6. /\ DealOf(task).poster = task.poster
        /\ DealOf(task).bounty = task.bounty
        /\ DealOf(task).size = task.max_slots
    BY <1>2
  <1>7. DealOf(task).open <=> task.status = "Open"
    <2> DEFINE deal(open) == [poster |-> task.poster, bounty |-> task.bounty,
                              size |-> task.max_slots, open |-> open]
    <2>1. PICK open \in BOOLEAN : open = (task.status = "Open")
      OBVIOUS
    <2>2. DealOf(task) = deal(open)
      BY <1>2, <2>1, Zenon
    <2>3. deal(open).open = open
      OBVIOUS
    <2> QED
      BY <2>1, <2>2, <2>3, Zenon
  <1> QED
    BY <1>2, <1>4, <1>5, <1>6, <1>7, Zenon

LEMMA SlotOfClaim ==
    ASSUME NEW claim \in EscrowClaim
    PROVE  /\ SlotOf(claim) = [deal |-> claim.task, deliverer |-> claim.claimer,
                               outcome |-> OutcomeOf(claim.status)]
           /\ SlotOf(claim) # NoAccount
           /\ SlotOf(claim).deal = claim.task
           /\ SlotOf(claim).outcome = OutcomeOf(claim.status)
           /\ claim.status \in PaidStatus => OutcomeOf(claim.status) = "paid"
           /\ claim.status \in RefundedStatus =>
                OutcomeOf(claim.status) = "returned"
           /\ claim.status \notin Terminal =>
                OutcomeOf(claim.status) = "pending"
  <1>1. claim # NoAccount
    BY NoAccountAssumption
  <1>2. SlotOf(claim) = [deal |-> claim.task, deliverer |-> claim.claimer,
                         outcome |-> OutcomeOf(claim.status)]
    BY <1>1 DEF SlotOf
  <1>3. /\ claim.status \in PaidStatus => OutcomeOf(claim.status) = "paid"
        /\ claim.status \in RefundedStatus =>
             OutcomeOf(claim.status) = "returned"
        /\ claim.status \notin Terminal => OutcomeOf(claim.status) = "pending"
    BY DEF OutcomeOf, PaidStatus, RefundedStatus, Terminal
  <1>4. OutcomeOf(claim.status) \in {"pending"} \cup Deals!Outcomes
    BY <1>3 DEF Terminal, Deals!Outcomes
  <1>5. claim.task \in TaskIds /\ claim.claimer \in Users
    BY DEF EscrowClaim
  <1>6. SlotOf(claim) \in Deals!Slot
    BY <1>2, <1>4, <1>5 DEF Deals!Slot
  <1> QED
    BY <1>2, <1>3, <1>6, NoDealAssumption

(* Open tasks are the open deals, and the claims of a task its slots.      *)
LEMMA DealsAreTasks ==
    ASSUME TypeOK, NEW t \in TaskIds
    PROVE  /\ Deals!Open(t) <=> IsOpen(t)
           /\ Deals!SlotsOf(t) = ClaimsOf(t)
  <1>1. tasks[t] \in EscrowTask \cup {NoAccount}
    BY DEF TypeOK
  <1>2. Deals!Open(t) <=> IsOpen(t)
    BY <1>1, DealOfTask DEF Deals!Open, IsOpen, TaskExists, DealOf
  <1>3. \A c \in ClaimIds : claims[c] \in EscrowClaim \cup {NoAccount}
    BY DEF TypeOK
  <1>4. \A c \in ClaimIds :
          /\ SlotOf(claims[c]) # NoAccount <=> ClaimExists(c)
          /\ ClaimExists(c) => SlotOf(claims[c]).deal = claims[c].task
    BY <1>3, SlotOfClaim DEF ClaimExists, SlotOf
  <1>5. Deals!SlotsOf(t) = ClaimsOf(t)
    BY <1>4 DEF Deals!SlotsOf, ClaimsOf
  <1> QED
    BY <1>2, <1>5

(* The abstract module counts with its own instance of Cardinality.        *)
LEMMA SameCardinality ==
    ASSUME NEW S
    PROVE  Deals!Cardinality(S) = Cardinality(S)
  BY DEF Deals!Cardinality, Cardinality

-----------------------------------------------------------------------------
(* What is held.                                                           *)

LEMMA HeldPinned ==
    ASSUME NEW t, Initialized, UNCHANGED config
    PROVE  Held(t) = balance[Vault(t)] /\ Held(t)' = balance'[Vault(t)]
  BY DEF Held, Initialized, Vault

LEMMA HeldType ==
    ASSUME TypeOK, NEW t \in TaskIds
    PROVE  Held(t) \in Nat
  <1>1. Initialized => balance[Vault(t)] \in Nat
    BY PinnedAddresses, TypeOKLedger DEF LedgerOK
  <1> QED
    BY <1>1 DEF Held

(* Nothing is held where no task is open, before a step and after it.      *)
LEMMA HeldUnopened ==
    ASSUME NoStrayVaults, PinnedInv, NEW t \in TaskIds, ~IsOpen(t)
    PROVE  Held(t) = 0
  <1>1. CASE Initialized
    <2>1. config.usdc_mint \in Mints
      BY <1>1, PinnedMint DEF PinnedInv, Inv1, Inv0
    <2> QED
      BY <1>1, <2>1, UnopenedVaultIsEmpty DEF Held, Vault
  <1> QED
    BY <1>1 DEF Held

LEMMA UnopenedIsEmpty == NoStrayVaults /\ PinnedInv
                           => \A t \in TaskIds : ~IsOpen(t) => Held(t) = 0
  BY HeldUnopened

LEMMA UnopenedIsEmptyNext ==
    (NoStrayVaults /\ PinnedInv
       => \A t \in TaskIds : ~IsOpen(t) => Held(t) = 0)'
  BY UnopenedIsEmpty, PTL

LEMMA HeldElsewhere ==
    ASSUME PinnedInv, [PinnedNext]_vars, NEW t \in TaskIds, OnTask(t)
    PROVE  \A u \in TaskIds \ {t} : Held(u)' = Held(u)
  <1>1. /\ Inv0 /\ Initialized /\ UNCHANGED config
        /\ config.usdc_mint \in Mints
    BY PinnedMoney, OnTaskNeedsConfig, PinnedMint DEF Inv0
  <1> QED
    BY <1>1, OtherVaultsKept, HeldPinned DEF KeepsVault, Vault

-----------------------------------------------------------------------------
(* What a step leaves alone stays the same deal, slot or amount.           *)

SameDeals == \A t \in TaskIds : DealOf(tasks'[t]) = DealOf(tasks[t])
SameSlots == \A c \in ClaimIds : SlotOf(claims'[c]) = SlotOf(claims[c])
SameHeld  == \A t \in TaskIds : Held(t)' = Held(t)

LEMMA StutterMaps ==
    ASSUME SameDeals, SameSlots, SameHeld
    PROVE  UNCHANGED Deals!dealVars
  BY DEF SameDeals, SameSlots, SameHeld, Held, Deals!dealVars

LEMMA FundsVaultMaps ==
    ASSUME PinnedInv, [PinnedNext]_vars, NEW t \in TaskIds, FundsVault(t)
    PROVE  Deals!Fund(t)
  <1>1. /\ Inv0 /\ OnTask(t) /\ UNCHANGED claims /\ ~TaskExists(t)
        /\ Initialized /\ UNCHANGED config
    BY PinnedMoney DEF OnTask, FundsVault, FundsTask
  <1>2. /\ tasks'[t] \in EscrowTask
        /\ balance'[Vault(t)] = tasks'[t].bounty * tasks'[t].max_slots
    BY <1>1, FundedAmounts
  <1>3. tasks'[t].status = "Open"
    BY <1>1, FundedTask DEF IsOpen
  <1>4. \A u \in TaskIds \ {t} :
          DealOf(tasks'[u]) = DealOf(tasks[u]) /\ Held(u)' = Held(u)
    BY <1>1, OtherTasksKept, HeldElsewhere
  <1>5. DealOf(tasks[t]) = NoAccount
    BY <1>1 DEF DealOf, TaskExists
  <1>6. /\ DealOf(tasks'[t]) \in Deals!Deal
        /\ DealOf(tasks'[t]).open
        /\ Held(t)' = DealOf(tasks'[t]).bounty * DealOf(tasks'[t]).size
    BY <1>1, <1>2, <1>3, DealOfTask, HeldPinned
  <1> QED
    BY <1>1, <1>4, <1>5, <1>6 DEF Deals!Fund, Held

LEMMA EndsTaskMaps ==
    ASSUME PinnedInv, [PinnedNext]_vars, NEW t \in TaskIds, EndsTask(t)
    PROVE  Deals!Withdraw(t) \/ Deals!End(t)
  <1>1. /\ Inv0 /\ SlotAccounting /\ OnTask(t) /\ UNCHANGED claims
        /\ Initialized /\ UNCHANGED config /\ TypeOK
    BY PinnedMoney
    DEF OnTask, EndsTask, RemovesTask, ClosesTask, Inv0
  <1>2. Deals!Open(t) /\ TaskExists(t)
    BY <1>1, EndedTask, DealsAreTasks DEF IsOpen
  <1>3. Held(t)' = 0
    BY <1>1, EndedAmounts, HeldPinned
  <1>4. \A u \in TaskIds \ {t} :
          DealOf(tasks'[u]) = DealOf(tasks[u]) /\ Held(u)' = Held(u)
    BY <1>1, OtherTasksKept, HeldElsewhere
  <1>5. tasks[t] \in EscrowTask
    BY <1>1, <1>2, ExistingAccounts
  <1>6. CASE RemovesTask(t)
    <2>1. DealOf(tasks'[t]) = NoAccount
      BY <1>1, <1>6 DEF RemovesTask, DealOf, TypeOK
    <2>2. Deals!SlotsOf(t) = {}
      <3>1. Cardinality(ClaimsOf(t)) = 0
        BY <1>1, <1>2, <1>6, BooksAreSlotAccounting DEF Books, RemovesTask
      <3> QED
        BY <1>1, <3>1, FiniteSlots, FS_EmptySet, DealsAreTasks
    <2>3. Deals!Withdraw(t)
      BY <1>1, <1>2, <1>3, <1>4, <2>1, <2>2 DEF Deals!Withdraw, Held
    <2> QED
      BY <2>3
  <1>7. CASE ClosesTask(t)
    <2>1. Deals!DecidedOf(t) = Deals!SlotsOf(t)
      <3>1. \A c \in ClaimsOf(t) : SlotOf(claims[c]).outcome \in Deals!Outcomes
        <4>1. ASSUME NEW c \in ClaimsOf(t)
              PROVE  SlotOf(claims[c]).outcome \in Deals!Outcomes
          <5>1. claims[c] \in EscrowClaim /\ claims[c].status \in Terminal
            BY <1>1, ExistingAccounts, EndedClaimsSettled DEF ClaimsOf
          <5> QED
            BY <5>1, SlotOfClaim DEF Terminal, Deals!Outcomes
        <4> QED
          BY <4>1
      <3>2. Deals!SlotsOf(t) = ClaimsOf(t) /\ ClaimsOf(t) \subseteq ClaimIds
        BY <1>1, DealsAreTasks DEF ClaimsOf
      <3> QED
        BY <3>1, <3>2 DEF Deals!DecidedOf
    <2>2. tasks'[t] = [tasks[t] EXCEPT !.status = "Closed"]
      BY <1>1, <1>7 DEF TypeOK, ClosesTask
    <2>3. /\ tasks'[t] \in EscrowTask
          /\ tasks'[t].poster = tasks[t].poster
          /\ tasks'[t].bounty = tasks[t].bounty
          /\ tasks'[t].max_slots = tasks[t].max_slots
          /\ tasks'[t].status = "Closed"
      BY <1>5, <2>2 DEF EscrowTask, TaskStatus
    <2>4. DealOf(tasks'[t]) = [DealOf(tasks[t]) EXCEPT !.open = FALSE]
      <3> DEFINE deal(open) == [poster |-> tasks[t].poster,
                                bounty |-> tasks[t].bounty,
                                size |-> tasks[t].max_slots, open |-> open]
      <3>1. (tasks'[t].status = "Open") = FALSE
        BY <2>3
      <3>2. DealOf(tasks'[t]) = deal(FALSE)
        BY <2>3, <3>1, DealOfTask
      <3>3. PICK open \in BOOLEAN : open = (tasks[t].status = "Open")
        OBVIOUS
      <3>4. DealOf(tasks[t]) = deal(tasks[t].status = "Open")
        BY <1>5, DealOfTask
      <3>5. DealOf(tasks[t]) = deal(open)
        BY <3>3, <3>4, Zenon
      <3>6. \A x : [deal(open) EXCEPT !.open = x] = deal(x)
        OBVIOUS
      <3> HIDE DEF deal
      <3> QED
        BY <3>2, <3>5, <3>6, Zenon
    <2>5. Deals!End(t)
      BY <1>1, <1>2, <1>3, <1>4, <2>1, <2>4 DEF Deals!End, Held
    <2> QED
      BY <2>5
  <1> QED
    BY <1>6, <1>7 DEF EndsTask

(* The deal shows of a task its terms and its status only.                 *)
LEMMA SameTermsSameDeal ==
    ASSUME NEW task \in EscrowTask, NEW after \in EscrowTask,
           after.poster = task.poster, after.bounty = task.bounty,
           after.max_slots = task.max_slots, after.status = task.status
    PROVE  DealOf(after) = DealOf(task)
  BY NoAccountAssumption DEF DealOf

LEMMA TakesSlotMaps ==
    ASSUME PinnedInv, [PinnedNext]_vars, NEW t \in TaskIds, NEW c \in ClaimIds,
           MovesNoMoney(t, c), TakesSlot(t, c)
    PROVE  \E party \in Users : Deals!Take(t, c, party)
  <1>1. /\ Inv0 /\ TypeOK /\ SlotAccounting /\ OnTask(t) /\ IsOpen(t)
        /\ ~ClaimExists(c)
    BY PinnedMoney DEF OnTask, TakesSlot, Inv0
  <1>2. PICK claim \in EscrowClaim :
          /\ claim.task = t
          /\ claim.claimer # tasks[t].poster
          /\ claim.status = "Enrolled"
          /\ claims' = [claims EXCEPT ![c] = claim]
    BY DEF TakesSlot
  <1>3. /\ claim.claimer \in Users
        /\ SlotOf(claim) = [deal |-> t, deliverer |-> claim.claimer,
                            outcome |-> "pending"]
    <2>1. claim.status \notin Terminal
      BY <1>2 DEF Terminal, PaidStatus, RefundedStatus
    <2> QED
      BY <1>2, <2>1, SlotOfClaim DEF EscrowClaim
  <1>4. /\ \A d \in ClaimIds \ {c} : claims'[d] = claims[d]
        /\ claims'[c] = claim
        /\ SlotOf(claims[c]) = NoAccount
    BY <1>1, <1>2 DEF TypeOK, ClaimExists, SlotOf
  <1>5. \A u \in TaskIds : DealOf(tasks'[u]) = DealOf(tasks[u])
    <2>1. DealOf(tasks'[t]) = DealOf(tasks[t])
      BY <1>1, UnpaidTask, SameTermsSameDeal
    <2> QED
      BY <1>1, <2>1, OtherTasksKept
  <1>6. \A u \in TaskIds : Held(u)' = Held(u)
    BY OnTaskNeedsConfig, <1>1 DEF MovesNoMoney, Held, Initialized, Vault
  <1>7. /\ tasks[t] \in EscrowTask /\ TaskExists(t)
        /\ Deals!Open(t) /\ Deals!SlotsOf(t) = ClaimsOf(t)
        /\ DealOf(tasks[t]).size = tasks[t].max_slots
        /\ DealOf(tasks[t]).poster = tasks[t].poster
    BY <1>1, ExistingAccounts, DealsAreTasks, DealOfTask DEF IsOpen
  <1>8. Deals!Cardinality(Deals!SlotsOf(t)) < DealOf(tasks[t]).size
    <2>1. Cardinality(ClaimsOf(t)) = tasks[t].slots_enrolled
      BY <1>1, <1>7, BooksAreSlotAccounting DEF Books
    <2> QED
      BY <1>7, <2>1, SameCardinality DEF TakesSlot
  <1>9. Deals!Take(t, c, claim.claimer)
    <2>1. UNCHANGED <<[u \in TaskIds |-> DealOf(tasks[u])],
                      [u \in TaskIds |-> IF Initialized THEN balance[Vault(u)]
                                                        ELSE 0]>>
      BY <1>5, <1>6 DEF Held
    <2>2. [d \in ClaimIds |-> SlotOf(claims[d])]'
            = [[d \in ClaimIds |-> SlotOf(claims[d])]
                 EXCEPT ![c] = SlotOf(claim)]
      BY <1>4
    <2>3. claim.claimer # DealOf(tasks[t]).poster
      BY <1>2, <1>7
    <2> QED
      BY <1>3, <1>4, <1>7, <1>8, <2>1, <2>2, <2>3 DEF Deals!Take
  <1> QED
    BY <1>3, <1>9

(* A live claim that stays live is pending before and after.               *)
LEMMA LiveClaimMaps ==
    ASSUME PinnedInv, [PinnedNext]_vars, NEW t \in TaskIds, NEW c \in ClaimIds,
           MovesNoMoney(t, c), MovesClaim(t, c, ClaimStatus \ Terminal),
           UNCHANGED tasks
    PROVE  UNCHANGED Deals!dealVars
  <1>1. TypeOK /\ claims[c] \in EscrowClaim /\ claims[c].task = t
    BY PinnedMoney, ExistingAccounts DEF Inv0, MovesClaim, ClaimOn
  <1>2. PICK claim \in EscrowClaim :
          /\ claim.task = t
          /\ claim.claimer = claims[c].claimer
          /\ claim.status \in ClaimStatus \ Terminal
          /\ claims' = [claims EXCEPT ![c] = claim]
    BY DEF MovesClaim
  <1>3. SlotOf(claim) = SlotOf(claims[c])
    <2>1. claims[c].status \notin Terminal
      BY DEF MovesClaim
    <2> QED
      BY <1>1, <1>2, <2>1, SlotOfClaim
  <1>4. SameSlots
    BY <1>1, <1>2, <1>3 DEF TypeOK, SameSlots
  <1>5. SameDeals /\ SameHeld
    BY DEF MovesNoMoney, SameDeals, SameHeld, Held, Initialized, Vault
  <1> QED
    BY <1>4, <1>5, StutterMaps

LEMMA SettlesSlotMaps ==
    ASSUME PinnedInv, [PinnedNext]_vars, NEW t \in TaskIds, NEW c \in ClaimIds,
           PaysSlot(t, c) \/ RefundsSlot(t, c)
    PROVE  \E outcome \in Deals!Outcomes : Deals!Decide(c, outcome)
  <1>1. /\ Inv0 /\ TypeOK /\ OnTask(t)
        /\ Initialized /\ UNCHANGED config
    BY PinnedMoney DEF OnTask, PaysSlot, RefundsSlot, Inv0
  <1>2. PICK statuses \in {PaidStatus, RefundedStatus} :
          MovesClaim(t, c, statuses)
    BY DEF PaysSlot, RefundsSlot
  <1>3. PICK claim \in EscrowClaim :
          /\ claim.task = t
          /\ claim.claimer = claims[c].claimer
          /\ claim.status \in statuses
          /\ claims' = [claims EXCEPT ![c] = claim]
    BY <1>2 DEF MovesClaim
  <1>4. /\ claims[c] \in EscrowClaim /\ claims[c].task = t
        /\ claims[c].status \notin Terminal
        /\ ClaimExists(c)
    BY <1>1, <1>2, ExistingAccounts DEF MovesClaim, ClaimOn
  <1>5. IsOpen(t)
    BY <1>4 DEF PinnedInv, Inv1, LiveClaimHasOpenTask
  <1>6. PICK outcome \in Deals!Outcomes : OutcomeOf(claim.status) = outcome
    <2>1. claim.status \in PaidStatus \/ claim.status \in RefundedStatus
      BY <1>2, <1>3
    <2> QED
      BY <2>1, SlotOfClaim DEF Deals!Outcomes
  <1>7. /\ SlotOf(claims[c]) = [deal |-> t, deliverer |-> claims[c].claimer,
                                outcome |-> "pending"]
        /\ SlotOf(claims[c]) # NoAccount
        /\ SlotOf(claim) = [deal |-> t, deliverer |-> claims[c].claimer,
                            outcome |-> outcome]
    BY <1>3, <1>4, <1>6, SlotOfClaim
  <1>8. SlotOf(claim) = [SlotOf(claims[c]) EXCEPT !.outcome = outcome]
    BY <1>7
  <1>9. /\ claims'[c] = claim
        /\ \A d \in ClaimIds \ {c} : claims'[d] = claims[d]
    BY <1>1, <1>3 DEF TypeOK
  <1>10. \A u \in TaskIds : DealOf(tasks'[u]) = DealOf(tasks[u])
    <2>1. DealOf(tasks'[t]) = DealOf(tasks[t])
      BY <1>1, SettledTask, SameTermsSameDeal
    <2> QED
      BY <1>1, <2>1, OtherTasksKept
  <1>11. /\ Deals!Open(t)
         /\ DealOf(tasks[t]).bounty = tasks[t].bounty
         /\ tasks[t].bounty \in Nat
    BY <1>1, <1>5, DealsAreTasks, SettledTask, DealOfTask, OwedType
  <1>12. /\ Held(t)' = Held(t) - DealOf(tasks[t]).bounty
         /\ Held(t) >= DealOf(tasks[t]).bounty
         /\ \A u \in TaskIds \ {t} : Held(u)' = Held(u)
    <2>1. balance'[Vault(t)] = balance[Vault(t)] - tasks[t].bounty
      BY <1>1, PaidAmounts, RefundedAmounts
    <2>2. balance[Vault(t)] \in Nat /\ balance'[Vault(t)] \in Nat
      <3>1. balance \in [Addresses -> Nat] /\ balance' \in [Addresses -> Nat]
        BY <1>1, PinnedStepIsStep, TypeStep DEF TypeOK, Addresses
      <3> QED
        BY <1>1, <3>1, PinnedAddresses
    <2> QED
      BY <1>1, <1>11, <2>1, <2>2, HeldPinned, HeldElsewhere
  <1>13. Deals!Decide(c, outcome)
    <2>1. SlotOf(claims[c]).deal = t /\ SlotOf(claims[c]).outcome = "pending"
      BY <1>7
    <2> QED
      BY <1>7, <1>8, <1>9, <1>10, <1>11, <1>12, <2>1 DEF Deals!Decide, Held
  <1> QED
    BY <1>13

LEMMA SameBooksSameDeals ==
    ASSUME SameBooks
    PROVE  SameDeals /\ SameSlots
  BY DEF SameBooks, SameDeals, SameSlots

(* A transfer that reaches the pinned vault of a task finds it open.       *)
LEMMA PlainTransferMaps ==
    ASSUME NoStrayVaults, PinnedInv, [PinnedNext]_vars, PlainTransfer
    PROVE  (\E t \in TaskIds : Deals!Give(t)) \/ UNCHANGED Deals!dealVars
  <1>1. /\ Inv0 /\ TypeOK /\ SameDeals /\ SameSlots /\ UNCHANGED config
        /\ UNCHANGED tasks
    BY PinnedMoney, SameBooksSameDeals DEF PlainTransfer, Inv0, SameBooks
  <1>2. PICK m \in Mints, n \in Mints, h \in Holders \ TaskIds, k \in Holders,
             amount \in Nat : Transfer(ATA(m, h), ATA(n, k), amount)
    BY DEF PlainTransfer
  <1> DEFINE from == ATA(m, h)
             to   == ATA(n, k)
  <1>3. /\ balance \in [Addresses -> Nat]
        /\ from \in Addresses /\ to \in Addresses
        /\ \A a \in Addresses \ {from, to} : balance'[a] = balance[a]
        /\ to \in accounts
    BY <1>1, <1>2, AtaType, TypeOKLedger, MovedElsewhere
    DEF LedgerOK, Transfer, CanTransfer
  <1>4. ASSUME NEW t \in TaskIds, ~(Initialized /\ Vault(t) = to)
        PROVE  Held(t)' = Held(t)
    <2>1. CASE Initialized
      <3>1. Vault(t) \in Addresses /\ Vault(t) # from
        BY <1>1, <2>1, PinnedAddresses DEF Vault, ATA
      <3> QED
        BY <1>1, <1>3, <1>4, <2>1, <3>1, HeldPinned
    <2>2. CASE ~Initialized
      BY <1>1, <2>2 DEF Held, Initialized
    <2> QED
      BY <2>1, <2>2
  <1>5. CASE \A t \in TaskIds : Held(t)' = Held(t)
    BY <1>1, <1>5, StutterMaps DEF SameHeld
  <1>6. ASSUME NEW t \in TaskIds, Held(t)' # Held(t)
        PROVE  Deals!Give(t)
    <2>1. Initialized /\ Vault(t) = to
      BY <1>4, <1>6
    <2>2. config.usdc_mint \in Mints /\ Vault(t) = ATA(config.usdc_mint, t)
      BY <1>1, <2>1, PinnedMint DEF Vault
    <2>3. Vault(t) \in accounts
      BY <1>3, <2>1
    <2>4. IsOpen(t)
      BY <2>2, <2>3, UnopenedVaultIsEmpty
    <2>5. Deals!Open(t)
      BY <1>1, <2>4, DealsAreTasks
    <2>6. Held(t)' > Held(t)
      <3>1. /\ balance'[Vault(t)] >= balance[Vault(t)]
            /\ Held(t) = balance[Vault(t)] /\ Held(t)' = balance'[Vault(t)]
        BY <1>1, <2>1, <2>2, PlainTransferVaults, HeldPinned
      <3>2. balance[Vault(t)] \in Nat /\ balance'[Vault(t)] \in Nat
        <4>1. balance' \in [Addresses -> Nat]
          BY <1>1, PinnedStepIsStep, TypeStep DEF TypeOK, Addresses
        <4> QED
          BY <1>3, <2>1, <4>1
      <3> QED
        BY <1>6, <3>1, <3>2
    <2>7. \A u \in TaskIds \ {t} : Held(u)' = Held(u)
      <3>1. \A u \in TaskIds \ {t} : Vault(u) # to
        BY <2>1 DEF Vault, ATA
      <3> QED
        BY <1>4, <3>1
    <2>8. UNCHANGED <<[u \in TaskIds |-> DealOf(tasks[u])],
                      [c \in ClaimIds |-> SlotOf(claims[c])]>>
      BY <1>1 DEF SameDeals, SameSlots
    <2> QED
      BY <2>5, <2>6, <2>7, <2>8 DEF Deals!Give, Held
  <1> QED
    BY <1>5, <1>6

(* Settings and time: a vault that changes with the mint holds nothing.    *)
LEMMA NoBusinessMaps ==
    ASSUME NoStrayVaults, PinnedInv, PinnedInv', [PinnedNext]_vars, NoBusiness
    PROVE  UNCHANGED Deals!dealVars
  <1>1. SameDeals /\ SameSlots /\ UNCHANGED tasks /\ UNCHANGED balance
    BY SameBooksSameDeals DEF NoBusiness, SameBooks
  <1>2. ASSUME NEW t \in TaskIds
        PROVE  Held(t)' = Held(t)
    <2>1. CASE IsOpen(t)
      <3>1. /\ Initialized /\ Initialized'
            /\ Vault(t)' = Vault(t)
        BY <2>1, OpenTaskKeepsMint DEF NoBusiness
      <3> QED
        BY <1>1, <3>1 DEF Held
    <2>2. CASE ~IsOpen(t)
      <3>1. ~IsOpen(t)'
        BY <1>1, <2>2 DEF IsOpen, TaskExists
      <3>2. Held(t) = 0
        BY <2>2, HeldUnopened
      <3>3. Held(t)' = 0
        BY <3>1, UnopenedIsEmptyNext DEF NoStrayVaults
      <3> QED
        BY <3>2, <3>3
    <2> QED
      BY <2>1, <2>2
  <1> QED
    BY <1>1, <1>2, StutterMaps DEF SameHeld

-----------------------------------------------------------------------------
LEMMA InitMaps ==
    ASSUME Init
    PROVE  Deals!Init
  BY DEF Init, Deals!Init, DealOf, SlotOf, Initialized

LEMMA StepMaps ==
    ASSUME NoStrayVaults, PinnedInv, PinnedInv', [PinnedNext]_vars
    PROVE  [Deals!Next]_(Deals!dealVars)
  <1>1. MoneyStep
    BY PinnedMoney
  <1>2. ASSUME NEW t \in TaskIds, OnTask(t)
        PROVE  [Deals!Next]_(Deals!dealVars)
    <2>1. CASE FundsVault(t)
      BY <2>1, FundsVaultMaps DEF Deals!Next
    <2>2. CASE EndsTask(t)
      BY <2>2, EndsTaskMaps DEF Deals!Next
    <2>3. ASSUME NEW c \in ClaimIds, MovesNoMoney(t, c)
          PROVE  [Deals!Next]_(Deals!dealVars)
      BY <2>3, TakesSlotMaps, LiveClaimMaps DEF MovesNoMoney, Deals!Next
    <2>4. ASSUME NEW c \in ClaimIds, PaysSlot(t, c) \/ RefundsSlot(t, c)
          PROVE  [Deals!Next]_(Deals!dealVars)
      BY <2>4, SettlesSlotMaps DEF Deals!Next
    <2> QED
      BY <1>2, <2>1, <2>2, <2>3, <2>4 DEF OnTask
  <1>3. CASE PlainTransfer
    BY <1>3, PlainTransferMaps DEF Deals!Next
  <1>4. CASE NoBusiness
    BY <1>4, NoBusinessMaps
  <1> QED
    BY <1>1, <1>2, <1>3, <1>4 DEF MoneyStep

(* Every run of the program is a run of the abstract escrow: a slot is     *)
(* decided once, while its deal is open and for one bounty out of what is  *)
(* held for it, and a deal ends or is withdrawn with no slot undecided.    *)
THEOREM EscrowImplementsDeals ==
    ASSUME NoStrayVaults
    PROVE  PinnedSpec => RefinesDeals
  <1>1. Init => Deals!Init
    BY InitMaps
  <1>2. PinnedInv /\ PinnedInv' /\ [PinnedNext]_vars
          => [Deals!Next]_(Deals!dealVars)
    BY StepMaps
  <1> QED
    BY <1>1, <1>2, PinnedSpecInv, PTL
    DEF PinnedSpec, PinnedNext, RefinesDeals, Deals!Spec
=============================================================================
