# Clustly escrow: specification and proofs

TLA+ specification of the Solana program in `src/programs/clustly-escrow`: an
escrow in which a poster funds a task of up to 100 slots, deliverers enroll and
submit work, and each slot's bounty ends with the deliverer (less a fee) or
with the poster. TLC checks small instances of it; TLAPS proves what TLC checks
of it for every instance. What is said with ENABLED and WF is proved in an
equivalent or weaker form that section 4 spells out.

## 1. The system

| Component | Code | State | Operations |
|---|---|---|---|
| Config | `instructions/config.rs` | `EscrowConfig` singleton: admin, pinned mint, fee | `initialize_config` (anyone, once), `update_admin`, `update_fee`, `update_mint` (admin) |
| Task lifecycle | `instructions/task.rs` | `EscrowTask` per task id, its vault | `initialize_task`, `cancel_before_enroll`, `close_task`, `auto_cancel_task` |
| Claim lifecycle | `instructions/claim.rs` | `EscrowClaim` per claim id; counters of the task | `enroll`, `submit`, `approve_claim`, `reject_claim`, `auto_approve` |
| Dispute | `instructions/dispute.rs` | the same claim and task | `open_dispute`, `resolve_dispute`, `auto_resolve_dispute` |
| Fees | `instructions/fees.rs` | fee vault | `withdraw_fees` |
| Types and arithmetic | `state.rs` | - | `compute_fee_split`, `is_terminal`, constants |
| Dispatch | `lib.rs` | - | the seventeen entry points |
| Token programs (external) | CPIs | token accounts and balances | transfer, close, create |
| Cranks (external) | `docs/wiring-plan.md` | - | call the permissionless instructions when due |

How they interact. There is no message passing and no process of the program's
own: any signer may send any instruction at any time, and instructions of
different signers interleave in any order. They meet in shared accounts. A
*task* carries three counters (`slots_enrolled`, `slots_approved`,
`slots_refunded`) that claim and dispute handlers advance and that `close_task`
and the two cancels decide on; no handler looks at a task's claims. A *vault* is
shared by all slots of a task. The *config* is read by every paying handler at
the moment it pays: the vault, the payees' accounts and the fee vault are all
derived from the mint it pins then, and the fee is the one it holds then.

What is hard: races of the poster, the admin and the permissionless cranks on
one claim; handlers that never read the task's status and rely on others having
kept the task open; task ids that can be cancelled and used again by someone
else; settings that change between funding and payout; arithmetic at the end of
64 bits; waits that only a crank can end. `PROJECT.json` lists each such hazard
at its line, with the properties aimed at it.

What makes each component correct:

- *Config*: changing a setting never takes money out of a vault, nor leaves a
  vault short.
- *Task*: terms are fixed from the first enrolment; a task ends only when every
  claim is settled; ending it returns everything the vault holds.
- *Claim*: counters and claims agree; a slot is paid or refunded once, whole;
  a settled claim is final; review ends.
- *Dispute*: only a rejected claim, once; one outcome; disputes end.
- *Arithmetic*: net and fee add up to the bounty and the fee is the floor.

## 2. Modules

| Module | Models |
|---|---|
| `FeeMath` | constants and `compute_fee_split`, with the cut to 64 bits |
| `TokenLedger` | the token operations the handlers call: `accounts` (which token accounts exist) and `balance` |
| `EscrowState` | the account types, the state variables `config`, `tasks`, `claims`, `now`, and what handlers share: payout, refund, the two elapsed-time tests |
| `ConfigIx`, `TaskIx`, `ClaimIx`, `DisputeIx`, `FeesIx` | one action per instruction, in the file of the same name |
| `Escrow` | the composition: arguments, `Init`, `Next`, `Spec`, the environment (clock, outside accounts, donations), and `PinnedSpec` in which the admin follows the comment at `config.rs:103-107` |
| `EscrowProperties` | type invariant, safety invariants, action properties |
| `AbstractEscrow` | what the escrow promises, with no counters, clock, token accounts or roles: deals, slots, and the money held |
| `EscrowRefinement` | the mapping under which `Escrow` implements `AbstractEscrow` |
| `EscrowHistory` | `Escrow` with two history variables: when each claim last began to wait on someone, and what each task has cost |
| `EscrowLiveness` | fairness and what must eventually happen |
| `MCFeeMath`, `MCEscrow`, `MCEscrowHistory`, `MCEscrowLiveness` | instances for TLC |
| `FeeMathProofs`, `MCFeeMathProofs` | theorems about the fee arithmetic, and about the run's own specification |
| `EscrowProofs`, `EscrowSlotProofs` | types, histories and lives of claims, counters, frozen terms |
| `EscrowMoneyProofs` | what each step does to the vaults; coverage, payouts, settlements |
| `EscrowPinnedProofs` | what follows when the admin keeps to the rule on the mint: covered vaults, what goes through, what is decided in the end |
| `EscrowRefinementProofs` | `Escrow` implements `AbstractEscrow` |
| `EscrowHistoryProofs` | whole windows, and what a task costs |

`EscrowState` EXTENDS `FeeMath` and `TokenLedger`; the five `*Ix` modules extend
`EscrowState`; `Escrow` extends all five; the rest build on `Escrow`, but for
`AbstractEscrow`, which stands alone and is instantiated by `EscrowRefinement`.

### From the code to the model

- **One instruction is one action.** Solana runs instructions on one account
  one after the other, and a failing `require!`, constraint or CPI reverts the
  whole instruction. So everything that can make a handler fail is a conjunct of
  its action's guard: `has_one`, seeds and mint constraints, the existence of
  each account it lists, and sufficient balance at each transfer, in order.
- **Accounts.** `tasks[t]` and `claims[c]` are records with the fields of
  `state.rs`, or `NoAccount`. `cancel_before_enroll` sets the task back to
  `NoAccount` (`close = poster`) and frees its id; `close_task` and
  `auto_cancel_task` only set the status, as the code does. Claims are never
  closed.
- **Token accounts** are named by mint and authority. Where a constraint accepts
  any account with that mint and authority, the associated one stands for all of
  them. A balance in an account that does not exist is 0.
- **PDAs.** A task's vault authority is the task; a task id names one PDA. That no
  user's key is a PDA is `HolderAssumption`.
- **Arithmetic.** Amounts are natural numbers with the width checks where the
  code has them: `checked_mul` in `initialize_task`, the product in `u128` and
  the cast to `u64` in `compute_fee_split`. `U64_MAX` is a constant, scaled down
  in the runs and arbitrary in the proofs. The `checked_add`s on counters cannot
  overflow below the slot limit of 100 and are plain additions.
- **Time.** `now` is the clock sysvar; `Tick` is external. Windows are constants.
- **Handlers with two outcomes** (`reject_claim` below and at the cap,
  `resolve_dispute` for either side) have one disjunct for each.
- **Left out of the data:** rent, bumps, reserved bytes, the deliverable hash,
  log messages, which error code is returned.
- **Environment.** Anyone may create a token account (`CreateAta`) or send tokens
  to a vault (`Donate`); an owner may close his own empty account (`CloseAta`).

### The abstract escrow

`AbstractEscrow` has three variables. A *deal* has a poster, a bounty, a size
and is open or not; a *slot* belongs to a deal and a deliverer and is pending,
paid or returned; `held` is the money in trust for each deal. Its steps: fund a
deal with all its slots can cost, withdraw one nobody has taken a slot of, take
a slot, decide a slot for one bounty out of its own deal, give money to a deal,
end a deal with every slot decided. The mapping is short: a task without its
counters and deadlines is a deal; a claim without rejections and stamps is a
slot, whose outcome is read off the status; `held` is the balance of the vault
in reach. Submitting, rejecting for rework, disputing, settings, withdrawals and
the clock are stutters. What the refinement says is that all of the machinery
the abstract escrow does not have - three saturating counters, eight statuses,
two windows, cranks by anyone, token accounts - decides as if the task looked
at its claims.

### The history

`pending_since` is set when a claim's status becomes Submitted or Disputed,
whatever the handler writes in `submitted_at` and `disputed_at`. `cost` is what
went into the task's vault less what its poster got back out of it, read off
the balances, whichever handler moved the money. Neither constrains a step.

Operators marked *Mutant* in comments are plausible slips of the same code. No
action uses them; they serve to see that a property can fail.

## 3. What is checked

Invariants of every reachable state:

- `TypeOK` - the Rust types.
- `SlotAccounting` - the three counters are the numbers of the task's claims, of
  the paid and of the refunded ones; a task that does not exist has no claims.
- `LiveClaimHasOpenTask` - an unsettled claim's task is open.
- `ClaimHistory` - status, rejection count and the three stamps are consistent.
- `ClaimerIsNotPoster` - for as long as the claim exists.
- `VaultCoversOpenSlots`, `PinnedVaultCoversOpenSlots` - an open task's vault
  holds a bounty for every slot not yet settled.
- `DoneTaskHoldsNothing` - an ended task leaves no tokens.
- `PosterPaysApprovedSlots` - over the whole life of a task, over donations and
  id reuse, what went in and did not come back is the approved bounties, plus
  what is still in the vault.
- `OnlyAccountsBlock` - a decision that is due, `resolve_dispute` included, is
  enabled unless a token account it pays to, or lists, is missing. It says that no vault, counter or status can
  be in the way.

Properties of every step:

- `FullWindow` - a crank decides a claim no sooner than a whole window after its
  latest submission or its dispute.
- `VaultPaysSlotOrRefund` - a vault loses one bounty, as exactly one claim of its
  task settles, or everything, as the task ends with every claim settled.
- `SettlementSplitsBounty` - the bounty reaches the right party whole.
- `SettledClaimsFrozen`, `TermsFrozenOnceEnrolled`.
- `ClaimsMoveOn` - whatever changes a claim brings it nearer to its outcome:
  `Progress` runs from 0 (Enrolled) over two stages for each rejection to 6
  (Disputed) and 7 (settled), so a claim takes at most seven calls.
- `DueStaysDue` - while a claim stays as it is, nothing makes a crank that is due
  on it less due: not the other slots of its vault, not a closing, the settings,
  a donation or time.

Properties of behaviours: `ReviewEnds`, `DisputeEnds`, `DiligentRelease`, and the
refinement `RefinesDeals`.

### Runs

| Run | Instance | What it shows |
|---|---|---|
| `lifecycle` | one task with two slots, two claims, time 1..4, windows 1 and 2, deadline 2, poster's and worker's token accounts closed and reopened | counters, task and claims agree through every order of review, rejection, dispute, cranks and closing; no window is cut short; no claim goes round in circles; only missing accounts block what is due |
| `isolation` | two task ids, two posters, two claims, rejected arguments (0 slots, 101 slots, bounty 0, an overflowing total) | no cross-talk between tasks and claims, reused ids included; with tasks open side by side the program implements `AbstractEscrow` |
| `fees` | fees of 3%, 5% and one above the cap, two admins, donations, withdrawals, two slots, windows 1, deadline 2, time 1..2 | every settlement splits its bounty correctly, and a crank that is due stays due, whatever the admin does in between |
| `mint_flip` | two mints, flips at any moment, stray funded accounts of the second mint, an overflowing total of 4 * 20 > 63, windows 1, deadline 2, time 1..2 | some vault of each open task still covers it |
| `pinned_mint` | two tasks, two mints, flips only while no task is open, donations, one user both poster and admin, windows 1, deadline 2, time 1..2 | the vault in reach covers each open task, ended tasks are empty, a poster pays for approved slots only, a vault pays one settled slot or the final refund, and the program implements `AbstractEscrow` |
| `fee_math` | every bounty up to 4095 = `U64_MAX`, fees around 0, 400 and the cap | the split is exact also where the product exceeds the word |
| `liveness` | one task with two slots, fair cranks, everyone else may fall silent, the poster may close and reopen his token account | reviews and disputes end; with deliverers who keep going and an account to refund to, the task ends too |

Five more runs check one property each, which a document or comment states and
the program does not keep; TLC finds the counterexample.

| Run | Statement | What happens |
|---|---|---|
| `fee_documented` | `overview.md:181-182` rounds the net down | `state.rs:138` rounds the fee down; they differ by one unit |
| `stuck_escrow` | `overview.md:23`, funds cannot get stuck after the deadline | a claim that stays Enrolled (or Rejected) on one of two slots keeps `close_task` disabled for ever, and the free slot's bounty with it |
| `rent_reclaimed` | `README.md:50`, `close_task` returns the task account's rent | the task account stays allocated |
| `submission_window` | `overview.md:146`, `claim_deadline_secs` is the time to submit | no handler reads it |
| `claimer_account` | `claim.rs:183-186`, enrolling created the payout account; `overview.md:16`, `approve_claim` creates it if it is missing | `enroll` takes a mint that no constraint ties to the config, and `approve_claim` expects the account of the pinned mint to exist |

### Bounds, and why they are enough

- *Users* 2 or 3: the roles are poster, admin, deliverer and stranger, and the
  admin or the poster also acts as deliverer or stranger where the code lets him.
- *Tasks* 1 or 2, *claims* 2: handlers touch one task and one claim, so what can
  go wrong between them shows with a second one. Two claims on a two-slot task
  reach every combination of outcomes, including one settled and one live.
- *Bounties* of 20, 30 or 40 units with 5% fee give a fee of 1 or 2, so that the
  fee transfer is not empty; 30 at 3% gives a fee of zero. `U64_MAX` = 63 lets a
  legal argument overflow the total.
- *Windows* of 1 and 2, `MaxTime` 2 to 4: handlers compare differences with a
  window. `lifecycle` has states one tick before, at and past each window; the
  runs about money only need windows and deadlines that have and have not
  elapsed, one tick apart.
- `MaxTime` 12 in the liveness run is above every time at which a timer can be
  running (each claim is reviewed at most three times and disputed once), so it
  cuts off no behaviour; `TimedNext` stops the clock only while no timer is
  running (`TimerRunning`), when no time test of a handler could turn out otherwise.
- *Out-of-band accounts* in `pinned_mint` are the second mint's fee vault, as the
  comment asks. An account of a task's own vault address created from outside
  in another mint could hold donations after the task ended, so
  `DoneTaskHoldsNothing` and `RefinesDeals` are about the instances without one;
  `mint_flip` has such an account.
- *Symmetry* of claim ids is used in `isolation`, `fees`, `mint_flip` and
  `pinned_mint`, which have no liveness property: nothing orders claim ids. In
  `isolation` and `pinned_mint`, where no constant names a task, task ids are
  interchangeable as well.
- *Money* in `isolation` (40 for each of two posters) lets one poster have two
  tasks of one slot open, or two posters one each of either size.

### Fairness

The program runs nothing by itself. `CrankFairness` is weak fairness of the
clock and of the permissionless cranks: `wiring-plan.md:139-141` has an hourly
job call `auto_approve`, `auto_cancel_task` and `auto_resolve_dispute` on
whatever is due, and `overview.md:231` has anyone call `close_task` after the
deadline. Weak fairness is enough because a crank on a claim, once due, stays due
until the same claim is decided, which `DueStaysDue` states, `fees` checks
and `DueCranksStayDue` proves for the pinned mint; only a missing account of a payee can still be in
its way. Poster and admin are assumed to do
nothing. `DiligentRelease` alone also supposes that deliverers hand in what they
enrolled for and answer a rejection, which `stuck_escrow` shows to be needed,
and that the poster has, from some time on, the account his refund goes to.
Reviews and disputes end without that, although the poster closes his account:
neither crank asks for it. The deliverer's account does have to stay. He opens
it when he enrolls and the instance does not let him close it: a deliverer who
did would wait for his own payout, and `OnlyAccountsBlock` shows that nothing
else keeps him waiting. The instance has one mint; `claimer_account` shows which
account may be missing from the start with two.

## 4. What is proved

For all users, task ids, mints, arguments, windows and word sizes, and any
finite set of claim ids. What is assumed of them is in the named `ASSUME`s, which
TLC evaluates in the runs:

| Assumption | Says |
|---|---|
| `U64Assumption`, `WindowAssumption`, `InputAssumption` | numbers are numbers, and constants that are sets of accounts are of the right kind |
| `HolderAssumption` | users, tasks and the config are different authorities: no key is a PDA, no PDA is two |
| `FiniteClaims` | there are finitely many claim ids (they are 128-bit) |
| `NoAccountAssumption`, `NoDealAssumption` | the null of an absent account is no account, no deal and no slot |
| `FeeInputAssumption` | the fees of the arithmetic run are below the cap, as `config.rs` requires |

| Theorem | Module |
|---|---|
| `FeeSplitIsExact` - the split adds up, the fee is the floor, the checked subtraction never fails | `FeeMathProofs` |
| `EverySplitIsExact` - `Spec => []SplitIsExact` of `MCFeeMath` | `MCFeeMathProofs` |
| `TypeCorrect` - `Spec => []TypeOK` | `EscrowProofs` |
| `ClaimHistoryCorrect` - `Spec => []ClaimHistory` | `EscrowProofs` |
| `SlotAccountingCorrect` - `Spec => []SlotAccounting` | `EscrowSlotProofs` |
| `LiveClaimsKeepTheirTask` - `Spec => []LiveClaimHasOpenTask` | `EscrowSlotProofs` |
| `NobodyWorksForHimself` - `Spec => []ClaimerIsNotPoster` | `EscrowSlotProofs` |
| `SettledClaimsStayFrozen` - `Spec => SettledClaimsFrozen` | `EscrowSlotProofs` |
| `TermsStayFrozen` - `Spec => TermsFrozenOnceEnrolled` | `EscrowSlotProofs` |
| `ClaimsAlwaysMoveOn` - `Spec => ClaimsMoveOn` | `EscrowSlotProofs` |
| `VaultsCoverOpenSlots` - `Spec => []VaultCoversOpenSlots` | `EscrowMoneyProofs` |
| `VaultsPaySlotsOrRefunds` - `Spec => VaultPaysSlotOrRefund` | `EscrowMoneyProofs` |
| `SettlementsSplitTheBounty` - `Spec => SettlementSplitsBounty` | `EscrowMoneyProofs` |
| `PinnedVaultsCoverOpenSlots` - `PinnedSpec => []PinnedVaultCoversOpenSlots` | `EscrowPinnedProofs` |
| `VaultsBlockNothing` - `PinnedSpec => []VaultBlocksNothing` | `EscrowPinnedProofs` |
| `DueCranksStayDue` - `PinnedSpec => DueStaysDue` | `EscrowPinnedProofs` |
| `ReviewsGoThrough`, `DisputesGoThrough`, `ClosingsGoThrough` - what `OnlyAccountsBlock` says, with the successor state written out | `EscrowPinnedProofs` |
| `ReviewsEnd` - `PinnedSpec /\ DecisionAssumptions => ReviewEnds` | `EscrowPinnedProofs` |
| `DisputesEnd` - `PinnedSpec /\ DecisionAssumptions => DisputeEnds` | `EscrowPinnedProofs` |
| `ClaimIsSettled` - with a deliverer who goes on as well, every claim comes to its outcome | `EscrowPinnedProofs` |
| `DoneTasksHoldNothing` - `PinnedSpec => []DoneTaskHoldsNothing`, given `NoStrayVaults` | `EscrowPinnedProofs` |
| `EscrowImplementsDeals` - `PinnedSpec => RefinesDeals`, given `NoStrayVaults` | `EscrowRefinementProofs` |
| `WindowsAreFull` - `HistorySpec => FullWindow` | `EscrowHistoryProofs` |
| `PostersPayApprovedSlots` - `PinnedHistorySpec => []PosterPaysApprovedSlots`, given `NoStrayVaults` | `EscrowHistoryProofs` |

Two hypotheses are about people rather than about the program. `MintFlipRule`,
in the specifications called Pinned, is the rule the comment at
`config.rs:103-107` gives the admin. `NoStrayVaults` says that nobody makes a
token account for a task's address outside the program. Anyone may on Solana,
and nothing in the code prevents it, so it is a hypothesis of three theorems
and no assumption of the model. It is needed: with `OutOfBandAtas <- MCStrayAtas`
in place of `MCSecondFeeVault`, TLC refutes `DoneTaskHoldsNothing` and
`PosterPaysApprovedSlots` at depth five, by a donation to the account of a task
that is not there. Coverage, payouts, settlements and windows need no such thing.

### The argument

1. *Arithmetic.* `FeeSplitIsExact` bounds net and fee. It gives that the fee is
   still in the vault after the net has left it, hence that no balance becomes
   negative (`PayDelivererType`).
2. *Effects.* `TypeOK` alone is not inductive: the rejection count stays below its
   cap only because a claim at the cap is Cancelled and never reviewed again,
   which `ClaimHistory` says. `Inv0 == TypeOK /\ ClaimHistory` is inductive. Under
   it every instruction has one of a few effects on tasks and claims (`Effect`:
   a task is funded, removed or closed, a claim takes a slot, or a claim moves
   with or without a settled slot), and leaves the ledger well-typed (`NextStep`).
   `SettledClaimsFrozen` and `TermsFrozenOnceEnrolled` follow from the effects.
   What a step writes to a claim is one of five things (`NextWrites`): the claim
   is born, handed in, contested, turned down or decided. `ClaimsMoveOn` goes
   through the five, and needs `ClaimHistory` for the number of rejections.
3. *Slots.* `Inv1 == Inv0 /\ SlotAccounting /\ LiveClaimHasOpenTask /\
   ClaimerIsNotPoster` is inductive over effects. The point is
   `NoActiveSlotNoLiveClaim`: paid and refunded claims are disjoint subsets of
   the task's claims; when the counters leave no active slot, the two
   together are as many as all of them, so they are all of them, and closing the
   task orphans no live claim. That enrolled counters equal the claims is what
   keeps `cancel_before_enroll` from removing a task with claims, and so what
   keeps a reused id from inheriting any.
4. *Money.* `NextMoney` reduces the seventeen instructions and the environment to
   seven effects that also say which balances change: a vault is funded, drained
   as its task ends, pays a slot, refunds a slot, or is left alone by a claim's
   other moves, by a transfer between accounts that pays out of no vault, and by
   the rest. `PaidAmounts`, `RefundedAmounts`, `EndedAmounts` and `FundedAmounts`
   give the balances after each; `VaultAddresses` keeps accounts of different
   holders apart. `Inv1 /\ VaultCoversOpenSlots` is then inductive: a settled slot
   lowers the debt by exactly the bounty that leaves the vault, and every other
   vault of every mint keeps its money. A payout under a flipped mint comes out
   of another vault; the debt falls all the same and the funded one still covers
   it, which is why the invariant says *some* vault. The two action properties
   need `SlotAccounting` at one place, that a vault is drained only with every
   claim settled (`EndedClaimsSettled`).
5. *The pinned mint.* That it is the vault in reach that covers the task is not
   inductive by itself. `PinnedInv` adds to `Inv1` that tasks come after the
   config (`TasksHaveConfig`; else there is no vault to speak of), and that a vault
   nobody but the program can have made is the vault of an open task in the
   pinned mint (`ProgramVaultsOpen`): a task drops its only vault in the step in
   which it ends, and the mint cannot be flipped away from it before. With
   `NoStrayVaults`, every other vault is absent and so empty, which is
   `DoneTaskHoldsNothing`. Coverage and slot accounting together give
   `VaultsBlockNothing`: a live claim is one of the slots still owed
   (`LiveSlotIsOwed`), so its bounty is in the vault (`LiveClaimIsCovered`). That
   holds of every reachable state, which is why `DueStaysDue` needs no look at the
   step that is taken but for the clock, which does not go back, and the claim,
   which does not change.
6. *What goes through, and what ends.* The prover has no ENABLED. The three
   `...GoThrough` theorems say the same without it: `AfterPayout`,
   `AfterRejection` and `AfterClosing` give every primed variable a value computed
   from the unprimed ones, so a successor with these values exists, and the step to
   it is shown to satisfy the handler's action. What is left as a condition is the
   existence of the accounts it pays to or lists. For liveness, weak fairness is
   stated with that condition in the place of ENABLED (`CrankHeeded`: if a claim is
   expired and payable from some time on, its crank is called). `ExpiredGoesThrough`
   shows that this state implies ENABLED, so WF of the cranks implies
   `CrankHeeded`. Then `ReviewsEnd` and `DisputesEnd` are propositional: an expired
   claim stays expired until it is decided (`ExpiredUntilDecided`, from
   `DueStaysDue`), so the crank's time comes, and its step decides
   (`CrankDecides`). `ClaimIsSettled` walks the seven steps of `Progress` in this
   way; that nobody goes back (`ClaimsMoveOn`) makes the walk end.
7. *Refinement.* Initial states map to initial states (`InitMaps`), and `StepMaps`
   takes the effects one by one: funding is `Fund`, and needs that the new vault
   was empty and other deals keep what is held for them; ending a task is
   `Withdraw` if its claims are none and the task goes away, else `End`, and needs
   that equal counters mean decided slots; enrolling is `Take`, and needs that
   the counter compared with `max_slots` is the number of slots taken; a payout or
   a refund is `Decide`, for one bounty, and needs `LiveClaimHasOpenTask`, as the
   dispute handlers never read the task's status; a donation is `Give`; all else
   changes nothing the abstract escrow speaks of.
8. *History.* `WaitIsStamped` - a claim that waits is stamped with the time it
   began to - is inductive with `Inv0`, by the five ways to write a claim, and `FullWindow` follows from the guards.
   `PosterPaysApprovedSlots` is inductive with `PinnedInv`: each effect adds to
   both sides the same amount, and what `close_task` pays back is all that the
   vault held.

TLC checked the added parts of the invariants (`TasksHaveConfig`,
`ProgramVaultsOpen`, `WaitIsStamped`) on the instance of `pinned_mint` before
they were proved.

### Only model-checked

- `DiligentRelease`, and the liveness properties in terms of WF. The theorems
  `ReviewsEnd`, `DisputesEnd` and `ClaimIsSettled` suppose, besides the cranks,
  that no window stays open for ever (`WindowRunsOut`). To derive it from ticks
  that keep coming takes an induction over time, and to go from each claim being
  settled to a task being released takes one over its claims; the library's
  induction rules are out of the installed provers' reach. TLC has both in the run
  `liveness`, where `LiveSpec` is fair by WF and the clock is `Tick`.
- `OnlyAccountsBlock` as it stands, since it speaks of ENABLED. `VaultsBlockNothing`
  and the `...GoThrough` theorems prove what it means, under the pinned mint.
- That those statements of the documents fail: a counterexample is all there
  is to it.

## 5. Not modelled

- Lamports and rent, beyond whether an account exists.
- Token delegates and frozen accounts: the program neither uses nor checks them.
- Owners moving their own tokens about, other than into a vault.
- Two token accounts of one mint and one authority.
- Error codes (`errors.rs`), `from_u8` of bytes the program never writes, Anchor's
  decoding of accounts and arguments.
- The scripts and tests (clients of the program), and the web application and
  database of `docs/wiring-plan.md`, which are not in this repository.

## 6. State of the project, and what could follow

Done: the ledger, the state, the five instruction modules and their composition;
safety, liveness and history; the abstract escrow; every safety invariant but the
one with ENABLED, every action property and the refinement proved for all
instances; that one, and the end of reviews and disputes, proved in the form the
prover can state.

Could follow: the fee vault has no property of its own. What it gained is the fees
of the approved slots and what was sent to it, less what the admins withdrew; a
third history variable would say so, with the same argument as `cost`.
