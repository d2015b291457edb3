---------------------------- MODULE EscrowState ----------------------------
(***************************************************************************)
(* The accounts of the escrow program (state.rs) and what its handlers     *)
(* share: account types, the token accounts they derive, the two elapsed-  *)
(* time tests, and the two ways a slot's bounty leaves a vault.            *)
(*                                                                         *)
(* A Solana instruction is atomic: a failing require!, constraint or CPI   *)
(* reverts all of it.  So every handler is one action, and everything that *)
(* can make it fail is a conjunct of its guard.                            *)
(***************************************************************************)
EXTENDS FeeMath, TokenLedger

CONSTANTS Users,       \* keys that can sign
          TaskIds,     \* task PDAs, one per task_id
          ClaimIds,    \* claim PDAs, one per claim_id
          Mints,       \* SPL mints
          ConfigPda,   \* the config PDA, authority of the fee vaults
          NoAccount,   \* an address with no account allocated
          AUTO_APPROVE_WINDOW_SECS,
          AUTO_DISPUTE_WINDOW_SECS

VARIABLES config,      \* the EscrowConfig singleton
          tasks,       \* task_id -> EscrowTask
          claims,      \* claim_id -> EscrowClaim
          now          \* Clock::get()?.unix_timestamp

vars == <<config, tasks, claims, accounts, balance, now>>

Holders == Users \cup TaskIds \cup {ConfigPda}

(* Program-derived addresses are off the curve: no user is one of them.    *)
ASSUME HolderAssumption ==
    /\ Users \cap TaskIds = {}
    /\ ConfigPda \notin Users \cup TaskIds

ASSUME WindowAssumption ==
    /\ AUTO_APPROVE_WINDOW_SECS \in Nat \ {0}
    /\ AUTO_DISPUTE_WINDOW_SECS \in Nat \ {0}

ASSUME FiniteClaims == IsFiniteSet(ClaimIds)

MAX_REJECTIONS  == 3
MAX_SLOTS_LIMIT == 100

TaskStatus  == {"Open", "Closed"}
PaidStatus  == {"Approved", "ResolvedDeliverer"}
RefundedStatus == {"Cancelled", "ResolvedPoster"}
Terminal    == PaidStatus \cup RefundedStatus       \* is_terminal
ClaimStatus == {"Enrolled", "Submitted", "Rejected", "Disputed"} \cup Terminal

EscrowConfig == [admin : Users, usdc_mint : Mints, fee_bps : 0 .. FEE_BPS_CAP]

(* claim_deadline_secs is stored by initialize_task and read by nobody.    *)
EscrowTask ==
    [poster : Users, bounty : U64 \ {0}, max_slots : 1 .. MAX_SLOTS_LIMIT,
     slots_enrolled : Nat, slots_approved : Nat, slots_refunded : Nat,
     status : TaskStatus, task_deadline_ts : Int, claim_deadline_secs : Nat]

EscrowClaim ==
    [task : TaskIds, claimer : Users, status : ClaimStatus,
     enrolled_at : Nat, submitted_at : Nat, disputed_at : Nat,
     rejections : 0 .. MAX_REJECTIONS]

ASSUME NoAccountAssumption ==
    NoAccount \notin EscrowConfig \cup EscrowTask \cup EscrowClaim

Initialized    == config # NoAccount
TaskExists(t)  == tasks[t] # NoAccount
IsOpen(t)      == TaskExists(t) /\ tasks[t].status = "Open"
ClaimExists(c) == claims[c] # NoAccount
(* `has_one = task` on the claim account. *)
ClaimOn(t, c)  == TaskExists(t) /\ ClaimExists(c) /\ claims[c].task = t

(* The token accounts the handlers derive from the mint the config pins.   *)
Vault(t)  == ATA(config.usdc_mint, t)
Wallet(u) == ATA(config.usdc_mint, u)
FeeVault  == ATA(config.usdc_mint, ConfigPda)

SaturatingSub(a, b) == IF a > b THEN a - b ELSE 0

ActiveSlots(task) ==
    SaturatingSub(SaturatingSub(task.slots_enrolled, task.slots_approved),
                  task.slots_refunded)

DeadlinePassed(t) ==
    /\ tasks[t].task_deadline_ts > 0
    /\ now >= tasks[t].task_deadline_ts

WindowElapsed(since, window) == since > 0 /\ now - since >= window

(***************************************************************************)
(* The payout that approve_claim, auto_approve, resolve_dispute(Deliverer) *)
(* and auto_resolve_dispute each spell out: net to the claimer, then fee   *)
(* to the fee vault, at the fee the config holds now.                      *)
(***************************************************************************)
PayDeliverer(t, c) ==
    LET split   == ComputeFeeSplit(tasks[t].bounty, config.fee_bps)
        claimer == Wallet(claims[c].claimer)
        paid    == Moved(balance, Vault(t), claimer, split.net)
    IN  /\ split.ok
        /\ {Vault(t), claimer, FeeVault} \subseteq accounts
        /\ split.net <= balance[Vault(t)]
        /\ split.fee <= paid[Vault(t)]
        /\ balance' = Moved(paid, Vault(t), FeeVault, split.fee)
        /\ UNCHANGED accounts

(* Mutant: the vault's whole amount is refunded, as when a task ends.      *)
RefundSlotWithRest(t) ==
    Transfer(Vault(t), Wallet(tasks[t].poster), balance[Vault(t)])

RefundSlot(t) ==
    Transfer(Vault(t), Wallet(tasks[t].poster), tasks[t].bounty)

SlotApproved(t) == tasks' = [tasks EXCEPT ![t].slots_approved = @ + 1]

(* Mutant: the refunded slot is not counted.                               *)
SlotNotCounted(t) == UNCHANGED tasks

SlotRefunded(t) == tasks' = [tasks EXCEPT ![t].slots_refunded = @ + 1]

Settled(c, status) == claims' = [claims EXCEPT ![c].status = status]
=============================================================================
