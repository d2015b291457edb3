-------------------------- MODULE EscrowProperties --------------------------
(***************************************************************************)
(* What the escrow program promises, stated over Escrow.  The runs check   *)
(* these on small instances; the theorems are about every instance.        *)
(***************************************************************************)
EXTENDS Escrow

(* Every account holds a value its Rust type admits, and a token account   *)
(* that does not exist holds nothing (state.rs, SPL close_account).        *)
TypeOK ==
    /\ config \in EscrowConfig \cup {NoAccount}
    /\ tasks \in [TaskIds -> EscrowTask \cup {NoAccount}]
    /\ claims \in [ClaimIds -> EscrowClaim \cup {NoAccount}]
    /\ accounts \subseteq Mints \X Holders
    /\ balance \in [Mints \X Holders -> Nat]
    /\ \A a \in Mints \X Holders : a \notin accounts => balance[a] = 0
    /\ now \in Nat \ {0}

-----------------------------------------------------------------------------
ClaimsOf(t)       == {c \in ClaimIds : ClaimExists(c) /\ claims[c].task = t}
PaidClaims(t)     == {c \in ClaimsOf(t) : claims[c].status \in PaidStatus}
RefundedClaims(t) == {c \in ClaimsOf(t) : claims[c].status \in RefundedStatus}

(* The three counters of a task count its claims, by outcome.  close_task  *)
(* and cancel_before_enroll decide on the counters alone, with saturating  *)
(* subtraction, so a counter off by one would either free the vault under  *)
(* a live claim or keep it closed for good.  A task that does not exist    *)
(* has no claims, whatever happened to an earlier task of the same id.     *)
SlotAccounting ==
    \A t \in TaskIds :
      IF TaskExists(t)
      THEN /\ tasks[t].slots_enrolled = Cardinality(ClaimsOf(t))
           /\ tasks[t].slots_approved = Cardinality(PaidClaims(t))
           /\ tasks[t].slots_refunded = Cardinality(RefundedClaims(t))
           /\ tasks[t].slots_enrolled <= tasks[t].max_slots
      ELSE ClaimsOf(t) = {}

(* A claim that is not settled belongs to a task that is still open.       *)
(* submit, open_dispute, resolve_dispute and auto_resolve_dispute never    *)
(* look at the task's status: this is what makes that right.               *)
LiveClaimHasOpenTask ==
    \A c \in ClaimIds :
      ClaimExists(c) /\ claims[c].status \notin Terminal
        => IsOpen(claims[c].task)

(* What an open task still owes: one bounty for each slot not settled,     *)
(* taken or free.                                                          *)
Owed(t) ==
    tasks[t].bounty * (tasks[t].max_slots - tasks[t].slots_approved
                                          - tasks[t].slots_refunded)

(* Some vault of every open task holds all that the task owes, through     *)
(* fee changes, donations and mint flips; the handlers pay slots without   *)
(* comparing the vault with the slots left.                                *)
VaultCoversOpenSlots ==
    \A t \in TaskIds : IsOpen(t) =>
      \E mint \in Mints : /\ ATA(mint, t) \in accounts
                          /\ balance[ATA(mint, t)] >= Owed(t)

(* If the admin keeps to the rule at config.rs:103-107, it is the vault    *)
(* the handlers reach: the one of the mint the config pins now.            *)
PinnedVaultCoversOpenSlots ==
    \A t \in TaskIds : IsOpen(t) =>
      /\ Vault(t) \in accounts
      /\ balance[Vault(t)] >= Owed(t)

(* Under the same rule a task that is closed, or cancelled and gone, has   *)
(* left nothing in any vault: donations included, it all went back.  It    *)
(* takes that nobody makes accounts for a task outside the program, which  *)
(* could be sent tokens when the task is done.                             *)
DoneTaskHoldsNothing ==
    \A t \in TaskIds, mint \in Mints :
      ~IsOpen(t) => balance[ATA(mint, t)] = 0

Payable(c)    == {Wallet(claims[c].claimer), FeeVault} \subseteq accounts
Refundable(t) == Wallet(tasks[t].poster) \in accounts

ReviewGoesThrough(t, c) ==
    claims[c].status = "Submitted" =>
      /\ Payable(c) => ENABLED ApproveClaim(tasks[t].poster, t, c)
      /\ Refundable(t) => ENABLED RejectClaim(tasks[t].poster, t, c)
      /\ Payable(c) /\ WindowElapsed(claims[c].submitted_at,
                                     AUTO_APPROVE_WINDOW_SECS)
           => ENABLED AutoApprove(t, c)

DisputeGoesThrough(t, c) ==
    claims[c].status = "Disputed" =>
      /\ Payable(c) /\ WindowElapsed(claims[c].disputed_at,
                                     AUTO_DISPUTE_WINDOW_SECS)
           => ENABLED AutoResolveDispute(t, c)
      /\ Payable(c) /\ Refundable(t) => ENABLED ResolveDispute(config.admin, t, c)

(* What can hold up money that is due is a token account its owner has not *)
(* got, or has closed, and nothing else: not the vault, not another slot,  *)
(* not what happened to the task.  Poster's and clock's decisions on work  *)
(* under review, admin's and clock's on a dispute, and the closing of a    *)
(* task with every claim settled all go through.                           *)
OnlyAccountsBlock ==
    \A t \in TaskIds : IsOpen(t) =>
      /\ \A c \in ClaimsOf(t) : ReviewGoesThrough(t, c) /\ DisputeGoesThrough(t, c)
      /\ Refundable(t) /\ (\A c \in ClaimsOf(t) : claims[c].status \in Terminal)
           => ENABLED CloseTask(tasks[t].poster, t)

(* Nobody works for himself: a claim's task exists and was posted by       *)
(* someone else.  enroll checks it once; the task account could since have *)
(* been closed and its id taken by another poster (task.rs:134).           *)
ClaimerIsNotPoster ==
    \A c \in ClaimIds : ClaimExists(c) =>
      /\ TaskExists(claims[c].task)
      /\ tasks[claims[c].task].poster # claims[c].claimer

Consistent(k) ==
    /\ k.enrolled_at \in 1 .. now
    /\ IF k.status = "Enrolled"
       THEN k.submitted_at = 0 /\ k.rejections = 0
       ELSE k.submitted_at \in k.enrolled_at .. now
    /\ IF k.status \in {"Disputed", "ResolvedDeliverer", "ResolvedPoster"}
       THEN k.disputed_at \in k.submitted_at .. now
       ELSE k.disputed_at = 0
    /\ k.status \in {"Rejected", "Disputed", "ResolvedDeliverer",
                     "ResolvedPoster"} => k.rejections >= 1
    /\ k.status = "Cancelled" <=> k.rejections = MAX_REJECTIONS

(* A claim's status, its rejection count and its three timestamps tell one *)
(* story: nothing is decided before it was submitted, only a rejected      *)
(* claim is disputed, only the last rejection cancels, and no stamp is     *)
(* ahead of the clock.  auto_approve and auto_resolve_dispute compute      *)
(* their windows from these stamps.                                        *)
ClaimHistory ==
    \A c \in ClaimIds : ClaimExists(c) => Consistent(claims[c])

-----------------------------------------------------------------------------
Gain(a) == balance'[a] - balance[a]

Settles(c) ==
    /\ ClaimExists(c)
    /\ claims[c].status \notin Terminal
    /\ claims'[c].status \in Terminal

(* Money leaves a task's vault in two ways only: one slot's bounty, when   *)
(* exactly one of its claims is settled; or all of it, when the task ends  *)
(* with every claim settled.  In particular no admin instruction moves it  *)
(* otherwise (lib.rs:8), a claim is not paid twice, and a task is not paid *)
(* out of another's vault.                                                 *)
VaultPaysSlotOrRefund ==
    [][\A t \in TaskIds, mint \in Mints :
         Gain(ATA(mint, t)) < 0 =>
           \/ /\ Gain(ATA(mint, t)) = -tasks[t].bounty
              /\ \E c \in ClaimsOf(t) :
                   Settles(c) /\ \A d \in ClaimIds \ {c} : ~Settles(d)
           \/ /\ IsOpen(t) /\ ~IsOpen(t)'
              /\ \A c \in ClaimsOf(t) : claims[c].status \in Terminal
              /\ balance'[ATA(mint, t)] = 0]_vars

(* A settled slot's bounty reaches the right party whole: net and fee add  *)
(* up to the bounty, the fee is the floor of the configured share and at   *)
(* most 5%, and a refunded slot goes to the poster alone (claim.rs:238,    *)
(* claim.rs:364, dispute.rs:143).                                          *)
SettlementSplitsBounty ==
    [][\A c \in ClaimIds : Settles(c) =>
         LET t      == claims[c].task
             bounty == tasks[t].bounty
             fee    == Gain(FeeVault)
         IN  /\ Gain(Vault(t)) = -bounty
             /\ IF claims'[c].status \in PaidStatus
                THEN /\ Gain(Wallet(claims[c].claimer)) + fee = bounty
                     /\ fee * BPS_DENOMINATOR <= bounty * config.fee_bps
                     /\ bounty * config.fee_bps < (fee + 1) * BPS_DENOMINATOR
                     /\ 20 * fee <= bounty
                ELSE Gain(Wallet(tasks[t].poster)) = bounty]_vars

(* A settled claim is final: no late approval, rejection, resubmission or  *)
(* dispute of it changes anything, and its account is never reused.        *)
SettledClaimsFrozen ==
    [][\A c \in ClaimIds :
         ClaimExists(c) /\ claims[c].status \in Terminal
           => claims'[c] = claims[c]]_vars

Terms(task) == <<task.poster, task.bounty, task.max_slots,
                 task.task_deadline_ts, task.claim_deadline_secs>>

(* Once a deliverer has enrolled, the task he enrolled on cannot vanish or *)
(* be replaced by another of the same id (task.rs:134), its terms do not   *)
(* change, no slot is counted back, and a closed task stays closed.        *)
TermsFrozenOnceEnrolled ==
    [][\A t \in TaskIds :
         TaskExists(t) /\ (tasks[t].slots_enrolled > 0 \/ ~IsOpen(t)) =>
           /\ TaskExists(t)'
           /\ Terms(tasks'[t]) = Terms(tasks[t])
           /\ tasks'[t].slots_enrolled >= tasks[t].slots_enrolled
           /\ tasks'[t].slots_approved >= tasks[t].slots_approved
           /\ tasks'[t].slots_refunded >= tasks[t].slots_refunded
           /\ IsOpen(t)' => IsOpen(t)]_vars

(* How far a claim has come on its way to an outcome.                      *)
Progress(k) ==
    CASE k.status \in Terminal   -> 2 * MAX_REJECTIONS + 1
      [] k.status = "Disputed"   -> 2 * MAX_REJECTIONS
      [] k.status = "Submitted"  -> 2 * k.rejections + 1
      [] OTHER                   -> 2 * k.rejections

(* Submit, reject, resubmit and dispute cannot be kept going: whatever is  *)
(* done to a claim brings it nearer to its outcome, so at most 7 calls are *)
(* ever made on it, by whomever (claim.rs:132, claim.rs:347, dispute.rs:37)*)
ClaimsMoveOn ==
    [][\A c \in ClaimIds : ClaimExists(c) /\ claims'[c] # claims[c] =>
         ClaimExists(c)' /\ Progress(claims'[c]) > Progress(claims[c])]_vars

(* A crank that decides the claim is due, and the vault can pay for it.    *)
CrankDue(t, c) ==
    /\ \/ /\ UnderReview(t, c)
          /\ WindowElapsed(claims[c].submitted_at, AUTO_APPROVE_WINDOW_SECS)
       \/ /\ UnderDispute(t, c)
          /\ WindowElapsed(claims[c].disputed_at, AUTO_DISPUTE_WINDOW_SECS)
    /\ Vault(t) \in accounts
    /\ tasks[t].bounty <= balance[Vault(t)]

(* Once a crank is due on a claim, nothing done to the task, to its other  *)
(* slots, to its vault or to the settings makes it less due: only deciding *)
(* the claim itself ends that.  The hourly job may come late               *)
(* (wiring-plan.md:139-141).                                               *)
DueStaysDue ==
    [][\A t \in TaskIds, c \in ClaimIds :
         CrankDue(t, c) /\ claims'[c] = claims[c] => CrankDue(t, c)']_vars

-----------------------------------------------------------------------------
(* What a document or a comment of the repository says and the program     *)
(* does not do.                                                            *)

(* README.md:50: close_task gives back the rent of the task account too,   *)
(* so no closed task would keep one.                                       *)
ClosedTaskAccountReclaimed == \A t \in TaskIds : TaskExists(t) => IsOpen(t)

(* overview.md:146: claim_deadline_secs is the time a deliverer has to     *)
(* submit after enrolling.                                                 *)
SubmittedInWindow ==
    \A c \in ClaimIds :
      ClaimExists(c) /\ claims[c].status = "Submitted"
        /\ claims[c].rejections = 0
        => claims[c].submitted_at - claims[c].enrolled_at
             <= tasks[claims[c].task].claim_deadline_secs

(* An approval finds an account to pay to: the claimer created it when he  *)
(* enrolled (claim.rs:183-186), and were it missing, it would be created   *)
(* in the same transaction (overview.md:16).                               *)
ApprovalFindsAccount ==
    \A t \in TaskIds, c \in ClaimIds :
      UnderReview(t, c) /\ {Vault(t), FeeVault} \subseteq accounts
        => ENABLED ApproveClaim(tasks[t].poster, t, c)
=============================================================================
