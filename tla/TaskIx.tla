------------------------------ MODULE TaskIx -------------------------------
(***************************************************************************)
(* instructions/task.rs: funding a task and the three ways its vault is    *)
(* refunded and closed.                                                    *)
(***************************************************************************)
EXTENDS EscrowState

(* Mutant: the total cut to 64 bits, as before the fix in README.md:46.    *)
DepositTruncated(bounty, max_slots) == (bounty * max_slots) % (U64_MAX + 1)

Deposit(bounty, max_slots) == bounty * max_slots

InitializeTask(poster, t, bounty, max_slots, secs, ts) ==
    /\ Initialized
    /\ ~TaskExists(t)
    /\ bounty > 0
    /\ max_slots \in 1 .. MAX_SLOTS_LIMIT
    /\ FitsU64(Deposit(bounty, max_slots))
    /\ OpenWithDeposit(Wallet(poster), Vault(t), Deposit(bounty, max_slots))
    /\ tasks' = [tasks EXCEPT ![t] =
         [poster |-> poster, bounty |-> bounty, max_slots |-> max_slots,
          slots_enrolled |-> 0, slots_approved |-> 0, slots_refunded |-> 0,
          status |-> "Open", task_deadline_ts |-> ts,
          claim_deadline_secs |-> secs]]
    /\ UNCHANGED <<config, claims, now>>

(* Mutants: a task whose claims are all settled counts as never enrolled   *)
(* on; the check is missing.                                               *)
NoActiveClaim(t) == ActiveSlots(tasks[t]) = 0
NoCheck(t) == TRUE

NeverEnrolled(t) == tasks[t].slots_enrolled = 0

(* `close = poster`: the task account itself goes, and its id is free.     *)
CancelBeforeEnroll(poster, t) ==
    /\ Initialized
    /\ TaskExists(t)
    /\ tasks[t].poster = poster
    /\ NeverEnrolled(t)
    /\ tasks[t].status = "Open"
    /\ DrainAndClose(Vault(t), Wallet(poster))
    /\ tasks' = [tasks EXCEPT ![t] = NoAccount]
    /\ UNCHANGED <<config, claims, now>>

(* Mutant: the bounties of the open slots are refunded, not the vault.     *)
RefundOpenSlots(t) ==
    /\ tasks[t].status = "Open"
    /\ Transfer(Vault(t), Wallet(tasks[t].poster),
                tasks[t].bounty * (tasks[t].max_slots - tasks[t].slots_approved
                                     - tasks[t].slots_refunded))
    /\ tasks' = [tasks EXCEPT ![t].status = "Closed"]
    /\ UNCHANGED <<config, claims, now>>

(* What close_task and auto_cancel_task end with.  The account stays.      *)
RefundAndClose(t) ==
    /\ tasks[t].status = "Open"
    /\ DrainAndClose(Vault(t), Wallet(tasks[t].poster))
    /\ tasks' = [tasks EXCEPT ![t].status = "Closed"]
    /\ UNCHANGED <<config, claims, now>>

CloseTask(caller, t) ==
    /\ Initialized
    /\ TaskExists(t)
    /\ caller = tasks[t].poster \/ DeadlinePassed(t)
    /\ ActiveSlots(tasks[t]) = 0
    /\ RefundAndClose(t)

AutoCancelTask(t) ==
    /\ Initialized
    /\ TaskExists(t)
    /\ NeverEnrolled(t)
    /\ DeadlinePassed(t)
    /\ RefundAndClose(t)
=============================================================================
