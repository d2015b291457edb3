------------------------------ MODULE ClaimIx ------------------------------
(***************************************************************************)
(* instructions/claim.rs: a deliverer takes a slot, hands in work, and the *)
(* poster - or the clock - decides on it.                                  *)
(***************************************************************************)
EXTENDS EscrowState

(* The mint is the caller's choice: no constraint ties it to the config.   *)
(* The claimer's token account is `init_if_needed`.                        *)
Enroll(claimer, mint, t, c) ==
    /\ Initialized
    /\ ~ClaimExists(c)
    /\ IsOpen(t)
    /\ tasks[t].slots_enrolled < tasks[t].max_slots
    /\ claimer # tasks[t].poster
    /\ claims' = [claims EXCEPT ![c] =
         [task |-> t, claimer |-> claimer, status |-> "Enrolled",
          enrolled_at |-> now, submitted_at |-> 0, disputed_at |-> 0,
          rejections |-> 0]]
    /\ tasks' = [tasks EXCEPT ![t].slots_enrolled = @ + 1]
    /\ accounts' = accounts \cup {ATA(mint, claimer)}
    /\ UNCHANGED <<config, balance, now>>

(* Mutants: a disputed claim is resubmitted; the clock is not read; it is  *)
(* read at the first submission only.                                      *)
SubmittableOrDisputed == {"Enrolled", "Rejected", "Disputed"}
AsSubmittedUnstamped(claim) == [claim EXCEPT !.status = "Submitted"]
AsSubmittedOnce(claim) ==
    [claim EXCEPT !.status = "Submitted",
                  !.submitted_at = IF @ = 0 THEN now ELSE @]

Submittable == {"Enrolled", "Rejected"}
AsSubmitted(claim) ==
    [claim EXCEPT !.status = "Submitted", !.submitted_at = now]

(* A first submission or a resubmission.  Neither the task's status nor    *)
(* any deadline is read.                                                   *)
Submit(claimer, t, c) ==
    /\ ClaimOn(t, c)
    /\ claims[c].claimer = claimer
    /\ claims[c].status \in Submittable
    /\ claims' = [claims EXCEPT ![c] = AsSubmitted(@)]
    /\ UNCHANGED <<config, tasks, accounts, balance, now>>

(* Mutant: the claim's status is not read.                                 *)
UnderReviewUnchecked(t, c) ==
    /\ Initialized
    /\ ClaimOn(t, c)
    /\ tasks[t].status = "Open"

UnderReview(t, c) ==
    /\ Initialized
    /\ ClaimOn(t, c)
    /\ tasks[t].status = "Open"
    /\ claims[c].status = "Submitted"

ApproveClaim(poster, t, c) ==
    /\ UnderReview(t, c)
    /\ tasks[t].poster = poster
    /\ PayDeliverer(t, c)
    /\ Settled(c, "Approved")
    /\ SlotApproved(t)
    /\ UNCHANGED <<config, now>>

(* Mutant: one rejection too many before the cap.                          *)
MayReworkOnceMore(claim) == claim.rejections < MAX_REJECTIONS

MayRework(claim) == claim.rejections + 1 < MAX_REJECTIONS

AsRejected(claim, status) ==
    [claim EXCEPT !.status = status, !.rejections = @ + 1]

(* Below the cap the claim goes back to the claimer; the vault and the     *)
(* poster's account must exist although no token moves.                    *)
RejectForRework(t, c) ==
    /\ MayRework(claims[c])
    /\ {Vault(t), Wallet(tasks[t].poster)} \subseteq accounts
    /\ claims' = [claims EXCEPT ![c] = AsRejected(@, "Rejected")]
    /\ UNCHANGED <<tasks, accounts, balance>>

(* At the cap the slot's bounty goes back to the poster.                   *)
RejectForGood(t, c) ==
    /\ ~MayRework(claims[c])
    /\ RefundSlot(t)
    /\ claims' = [claims EXCEPT ![c] = AsRejected(@, "Cancelled")]
    /\ SlotRefunded(t)

RejectClaim(poster, t, c) ==
    /\ UnderReview(t, c)
    /\ tasks[t].poster = poster
    /\ RejectForRework(t, c) \/ RejectForGood(t, c)
    /\ UNCHANGED <<config, now>>

AutoApprove(t, c) ==
    /\ UnderReview(t, c)
    /\ WindowElapsed(claims[c].submitted_at, AUTO_APPROVE_WINDOW_SECS)
    /\ PayDeliverer(t, c)
    /\ Settled(c, "Approved")
    /\ SlotApproved(t)
    /\ UNCHANGED <<config, now>>
=============================================================================
