-------------------------- MODULE EscrowRefinement --------------------------
(***************************************************************************)
(* The program implements AbstractEscrow: tasks are deals, claims are      *)
(* slots, and what is held for a task is what its vault of the pinned mint *)
(* holds.  Submissions, rejections, disputes, settings and the clock are   *)
(* stutters.                                                               *)
(*                                                                         *)
(* Holds of PinnedSpec only: when the mint is re-pinned under an open task *)
(* the handlers look for its money in another vault.                       *)
(***************************************************************************)
EXTENDS EscrowProperties

DealOf(task) ==
    IF task = NoAccount THEN NoAccount
    ELSE [poster |-> task.poster, bounty |-> task.bounty,
          size |-> task.max_slots, open |-> task.status = "Open"]

OutcomeOf(status) ==
    CASE status \in PaidStatus     -> "paid"
      [] status \in RefundedStatus -> "returned"
      [] OTHER                     -> "pending"

SlotOf(claim) ==
    IF claim = NoAccount THEN NoAccount
    ELSE [deal |-> claim.task, deliverer |-> claim.claimer,
          outcome |-> OutcomeOf(claim.status)]

Deals == INSTANCE AbstractEscrow WITH
    Parties <- Users, DealIds <- TaskIds, SlotIds <- ClaimIds,
    None    <- NoAccount,
    deals   <- [t \in TaskIds |-> DealOf(tasks[t])],
    slots   <- [c \in ClaimIds |-> SlotOf(claims[c])],
    held    <- [t \in TaskIds |->
                  IF Initialized THEN balance[Vault(t)] ELSE 0]

(* The null of the program is no deal and no slot either.                  *)
ASSUME NoDealAssumption == NoAccount \notin Deals!Deal \cup Deals!Slot

(* Every step of the program is a step of the abstract escrow or changes   *)
(* nothing it speaks of: a slot is decided once, while its task is open,   *)
(* for one bounty out of its own vault; a task ends or vanishes only with  *)
(* all its claims decided; and its terms and its deliverers are fixed.     *)
(* The saturating counters and the eight statuses decide this in the code. *)
RefinesDeals == Deals!Spec
=============================================================================
