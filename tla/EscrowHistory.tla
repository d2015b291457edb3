--------------------------- MODULE EscrowHistory ---------------------------
(***************************************************************************)
(* Escrow with two history variables.  They record what has happened, read *)
(* off the accounts and balances before and after each step, and constrain *)
(* nothing: without them HistorySpec is Spec.                              *)
(***************************************************************************)
EXTENDS EscrowProperties

VARIABLES pending_since,  \* claim -> when it last came to wait on someone:
                          \* submitted for review, or disputed
          cost            \* task -> what was put into its vault, by anyone,
                          \* less what its poster got back out of it

history == <<pending_since, cost>>

HistoryInit ==
    /\ Init
    /\ pending_since = [c \in ClaimIds |-> 0]
    /\ cost = [t \in TaskIds |-> 0]

Waits(c) == ClaimExists(c) /\ claims[c].status \in {"Submitted", "Disputed"}

StartsWaiting(c) ==
    /\ Waits(c)'
    /\ ~ClaimExists(c) \/ claims[c].status # claims'[c].status

(* What the poster of a task gets out of its vault in this step.           *)
Refund(t) == Gain(Wallet(tasks[t].poster))

(* With config unset there is no vault to look at.                         *)
CostAfter(t) ==
    IF ~Initialized THEN cost[t]
    ELSE CASE Gain(Vault(t)) > 0 -> cost[t] + Gain(Vault(t))
           [] Gain(Vault(t)) < 0 -> cost[t] - Refund(t)
           [] OTHER              -> cost[t]

Record ==
    /\ pending_since' = [c \in ClaimIds |->
                           IF StartsWaiting(c) THEN now ELSE pending_since[c]]
    /\ cost' = [t \in TaskIds |-> CostAfter(t)]

HistoryNext == Next /\ Record

HistorySpec == HistoryInit /\ [][HistoryNext]_<<vars, history>>

PinnedHistorySpec ==
    HistoryInit /\ [][HistoryNext /\ MintFlipRule]_<<vars, history>>

-----------------------------------------------------------------------------
(* Silence is consent only after a full window: the clock decides a claim  *)
(* no sooner than the whole window after the latest submission, or after   *)
(* the dispute, however often the claim went back and forth before.  A     *)
(* resubmission must therefore restart the poster's time (claim.rs:133).   *)
FullWindow ==
    [][\A t \in TaskIds, c \in ClaimIds :
         /\ AutoApprove(t, c)
              => now - pending_since[c] >= AUTO_APPROVE_WINDOW_SECS
         /\ AutoResolveDispute(t, c)
              => now - pending_since[c] >= AUTO_DISPUTE_WINDOW_SECS]_vars

(* Over the whole life of a task, a poster pays for the approved slots and *)
(* for nothing else: what went into the vault and did not come back to him *)
(* is still there, or is the bounties of the slots counted as approved.    *)
(* Of a task that is closed or cancelled nothing is still there, whoever   *)
(* added to the vault and whoever took the id before.                      *)
PosterPaysApprovedSlots ==
    \A t \in TaskIds :
      cost[t] = IF IsOpen(t)
                THEN balance[Vault(t)] + tasks[t].bounty * tasks[t].slots_approved
                ELSE IF TaskExists(t)
                     THEN tasks[t].bounty * tasks[t].slots_approved
                     ELSE 0
=============================================================================
