--------------------------- MODULE EscrowLiveness ---------------------------
(***************************************************************************)
(* What must eventually happen.  Nothing inside the program runs by        *)
(* itself: progress comes from the clock and from the permissionless       *)
(* cranks.  wiring-plan.md:139-141 has an hourly job call auto_approve,    *)
(* auto_cancel_task and auto_resolve_dispute on whatever is due, and       *)
(* overview.md:231 has anyone call close_task after the deadline; weak     *)
(* fairness on each of them, per claim and per task, says that.  Nothing   *)
(* is assumed of the poster and the admin.                                 *)
(***************************************************************************)
EXTENDS EscrowProperties

(* Some window or deadline is still open.  When none is, no handler can    *)
(* tell two times apart, and the clock may stand still: that keeps the     *)
(* behaviours finite without cutting one off half way.                     *)
TimerRunning ==
    \/ \E t \in TaskIds : IsOpen(t) /\ now < tasks[t].task_deadline_ts
    \/ \E c \in ClaimIds : ClaimExists(c) /\
         LET k == claims[c] IN
         \/ k.status = "Submitted"
              /\ ~WindowElapsed(k.submitted_at, AUTO_APPROVE_WINDOW_SECS)
         \/ k.status = "Disputed"
              /\ ~WindowElapsed(k.disputed_at, AUTO_DISPUTE_WINDOW_SECS)

TimedNext == Next /\ (now' # now => TimerRunning)

CrankClose(t) == \E caller \in Users : DeadlinePassed(t) /\ CloseTask(caller, t)

CrankFairness ==
    /\ WF_vars(TimerRunning /\ Tick)
    /\ \A t \in TaskIds :
         /\ WF_vars(TaskExists(t) /\ CrankClose(t))
         /\ WF_vars(AutoCancelTask(t))
         /\ \A c \in ClaimIds : /\ WF_vars(AutoApprove(t, c))
                                /\ WF_vars(AutoResolveDispute(t, c))

LiveSpec == Init /\ [][TimedNext]_vars /\ CrankFairness

(* A deliverer who keeps going: work enrolled for is handed in, and a      *)
(* rejected claim is resubmitted or disputed.                              *)
DelivererFairness ==
    \A t \in TaskIds, c \in ClaimIds :
      WF_vars(\E u \in Users : Submit(u, t, c) \/ OpenDispute(u, t, c))

(* A poster who keeps the account his refund goes to, at least from some   *)
(* time on.  Without it close_task and the cancelling crank wait for ever. *)
PosterKeepsAccount ==
    <>[](\A t \in TaskIds : IsOpen(t) => Refundable(t))

Has(c, statuses) == ClaimExists(c) /\ claims[c].status \in statuses

(* A silent poster cannot hold up work under review, not even by closing   *)
(* his token account: it is paid, rejected or cancelled.  Rests on the     *)
(* vault still holding the bounty and on the claimer's account, without    *)
(* which auto_approve fails for ever.                                      *)
ReviewEnds ==
    \A c \in ClaimIds : Has(c, {"Submitted"}) ~> ~Has(c, {"Submitted"})

(* A silent admin cannot hold up a dispute (overview.md:233), nor can a    *)
(* poster without a token account, which only resolve_dispute asks for.    *)
DisputeEnds ==
    \A c \in ClaimIds : Has(c, {"Disputed"}) ~> Has(c, Terminal)

(* The escrow of a task with a deadline is always released in the end,     *)
(* each slot paid, refunded or returned (overview.md:23, close_task).      *)
EscrowReleased ==
    \A t \in TaskIds :
      (IsOpen(t) /\ tasks[t].task_deadline_ts > 0) ~> ~IsOpen(t)

(* It is if deliverers keep going and there is an account to refund to,    *)
(* however silent poster and admin are: the claims end one way or the      *)
(* other, the counters let close_task through, and the vault is refunded   *)
(* (overview.md:231).                                                      *)
DiligentRelease ==
    DelivererFairness /\ PosterKeepsAccount => EscrowReleased
=============================================================================
