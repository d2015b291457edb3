-------------------------- MODULE EscrowSlotProofs --------------------------
(***************************************************************************)
(* The counters of a task against its claims, and what follows: a live     *)
(* claim never loses its task, and nothing settled is ever touched again.  *)
(* Only the effect of a step matters here, not which instruction it was.   *)
(* Then what the writes to a claim amount to.                              *)
(***************************************************************************)
EXTENDS EscrowProofs

LEMMA FiniteSlots ==
    ASSUME NEW t
    PROVE  /\ IsFiniteSet(ClaimsOf(t)) /\ Cardinality(ClaimsOf(t)) \in Nat
           /\ IsFiniteSet(PaidClaims(t)) /\ Cardinality(PaidClaims(t)) \in Nat
           /\ IsFiniteSet(RefundedClaims(t))
           /\ Cardinality(RefundedClaims(t)) \in Nat
  <1>1. /\ ClaimsOf(t) \in SUBSET ClaimIds
        /\ PaidClaims(t) \in SUBSET ClaimIds
        /\ RefundedClaims(t) \in SUBSET ClaimIds
    BY DEF ClaimsOf, PaidClaims, RefundedClaims
  <1> QED
    BY <1>1, FiniteClaims, FS_Subset, FS_CardinalityType

(* The three sets of claims after one claim is written.                    *)
LEMMA SlotsAfterWrite ==
    ASSUME TypeOK, NEW t \in TaskIds, NEW c \in ClaimIds,
           NEW claim \in EscrowClaim, claim.task = t,
           ClaimExists(c) => claims[c].task = t,
           claims' = [claims EXCEPT ![c] = claim]
    PROVE  /\ ClaimsOf(t)' = ClaimsOf(t) \cup {c}
           /\ PaidClaims(t)' = IF claim.status \in PaidStatus
                               THEN PaidClaims(t) \cup {c}
                               ELSE PaidClaims(t) \ {c}
           /\ RefundedClaims(t)' = IF claim.status \in RefundedStatus
                                   THEN RefundedClaims(t) \cup {c}
                                   ELSE RefundedClaims(t) \ {c}
           /\ \A u \in TaskIds \ {t} :
                /\ ClaimsOf(u)' = ClaimsOf(u)
                /\ PaidClaims(u)' = PaidClaims(u)
                /\ RefundedClaims(u)' = RefundedClaims(u)
  <1>1. \A d \in ClaimIds : claims'[d] = IF d = c THEN claim ELSE claims[d]
    BY DEF TypeOK
  <1>2. claim # NoAccount
    BY NoAccountAssumption
  <1>3. ClaimsOf(t)' = ClaimsOf(t) \cup {c}
    BY <1>1, <1>2 DEF ClaimsOf, ClaimExists
  <1>4. \A u \in TaskIds \ {t} :
          /\ ClaimsOf(u)' = ClaimsOf(u)
          /\ c \notin ClaimsOf(u)
    BY <1>1, <1>2 DEF ClaimsOf, ClaimExists
  <1>5. \A u : /\ PaidClaims(u)' = {d \in ClaimsOf(u)' :
                                      claims'[d].status \in PaidStatus}
               /\ RefundedClaims(u)' = {d \in ClaimsOf(u)' :
                                      claims'[d].status \in RefundedStatus}
    BY DEF PaidClaims, RefundedClaims
  <1>6. ClaimsOf(t) \subseteq ClaimIds /\ \A u : ClaimsOf(u) \subseteq ClaimIds
    BY DEF ClaimsOf
  <1>7. PaidClaims(t)' = IF claim.status \in PaidStatus
                         THEN PaidClaims(t) \cup {c}
                         ELSE PaidClaims(t) \ {c}
    BY <1>1, <1>3, <1>5, <1>6 DEF PaidClaims
  <1>8. RefundedClaims(t)' = IF claim.status \in RefundedStatus
                             THEN RefundedClaims(t) \cup {c}
                             ELSE RefundedClaims(t) \ {c}
    BY <1>1, <1>3, <1>5, <1>6 DEF RefundedClaims
  <1>9. \A u \in TaskIds \ {t} :
          /\ PaidClaims(u)' = PaidClaims(u)
          /\ RefundedClaims(u)' = RefundedClaims(u)
    BY <1>1, <1>4, <1>5, <1>6 DEF PaidClaims, RefundedClaims
  <1> QED
    BY <1>3, <1>4, <1>7, <1>8, <1>9

(* SlotAccounting, for one task.                                           *)
Books(t) ==
    IF TaskExists(t)
    THEN /\ tasks[t].slots_enrolled = Cardinality(ClaimsOf(t))
         /\ tasks[t].slots_approved = Cardinality(PaidClaims(t))
         /\ tasks[t].slots_refunded = Cardinality(RefundedClaims(t))
         /\ tasks[t].slots_enrolled <= tasks[t].max_slots
    ELSE ClaimsOf(t) = {}

LEMMA BooksAreSlotAccounting == SlotAccounting <=> \A t \in TaskIds : Books(t)
  BY DEF SlotAccounting, Books

(* A task and its claims that a step leaves alone keep their books.        *)
LEMMA BooksUntouched ==
    ASSUME NEW t \in TaskIds, Books(t), tasks'[t] = tasks[t],
           ClaimsOf(t)' = ClaimsOf(t), PaidClaims(t)' = PaidClaims(t),
           RefundedClaims(t)' = RefundedClaims(t)
    PROVE  Books(t)'
  BY DEF Books, TaskExists

LEMMA SameClaims ==
    ASSUME UNCHANGED claims
    PROVE  \A t : /\ ClaimsOf(t)' = ClaimsOf(t)
                  /\ PaidClaims(t)' = PaidClaims(t)
                  /\ RefundedClaims(t)' = RefundedClaims(t)
  BY DEF ClaimsOf, PaidClaims, RefundedClaims, ClaimExists

-----------------------------------------------------------------------------
(* Each effect keeps the books of the task it is about.                    *)

LEMMA FundsTaskBooks ==
    ASSUME TypeOK, NEW t \in TaskIds, Books(t), FundsTask(t)
    PROVE  Books(t)'
  <1>1. PICK task \in EscrowTask :
          /\ task.slots_enrolled = 0
          /\ task.slots_approved = 0
          /\ task.slots_refunded = 0
          /\ tasks' = [tasks EXCEPT ![t] = task]
    BY DEF FundsTask
  <1>2. tasks'[t] = task /\ task.max_slots \in Nat
    BY <1>1 DEF TypeOK, EscrowTask, MAX_SLOTS_LIMIT
  <1>3. ClaimsOf(t) = {} /\ ClaimsOf(t)' = {}
    BY SameClaims DEF Books, FundsTask
  <1>4. PaidClaims(t)' = {} /\ RefundedClaims(t)' = {}
    BY <1>3 DEF PaidClaims, RefundedClaims
  <1>5. Cardinality({}) = 0
    BY FS_EmptySet
  <1>6. /\ tasks'[t].slots_enrolled = Cardinality(ClaimsOf(t)')
        /\ tasks'[t].slots_approved = Cardinality(PaidClaims(t)')
        /\ tasks'[t].slots_refunded = Cardinality(RefundedClaims(t)')
        /\ tasks'[t].slots_enrolled <= tasks'[t].max_slots
    BY <1>1, <1>2, <1>3, <1>4, <1>5
  <1>7. (TaskExists(t))'
    BY <1>2, NoAccountAssumption DEF TaskExists
  <1> QED
    BY <1>6, <1>7 DEF Books

LEMMA RemovesTaskBooks ==
    ASSUME TypeOK, NEW t \in TaskIds, Books(t), RemovesTask(t)
    PROVE  Books(t)'
  <1>1. Cardinality(ClaimsOf(t)) = 0
    BY DEF Books, RemovesTask, IsOpen
  <1>2. ClaimsOf(t) = {}
    BY <1>1, FiniteSlots, FS_EmptySet
  <1>3. ClaimsOf(t)' = {}
    BY <1>2, SameClaims DEF RemovesTask
  <1>4. tasks'[t] = NoAccount
    BY DEF TypeOK, RemovesTask
  <1> QED
    BY <1>3, <1>4 DEF Books, TaskExists

LEMMA ClosesTaskBooks ==
    ASSUME TypeOK, NEW t \in TaskIds, Books(t), ClosesTask(t)
    PROVE  Books(t)'
  <1>1. tasks[t] \in EscrowTask /\ TaskExists(t)
    BY ExistingAccounts DEF ClosesTask, IsOpen
  <1>2. tasks'[t] = [tasks[t] EXCEPT !.status = "Closed"]
    BY DEF TypeOK, ClosesTask
  <1>3. /\ tasks'[t].slots_enrolled = tasks[t].slots_enrolled
        /\ tasks'[t].slots_approved = tasks[t].slots_approved
        /\ tasks'[t].slots_refunded = tasks[t].slots_refunded
        /\ tasks'[t].max_slots = tasks[t].max_slots
        /\ tasks'[t] \in EscrowTask
    BY <1>1, <1>2 DEF EscrowTask, TaskStatus
  <1>4. (TaskExists(t))'
    BY <1>3, NoAccountAssumption DEF TaskExists
  <1>5. /\ ClaimsOf(t)' = ClaimsOf(t) /\ PaidClaims(t)' = PaidClaims(t)
        /\ RefundedClaims(t)' = RefundedClaims(t)
    BY SameClaims DEF ClosesTask
  <1>6. /\ tasks'[t].slots_enrolled = Cardinality(ClaimsOf(t)')
        /\ tasks'[t].slots_approved = Cardinality(PaidClaims(t)')
        /\ tasks'[t].slots_refunded = Cardinality(RefundedClaims(t)')
        /\ tasks'[t].slots_enrolled <= tasks'[t].max_slots
    BY <1>1, <1>3, <1>5 DEF Books
  <1> QED
    BY <1>4, <1>6 DEF Books

LEMMA TakesSlotBooks ==
    ASSUME TypeOK, NEW t \in TaskIds, NEW c \in ClaimIds, Books(t),
           TakesSlot(t, c)
    PROVE  Books(t)'
  <1>1. PICK claim \in EscrowClaim :
          /\ claim.task = t
          /\ claim.status = "Enrolled"
          /\ claims' = [claims EXCEPT ![c] = claim]
    BY DEF TakesSlot
  <1>2. tasks[t] \in EscrowTask /\ TaskExists(t) /\ ~ClaimExists(c)
    BY ExistingAccounts DEF TakesSlot, IsOpen
  <1>3. c \notin ClaimsOf(t) /\ c \notin PaidClaims(t) /\ c \notin RefundedClaims(t)
    BY <1>2 DEF ClaimsOf, PaidClaims, RefundedClaims
  <1>4. /\ ClaimsOf(t)' = ClaimsOf(t) \cup {c}
        /\ PaidClaims(t)' = PaidClaims(t)
        /\ RefundedClaims(t)' = RefundedClaims(t)
    <2>1. claim.status \notin PaidStatus /\ claim.status \notin RefundedStatus
      BY <1>1 DEF PaidStatus, RefundedStatus
    <2>2. /\ ClaimsOf(t)' = ClaimsOf(t) \cup {c}
          /\ PaidClaims(t)' = PaidClaims(t) \ {c}
          /\ RefundedClaims(t)' = RefundedClaims(t) \ {c}
      BY <1>1, <1>2, <2>1, SlotsAfterWrite
    <2> QED
      BY <1>3, <2>2
  <1>5. Cardinality(ClaimsOf(t)') = Cardinality(ClaimsOf(t)) + 1
    BY <1>3, <1>4, FiniteSlots, FS_AddElement
  <1>6. tasks'[t] = [tasks[t] EXCEPT !.slots_enrolled = @ + 1]
    BY DEF TypeOK, TakesSlot
  <1>7. /\ tasks'[t].slots_enrolled = tasks[t].slots_enrolled + 1
        /\ tasks'[t].slots_approved = tasks[t].slots_approved
        /\ tasks'[t].slots_refunded = tasks[t].slots_refunded
        /\ tasks'[t].max_slots = tasks[t].max_slots
        /\ tasks'[t] \in EscrowTask
    BY <1>2, <1>6 DEF EscrowTask
  <1>8. (TaskExists(t))'
    BY <1>7, NoAccountAssumption DEF TaskExists
  <1>9. tasks[t].slots_enrolled + 1 <= tasks[t].max_slots
    BY <1>2 DEF TakesSlot, EscrowTask, MAX_SLOTS_LIMIT
  <1>10. /\ tasks'[t].slots_enrolled = Cardinality(ClaimsOf(t)')
         /\ tasks'[t].slots_approved = Cardinality(PaidClaims(t)')
         /\ tasks'[t].slots_refunded = Cardinality(RefundedClaims(t)')
         /\ tasks'[t].slots_enrolled <= tasks'[t].max_slots
    BY <1>2, <1>4, <1>5, <1>7, <1>9 DEF Books
  <1> QED
    BY <1>8, <1>10 DEF Books

(* A claim that moves had no outcome yet, so it joins at most one count.   *)
LEMMA MovesClaimSlots ==
    ASSUME TypeOK, NEW t \in TaskIds, NEW c \in ClaimIds,
           NEW statuses, MovesClaim(t, c, statuses)
    PROVE  /\ ClaimsOf(t)' = ClaimsOf(t)
           /\ statuses \cap Terminal = {}
                => /\ PaidClaims(t)' = PaidClaims(t)
                   /\ RefundedClaims(t)' = RefundedClaims(t)
           /\ statuses = PaidStatus
                => /\ Cardinality(PaidClaims(t)') = Cardinality(PaidClaims(t)) + 1
                   /\ RefundedClaims(t)' = RefundedClaims(t)
           /\ statuses = RefundedStatus
                => /\ PaidClaims(t)' = PaidClaims(t)
                   /\ Cardinality(RefundedClaims(t)')
                        = Cardinality(RefundedClaims(t)) + 1
           /\ \A u \in TaskIds \ {t} :
                /\ ClaimsOf(u)' = ClaimsOf(u)
                /\ PaidClaims(u)' = PaidClaims(u)
                /\ RefundedClaims(u)' = RefundedClaims(u)
  <1>1. PICK claim \in EscrowClaim :
          /\ claim.task = t
          /\ claim.status \in statuses
          /\ claims' = [claims EXCEPT ![c] = claim]
    BY DEF MovesClaim
  <1>2. /\ ClaimExists(c) /\ claims[c].task = t
        /\ claims[c].status \notin PaidStatus
        /\ claims[c].status \notin RefundedStatus
    BY DEF MovesClaim, ClaimOn, Terminal
  <1>3. c \in ClaimsOf(t) /\ c \notin PaidClaims(t) /\ c \notin RefundedClaims(t)
    BY <1>2 DEF ClaimsOf, PaidClaims, RefundedClaims
  <1>4. /\ ClaimsOf(t)' = ClaimsOf(t) \cup {c}
        /\ PaidClaims(t)' = IF claim.status \in PaidStatus
                            THEN PaidClaims(t) \cup {c}
                            ELSE PaidClaims(t) \ {c}
        /\ RefundedClaims(t)' = IF claim.status \in RefundedStatus
                                THEN RefundedClaims(t) \cup {c}
                                ELSE RefundedClaims(t) \ {c}
        /\ \A u \in TaskIds \ {t} :
             /\ ClaimsOf(u)' = ClaimsOf(u)
             /\ PaidClaims(u)' = PaidClaims(u)
             /\ RefundedClaims(u)' = RefundedClaims(u)
    BY <1>1, <1>2, SlotsAfterWrite
  <1>5. /\ PaidClaims(t) \ {c} = PaidClaims(t)
        /\ RefundedClaims(t) \ {c} = RefundedClaims(t)
        /\ ClaimsOf(t) \cup {c} = ClaimsOf(t)
    BY <1>3
  <1>6. /\ Cardinality(PaidClaims(t) \cup {c}) = Cardinality(PaidClaims(t)) + 1
        /\ Cardinality(RefundedClaims(t) \cup {c})
             = Cardinality(RefundedClaims(t)) + 1
    BY <1>3, FiniteSlots, FS_AddElement
  <1>7. PaidStatus \cap RefundedStatus = {}
    BY DEF PaidStatus, RefundedStatus
  <1> QED
    BY <1>1, <1>4, <1>5, <1>6, <1>7 DEF Terminal

LEMMA MovesClaimBooks ==
    ASSUME TypeOK, NEW t \in TaskIds, NEW c \in ClaimIds, Books(t),
           \/ MovesClaim(t, c, ClaimStatus \ Terminal) /\ UNCHANGED tasks
           \/ MovesClaim(t, c, PaidStatus) /\ SlotApproved(t)
           \/ MovesClaim(t, c, RefundedStatus) /\ SlotRefunded(t)
    PROVE  Books(t)'
  <1>1. tasks[t] \in EscrowTask /\ TaskExists(t)
    BY ExistingAccounts DEF MovesClaim, ClaimOn
  <1>2. CASE MovesClaim(t, c, ClaimStatus \ Terminal) /\ UNCHANGED tasks
    <2>1. (ClaimStatus \ Terminal) \cap Terminal = {}
      OBVIOUS
    <2> QED
      BY <1>2, <2>1, MovesClaimSlots, BooksUntouched
  <1>3. CASE MovesClaim(t, c, PaidStatus) /\ SlotApproved(t)
    <2>1. tasks'[t] = [tasks[t] EXCEPT !.slots_approved = @ + 1]
      BY <1>3 DEF TypeOK, SlotApproved
    <2>2. /\ tasks'[t].slots_enrolled = tasks[t].slots_enrolled
          /\ tasks'[t].slots_approved = tasks[t].slots_approved + 1
          /\ tasks'[t].slots_refunded = tasks[t].slots_refunded
          /\ tasks'[t].max_slots = tasks[t].max_slots
          /\ tasks'[t] \in EscrowTask
      BY <1>1, <2>1 DEF EscrowTask
    <2>3. /\ ClaimsOf(t)' = ClaimsOf(t)
          /\ Cardinality(PaidClaims(t)') = Cardinality(PaidClaims(t)) + 1
          /\ RefundedClaims(t)' = RefundedClaims(t)
      BY <1>3, MovesClaimSlots
    <2>4. (TaskExists(t))'
      BY <2>2, NoAccountAssumption DEF TaskExists
    <2> QED
      BY <1>1, <2>2, <2>3, <2>4 DEF Books
  <1>4. CASE MovesClaim(t, c, RefundedStatus) /\ SlotRefunded(t)
    <2>1. tasks'[t] = [tasks[t] EXCEPT !.slots_refunded = @ + 1]
      BY <1>4 DEF TypeOK, SlotRefunded
    <2>2. /\ tasks'[t].slots_enrolled = tasks[t].slots_enrolled
          /\ tasks'[t].slots_approved = tasks[t].slots_approved
          /\ tasks'[t].slots_refunded = tasks[t].slots_refunded + 1
          /\ tasks'[t].max_slots = tasks[t].max_slots
          /\ tasks'[t] \in EscrowTask
      BY <1>1, <2>1 DEF EscrowTask
    <2>3. /\ ClaimsOf(t)' = ClaimsOf(t)
          /\ PaidClaims(t)' = PaidClaims(t)
          /\ Cardinality(RefundedClaims(t)') = Cardinality(RefundedClaims(t)) + 1
      BY <1>4, MovesClaimSlots
    <2>4. (TaskExists(t))'
      BY <2>2, NoAccountAssumption DEF TaskExists
    <2> QED
      BY <1>1, <2>2, <2>3, <2>4 DEF Books
  <1> QED
    BY <1>2, <1>3, <1>4

-----------------------------------------------------------------------------
(* Counters that leave no slot active leave no claim unsettled: two        *)
(* disjoint parts of a finite set that count up to it are all of it.       *)
LEMMA NoActiveSlotNoLiveClaim ==
    ASSUME TypeOK, NEW t \in TaskIds, TaskExists(t), Books(t),
           ActiveSlots(tasks[t]) = 0
    PROVE  \A c \in ClaimsOf(t) : claims[c].status \in Terminal
  <1> DEFINE settled == PaidClaims(t) \cup RefundedClaims(t)
  <1>1. PaidClaims(t) \cap RefundedClaims(t) = {}
    BY DEF PaidClaims, RefundedClaims, PaidStatus, RefundedStatus
  <1>2. Cardinality(settled) = Cardinality(PaidClaims(t))
                                 + Cardinality(RefundedClaims(t))
    <2>1. /\ IsFiniteSet(settled)
          /\ Cardinality(settled) = Cardinality(PaidClaims(t))
                                      + Cardinality(RefundedClaims(t))
                                      - Cardinality({})
      BY <1>1, FiniteSlots, FS_Union
    <2> QED
      BY <2>1, FiniteSlots, FS_EmptySet
  <1>3. settled \in SUBSET ClaimsOf(t)
    BY DEF PaidClaims, RefundedClaims
  <1>4. Cardinality(settled) <= Cardinality(ClaimsOf(t))
    BY <1>3, FiniteSlots, FS_Subset
  <1>5. Cardinality(ClaimsOf(t)) <= Cardinality(settled)
    BY <1>2, FiniteSlots DEF Books, ActiveSlots, SaturatingSub
  <1>6. Cardinality(ClaimsOf(t)) = Cardinality(settled)
    <2> HIDE DEF settled
    <2>1. Cardinality(settled) \in Nat
      BY <1>2, FiniteSlots
    <2> QED
      BY <1>4, <1>5, <2>1, FiniteSlots
  <1>7. settled = ClaimsOf(t)
    BY <1>3, <1>6, FiniteSlots, FS_Subset
  <1> QED
    BY <1>7 DEF PaidClaims, RefundedClaims, Terminal

Inv1 == Inv0 /\ SlotAccounting /\ LiveClaimHasOpenTask /\ ClaimerIsNotPoster

(* What links one claim to its task.                                       *)
Linked(c) ==
    ClaimExists(c) =>
      /\ claims[c].status \notin Terminal => IsOpen(claims[c].task)
      /\ TaskExists(claims[c].task)
      /\ tasks[claims[c].task].poster # claims[c].claimer

LEMMA LinksAreInvariants ==
    LiveClaimHasOpenTask /\ ClaimerIsNotPoster
      <=> \A c \in ClaimIds : Linked(c)
  BY DEF LiveClaimHasOpenTask, ClaimerIsNotPoster, Linked

LEMMA SlotAccountingStep ==
    ASSUME TypeOK, SlotAccounting, Effect
    PROVE  SlotAccounting'
  <1> SUFFICES ASSUME NEW u \in TaskIds PROVE Books(u)'
    BY DEF SlotAccounting, Books
  <1>1. \A t \in TaskIds : Books(t)
    BY BooksAreSlotAccounting
  <1>2. CASE SameBooks
    BY <1>1, <1>2, SameClaims, BooksUntouched DEF SameBooks
  <1>3. ASSUME NEW t \in TaskIds,
               FundsTask(t) \/ RemovesTask(t) \/ ClosesTask(t)
        PROVE  Books(u)'
    <2>1. CASE u = t
      BY <1>1, <1>3, <2>1, FundsTaskBooks, RemovesTaskBooks, ClosesTaskBooks
    <2>2. CASE u # t
      <3>1. tasks'[u] = tasks[u] /\ UNCHANGED claims
        BY <1>3, <2>2 DEF TypeOK, FundsTask, RemovesTask, ClosesTask
      <3> QED
        BY <1>1, <3>1, SameClaims, BooksUntouched
    <2> QED
      BY <2>1, <2>2
  <1>4. ASSUME NEW t \in TaskIds, NEW c \in ClaimIds, TakesSlot(t, c)
        PROVE  Books(u)'
    <2>1. CASE u = t
      BY <1>1, <1>4, <2>1, TakesSlotBooks
    <2>2. CASE u # t
      <3>1. PICK claim \in EscrowClaim :
              claim.task = t /\ claims' = [claims EXCEPT ![c] = claim]
        BY <1>4 DEF TakesSlot
      <3>2. tasks'[u] = tasks[u] /\ ~ClaimExists(c)
        BY <1>4, <2>2 DEF TypeOK, TakesSlot
      <3>3. /\ ClaimsOf(u)' = ClaimsOf(u) /\ PaidClaims(u)' = PaidClaims(u)
            /\ RefundedClaims(u)' = RefundedClaims(u)
        BY <2>2, <3>1, <3>2, SlotsAfterWrite
      <3> QED
        BY <1>1, <3>2, <3>3, BooksUntouched
    <2> QED
      BY <2>1, <2>2
  <1>5. ASSUME NEW t \in TaskIds, NEW c \in ClaimIds,
               \/ MovesClaim(t, c, ClaimStatus \ Terminal) /\ UNCHANGED tasks
               \/ MovesClaim(t, c, PaidStatus) /\ SlotApproved(t)
               \/ MovesClaim(t, c, RefundedStatus) /\ SlotRefunded(t)
        PROVE  Books(u)'
    <2>1. CASE u = t
      BY <1>1, <1>5, <2>1, MovesClaimBooks
    <2>2. CASE u # t
      <3>1. tasks'[u] = tasks[u]
        BY <1>5, <2>2 DEF TypeOK, SlotApproved, SlotRefunded
      <3>2. /\ ClaimsOf(u)' = ClaimsOf(u) /\ PaidClaims(u)' = PaidClaims(u)
            /\ RefundedClaims(u)' = RefundedClaims(u)
        BY <1>5, <2>2, MovesClaimSlots
      <3> QED
        BY <1>1, <3>1, <3>2, BooksUntouched
    <2> QED
      BY <2>1, <2>2
  <1> QED
    BY <1>2, <1>3, <1>4, <1>5 DEF Effect

(* What every effect leaves of a task some claim belongs to.               *)
LEMMA TaskOfClaimKept ==
    ASSUME TypeOK, SlotAccounting, Effect, NEW t \in TaskIds, TaskExists(t),
           ClaimsOf(t) # {}
    PROVE  /\ (TaskExists(t))'
           /\ tasks'[t].poster = tasks[t].poster
           /\ IsOpen(t) => IsOpen(t)' \/ ClosesTask(t)
  <1>1. tasks[t] \in EscrowTask
    BY ExistingAccounts
  <1>2. ASSUME NEW u \in TaskIds, FundsTask(u) \/ RemovesTask(u)
        PROVE  tasks'[t] = tasks[t]
    <2>1. CASE FundsTask(u)
      BY <2>1 DEF TypeOK, FundsTask
    <2>2. CASE RemovesTask(u)
      <3>1. Cardinality(ClaimsOf(t)) # 0
        BY FiniteSlots, FS_EmptySet
      <3>2. u # t
        BY <2>2, <3>1 DEF RemovesTask, SlotAccounting
      <3> QED
        BY <2>2, <3>2 DEF TypeOK, RemovesTask
    <2> QED
      BY <1>2, <2>1, <2>2
  <1>3. ASSUME NEW u \in TaskIds, NEW c \in ClaimIds,
               \/ TakesSlot(u, c)
               \/ MovesClaim(u, c, ClaimStatus \ Terminal) /\ UNCHANGED tasks
               \/ MovesClaim(u, c, PaidStatus) /\ SlotApproved(u)
               \/ MovesClaim(u, c, RefundedStatus) /\ SlotRefunded(u)
        PROVE  /\ tasks'[t].poster = tasks[t].poster
               /\ tasks'[t].status = tasks[t].status
    BY <1>1, <1>3 DEF TypeOK, TakesSlot, SlotApproved, SlotRefunded, EscrowTask
  <1>4. ASSUME NEW u \in TaskIds, ClosesTask(u)
        PROVE  /\ tasks'[t].poster = tasks[t].poster
               /\ u # t => tasks'[t] = tasks[t]
    BY <1>1, <1>4 DEF TypeOK, ClosesTask, EscrowTask
  <1>5. (TaskExists(t))'
    <2>1. ASSUME NEW u \in TaskIds, NEW c \in ClaimIds,
                 \/ TakesSlot(u, c)
                 \/ MovesClaim(u, c, ClaimStatus \ Terminal) /\ UNCHANGED tasks
                 \/ MovesClaim(u, c, PaidStatus) /\ SlotApproved(u)
                 \/ MovesClaim(u, c, RefundedStatus) /\ SlotRefunded(u)
          PROVE  tasks'[t] # NoAccount
      <3>1. \/ tasks'[t] = tasks[t]
            \/ tasks'[t] = [tasks[t] EXCEPT !.slots_enrolled = @ + 1]
            \/ tasks'[t] = [tasks[t] EXCEPT !.slots_approved = @ + 1]
            \/ tasks'[t] = [tasks[t] EXCEPT !.slots_refunded = @ + 1]
        BY <2>1 DEF TypeOK, TakesSlot, SlotApproved, SlotRefunded
      <3>2. tasks'[t] \in EscrowTask
        BY <1>1, <3>1 DEF EscrowTask
      <3> QED
        BY <3>2, NoAccountAssumption
    <2>2. ASSUME NEW u \in TaskIds, ClosesTask(u)
          PROVE  tasks'[t] # NoAccount
      <3>1. \/ tasks'[t] = tasks[t]
            \/ tasks'[t] = [tasks[t] EXCEPT !.status = "Closed"]
        BY <2>2 DEF TypeOK, ClosesTask
      <3>2. tasks'[t] \in EscrowTask
        BY <1>1, <3>1 DEF EscrowTask, TaskStatus
      <3> QED
        BY <3>2, NoAccountAssumption
    <2>3. tasks'[t] # NoAccount
      BY <1>2, <2>1, <2>2 DEF Effect, SameBooks, TaskExists
    <2> QED
      BY <2>3 DEF TaskExists
  <1>6. tasks'[t].poster = tasks[t].poster
    BY <1>2, <1>3, <1>4 DEF Effect, SameBooks
  <1>7. ASSUME IsOpen(t), ~ClosesTask(t)
        PROVE  tasks'[t].status = tasks[t].status
    BY <1>2, <1>3, <1>4, <1>7 DEF Effect, SameBooks
  <1> QED
    BY <1>5, <1>6, <1>7 DEF IsOpen

LEMMA LinkedStep ==
    ASSUME TypeOK, SlotAccounting, Effect, NEW d \in ClaimIds, Linked(d)
    PROVE  Linked(d)'
  <1>1. ASSUME ClaimExists(d)
        PROVE  /\ claims[d] \in EscrowClaim
               /\ claims[d].task \in TaskIds
               /\ TaskExists(claims[d].task)
               /\ d \in ClaimsOf(claims[d].task)
    BY <1>1, ExistingAccounts DEF EscrowClaim, Linked, ClaimsOf
  (* The task of a live claim is not closed by this step.                  *)
  <1>2. ASSUME ClaimExists(d)
        PROVE  /\ tasks'[claims[d].task].poster = tasks[claims[d].task].poster
               /\ tasks'[claims[d].task] # NoAccount
               /\ claims[d].status \notin Terminal
                    => tasks'[claims[d].task].status = "Open"
    <2> DEFINE t == claims[d].task
    <2>1. /\ t \in TaskIds /\ TaskExists(t) /\ d \in ClaimsOf(t) /\ Books(t)
      BY <1>1, <1>2, BooksAreSlotAccounting
    <2>2. claims[d].status \notin Terminal => IsOpen(t) /\ ~ClosesTask(t)
      BY <1>2, <2>1, NoActiveSlotNoLiveClaim DEF Linked, ClosesTask
    <2> HIDE DEF t
    <2>3. /\ tasks'[t] # NoAccount
          /\ tasks'[t].poster = tasks[t].poster
          /\ IsOpen(t) => tasks'[t].status = "Open" \/ ClosesTask(t)
      BY <2>1, TaskOfClaimKept DEF TaskExists, IsOpen
    <2> QED
      BY <2>2, <2>3 DEF t, TaskExists
  <1>3. CASE claims'[d] = claims[d]
    BY <1>2, <1>3 DEF Linked, ClaimExists, TaskExists, IsOpen
  <1>4. ASSUME NEW t \in TaskIds, TakesSlot(t, d)
        PROVE  Linked(d)'
    <2>1. PICK claim \in EscrowClaim :
            /\ claim.task = t
            /\ claim.claimer # tasks[t].poster
            /\ claims' = [claims EXCEPT ![d] = claim]
      BY <1>4 DEF TakesSlot
    <2>2. claims'[d] = claim /\ tasks[t] \in EscrowTask
      BY <1>4, <2>1, ExistingAccounts DEF TypeOK, TakesSlot, IsOpen
    <2>3. tasks'[t] = [tasks[t] EXCEPT !.slots_enrolled = @ + 1]
      BY <1>4 DEF TypeOK, TakesSlot
    <2>4. /\ tasks'[t] \in EscrowTask
          /\ tasks'[t].poster = tasks[t].poster
          /\ tasks'[t].status = "Open"
      BY <1>4, <2>2, <2>3 DEF EscrowTask, TakesSlot, IsOpen
    <2>5. tasks'[t] # NoAccount
      BY <2>4, NoAccountAssumption
    <2> QED
      BY <2>1, <2>2, <2>4, <2>5 DEF Linked, TaskExists, IsOpen
  <1>5. ASSUME NEW t \in TaskIds, NEW statuses, MovesClaim(t, d, statuses)
        PROVE  Linked(d)'
    <2>1. PICK claim \in EscrowClaim :
            /\ claim.task = t
            /\ claim.claimer = claims[d].claimer
            /\ claims' = [claims EXCEPT ![d] = claim]
      BY <1>5 DEF MovesClaim
    <2>2. claims'[d] = claim
      BY <2>1 DEF TypeOK
    <2>3. /\ ClaimExists(d) /\ claims[d].task = t
          /\ claims[d].status \notin Terminal
          /\ tasks[t].poster # claims[d].claimer
      BY <1>5 DEF MovesClaim, ClaimOn, Linked
    <2>4. /\ tasks'[t] # NoAccount
          /\ tasks'[t].poster = tasks[t].poster
          /\ tasks'[t].status = "Open"
      BY <1>2, <2>3
    <2> QED
      BY <2>1, <2>2, <2>3, <2>4 DEF Linked, TaskExists, IsOpen
  <1>6. ASSUME NEW c \in ClaimIds, c # d, NEW t \in TaskIds, NEW statuses,
               TakesSlot(t, c) \/ MovesClaim(t, c, statuses)
        PROVE  claims'[d] = claims[d]
    BY <1>6 DEF TypeOK, TakesSlot, MovesClaim
  <1>7. CASE UNCHANGED claims
    BY <1>3, <1>7
  <1>8. ASSUME NEW t \in TaskIds,
               FundsTask(t) \/ RemovesTask(t) \/ ClosesTask(t)
        PROVE  Linked(d)'
    BY <1>7, <1>8 DEF FundsTask, RemovesTask, ClosesTask
  <1>9. ASSUME NEW c \in ClaimIds, NEW t \in TaskIds, NEW statuses,
               TakesSlot(t, c) \/ MovesClaim(t, c, statuses)
        PROVE  Linked(d)'
    BY <1>3, <1>4, <1>5, <1>6, <1>9
  <1> QED
    BY <1>7, <1>8, <1>9 DEF Effect, SameBooks

LEMMA Inv1Step ==
    ASSUME Inv1, [Next]_vars
    PROVE  Inv1'
  <1>1. Inv0 /\ TypeOK /\ SlotAccounting /\ Effect
    BY NextStep DEF Inv1, Inv0, StepOK
  <1>2. Inv0'
    BY <1>1, TypeStep, HistoryStep DEF Inv0
  <1>3. SlotAccounting'
    BY <1>1, SlotAccountingStep
  <1>4. \A d \in ClaimIds : Linked(d)'
    BY <1>1, LinksAreInvariants, LinkedStep DEF Inv1
  <1>5. (LiveClaimHasOpenTask /\ ClaimerIsNotPoster)'
    BY <1>4 DEF LiveClaimHasOpenTask, ClaimerIsNotPoster, Linked
  <1> QED
    BY <1>2, <1>3, <1>5 DEF Inv1

LEMMA SpecInv1 == Spec => []Inv1
  <1>1. ASSUME Init PROVE Inv1
    <2>1. Inv0 /\ \A c \in ClaimIds : ~ClaimExists(c)
      BY <1>1, InitInv0 DEF Init, ClaimExists
    <2>2. \A t \in TaskIds : ~TaskExists(t) /\ ClaimsOf(t) = {}
      BY <1>1, <2>1 DEF Init, TaskExists, ClaimsOf
    <2> QED
      BY <2>1, <2>2
      DEF Inv1, SlotAccounting, LiveClaimHasOpenTask, ClaimerIsNotPoster
  <1>2. Inv1 /\ [Next]_vars => Inv1'
    BY Inv1Step
  <1> QED
    BY <1>1, <1>2, PTL DEF Spec

-----------------------------------------------------------------------------
(* The three counters of every task are the numbers of its claims, paid    *)
(* claims and refunded claims, for any number of tasks and deliverers.     *)
THEOREM SlotAccountingCorrect == Spec => []SlotAccounting
  <1>1. Inv1 => SlotAccounting
    BY DEF Inv1
  <1> QED
    BY <1>1, SpecInv1, PTL

(* No order of calls closes or removes a task under a live claim.          *)
THEOREM LiveClaimsKeepTheirTask == Spec => []LiveClaimHasOpenTask
  <1>1. Inv1 => LiveClaimHasOpenTask
    BY DEF Inv1
  <1> QED
    BY <1>1, SpecInv1, PTL

(* The self-dealing check at enrolment holds for the life of the claim.    *)
THEOREM NobodyWorksForHimself == Spec => []ClaimerIsNotPoster
  <1>1. Inv1 => ClaimerIsNotPoster
    BY DEF Inv1
  <1> QED
    BY <1>1, SpecInv1, PTL

LEMMA SettledClaimsFrozenStep ==
    ASSUME Inv0, [Next]_vars, NEW c \in ClaimIds,
           ClaimExists(c), claims[c].status \in Terminal
    PROVE  claims'[c] = claims[c]
  <1>1. Effect /\ TypeOK
    BY NextStep DEF Inv0, StepOK
  <1>2. ASSUME NEW t \in TaskIds, NEW d \in ClaimIds, NEW statuses,
               TakesSlot(t, d) \/ MovesClaim(t, d, statuses)
        PROVE  claims'[c] = claims[c]
    BY <1>1, <1>2 DEF TypeOK, TakesSlot, MovesClaim
  <1> QED
    BY <1>1, <1>2 DEF Effect, SameBooks, FundsTask, RemovesTask, ClosesTask

(* Whatever is called afterwards, a settled claim stays as it was settled. *)
THEOREM SettledClaimsStayFrozen == Spec => SettledClaimsFrozen
  <1>1. Inv0 /\ [Next]_vars
          => [\A c \in ClaimIds :
                ClaimExists(c) /\ claims[c].status \in Terminal
                  => claims'[c] = claims[c]]_vars
    BY SettledClaimsFrozenStep
  <1> QED
    BY <1>1, SpecInv0, PTL DEF Spec, SettledClaimsFrozen

(* Only the number of a fixed task's slots in each counter can change, and *)
(* only upwards.                                                           *)
LEMMA TermsFrozenStep ==
    ASSUME Inv0, [Next]_vars, NEW t \in TaskIds, TaskExists(t),
           tasks[t].slots_enrolled > 0 \/ ~IsOpen(t)
    PROVE  /\ TaskExists(t)'
           /\ Terms(tasks'[t]) = Terms(tasks[t])
           /\ tasks'[t].slots_enrolled >= tasks[t].slots_enrolled
           /\ tasks'[t].slots_approved >= tasks[t].slots_approved
           /\ tasks'[t].slots_refunded >= tasks[t].slots_refunded
           /\ IsOpen(t)' => IsOpen(t)
  <1>1. Effect /\ TypeOK /\ tasks[t] \in EscrowTask
    BY NextStep, ExistingAccounts DEF Inv0, StepOK
  <1>2. ASSUME NEW u \in TaskIds, FundsTask(u) \/ RemovesTask(u)
        PROVE  tasks'[t] = tasks[t]
    BY <1>1, <1>2 DEF TypeOK, EscrowTask, FundsTask, RemovesTask
  <1>3. \/ tasks'[t] = tasks[t]
        \/ tasks'[t] = [tasks[t] EXCEPT !.status = "Closed"]
        \/ tasks'[t] = [tasks[t] EXCEPT !.slots_enrolled = @ + 1]
        \/ tasks'[t] = [tasks[t] EXCEPT !.slots_approved = @ + 1]
        \/ tasks'[t] = [tasks[t] EXCEPT !.slots_refunded = @ + 1]
    BY <1>1, <1>2
    DEF TypeOK, Effect, SameBooks, ClosesTask, TakesSlot, MovesClaim,
        SlotApproved, SlotRefunded
  <1>4. /\ tasks'[t] \in EscrowTask
        /\ Terms(tasks'[t]) = Terms(tasks[t])
        /\ tasks'[t].slots_enrolled >= tasks[t].slots_enrolled
        /\ tasks'[t].slots_approved >= tasks[t].slots_approved
        /\ tasks'[t].slots_refunded >= tasks[t].slots_refunded
        /\ tasks'[t].status = "Open" => tasks[t].status = "Open"
    BY <1>1, <1>3 DEF EscrowTask, TaskStatus, Terms
  <1>5. tasks'[t] # NoAccount
    BY <1>4, NoAccountAssumption
  <1> QED
    BY <1>4, <1>5 DEF TaskExists, IsOpen

(* A deliverer who enrolled keeps the task and the terms he enrolled on.   *)
THEOREM TermsStayFrozen == Spec => TermsFrozenOnceEnrolled
  <1>1. Inv0 /\ [Next]_vars
          => [\A t \in TaskIds :
                TaskExists(t) /\ (tasks[t].slots_enrolled > 0 \/ ~IsOpen(t)) =>
                  /\ TaskExists(t)'
                  /\ Terms(tasks'[t]) = Terms(tasks[t])
                  /\ tasks'[t].slots_enrolled >= tasks[t].slots_enrolled
                  /\ tasks'[t].slots_approved >= tasks[t].slots_approved
                  /\ tasks'[t].slots_refunded >= tasks[t].slots_refunded
                  /\ IsOpen(t)' => IsOpen(t)]_vars
    BY TermsFrozenStep
  <1> QED
    BY <1>1, SpecInv0, PTL DEF Spec, TermsFrozenOnceEnrolled

-----------------------------------------------------------------------------
(* The life of a claim: everything any instruction writes to one.          *)

Born(c) == ~ClaimExists(c) /\ claims'[c].status = "Enrolled"

HandedIn(c) ==
    /\ claims[c].status \in Submittable
    /\ claims'[c] = AsSubmitted(claims[c])

Contested(c) ==
    /\ claims[c].status \in Disputable
    /\ claims'[c] = AsDisputed(claims[c])

TurnedDown(c) ==
    /\ claims[c].status = "Submitted"
    /\ \/ MayRework(claims[c]) /\ claims'[c] = AsRejected(claims[c], "Rejected")
       \/ claims'[c] = AsRejected(claims[c], "Cancelled")

Decided(c) ==
    /\ claims[c].status \notin Terminal
    /\ \E status \in Terminal :
         claims'[c] = [claims[c] EXCEPT !.status = status]

ClaimWritten(c) ==
    \/ Born(c)
    \/ ClaimExists(c) /\ (HandedIn(c) \/ Contested(c) \/ TurnedDown(c) \/ Decided(c))

LEMMA SettledIsDecided ==
    ASSUME TypeOK, NEW c \in ClaimIds, ClaimExists(c),
           claims[c].status \notin Terminal,
           NEW status \in Terminal, Settled(c, status)
    PROVE  ClaimExists(c) /\ Decided(c)
  BY DEF TypeOK, Settled, Decided

LEMMA ClaimNextWrites ==
    ASSUME TypeOK, ClaimNext
    PROVE  \A c \in ClaimIds : claims'[c] = claims[c] \/ ClaimWritten(c)
  <1>1. PICK t \in TaskIds, c \in ClaimIds :
          \/ \E claimer \in Users, mint \in Mints : Enroll(claimer, mint, t, c)
          \/ \E signer \in Users :
               \/ Submit(signer, t, c)
               \/ ApproveClaim(signer, t, c)
               \/ RejectClaim(signer, t, c)
               \/ OpenDispute(signer, t, c)
               \/ ResolveDispute(signer, t, c)
          \/ AutoApprove(t, c)
          \/ AutoResolveDispute(t, c)
    BY DEF ClaimNext
  <1>2. \A d \in ClaimIds \ {c} : claims'[d] = claims[d]
    BY <1>1
    DEF TypeOK, Enroll, Submit, ApproveClaim, RejectClaim,
        RejectForRework, RejectForGood, OpenDispute, ResolveDispute,
        ResolveForDeliverer, ResolveForPoster, AutoApprove,
        AutoResolveDispute, Settled
  <1>3. ASSUME NEW claimer \in Users, NEW mint \in Mints,
               Enroll(claimer, mint, t, c)
        PROVE  ClaimWritten(c)
    BY <1>3 DEF TypeOK, Enroll, Born, ClaimWritten
  <1>4. ASSUME NEW signer \in Users, Submit(signer, t, c)
        PROVE  ClaimWritten(c)
    BY <1>4 DEF TypeOK, Submit, ClaimOn, HandedIn, ClaimWritten
  <1>5. ASSUME NEW signer \in Users, OpenDispute(signer, t, c)
        PROVE  ClaimWritten(c)
    BY <1>5 DEF TypeOK, OpenDispute, ClaimOn, Contested, ClaimWritten
  <1>6. ASSUME NEW signer \in Users, RejectClaim(signer, t, c)
        PROVE  ClaimWritten(c)
    BY <1>6 DEF TypeOK, RejectClaim, RejectForRework, RejectForGood,
       UnderReview, ClaimOn, TurnedDown, ClaimWritten
  <1>7. ASSUME \/ \E signer \in Users : ApproveClaim(signer, t, c)
               \/ \E signer \in Users : ResolveDispute(signer, t, c)
               \/ AutoApprove(t, c)
               \/ AutoResolveDispute(t, c)
        PROVE  ClaimWritten(c)
    <2>1. /\ UnderReview(t, c) \/ UnderDispute(t, c)
          /\ \/ Settled(c, "Approved")
             \/ Settled(c, "ResolvedDeliverer")
             \/ Settled(c, "ResolvedPoster")
      BY <1>7 DEF ApproveClaim, ResolveDispute, ResolveForDeliverer,
         ResolveForPoster, AutoApprove, AutoResolveDispute
    <2>2. ClaimExists(c) /\ claims[c].status \notin Terminal
      BY <2>1, ReviewedIsLive DEF ClaimOn
    <2>3. {"Approved", "ResolvedDeliverer", "ResolvedPoster"} \subseteq Terminal
      BY DEF Terminal, PaidStatus, RefundedStatus
    <2> QED
      BY <2>1, <2>2, <2>3, SettledIsDecided DEF ClaimWritten
  <1>8. ClaimWritten(c)
    BY <1>1, <1>3, <1>4, <1>5, <1>6, <1>7
  <1> QED
    BY <1>2, <1>8

LEMMA NextWrites ==
    ASSUME TypeOK, [Next]_vars
    PROVE  \A c \in ClaimIds : claims'[c] = claims[c] \/ ClaimWritten(c)
  <1>1. CASE TaskNext
    BY <1>1 DEF TaskNext, InitializeTask, CancelBeforeEnroll, CloseTask,
       AutoCancelTask, RefundAndClose
  <1>2. CASE ConfigNext
    BY <1>2 DEF ConfigNext, InitializeConfig, UpdateAdmin, UpdateFee,
       UpdateMint, OnlyConfig
  <1>3. CASE FeesNext
    BY <1>3 DEF FeesNext, WithdrawFees
  <1>4. CASE EnvironmentNext
    BY <1>4 DEF EnvironmentNext, Tick, CreateAta, CloseAta, Donate
  <1>5. CASE UNCHANGED vars
    BY <1>5 DEF vars
  <1> QED
    BY <1>1, <1>2, <1>3, <1>4, <1>5, ClaimNextWrites DEF Next

(* What each kind of write does to the status and the rejections.          *)
LEMMA WrittenClaim ==
    ASSUME Inv0, NEW c \in ClaimIds, ClaimExists(c), ClaimWritten(c)
    PROVE  /\ HandedIn(c) => /\ claims'[c].status = "Submitted"
                             /\ claims'[c].rejections = claims[c].rejections
                             /\ claims'[c].submitted_at = now
           /\ Contested(c) => /\ claims'[c].status = "Disputed"
                              /\ claims'[c].disputed_at = now
           /\ TurnedDown(c) =>
                \/ /\ claims'[c].status = "Rejected"
                   /\ claims'[c].rejections = claims[c].rejections + 1
                \/ claims'[c].status = "Cancelled"
           /\ Decided(c) => claims'[c].status \in Terminal
  <1>1. claims[c] \in EscrowClaim
    BY ExistingAccounts DEF Inv0
  <1>2. HandedIn(c) => /\ claims'[c].status = "Submitted"
                       /\ claims'[c].rejections = claims[c].rejections
                       /\ claims'[c].submitted_at = now
    BY <1>1 DEF HandedIn, AsSubmitted, EscrowClaim
  <1>3. Contested(c) => /\ claims'[c].status = "Disputed"
                        /\ claims'[c].disputed_at = now
    BY <1>1 DEF Contested, AsDisputed, EscrowClaim
  <1>4. TurnedDown(c) => \/ /\ claims'[c].status = "Rejected"
                            /\ claims'[c].rejections = claims[c].rejections + 1
                         \/ claims'[c].status = "Cancelled"
    BY <1>1 DEF TurnedDown, AsRejected, EscrowClaim
  <1>5. Decided(c) => claims'[c].status \in Terminal
    BY <1>1 DEF Decided, EscrowClaim
  <1> QED
    BY <1>2, <1>3, <1>4, <1>5

LEMMA ClaimsMoveOnStep ==
    ASSUME Inv0, [Next]_vars, NEW c \in ClaimIds,
           ClaimExists(c), claims'[c] # claims[c]
    PROVE  ClaimExists(c)' /\ Progress(claims'[c]) > Progress(claims[c])
  <1> DEFINE k == claims[c]
             after == claims'[c]
  <1>1. ClaimWritten(c) /\ k \in EscrowClaim
    BY NextWrites, ExistingAccounts DEF Inv0
  <1>2. HandedIn(c) \/ Contested(c) \/ TurnedDown(c) \/ Decided(c)
    BY <1>1 DEF ClaimWritten, Born
  <1>3. k.status \notin Terminal
    BY <1>2 DEF HandedIn, Contested, TurnedDown, Decided, Submittable,
       Disputable, Terminal, PaidStatus, RefundedStatus
  <1>4. /\ k.rejections \in Nat /\ k.rejections + 1 <= MAX_REJECTIONS
        /\ k.status = "Enrolled" => k.rejections = 0
    BY <1>3, BelowCap
    DEF Terminal, RefundedStatus, Inv0, ClaimHistory, Consistent
  <1>5. ClaimExists(c)'
    <2>1. Effect /\ TypeOK
      BY NextStep DEF Inv0, StepOK
    <2>2. ASSUME NEW t \in TaskIds, NEW d \in ClaimIds, NEW statuses,
                 TakesSlot(t, d) \/ MovesClaim(t, d, statuses)
          PROVE  after = k \/ after \in EscrowClaim
      BY <2>1, <2>2 DEF TypeOK, TakesSlot, MovesClaim
    <2>3. after = k \/ after \in EscrowClaim
      BY <2>1, <2>2 DEF Effect, SameBooks, FundsTask, RemovesTask, ClosesTask
    <2> QED
      BY <2>3, NoAccountAssumption DEF ClaimExists
  <1>6. ASSUME HandedIn(c)
        PROVE  Progress(after) > Progress(k)
    <2>1. after.status = "Submitted" /\ after.rejections = k.rejections
      BY <1>1, <1>6, WrittenClaim
    <2>2. k.status \in {"Enrolled", "Rejected"}
      BY <1>6 DEF HandedIn, Submittable
    <2>3. /\ Progress(after) = 2 * k.rejections + 1
          /\ Progress(k) = 2 * k.rejections
      BY <2>1, <2>2 DEF Progress, Terminal, PaidStatus, RefundedStatus
    <2> QED
      BY <1>4, <2>3
  <1>7. ASSUME Contested(c)
        PROVE  Progress(after) > Progress(k)
    <2>1. after.status = "Disputed" /\ k.status = "Rejected"
      BY <1>1, <1>7, WrittenClaim DEF Contested, Disputable
    <2>2. /\ Progress(after) = 2 * MAX_REJECTIONS
          /\ Progress(k) = 2 * k.rejections
      BY <2>1 DEF Progress, Terminal, PaidStatus, RefundedStatus
    <2> QED
      BY <1>4, <2>2 DEF MAX_REJECTIONS
  <1>8. Progress(k) \in Nat /\ Progress(k) <= 2 * MAX_REJECTIONS
    <2>1. Progress(k) \in {2 * MAX_REJECTIONS, 2 * k.rejections + 1,
                           2 * k.rejections}
      BY <1>3 DEF Progress
    <2> QED
      BY <1>4, <2>1 DEF MAX_REJECTIONS
  <1>9. ASSUME after.status \in Terminal
        PROVE  Progress(after) > Progress(k)
    <2>1. Progress(after) = 2 * MAX_REJECTIONS + 1
      BY <1>9 DEF Progress, Terminal, PaidStatus, RefundedStatus
    <2> QED
      BY <1>8, <2>1 DEF MAX_REJECTIONS
  <1>10. ASSUME TurnedDown(c)
         PROVE  Progress(after) > Progress(k)
    <2>1. "Cancelled" \in Terminal
      BY DEF Terminal, RefundedStatus
    <2>2. CASE after.status = "Rejected" /\ after.rejections = k.rejections + 1
      <3>1. k.status = "Submitted"
        BY <1>10 DEF TurnedDown
      <3>2. /\ Progress(after) = 2 * (k.rejections + 1)
            /\ Progress(k) = 2 * k.rejections + 1
        BY <2>2, <3>1 DEF Progress, Terminal, PaidStatus, RefundedStatus
      <3> QED
        BY <1>4, <3>2
    <2> QED
      BY <1>1, <1>9, <1>10, <2>1, <2>2, WrittenClaim
  <1>11. ASSUME Decided(c)
         PROVE  Progress(after) > Progress(k)
    BY <1>1, <1>9, <1>11, WrittenClaim
  <1> QED
    BY <1>2, <1>5, <1>6, <1>7, <1>10, <1>11

(* Submitting, rejecting, resubmitting and disputing always come to an     *)
(* end: a claim takes at most seven calls from enrolment to its outcome,   *)
(* in whatever order poster, deliverer, admin and cranks make them.        *)
THEOREM ClaimsAlwaysMoveOn == Spec => ClaimsMoveOn
  <1>1. Inv0 /\ [Next]_vars
          => [\A c \in ClaimIds : ClaimExists(c) /\ claims'[c] # claims[c] =>
                ClaimExists(c)'
                  /\ Progress(claims'[c]) > Progress(claims[c])]_vars
    BY ClaimsMoveOnStep
  <1> QED
    BY <1>1, SpecInv0, PTL DEF Spec, ClaimsMoveOn
=============================================================================
