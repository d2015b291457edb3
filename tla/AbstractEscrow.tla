--------------------------- MODULE AbstractEscrow ---------------------------
(***************************************************************************)
(* What the escrow promises, without counters, clocks, token accounts or   *)
(* roles.  A deal is money held for some slots at a fixed bounty; a slot   *)
(* is taken once and decided once, paid or returned, for exactly one       *)
(* bounty out of its own deal; what is held leaves otherwise only when the *)
(* deal ends, and it ends only with every taken slot decided.              *)
(***************************************************************************)
EXTENDS Integers, FiniteSets

CONSTANTS Parties, DealIds, SlotIds, None

VARIABLES deals,   \* deal id -> its terms and whether it is still open
          slots,   \* slot id -> the deal, who took it, and the outcome
          held     \* deal id -> the money held in trust for it

dealVars == <<deals, slots, held>>

Deal == [poster : Parties, bounty : Nat \ {0}, size : Nat \ {0},
         open : BOOLEAN]
Outcomes == {"paid", "returned"}
Slot == [deal : DealIds, deliverer : Parties,
         outcome : {"pending"} \cup Outcomes]

SlotsOf(d)   == {s \in SlotIds : slots[s] # None /\ slots[s].deal = d}
DecidedOf(d) == {s \in SlotsOf(d) : slots[s].outcome \in Outcomes}

Open(d) == deals[d] # None /\ deals[d].open

Init ==
    /\ deals = [d \in DealIds |-> None]
    /\ slots = [s \in SlotIds |-> None]
    /\ held = [d \in DealIds |-> 0]

(* A deal starts with all the money its slots can ever cost.               *)
Fund(d) ==
    /\ deals[d] = None
    /\ deals'[d] \in Deal
    /\ deals'[d].open
    /\ deals' = [deals EXCEPT ![d] = deals'[d]]
    /\ held' = [held EXCEPT ![d] = deals'[d].bounty * deals'[d].size]
    /\ UNCHANGED slots

Withdraw(d) ==
    /\ Open(d)
    /\ SlotsOf(d) = {}
    /\ deals' = [deals EXCEPT ![d] = None]
    /\ held' = [held EXCEPT ![d] = 0]
    /\ UNCHANGED slots

Take(d, s, party) ==
    /\ Open(d)
    /\ slots[s] = None
    /\ Cardinality(SlotsOf(d)) < deals[d].size
    /\ party # deals[d].poster
    /\ slots' = [slots EXCEPT ![s] = [deal |-> d, deliverer |-> party,
                                      outcome |-> "pending"]]
    /\ UNCHANGED <<deals, held>>

Decide(s, outcome) ==
    /\ slots[s] # None
    /\ slots[s].outcome = "pending"
    /\ LET d == slots[s].deal
       IN  /\ Open(d)
           /\ held[d] >= deals[d].bounty
           /\ held' = [held EXCEPT ![d] = @ - deals[d].bounty]
    /\ slots' = [slots EXCEPT ![s].outcome = outcome]
    /\ UNCHANGED deals

(* Anyone may add to what is held; nobody is owed it.                      *)
Give(d) ==
    /\ Open(d)
    /\ held'[d] > held[d]
    /\ held' = [held EXCEPT ![d] = held'[d]]
    /\ UNCHANGED <<deals, slots>>

End(d) ==
    /\ Open(d)
    /\ DecidedOf(d) = SlotsOf(d)
    /\ deals' = [deals EXCEPT ![d].open = FALSE]
    /\ held' = [held EXCEPT ![d] = 0]
    /\ UNCHANGED slots

Next ==
    \/ \E d \in DealIds :
         \/ Fund(d) \/ Withdraw(d) \/ Give(d) \/ End(d)
         \/ \E s \in SlotIds, party \in Parties : Take(d, s, party)
    \/ \E s \in SlotIds, outcome \in Outcomes : Decide(s, outcome)

Spec == Init /\ [][Next]_dealVars
=============================================================================
