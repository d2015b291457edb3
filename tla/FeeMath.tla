------------------------------ MODULE FeeMath ------------------------------
(***************************************************************************)
(* The fee arithmetic of state.rs.  Amounts are u64 in the program; the    *)
(* product is formed in u128, so only the final `as u64` can lose bits.    *)
(***************************************************************************)
EXTENDS Integers

CONSTANT U64_MAX    \* the largest u64; a run scales it down

ASSUME U64Assumption == U64_MAX \in Nat \ {0}

FEE_BPS_CAP     == 500
BPS_DENOMINATOR == 10000

U64 == 0 .. U64_MAX

(***************************************************************************)
(* compute_fee_split: the fee is the floored quotient cut to 64 bits, the  *)
(* net what is left.  ok is FALSE where checked_sub would return           *)
(* MathOverflow and the instruction would abort.                           *)
(***************************************************************************)
(* Mutants: the product formed in 64 bits; the quotient rounded up.        *)
FeeOfNarrowProduct(bounty, fee_bps) ==
    ((bounty * fee_bps) % (U64_MAX + 1)) \div BPS_DENOMINATOR

FeeOfRoundedUp(bounty, fee_bps) ==
    ((bounty * fee_bps + BPS_DENOMINATOR - 1) \div BPS_DENOMINATOR)
      % (U64_MAX + 1)

FeeOf(bounty, fee_bps) ==
    ((bounty * fee_bps) \div BPS_DENOMINATOR) % (U64_MAX + 1)

ComputeFeeSplit(bounty, fee_bps) ==
    LET fee == FeeOf(bounty, fee_bps)
    IN  [ok |-> fee <= bounty, net |-> bounty - fee, fee |-> fee]

(* The total that initialize_task escrows must itself be a u64. *)
FitsU64(n) == n <= U64_MAX
=============================================================================
