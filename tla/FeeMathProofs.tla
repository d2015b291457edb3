--------------------------- MODULE FeeMathProofs ----------------------------
(***************************************************************************)
(* compute_fee_split for every u64 bounty and every fee up to the cap,     *)
(* whatever the width of the machine integer.                              *)
(***************************************************************************)
EXTENDS FeeMath, TLAPS

(* The product grows with the fee: at most 500 parts of 10000.             *)
LEMMA ProductBound ==
    ASSUME NEW bounty \in Nat, NEW fee_bps \in 0 .. FEE_BPS_CAP
    PROVE  /\ bounty * fee_bps \in Nat
           /\ bounty * fee_bps <= bounty * 500
  <1>1. fee_bps \in Nat /\ 500 - fee_bps \in Nat
    BY DEF FEE_BPS_CAP
  <1>2. /\ bounty * fee_bps \in Nat
        /\ bounty * (500 - fee_bps) \in Nat
    BY <1>1
  <1>3. bounty * 500 = bounty * fee_bps + bounty * (500 - fee_bps)
    BY <1>1
  <1> QED
    BY <1>1, <1>2, <1>3

(* What `\div` by the denominator gives.                                   *)
LEMMA FloorOfProduct ==
    ASSUME NEW p \in Nat
    PROVE  /\ p \div BPS_DENOMINATOR \in Nat
           /\ (p \div BPS_DENOMINATOR) * 10000 <= p
           /\ p < ((p \div BPS_DENOMINATOR) + 1) * 10000
  BY DEF BPS_DENOMINATOR

(* The `as u64` cut keeps a number that fits.                              *)
LEMMA CutKeepsU64 ==
    ASSUME NEW n \in U64
    PROVE  n % (U64_MAX + 1) = n
  BY U64Assumption DEF U64

(* The cut of the quotient to 64 bits never loses a bit, the subtraction   *)
(* never fails, net and fee add up to the bounty, the fee is the floor of  *)
(* the configured share and at most a twentieth (state.rs:137-145).        *)
THEOREM FeeSplitIsExact ==
    ASSUME NEW bounty \in U64, NEW fee_bps \in 0 .. FEE_BPS_CAP
    PROVE  LET split == ComputeFeeSplit(bounty, fee_bps)
           IN  /\ split.ok
               /\ split.net \in Nat /\ split.fee \in Nat
               /\ split.net + split.fee = bounty
               /\ split.fee * BPS_DENOMINATOR <= bounty * fee_bps
               /\ bounty * fee_bps < (split.fee + 1) * BPS_DENOMINATOR
               /\ 20 * split.fee <= bounty
  <1> DEFINE p == bounty * fee_bps
             q == p \div BPS_DENOMINATOR
  <1>1. bounty \in Nat /\ bounty <= U64_MAX
    BY U64Assumption DEF U64
  <1>2. p \in Nat /\ p <= bounty * 500
    BY <1>1, ProductBound
  <1>3. q \in Nat /\ q * 10000 <= p /\ p < (q + 1) * 10000
    BY <1>2, FloorOfProduct
  <1>4. 20 * q <= bounty
    <2> HIDE DEF p, q
    <2> QED BY <1>1, <1>2, <1>3
  <1>5. q \in U64
    <2> HIDE DEF p, q
    <2> QED BY <1>1, <1>3, <1>4, U64Assumption DEF U64
  <1>6. FeeOf(bounty, fee_bps) = q
    BY <1>5, CutKeepsU64 DEF FeeOf
  <1>7. (q <= bounty) = TRUE
    BY <1>1, <1>3, <1>4
  <1>8. ComputeFeeSplit(bounty, fee_bps)
          = [ok |-> TRUE, net |-> bounty - q, fee |-> q]
    BY <1>6, <1>7, Zenon DEF ComputeFeeSplit
  <1> HIDE DEF p, q
  <1>9. /\ bounty - q \in Nat
        /\ (bounty - q) + q = bounty
        /\ q * BPS_DENOMINATOR <= p
        /\ p < (q + 1) * BPS_DENOMINATOR
    BY <1>1, <1>2, <1>3, <1>4, <1>7 DEF BPS_DENOMINATOR
  <1>10. /\ ComputeFeeSplit(bounty, fee_bps).ok
         /\ ComputeFeeSplit(bounty, fee_bps).net = bounty - q
         /\ ComputeFeeSplit(bounty, fee_bps).fee = q
    BY <1>8
  <1> DEFINE split == ComputeFeeSplit(bounty, fee_bps)
  <1> HIDE DEF split
  <1>11. split.ok /\ split.net = bounty - q /\ split.fee = q
    BY <1>10 DEF split
  <1>12. /\ split.net \in Nat /\ split.fee \in Nat
         /\ split.net + split.fee = bounty
         /\ 20 * split.fee <= bounty
    BY <1>3, <1>4, <1>9, <1>11
  <1>13. /\ split.fee * BPS_DENOMINATOR <= p
         /\ p < (split.fee + 1) * BPS_DENOMINATOR
    BY <1>9, <1>11
  <1> QED
    BY <1>11, <1>12, <1>13 DEF p, split
=============================================================================
