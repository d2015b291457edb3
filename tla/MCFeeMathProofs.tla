-------------------------- MODULE MCFeeMathProofs ---------------------------
(***************************************************************************)
(* The fee run for every width of the amounts and every fee below the cap. *)
(***************************************************************************)
EXTENDS MCFeeMath, FeeMathProofs

FeeInv == bounty \in U64 /\ fee_bps \in FeeBpsInputs

LEMMA InitFeeInv ==
    ASSUME Init
    PROVE  FeeInv
  BY U64Assumption DEF Init, FeeInv, U64

LEMMA FeeInvStep ==
    ASSUME FeeInv, [Next]_<<bounty, fee_bps>>
    PROVE  FeeInv'
  BY U64Assumption DEF FeeInv, Next, U64

LEMMA FeeInvSplits ==
    ASSUME FeeInv
    PROVE  SplitIsExact
  <1>1. bounty \in U64 /\ fee_bps \in 0 .. FEE_BPS_CAP
    BY FeeInputAssumption DEF FeeInv
  <1>2. bounty \in Nat
    BY <1>1 DEF U64
  <1>3. /\ Split.ok
        /\ Split.net \in Nat /\ Split.fee \in Nat
        /\ Split.net + Split.fee = bounty
        /\ Split.fee * BPS_DENOMINATOR <= bounty * fee_bps
        /\ bounty * fee_bps < (Split.fee + 1) * BPS_DENOMINATOR
        /\ 20 * Split.fee <= bounty
    BY <1>1, FeeSplitIsExact DEF Split
  <1> HIDE DEF Split
  <1>4. 20 * Split.net >= 19 * bounty
    BY <1>2, <1>3
  <1> QED
    BY <1>3, <1>4 DEF SplitIsExact

(* compute_fee_split never fails, loses nothing, floors the fee and leaves *)
(* the deliverer 95% at least, for every u64 bounty (state.rs:137-145).    *)
THEOREM EverySplitIsExact == Spec => []SplitIsExact
  <1>1. Init => FeeInv
    BY InitFeeInv
  <1>2. FeeInv /\ [Next]_<<bounty, fee_bps>> => FeeInv'
    BY FeeInvStep
  <1>3. FeeInv => SplitIsExact
    BY FeeInvSplits
  <1> QED
    BY <1>1, <1>2, <1>3, PTL DEF Spec
=============================================================================
