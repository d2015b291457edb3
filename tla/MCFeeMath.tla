----------------------------- MODULE MCFeeMath ------------------------------
(***************************************************************************)
(* compute_fee_split against its definition by inequalities, on every      *)
(* bounty up to U64_MAX and every fee of a set.                            *)
(***************************************************************************)
EXTENDS FeeMath

CONSTANT FeeBpsInputs

ASSUME FeeInputAssumption == FeeBpsInputs \subseteq 0 .. FEE_BPS_CAP

VARIABLES bounty, fee_bps

Init == bounty = 0 /\ fee_bps \in FeeBpsInputs

(* The next amount, up to the largest. *)
Next == bounty < U64_MAX /\ bounty' = bounty + 1 /\ UNCHANGED fee_bps

Spec == Init /\ [][Next]_<<bounty, fee_bps>>

Split == ComputeFeeSplit(bounty, fee_bps)

(* The split never fails and loses nothing: the fee is the largest whole   *)
(* amount not above the configured share, even where the product exceeds   *)
(* 64 bits, and the deliverer keeps the rest, at least 95% of the bounty.  *)
SplitIsExact ==
    /\ Split.ok
    /\ Split.net + Split.fee = bounty
    /\ Split.fee * BPS_DENOMINATOR <= bounty * fee_bps
    /\ bounty * fee_bps < (Split.fee + 1) * BPS_DENOMINATOR
    /\ 20 * Split.net >= 19 * bounty

(* overview.md:181-182 gives the split the other way round: the net is     *)
(* bounty * (10000 - fee_bps) / 10000, the fee what is left.               *)
SplitAsDocumented ==
    /\ Split.net = (bounty * (BPS_DENOMINATOR - fee_bps)) \div BPS_DENOMINATOR
    /\ Split.fee = bounty - Split.net
=============================================================================
