------------------------------ MODULE MCEscrow ------------------------------
(***************************************************************************)
(* Small instances of the escrow program and of its refinement of          *)
(* AbstractEscrow.  Each .cfg picks the sets that make one family of       *)
(* interleavings happen and keeps the others small.                        *)
(***************************************************************************)
EXTENDS EscrowRefinement, TLC

CONSTANTS admin, poster, worker, helper,   \* users
          t1, t2, c1, c2, c3, m1, m2, pda, none

(* One funded poster, in the first mint. *)
MCPosterFunded == {<<m1, poster>>}
(* The poster and the admin both have money to post with. *)
MCTwoPostersFunded == {<<m1, poster>>, <<m1, admin>>}
(* The poster holds both mints. *)
MCBothMintsFunded == {<<m1, poster>>, <<m2, poster>>}

(* The second mint's fee vault, created out of band as config.rs:107 asks. *)
MCSecondFeeVault == {<<m2, pda>>}
(* ... and also an empty vault of the second mint for the first task, and  *)
(* the worker's account in the second mint.                                *)
MCStrayAtas == {<<m2, pda>>, <<m2, t1>>, <<m2, worker>>}

(* Claim ids are interchangeable: nothing orders them.  So are task ids,   *)
(* where no constant of the instance names one.                            *)
ClaimSymmetry == Permutations(ClaimIds)
IdSymmetry    == Permutations(ClaimIds) \cup Permutations(TaskIds)
=============================================================================
