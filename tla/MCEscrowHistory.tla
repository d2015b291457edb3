-------------------------- MODULE MCEscrowHistory --------------------------
(***************************************************************************)
(* Small instances of the escrow program with its history.                 *)
(***************************************************************************)
EXTENDS MCEscrow, EscrowHistory

(* The worker's and the poster's accounts, which they may close and anyone *)
(* may create again.                                                       *)
MCUserAtas == {<<m1, poster>>, <<m1, worker>>}
=============================================================================
