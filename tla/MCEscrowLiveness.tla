-------------------------- MODULE MCEscrowLiveness --------------------------
(***************************************************************************)
(* Small instances of the liveness specifications.  MaxTime is above every *)
(* time at which a timer can still be running, so it cuts nothing off.     *)
(***************************************************************************)
EXTENDS EscrowLiveness

CONSTANTS admin, poster, worker, t1, t2, c1, c2, m1, pda, none

MCPosterFunded == {<<m1, poster>>}

(* The account the poster may close, and anyone may create again.          *)
MCPosterAta == {<<m1, poster>>}
=============================================================================
