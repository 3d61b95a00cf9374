----------------------------- MODULE MCLiveHand -----------------------------
(***************************************************************************)
(* Model-checking instance of LiveHand.                                    *)
(***************************************************************************)
EXTENDS LiveHand

=============================================================================
