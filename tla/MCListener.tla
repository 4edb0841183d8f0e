------------------------------ MODULE MCListener ------------------------------
(* Instance of Listener for TLC. *)
EXTENDS Listener, TLC

CONSTANTS e1, e2

TwoEvents == {e1, e2}

\* One ether is four wei: amounts below and above one ether.
SmallAndLarge == e1 :> 3 @@ e2 :> 6
=============================================================================
