-------------------------------- MODULE MCOsi -------------------------------
(* Instance of Osi for TLC. *)
EXTENDS Osi

ShortLiterals ==
  [answer |-> <<"f", "r">>, fault |-> <<"f">>, reboot |-> <<"r">>]

=============================================================================
