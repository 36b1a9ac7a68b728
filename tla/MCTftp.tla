------------------------------- MODULE MCTftp -------------------------------
(* Small instances of Tftp. *)
EXTENDS Tftp

MCCases == {<<"race", FALSE>>, <<"prompt", TRUE>>, <<"patient", TRUE>>}
=============================================================================
