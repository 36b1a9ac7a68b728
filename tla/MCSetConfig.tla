---------------------------- MODULE MCSetConfig ----------------------------
(* A small instance of SetConfig. *)
EXTENDS SetConfig

MCBoard == {"a", "b"}
\* Two connections, one of them perhaps to whoever answers; two writes on one
\* connection; and clicks at any time.
MCUsers ==
  {[careful |-> TRUE, macs |-> {"a", Bcast}, connects |-> 2, writes |-> 1],
   [careful |-> TRUE, macs |-> {"a"}, connects |-> 1, writes |-> 2],
   [careful |-> FALSE, macs |-> {"a", NoMac}, connects |-> 2, writes |-> 1]}
=============================================================================
