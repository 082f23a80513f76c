----------------------------- MODULE MCRTPSources -----------------------------
(* A small instance of RTPSources: two hosts, one of them with two ports. *)
EXTENDS RTPSources

MCAddress == {[host |-> "h1", port |-> "a"], [host |-> "h1", port |-> "b"],
              [host |-> "h2", port |-> "a"]}
=============================================================================
