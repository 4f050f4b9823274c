--------------------------- MODULE MCCdp ---------------------------
(* A small instance of the runtime for TLC: one verb on a session.        *)
EXTENDS CdpRuntime

MCVerbs == <<"verb">>
MCCmds == {"page", "tree", "runtime", "frames", "detach", "verb"}
MCBounded == MCCmds \ {"frames", "detach"}

(* Every command is answered, refused or given up, and every caller comes *)
(* back (CDPClient.send, CDPRuntime.submit).                              *)
EveryoneEnds == NobodyWaits /\ CallerEnds

=======================================================================
