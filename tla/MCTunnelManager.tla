-------------------------- MODULE MCTunnelManager --------------------------
(* The instances of TunnelManager that TLC checks: settings requests one   *)
(* after the other, or two at once, and run identities for every run that  *)
(* can live then.                                                          *)
EXTENDS TunnelManager
=============================================================================
