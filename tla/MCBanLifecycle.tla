--------------------------- MODULE MCBanLifecycle ---------------------------
(* One peer and a clock of a few seconds.                                  *)
EXTENDS BanLifecycle
=============================================================================
