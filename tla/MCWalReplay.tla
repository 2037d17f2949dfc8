----------------------------- MODULE MCWalReplay -----------------------------
(* Record sizes around a chunk of three bytes.                             *)
EXTENDS WalReplay, TLC

=============================================================================
