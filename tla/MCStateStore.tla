----------------------------- MODULE MCStateStore -----------------------------
(* The store for TLC: three concurrent commands, stateVersion up to four.    *)
EXTENDS StateStore
=============================================================================
