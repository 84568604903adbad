---------------------------- MODULE MCCacheEvents ----------------------------
(* Two notes and one stream: edits, failures and restarts, two in all.     *)
EXTENDS CacheEvents, TLC

CONSTANTS p1, p2, s1

=============================================================================
