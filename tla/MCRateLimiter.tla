----------------------------- MODULE MCRateLimiter -----------------------------
(* RateLimiter for TLC. *)
EXTENDS RateLimiter
=============================================================================
