---------------------------- MODULE MCTailVendor ----------------------------
(* TailVendor for TLC: two core markets share a limit of one order, a touch   *)
(* market has its own.                                                        *)
EXTENDS TailVendor

CONSTANTS a, b, c

MCTokens == {a, b, c}
MCTouch == {c}
MCScopes == {{a, b}, {c}}
MCLimit(s) == 1
=============================================================================
