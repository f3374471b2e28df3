--------------------------- MODULE MCWarmup1Sort ----------------------------
(* Warmup1Sort for TLC: up to four lines, with timestamps from four       *)
(* values, so that every order of four distinct timestamps and every      *)
(* placement of a duplicate pair is an input.  The amounts are           *)
(* 5,000,000.00, one cent either way and -1,000,000.00: balances reach    *)
(* exactly 1e9 cents, 9,999,999.99, zero and negative values, and every   *)
(* sum of four stays within TLC's 32-bit integers (amounts up to          *)
(* 9,999,999.99 would not).                                                *)
EXTENDS Warmup1Sort

MCStamps == 1 .. 4
MCAmounts == {500000000, 1, -1, -100000000}
=============================================================================
