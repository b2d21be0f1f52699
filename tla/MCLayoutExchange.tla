--------------------------- MODULE MCLayoutExchange --------------------------
(***************************************************************************)
(* An instance of LayoutExchange: numbers of 12 bits, and bos of whole     *)
(* pages of 512 bytes, the smallest of one page.                           *)
(***************************************************************************)
EXTENDS LayoutExchange

MCBoSize ==
  [n \in 0 .. Word - 1 |-> IF n = 0 THEN 512 ELSE 512 * ((n + 511) \div 512)]
=============================================================================
