------------------------- MODULE MCBitStreamWriter -------------------------
(***************************************************************************)
(* An instance of BitStreamWriter for TLC: a ring of two bytes of three    *)
(* bits behind a cache of four, in which one field that crosses a byte is  *)
(* patched.                                                                *)
(***************************************************************************)
EXTENDS BitStreamWriter

MCFields == {<<2, 2>>}
=============================================================================
