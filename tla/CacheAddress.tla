---------------------------- MODULE CacheAddress ----------------------------
(***************************************************************************)
(* How the cache simulator of src/cachelab/csim.c takes an address apart.  *)
(*                                                                         *)
(* Name_Variant is a wrong form of Name that no action uses.               *)
(*                                                                         *)
(* An address is a W-bit number.  s + b = 0 is left out: the mask of the   *)
(* tag is then computed with a shift by the width of an int and comes out  *)
(* as 0, so that all blocks look alike.  So is s > 5, where the index of a *)
(* set runs past initSet[32].                                              *)
(***************************************************************************)
EXTENDS Integers

CONSTANTS W,      \* bits of an unsigned int
          s, b    \* the command line: set bits, block bits

ASSUME AddressAssumption == /\ W \in Nat /\ s \in 0 .. 5 /\ b \in Nat
                            /\ 0 < s + b /\ s + b < W

(* 1 << n, an int shifted.                                                 *)
Shifted[n \in Nat] == IF n = 0 THEN 1 ELSE 2 * Shifted[n - 1]

Addr == 0 .. Shifted[W] - 1

NumSets == Shifted[s]

(* A shift to the right by b, and by s + b, is a division by these.        *)
BlockBytes == Shifted[b]

WayBytes == Shifted[s + b]

(* A shift of an int by 2W - (s + b) bits is one by its remainder mod W.   *)
Mask == Shifted[(2 * W - (s + b)) % W]

SetIndex(a) == (a \div BlockBytes) % NumSets

Tag_OneBitShort(a) == (a \div WayBytes) % (Mask \div 2)

Tag(a) == (a \div WayBytes) % Mask

Sets == {SetIndex(a) : a \in Addr}

Tags == {Tag(a) : a \in Addr}
=============================================================================
