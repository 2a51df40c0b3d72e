------------------------------ MODULE Wrapping ------------------------------
(***************************************************************************)
(* The arithmetic of sequence numbers: u32 values that wrap around, and    *)
(* the window test in_wrapped_range of utils.rs.                           *)
(*                                                                         *)
(* SEQ_SPACE is the number of values of a sequence number: 2^32 in the     *)
(* build, a small number in the checked instances.  The operators are      *)
(* those of Rust on operands that are already in SeqNum, so one            *)
(* conditional subtraction is enough and no division is needed.            *)
(***************************************************************************)
EXTENDS Integers

CONSTANT SEQ_SPACE

ASSUME SeqSpaceAssumption == SEQ_SPACE \in Nat \ {0}

SeqNum == 0 .. SEQ_SPACE - 1

wrapping_add(a, b) == IF a + b < SEQ_SPACE THEN a + b ELSE a + b - SEQ_SPACE

wrapping_sub(a, b) == IF b <= a THEN a - b ELSE a - b + SEQ_SPACE

in_wrapped_range(l, r, num) ==
    \/ r < l /\ (num >= l \/ num < r)
    \/ num >= l /\ num < r
=============================================================================
