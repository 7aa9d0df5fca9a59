---------------------------- MODULE TreeBalance ----------------------------
(***************************************************************************)
(* The balance arithmetic of the AVL rotations of src/src/tree.cpp.  A     *)
(* node's balance is the height of its right subtree minus that of its     *)
(* left one.  Before a rotation a is the balance of the upper node and b   *)
(* that of the child that moves up; the operators give the two balances    *)
(* the code stores, for the child that is now on top and for the node that *)
(* went down, without looking at any height.                               *)
(***************************************************************************)
EXTENDS Integers

RotateLeftTop(a, b) ==
    IF b <= 0
    THEN IF a >= 1 THEN b - 1 ELSE a + b - 2
    ELSE IF a <= b THEN a - 2 ELSE b - 1

RotateLeftDown(a, b) == IF b <= 0 THEN a - 1 ELSE a - b - 1

RotateRightTop(a, b) ==
    IF b <= 0
    THEN IF b > a THEN b + 1 ELSE a + 2
    ELSE IF a <= -1 THEN b + 1 ELSE a + b + 2

RotateRightDown(a, b) == IF b <= 0 THEN a - b + 1 ELSE a + 1

Balanced(b) == b \in -1 .. 1
=============================================================================
