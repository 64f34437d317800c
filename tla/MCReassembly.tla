---------------------------- MODULE MCReassembly ---------------------------
(***************************************************************************)
(* Finite instances of Reassembly: an object of one message (s), one whose *)
(* size is a multiple of the message size (x), and two that leave a rest   *)
(* (y, z).                                                                 *)
(***************************************************************************)
EXTENDS Reassembly

CONSTANTS c1, c2, s, x, y, z

MCSize == [nm \in Name |-> IF nm = s THEN 2 ELSE IF nm = x THEN 4
                           ELSE IF nm = y THEN 5 ELSE 3]
=============================================================================
