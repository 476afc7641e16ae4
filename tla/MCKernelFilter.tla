--------------------------- MODULE MCKernelFilter ---------------------------
(* Files of up to three names: "a" and "bcd", whose last letter is cut.       *)
EXTENDS KernelFilter

MCNames == {<<2>>, <<3, 4, 5>>}
MCFiles == UNION {[1..n -> MCNames] : n \in 0..3}
MCListed == {<<1, 2>>, <<1, 2, 1, 2>>, <<1, 2, 1>>}
=============================================================================
