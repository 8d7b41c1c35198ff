------------------------------- MODULE MCBTest -------------------------------
(***************************************************************************)
(* BTest with the table of decl.c, or the part of it with the puzzles in   *)
(* use.                                                                    *)
(***************************************************************************)
EXTENDS BTest

CONSTANT Puzzles      \* names of the puzzles in use, see btest.c:52-53

decl == << Record("bitXor", 2, TMin, TMax, 1),
           Record("tmin", 0, TMin, TMax, 1),
           Record("isTmax", 1, TMin, TMax, 1),
           Record("allOddBits", 1, TMin, TMax, 2),
           Record("negate", 1, TMin, TMax, 2),
           Record("isAsciiDigit", 1, TMin, TMax, 3),
           Record("conditional", 3, TMin, TMax, 3),
           Record("isLessOrEqual", 2, TMin, TMax, 3),
           Record("logicalNeg", 1, TMin, TMax, 4),
           Record("howManyBits", 1, TMin, TMax, 4),
           Record("floatScale2", 1, 1, 1, 4),
           Record("floatFloat2Int", 1, 1, 1, 4),
           Record("floatPower2", 1, 1, 1, 4) >>

MCTestSet == SelectSeq(decl, LAMBDA r : r.name \in Puzzles)

=============================================================================
