--------------------------- MODULE MCImproveLoop ---------------------------
(***************************************************************************)
(* Small instances of ImproveLoop for TLC.                                 *)
(***************************************************************************)
EXTENDS ImproveLoop, TLC

\* A safe dimension and an extreme one.
MCChanges == {[dim |-> "sequence", extreme |-> FALSE], [dim |-> "price", extreme |-> TRUE]}

MCRoundDims == {"sequence"}

\* A pass, and one failure of each criterion of the bar.
Grade(better, regressed, held) ==
  [better |-> better, regressed |-> regressed, qual_held |-> held]

MCPass    == Grade(TRUE, FALSE, TRUE)
MCResults == {MCPass, Grade(FALSE, FALSE, TRUE), Grade(TRUE, TRUE, TRUE),
              Grade(TRUE, FALSE, FALSE)}
MCTwoResults == {MCPass, Grade(FALSE, FALSE, TRUE)}

MCSymmetry == Permutations(Handlers)
=============================================================================
