---------------------------- MODULE MCSeamCheck -----------------------------
(* Model-checking instance of SeamCheck: three libraries, one of the seam, *)
(* one forbidden, one of neither kind, and lists that make branches,       *)
(* repetitions, diamonds and circles.                                      *)
EXTENDS SeamCheck

CONSTANTS engine, gui, other, seamSymbol, platformSymbol, strayMember

Lists == {<<>>, <<other>>, <<other, other>>, <<engine, other>>,
          <<other, gui>>, <<gui, engine>>}
SeamOfEngine == engine :> {seamSymbol}
=============================================================================
