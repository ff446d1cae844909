------------------------------ MODULE MCReports ------------------------------
(* Constants and symmetry for the model checking of Reports.  Two of four    *)
(* earnings read the same, and one cannot be read.                           *)
EXTENDS Reports

CONSTANTS e1, e2, e3, e4, i1, i2, g1, g2

TheEarnings   == {e1, e2, e3, e4}
TheWording    == [e \in TheEarnings |-> CASE e = e3 -> "other" [] e = e4 -> "bad" [] OTHER -> "same"]
TheReadable   == {e1, e2, e3}
TheStatements == {{e1, e3, e4} \X {"plain"}, {e1, e2} \X {"plain"}, {<<e2, "ref">>}}
TwoImporters  == {i1, i2}
TwoGenerators == {g1, g2}
Symmetry      == Permutations(Importers) \cup Permutations(Generators)
=============================================================================
