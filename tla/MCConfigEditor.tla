--------------------------- MODULE MCConfigEditor ---------------------------
EXTENDS ConfigEditor, TLC

\* Browsers, guests and values are interchangeable.
Symmetry == Permutations(Browsers) \cup Permutations(Guests) \cup Permutations(Vals)
=============================================================================
