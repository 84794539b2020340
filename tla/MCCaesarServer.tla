--------------------------- MODULE MCCaesarServer ---------------------------
(* Small instances of CaesarServer for TLC. *)
EXTENDS CaesarServer, TLC

CONSTANTS c1, c2, c3

TwoClients == {c1, c2}
ThreeClients == {c1, c2, c3}
Symmetry == Permutations(ThreeClients)

\* "z\n": the last letter wraps around, the newline stays.
OneText == {<<122, 10>>}
\* "zZ\n", which wraps around in both cases, and ":n\n", whose encryption reads ":q\n".
TwoTexts == {<<122, 90, 10>>, <<58, 110, 10>>}
=============================================================================
