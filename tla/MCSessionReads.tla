--------------------------- MODULE MCSessionReads ---------------------------
(* Two commands of one user and an execd, two workers and one reader.          *)
EXTENDS SessionReads, TLC

CONSTANTS c1, c2, x1, alice, execd

MCClients == {c1, c2, x1}
MCUserOf == c1 :> alice @@ c2 :> alice @@ x1 :> execd
MCCommands == {c1, c2}
MCCommandsUserOf == c1 :> alice @@ c2 :> alice
MCPair == {c1, x1}
MCPairUserOf == c1 :> alice @@ x1 :> execd

\* Workers are interchangeable, and so are the commands of one user.
Symmetry == Permutations(Workers) \cup Permutations({c1, c2})
SymmetryPair == Permutations(Workers)
=============================================================================
