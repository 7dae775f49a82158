------------------------------- MODULE MCCache -------------------------------
(* Cache on a fetched key and a plain key of one namespace, and a cap that  *)
(* one entry fills.                                                         *)
EXTENDS Cache, TLC

CONSTANTS a, p, c1, c2, c3

MCKeys == {a}
MCPlain == {p}
MCNamespaces == {{a, p}}
MCCallers == {c1, c2, c3}
CallerSymmetry == Permutations(MCCallers)
==============================================================================
