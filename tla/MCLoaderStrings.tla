--------------------------- MODULE MCLoaderStrings ---------------------------
(* LoaderStrings over all short inputs and some around the maximum length, *)
(* which is set to 7.                                                      *)
EXTENDS LoaderStrings

\* The strings over C of n characters.
OfLength(n, C) == [1..n -> C]

MCFileName == BoundedSeq({"/", ".", "-", "l", "i", "b"}, 6)
              \cup OfLength(8, {"/", ".", "-"})

\* The maximum length itself.
LongestFileName == OfLength(7, {"/", ".", "-"})

MCConfig == BoundedSeq({",", "=", "x"}, 7)

NoConfig == {}
=============================================================================
