--------------------------- MODULE MCIndexManager ---------------------------
(* Model checking of IndexManager on small instances.                      *)
EXTENDS IndexManager, TLC

CONSTANTS d1, d2, d3

DocumentIds == {d1, d2, d3}
FieldNames == {"a", "b"}
IndexNames == {<<"a">>, <<"b">>, <<"a", "b">>}

(* A list, the string that is its repr, and a dictionary filled in either  *)
(* order, which JSON writes in one.                                        *)
MixedValues ==
  {Value("list", FALSE, "[0]", "[0]"), Value("[0]", TRUE, "'[0]'", "'[0]'"),
   Value("dict", FALSE, "{a, b}", "{a, b}"), Value("dict", FALSE, "{b, a}", "{a, b}")}

IdSymmetry == Permutations(Ids)
=============================================================================
