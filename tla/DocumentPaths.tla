--------------------------- MODULE DocumentPaths ----------------------------
(***************************************************************************)
(* JSON values and the helpers of src/utils.py that read and write them at *)
(* a dotted path.  A value is tagged with its kind, so that values of all  *)
(* kinds can be compared: [num |-> 9], [str |-> "x"], [list |-> <<...>>],  *)
(* [dict |-> f] with f a function from names to values.  A path is the     *)
(* sequence of its parts.  Booleans, which Python takes for 0 and 1, and   *)
(* fractions are left out.                                                 *)
(***************************************************************************)
EXTENDS SequencesExt

CONSTANTS
  TextOrder,  \* the values in the order of their texts, str(v)
  PartOf      \* <<a, b>> for strings, a a substring of b

Null    == [null |-> 0]
Missing == [missing |-> 0]

Is(value, kind) == kind \in DOMAIN value

EmptyDict == [dict |-> << >>]

TextBefore(a, b) ==
  \E i, j \in DOMAIN TextOrder : i < j /\ TextOrder[i] = a /\ TextOrder[j] = b

----------------------------------------------------------------------------
Has(value, name) == Is(value, "dict") /\ name \in DOMAIN value.dict

Child(value, name) == IF Has(value, name) THEN value.dict[name] ELSE Missing

(* What get_path is at after n parts of the path.                          *)
Walk(value, path) ==
  LET at[n \in 0 .. Len(path)] == IF n = 0 THEN value ELSE Child(at[n - 1], path[n])
  IN  at

GetPath(value, path) == Walk(value, path)[Len(path)]

Fields(value) == IF Is(value, "dict") THEN value.dict ELSE << >>

With(value, name, new) ==
  [dict |-> [n \in DOMAIN Fields(value) \union {name} |->
               IF n = name THEN new ELSE Fields(value)[n]]]

(* A mutant: every mapping on the way is made anew.                        *)
SetPathFresh(value, path, new) ==
  LET from[n \in 0 .. Len(path)] ==
        IF n = 0 THEN new
        ELSE LET i == Len(path) - n + 1
             IN  With(IF i = 1 THEN value ELSE EmptyDict, path[i], from[n - 1])
  IN  from[Len(path)]

(* The document from the n-th part on, counted from the end of the path.   *)
(* What is in the way of the path and not a mapping is replaced by one.    *)
Rebuilt(value, path, new) ==
  LET from[n \in 0 .. Len(path)] ==
        IF n = 0 THEN new
        ELSE LET i == Len(path) - n + 1
             IN  With(Walk(value, path)[i - 1], path[i], from[n - 1])
  IN  from

SetPath(value, path, new) == Rebuilt(value, path, new)[Len(path)]

Without(value, name) == [dict |-> [n \in DOMAIN value.dict \ {name} |-> value.dict[n]]]

(* A mutant: the first part of the path is deleted with all it holds.      *)
DelTop(value, path) ==
  IF Has(value, Head(path)) THEN Without(value, Head(path)) ELSE value

(* The document without the path; del_path also says whether it was there. *)
DelPath(value, path) ==
  LET holder == GetPath(value, Front(path))
  IN  IF Has(holder, Last(path))
        THEN SetPath(value, Front(path), Without(holder, Last(path)))
        ELSE value

Items(value) == {value.list[i] : i \in DOMAIN value.list}

(* str(expected) is a part of a string, or expected is in the container; a *)
(* list or a mapping cannot be looked up in a mapping (TypeError).         *)
ContainsValue(actual, expected) ==
  CASE Is(actual, "list") -> expected \in Items(actual)
    [] Is(actual, "str")  -> <<expected, actual>> \in PartOf
    [] Is(actual, "dict") ->
         /\ ~Is(expected, "list") /\ ~Is(expected, "dict")
         /\ \E n \in DOMAIN actual.dict : expected \in {[str |-> n], actual.dict[n]}
    [] OTHER -> FALSE
=============================================================================
