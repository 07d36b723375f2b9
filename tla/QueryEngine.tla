---------------------------- MODULE QueryEngine -----------------------------
(***************************************************************************)
(* The query evaluation of src/engine.py.  A query is the sequence of the  *)
(* items of its mapping, each a record:                                    *)
(*   [and |-> <<queries>>], [or |-> <<queries>>], [not |-> query],         *)
(*   [malformed |-> name], an $and or $or of something else than a list,   *)
(*   [field |-> path, equals |-> value] or                                 *)
(*   [field |-> path, tests |-> <<<<operator, value>>, ...>>].             *)
(* An evaluation answers yes or no, or raises: QueryError, or another      *)
(* ValueError.  A TypeError is caught and answers no.                      *)
(***************************************************************************)
EXTENDS DocumentPaths

CONSTANTS
  Queries,    \* the queries that are asked, with those they are made of
  Nesting,    \* how deep each of them is nested
  MaxNesting, \* how deep queries, and lists, may be nested
  Numerals    \* the number int reads in each string that it takes for one

(* The queries a query asks in turn.                                       *)
Parts(item) ==
  IF "and" \in DOMAIN item THEN ToSet(item.and)
  ELSE IF "or" \in DOMAIN item THEN ToSet(item.or)
  ELSE IF "not" \in DOMAIN item THEN {item.not}
  ELSE {}

SubQueries(query) == UNION {Parts(query[i]) : i \in DOMAIN query}

ASSUME NestingAssumption ==
  /\ Nesting \in [Queries -> 0 .. MaxNesting]
  /\ \A query \in Queries : \A q \in SubQueries(query) :
       q \in Queries /\ Nesting[q] < Nesting[query]
ASSUME MaxNestingAssumption == MaxNesting \in Nat

Test(b) == IF b THEN "yes" ELSE "no"

(* all, any and a loop that returns early: the first outcome that is not   *)
(* like the others decides.                                                *)
Throughout(outcome, outcomes) ==
  LET others == {i \in DOMAIN outcomes : outcomes[i] # outcome}
  IN  IF others = {} THEN outcome ELSE outcomes[Min(others)]

(* The operator < of Python, of values that are not lists with a         *)
(* difference at some place.                                               *)
PlainLess(a, b) ==
  CASE Is(a, "num") /\ Is(b, "num") -> Test(a.num < b.num)
    [] Is(a, "str") /\ Is(b, "str") -> Test(TextBefore(a, b))
    [] Is(a, "list") /\ Is(b, "list") -> Test(Len(a.list) < Len(b.list))
    [] OTHER -> "TypeError"

Differences(a, b) ==
  IF Is(a, "list") /\ Is(b, "list")
    THEN {i \in DOMAIN a.list \intersect DOMAIN b.list : a.list[i] # b.list[i]}
    ELSE {}

(* The pair that decides: lists are compared at their first difference,    *)
(* and lists that stand there in turn.                                     *)
Deciding(a, b) ==
  LET pair[n \in 0 .. MaxNesting] ==
        IF n = 0 THEN <<a, b>>
        ELSE LET differ == Differences(pair[n - 1][1], pair[n - 1][2])
             IN  IF differ = {} THEN pair[n - 1]
                 ELSE <<pair[n - 1][1].list[Min(differ)], pair[n - 1][2].list[Min(differ)]>>
  IN  pair[MaxNesting]

(* The operator < of Python.                                               *)
Less(a, b) ==
  IF Is(a, "list") /\ Is(b, "list") THEN PlainLess(Deciding(a, b)[1], Deciding(a, b)[2])
  ELSE PlainLess(a, b)

(* <= and >= ask for < only where the values differ.                       *)
LessOrEqual(a, b) ==
  IF a = b /\ \E kind \in {"num", "str", "list"} : Is(a, kind) THEN "yes" ELSE Less(a, b)

(* The operator in of Python: mappings look for a name, strings for a part.*)
In(item, container) ==
  CASE Is(container, "list") -> Test(item \in Items(container))
    [] Is(container, "str") /\ Is(item, "str") -> Test(<<item, container>> \in PartOf)
    [] Is(container, "dict") /\ (Is(item, "str") \/ Is(item, "num") \/ item = Null) ->
         Test(\E n \in DOMAIN container.dict : item = [str |-> n])
    [] OTHER -> "TypeError"

Negated(outcome) == CASE outcome = "yes" -> "no" [] outcome = "no" -> "yes" [] OTHER -> outcome

Falsy == {Null, [num |-> 0], [str |-> ""], [list |-> << >>], EmptyDict}

SizeOf(value) ==
  CASE Is(value, "list") -> Len(value.list)
    [] Is(value, "str")  -> Len(value.str)
    [] OTHER -> Cardinality(DOMAIN value.dict)

(* int(expected): of a string that is no number a ValueError.              *)
SizeIs(actual, expected) ==
  CASE Is(expected, "num") -> Test(SizeOf(actual) = expected.num)
    [] Is(expected, "str") ->
         IF expected \in DOMAIN Numerals THEN Test(SizeOf(actual) = Numerals[expected])
         ELSE "raises"
    [] OTHER -> "TypeError"

(* A mutant: a list is looked up as a whole.                               *)
WholeIn(actual, expected) == In(actual, expected)

(* any(item in expected) of a list, actual in expected otherwise.          *)
AnyIn(actual, expected) ==
  IF Is(actual, "list")
    THEN Throughout("no", [i \in DOMAIN actual.list |-> In(actual.list[i], expected)])
    ELSE In(actual, expected)

Compare(actual, expected, operator) ==
  IF operator = "$exists" THEN Test((expected \notin Falsy) = (actual # Missing))
  ELSE IF actual = Missing THEN Test(operator \in {"$ne", "$nin"})
  ELSE CASE operator = "$eq"  -> Test(actual = expected)
         [] operator = "$ne"  -> Test(actual # expected)
         [] operator = "$gt"  -> Less(expected, actual)
         [] operator = "$gte" -> LessOrEqual(expected, actual)
         [] operator = "$lt"  -> Less(actual, expected)
         [] operator = "$lte" -> LessOrEqual(actual, expected)
         [] operator = "$in"  -> AnyIn(actual, expected)
         [] operator = "$nin" -> Negated(AnyIn(actual, expected))
         [] operator = "$contains" -> Test(ContainsValue(actual, expected))
         [] operator = "$all" ->
              IF ~Is(actual, "list") THEN "no"
              ELSE IF Is(expected, "list") THEN Test(Items(expected) \subseteq Items(actual))
              ELSE "TypeError"
         [] operator = "$size" ->
              IF \E kind \in {"list", "str", "dict"} : Is(actual, kind)
                THEN SizeIs(actual, expected) ELSE "no"
         [] operator = "$regex" -> Test(Is(actual, "str") /\ <<expected, actual>> \in PartOf)
         [] OTHER -> "raises"

(* Operands of $all are lists here: the letters of a string and the names  *)
(* of a mapping, over which Python would go, are left out.                 *)

(* A condition: every test in turn, a TypeError being a failed one.        *)
Condition(actual, tests) ==
  LET outcome(i) == Compare(actual, tests[i][2], tests[i][1])
  IN  Throughout("yes", [i \in DOMAIN tests |->
                           IF outcome(i) = "TypeError" THEN "no" ELSE outcome(i)])

Answers(matches, queries) == [k \in DOMAIN queries |-> matches[queries[k]]]

(* One item of a query, given what matches says of its parts.              *)
Outcome(matches, document, item) ==
  IF "and" \in DOMAIN item
    THEN Throughout("yes", Answers(matches, item.and))
  ELSE IF "or" \in DOMAIN item
    THEN Throughout("no", Answers(matches, item.or))
  ELSE IF "not" \in DOMAIN item THEN Negated(matches[item.not])
  ELSE IF "malformed" \in DOMAIN item THEN "no"
  ELSE IF "equals" \in DOMAIN item
    THEN Test(GetPath(document, item.field) = item.equals)
  ELSE Condition(GetPath(document, item.field), item.tests)

(* matches: every item of the query in turn.                               *)
Matching(document) ==
  LET matches[query \in Queries] ==
        Throughout("yes", [i \in DOMAIN query |-> Outcome(matches, document, query[i])])
  IN  matches

Matches(document, query) == Matching(document)[query]

(* The documents that match, in their order.                               *)
Among(documents, query) ==
  LET among[n \in 0 .. Len(documents)] ==
        IF n = 0 THEN << >>
        ELSE IF Matches(documents[n], query) = "yes" THEN Append(among[n - 1], documents[n])
        ELSE among[n - 1]
  IN  among

Matched(documents, query) == Among(documents, query)[Len(documents)]

----------------------------------------------------------------------------
(* What is shown of a document after n of the fields.                      *)
Shown(document, fields) ==
  LET shown[n \in 0 .. Len(fields)] ==
        IF n = 0 THEN EmptyDict
        ELSE IF GetPath(document, fields[n]) = Missing THEN shown[n - 1]
        ELSE SetPath(shown[n - 1], fields[n], GetPath(document, fields[n]))
  IN  shown

(* A mutant: only what is asked for is projected, not the identifier.      *)
ProjectNoId(document, fields) ==
  IF fields = << >> THEN document ELSE Shown(document, fields)[Len(fields)]

Project(document, fields) ==
  LET result == Shown(document, fields)[Len(fields)]
  IN  IF fields = << >> THEN document
      ELSE IF Has(document, "_id") /\ ~Has(result, "_id")
        THEN With(result, "_id", document.dict["_id"])
      ELSE result

----------------------------------------------------------------------------
(* Sorting: a sort key is a path and a direction, asc or desc.             *)

(* The outcome of compare for one key, in ascending direction.             *)
FieldOrder(a, b) ==
  IF (a = Missing) # (b = Missing) THEN IF a = Missing THEN 1 ELSE -1
  ELSE IF a = b THEN 0
  ELSE IF Less(a, b) = "yes" \/ (Less(a, b) = "TypeError" /\ TextBefore(a, b)) THEN -1 ELSE 1

DocumentOrder(left, right, sort) ==
  LET outcome(i) == LET o == FieldOrder(GetPath(left, sort[i].field), GetPath(right, sort[i].field))
                    IN  IF sort[i].direction = "desc" THEN -o ELSE o
  IN  Throughout(0, [i \in DOMAIN sort |-> outcome(i)])

(* A mutant: a document goes before those that are equal to it.            *)
PlacedBeforeEquals(sorted, document, sort) ==
  InsertAt(sorted,
           Min({Len(sorted) + 1} \union
               {i \in DOMAIN sorted : DocumentOrder(sorted[i], document, sort) >= 0}),
           document)

(* sorted of Python: a document goes before the first that is greater.     *)
Placed(sorted, document, sort) ==
  InsertAt(sorted,
           Min({Len(sorted) + 1} \union
               {i \in DOMAIN sorted : DocumentOrder(sorted[i], document, sort) > 0}),
           document)

Sorting(documents, sort) ==
  LET sorted[n \in 0 .. Len(documents)] ==
        IF n = 0 THEN << >> ELSE Placed(sorted[n - 1], documents[n], sort)
  IN  sorted

SortDocuments(documents, sort) ==
  IF sort = << >> THEN documents ELSE Sorting(documents, sort)[Len(documents)]
=============================================================================
