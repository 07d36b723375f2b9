---------------------------- MODULE MCQueryFind -----------------------------
(* Model checking of QueryFind: documents with a field of every kind, and  *)
(* queries that mix operators, connectives, missing fields and lists.      *)
EXTENDS QueryFind

N(n) == [num |-> n]
S(s) == [str |-> s]
L(items) == [list |-> items]
D(f) == [dict |-> f]

NineX  == L(<<N(9), S("x")>>)
Nested == {D("b" :> N(9)), D(("b" :> N(10)) @@ ("d" :> S("x")))}

(* 10, 9, None, [9, 'x'], d1, d2, d3, x, {'b': 10, 'd': 'x'}, {'b': 9}  *)
TheTextOrder ==
  <<N(10), N(9), Null, NineX, S("d1"), S("d2"), S("d3"), S("x"),
    D(("b" :> N(10)) @@ ("d" :> S("x"))), D("b" :> N(9))>>
TheNumerals == S("2") :> 2
ThePartOf == {<<S("x"), S("x")>>, <<S("x"), S("xy")>>, <<S("xy"), S("xy")>>}

TheIds == <<"d1", "d2", "d3">>
FieldA == {N(9), N(10), Null, S("x"), NineX} \union Nested
TheContents ==
  {EmptyDict, D("c" :> N(9))}
    \union {D("a" :> v) : v \in FieldA}
    \union {D(("a" :> v) @@ ("c" :> N(9))) : v \in {N(9), S("x")}}
TheJson == TheContents \union FieldA \union {S(id) : id \in ToSet(TheIds)}

A  == <<"a">>
AB == <<"a", "b">>
AD == <<"a", "d">>
C  == <<"c">>
ThePaths  == {A, AB, AD, C}
TheValues == {N(9)}

If(path, operator, value) == [field |-> path, tests |-> <<<<operator, value>>>>]
Some == L(<<N(10), S("x")>>)

Asked ==
  { << >>, <<If(A, "$in", Some)>>, <<If(A, "$nin", Some)>>, <<[not |-> <<If(A, "$in", Some)>>]>>,
    <<[not |-> <<If(A, "$nin", Some)>>]>>,
    <<[field |-> AB, tests |-> <<<<"$gte", N(9)>>, <<"$lt", N(10)>>>>]>>,
    <<[or |-> <<<<If(A, "$gt", N(9))>>, <<If(C, "$exists", N(1))>>>>]>>,
    <<[not |-> <<[or |-> <<<<If(A, "$lte", S("x"))>>, <<If(C, "$exists", N(0))>>>>]>>]>>,
    <<[and |-> <<<<If(A, "$ne", N(9))>>, <<[not |-> <<[field |-> C, equals |-> N(9)]>>]>>>>]>>,
    <<If(A, "$all", L(<<S("x"), N(9)>>))>>, <<If(A, "$eq", Null), If(C, "$ne", N(9))>>,
    <<If(A, "$contains", S("x"))>>, <<If(A, "$size", N(2))>>, <<If(A, "$regex", S("x"))>>,
    <<If(A, "$in", S("xy"))>>, <<If(A, "$size", S("x"))>>, <<If(A, "$size", S("2"))>>,
    <<[not |-> <<[malformed |-> "$or"]>>], If(A, "$gt", N(9))>>,
    <<If(C, "$exists", N(1)), [field |-> A, tests |-> <<<<"$gt", N(9)>>, <<"$between", N(9)>>>>]>> }

WithParts(queries) == queries \union UNION {SubQueries(q) : q \in queries}
TheQueries == WithParts(WithParts(WithParts(Asked)))

RECURSIVE Depth(_)
Depth(query) == Max({0} \union {1 + Depth(q) : q \in SubQueries(query)})
TheNesting == [query \in TheQueries |-> Depth(query)]

By(path, direction) == [field |-> path, direction |-> direction]
TheSorts ==
  {<<By(A, "asc")>>, <<By(A, "desc")>>, <<By(C, "desc"), By(A, "asc")>>,
   <<By(AB, "desc")>>, <<By(C, "asc"), By(A, "desc")>>}
TheFields == {<<AB, AD>>, <<AB, A>>, <<A, AD>>, <<C>>}

TheRequests ==
  [query : Asked, sort : {<< >>}, fields : {<< >>}]
    \union [query : {<< >>}, sort : TheSorts, fields : {<< >>}]
    \union [query : {<<If(A, "$nin", Some)>>}, sort : {<<By(A, "desc")>>}, fields : {<< >>}]
    \union [query : {<< >>}, sort : {<<By(C, "asc")>>}, fields : TheFields]
=============================================================================
