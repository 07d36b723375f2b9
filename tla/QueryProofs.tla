----------------------------- MODULE QueryProofs -----------------------------
(***************************************************************************)
(* Proofs about QueryFind, for every set of values, documents, paths,      *)
(* queries and sort keys that its assumptions admit: that a find returns   *)
(* the documents its query means in the order of the sort keys, that the   *)
(* rows show what was asked for, and that an update stays in its path.     *)
(*                                                                         *)
(* The recursive functions of the model are defined by CHOOSE: that each   *)
(* of them satisfies its equation is proved by a smallest counterexample   *)
(* (LeastNumber), and so is everything said of all their arguments.        *)
(***************************************************************************)
EXTENDS QueryFind, WellFoundedInduction, SequenceTheorems, TLAPS

----------------------------------------------------------------------------
(* The recursive functions of the model.                                   *)

(* A set of numbers has a least element.                                   *)
LEMMA LeastNumber ==
  ASSUME NEW S \in SUBSET Nat, S # {}
  PROVE  \E x \in S : \A y \in S : x <= y
<1> DEFINE R == {ss \in Nat \X Nat : ss[1] < ss[2]}
<1>1. IsWellFoundedOn(R, Nat)
  BY NatLessThanWellFounded, Zenon DEF OpToRel
<1> HIDE DEF R
<1>2. PICK x \in S : \A y \in S : ~(<<y, x>> \in R)
  BY <1>1, WFMin
<1>3. \A y \in S : ~(y < x)
  BY <1>2 DEF R
<1> QED BY <1>3

(* What one document makes of the selection.                               *)
Selected(among, document, query) ==
  IF Matches(document, query) = "yes" THEN Append(among, document) ELSE among

(* The walk along a path, part by part.                                    *)
LEMMA WalkSteps ==
  ASSUME NEW value, NEW path, Len(path) \in Nat
  PROVE  /\ DOMAIN Walk(value, path) = 0 .. Len(path)
         /\ Walk(value, path)[0] = value
         /\ \A i \in 1 .. Len(path) : Walk(value, path)[i] = Child(Walk(value, path)[i - 1], path[i])
<1> DEFINE Body(x, n) == [i \in 0 .. n |-> IF i = 0 THEN value ELSE Child(x[i - 1], path[i])]
           S == {n \in Nat : \A x : x # Body(x, n)}
<1>1. \E x : x = Body(x, Len(path))
  <2> SUFFICES ASSUME Len(path) \in S PROVE FALSE
    OBVIOUS
  <2>1. PICK n \in S : \A m \in S : n <= m
    <3>1. S \in SUBSET Nat /\ S # {}
      OBVIOUS
    <3> HIDE DEF S
    <3> QED BY <3>1, LeastNumber
  <2>2. n # 0
    <3> DEFINE x == [i \in 0 .. 0 |-> value]
    <3>1. x = Body(x, 0)
      OBVIOUS
    <3> QED BY <2>1, <3>1
  <2>3. n \in Nat /\ n - 1 \in Nat /\ n - 1 \notin S
    <3>1. n \in Nat
      OBVIOUS
    <3> HIDE DEF S
    <3> QED BY <2>1, <2>2, <3>1
  <2>4. PICK x : x = Body(x, n - 1)
    BY <2>3
  <2> DEFINE y == [i \in 0 .. n |-> IF i < n THEN x[i] ELSE Child(x[n - 1], path[n])]
  <2>5. \A i \in 0 .. n - 1 : x[i] = IF i = 0 THEN value ELSE Child(x[i - 1], path[i])
    BY <2>3, <2>4
  <2>6. \A i \in 0 .. n : y[i] = IF i = 0 THEN value ELSE Child(y[i - 1], path[i])
    BY <2>2, <2>3, <2>5
  <2>7. y = Body(y, n)
    BY <2>6
  <2> HIDE DEF y
  <2> QED BY <2>1, <2>7
<1> DEFINE st == CHOOSE x : x = Body(x, Len(path))
<1>2. Walk(value, path) = st
  BY DEF Walk
<1> HIDE DEF st
<1>3. st = Body(st, Len(path))
  BY <1>1 DEF st
<1>4. \A i \in 0 .. Len(path) : st[i] = IF i = 0 THEN value ELSE Child(st[i - 1], path[i])
  BY <1>3, Zenon
<1>5. DOMAIN st = 0 .. Len(path)
  BY <1>3, Zenon
<1> QED BY <1>2, <1>4, <1>5

(* set_path, from the end of the path.                                     *)
LEMMA RebuiltSteps ==
  ASSUME NEW value, NEW path, NEW new, Len(path) \in Nat
  PROVE  /\ DOMAIN Rebuilt(value, path, new) = 0 .. Len(path)
         /\ Rebuilt(value, path, new)[0] = new
         /\ \A i \in 1 .. Len(path) :
              Rebuilt(value, path, new)[i] =
                With(Walk(value, path)[Len(path) - i], path[Len(path) - i + 1],
                     Rebuilt(value, path, new)[i - 1])
<1> DEFINE Body(x, n) == [i \in 0 .. n |->
                      IF i = 0 THEN new
                      ELSE With(Walk(value, path)[Len(path) - i], path[Len(path) - i + 1], x[i - 1])]
           S == {n \in Nat : \A x : x # Body(x, n)}
<1>1. \E x : x = Body(x, Len(path))
  <2> SUFFICES ASSUME Len(path) \in S PROVE FALSE
    OBVIOUS
  <2>1. PICK n \in S : \A m \in S : n <= m
    <3>1. S \in SUBSET Nat /\ S # {}
      OBVIOUS
    <3> HIDE DEF S
    <3> QED BY <3>1, LeastNumber
  <2>2. n # 0
    <3> DEFINE x == [i \in 0 .. 0 |-> new]
    <3>1. x = Body(x, 0)
      OBVIOUS
    <3> QED BY <2>1, <3>1
  <2>3. n \in Nat /\ n - 1 \in Nat /\ n - 1 \notin S
    <3>1. n \in Nat
      OBVIOUS
    <3> HIDE DEF S
    <3> QED BY <2>1, <2>2, <3>1
  <2>4. PICK x : x = Body(x, n - 1)
    BY <2>3
  <2> DEFINE y == [i \in 0 .. n |->
                      IF i < n THEN x[i]
                      ELSE With(Walk(value, path)[Len(path) - n], path[Len(path) - n + 1], x[n - 1])]
  <2>5. \A i \in 0 .. n - 1 : x[i] =
            IF i = 0 THEN new
            ELSE With(Walk(value, path)[Len(path) - i], path[Len(path) - i + 1], x[i - 1])
    BY <2>3, <2>4
  <2>6. \A i \in 0 .. n : y[i] =
            IF i = 0 THEN new
            ELSE With(Walk(value, path)[Len(path) - i], path[Len(path) - i + 1], y[i - 1])
    BY <2>2, <2>3, <2>5
  <2>7. y = Body(y, n)
    BY <2>6
  <2> HIDE DEF y
  <2> QED BY <2>1, <2>7
<1> DEFINE st == CHOOSE x : x = Body(x, Len(path))
<1>2. Rebuilt(value, path, new) = st
  BY DEF Rebuilt
<1> HIDE DEF st
<1>3. st = Body(st, Len(path))
  BY <1>1 DEF st
<1>4. \A i \in 0 .. Len(path) : st[i] =
            IF i = 0 THEN new
            ELSE With(Walk(value, path)[Len(path) - i], path[Len(path) - i + 1], st[i - 1])
  BY <1>3, Zenon
<1>5. DOMAIN st = 0 .. Len(path)
  BY <1>3, Zenon
<1> QED BY <1>2, <1>4, <1>5

(* The selection, document by document.                                    *)
LEMMA MatchedSteps ==
  ASSUME NEW documents, NEW query, Len(documents) \in Nat
  PROVE  /\ DOMAIN Among(documents, query) = 0 .. Len(documents)
         /\ Among(documents, query)[0] = << >>
         /\ \A i \in 1 .. Len(documents) :
              Among(documents, query)[i] = Selected(Among(documents, query)[i - 1], documents[i], query)
<1> DEFINE Body(x, n) == [i \in 0 .. n |-> IF i = 0 THEN << >> ELSE Selected(x[i - 1], documents[i], query)]
           S == {n \in Nat : \A x : x # Body(x, n)}
<1>1. \E x : x = Body(x, Len(documents))
  <2> SUFFICES ASSUME Len(documents) \in S PROVE FALSE
    OBVIOUS
  <2>1. PICK n \in S : \A m \in S : n <= m
    <3>1. S \in SUBSET Nat /\ S # {}
      OBVIOUS
    <3> HIDE DEF S
    <3> QED BY <3>1, LeastNumber
  <2>2. n # 0
    <3> DEFINE x == [i \in 0 .. 0 |-> << >>]
    <3>1. x = Body(x, 0)
      OBVIOUS
    <3> QED BY <2>1, <3>1
  <2>3. n \in Nat /\ n - 1 \in Nat /\ n - 1 \notin S
    <3>1. n \in Nat
      OBVIOUS
    <3> HIDE DEF S
    <3> QED BY <2>1, <2>2, <3>1
  <2>4. PICK x : x = Body(x, n - 1)
    BY <2>3
  <2> DEFINE y == [i \in 0 .. n |-> IF i < n THEN x[i] ELSE Selected(x[n - 1], documents[n], query)]
  <2>5. \A i \in 0 .. n - 1 : x[i] = IF i = 0 THEN << >> ELSE Selected(x[i - 1], documents[i], query)
    BY <2>3, <2>4
  <2>6. \A i \in 0 .. n : y[i] = IF i = 0 THEN << >> ELSE Selected(y[i - 1], documents[i], query)
    BY <2>2, <2>3, <2>5
  <2>7. y = Body(y, n)
    BY <2>6
  <2> HIDE DEF y
  <2> QED BY <2>1, <2>7
<1> DEFINE st == CHOOSE x : x = Body(x, Len(documents))
<1>2. Among(documents, query) = st
  BY DEF Among, Selected
<1> HIDE DEF st
<1>3. st = Body(st, Len(documents))
  BY <1>1 DEF st
<1>4. \A i \in 0 .. Len(documents) : st[i] = IF i = 0 THEN << >> ELSE Selected(st[i - 1], documents[i], query)
  BY <1>3, Zenon
<1>5. DOMAIN st = 0 .. Len(documents)
  BY <1>3, Zenon
<1> QED BY <1>2, <1>4, <1>5

(* The projection, field by field.                                         *)
LEMMA ShownSteps ==
  ASSUME NEW document, NEW fields, Len(fields) \in Nat
  PROVE  /\ DOMAIN Shown(document, fields) = 0 .. Len(fields)
         /\ Shown(document, fields)[0] = EmptyDict
         /\ \A i \in 1 .. Len(fields) :
              Shown(document, fields)[i] =
                IF GetPath(document, fields[i]) = Missing THEN Shown(document, fields)[i - 1]
                ELSE SetPath(Shown(document, fields)[i - 1], fields[i], GetPath(document, fields[i]))
<1> DEFINE Body(x, n) == [i \in 0 .. n |->
                      IF i = 0 THEN EmptyDict
                      ELSE IF GetPath(document, fields[i]) = Missing THEN x[i - 1]
                      ELSE SetPath(x[i - 1], fields[i], GetPath(document, fields[i]))]
           S == {n \in Nat : \A x : x # Body(x, n)}
<1>1. \E x : x = Body(x, Len(fields))
  <2> SUFFICES ASSUME Len(fields) \in S PROVE FALSE
    OBVIOUS
  <2>1. PICK n \in S : \A m \in S : n <= m
    <3>1. S \in SUBSET Nat /\ S # {}
      OBVIOUS
    <3> HIDE DEF S
    <3> QED BY <3>1, LeastNumber
  <2>2. n # 0
    <3> DEFINE x == [i \in 0 .. 0 |-> EmptyDict]
    <3>1. x = Body(x, 0)
      OBVIOUS
    <3> QED BY <2>1, <3>1
  <2>3. n \in Nat /\ n - 1 \in Nat /\ n - 1 \notin S
    <3>1. n \in Nat
      OBVIOUS
    <3> HIDE DEF S
    <3> QED BY <2>1, <2>2, <3>1
  <2>4. PICK x : x = Body(x, n - 1)
    BY <2>3
  <2> DEFINE y == [i \in 0 .. n |->
                      IF i < n THEN x[i]
                      ELSE IF GetPath(document, fields[n]) = Missing THEN x[n - 1]
                      ELSE SetPath(x[n - 1], fields[n], GetPath(document, fields[n]))]
  <2>5. \A i \in 0 .. n - 1 : x[i] =
            IF i = 0 THEN EmptyDict
            ELSE IF GetPath(document, fields[i]) = Missing THEN x[i - 1]
            ELSE SetPath(x[i - 1], fields[i], GetPath(document, fields[i]))
    BY <2>3, <2>4
  <2>6. \A i \in 0 .. n : y[i] =
            IF i = 0 THEN EmptyDict
            ELSE IF GetPath(document, fields[i]) = Missing THEN y[i - 1]
            ELSE SetPath(y[i - 1], fields[i], GetPath(document, fields[i]))
    BY <2>2, <2>3, <2>5
  <2>7. y = Body(y, n)
    BY <2>6
  <2> HIDE DEF y
  <2> QED BY <2>1, <2>7
<1> DEFINE st == CHOOSE x : x = Body(x, Len(fields))
<1>2. Shown(document, fields) = st
  BY DEF Shown
<1> HIDE DEF st
<1>3. st = Body(st, Len(fields))
  BY <1>1 DEF st
<1>4. \A i \in 0 .. Len(fields) : st[i] =
            IF i = 0 THEN EmptyDict
            ELSE IF GetPath(document, fields[i]) = Missing THEN st[i - 1]
            ELSE SetPath(st[i - 1], fields[i], GetPath(document, fields[i]))
  BY <1>3, Zenon
<1>5. DOMAIN st = 0 .. Len(fields)
  BY <1>3, Zenon
<1> QED BY <1>2, <1>4, <1>5

(* The sort, document by document.                                         *)
LEMMA SortingSteps ==
  ASSUME NEW documents, NEW sort, Len(documents) \in Nat
  PROVE  /\ DOMAIN Sorting(documents, sort) = 0 .. Len(documents)
         /\ Sorting(documents, sort)[0] = << >>
         /\ \A i \in 1 .. Len(documents) :
              Sorting(documents, sort)[i] = Placed(Sorting(documents, sort)[i - 1], documents[i], sort)
<1> DEFINE Body(x, n) == [i \in 0 .. n |-> IF i = 0 THEN << >> ELSE Placed(x[i - 1], documents[i], sort)]
           S == {n \in Nat : \A x : x # Body(x, n)}
<1>1. \E x : x = Body(x, Len(documents))
  <2> SUFFICES ASSUME Len(documents) \in S PROVE FALSE
    OBVIOUS
  <2>1. PICK n \in S : \A m \in S : n <= m
    <3>1. S \in SUBSET Nat /\ S # {}
      OBVIOUS
    <3> HIDE DEF S
    <3> QED BY <3>1, LeastNumber
  <2>2. n # 0
    <3> DEFINE x == [i \in 0 .. 0 |-> << >>]
    <3>1. x = Body(x, 0)
      OBVIOUS
    <3> QED BY <2>1, <3>1
  <2>3. n \in Nat /\ n - 1 \in Nat /\ n - 1 \notin S
    <3>1. n \in Nat
      OBVIOUS
    <3> HIDE DEF S
    <3> QED BY <2>1, <2>2, <3>1
  <2>4. PICK x : x = Body(x, n - 1)
    BY <2>3
  <2> DEFINE y == [i \in 0 .. n |-> IF i < n THEN x[i] ELSE Placed(x[n - 1], documents[n], sort)]
  <2>5. \A i \in 0 .. n - 1 : x[i] = IF i = 0 THEN << >> ELSE Placed(x[i - 1], documents[i], sort)
    BY <2>3, <2>4
  <2>6. \A i \in 0 .. n : y[i] = IF i = 0 THEN << >> ELSE Placed(y[i - 1], documents[i], sort)
    BY <2>2, <2>3, <2>5
  <2>7. y = Body(y, n)
    BY <2>6
  <2> HIDE DEF y
  <2> QED BY <2>1, <2>7
<1> DEFINE st == CHOOSE x : x = Body(x, Len(documents))
<1>2. Sorting(documents, sort) = st
  BY DEF Sorting
<1> HIDE DEF st
<1>3. st = Body(st, Len(documents))
  BY <1>1 DEF st
<1>4. \A i \in 0 .. Len(documents) : st[i] = IF i = 0 THEN << >> ELSE Placed(st[i - 1], documents[i], sort)
  BY <1>3, Zenon
<1>5. DOMAIN st = 0 .. Len(documents)
  BY <1>3, Zenon
<1> QED BY <1>2, <1>4, <1>5

(* The evaluation of a query, and its meaning, depend on its parts only.   *)
Evaluated(matches, document, query) ==
  Throughout("yes", [i \in DOMAIN query |-> Outcome(matches, document, query[i])])

AllMeant(means, D, query) == {d \in D : \A i \in DOMAIN query : Meant(means, D, d, query[i])}

NoneUnfit(fitting, query) ==
  /\ \A q \in SubQueries(query) : fitting[q]
  /\ \A i \in DOMAIN query : Fitting(query[i])

(* The five cases of an item.                                              *)
Conjunctive(item) == "and" \in DOMAIN item
Disjunctive(item) == "and" \notin DOMAIN item /\ "or" \in DOMAIN item
Negative(item)    == "and" \notin DOMAIN item /\ "or" \notin DOMAIN item /\ "not" \in DOMAIN item
Plain(item)       == {"and", "or", "not"} \intersect DOMAIN item = {}
Malformed(item)   == Plain(item) /\ "malformed" \in DOMAIN item
Atomic(item)      == Plain(item) /\ "malformed" \notin DOMAIN item

(* An item is of one of five kinds.                                        *)
LEMMA ItemCases ==
  ASSUME NEW item
  PROVE  \/ Conjunctive(item) \/ Disjunctive(item) \/ Negative(item) \/ Malformed(item)
         \/ Atomic(item)
BY DEF Conjunctive, Disjunctive, Negative, Malformed, Atomic, Plain

(* The parts of an item.                                                   *)
LEMMA PartsCases ==
  ASSUME NEW item
  PROVE  /\ Conjunctive(item) => \A k \in DOMAIN item.and : item.and[k] \in Parts(item)
         /\ Disjunctive(item) => \A k \in DOMAIN item.or : item.or[k] \in Parts(item)
         /\ Negative(item) => item.not \in Parts(item)
<1>1. ASSUME Conjunctive(item) PROVE Parts(item) = ToSet(item.and)
  BY <1>1, Zenon DEF Parts, Conjunctive
<1>2. ASSUME Disjunctive(item) PROVE Parts(item) = ToSet(item.or)
  BY <1>2, Zenon DEF Parts, Disjunctive
<1>3. ASSUME Negative(item) PROVE Parts(item) = {item.not}
  BY <1>3, Zenon DEF Parts, Negative
<1> QED BY <1>1, <1>2, <1>3, Zenon DEF ToSet

(* Outcome, case by case.                                                  *)
LEMMA OutcomeCases ==
  ASSUME NEW x, NEW document, NEW item
  PROVE  /\ Conjunctive(item) =>
              Outcome(x, document, item) =
                Throughout("yes", Answers(x, item.and))
         /\ Disjunctive(item) =>
              Outcome(x, document, item) =
                Throughout("no", Answers(x, item.or))
         /\ Negative(item) => Outcome(x, document, item) = Negated(x[item.not])
         /\ Malformed(item) => Outcome(x, document, item) = "no"
         /\ Atomic(item) =>
              Outcome(x, document, item) =
                IF "equals" \in DOMAIN item
                  THEN Test(GetPath(document, item.field) = item.equals)
                  ELSE Condition(GetPath(document, item.field), item.tests)
<1>1. ASSUME Conjunctive(item)
      PROVE  Outcome(x, document, item) =
               Throughout("yes", Answers(x, item.and))
  BY <1>1, Zenon DEF Outcome, Conjunctive
<1>2. ASSUME Disjunctive(item)
      PROVE  Outcome(x, document, item) =
               Throughout("no", Answers(x, item.or))
  BY <1>2, Zenon DEF Outcome, Disjunctive
<1>3. ASSUME Negative(item)
      PROVE  Outcome(x, document, item) = Negated(x[item.not])
  BY <1>3, Zenon DEF Outcome, Negative
<1>4. ASSUME Atomic(item), "equals" \in DOMAIN item
      PROVE  Outcome(x, document, item) = Test(GetPath(document, item.field) = item.equals)
  BY <1>4, Zenon DEF Outcome, Atomic, Plain
<1>5. ASSUME Atomic(item), "equals" \notin DOMAIN item
      PROVE  Outcome(x, document, item) = Condition(GetPath(document, item.field), item.tests)
  BY <1>5, Zenon DEF Outcome, Atomic, Plain
<1>6. ASSUME Malformed(item) PROVE Outcome(x, document, item) = "no"
  BY <1>6, Zenon DEF Outcome, Malformed, Plain
<1> QED BY <1>1, <1>2, <1>3, <1>4, <1>5, <1>6, Zenon

(* Meant, case by case.                                                    *)
LEMMA MeantCases ==
  ASSUME NEW x, NEW D, NEW d, NEW item
  PROVE  /\ Conjunctive(item) =>
              (Meant(x, D, d, item) <=> \A k \in DOMAIN item.and : d \in x[item.and[k]])
         /\ Disjunctive(item) =>
              (Meant(x, D, d, item) <=> \E k \in DOMAIN item.or : d \in x[item.or[k]])
         /\ Negative(item) => (Meant(x, D, d, item) <=> d \in D \ x[item.not])
         /\ Malformed(item) => ~Meant(x, D, d, item)
         /\ Atomic(item) =>
              (Meant(x, D, d, item) <=>
                 IF "equals" \in DOMAIN item
                   THEN d \in Passing(D, item.field, "$eq", item.equals)
                   ELSE \A k \in DOMAIN item.tests :
                          d \in Passing(D, item.field, item.tests[k][1], item.tests[k][2]))
<1>1. ASSUME Conjunctive(item)
      PROVE  Meant(x, D, d, item) <=> \A k \in DOMAIN item.and : d \in x[item.and[k]]
  BY <1>1, Zenon DEF Meant, Conjunctive
<1>2. ASSUME Disjunctive(item)
      PROVE  Meant(x, D, d, item) <=> \E k \in DOMAIN item.or : d \in x[item.or[k]]
  BY <1>2, Zenon DEF Meant, Disjunctive
<1>3. ASSUME Negative(item)
      PROVE  Meant(x, D, d, item) <=> d \in D \ x[item.not]
  BY <1>3, Zenon DEF Meant, Negative
<1>4. ASSUME Atomic(item), "equals" \in DOMAIN item
      PROVE  Meant(x, D, d, item) <=> d \in Passing(D, item.field, "$eq", item.equals)
  BY <1>4, Zenon DEF Meant, Atomic, Plain
<1>5. ASSUME Atomic(item), "equals" \notin DOMAIN item
      PROVE  Meant(x, D, d, item) <=>
               \A k \in DOMAIN item.tests :
                 d \in Passing(D, item.field, item.tests[k][1], item.tests[k][2])
  BY <1>5, Zenon DEF Meant, Atomic, Plain
<1>6. ASSUME Malformed(item) PROVE ~Meant(x, D, d, item)
  BY <1>6, Zenon DEF Meant, Malformed, Plain
<1> QED BY <1>1, <1>2, <1>3, <1>4, <1>5, <1>6, Zenon

(* An outcome depends on the parts of the item only.                       *)
LEMMA OutcomeAgrees ==
  ASSUME NEW x, NEW y, NEW document, NEW item, \A s \in Parts(item) : x[s] = y[s]
  PROVE  Outcome(x, document, item) = Outcome(y, document, item)
<1>1. CASE Conjunctive(item)
  <2>1. \A k \in DOMAIN item.and : x[item.and[k]] = y[item.and[k]]
    BY <1>1, PartsCases
  <2>2. Answers(x, item.and) = Answers(y, item.and)
    BY <2>1 DEF Answers
  <2>3. Outcome(x, document, item) = Throughout("yes", Answers(x, item.and))
    BY <1>1, OutcomeCases
  <2>4. Outcome(y, document, item) = Throughout("yes", Answers(y, item.and))
    BY <1>1, OutcomeCases
  <2> QED BY <2>2, <2>3, <2>4, Zenon
<1>2. CASE Disjunctive(item)
  <2>1. \A k \in DOMAIN item.or : x[item.or[k]] = y[item.or[k]]
    BY <1>2, PartsCases
  <2>2. Answers(x, item.or) = Answers(y, item.or)
    BY <2>1 DEF Answers
  <2>3. Outcome(x, document, item) = Throughout("no", Answers(x, item.or))
    BY <1>2, OutcomeCases
  <2>4. Outcome(y, document, item) = Throughout("no", Answers(y, item.or))
    BY <1>2, OutcomeCases
  <2> QED BY <2>2, <2>3, <2>4, Zenon
<1>3. CASE Negative(item)
  <2>1. x[item.not] = y[item.not]
    BY <1>3, PartsCases
  <2>2. Outcome(x, document, item) = Negated(x[item.not])
    BY <1>3, OutcomeCases
  <2>3. Outcome(y, document, item) = Negated(y[item.not])
    BY <1>3, OutcomeCases
  <2> QED BY <2>1, <2>2, <2>3, Zenon
<1>4. CASE Atomic(item)
  <2> DEFINE outcome == IF "equals" \in DOMAIN item
                          THEN Test(GetPath(document, item.field) = item.equals)
                          ELSE Condition(GetPath(document, item.field), item.tests)
  <2>1. Outcome(x, document, item) = outcome
    BY <1>4, OutcomeCases
  <2>2. Outcome(y, document, item) = outcome
    BY <1>4, OutcomeCases
  <2> HIDE DEF outcome
  <2> QED BY <2>1, <2>2, Zenon
<1>5. CASE Malformed(item)
  BY <1>5, OutcomeCases
<1> QED BY <1>1, <1>2, <1>3, <1>4, <1>5, ItemCases

(* So does the evaluation of a query,                                      *)
LEMMA EvaluatedAgrees ==
  ASSUME NEW x, NEW y, NEW document, NEW query, \A s \in SubQueries(query) : x[s] = y[s]
  PROVE  Evaluated(x, document, query) = Evaluated(y, document, query)
<1>1. \A i \in DOMAIN query : \A s \in Parts(query[i]) : x[s] = y[s]
  BY DEF SubQueries
<1>2. \A i \in DOMAIN query : Outcome(x, document, query[i]) = Outcome(y, document, query[i])
  BY <1>1, OutcomeAgrees
<1> QED BY <1>2 DEF Evaluated

(* what an item means,                                                     *)
LEMMA MeantAgrees ==
  ASSUME NEW x, NEW y, NEW D, NEW d, NEW item, \A s \in Parts(item) : x[s] = y[s]
  PROVE  Meant(x, D, d, item) <=> Meant(y, D, d, item)
<1>1. CASE Conjunctive(item)
  <2>1. \A k \in DOMAIN item.and : x[item.and[k]] = y[item.and[k]]
    BY <1>1, PartsCases
  <2>2. Meant(x, D, d, item) <=> \A k \in DOMAIN item.and : d \in x[item.and[k]]
    BY <1>1, MeantCases
  <2>3. Meant(y, D, d, item) <=> \A k \in DOMAIN item.and : d \in y[item.and[k]]
    BY <1>1, MeantCases
  <2> QED BY <2>1, <2>2, <2>3, Zenon
<1>2. CASE Disjunctive(item)
  <2>1. \A k \in DOMAIN item.or : x[item.or[k]] = y[item.or[k]]
    BY <1>2, PartsCases
  <2>2. Meant(x, D, d, item) <=> \E k \in DOMAIN item.or : d \in x[item.or[k]]
    BY <1>2, MeantCases
  <2>3. Meant(y, D, d, item) <=> \E k \in DOMAIN item.or : d \in y[item.or[k]]
    BY <1>2, MeantCases
  <2> QED BY <2>1, <2>2, <2>3, Zenon
<1>3. CASE Negative(item)
  <2>1. x[item.not] = y[item.not]
    BY <1>3, PartsCases
  <2> QED BY <1>3, <2>1, MeantCases
<1>4. CASE Atomic(item)
  BY <1>4, MeantCases
<1>5. CASE Malformed(item)
  BY <1>5, MeantCases
<1> QED BY <1>1, <1>2, <1>3, <1>4, <1>5, ItemCases

(* what a query means,                                                     *)
LEMMA AllMeantAgrees ==
  ASSUME NEW x, NEW y, NEW D, NEW query, \A s \in SubQueries(query) : x[s] = y[s]
  PROVE  AllMeant(x, D, query) = AllMeant(y, D, query)
<1>1. \A i \in DOMAIN query : \A s \in Parts(query[i]) : x[s] = y[s]
  BY DEF SubQueries
<1>2. \A d \in D : \A i \in DOMAIN query : Meant(x, D, d, query[i]) <=> Meant(y, D, d, query[i])
  BY <1>1, MeantAgrees
<1> QED BY <1>2 DEF AllMeant

(* and whether it fits.                                                    *)
LEMMA NoneUnfitAgrees ==
  ASSUME NEW x, NEW y, NEW query, \A s \in SubQueries(query) : x[s] = y[s]
  PROVE  NoneUnfit(x, query) = NoneUnfit(y, query)
BY DEF NoneUnfit

(* The evaluation of every query.                                          *)
LEMMA MatchingSteps ==
  ASSUME NEW document
  PROVE  /\ DOMAIN Matching(document) = Queries
         /\ \A q \in Queries : Matching(document)[q] = Evaluated(Matching(document), document, q)
<1> DEFINE Level(n) == {q \in Queries : Nesting[q] < n}
           Body(x, n) == [q \in Level(n) |-> Evaluated(x, document, q)]
           S == {n \in Nat : \A x : x # Body(x, n)}
<1>1. \E x : x = Body(x, MaxNesting + 1)
  <2> SUFFICES ASSUME MaxNesting + 1 \in S PROVE FALSE
    BY MaxNestingAssumption
  <2>1. PICK n \in S : \A m \in S : n <= m
    <3>1. S \in SUBSET Nat /\ S # {}
      OBVIOUS
    <3> HIDE DEF S
    <3> QED BY <3>1, LeastNumber
  <2>2. n # 0
    <3> DEFINE x == [q \in {} |-> q]
    <3>1. Level(0) = {}
      BY NestingAssumption, MaxNestingAssumption
    <3> HIDE DEF Level
    <3>2. x = Body(x, 0)
      BY <3>1
    <3> QED BY <2>1, <3>2
  <2>3. n \in Nat /\ n - 1 \in Nat /\ n - 1 \notin S
    <3>1. n \in Nat
      OBVIOUS
    <3> HIDE DEF S
    <3> QED BY <2>1, <2>2, <3>1
  <2>4. PICK x : x = Body(x, n - 1)
    BY <2>3
  <2> DEFINE y == [q \in Level(n) |-> Evaluated(x, document, q)]
  <2>5. \A q \in Level(n - 1) : x[q] = Evaluated(x, document, q)
    BY <2>4, Zenon
  <2>6. \A q \in Level(n) : \A s \in SubQueries(q) : s \in Level(n - 1) /\ s \in Level(n)
    BY <2>3, NestingAssumption, MaxNestingAssumption
  <2>7. Level(n - 1) \subseteq Level(n)
    BY <2>3, NestingAssumption, MaxNestingAssumption
  <2> HIDE DEF Level
  <2>8. \A q \in Level(n - 1) : x[q] = y[q]
    BY <2>5, <2>7
  <2>9. \A q \in Level(n) : \A s \in SubQueries(q) : x[s] = y[s]
    BY <2>6, <2>8
  <2>10. \A q \in Level(n) : Evaluated(x, document, q) = Evaluated(y, document, q)
    <3> HIDE DEF y
    <3> QED BY <2>9, EvaluatedAgrees
  <2>11. \A q \in Level(n) : y[q] = Evaluated(x, document, q)
    BY Zenon
  <2>12. y = Body(y, n)
    BY <2>10
  <2> HIDE DEF y
  <2> QED BY <2>1, <2>12
<1>2. Level(MaxNesting + 1) = Queries
  BY NestingAssumption, MaxNestingAssumption
<1> HIDE DEF Level
<1>3. \E x : x = [q \in Queries |-> Evaluated(x, document, q)]
  BY <1>1, <1>2
<1> DEFINE st == CHOOSE x : x = [q \in Queries |-> Evaluated(x, document, q)]
<1>4. Matching(document) = st
  BY DEF Matching, Evaluated
<1> HIDE DEF st
<1>5. st = [q \in Queries |-> Evaluated(st, document, q)]
  BY <1>3 DEF st
<1>6. \A q \in Queries : st[q] = Evaluated(st, document, q)
  BY <1>5, Zenon
<1>7. DOMAIN st = Queries
  BY <1>5, Zenon
<1> QED BY <1>4, <1>6, <1>7

(* The meaning of every query.                                             *)
LEMMA MeaningsSteps ==
  ASSUME NEW D
  PROVE  /\ DOMAIN Meanings(D) = Queries
         /\ \A q \in Queries : Meanings(D)[q] = AllMeant(Meanings(D), D, q)
<1> DEFINE Level(n) == {q \in Queries : Nesting[q] < n}
           Body(x, n) == [q \in Level(n) |-> AllMeant(x, D, q)]
           S == {n \in Nat : \A x : x # Body(x, n)}
<1>1. \E x : x = Body(x, MaxNesting + 1)
  <2> SUFFICES ASSUME MaxNesting + 1 \in S PROVE FALSE
    BY MaxNestingAssumption
  <2>1. PICK n \in S : \A m \in S : n <= m
    <3>1. S \in SUBSET Nat /\ S # {}
      OBVIOUS
    <3> HIDE DEF S
    <3> QED BY <3>1, LeastNumber
  <2>2. n # 0
    <3> DEFINE x == [q \in {} |-> q]
    <3>1. Level(0) = {}
      BY NestingAssumption, MaxNestingAssumption
    <3> HIDE DEF Level
    <3>2. x = Body(x, 0)
      BY <3>1
    <3> QED BY <2>1, <3>2
  <2>3. n \in Nat /\ n - 1 \in Nat /\ n - 1 \notin S
    <3>1. n \in Nat
      OBVIOUS
    <3> HIDE DEF S
    <3> QED BY <2>1, <2>2, <3>1
  <2>4. PICK x : x = Body(x, n - 1)
    BY <2>3
  <2> DEFINE y == [q \in Level(n) |-> AllMeant(x, D, q)]
  <2>5. \A q \in Level(n - 1) : x[q] = AllMeant(x, D, q)
    BY <2>4, Zenon
  <2>6. \A q \in Level(n) : \A s \in SubQueries(q) : s \in Level(n - 1) /\ s \in Level(n)
    BY <2>3, NestingAssumption, MaxNestingAssumption
  <2>7. Level(n - 1) \subseteq Level(n)
    BY <2>3, NestingAssumption, MaxNestingAssumption
  <2> HIDE DEF Level
  <2>8. \A q \in Level(n - 1) : x[q] = y[q]
    BY <2>5, <2>7
  <2>9. \A q \in Level(n) : \A s \in SubQueries(q) : x[s] = y[s]
    BY <2>6, <2>8
  <2>10. \A q \in Level(n) : AllMeant(x, D, q) = AllMeant(y, D, q)
    <3> HIDE DEF y
    <3> QED BY <2>9, AllMeantAgrees
  <2>11. \A q \in Level(n) : y[q] = AllMeant(x, D, q)
    BY Zenon
  <2>12. y = Body(y, n)
    BY <2>10
  <2> HIDE DEF y
  <2> QED BY <2>1, <2>12
<1>2. Level(MaxNesting + 1) = Queries
  BY NestingAssumption, MaxNestingAssumption
<1> HIDE DEF Level
<1>3. \E x : x = [q \in Queries |-> AllMeant(x, D, q)]
  BY <1>1, <1>2
<1> DEFINE st == CHOOSE x : x = [q \in Queries |-> AllMeant(x, D, q)]
<1>4. Meanings(D) = st
  BY DEF Meanings, AllMeant
<1> HIDE DEF st
<1>5. st = [q \in Queries |-> AllMeant(st, D, q)]
  BY <1>3 DEF st
<1>6. \A q \in Queries : st[q] = AllMeant(st, D, q)
  BY <1>5, Zenon
<1>7. DOMAIN st = Queries
  BY <1>5, Zenon
<1> QED BY <1>4, <1>6, <1>7

(* Whether the operators of a query fit, and of its parts.                 *)
LEMMA AllFittingSteps ==
  /\ DOMAIN AllFitting = Queries
  /\ \A q \in Queries : AllFitting[q] = NoneUnfit(AllFitting, q)
<1> DEFINE Level(n) == {q \in Queries : Nesting[q] < n}
           Body(x, n) == [q \in Level(n) |-> NoneUnfit(x, q)]
           S == {n \in Nat : \A x : x # Body(x, n)}
<1>1. \E x : x = Body(x, MaxNesting + 1)
  <2> SUFFICES ASSUME MaxNesting + 1 \in S PROVE FALSE
    BY MaxNestingAssumption
  <2>1. PICK n \in S : \A m \in S : n <= m
    <3>1. S \in SUBSET Nat /\ S # {}
      OBVIOUS
    <3> HIDE DEF S
    <3> QED BY <3>1, LeastNumber
  <2>2. n # 0
    <3> DEFINE x == [q \in {} |-> q]
    <3>1. Level(0) = {}
      BY NestingAssumption, MaxNestingAssumption
    <3> HIDE DEF Level
    <3>2. x = Body(x, 0)
      BY <3>1
    <3> QED BY <2>1, <3>2
  <2>3. n \in Nat /\ n - 1 \in Nat /\ n - 1 \notin S
    <3>1. n \in Nat
      OBVIOUS
    <3> HIDE DEF S
    <3> QED BY <2>1, <2>2, <3>1
  <2>4. PICK x : x = Body(x, n - 1)
    BY <2>3
  <2> DEFINE y == [q \in Level(n) |-> NoneUnfit(x, q)]
  <2>5. \A q \in Level(n - 1) : x[q] = NoneUnfit(x, q)
    BY <2>4, Zenon
  <2>6. \A q \in Level(n) : \A s \in SubQueries(q) : s \in Level(n - 1) /\ s \in Level(n)
    BY <2>3, NestingAssumption, MaxNestingAssumption
  <2>7. Level(n - 1) \subseteq Level(n)
    BY <2>3, NestingAssumption, MaxNestingAssumption
  <2> HIDE DEF Level
  <2>8. \A q \in Level(n - 1) : x[q] = y[q]
    BY <2>5, <2>7
  <2>9. \A q \in Level(n) : \A s \in SubQueries(q) : x[s] = y[s]
    BY <2>6, <2>8
  <2>10. \A q \in Level(n) : NoneUnfit(x, q) = NoneUnfit(y, q)
    <3> HIDE DEF y
    <3> QED BY <2>9, NoneUnfitAgrees
  <2>11. \A q \in Level(n) : y[q] = NoneUnfit(x, q)
    BY Zenon
  <2>12. y = Body(y, n)
    BY <2>10
  <2> HIDE DEF y
  <2> QED BY <2>1, <2>12
<1>2. Level(MaxNesting + 1) = Queries
  BY NestingAssumption, MaxNestingAssumption
<1> HIDE DEF Level
<1>3. \E x : x = [q \in Queries |-> NoneUnfit(x, q)]
  BY <1>1, <1>2
<1> DEFINE st == CHOOSE x : x = [q \in Queries |-> NoneUnfit(x, q)]
<1>4. AllFitting = st
  BY DEF AllFitting, NoneUnfit
<1> HIDE DEF st
<1>5. st = [q \in Queries |-> NoneUnfit(st, q)]
  BY <1>3 DEF st
<1>6. \A q \in Queries : st[q] = NoneUnfit(st, q)
  BY <1>5, Zenon
<1>7. DOMAIN st = Queries
  BY <1>5, Zenon
<1> QED BY <1>4, <1>6, <1>7

----------------------------------------------------------------------------
(* Paths.                                                                  *)

(* Induction up to a bound, for a set of numbers.                          *)
LEMMA Climb ==
  ASSUME NEW a \in Nat, NEW b \in Nat, NEW S, a \in S,
         \A n \in a .. b - 1 : n \in S => n + 1 \in S
  PROVE  \A n \in a .. b : n \in S
<1> DEFINE Bad == {n \in Nat : n \in a .. b /\ n \notin S}
<1> SUFFICES ASSUME Bad # {} PROVE FALSE
  OBVIOUS
<1>1. Bad \in SUBSET Nat
  OBVIOUS
<1> HIDE DEF Bad
<1>2. PICK m \in Bad : \A n \in Bad : m <= n
  BY <1>1, LeastNumber
<1> USE DEF Bad
<1>3. m \in a + 1 .. b /\ m - 1 \in a .. b - 1 /\ m - 1 \notin Bad
  BY <1>2
<1>4. m - 1 \in S
  BY <1>3
<1>5. (m - 1) + 1 \in S
  BY <1>3, <1>4
<1> QED BY <1>2, <1>3, <1>5

(* The provers do not know that "_id" is a string.                         *)
Name == STRING \union {"_id"}

(* Paths are sequences of names that do not begin with the identifier.     *)
LEMMA PathsAreNames ==
  /\ \A p \in Seq(STRING) : p \in Seq(Name)
  /\ \A p \in Paths : p \in Seq(Name) /\ p # << >> /\ Head(p) # "_id" /\ Len(p) \in Nat
<1>1. \A p \in Seq(STRING) : p \in Seq(Name)
  BY DEF Name
<1> QED BY <1>1, PathsAssumption

(* A prefix, part by part.                                                 *)
LEMMA PrefixParts ==
  ASSUME NEW p \in Seq(Name), NEW q \in Seq(Name)
  PROVE  IsPrefix(p, q) <=> Len(p) <= Len(q) /\ \A i \in 1 .. Len(p) : p[i] = q[i]
<1>1. ASSUME Len(p) <= Len(q)
      PROVE  SubSeq(p, 1, Len(p)) = SubSeq(q, 1, Len(p)) <=> \A i \in 1 .. Len(p) : p[i] = q[i]
  <2>1. \A i \in 1 .. Len(p) : SubSeq(p, 1, Len(p))[i] = p[i] /\ SubSeq(q, 1, Len(p))[i] = q[i]
    BY <1>1
  <2>2. SubSeq(p, 1, Len(p)) = [i \in 1 .. Len(p) |-> p[i]]
    BY <1>1
  <2>3. SubSeq(q, 1, Len(p)) = [i \in 1 .. Len(p) |-> q[i]]
    BY <1>1
  <2> QED BY <2>1, <2>2, <2>3, Zenon
<1> QED BY <1>1 DEF IsPrefix

(* A path but for its last part.                                           *)
LEMMA FrontParts ==
  ASSUME NEW p \in Seq(Name), p # << >>
  PROVE  /\ Front(p) \in Seq(Name) /\ Len(Front(p)) = Len(p) - 1 /\ Len(p) \in Nat \ {0}
         /\ \A i \in 1 .. Len(p) - 1 : Front(p)[i] = p[i]
         /\ Last(p) = p[Len(p)]
<1>1. Len(p) \in Nat \ {0}
  OBVIOUS
<1>2. Front(p) = [i \in 1 .. Len(p) - 1 |-> p[i]]
  BY <1>1 DEF Front
<1>3. Len(p) - 1 \in Nat /\ \A i \in 1 .. Len(p) - 1 : p[i] \in Name
  BY <1>1
<1>4. Front(p) \in Seq(Name) /\ Len(Front(p)) = Len(p) - 1
  BY <1>2, <1>3
<1> QED BY <1>1, <1>2, <1>4 DEF Last

(* A path that is neither above nor below another leaves it somewhere.     *)
Apart(p, q, m) ==
  /\ m \in 1 .. Len(p) /\ m \in 1 .. Len(q) /\ p[m] # q[m]
  /\ \A i \in 1 .. m - 1 : p[i] = q[i]

(* Paths that are not related part somewhere.                              *)
LEMMA PathsPart ==
  ASSUME NEW p \in Seq(Name), NEW q \in Seq(Name), ~Related(p, q)
  PROVE  \E m \in Nat : Apart(p, q, m)
<1> DEFINE S == {i \in Nat : i \in 1 .. Len(p) /\ i \in 1 .. Len(q) /\ p[i] # q[i]}
<1>1. S # {}
  BY PrefixParts DEF Related
<1>2. S \in SUBSET Nat
  OBVIOUS
<1> HIDE DEF S
<1>3. PICK m \in S : \A i \in S : m <= i
  BY <1>1, <1>2, LeastNumber
<1> USE DEF S
<1>4. \A i \in 1 .. m - 1 : i \notin S
  BY <1>3
<1> QED BY <1>3, <1>4 DEF Apart

(* Two paths that agree so far lead to the same place.                     *)
LEMMA WalksAgree ==
  ASSUME NEW v, NEW p, NEW q, Len(p) \in Nat, Len(q) \in Nat,
         NEW n \in Nat, n <= Len(p), n <= Len(q), \A i \in 1 .. n : p[i] = q[i]
  PROVE  \A k \in 0 .. n : Walk(v, p)[k] = Walk(v, q)[k]
<1> DEFINE S == {k \in Nat : Walk(v, p)[k] = Walk(v, q)[k]}
<1>1. 0 \in S
  BY WalkSteps
<1>2. \A k \in 0 .. n - 1 : k \in S => k + 1 \in S
  <2> SUFFICES ASSUME NEW k \in 0 .. n - 1, k \in S PROVE k + 1 \in S
    OBVIOUS
  <2>1. Walk(v, p)[k + 1] = Child(Walk(v, p)[k], p[k + 1])
    <3>1. k + 1 \in 1 .. Len(p) /\ (k + 1) - 1 = k
      OBVIOUS
    <3> QED BY <3>1, WalkSteps
  <2>2. Walk(v, q)[k + 1] = Child(Walk(v, q)[k], q[k + 1])
    <3>1. k + 1 \in 1 .. Len(q) /\ (k + 1) - 1 = k
      OBVIOUS
    <3> QED BY <3>1, WalkSteps
  <2>3. p[k + 1] = q[k + 1]
    OBVIOUS
  <2> QED BY <2>1, <2>2, <2>3
<1> HIDE DEF S
<1>3. \A k \in 0 .. n : k \in S
  BY <1>1, <1>2, Climb
<1> QED BY <1>3 DEF S

(* What is the same after some parts of a path is so to its end.           *)
LEMMA WalksMeet ==
  ASSUME NEW u, NEW v, NEW q, Len(q) \in Nat, NEW n \in 0 .. Len(q),
         Walk(u, q)[n] = Walk(v, q)[n]
  PROVE  \A k \in n .. Len(q) : Walk(u, q)[k] = Walk(v, q)[k]
<1> DEFINE S == {k \in Nat : Walk(u, q)[k] = Walk(v, q)[k]}
<1>1. n \in S
  OBVIOUS
<1>2. \A k \in n .. Len(q) - 1 : k \in S => k + 1 \in S
  <2> SUFFICES ASSUME NEW k \in n .. Len(q) - 1, k \in S PROVE k + 1 \in S
    OBVIOUS
  <2>1. k + 1 \in 1 .. Len(q) /\ (k + 1) - 1 = k
    OBVIOUS
  <2>2. Walk(u, q)[k + 1] = Child(Walk(u, q)[k], q[k + 1])
    BY <2>1, WalkSteps
  <2>3. Walk(v, q)[k + 1] = Child(Walk(v, q)[k], q[k + 1])
    BY <2>1, WalkSteps
  <2> QED BY <2>2, <2>3
<1> HIDE DEF S
<1>3. n \in Nat
  OBVIOUS
<1>4. \A k \in n .. Len(q) : k \in S
  BY <1>1, <1>2, <1>3, Climb
<1> QED BY <1>4 DEF S

(* What set_path makes of the value that the first parts lead to.          *)
Layer(v, p, w, i) == Rebuilt(v, p, w)[Len(p) - i]

(* Every layer is made from the one below it.                              *)
LEMMA LayerStep ==
  ASSUME NEW v, NEW p, NEW w, Len(p) \in Nat, NEW i \in 0 .. Len(p) - 1
  PROVE  Layer(v, p, w, i) = With(Walk(v, p)[i], p[i + 1], Layer(v, p, w, i + 1))
<1> DEFINE n == Len(p) - i
<1>1. n \in 1 .. Len(p) /\ Len(p) - n = i /\ n - 1 = Len(p) - (i + 1)
  OBVIOUS
<1> HIDE DEF n
<1>2. Rebuilt(v, p, w)[n] = With(Walk(v, p)[Len(p) - n], p[Len(p) - n + 1], Rebuilt(v, p, w)[n - 1])
  BY <1>1, RebuiltSteps
<1>3. Layer(v, p, w, i) = Rebuilt(v, p, w)[n]
  BY DEF Layer, n
<1>4. Layer(v, p, w, i + 1) = Rebuilt(v, p, w)[n - 1]
  BY <1>1 DEF Layer
<1> QED BY <1>1, <1>2, <1>3, <1>4

(* The innermost layer is the new value, the outermost the result.         *)
LEMMA LayerEnds ==
  ASSUME NEW v, NEW p, NEW w, Len(p) \in Nat
  PROVE  Layer(v, p, w, Len(p)) = w /\ SetPath(v, p, w) = Layer(v, p, w, 0)
<1>1. Len(p) - Len(p) = 0 /\ Len(p) - 0 = Len(p)
  OBVIOUS
<1> QED BY <1>1, RebuiltSteps DEF Layer, SetPath

(* What With changes and what it leaves.                                   *)
LEMMA WithParts ==
  ASSUME NEW v, NEW n, NEW w
  PROVE  /\ Is(With(v, n, w), "dict") /\ Child(With(v, n, w), n) = w
         /\ \A m : m # n => Child(With(v, n, w), m) = Child(v, m)
         /\ \A m : Has(With(v, n, w), m) <=> m = n \/ Has(v, m)
<1>1. Is(With(v, n, w), "dict")
  BY DEF With, Is
<1>2. With(v, n, w).dict = [m \in DOMAIN Fields(v) \union {n} |-> IF m = n THEN w ELSE Fields(v)[m]]
  BY DEF With
<1>3. \A m : m \in DOMAIN Fields(v) <=> Has(v, m)
  BY DEF Has, Fields
<1>4. \A m : Has(v, m) => Fields(v) = v.dict
  BY DEF Has, Fields
<1>5. \A m : Has(With(v, n, w), m) <=> m = n \/ Has(v, m)
  BY <1>1, <1>2, <1>3 DEF Has
<1>6. Child(With(v, n, w), n) = w
  BY <1>2, <1>5 DEF Child
<1>7. ASSUME NEW m, m # n PROVE Child(With(v, n, w), m) = Child(v, m)
  <2>1. CASE Has(v, m)
    BY <1>2, <1>3, <1>4, <1>5, <1>7, <2>1 DEF Child
  <2>2. CASE ~Has(v, m)
    BY <1>5, <1>7, <2>2 DEF Child
  <2> QED BY <2>1, <2>2
<1> QED BY <1>1, <1>5, <1>6, <1>7

(* The layers are mappings.                                                *)
LEMMA LayerIsDict ==
  ASSUME NEW v, NEW p, NEW w, Len(p) \in Nat, NEW k \in 0 .. Len(p) - 1
  PROVE  Is(Layer(v, p, w, k), "dict")
BY LayerStep, WithParts

(* A path that begins like the one that is set leads through its layers.   *)
LEMMA LayersWalked ==
  ASSUME NEW v, NEW p, NEW w, NEW q, Len(p) \in Nat, Len(q) \in Nat,
         NEW n \in Nat, n <= Len(p), n <= Len(q), \A i \in 1 .. n : p[i] = q[i]
  PROVE  \A k \in 0 .. n : Walk(SetPath(v, p, w), q)[k] = Layer(v, p, w, k)
<1> DEFINE new == SetPath(v, p, w)
           S == {k \in Nat : Walk(new, q)[k] = Layer(v, p, w, k)}
<1>1. 0 \in S
  BY WalkSteps, LayerEnds
<1>2. \A k \in 0 .. n - 1 : k \in S => k + 1 \in S
  <2> SUFFICES ASSUME NEW k \in 0 .. n - 1, k \in S PROVE k + 1 \in S
    OBVIOUS
  <2>1. k + 1 \in 1 .. Len(q) /\ (k + 1) - 1 = k /\ k \in 0 .. Len(p) - 1
    OBVIOUS
  <2>2. Walk(new, q)[k + 1] = Child(Walk(new, q)[k], q[k + 1])
    BY <2>1, WalkSteps
  <2>3. Layer(v, p, w, k) = With(Walk(v, p)[k], p[k + 1], Layer(v, p, w, k + 1))
    BY <2>1, LayerStep
  <2>4. p[k + 1] = q[k + 1]
    OBVIOUS
  <2>5. Child(Layer(v, p, w, k), q[k + 1]) = Layer(v, p, w, k + 1)
    BY <2>3, <2>4, WithParts
  <2> QED BY <2>2, <2>5
<1> HIDE DEF S
<1>3. \A k \in 0 .. n : k \in S
  BY <1>1, <1>2, Climb
<1> QED BY <1>3 DEF S

(* After set_path the path leads to the value.                             *)
LEMMA SetThere ==
  ASSUME NEW v, NEW p, NEW w, Len(p) \in Nat
  PROVE  GetPath(SetPath(v, p, w), p) = w
BY LayersWalked, LayerEnds DEF GetPath

(* Beside the path nothing changes.                                        *)
LEMMA SetElsewhere ==
  ASSUME NEW v, NEW p, NEW w, NEW q, Len(p) \in Nat, Len(q) \in Nat,
         NEW m \in Nat, Apart(p, q, m)
  PROVE  \A k \in m .. Len(q) : Walk(SetPath(v, p, w), q)[k] = Walk(v, q)[k]
<1> DEFINE new == SetPath(v, p, w)
<1>1. m - 1 \in Nat /\ m - 1 <= Len(p) /\ m - 1 <= Len(q) /\ m \in 1 .. Len(q) /\ m - 1 \in 0 .. Len(p) - 1
      /\ m - 1 \in 0 .. m - 1
      /\ (\A i \in 1 .. m - 1 : p[i] = q[i]) /\ p[m] # q[m] /\ (m - 1) + 1 = m
  BY DEF Apart
<1>2. Walk(new, q)[m - 1] = Layer(v, p, w, m - 1)
  BY <1>1, LayersWalked
<1>3. Walk(v, p)[m - 1] = Walk(v, q)[m - 1]
  BY <1>1, WalksAgree
<1>4. Layer(v, p, w, m - 1) = With(Walk(v, p)[m - 1], p[m], Layer(v, p, w, m))
  <2>1. \A i \in 0 .. Len(p) - 1 :
          Layer(v, p, w, i) = With(Walk(v, p)[i], p[i + 1], Layer(v, p, w, i + 1))
    BY LayerStep
  <2> QED BY <1>1, <2>1
<1>5. Child(Layer(v, p, w, m - 1), q[m]) = Child(Walk(v, p)[m - 1], q[m])
  BY <1>1, <1>4, WithParts
<1>6. Walk(new, q)[m] = Child(Walk(new, q)[m - 1], q[m])
  BY <1>1, WalkSteps
<1>7. Walk(v, q)[m] = Child(Walk(v, q)[m - 1], q[m])
  BY <1>1, WalkSteps
<1>8. Walk(new, q)[m] = Walk(v, q)[m]
  BY <1>2, <1>3, <1>5, <1>6, <1>7
<1> HIDE DEF new
<1>9. m \in 0 .. Len(q)
  BY <1>1
<1>10. \A k \in m .. Len(q) : Walk(new, q)[k] = Walk(v, q)[k]
  BY <1>8, <1>9, WalksMeet
<1> QED BY <1>10 DEF new

(* What Without changes and what it leaves.                                *)
LEMMA WithoutParts ==
  ASSUME NEW v, NEW n
  PROVE  /\ Is(Without(v, n), "dict") /\ Child(Without(v, n), n) = Missing
         /\ Is(v, "dict") => \A m : m # n => Child(Without(v, n), m) = Child(v, m)
         /\ Is(v, "dict") => \A m : Has(Without(v, n), m) <=> m # n /\ Has(v, m)
<1>1. Is(Without(v, n), "dict")
  BY DEF Without, Is
<1>2. Without(v, n).dict = [m \in DOMAIN v.dict \ {n} |-> v.dict[m]]
  BY DEF Without
<1>3. \A m : Has(Without(v, n), m) <=> m # n /\ m \in DOMAIN v.dict
  BY <1>1, <1>2 DEF Has
<1>4. Is(v, "dict") => \A m : m \in DOMAIN v.dict <=> Has(v, m)
  BY DEF Has
<1>5. Child(Without(v, n), n) = Missing
  BY <1>3 DEF Child
<1>6. ASSUME Is(v, "dict"), NEW m, m # n PROVE Child(Without(v, n), m) = Child(v, m)
  <2>1. CASE Has(v, m)
    BY <1>2, <1>3, <1>4, <1>6, <2>1 DEF Child
  <2>2. CASE ~Has(v, m)
    BY <1>3, <1>4, <1>6, <2>2 DEF Child
  <2> QED BY <2>1, <2>2
<1> QED BY <1>1, <1>3, <1>4, <1>5, <1>6

(* del_path, seen from the last part of the path.                          *)
Holder(v, p) == GetPath(v, Front(p))

(* del_path is set_path of what held the name, or nothing.                 *)
LEMMA DelCases ==
  ASSUME NEW v, NEW p
  PROVE  /\ Has(Holder(v, p), Last(p)) =>
              DelPath(v, p) = SetPath(v, Front(p), Without(Holder(v, p), Last(p)))
         /\ ~Has(Holder(v, p), Last(p)) => DelPath(v, p) = v
BY Zenon DEF DelPath, Holder

(* The path leads to the holder one part before its end.                   *)
LEMMA HolderWalked ==
  ASSUME NEW v, NEW p \in Seq(Name), p # << >>
  PROVE  /\ Holder(v, p) = Walk(v, p)[Len(p) - 1]
         /\ GetPath(v, p) = Child(Holder(v, p), Last(p))
<1> DEFINE n == Len(p) - 1
<1>1. n \in Nat /\ n <= Len(p) /\ n <= Len(Front(p)) /\ n = Len(Front(p)) /\ Len(p) \in 1 .. Len(p)
      /\ \A i \in 1 .. n : Front(p)[i] = p[i]
  BY FrontParts
<1> HIDE DEF n
<1>2. Walk(v, Front(p))[n] = Walk(v, p)[n]
  BY <1>1, WalksAgree, n \in 0 .. n
<1>3. Holder(v, p) = Walk(v, p)[n]
  BY <1>1, <1>2 DEF Holder, GetPath
<1>4. GetPath(v, p) = Child(Walk(v, p)[n], p[Len(p)])
  <2>1. \A i \in 1 .. Len(p) : Walk(v, p)[i] = Child(Walk(v, p)[i - 1], p[i])
    BY WalkSteps
  <2> QED BY <1>1, <2>1 DEF GetPath, n
<1> QED BY <1>3, <1>4 DEF n, Last

(* After del_path the path leads nowhere.                                  *)
LEMMA DelThere ==
  ASSUME NEW v, NEW p \in Seq(Name), p # << >>
  PROVE  GetPath(DelPath(v, p), p) = Missing
<1>1. CASE Has(Holder(v, p), Last(p))
  <2> DEFINE w == Without(Holder(v, p), Last(p))
             new == SetPath(v, Front(p), w)
  <2>1. Holder(new, p) = w
    BY SetThere, FrontParts DEF Holder
  <2>2. Child(w, Last(p)) = Missing
    BY WithoutParts
  <2> HIDE DEF w, new
  <2>3. GetPath(new, p) = Missing
    BY <2>1, <2>2, HolderWalked
  <2>4. DelPath(v, p) = new
    BY <1>1, DelCases DEF new, w
  <2> QED BY <2>3, <2>4
<1>2. CASE ~Has(Holder(v, p), Last(p))
  BY <1>2, DelCases, HolderWalked DEF Child
<1> QED BY <1>1, <1>2

(* Beside the path nothing changes.                                        *)
LEMMA DelElsewhere ==
  ASSUME NEW v, NEW p \in Seq(Name), p # << >>, NEW q \in Seq(Name),
         NEW m \in Nat, Apart(p, q, m)
  PROVE  \A k \in m .. Len(q) : Walk(DelPath(v, p), q)[k] = Walk(v, q)[k]
<1>1. CASE ~Has(Holder(v, p), Last(p))
  BY <1>1, DelCases
<1>2. CASE Has(Holder(v, p), Last(p))
  <2> DEFINE w == Without(Holder(v, p), Last(p))
             f == Front(p)
             new == SetPath(v, f, w)
  <2>1. DelPath(v, p) = new
    BY <1>2, DelCases
  <2>2. Len(f) \in Nat /\ Len(f) = Len(p) - 1 /\ Len(q) \in Nat /\ \A i \in 1 .. Len(f) : f[i] = p[i]
    BY FrontParts
  <2>3. CASE m < Len(p)
    <3>1. Apart(f, q, m)
      BY <2>2, <2>3 DEF Apart
    <3> QED BY <2>1, <2>2, <3>1, SetElsewhere
  <2>4. CASE m = Len(p)
    <3> DEFINE n == Len(f)
    <3>1. /\ n \in Nat /\ n <= Len(f) /\ n <= Len(q) /\ n \in 0 .. n /\ n + 1 = m /\ m - 1 = n
          /\ m \in 1 .. Len(q) /\ \A i \in 1 .. n : f[i] = q[i]
      BY <2>2, <2>4 DEF Apart
    <3> HIDE DEF w, f
    <3>2. Walk(new, q)[n] = w
      BY <2>2, <3>1, LayersWalked, LayerEnds
    <3>3. Walk(v, q)[n] = Holder(v, p)
      BY <2>2, <3>1, WalksAgree DEF Holder, GetPath, f
    <3>4. Walk(new, q)[m] = Child(w, q[m])
      BY <2>2, <3>1, <3>2, WalkSteps
    <3>5. Walk(v, q)[m] = Child(Holder(v, p), q[m])
      BY <2>2, <3>1, <3>3, WalkSteps
    <3>6. q[m] # Last(p)
      BY <2>4 DEF Apart, Last
    <3>7. Child(w, q[m]) = Child(Holder(v, p), q[m])
      BY <1>2, <3>6, WithoutParts DEF w, Has
    <3>8. Walk(new, q)[m] = Walk(v, q)[m]
      BY <3>4, <3>5, <3>7
    <3> HIDE DEF new, n
    <3>9. \A k \in m .. Len(q) : Walk(new, q)[k] = Walk(v, q)[k]
      BY <2>2, <3>1, <3>8, WalksMeet
    <3> QED BY <2>1, <3>9
  <2> QED BY <2>3, <2>4 DEF Apart
<1> QED BY <1>1, <1>2

----------------------------------------------------------------------------
(* A well-formed value has one kind.                                       *)
LEMMA KindsApart ==
  ASSUME NEW v, WellFormed(v)
  PROVE  /\ v # Missing
         /\ v = Null \/ Is(v, "num") \/ Is(v, "str") \/ Is(v, "list") \/ Is(v, "dict")
         /\ Is(v, "num") => /\ v = [num |-> v.num] /\ v.num \in Int
                            /\ ~Is(v, "str") /\ ~Is(v, "list") /\ ~Is(v, "dict") /\ v # Null
         /\ Is(v, "str") => /\ v = [str |-> v.str] /\ v \in ToSet(TextOrder)
                            /\ ~Is(v, "num") /\ ~Is(v, "list") /\ ~Is(v, "dict") /\ v # Null
         /\ Is(v, "list") => /\ v = [list |-> v.list] /\ DOMAIN v.list \subseteq Nat
                             /\ ~Is(v, "num") /\ ~Is(v, "str") /\ ~Is(v, "dict") /\ v # Null
         /\ Is(v, "dict") => /\ v = [dict |-> [n \in DOMAIN v.dict |-> v.dict[n]]]
                             /\ ~Is(v, "num") /\ ~Is(v, "str") /\ ~Is(v, "list") /\ v # Null
<1>1. CASE v = Null
  BY <1>1 DEF Null, Missing, Is
<1>2. CASE Is(v, "num") /\ v = [num |-> v.num] /\ v.num \in Int
  <2>1. DOMAIN v = {"num"}
    BY <1>2
  <2> QED BY <1>2, <2>1 DEF Null, Missing, Is
<1>3. CASE Is(v, "str") /\ v = [str |-> v.str] /\ v \in ToSet(TextOrder)
  <2>1. DOMAIN v = {"str"}
    BY <1>3
  <2> QED BY <1>3, <2>1 DEF Null, Missing, Is
<1>4. CASE Is(v, "list") /\ v = [list |-> v.list] /\ DOMAIN v.list \subseteq Nat
  <2>1. DOMAIN v = {"list"}
    BY <1>4
  <2> QED BY <1>4, <2>1 DEF Null, Missing, Is
<1>5. CASE Is(v, "dict") /\ v = [dict |-> [n \in DOMAIN v.dict |-> v.dict[n]]]
  <2>1. DOMAIN v = {"dict"}
    BY <1>5
  <2> QED BY <1>5, <2>1 DEF Null, Missing, Is
<1> QED BY <1>1, <1>2, <1>3, <1>4, <1>5 DEF WellFormed

(* Values that are well formed with all they hold.                         *)
Proper(v) == \E S : Closed(S) /\ v \in S

(* The values of the model are proper.                                     *)
LEMMA JsonIsProper == \A v \in Json : Proper(v)
BY JsonAssumption DEF Proper

(* What a proper value holds is proper,                                    *)
LEMMA ProperParts ==
  ASSUME NEW v, Proper(v)
  PROVE  /\ WellFormed(v)
         /\ Is(v, "num") => TextBefore(v, Null)
         /\ Is(v, "dict") => \A n \in DOMAIN v.dict : Proper(v.dict[n])
BY DEF Proper, Closed

(* and so is what a name leads to,                                         *)
LEMMA ProperChild ==
  ASSUME NEW v, Proper(v), NEW n, Has(v, n)
  PROVE  Proper(Child(v, n))
BY ProperParts DEF Has, Child

(* A mapping to proper values is proper.                                   *)
LEMMA ProperDict ==
  ASSUME NEW v, Is(v, "dict"), v = [dict |-> [n \in DOMAIN v.dict |-> v.dict[n]]],
         \A n \in DOMAIN v.dict : Proper(v.dict[n])
  PROVE  Proper(v)
<1> DEFINE Around(n) == CHOOSE S : Closed(S) /\ v.dict[n] \in S
           All == UNION {Around(n) : n \in DOMAIN v.dict}
<1>1. \A n \in DOMAIN v.dict : Closed(Around(n)) /\ v.dict[n] \in Around(n)
  BY DEF Proper
<1> HIDE DEF Around
<1>2. Closed(All)
  BY <1>1 DEF Closed
<1>3. \A n \in DOMAIN v.dict : v.dict[n] \in All
  BY <1>1
<1> HIDE DEF All
<1>4. WellFormed(v) /\ ~Is(v, "num")
  <2>1. WellFormed(v)
    BY DEF WellFormed
  <2> QED BY <2>1, KindsApart
<1>5. Closed(All \union {v})
  BY <1>2, <1>3, <1>4 DEF Closed
<1> QED BY <1>5 DEF Proper

(* a mapping with one more proper value,                                   *)
LEMMA ProperWith ==
  ASSUME NEW v, v = Missing \/ Proper(v), NEW n, NEW w, Proper(w)
  PROVE  Proper(With(v, n, w))
<1> DEFINE new == With(v, n, w)
<1>1. Is(new, "dict") /\ new = [dict |-> [m \in DOMAIN new.dict |-> new.dict[m]]]
  BY DEF With, Is
<1>2. ASSUME NEW m \in DOMAIN new.dict PROVE Proper(new.dict[m])
  <2>1. Has(new, m) /\ new.dict[m] = Child(new, m)
    BY <1>1 DEF Has, Child
  <2>2. CASE m = n
    BY <2>1, <2>2, WithParts
  <2>3. CASE m # n
    <3>1. Has(v, m) /\ Child(new, m) = Child(v, m)
      BY <2>1, <2>3, WithParts
    <3>2. v # Missing
      BY <3>1 DEF Has, Is, Missing
    <3> QED BY <2>1, <3>1, <3>2, ProperChild
  <2> QED BY <2>2, <2>3
<1> HIDE DEF new
<1>3. Proper(new)
  BY <1>1, <1>2, ProperDict
<1> QED BY <1>3 DEF new

(* a mapping with one name less,                                           *)
LEMMA ProperWithout ==
  ASSUME NEW v, Proper(v), Is(v, "dict"), NEW n
  PROVE  Proper(Without(v, n))
<1> DEFINE new == Without(v, n)
<1>1. Is(new, "dict") /\ new = [dict |-> [m \in DOMAIN new.dict |-> new.dict[m]]]
  BY DEF Without, Is
<1>2. ASSUME NEW m \in DOMAIN new.dict PROVE Proper(new.dict[m])
  BY ProperParts DEF Without
<1> HIDE DEF new
<1>3. Proper(new)
  BY <1>1, <1>2, ProperDict
<1> QED BY <1>3 DEF new

(* whatever a path leads to,                                               *)
LEMMA ProperWalk ==
  ASSUME NEW v, v = Missing \/ Proper(v), NEW p, Len(p) \in Nat
  PROVE  \A k \in 0 .. Len(p) : Walk(v, p)[k] = Missing \/ Proper(Walk(v, p)[k])
<1> DEFINE S == {k \in Nat : Walk(v, p)[k] = Missing \/ Proper(Walk(v, p)[k])}
<1>1. 0 \in S
  BY WalkSteps
<1>2. \A k \in 0 .. Len(p) - 1 : k \in S => k + 1 \in S
  <2> SUFFICES ASSUME NEW k \in 0 .. Len(p) - 1, k \in S PROVE k + 1 \in S
    OBVIOUS
  <2>1. k + 1 \in 1 .. Len(p) /\ (k + 1) - 1 = k
    OBVIOUS
  <2>2. Walk(v, p)[k + 1] = Child(Walk(v, p)[k], p[k + 1])
    BY <2>1, WalkSteps
  <2>3. CASE Has(Walk(v, p)[k], p[k + 1])
    <3>1. Walk(v, p)[k] # Missing
      BY <2>3 DEF Has, Is, Missing
    <3> QED BY <2>2, <2>3, <3>1, ProperChild
  <2>4. CASE ~Has(Walk(v, p)[k], p[k + 1])
    BY <2>2, <2>4 DEF Child
  <2> QED BY <2>3, <2>4
<1> HIDE DEF S
<1>3. \A k \in 0 .. Len(p) : k \in S
  BY <1>1, <1>2, Climb
<1> QED BY <1>3 DEF S

(* what set_path makes,                                                    *)
LEMMA ProperSet ==
  ASSUME NEW v, v = Missing \/ Proper(v), NEW p, Len(p) \in Nat, NEW w, Proper(w)
  PROVE  Proper(SetPath(v, p, w))
<1> DEFINE S == {k \in Nat : Proper(Rebuilt(v, p, w)[k])}
<1>1. 0 \in S
  BY RebuiltSteps
<1>2. \A k \in 0 .. Len(p) - 1 : k \in S => k + 1 \in S
  <2> SUFFICES ASSUME NEW k \in 0 .. Len(p) - 1, k \in S PROVE k + 1 \in S
    OBVIOUS
  <2> DEFINE i == k + 1
             u == Walk(v, p)[Len(p) - i]
  <2>1. i \in 1 .. Len(p) /\ i - 1 = k /\ Len(p) - i \in 0 .. Len(p)
    OBVIOUS
  <2> HIDE DEF i
  <2>2. Rebuilt(v, p, w)[i] = With(u, p[Len(p) - i + 1], Rebuilt(v, p, w)[i - 1])
    BY <2>1, RebuiltSteps
  <2>3. u = Missing \/ Proper(u)
    BY <2>1, ProperWalk
  <2> HIDE DEF u
  <2>4. Proper(Rebuilt(v, p, w)[i])
    BY <2>1, <2>2, <2>3, ProperWith
  <2> QED BY <2>4 DEF i
<1> HIDE DEF S
<1>3. \A k \in 0 .. Len(p) : k \in S
  BY <1>1, <1>2, Climb
<1> QED BY <1>3 DEF S, SetPath

(* (which stays a mapping)                                                 *)
LEMMA SetIsDict ==
  ASSUME NEW v, NEW p, Len(p) \in Nat, Is(v, "dict"), NEW w, Len(p) = 0 => Is(w, "dict")
  PROVE  Is(SetPath(v, p, w), "dict")
<1>1. CASE Len(p) = 0
  BY <1>1, LayerEnds
<1>2. CASE Len(p) # 0
  <2>1. 0 \in 0 .. Len(p) - 1
    BY <1>2
  <2> QED BY <2>1, LayerIsDict, LayerEnds
<1> QED BY <1>1, <1>2

(* and what del_path makes.                                                *)
LEMMA ProperDel ==
  ASSUME NEW v, Proper(v), Is(v, "dict"), NEW p \in Seq(Name), p # << >>
  PROVE  Proper(DelPath(v, p)) /\ Is(DelPath(v, p), "dict")
<1>1. CASE ~Has(Holder(v, p), Last(p))
  BY <1>1, DelCases
<1>2. CASE Has(Holder(v, p), Last(p))
  <2>1. Len(Front(p)) \in Nat /\ Len(Front(p)) \in 0 .. Len(Front(p))
    BY FrontParts
  <2>2. Holder(v, p) = Missing \/ Proper(Holder(v, p))
    BY <2>1, ProperWalk DEF Holder, GetPath
  <2>3. Is(Holder(v, p), "dict") /\ Holder(v, p) # Missing
    BY <1>2 DEF Has, Is, Missing
  <2>4. Proper(Without(Holder(v, p), Last(p))) /\ Is(Without(Holder(v, p), Last(p)), "dict")
    BY <2>2, <2>3, ProperWithout, WithoutParts
  <2> QED BY <1>2, <2>1, <2>4, DelCases, ProperSet, SetIsDict
<1> QED BY <1>1, <1>2

(* An update elsewhere leaves the identifier.                              *)
IdPath == <<"_id">>

(* The path of the identifier has one part.                                *)
LEMMA IdParts == IdPath \in Seq(Name) /\ Len(IdPath) = 1 /\ IdPath[1] = "_id" /\ IdPath # << >>
<1>1. Len(IdPath) = 1 /\ IdPath[1] = "_id"
  BY DEF IdPath
<1>2. IdPath = [i \in 1 .. 1 |-> "_id"]
  BY DEF IdPath
<1>3. "_id" \in Name /\ 1 \in Nat
  BY DEF Name
<1>4. IdPath \in Seq(Name)
  BY <1>2, <1>3
<1>5. Len(<< >>) = 0
  OBVIOUS
<1>6. IdPath # << >>
  BY <1>1, <1>5
<1> QED BY <1>1, <1>4, <1>6

(* It leads to the identifier,                                             *)
LEMMA IdWalk ==
  ASSUME NEW v
  PROVE  Walk(v, IdPath)[1] = Child(v, "_id") /\ GetPath(v, IdPath) = Child(v, "_id")
<1>1. \A i \in 1 .. Len(IdPath) : Walk(v, IdPath)[i] = Child(Walk(v, IdPath)[i - 1], IdPath[i])
  BY WalkSteps, IdParts
<1>2. Walk(v, IdPath)[0] = v
  BY WalkSteps, IdParts
<1> QED BY <1>1, <1>2, IdParts DEF GetPath

(* which no update changes.                                                *)
LEMMA IdStays ==
  ASSUME NEW v, NEW p \in Seq(Name), p # << >>, Head(p) # "_id", NEW w
  PROVE  /\ Child(SetPath(v, p, w), "_id") = Child(v, "_id")
         /\ Child(DelPath(v, p), "_id") = Child(v, "_id")
<1>1. Len(p) \in Nat \ {0} /\ p[1] # "_id"
  OBVIOUS
<1>2. Apart(p, IdPath, 1)
  BY <1>1, IdParts DEF Apart
<1>3. \A k \in 1 .. Len(IdPath) : Walk(SetPath(v, p, w), IdPath)[k] = Walk(v, IdPath)[k]
  BY <1>1, <1>2, SetElsewhere, IdParts
<1>4. \A k \in 1 .. Len(IdPath) : Walk(DelPath(v, p), IdPath)[k] = Walk(v, IdPath)[k]
  BY <1>1, <1>2, DelElsewhere, IdParts
<1> QED BY <1>3, <1>4, IdWalk, IdParts

----------------------------------------------------------------------------
(* The inductive invariant.                                                *)

Document(d, i) == Proper(d) /\ Is(d, "dict") /\ Child(d, "_id") = [str |-> Ids[i]]

DocsInv ==
  /\ docs \in Seq(ToSet(docs)) /\ Len(docs) <= Len(Ids)
  /\ \A i \in DOMAIN docs : Document(docs[i], i)

FoundFor(request) == SortDocuments(Matched(docs, request.query), request.sort)

AnswerInv ==
  \/ answer = NoAnswer
  \/ /\ answer.asked /\ answer.request \in Requests
     /\ ~answer.raised =>
          /\ \A i \in DOMAIN docs : Matches(docs[i], answer.request.query) # "raises"
          /\ answer.found = FoundFor(answer.request)
          /\ answer.rows = [k \in DOMAIN answer.found |->
                              Project(answer.found[k], answer.request.fields)]

IInv == DocsInv /\ AnswerInv

(* A sequence is one of its own elements.                                  *)
LEMMA OwnSequence ==
  ASSUME NEW S, NEW s \in Seq(S)
  PROVE  s \in Seq(ToSet(s)) /\ DOMAIN s = 1 .. Len(s) /\ Len(s) \in Nat
<1>1. DOMAIN s = 1 .. Len(s) /\ Len(s) \in Nat
  OBVIOUS
<1>2. \A i \in DOMAIN s : s[i] \in ToSet(s)
  BY DEF ToSet
<1> QED BY <1>1, <1>2

(* An inserted document has the next identifier.                           *)
LEMMA NewDocument ==
  ASSUME NEW content \in Contents, NEW i \in DOMAIN Ids
  PROVE  Document(With(content, "_id", [str |-> Ids[i]]), i)
BY JsonIsProper, JsonAssumption, IdsAssumption, ProperWith, WithParts DEF Document

(* An updated one keeps its identifier.                                    *)
LEMMA ChangedDocument ==
  ASSUME NEW i, NEW d, Document(d, i), NEW path \in Paths
  PROVE  /\ \A v \in Values : Document(SetPath(d, path, v), i)
         /\ Document(DelPath(d, path), i)
<1>1. path \in Seq(Name) /\ path # << >> /\ Head(path) # "_id" /\ Len(path) \in Nat /\ Len(path) # 0
  BY PathsAreNames
<1>2. ASSUME NEW v \in Values PROVE Document(SetPath(d, path, v), i)
  BY <1>1, JsonIsProper, JsonAssumption, ProperSet, SetIsDict, IdStays DEF Document
<1>3. Document(DelPath(d, path), i)
  BY <1>1, ProperDel, IdStays DEF Document
<1> QED BY <1>2, <1>3

(* No two documents are the same.                                          *)
LEMMA Distinct ==
  ASSUME DocsInv, NEW i \in DOMAIN docs, NEW k \in DOMAIN docs, docs[i] = docs[k]
  PROVE  i = k
<1>1. i \in DOMAIN Ids /\ k \in DOMAIN Ids
  BY OwnSequence, IdsAssumption DEF DocsInv
<1>2. [str |-> Ids[i]] = [str |-> Ids[k]]
  BY DEF DocsInv, Document
<1>3. [str |-> Ids[i]].str = Ids[i] /\ [str |-> Ids[k]].str = Ids[k]
  OBVIOUS
<1>4. Ids[i] = Ids[k]
  BY <1>2, <1>3
<1> QED BY <1>1, <1>4, IdsAssumption DEF IsInjective

(* An insertion keeps the invariant of the documents,                      *)
LEMMA DocsAdded ==
  ASSUME DocsInv, NEW content \in Contents, Len(docs) < Len(Ids),
         docs' = Append(docs, With(content, "_id", [str |-> Ids[Len(docs) + 1]]))
  PROVE  DocsInv'
<1> DEFINE n == Len(docs) + 1
           d == With(content, "_id", [str |-> Ids[n]])
<1>1. docs \in Seq(ToSet(docs)) /\ Len(docs) \in Nat /\ DOMAIN docs = 1 .. Len(docs)
  BY DEF DocsInv
<1>2. n \in DOMAIN Ids /\ n <= Len(Ids)
  BY <1>1, IdsAssumption
<1>3. Document(d, n)
  BY <1>2, NewDocument
<1> HIDE DEF d
<1>4. docs \in Seq(ToSet(docs) \union {d})
  BY <1>1
<1>5. docs' = Append(docs, d)
  BY DEF d
<1>6. docs' \in Seq(ToSet(docs) \union {d}) /\ Len(docs') = n
  BY <1>4, <1>5
<1>7. docs' \in Seq(ToSet(docs)')
  <2>1. docs' \in Seq(ToSet(docs'))
    BY <1>6, OwnSequence
  <2>2. ToSet(docs)' = ToSet(docs')
    BY DEF ToSet
  <2> QED BY <2>1, <2>2
<1>8. \A i \in DOMAIN docs' : docs'[i] = (IF i = n THEN d ELSE docs[i]) /\ (i # n => i \in DOMAIN docs)
  BY <1>1, <1>5, <1>6
<1>9. \A i \in DOMAIN docs' : Document(docs'[i], i)
  BY <1>3, <1>8 DEF DocsInv
<1> QED BY <1>2, <1>6, <1>7, <1>9 DEF DocsInv, Document

(* and so does an update.                                                  *)
LEMMA DocsChanged ==
  ASSUME DocsInv, NEW i \in DOMAIN docs, NEW d, Document(d, i), docs' = [docs EXCEPT ![i] = d]
  PROVE  DocsInv'
<1>1. docs \in Seq(ToSet(docs)) /\ Len(docs) \in Nat /\ DOMAIN docs = 1 .. Len(docs) /\ Len(docs) <= Len(Ids)
  BY DEF DocsInv
<1>2. docs \in Seq(ToSet(docs) \union {d})
  BY <1>1
<1>3. docs' \in Seq(ToSet(docs) \union {d}) /\ Len(docs') = Len(docs)
  BY <1>2
<1>4. docs' \in Seq(ToSet(docs)')
  <2>1. docs' \in Seq(ToSet(docs'))
    BY <1>3, OwnSequence
  <2>2. ToSet(docs)' = ToSet(docs')
    BY DEF ToSet
  <2> QED BY <2>1, <2>2
<1>5. \A k \in DOMAIN docs' : Document(docs'[k], k)
  BY DEF DocsInv
<1> QED BY <1>1, <1>3, <1>4, <1>5 DEF DocsInv, Document

(* The initial state satisfies the invariant.                              *)
LEMMA Initial == Init => IInv
BY DEF Init, IInv, DocsInv, AnswerInv, ToSet

(* Every step keeps it.                                                    *)
LEMMA Inductive == IInv /\ [Next]_vars => IInv'
<1> SUFFICES ASSUME IInv, [Next]_vars PROVE IInv'
  OBVIOUS
<1>1. ASSUME ~answer.asked PROVE answer = NoAnswer
  BY <1>1 DEF IInv, AnswerInv
<1>2. ASSUME NEW content \in Contents, Insert(content) PROVE IInv'
  <2>1. DocsInv'
    BY <1>2, DocsAdded DEF IInv, Insert
  <2>2. AnswerInv'
    BY <1>1, <1>2 DEF Insert, AnswerInv, NoAnswer
  <2> QED BY <2>1, <2>2 DEF IInv
<1>3. ASSUME NEW i \in DOMAIN docs, NEW path \in Paths, NEW v \in Values, Set(i, path, v)
      PROVE  IInv'
  <2>1. Document(SetPath(docs[i], path, v), i)
    BY ChangedDocument DEF IInv, DocsInv
  <2>2. docs' = [docs EXCEPT ![i] = SetPath(docs[i], path, v)]
    BY <1>3 DEF Set
  <2>3. DocsInv'
    BY <2>1, <2>2, DocsChanged DEF IInv
  <2>4. AnswerInv'
    BY <1>1, <1>3 DEF Set, AnswerInv, NoAnswer
  <2> QED BY <2>3, <2>4 DEF IInv
<1>4. ASSUME NEW i \in DOMAIN docs, NEW path \in Paths, Unset(i, path)
      PROVE  IInv'
  <2>1. Document(DelPath(docs[i], path), i)
    BY ChangedDocument DEF IInv, DocsInv
  <2>2. docs' = [docs EXCEPT ![i] = DelPath(docs[i], path)]
    BY <1>4 DEF Unset
  <2>3. DocsInv'
    BY <2>1, <2>2, DocsChanged DEF IInv
  <2>4. AnswerInv'
    BY <1>1, <1>4 DEF Unset, AnswerInv, NoAnswer
  <2> QED BY <2>3, <2>4 DEF IInv
<1>5. ASSUME NEW request \in Requests, Find(request) PROVE IInv'
  <2>1. DocsInv' /\ docs' = docs
    BY <1>5 DEF Find, IInv, DocsInv, Document, ToSet
  <2>2. CASE \E i \in DOMAIN docs : Matches(docs[i], request.query) = "raises"
    <3>1. answer' = [asked |-> TRUE, raised |-> TRUE, request |-> request]
      BY <1>5, <2>2, Zenon DEF Find
    <3> QED BY <2>1, <3>1 DEF IInv, AnswerInv
  <2>3. CASE ~ \E i \in DOMAIN docs : Matches(docs[i], request.query) = "raises"
    <3> DEFINE found == FoundFor(request)
               rows  == [k \in DOMAIN found |-> Project(found[k], request.fields)]
    <3>1. answer' = [asked |-> TRUE, raised |-> FALSE, request |-> request, found |-> found, rows |-> rows]
      BY <1>5, <2>3, Zenon DEF Find, FoundFor
    <3>2. FoundFor(request)' = found
      BY <2>1 DEF FoundFor
    <3> HIDE DEF found
    <3>3. answer'.asked /\ answer'.request = request /\ answer'.found = found /\ answer'.rows = rows
      BY <3>1
    <3> HIDE DEF rows
    <3>4. FoundFor(answer.request)' = found
      BY <2>1, <3>3, <3>2 DEF FoundFor, found
    <3>5. AnswerInv'
      BY <2>1, <2>3, <3>3, <3>4 DEF AnswerInv, rows
    <3> QED BY <2>1, <3>5 DEF IInv
  <2> QED BY <2>2, <2>3
<1>6. CASE Return
  BY <1>6 DEF Return, IInv, AnswerInv, DocsInv, Document, ToSet
<1>7. CASE UNCHANGED vars
  <2>1. docs' = docs /\ answer' = answer
    BY <1>7 DEF vars
  <2>2. FoundFor(answer.request)' = FoundFor(answer.request)
    BY <2>1 DEF FoundFor
  <2> QED BY <2>1, <2>2 DEF IInv, AnswerInv, DocsInv, Document, ToSet
<1> QED BY <1>2, <1>3, <1>4, <1>5, <1>6, <1>7 DEF Next

(* It holds in every reachable state.                                      *)
LEMMA Invariance == Spec => []IInv
BY Initial, Inductive, PTL DEF Spec

----------------------------------------------------------------------------
(* Projection.                                                             *)

(* Below what is missing everything is.                                    *)
LEMMA MissingStays ==
  ASSUME NEW v, NEW p, Len(p) \in Nat, NEW n \in 0 .. Len(p), Walk(v, p)[n] = Missing
  PROVE  \A k \in n .. Len(p) : Walk(v, p)[k] = Missing
<1> DEFINE S == {k \in Nat : Walk(v, p)[k] = Missing}
<1>1. n \in S /\ n \in Nat
  OBVIOUS
<1>2. \A k \in n .. Len(p) - 1 : k \in S => k + 1 \in S
  <2> SUFFICES ASSUME NEW k \in n .. Len(p) - 1, k \in S PROVE k + 1 \in S
    OBVIOUS
  <2>1. k + 1 \in 1 .. Len(p) /\ (k + 1) - 1 = k
    OBVIOUS
  <2>2. Walk(v, p)[k + 1] = Child(Missing, p[k + 1])
    BY <2>1, WalkSteps
  <2> QED BY <2>2 DEF Child, Has, Is, Missing
<1> HIDE DEF S
<1>3. \A k \in n .. Len(p) : k \in S
  BY <1>1, <1>2, Climb
<1> QED BY <1>3 DEF S

(* A name set to what it leads to changes nothing.                         *)
LEMMA WithSame ==
  ASSUME NEW v, Proper(v), NEW n, Has(v, n)
  PROVE  With(v, n, Child(v, n)) = v
<1>1. v = [dict |-> [m \in DOMAIN v.dict |-> v.dict[m]]] /\ n \in DOMAIN v.dict
  BY ProperParts, KindsApart DEF Has
<1>2. DOMAIN Fields(v) \union {n} = DOMAIN v.dict /\ Fields(v) = v.dict /\ Child(v, n) = v.dict[n]
  BY <1>1 DEF Fields, Has, Child
<1>3. With(v, n, Child(v, n)) = [dict |-> [m \in DOMAIN v.dict |-> v.dict[m]]]
  BY <1>2 DEF With
<1> QED BY <1>1, <1>3

(* Setting what is there already changes nothing.                          *)
LEMMA SetSame ==
  ASSUME NEW v, Proper(v), NEW p, Len(p) \in Nat, GetPath(v, p) # Missing
  PROVE  SetPath(v, p, GetPath(v, p)) = v
<1> DEFINE w == GetPath(v, p)
           S == {k \in Nat : Rebuilt(v, p, w)[k] = Walk(v, p)[Len(p) - k]}
<1>r. \A j \in 1 .. Len(p) :
        Rebuilt(v, p, w)[j] = With(Walk(v, p)[Len(p) - j], p[Len(p) - j + 1], Rebuilt(v, p, w)[j - 1])
  BY RebuiltSteps
<1>w. \A j \in 1 .. Len(p) : Walk(v, p)[j] = Child(Walk(v, p)[j - 1], p[j])
  BY WalkSteps
<1>1. 0 \in S
  BY RebuiltSteps DEF GetPath
<1>2. \A k \in 0 .. Len(p) - 1 : k \in S => k + 1 \in S
  <2> SUFFICES ASSUME NEW k \in 0 .. Len(p) - 1, k \in S PROVE k + 1 \in S
    OBVIOUS
  <2> DEFINE i == k + 1
             m == Len(p) - i
             u == Walk(v, p)[m]
             n == p[m + 1]
  <2>1. /\ i \in 1 .. Len(p) /\ i - 1 = k /\ m \in 0 .. Len(p) /\ m + 1 = Len(p) - k
        /\ m + 1 \in 1 .. Len(p) /\ (m + 1) - 1 = m /\ Len(p) \in m .. Len(p)
        /\ Len(p) \in m + 1 .. Len(p) /\ m + 1 \in 0 .. Len(p)
    OBVIOUS
  <2>2. Rebuilt(v, p, w)[i] = With(u, n, Rebuilt(v, p, w)[k])
    <3> HIDE DEF i, w
    <3>1. Rebuilt(v, p, w)[i] = With(Walk(v, p)[Len(p) - i], p[Len(p) - i + 1], Rebuilt(v, p, w)[i - 1])
      BY <1>r, <2>1, Zenon
    <3> QED BY <2>1, <3>1
  <2>3. Rebuilt(v, p, w)[k] = Walk(v, p)[m + 1]
    BY <2>1
  <2> HIDE DEF m
  <2>4. Walk(v, p)[m + 1] = Child(u, n)
    <3>1. Walk(v, p)[m + 1] = Child(Walk(v, p)[(m + 1) - 1], p[m + 1])
      BY <1>w, <2>1, Zenon
    <3> QED BY <2>1, <3>1
  <2>5. u # Missing /\ Walk(v, p)[m + 1] # Missing
    BY <2>1, MissingStays DEF GetPath
  <2>6. Proper(u)
    BY <2>1, <2>5, ProperWalk
  <2>7. Has(u, n)
    BY <2>4, <2>5 DEF Child
  <2> HIDE DEF u, n, w
  <2>8. With(u, n, Child(u, n)) = u
    BY <2>6, <2>7, WithSame
  <2>9. Rebuilt(v, p, w)[i] = u
    BY <2>2, <2>3, <2>4, <2>8
  <2> QED BY <2>1, <2>9 DEF u, m
<1> HIDE DEF S, w
<1>3. \A k \in 0 .. Len(p) : k \in S
  BY <1>1, <1>2, Climb
<1>4. Rebuilt(v, p, w)[Len(p)] = Walk(v, p)[0]
  <2>1. Len(p) \in S /\ Len(p) - Len(p) = 0
    BY <1>3
  <2> QED BY <2>1 DEF S
<1> QED BY <1>4, WalkSteps DEF SetPath, w

(* The prefixes of a path are ordered.                                     *)
LEMMA PrefixesCompose ==
  ASSUME NEW p \in Seq(Name), NEW q \in Seq(Name), NEW r \in Seq(Name)
  PROVE  /\ IsPrefix(p, p)
         /\ IsPrefix(p, q) /\ IsPrefix(q, r) => IsPrefix(p, r)
         /\ IsPrefix(p, r) /\ IsPrefix(q, r) => Related(p, q)
<1>1. IsPrefix(p, p)
  BY PrefixParts
<1>2. ASSUME IsPrefix(p, q), IsPrefix(q, r) PROVE IsPrefix(p, r)
  <2>1. Len(p) <= Len(q) /\ \A i \in 1 .. Len(p) : p[i] = q[i]
    BY <1>2, PrefixParts
  <2>2. Len(q) <= Len(r) /\ \A i \in 1 .. Len(q) : q[i] = r[i]
    BY <1>2, PrefixParts
  <2>3. Len(p) <= Len(r) /\ \A i \in 1 .. Len(p) : p[i] = r[i]
    BY <2>1, <2>2
  <2> QED BY <2>3, PrefixParts
<1>3. ASSUME IsPrefix(p, r), IsPrefix(q, r) PROVE Related(p, q)
  <2>1. Len(p) <= Len(r) /\ \A i \in 1 .. Len(p) : p[i] = r[i]
    BY <1>3, PrefixParts
  <2>2. Len(q) <= Len(r) /\ \A i \in 1 .. Len(q) : q[i] = r[i]
    BY <1>3, PrefixParts
  <2>3. CASE Len(p) <= Len(q)
    <3>1. \A i \in 1 .. Len(p) : p[i] = q[i]
      BY <2>1, <2>2, <2>3
    <3> QED BY <2>3, <3>1, PrefixParts DEF Related
  <2>4. CASE Len(q) <= Len(p)
    <3>1. \A i \in 1 .. Len(q) : q[i] = p[i]
      BY <2>1, <2>2, <2>4
    <3> QED BY <2>4, <3>1, PrefixParts DEF Related
  <2> QED BY <2>3, <2>4
<1> QED BY <1>1, <1>2, <1>3

(* Below a path both lead on in the same way.                              *)
LEMMA PrefixWalked ==
  ASSUME NEW v, NEW p \in Seq(Name), NEW q \in Seq(Name), IsPrefix(p, q)
  PROVE  /\ Walk(v, q)[Len(p)] = GetPath(v, p)
         /\ Len(p) \in 0 .. Len(q) /\ Len(q) \in Len(p) .. Len(q) /\ Len(q) \in Nat /\ Len(p) \in Nat
<1>1. Len(p) <= Len(q) /\ (\A i \in 1 .. Len(p) : p[i] = q[i]) /\ Len(p) \in Nat /\ Len(q) \in Nat
  BY PrefixParts
<1>2. \A k \in 0 .. Len(p) : Walk(v, p)[k] = Walk(v, q)[k]
  BY <1>1, WalksAgree
<1> QED BY <1>1, <1>2 DEF GetPath

(* What is missing at a path is missing below it.                          *)
LEMMA MissingBelow ==
  ASSUME NEW v, NEW p \in Seq(Name), NEW q \in Seq(Name), IsPrefix(p, q), GetPath(v, p) = Missing
  PROVE  GetPath(v, q) = Missing
BY PrefixWalked, MissingStays DEF GetPath

(* What is equal at a path is equal below it.                              *)
LEMMA EqualBelow ==
  ASSUME NEW u, NEW v, NEW p \in Seq(Name), NEW q \in Seq(Name), IsPrefix(p, q),
         GetPath(u, p) = GetPath(v, p)
  PROVE  GetPath(u, q) = GetPath(v, q)
BY PrefixWalked, WalksMeet DEF GetPath

(* What is shown, when F are the fields of the document asked for so far.  *)
ShownOf(r, d, F) ==
  \A q \in Seq(Name) \ {<< >>} :
    /\ (\E f \in F : IsPrefix(f, q)) => GetPath(r, q) = GetPath(d, q)
    /\ ~(\E f \in F : IsPrefix(f, q)) /\ (\E f \in F : IsPrefix(q, f)) => Is(GetPath(r, q), "dict")
    /\ ~(\E f \in F : Related(f, q)) => GetPath(r, q) = Missing

(* One more field that is present is shown, and nothing else changes.      *)
LEMMA ShowMore ==
  ASSUME NEW r, Proper(r), NEW d, NEW F \in SUBSET (Seq(Name) \ {<< >>}), ShownOf(r, d, F),
         NEW f \in Seq(Name) \ {<< >>}, GetPath(d, f) # Missing
  PROVE  ShownOf(SetPath(r, f, GetPath(d, f)), d, F \union {f})
<1> DEFINE w == GetPath(d, f)
           new == SetPath(r, f, w)
<1> SUFFICES ASSUME NEW q \in Seq(Name) \ {<< >>}
             PROVE  /\ (\E g \in F \union {f} : IsPrefix(g, q)) => GetPath(new, q) = GetPath(d, q)
                    /\ ~(\E g \in F \union {f} : IsPrefix(g, q)) /\ (\E g \in F \union {f} : IsPrefix(q, g))
                         => Is(GetPath(new, q), "dict")
                    /\ ~(\E g \in F \union {f} : Related(g, q)) => GetPath(new, q) = Missing
  BY DEF ShownOf
<1>0. Len(f) \in Nat /\ Len(q) \in Nat
  OBVIOUS
<1> HIDE DEF new
<1>1. CASE IsPrefix(f, q)
  <2>1. GetPath(new, f) = GetPath(d, f)
    BY <1>0, SetThere DEF new
  <2>2. GetPath(new, q) = GetPath(d, q)
    BY <1>1, <2>1, EqualBelow
  <2> QED BY <1>1, <2>2 DEF Related
<1>2. CASE ~IsPrefix(f, q) /\ IsPrefix(q, f)
  <2>1. CASE \E g \in F : IsPrefix(g, q)
    <3>1. GetPath(r, f) = GetPath(d, f)
      BY <1>2, <2>1, PrefixesCompose DEF ShownOf
    <3>2. new = r
      BY <1>0, <3>1, SetSame DEF new
    <3> QED BY <2>1, <3>2 DEF ShownOf, Related
  <2>2. CASE ~\E g \in F : IsPrefix(g, q)
    <3>1. Len(q) <= Len(f) /\ \A i \in 1 .. Len(q) : q[i] = f[i]
      BY <1>2, PrefixParts
    <3>2. Len(q) # Len(f)
      BY <1>0, <1>2, <3>1, PrefixParts
    <3>3. \A k \in 0 .. Len(q) : Walk(new, q)[k] = Layer(r, f, w, k)
      BY <1>0, <3>1, LayersWalked DEF new
    <3>4. GetPath(new, q) = Layer(r, f, w, Len(q))
      BY <1>0, <3>3 DEF GetPath
    <3>5. Len(q) \in 0 .. Len(f) - 1
      BY <1>0, <3>1, <3>2
    <3>6. Is(Layer(r, f, w, Len(q)), "dict")
      BY <1>0, <3>5, LayerIsDict
    <3> QED BY <1>2, <2>2, <3>4, <3>6 DEF Related
  <2> QED BY <2>1, <2>2
<1>3. CASE ~Related(f, q)
  <2>1. PICK m \in Nat : Apart(f, q, m)
    BY <1>3, PathsPart
  <2>2. Len(q) \in m .. Len(q)
    BY <1>0, <2>1 DEF Apart
  <2>3. GetPath(new, q) = GetPath(r, q)
    BY <1>0, <2>1, <2>2, SetElsewhere DEF new, GetPath
  <2> QED BY <1>3, <2>3 DEF ShownOf, Related
<1> QED BY <1>1, <1>2, <1>3 DEF Related

(* The empty mapping shows nothing.                                        *)
LEMMA EmptyIsProper == Proper(EmptyDict) /\ \A n : ~Has(EmptyDict, n)
<1>1. Is(EmptyDict, "dict") /\ EmptyDict.dict = << >>
  BY DEF EmptyDict, Is
<1>2. DOMAIN EmptyDict.dict = {}
  BY <1>1
<1>3. EmptyDict.dict = [n \in DOMAIN EmptyDict.dict |-> EmptyDict.dict[n]]
  BY <1>1, <1>2
<1>4. EmptyDict = [dict |-> [n \in DOMAIN EmptyDict.dict |-> EmptyDict.dict[n]]]
  BY <1>3 DEF EmptyDict
<1>5. Proper(EmptyDict)
  BY <1>1, <1>2, <1>4, ProperDict
<1> QED BY <1>2, <1>5 DEF Has

(* It shows no field of any document.                                      *)
LEMMA NothingShown ==
  ASSUME NEW d
  PROVE  ShownOf(EmptyDict, d, {})
<1> SUFFICES ASSUME NEW q \in Seq(Name) \ {<< >>} PROVE GetPath(EmptyDict, q) = Missing
  BY DEF ShownOf
<1>1. Len(q) \in Nat /\ 1 \in 1 .. Len(q) /\ 1 - 1 = 0 /\ 1 \in 0 .. Len(q) /\ Len(q) \in 1 .. Len(q)
  OBVIOUS
<1>2. \A i \in 1 .. Len(q) : Walk(EmptyDict, q)[i] = Child(Walk(EmptyDict, q)[i - 1], q[i])
  BY <1>1, WalkSteps
<1>3. Walk(EmptyDict, q)[0] = EmptyDict
  BY <1>1, WalkSteps
<1>4. Walk(EmptyDict, q)[1] = Missing
  BY <1>1, <1>2, <1>3, EmptyIsProper DEF Child
<1>5. \A k \in 1 .. Len(q) : Walk(EmptyDict, q)[k] = Missing
  BY <1>1, <1>4, MissingStays
<1> QED BY <1>1, <1>5 DEF GetPath

(* The fields that the document has among the first n.                     *)
Present(d, fields, n) == {fields[i] : i \in {k \in 1 .. n : GetPath(d, fields[k]) # Missing}}

(* After n fields those that are present are shown.                        *)
LEMMA AllShown ==
  ASSUME NEW d, Proper(d), NEW fields \in Seq(Seq(STRING) \ {<< >>})
  PROVE  \A n \in 0 .. Len(fields) :
           /\ Proper(Shown(d, fields)[n])
           /\ ShownOf(Shown(d, fields)[n], d, Present(d, fields, n))
<1> DEFINE S == {n \in Nat : /\ Proper(Shown(d, fields)[n])
                             /\ ShownOf(Shown(d, fields)[n], d, Present(d, fields, n))}
<1>0. Len(fields) \in Nat
  OBVIOUS
<1>1. 0 \in S
  <2>1. Present(d, fields, 0) = {}
    BY DEF Present
  <2>2. Shown(d, fields)[0] = EmptyDict
    BY <1>0, ShownSteps
  <2> QED BY <2>1, <2>2, NothingShown, EmptyIsProper
<1>2. \A n \in 0 .. Len(fields) - 1 : n \in S => n + 1 \in S
  <2> SUFFICES ASSUME NEW n \in 0 .. Len(fields) - 1, n \in S PROVE n + 1 \in S
    OBVIOUS
  <2> DEFINE i == n + 1
             r == Shown(d, fields)[n]
             f == fields[i]
             F == Present(d, fields, n)
  <2>1. i \in 1 .. Len(fields) /\ i - 1 = n
    OBVIOUS
  <2>2. f \in Seq(Name) \ {<< >>} /\ Len(f) \in Nat /\ F \in SUBSET (Seq(Name) \ {<< >>})
    <3>1. \A k \in 1 .. Len(fields) : fields[k] \in Seq(Name) \ {<< >>}
      BY PathsAreNames
    <3> QED BY <2>1, <3>1 DEF Present
  <2>3. Proper(r) /\ ShownOf(r, d, F)
    OBVIOUS
  <2> HIDE DEF i, r
  <2>4. Shown(d, fields)[i] = IF GetPath(d, f) = Missing THEN r ELSE SetPath(r, f, GetPath(d, f))
    BY <1>0, <2>1, ShownSteps DEF r
  <2>5. CASE GetPath(d, f) = Missing
    <3>1. Present(d, fields, i) = F
      BY <2>1, <2>5 DEF Present
    <3> QED BY <2>1, <2>3, <2>4, <2>5, <3>1 DEF i
  <2>6. CASE GetPath(d, f) # Missing
    <3>1. Present(d, fields, i) = F \union {f}
      <4>1. {k \in 1 .. i : GetPath(d, fields[k]) # Missing} =
              {k \in 1 .. n : GetPath(d, fields[k]) # Missing} \union {i}
        BY <2>1, <2>6
      <4> QED BY <4>1 DEF Present
    <3>2. Proper(GetPath(d, f))
      <4> HIDE DEF f
      <4>1. \A k \in 0 .. Len(f) : Walk(d, f)[k] = Missing \/ Proper(Walk(d, f)[k])
        BY <2>2, ProperWalk
      <4>2. Len(f) \in 0 .. Len(f)
        BY <2>2
      <4> QED BY <2>6, <4>1, <4>2 DEF GetPath
    <3> HIDE DEF F, f
    <3>3. Proper(SetPath(r, f, GetPath(d, f)))
      BY <2>2, <2>3, <3>2, ProperSet
    <3>4. ShownOf(SetPath(r, f, GetPath(d, f)), d, F \union {f})
      BY <2>2, <2>3, <2>6, ShowMore
    <3>5. Proper(Shown(d, fields)[i]) /\ ShownOf(Shown(d, fields)[i], d, Present(d, fields, i))
      BY <2>4, <2>6, <3>1, <3>3, <3>4
    <3> QED BY <2>1, <3>5 DEF i
  <2> QED BY <2>5, <2>6
<1> HIDE DEF S
<1>3. \A n \in 0 .. Len(fields) : n \in S
  BY <1>0, <1>1, <1>2, Climb
<1> QED BY <1>3 DEF S

(* The identifier is set as a path of one part.                            *)
LEMMA SetIdentifier ==
  ASSUME NEW v, NEW w
  PROVE  SetPath(v, IdPath, w) = With(v, "_id", w)
<1>1. 0 \in 0 .. Len(IdPath) - 1 /\ 0 + 1 = 1 /\ Len(IdPath) \in Nat
  BY IdParts
<1>2. Layer(v, IdPath, w, 0) = With(Walk(v, IdPath)[0], IdPath[0 + 1], Layer(v, IdPath, w, 0 + 1))
  BY <1>1, LayerStep
<1>3. Layer(v, IdPath, w, Len(IdPath)) = w /\ SetPath(v, IdPath, w) = Layer(v, IdPath, w, 0)
  BY <1>1, LayerEnds
<1>4. Walk(v, IdPath)[0] = v
  BY WalkSteps, IdParts
<1> QED BY <1>1, <1>2, <1>3, <1>4, IdParts

(* The identifier is a text: no field leads below it.                      *)
LEMMA BelowText ==
  ASSUME NEW d, NEW s, Child(d, "_id") = [str |-> s], NEW f \in Seq(Name) \ {<< >>},
         Related(f, IdPath), GetPath(d, f) # Missing
  PROVE  f = IdPath
<1>1. Len(f) \in Nat \ {0} /\ Len(IdPath) = 1 /\ IdPath[1] = "_id"
  BY IdParts
<1>2. f[1] = "_id"
  BY <1>1, PrefixParts, IdParts DEF Related
<1>3. Len(f) = 1
  <2> SUFFICES ASSUME Len(f) # 1 PROVE FALSE
    OBVIOUS
  <2>0. Len(f) \in Nat /\ Len(f) >= 2
    <3>1. \A n \in Nat \ {0} : n # 1 => n \in Nat /\ n >= 2
      OBVIOUS
    <3> QED BY <1>1, <3>1, Zenon
  <2>1. /\ 2 \in 1 .. Len(f) /\ 2 - 1 = 1 /\ 1 - 1 = 0 /\ 1 \in 1 .. Len(f)
        /\ 2 \in 0 .. Len(f) /\ Len(f) \in 2 .. Len(f)
    BY <2>0
  <2>2. \A i \in 1 .. Len(f) : Walk(d, f)[i] = Child(Walk(d, f)[i - 1], f[i])
    BY <1>1, WalkSteps
  <2>3. Walk(d, f)[0] = d
    BY <1>1, WalkSteps
  <2>4. Walk(d, f)[1] = [str |-> s]
    BY <1>2, <2>1, <2>2, <2>3
  <2>5. ~Has([str |-> s], f[2])
    BY DEF Has, Is
  <2>6. Walk(d, f)[2] = Missing
    BY <2>1, <2>2, <2>4, <2>5 DEF Child
  <2>7. \A k \in 2 .. Len(f) : Walk(d, f)[k] = Missing
    BY <1>1, <2>1, <2>6, MissingStays
  <2> QED BY <2>1, <2>7 DEF GetPath
<1>4. f \in Seq(Name) /\ IdPath \in Seq(Name) /\ DOMAIN f = 1 .. 1 /\ DOMAIN IdPath = 1 .. 1
  BY <1>1, <1>3, IdParts
<1>5. f = [i \in 1 .. 1 |-> f[i]] /\ IdPath = [i \in 1 .. 1 |-> IdPath[i]]
  BY <1>4
<1>6. \A i \in 1 .. 1 : f[i] = IdPath[i]
  BY <1>1, <1>2
<1> QED BY <1>5, <1>6, Zenon

(* project shows the fields that are present and the identifier.           *)
LEMMA ProjectionShows ==
  ASSUME NEW d, Proper(d), NEW s, Child(d, "_id") = [str |-> s],
         NEW fields \in Seq(Seq(STRING) \ {<< >>}), fields # << >>
  PROVE  ShownOf(Project(d, fields), d, Present(d, fields, Len(fields)) \union {IdPath})
<1> DEFINE r == Shown(d, fields)[Len(fields)]
           F == Present(d, fields, Len(fields))
<1>1. Proper(r) /\ ShownOf(r, d, F)
  <2>1. Len(fields) \in 0 .. Len(fields)
    OBVIOUS
  <2> QED BY <2>1, AllShown
<1>2. \A f \in F : f \in Seq(Name) \ {<< >>} /\ GetPath(d, f) # Missing
  <2>1. \A k \in 1 .. Len(fields) : fields[k] \in Seq(Name) \ {<< >>}
    BY PathsAreNames
  <2> QED BY <2>1 DEF Present
<1>3. Child(d, "_id") # Missing
  <2>1. DOMAIN [str |-> s] = {"str"} /\ DOMAIN [missing |-> 0] = {"missing"}
    OBVIOUS
  <2> QED BY <2>1 DEF Missing
<1>4. Has(d, "_id") /\ d.dict["_id"] = Child(d, "_id") /\ GetPath(d, IdPath) = Child(d, "_id")
  BY <1>3, IdWalk DEF Child
<1>5. CASE ~Has(r, "_id")
  <2>1. Project(d, fields) = With(r, "_id", d.dict["_id"])
    BY <1>4, <1>5, Zenon DEF Project
  <2>2. Project(d, fields) = SetPath(r, IdPath, GetPath(d, IdPath))
    BY <1>4, <2>1, SetIdentifier
  <2> HIDE DEF r, F
  <2>3. ShownOf(Project(d, fields), d, F \union {IdPath})
    BY <1>1, <1>2, <1>3, <1>4, <2>2, ShowMore, IdParts
  <2> QED BY <2>3 DEF F
<1>6. CASE Has(r, "_id")
  <2>1. Project(d, fields) = r
    BY <1>6, Zenon DEF Project
  <2> HIDE DEF r, F
  <2>2. GetPath(r, IdPath) # Missing
    BY <1>1, <1>6, IdWalk, ProperChild, ProperParts, KindsApart
  <2>3. PICK f \in F : Related(f, IdPath)
    BY <1>1, <2>2, IdParts DEF ShownOf
  <2>4. f = IdPath
    BY <1>2, <2>3, BelowText
  <2>5. F \union {IdPath} = F
    BY <2>4
  <2> QED BY <1>1, <2>1, <2>5 DEF r, F
<1> QED BY <1>5, <1>6

(* What a row shows, by the fields that were asked for.                    *)
ShowsAsAsked(d, asked, path, shown) ==
  /\ (\E f \in asked : IsPrefix(f, path)) => shown = GetPath(d, path)
  /\ ~(\E f \in asked : IsPrefix(f, path)) /\ (\E f \in asked : IsPrefix(path, f)) =>
       shown = Missing \/ Is(shown, "dict")
  /\ ~(\E f \in asked : IsPrefix(f, path)) /\ ~(\E f \in asked : IsPrefix(path, f)) => shown = Missing

(* A row shows what its document holds.                                    *)
LEMMA RowFaithful ==
  ASSUME NEW d, Proper(d), NEW s, Child(d, "_id") = [str |-> s],
         NEW fields \in Seq(Seq(STRING) \ {<< >>}), fields # << >>,
         NEW path \in Seq(Name) \ {<< >>},
         NEW asked, asked = ToSet(fields) \union {IdPath},
         NEW shown, shown = GetPath(Project(d, fields), path)
  PROVE  ShowsAsAsked(d, asked, path, shown)
<1> DEFINE F == Present(d, fields, Len(fields)) \union {IdPath}
<1>1. ShownOf(Project(d, fields), d, F)
  BY ProjectionShows
<1>2. F \subseteq asked
  BY DEF Present, ToSet
<1>3. \A f \in asked : f \in Seq(Name) /\ (f \notin F => GetPath(d, f) = Missing)
  <2>1. \A k \in 1 .. Len(fields) : fields[k] \in Seq(Name) \ {<< >>}
    BY PathsAreNames
  <2>2. \A f \in ToSet(fields) : \E k \in 1 .. Len(fields) : f = fields[k]
    BY DEF ToSet
  <2>3. \A k \in 1 .. Len(fields) : fields[k] \notin F => GetPath(d, fields[k]) = Missing
    BY DEF Present
  <2>4. IdPath \in F
    OBVIOUS
  <2> HIDE DEF F
  <2> SUFFICES ASSUME NEW f \in asked
               PROVE  f \in Seq(Name) /\ (f \notin F => GetPath(d, f) = Missing)
    OBVIOUS
  <2>5. CASE f \in ToSet(fields)
    <3>1. PICK k \in 1 .. Len(fields) : f = fields[k]
      BY <2>2, <2>5
    <3> QED BY <2>1, <2>3, <3>1
  <2>6. CASE f = IdPath
    BY <2>4, <2>6, IdParts
  <2> QED BY <2>5, <2>6
<1>4. \A f \in F : GetPath(d, f) # Missing
  <2>1. DOMAIN [str |-> s] = {"str"} /\ DOMAIN [missing |-> 0] = {"missing"}
    OBVIOUS
  <2>2. GetPath(d, IdPath) # Missing
    BY <2>1, IdWalk DEF Missing
  <2> QED BY <2>2 DEF Present
<1> HIDE DEF F
<1>5. ASSUME NEW f \in asked, IsPrefix(f, path) PROVE shown = GetPath(d, path)
  <2>1. CASE \E g \in F : IsPrefix(g, path)
    BY <1>1, <2>1 DEF ShownOf
  <2>2. CASE ~\E g \in F : IsPrefix(g, path)
    <3>1. GetPath(d, f) = Missing /\ GetPath(d, path) = Missing
      BY <1>3, <1>5, <2>2, MissingBelow
    <3>2. ~\E g \in F : Related(g, path)
      <4> SUFFICES ASSUME NEW g \in F, IsPrefix(path, g) PROVE FALSE
        BY <2>2 DEF Related
      <4>1. IsPrefix(f, g)
        BY <1>2, <1>3, <1>5, PrefixesCompose
      <4> QED BY <1>2, <1>3, <1>4, <3>1, <4>1, MissingBelow
    <3> QED BY <1>1, <3>1, <3>2 DEF ShownOf
  <2> QED BY <2>1, <2>2
<1>6. ASSUME ~\E f \in asked : IsPrefix(f, path) PROVE shown = Missing \/ Is(shown, "dict")
  BY <1>1, <1>2, <1>6 DEF ShownOf, Related
<1>7. ASSUME ~(\E f \in asked : IsPrefix(f, path)), ~(\E f \in asked : IsPrefix(path, f))
      PROVE  shown = Missing
  BY <1>1, <1>2, <1>7 DEF ShownOf, Related
<1> QED BY <1>5, <1>6, <1>7 DEF ShowsAsAsked

----------------------------------------------------------------------------
(* Queries and what they mean.                                             *)

(* The minimum of a set of numbers.                                        *)
LEMMA MinIsIn ==
  ASSUME NEW S \in SUBSET Nat, S # {}
  PROVE  Min(S) \in S /\ \A y \in S : Min(S) <= y
BY LeastNumber DEF Min

(* Where every outcome is yes or no, stopping early changes nothing.       *)
LEMMA ThroughoutDecides ==
  ASSUME NEW s, DOMAIN s \subseteq Nat, \A i \in DOMAIN s : s[i] \in {"yes", "no"}
  PROVE  /\ Throughout("yes", s) \in {"yes", "no"}
         /\ Throughout("yes", s) = "yes" <=> \A i \in DOMAIN s : s[i] = "yes"
         /\ Throughout("no", s) \in {"yes", "no"}
         /\ Throughout("no", s) = "yes" <=> \E i \in DOMAIN s : s[i] = "yes"
<1>1. ASSUME NEW o \in {"yes", "no"}
      PROVE  /\ (\A i \in DOMAIN s : s[i] = o) => Throughout(o, s) = o
             /\ (\E i \in DOMAIN s : s[i] # o) => Throughout(o, s) # o /\ Throughout(o, s) \in {"yes", "no"}
  <2> DEFINE others == {i \in DOMAIN s : s[i] # o}
  <2>1. Throughout(o, s) = IF others = {} THEN o ELSE s[Min(others)]
    BY DEF Throughout
  <2>2. others # {} => Min(others) \in others
    <3>1. others \in SUBSET Nat
      OBVIOUS
    <3> HIDE DEF others
    <3> QED BY <3>1, MinIsIn
  <2> QED BY <2>1, <2>2
<1> QED BY <1>1

(* The conditions of the algebra, operator by operator.                    *)
LEMMA PassingIs ==
  ASSUME NEW D, NEW d \in D, NEW path, NEW e, NEW v, v = GetPath(d, path)
  PROVE  /\ d \in Passing(D, path, "$eq", e) <=> v = e
         /\ d \in Passing(D, path, "$ne", e) <=> v # e
         /\ d \in Passing(D, path, "$gt", e) <=> OneKind(v, e) /\ Key(v) > Key(e)
         /\ d \in Passing(D, path, "$gte", e) <=> (OneKind(v, e) /\ Key(v) > Key(e)) \/ v = e
         /\ d \in Passing(D, path, "$lt", e) <=> OneKind(v, e) /\ Key(v) < Key(e)
         /\ d \in Passing(D, path, "$lte", e) <=> (OneKind(v, e) /\ Key(v) < Key(e)) \/ v = e
         /\ d \in Passing(D, path, "$in", e) <=> Elements(v) \intersect Items(e) # {}
         /\ d \in Passing(D, path, "$nin", e) <=> Elements(v) \intersect Items(e) = {}
         /\ d \in Passing(D, path, "$all", e) <=> Is(v, "list") /\ Items(e) \subseteq Elements(v)
         /\ d \in Passing(D, path, "$exists", e) <=> IF e \in Falsy THEN v = Missing ELSE v # Missing
<1>1. d \in Passing(D, path, "$eq", e) <=> v = e
  BY DEF Passing
<1>2. d \in Passing(D, path, "$ne", e) <=> v # e
  BY DEF Passing
<1>3. d \in Passing(D, path, "$gt", e) <=> OneKind(v, e) /\ Key(v) > Key(e)
  BY DEF Passing
<1>4. d \in Passing(D, path, "$gte", e) <=> (OneKind(v, e) /\ Key(v) > Key(e)) \/ v = e
  BY DEF Passing
<1>5. d \in Passing(D, path, "$lt", e) <=> OneKind(v, e) /\ Key(v) < Key(e)
  BY DEF Passing
<1>6. d \in Passing(D, path, "$lte", e) <=> (OneKind(v, e) /\ Key(v) < Key(e)) \/ v = e
  BY DEF Passing
<1>7. d \in Passing(D, path, "$in", e) <=> Elements(v) \intersect Items(e) # {}
  BY DEF Passing
<1>8. d \in Passing(D, path, "$nin", e) <=> Elements(v) \intersect Items(e) = {}
  BY DEF Passing
<1>9. d \in Passing(D, path, "$all", e) <=> Is(v, "list") /\ Items(e) \subseteq Elements(v)
  BY DEF Passing
<1>10. d \in Passing(D, path, "$exists", e) <=> IF e \in Falsy THEN v = Missing ELSE v # Missing
  BY DEF Passing
<1> QED BY <1>1, <1>2, <1>3, <1>4, <1>5, <1>6, <1>7, <1>8, <1>9, <1>10

(* The key of a string is its place in the order of the texts,             *)
LEMMA KeyOfText ==
  ASSUME NEW v, WellFormed(v), Is(v, "str")
  PROVE  Key(v) \in DOMAIN TextOrder /\ TextOrder[Key(v)] = v /\ Key(v) \in Nat
<1>1. v \in ToSet(TextOrder) /\ ~Is(v, "num")
  BY KindsApart
<1>2. \E i \in DOMAIN TextOrder : TextOrder[i] = v
  BY <1>1 DEF ToSet
<1>3. Key(v) = CHOOSE i \in DOMAIN TextOrder : TextOrder[i] = v
  BY <1>1 DEF Key
<1>4. DOMAIN TextOrder \subseteq Nat
  BY TextAssumption
<1> QED BY <1>2, <1>3, <1>4

(* which its key decides.                                                  *)
LEMMA TextsInOrder ==
  ASSUME NEW a, WellFormed(a), Is(a, "str"), NEW b, WellFormed(b), Is(b, "str")
  PROVE  /\ TextBefore(a, b) <=> Key(a) < Key(b)
         /\ Key(a) = Key(b) => a = b
<1>1. \A i \in DOMAIN TextOrder : (TextOrder[i] = a => i = Key(a)) /\ (TextOrder[i] = b => i = Key(b))
  BY KeyOfText, TextAssumption DEF IsInjective
<1> QED BY <1>1, KeyOfText DEF TextBefore

(* < on values of one kind, where one of them is a number or a string.     *)
LEMMA LessByKey ==
  ASSUME NEW a, WellFormed(a), NEW b, WellFormed(b),
         Is(a, "num") \/ Is(a, "str") \/ Is(b, "num") \/ Is(b, "str")
  PROVE  /\ Less(a, b) \in {"yes", "no", "TypeError"}
         /\ Less(a, b) = "yes" <=> OneKind(a, b) /\ Key(a) < Key(b)
         /\ Less(a, b) = "TypeError" <=> ~OneKind(a, b)
<1>1. Less(a, b) = PlainLess(a, b) /\ ~(Is(a, "list") /\ Is(b, "list"))
  BY KindsApart DEF Less
<1>2. CASE Is(a, "num") /\ Is(b, "num")
  <2>1. PlainLess(a, b) = Test(a.num < b.num)
    BY <1>1, <1>2, KindsApart DEF PlainLess
  <2>2. Key(a) = a.num /\ Key(b) = b.num
    BY <1>2, KindsApart DEF Key
  <2> QED BY <1>1, <1>2, <2>1, <2>2 DEF OneKind, Test
<1>3. CASE Is(a, "str") /\ Is(b, "str")
  <2>1. PlainLess(a, b) = Test(TextBefore(a, b))
    BY <1>1, <1>3, KindsApart DEF PlainLess
  <2> QED BY <1>1, <1>3, <2>1, TextsInOrder DEF OneKind, Test
<1>4. CASE ~(Is(a, "num") /\ Is(b, "num")) /\ ~(Is(a, "str") /\ Is(b, "str"))
  <2>1. PlainLess(a, b) = "TypeError"
    BY <1>1, <1>4 DEF PlainLess
  <2> QED BY <1>1, <1>4, <2>1 DEF OneKind
<1> QED BY <1>2, <1>3, <1>4

(* any(item in expected): an element is shared.                            *)
LEMMA AnyInShares ==
  ASSUME NEW v, WellFormed(v), NEW e, WellFormed(e), Is(e, "list")
  PROVE  /\ AnyIn(v, e) \in {"yes", "no"}
         /\ AnyIn(v, e) = "yes" <=> Elements(v) \intersect Items(e) # {}
<1>1. \A x : In(x, e) = Test(x \in Items(e))
  BY KindsApart DEF In
<1>2. CASE Is(v, "list")
  <2> DEFINE s == [i \in DOMAIN v.list |-> In(v.list[i], e)]
  <2>1. DOMAIN s \subseteq Nat /\ \A i \in DOMAIN s : s[i] \in {"yes", "no"}
    BY <1>1, <1>2, KindsApart DEF Test
  <2>2. (\E i \in DOMAIN s : s[i] = "yes") <=> Elements(v) \intersect Items(e) # {}
    <3>1. Elements(v) = {v.list[i] : i \in DOMAIN v.list}
      BY <1>2 DEF Elements, Items
    <3>2. \A i \in DOMAIN v.list : s[i] = "yes" <=> v.list[i] \in Items(e)
      BY <1>1 DEF Test
    <3> QED BY <3>1, <3>2
  <2>3. AnyIn(v, e) = Throughout("no", s)
    BY <1>2 DEF AnyIn
  <2> HIDE DEF s
  <2> QED BY <2>1, <2>2, <2>3, ThroughoutDecides
<1>3. CASE ~Is(v, "list")
  <2>1. Elements(v) = {v}
    BY <1>3, KindsApart DEF Elements
  <2>2. AnyIn(v, e) = Test(v \in Items(e))
    BY <1>1, <1>3 DEF AnyIn
  <2> QED BY <2>1, <2>2 DEF Test
<1> QED BY <1>2, <1>3

(* What a test answers of a value that is there.                           *)
LEMMA CompareCases ==
  ASSUME NEW v, NEW e
  PROVE  /\ Compare(v, e, "$exists") = Test((e \notin Falsy) = (v # Missing))
         /\ v = Missing => /\ Compare(v, e, "$ne") = "yes" /\ Compare(v, e, "$nin") = "yes"
                           /\ \A o \in {"$eq", "$gt", "$gte", "$lt", "$lte", "$in", "$all"} :
                                Compare(v, e, o) = "no"
         /\ v # Missing => /\ Compare(v, e, "$eq") = Test(v = e)
                           /\ Compare(v, e, "$ne") = Test(v # e)
                           /\ Compare(v, e, "$gt") = Less(e, v)
                           /\ Compare(v, e, "$gte") = LessOrEqual(e, v)
                           /\ Compare(v, e, "$lt") = Less(v, e)
                           /\ Compare(v, e, "$lte") = LessOrEqual(v, e)
                           /\ Compare(v, e, "$in") = AnyIn(v, e)
                           /\ Compare(v, e, "$nin") = Negated(AnyIn(v, e))
                           /\ Compare(v, e, "$all") =
                                IF ~Is(v, "list") THEN "no"
                                ELSE IF Is(e, "list") THEN Test(Items(e) \subseteq Items(v))
                                ELSE "TypeError"
<1>1. Compare(v, e, "$exists") = Test((e \notin Falsy) = (v # Missing))
  BY Zenon DEF Compare
<1>2. ASSUME v = Missing, NEW o, o # "$exists"
      PROVE  Compare(v, e, o) = Test(o \in {"$ne", "$nin"})
  BY <1>2, Zenon DEF Compare
<1>3. ASSUME v # Missing
      PROVE  /\ Compare(v, e, "$eq") = Test(v = e)
             /\ Compare(v, e, "$ne") = Test(v # e)
  BY <1>3 DEF Compare
<1>4. ASSUME v # Missing
      PROVE  /\ Compare(v, e, "$gt") = Less(e, v)
             /\ Compare(v, e, "$gte") = LessOrEqual(e, v)
             /\ Compare(v, e, "$lt") = Less(v, e)
             /\ Compare(v, e, "$lte") = LessOrEqual(v, e)
  BY <1>4 DEF Compare
<1>5. ASSUME v # Missing
      PROVE  /\ Compare(v, e, "$in") = AnyIn(v, e)
             /\ Compare(v, e, "$nin") = Negated(AnyIn(v, e))
  BY <1>5 DEF Compare
<1>6. ASSUME v # Missing
      PROVE  Compare(v, e, "$all") =
               IF ~Is(v, "list") THEN "no"
               ELSE IF Is(e, "list") THEN Test(Items(e) \subseteq Items(v))
               ELSE "TypeError"
  BY <1>6 DEF Compare
<1> QED BY <1>1, <1>2, <1>3, <1>4, <1>5, <1>6 DEF Test

(* A test that fits answers yes of the values that pass it.                *)
LEMMA CompareFits ==
  ASSUME NEW D, NEW d \in D, NEW path, NEW e, NEW o, Fits(o, e),
         NEW v, v = GetPath(d, path), v = Missing \/ WellFormed(v)
  PROVE  /\ Compare(v, e, o) \in {"yes", "no", "TypeError"}
         /\ Compare(v, e, o) = "yes" <=> d \in Passing(D, path, o, e)
<1>0. WellFormed(e) /\ e # Missing
  BY KindsApart DEF Fits
<1>1. CASE o = "$eq" \/ o = "$ne"
  BY <1>0, <1>1, CompareCases, PassingIs DEF Test
<1>2. CASE o = "$exists"
  BY <1>2, CompareCases, PassingIs DEF Test
<1>3. CASE v = Missing /\ o \in {"$in", "$nin", "$all"}
  <2>1. ~Is(v, "list") /\ Elements(v) = {}
    BY <1>3 DEF Is, Missing, Elements
  <2>2. Compare(v, e, "$in") = "no" /\ Compare(v, e, "$all") = "no" /\ Compare(v, e, "$nin") = "yes"
    BY <1>3, CompareCases
  <2>3. /\ d \notin Passing(D, path, "$in", e) /\ d \notin Passing(D, path, "$all", e)
        /\ d \in Passing(D, path, "$nin", e)
    BY <2>1, PassingIs
  <2> QED BY <1>3, <2>2, <2>3
<1>4. CASE v # Missing /\ o \in {"$in", "$nin", "$all"}
  <2>1. Is(e, "list")
    BY <1>4 DEF Fits
  <2>2. CASE o = "$all"
    BY <1>4, <2>1, <2>2, CompareCases, PassingIs DEF Elements, Test
  <2>3. CASE o = "$in"
    BY <1>0, <1>4, <2>1, <2>3, CompareCases, PassingIs, AnyInShares
  <2>4. CASE o = "$nin"
    <3>1. AnyIn(v, e) \in {"yes", "no"} /\ (AnyIn(v, e) = "yes" <=> Elements(v) \intersect Items(e) # {})
      BY <1>0, <1>4, <2>1, AnyInShares
    <3>2. Negated("yes") = "no" /\ Negated("no") = "yes"
      BY DEF Negated
    <3> QED BY <1>4, <2>4, <3>1, <3>2, CompareCases, PassingIs
  <2> QED BY <1>4, <2>2, <2>3, <2>4
<1>5. CASE v = Missing /\ o \in {"$gt", "$gte", "$lt", "$lte"}
  <2>1. ~OneKind(v, e)
    BY <1>5 DEF OneKind, Is, Missing
  <2>2. /\ Compare(v, e, "$gt") = "no" /\ Compare(v, e, "$gte") = "no"
        /\ Compare(v, e, "$lt") = "no" /\ Compare(v, e, "$lte") = "no"
    BY <1>5, CompareCases
  <2>3. /\ d \notin Passing(D, path, "$gt", e) /\ d \notin Passing(D, path, "$gte", e)
        /\ d \notin Passing(D, path, "$lt", e) /\ d \notin Passing(D, path, "$lte", e)
    <3>1. v # e
      BY <1>0, <1>5
    <3>2. d \notin Passing(D, path, "$gt", e)
      BY <2>1, PassingIs
    <3>3. d \notin Passing(D, path, "$gte", e)
      BY <2>1, <3>1, PassingIs
    <3>4. d \notin Passing(D, path, "$lt", e)
      BY <2>1, PassingIs
    <3>5. d \notin Passing(D, path, "$lte", e)
      BY <2>1, <3>1, PassingIs
    <3> QED BY <3>2, <3>3, <3>4, <3>5
  <2> QED BY <1>5, <2>2, <2>3
<1>6. CASE v # Missing /\ o \in {"$gt", "$gte", "$lt", "$lte"}
  <2>1. Is(e, "num") \/ Is(e, "str")
    BY <1>6 DEF Fits
  <2>2. /\ Less(e, v) \in {"yes", "no", "TypeError"} /\ Less(v, e) \in {"yes", "no", "TypeError"}
        /\ Less(e, v) = "yes" <=> OneKind(e, v) /\ Key(e) < Key(v)
        /\ Less(v, e) = "yes" <=> OneKind(v, e) /\ Key(v) < Key(e)
    BY <1>0, <1>6, <2>1, LessByKey
  <2>3. OneKind(e, v) <=> OneKind(v, e)
    BY DEF OneKind
  <2>4. LessOrEqual(e, v) = IF v = e THEN "yes" ELSE Less(e, v)
    BY <2>1 DEF LessOrEqual
  <2>5. LessOrEqual(v, e) = IF v = e THEN "yes" ELSE Less(v, e)
    BY <2>1 DEF LessOrEqual
  <2>6. OneKind(v, e) => (Key(v) > Key(e) <=> Key(e) < Key(v))
    <3> SUFFICES ASSUME OneKind(v, e) PROVE Key(v) \in Int /\ Key(e) \in Int
      OBVIOUS
    <3>1. ASSUME NEW x, WellFormed(x), Is(x, "num") \/ Is(x, "str") PROVE Key(x) \in Int
      BY <3>1, KeyOfText, KindsApart DEF Key
    <3> QED BY <1>0, <1>6, <3>1 DEF OneKind
  <2>7. CASE o = "$gt"
    BY <1>6, <2>2, <2>3, <2>6, <2>7, CompareCases, PassingIs
  <2>8. CASE o = "$gte"
    BY <1>6, <2>2, <2>3, <2>4, <2>6, <2>8, CompareCases, PassingIs
  <2>9. CASE o = "$lt"
    BY <1>6, <2>2, <2>9, CompareCases, PassingIs
  <2>10. CASE o = "$lte"
    BY <1>6, <2>2, <2>5, <2>10, CompareCases, PassingIs
  <2> QED BY <1>6, <2>7, <2>8, <2>9, <2>10
<1> QED BY <1>1, <1>2, <1>3, <1>4, <1>5, <1>6 DEF Fits

(* What a path leads to is well-formed.                                    *)
LEMMA ProperGet ==
  ASSUME NEW v, Proper(v), NEW p, Len(p) \in Nat
  PROVE  GetPath(v, p) = Missing \/ (Proper(GetPath(v, p)) /\ WellFormed(GetPath(v, p)))
<1>1. \A k \in 0 .. Len(p) : Walk(v, p)[k] = Missing \/ Proper(Walk(v, p)[k])
  BY ProperWalk
<1>2. Len(p) \in 0 .. Len(p)
  OBVIOUS
<1> QED BY <1>1, <1>2, ProperParts DEF GetPath

(* What an evaluation says of a document is what the query means.          *)
Agrees(D, d, query) ==
  /\ Matching(d)[query] \in {"yes", "no"}
  /\ Matching(d)[query] = "yes" <=> d \in Meanings(D)[query]

(* An item that fits is answered as it is meant.                           *)
LEMMA ItemAgrees ==
  ASSUME NEW D, NEW d \in D, Proper(d), NEW query \in Queries, NEW i \in DOMAIN query,
         NEW item, item = query[i], Fitting(item), \A s \in Parts(item) : Agrees(D, d, s)
  PROVE  /\ Outcome(Matching(d), d, item) \in {"yes", "no"}
         /\ Outcome(Matching(d), d, item) = "yes" <=> Meant(Meanings(D), D, d, item)
<1> DEFINE x == Matching(d)
           m == Meanings(D)
<1>0. \A part \in {"and", "or", "tests"} \intersect DOMAIN item : DOMAIN item[part] \subseteq Nat
  BY QueriesAssumption DEF IsItem
<1> HIDE DEF x, m
<1>p. \A s \in Parts(item) : x[s] \in {"yes", "no"} /\ (x[s] = "yes" <=> d \in m[s])
  BY DEF Agrees, x, m
<1>v. Atomic(item) => GetPath(d, item.field) = Missing \/ WellFormed(GetPath(d, item.field))
  <2>1. Atomic(item) => Len(item.field) \in Nat
    BY QueriesAssumption DEF IsItem, Atomic, Plain
  <2> QED BY <2>1, ProperGet
<1>1. CASE Conjunctive(item)
  <2> DEFINE s == Answers(x, item.and)
  <2>1. DOMAIN s = DOMAIN item.and /\ DOMAIN s \subseteq Nat
    BY <1>0, <1>1 DEF Answers, Conjunctive
  <2>2. \A k \in DOMAIN s : s[k] \in {"yes", "no"} /\ (s[k] = "yes" <=> d \in m[item.and[k]])
    BY <1>p, <1>1, PartsCases DEF Answers
  <2>3. Outcome(x, d, item) = Throughout("yes", s)
    BY <1>1, OutcomeCases
  <2>4. Meant(m, D, d, item) <=> \A k \in DOMAIN item.and : d \in m[item.and[k]]
    BY <1>1, MeantCases
  <2> HIDE DEF s
  <2> QED BY <2>1, <2>2, <2>3, <2>4, ThroughoutDecides DEF x, m
<1>2. CASE Disjunctive(item)
  <2> DEFINE s == Answers(x, item.or)
  <2>1. DOMAIN s = DOMAIN item.or /\ DOMAIN s \subseteq Nat
    BY <1>0, <1>2 DEF Answers, Disjunctive
  <2>2. \A k \in DOMAIN s : s[k] \in {"yes", "no"} /\ (s[k] = "yes" <=> d \in m[item.or[k]])
    BY <1>p, <1>2, PartsCases DEF Answers
  <2>3. Outcome(x, d, item) = Throughout("no", s)
    BY <1>2, OutcomeCases
  <2>4. Meant(m, D, d, item) <=> \E k \in DOMAIN item.or : d \in m[item.or[k]]
    BY <1>2, MeantCases
  <2> HIDE DEF s
  <2> QED BY <2>1, <2>2, <2>3, <2>4, ThroughoutDecides DEF x, m
<1>3. CASE Negative(item)
  <2>1. x[item.not] \in {"yes", "no"} /\ (x[item.not] = "yes" <=> d \in m[item.not])
    BY <1>p, <1>3, PartsCases
  <2>2. Outcome(x, d, item) = Negated(x[item.not])
    BY <1>3, OutcomeCases
  <2>3. Meant(m, D, d, item) <=> d \notin m[item.not]
    BY <1>3, MeantCases
  <2>4. Negated("yes") = "no" /\ Negated("no") = "yes"
    BY DEF Negated
  <2> QED BY <2>1, <2>2, <2>3, <2>4 DEF x, m
<1>4. CASE Atomic(item) /\ "equals" \in DOMAIN item
  <2>1. Outcome(x, d, item) = Test(GetPath(d, item.field) = item.equals)
    BY <1>4, OutcomeCases
  <2>2. Meant(m, D, d, item) <=> GetPath(d, item.field) = item.equals
    BY <1>4, MeantCases, PassingIs
  <2> QED BY <2>1, <2>2 DEF Test, x, m
<1>5. CASE Atomic(item) /\ "equals" \notin DOMAIN item
  <2> DEFINE v == GetPath(d, item.field)
             verdict(k) == Compare(v, item.tests[k][2], item.tests[k][1])
             s == [k \in DOMAIN item.tests |-> IF verdict(k) = "TypeError" THEN "no" ELSE verdict(k)]
  <2>1. "tests" \in DOMAIN item
    BY <1>5, QueriesAssumption DEF Atomic, Plain, IsItem
  <2>2. \A k \in DOMAIN item.tests : Fits(item.tests[k][1], item.tests[k][2])
    BY <2>1 DEF Fitting
  <2>3. \A k \in DOMAIN item.tests :
          /\ verdict(k) \in {"yes", "no", "TypeError"}
          /\ verdict(k) = "yes" <=> d \in Passing(D, item.field, item.tests[k][1], item.tests[k][2])
    BY <1>v, <1>5, <2>2, CompareFits
  <2>4. DOMAIN s = DOMAIN item.tests /\ DOMAIN s \subseteq Nat
    BY <1>0, <2>1
  <2>5. Outcome(x, d, item) = Throughout("yes", s)
    BY <1>5, OutcomeCases DEF Condition
  <2>6. Meant(m, D, d, item) <=>
          \A k \in DOMAIN item.tests : d \in Passing(D, item.field, item.tests[k][1], item.tests[k][2])
    BY <1>5, MeantCases
  <2>7. \A k \in DOMAIN s : s[k] = IF verdict(k) = "TypeError" THEN "no" ELSE verdict(k)
    OBVIOUS
  <2> HIDE DEF s, verdict
  <2>8. \A k \in DOMAIN s : /\ s[k] \in {"yes", "no"}
                            /\ s[k] = "yes" <=> d \in Passing(D, item.field, item.tests[k][1], item.tests[k][2])
    BY <2>3, <2>4, <2>7
  <2> QED BY <2>4, <2>5, <2>6, <2>8, ThroughoutDecides DEF x, m
<1>6. CASE Malformed(item)
  BY <1>6, OutcomeCases, MeantCases DEF x, m
<1> QED BY <1>1, <1>2, <1>3, <1>4, <1>5, <1>6, ItemCases

(* ... by induction on how deep the query is nested.                       *)
LEMMA RegularAgrees ==
  ASSUME NEW D, NEW d \in D, Proper(d), NEW query \in Regular
  PROVE  Agrees(D, d, query)
<1> DEFINE Bad == {n \in Nat : \E q \in Regular : Nesting[q] = n /\ ~Agrees(D, d, q)}
<1>1. \A q \in Regular : q \in Queries /\ Nesting[q] \in Nat
  BY NestingAssumption, MaxNestingAssumption DEF Regular
<1> SUFFICES ASSUME Bad # {} PROVE FALSE
  BY <1>1
<1>2. PICK n \in Bad : \A k \in Bad : n <= k
  <2>1. Bad \in SUBSET Nat
    OBVIOUS
  <2> HIDE DEF Bad
  <2> QED BY <2>1, LeastNumber
<1>3. PICK q \in Regular : Nesting[q] = n /\ ~Agrees(D, d, q)
  BY <1>2
<1>4. q \in Queries /\ (\A s \in SubQueries(q) : AllFitting[s]) /\ \A i \in DOMAIN q : Fitting(q[i])
  BY AllFittingSteps DEF Regular, NoneUnfit
<1>5. \A s \in SubQueries(q) : s \in Regular /\ Nesting[s] < n /\ Nesting[s] \in Nat
  BY <1>3, <1>4, NestingAssumption, MaxNestingAssumption DEF Regular
<1>6. \A s \in SubQueries(q) : Agrees(D, d, s)
  <2> SUFFICES ASSUME NEW s \in SubQueries(q), ~Agrees(D, d, s) PROVE FALSE
    OBVIOUS
  <2>1. Nesting[s] \in Bad
    BY <1>5
  <2> QED BY <1>2, <1>5, <2>1
<1> HIDE DEF Bad
<1>7. \A i \in DOMAIN q : \A s \in Parts(q[i]) : Agrees(D, d, s)
  BY <1>6 DEF SubQueries
<1>8. \A i \in DOMAIN q :
        /\ Outcome(Matching(d), d, q[i]) \in {"yes", "no"}
        /\ Outcome(Matching(d), d, q[i]) = "yes" <=> Meant(Meanings(D), D, d, q[i])
  BY <1>4, <1>7, ItemAgrees
<1> DEFINE s == [i \in DOMAIN q |-> Outcome(Matching(d), d, q[i])]
<1>9. DOMAIN s \subseteq Nat /\ DOMAIN s = DOMAIN q
  BY <1>4, QueriesAssumption
<1>10. \A i \in DOMAIN s : /\ s[i] \in {"yes", "no"}
                           /\ s[i] = "yes" <=> Meant(Meanings(D), D, d, q[i])
  BY <1>8
<1>11. Matching(d)[q] = Throughout("yes", s)
  BY <1>4, MatchingSteps DEF Evaluated
<1>12. d \in Meanings(D)[q] <=> \A i \in DOMAIN q : Meant(Meanings(D), D, d, q[i])
  BY <1>4, MeaningsSteps DEF AllMeant
<1> HIDE DEF s
<1>13. Agrees(D, d, q)
  BY <1>9, <1>10, <1>11, <1>12, ThroughoutDecides DEF Agrees
<1> QED BY <1>3, <1>13

----------------------------------------------------------------------------
(* The documents found, and their order.                                   *)

(* The first come first: s holds documents in the order of another list.   *)
InOrderOf(s, documents, n) ==
  \A i, k \in 1 .. Len(s) :
    i < k => \E a, b \in 1 .. n : a < b /\ documents[a] = s[i] /\ documents[b] = s[k]

SelectedOf(s, documents, query, n) ==
  /\ \A k \in 1 .. Len(s) :
       \E i \in 1 .. n : s[k] = documents[i] /\ Matches(documents[i], query) = "yes"
  /\ \A i \in 1 .. n :
       Matches(documents[i], query) = "yes" => \E k \in 1 .. Len(s) : s[k] = documents[i]

(* The documents selected are those that match, in their order.            *)
LEMMA AmongIs ==
  ASSUME NEW S, NEW documents \in Seq(S), NEW query
  PROVE  \A n \in 0 .. Len(documents) :
           /\ Among(documents, query)[n] \in Seq(S)
           /\ SelectedOf(Among(documents, query)[n], documents, query, n)
           /\ InOrderOf(Among(documents, query)[n], documents, n)
<1> DEFINE Good(s, n) == s \in Seq(S) /\ SelectedOf(s, documents, query, n) /\ InOrderOf(s, documents, n)
           G == {n \in Nat : Good(Among(documents, query)[n], n)}
<1>0. Len(documents) \in Nat
  OBVIOUS
<1>1. 0 \in G
  <2>1. Good(<< >>, 0)
    BY DEF SelectedOf, InOrderOf
  <2> QED BY <1>0, <2>1, MatchedSteps
<1>2. \A n \in 0 .. Len(documents) - 1 : n \in G => n + 1 \in G
  <2> SUFFICES ASSUME NEW n \in 0 .. Len(documents) - 1, n \in G PROVE n + 1 \in G
    OBVIOUS
  <2> DEFINE s == Among(documents, query)[n]
             d == documents[n + 1]
  <2>1. n + 1 \in 1 .. Len(documents) /\ (n + 1) - 1 = n /\ n \in Nat /\ d \in S
    OBVIOUS
  <2>2. Good(s, n)
    OBVIOUS
  <2>3. Among(documents, query)[n + 1] = Selected(s, d, query)
    BY <1>0, <2>1, MatchedSteps
  <2> HIDE DEF s, Good, G
  <2>d. d = documents[n + 1]
    OBVIOUS
  <2> HIDE DEF d
  <2>4. CASE Matches(d, query) # "yes"
    <3>1. Selected(s, d, query) = s
      BY <2>4 DEF Selected
    <3>2. \A i \in 1 .. n + 1 : i \in 1 .. n \/ i = n + 1
      BY <2>1
    <3>3. SelectedOf(s, documents, query, n + 1)
      BY <2>d, <2>1, <2>2, <2>4, <3>2 DEF SelectedOf, Good
    <3>4. InOrderOf(s, documents, n + 1)
      BY <2>1, <2>2 DEF InOrderOf, Good
    <3>5. Good(s, n + 1)
      BY <2>2, <3>3, <3>4 DEF Good
    <3> QED BY <2>1, <2>3, <3>1, <3>5 DEF s, G
  <2>5. CASE Matches(d, query) = "yes"
    <3> DEFINE t == Append(s, d)
    <3>1. Selected(s, d, query) = t
      BY <2>5 DEF Selected
    <3>2. /\ s \in Seq(S) /\ t \in Seq(S) /\ Len(s) \in Nat /\ Len(t) = Len(s) + 1 /\ t[Len(t)] = d
          /\ \A k \in 1 .. Len(s) : t[k] = s[k]
      BY <2>1, <2>2 DEF Good
    <3> HIDE DEF t
    <3>3. \A k \in 1 .. Len(t) : k \in 1 .. Len(s) \/ k = Len(t)
      BY <3>2
    <3>4. \A i \in 1 .. n + 1 : i \in 1 .. n \/ i = n + 1
      BY <2>1
    <3>5. \A i \in 1 .. n : i \in 1 .. n + 1 /\ i < n + 1
      BY <2>1
    <3>6. \A k \in 1 .. Len(s) : k \in 1 .. Len(t)
      BY <3>2
    <3>7. Len(t) \in 1 .. Len(t) /\ n + 1 \in 1 .. n + 1
      BY <2>1, <3>2
    <3>8. SelectedOf(t, documents, query, n + 1)
      <4>1. \A k \in 1 .. Len(t) :
              \E i \in 1 .. n + 1 : t[k] = documents[i] /\ Matches(documents[i], query) = "yes"
        BY <2>d, <2>2, <2>5, <3>2, <3>3, <3>5, <3>7 DEF SelectedOf, Good
      <4>2. \A i \in 1 .. n + 1 :
              Matches(documents[i], query) = "yes" => \E k \in 1 .. Len(t) : t[k] = documents[i]
        BY <2>d, <2>2, <2>5, <3>2, <3>4, <3>6, <3>7 DEF SelectedOf, Good
      <4> QED BY <4>1, <4>2 DEF SelectedOf
    <3>9. InOrderOf(t, documents, n + 1)
      <4> SUFFICES ASSUME NEW i \in 1 .. Len(t), NEW k \in 1 .. Len(t), i < k
                   PROVE  \E a, b \in 1 .. n + 1 : a < b /\ documents[a] = t[i] /\ documents[b] = t[k]
        BY DEF InOrderOf
      <4>1. i \in 1 .. Len(s) /\ t[i] = s[i]
        BY <3>2
      <4>2. CASE k \in 1 .. Len(s)
        <5>1. PICK a \in 1 .. n, b \in 1 .. n : a < b /\ documents[a] = s[i] /\ documents[b] = s[k]
          BY <2>2, <4>1, <4>2 DEF InOrderOf, Good
        <5>2. a \in 1 .. n + 1 /\ b \in 1 .. n + 1 /\ t[k] = s[k]
          BY <3>2, <3>5, <4>2
        <5> QED BY <4>1, <5>1, <5>2
      <4>3. CASE k = Len(t)
        <5>1. PICK a \in 1 .. n : documents[a] = s[i]
          BY <2>2, <4>1 DEF SelectedOf, Good
        <5>2. a \in 1 .. n + 1 /\ a < n + 1
          BY <3>5
        <5>3. documents[a] = t[i] /\ documents[n + 1] = t[k]
          BY <2>d, <3>2, <4>1, <4>3, <5>1
        <5> QED BY <3>7, <5>2, <5>3
      <4> QED BY <3>3, <4>2, <4>3
    <3>10. Good(t, n + 1)
      BY <3>2, <3>8, <3>9 DEF Good
    <3> QED BY <2>1, <2>3, <3>1, <3>10 DEF G
  <2> QED BY <2>4, <2>5
<1> HIDE DEF G
<1>3. \A n \in 0 .. Len(documents) : n \in G
  BY <1>0, <1>1, <1>2, Climb
<1> QED BY <1>3 DEF G

(* What InsertAt moves.                                                    *)
LEMMA InsertParts ==
  ASSUME NEW S, NEW s \in Seq(S), NEW e \in S, NEW p \in 1 .. Len(s) + 1,
         NEW t, t = InsertAt(s, p, e)
  PROVE  /\ t \in Seq(S) /\ Len(t) = Len(s) + 1 /\ t[p] = e /\ Len(s) \in Nat
         /\ \A i \in 1 .. p - 1 : t[i] = s[i]
         /\ \A i \in p .. Len(s) : t[i + 1] = s[i]
<1> DEFINE a == SubSeq(s, 1, p - 1)
           b == SubSeq(s, p, Len(s))
<1>0. Len(s) \in Nat /\ p \in Nat /\ p >= 1 /\ p <= Len(s) + 1
  OBVIOUS
<1>1. a \in Seq(S) /\ Len(a) = p - 1 /\ \A i \in 1 .. p - 1 : a[i] = s[i]
  <2>1. a = [i \in 1 .. p - 1 |-> s[i]]
    BY <1>0
  <2>2. p - 1 \in Nat /\ \A i \in 1 .. p - 1 : s[i] \in S
    BY <1>0
  <2> HIDE DEF a
  <2> QED BY <2>1, <2>2
<1>2. b \in Seq(S) /\ Len(b) = Len(s) - p + 1 /\ \A i \in 1 .. Len(s) - p + 1 : b[i] = s[p + i - 1]
  <2>1. b = [i \in 1 .. Len(s) - p + 1 |-> s[p + i - 1]]
    BY <1>0
  <2>2. Len(s) - p + 1 \in Nat /\ \A i \in 1 .. Len(s) - p + 1 : s[p + i - 1] \in S
    BY <1>0
  <2> HIDE DEF b
  <2> QED BY <2>1, <2>2
<1>3. t = a \o <<e>> \o b
  BY DEF InsertAt
<1> HIDE DEF a, b
<1>4. <<e>> \in Seq(S) /\ Len(<<e>>) = 1 /\ <<e>>[1] = e
  OBVIOUS
<1> DEFINE c == a \o <<e>>
<1>5. c \in Seq(S) /\ Len(c) = p /\ c[p] = e /\ \A i \in 1 .. p - 1 : c[i] = s[i]
  BY <1>0, <1>1, <1>4
<1> HIDE DEF c
<1>6. t = c \o b
  BY <1>3 DEF c
<1>7. t \in Seq(S) /\ Len(t) = Len(s) + 1 /\ \A i \in 1 .. p : t[i] = c[i]
  <2>1. /\ c \o b \in Seq(S) /\ Len(c \o b) = Len(c) + Len(b)
        /\ \A i \in 1 .. Len(c) + Len(b) : (c \o b)[i] = IF i <= Len(c) THEN c[i] ELSE b[i - Len(c)]
    BY <1>2, <1>5, ConcatProperties
  <2> QED BY <1>0, <1>2, <1>5, <1>6, <2>1
<1>8. \A i \in p .. Len(s) : t[i + 1] = s[i]
  <2> SUFFICES ASSUME NEW i \in p .. Len(s) PROVE t[i + 1] = s[i]
    OBVIOUS
  <2> DEFINE j == i + 1 - p
  <2>1. j \in 1 .. Len(b) /\ i + 1 = Len(c) + j /\ p + j - 1 = i /\ j \in 1 .. Len(s) - p + 1
    BY <1>0, <1>2, <1>5
  <2> HIDE DEF j
  <2>2. t[Len(c) + j] = b[j]
    <3>1. \A k \in 1 .. Len(c) + Len(b) : (c \o b)[k] = IF k <= Len(c) THEN c[k] ELSE b[k - Len(c)]
      BY <1>2, <1>5, ConcatProperties
    <3>2. /\ Len(c) + j \in 1 .. Len(c) + Len(b) /\ ~(Len(c) + j <= Len(c))
          /\ (Len(c) + j) - Len(c) = j
      BY <1>0, <1>2, <1>5, <2>1
    <3> QED BY <1>6, <3>1, <3>2
  <2> QED BY <1>2, <2>1, <2>2
<1> QED BY <1>0, <1>5, <1>7, <1>8

----------------------------------------------------------------------------
(* The order of the sort keys.                                             *)

Below(x, y) == x[1] < y[1] \/ (x[1] = y[1] /\ x[2] < y[2])

Level(x, y) == x[1] = y[1] /\ x[2] = y[2]

PlaceIn(v) == IF v = Missing THEN <<2, 0>> ELSE IF v = Null THEN <<1, 0>> ELSE <<0, Key(v)>>

Pairs(x) == x[1] \in Int /\ x[2] \in Int

(* The place of a document is that of its value.                           *)
LEMMA PlaceIs ==
  ASSUME NEW d, NEW path
  PROVE  Place(d, path) = PlaceIn(GetPath(d, path))
<1>1. Null # Missing
  <2>1. DOMAIN [null |-> 0] = {"null"} /\ DOMAIN [missing |-> 0] = {"missing"}
    OBVIOUS
  <2> QED BY <2>1 DEF Null, Missing
<1> QED BY <1>1 DEF Place, PlaceIn

(* Earlier, by places.                                                     *)
LEMMA EarlierIs ==
  ASSUME NEW l, NEW r, NEW key
  PROVE  Earlier(l, r, key) <=>
           IF key.direction = "desc" THEN Below(Place(r, key.field), Place(l, key.field))
           ELSE Below(Place(l, key.field), Place(r, key.field))
BY DEF Earlier, Below

(* Places are ordered.                                                     *)
LEMMA BelowOrders ==
  ASSUME NEW x, NEW y, NEW z, Pairs(x), Pairs(y), Pairs(z)
  PROVE  /\ Below(x, y) \/ Below(y, x) \/ Level(x, y)
         /\ ~(Below(x, y) /\ Below(y, x)) /\ ~(Below(x, y) /\ Level(x, y))
         /\ Level(x, y) <=> Level(y, x)
         /\ Below(x, y) /\ Below(y, z) => Below(x, z)
         /\ Below(x, y) /\ Level(y, z) => Below(x, z)
         /\ Level(x, y) /\ Below(y, z) => Below(x, z)
         /\ Level(x, y) /\ Level(y, z) => Level(x, z)
BY DEF Below, Level, Pairs

(* The values of a column that can be sorted, and Missing.                 *)
Comparable(v, w) ==
  /\ v = Missing \/ (WellFormed(v) /\ (Is(v, "num") => TextBefore(v, Null)))
  /\ w = Missing \/ (WellFormed(w) /\ (Is(w, "num") => TextBefore(w, Null)))
  /\ \/ (v = Missing \/ v = Null \/ Is(v, "num")) /\ (w = Missing \/ w = Null \/ Is(w, "num"))
     \/ (v = Missing \/ Is(v, "str")) /\ (w = Missing \/ Is(w, "str"))

(* The places of comparable values are pairs of numbers.                   *)
LEMMA PlacePairs ==
  ASSUME NEW v, NEW w, Comparable(v, w)
  PROVE  Pairs(PlaceIn(v)) /\ Pairs(PlaceIn(w))
<1>1. ASSUME NEW x, x = Missing \/ x = Null \/ (WellFormed(x) /\ (Is(x, "num") \/ Is(x, "str")))
      PROVE  Pairs(PlaceIn(x))
  <2>1. CASE x = Missing
    <3>1. PlaceIn(x) = <<2, 0>>
      BY <2>1 DEF PlaceIn
    <3> QED BY <3>1 DEF Pairs
  <2>2. CASE x # Missing /\ x = Null
    <3>1. PlaceIn(x) = <<1, 0>>
      BY <2>2 DEF PlaceIn
    <3> QED BY <3>1 DEF Pairs
  <2>3. CASE x # Missing /\ x # Null
    <3>1. PlaceIn(x) = <<0, Key(x)>>
      BY <2>3 DEF PlaceIn
    <3>2. Key(x) \in Int
      BY <1>1, <2>3, KeyOfText, KindsApart DEF Key
    <3> QED BY <3>1, <3>2 DEF Pairs
  <2> QED BY <2>1, <2>2, <2>3
<1> QED BY <1>1 DEF Comparable

(* The texts are ordered.                                                  *)
LEMMA TextBeforeOrders ==
  ASSUME NEW a, NEW b, TextBefore(a, b)
  PROVE  ~TextBefore(b, a)
BY TextAssumption DEF TextBefore, IsInjective

(* compare agrees with the places.                                         *)
LEMMA FieldOrderIs ==
  ASSUME NEW v, NEW w, Comparable(v, w)
  PROVE  FieldOrder(v, w) = IF Below(PlaceIn(v), PlaceIn(w)) THEN -1
                            ELSE IF Below(PlaceIn(w), PlaceIn(v)) THEN 1 ELSE 0
<1>1. ASSUME NEW x PROVE /\ x = Missing => PlaceIn(x)[1] = 2 /\ PlaceIn(x)[2] = 0
                         /\ x # Missing /\ x = Null => PlaceIn(x)[1] = 1 /\ PlaceIn(x)[2] = 0
                         /\ x # Missing /\ x # Null => PlaceIn(x)[1] = 0 /\ PlaceIn(x)[2] = Key(x)
  <2>1. x = Missing => PlaceIn(x) = <<2, 0>>
    BY DEF PlaceIn
  <2>2. x # Missing /\ x = Null => PlaceIn(x) = <<1, 0>>
    BY DEF PlaceIn
  <2>3. x # Missing /\ x # Null => PlaceIn(x) = <<0, Key(x)>>
    BY DEF PlaceIn
  <2> QED BY <2>1, <2>2, <2>3
<1>2. Pairs(PlaceIn(v)) /\ Pairs(PlaceIn(w))
  BY PlacePairs
<1>3. CASE v = w
  <2>1. FieldOrder(v, w) = 0
    BY <1>3 DEF FieldOrder
  <2>2. ~Below(PlaceIn(v), PlaceIn(w)) /\ ~Below(PlaceIn(w), PlaceIn(v))
    BY <1>2, <1>3 DEF Below, Pairs
  <2> QED BY <2>1, <2>2
<1>4. CASE v # w /\ v = Missing
  <2>1. FieldOrder(v, w) = 1
    BY <1>4 DEF FieldOrder
  <2>2. ~Below(PlaceIn(v), PlaceIn(w)) /\ Below(PlaceIn(w), PlaceIn(v))
    BY <1>1, <1>2, <1>4 DEF Below, Pairs
  <2> QED BY <2>1, <2>2
<1>5. CASE v # w /\ w = Missing
  <2>1. FieldOrder(v, w) = -1
    BY <1>5 DEF FieldOrder
  <2>2. Below(PlaceIn(v), PlaceIn(w))
    BY <1>1, <1>2, <1>5 DEF Below, Pairs
  <2> QED BY <2>1, <2>2
<1>6. CASE v # w /\ v # Missing /\ w # Missing
  <2>0. FieldOrder(v, w) =
          IF Less(v, w) = "yes" \/ (Less(v, w) = "TypeError" /\ TextBefore(v, w)) THEN -1 ELSE 1
    BY <1>6 DEF FieldOrder
  <2>w. /\ WellFormed(v) /\ WellFormed(w)
        /\ Is(v, "num") => TextBefore(v, Null)
        /\ Is(w, "num") => TextBefore(w, Null)
    BY <1>6 DEF Comparable
  <2>1. CASE v = Null
    <3>1. Is(w, "num") /\ w # Null
      BY <1>6, <2>1, <2>w DEF Comparable, Is, Null
    <3>2. Less(v, w) = "TypeError"
      BY <2>1, <2>w, <3>1, LessByKey DEF OneKind, Is, Null
    <3>3. ~TextBefore(v, w)
      BY <2>1, <2>w, <3>1, TextBeforeOrders
    <3>4. FieldOrder(v, w) = 1
      BY <2>0, <3>2, <3>3
    <3>5. ~Below(PlaceIn(v), PlaceIn(w)) /\ Below(PlaceIn(w), PlaceIn(v))
      BY <1>1, <1>2, <1>6, <2>1, <3>1 DEF Below, Pairs
    <3> QED BY <3>4, <3>5
  <2>2. CASE w = Null
    <3>1. Is(v, "num") /\ v # Null
      BY <1>6, <2>2, <2>w DEF Comparable, Is, Null
    <3>2. Less(v, w) = "TypeError"
      BY <2>2, <2>w, <3>1, LessByKey DEF OneKind, Is, Null
    <3>3. FieldOrder(v, w) = -1
      BY <2>0, <2>2, <2>w, <3>1, <3>2
    <3>4. Below(PlaceIn(v), PlaceIn(w))
      BY <1>1, <1>2, <1>6, <2>2, <3>1 DEF Below, Pairs
    <3> QED BY <3>3, <3>4
  <2>3. CASE v # Null /\ w # Null
    <3>1. (Is(v, "num") /\ Is(w, "num")) \/ (Is(v, "str") /\ Is(w, "str"))
      BY <1>6, <2>3 DEF Comparable
    <3>2. OneKind(v, w)
      BY <3>1 DEF OneKind
    <3>3. Less(v, w) \in {"yes", "no"} /\ (Less(v, w) = "yes" <=> Key(v) < Key(w))
      BY <2>w, <3>1, <3>2, LessByKey
    <3>4. Key(v) # Key(w)
      <4>1. CASE Is(v, "num") /\ Is(w, "num")
        BY <1>6, <2>w, <4>1, KindsApart DEF Key
      <4>2. CASE Is(v, "str") /\ Is(w, "str")
        BY <1>6, <2>w, <4>2, TextsInOrder
      <4> QED BY <3>1, <4>1, <4>2
    <3>5. FieldOrder(v, w) = IF Key(v) < Key(w) THEN -1 ELSE 1
      BY <2>0, <3>3
    <3>6. PlaceIn(v)[1] = 0 /\ PlaceIn(v)[2] = Key(v) /\ PlaceIn(w)[1] = 0 /\ PlaceIn(w)[2] = Key(w)
      BY <1>1, <1>6, <2>3
    <3> QED BY <1>2, <3>4, <3>5, <3>6 DEF Below, Pairs
  <2> QED BY <2>1, <2>2, <2>3
<1> QED BY <1>3, <1>4, <1>5, <1>6

Tie(l, r, key) == ~Earlier(l, r, key) /\ ~Earlier(r, l, key)

Placeable(l, key) == Pairs(Place(l, key.field))

(* The order of one sort key.                                              *)
LEMMA KeyOrders ==
  ASSUME NEW key, NEW l, NEW r, NEW t, Placeable(l, key), Placeable(r, key), Placeable(t, key)
  PROVE  /\ ~(Earlier(l, r, key) /\ Earlier(r, l, key))
         /\ Earlier(l, r, key) /\ Earlier(r, t, key) => Earlier(l, t, key)
         /\ Earlier(l, r, key) /\ Tie(r, t, key) => Earlier(l, t, key)
         /\ Tie(l, r, key) /\ Earlier(r, t, key) => Earlier(l, t, key)
         /\ Tie(l, r, key) /\ Tie(r, t, key) => Tie(l, t, key)
<1> DEFINE a == Place(l, key.field)
           b == Place(r, key.field)
           c == Place(t, key.field)
<1>1. Pairs(a) /\ Pairs(b) /\ Pairs(c)
  BY DEF Placeable
<1> HIDE DEF a, b, c
<1>2. CASE key.direction = "desc"
  <2>1. /\ Earlier(l, r, key) <=> Below(b, a)
        /\ Earlier(r, l, key) <=> Below(a, b)
        /\ Earlier(r, t, key) <=> Below(c, b)
        /\ Earlier(t, r, key) <=> Below(b, c)
        /\ Earlier(l, t, key) <=> Below(c, a)
        /\ Earlier(t, l, key) <=> Below(a, c)
    BY <1>2, EarlierIs DEF a, b, c
  <2> QED BY <1>1, <2>1 DEF Tie, Below, Pairs
<1>3. CASE key.direction # "desc"
  <2>1. /\ Earlier(l, r, key) <=> Below(a, b)
        /\ Earlier(r, l, key) <=> Below(b, a)
        /\ Earlier(r, t, key) <=> Below(b, c)
        /\ Earlier(t, r, key) <=> Below(c, b)
        /\ Earlier(l, t, key) <=> Below(a, c)
        /\ Earlier(t, l, key) <=> Below(c, a)
    BY <1>3, EarlierIs DEF a, b, c
  <2> QED BY <1>1, <2>1 DEF Tie, Below, Pairs
<1> QED BY <1>2, <1>3

(* The first key that tells decides.                                       *)
Lex(l, r, sort) ==
  \E i \in DOMAIN sort : Earlier(l, r, sort[i]) /\ \A k \in 1 .. i - 1 : Tie(l, r, sort[k])

Ties(l, r, sort) == \A i \in DOMAIN sort : Tie(l, r, sort[i])

(* InOrder: a key tells, or none does and the order of insertion decides.  *)
LEMMA InOrderIs ==
  ASSUME NEW l, NEW r, NEW sort
  PROVE  InOrder(l, r, sort) <=>
           \/ Lex(l, r, sort)
           \/ Ties(l, r, sort) /\ \E i, k \in DOMAIN docs : i < k /\ docs[i] = l /\ docs[k] = r
BY DEF InOrder, Lex, Ties, Tie

(* The order of all the sort keys.                                         *)
LEMMA LexOrders ==
  ASSUME NEW sort, NEW n \in Nat, DOMAIN sort = 1 .. n, NEW l, NEW r, NEW t,
         \A i \in DOMAIN sort : Placeable(l, sort[i]) /\ Placeable(r, sort[i]) /\ Placeable(t, sort[i])
  PROVE  /\ Lex(l, r, sort) \/ Lex(r, l, sort) \/ Ties(l, r, sort)
         /\ Lex(l, r, sort) /\ Lex(r, t, sort) => Lex(l, t, sort)
         /\ Lex(l, r, sort) /\ Ties(r, t, sort) => Lex(l, t, sort)
<1>1. \A i \in 1 .. n :
         /\ ~(Earlier(l, r, sort[i]) /\ Earlier(r, l, sort[i]))
         /\ Earlier(l, r, sort[i]) /\ Earlier(r, t, sort[i]) => Earlier(l, t, sort[i])
         /\ Earlier(l, r, sort[i]) /\ Tie(r, t, sort[i]) => Earlier(l, t, sort[i])
         /\ Tie(l, r, sort[i]) /\ Earlier(r, t, sort[i]) => Earlier(l, t, sort[i])
         /\ Tie(l, r, sort[i]) /\ Tie(r, t, sort[i]) => Tie(l, t, sort[i])
  BY KeyOrders
<1>2. Lex(l, r, sort) \/ Lex(r, l, sort) \/ Ties(l, r, sort)
  <2> DEFINE Told == {i \in Nat : i \in 1 .. n /\ ~Tie(l, r, sort[i])}
  <2>1. CASE Told = {}
    BY <2>1 DEF Ties
  <2>2. CASE Told # {}
    <3>1. PICK i \in Told : \A k \in Told : i <= k
      <4>1. Told \in SUBSET Nat
        OBVIOUS
      <4> HIDE DEF Told
      <4> QED BY <2>2, <4>1, LeastNumber
    <3>2. i \in DOMAIN sort /\ (Earlier(l, r, sort[i]) \/ Earlier(r, l, sort[i]))
      BY DEF Tie
    <3>3. \A k \in 1 .. i - 1 : k \notin Told /\ k \in 1 .. n
      BY <3>1
    <3>4. \A k \in 1 .. i - 1 : Tie(l, r, sort[k]) /\ Tie(r, l, sort[k])
      BY <3>3 DEF Tie
    <3> QED BY <3>2, <3>4 DEF Lex
  <2> QED BY <2>1, <2>2
<1>3. ASSUME Lex(l, r, sort), Lex(r, t, sort) PROVE Lex(l, t, sort)
  <2>1. PICK i \in 1 .. n : Earlier(l, r, sort[i]) /\ \A k \in 1 .. i - 1 : Tie(l, r, sort[k])
    BY <1>3 DEF Lex
  <2>2. PICK j \in 1 .. n : Earlier(r, t, sort[j]) /\ \A k \in 1 .. j - 1 : Tie(r, t, sort[k])
    BY <1>3 DEF Lex
  <2>3. CASE i < j
    <3>1. Earlier(l, t, sort[i])
      BY <1>1, <2>1, <2>2, <2>3
    <3>2. \A k \in 1 .. i - 1 : Tie(l, t, sort[k])
      BY <1>1, <2>1, <2>2, <2>3
    <3> QED BY <3>1, <3>2 DEF Lex
  <2>4. CASE j < i
    <3>1. Earlier(l, t, sort[j])
      BY <1>1, <2>1, <2>2, <2>4
    <3>2. \A k \in 1 .. j - 1 : Tie(l, t, sort[k])
      BY <1>1, <2>1, <2>2, <2>4
    <3> QED BY <3>1, <3>2 DEF Lex
  <2>5. CASE i = j
    <3>1. Earlier(l, t, sort[i])
      BY <1>1, <2>1, <2>2, <2>5
    <3>2. \A k \in 1 .. i - 1 : Tie(l, t, sort[k])
      BY <1>1, <2>1, <2>2, <2>5
    <3> QED BY <3>1, <3>2 DEF Lex
  <2> QED BY <2>3, <2>4, <2>5
<1>4. ASSUME Lex(l, r, sort), Ties(r, t, sort) PROVE Lex(l, t, sort)
  <2>1. PICK i \in 1 .. n : Earlier(l, r, sort[i]) /\ \A k \in 1 .. i - 1 : Tie(l, r, sort[k])
    BY <1>4 DEF Lex
  <2>2. Earlier(l, t, sort[i])
    BY <1>1, <1>4, <2>1 DEF Ties
  <2>3. \A k \in 1 .. i - 1 : Tie(l, t, sort[k])
    BY <1>1, <1>4, <2>1 DEF Ties
  <2> QED BY <2>2, <2>3 DEF Lex
<1> QED BY <1>2, <1>3, <1>4

(* compare of two documents agrees with it.                                *)
LEMMA DocumentOrderIs ==
  ASSUME NEW sort, NEW n \in Nat, DOMAIN sort = 1 .. n, NEW l, NEW r,
         \A i \in DOMAIN sort : Comparable(GetPath(l, sort[i].field), GetPath(r, sort[i].field))
  PROVE  DocumentOrder(l, r, sort) > 0 <=> Lex(r, l, sort)
<1> DEFINE outcome(i) == LET o == FieldOrder(GetPath(l, sort[i].field), GetPath(r, sort[i].field))
                         IN  IF sort[i].direction = "desc" THEN -o ELSE o
           s == [i \in DOMAIN sort |-> outcome(i)]
           others == {i \in DOMAIN s : s[i] # 0}
<1>1. \A i \in 1 .. n : /\ Earlier(l, r, sort[i]) => s[i] = -1
                        /\ Earlier(r, l, sort[i]) => s[i] = 1
                        /\ Tie(l, r, sort[i]) => s[i] = 0
  <2> SUFFICES ASSUME NEW i \in 1 .. n
               PROVE  /\ Earlier(l, r, sort[i]) => outcome(i) = -1
                      /\ Earlier(r, l, sort[i]) => outcome(i) = 1
                      /\ Tie(l, r, sort[i]) => outcome(i) = 0
    OBVIOUS
  <2> DEFINE v == GetPath(l, sort[i].field)
             w == GetPath(r, sort[i].field)
             a == PlaceIn(v)
             b == PlaceIn(w)
  <2>1. /\ FieldOrder(v, w) = IF Below(a, b) THEN -1 ELSE IF Below(b, a) THEN 1 ELSE 0
        /\ Pairs(a) /\ Pairs(b)
    BY FieldOrderIs, PlacePairs
  <2>2. a = Place(l, sort[i].field) /\ b = Place(r, sort[i].field)
    BY PlaceIs
  <2>3. outcome(i) = IF sort[i].direction = "desc" THEN -FieldOrder(v, w) ELSE FieldOrder(v, w)
    OBVIOUS
  <2>4. ~(Below(a, b) /\ Below(b, a))
    BY <2>1 DEF Below, Pairs
  <2>5. /\ Earlier(l, r, sort[i]) <=> IF sort[i].direction = "desc" THEN Below(b, a) ELSE Below(a, b)
        /\ Earlier(r, l, sort[i]) <=> IF sort[i].direction = "desc" THEN Below(a, b) ELSE Below(b, a)
    BY <2>2, EarlierIs
  <2> HIDE DEF v, w, a, b, outcome
  <2>6. CASE sort[i].direction = "desc"
    <3>0. \A o : (o = -1 => -o = 1) /\ (o = 1 => -o = -1) /\ (o = 0 => -o = 0)
      OBVIOUS
    <3> DEFINE o == FieldOrder(v, w)
    <3>o. /\ outcome(i) = -o
          /\ Below(a, b) => o = -1
          /\ Below(b, a) => o = 1
          /\ ~Below(a, b) /\ ~Below(b, a) => o = 0
      BY <2>1, <2>3, <2>4, <2>6
    <3> HIDE DEF o
    <3>1. Below(a, b) => outcome(i) = 1
      BY <3>0, <3>o
    <3>2. Below(b, a) => outcome(i) = -1
      BY <3>0, <3>o
    <3>3. ~Below(a, b) /\ ~Below(b, a) => outcome(i) = 0
      BY <3>0, <3>o
    <3> QED BY <2>5, <2>6, <3>1, <3>2, <3>3 DEF Tie
  <2>7. CASE sort[i].direction # "desc"
    <3>1. Below(a, b) => outcome(i) = -1
      BY <2>1, <2>3, <2>7
    <3>2. Below(b, a) => outcome(i) = 1
      BY <2>1, <2>3, <2>4, <2>7
    <3>3. ~Below(a, b) /\ ~Below(b, a) => outcome(i) = 0
      BY <2>1, <2>3, <2>7
    <3> QED BY <2>5, <2>7, <3>1, <3>2, <3>3 DEF Tie
  <2> QED BY <2>6, <2>7
<1>2. DocumentOrder(l, r, sort) = IF others = {} THEN 0 ELSE s[Min(others)]
  BY DEF DocumentOrder, Throughout
<1>3. DOMAIN s = 1 .. n /\ others \in SUBSET Nat /\ \A i : i \in others <=> i \in 1 .. n /\ s[i] # 0
  OBVIOUS
<1> HIDE DEF s, others, outcome
<1>4. \A i \in 1 .. n : Earlier(l, r, sort[i]) \/ Earlier(r, l, sort[i]) \/ Tie(l, r, sort[i])
  BY DEF Tie
<1>5. CASE others = {}
  <2>1. \A i \in 1 .. n : ~Earlier(r, l, sort[i])
    BY <1>1, <1>3, <1>5
  <2> QED BY <1>2, <1>5, <2>1 DEF Lex
<1>6. CASE others # {}
  <2>1. Min(others) \in others /\ \A k \in others : Min(others) <= k
    BY <1>3, <1>6, MinIsIn
  <2> DEFINE m == Min(others)
  <2>2. m \in 1 .. n /\ s[m] # 0 /\ m \in Nat /\ DocumentOrder(l, r, sort) = s[m]
    BY <1>2, <1>3, <1>6, <2>1
  <2> HIDE DEF m
  <2>3. \A k \in 1 .. m - 1 : s[k] = 0 /\ k \in 1 .. n
    <3> SUFFICES ASSUME NEW k \in 1 .. m - 1 PROVE s[k] = 0 /\ k \in 1 .. n
      OBVIOUS
    <3>1. k \in 1 .. n /\ ~(m <= k)
      BY <2>2
    <3> QED BY <1>3, <2>1, <3>1 DEF m
  <2>4. \A k \in 1 .. m - 1 : Tie(r, l, sort[k])
    BY <1>1, <1>4, <2>3 DEF Tie
  <2>5. ASSUME s[m] > 0 PROVE Lex(r, l, sort)
    <3>1. Earlier(r, l, sort[m])
      BY <1>1, <1>4, <2>2, <2>5
    <3> QED BY <2>2, <2>4, <3>1 DEF Lex
  <2>6. ASSUME Lex(r, l, sort) PROVE s[m] > 0
    <3>1. PICK i \in 1 .. n : Earlier(r, l, sort[i]) /\ \A k \in 1 .. i - 1 : Tie(r, l, sort[k])
      BY <2>6 DEF Lex
    <3>2. s[i] = 1 /\ i \in others
      BY <1>1, <1>3, <3>1
    <3>3. m <= i
      BY <2>1, <3>2 DEF m
    <3>4. CASE m < i
      <4>1. m \in 1 .. i - 1
        BY <2>2, <3>4
      <4>2. Tie(l, r, sort[m])
        BY <3>1, <4>1 DEF Tie
      <4> QED BY <1>1, <2>2, <4>2
    <3>5. CASE m = i
      BY <3>2, <3>5
    <3> QED BY <2>2, <3>3, <3>4, <3>5
  <2> QED BY <2>2, <2>5, <2>6
<1> QED BY <1>5, <1>6

----------------------------------------------------------------------------
(* Sorting by insertion.                                                   *)

SortKeys == Seq([field : Seq(STRING), direction : {"asc", "desc"}])

(* In a column that can be sorted all values are comparable.               *)
LEMMA ColumnsComparable ==
  ASSUME DocsInv, NEW sort \in SortKeys, Sortable(sort),
         NEW l \in ToSet(docs), NEW r \in ToSet(docs), NEW i \in DOMAIN sort
  PROVE  /\ Comparable(GetPath(l, sort[i].field), GetPath(r, sort[i].field))
         /\ Placeable(l, sort[i]) /\ Placeable(r, sort[i])
<1> DEFINE field == sort[i].field
           v == GetPath(l, field)
           w == GetPath(r, field)
           column == {GetPath(docs[k], field) : k \in DOMAIN docs} \ {Missing}
<1>1. Len(field) \in Nat
  BY DEF SortKeys
<1>2. PICK a \in DOMAIN docs, b \in DOMAIN docs : l = docs[a] /\ r = docs[b]
  BY DEF ToSet
<1>3. Proper(l) /\ Proper(r)
  BY <1>2 DEF DocsInv, Document
<1>4. (\A x \in column : x = Null \/ Is(x, "num")) \/ (\A x \in column : Is(x, "str"))
  BY DEF Sortable
<1>5. (v = Missing \/ v \in column) /\ (w = Missing \/ w \in column)
  BY <1>2
<1> HIDE DEF field, column
<1>6. v = Missing \/ (WellFormed(v) /\ (Is(v, "num") => TextBefore(v, Null)))
  BY <1>1, <1>3, ProperGet, ProperParts
<1>7. w = Missing \/ (WellFormed(w) /\ (Is(w, "num") => TextBefore(w, Null)))
  BY <1>1, <1>3, ProperGet, ProperParts
<1> HIDE DEF v, w
<1>8. Comparable(v, w)
  BY <1>4, <1>5, <1>6, <1>7 DEF Comparable
<1>9. Pairs(PlaceIn(v)) /\ Pairs(PlaceIn(w))
  BY <1>8, PlacePairs
<1>10. Place(l, field) = PlaceIn(v) /\ Place(r, field) = PlaceIn(w)
  BY PlaceIs DEF v, w
<1> QED BY <1>8, <1>9, <1>10 DEF Placeable, v, w, field

(* Where a document is placed.                                             *)
LEMMA PlacedAt ==
  ASSUME NEW S, NEW s \in Seq(S), NEW e \in S, NEW sort
  PROVE  \E p \in 1 .. Len(s) + 1 :
           /\ Placed(s, e, sort) = InsertAt(s, p, e)
           /\ \A i \in 1 .. p - 1 : i \in 1 .. Len(s) /\ ~(DocumentOrder(s[i], e, sort) > 0)
           /\ p \in 1 .. Len(s) => DocumentOrder(s[p], e, sort) > 0
<1> DEFINE Greater == {i \in DOMAIN s : DocumentOrder(s[i], e, sort) > 0}
           P == {Len(s) + 1} \union Greater
           p == Min(P)
<1>1. Len(s) \in Nat /\ DOMAIN s = 1 .. Len(s)
  OBVIOUS
<1>2. \A i : i \in Greater <=> i \in 1 .. Len(s) /\ DocumentOrder(s[i], e, sort) > 0
  BY <1>1
<1>3. Placed(s, e, sort) = InsertAt(s, p, e)
  BY DEF Placed
<1> HIDE DEF Greater
<1>4. P \in SUBSET Nat /\ P # {} /\ \A i : i \in P <=> i = Len(s) + 1 \/ i \in Greater
  BY <1>1, <1>2
<1> HIDE DEF P
<1>5. p \in P /\ \A i \in P : p <= i
  BY <1>4, MinIsIn
<1> HIDE DEF p
<1>6. p \in 1 .. Len(s) + 1
  BY <1>1, <1>2, <1>4, <1>5
<1>7. \A i \in 1 .. p - 1 : i \in 1 .. Len(s) /\ ~(p <= i)
  BY <1>1, <1>6
<1>8. \A i \in 1 .. p - 1 : i \in 1 .. Len(s) /\ ~(DocumentOrder(s[i], e, sort) > 0)
  BY <1>2, <1>4, <1>5, <1>7
<1>9. p \in 1 .. Len(s) => DocumentOrder(s[p], e, sort) > 0
  BY <1>1, <1>2, <1>4, <1>5
<1> QED BY <1>3, <1>6, <1>8, <1>9

(* A sequence of different documents, in order if they can be sorted.      *)
Ordered(s, sort) ==
  /\ s \in Seq(ToSet(docs))
  /\ \A i, k \in 1 .. Len(s) : i < k => s[i] # s[k]
  /\ Sortable(sort) => \A i, k \in 1 .. Len(s) : i < k => InOrder(s[i], s[k], sort)

(* A document inserted later than all those that are sorted.               *)
Latest(s, e) == \A j \in 1 .. Len(s) : \E a, b \in DOMAIN docs : a < b /\ docs[a] = s[j] /\ docs[b] = e

(* A document is placed between those before it and those behind it.       *)
LEMMA PlacedInOrder ==
  ASSUME DocsInv, NEW sort \in SortKeys, Sortable(sort),
         NEW s, Ordered(s, sort), NEW e \in ToSet(docs), Latest(s, e),
         NEW p \in 1 .. Len(s) + 1,
         \A i \in 1 .. p - 1 : i \in 1 .. Len(s) /\ ~(DocumentOrder(s[i], e, sort) > 0),
         p \in 1 .. Len(s) => DocumentOrder(s[p], e, sort) > 0
  PROVE  /\ \A i \in 1 .. p - 1 : InOrder(s[i], e, sort)
         /\ \A i \in p .. Len(s) : InOrder(e, s[i], sort)
<1> DEFINE n == Len(sort)
<1>1. n \in Nat /\ DOMAIN sort = 1 .. n
  BY DEF SortKeys
<1> HIDE DEF n
<1>2. Len(s) \in Nat /\ \A i \in 1 .. Len(s) : s[i] \in ToSet(docs)
  BY DEF Ordered
<1>3. \A i \in 1 .. Len(s) : DocumentOrder(s[i], e, sort) > 0 <=> Lex(e, s[i], sort)
  <2> SUFFICES ASSUME NEW i \in 1 .. Len(s)
               PROVE  DocumentOrder(s[i], e, sort) > 0 <=> Lex(e, s[i], sort)
    OBVIOUS
  <2> DEFINE l == s[i]
  <2>1. l \in ToSet(docs)
    BY <1>2
  <2> HIDE DEF l
  <2>2. \A k \in DOMAIN sort : Comparable(GetPath(l, sort[k].field), GetPath(e, sort[k].field))
    BY <2>1, ColumnsComparable
  <2>3. DocumentOrder(l, e, sort) > 0 <=> Lex(e, l, sort)
    BY <1>1, <2>2, DocumentOrderIs
  <2> QED BY <2>3 DEF l
<1>4. ASSUME NEW l \in ToSet(docs) PROVE \A k \in DOMAIN sort : Placeable(l, sort[k])
  BY ColumnsComparable
<1>5. ASSUME NEW i \in 1 .. p - 1 PROVE InOrder(s[i], e, sort)
  <2> DEFINE l == s[i]
  <2>1. i \in 1 .. Len(s) /\ l \in ToSet(docs) /\ ~Lex(e, l, sort)
    BY <1>2, <1>3
  <2>2. \E a, b \in DOMAIN docs : a < b /\ docs[a] = l /\ docs[b] = e
    BY <2>1 DEF Latest
  <2> HIDE DEF l
  <2>3. \A k \in DOMAIN sort : Placeable(l, sort[k]) /\ Placeable(e, sort[k])
    BY <1>4, <2>1
  <2>4. Lex(l, e, sort) \/ Lex(e, l, sort) \/ Ties(l, e, sort)
    BY <1>1, <2>3, LexOrders
  <2>5. InOrder(l, e, sort)
    BY <2>1, <2>2, <2>4, InOrderIs
  <2> QED BY <2>5 DEF l
<1>6. ASSUME NEW i \in p .. Len(s) PROVE InOrder(e, s[i], sort)
  <2> DEFINE l == s[i]
             q == s[p]
  <2>1. i \in 1 .. Len(s) /\ p \in 1 .. Len(s) /\ (i = p \/ p < i)
    BY <1>2
  <2>2. l \in ToSet(docs) /\ q \in ToSet(docs) /\ Lex(e, q, sort)
    BY <1>2, <1>3, <2>1
  <2>3. i = p \/ InOrder(q, l, sort)
    BY <2>1 DEF Ordered
  <2>e. i = p => l = q
    OBVIOUS
  <2> HIDE DEF l, q
  <2>4. \A k \in DOMAIN sort : Placeable(l, sort[k]) /\ Placeable(e, sort[k]) /\ Placeable(q, sort[k])
    BY <1>4, <2>2
  <2>5. l = q \/ Lex(q, l, sort) \/ Ties(q, l, sort)
    BY <2>3, <2>e, InOrderIs
  <2>6. Lex(e, l, sort)
    BY <1>1, <2>2, <2>4, <2>5, LexOrders
  <2>7. InOrder(e, l, sort)
    BY <2>6, InOrderIs
  <2> QED BY <2>7 DEF l
<1> QED BY <1>5, <1>6

(* One document more is placed.                                            *)
LEMMA PlacedOne ==
  ASSUME DocsInv, NEW sort \in SortKeys, NEW s, Ordered(s, sort),
         NEW e \in ToSet(docs), Latest(s, e), NEW t, t = Placed(s, e, sort)
  PROVE  /\ Ordered(t, sort)
         /\ \A k \in 1 .. Len(t) : t[k] = e \/ \E j \in 1 .. Len(s) : t[k] = s[j]
         /\ \E k \in 1 .. Len(t) : t[k] = e
         /\ \A j \in 1 .. Len(s) : \E k \in 1 .. Len(t) : t[k] = s[j]
<1> DEFINE D == ToSet(docs)
<1>0. s \in Seq(D) /\ e \in D /\ Len(s) \in Nat
  BY DEF Ordered
<1> HIDE DEF D
<1>1. PICK p \in 1 .. Len(s) + 1 :
        /\ t = InsertAt(s, p, e)
        /\ \A i \in 1 .. p - 1 : i \in 1 .. Len(s) /\ ~(DocumentOrder(s[i], e, sort) > 0)
        /\ p \in 1 .. Len(s) => DocumentOrder(s[p], e, sort) > 0
  BY <1>0, PlacedAt
<1>2. /\ t \in Seq(D) /\ Len(t) = Len(s) + 1 /\ t[p] = e
      /\ \A i \in 1 .. p - 1 : t[i] = s[i]
      /\ \A i \in p .. Len(s) : t[i + 1] = s[i]
  <2>1. t = InsertAt(s, p, e)
    BY <1>1
  <2>2. p \in 1 .. Len(s) + 1 /\ s \in Seq(D) /\ e \in D
    BY <1>0
  <2>3. \A S : s \in Seq(S) /\ e \in S =>
          /\ t \in Seq(S) /\ Len(t) = Len(s) + 1 /\ t[p] = e /\ Len(s) \in Nat
          /\ \A i \in 1 .. p - 1 : t[i] = s[i]
          /\ \A i \in p .. Len(s) : t[i + 1] = s[i]
    BY <2>1, InsertParts
  <2> QED BY <2>2, <2>3
(* An index of t is p, before it or behind it.                             *)
<1>3. ASSUME NEW k \in 1 .. Len(t)
      PROVE  \/ k = p
             \/ k \in 1 .. p - 1 /\ k \in 1 .. Len(s) /\ t[k] = s[k]
             \/ k > p /\ k - 1 \in p .. Len(s) /\ k - 1 \in 1 .. Len(s) /\ t[k] = s[k - 1]
  <2>1. k = p \/ k \in 1 .. p - 1 \/ (k > p /\ k - 1 \in p .. Len(s) /\ k - 1 \in 1 .. Len(s))
    BY <1>0, <1>2
  <2>2. k \in 1 .. p - 1 => k \in 1 .. Len(s)
    BY <1>0
  <2>3. (k - 1) + 1 = k
    OBVIOUS
  <2>4. k - 1 \in p .. Len(s) => t[k] = s[k - 1]
    <3> DEFINE i == k - 1
    <3>1. i + 1 = k
      OBVIOUS
    <3> HIDE DEF i
    <3>2. i \in p .. Len(s) => t[k] = s[i]
      BY <1>2, <3>1
    <3> QED BY <3>2 DEF i
  <2> QED BY <1>2, <2>1, <2>2, <2>4
<1>4. \A k \in 1 .. Len(t) : t[k] = e \/ \E j \in 1 .. Len(s) : t[k] = s[j]
  BY <1>2, <1>3
<1>5. p \in 1 .. Len(t) /\ t[p] = e
  BY <1>0, <1>2
<1>6. \A j \in 1 .. Len(s) : \E k \in 1 .. Len(t) : t[k] = s[j]
  <2> SUFFICES ASSUME NEW j \in 1 .. Len(s) PROVE \E k \in 1 .. Len(t) : t[k] = s[j]
    OBVIOUS
  <2>1. j \in 1 .. p - 1 \/ j \in p .. Len(s)
    BY <1>0
  <2>2. j \in 1 .. Len(t) /\ j + 1 \in 1 .. Len(t)
    BY <1>0, <1>2
  <2> QED BY <1>2, <2>1, <2>2
<1>7. \A j \in 1 .. Len(s) : s[j] # e
  <2>1. \A a, b \in DOMAIN docs : docs[a] = docs[b] => a = b
    BY Distinct
  <2>2. DOMAIN docs \subseteq Nat
    BY DEF DocsInv
  <2> SUFFICES ASSUME NEW j \in 1 .. Len(s), s[j] = e PROVE FALSE
    OBVIOUS
  <2>3. PICK a \in DOMAIN docs, b \in DOMAIN docs : a < b /\ docs[a] = s[j] /\ docs[b] = e
    BY DEF Latest
  <2> QED BY <2>1, <2>2, <2>3
<1>8. \A i, k \in 1 .. Len(t) : i < k => t[i] # t[k]
  <2>1. \A i, k \in 1 .. Len(s) : i < k => s[i] # s[k]
    BY DEF Ordered
  <2> SUFFICES ASSUME NEW i \in 1 .. Len(t), NEW k \in 1 .. Len(t), i < k PROVE t[i] # t[k]
    OBVIOUS
  <2>2. CASE i \in 1 .. p - 1 /\ i \in 1 .. Len(s) /\ t[i] = s[i]
    <3>1. CASE k = p
      BY <1>2, <1>7, <2>2, <3>1
    <3>2. CASE k \in 1 .. p - 1 /\ k \in 1 .. Len(s) /\ t[k] = s[k]
      BY <2>1, <2>2, <3>2
    <3>3. CASE k > p /\ k - 1 \in p .. Len(s) /\ k - 1 \in 1 .. Len(s) /\ t[k] = s[k - 1]
      <4>1. i < k - 1
        BY <2>2, <3>3
      <4> QED BY <2>1, <2>2, <3>3, <4>1
    <3> QED BY <1>3, <3>1, <3>2, <3>3
  <2>3. CASE i = p
    <3>1. k > p
      BY <2>3
    <3>2. k - 1 \in 1 .. Len(s) /\ t[k] = s[k - 1]
      BY <1>3, <3>1
    <3> QED BY <1>2, <1>7, <2>3, <3>2
  <2>4. CASE i > p /\ i - 1 \in p .. Len(s) /\ i - 1 \in 1 .. Len(s) /\ t[i] = s[i - 1]
    <3>1. k > p /\ i - 1 < k - 1
      BY <2>4
    <3>2. k - 1 \in 1 .. Len(s) /\ t[k] = s[k - 1]
      BY <1>3, <3>1
    <3> QED BY <2>1, <2>4, <3>1, <3>2
  <2> QED BY <1>3, <2>2, <2>3, <2>4
<1>9. ASSUME Sortable(sort) PROVE \A i, k \in 1 .. Len(t) : i < k => InOrder(t[i], t[k], sort)
  <2>1. \A i, k \in 1 .. Len(s) : i < k => InOrder(s[i], s[k], sort)
    BY <1>9 DEF Ordered
  <2>p. /\ \A i \in 1 .. p - 1 : InOrder(s[i], e, sort)
        /\ \A i \in p .. Len(s) : InOrder(e, s[i], sort)
    BY <1>1, <1>9, PlacedInOrder
  <2> SUFFICES ASSUME NEW i \in 1 .. Len(t), NEW k \in 1 .. Len(t), i < k PROVE InOrder(t[i], t[k], sort)
    OBVIOUS
  <2>2. CASE i \in 1 .. p - 1 /\ i \in 1 .. Len(s) /\ t[i] = s[i]
    <3>1. CASE k = p
      BY <1>2, <2>p, <2>2, <3>1
    <3>2. CASE k \in 1 .. p - 1 /\ k \in 1 .. Len(s) /\ t[k] = s[k]
      BY <2>1, <2>2, <3>2
    <3>3. CASE k > p /\ k - 1 \in p .. Len(s) /\ k - 1 \in 1 .. Len(s) /\ t[k] = s[k - 1]
      <4>1. i < k - 1
        BY <2>2, <3>3
      <4> QED BY <2>1, <2>2, <3>3, <4>1
    <3> QED BY <1>3, <3>1, <3>2, <3>3
  <2>3. CASE i = p
    <3>1. k > p
      BY <2>3
    <3>2. k - 1 \in p .. Len(s) /\ t[k] = s[k - 1]
      BY <1>3, <3>1
    <3> QED BY <1>2, <2>p, <2>3, <3>2
  <2>4. CASE i > p /\ i - 1 \in p .. Len(s) /\ i - 1 \in 1 .. Len(s) /\ t[i] = s[i - 1]
    <3>1. k > p /\ i - 1 < k - 1
      BY <2>4
    <3>2. k - 1 \in 1 .. Len(s) /\ t[k] = s[k - 1]
      BY <1>3, <3>1
    <3> QED BY <2>1, <2>4, <3>1, <3>2
  <2> QED BY <1>3, <2>2, <2>3, <2>4
<1>10. Ordered(t, sort)
  BY <1>2, <1>8, <1>9 DEF Ordered, D
<1> QED BY <1>4, <1>5, <1>6, <1>10

(* The documents an evaluation selects, in their order, are sorted.        *)
LEMMA SortingIs ==
  ASSUME DocsInv, NEW sort \in SortKeys, NEW m \in Seq(ToSet(docs)),
         InOrderOf(m, docs, Len(docs))
  PROVE  \A n \in 0 .. Len(m) :
           /\ Ordered(Sorting(m, sort)[n], sort)
           /\ \A k \in 1 .. Len(Sorting(m, sort)[n]) : \E i \in 1 .. n : Sorting(m, sort)[n][k] = m[i]
           /\ \A i \in 1 .. n : \E k \in 1 .. Len(Sorting(m, sort)[n]) : Sorting(m, sort)[n][k] = m[i]
<1> DEFINE Good(s, n) == /\ Ordered(s, sort)
                         /\ \A k \in 1 .. Len(s) : \E i \in 1 .. n : s[k] = m[i]
                         /\ \A i \in 1 .. n : \E k \in 1 .. Len(s) : s[k] = m[i]
           G == {n \in Nat : Good(Sorting(m, sort)[n], n)}
<1>0. Len(m) \in Nat
  OBVIOUS
<1>1. 0 \in G
  <2>1. Good(<< >>, 0)
    BY DEF Ordered
  <2> HIDE DEF Good
  <2> QED BY <1>0, <2>1, SortingSteps
<1>2. \A n \in 0 .. Len(m) - 1 : n \in G => n + 1 \in G
  <2> SUFFICES ASSUME NEW n \in 0 .. Len(m) - 1, n \in G PROVE n + 1 \in G
    OBVIOUS
  <2> DEFINE s == Sorting(m, sort)[n]
             e == m[n + 1]
             t == Placed(s, e, sort)
  <2>1. n + 1 \in 1 .. Len(m) /\ (n + 1) - 1 = n /\ n \in Nat /\ e \in ToSet(docs)
    OBVIOUS
  <2>2. Good(s, n)
    OBVIOUS
  <2>3. Sorting(m, sort)[n + 1] = t
    <3>1. \A i \in 1 .. Len(m) : Sorting(m, sort)[i] = Placed(Sorting(m, sort)[i - 1], m[i], sort)
      BY <1>0, SortingSteps
    <3> QED BY <2>1, <3>1
  <2> HIDE DEF s, G
  <2>4. Latest(s, e)
    <3> SUFFICES ASSUME NEW j \in 1 .. Len(s)
                 PROVE  \E a, b \in DOMAIN docs : a < b /\ docs[a] = s[j] /\ docs[b] = e
      BY DEF Latest
    <3>1. PICK i \in 1 .. n : s[j] = m[i]
      BY <2>2
    <3>2. i \in 1 .. Len(m) /\ i < n + 1
      BY <1>0, <2>1
    <3>3. PICK a \in 1 .. Len(docs), b \in 1 .. Len(docs) : a < b /\ docs[a] = m[i] /\ docs[b] = m[n + 1]
      BY <2>1, <3>2 DEF InOrderOf
    <3>4. DOMAIN docs = 1 .. Len(docs)
      BY DEF DocsInv
    <3> QED BY <3>1, <3>3, <3>4
  <2>e. e = m[n + 1]
    OBVIOUS
  <2> HIDE DEF e, t
  <2>5. /\ Ordered(t, sort)
        /\ \A k \in 1 .. Len(t) : t[k] = e \/ \E j \in 1 .. Len(s) : t[k] = s[j]
        /\ \E k \in 1 .. Len(t) : t[k] = e
        /\ \A j \in 1 .. Len(s) : \E k \in 1 .. Len(t) : t[k] = s[j]
    <3>1. Ordered(s, sort) /\ t = Placed(s, e, sort)
      BY <2>2 DEF t
    <3> QED BY <2>1, <2>4, <3>1, PlacedOne
  <2>6. \A k \in 1 .. Len(t) : \E i \in 1 .. n + 1 : t[k] = m[i]
    <3>1. \A i \in 1 .. n : i \in 1 .. n + 1
      BY <2>1
    <3>2. n + 1 \in 1 .. n + 1
      BY <2>1
    <3> SUFFICES ASSUME NEW k \in 1 .. Len(t) PROVE \E i \in 1 .. n + 1 : t[k] = m[i]
      OBVIOUS
    <3>3. CASE t[k] = e
      BY <2>e, <3>2, <3>3
    <3>4. ASSUME NEW j \in 1 .. Len(s), t[k] = s[j] PROVE \E i \in 1 .. n + 1 : t[k] = m[i]
      <4>1. PICK i \in 1 .. n : s[j] = m[i]
        BY <2>2
      <4> QED BY <3>1, <3>4, <4>1
    <3> QED BY <2>5, <3>3, <3>4
  <2>7. \A i \in 1 .. n + 1 : \E k \in 1 .. Len(t) : t[k] = m[i]
    <3>1. \A i \in 1 .. n + 1 : i \in 1 .. n \/ i = n + 1
      BY <2>1
    <3> SUFFICES ASSUME NEW i \in 1 .. n + 1 PROVE \E k \in 1 .. Len(t) : t[k] = m[i]
      OBVIOUS
    <3>2. CASE i = n + 1
      BY <2>5, <2>e, <3>2
    <3>3. CASE i \in 1 .. n
      <4>1. PICK j \in 1 .. Len(s) : s[j] = m[i]
        BY <2>2, <3>3
      <4> QED BY <2>5, <4>1
    <3> QED BY <3>1, <3>2, <3>3
  <2>8. Good(t, n + 1)
    BY <2>5, <2>6, <2>7
  <2> HIDE DEF Good
  <2> QED BY <2>1, <2>3, <2>8 DEF G
<1> HIDE DEF G
<1>3. \A n \in 0 .. Len(m) : n \in G
  BY <1>0, <1>1, <1>2, Climb
<1> QED BY <1>3 DEF G

(* What a find returns, sorted or not.                                     *)
LEMMA FoundIs ==
  ASSUME DocsInv, NEW request \in Requests, NEW found, found = FoundFor(request)
  PROVE  /\ Ordered(found, request.sort)
         /\ \A d \in ToSet(docs) : d \in ToSet(found) <=> Matches(d, request.query) = "yes"
<1> DEFINE query == request.query
           sort == request.sort
           m == Matched(docs, query)
           N == Len(docs)
           M == Len(m)
<1>0. docs \in Seq(ToSet(docs)) /\ N \in Nat /\ DOMAIN docs = 1 .. N /\ N \in 0 .. N
  BY DEF DocsInv
<1>1. m \in Seq(ToSet(docs)) /\ SelectedOf(m, docs, query, N) /\ InOrderOf(m, docs, N)
  <2>1. m = Among(docs, query)[N]
    BY DEF Matched
  <2> HIDE DEF m, query, N
  <2>2. \A n \in 0 .. Len(docs) : /\ Among(docs, query)[n] \in Seq(ToSet(docs))
                                  /\ SelectedOf(Among(docs, query)[n], docs, query, n)
                                  /\ InOrderOf(Among(docs, query)[n], docs, n)
    BY <1>0, AmongIs
  <2> QED BY <1>0, <2>1, <2>2 DEF N
<1>2. sort \in SortKeys
  BY RequestsAssumption DEF SortKeys
<1>3. found = IF sort = << >> THEN m ELSE Sorting(m, sort)[M]
  BY DEF FoundFor, SortDocuments
<1> HIDE DEF query, sort, m, N, M
<1>4. M \in Nat /\ M = Len(m) /\ DOMAIN m = 1 .. M /\ M \in 0 .. M
  BY <1>1 DEF M
<1>5. N = Len(docs)
  BY DEF N
(* Different documents, in the order of insertion.                         *)
<1>6. \A i, k \in 1 .. Len(m) : i < k =>
        \E a, b \in DOMAIN docs : a < b /\ docs[a] = m[i] /\ docs[b] = m[k]
  <2> SUFFICES ASSUME NEW i \in 1 .. Len(m), NEW k \in 1 .. Len(m), i < k
               PROVE  \E a, b \in DOMAIN docs : a < b /\ docs[a] = m[i] /\ docs[b] = m[k]
    OBVIOUS
  <2>1. PICK a \in 1 .. N, b \in 1 .. N : a < b /\ docs[a] = m[i] /\ docs[b] = m[k]
    BY <1>1 DEF InOrderOf
  <2> QED BY <1>0, <2>1
<1>7. /\ Ordered(found, sort)
      /\ \A k \in 1 .. Len(found) : \E i \in 1 .. M : found[k] = m[i]
      /\ \A i \in 1 .. M : \E k \in 1 .. Len(found) : found[k] = m[i]
  <2>1. CASE sort = << >>
    <3>1. found = m
      BY <1>3, <2>1
    <3>2. \A i, k \in 1 .. Len(m) : i < k => m[i] # m[k]
      <4>1. \A a, b \in DOMAIN docs : docs[a] = docs[b] => a = b
        BY Distinct
      <4>2. DOMAIN docs \subseteq Nat
        BY <1>0
      <4> QED BY <1>6, <4>1, <4>2
    <3>3. \A i, k \in 1 .. Len(m) : i < k => InOrder(m[i], m[k], sort)
      <4> SUFFICES ASSUME NEW i \in 1 .. Len(m), NEW k \in 1 .. Len(m), i < k
                   PROVE  InOrder(m[i], m[k], sort)
        OBVIOUS
      <4>1. Ties(m[i], m[k], sort)
        BY <2>1 DEF Ties
      <4> QED BY <1>6, <4>1, InOrderIs
    <3>4. Ordered(m, sort)
      BY <1>1, <3>2, <3>3 DEF Ordered
    <3> QED BY <1>4, <3>1, <3>4
  <2>2. CASE sort # << >>
    <3>1. found = Sorting(m, sort)[M]
      BY <1>3, <2>2
    <3>2. \A n \in 0 .. Len(m) :
            /\ Ordered(Sorting(m, sort)[n], sort)
            /\ \A k \in 1 .. Len(Sorting(m, sort)[n]) : \E i \in 1 .. n : Sorting(m, sort)[n][k] = m[i]
            /\ \A i \in 1 .. n : \E k \in 1 .. Len(Sorting(m, sort)[n]) : Sorting(m, sort)[n][k] = m[i]
      BY <1>1, <1>2, <1>5, SortingIs
    <3>3. M \in 0 .. Len(m)
      BY <1>4
    <3> DEFINE s == Sorting(m, sort)[M]
    <3>4. /\ Ordered(s, sort)
          /\ \A k \in 1 .. Len(s) : \E i \in 1 .. M : s[k] = m[i]
          /\ \A i \in 1 .. M : \E k \in 1 .. Len(s) : s[k] = m[i]
      BY <3>2, <3>3, Zenon
    <3> HIDE DEF s
    <3>5. found = s
      BY <3>1 DEF s
    <3> QED BY <3>4, <3>5, Zenon
  <2> QED BY <2>1, <2>2
<1>8. Len(found) \in Nat /\ DOMAIN found = 1 .. Len(found)
  BY <1>7 DEF Ordered
<1>9. ASSUME NEW d \in ToSet(docs), d \in ToSet(found) PROVE Matches(d, query) = "yes"
  <2>1. PICK k \in 1 .. Len(found) : found[k] = d
    BY <1>8, <1>9 DEF ToSet
  <2>2. PICK i \in 1 .. M : d = m[i]
    BY <1>7, <2>1
  <2>3. PICK j \in 1 .. N : m[i] = docs[j] /\ Matches(docs[j], query) = "yes"
    BY <1>1, <1>4 DEF SelectedOf
  <2> QED BY <2>2, <2>3
<1>10. ASSUME NEW d \in ToSet(docs), Matches(d, query) = "yes" PROVE d \in ToSet(found)
  <2>1. PICK j \in 1 .. N : docs[j] = d
    BY <1>0 DEF ToSet
  <2>2. PICK i \in 1 .. M : m[i] = docs[j]
    BY <1>1, <1>4, <1>10, <2>1 DEF SelectedOf
  <2>3. PICK k \in 1 .. Len(found) : found[k] = m[i]
    BY <1>7
  <2> QED BY <1>8, <2>1, <2>2, <2>3 DEF ToSet
<1> QED BY <1>7, <1>9, <1>10 DEF query, sort

(* Different documents of the collection, in their order.                  *)
LEMMA FoundParts ==
  ASSUME NEW sort, NEW found, Ordered(found, sort)
  PROVE  /\ DOMAIN found = 1 .. Len(found) /\ Len(found) \in Nat
         /\ \A k \in DOMAIN found : found[k] \in ToSet(docs)
         /\ ToSet(found) \subseteq ToSet(docs)
         /\ IsInjective(found)
         /\ Sortable(sort) => \A i, k \in DOMAIN found : i < k => InOrder(found[i], found[k], sort)
<1>1. DOMAIN found = 1 .. Len(found) /\ Len(found) \in Nat
  BY DEF Ordered
<1>2. \A k \in DOMAIN found : found[k] \in ToSet(docs)
  <2> DEFINE D == ToSet(docs)
  <2>1. found \in Seq(D)
    BY DEF Ordered
  <2> HIDE DEF D
  <2>2. \A k \in DOMAIN found : found[k] \in D
    BY <2>1
  <2> QED BY <2>2 DEF D
<1>3. ToSet(found) \subseteq ToSet(docs)
  <2> DEFINE D == ToSet(docs)
  <2>1. \A k \in DOMAIN found : found[k] \in D
    BY <1>2
  <2> HIDE DEF D
  <2>2. ToSet(found) \subseteq D
    BY <2>1 DEF ToSet
  <2> QED BY <2>2 DEF D
<1>4. IsInjective(found)
  <2>1. ASSUME NEW i \in DOMAIN found, NEW k \in DOMAIN found, found[i] = found[k] PROVE i = k
    <3>1. ~(i < k) /\ ~(k < i)
      BY <1>1, <2>1 DEF Ordered
    <3> QED BY <1>1, <3>1
  <2> QED BY <2>1 DEF IsInjective
<1>5. Sortable(sort) => \A i, k \in DOMAIN found : i < k => InOrder(found[i], found[k], sort)
  BY <1>1 DEF Ordered
<1> QED BY <1>1, <1>2, <1>3, <1>4, <1>5

(* The documents found are those their query means.                        *)
LEMMA FoundAsMeant ==
  ASSUME DocsInv, NEW request \in Requests, request.query \in Regular,
         NEW found, found = FoundFor(request)
  PROVE  ToSet(found) = Meaning(ToSet(docs), request.query)
<1> DEFINE D == ToSet(docs)
           query == request.query
<1>1. ToSet(found) \subseteq D /\ \A d \in D : d \in ToSet(found) <=> Matches(d, query) = "yes"
  BY FoundIs, FoundParts
<1>2. \A d \in D : Proper(d)
  BY DEF DocsInv, Document, ToSet
<1>3. query \in Regular /\ query \in Queries
  BY DEF Regular
<1>4. Meaning(D, query) \subseteq D
  <2> HIDE DEF D, query
  <2>1. Meanings(D)[query] = AllMeant(Meanings(D), D, query)
    BY <1>3, MeaningsSteps
  <2> QED BY <2>1 DEF Meaning, AllMeant
<1> HIDE DEF D, query
<1>5. \A d \in D : Matches(d, query) = "yes" <=> d \in Meaning(D, query)
  BY <1>2, <1>3, RegularAgrees DEF Agrees, Matches, Meaning
<1> QED BY <1>1, <1>4, <1>5 DEF D, query

----------------------------------------------------------------------------
(* A find returns a document of the collection for every row, and every    *)
(* row carries the identifier of its document (TypeOK).                    *)
THEOREM TypeCorrect == Spec => []TypeOK
<1>1. IInv => TypeOK
  <2> SUFFICES ASSUME IInv PROVE TypeOK
    OBVIOUS
  <2>1. Len(docs) <= Len(Ids) /\ \A i \in DOMAIN docs : Is(docs[i], "dict")
    BY DEF IInv, DocsInv, Document
  <2>2. ASSUME Answered
        PROVE  /\ ToSet(answer.found) \subseteq ToSet(docs)
               /\ DOMAIN answer.rows = DOMAIN answer.found
               /\ \A k \in DOMAIN answer.rows :
                    GetPath(answer.rows[k], IdPath) = GetPath(answer.found[k], IdPath)
    <3> DEFINE request == answer.request
               found == answer.found
               fields == request.fields
    <3>1. /\ request \in Requests /\ found = FoundFor(request)
          /\ answer.rows = [k \in DOMAIN found |-> Project(found[k], fields)]
      BY <2>2 DEF IInv, AnswerInv, Answered, NoAnswer
    <3>2. fields \in Seq(Seq(STRING) \ {<< >>})
      BY <3>1, RequestsAssumption
    <3>3. DocsInv
      BY DEF IInv
    <3> HIDE DEF request, found, fields
    <3>4. /\ ToSet(found) \subseteq ToSet(docs)
          /\ \A k \in DOMAIN found : found[k] \in ToSet(docs)
      BY <3>1, <3>3, FoundIs, FoundParts
    <3>5. ASSUME NEW k \in DOMAIN found
          PROVE  GetPath(Project(found[k], fields), IdPath) = GetPath(found[k], IdPath)
      <4> DEFINE d == found[k]
      <4>1. PICK i \in DOMAIN docs : d = docs[i]
        BY <3>4 DEF ToSet
      <4>2. Proper(d) /\ Child(d, "_id") = [str |-> Ids[i]]
        BY <3>3, <4>1 DEF DocsInv, Document
      <4> HIDE DEF d
      <4>3. CASE fields = << >>
        <5>1. Project(d, fields) = d
          BY <4>3, Zenon DEF Project
        <5> QED BY <5>1 DEF d
      <4>4. CASE fields # << >>
        <5> DEFINE F == Present(d, fields, Len(fields)) \union {IdPath}
        <5>1. ShownOf(Project(d, fields), d, F)
          BY <3>2, <4>2, <4>4, ProjectionShows
        <5>2. IdPath \in F /\ IsPrefix(IdPath, IdPath)
          BY IdParts, PrefixParts
        <5> HIDE DEF F
        <5>3. GetPath(Project(d, fields), IdPath) = GetPath(d, IdPath)
          BY <5>1, <5>2, IdParts DEF ShownOf
        <5> QED BY <5>3 DEF d
      <4> QED BY <4>3, <4>4
    <3> QED BY <3>1, <3>4, <3>5 DEF found
  <2> QED BY <2>1, <2>2 DEF TypeOK, IdPath
<1> QED BY <1>1, Invariance, PTL

(* A find returns the documents its query means, every one once, in the    *)
(* order of the sort keys and of insertion where these do not tell         *)
(* (RowsAsAsked).                                                          *)
THEOREM RowsAreAsAsked == Spec => []RowsAsAsked
<1>1. IInv => RowsAsAsked
  <2> SUFFICES ASSUME IInv, Answered, answer.request.query \in Regular
               PROVE  /\ ToSet(answer.found) = Meaning(ToSet(docs), answer.request.query)
                      /\ IsInjective(answer.found)
                      /\ Sortable(answer.request.sort) =>
                           \A i, k \in DOMAIN answer.found :
                             i < k => InOrder(answer.found[i], answer.found[k], answer.request.sort)
    BY DEF RowsAsAsked
  <2> DEFINE request == answer.request
             found == answer.found
  <2>1. request \in Requests /\ found = FoundFor(request) /\ DocsInv
    BY DEF IInv, AnswerInv, Answered, NoAnswer
  <2>2. request.query \in Regular
    OBVIOUS
  <2> HIDE DEF request, found
  <2>3. ToSet(found) = Meaning(ToSet(docs), request.query)
    BY <2>1, <2>2, FoundAsMeant
  <2>4. Ordered(found, request.sort)
    BY <2>1, FoundIs
  <2>5. /\ IsInjective(found)
        /\ Sortable(request.sort) =>
             \A i, k \in DOMAIN found : i < k => InOrder(found[i], found[k], request.sort)
    BY <2>4, FoundParts
  <2> QED BY <2>3, <2>5 DEF request, found
<1> QED BY <1>1, Invariance, PTL

(* A row shows what its document holds at the paths that were asked for    *)
(* and below them, mappings above them and nothing elsewhere               *)
(* (ProjectionFaithful).                                                   *)
THEOREM ProjectionIsFaithful == Spec => []ProjectionFaithful
<1>1. IInv => ProjectionFaithful
  <2> SUFFICES ASSUME IInv, Answered, answer.request.fields # << >>,
                      NEW k \in DOMAIN answer.rows, NEW path \in Paths
               PROVE  LET asked == ToSet(answer.request.fields) \union {<<"_id">>}
                          shown == GetPath(answer.rows[k], path)
                      IN  IF \E f \in asked : IsPrefix(f, path) THEN shown = GetPath(answer.found[k], path)
                          ELSE IF \E f \in asked : IsPrefix(path, f) THEN shown = Missing \/ Is(shown, "dict")
                          ELSE shown = Missing
    BY Zenon DEF ProjectionFaithful
  <2> DEFINE asked == ToSet(answer.request.fields) \union {<<"_id">>}
             shown == GetPath(answer.rows[k], path)
  <2> DEFINE request == answer.request
             found == answer.found
             fields == request.fields
             d == found[k]
  <2>1. /\ request \in Requests /\ found = FoundFor(request) /\ DocsInv
        /\ answer.rows = [i \in DOMAIN found |-> Project(found[i], fields)]
    BY DEF IInv, AnswerInv, Answered, NoAnswer
  <2>2. fields \in Seq(Seq(STRING) \ {<< >>}) /\ fields # << >>
    BY <2>1, RequestsAssumption
  <2>3. asked = ToSet(fields) \union {IdPath}
    BY DEF IdPath
  <2>4. path \in Seq(Name) \ {<< >>}
    BY PathsAreNames
  <2>5. k \in DOMAIN found /\ answer.rows[k] = Project(d, fields)
    BY <2>1
  <2>6. answer.found[k] = d /\ shown = GetPath(answer.rows[k], path)
    OBVIOUS
  <2> HIDE DEF d, shown, asked
  <2> HIDE DEF request, found, fields
  <2>7. d \in ToSet(docs)
    <3>1. \A i \in DOMAIN found : found[i] \in ToSet(docs)
      BY <2>1, FoundIs, FoundParts
    <3> QED BY <2>5, <3>1 DEF d
  <2>8. PICK i \in DOMAIN docs : d = docs[i]
    BY <2>7 DEF ToSet
  <2>9. Proper(d) /\ Child(d, "_id") = [str |-> Ids[i]]
    BY <2>1, <2>8 DEF DocsInv, Document
  <2>10. ShowsAsAsked(d, asked, path, shown)
    <3> DEFINE id == Ids[i]
    <3>1. shown = GetPath(Project(d, fields), path)
      BY <2>5, <2>6
    <3>2. Proper(d) /\ Child(d, "_id") = [str |-> id]
      BY <2>9
    <3> HIDE DEF id
    <3> QED BY <2>2, <2>3, <2>4, <3>1, <3>2, RowFaithful
  <2>11. IF \E f \in asked : IsPrefix(f, path) THEN shown = GetPath(d, path)
         ELSE IF \E f \in asked : IsPrefix(path, f) THEN shown = Missing \/ Is(shown, "dict")
         ELSE shown = Missing
    BY <2>10 DEF ShowsAsAsked
  <2> QED BY <2>11, Zenon DEF asked, shown, d, found
<1> QED BY <1>1, Invariance, PTL

(* After set_path the path leads to the value, after del_path nowhere, and *)
(* every path that is neither above nor below leads where it led           *)
(* (PathsIndependent).                                                     *)
THEOREM UpdatesStayInTheirPaths == Spec => PathsIndependent
<1> DEFINE Independent(i, path) ==
      /\ \A v \in Values : Set(i, path, v) => GetPath(docs'[i], path) = v
      /\ Unset(i, path) => GetPath(docs'[i], path) = Missing
      /\ Unset(i, path) \/ (\E v \in Values : Set(i, path, v)) =>
           \A other \in Paths :
             ~Related(path, other) => GetPath(docs'[i], other) = GetPath(docs[i], other)
<1>1. ASSUME NEW i \in DOMAIN docs, NEW path \in Paths PROVE Independent(i, path)
  <2>1. path \in Seq(Name) /\ path # << >> /\ Len(path) \in Nat
    BY PathsAreNames
  <2>2. ASSUME NEW v, Set(i, path, v) PROVE docs'[i] = SetPath(docs[i], path, v)
    BY <2>2 DEF Set
  <2>3. ASSUME Unset(i, path) PROVE docs'[i] = DelPath(docs[i], path)
    BY <2>3 DEF Unset
  <2>4. ASSUME NEW v, Set(i, path, v) PROVE GetPath(docs'[i], path) = v
    BY <2>1, <2>2, <2>4, SetThere
  <2>5. ASSUME Unset(i, path) PROVE GetPath(docs'[i], path) = Missing
    BY <2>1, <2>3, <2>5, DelThere
  <2>6. ASSUME NEW other \in Paths, ~Related(path, other),
               Unset(i, path) \/ \E v \in Values : Set(i, path, v)
        PROVE  GetPath(docs'[i], other) = GetPath(docs[i], other)
    <3>1. other \in Seq(Name) /\ Len(other) \in Nat
      BY PathsAreNames
    <3>2. PICK m \in Nat : Apart(path, other, m)
      BY <2>1, <2>6, <3>1, PathsPart
    <3>3. Len(other) \in m .. Len(other)
      BY <3>1, <3>2 DEF Apart
    <3>4. CASE Unset(i, path)
      BY <2>1, <2>3, <3>1, <3>2, <3>3, <3>4, DelElsewhere DEF GetPath
    <3>5. ASSUME NEW v \in Values, Set(i, path, v)
          PROVE  GetPath(docs'[i], other) = GetPath(docs[i], other)
      BY <2>1, <2>2, <3>1, <3>2, <3>3, <3>5, SetElsewhere DEF GetPath
    <3> QED BY <2>6, <3>4, <3>5
  <2> QED BY <2>4, <2>5, <2>6
<1>2. [\A i \in DOMAIN docs, path \in Paths : Independent(i, path)]_vars
  BY <1>1
<1> QED BY <1>2, PTL DEF PathsIndependent, Spec
=============================================================================
