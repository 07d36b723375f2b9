----------------------------- MODULE QueryFind ------------------------------
(***************************************************************************)
(* A collection whose documents are inserted and updated by set_path and   *)
(* del_path, and finds over it: matches, sort_documents and project of     *)
(* src/engine.py one after the other, as find, count and aggregate put     *)
(* them together.  The collection itself is external.                      *)
(***************************************************************************)
EXTENDS QueryEngine

CONSTANTS
  Json,      \* the values documents are made of, with all they hold
  Ids,       \* the identifiers documents get, in their order
  Contents,  \* mappings that are inserted
  Paths,     \* the paths updates name, and the properties look at
  Values,    \* the values updates set
  Requests,  \* finds: [query |-> q, sort |-> keys, fields |-> paths]
  MaxUpdated \* updates are tried while there are at most that many documents

ASSUME MaxUpdatedAssumption == MaxUpdated \in Nat

(* A value of one kind; the texts of the strings have their place.         *)
WellFormed(value) ==
  \/ value = Null
  \/ Is(value, "num") /\ value = [num |-> value.num] /\ value.num \in Int
  \/ Is(value, "str") /\ value = [str |-> value.str] /\ value \in ToSet(TextOrder)
  \/ Is(value, "list") /\ value = [list |-> value.list] /\ DOMAIN value.list \subseteq Nat
  \/ Is(value, "dict") /\ value = [dict |-> [n \in DOMAIN value.dict |-> value.dict[n]]]

(* Values with all they hold.  The text of a number begins with a digit or *)
(* a sign, and so comes before None.                                       *)
Closed(values) ==
  \A v \in values :
    /\ WellFormed(v)
    /\ Is(v, "num") => TextBefore(v, Null)
    /\ Is(v, "dict") => \A n \in DOMAIN v.dict : v.dict[n] \in values

ASSUME JsonAssumption ==
  /\ Closed(Json) /\ Values \subseteq Json
  /\ Contents \subseteq Json /\ \A content \in Contents : Is(content, "dict")
ASSUME TextAssumption == TextOrder \in Seq(Json) /\ IsInjective(TextOrder)
ASSUME IdsAssumption ==
  /\ Ids \in Seq(STRING) /\ IsInjective(Ids)
  /\ \A i \in DOMAIN Ids : [str |-> Ids[i]] \in Json
(* Updates leave the identifier alone.                                     *)
ASSUME PathsAssumption ==
  \A path \in Paths : path \in Seq(STRING) /\ path # << >> /\ Head(path) # "_id"
(* An item of a query; the three that hold sequences hold them.            *)
IsItem(item) ==
  /\ \/ {"and", "or", "not", "malformed"} \intersect DOMAIN item # {}
     \/ {"equals", "tests"} \intersect DOMAIN item # {} /\ item.field \in Seq(STRING)
  /\ \A part \in {"and", "or", "tests"} \intersect DOMAIN item : DOMAIN item[part] \subseteq Nat

ASSUME QueriesAssumption ==
  \A query \in Queries : DOMAIN query \subseteq Nat /\ \A i \in DOMAIN query : IsItem(query[i])
ASSUME RequestsAssumption ==
  \A request \in Requests :
    /\ request.query \in Queries
    /\ request.fields \in Seq(Seq(STRING) \ {<< >>})
    /\ request.sort \in Seq([field : Seq(STRING), direction : {"asc", "desc"}])

VARIABLES
  docs,   \* the documents, in the order of insertion
  answer  \* the find under way: its request, the documents found, the rows

vars == <<docs, answer>>

NoAnswer == [asked |-> FALSE]

Init == docs = << >> /\ answer = NoAnswer

(* One call at a time, as the lock of the engine makes it.                 *)
Insert(content) ==
  /\ ~answer.asked /\ Len(docs) < Len(Ids)
  /\ docs' = Append(docs, With(content, "_id", [str |-> Ids[Len(docs) + 1]]))
  /\ UNCHANGED answer

Set(i, path, value) ==
  /\ ~answer.asked /\ Len(docs) <= MaxUpdated
  /\ docs' = [docs EXCEPT ![i] = SetPath(@, path, value)]
  /\ UNCHANGED answer

Unset(i, path) ==
  /\ ~answer.asked /\ Len(docs) <= MaxUpdated
  /\ docs' = [docs EXCEPT ![i] = DelPath(@, path)]
  /\ UNCHANGED answer

Find(request) ==
  LET found == SortDocuments(Matched(docs, request.query), request.sort)
  IN  /\ ~answer.asked
      /\ answer' = IF \E i \in DOMAIN docs : Matches(docs[i], request.query) = "raises"
                     THEN [asked |-> TRUE, raised |-> TRUE, request |-> request]
                     ELSE [asked |-> TRUE, raised |-> FALSE, request |-> request, found |-> found,
                           rows |-> [k \in DOMAIN found |-> Project(found[k], request.fields)]]
      /\ UNCHANGED docs

Return ==
  /\ answer.asked
  /\ answer' = NoAnswer
  /\ UNCHANGED docs

Next ==
  \/ \E content \in Contents : Insert(content)
  \/ \E i \in DOMAIN docs, path \in Paths : Unset(i, path) \/ \E v \in Values : Set(i, path, v)
  \/ (\E request \in Requests : Find(request)) \/ Return

Spec == Init /\ [][Next]_vars

----------------------------------------------------------------------------
(* The meaning of a query, as an algebra of sets of documents.             *)

Key(value) ==
  CASE Is(value, "num") -> value.num
    [] Is(value, "str") -> CHOOSE i \in DOMAIN TextOrder : TextOrder[i] = value

OneKind(a, b) == \E kind \in {"num", "str"} : Is(a, kind) /\ Is(b, kind)

Elements(value) == IF Is(value, "list") THEN Items(value) ELSE {value} \ {Missing}

(* The documents whose value at the path passes a test.                    *)
Passing(D, path, operator, e) ==
  LET At(Good(_)) == {d \in D : Good(GetPath(d, path))}
      Above   == At(LAMBDA v : OneKind(v, e) /\ Key(v) > Key(e))
      Below   == At(LAMBDA v : OneKind(v, e) /\ Key(v) < Key(e))
      Equal   == At(LAMBDA v : v = e)
      Sharing == At(LAMBDA v : Elements(v) \intersect Items(e) # {})
  IN  CASE operator = "$eq"  -> Equal
        [] operator = "$ne"  -> D \ Equal
        [] operator = "$gt"  -> Above
        [] operator = "$gte" -> Above \union Equal
        [] operator = "$lt"  -> Below
        [] operator = "$lte" -> Below \union Equal
        [] operator = "$in"  -> Sharing
        [] operator = "$nin" -> D \ Sharing
        [] operator = "$all" -> At(LAMBDA v : Is(v, "list") /\ Items(e) \subseteq Elements(v))
        [] operator = "$exists" ->
             LET there == At(LAMBDA v : v # Missing) IN IF e \in Falsy THEN D \ there ELSE there

(* Whether a document of D is one that an item means.                      *)
Meant(means, D, d, item) ==
  IF "and" \in DOMAIN item THEN \A k \in DOMAIN item.and : d \in means[item.and[k]]
  ELSE IF "or" \in DOMAIN item THEN \E k \in DOMAIN item.or : d \in means[item.or[k]]
  ELSE IF "not" \in DOMAIN item THEN d \in D \ means[item.not]
  ELSE IF "malformed" \in DOMAIN item THEN FALSE
  ELSE IF "equals" \in DOMAIN item THEN d \in Passing(D, item.field, "$eq", item.equals)
  ELSE \A k \in DOMAIN item.tests :
         d \in Passing(D, item.field, item.tests[k][1], item.tests[k][2])

Meanings(D) ==
  LET means[query \in Queries] ==
        {d \in D : \A i \in DOMAIN query : Meant(means, D, d, query[i])}
  IN  means

Meaning(D, query) == Meanings(D)[query]

(* The operators the algebra speaks of, with operands of the kind they are *)
(* for.  Elsewhere a TypeError may end a test before it is decided.        *)
Fits(operator, e) ==
  /\ WellFormed(e)
  /\ \/ operator \in {"$eq", "$ne", "$exists"}
     \/ operator \in {"$in", "$nin", "$all"} /\ Is(e, "list")
     \/ operator \in {"$gt", "$gte", "$lt", "$lte"} /\ (Is(e, "num") \/ Is(e, "str"))

Fitting(item) ==
  "tests" \in DOMAIN item =>
    \A k \in DOMAIN item.tests : Fits(item.tests[k][1], item.tests[k][2])

AllFitting ==
  LET fitting[query \in Queries] ==
        /\ \A q \in SubQueries(query) : fitting[q]
        /\ \A i \in DOMAIN query : Fitting(query[i])
  IN  fitting

Regular == {query \in Queries : AllFitting[query]}

----------------------------------------------------------------------------
(* Properties.                                                             *)

Answered == answer.asked /\ ~answer.raised

(* Documents are mappings; a find returns one row, with the identifier,    *)
(* for every document found.                                               *)
TypeOK ==
  /\ Len(docs) <= Len(Ids) /\ \A i \in DOMAIN docs : Is(docs[i], "dict")
  /\ Answered =>
       /\ ToSet(answer.found) \subseteq ToSet(docs)
       /\ DOMAIN answer.rows = DOMAIN answer.found
       /\ \A k \in DOMAIN answer.rows :
            GetPath(answer.rows[k], <<"_id">>) = GetPath(answer.found[k], <<"_id">>)

(* The place of a document by one sort key: numbers first, in their order, *)
(* then null, then the documents without the field.                        *)
Place(d, path) ==
  LET v == GetPath(d, path)
  IN  CASE v = Missing -> <<2, 0>> [] v = Null -> <<1, 0>> [] OTHER -> <<0, Key(v)>>

Earlier(l, r, key) ==
  LET a == Place(l, key.field)  b == Place(r, key.field)
      less(x, y) == x[1] < y[1] \/ (x[1] = y[1] /\ x[2] < y[2])
  IN  IF key.direction = "desc" THEN less(b, a) ELSE less(a, b)

(* A column that holds numbers and nulls, or strings, where it is set.     *)
Sortable(sort) ==
  \A i \in DOMAIN sort :
    LET column == {GetPath(docs[k], sort[i].field) : k \in DOMAIN docs} \ {Missing}
    IN  (\A v \in column : v = Null \/ Is(v, "num")) \/ (\A v \in column : Is(v, "str"))

InOrder(l, r, sort) ==
  \/ \E i \in DOMAIN sort :
       /\ Earlier(l, r, sort[i])
       /\ \A k \in 1 .. i - 1 : ~Earlier(l, r, sort[k]) /\ ~Earlier(r, l, sort[k])
  \/ /\ \A i \in DOMAIN sort : ~Earlier(l, r, sort[i]) /\ ~Earlier(r, l, sort[i])
     /\ \E i, k \in DOMAIN docs : i < k /\ docs[i] = l /\ docs[k] = r

(* A find returns the documents its query means, every one once: negation  *)
(* is the complement also for missing fields, values of other kinds and    *)
(* lists, and stopping early changes nothing.  They come in the order of   *)
(* the sort keys, and of insertion where these do not tell.                *)
RowsAsAsked ==
  Answered /\ answer.request.query \in Regular =>
    /\ ToSet(answer.found) = Meaning(ToSet(docs), answer.request.query)
    /\ IsInjective(answer.found)
    /\ Sortable(answer.request.sort) =>
         \A i, k \in DOMAIN answer.found :
           i < k => InOrder(answer.found[i], answer.found[k], answer.request.sort)

(* A row shows at every path below one that was asked for what the         *)
(* document holds there, a mapping at most above it, and nothing elsewhere,*)
(* in whatever order and however nested the paths were given.              *)
ProjectionFaithful ==
  Answered /\ answer.request.fields # << >> =>
    \A k \in DOMAIN answer.rows, path \in Paths :
      LET asked == ToSet(answer.request.fields) \union {<<"_id">>}
          shown == GetPath(answer.rows[k], path)
      IN  IF \E f \in asked : IsPrefix(f, path) THEN shown = GetPath(answer.found[k], path)
          ELSE IF \E f \in asked : IsPrefix(path, f) THEN shown = Missing \/ Is(shown, "dict")
          ELSE shown = Missing

Related(p, q) == IsPrefix(p, q) \/ IsPrefix(q, p)

(* An update changes what it names and nothing beside it: after set_path   *)
(* the path leads to the value, after del_path nowhere, and every path     *)
(* that is neither above nor below leads where it led.                     *)
PathsIndependent ==
  [][\A i \in DOMAIN docs, path \in Paths :
       /\ \A v \in Values : Set(i, path, v) => GetPath(docs'[i], path) = v
       /\ Unset(i, path) => GetPath(docs'[i], path) = Missing
       /\ Unset(i, path) \/ (\E v \in Values : Set(i, path, v)) =>
            \A other \in Paths :
              ~Related(path, other) => GetPath(docs'[i], other) = GetPath(docs[i], other)]_vars
=============================================================================
