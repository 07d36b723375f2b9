---------------------------- MODULE IndexProofs ----------------------------
(***************************************************************************)
(* Proofs about IndexManager: its type, and that every index of an open    *)
(* database is the one a rebuild from its documents would give, whatever   *)
(* the values are.  Lookups, uniqueness and reopening follow for values    *)
(* the keys tell apart.                                                    *)
(***************************************************************************)
EXTENDS IndexManager, TLAPS

----------------------------------------------------------------------------
(* Keys.                                                                   *)

LEMMA NameDomain ==
  ASSUME NEW n \in Names
  PROVE  Len(n) \in Nat /\ Len(n) > 0 /\ DOMAIN n = 1 .. Len(n) /\ n \in Seq(Fields)
BY NamesAssumption

(* The fields of a document that has all of them.                          *)
LEMMA FieldValuesType ==
  ASSUME NEW n \in Names, NEW doc \in Documents, \A i \in DOMAIN n : doc[n[i]] # Missing
  PROVE  FieldValues(n, doc) \in [DOMAIN n -> Values]
<1>1. \A i \in DOMAIN n : n[i] \in Fields
  BY NameDomain
<1> QED
  BY <1>1 DEF FieldValues, Documents

(* A key is the sequence of the classes, or that of the reprs.             *)
LEMMA KeyOf ==
  ASSUME NEW n \in Names, NEW vs \in [DOMAIN n -> Values]
  PROVE  /\ (\A i \in DOMAIN n : vs[i].hashable) => Key(vs) = [i \in DOMAIN n |-> vs[i].class]
         /\ ~(\A i \in DOMAIN n : vs[i].hashable) =>
              IF Len(n) = 1
                THEN Key(vs) = [i \in DOMAIN n |-> vs[i].text]
                ELSE Key(vs) = [i \in DOMAIN n |-> vs[i].text] \o <<"tuple">>
<1>1. DOMAIN vs = 1 .. Len(n) /\ Len(n) \in Nat /\ DOMAIN n = 1 .. Len(n)
  BY NameDomain
<1>2. vs \in Seq(Values) /\ Len(vs) = Len(n)
  BY <1>1
<1>3. [i \in DOMAIN n |-> vs[i].text] \in Seq({vs[i].text : i \in DOMAIN n})
  BY <1>1
<1>4. [i \in DOMAIN n |-> vs[i].text] \o << >> = [i \in DOMAIN n |-> vs[i].text]
  BY <1>3
<1> QED
  BY <1>1, <1>2, <1>4 DEF Key

(* What ToldApart says of values of an index, case by case.                *)
LEMMA ToldCases ==
  ASSUME NEW vs, NEW ws, ToldApart(vs, ws)
  PROVE  LET Hashable(us) == \A i \in DOMAIN us : us[i].hashable
         IN  /\ ~Hashable(vs) /\ ~Hashable(ws) =>
                  (Equal(vs, ws) => \A i \in DOMAIN vs : vs[i].text = ws[i].text)
             /\ Hashable(vs) # Hashable(ws) =>
                  (Len(vs) = 1 => vs[1].text # ws[1].class /\ vs[1].class # ws[1].text)
<1> DEFINE Hashable(us) == \A i \in DOMAIN us : us[i].hashable
<1>1. CASE Hashable(vs) /\ Hashable(ws)
  BY <1>1
<1>2. CASE ~Hashable(vs) /\ ~Hashable(ws)
  BY <1>2 DEF ToldApart
<1>3. CASE Hashable(vs) # Hashable(ws)
  BY <1>3 DEF ToldApart
<1> QED
  BY <1>1, <1>2, <1>3

(* Values the keys tell apart have one key in an index if and only if they *)
(* are equal.                                                              *)
LEMMA KeyEqual ==
  ASSUME NEW n \in Names, NEW vs \in [DOMAIN n -> Values],
         NEW ws \in [DOMAIN n -> Values], ToldApart(vs, ws)
  PROVE  Key(vs) = Key(ws) <=> Equal(vs, ws)
<1> DEFINE AllHashable(us) == \A i \in DOMAIN n : us[i].hashable
           Texts1(us) == [i \in DOMAIN n |-> us[i].text]
<1>1. Len(n) \in Nat /\ Len(n) > 0 /\ DOMAIN n = 1 .. Len(n) /\ 1 \in DOMAIN n
  BY NameDomain
<1>2. Equal(vs, ws) => (AllHashable(vs) <=> AllHashable(ws))
  BY ValuesAssumption DEF Equal
<1>3. ~AllHashable(vs) /\ ~AllHashable(ws) => (Equal(vs, ws) <=> Texts1(vs) = Texts1(ws))
  <2>1. Texts1(vs) = Texts1(ws) => Equal(vs, ws)
    BY ValuesAssumption DEF Equal
  <2>2. ASSUME ~AllHashable(vs), ~AllHashable(ws), Equal(vs, ws)
        PROVE  \A i \in DOMAIN n : vs[i].text = ws[i].text
    <3>1. DOMAIN vs = DOMAIN n /\ DOMAIN ws = DOMAIN n
      OBVIOUS
    <3>2. (\E i \in DOMAIN vs : ~vs[i].hashable) /\ (\E i \in DOMAIN ws : ~ws[i].hashable)
      BY <2>2, <3>1
    <3> QED
      BY <2>2, <3>1, <3>2, ToldCases
  <2> QED
    BY <2>1, <2>2
<1>4. Equal(vs, ws) <=> [i \in DOMAIN n |-> vs[i].class] = [i \in DOMAIN n |-> ws[i].class]
  BY DEF Equal
<1>5. CASE AllHashable(vs) /\ AllHashable(ws)
  BY <1>4, <1>5, KeyOf
<1>6. CASE ~AllHashable(vs) /\ ~AllHashable(ws)
  <2>1. CASE Len(n) = 1
    BY <1>3, <1>6, <2>1, KeyOf
  <2>2. CASE Len(n) # 1
    <3>1. Key(vs) = Texts1(vs) \o <<"tuple">> /\ Key(ws) = Texts1(ws) \o <<"tuple">>
      BY <1>6, <2>2, KeyOf
    <3>2. Texts1(vs) \o <<"tuple">> = Texts1(ws) \o <<"tuple">> => Texts1(vs) = Texts1(ws)
      <4> DEFINE T == {vs[i].text : i \in DOMAIN n} \union {ws[i].text : i \in DOMAIN n}
      <4>1. /\ Texts1(vs) \in Seq(T) /\ Len(Texts1(vs)) = Len(n)
            /\ Texts1(ws) \in Seq(T) /\ Len(Texts1(ws)) = Len(n)
        BY <1>1
      <4> HIDE DEF Texts1
      <4>2. /\ \A i \in 1 .. Len(n) : (Texts1(vs) \o <<"tuple">>)[i] = Texts1(vs)[i]
            /\ \A i \in 1 .. Len(n) : (Texts1(ws) \o <<"tuple">>)[i] = Texts1(ws)[i]
        BY <1>1, <4>1
      <4> QED
        BY <1>1, <4>1, <4>2
    <3> QED
      BY <1>3, <1>6, <3>1, <3>2
  <2> QED
    BY <2>1, <2>2
<1>7. ASSUME NEW as \in [DOMAIN n -> Values], NEW bs \in [DOMAIN n -> Values],
             AllHashable(as), ~AllHashable(bs),
             Len(n) = 1 => bs[1].text # as[1].class
      PROVE  Key(as) # Key(bs)
  <2>1. Key(as) = [i \in DOMAIN n |-> as[i].class]
    BY <1>7, KeyOf
  <2>2. CASE Len(n) = 1
    <3>0. \A i \in DOMAIN n : i = 1
      BY <1>1, <2>2
    <3>1. Key(bs) = Texts1(bs) /\ ~bs[1].hashable
      <4>1. ~bs[1].hashable
        BY <1>7, <3>0
      <4> QED
        BY <1>7, <2>2, <4>1, KeyOf
    <3>2. bs[1].text # as[1].class
      BY <1>7, <2>2
    <3> QED
      BY ZenonT(40), <1>1, <2>1, <3>1, <3>2
  <2>3. CASE Len(n) # 1
    <3>1. Key(bs) = Texts1(bs) \o <<"tuple">>
      BY <1>7, <2>3, KeyOf
    <3>2. Texts1(bs) \in Seq({bs[i].text : i \in DOMAIN n}) /\ Len(Texts1(bs)) = Len(n)
      BY <1>1
    <3> HIDE DEF Texts1
    <3>3. DOMAIN Key(bs) = 1 .. Len(n) + 1
      BY <1>1, <3>1, <3>2
    <3>4. DOMAIN Key(as) = 1 .. Len(n)
      BY <1>1, <2>1
    <3>5. Len(n) + 1 \in 1 .. Len(n) + 1 /\ Len(n) + 1 \notin 1 .. Len(n)
      BY <1>1
    <3> QED
      BY <3>3, <3>4, <3>5
  <2> QED
    BY <2>2, <2>3
<1>8. CASE AllHashable(vs) # AllHashable(ws)
  <2>1. Len(vs) = Len(n)
    BY <1>1
  <2>2. Len(n) = 1 => vs[1].text # ws[1].class /\ vs[1].class # ws[1].text
    BY <1>8, <2>1, ToldCases
  <2>3. Key(vs) # Key(ws)
    BY <1>7, <1>8, <2>2
  <2> QED
    BY <1>2, <1>8, <2>3
<1> QED
  BY <1>5, <1>6, <1>8

----------------------------------------------------------------------------
(* The inductive invariant: every index is what filling it again from the  *)
(* documents would make of it, and filling a unique one would not raise.   *)

Entries(n, ids, docs) == UNION {Keys(n, docs[id]) \X {id} : id \in ids}

DistinctKeys(n, ids, docs) ==
  \A a, b \in ids : a # b => Keys(n, docs[a]) \intersect Keys(n, docs[b]) = {}

Exact(ix, n, ids, docs) ==
  /\ DOMAIN ix = {"unique", "entries"} /\ ix.entries = Entries(n, ids, docs)
  /\ ix.unique => DistinctKeys(n, ids, docs)

IndexInv ==
  /\ stored \subseteq Ids /\ documents \in [Ids -> Documents]
  /\ DOMAIN indexes \subseteq Names
  /\ mode = "open" => \A n \in DOMAIN indexes : Exact(indexes[n], n, stored, documents)

LEMMA EntryOf ==
  ASSUME NEW n, NEW ids, NEW docs, NEW k, NEW id
  PROVE  <<k, id>> \in Entries(n, ids, docs) <=> id \in ids /\ k \in Keys(n, docs[id])
BY DEF Entries

(* Adding a document that is validated, and was not in the index.          *)
LEMMA AddExact ==
  ASSUME NEW ix, NEW n, NEW ids, NEW docs, Exact(ix, n, ids, docs), NEW id \in Ids \ ids,
         NEW doc, NEW docs2, docs2[id] = doc, \A a \in ids : docs2[a] = docs[a],
         ix.unique => \A a \in ids : Keys(n, docs[a]) \intersect Keys(n, doc) = {}
  PROVE  Exact(Added(ix, n, id, doc), n, ids \union {id}, docs2)
<1> DEFINE r == Added(ix, n, id, doc)
<1>1. /\ DOMAIN r = {"unique", "entries"} /\ r.unique = ix.unique
      /\ r.entries = Entries(n, ids, docs) \union (Keys(n, doc) \X {id})
  BY DEF Added, Exact
<1>2. r.entries = Entries(n, ids \union {id}, docs2)
  BY <1>1 DEF Entries
<1>3. ASSUME r.unique PROVE DistinctKeys(n, ids \union {id}, docs2)
  <2>1. DistinctKeys(n, ids, docs) /\ \A a \in ids : Keys(n, docs[a]) \intersect Keys(n, doc) = {}
    BY <1>1, <1>3 DEF Exact
  <2> QED
    BY <2>1 DEF DistinctKeys
<1> QED
  BY <1>1, <1>2, <1>3 DEF Exact

(* Removing one leaves the others.                                         *)
LEMMA RemoveExact ==
  ASSUME NEW ix, NEW n, NEW ids, NEW docs, Exact(ix, n, ids, docs), NEW id \in ids, NEW docs2,
         \A a \in ids \ {id} : docs2[a] = docs[a]
  PROVE  Exact(Removed(ix, n, id, docs[id]), n, ids \ {id}, docs2)
<1> DEFINE r == Removed(ix, n, id, docs[id])
<1>1. /\ DOMAIN r = {"unique", "entries"} /\ r.unique = ix.unique
      /\ r.entries = Entries(n, ids, docs) \ (Keys(n, docs[id]) \X {id})
  BY DEF Removed, Exact
<1>2. r.entries = Entries(n, ids \ {id}, docs2)
  BY <1>1 DEF Entries
<1>3. ASSUME r.unique PROVE DistinctKeys(n, ids \ {id}, docs2)
  <2>1. DistinctKeys(n, ids, docs)
    BY <1>1, <1>3 DEF Exact
  <2> QED
    BY <2>1 DEF DistinctKeys
<1> QED
  BY <1>1, <1>2, <1>3 DEF Exact

(* What preflight validation gives: no other document has one of the keys. *)
LEMMA PreflightGives ==
  ASSUME IndexInv, mode = "open", NEW id, NEW doc, Preflight(id, doc), NEW n \in DOMAIN indexes,
         indexes[n].unique, NEW a \in stored \ {id}
  PROVE  Keys(n, documents[a]) \intersect Keys(n, doc) = {}
<1> SUFFICES ASSUME NEW k \in Keys(n, documents[a]), k \in Keys(n, doc) PROVE FALSE
  OBVIOUS
<1>1. <<k, a>> \in indexes[n].entries
  BY EntryOf DEF IndexInv, Exact
<1> QED
  BY <1>1 DEF Preflight, Duplicate

(* Documents that are read back are documents.                             *)
LEMMA ReadBackType ==
  ASSUME NEW docs \in [Ids -> Documents]
  PROVE  ReadBack(docs) \in [Ids -> Documents]
<1>1. ASSUME NEW id \in Ids, NEW f \in Fields
      PROVE  [docs[id][f] EXCEPT !.text = docs[id][f].stored] \in Values \union {Missing}
  <2>1. docs[id][f] \in Values \union {Missing}
    BY DEF Documents
  <2>2. CASE docs[id][f] = Missing
    BY <2>2 DEF Missing, Value
  <2>3. CASE docs[id][f] \in Values
    BY <2>3, ValuesAssumption
  <2> QED
    BY <2>1, <2>2, <2>3
<1> QED
  BY <1>1 DEF ReadBack, Documents

----------------------------------------------------------------------------
(* Every step keeps the invariant.                                         *)

LEMMA InitIndex == Init => IndexInv
BY DEF Init, IndexInv, NoDocument, Documents

LEMMA InsertExact ==
  ASSUME IndexInv, NEW id \in Ids, NEW doc \in Documents, Insert(id, doc)
  PROVE  IndexInv'
<1>1. /\ stored' = stored \union {id} /\ documents' = [documents EXCEPT ![id] = doc]
      /\ indexes' = [n \in DOMAIN indexes |-> Added(indexes[n], n, id, doc)]
      /\ mode' = "open" /\ mode = "open" /\ id \notin stored /\ Preflight(id, doc)
  BY DEF Insert
<1>2. documents' \in [Ids -> Documents] /\ stored' \subseteq Ids
  BY <1>1 DEF IndexInv
<1>3. ASSUME NEW n \in DOMAIN indexes
      PROVE  Exact(Added(indexes[n], n, id, doc), n, stored', documents')
  <2>1. documents'[id] = doc /\ \A a \in stored : documents'[a] = documents[a]
    BY <1>1 DEF IndexInv
  <2>2. indexes[n].unique =>
          \A a \in stored : Keys(n, documents[a]) \intersect Keys(n, doc) = {}
    BY <1>1, PreflightGives
  <2>3. Exact(indexes[n], n, stored, documents)
    BY <1>1 DEF IndexInv
  <2> QED
    BY <1>1, <2>1, <2>2, <2>3, AddExact
<1> QED
  BY <1>1, <1>2, <1>3 DEF IndexInv

LEMMA UpdateExact ==
  ASSUME IndexInv, NEW id \in Ids, NEW doc \in Documents, Update(id, doc)
  PROVE  IndexInv'
<1>1. /\ stored' = stored /\ documents' = [documents EXCEPT ![id] = doc]
      /\ indexes' = [n \in DOMAIN indexes |->
           Added(Removed(indexes[n], n, id, documents[id]), n, id, doc)]
      /\ mode' = "open" /\ mode = "open" /\ id \in stored /\ Preflight(id, doc)
  BY DEF Update
<1>2. documents' \in [Ids -> Documents]
  BY <1>1 DEF IndexInv
<1>3. ASSUME NEW n \in DOMAIN indexes
      PROVE  Exact(Added(Removed(indexes[n], n, id, documents[id]), n, id, doc), n, stored,
                   documents')
  <2> DEFINE ix == Removed(indexes[n], n, id, documents[id])
  <2>1. documents'[id] = doc /\ \A a \in stored \ {id} : documents'[a] = documents[a]
    BY <1>1 DEF IndexInv
  <2>2. Exact(ix, n, stored \ {id}, documents)
    BY <1>1, RemoveExact DEF IndexInv
  <2>3. ix.unique = indexes[n].unique
    BY <1>1 DEF Removed, IndexInv, Exact
  <2>4. ix.unique =>
          \A a \in stored \ {id} : Keys(n, documents[a]) \intersect Keys(n, doc) = {}
    BY <1>1, <2>3, PreflightGives
  <2>5. Exact(Added(ix, n, id, doc), n, (stored \ {id}) \union {id}, documents')
    <3> HIDE DEF ix
    <3> QED
      BY <2>1, <2>2, <2>4, AddExact
  <2>6. (stored \ {id}) \union {id} = stored
    BY <1>1
  <2> QED
    BY <2>5, <2>6
<1> QED
  BY <1>1, <1>2, <1>3 DEF IndexInv

LEMMA DeleteExact ==
  ASSUME IndexInv, NEW id \in Ids, Delete(id)
  PROVE  IndexInv'
<1>1. /\ stored' = stored \ {id} /\ documents' = [documents EXCEPT ![id] = NoDocument]
      /\ indexes' = [n \in DOMAIN indexes |-> Removed(indexes[n], n, id, documents[id])]
      /\ mode' = "open" /\ mode = "open" /\ id \in stored
  BY DEF Delete
<1>2. documents' \in [Ids -> Documents] /\ stored' \subseteq Ids
  BY <1>1 DEF IndexInv, NoDocument, Documents
<1>3. ASSUME NEW n \in DOMAIN indexes
      PROVE  Exact(Removed(indexes[n], n, id, documents[id]), n, stored', documents')
  <2>1. \A a \in stored \ {id} : documents'[a] = documents[a]
    BY <1>1 DEF IndexInv
  <2> QED
    BY <1>1, <2>1, RemoveExact DEF IndexInv
<1> QED
  BY <1>1, <1>2, <1>3 DEF IndexInv

(* A new index that could be filled.                                       *)
LEMMA FilledExact ==
  ASSUME NEW n, NEW unique, NEW docs, ~FillFails(n, unique, docs)
  PROVE  Exact(Filled(n, unique, docs), n, stored, docs)
BY DEF Exact, Filled, FillFails, Entries, DistinctKeys

LEMMA CreateExact ==
  ASSUME IndexInv, NEW n \in Names, NEW unique \in BOOLEAN, Create(n, unique)
  PROVE  IndexInv'
<1>1. stored' = stored /\ documents' = documents /\ mode' = mode /\ mode = "open"
  BY DEF Create
<1>2. CASE n \in DOMAIN indexes
  BY <1>1, <1>2 DEF Create, IndexInv
<1>3. CASE n \notin DOMAIN indexes
  <2>1. /\ ~FillFails(n, unique, documents)
        /\ indexes' = [m \in DOMAIN indexes \union {n} |->
             IF m = n THEN Filled(n, unique, documents) ELSE indexes[m]]
    BY <1>3 DEF Create
  <2>2. Exact(Filled(n, unique, documents), n, stored, documents)
    BY <2>1, FilledExact
  <2>3. \A m \in DOMAIN indexes' : Exact(indexes'[m], m, stored, documents)
    BY <1>1, <2>1, <2>2 DEF IndexInv
  <2> QED
    BY <1>1, <2>1, <2>3 DEF IndexInv
<1> QED
  BY <1>2, <1>3

(* Opened or refused: the indexes of an open database were filled anew.    *)
LEMMA ReopenExact ==
  ASSUME IndexInv, Reopen
  PROVE  IndexInv'
<1>1. /\ documents' = ReadBack(documents) /\ stored' = stored
      /\ documents' \in [Ids -> Documents] /\ stored' \subseteq Ids
  BY ReadBackType DEF Reopen, IndexInv
<1>2. CASE \E n \in DOMAIN indexes : FillFails(n, indexes[n].unique, ReadBack(documents))
  BY <1>1, <1>2 DEF Reopen, IndexInv
<1>3. CASE \A n \in DOMAIN indexes : ~FillFails(n, indexes[n].unique, ReadBack(documents))
  <2>1. indexes' = [n \in DOMAIN indexes |->
                     Filled(n, indexes[n].unique, ReadBack(documents))]
    BY <1>3 DEF Reopen
  <2>2. ASSUME NEW n \in DOMAIN indexes
        PROVE  Exact(Filled(n, indexes[n].unique, documents'), n, stored', documents')
    BY <1>1, <1>3, FilledExact
  <2> QED
    BY <1>1, <2>1, <2>2 DEF IndexInv
<1> QED
  BY <1>2, <1>3

LEMMA NextIndex == IndexInv /\ [Next]_vars => IndexInv'
<1> SUFFICES ASSUME IndexInv, [Next]_vars PROVE IndexInv'
  OBVIOUS
<1>1. ASSUME NEW id \in Ids, NEW doc \in Documents, Insert(id, doc) PROVE IndexInv'
  BY <1>1, InsertExact
<1>2. ASSUME NEW id \in Ids, NEW doc \in Documents, Update(id, doc) PROVE IndexInv'
  BY <1>2, UpdateExact
<1>3. ASSUME NEW id \in Ids, Delete(id) PROVE IndexInv'
  BY <1>3, DeleteExact
<1>4. ASSUME NEW n \in Names, NEW unique \in BOOLEAN, Create(n, unique) PROVE IndexInv'
  BY <1>4, CreateExact
<1>5. ASSUME NEW n \in Names, Drop(n) PROVE IndexInv'
  BY <1>5 DEF Drop, IndexInv
<1>6. CASE Reopen
  BY <1>6, ReopenExact
<1>7. CASE UNCHANGED vars
  BY <1>7 DEF vars, IndexInv
<1> QED
  BY <1>1, <1>2, <1>3, <1>4, <1>5, <1>6, <1>7 DEF Next

LEMMA IndexesExact == Spec => []IndexInv
BY InitIndex, NextIndex, PTL DEF Spec

----------------------------------------------------------------------------
(* What follows from it.                                                   *)

(* A document has the key of some values if and only if it equals them: a  *)
(* missing field equals no value.                                          *)
LEMMA KeyOfEqual ==
  ASSUME NEW n \in Names, NEW doc \in Documents, NEW vs \in [DOMAIN n -> Values],
         ToldApart(FieldValues(n, doc), vs)
  PROVE  Key(vs) \in Keys(n, doc) <=> Equal(FieldValues(n, doc), vs)
<1>1. DOMAIN FieldValues(n, doc) = DOMAIN n
  BY DEF FieldValues
<1>2. CASE \E i \in DOMAIN n : doc[n[i]] = Missing
  <2>1. PICK i \in DOMAIN n : FieldValues(n, doc)[i].class = Missing.class
    BY <1>2 DEF FieldValues
  <2>2. vs[i].class # Missing.class
    BY ValuesAssumption
  <2> QED
    BY <1>1, <1>2, <2>1, <2>2 DEF Keys, Equal
<1>3. CASE \A i \in DOMAIN n : doc[n[i]] # Missing
  <2>1. FieldValues(n, doc) \in [DOMAIN n -> Values]
    BY <1>3, FieldValuesType
  <2>2. Key(FieldValues(n, doc)) = Key(vs) <=> Equal(FieldValues(n, doc), vs)
    BY <2>1, KeyEqual
  <2>3. Keys(n, doc) = {Key(FieldValues(n, doc))}
    BY <1>3 DEF Keys
  <2> QED
    BY <2>2, <2>3
<1> QED
  BY <1>2, <1>3

LEMMA InvLookup == ASSUME IndexInv PROVE LookupMatchesScan
<1> SUFFICES ASSUME mode = "open", NEW n \in DOMAIN indexes, NEW vs \in [DOMAIN n -> Values]
             PROVE  /\ Lookup(n, vs) \subseteq stored
                    /\ \A id \in stored :
                         ToldApart(FieldValues(n, documents[id]), vs) =>
                           (id \in Lookup(n, vs) <=> Equal(FieldValues(n, documents[id]), vs))
  BY DEF LookupMatchesScan
<1>1. n \in Names /\ indexes[n].entries = Entries(n, stored, documents)
  BY DEF IndexInv, Exact
<1>2. ASSUME NEW id \in Lookup(n, vs) PROVE id \in stored /\ Key(vs) \in Keys(n, documents[id])
  <2>1. PICK e \in Entries(n, stored, documents) : e[1] = Key(vs) /\ e[2] = id
    BY <1>1, <1>2 DEF Lookup
  <2>2. PICK a \in stored : \E k \in Keys(n, documents[a]) : e = <<k, a>>
    BY DEF Entries
  <2> QED
    BY <2>1, <2>2
<1>3. ASSUME NEW id \in stored, Key(vs) \in Keys(n, documents[id]) PROVE id \in Lookup(n, vs)
  <2>1. <<Key(vs), id>> \in indexes[n].entries
    BY <1>1, <1>3, EntryOf
  <2> QED
    BY <2>1 DEF Lookup
<1>4. ASSUME NEW id \in stored, ToldApart(FieldValues(n, documents[id]), vs)
      PROVE  Key(vs) \in Keys(n, documents[id]) <=> Equal(FieldValues(n, documents[id]), vs)
  BY <1>1, <1>4, KeyOfEqual DEF IndexInv
<1> QED
  BY <1>2, <1>3, <1>4

(* Two documents that have every field of a name, and one of its keys.     *)
LEMMA SameKey ==
  ASSUME NEW n \in Names, NEW doc1 \in Documents, NEW doc2 \in Documents,
         Keys(n, doc1) \intersect Keys(n, doc2) # {}
  PROVE  /\ FieldValues(n, doc1) \in [DOMAIN n -> Values]
         /\ FieldValues(n, doc2) \in [DOMAIN n -> Values]
         /\ Key(FieldValues(n, doc1)) = Key(FieldValues(n, doc2))
<1>1. /\ \A i \in DOMAIN n : doc1[n[i]] # Missing /\ doc2[n[i]] # Missing
      /\ Key(FieldValues(n, doc1)) = Key(FieldValues(n, doc2))
  BY DEF Keys
<1> QED
  BY <1>1, FieldValuesType

LEMMA InvUnique == ASSUME IndexInv PROVE UniqueNeverDuplicate
<1> SUFFICES ASSUME mode = "open", NEW n \in DOMAIN indexes, indexes[n].unique,
                    NEW a \in stored, NEW b \in stored, a # b,
                    Equal(FieldValues(n, documents[a]), FieldValues(n, documents[b])),
                    ToldApart(FieldValues(n, documents[a]), FieldValues(n, documents[b])),
                    \A i \in DOMAIN n : FieldValues(n, documents[a])[i] # Missing
             PROVE  FALSE
  BY DEF UniqueNeverDuplicate
<1>1. n \in Names /\ documents[a] \in Documents /\ documents[b] \in Documents
  BY DEF IndexInv
<1>2. \A i \in DOMAIN n : documents[a][n[i]] # Missing
  BY DEF FieldValues
<1>3. ASSUME NEW i \in DOMAIN n PROVE documents[b][n[i]] # Missing
  <2>1. FieldValues(n, documents[a]) \in [DOMAIN n -> Values]
    BY <1>1, <1>2, FieldValuesType
  <2>2. FieldValues(n, documents[a])[i].class = documents[b][n[i]].class
    BY <2>1 DEF Equal, FieldValues
  <2>3. FieldValues(n, documents[a])[i].class # Missing.class
    BY <2>1, ValuesAssumption
  <2> QED
    BY <2>2, <2>3
<1>4. /\ FieldValues(n, documents[a]) \in [DOMAIN n -> Values]
      /\ FieldValues(n, documents[b]) \in [DOMAIN n -> Values]
  BY <1>1, <1>2, <1>3, FieldValuesType
<1>5. Key(FieldValues(n, documents[a])) = Key(FieldValues(n, documents[b]))
  BY <1>1, <1>4, KeyEqual
<1>6. Keys(n, documents[a]) \intersect Keys(n, documents[b]) # {}
  BY <1>2, <1>3, <1>5 DEF Keys
<1>7. Keys(n, documents[a]) \intersect Keys(n, documents[b]) = {}
  BY DEF IndexInv, Exact, DistinctKeys
<1> QED
  BY <1>6, <1>7

(* What reading a value back changes, and what it leaves.                  *)
LEMMA ReadBackValue ==
  ASSUME documents \in [Ids -> Documents], NEW id \in Ids, NEW n \in Names,
         NEW i \in DOMAIN n
  PROVE  LET v == documents[id][n[i]]
             w == ReadBack(documents)[id][n[i]]
         IN  w.class = v.class /\ (w = Missing <=> v = Missing)
<1>1. n[i] \in Fields
  BY NameDomain
<1> DEFINE v == documents[id][n[i]]
<1>2. ReadBack(documents)[id][n[i]] = [v EXCEPT !.text = v.stored]
  BY <1>1 DEF ReadBack
<1>3. v \in Values \union {Missing}
  BY <1>1 DEF Documents
<1>4. v = Value(v.class, v.hashable, v.text, v.stored)
  BY <1>3, ValuesAssumption DEF Missing, Value
<1>5. [v EXCEPT !.text = v.stored].class = v.class
  BY <1>4 DEF Value
<1>6. v # Missing => v.class # Missing.class
  BY <1>3, ValuesAssumption
<1>7. v = Missing => [v EXCEPT !.text = v.stored] = Missing
  BY DEF Missing, Value
<1> QED
  BY <1>2, <1>5, <1>6, <1>7

(* An opening is refused for two documents that have one key as they are   *)
(* read back: had the keys told them apart then and before, they would be  *)
(* equal, and have had one key already.                                    *)
LEMMA ReopenRefused ==
  ASSUME IndexInv, Reopen, mode' = "refused"
  PROVE  \E n \in DOMAIN indexes : \E a, b \in stored :
           /\ indexes[n].unique /\ a # b
           /\ \/ ~ToldApart(FieldValues(n, documents[a]), FieldValues(n, documents[b]))
              \/ ~ToldApart(FieldValues(n, documents'[a]), FieldValues(n, documents'[b]))
<1>1. mode = "open" /\ documents' = ReadBack(documents) /\ documents' \in [Ids -> Documents]
  BY ReadBackType DEF Reopen, IndexInv
<1>2. PICK n \in DOMAIN indexes : FillFails(n, indexes[n].unique, documents')
  BY <1>1 DEF Reopen
<1>3. PICK a \in stored, b \in stored :
        /\ indexes[n].unique /\ a # b
        /\ Keys(n, documents'[a]) \intersect Keys(n, documents'[b]) # {}
  BY <1>2 DEF FillFails
<1> SUFFICES ASSUME ToldApart(FieldValues(n, documents[a]), FieldValues(n, documents[b])),
                    ToldApart(FieldValues(n, documents'[a]), FieldValues(n, documents'[b]))
             PROVE  FALSE
  BY <1>3
<1>4. /\ n \in Names /\ a \in Ids /\ b \in Ids /\ documents[a] \in Documents
      /\ documents[b] \in Documents
  BY DEF IndexInv
<1>5. /\ FieldValues(n, documents'[a]) \in [DOMAIN n -> Values]
      /\ FieldValues(n, documents'[b]) \in [DOMAIN n -> Values]
      /\ Key(FieldValues(n, documents'[a])) = Key(FieldValues(n, documents'[b]))
  BY <1>1, <1>3, <1>4, SameKey
<1>6. Equal(FieldValues(n, documents'[a]), FieldValues(n, documents'[b]))
  BY <1>4, <1>5, KeyEqual
<1>7. ASSUME NEW i \in DOMAIN n
      PROVE  /\ documents[a][n[i]] # Missing /\ documents[b][n[i]] # Missing
             /\ documents[a][n[i]].class = documents[b][n[i]].class
  <2>1. documents'[a][n[i]] \in Values /\ documents'[b][n[i]] \in Values
    BY <1>5 DEF FieldValues
  <2>2. documents'[a][n[i]].class = documents'[b][n[i]].class
    BY <1>6 DEF Equal, FieldValues
  <2>3. Missing \notin Values
    BY ValuesAssumption
  <2> QED
    BY <1>1, <1>4, <2>1, <2>2, <2>3, ReadBackValue DEF IndexInv
<1>8. Equal(FieldValues(n, documents[a]), FieldValues(n, documents[b]))
  BY <1>7 DEF Equal, FieldValues
<1>9. /\ FieldValues(n, documents[a]) \in [DOMAIN n -> Values]
      /\ FieldValues(n, documents[b]) \in [DOMAIN n -> Values]
  BY <1>4, <1>7, FieldValuesType
<1>10. Key(FieldValues(n, documents[a])) = Key(FieldValues(n, documents[b]))
  BY <1>4, <1>8, <1>9, KeyEqual
<1>11. Keys(n, documents[a]) \intersect Keys(n, documents[b]) # {}
  BY <1>7, <1>10 DEF Keys
<1>12. Keys(n, documents[a]) \intersect Keys(n, documents[b]) = {}
  BY <1>1, <1>3 DEF IndexInv, Exact, DistinctKeys
<1> QED
  BY <1>11, <1>12

(* A lookup finds a document exactly if a scan does, for every field path, *)
(* composite index, sequence of mutations and pair of values the keys tell *)
(* apart.                                                                  *)
THEOREM LookupsMatchScans == Spec => []LookupMatchesScan
<1>1. IndexInv => LookupMatchesScan
  BY InvLookup
<1> QED
  BY <1>1, IndexesExact, PTL

(* And a unique index never holds two documents that are equal in it and   *)
(* told apart by their keys.                                               *)
THEOREM NeverDuplicate == Spec => []UniqueNeverDuplicate
<1>1. IndexInv => UniqueNeverDuplicate
  BY InvUnique
<1> QED
  BY <1>1, IndexesExact, PTL

(* And opening the database fails on a unique index only for two documents *)
(* their keys do not tell apart, in memory or as they are read back.       *)
THEOREM RefusedForReprsOnly == Spec => RefusedOnlyForReprs
<1> DEFINE Told ==
      \E n \in DOMAIN indexes : \E a, b \in stored :
        /\ indexes[n].unique /\ a # b
        /\ \/ ~ToldApart(FieldValues(n, documents[a]), FieldValues(n, documents[b]))
           \/ ~ToldApart(FieldValues(n, documents'[a]), FieldValues(n, documents'[b]))
<1>1. IndexInv /\ [Next]_vars => [mode' = "refused" => Told]_vars
  <2> SUFFICES ASSUME IndexInv, Next, mode' = "refused" PROVE Told
    BY DEF vars
  <2>1. Reopen
    BY DEF Next, Insert, Update, Delete, Create, Drop
  <2> QED
    BY <2>1, ReopenRefused
<1> QED
  BY <1>1, IndexesExact, PTL DEF Spec, RefusedOnlyForReprs

----------------------------------------------------------------------------
(* Types, whatever the values are.                                         *)

WellMade(ix) ==
  /\ DOMAIN ix = {"unique", "entries"} /\ ix.unique \in BOOLEAN
  /\ \A e \in ix.entries : e[1] \in Seq(Texts) /\ e[2] \in Ids

TypeInv == TypeOK /\ \A n \in DOMAIN indexes : WellMade(indexes[n])

LEMMA KeysType ==
  ASSUME NEW n \in Names, NEW doc \in Documents
  PROVE  Keys(n, doc) \subseteq Seq(Texts)
<1> SUFFICES ASSUME \A i \in DOMAIN n : doc[n[i]] # Missing
             PROVE  Key(FieldValues(n, doc)) \in Seq(Texts)
  BY DEF Keys
<1> DEFINE vs == FieldValues(n, doc)
<1>1. vs \in [DOMAIN n -> Values]
  BY FieldValuesType
<1> HIDE DEF vs
<1>2. DOMAIN n = 1 .. Len(n) /\ Len(n) \in Nat
  BY NameDomain
<1>3. /\ \A i \in DOMAIN n : vs[i].class \in Texts /\ vs[i].text \in Texts
      /\ "tuple" \in Texts
  BY <1>1 DEF Texts
<1>4. /\ [i \in DOMAIN n |-> vs[i].class] \in Seq(Texts)
      /\ [i \in DOMAIN n |-> vs[i].text] \in Seq(Texts)
  BY <1>2, <1>3
<1>5. [i \in DOMAIN n |-> vs[i].text] \o <<"tuple">> \in Seq(Texts)
  BY <1>3, <1>4
<1>6. Key(vs) \in Seq(Texts)
  BY <1>1, <1>4, <1>5, KeyOf
<1> QED
  BY <1>6 DEF vs

LEMMA MadeTypes ==
  ASSUME NEW n \in Names, NEW id \in Ids, NEW doc \in Documents, NEW ix, WellMade(ix)
  PROVE  WellMade(Added(ix, n, id, doc)) /\ WellMade(Removed(ix, n, id, doc))
BY KeysType DEF WellMade, Added, Removed

LEMMA FilledType ==
  ASSUME NEW n \in Names, NEW docs \in [Ids -> Documents], stored \subseteq Ids,
         NEW unique \in BOOLEAN
  PROVE  WellMade(Filled(n, unique, docs))
<1>1. ASSUME NEW e \in Filled(n, unique, docs).entries
      PROVE  e[1] \in Seq(Texts) /\ e[2] \in Ids
  <2>1. PICK id \in stored : e \in Keys(n, docs[id]) \X {id}
    BY DEF Filled
  <2>2. Keys(n, docs[id]) \subseteq Seq(Texts)
    BY KeysType
  <2> QED
    BY <2>1, <2>2
<1> QED
  BY <1>1 DEF WellMade, Filled

LEMMA NextType == TypeInv /\ [Next]_vars => TypeInv'
<1> SUFFICES ASSUME TypeInv, [Next]_vars PROVE TypeInv'
  OBVIOUS
<1>1. /\ stored \subseteq Ids /\ documents \in [Ids -> Documents] /\ DOMAIN indexes \subseteq Names
      /\ mode \in {"open", "refused"} /\ \A n \in DOMAIN indexes : WellMade(indexes[n])
  BY DEF TypeInv, TypeOK
<1>2. ASSUME stored' \subseteq Ids, documents' \in [Ids -> Documents],
             DOMAIN indexes' \subseteq Names, mode' \in {"open", "refused"},
             \A n \in DOMAIN indexes' : WellMade(indexes'[n])
      PROVE  TypeInv'
  BY <1>2 DEF TypeInv, TypeOK, WellMade
<1>3. ASSUME NEW id \in Ids, NEW doc \in Documents, Insert(id, doc) PROVE TypeInv'
  <2>1. \A n \in DOMAIN indexes : WellMade(Added(indexes[n], n, id, doc))
    BY <1>1, MadeTypes
  <2> QED
    BY <1>1, <1>2, <1>3, <2>1 DEF Insert
<1>4. ASSUME NEW id \in Ids, NEW doc \in Documents, Update(id, doc) PROVE TypeInv'
  <2>1. \A n \in DOMAIN indexes : WellMade(Removed(indexes[n], n, id, documents[id]))
    BY <1>1, MadeTypes
  <2>2. \A n \in DOMAIN indexes :
          WellMade(Added(Removed(indexes[n], n, id, documents[id]), n, id, doc))
    BY <1>1, <2>1, MadeTypes
  <2> QED
    BY <1>1, <1>2, <1>4, <2>2 DEF Update
<1>5. ASSUME NEW id \in Ids, Delete(id) PROVE TypeInv'
  <2>1. \A n \in DOMAIN indexes : WellMade(Removed(indexes[n], n, id, documents[id]))
    BY <1>1, MadeTypes
  <2>2. NoDocument \in Documents
    BY DEF NoDocument, Documents
  <2> QED
    BY <1>1, <1>2, <1>5, <2>1, <2>2 DEF Delete
<1>6. ASSUME NEW n \in Names, NEW unique \in BOOLEAN, Create(n, unique) PROVE TypeInv'
  <2>1. WellMade(Filled(n, unique, documents))
    BY <1>1, FilledType
  <2> QED
    BY <1>1, <1>2, <1>6, <2>1 DEF Create
<1>7. ASSUME NEW n \in Names, Drop(n) PROVE TypeInv'
  BY <1>1, <1>2, <1>7 DEF Drop
<1>8. CASE Reopen
  <2>1. documents' \in [Ids -> Documents]
    BY <1>1, <1>8, ReadBackType DEF Reopen
  <2>2. \A n \in DOMAIN indexes : WellMade(Filled(n, indexes[n].unique, ReadBack(documents)))
    BY <1>1, ReadBackType, FilledType DEF WellMade
  <2> QED
    BY <1>1, <1>2, <1>8, <2>1, <2>2 DEF Reopen
<1>9. CASE UNCHANGED vars
  BY <1>1, <1>2, <1>9 DEF vars
<1> QED
  BY <1>3, <1>4, <1>5, <1>6, <1>7, <1>8, <1>9 DEF Next

(* Documents, names, keys and identifiers are what they should be.         *)
THEOREM TypeCorrect == Spec => []TypeOK
<1>1. Init => TypeInv
  BY DEF Init, TypeInv, TypeOK, NoDocument, Documents
<1>2. TypeInv => TypeOK
  BY DEF TypeInv
<1> QED
  BY <1>1, <1>2, NextType, PTL DEF Spec
=============================================================================
