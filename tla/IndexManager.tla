---------------------------- MODULE IndexManager ----------------------------
(***************************************************************************)
(* The hash indexes of one collection (src/hash.py) and the documents they *)
(* follow.  The collection lives in the storage engine, which is not under *)
(* src/: under its lock it validates a mutation against every unique index *)
(* before it applies it (PRODUCTION_INVARIANTS.md, "preflight validation") *)
(* and rebuilds the exported indexes when the database is opened.          *)
(*                                                                         *)
(* A field value is abstracted to what an index can tell of it: the class  *)
(* of values it equals, whether Python can hash it, its repr, and its repr *)
(* once it was written to JSON with sorted keys and read back.             *)
(***************************************************************************)
EXTENDS Naturals, Sequences

CONSTANTS
  Ids,      \* document identifiers
  Fields,   \* field paths
  Values,   \* field values
  Names     \* what may be indexed: a field, or a tuple of fields

Value(class, hashable, text, stored) ==
  [class |-> class, hashable |-> hashable, text |-> text, stored |-> stored]

(* A name <<f>> is the single-field index on f; longer names are composite.*)
ASSUME NamesAssumption == Names \subseteq Seq(Fields) \ {<< >>}

(* What get_path returns when the path leads nowhere: no value is it.      *)
Missing == Value("missing", TRUE, "missing", "missing")

(* The values are those JSON has: one that is read back is a value of the  *)
(* class it was in, equal ones are all hashable or none is, and a repr is  *)
(* that of equal values only.  Equal values may well differ in their repr  *)
(* (1 and True, dictionaries filled in another order), and a string may be *)
(* what the repr of a list is.                                             *)
ASSUME ValuesAssumption ==
  \A v \in Values :
    /\ v = Value(v.class, v.hashable, v.text, v.stored)
    /\ v.hashable \in BOOLEAN /\ v.class # Missing.class
    /\ \E w \in Values : w = [v EXCEPT !.text = v.stored]
    /\ \A w \in Values :
         (v.class = w.class => v.hashable = w.hashable) /\ (v.text = w.text => v.class = w.class)

NoDocument == [f \in Fields |-> Missing]
Documents  == [Fields -> Values \union {Missing}]

VARIABLES
  stored,      \* the identifiers of the documents in the collection
  documents,   \* their contents
  indexes,     \* IndexManager._indexes and _composites: name -> index
  mode         \* "open", or "refused" when an index cannot be rebuilt

vars == <<stored, documents, indexes, mode>>

----------------------------------------------------------------------------
(* One index: unique and its entries, pairs of a key and an identifier.    *)

FieldValues(n, doc) == [i \in DOMAIN n |-> doc[n[i]]]

(* _key: a value that cannot be hashed is replaced by its repr, and so is  *)
(* a tuple that contains one.                                              *)
Key(values) ==
  IF \A i \in DOMAIN values : values[i].hashable
    THEN [i \in DOMAIN values |-> values[i].class]
    ELSE [i \in DOMAIN values |-> values[i].text]
           \o IF Len(values) = 1 THEN << >> ELSE <<"tuple">>

(* A mutant: the test for a missing field is forgotten.                    *)
KeysOfMissing(n, doc) == {Key(FieldValues(n, doc))}

(* The keys a document has in an index: none if a field is missing.        *)
Keys(n, doc) ==
  IF \E i \in DOMAIN n : doc[n[i]] = Missing THEN {} ELSE {Key(FieldValues(n, doc))}

Lookup(n, values) == {e[2] : e \in {x \in indexes[n].entries : x[1] = Key(values)}}

(* _add_key raises UniqueConstraintError.                                  *)
Duplicate(ix, n, id, doc) ==
  ix.unique /\ \E e \in ix.entries : e[1] \in Keys(n, doc) /\ e[2] # id

(* A mutant: the whole entry of the key is removed, not one identifier.    *)
RemovedWhole(ix, n, id, doc) ==
  [ix EXCEPT !.entries = {e \in @ : e[1] \notin Keys(n, doc)}]

Added(ix, n, id, doc)   == [ix EXCEPT !.entries = @ \union (Keys(n, doc) \X {id})]
Removed(ix, n, id, doc) == [ix EXCEPT !.entries = @ \ (Keys(n, doc) \X {id})]

(* An index filled from the documents, and whether filling it raises.      *)
Filled(n, unique, docs) ==
  [unique |-> unique, entries |-> UNION {Keys(n, docs[id]) \X {id} : id \in stored}]

FillFails(n, unique, docs) ==
  unique /\ \E a, b \in stored : a # b /\ Keys(n, docs[a]) \intersect Keys(n, docs[b]) # {}

----------------------------------------------------------------------------
Init ==
  /\ stored = {} /\ documents = [id \in Ids |-> NoDocument]
  /\ indexes = << >> /\ mode = "open"

Preflight(id, doc) ==
  \A n \in DOMAIN indexes : ~Duplicate(indexes[n], n, id, doc)

(* Mutations of the collection: validated, then every index of all().      *)
Insert(id, doc) ==
  /\ mode = "open" /\ id \notin stored
  /\ Preflight(id, doc)
  /\ stored' = stored \union {id}
  /\ documents' = [documents EXCEPT ![id] = doc]
  /\ indexes' = [n \in DOMAIN indexes |-> Added(indexes[n], n, id, doc)]
  /\ UNCHANGED mode

(* A mutant: the new value is added before the old one is removed.         *)
UpdateAddsFirst(id, doc) ==
  /\ mode = "open" /\ id \in stored
  /\ Preflight(id, doc)
  /\ documents' = [documents EXCEPT ![id] = doc]
  /\ indexes' = [n \in DOMAIN indexes |->
       Removed(Added(indexes[n], n, id, doc), n, id, documents[id])]
  /\ UNCHANGED <<stored, mode>>

Update(id, doc) ==
  /\ mode = "open" /\ id \in stored
  /\ Preflight(id, doc)
  /\ documents' = [documents EXCEPT ![id] = doc]
  /\ indexes' = [n \in DOMAIN indexes |->
       Added(Removed(indexes[n], n, id, documents[id]), n, id, doc)]
  /\ UNCHANGED <<stored, mode>>

Delete(id) ==
  /\ mode = "open" /\ id \in stored
  /\ stored' = stored \ {id}
  /\ documents' = [documents EXCEPT ![id] = NoDocument]
  /\ indexes' = [n \in DOMAIN indexes |-> Removed(indexes[n], n, id, documents[id])]
  /\ UNCHANGED mode

(* A mutant: the index is registered as unique once it was filled.         *)
CreateUnchecked(n, unique) ==
  /\ mode = "open"
  /\ n \notin DOMAIN indexes
  /\ indexes' = [m \in DOMAIN indexes \union {n} |->
       IF m = n THEN Filled(n, unique, documents) ELSE indexes[m]]
  /\ UNCHANGED <<stored, documents, mode>>

(* create and create_composite return an index that exists as it is; a new *)
(* one is registered after it was filled, which may raise.                 *)
Create(n, unique) ==
  /\ mode = "open"
  /\ IF n \in DOMAIN indexes
       THEN indexes' = indexes
       ELSE /\ ~FillFails(n, unique, documents)
            /\ indexes' = [m \in DOMAIN indexes \union {n} |->
                 IF m = n THEN Filled(n, unique, documents) ELSE indexes[m]]
  /\ UNCHANGED <<stored, documents, mode>>

Drop(n) ==
  /\ mode = "open" /\ n \in DOMAIN indexes
  /\ indexes' = [m \in DOMAIN indexes \ {n} |-> indexes[m]]
  /\ UNCHANGED <<stored, documents, mode>>

(* The database is closed and opened: documents come back from JSON, and   *)
(* every exported index is created anew from them.                         *)
ReadBack(docs) ==
  [id \in Ids |-> [f \in Fields |-> [docs[id][f] EXCEPT !.text = docs[id][f].stored]]]

Reopen ==
  /\ mode = "open"
  /\ documents' = ReadBack(documents)
  /\ IF \E n \in DOMAIN indexes : FillFails(n, indexes[n].unique, ReadBack(documents))
       THEN mode' = "refused" /\ indexes' = indexes
       ELSE /\ indexes' = [n \in DOMAIN indexes |->
                 Filled(n, indexes[n].unique, ReadBack(documents))]
            /\ mode' = mode
  /\ UNCHANGED stored

Next ==
  \/ \E id \in Ids, doc \in Documents : Insert(id, doc) \/ Update(id, doc)
  \/ \E id \in Ids : Delete(id)
  \/ \E n \in Names, unique \in BOOLEAN : Create(n, unique)
  \/ \E n \in Names : Drop(n)
  \/ Reopen

Spec == Init /\ [][Next]_vars

----------------------------------------------------------------------------
(* Properties.                                                             *)

Texts == {v.class : v \in Values} \union {v.text : v \in Values} \union {"tuple"}

(* Every variable keeps its type; no index has a key made of Missing.      *)
TypeOK ==
  /\ stored \subseteq Ids
  /\ documents \in [Ids -> Documents]
  /\ DOMAIN indexes \subseteq Names
  /\ \A n \in DOMAIN indexes :
       /\ indexes[n].unique \in BOOLEAN
       /\ \A e \in indexes[n].entries :
            e[1] \in Seq(Texts) /\ e[2] \in Ids
  /\ mode \in {"open", "refused"}

Equal(vs, ws) == \A i \in DOMAIN vs : vs[i].class = ws[i].class

(* Where keys are reprs they tell the same of these values as equality     *)
(* does: equal ones are written alike, and a string is not the repr of     *)
(* what the other one is.                                                  *)
ToldApart(vs, ws) ==
  LET Hashable(us) == \A i \in DOMAIN us : us[i].hashable
  IN  CASE Hashable(vs) /\ Hashable(ws)   -> TRUE
        [] ~Hashable(vs) /\ ~Hashable(ws) ->
             Equal(vs, ws) => \A i \in DOMAIN vs : vs[i].text = ws[i].text
        [] OTHER -> Len(vs) = 1 => vs[1].text # ws[1].class /\ vs[1].class # ws[1].text

(* "Explicit hash indexes for equality" (hash.py): for any values a query  *)
(* may ask for, the index yields a document exactly if a scan of the       *)
(* collection finds it equal, whatever mutations, creations and reopenings *)
(* came before, and of whatever other documents: only the two values that  *)
(* are compared must be told apart.                                        *)
LookupMatchesScan ==
  mode = "open" =>
    \A n \in DOMAIN indexes : \A vs \in [DOMAIN n -> Values] :
      /\ Lookup(n, vs) \subseteq stored
      /\ \A id \in stored :
           LET ws == FieldValues(n, documents[id])
           IN  ToldApart(ws, vs) => (id \in Lookup(n, vs) <=> Equal(ws, vs))

(* "Unique indexes never contain duplicate keys"                           *)
(* (PRODUCTION_INVARIANTS.md), composite ones and those with documents     *)
(* that lack a field included, as long as the keys tell the two apart.     *)
UniqueNeverDuplicate ==
  mode = "open" =>
    \A n \in {m \in DOMAIN indexes : indexes[m].unique} : \A a, b \in stored :
      LET vs == FieldValues(n, documents[a])
          ws == FieldValues(n, documents[b])
      IN  a # b /\ Equal(vs, ws) /\ ToldApart(vs, ws)
            => \E i \in DOMAIN n : vs[i] = Missing

(* What was validated before it was stored can be indexed again once it    *)
(* was written and read back: an opening is refused only for two documents *)
(* the keys do not tell apart, in memory or as they are read back.         *)
RefusedOnlyForReprs ==
  [][mode' = "refused" =>
       \E n \in DOMAIN indexes : \E a, b \in stored :
         /\ indexes[n].unique /\ a # b
         /\ \/ ~ToldApart(FieldValues(n, documents[a]), FieldValues(n, documents[b]))
            \/ ~ToldApart(FieldValues(n, documents'[a]), FieldValues(n, documents'[b]))]_vars
=============================================================================
