--------------------------- MODULE MetadataFilter ---------------------------
(***************************************************************************)
(* What becomes of a metadata filter: it is validated against the indexed  *)
(* fields of a collection, converted to a filter of the database, which    *)
(* evaluates it, and, for a join on document ids, evaluated in the process *)
(* itself.  The filters are those the parser builds.                       *)
(***************************************************************************)
EXTENDS Integers, FiniteSets, Sequences

CONSTANTS
  Field,     \* the fields of the filters
  Type,      \* the types a field may be indexed with, or "none"
  Op,        \* the operators of the filters
  Doubles    \* TRUE: numbers may be written with a fraction

\* What the constants satisfy.
MetadataFilterAssumption ==
  /\ Type \subseteq {"string", "integer", "float", "boolean", "datetime", "none"}
  /\ Op \subseteq {"eq", "neq", "gt", "gte", "lt", "lte", "is_null"} /\ Doubles \in BOOLEAN

(* A JSON value is <<kind, x>>: x orders the values of a kind, numbers of    *)
(* both kinds by the double of the number.  A date is a string; x is the     *)
(* order of the texts and of the instants alike (one format).                *)
Null == <<"null", 0>>
Value ==
  {<<"string", 1>>, <<"date", 2>>, <<"date", 3>>, <<"integer", 0>>, <<"integer", 2>>,
   <<"boolean", 1>>} \cup (IF Doubles THEN {<<"double", 1>>} ELSE {})

IsNumber(v) == v[1] \in {"integer", "double"}
IsText(v) == v[1] \in {"string", "date"}

\* metadata_value_matches_index_type: what a document may hold in a field.
MatchesType(v, type) ==
  CASE type = "string" -> IsText(v)
    [] type = "integer" -> v[1] = "integer"
    [] type = "float" -> IsNumber(v)
    [] type = "boolean" -> v[1] = "boolean"
    [] type = "datetime" -> v[1] = "date"
    [] OTHER -> TRUE

Leaf == [k : {"cmp"}, f : Field, op : Op, v : Value]
Not(a) == [k |-> "not", a |-> a]
And(a, b) == [k |-> "and", a |-> a, b |-> b]
Or(a, b) == [k |-> "or", a |-> a, b |-> b]

VARIABLES
  types,    \* types[f]: the metadata_indexes of the collection
  filter,
  doc,      \* doc[f]: the metadata of a document, Null where there is none
  at,       \* "arrived", "valid", "converted", "done" or "rejected"
  query,    \* the filter of the database
  found,    \* the verdict of the database
  matched   \* the verdict of the process

vars == <<types, filter, doc, at, query, found, matched>>

None == [k |-> "none"]

\* validate_metadata_types: what the metadata of a stored document satisfies.
ValidMetadata == \A f \in Field : doc[f] # Null => MatchesType(doc[f], types[f])

Init ==
  /\ types \in [Field -> Type]
  /\ doc \in [Field -> Value \cup {Null}] /\ ValidMetadata
  /\ \E a, b \in Leaf : filter \in {a, Not(a), And(a, b), Or(a, Not(b))}
  /\ at = "arrived" /\ query = None /\ found = FALSE /\ matched = FALSE

-----------------------------------------------------------------------------
(* The nodes, by the kinds a filter of the parser can have. *)

RECURSIVE ValidNode(_), Convert(_), Finds(_, _), EvalFilterNode(_, _)

\* Faulty form: the operator is not looked at.
ValidLeafAnyOp(n) ==
  /\ types[n.f] # "none"
  /\ n.op = "is_null" \/ MatchesType(n.v, types[n.f])

\* validate_filter_node for a comparison.
ValidLeaf(n) ==
  /\ types[n.f] # "none"
  /\ \/ n.op = "is_null"
     \/ /\ MatchesType(n.v, types[n.f])
        /\ types[n.f] \in {"string", "boolean"} => n.op \in {"eq", "neq"}

ValidNode(n) ==
  CASE n.k = "cmp" -> ValidLeaf(n)
    [] n.k = "not" -> ValidNode(n.a)
    [] OTHER -> ValidNode(n.a) /\ ValidNode(n.b)

\* convert_metadata_node: an equality asks for a keyword, a boolean or an
\* integer, which is 0 where the number is none; an order asks for a range.
MatchValue(v) == IF v[1] = "double" THEN <<"integer", 0>> ELSE v
ConvertLeaf(n) ==
  CASE n.op = "is_null" -> [k |-> "empty", f |-> n.f]
    [] n.op = "eq" -> [k |-> "match", f |-> n.f, v |-> MatchValue(n.v)]
    [] n.op = "neq" -> [k |-> "must_not", a |-> [k |-> "match", f |-> n.f, v |-> MatchValue(n.v)]]
    [] types[n.f] = "datetime" /\ IsText(n.v) -> [k |-> "range", f |-> n.f, op |-> n.op, v |-> n.v]
    [] types[n.f] # "datetime" /\ IsNumber(n.v) -> [k |-> "range", f |-> n.f, op |-> n.op, v |-> n.v]
    [] OTHER -> [k |-> "error"]

Convert(n) ==
  CASE n.k = "cmp" -> ConvertLeaf(n)
    [] n.k = "not" -> [k |-> "must_not", a |-> Convert(n.a)]
    [] n.k = "and" -> [k |-> "must", a |-> Convert(n.a), b |-> Convert(n.b)]
    [] n.k = "or" -> [k |-> "should", a |-> Convert(n.a), b |-> Convert(n.b)]

Ordered(op, x, y) ==
  CASE op = "gt" -> x > y [] op = "gte" -> x >= y [] op = "lt" -> x < y [] op = "lte" -> x <= y

\* The database: a match is of the same kind, a range of any number or date.
Finds(q, d) ==
  CASE q.k = "empty" -> d[q.f] = Null
    [] q.k = "match" -> d[q.f][2] = q.v[2] /\ (d[q.f][1] = q.v[1] \/ (IsText(d[q.f]) /\ IsText(q.v)))
    [] q.k = "range" -> (IF IsText(q.v) THEN IsText(d[q.f]) ELSE IsNumber(d[q.f]))
                        /\ Ordered(q.op, d[q.f][2], q.v[2])
    [] q.k = "must_not" -> ~Finds(q.a, d)
    [] q.k = "must" -> Finds(q.a, d) /\ Finds(q.b, d)
    [] q.k = "should" -> Finds(q.a, d) \/ Finds(q.b, d)

RECURSIVE HasError(_)
HasError(q) ==
  CASE q.k = "error" -> TRUE
    [] q.k = "must_not" -> HasError(q.a)
    [] q.k \in {"must", "should"} -> HasError(q.a) \/ HasError(q.b)
    [] OTHER -> FALSE

\* Faulty form: a document without the field differs from nothing.
EvalLeafPresent(n, d) ==
  CASE n.op = "eq" -> d[n.f] = n.v
    [] n.op = "neq" -> d[n.f] # n.v /\ d[n.f] # Null
    [] n.op \in {"gt", "gte", "lt", "lte"} ->
         ((IsNumber(d[n.f]) /\ IsNumber(n.v)) \/ (IsText(d[n.f]) /\ IsText(n.v)))
           /\ Ordered(n.op, d[n.f][2], n.v[2])
    [] OTHER -> FALSE

\* eval_filter_node and compare_ordered for a comparison.
EvalLeaf(n, d) ==
  CASE n.op = "eq" -> d[n.f] = n.v
    [] n.op = "neq" -> d[n.f] # n.v
    [] n.op \in {"gt", "gte", "lt", "lte"} ->
         ((IsNumber(d[n.f]) /\ IsNumber(n.v)) \/ (IsText(d[n.f]) /\ IsText(n.v)))
           /\ Ordered(n.op, d[n.f][2], n.v[2])
    [] OTHER -> FALSE

EvalFilterNode(n, d) ==
  CASE n.k = "cmp" -> EvalLeaf(n, d)
    [] n.k = "not" -> ~EvalFilterNode(n.a, d)
    [] n.k = "and" -> EvalFilterNode(n.a, d) /\ EvalFilterNode(n.b, d)
    [] n.k = "or" -> EvalFilterNode(n.a, d) \/ EvalFilterNode(n.b, d)

-----------------------------------------------------------------------------
(* The steps of a request. *)

\* validate_metadata_filter, which a collection without an index fails.
Validate ==
  /\ at = "arrived"
  /\ at' = IF (\E f \in Field : types[f] # "none") /\ ValidNode(filter)
           THEN "valid" ELSE "rejected"
  /\ UNCHANGED <<types, filter, doc, query, found, matched>>

\* convert_metadata_filter; an error answers the request.
ConvertFilter ==
  /\ at = "valid" /\ query' = Convert(filter)
  /\ at' = IF HasError(query') THEN "rejected" ELSE "converted"
  /\ UNCHANGED <<types, filter, doc, found, matched>>

Evaluate ==
  /\ at = "converted" /\ at' = "done"
  /\ found' = Finds(query, doc) /\ matched' = EvalFilterNode(filter, doc)
  /\ UNCHANGED <<types, filter, doc, query>>

Rest == at \in {"done", "rejected"} /\ UNCHANGED vars

Next == Validate \/ ConvertFilter \/ Evaluate \/ Rest

Spec == Init /\ [][Next]_vars

-----------------------------------------------------------------------------
(* Properties. *)

\* A filter that passes the validation is never refused by the conversion.
ValidConverts == at = "rejected" => query = None

RECURSIVE Leaves(_)
Leaves(n) ==
  CASE n.k = "cmp" -> {n}
    [] n.k = "not" -> Leaves(n.a)
    [] OTHER -> Leaves(n.a) \cup Leaves(n.b)

\* Comparisons both evaluators implement: eval_filter_node has no case for
\* is_null, and convert_metadata_node none for equality with a fraction.
Common(n) == n.op # "is_null" /\ (n.op \in {"eq", "neq"} => n.v[1] # "double")

\* The database and the process agree on which documents a filter selects, so
\* that a join on ids and a join on a field filter alike: eval_filter_node
\* against convert_metadata_node, for filters built of the comparisons that
\* both implement.
EvaluatorsAgree ==
  at = "done" /\ (\A n \in Leaves(filter) : Common(n)) => found = matched
=============================================================================
