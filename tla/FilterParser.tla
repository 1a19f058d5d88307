---------------------------- MODULE FilterParser ----------------------------
(***************************************************************************)
(* The parser of filter expressions: filter_parser.rs and its grammar, a   *)
(* parsing expression grammar whose keywords need no space after them.  A  *)
(* text is a sequence of tokens; a comparison is one token, whose field    *)
(* name may begin with the letters of a keyword, as `note` and `order` do. *)
(***************************************************************************)
EXTENDS Integers, SequencesExt

CONSTANTS
  Comparison,  \* the comparisons: field, operator and value
  Prefixed,    \* those whose field begins with `not`
  MaxLen       \* bound on the tokens of a text

ASSUME FilterParserAssumption == MaxLen \in Nat /\ Prefixed \subseteq Comparison

VARIABLES
  text,    \* the tokens of the text
  result   \* the filter, an error, or "none" before the text is parsed

vars == <<text, result>>

Keyword == {"and", "or", "not", "(", ")"}
Token(k, c, p) == [k |-> k, c |-> c, p |-> p]
Words == {Token(k, "", "") : k \in Keyword} \cup
         {Token("cmp", c, IF c \in Prefixed THEN "not" ELSE "") : c \in Comparison}

\* The nodes of MetadataFilter.
Leaf(t) == <<"cmp", t.c, t.p>>
Not(f) == <<"not", f>>
Node(op, fs) == IF Len(fs) = 1 THEN fs[1] ELSE <<op, fs>>

Error == <<"error">>
None == <<"none">>

Init == text = <<>> /\ result = None

-----------------------------------------------------------------------------
(* The grammar: each rule takes a text to what it built and what is left. *)

Fails == [ok |-> FALSE, f |-> Error, rest |-> <<>>]
Built(f, rest) == [ok |-> TRUE, f |-> f, rest |-> rest]

Begins(s, k) == s # <<>> /\ (s[1].k = k \/ s[1].p = k)

\* What follows a keyword: the rest of a name that begins with it, also.
After(s, k) == IF s[1].k = k THEN Tail(s) ELSE <<[s[1] EXCEPT !.p = ""]>> \o Tail(s)

RECURSIVE OrExpr(_), AndExpr(_), AndMore(_, _), OrMore(_, _), NotExpr(_)

Atom(s) ==
  IF Begins(s, "(")
  THEN LET e == OrExpr(Tail(s)) IN
       IF e.ok /\ Begins(e.rest, ")") THEN Built(e.f, Tail(e.rest)) ELSE Fails
  ELSE IF s # <<>> /\ s[1].k = "cmp" THEN Built(Leaf(s[1]), Tail(s)) ELSE Fails

\* Faulty form: NOT takes all that follows.
NotExprWide(s) ==
  IF Begins(s, "not") /\ OrExpr(After(s, "not")).ok
  THEN LET e == OrExpr(After(s, "not")) IN Built(Not(e.f), e.rest)
  ELSE Atom(s)

\* NOT ~ not_expr | atom
NotExpr(s) ==
  IF Begins(s, "not") /\ NotExpr(After(s, "not")).ok
  THEN LET e == NotExpr(After(s, "not")) IN Built(Not(e.f), e.rest)
  ELSE Atom(s)

\* (AND ~ not_expr)*: as many as there are; what is left is left.
AndMore(fs, s) ==
  IF Begins(s, "and") /\ NotExpr(After(s, "and")).ok
  THEN LET e == NotExpr(After(s, "and")) IN AndMore(Append(fs, e.f), e.rest)
  ELSE Built(Node("and", fs), s)

AndExpr(s) == LET e == NotExpr(s) IN IF e.ok THEN AndMore(<<e.f>>, e.rest) ELSE Fails

OrMore(fs, s) ==
  IF Begins(s, "or") /\ AndExpr(After(s, "or")).ok
  THEN LET e == AndExpr(After(s, "or")) IN OrMore(Append(fs, e.f), e.rest)
  ELSE Built(Node("or", fs), s)

OrExpr(s) == LET e == AndExpr(s) IN IF e.ok THEN OrMore(<<e.f>>, e.rest) ELSE Fails

\* parse_filter: the rule `expr` does not ask for the end of the text.
ParseFilter(s) == OrExpr(s).f

-----------------------------------------------------------------------------
(* A text is written, token by token, and parsed. *)

Write(t) ==
  /\ result = None /\ Len(text) < MaxLen
  /\ text' = Append(text, t) /\ UNCHANGED result

Parse ==
  /\ result = None
  /\ result' = ParseFilter(text) /\ UNCHANGED text

Rest == result # None /\ UNCHANGED vars

Next == Parse \/ Rest \/ \E t \in Words : Write(t)

Spec == Init /\ [][Next]_vars

-----------------------------------------------------------------------------
(* The language, as the precedence of its operators defines it: the texts   *)
(* of each length with the filter each one means.                           *)

Sentence(s, f) == [s |-> s, f |-> f]
Key(k) == <<Token(k, "", "")>>

RECURSIVE Ors(_), Nots(_), Lists(_, _)

Atoms(n) ==
  IF n = 1 THEN {Sentence(<<t>>, Leaf(t)) : t \in {t \in Words : t.k = "cmp"}}
  ELSE {Sentence(Key("(") \o x.s \o Key(")"), x.f) : x \in Ors(n - 2)}

Nots(n) ==
  IF n < 1 THEN {}
  ELSE Atoms(n) \cup {Sentence(Key("not") \o x.s, Not(x.f)) : x \in Nots(n - 1)}

Parts(op, n) == IF op = "and" THEN Nots(n) ELSE {Sentence(x.s, Node("and", x.f)) : x \in Lists("and", n)}

\* Lists of operands between which `op` stands.
Lists(op, n) ==
  {Sentence(x.s, <<x.f>>) : x \in Parts(op, n)} \cup
  UNION {{Sentence(x.s \o Key(op) \o y.s, <<x.f>> \o y.f) :
            x \in Parts(op, k), y \in Lists(op, n - k - 1)} : k \in 1..(n - 2)}

Ors(n) == IF n < 1 THEN {} ELSE {Sentence(x.s, Node("or", x.f)) : x \in Lists("or", n)}

Language == UNION {Ors(n) : n \in 1..MaxLen}

-----------------------------------------------------------------------------
(* Properties. *)

Parsed == result # None

\* NOT binds tighter than AND, AND tighter than OR, and lists of operands are
\* flat: a text of the language is parsed to the filter it means.
PrecedenceKept == Parsed => \A x \in Language : x.s = text => x.f = result
=============================================================================
