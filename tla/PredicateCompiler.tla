-------------------------- MODULE PredicateCompiler --------------------------
(***************************************************************************)
(* compile_predicate (server/adsb_server/query/compiler.py) and the query  *)
(* that query_flights (api/main.py) builds from its result.                *)
(*                                                                         *)
(* The recursion over "and", "or" and "not" compiles the children of a     *)
(* predicate from left to right before the predicate: a stack of fragments *)
(* from which a compound predicate takes its children.  All share the list *)
(* of bind parameters, whose length names the CTEs.  A fragment is a WHERE *)
(* clause with the conditions deferred to the outer query; its conditions  *)
(* are what they say of each row.  As history a fragment has the value of  *)
(* its predicate in SQL's logic, and the rows that match the predicate in  *)
(* the words of query/models.py.                                           *)
(* The operators named Bug... are faulty variants, each a mistake the code *)
(* could have made: the properties are checked to notice them.             *)
(***************************************************************************)
EXTENDS Integers, FiniteSets, Sequences, SqlLogic

CONSTANTS
    Rows,         \* flights in the window, a later one is larger
    Leaves,       \* fragments of the predicates without children
    Limit,        \* limit
    InnerLimit,   \* INNER_SUBQUERY_LIMIT
    MaxChildren,  \* bounds of the model: children of a predicate,
    MaxNodes      \* predicates in a request

Conditions == [Rows -> Values]

Constant(x) == [r \in Rows |-> x]

ASSUME CompilerConstants ==
    /\ Rows \subseteq Nat /\ IsFiniteSet(Rows)
    /\ Leaves \subseteq [where : Conditions, text : BOOLEAN, outer : SUBSET Conditions,
                         params : Nat, cte : SUBSET Nat, refused : BOOLEAN]
    /\ \A l \in Leaves : l.text => l.where = Constant("true")
    \* a CTE is named after the parameters of its geometry are added
    /\ \A l \in Leaves : \A n \in l.cte : n > 0 /\ n <= l.params
    /\ Limit \in Nat \ {0} /\ InnerLimit \in Nat \ {0}
    /\ MaxChildren \in Nat /\ MaxNodes \in Nat

VARIABLES
    params,   \* len(params)
    stack,    \* the fragments whose parent is not compiled yet
    nodes,    \* predicates compiled
    pc,       \* "compile", "refused" or "answered"
    page      \* the rows of the response, and the one beyond that tells has_more

vars == <<params, stack, nodes, pc, page>>

Fragments ==
    [where : Conditions, text : BOOLEAN, outer : SUBSET Conditions, ctes : SUBSET Nat,
     meaning : Conditions, rows : SUBSET Rows]

TypeOK ==
    /\ params \in Nat
    /\ stack \in Seq(Fragments)
    /\ nodes \in Nat
    /\ pc \in {"compile", "refused", "answered"}
    /\ page \subseteq Rows

-----------------------------------------------------------------------------
(* The values of a condition for a row in a set of fragments. *)
WhereOf(S, r)    == {c.where[r] : c \in S}
MeaningOf(S, r)  == {c.meaning[r] : c \in S}
OuterOf(S)       == UNION {c.outer : c \in S}
CtesOf(S)        == UNION {c.ctes : c \in S}

BugOuterForgotten(c, r) == c.where[r]

(* The WHERE clause and the outer conditions of a fragment in one: the     *)
(* text TRUE is dropped.                                                   *)
Flattened(c, r) ==
    AndOf((IF c.text THEN {} ELSE {c.where[r]}) \cup {o[r] : o \in c.outer})

(* What a fragment says of a row. *)
ValueOf(c, r) == AndOf({c.where[r]} \cup {o[r] : o \in c.outer})

BugLocalName(l) == l.cte

(* _s<len(params)> *)
CteName(l) == {params + n : n \in l.cte}

LeafFragment(l) ==
    [where |-> l.where, text |-> l.text, outer |-> l.outer, ctes |-> CteName(l),
     meaning |-> [r \in Rows |-> ValueOf(l, r)],
     rows |-> {r \in Rows : ValueOf(l, r) = "true"}]

AndFragment(S) ==
    [where |-> [r \in Rows |-> AndOf(WhereOf(S, r))], text |-> S = {},
     outer |-> OuterOf(S), ctes |-> CtesOf(S),
     meaning |-> [r \in Rows |-> AndOf(MeaningOf(S, r))],
     rows |-> {r \in Rows : \A c \in S : r \in c.rows}]

OrFragment(S) ==
    [where |-> [r \in Rows |-> OrOf({Flattened(c, r) : c \in S})], text |-> FALSE,
     outer |-> {}, ctes |-> CtesOf(S),
     meaning |-> [r \in Rows |-> OrOf(MeaningOf(S, r))],
     rows |-> UNION {c.rows : c \in S}]

NotFragment(c) ==
    [where |-> [r \in Rows |-> NotOf(Flattened(c, r))], text |-> FALSE,
     outer |-> {}, ctes |-> c.ctes,
     meaning |-> [r \in Rows |-> NotOf(c.meaning[r])],
     rows |-> Rows \ c.rows]

-----------------------------------------------------------------------------
Init ==
    /\ params = 2       \* the bounds of the window
    /\ stack = << >> /\ nodes = 0
    /\ pc = "compile" /\ page = {}

Room == pc = "compile" /\ nodes < MaxNodes

CompileLeaf(l) ==
    /\ Room /\ ~l.refused
    /\ params' = params + l.params
    /\ stack' = Append(stack, LeafFragment(l))
    /\ nodes' = nodes + 1
    /\ UNCHANGED <<pc, page>>

(* GeometryTooLargeError ends the request with 422. *)
Refuse(l) ==
    /\ Room /\ l.refused
    /\ pc' = "refused"
    /\ UNCHANGED <<params, stack, nodes, page>>

Below(n) == SubSeq(stack, 1, Len(stack) - n)

(* The n last fragments. *)
Children(n) == {stack[i] : i \in (Len(stack) - n + 1) .. Len(stack)}

Fold(n, fragment) ==
    /\ Room /\ n <= Len(stack)
    /\ stack' = Append(Below(n), fragment)
    /\ nodes' = nodes + 1
    /\ UNCHANGED <<params, pc, page>>

CompileAnd(n) == Fold(n, AndFragment(Children(n)))
CompileOr(n)  == Fold(n, OrFragment(Children(n)))
CompileNot    == stack # << >> /\ Fold(1, NotFragment(stack[Len(stack)]))

First(n, S) == {r \in S : Cardinality({s \in S : s > r}) < n}

BugShortInner(S) == First(Limit + 1, S)

(* ORDER BY ... LIMIT of the subquery *)
Candidates(S) == First(InnerLimit, S)

(* One query, or with outer conditions a query over the newest rows of an  *)
(* inner one.                                                              *)
Selected(c) ==
    LET inner == {r \in Rows : c.where[r] = "true"}
    IN  IF c.outer = {} THEN inner
        ELSE {r \in Candidates(inner) : AndOf({o[r] : o \in c.outer}) = "true"}

Run ==
    /\ pc = "compile" /\ Len(stack) = 1
    /\ params' = params + 1     \* limit + 1
    /\ page' = First(Limit + 1, Selected(stack[1]))
    /\ pc' = "answered"
    /\ UNCHANGED <<stack, nodes>>

Next ==
    \/ \E l \in Leaves : CompileLeaf(l) \/ Refuse(l)
    \/ \E n \in 0..MaxChildren : CompileAnd(n) \/ CompileOr(n)
    \/ CompileNot
    \/ Run

Spec == Init /\ [][Next]_vars

-----------------------------------------------------------------------------
(* Properties *)

(* However predicates are nested, and whichever conditions were deferred   *)
(* to the outer query and then flattened back into an "or" or a "not",     *)
(* what is compiled says of each row what SQL's AND, OR and NOT of the     *)
(* parts of the predicate say, NULL included.                              *)
NestingKeepsValue ==
    \A i \in 1..Len(stack) : \A r \in Rows : ValueOf(stack[i], r) = stack[i].meaning[r]

(* No two predicates of a request share the name of a CTE: "len(params)    *)
(* grows monotonically across the entire compile call".                    *)
CteNamesUnique ==
    \A i, j \in 1..Len(stack) : i # j => stack[i].ctes \cap stack[j].ctes = {}

(* The page and its has_more are those of the newest rows for which the    *)
(* predicate is true, in one query or two, as long as the inner query cuts *)
(* no candidate off.                                                       *)
PageOfNewest ==
    pc = "answered" /\ Cardinality({r \in Rows : stack[1].where[r] = "true"}) <= InnerLimit =>
        page = First(Limit + 1, {r \in Rows : stack[1].meaning[r] = "true"})

(* The same although it may cut some off ("large enough to never truncate  *)
(* real result sets").                                                     *)
PageAlwaysOfNewest ==
    pc = "answered" =>
        page = First(Limit + 1, {r \in Rows : stack[1].meaning[r] = "true"})

(* "All of these predicates must match", "at least one", "this predicate   *)
(* must not match" (models.py): the rows that a query selects are those    *)
(* for which that can be said.                                             *)
MatchesAsDocumented ==
    \A i \in 1..Len(stack) :
        {r \in Rows : ValueOf(stack[i], r) = "true"} = stack[i].rows
=============================================================================
