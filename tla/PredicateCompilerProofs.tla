----------------------- MODULE PredicateCompilerProofs -----------------------
(***************************************************************************)
(* Proofs about PredicateCompiler: however a request nests its predicates, *)
(* for any rows, any predicates without children and any limits, what is   *)
(* compiled keeps the value of the predicate, its CTEs have names of their *)
(* own, and the page holds the newest matches.                             *)
(*                                                                         *)
(* Proofs about TrajectoryPredicate: for any stored flight and any block,  *)
(* the conditions of a trajectory predicate are true of the flights its    *)
(* documentation promises, and what they measure of a flight is the part   *)
(* that satisfies the rest.                                                *)
(***************************************************************************)
EXTENDS PredicateCompiler, TrajectoryPredicate, FiniteSetTheorems, SequenceTheorems,
        WellFoundedInduction, TLAPS

(* A fragment whose text is TRUE is true, its CTEs are named after the     *)
(* first k parameters, and it keeps the value of its predicate.            *)
Sound(c, k) ==
    /\ c.text => c.where = Constant("true")
    /\ \A n \in c.ctes : n <= k
    /\ \A r \in Rows : ValueOf(c, r) = c.meaning[r]

(* After the query: its page, and the request's one fragment. *)
Answered ==
    pc = "answered" => Len(stack) = 1 /\ page = First(Limit + 1, Selected(stack[1]))

IInv ==
    /\ TypeOK
    /\ \A i \in 1..Len(stack) : Sound(stack[i], params)
    /\ CteNamesUnique
    /\ Answered

-----------------------------------------------------------------------------
(* The logic *)

(* When a conjunction is false and when it is null. *)
LEMMA AndValues ==
    ASSUME NEW S
    PROVE  /\ AndOf(S) \in Values
           /\ AndOf(S) = "false" <=> "false" \in S
           /\ AndOf(S) = "null" <=> "null" \in S /\ "false" \notin S
BY DEF AndOf, Values

LEMMA OrIsValue == ASSUME NEW S PROVE OrOf(S) \in Values
BY DEF OrOf, Values

LEMMA NotIsValue == ASSUME NEW x PROVE NotOf(x) \in Values
BY DEF NotOf, Truth, Values

(* Two conjunctions that are false together and null together are equal. *)
LEMMA AndEqual ==
    ASSUME NEW S, NEW T,
           "false" \in S <=> "false" \in T,
           "null" \in S <=> "null" \in T
    PROVE  AndOf(S) = AndOf(T)
BY DEF AndOf

LEMMA TruePartDropped ==
    ASSUME NEW S
    PROVE  AndOf({"true"} \cup S) = AndOf(S)
BY AndEqual

-----------------------------------------------------------------------------
(* The fragments *)

(* Dropping the text TRUE when a fragment is flattened changes nothing. *)
LEMMA FlattenedValue ==
    ASSUME NEW c \in Fragments, NEW r \in Rows, c.text => c.where = Constant("true")
    PROVE  Flattened(c, r) = ValueOf(c, r)
<1>1. CASE c.text
  <2>1. c.where[r] = "true" BY <1>1 DEF Constant
  <2>2. ValueOf(c, r) = AndOf({"true"} \cup {o[r] : o \in c.outer}) BY <2>1 DEF ValueOf
  <2>3. Flattened(c, r) = AndOf({o[r] : o \in c.outer}) BY <1>1 DEF Flattened
  <2> QED BY <2>2, <2>3, TruePartDropped
<1>2. CASE ~c.text BY <1>2 DEF Flattened, ValueOf
<1> QED BY <1>1, <1>2

(* The outer conditions of the children of an "and" may be tested after    *)
(* all the inner ones.                                                     *)
LEMMA AndKeepsValue ==
    ASSUME NEW S \in SUBSET Fragments, NEW r \in Rows,
           \A c \in S : ValueOf(c, r) = c.meaning[r]
    PROVE  ValueOf(AndFragment(S), r) = AndFragment(S).meaning[r]
<1> DEFINE L == {AndOf(WhereOf(S, r))} \cup {o[r] : o \in OuterOf(S)}
           R == MeaningOf(S, r)
           Pieces(c) == {c.where[r]} \cup {o[r] : o \in c.outer}
<1>1. ValueOf(AndFragment(S), r) = AndOf(L) BY DEF ValueOf, AndFragment
<1>2. AndFragment(S).meaning[r] = AndOf(R) BY DEF AndFragment
<1>3. "false" \in L <=> \E c \in S : "false" \in Pieces(c)
  <2>1. AndOf(WhereOf(S, r)) = "false" <=> \E c \in S : c.where[r] = "false"
    BY AndValues DEF WhereOf
  <2>2. "false" \in {o[r] : o \in OuterOf(S)} <=> \E c \in S : "false" \in {o[r] : o \in c.outer}
    BY DEF OuterOf
  <2> QED BY <2>1, <2>2
<1>4. "false" \in R <=> \E c \in S : "false" \in Pieces(c)
  <2>1. \A c \in S : c.meaning[r] = "false" <=> "false" \in Pieces(c) BY AndValues DEF ValueOf
  <2> QED BY <2>1 DEF MeaningOf
<1>5. ASSUME "false" \notin L PROVE "null" \in L <=> "null" \in R
  <2>1. \A c \in S : "false" \notin Pieces(c) BY <1>3, <1>5
  <2>2. AndOf(WhereOf(S, r)) = "null" <=> \E c \in S : c.where[r] = "null"
    BY <2>1, AndValues DEF WhereOf
  <2>3. "null" \in {o[r] : o \in OuterOf(S)} <=> \E c \in S : "null" \in {o[r] : o \in c.outer}
    BY DEF OuterOf
  <2>4. \A c \in S : c.meaning[r] = "null" <=> "null" \in Pieces(c)
    BY <2>1, AndValues DEF ValueOf
  <2> QED BY <2>2, <2>3, <2>4 DEF MeaningOf
<1>6. AndOf(L) = AndOf(R)
  <2>1. CASE "false" \in L BY <2>1, <1>3, <1>4 DEF AndOf
  <2>2. CASE "false" \notin L BY <2>2, <1>3, <1>4, <1>5, AndEqual
  <2> QED BY <2>1, <2>2
<1> QED BY <1>1, <1>2, <1>6

(* The new fragments have the type of fragments. *)
LEMMA LeafType ==
    ASSUME NEW l \in Leaves, params \in Nat
    PROVE  LeafFragment(l) \in Fragments
<1>1. l \in [where : Conditions, text : BOOLEAN, outer : SUBSET Conditions,
             params : Nat, cte : SUBSET Nat, refused : BOOLEAN]
  BY CompilerConstants
<1>2. [r \in Rows |-> ValueOf(l, r)] \in Conditions BY AndValues DEF ValueOf, Conditions
<1>3. CteName(l) \in SUBSET Nat BY <1>1 DEF CteName
<1> QED BY <1>1, <1>2, <1>3 DEF LeafFragment, Fragments

LEMMA FoldTypes ==
    ASSUME NEW S \in SUBSET Fragments
    PROVE  /\ AndFragment(S) \in Fragments
           /\ OrFragment(S) \in Fragments
           /\ \A c \in S : NotFragment(c) \in Fragments
<1>1. /\ [r \in Rows |-> AndOf(WhereOf(S, r))] \in Conditions
      /\ [r \in Rows |-> AndOf(MeaningOf(S, r))] \in Conditions
  BY AndValues DEF Conditions
<1>2. /\ [r \in Rows |-> OrOf({Flattened(c, r) : c \in S})] \in Conditions
      /\ [r \in Rows |-> OrOf(MeaningOf(S, r))] \in Conditions
  BY OrIsValue DEF Conditions
<1>3. \A c \in S : /\ [r \in Rows |-> NotOf(Flattened(c, r))] \in Conditions
                   /\ [r \in Rows |-> NotOf(c.meaning[r])] \in Conditions
  BY NotIsValue DEF Conditions
<1>4. OuterOf(S) \in SUBSET Conditions /\ CtesOf(S) \in SUBSET Nat
  BY DEF OuterOf, CtesOf, Fragments
<1>5. UNION {c.rows : c \in S} \in SUBSET Rows BY DEF Fragments
<1>6. \A c \in S : c.ctes \in SUBSET Nat BY DEF Fragments
<1>7. AndFragment(S) \in Fragments BY <1>1, <1>4 DEF AndFragment, Fragments
<1>8. OrFragment(S) \in Fragments BY <1>2, <1>4, <1>5 DEF OrFragment, Fragments
<1>9. \A c \in S : NotFragment(c) \in Fragments BY <1>3, <1>6 DEF NotFragment, Fragments
<1> QED BY <1>7, <1>8, <1>9

LEMMA ValueOfWhereOnly ==
    ASSUME NEW c, NEW r, c.outer = {}, c.where[r] \in Values
    PROVE  ValueOf(c, r) = c.where[r]
BY DEF ValueOf, AndOf, Values

(* The children of a sound compound are sound, and so is it. *)
LEMMA FoldSound ==
    ASSUME NEW S \in SUBSET Fragments, NEW k \in Nat, \A c \in S : Sound(c, k)
    PROVE  /\ Sound(AndFragment(S), k)
           /\ Sound(OrFragment(S), k)
           /\ \A c \in S : Sound(NotFragment(c), k)
<1>1. \A c \in S, r \in Rows : Flattened(c, r) = c.meaning[r]
  BY FlattenedValue DEF Sound
<1>2. Sound(AndFragment(S), k)
  <2>1. AndFragment(S).text => AndFragment(S).where = Constant("true")
    <3>1. SUFFICES ASSUME S = {} PROVE AndFragment(S).where = Constant("true")
      BY DEF AndFragment
    <3>2. \A r \in Rows : AndOf(WhereOf(S, r)) = "true" BY <3>1 DEF WhereOf, AndOf
    <3> QED BY <3>2 DEF AndFragment, Constant
  <2>2. \A n \in AndFragment(S).ctes : n <= k BY DEF AndFragment, CtesOf, Sound
  <2>3. \A r \in Rows : ValueOf(AndFragment(S), r) = AndFragment(S).meaning[r]
    BY AndKeepsValue DEF Sound
  <2> QED BY <2>1, <2>2, <2>3 DEF Sound
<1>3. Sound(OrFragment(S), k)
  <2>1. \A r \in Rows : OrFragment(S).where[r] = OrFragment(S).meaning[r]
    <3>1. \A r \in Rows : {Flattened(c, r) : c \in S} = MeaningOf(S, r)
      BY <1>1 DEF MeaningOf
    <3> QED BY <3>1 DEF OrFragment
  <2>2. \A r \in Rows : ValueOf(OrFragment(S), r) = OrFragment(S).where[r]
    <3>1. \A r \in Rows : OrFragment(S).where[r] \in Values BY OrIsValue DEF OrFragment
    <3>2. OrFragment(S).outer = {} BY DEF OrFragment
    <3> QED BY <3>1, <3>2, ValueOfWhereOnly
  <2>3. ~OrFragment(S).text BY DEF OrFragment
  <2>4. \A n \in OrFragment(S).ctes : n <= k BY DEF OrFragment, CtesOf, Sound
  <2> QED BY <2>1, <2>2, <2>3, <2>4 DEF Sound
<1>4. ASSUME NEW c \in S PROVE Sound(NotFragment(c), k)
  <2>1. \A r \in Rows : NotFragment(c).where[r] = NotFragment(c).meaning[r]
    BY <1>1 DEF NotFragment
  <2>2. \A r \in Rows : ValueOf(NotFragment(c), r) = NotFragment(c).where[r]
    <3>1. \A r \in Rows : NotFragment(c).where[r] \in Values BY NotIsValue DEF NotFragment
    <3>2. NotFragment(c).outer = {} BY DEF NotFragment
    <3> QED BY <3>1, <3>2, ValueOfWhereOnly
  <2>3. ~NotFragment(c).text BY DEF NotFragment
  <2>4. \A n \in NotFragment(c).ctes : n <= k BY DEF NotFragment, Sound
  <2> QED BY <2>1, <2>2, <2>3, <2>4 DEF Sound
<1> QED BY <1>2, <1>3, <1>4

(* Adding parameters leaves a fragment sound. *)
LEMMA SoundLater ==
    ASSUME NEW c \in Fragments, NEW j \in Nat, NEW k \in Nat, Sound(c, j), j <= k
    PROVE  Sound(c, k)
<1>1. \A n \in c.ctes : n \in Nat BY DEF Fragments
<1>2. \A n \in c.ctes : n <= k BY <1>1 DEF Sound
<1> QED BY <1>2 DEF Sound

(* The names of a new predicate come after all names there are. *)
LEMMA LeafSound ==
    ASSUME NEW l \in Leaves, params \in Nat
    PROVE  /\ params + l.params \in Nat /\ params + l.params >= params
           /\ Sound(LeafFragment(l), params + l.params)
           /\ \A n \in LeafFragment(l).ctes : n > params
<1>1. /\ l.params \in Nat /\ l.cte \in SUBSET Nat
      /\ l.text => l.where = Constant("true")
      /\ \A n \in l.cte : n > 0 /\ n <= l.params
  BY CompilerConstants
<1>2. \A n \in LeafFragment(l).ctes : n > params /\ n <= params + l.params
  BY <1>1 DEF LeafFragment, CteName
<1>3. \A r \in Rows : ValueOf(LeafFragment(l), r) = LeafFragment(l).meaning[r]
  BY DEF LeafFragment, ValueOf
<1>4. LeafFragment(l).text => LeafFragment(l).where = Constant("true")
  BY <1>1 DEF LeafFragment
<1> QED BY <1>1, <1>2, <1>3, <1>4 DEF Sound

-----------------------------------------------------------------------------
(* The stack *)

LEMMA FoldStack ==
    ASSUME NEW T, NEW s \in Seq(T), NEW n \in 0..Len(s), NEW e \in T,
           NEW t, t = Append(SubSeq(s, 1, Len(s) - n), e)
    PROVE  /\ t \in Seq(T) /\ Len(t) = Len(s) - n + 1
           /\ \A i \in 1..Len(s) - n : t[i] = s[i]
           /\ t[Len(t)] = e
<1> DEFINE b == SubSeq(s, 1, Len(s) - n)
<1>1. b \in Seq(T) /\ Len(b) = Len(s) - n /\ \A i \in 1..Len(s) - n : b[i] = s[i]
  BY SubSeqProperties
<1>2. /\ t \in Seq(T) /\ Len(t) = Len(b) + 1
      /\ \A i \in 1..Len(b) : t[i] = b[i]
      /\ t[Len(b) + 1] = e
  BY <1>1, AppendProperties
<1> QED BY <1>1, <1>2

(* A compound of the last fragments, if it is sound and has the names of   *)
(* those only, leaves the stack as it should be.                           *)
LEMMA FoldKeepsIInv ==
    ASSUME IInv, NEW n \in Nat, NEW c \in Fragments, Fold(n, c),
           Sound(c, params), c.ctes \subseteq CtesOf(Children(n))
    PROVE  IInv'
<1>1. /\ n \in 0..Len(stack) /\ stack \in Seq(Fragments) /\ Len(stack) \in Nat
      /\ stack' = Append(SubSeq(stack, 1, Len(stack) - n), c)
      /\ pc = "compile"
      /\ nodes' = nodes + 1 /\ params' = params /\ pc' = pc /\ page' = page
  BY CompilerConstants DEF IInv, TypeOK, Fold, Room, Below
<1>2. /\ stack' \in Seq(Fragments) /\ Len(stack') = Len(stack) - n + 1
      /\ \A i \in 1..Len(stack) - n : stack'[i] = stack[i]
      /\ stack'[Len(stack')] = c
  BY <1>1, FoldStack
<1> DEFINE m == Len(stack) - n
<1>m. /\ m \in Nat /\ m <= Len(stack) /\ Len(stack') = m + 1
      /\ \A i \in 1..m : stack'[i] = stack[i]
      /\ stack'[m + 1] = c
  BY <1>1, <1>2
<1>i. \A i \in 1..Len(stack') : i = m + 1 \/ (i \in 1..m /\ i \in 1..Len(stack))
  <2> HIDE DEF m
  <2> QED BY <1>1, <1>m
<1>3. TypeOK' BY <1>1, <1>2 DEF IInv, TypeOK
<1>4. \A i \in 1..Len(stack') : Sound(stack'[i], params')
  <2> HIDE DEF m
  <2>1. \A i \in 1..m : i \in 1..Len(stack) => Sound(stack'[i], params) BY <1>m DEF IInv
  <2>2. params' = params BY <1>1
  <2> QED BY <1>i, <1>m, <2>1, <2>2
<1>5. ASSUME NEW i \in 1..m PROVE stack[i].ctes \cap c.ctes = {}
  <2>1. \A j \in (m + 1)..Len(stack) : stack[i].ctes \cap stack[j].ctes = {}
    BY <1>1 DEF IInv, CteNamesUnique
  <2>2. \A x \in c.ctes : \E j \in (m + 1)..Len(stack) : x \in stack[j].ctes
    BY DEF CtesOf, Children
  <2> QED BY <2>1, <2>2
<1>6. CteNamesUnique'
  <2> SUFFICES ASSUME NEW i \in 1..Len(stack'), NEW j \in 1..Len(stack'), i # j
               PROVE  stack'[i].ctes \cap stack'[j].ctes = {}
    BY DEF CteNamesUnique
  <2> HIDE DEF m
  <2>1. CASE i = m + 1
    <3>1. j \in 1..m BY <2>1, <1>i
    <3> QED BY <2>1, <3>1, <1>m, <1>5
  <2>2. CASE j = m + 1
    <3>1. i \in 1..m BY <2>2, <1>i
    <3> QED BY <2>2, <3>1, <1>m, <1>5
  <2>3. CASE i # m + 1 /\ j # m + 1
    <3>1. i \in 1..m /\ j \in 1..m /\ i \in 1..Len(stack) /\ j \in 1..Len(stack)
      BY <2>3, <1>i
    <3>2. stack'[i] = stack[i] /\ stack'[j] = stack[j] BY <3>1, <1>m
    <3> QED BY <3>1, <3>2 DEF IInv, CteNamesUnique
  <2> QED BY <2>1, <2>2, <2>3
<1>7. Answered' BY <1>1 DEF Answered
<1> QED BY <1>3, <1>4, <1>6, <1>7 DEF IInv

LEMMA LeafKeepsIInv ==
    ASSUME IInv, NEW l \in Leaves, CompileLeaf(l)
    PROVE  IInv'
<1> DEFINE c == LeafFragment(l)
<1>1. /\ stack \in Seq(Fragments) /\ Len(stack) \in Nat /\ params \in Nat /\ nodes \in Nat
      /\ stack' = Append(stack, c) /\ params' = params + l.params
      /\ pc = "compile" /\ nodes' = nodes + 1 /\ pc' = pc /\ page' = page
  BY DEF IInv, TypeOK, CompileLeaf, Room
<1>2. c \in Fragments BY <1>1, LeafType
<1>3. /\ params' \in Nat /\ params' >= params
      /\ Sound(c, params')
      /\ \A n \in c.ctes : n > params
  BY <1>1, LeafSound
<1>4. /\ stack' \in Seq(Fragments) /\ Len(stack') = Len(stack) + 1
      /\ \A i \in 1..Len(stack) : stack'[i] = stack[i]
      /\ stack'[Len(stack) + 1] = c
  BY <1>1, <1>2, AppendProperties
<1> HIDE DEF c
<1>5. TypeOK' BY <1>1, <1>3, <1>4 DEF IInv, TypeOK
<1>6. \A i \in 1..Len(stack) : Sound(stack[i], params) /\ stack[i] \in Fragments
  BY <1>1 DEF IInv
<1>7. \A i \in 1..Len(stack') : Sound(stack'[i], params')
  <2> SUFFICES ASSUME NEW i \in 1..Len(stack') PROVE Sound(stack'[i], params') OBVIOUS
  <2>1. CASE i = Len(stack) + 1 BY <2>1, <1>3, <1>4
  <2>2. CASE i # Len(stack) + 1
    <3>1. i \in 1..Len(stack) BY <2>2, <1>1, <1>4
    <3> QED BY <3>1, <1>1, <1>3, <1>4, <1>6, SoundLater
  <2> QED BY <2>1, <2>2
<1>8. ASSUME NEW i \in 1..Len(stack) PROVE stack[i].ctes \cap c.ctes = {}
  <2>1. \A n \in stack[i].ctes : n \in Nat /\ n <= params BY <1>6 DEF Sound, Fragments
  <2>2. \A n \in c.ctes : n \in Nat BY <1>2 DEF Fragments
  <2> QED BY <2>1, <2>2, <1>1, <1>3
<1>9. CteNamesUnique'
  <2> SUFFICES ASSUME NEW i \in 1..Len(stack'), NEW j \in 1..Len(stack'), i # j
               PROVE  stack'[i].ctes \cap stack'[j].ctes = {}
    BY DEF CteNamesUnique
  <2>1. CASE i = Len(stack) + 1
    <3>1. j \in 1..Len(stack) BY <2>1, <1>1, <1>4
    <3> QED BY <2>1, <3>1, <1>4, <1>8
  <2>2. CASE j = Len(stack) + 1
    <3>1. i \in 1..Len(stack) BY <2>2, <1>1, <1>4
    <3> QED BY <2>2, <3>1, <1>4, <1>8
  <2>3. CASE i # Len(stack) + 1 /\ j # Len(stack) + 1
    <3>1. i \in 1..Len(stack) /\ j \in 1..Len(stack) BY <2>3, <1>1, <1>4
    <3> QED BY <3>1, <1>4 DEF IInv, CteNamesUnique
  <2> QED BY <2>1, <2>2, <2>3
<1>10. Answered' BY <1>1 DEF Answered
<1> QED BY <1>5, <1>7, <1>9, <1>10 DEF IInv

LEMMA IInvInit == Init => IInv
<1> SUFFICES ASSUME Init PROVE IInv OBVIOUS
<1>1. stack = << >> /\ Len(stack) = 0 /\ pc = "compile" BY DEF Init
<1>2. TypeOK BY <1>1 DEF Init, TypeOK
<1> QED BY <1>1, <1>2 DEF IInv, CteNamesUnique, Answered

LEMMA IInvStep == IInv /\ [Next]_vars => IInv'
<1> SUFFICES ASSUME IInv, [Next]_vars PROVE IInv' OBVIOUS
<1>0. ASSUME NEW n \in Nat, n <= Len(stack)
      PROVE  Children(n) \in SUBSET Fragments /\ \A c \in Children(n) : Sound(c, params)
  <2>1. stack \in Seq(Fragments) /\ Len(stack) \in Nat BY DEF IInv, TypeOK
  <2>2. \A i \in (Len(stack) - n + 1)..Len(stack) :
           i \in 1..Len(stack) /\ stack[i] \in Fragments
    BY <1>0, <2>1, CompilerConstants
  <2> QED BY <2>2 DEF IInv, Children
<1>1. ASSUME NEW l \in Leaves, CompileLeaf(l) PROVE IInv' BY <1>1, LeafKeepsIInv
<1>2. ASSUME NEW l \in Leaves, Refuse(l) PROVE IInv'
  BY <1>2 DEF Refuse, Room, IInv, TypeOK, CteNamesUnique, Answered
<1>3. ASSUME NEW n \in 0..MaxChildren, CompileAnd(n) PROVE IInv'
  <2>1. n <= Len(stack) BY <1>3 DEF CompileAnd, Fold
  <2>2. Sound(AndFragment(Children(n)), params) /\ AndFragment(Children(n)) \in Fragments
    BY <2>1, <1>0, FoldSound, FoldTypes DEF IInv, TypeOK
  <2>3. AndFragment(Children(n)).ctes \subseteq CtesOf(Children(n)) BY DEF AndFragment
  <2> QED BY <1>3, <2>2, <2>3, FoldKeepsIInv DEF CompileAnd
<1>4. ASSUME NEW n \in 0..MaxChildren, CompileOr(n) PROVE IInv'
  <2>1. n <= Len(stack) BY <1>4 DEF CompileOr, Fold
  <2>2. Sound(OrFragment(Children(n)), params) /\ OrFragment(Children(n)) \in Fragments
    BY <2>1, <1>0, FoldSound, FoldTypes DEF IInv, TypeOK
  <2>3. OrFragment(Children(n)).ctes \subseteq CtesOf(Children(n)) BY DEF OrFragment
  <2> QED BY <1>4, <2>2, <2>3, FoldKeepsIInv DEF CompileOr
<1>5. CASE CompileNot
  <2> DEFINE c == stack[Len(stack)]
  <2>1. stack \in Seq(Fragments) /\ Len(stack) \in Nat /\ 1 <= Len(stack)
    BY <1>5 DEF CompileNot, Fold, IInv, TypeOK
  <2>2. c \in Fragments /\ Sound(c, params) BY <2>1 DEF IInv
  <2>3. Sound(NotFragment(c), params) /\ NotFragment(c) \in Fragments
    <3>1. {c} \in SUBSET Fragments /\ \A d \in {c} : Sound(d, params) BY <2>2
    <3>2. params \in Nat BY DEF IInv, TypeOK
    <3> QED BY <3>1, <3>2, FoldSound, FoldTypes
  <2>4. NotFragment(c).ctes \subseteq CtesOf(Children(1))
    BY <2>1 DEF NotFragment, CtesOf, Children
  <2> QED BY <1>5, <2>3, <2>4, FoldKeepsIInv DEF CompileNot
<1>6. CASE Run
  <2>1. page' \subseteq Rows BY <1>6 DEF Run, First, Selected, Candidates
  <2>2. /\ params' = params + 1 /\ params' \in Nat /\ params' >= params /\ params \in Nat
        /\ stack' = stack /\ Len(stack) = 1 /\ nodes' = nodes /\ pc' = "answered"
        /\ page' = First(Limit + 1, Selected(stack[1]))
    BY <1>6 DEF Run, IInv, TypeOK
  <2>3. TypeOK' BY <2>1, <2>2 DEF IInv, TypeOK
  <2>4. \A i \in 1..Len(stack') : Sound(stack'[i], params')
    <3>1. \A i \in 1..Len(stack) : Sound(stack[i], params) /\ stack[i] \in Fragments
      BY DEF IInv, TypeOK
    <3> QED BY <2>2, <3>1, SoundLater
  <2>5. Answered'
    <3>1. Selected(stack[1])' = Selected(stack[1])
      BY <2>2 DEF Selected
    <3> QED BY <2>2, <3>1 DEF Answered, First
  <2>6. CteNamesUnique' BY <2>2 DEF IInv, CteNamesUnique
  <2> QED BY <2>3, <2>4, <2>5, <2>6 DEF IInv
<1>7. CASE UNCHANGED vars
  BY <1>7 DEF vars, IInv, TypeOK, CteNamesUnique, Answered
<1> QED BY <1>1, <1>2, <1>3, <1>4, <1>5, <1>6, <1>7 DEF Next

THEOREM Invariance == Spec => []IInv
BY IInvInit, IInvStep, PTL DEF Spec

(* The state has the types that TypeOK gives. *)
THEOREM TypeCorrect == Spec => []TypeOK
<1>1. IInv => TypeOK BY DEF IInv
<1> QED BY <1>1, Invariance, PTL

(* A fragment keeps the value of its predicate, whatever is deferred to    *)
(* the outer query and flattened back into an "or" or a "not".             *)
THEOREM NestingCorrect == Spec => []NestingKeepsValue
<1>1. IInv => NestingKeepsValue BY DEF IInv, Sound, NestingKeepsValue
<1> QED BY <1>1, Invariance, PTL

(* The CTEs of a request have names of their own. *)
THEOREM CteNamesCorrect == Spec => []CteNamesUnique
<1>1. IInv => CteNamesUnique BY DEF IInv
<1> QED BY <1>1, Invariance, PTL

(* The inner query keeps all its candidates when they are at most as many  *)
(* as its limit.                                                           *)
LEMMA FewCandidates ==
    ASSUME NEW S \in SUBSET Rows, Cardinality(S) <= InnerLimit
    PROVE  Candidates(S) = S
<1>1. IsFiniteSet(S) /\ InnerLimit \in Nat BY FS_Subset, CompilerConstants
<1>2. ASSUME NEW r \in S PROVE Cardinality({s \in S : s > r}) < InnerLimit
  <2>1. {s \in S : s > r} \subseteq S \ {r} BY CompilerConstants
  <2>2. /\ IsFiniteSet(S \ {r}) /\ Cardinality(S \ {r}) = Cardinality(S) - 1
    BY <1>1, FS_RemoveElement
  <2>3. Cardinality({s \in S : s > r}) <= Cardinality(S \ {r}) BY <2>1, <2>2, FS_Subset
  <2>4. /\ Cardinality(S) \in Nat /\ Cardinality(S \ {r}) \in Nat
        /\ Cardinality({s \in S : s > r}) \in Nat
    BY <1>1, <2>1, <2>2, FS_CardinalityType, FS_Subset
  <2> QED BY <1>1, <2>2, <2>3, <2>4
<1> QED BY <1>2 DEF Candidates, First

(* The page holds the newest rows of which the predicate is true, in one   *)
(* query or in two.                                                        *)
THEOREM PageCorrect == Spec => []PageOfNewest
<1>1. ASSUME IInv PROVE PageOfNewest
  <2> DEFINE c == stack[1]
             inner == {r \in Rows : c.where[r] = "true"}
  <2> SUFFICES ASSUME pc = "answered", Cardinality(inner) <= InnerLimit
               PROVE  page = First(Limit + 1, {r \in Rows : c.meaning[r] = "true"})
    BY DEF PageOfNewest
  <2>1. Len(stack) = 1 /\ page = First(Limit + 1, Selected(c)) BY <1>1 DEF IInv, Answered
  <2>2. Sound(c, params) BY <1>1, <2>1 DEF IInv
  <2>3. Candidates(inner) = inner BY FewCandidates
  <2>4. \A r \in Rows : c.meaning[r] = "true" <=>
           c.where[r] = "true" /\ AndOf({o[r] : o \in c.outer}) = "true"
    <3>1. stack \in Seq(Fragments) /\ c \in Fragments BY <1>1, <2>1 DEF IInv, TypeOK
    <3>2. \A r \in Rows : c.where[r] \in Values BY <3>1 DEF Fragments, Conditions
    <3>3. \A r \in Rows : c.meaning[r] = AndOf({c.where[r]} \cup {o[r] : o \in c.outer})
      BY <2>2 DEF Sound, ValueOf
    <3> QED BY <3>2, <3>3 DEF AndOf, Values
  <2>5. c.outer = {} => \A r \in Rows : AndOf({o[r] : o \in c.outer}) = "true" BY DEF AndOf
  <2>6. Selected(c) = {r \in Rows : c.meaning[r] = "true"} BY <2>3, <2>4, <2>5 DEF Selected
  <2> QED BY <2>1, <2>6
<1> QED BY <1>1, Invariance, PTL

-----------------------------------------------------------------------------
(* Trajectory predicates.  The least and the greatest of what a flight     *)
(* has: its instants, altitudes and heights.                               *)

(* A number for each member of a finite set: one has the least.            *)
LEMMA LowestIsThere ==
    ASSUME NEW D, IsFiniteSet(D), D # {}, NEW fn \in [D -> Int]
    PROVE  \E a \in D : \A t \in D : fn[a] <= fn[t]
<1> DEFINE below(t) == {u \in D : fn[u] < fn[t]}
           counts   == {Cardinality(below(t)) : t \in D}
           less     == {e \in Nat \X Nat : e[1] < e[2]}
<1>1. ASSUME NEW t \in D PROVE IsFiniteSet(below(t)) /\ Cardinality(below(t)) \in Nat
  <2>1. below(t) \in SUBSET D
    OBVIOUS
  <2> HIDE DEF below
  <2>2. QED
    BY <2>1, FS_Subset, FS_CardinalityType
<1>2. counts \in SUBSET Nat /\ counts # {}
  <2> HIDE DEF below
  <2> QED
    BY <1>1
<1>3. PICK n \in counts : \A m \in counts : ~(<<m, n>> \in less)
  <2>1. IsWellFoundedOn(less, Nat)
    BY NatLessThanWellFounded DEF OpToRel
  <2> HIDE DEF less, counts
  <2> QED
    BY <1>2, <2>1, WFMin
<1>4. PICK a \in D : n = Cardinality(below(a))
  <2> HIDE DEF below
  <2> QED
    OBVIOUS
<1>5. ASSUME NEW t \in D, fn[t] < fn[a] PROVE FALSE
  <2>1. below(t) \in SUBSET below(a) /\ t \in below(a) /\ t \notin below(t)
    <3>1. fn[t] \in Int /\ fn[a] \in Int /\ \A u \in D : fn[u] \in Int
      OBVIOUS
    <3> QED
      BY <1>5, <3>1
  <2> HIDE DEF below
  <2>2. /\ Cardinality(below(t)) <= Cardinality(below(a))
        /\ Cardinality(below(t)) # Cardinality(below(a))
    BY <1>1, <2>1, FS_Subset
  <2>3. Cardinality(below(t)) \in counts /\ Cardinality(below(t)) \in Nat /\ n \in Nat
    BY <1>1, <1>4
  <2>4. Cardinality(below(t)) < n
    BY <1>4, <2>2, <2>3
  <2> HIDE DEF counts
  <2> QED
    BY <1>3, <2>3, <2>4
<1>6. ASSUME NEW t \in D PROVE fn[a] <= fn[t]
  <2>1. fn[t] \in Int /\ fn[a] \in Int /\ ~(fn[t] < fn[a])
    BY <1>5
  <2> QED
    BY <2>1
<1> QED
    BY <1>6

LEMMA Extremes ==
    ASSUME NEW D, IsFiniteSet(D), D # {}, NEW fn \in [D -> Int],
           NEW S, S = {fn[t] : t \in D}
    PROVE  /\ Min(S) \in S /\ Max(S) \in S
           /\ Min(S) \in Int /\ Max(S) \in Int
           /\ \A t \in D : Min(S) <= fn[t] /\ fn[t] <= Max(S)
<1>1. PICK a \in D : \A t \in D : fn[a] <= fn[t]
    BY LowestIsThere
<1>2. PICK b \in D : \A t \in D : fn[t] <= fn[b]
  <2> DEFINE minus == [t \in D |-> -fn[t]]
  <2>1. minus \in [D -> Int]
    OBVIOUS
  <2>2. PICK c \in D : \A t \in D : minus[c] <= minus[t]
    <3> HIDE DEF minus
    <3> QED
      BY <2>1, LowestIsThere
  <2>3. ASSUME NEW t \in D PROVE fn[t] <= fn[c]
    <3>1. -fn[c] <= -fn[t] /\ fn[c] \in Int /\ fn[t] \in Int
      BY <2>2
    <3> QED
      BY <3>1
  <2> QED
    BY <2>3
<1>3. fn[a] \in S /\ fn[b] \in S /\ \A x \in S : x \in Int /\ fn[a] <= x /\ x <= fn[b]
    BY <1>1, <1>2
<1>4. Min(S) \in S /\ \A x \in S : Min(S) <= x
    BY <1>3 DEF Min
<1>5. Max(S) \in S /\ \A x \in S : Max(S) >= x
    BY <1>3 DEF Max
<1> QED
    BY <1>3, <1>4, <1>5

(* The same of the members of a finite set of numbers. *)
LEMMA SetExtremes ==
    ASSUME NEW S \in SUBSET Int, IsFiniteSet(S), S # {}
    PROVE  /\ Min(S) \in S /\ Max(S) \in S
           /\ \A x \in S : Min(S) <= x /\ x <= Max(S)
<1> DEFINE same == [x \in S |-> x]
<1>1. same \in [S -> Int] /\ S = {same[x] : x \in S} /\ \A x \in S : same[x] = x
    OBVIOUS
<1> HIDE DEF same
<1> QED
    BY <1>1, Extremes

-----------------------------------------------------------------------------
(* The row. *)

LEMMA KnownEnds ==
    ASSUME NEW f, IsStored(f)
    PROVE  /\ Start(f) \in Known(f) /\ End(f) \in Known(f)
           /\ \A t \in Known(f) : t \in Nat /\ Start(f) <= t /\ t <= End(f)
<1>1. Known(f) \in SUBSET Int /\ IsFiniteSet(Known(f)) /\ Known(f) # {} /\ Known(f) \subseteq Nat
  BY DEF IsStored
<1> QED
  BY <1>1, SetExtremes DEF Start, End

LEMMA CorrectionTyped ==
    ASSUME NEW f, IsStored(f), f.corr # {}
    PROVE  /\ Correction(f) \in f.corr /\ f.corr = {Correction(f)}
           /\ DOMAIN Correction(f) \subseteq Known(f)
           /\ Correction(f) \in [DOMAIN Correction(f) -> Int]
           /\ Start(f) \in DOMAIN Correction(f) /\ End(f) \in DOMAIN Correction(f)
<1>1. Correction(f) \in f.corr
  BY DEF Correction
<1>2. \A x, y \in f.corr : x = y
  BY DEF IsStored, IsSeries, AtMostOne
<1> QED
  BY <1>1, <1>2 DEF IsStored, IsSeries

LEMMA FeetTyped ==
    ASSUME NEW f, IsStored(f), NEW t \in Known(f), NEW ref, HasAltitude(f, ref, t)
    PROVE  Feet(f, ref, t) \in Int
<1>1. f.alt[t] \in Int
  BY DEF IsStored
<1>2. ref = "ft" /\ f.corr # {} => Correction(f)[t] \in Int
  BY CorrectionTyped DEF HasAltitude
<1> QED
  BY <1>1, <1>2 DEF Feet, None

LEMMA PressureIsKnown ==
    ASSUME NEW f, NEW t
    PROVE  HasAltitude(f, "fl", t)
BY DEF HasAltitude

(* The stored columns of the altitude are its extremes. *)
LEMMA AltColumns ==
    ASSUME NEW f, IsStored(f), NEW ref
    PROVE  /\ AltMin(f, ref) \in Int /\ AltMax(f, ref) \in Int
           /\ \E t \in Known(f) : HasAltitude(f, ref, t) /\ AltMin(f, ref) = Feet(f, ref, t)
           /\ \E t \in Known(f) : HasAltitude(f, ref, t) /\ AltMax(f, ref) = Feet(f, ref, t)
           /\ \A t \in Known(f) : HasAltitude(f, ref, t) =>
                  AltMin(f, ref) <= Feet(f, ref, t) /\ Feet(f, ref, t) <= AltMax(f, ref)
<1> DEFINE K  == {t \in Known(f) : HasAltitude(f, ref, t)}
           fn == [t \in K |-> Feet(f, ref, t)]
           S  == {Feet(f, ref, t) : t \in K}
<1>1. IsFiniteSet(K) /\ K # {}
  <2>1. IsFiniteSet(Known(f)) /\ K \subseteq Known(f)
    BY DEF IsStored
  <2>2. Start(f) \in K
    BY KnownEnds, CorrectionTyped DEF HasAltitude
  <2> QED
    BY <2>1, <2>2, FS_Subset
<1>2. fn \in [K -> Int] /\ S = {fn[t] : t \in K} /\ \A t \in K : fn[t] = Feet(f, ref, t)
  BY FeetTyped
<1>3. Min(S) = AltMin(f, ref) /\ Max(S) = AltMax(f, ref)
  BY DEF AltMin, AltMax, Altitudes
<1>4. \A t : t \in K <=> t \in Known(f) /\ HasAltitude(f, ref, t)
  OBVIOUS
<1> HIDE DEF fn, K
<1>5. /\ Min(S) \in S /\ Max(S) \in S /\ Min(S) \in Int /\ Max(S) \in Int
      /\ \A t \in K : Min(S) <= fn[t] /\ fn[t] <= Max(S)
  <2> HIDE DEF S
  <2> QED
    BY <1>1, <1>2, Extremes
<1> QED
  BY <1>2, <1>3, <1>4, <1>5

(* The places of a row. *)
LEMMA RowBox ==
    ASSUME NEW f, IsStored(f), NEW t \in Known(f)
    PROVE  f.place[t] \in Int /\ f.place[t] \in Box(Ran(f.place))
<1>1. IsFiniteSet(Known(f)) /\ Known(f) # {} /\ f.place \in [Known(f) -> Int]
  BY DEF IsStored
<1>2. Ran(f.place) = {f.place[u] : u \in Known(f)}
  BY DEF Ran, Known
<1>3. /\ Min(Ran(f.place)) \in Int /\ Max(Ran(f.place)) \in Int
      /\ Min(Ran(f.place)) <= f.place[t] /\ f.place[t] <= Max(Ran(f.place))
  BY <1>1, <1>2, Extremes
<1> QED
  BY <1>1, <1>3 DEF Box

-----------------------------------------------------------------------------
(* The block. *)

LEMMA BlockTypes ==
    ASSUME NEW v, IsBlock(v)
    PROVE  /\ v.kind \in {"intersects", "within"}
           /\ AtMostOne(v.geometry) /\ AtMostOne(v.altMin) /\ AtMostOne(v.altMax)
           /\ AtMostOne(v.from) /\ AtMostOne(v.to) /\ AtMostOne(v.aglMin) /\ AtMostOne(v.aglMax)
           /\ AtMostOne(v.dwellMin) /\ AtMostOne(v.distMin)
           /\ \A a \in v.altMin \cup v.altMax : a.ref \in {"fl", "ft"} /\ a.ft \in Int
           /\ v.from \subseteq Int /\ v.to \subseteq Int /\ v.aglMin \subseteq Int /\ v.aglMax \subseteq Int
           /\ v.dwellMin \subseteq Int /\ v.dwellMax \subseteq Int
           /\ v.distMin \subseteq Int /\ v.distMax \subseteq Int
BY DEF IsBlock, Options

(* The area of a geometry, and its box. *)
LEMMA AreaOfGeometry ==
    ASSUME NEW v, IsBlock(v), v.geometry # None
    PROVE  /\ \A x : x \in Area(v) <=> \A g \in v.geometry : x \in g.places
           /\ \A g \in v.geometry : Area(v) = g.places
           /\ Area(v) \subseteq Int /\ Area(v) # {} /\ Area(v) \subseteq Box(Area(v))
<1>1. PICK g \in v.geometry : TRUE
  BY DEF None
<1>2. \A h \in v.geometry : h = g
  BY BlockTypes DEF AtMostOne
<1>3. g.places # {} /\ g.places \subseteq Int /\ IsFiniteSet(g.places)
  BY <1>1 DEF IsBlock
<1>4. Area(v) = g.places
  BY <1>1, <1>2 DEF Area
<1>5. /\ Min(Area(v)) \in Area(v) /\ Max(Area(v)) \in Area(v)
      /\ \A x \in Area(v) : Min(Area(v)) <= x /\ x <= Max(Area(v))
  BY <1>3, <1>4, SetExtremes
<1>6. Area(v) \subseteq Box(Area(v))
  BY <1>3, <1>4, <1>5 DEF Box
<1> QED
  BY <1>1, <1>2, <1>3, <1>4, <1>6

(* What clipping by one constraint leaves, in the words of JointAt. *)
LEMMA ClipsByPlace ==
    ASSUME NEW s, NEW v, IsBlock(v), NEW T, NEW t
    PROVE  t \in AtGeometry(s, v, T) <=> t \in T /\ \A g \in v.geometry : s.place[t] \in g.places
<1>1. CASE v.geometry = None
  BY <1>1 DEF AtGeometry, None
<1>2. CASE v.geometry # None
  BY <1>2, AreaOfGeometry DEF AtGeometry
<1> QED
  BY <1>1, <1>2

LEMMA ClipsByTime ==
    ASSUME NEW v, NEW T, NEW t
    PROVE  t \in AtTime(v, T) <=> t \in T /\ (\A from \in v.from : from <= t) /\ (\A to \in v.to : t < to)
BY DEF AtTime

LEMMA BoundOf ==
    ASSUME NEW limit, NEW ref, NEW x
    PROVE  x \in Bound(limit, ref) <=> \E a \in limit : a.ref = ref /\ x = a.ft
BY DEF Bound

LEMMA ClipsByAltitude ==
    ASSUME NEW s, NEW v, IsBlock(v), NEW T, NEW t
    PROVE  t \in AtAltitude(s, v, T) <=>
               /\ t \in T
               /\ \A low \in v.altMin : HasAltitude(s, low.ref, t) /\ Feet(s, low.ref, t) >= low.ft
               /\ \A high \in v.altMax : HasAltitude(s, high.ref, t) /\ Feet(s, high.ref, t) <= high.ft
<1> DEFINE above(low, ref)  == HasAltitude(s, ref, t) /\ Feet(s, ref, t) >= low.ft
           under(high, ref) == HasAltitude(s, ref, t) /\ Feet(s, ref, t) <= high.ft
<1>1. \A a \in v.altMin \cup v.altMax : a.ref \in {"fl", "ft"}
  BY BlockTypes
<1>2. ASSUME NEW ref \in {"fl", "ft"}
      PROVE  t \in AtRef(s, v, ref, T) <=>
                 /\ t \in T
                 /\ \A low \in v.altMin : low.ref = ref => above(low, ref)
                 /\ \A high \in v.altMax : high.ref = ref => under(high, ref)
  <2>1. Bounded(v, ref) <=> \E a \in v.altMin \cup v.altMax : a.ref = ref
    BY DEF Bounded, Bound, None
  <2>2. InBounds(Feet(s, ref, t), Bound(v.altMin, ref), Bound(v.altMax, ref)) <=>
            /\ \A low \in v.altMin : low.ref = ref => Feet(s, ref, t) >= low.ft
            /\ \A high \in v.altMax : high.ref = ref => Feet(s, ref, t) <= high.ft
    BY BoundOf DEF InBounds
  <2> QED
    BY <2>1, <2>2 DEF AtRef
<1>3. t \in AtAltitude(s, v, T) <=> t \in AtRef(s, v, "fl", T) /\ t \in AtRef(s, v, "ft", T)
  BY DEF AtAltitude
<1> HIDE DEF above, under
<1>4. (\A low \in v.altMin : above(low, low.ref)) <=>
          \A ref \in {"fl", "ft"}, low \in v.altMin : low.ref = ref => above(low, ref)
  BY <1>1
<1>5. (\A high \in v.altMax : under(high, high.ref)) <=>
          \A ref \in {"fl", "ft"}, high \in v.altMax : high.ref = ref => under(high, ref)
  BY <1>1
<1>6. t \in AtAltitude(s, v, T) <=>
          /\ t \in T
          /\ \A low \in v.altMin : above(low, low.ref)
          /\ \A high \in v.altMax : under(high, high.ref)
  BY <1>2, <1>3, <1>4, <1>5
<1> QED
  BY <1>6 DEF above, under

InHeights(f, v, t) == \E agl \in f.agl : t \in DOMAIN agl /\ InBounds(agl[t], v.aglMin, v.aglMax)

LEMMA ClipsByHeight ==
    ASSUME NEW s, NEW v, NEW T, NEW t
    PROVE  t \in AtAgl(s, v, T) <=> t \in T /\ (HasAgl(v) => InHeights(s, v, t))
BY DEF AtAgl, InHeights

(* JointAt without the heights. *)
PlacedAt(s, v, t) ==
    /\ \A g \in v.geometry : s.place[t] \in g.places
    /\ \A low \in v.altMin : HasAltitude(s, low.ref, t) /\ Feet(s, low.ref, t) >= low.ft
    /\ \A high \in v.altMax : HasAltitude(s, high.ref, t) /\ Feet(s, high.ref, t) <= high.ft
    /\ \A from \in v.from : from <= t
    /\ \A to \in v.to : t < to

LEMMA JointIsPlaced ==
    ASSUME NEW s, NEW v, NEW t
    PROVE  JointAt(s, v, t) <=> PlacedAt(s, v, t) /\ (HasAgl(v) => InHeights(s, v, t))
BY DEF JointAt, PlacedAt, InHeights

LEMMA InStbox ==
    ASSUME NEW f, NEW v, NEW t
    PROVE  t \in AtStbox(f, v) <=>
               /\ t \in Known(f) /\ f.place[t] \in Box(Area(v))
               /\ (\A from \in v.from : from <= t) /\ (\A to \in v.to : t < to)
BY ClipsByTime DEF AtStbox

(* With a geometry the clipped path is what a placed instant is on, and    *)
(* the one that heights clip further has the joint instants.               *)
LEMMA ClippedIsPlaced ==
    ASSUME NEW f, IsStored(f), NEW v, IsBlock(v), v.geometry # None, NEW t
    PROVE  t \in AtGeometry(f, v, Clipped(f, v)) <=> t \in Known(f) /\ PlacedAt(f, v, t)
<1>1. t \in AtGeometry(f, v, Clipped(f, v)) <=>
          t \in Clipped(f, v) /\ \A g \in v.geometry : f.place[t] \in g.places
  BY ClipsByPlace
<1>2. CASE HasTime(v) \/ HasAlt(v)
  <2>1. t \in Clipped(f, v) <=>
            /\ t \in AtStbox(f, v)
            /\ \A low \in v.altMin : HasAltitude(f, low.ref, t) /\ Feet(f, low.ref, t) >= low.ft
            /\ \A high \in v.altMax : HasAltitude(f, high.ref, t) /\ Feet(f, high.ref, t) <= high.ft
    BY <1>2, ClipsByAltitude DEF Clipped
  <2>2. (\A g \in v.geometry : f.place[t] \in g.places) => f.place[t] \in Box(Area(v))
    BY AreaOfGeometry
  <2> QED
    BY <1>1, <2>1, <2>2, InStbox DEF PlacedAt
<1>3. CASE ~(HasTime(v) \/ HasAlt(v))
  <2>1. v.altMin = {} /\ v.altMax = {} /\ v.from = {} /\ v.to = {}
    BY <1>3 DEF HasTime, HasAlt, None
  <2>2. Clipped(f, v) = Known(f)
    BY <1>3 DEF Clipped
  <2> QED
    BY <1>1, <2>1, <2>2 DEF PlacedAt
<1> QED
  BY <1>2, <1>3

LEMMA EffectiveIsJoint ==
    ASSUME NEW f, IsStored(f), NEW v, IsBlock(v), v.geometry # None, NEW t
    PROVE  t \in EffectiveClipped(f, v) <=> t \in Known(f) /\ JointAt(f, v, t)
BY ClippedIsPlaced, ClipsByHeight, JointIsPlaced DEF EffectiveClipped

(* What is measured of a clipped path are its joint instants. *)
LEMMA MeasuredIsJoint ==
    ASSUME NEW f, NEW v, IsBlock(v)
    PROVE  Measured(f, v) = {t \in Known(Stitched(f)) : JointAt(Stitched(f), v, t)}
<1> DEFINE s == Stitched(f)
<1> HIDE DEF s
<1>1. ASSUME NEW t
      PROVE  t \in AtGeometry(s, v, AtAgl(s, v, AtAltitude(s, v, AtTime(v, Known(s))))) <=>
                 t \in Known(s) /\ JointAt(s, v, t)
  <2> DEFINE timed == AtTime(v, Known(s))
             level == AtAltitude(s, v, timed)
             high  == AtAgl(s, v, level)
  <2>1. t \in timed <=>
            t \in Known(s) /\ (\A from \in v.from : from <= t) /\ (\A to \in v.to : t < to)
    BY ClipsByTime
  <2>2. t \in level <=>
            /\ t \in timed
            /\ \A low \in v.altMin : HasAltitude(s, low.ref, t) /\ Feet(s, low.ref, t) >= low.ft
            /\ \A up \in v.altMax : HasAltitude(s, up.ref, t) /\ Feet(s, up.ref, t) <= up.ft
    <3> HIDE DEF timed
    <3> QED
      BY ClipsByAltitude
  <2>3. t \in high <=>
            t \in level /\ (HasAgl(v) => InHeights(s, v, t))
    <3> HIDE DEF level
    <3> QED
      BY ClipsByHeight
  <2>4. t \in AtGeometry(s, v, high) <=> t \in high /\ \A g \in v.geometry : s.place[t] \in g.places
    <3> HIDE DEF high
    <3> QED
      BY ClipsByPlace
  <2> HIDE DEF timed, level, high
  <2>5. t \in AtGeometry(s, v, high) <=> t \in Known(s) /\ JointAt(s, v, t)
    BY <2>1, <2>2, <2>3, <2>4, JointIsPlaced DEF PlacedAt
  <2> QED
    BY <2>5 DEF timed, level, high
<1>2. Measured(f, v) = {t \in Known(s) : JointAt(s, v, t)}
  <2> DEFINE T == AtGeometry(s, v, AtAgl(s, v, AtAltitude(s, v, AtTime(v, Known(s)))))
  <2>1. T = {t \in Known(s) : JointAt(s, v, t)}
    <3>1. \A t : t \in T <=> t \in Known(s) /\ JointAt(s, v, t)
      BY <1>1
    <3> HIDE DEF T
    <3> QED
      BY <3>1
  <2> QED
    BY <2>1 DEF Measured, s
<1> QED
  BY <1>2 DEF s

-----------------------------------------------------------------------------
(* The conditions. *)

AllTrue(S) == \A p \in S : p.value = "true"

ExactlyTrue(S) == \A p \in S : p.sql \notin Probes => p.value = "true"

LEMMA TruthTrue ==
    ASSUME NEW b \in BOOLEAN
    PROVE  /\ Truth(b) = "true" <=> b
           /\ Truth(b) \in Values
BY DEF Truth, Values

(* An AND of SQL is true when all of its conditions are. *)
LEMMA HoldsWhenAllTrue ==
    ASSUME NEW S, \A p \in S : p.value \in Values
    PROVE  Holds(S) = "true" <=> AllTrue(S)
BY DEF Holds, AndOf, AllTrue, Values

LEMMA PartsHaveValues ==
    ASSUME NEW f, NEW v
    PROVE  \A p \in Parts(f, v) : p.value \in Values
<1>1. ASSUME NEW sql, NEW b, NEW p \in Part(sql, Truth(b)) PROVE p.value \in Values
  BY DEF Part, Truth, Values
<1>2. ASSUME NEW sql, NEW b, NEW c, NEW p \in Part(sql, IF c THEN "null" ELSE Truth(b)) PROVE p.value \in Values
  BY DEF Part, Truth, Values
<1>3. ASSUME NEW p \in TimeParts(f, v) PROVE p.value \in Values
  BY <1>1 DEF TimeParts
<1>4. ASSUME NEW p \in MeasureParts(f, v) PROVE p.value \in Values
  BY <1>2, Zenon DEF MeasureParts, PartIf
<1>5. ASSUME NEW p \in SquawkParts(f, v) PROVE p.value \in Values
  BY <1>1, Zenon DEF SquawkParts
<1>6. ASSUME NEW p \in GeometryParts(f, v) PROVE p.value \in Values
  BY <1>1, <1>2, Zenon DEF GeometryParts, IntersectsParts, WithinParts, AlwaysAtAltitude
<1>7. ASSUME NEW p \in AltitudeParts(f, v) PROVE p.value \in Values
  BY <1>1, Zenon DEF AltitudeParts, AlwaysAtAltitude, EverAtAltitude
<1>8. ASSUME NEW p \in AglParts(f, v) PROVE p.value \in Values
  <2>1. ASSUME NEW sql, NEW q \in AglEver(sql, f, v) PROVE q.value \in Values
    BY <1>2, Zenon DEF AglEver, PartIf
  <2>2. ASSUME NEW T, NEW q \in AglAlways(f, v, T) PROVE q.value \in Values
    BY <1>2, Zenon DEF AglAlways, PartIf
  <2> QED
    BY <1>1, <2>1, <2>2, Zenon DEF AglParts
<1> QED
  BY <1>3, <1>4, <1>5, <1>6, <1>7, <1>8 DEF Parts

LEMMA PartFields ==
    ASSUME NEW sql, NEW value, NEW p \in Part(sql, value)
    PROVE  p.sql = sql /\ p.value = value
BY DEF Part

LEMMA TrueOfUnion ==
    ASSUME NEW S, NEW T
    PROVE  /\ AllTrue(S \cup T) <=> AllTrue(S) /\ AllTrue(T)
           /\ ExactlyTrue(S \cup T) <=> ExactlyTrue(S) /\ ExactlyTrue(T)
           /\ AllTrue(S) => ExactlyTrue(S)
BY DEF AllTrue, ExactlyTrue

(* The parts of the condition, group by group. *)
Places(f, v)  == IF v.geometry # None THEN GeometryParts(f, v) ELSE AltitudeParts(f, v)
Altitude(f, v) == IF HasAgl(v) THEN AglParts(f, v) ELSE {}

LEMMA TrueOfParts ==
    ASSUME NEW f, NEW v
    PROVE  /\ AllTrue(Parts(f, v)) <=> /\ AllTrue(TimeParts(f, v)) /\ AllTrue(MeasureParts(f, v))
                                       /\ AllTrue(SquawkParts(f, v)) /\ AllTrue(Places(f, v))
                                       /\ AllTrue(Altitude(f, v))
           /\ ExactlyTrue(Parts(f, v)) <=> /\ ExactlyTrue(TimeParts(f, v)) /\ ExactlyTrue(MeasureParts(f, v))
                                           /\ ExactlyTrue(SquawkParts(f, v)) /\ ExactlyTrue(Places(f, v))
                                           /\ ExactlyTrue(Altitude(f, v))
<1>1. Parts(f, v) = TimeParts(f, v) \cup MeasureParts(f, v) \cup SquawkParts(f, v)
                    \cup Places(f, v) \cup Altitude(f, v)
  BY Zenon DEF Parts, Places, Altitude
<1>2. AllTrue(Parts(f, v)) <=> /\ AllTrue(TimeParts(f, v)) /\ AllTrue(MeasureParts(f, v))
                               /\ AllTrue(SquawkParts(f, v)) /\ AllTrue(Places(f, v))
                               /\ AllTrue(Altitude(f, v))
  BY <1>1 DEF AllTrue
<1>3. ExactlyTrue(Parts(f, v)) <=> /\ ExactlyTrue(TimeParts(f, v)) /\ ExactlyTrue(MeasureParts(f, v))
                                   /\ ExactlyTrue(SquawkParts(f, v)) /\ ExactlyTrue(Places(f, v))
                                   /\ ExactlyTrue(Altitude(f, v))
  BY <1>1 DEF ExactlyTrue
<1> QED
  BY <1>2, <1>3

(* start_ts and end_ts. *)
LEMMA TimesAsked ==
    ASSUME NEW f, NEW v
    PROVE  /\ ExactlyTrue(TimeParts(f, v)) => AllTrue(TimeParts(f, v))
           /\ AllTrue(TimeParts(f, v)) <=> /\ \A t \in v.from : End(f) >= t
                                           /\ \A t \in v.to : Start(f) < t
<1>1. \A p \in TimeParts(f, v) : p.sql \in {"end_ts", "start_ts"}
  BY PartFields DEF TimeParts
<1>3. ExactlyTrue(TimeParts(f, v)) => AllTrue(TimeParts(f, v))
  BY <1>1 DEF ExactlyTrue, AllTrue, Probes
<1>2. AllTrue(TimeParts(f, v)) <=> /\ Truth(\A t \in v.from : End(f) >= t) = "true"
                                   /\ Truth(\A t \in v.to : Start(f) < t) = "true"
  BY DEF AllTrue, TimeParts, Part
<1> QED
  BY <1>2, <1>3 DEF Truth

(* The measures. *)
LEMMA StitchedPath ==
    ASSUME NEW f
    PROVE  /\ Known(Stitched(f)) = Start(f)..End(f)
           /\ Stitched(f).place = Linear(f, f.place) /\ Stitched(f).alt = Linear(f, f.alt)
           /\ Stitched(f).corr = {Stepwise(corr) : corr \in f.corr}
           /\ Stitched(f).agl = {Stepwise(agl) : agl \in f.agl}
BY DEF Stitched, Known, Linear

LEMMA MeasuredWithin ==
    ASSUME NEW f, NEW v, IsBlock(v)
    PROVE  MeasuredOn(f, v) \subseteq Start(f)..End(f)
BY MeasuredIsJoint, StitchedPath DEF MeasuredOn

LEMMA StepsWithin ==
    ASSUME NEW f, IsStored(f), NEW T \in SUBSET (Start(f)..End(f))
    PROVE  Cardinality(Steps(T)) \in Nat /\ Cardinality(Steps(T)) <= End(f) - Start(f)
<1>1. Start(f) \in Int /\ End(f) \in Int /\ Start(f) <= End(f)
  BY KnownEnds
<1>2. Steps(T) \in SUBSET (Start(f)..(End(f) - 1))
  <2>1. ASSUME NEW t \in T, t + 1 \in T PROVE t \in Start(f)..(End(f) - 1)
    <3>1. t \in Int /\ Start(f) <= t /\ t + 1 <= End(f)
      BY <1>1, <2>1
    <3> QED
      BY <1>1, <3>1
  <2> QED
    BY <2>1 DEF Steps
<1>3. IsFiniteSet(Start(f)..(End(f) - 1)) /\ Cardinality(Start(f)..(End(f) - 1)) = End(f) - Start(f)
  <2>1. End(f) - 1 \in Int
    BY <1>1
  <2>2. /\ IsFiniteSet(Start(f)..(End(f) - 1))
        /\ Cardinality(Start(f)..(End(f) - 1))
             = IF Start(f) > End(f) - 1 THEN 0 ELSE (End(f) - 1) - Start(f) + 1
    BY <1>1, <2>1, FS_Interval
  <2> QED
    BY <1>1, <2>2
<1> QED
  BY <1>2, <1>3, FS_Subset, FS_CardinalityType

LEMMA MeasuresAsked ==
    ASSUME NEW f, NEW v, ExactlyTrue(MeasureParts(f, v))
    PROVE  LET T == MeasuredOn(f, v) IN
           /\ InBounds(Cardinality(Steps(T)), v.dwellMin, v.dwellMax)
           /\ InBounds(Length(Stitched(f), T), v.distMin, v.distMax)
           /\ HasMeasure(v) => T # {}
<1> DEFINE T == MeasuredOn(f, v)
           dwell == Cardinality(Steps(T))
           dist == Length(Stitched(f), T)
<1>1. /\ PartIf("dwell_min", v.dwellMin, T = {}, LAMBDA x : dwell >= x) \subseteq MeasureParts(f, v)
      /\ PartIf("dwell_max", v.dwellMax, T = {}, LAMBDA x : dwell <= x) \subseteq MeasureParts(f, v)
      /\ PartIf("distance_min", v.distMin, T = {}, LAMBDA x : dist >= x) \subseteq MeasureParts(f, v)
      /\ PartIf("distance_max", v.distMax, T = {}, LAMBDA x : dist <= x) \subseteq MeasureParts(f, v)
  BY Zenon DEF MeasureParts
<1> HIDE DEF T, dwell, dist
<1>2. v.dwellMin # {} => T # {} /\ \A x \in v.dwellMin : x <= dwell
  BY <1>1 DEF PartIf, Part, Truth, None, ExactlyTrue, Probes
<1>3. v.dwellMax # {} => T # {} /\ \A x \in v.dwellMax : dwell <= x
  BY <1>1 DEF PartIf, Part, Truth, None, ExactlyTrue, Probes
<1>4. v.distMin # {} => T # {} /\ \A x \in v.distMin : x <= dist
  BY <1>1 DEF PartIf, Part, Truth, None, ExactlyTrue, Probes
<1>5. v.distMax # {} => T # {} /\ \A x \in v.distMax : dist <= x
  BY <1>1 DEF PartIf, Part, Truth, None, ExactlyTrue, Probes
<1>6. /\ InBounds(dwell, v.dwellMin, v.dwellMax) /\ InBounds(dist, v.distMin, v.distMax)
      /\ HasMeasure(v) => T # {}
  BY <1>2, <1>3, <1>4, <1>5 DEF InBounds, HasMeasure, None
<1> QED
  BY <1>6 DEF T, dwell, dist

(* The stored duration is not shorter than what is measured. *)
LEMMA DurationProbe ==
    ASSUME NEW f, IsStored(f), NEW v, IsBlock(v), ExactlyTrue(MeasureParts(f, v))
    PROVE  AllTrue(MeasureParts(f, v))
<1> DEFINE T == MeasuredOn(f, v)
           dwell == Cardinality(Steps(T))
           dist == Length(Stitched(f), T)
           probe == PartIf("duration", v.dwellMin, FALSE, LAMBDA x : End(f) - Start(f) >= x)
           rest  == PartIf("dwell_min", v.dwellMin, T = {}, LAMBDA x : dwell >= x)
                    \cup PartIf("dwell_max", v.dwellMax, T = {}, LAMBDA x : dwell <= x)
                    \cup PartIf("distance_min", v.distMin, T = {}, LAMBDA x : dist >= x)
                    \cup PartIf("distance_max", v.distMax, T = {}, LAMBDA x : dist <= x)
<1>1. MeasureParts(f, v) = probe \cup rest
  BY Zenon DEF MeasureParts
<1>2. \A p \in rest : p.sql \notin Probes
  <2> HIDE DEF T, dwell, dist
  <2>1. \A p \in PartIf("dwell_min", v.dwellMin, T = {}, LAMBDA x : dwell >= x) : p.sql = "dwell_min"
    BY DEF PartIf, Part, Truth
  <2>2. \A p \in PartIf("dwell_max", v.dwellMax, T = {}, LAMBDA x : dwell <= x) : p.sql = "dwell_max"
    BY DEF PartIf, Part, Truth
  <2>3. \A p \in PartIf("distance_min", v.distMin, T = {}, LAMBDA x : dist >= x) : p.sql = "distance_min"
    BY DEF PartIf, Part, Truth
  <2>4. \A p \in PartIf("distance_max", v.distMax, T = {}, LAMBDA x : dist <= x) : p.sql = "distance_max"
    BY DEF PartIf, Part, Truth
  <2>5. \A p \in rest : p.sql \in {"dwell_min", "dwell_max", "distance_min", "distance_max"}
    BY <2>1, <2>2, <2>3, <2>4, Zenon
  <2> HIDE DEF rest
  <2> QED
    BY <2>5 DEF Probes
<1>3. \A x \in v.dwellMin : x <= End(f) - Start(f)
  <2>1. dwell \in Nat /\ dwell <= End(f) - Start(f)
    BY MeasuredWithin, StepsWithin
  <2>2. \A x \in v.dwellMin : x <= dwell
    BY MeasuresAsked DEF InBounds
  <2>3. v.dwellMin \subseteq Int /\ End(f) - Start(f) \in Int
    BY BlockTypes, KnownEnds
  <2> HIDE DEF dwell
  <2> QED
    BY <2>1, <2>2, <2>3
<1>4. AllTrue(probe)
  BY <1>3 DEF AllTrue, PartIf, Part, Truth
<1>5. AllTrue(rest)
  <2> HIDE DEF rest, probe
  <2> QED
    BY <1>1, <1>2 DEF AllTrue, ExactlyTrue
<1> HIDE DEF rest, probe
<1> QED
  BY <1>1, <1>4, <1>5, TrueOfUnion

LEMMA NothingMeasured ==
    ASSUME NEW f, NEW v, ~HasMeasure(v)
    PROVE  AllTrue(MeasureParts(f, v))
BY DEF HasMeasure, MeasureParts, PartIf, AllTrue

LEMMA PartTrue ==
    ASSUME NEW sql, NEW b \in BOOLEAN
    PROVE  /\ AllTrue(Part(sql, Truth(b))) <=> b
           /\ ExactlyTrue(Part(sql, Truth(b))) <=> (sql \in Probes \/ b)
<1> DEFINE part == [sql |-> sql, value |-> Truth(b)]
<1>1. Part(sql, Truth(b)) = {part} /\ part.sql = sql /\ part.value = Truth(b)
  BY DEF Part
<1>2. Truth(b) = "true" <=> b
  BY TruthTrue
<1> HIDE DEF part
<1>3. AllTrue(Part(sql, Truth(b))) <=> part.value = "true"
  BY <1>1 DEF AllTrue
<1>4. ExactlyTrue(Part(sql, Truth(b))) <=> (part.sql \in Probes \/ part.value = "true")
  BY <1>1 DEF ExactlyTrue
<1> QED
  BY <1>1, <1>2, <1>3, <1>4

(* The codes that were heard at some instants. *)
Heard(f, T) == {f.squawk[t] : t \in T \cap DOMAIN f.squawk}

Listened(f, v) == IF v.geometry = None THEN Known(f) ELSE EffectiveClipped(f, v)

LEMMA SquawksAsked ==
    ASSUME NEW f, IsStored(f), NEW v, IsBlock(v)
    PROVE  /\ v.squawk = {} => AllTrue(SquawkParts(f, v))
           /\ ExactlyTrue(SquawkParts(f, v)) => AllTrue(SquawkParts(f, v))
           /\ v.squawk # {} => (ExactlyTrue(SquawkParts(f, v)) <=>
                  \E t \in Listened(f, v) \cap DOMAIN f.squawk : f.squawk[t] \in v.squawk)
<1>1. CASE v.squawk = {}
  BY <1>1 DEF SquawkParts, AllTrue
<1>2. CASE v.squawk # {}
  <2> DEFINE ever  == Heard(f, Known(f)) \cap v.squawk # {}
             there == v.squawk \cap Heard(f, Listened(f, v)) # {}
  <2>1. SquawkParts(f, v) = Part("squawk_codes", Truth(ever)) \cup Part("squawk instants", Truth(there))
    BY <1>2, Zenon DEF SquawkParts, Heard, Listened
  <2>2. Listened(f, v) \subseteq Known(f)
    BY EffectiveIsJoint DEF Listened
  <2>3. there => ever
    BY <2>2 DEF Heard
  <2>4. there <=> \E t \in Listened(f, v) \cap DOMAIN f.squawk : f.squawk[t] \in v.squawk
    BY DEF Heard
  <2>5. ever \in BOOLEAN /\ there \in BOOLEAN
    OBVIOUS
  <2> HIDE DEF ever, there
  <2>6. "squawk_codes" \in Probes /\ "squawk instants" \notin Probes
    BY DEF Probes
  <2>7. /\ AllTrue(Part("squawk_codes", Truth(ever))) <=> ever
        /\ ExactlyTrue(Part("squawk_codes", Truth(ever)))
    BY <2>5, <2>6, PartTrue
  <2>8. /\ AllTrue(Part("squawk instants", Truth(there))) <=> there
        /\ ExactlyTrue(Part("squawk instants", Truth(there))) <=> there
    BY <2>5, <2>6, PartTrue
  <2> QED
    BY <1>2, <2>1, <2>3, <2>4, <2>7, <2>8, TrueOfUnion
<1> QED
  BY <1>1, <1>2

LEMMA PartValue ==
    ASSUME NEW sql, NEW value
    PROVE  /\ AllTrue(Part(sql, value)) <=> value = "true"
           /\ ExactlyTrue(Part(sql, value)) <=> (sql \in Probes \/ value = "true")
<1> DEFINE part == [sql |-> sql, value |-> value]
<1>1. Part(sql, value) = {part} /\ part.sql = sql /\ part.value = value
  BY DEF Part
<1> HIDE DEF part
<1> QED
  BY <1>1 DEF AllTrue, ExactlyTrue

-----------------------------------------------------------------------------
(* Where the flight is. *)

(* What lies in a cell that is left out lies next to a cell that is not.   *)
LEMMA CoveredBeside ==
    ASSUME NEW cells, NEW places, places \subseteq Int, Covers(cells, places), NEW p \in places
    PROVE  CellOf(p) \in Int /\ (CellOf(p) \in cells \/ CellOf(p) - 1 \in cells)
<1>1. CellOf(p) \in Int
  BY SpatialConstants DEF CellOf
<1>2. CellOf(p) \in Cells(places)
  BY DEF Cells
<1> QED
  BY <1>1, <1>2 DEF Covers

CellsOverlap(f, v) == \E g \in v.geometry : f.cells \cap H3Cells(g) # {}

(* The ring makes up for the cells that both covers leave out, but there   *)
(* is none around a circle.                                                *)
LEMMA CellsMeet ==
    ASSUME NEW f, IsStored(f), NEW v, IsBlock(v), HasCells(v),
           NEW t \in Known(f), f.place[t] \in Area(v)
    PROVE  /\ CellsOverlap(f, v) \/ OnlyAtCorners(f, v)
           /\ CellOf(f.place[t]) \in f.cells => CellsOverlap(f, v)
<1>1. PICK g \in v.geometry : g.kind # "LineString"
  BY DEF HasCells
<1>2. f.place[t] \in g.places /\ f.place[t] \in Int
  BY <1>1, AreaOfGeometry, RowBox DEF None
<1>3. g.kind \in {"Polygon", "Circle"} /\ g.places \subseteq Int
  BY <1>1 DEF IsBlock
<1>4. f.place[t] \in Ran(f.place)
  BY DEF Ran, Known
<1> DEFINE c == CellOf(f.place[t])
<1>5. CASE g.kind = "Polygon"
  <2>1. Ran(f.place) \subseteq Int /\ Covers(f.cells, Ran(f.place)) /\ Covers(g.cells, g.places)
    BY <1>5, RowBox DEF IsStored, IsBlock, Ran, Known
  <2>2. /\ c \in Int
        /\ c \in f.cells \/ c - 1 \in f.cells
        /\ c \in g.cells \/ c - 1 \in g.cells
    BY <1>2, <1>3, <1>4, <2>1, CoveredBeside
  <2> HIDE DEF c
  <2>3. PICK a \in f.cells : a \in {c - 1, c}
    BY <2>2
  <2>4. PICK b \in g.cells : b \in {c - 1, c}
    BY <2>2
  <2>5. a \in Around(b)
    BY <2>2, <2>3, <2>4 DEF Around
  <2>6. a \in H3Cells(g)
    BY <1>5, <2>4, <2>5 DEF H3Cells
  <2> QED
    BY <1>1, <2>3, <2>6 DEF CellsOverlap
<1>6. CASE g.kind = "Circle"
  <2>1. H3Cells(g) = Cells(g.places)
    BY <1>6 DEF H3Cells
  <2>2. Cells(Ran(f.place) \cap g.places) \subseteq Cells(g.places)
    BY DEF Cells
  <2>3. ~OnlyAtCorners(f, v) => Cells(Ran(f.place) \cap g.places) \cap f.cells # {}
    BY <1>1, <1>6 DEF OnlyAtCorners
  <2>4. c \in Cells(g.places)
    BY <1>2 DEF Cells
  <2> QED
    BY <1>1, <2>1, <2>2, <2>3, <2>4 DEF CellsOverlap
<1> QED
  BY <1>3, <1>5, <1>6

(* The boxes overlap where one instant is in both, at an altitude that the *)
(* box of the row reaches.                                                 *)
LEMMA BoxesMeet ==
    ASSUME NEW f, IsStored(f), NEW v, IsBlock(v), NEW t \in Known(f), f.place[t] \in Box(Area(v)),
           \A from \in v.from : from <= t, \A to \in v.to : t < to,
           \A low \in v.altMin : low.ref = "fl" => low.ft <= AltMax(f, "fl"),
           \A high \in v.altMax : high.ref = "fl" => AltMin(f, "fl") <= high.ft
    PROVE  BoxesOverlap(f, v)
<1>1. Box(Ran(f.place)) \cap Box(Area(v)) # {}
  BY RowBox
<1>2. t \in AtTime(v, Start(f)..End(f))
  <2>1. t \in Start(f)..End(f)
    BY KnownEnds
  <2> QED
    BY <2>1, ClipsByTime
<1>3. \A l \in Bound(v.altMin, "fl") : AltMax(f, "fl") >= l
  BY BoundOf
<1>4. \A h \in Bound(v.altMax, "fl") : AltMin(f, "fl") <= h
  BY BoundOf
<1> QED
  BY <1>1, <1>2, <1>3, <1>4 DEF BoxesOverlap

LEMMA PlacedBoxesMeet ==
    ASSUME NEW f, IsStored(f), NEW v, IsBlock(v), v.geometry # None,
           NEW t \in Known(f), PlacedAt(f, v, t)
    PROVE  BoxesOverlap(f, v) /\ f.place[t] \in Area(v)
<1>1. f.place[t] \in Area(v) /\ f.place[t] \in Box(Area(v))
  BY AreaOfGeometry DEF PlacedAt
<1>2. ASSUME NEW low \in v.altMin, low.ref = "fl" PROVE low.ft <= AltMax(f, "fl")
  <2>1. low.ft <= Feet(f, "fl", t) /\ low.ft \in Int
    BY <1>2, BlockTypes DEF PlacedAt
  <2>2. Feet(f, "fl", t) <= AltMax(f, "fl") /\ Feet(f, "fl", t) \in Int /\ AltMax(f, "fl") \in Int
    BY AltColumns, FeetTyped, PressureIsKnown
  <2> QED
    BY <2>1, <2>2
<1>3. ASSUME NEW high \in v.altMax, high.ref = "fl" PROVE AltMin(f, "fl") <= high.ft
  <2>1. Feet(f, "fl", t) <= high.ft /\ high.ft \in Int
    BY <1>3, BlockTypes DEF PlacedAt
  <2>2. AltMin(f, "fl") <= Feet(f, "fl", t) /\ Feet(f, "fl", t) \in Int /\ AltMin(f, "fl") \in Int
    BY AltColumns, FeetTyped, PressureIsKnown
  <2> QED
    BY <2>1, <2>2
<1> QED
  BY <1>1, <1>2, <1>3, BoxesMeet DEF PlacedAt

LEMMA IntersectsAsked ==
    ASSUME NEW f, IsStored(f), NEW v, IsBlock(v), v.geometry # None, v.kind = "intersects"
    PROVE  /\ ExactlyTrue(GeometryParts(f, v)) => AllTrue(GeometryParts(f, v)) \/ OnlyAtCorners(f, v)
           /\ ExactlyTrue(GeometryParts(f, v)) <=> \E t \in Known(f) : PlacedAt(f, v, t)
<1> DEFINE cells == CellsOverlap(f, v)
           boxes == BoxesOverlap(f, v)
           left  == AtGeometry(f, v, Clipped(f, v))
           eIntersects == IF Clipped(f, v) = {} THEN "null" ELSE Truth(left # {})
           probe == IF HasCells(v) THEN Part("path_h3", Truth(cells)) ELSE {}
           corners == OnlyAtCorners(f, v)
<1>1. GeometryParts(f, v) = probe \cup (Part("path &&", Truth(boxes)) \cup Part("eIntersects", eIntersects))
  BY Zenon DEF GeometryParts, IntersectsParts, CellsOverlap
<1>2. left # {} <=> \E t \in Known(f) : PlacedAt(f, v, t)
  BY ClippedIsPlaced
<1>3. eIntersects = "true" <=> left # {}
  <2>1. left \subseteq Clipped(f, v)
    BY DEF AtGeometry
  <2> QED
    BY <2>1 DEF Truth
<1>4. left # {} => boxes /\ (HasCells(v) => cells \/ corners)
  <2>1. ASSUME NEW t \in Known(f), PlacedAt(f, v, t) PROVE boxes /\ f.place[t] \in Area(v)
    BY <2>1, PlacedBoxesMeet
  <2>2. ASSUME NEW t \in Known(f), f.place[t] \in Area(v), HasCells(v) PROVE cells \/ corners
    BY <2>2, CellsMeet
  <2> QED
    BY <1>2, <2>1, <2>2
<1>5. "path_h3" \in Probes /\ "path &&" \in Probes /\ "eIntersects" \notin Probes
  BY DEF Probes
<1>6. boxes \in BOOLEAN /\ cells \in BOOLEAN
  BY DEF BoxesOverlap, CellsOverlap
<1> HIDE DEF boxes, cells, left, eIntersects
<1>7. AllTrue(probe) <=> (HasCells(v) => cells)
  BY <1>6, PartTrue DEF AllTrue
<1>8. ExactlyTrue(probe)
  BY <1>5, <1>6, PartTrue DEF ExactlyTrue
<1>9. AllTrue(Part("path &&", Truth(boxes))) <=> boxes
  BY <1>6, PartTrue
<1>10. ExactlyTrue(Part("path &&", Truth(boxes)))
  BY <1>5, <1>6, PartTrue
<1>11. AllTrue(Part("eIntersects", eIntersects)) <=> eIntersects = "true"
  BY PartValue
<1>12. ExactlyTrue(Part("eIntersects", eIntersects)) <=> eIntersects = "true"
  BY <1>5, PartValue
<1> HIDE DEF probe
<1>13. AllTrue(GeometryParts(f, v)) <=>
           AllTrue(probe) /\ AllTrue(Part("path &&", Truth(boxes))) /\ AllTrue(Part("eIntersects", eIntersects))
  BY <1>1 DEF AllTrue
<1>14. ExactlyTrue(GeometryParts(f, v)) <=>
           /\ ExactlyTrue(probe) /\ ExactlyTrue(Part("path &&", Truth(boxes)))
           /\ ExactlyTrue(Part("eIntersects", eIntersects))
  BY <1>1 DEF ExactlyTrue
<1>15. ExactlyTrue(GeometryParts(f, v)) <=> left # {}
  BY <1>3, <1>8, <1>10, <1>12, <1>14, Zenon
<1>16. left # {} => AllTrue(GeometryParts(f, v)) \/ corners
  BY <1>3, <1>4, <1>7, <1>9, <1>11, <1>13, Zenon
<1> QED
  BY <1>2, <1>15, <1>16, Zenon

(* At every instant of a row where they are known the altitudes are within *)
(* the bounds.                                                             *)
Always(f, v) ==
    \A t \in Known(f) :
        /\ \A low \in v.altMin : HasAltitude(f, low.ref, t) => Feet(f, low.ref, t) >= low.ft
        /\ \A high \in v.altMax : HasAltitude(f, high.ref, t) => Feet(f, high.ref, t) <= high.ft

LEMMA AlwaysMeans ==
    ASSUME NEW f, IsStored(f), NEW v, IsBlock(v)
    PROVE  /\ AllTrue(AlwaysAtAltitude(f, v)) <=> Always(f, v)
           /\ ExactlyTrue(AlwaysAtAltitude(f, v)) <=> Always(f, v)
<1> DEFINE K(ref) == {t \in Known(f) : HasAltitude(f, ref, t)}
           inside == \A ref \in {"fl", "ft"} :
                         /\ InBounds(AltMin(f, ref), Bound(v.altMin, ref), None)
                         /\ InBounds(AltMax(f, ref), None, Bound(v.altMax, ref))
<1>1. ASSUME NEW ref \in {"fl", "ft"}
      PROVE  /\ InBounds(AltMin(f, ref), Bound(v.altMin, ref), None) <=>
                    \A low \in v.altMin : low.ref = ref => \A t \in K(ref) : low.ft <= Feet(f, ref, t)
             /\ InBounds(AltMax(f, ref), None, Bound(v.altMax, ref)) <=>
                    \A high \in v.altMax : high.ref = ref => \A t \in K(ref) : Feet(f, ref, t) <= high.ft
  <2>1. \A a \in v.altMin \cup v.altMax : a.ft \in Int
    BY BlockTypes
  <2>2. /\ AltMin(f, ref) \in Int /\ AltMax(f, ref) \in Int
        /\ \E t \in K(ref) : AltMin(f, ref) = Feet(f, ref, t)
        /\ \E t \in K(ref) : AltMax(f, ref) = Feet(f, ref, t)
        /\ \A t \in K(ref) : AltMin(f, ref) <= Feet(f, ref, t) /\ Feet(f, ref, t) <= AltMax(f, ref)
    BY AltColumns
  <2>3. \A t \in K(ref) : Feet(f, ref, t) \in Int
    BY FeetTyped
  <2> HIDE DEF K
  <2>4. ASSUME NEW low \in v.altMin
        PROVE  low.ft <= AltMin(f, ref) <=> \A t \in K(ref) : low.ft <= Feet(f, ref, t)
    BY <2>1, <2>2, <2>3
  <2>5. ASSUME NEW high \in v.altMax
        PROVE  AltMax(f, ref) <= high.ft <=> \A t \in K(ref) : Feet(f, ref, t) <= high.ft
    BY <2>1, <2>2, <2>3
  <2>6. InBounds(AltMin(f, ref), Bound(v.altMin, ref), None) <=>
            \A low \in v.altMin : low.ref = ref => low.ft <= AltMin(f, ref)
    BY BoundOf DEF InBounds, None
  <2>7. InBounds(AltMax(f, ref), None, Bound(v.altMax, ref)) <=>
            \A high \in v.altMax : high.ref = ref => AltMax(f, ref) <= high.ft
    BY BoundOf DEF InBounds, None
  <2> QED
    BY <2>4, <2>5, <2>6, <2>7
<1>2. \A a \in v.altMin \cup v.altMax : a.ref \in {"fl", "ft"}
  BY BlockTypes
<1>3. inside <=> Always(f, v)
  <2>1. inside <=> \A ref \in {"fl", "ft"} :
            /\ \A low \in v.altMin : low.ref = ref => \A t \in K(ref) : low.ft <= Feet(f, ref, t)
            /\ \A high \in v.altMax : high.ref = ref => \A t \in K(ref) : Feet(f, ref, t) <= high.ft
    BY <1>1
  <2> HIDE DEF inside
  <2> QED
    BY <1>2, <2>1 DEF Always
<1>4. AlwaysAtAltitude(f, v) = Part("alt columns", Truth(inside)) /\ "alt columns" \notin Probes
  BY DEF AlwaysAtAltitude, Probes
<1>5. inside \in BOOLEAN
  OBVIOUS
<1> HIDE DEF inside
<1>6. /\ AllTrue(Part("alt columns", Truth(inside))) <=> inside
      /\ ExactlyTrue(Part("alt columns", Truth(inside))) <=> inside
  BY <1>4, <1>5, PartTrue
<1> QED
  BY <1>3, <1>4, <1>6

LEMMA WithinAsked ==
    ASSUME NEW f, IsStored(f), NEW v, IsBlock(v), v.geometry # None, v.kind = "within"
    PROVE  /\ ExactlyTrue(GeometryParts(f, v)) => AllTrue(GeometryParts(f, v))
           /\ ExactlyTrue(GeometryParts(f, v)) <=>
                  /\ \A t \in Known(f) : f.place[t] \in Area(v)
                  /\ HasAlt(v) \/ HasTime(v) => AtStbox(f, v) # {} /\ Always(f, v)
<1> DEFINE cells == CellsOverlap(f, v)
           boxes == BoxesOverlap(f, v)
           there == \A t \in Known(f) : f.place[t] \in Area(v)
           meets == AtStbox(f, v) # {}
           probe == IF HasCells(v) THEN Part("path_h3", Truth(cells)) ELSE {}
           clips == HasAlt(v) \/ HasTime(v)
           extra == IF clips THEN Part("path &&", Truth(boxes)) \cup Part("atStbox", Truth(meets))
                                  \cup AlwaysAtAltitude(f, v)
                    ELSE {}
<1>1. GeometryParts(f, v) = probe \cup (Part("ST_Within", Truth(there)) \cup extra)
  BY Zenon DEF GeometryParts, WithinParts, CellsOverlap
<1>2. there /\ HasCells(v) => cells
  <2>1. Start(f) \in Known(f) /\ Start(f) - 1 \notin Known(f)
    <3>1. Start(f) \in Int /\ ~(Start(f) <= Start(f) - 1)
      BY KnownEnds
    <3> QED
      BY <3>1, KnownEnds
  <2>2. CellOf(f.place[Start(f)]) \in f.cells
    BY <2>1 DEF IsStored
  <2> QED
    BY <2>1, <2>2, CellsMeet
<1>3. meets /\ Always(f, v) => boxes
  <2> SUFFICES ASSUME meets, Always(f, v) PROVE boxes
    OBVIOUS
  <2>1. PICK t \in AtStbox(f, v) : TRUE
    OBVIOUS
  <2>2. /\ t \in Known(f) /\ f.place[t] \in Box(Area(v))
        /\ (\A from \in v.from : from <= t) /\ (\A to \in v.to : t < to)
    BY InStbox
  <2>3. ASSUME NEW low \in v.altMin, low.ref = "fl" PROVE low.ft <= AltMax(f, "fl")
    <3>1. low.ft <= Feet(f, "fl", t) /\ low.ft \in Int
      BY <2>2, <2>3, BlockTypes, PressureIsKnown DEF Always
    <3>2. Feet(f, "fl", t) <= AltMax(f, "fl") /\ Feet(f, "fl", t) \in Int /\ AltMax(f, "fl") \in Int
      BY <2>2, AltColumns, FeetTyped, PressureIsKnown
    <3> QED
      BY <3>1, <3>2
  <2>4. ASSUME NEW high \in v.altMax, high.ref = "fl" PROVE AltMin(f, "fl") <= high.ft
    <3>1. Feet(f, "fl", t) <= high.ft /\ high.ft \in Int
      BY <2>2, <2>4, BlockTypes, PressureIsKnown DEF Always
    <3>2. AltMin(f, "fl") <= Feet(f, "fl", t) /\ Feet(f, "fl", t) \in Int /\ AltMin(f, "fl") \in Int
      BY <2>2, AltColumns, FeetTyped, PressureIsKnown
    <3> QED
      BY <3>1, <3>2
  <2> QED
    BY <2>2, <2>3, <2>4, BoxesMeet
<1>4. /\ "path_h3" \in Probes /\ "path &&" \in Probes
      /\ "ST_Within" \notin Probes /\ "atStbox" \notin Probes
  BY DEF Probes
<1>5. boxes \in BOOLEAN /\ cells \in BOOLEAN /\ there \in BOOLEAN /\ meets \in BOOLEAN
  BY DEF BoxesOverlap, CellsOverlap
<1>6. there <=> \A t \in Known(f) : f.place[t] \in Area(v)
  OBVIOUS
<1>7. meets <=> AtStbox(f, v) # {}
  OBVIOUS
<1> HIDE DEF boxes, cells, there, meets
<1>8. /\ AllTrue(probe) <=> (HasCells(v) => cells)
      /\ ExactlyTrue(probe)
  <2>1. AllTrue(probe) <=> (HasCells(v) => cells)
    BY <1>5, PartTrue DEF AllTrue
  <2>2. ExactlyTrue(probe)
    BY <1>4, <1>5, PartTrue DEF ExactlyTrue
  <2> QED
    BY <2>1, <2>2
<1>9. /\ AllTrue(Part("ST_Within", Truth(there))) <=> there
      /\ ExactlyTrue(Part("ST_Within", Truth(there))) <=> there
  BY <1>4, <1>5, PartTrue
<1>10. /\ AllTrue(Part("path &&", Truth(boxes))) <=> boxes
       /\ ExactlyTrue(Part("path &&", Truth(boxes)))
  BY <1>4, <1>5, PartTrue
<1>11. /\ AllTrue(Part("atStbox", Truth(meets))) <=> meets
       /\ ExactlyTrue(Part("atStbox", Truth(meets))) <=> meets
  BY <1>4, <1>5, PartTrue
<1>12. /\ AllTrue(extra) <=> (clips => boxes /\ meets /\ Always(f, v))
       /\ ExactlyTrue(extra) <=> (clips => meets /\ Always(f, v))
  <2>1. CASE clips
    <3>1. extra = Part("path &&", Truth(boxes)) \cup Part("atStbox", Truth(meets)) \cup AlwaysAtAltitude(f, v)
      BY <2>1, Zenon
    <3> HIDE DEF extra
    <3> QED
      BY <1>10, <1>11, <2>1, <3>1, AlwaysMeans, TrueOfUnion
  <2>2. CASE ~clips
    BY <2>2 DEF AllTrue, ExactlyTrue
  <2> QED
    BY <2>1, <2>2
<1> HIDE DEF probe, extra
<1>13. AllTrue(GeometryParts(f, v)) <=>
           AllTrue(probe) /\ AllTrue(Part("ST_Within", Truth(there))) /\ AllTrue(extra)
  BY <1>1 DEF AllTrue
<1>14. ExactlyTrue(GeometryParts(f, v)) <=>
           ExactlyTrue(probe) /\ ExactlyTrue(Part("ST_Within", Truth(there))) /\ ExactlyTrue(extra)
  BY <1>1 DEF ExactlyTrue
<1>15. ExactlyTrue(GeometryParts(f, v)) <=> there /\ (clips => meets /\ Always(f, v))
  BY <1>8, <1>9, <1>12, <1>14, Zenon
<1>16. there /\ (clips => meets /\ Always(f, v)) => AllTrue(GeometryParts(f, v))
  BY <1>2, <1>3, <1>8, <1>9, <1>12, <1>13, Zenon
<1> QED
  BY <1>6, <1>7, <1>15, <1>16, Zenon

LEMMA AltitudesAsked ==
    ASSUME NEW f, IsStored(f), NEW v, IsBlock(v)
    PROVE  /\ ExactlyTrue(AltitudeParts(f, v)) => AllTrue(AltitudeParts(f, v))
           /\ v.kind = "within" => (ExactlyTrue(AltitudeParts(f, v)) <=> Always(f, v))
<1>1. CASE v.kind = "within"
  BY <1>1, AlwaysMeans DEF AltitudeParts
<1>2. CASE v.kind # "within"
  <2>1. \A p \in EverAtAltitude(f, v) : p.sql = "alt columns"
    BY PartFields DEF EverAtAltitude
  <2>2. "alt columns" \notin Probes
    BY DEF Probes
  <2> QED
    BY <1>2, <2>1, <2>2 DEF AltitudeParts, AllTrue, ExactlyTrue
<1> QED
  BY <1>1, <1>2

-----------------------------------------------------------------------------
(* How high above the ground it is. *)

Optional(sql, option, value) == IF option = None THEN {} ELSE Part(sql, value)

LEMMA OptionalPart ==
    ASSUME NEW sql, NEW option, NEW value
    PROVE  /\ AllTrue(Optional(sql, option, value)) <=> (option = None \/ value = "true")
           /\ ExactlyTrue(Optional(sql, option, value)) <=>
                  (option = None \/ sql \in Probes \/ value = "true")
<1>1. CASE option = None
  BY <1>1 DEF AllTrue, ExactlyTrue, Optional
<1>2. CASE option # None
  BY <1>2, PartValue DEF Optional
<1> QED
  BY <1>1, <1>2

LEMMA NullOrTruth ==
    ASSUME NEW missing, NEW b
    PROVE  (IF missing THEN "null" ELSE Truth(b)) = "true" <=> (~missing /\ b)
BY DEF Truth

KnownHeight(f, t) == \E agl \in f.agl : t \in DOMAIN agl

LEMMA HeightsTyped ==
    ASSUME NEW f, IsStored(f), NEW agl \in f.agl
    PROVE  /\ f.agl = {agl}
           /\ DOMAIN agl \subseteq Known(f) /\ DOMAIN agl # {} /\ agl \in [DOMAIN agl -> Int]
BY DEF IsStored, IsSeries, AtMostOne

(* The heights that are known at some instants, least and greatest. *)
LEMMA HeightsAt ==
    ASSUME NEW f, IsStored(f), NEW T \in SUBSET Known(f), NEW agl \in f.agl, T \cap DOMAIN agl # {}
    PROVE  /\ Heights(f, T) # {} /\ Min(Heights(f, T)) \in Int /\ Max(Heights(f, T)) \in Int
           /\ \E t \in T \cap DOMAIN agl : Min(Heights(f, T)) = agl[t]
           /\ \E t \in T \cap DOMAIN agl : Max(Heights(f, T)) = agl[t]
           /\ \A t \in T \cap DOMAIN agl : /\ agl[t] \in Int
                           /\ Min(Heights(f, T)) <= agl[t] /\ agl[t] <= Max(Heights(f, T))
<1> DEFINE D  == T \cap DOMAIN agl
           fn == [t \in D |-> agl[t]]
           H  == Heights(f, T)
<1>1. f.agl = {agl} /\ agl \in [DOMAIN agl -> Int]
  BY HeightsTyped
<1>2. fn \in [D -> Int] /\ \A t \in D : fn[t] = agl[t]
  BY <1>1
<1>3. H = {agl[t] : t \in D}
  BY <1>1 DEF Heights
<1>4. H = {fn[t] : t \in D}
  BY <1>2, <1>3
<1>5. IsFiniteSet(D) /\ D # {}
  BY FS_Subset DEF IsStored
<1>6. \A t \in D : agl[t] \in Int
  BY <1>1
<1> HIDE DEF fn, H, D
<1>7. /\ Min(H) \in H /\ Max(H) \in H
      /\ Min(H) \in Int /\ Max(H) \in Int
      /\ \A t \in D : Min(H) <= fn[t] /\ fn[t] <= Max(H)
  BY <1>2, <1>4, <1>5, Extremes
<1> QED
  BY <1>2, <1>3, <1>6, <1>7 DEF H, D

LEMMA NoHeights ==
    ASSUME NEW f, NEW T, \A t \in T : ~KnownHeight(f, t)
    PROVE  Heights(f, T) = {}
BY DEF Heights, KnownHeight

(* A height within the bounds somewhere reaches each of them. *)
LEMMA HeightsProbe ==
    ASSUME NEW f, IsStored(f), NEW v, IsBlock(v), NEW t \in Known(f), InHeights(f, v, t), NEW sql
    PROVE  AllTrue(AglEver(sql, f, v))
<1> DEFINE H == Heights(f, Known(f))
           reaches == \A x \in v.aglMin : Max(H) >= x
           dips    == \A x \in v.aglMax : Min(H) <= x
           low     == PartIf(sql, v.aglMin, H = {}, LAMBDA x : Max(H) >= x)
           up      == PartIf(sql, v.aglMax, H = {}, LAMBDA x : Min(H) <= x)
<1>1. PICK agl \in f.agl : t \in DOMAIN agl /\ InBounds(agl[t], v.aglMin, v.aglMax)
  BY DEF InHeights
<1>2. /\ H # {} /\ Min(H) \in Int /\ Max(H) \in Int /\ agl[t] \in Int
      /\ Min(H) <= agl[t] /\ agl[t] <= Max(H)
  BY <1>1, HeightsAt
<1>3. v.aglMin \subseteq Int /\ v.aglMax \subseteq Int
  BY BlockTypes
<1> HIDE DEF H
<1>4. reaches /\ dips
  BY <1>1, <1>2, <1>3 DEF InBounds
<1> DEFINE lowest == IF H = {} THEN "null" ELSE Truth(reaches)
           upmost == IF H = {} THEN "null" ELSE Truth(dips)
<1>5. /\ low = Optional(sql, v.aglMin, lowest)
      /\ up = Optional(sql, v.aglMax, upmost)
  BY Zenon DEF PartIf, Optional
<1>8. lowest = "true" /\ upmost = "true"
  BY <1>2, <1>4, NullOrTruth
<1>6. AglEver(sql, f, v) = low \cup up
  BY Zenon DEF AglEver, H
<1> HIDE DEF low, up, lowest, upmost
<1>7. AllTrue(low) /\ AllTrue(up)
  <2>1. AllTrue(low)
    BY <1>5, <1>8, OptionalPart
  <2>2. AllTrue(up)
    BY <1>5, <1>8, OptionalPart
  <2> QED
    BY <2>1, <2>2
<1> QED
  BY <1>6, <1>7, TrueOfUnion

(* Bounds that the heights at some instants never leave. *)
LEMMA HeightsAlways ==
    ASSUME NEW f, IsStored(f), NEW v, IsBlock(v), HasAgl(v), NEW T \in SUBSET Known(f)
    PROVE  /\ ExactlyTrue(AglAlways(f, v, T)) => AllTrue(AglAlways(f, v, T))
           /\ ExactlyTrue(AglAlways(f, v, T)) <=>
                  /\ \E t \in T : KnownHeight(f, t)
                  /\ \A t \in T : KnownHeight(f, t) => InHeights(f, v, t)
<1> DEFINE H == Heights(f, T)
           above == \A x \in v.aglMin : Min(H) >= x
           under == \A x \in v.aglMax : Max(H) <= x
           low   == PartIf("agl min", v.aglMin, H = {}, LAMBDA x : Min(H) >= x)
           up    == PartIf("agl max", v.aglMax, H = {}, LAMBDA x : Max(H) <= x)
           minSql == "agl min"
           maxSql == "agl max"
           lowest == IF H = {} THEN "null" ELSE Truth(above)
           upmost == IF H = {} THEN "null" ELSE Truth(under)
<1>1. /\ low = Optional(minSql, v.aglMin, lowest)
      /\ up = Optional(maxSql, v.aglMax, upmost)
  BY Zenon DEF PartIf, Optional
<1>2. AglAlways(f, v, T) = low \cup up
  BY Zenon DEF AglAlways
<1>3. /\ lowest = "true" <=> (H # {} /\ above)
      /\ upmost = "true" <=> (H # {} /\ under)
  BY NullOrTruth
<1>4. minSql \notin Probes /\ maxSql \notin Probes
  BY DEF Probes
<1>5. v.aglMin # None \/ v.aglMax # None
  BY DEF HasAgl
<1>6. (\E t \in T : KnownHeight(f, t)) =>
          /\ H # {}
          /\ above /\ under <=> \A t \in T : KnownHeight(f, t) => InHeights(f, v, t)
  <2> SUFFICES ASSUME NEW u \in T, KnownHeight(f, u)
               PROVE  H # {} /\ (above /\ under <=> \A t \in T : KnownHeight(f, t) => InHeights(f, v, t))
    OBVIOUS
  <2>1. PICK agl \in f.agl : u \in DOMAIN agl
    BY DEF KnownHeight
  <2>2. f.agl = {agl}
    BY HeightsTyped
  <2> DEFINE D == T \cap DOMAIN agl
  <2>3. (\A t \in T : KnownHeight(f, t) => InHeights(f, v, t)) <=>
            \A t \in D : InBounds(agl[t], v.aglMin, v.aglMax)
    BY <2>2 DEF InHeights, KnownHeight
  <2>4. /\ H # {} /\ Min(H) \in Int /\ Max(H) \in Int
        /\ \E t \in D : Min(H) = agl[t]
        /\ \E t \in D : Max(H) = agl[t]
        /\ \A t \in D : agl[t] \in Int /\ Min(H) <= agl[t] /\ agl[t] <= Max(H)
    BY <2>1, HeightsAt
  <2>5. v.aglMin \subseteq Int /\ v.aglMax \subseteq Int
    BY BlockTypes
  <2> HIDE DEF H, D
  <2>6. above <=> \A t \in D : \A x \in v.aglMin : x <= agl[t]
    BY <2>4, <2>5
  <2>7. under <=> \A t \in D : \A x \in v.aglMax : agl[t] <= x
    BY <2>4, <2>5
  <2> HIDE DEF above, under
  <2> QED
    BY <2>3, <2>4, <2>6, <2>7 DEF InBounds
<1>7. ~(\E t \in T : KnownHeight(f, t)) => H = {}
  BY NoHeights
<1> HIDE DEF low, up, minSql, maxSql, lowest, upmost, above, under, H
<1>8. /\ AllTrue(low) <=> (v.aglMin = None \/ lowest = "true")
      /\ ExactlyTrue(low) <=> (v.aglMin = None \/ lowest = "true")
  <2>1. AllTrue(low) <=> (v.aglMin = None \/ lowest = "true")
    BY <1>1, OptionalPart
  <2>2. ExactlyTrue(low) <=> (v.aglMin = None \/ minSql \in Probes \/ lowest = "true")
    BY <1>1, OptionalPart
  <2> QED
    BY <1>4, <2>1, <2>2
<1>9. /\ AllTrue(up) <=> (v.aglMax = None \/ upmost = "true")
      /\ ExactlyTrue(up) <=> (v.aglMax = None \/ upmost = "true")
  <2>1. AllTrue(up) <=> (v.aglMax = None \/ upmost = "true")
    BY <1>1, OptionalPart
  <2>2. ExactlyTrue(up) <=> (v.aglMax = None \/ maxSql \in Probes \/ upmost = "true")
    BY <1>1, OptionalPart
  <2> QED
    BY <1>4, <2>1, <2>2
<1>10. /\ AllTrue(AglAlways(f, v, T)) <=> AllTrue(low) /\ AllTrue(up)
       /\ ExactlyTrue(AglAlways(f, v, T)) <=> ExactlyTrue(low) /\ ExactlyTrue(up)
  BY <1>2, TrueOfUnion
<1>11. /\ v.aglMin = None => above
       /\ v.aglMax = None => under
  BY DEF above, under, None
<1>12. ExactlyTrue(AglAlways(f, v, T)) <=> H # {} /\ above /\ under
  BY <1>3, <1>5, <1>8, <1>9, <1>10, <1>11
<1>13. ExactlyTrue(AglAlways(f, v, T)) => AllTrue(AglAlways(f, v, T))
  BY <1>8, <1>9, <1>10
<1> QED
  BY <1>6, <1>7, <1>12, <1>13

LEMMA EverNamed ==
    ASSUME NEW f, NEW v, NEW sql
    PROVE  /\ sql \in Probes => ExactlyTrue(AglEver(sql, f, v))
           /\ sql \notin Probes /\ ExactlyTrue(AglEver(sql, f, v)) => AllTrue(AglEver(sql, f, v))
<1>1. \A p \in AglEver(sql, f, v) : p.sql = sql
  <2> DEFINE H == Heights(f, Known(f))
             low == PartIf(sql, v.aglMin, H = {}, LAMBDA x : Max(H) >= x)
             up  == PartIf(sql, v.aglMax, H = {}, LAMBDA x : Min(H) <= x)
  <2>1. AglEver(sql, f, v) = low \cup up
    BY Zenon DEF AglEver
  <2>2. \A p \in low : p.sql = sql
    BY DEF PartIf, Part, Truth
  <2>3. \A p \in up : p.sql = sql
    BY DEF PartIf, Part, Truth
  <2> HIDE DEF low, up
  <2> QED
    BY <2>1, <2>2, <2>3
<1> QED
  BY <1>1 DEF ExactlyTrue, AllTrue

(* With a geometry: the heights where the flight is placed. *)
LEMMA HeightsPlaced ==
    ASSUME NEW f, IsStored(f), NEW v, IsBlock(v), HasAgl(v), v.geometry # None
    PROVE  /\ ExactlyTrue(AglParts(f, v)) => AllTrue(AglParts(f, v))
           /\ v.kind = "intersects" =>
                  (ExactlyTrue(AglParts(f, v)) <=> \E t \in Known(f) : JointAt(f, v, t))
           /\ v.kind = "within" =>
                  (ExactlyTrue(AglParts(f, v)) <=>
                      /\ \E t \in Known(f) : PlacedAt(f, v, t) /\ KnownHeight(f, t)
                      /\ \A t \in Known(f) :
                            PlacedAt(f, v, t) /\ KnownHeight(f, t) => InHeights(f, v, t))
<1> DEFINE P == AtGeometry(f, v, Clipped(f, v))
           known == f.agl # None
           meets == EffectiveClipped(f, v) # {}
           column == "agl columns"
           first == Part("path_agl_ft", Truth(known))
           probe == AglEver(column, f, v)
           inside == AglAlways(f, v, P)
           touch == Part("agl instants", Truth(meets))
<1>1. \A t : t \in P <=> t \in Known(f) /\ PlacedAt(f, v, t)
  BY ClippedIsPlaced
<1>2. meets <=> \E t \in Known(f) : JointAt(f, v, t)
  BY EffectiveIsJoint
<1>3. \A t : JointAt(f, v, t) <=> PlacedAt(f, v, t) /\ InHeights(f, v, t)
  BY JointIsPlaced
<1>4. \A t : /\ InHeights(f, v, t) => KnownHeight(f, t)
             /\ KnownHeight(f, t) => f.agl # {}
  BY DEF InHeights, KnownHeight
<1>5. \A t \in Known(f) : InHeights(f, v, t) => AllTrue(probe)
  BY HeightsProbe
<1>6. "path_agl_ft" \notin Probes /\ "agl instants" \notin Probes /\ column \in Probes
  BY DEF Probes
<1>7. /\ v.kind = "within" => AglParts(f, v) = first \cup (probe \cup inside)
      /\ v.kind # "within" => AglParts(f, v) = first \cup (probe \cup touch)
  BY Zenon DEF AglParts
<1>8. known \in BOOLEAN /\ meets \in BOOLEAN /\ (known <=> f.agl # {})
  BY DEF None
<1>9. P \in SUBSET Known(f)
  BY <1>1
<1> HIDE DEF known, meets, column, P
<1>10. /\ AllTrue(first) <=> known
       /\ ExactlyTrue(first) <=> known
  BY <1>6, <1>8, PartTrue
<1>11. /\ AllTrue(touch) <=> meets
       /\ ExactlyTrue(touch) <=> meets
  BY <1>6, <1>8, PartTrue
<1>12. ExactlyTrue(probe)
  BY <1>6, EverNamed
<1>13. /\ ExactlyTrue(inside) => AllTrue(inside)
       /\ ExactlyTrue(inside) <=>
              /\ \E t \in P : KnownHeight(f, t)
              /\ \A t \in P : KnownHeight(f, t) => InHeights(f, v, t)
  BY <1>9, HeightsAlways
<1> HIDE DEF first, probe, inside, touch
<1>14. CASE v.kind = "within"
  <2>1. /\ AllTrue(AglParts(f, v)) <=> AllTrue(first) /\ AllTrue(probe) /\ AllTrue(inside)
        /\ ExactlyTrue(AglParts(f, v)) <=> ExactlyTrue(first) /\ ExactlyTrue(probe) /\ ExactlyTrue(inside)
    BY <1>7, <1>14, TrueOfUnion
  <2>2. ExactlyTrue(AglParts(f, v)) <=>
            /\ \E t \in P : KnownHeight(f, t)
            /\ \A t \in P : KnownHeight(f, t) => InHeights(f, v, t)
    BY <1>4, <1>8, <1>10, <1>12, <1>13, <2>1
  <2>3. ExactlyTrue(AglParts(f, v)) => AllTrue(probe)
    BY <1>1, <1>5, <2>2
  <2>4. v.kind # "intersects"
    BY <1>14
  <2> QED
    BY <1>1, <1>10, <1>13, <2>1, <2>2, <2>3, <2>4
<1>15. CASE v.kind # "within"
  <2>1. /\ AllTrue(AglParts(f, v)) <=> AllTrue(first) /\ AllTrue(probe) /\ AllTrue(touch)
        /\ ExactlyTrue(AglParts(f, v)) <=> ExactlyTrue(first) /\ ExactlyTrue(probe) /\ ExactlyTrue(touch)
    BY <1>7, <1>15, TrueOfUnion
  <2>2. meets => known /\ AllTrue(probe)
    <3> SUFFICES ASSUME meets PROVE known /\ AllTrue(probe)
      OBVIOUS
    <3>1. PICK t \in Known(f) : JointAt(f, v, t)
      BY <1>2
    <3>2. InHeights(f, v, t)
      BY <1>3, <3>1
    <3>3. KnownHeight(f, t)
      BY <1>4, <3>2
    <3>4. f.agl # {}
      BY <1>4, <3>3
    <3> QED
      BY <1>5, <1>8, <3>2, <3>4
  <2> QED
    BY <1>2, <1>10, <1>11, <1>12, <1>15, <2>1, <2>2
<1> QED
  BY <1>14, <1>15

(* Without one: at all of its instants, or at some. *)
LEMMA HeightsAnywhere ==
    ASSUME NEW f, IsStored(f), NEW v, IsBlock(v), HasAgl(v), v.geometry = None
    PROVE  /\ ExactlyTrue(AglParts(f, v)) => AllTrue(AglParts(f, v))
           /\ v.kind = "within" =>
                  (ExactlyTrue(AglParts(f, v)) <=>
                      /\ f.agl # {}
                      /\ \A t \in Known(f) : KnownHeight(f, t) => InHeights(f, v, t))
<1> DEFINE known == f.agl # None
           meets == AtAgl(f, v, Known(f)) # {}
           column == "agl columns"
           plain == "agl"
           first == Part("path_agl_ft", Truth(known))
           probe == AglEver(column, f, v)
           ever == AglEver(plain, f, v)
           inside == AglAlways(f, v, Known(f))
           touch == Part("agl instants", Truth(meets))
           single == v.aglMin = None \/ v.aglMax = None
<1>1. /\ v.kind = "within" => AglParts(f, v) = first \cup inside
      /\ v.kind # "within" /\ single => AglParts(f, v) = first \cup ever
      /\ v.kind # "within" /\ ~single => AglParts(f, v) = first \cup (probe \cup touch)
  BY Zenon DEF AglParts
<1>2. meets <=> \E t \in Known(f) : InHeights(f, v, t)
  BY ClipsByHeight
<1>3. \A t : InHeights(f, v, t) => f.agl # {}
  BY DEF InHeights
<1>4. \A t \in Known(f) : InHeights(f, v, t) => AllTrue(probe)
  BY HeightsProbe
<1>5. /\ "path_agl_ft" \notin Probes /\ "agl instants" \notin Probes
      /\ column \in Probes /\ plain \notin Probes
  BY DEF Probes
<1>6. known \in BOOLEAN /\ meets \in BOOLEAN /\ (known <=> f.agl # {})
  BY DEF None
<1>7. f.agl # {} <=> \E t \in Known(f) : KnownHeight(f, t)
  BY HeightsTyped DEF KnownHeight
<1> HIDE DEF known, meets, column, plain, single
<1>8. /\ AllTrue(first) <=> known
      /\ ExactlyTrue(first) <=> known
  BY <1>5, <1>6, PartTrue
<1>9. /\ AllTrue(touch) <=> meets
      /\ ExactlyTrue(touch) <=> meets
  BY <1>5, <1>6, PartTrue
<1>10. ExactlyTrue(probe) /\ (ExactlyTrue(ever) => AllTrue(ever))
  BY <1>5, EverNamed
<1>11. /\ ExactlyTrue(inside) => AllTrue(inside)
       /\ ExactlyTrue(inside) <=>
              f.agl # {} /\ \A t \in Known(f) : KnownHeight(f, t) => InHeights(f, v, t)
  BY <1>7, HeightsAlways
<1> HIDE DEF first, probe, ever, inside, touch
<1>12. CASE v.kind = "within"
  BY <1>1, <1>3, <1>6, <1>7, <1>8, <1>11, <1>12, TrueOfUnion
<1>13. CASE v.kind # "within" /\ single
  BY <1>1, <1>8, <1>10, <1>13, TrueOfUnion
<1>14. CASE v.kind # "within" /\ ~single
  <2>1. meets => known /\ AllTrue(probe)
    BY <1>2, <1>3, <1>4, <1>6
  <2> QED
    BY <1>1, <1>8, <1>9, <1>10, <1>14, <2>1, TrueOfUnion
<1> QED
  BY <1>12, <1>13, <1>14

-----------------------------------------------------------------------------
(* The whole condition. *)

(* The exact conditions imply the probes, but at corners. *)
LEMMA ExactSuffices ==
    ASSUME NEW f, IsStored(f), NEW v, IsBlock(v), ExactlyTrue(Parts(f, v))
    PROVE  AllTrue(Parts(f, v)) \/ OnlyAtCorners(f, v)
<1> SUFFICES ASSUME ~OnlyAtCorners(f, v) PROVE AllTrue(Parts(f, v))
  OBVIOUS
<1>1. AllTrue(TimeParts(f, v))
  BY TrueOfParts, TimesAsked
<1>2. AllTrue(MeasureParts(f, v))
  BY TrueOfParts, DurationProbe
<1>3. AllTrue(SquawkParts(f, v))
  BY TrueOfParts, SquawksAsked
<1>4. AllTrue(Places(f, v))
  <2>1. ExactlyTrue(Places(f, v)) /\ v.kind \in {"intersects", "within"}
    BY TrueOfParts, BlockTypes
  <2>2. CASE v.geometry = None
    BY <2>1, <2>2, AltitudesAsked DEF Places
  <2>3. CASE v.geometry # None
    BY <2>1, <2>3, IntersectsAsked, WithinAsked DEF Places
  <2> QED
    BY <2>2, <2>3
<1>5. AllTrue(Altitude(f, v))
  <2>1. ExactlyTrue(Altitude(f, v))
    BY TrueOfParts
  <2>2. CASE ~HasAgl(v)
    BY <2>2 DEF Altitude, AllTrue
  <2>3. CASE HasAgl(v)
    BY <2>1, <2>3, HeightsAnywhere, HeightsPlaced DEF Altitude
  <2> QED
    BY <2>2, <2>3
<1> QED
  BY <1>1, <1>2, <1>3, <1>4, <1>5, TrueOfParts

LEMMA WindowOfInstant ==
    ASSUME NEW f, IsStored(f), NEW v, IsBlock(v), NEW t \in Known(f), PlacedAt(f, v, t)
    PROVE  AllTrue(TimeParts(f, v))
<1>1. t \in Int /\ Start(f) \in Int /\ End(f) \in Int /\ Start(f) <= t /\ t <= End(f)
  BY KnownEnds
<1>2. \A x \in v.from \cup v.to : x \in Int
  BY BlockTypes
<1>3. (\A x \in v.from : x <= t) /\ (\A x \in v.to : t < x)
  BY DEF PlacedAt
<1>4. (\A x \in v.from : End(f) >= x) /\ (\A x \in v.to : Start(f) < x)
  BY <1>1, <1>2, <1>3
<1> QED
  BY <1>4, TimesAsked

(* trajectory_intersects with a geometry. *)
LEMMA MeetsAtOneInstant ==
    ASSUME NEW f, IsStored(f), NEW v, IsBlock(v),
           v.kind = "intersects", v.geometry # None, ~HasMeasure(v)
    PROVE  LET together == \E t \in Known(f) :
                   /\ JointAt(f, v, t)
                   /\ v.squawk # {} => t \in DOMAIN f.squawk /\ f.squawk[t] \in v.squawk
           IN  /\ AllTrue(Parts(f, v)) => together
               /\ together => AllTrue(Parts(f, v)) \/ OnlyAtCorners(f, v)
<1>1. Places(f, v) = GeometryParts(f, v)
  BY DEF Places
<1>2. /\ HasAgl(v) => Altitude(f, v) = AglParts(f, v)
      /\ ~HasAgl(v) => AllTrue(Altitude(f, v))
  BY DEF Altitude, AllTrue
<1>3. \A S : AllTrue(S) => ExactlyTrue(S)
  BY DEF AllTrue, ExactlyTrue
<1>4. /\ AllTrue(Places(f, v)) => \E t \in Known(f) : PlacedAt(f, v, t)
      /\ (\E t \in Known(f) : PlacedAt(f, v, t)) => AllTrue(Places(f, v)) \/ OnlyAtCorners(f, v)
  BY <1>1, <1>3, IntersectsAsked
<1>5. HasAgl(v) => (AllTrue(Altitude(f, v)) <=> \E t \in Known(f) : JointAt(f, v, t))
  BY <1>2, <1>3, HeightsPlaced
<1>6. ~HasAgl(v) => \A t : JointAt(f, v, t) <=> PlacedAt(f, v, t)
  BY JointIsPlaced
<1>7. /\ v.squawk = {} => AllTrue(SquawkParts(f, v))
      /\ v.squawk # {} =>
             (AllTrue(SquawkParts(f, v)) <=>
                 \E t \in EffectiveClipped(f, v) \cap DOMAIN f.squawk : f.squawk[t] \in v.squawk)
  BY <1>3, SquawksAsked DEF Listened
<1>8. \A t : t \in EffectiveClipped(f, v) <=> t \in Known(f) /\ JointAt(f, v, t)
  BY EffectiveIsJoint
<1>9. AllTrue(MeasureParts(f, v))
  BY NothingMeasured
<1>10. ASSUME AllTrue(Parts(f, v))
       PROVE  \E t \in Known(f) :
                   /\ JointAt(f, v, t)
                   /\ v.squawk # {} => t \in DOMAIN f.squawk /\ f.squawk[t] \in v.squawk
  <2>1. AllTrue(SquawkParts(f, v)) /\ AllTrue(Places(f, v)) /\ AllTrue(Altitude(f, v))
    BY <1>10, TrueOfParts
  <2>2. CASE v.squawk # {}
    BY <1>7, <1>8, <2>1, <2>2
  <2>3. CASE v.squawk = {}
    BY <1>4, <1>5, <1>6, <2>1, <2>3
  <2> QED
    BY <2>2, <2>3
<1>11. ASSUME NEW t \in Known(f), JointAt(f, v, t),
              v.squawk # {} => t \in DOMAIN f.squawk /\ f.squawk[t] \in v.squawk
       PROVE  AllTrue(Parts(f, v)) \/ OnlyAtCorners(f, v)
  <2>1. PlacedAt(f, v, t)
    BY <1>11, JointIsPlaced
  <2>2. AllTrue(TimeParts(f, v))
    BY <2>1, WindowOfInstant
  <2>3. AllTrue(SquawkParts(f, v))
    BY <1>7, <1>8, <1>11
  <2>4. (AllTrue(Places(f, v)) \/ OnlyAtCorners(f, v)) /\ AllTrue(Altitude(f, v))
    BY <1>2, <1>4, <1>5, <1>11, <2>1
  <2> QED
    BY <1>9, <2>2, <2>3, <2>4, TrueOfParts
<1> QED
  BY <1>10, <1>11

(* trajectory_within without a window. *)
LEMMA StaysThroughout ==
    ASSUME NEW f, IsStored(f), NEW v, IsBlock(v),
           v.kind = "within", ~HasTime(v), ~HasMeasure(v), v.squawk = {}
    PROVE  /\ (\A t \in Known(f) : JointAt(f, v, t)) => AllTrue(Parts(f, v))
           /\ AllTrue(Parts(f, v)) => \A t \in Known(f) : JointWhereKnown(f, v, t)
<1>1. v.from = {} /\ v.to = {}
  BY DEF HasTime, None
<1>2. /\ HasAgl(v) => Altitude(f, v) = AglParts(f, v)
      /\ ~HasAgl(v) => AllTrue(Altitude(f, v))
  BY DEF Altitude, AllTrue
<1>3. \A S : AllTrue(S) => ExactlyTrue(S)
  BY DEF AllTrue, ExactlyTrue
<1>4. AllTrue(TimeParts(f, v)) /\ AllTrue(MeasureParts(f, v)) /\ AllTrue(SquawkParts(f, v))
  BY <1>1, TimesAsked, NothingMeasured, SquawksAsked
<1>5. AllTrue(Parts(f, v)) <=> AllTrue(Places(f, v)) /\ AllTrue(Altitude(f, v))
  BY <1>4, TrueOfParts
<1>6. \A t : JointAt(f, v, t) <=> PlacedAt(f, v, t) /\ (HasAgl(v) => InHeights(f, v, t))
  BY JointIsPlaced
<1>7. PICK u \in Known(f) : TRUE
  BY DEF IsStored
<1>8. \A t : InHeights(f, v, t) => KnownHeight(f, t) /\ f.agl # {}
  BY DEF InHeights, KnownHeight
<1>9. ASSUME NEW t, \A g \in v.geometry : f.place[t] \in g.places,
             \A b \in v.altMin \cup v.altMax : HasAltitude(f, b.ref, t),
             \A low \in v.altMin : HasAltitude(f, low.ref, t) => Feet(f, low.ref, t) >= low.ft,
             \A high \in v.altMax : HasAltitude(f, high.ref, t) => Feet(f, high.ref, t) <= high.ft
      PROVE  PlacedAt(f, v, t)
  BY <1>1, <1>9 DEF PlacedAt
<1>10. ASSUME NEW t \in Known(f), \A g \in v.geometry : f.place[t] \in g.places, Always(f, v),
              HasAgl(v) => f.agl # {},
              HasAgl(v) /\ PlacedAt(f, v, t) /\ KnownHeight(f, t) => InHeights(f, v, t)
       PROVE  JointWhereKnown(f, v, t)
  <2>1. /\ \A low \in v.altMin : HasAltitude(f, low.ref, t) => Feet(f, low.ref, t) >= low.ft
        /\ \A high \in v.altMax : HasAltitude(f, high.ref, t) => Feet(f, high.ref, t) <= high.ft
    BY <1>10 DEF Always
  <2>2. ASSUME HasAgl(v), \A b \in v.altMin \cup v.altMax : HasAltitude(f, b.ref, t)
        PROVE  \E agl \in f.agl : t \in DOMAIN agl => InBounds(agl[t], v.aglMin, v.aglMax)
    <3>1. PlacedAt(f, v, t)
      BY <1>9, <1>10, <2>1, <2>2
    <3>2. CASE KnownHeight(f, t)
      BY <1>10, <2>2, <3>1, <3>2 DEF InHeights
    <3>3. CASE ~KnownHeight(f, t)
      BY <1>10, <2>2, <3>3 DEF KnownHeight
    <3> QED
      BY <3>2, <3>3
  <2> QED
    BY <1>10, <2>1, <2>2 DEF JointWhereKnown
<1>11. CASE v.geometry = None
  <2>1. AllTrue(Places(f, v)) <=> Always(f, v)
    BY <1>3, <1>11, AltitudesAsked DEF Places
  <2>2. HasAgl(v) => (AllTrue(Altitude(f, v)) <=>
            /\ f.agl # {}
            /\ \A t \in Known(f) : KnownHeight(f, t) => InHeights(f, v, t))
    BY <1>2, <1>3, <1>11, HeightsAnywhere
  <2>3. (\A t \in Known(f) : PlacedAt(f, v, t)) => Always(f, v)
    BY DEF Always, PlacedAt
  <2>4. ASSUME \A t \in Known(f) : JointAt(f, v, t) PROVE AllTrue(Parts(f, v))
    BY <1>2, <1>5, <1>6, <1>7, <1>8, <2>1, <2>2, <2>3, <2>4
  <2>5. ASSUME AllTrue(Parts(f, v)), NEW t \in Known(f) PROVE JointWhereKnown(f, v, t)
    <3>1. /\ Always(f, v)
          /\ HasAgl(v) => f.agl # {} /\ (KnownHeight(f, t) => InHeights(f, v, t))
      BY <1>5, <2>1, <2>2, <2>5
    <3>2. \A g \in v.geometry : f.place[t] \in g.places
      BY <1>11 DEF None
    <3> QED
      BY <1>10, <3>1, <3>2
  <2> QED
    BY <2>4, <2>5
<1>12. CASE v.geometry # None
  <2>1. AllTrue(Places(f, v)) <=>
            /\ \A t \in Known(f) : f.place[t] \in Area(v)
            /\ HasAlt(v) => AtStbox(f, v) # {} /\ Always(f, v)
    BY <1>3, <1>12, WithinAsked DEF Places
  <2>2. HasAgl(v) => (AllTrue(Altitude(f, v)) <=>
            /\ \E t \in Known(f) : PlacedAt(f, v, t) /\ KnownHeight(f, t)
            /\ \A t \in Known(f) : PlacedAt(f, v, t) /\ KnownHeight(f, t) => InHeights(f, v, t))
    BY <1>2, <1>3, <1>12, HeightsPlaced
  <2>3. (\A t \in Known(f) : f.place[t] \in Area(v)) => AtStbox(f, v) # {}
    <3>1. f.place[u] \in Area(v) => u \in AtStbox(f, v)
      BY <1>1, <1>7, <1>12, AreaOfGeometry, InStbox
    <3> QED
      BY <1>7, <3>1
  <2>4. ~HasAlt(v) => Always(f, v)
    BY DEF HasAlt, Always, None
  <2>5. \A t : f.place[t] \in Area(v) <=> \A g \in v.geometry : f.place[t] \in g.places
    BY <1>12, AreaOfGeometry
  <2>6. ASSUME \A t \in Known(f) : JointAt(f, v, t) PROVE AllTrue(Parts(f, v))
    <3>1. \A t \in Known(f) : PlacedAt(f, v, t) /\ (HasAgl(v) => InHeights(f, v, t))
      BY <1>6, <2>6
    <3>2. (\A t \in Known(f) : f.place[t] \in Area(v)) /\ Always(f, v)
      BY <2>5, <3>1 DEF Always, PlacedAt
    <3>3. AllTrue(Places(f, v))
      BY <2>1, <2>3, <3>2
    <3>4. AllTrue(Altitude(f, v))
      BY <1>2, <1>7, <1>8, <2>2, <3>1
    <3> QED
      BY <1>5, <3>3, <3>4
  <2>7. ASSUME AllTrue(Parts(f, v)), NEW t \in Known(f) PROVE JointWhereKnown(f, v, t)
    <3>1. AllTrue(Places(f, v)) /\ AllTrue(Altitude(f, v))
      BY <1>5, <2>7
    <3>2. (\A g \in v.geometry : f.place[t] \in g.places) /\ Always(f, v)
      BY <2>1, <2>4, <2>5, <3>1
    <3>3. HasAgl(v) => f.agl # {} /\ (PlacedAt(f, v, t) /\ KnownHeight(f, t) => InHeights(f, v, t))
      BY <2>2, <3>1 DEF KnownHeight
    <3> QED
      BY <1>10, <3>2, <3>3
  <2> QED
    BY <2>6, <2>7
<1> QED
  BY <1>11, <1>12

-----------------------------------------------------------------------------
(* What is measured. *)

LEMMA DivBounds ==
    ASSUME NEW x \in Int, NEW k \in Int, k > 0
    PROVE  x \div k \in Int /\ k * (x \div k) <= x /\ x < k * (x \div k) + k
OBVIOUS

(* A point on a line is between its ends. *)
LEMMA OnTheLine ==
    ASSUME NEW d \in Int, NEW n \in Int, NEW k \in Int, 0 < n, n < k
    PROVE  /\ (d * n) \div k \in Int
           /\ 0 <= d => 0 <= (d * n) \div k /\ (d * n) \div k <= d
           /\ d <= 0 => d <= (d * n) \div k /\ (d * n) \div k <= 0
<1> DEFINE q == (d * n) \div k
<1>1. d * n \in Int
  OBVIOUS
<1>2. q \in Int /\ k * q <= d * n /\ d * n < k * q + k
  <2> DEFINE x == d * n
  <2>1. x \in Int /\ k > 0
    BY <1>1
  <2> HIDE DEF x
  <2>2. x \div k \in Int /\ k * (x \div k) <= x /\ x < k * (x \div k) + k
    BY <2>1, DivBounds
  <2> QED
    BY <2>2 DEF x
<1> HIDE DEF q
<1>3. ASSUME 0 <= d PROVE 0 <= q /\ q <= d
  <2>1. 0 <= d * n /\ d * n <= d * k
    BY <1>3
  <2>2. ~(q < 0)
    <3> SUFFICES ASSUME q < 0 PROVE FALSE
      OBVIOUS
    <3>1. q + 1 <= 0
      BY <1>2
    <3>2. k * (q + 1) <= 0
      BY <1>2, <3>1
    <3>3. k * (q + 1) = k * q + k
      BY <1>2
    <3> QED
      BY <1>1, <1>2, <2>1, <3>2, <3>3
  <2>3. ~(q > d)
    <3> SUFFICES ASSUME q > d PROVE FALSE
      OBVIOUS
    <3>1. d + 1 <= q
      BY <1>2
    <3>2. k * (d + 1) <= k * q
      BY <1>2, <3>1
    <3>3. k * (d + 1) = d * k + k
      OBVIOUS
    <3> QED
      BY <1>1, <1>2, <2>1, <3>2, <3>3
  <2> QED
    BY <1>2, <2>2, <2>3
<1>4. ASSUME d <= 0 PROVE d <= q /\ q <= 0
  <2>1. d * n <= 0 /\ d * k <= d * n
    BY <1>4
  <2>2. ~(q > 0)
    <3> SUFFICES ASSUME q > 0 PROVE FALSE
      OBVIOUS
    <3>1. k * q > 0
      BY <1>2
    <3> QED
      BY <1>1, <1>2, <2>1, <3>1
  <2>3. ~(q < d)
    <3> SUFFICES ASSUME q < d PROVE FALSE
      OBVIOUS
    <3>1. q + 1 <= d
      BY <1>2
    <3>2. k * (q + 1) <= k * d
      BY <1>2, <3>1
    <3>3. k * (q + 1) = k * q + k /\ k * d = d * k
      BY <1>2
    <3> QED
      BY <1>1, <1>2, <2>1, <3>2, <3>3
  <2> QED
    BY <1>2, <2>2, <2>3
<1> QED
  BY <1>2, <1>3, <1>4 DEF q

(* The last entry of a series before an instant. *)
LEMMA LastEntry ==
    ASSUME NEW D \in SUBSET Nat, IsFiniteSet(D), NEW d \in D, NEW t \in Int, d <= t
    PROVE  LET a == Max({u \in D : u <= t}) IN a \in D /\ a <= t /\ (t \in D => a = t)
<1> DEFINE S == {u \in D : u <= t}
<1>1. d \in S /\ (t \in D => t \in S) /\ S \in SUBSET D
  OBVIOUS
<1>2. \A u \in S : u \in D /\ u <= t
  OBVIOUS
<1> HIDE DEF S
<1>3. IsFiniteSet(S) /\ S \in SUBSET Int
  <2>1. IsFiniteSet(S)
    BY <1>1, FS_Subset
  <2>2. S \in SUBSET Int
    BY <1>1
  <2> QED
    BY <2>1, <2>2
<1>4. Max(S) \in S /\ \A x \in S : x <= Max(S)
  BY <1>1, <1>3, SetExtremes
<1>5. t \in D => Max(S) = t
  <2>1. Max(S) \in Int /\ Max(S) <= t
    BY <1>2, <1>3, <1>4
  <2> QED
    BY <1>1, <1>4, <2>1
<1> QED
  BY <1>2, <1>4, <1>5 DEF S

(* The samples that surround an instant. *)
LEMMA LastSample ==
    ASSUME NEW f, IsStored(f), NEW t \in Start(f)..End(f)
    PROVE  LastKnown(f, t) \in Known(f) /\ LastKnown(f, t) <= t /\ (t \in Known(f) => LastKnown(f, t) = t)
<1>1. Known(f) \in SUBSET Nat /\ IsFiniteSet(Known(f))
  BY DEF IsStored
<1>2. Start(f) \in Known(f) /\ t \in Int /\ Start(f) <= t
  BY KnownEnds
<1> QED
  BY <1>1, <1>2, LastEntry DEF LastKnown

LEMMA NextSample ==
    ASSUME NEW f, IsStored(f), NEW t \in Start(f)..End(f), t \notin Known(f)
    PROVE  NextKnown(f, t) \in Known(f) /\ NextKnown(f, t) > t
<1> DEFINE S == {u \in Known(f) : u > t}
<1>1. End(f) \in S
  <2>1. End(f) \in Known(f) /\ End(f) \in Int /\ t <= End(f) /\ t # End(f) /\ t \in Int
    BY KnownEnds
  <2> QED
    BY <2>1
<1>2. S \in SUBSET Known(f) /\ IsFiniteSet(Known(f)) /\ Known(f) \subseteq Nat
  BY DEF IsStored
<1>3. IsFiniteSet(S) /\ S \in SUBSET Int
  <2> HIDE DEF S
  <2> QED
    BY <1>2, FS_Subset
<1>4. Min(S) \in S
  <2> HIDE DEF S
  <2> QED
    BY <1>1, <1>3, SetExtremes
<1> QED
  BY <1>4 DEF NextKnown

(* A bridged gap stays within what bounds the samples at its ends. *)
LEMMA LinearWithin ==
    ASSUME NEW f, IsStored(f), NEW fn \in [Known(f) -> Int], NEW t \in Start(f)..End(f), NEW m \in Int
    PROVE  LET line == Linear(f, fn)[t]
               a == LastKnown(f, t)
               b == NextKnown(f, t)
           IN  /\ t \in Known(f) => line = fn[t]
               /\ t \notin Known(f) =>
                     /\ line \in Int
                     /\ m <= fn[a] /\ m <= fn[b] => m <= line
                     /\ fn[a] <= m /\ fn[b] <= m => line <= m
<1>1. CASE t \in Known(f)
  BY <1>1 DEF Linear
<1>2. CASE t \notin Known(f)
  <2> DEFINE a == LastKnown(f, t)
             b == NextKnown(f, t)
             d == fn[b] - fn[a]
             q == (d * (t - a)) \div (b - a)
  <2>1. Linear(f, fn)[t] = fn[a] + q
    BY <1>2 DEF Linear, Between
  <2>2. a \in Known(f) /\ a <= t
    BY LastSample
  <2>3. b \in Known(f) /\ b > t
    BY <1>2, NextSample
  <2>4. Known(f) \subseteq Int /\ t \in Int
    BY KnownEnds
  <2> HIDE DEF a, b
  <2>5. fn[a] \in Int /\ fn[b] \in Int /\ d \in Int /\ t - a \in Int /\ b - a \in Int
    BY <2>2, <2>3, <2>4
  <2>6. 0 < t - a /\ t - a < b - a
    BY <1>2, <2>2, <2>3, <2>4
  <2>7. fn[b] = fn[a] + d
    BY <2>5
  <2>8. /\ q \in Int
        /\ 0 <= d => 0 <= q /\ q <= d
        /\ d <= 0 => d <= q /\ q <= 0
    <3> DEFINE n == t - a
               k == b - a
    <3>1. d \in Int /\ n \in Int /\ k \in Int /\ 0 < n /\ n < k
      BY <2>5, <2>6
    <3> HIDE DEF d, n, k
    <3>2. /\ (d * n) \div k \in Int
          /\ 0 <= d => 0 <= (d * n) \div k /\ (d * n) \div k <= d
          /\ d <= 0 => d <= (d * n) \div k /\ (d * n) \div k <= 0
      BY <3>1, OnTheLine
    <3> QED
      BY <3>2 DEF n, k
  <2> HIDE DEF d, q
  <2> DEFINE line == Linear(f, fn)[t]
  <2>9. line = fn[a] + q
    BY <2>1
  <2> HIDE DEF line
  <2>10. /\ line \in Int
         /\ m <= fn[a] /\ m <= fn[b] => m <= line
         /\ fn[a] <= m /\ fn[b] <= m => line <= m
    BY <2>5, <2>7, <2>8, <2>9
  <2> QED
    BY <1>2, <2>10 DEF line, a, b
<1> QED
  BY <1>1, <1>2

(* A series that is known from the first to the last point is known at     *)
(* every instant of the bridged path, by its last entry.                   *)
LEMMA StepwiseThroughout ==
    ASSUME NEW f, IsStored(f), NEW fn, DOMAIN fn \subseteq Known(f),
           Start(f) \in DOMAIN fn, End(f) \in DOMAIN fn, NEW t \in Start(f)..End(f)
    PROVE  /\ t \in DOMAIN Stepwise(fn)
           /\ \E e \in DOMAIN fn : Stepwise(fn)[t] = fn[e]
           /\ DOMAIN fn = Known(f) => Stepwise(fn)[t] = fn[LastKnown(f, t)]
<1> DEFINE D == DOMAIN fn
<1>1. D \in SUBSET Nat /\ IsFiniteSet(D) /\ D \in SUBSET Int /\ D # {}
  BY FS_Subset DEF IsStored
<1>2. \A u \in D : Start(f) <= u /\ u <= End(f)
  BY KnownEnds
<1>3. t \in Int /\ Start(f) \in Int /\ End(f) \in Int /\ Start(f) <= t /\ t <= End(f)
  BY KnownEnds
<1> HIDE DEF D
<1>4. Min(D) \in D /\ Max(D) \in D /\ \A u \in D : Min(D) <= u /\ u <= Max(D)
  BY <1>1, SetExtremes
<1>5. Min(D) = Start(f) /\ Max(D) = End(f)
  <2>1. Start(f) \in D /\ End(f) \in D
    BY DEF D
  <2>2. Min(D) <= Start(f) /\ End(f) <= Max(D)
    BY <1>4, <2>1
  <2>3. Start(f) <= Min(D) /\ Max(D) <= End(f)
    BY <1>2, <1>4
  <2>4. Min(D) \in Int /\ Max(D) \in Int
    BY <1>1, <1>4
  <2> HIDE DEF D
  <2> QED
    BY <1>3, <2>2, <2>3, <2>4
<1>6. t \in Min(D)..Max(D)
  BY <1>3, <1>5
<1>7. t \in DOMAIN Stepwise(fn) /\ Stepwise(fn)[t] = fn[Max({u \in D : u <= t})]
  BY <1>6 DEF Stepwise, D
<1>8. Max({u \in D : u <= t}) \in D
  <2>1. Start(f) \in D
    BY DEF D
  <2> QED
    BY <1>1, <1>3, <2>1, LastEntry
<1> QED
  BY <1>7, <1>8 DEF D, LastKnown

(* Bounds on the altitudes of the samples are bounds of the bridged path.  *)
LEMMA BridgedFeet ==
    ASSUME NEW f, IsStored(f), NEW v, KnownThroughout(f, v), NEW ref, Bounded(v, ref),
           NEW t \in Start(f)..End(f), NEW m \in Int
    PROVE  /\ HasAltitude(Stitched(f), ref, t)
           /\ \A u \in Known(f) : HasAltitude(f, ref, u)
           /\ (\A u \in Known(f) : m <= Feet(f, ref, u)) => m <= Feet(Stitched(f), ref, t)
           /\ (\A u \in Known(f) : Feet(f, ref, u) <= m) => Feet(Stitched(f), ref, t) <= m
<1> DEFINE s == Stitched(f)
           corrected == ref = "ft" /\ f.corr # {}
           add(u) == IF corrected THEN Correction(f)[u] ELSE 0
           a == LastKnown(f, t)
           b == NextKnown(f, t)
<1>1. s.alt = Linear(f, f.alt) /\ s.corr = {Stepwise(corr) : corr \in f.corr}
  BY StitchedPath
<1> HIDE DEF s
<1>2. corrected => /\ f.corr = {Correction(f)} /\ DOMAIN Correction(f) = Known(f)
                   /\ \A u \in Known(f) : Correction(f)[u] \in Int
                   /\ Start(f) \in Known(f) /\ End(f) \in Known(f)
                   /\ t \notin Known(f) => Correction(f)[a] = Correction(f)[b]
  <2> SUFFICES ASSUME corrected
               PROVE  /\ f.corr = {Correction(f)} /\ DOMAIN Correction(f) = Known(f)
                      /\ \A u \in Known(f) : Correction(f)[u] \in Int
                      /\ t \notin Known(f) => Correction(f)[a] = Correction(f)[b]
    BY KnownEnds
  <2>1. f.corr = {Correction(f)} /\ Correction(f) \in [DOMAIN Correction(f) -> Int]
    BY CorrectionTyped
  <2>2. \A corr \in f.corr :
            /\ DOMAIN corr = Known(f)
            /\ \A u \in (Start(f)..End(f)) \ Known(f) : corr[LastKnown(f, u)] = corr[NextKnown(f, u)]
    BY DEF KnownThroughout
  <2> QED
    BY <2>1, <2>2
<1>3. corrected => t \in DOMAIN Stepwise(Correction(f)) /\ Stepwise(Correction(f))[t] = Correction(f)[a]
  BY <1>2, StepwiseThroughout
<1>4. corrected => s.corr = {Stepwise(Correction(f))} /\ Correction(s) = Stepwise(Correction(f))
  BY <1>1, <1>2 DEF Correction
<1>5. ref = "ft" /\ ~corrected => f.corr = {} /\ s.corr = {}
  BY <1>1
<1>6. HasAltitude(s, ref, t)
  BY <1>3, <1>4, <1>5 DEF HasAltitude
<1>7. \A u \in Known(f) : HasAltitude(f, ref, u)
  BY <1>2, <1>5 DEF HasAltitude
<1>8. \A u : Feet(f, ref, u) = f.alt[u] + add(u)
  BY DEF Feet, None
<1>9. Feet(s, ref, t) = s.alt[t] + add(a)
  BY <1>3, <1>4, <1>5 DEF Feet, None
<1>10. \A u \in Known(f) : f.alt[u] \in Int /\ add(u) \in Int
  BY <1>2 DEF IsStored
<1>11. a \in Known(f) /\ (t \in Known(f) => a = t) /\ (t \notin Known(f) => b \in Known(f) /\ add(a) = add(b))
  BY <1>2, LastSample, NextSample
<1>12. f.alt \in [Known(f) -> Int]
  BY DEF IsStored
<1> DEFINE k == m - add(a)
<1>13. k \in Int
  BY <1>10, <1>11
<1> HIDE DEF corrected, add, a, b, k
<1>14. /\ t \in Known(f) => s.alt[t] = f.alt[t]
       /\ t \notin Known(f) => /\ s.alt[t] \in Int
                               /\ k <= f.alt[a] /\ k <= f.alt[b] => k <= s.alt[t]
                               /\ f.alt[a] <= k /\ f.alt[b] <= k => s.alt[t] <= k
  BY <1>1, <1>12, <1>13, LinearWithin DEF a, b
<1>15. CASE t \in Known(f)
  BY <1>6, <1>7, <1>8, <1>9, <1>11, <1>14, <1>15 DEF s
<1>16. CASE t \notin Known(f)
  <2>1. /\ f.alt[a] \in Int /\ f.alt[b] \in Int /\ add(a) \in Int /\ add(b) = add(a) /\ s.alt[t] \in Int
        /\ Feet(f, ref, a) = f.alt[a] + add(a) /\ Feet(f, ref, b) = f.alt[b] + add(a)
    BY <1>8, <1>10, <1>11, <1>14, <1>16
  <2>2. ASSUME \A u \in Known(f) : m <= Feet(f, ref, u) PROVE m <= Feet(s, ref, t)
    <3>1. k <= f.alt[a] /\ k <= f.alt[b]
      BY <1>11, <1>16, <2>1, <2>2 DEF k
    <3>2. k <= s.alt[t]
      BY <1>14, <1>16, <3>1
    <3> QED
      BY <1>9, <2>1, <3>2 DEF k
  <2>3. ASSUME \A u \in Known(f) : Feet(f, ref, u) <= m PROVE Feet(s, ref, t) <= m
    <3>1. f.alt[a] <= k /\ f.alt[b] <= k
      BY <1>11, <1>16, <2>1, <2>3 DEF k
    <3>2. s.alt[t] <= k
      BY <1>14, <1>16, <3>1
    <3> QED
      BY <1>9, <2>1, <3>2 DEF k
  <2> QED
    BY <1>6, <1>7, <2>2, <2>3 DEF s
<1> QED
  BY <1>15, <1>16

(* What is true at every sample is true of the bridged path. *)
LEMMA BridgedStaysJoint ==
    ASSUME NEW f, IsStored(f), NEW v, IsBlock(v), v.geometry = None, ~HasTime(v),
           KnownThroughout(f, v), Always(f, v),
           HasAgl(v) => f.agl # {} /\ \A u \in Known(f) : KnownHeight(f, u) => InHeights(f, v, u),
           NEW t \in Start(f)..End(f)
    PROVE  JointAt(Stitched(f), v, t)
<1> DEFINE s == Stitched(f)
<1>1. \A b \in v.altMin \cup v.altMax : b.ft \in Int /\ Bounded(v, b.ref)
  BY BlockTypes DEF Bounded, Bound, None
<1>2. ASSUME NEW low \in v.altMin PROVE HasAltitude(s, low.ref, t) /\ Feet(s, low.ref, t) >= low.ft
  <2>1. \A u \in Known(f) : HasAltitude(f, low.ref, u)
    BY <1>1, BridgedFeet
  <2>2. \A u \in Known(f) : low.ft <= Feet(f, low.ref, u)
    BY <2>1 DEF Always
  <2>3. HasAltitude(s, low.ref, t) /\ low.ft <= Feet(s, low.ref, t)
    BY <1>1, <2>2, BridgedFeet
  <2> QED
    BY <2>3
<1>3. ASSUME NEW high \in v.altMax PROVE HasAltitude(s, high.ref, t) /\ Feet(s, high.ref, t) <= high.ft
  <2>1. \A u \in Known(f) : HasAltitude(f, high.ref, u)
    BY <1>1, BridgedFeet
  <2>2. \A u \in Known(f) : Feet(f, high.ref, u) <= high.ft
    BY <2>1 DEF Always
  <2> QED
    BY <1>1, <2>2, BridgedFeet
<1>4. HasAgl(v) => InHeights(s, v, t)
  <2> SUFFICES ASSUME HasAgl(v) PROVE InHeights(s, v, t)
    OBVIOUS
  <2>1. PICK agl \in f.agl : TRUE
    OBVIOUS
  <2>2. f.agl = {agl} /\ DOMAIN agl \subseteq Known(f)
    BY <2>1, HeightsTyped
  <2>3. Start(f) \in DOMAIN agl /\ End(f) \in DOMAIN agl
    BY <2>1 DEF KnownThroughout
  <2>4. PICK e \in DOMAIN agl : Stepwise(agl)[t] = agl[e]
    BY <2>2, <2>3, StepwiseThroughout
  <2>5. t \in DOMAIN Stepwise(agl)
    BY <2>2, <2>3, StepwiseThroughout
  <2>6. InBounds(agl[e], v.aglMin, v.aglMax)
    BY <2>2, <2>4 DEF KnownHeight, InHeights
  <2>7. Stepwise(agl) \in s.agl
    BY <2>1, StitchedPath
  <2> QED
    BY <2>4, <2>5, <2>6, <2>7 DEF InHeights
<1>5. v.geometry = {} /\ v.from = {} /\ v.to = {}
  BY DEF HasTime, None
<1> HIDE DEF s
<1>6. PlacedAt(s, v, t)
  BY <1>2, <1>3, <1>5 DEF PlacedAt
<1> QED
  BY <1>4, <1>6, JointIsPlaced DEF s

(* What is measured is the part of the bridged path that satisfies the     *)
(* other constraints, also where the constraints do not clip it.           *)
LEMMA MeasuredPart ==
    ASSUME NEW f, IsStored(f), NEW v, IsBlock(v), AllTrue(Parts(f, v)),
           Clips(v) \/ KnownThroughout(f, v)
    PROVE  MeasuredOn(f, v) = {t \in Known(Stitched(f)) : JointAt(Stitched(f), v, t)}
<1>1. CASE Clips(v)
  BY <1>1, MeasuredIsJoint DEF MeasuredOn
<1>2. CASE ~Clips(v)
  <2>1. /\ v.geometry = None /\ ~HasTime(v)
        /\ v.kind = "within" \/ (~HasAlt(v) /\ ~HasAgl(v))
    BY <1>2, BlockTypes DEF Clips
  <2>2. Always(f, v)
    <3>1. CASE v.kind = "within"
      <4>1. ExactlyTrue(AltitudeParts(f, v))
        BY <2>1, TrueOfParts DEF Places, AllTrue, ExactlyTrue
      <4> QED
        BY <3>1, <4>1, AltitudesAsked
    <3>2. CASE ~HasAlt(v)
      BY <3>2 DEF HasAlt, Always, None
    <3> QED
      BY <2>1, <3>1, <3>2
  <2>3. HasAgl(v) => f.agl # {} /\ \A u \in Known(f) : KnownHeight(f, u) => InHeights(f, v, u)
    <3> SUFFICES ASSUME HasAgl(v)
                 PROVE  f.agl # {} /\ \A u \in Known(f) : KnownHeight(f, u) => InHeights(f, v, u)
      OBVIOUS
    <3>1. ExactlyTrue(AglParts(f, v))
      BY TrueOfParts DEF Altitude, AllTrue, ExactlyTrue
    <3> QED
      BY <2>1, <3>1, HeightsAnywhere
  <2>4. \A t \in Start(f)..End(f) : JointAt(Stitched(f), v, t)
    BY <1>2, <2>1, <2>2, <2>3, BridgedStaysJoint
  <2>5. MeasuredOn(f, v) = Start(f)..End(f) /\ Known(Stitched(f)) = Start(f)..End(f)
    BY <1>2, StitchedPath DEF MeasuredOn
  <2> QED
    BY <2>4, <2>5
<1> QED
  BY <1>1, <1>2

(* Steps taken again of the instants at their ends. *)
LEMMA StepsOfSteps ==
    ASSUME NEW T, T \subseteq Int
    PROVE  Steps(Steps(T) \cup {t + 1 : t \in Steps(T)}) = Steps(T)
<1> DEFINE U == Steps(T) \cup {t + 1 : t \in Steps(T)}
<1>1. \A t : t \in Steps(T) <=> t \in T /\ t + 1 \in T
  BY DEF Steps
<1>2. U \subseteq T
  BY <1>1
<1>3. \A t \in Steps(T) : t \in U /\ t + 1 \in U
  OBVIOUS
<1> HIDE DEF U
<1>4. \A t : t \in Steps(U) <=> t \in U /\ t + 1 \in U
  BY DEF Steps
<1>5. Steps(U) = Steps(T)
  BY <1>1, <1>2, <1>3, <1>4
<1> QED
  BY <1>5 DEF U

-----------------------------------------------------------------------------
(* The test of a row. *)

TestInv ==
    /\ flight \in Flights /\ block \in Blocks
    /\ answer = "compiled" =>
           fragment = [inner |-> Inner(flight, block), outer |-> Outer(flight, block)]

LEMMA TestInvHolds == TestSpec => []TestInv
<1>1. TestInit => TestInv
  BY DEF TestInit, TestInv
<1>2. TestInv /\ [TestNext]_testVars => TestInv'
  <2> SUFFICES ASSUME TestInv, [TestNext]_testVars PROVE TestInv'
    OBVIOUS
  <2>1. CASE RefuseTooLarge
    BY <2>1 DEF TestInv, RefuseTooLarge
  <2>2. CASE Compile
    BY <2>2 DEF TestInv, Compile
  <2>3. CASE UNCHANGED testVars
    BY <2>3 DEF TestInv, testVars
  <2> QED
    BY <2>1, <2>2, <2>3 DEF TestNext
<1> QED
  BY <1>1, <1>2, PTL DEF TestSpec

(* The conditions of both queries are those of the predicate. *)
LEMMA BothQueries ==
    ASSUME TestInv, answer = "compiled"
    PROVE  /\ IsStored(flight) /\ IsBlock(block)
           /\ fragment.inner \cup fragment.outer = Parts(flight, block)
<1>1. /\ fragment.inner = Inner(flight, block) /\ fragment.outer = Outer(flight, block)
      /\ flight \in Flights /\ block \in Blocks
  BY DEF TestInv
<1>2. Inner(flight, block) \cup Outer(flight, block) = Parts(flight, block)
  BY DEF Inner, Outer
<1> QED
  BY <1>1, <1>2, TrajectoryConstants

LEMMA MatchesMeans ==
    ASSUME TestInv, answer = "compiled"
    PROVE  Matches <=> AllTrue(Parts(flight, block))
BY BothQueries, PartsHaveValues, HoldsWhenAllTrue DEF Matches

(* The index probes of a trajectory predicate exclude no row that its      *)
(* exact conditions admit, for every flight and every block, whichever     *)
(* cells path_h3 leaves out at corners: the cells and boxes of path_h3 and *)
(* path, the stored columns, codes and duration.  Excepted is a circle     *)
(* that the flight meets in such cells only.                               *)
THEOREM ProbesHarmless == TestSpec => []ProbesLoseNoRow
<1>1. TestInv => ProbesLoseNoRow
  <2> SUFFICES ASSUME TestInv, answer = "compiled",
                      Holds({p \in fragment.inner \cup fragment.outer : p.sql \notin Probes}) = "true"
               PROVE  Matches \/ OnlyAtCorners(flight, block)
    BY DEF ProbesLoseNoRow
  <2> DEFINE parts == Parts(flight, block)
             exact == {p \in parts : p.sql \notin Probes}
  <2>1. IsStored(flight) /\ IsBlock(block) /\ fragment.inner \cup fragment.outer = parts
    BY BothQueries
  <2>2. Holds(exact) = "true"
    BY <2>1
  <2>3. \A p \in parts : p.value \in Values
    BY PartsHaveValues
  <2> HIDE DEF parts
  <2>4. AllTrue(exact)
    BY <2>2, <2>3, HoldsWhenAllTrue
  <2>5. ExactlyTrue(parts)
    BY <2>4 DEF AllTrue, ExactlyTrue
  <2> QED
    BY <2>1, <2>5, ExactSuffices, MatchesMeans DEF parts
<1> QED
  BY <1>1, TestInvHolds, PTL

(* A trajectory_intersects with a geometry admits only flights with one    *)
(* instant that satisfies all of its constraints together, and each of     *)
(* those but such as meet a circle at corners of cells only.               *)
THEOREM OneInstantDecides == TestSpec => []OneInstantForAll
<1>1. TestInv => OneInstantForAll
  <2> SUFFICES ASSUME TestInv, IntersectsAnswered
               PROVE  /\ Matches => OneInstant
                      /\ OneInstant => Matches \/ OnlyAtCorners(flight, block)
    BY DEF OneInstantForAll
  <2>1. answer = "compiled" /\ IsStored(flight) /\ IsBlock(block)
    BY BothQueries DEF IntersectsAnswered
  <2> QED
    BY <2>1, MatchesMeans, MeetsAtOneInstant DEF IntersectsAnswered, OneInstant
<1> QED
  BY <1>1, TestInvHolds, PTL

(* A trajectory_within without a window admits the flights that satisfy    *)
(* all of its constraints at every instant, and none that breaks one where *)
(* its correction and heights are known, whatever holes these have.        *)
THEOREM WithinMeansThroughout == TestSpec => []WithinThroughout
<1>1. TestInv => WithinThroughout
  BY BothQueries, MatchesMeans, StaysThroughout DEF WithinThroughout, WithinAnswered
<1> QED
  BY <1>1, TestInvHolds, PTL

(* A flight that matches was measured by the part of its bridged path that *)
(* satisfies every other constraint; by the stored duration and length too *)
(* where what its altitudes and heights are bounded by is known throughout.*)
THEOREM PartIsMeasured == TestSpec => []MeasuresThePart
<1>1. TestInv => MeasuresThePart
  <2> SUFFICES ASSUME TestInv, Matches, Clips(block) \/ KnownThroughout(flight, block)
               PROVE  MeasureHolds
    BY DEF MeasuresThePart
  <2> DEFINE s == Stitched(flight)
             T == MeasuredOn(flight, block)
             U == JointSteps \cup {t + 1 : t \in JointSteps}
  <2>1. answer = "compiled" /\ IsStored(flight) /\ IsBlock(block) /\ AllTrue(Parts(flight, block))
    BY BothQueries, MatchesMeans DEF Matches
  <2>2. T = {t \in Known(s) : JointAt(s, block, t)}
    BY <2>1, MeasuredPart
  <2>3. JointSteps = Steps(T)
    BY <2>2 DEF JointSteps
  <2>4. T \subseteq Int
    <3>1. Start(flight) \in Int /\ End(flight) \in Int
      BY <2>1, KnownEnds
    <3>2. T \subseteq Start(flight)..End(flight)
      BY <2>1, MeasuredWithin
    <3> HIDE DEF T
    <3> QED
      BY <3>1, <3>2
  <2>5. ExactlyTrue(MeasureParts(flight, block))
    BY <2>1, TrueOfParts DEF AllTrue, ExactlyTrue
  <2>6. /\ InBounds(Cardinality(Steps(T)), block.dwellMin, block.dwellMax)
        /\ InBounds(Length(s, T), block.distMin, block.distMax)
    BY <2>5, MeasuresAsked
  <2> HIDE DEF s, T
  <2>7. Steps(U) = Steps(T)
    BY <2>3, <2>4, StepsOfSteps
  <2> HIDE DEF U
  <2>8. Length(s, U) = Length(s, T)
    BY <2>7 DEF Length
  <2> QED
    BY <2>3, <2>6, <2>8 DEF MeasureHolds, s, U
<1> QED
  BY <1>1, TestInvHolds, PTL
=============================================================================
