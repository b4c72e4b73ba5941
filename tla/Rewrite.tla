------------------------------ MODULE Rewrite ------------------------------
(***************************************************************************)
(* The term rewriting of the theorem prover: src/theorem/rule.c with the   *)
(* trees, symbols and tables it works on.  A statement is a tree; a rule   *)
(* is a tree BECOMES with a pattern and a replacement; apply_rule matches  *)
(* the pattern at one point of the statement and makes a new statement.    *)
(*                                                                         *)
(* A tree is a tuple <<symbol, left, right>>, Null a missing child.  Trees *)
(* are never shared or changed, so copy_tree and copy_symbol are the       *)
(* values themselves, and a pointer into a statement is a path, a sequence *)
(* of the indices LeftChild and RightChild.                                *)
(***************************************************************************)
EXTENDS Naturals, Sequences, FiniteSets, SequencesExt

CONSTANTS Rules,          \* the trees of the table of rules that load_rules fills
          Statements,     \* the expressions the program may start from
          MaxTableSize,   \* MAX_TABLE_SIZE
          MaxSymbols      \* a bound of the model on the size of a statement

VARIABLES expr,           \* the statement, target of the next rule
          fault           \* a missing child was followed: the program has stopped

vars == <<expr, fault>>
-----------------------------------------------------------------------------
Null == << >>
LeftChild == 2
RightChild == 3

Symbol(type, name) == [type |-> type, name |-> name]
MakeTree(type, left, right) == <<type, left, right>>
Type(tree) == tree[1].type
Name(tree) == tree[1].name

\* The symbols of the grammar; a name or an operator of a file has a name of its own.
Variable(name) == MakeTree(Symbol("NAME", name), Null, Null)
Binary(type, left, right) == MakeTree(Symbol(type, type), left, right)
Not(tree) == MakeTree(Symbol("NOT", "NOT"), Null, tree)
Becomes(pattern, replacement) == Binary("BECOMES", pattern, replacement)

\* What a declaration "name: p <=> q;" adds to the table of rules.
Interchanges(p, q) == {Becomes(p, q), Becomes(q, p)}

IsSameSymbol(a, b) == a.type = b.type

\* A mutant: only the roots are compared.
IsSameRoot(a, b) ==
  \/ a = Null /\ b = Null
  \/ a # Null /\ b # Null /\ IsSameSymbol(a[1], b[1])

RECURSIVE IsSameTree(_, _)
IsSameTree(a, b) ==
  \/ a = Null /\ b = Null
  \/ /\ a # Null /\ b # Null
     /\ IsSameSymbol(a[1], b[1])
     /\ \A child \in {LeftChild, RightChild} : IsSameTree(a[child], b[child])

TableLookup(table, name) ==
  LET i == SelectInSeq(table, LAMBDA entry : entry.name = name)
  IN  IF i = 0 THEN Null ELSE table[i].thing

\* A binding that does not fit is dropped; match_rule does not look at the result.
AddToTable(table, name, thing) ==
  IF Len(table) >= MaxTableSize
  THEN table
  ELSE Append(table, [name |-> name, thing |-> thing])
-----------------------------------------------------------------------------
(***************************************************************************)
(* match_rule.  Both children are always tried, the left one first, and    *)
(* the bindings of a failed match remain in the table.  Neither the target *)
(* nor the pattern is tested for a missing child.                          *)
(***************************************************************************)
Outcome(matched, table) == [matched |-> matched, table |-> table, fault |-> FALSE]
Fault == [matched |-> FALSE, table |-> << >>, fault |-> TRUE]

RECURSIVE MatchRule(_, _, _)
MatchRule(matches, target, pattern) ==
  CASE pattern = Null -> Fault
    [] pattern # Null /\ Type(pattern) = "NAME" ->
         LET l == TableLookup(matches, Name(pattern))
         IN  IF l = Null
             THEN Outcome(TRUE, AddToTable(matches, Name(pattern), target))
             ELSE Outcome(IsSameTree(l, target), matches)
    [] OTHER ->
         IF target = Null THEN Fault
         ELSE IF ~ IsSameSymbol(target[1], pattern[1]) THEN Outcome(FALSE, matches)
         ELSE LET l == MatchRule(matches, target[LeftChild], pattern[LeftChild])
                  r == MatchRule(l.table, target[RightChild], pattern[RightChild])
              IN  [matched |-> l.matched /\ r.matched,
                   table   |-> r.table,
                   fault   |-> l.fault \/ r.fault]

\* generate_replacement_tree goes down to the names and follows a missing child.
RECURSIVE MeetsNull(_)
MeetsNull(replacement) ==
  \/ replacement = Null
  \/ /\ Type(replacement) # "NAME"
     /\ \E child \in {LeftChild, RightChild} : MeetsNull(replacement[child])

RECURSIVE GenerateReplacementTree(_, _)
GenerateReplacementTree(matches, replacement) ==
  IF Type(replacement) = "NAME"
  THEN TableLookup(matches, Name(replacement))
  ELSE MakeTree(replacement[1],
                GenerateReplacementTree(matches, replacement[LeftChild]),
                GenerateReplacementTree(matches, replacement[RightChild]))

RECURSIVE GenerateNewTree(_, _, _, _)
GenerateNewTree(matches, tree, point, replacement) ==
  IF point = << >>
  THEN GenerateReplacementTree(matches, replacement)
  ELSE [tree EXCEPT ![Head(point)] =
          GenerateNewTree(matches, @, Tail(point), replacement)]

RECURSIVE SubtreeAt(_, _)
SubtreeAt(tree, point) ==
  IF point = << >> THEN tree ELSE SubtreeAt(tree[Head(point)], Tail(point))

\* apply_rule: the new tree, or Null when the rule does not match.
ApplyRule(target, point, rule) ==
  LET match == MatchRule(<< >>, SubtreeAt(target, point), rule[LeftChild])
      stops == match.fault \/ (match.matched /\ MeetsNull(rule[RightChild]))
  IN  [fault |-> stops,
       tree  |-> IF match.matched /\ ~ stops
                 THEN GenerateNewTree(match.table, target, point, rule[RightChild])
                 ELSE Null]
-----------------------------------------------------------------------------
\* The places of a tree and the trees found there.
RECURSIVE Points(_)
Points(tree) ==
  IF tree = Null THEN {}
  ELSE {<< >>} \cup UNION {{<<child>> \o p : p \in Points(tree[child])} :
                              child \in {LeftChild, RightChild}}

Subtrees(tree) == {SubtreeAt(tree, p) : p \in Points(tree)}
NamesIn(tree) == {Name(t) : t \in {s \in Subtrees(tree) : Type(s) = "NAME"}}
Size(tree) == Cardinality(Points(tree))

Init ==
  /\ expr \in Statements
  /\ fault = FALSE

\* One call of apply_rule whose result, if there is one, is the next statement.
Apply(rule, point) ==
  LET result == ApplyRule(expr, point, rule)
  IN  /\ ~ fault
      /\ result.tree # Null => Size(result.tree) <= MaxSymbols
      /\ expr' = IF result.tree = Null THEN expr ELSE result.tree
      /\ fault' = result.fault

Next == \E rule \in Rules : \E point \in Points(expr) : Apply(rule, point)

Spec == Init /\ [][Next]_vars
-----------------------------------------------------------------------------
(***************************************************************************)
(* What a rule means: a substitution for the names of the pattern that     *)
(* makes it the tree at the point, and the same substitution in the        *)
(* replacement.                                                            *)
(***************************************************************************)
RECURSIVE Substitute(_, _)
Substitute(tree, s) ==
  IF tree = Null THEN Null
  ELSE IF Type(tree) = "NAME" THEN s[Name(tree)]
  ELSE MakeTree(tree[1], Substitute(tree[LeftChild], s), Substitute(tree[RightChild], s))

Substitutions(tree, pattern) ==
  {s \in [NamesIn(pattern) -> Subtrees(tree)] : Substitute(pattern, s) = tree}

\* new is old with the tree at the point replaced by a given one, and nothing else changed.
Replaced(old, point, new, by) ==
  /\ SubtreeAt(new, point) = by
  /\ \A p \in Points(old) :
       \/ IsPrefix(point, p)
       \/ /\ p \in Points(new)
          /\ IF IsPrefix(p, point)
             THEN SubtreeAt(new, p)[1] = SubtreeAt(old, p)[1]
             ELSE SubtreeAt(new, p) = SubtreeAt(old, p)

\* is_same_tree cannot confuse names: the statement has one, or the pattern repeats none.
Repeats(pattern) ==
  \E p, q \in Points(pattern) :
    /\ p # q
    /\ Type(SubtreeAt(pattern, p)) = "NAME"
    /\ SubtreeAt(pattern, p) = SubtreeAt(pattern, q)

Distinguished(tree, rule) ==
  Repeats(rule[LeftChild]) => Cardinality(NamesIn(tree)) = 1

\* The table of bindings of match_rule and its walk over two trees do what a rule
\* means: a rule matches at a point exactly when a substitution exists, a repeated
\* name included, and the new statement is the old one with that instance of the
\* replacement at that point and everything else as it was.
ExactRewrites ==
  \A rule \in {r \in Rules : Distinguished(expr, r)}, point \in Points(expr) :
    LET result == ApplyRule(expr, point, rule)
        subs == Substitutions(SubtreeAt(expr, point), rule[LeftChild])
    IN  /\ ~ result.fault
        /\ result.tree = Null <=> subs = {}
        /\ \A s \in subs :
             Replaced(expr, point, result.tree, Substitute(rule[RightChild], s))
=============================================================================
