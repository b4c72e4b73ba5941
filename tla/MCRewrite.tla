----------------------------- MODULE MCRewrite -----------------------------
\* The rules of src/theorem/axioms.tree, and small statements over two names.
EXTENDS Rewrite

a == Variable("a")
b == Variable("b")
c == Variable("c")
And(l, r) == Binary("AND", l, r)
Or(l, r) == Binary("OR", l, r)

\* commute_*, assoc_*, distrib_*: the rules without a negation.
Lattice ==
  UNION { Interchanges(And(a, b), And(b, a)),
          Interchanges(Or(a, b), Or(b, a)),
          Interchanges(And(And(a, b), c), And(a, And(b, c))),
          Interchanges(Or(Or(a, b), c), Or(a, Or(b, c))),
          Interchanges(And(a, Or(b, c)), Or(And(a, b), And(a, c))),
          Interchanges(Or(a, And(b, c)), And(Or(a, b), Or(a, c))) }

Leaves == {Variable("p"), Variable("q")}
Pairs(S, T) == {And(l, r) : l \in S, r \in T} \cup {Or(l, r) : l \in S, r \in T}
Flat == Pairs(Leaves, Leaves)
Literals == Leaves \cup {Not(x) : x \in Leaves}

Clause == Or(Variable("p"), Variable("q"))

P == Variable("p")
Nots == {Not(P), Not(Not(P))}

\* Trees of up to four leaves, with negations and with equal and different subtrees;
\* the last ones tell whole trees from their roots.
MCStatements ==
  Pairs(Leaves, Flat) \cup Pairs(Literals, Literals) \cup {And(x, Clause) : x \in Flat}
  \cup {Or(And(x, P), And(y, P)) : x, y \in Nots}
=============================================================================
