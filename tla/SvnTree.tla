------------------------------- MODULE SvnTree -------------------------------
(***************************************************************************)
(* The trees of svnindex: what a Subversion commit does to a versioned     *)
(* tree (the library, as src/svnindex/index.c uses it), the editor that    *)
(* turns one revision into calls of index_node, and the node records that  *)
(* the functions of schema-svn.sql keep so that the tree of any revision   *)
(* can be read back from them.                                             *)
(*                                                                         *)
(* A path is a sequence of names.  The text (size and checksum) and the    *)
(* properties of a node are each the number of the revision that wrote     *)
(* them; 0 stands for no text or no properties, and for NULL in a record.  *)
(***************************************************************************)
EXTENDS Integers, Sequences, FiniteSets, SequencesExt

CONSTANT Paths      \* the paths of a tree, with every prefix of each

ASSUME PathsAssumption ==
  /\ IsFiniteSet(Paths) /\ \A p \in Paths : p \in Seq(Range(p))
  /\ <<>> \in Paths
  /\ \A p \in Paths : p # <<>> => Front(p) \in Paths

NoSource == [rev |-> -1, path |-> <<>>]     \* no valid copy arguments

\* f with v at x, and f with g on top of it.
Put(f, x, v) == [y \in DOMAIN f \union {x} |-> IF y = x THEN v ELSE f[y]]
Over(g, f) == [y \in DOMAIN g \union DOMAIN f |-> IF y \in DOMAIN g THEN g[y] ELSE f[y]]

Below(p) == {q \in Paths : IsPrefix(p, q)}
ChildPaths(p) == {q \in Paths : q # <<>> /\ Front(q) = p}

-----------------------------------------------------------------------------
(* The repository: a tree is a function from its paths to their nodes.     *)

Without(tree, p) == [q \in DOMAIN tree \ Below(p) |-> tree[q]]

\* The copy of a subtree of another revision, at p.
Graft(source, from, p) ==
  LET moved == {q \in Paths : /\ IsPrefix(p, q)
                              /\ from \o SubSeq(q, Len(p) + 1, Len(q)) \in DOMAIN source}
  IN  [q \in moved |-> source[from \o SubSeq(q, Len(p) + 1, Len(q))]]

FitsAt(source, from, p) ==
  \A q \in DOMAIN source :
    IsPrefix(from, q) => p \o SubSeq(q, Len(from) + 1, Len(q)) \in Paths

\* A change of one path: what happens to it, what it is afterwards, where it
\* was copied from, and which of its data the commit also writes.
Change(act, kind, from, mod) == [act |-> act, kind |-> kind, from |-> from, mod |-> mod]

Touch(node, mod, rev) ==
  CASE mod = "text"  -> [node EXCEPT !.text = rev]
    [] mod = "props" -> [node EXCEPT !.props = rev]
    [] OTHER         -> node

Apply(trees, tree, rev, p, c) ==
  LET cleared == IF c.act \in {"delete", "replace"} THEN Without(tree, p) ELSE tree
      new     == [kind |-> c.kind, props |-> 0,
                  text |-> IF c.kind = "file" THEN rev ELSE 0]
      grown   == CASE c.act \in {"delete", "change"} -> cleared
                   [] c.act \in {"add", "replace"} /\ c.from = NoSource -> Put(cleared, p, new)
                   [] OTHER -> Over(Graft(trees[c.from.rev], c.from.path, p), cleared)
  IN  IF c.act = "delete" THEN grown ELSE [grown EXCEPT ![p] = Touch(@, c.mod, rev)]

\* What can be copied to p: a path of the youngest revision, or one that is gone.
Sources(trees, p) ==
  {[rev |-> r, path |-> q] : r \in DOMAIN trees, q \in Paths \ {<<>>}}
CanCopy(trees, s, p) ==
  LET youngest == trees[Cardinality(DOMAIN trees) - 1]
  IN  /\ s.path \in DOMAIN trees[s.rev]
      /\ trees[s.rev] = youngest \/ s.path \notin DOMAIN youngest
      /\ FitsAt(trees[s.rev], s.path, p)

\* The changes of p that a working copy of this tree can hold.
Mod(kind) == IF kind = "file" THEN "text" ELSE "props"

AddsOf(trees, act, p) ==
  {Change(act, k, NoSource, "none") : k \in {"file", "dir"}}
    \union
  UNION {LET k == trees[s.rev][s.path].kind
         IN  {Change(act, k, s, m) : m \in {"none", Mod(k)}} :
           s \in {c \in Sources(trees, p) : CanCopy(trees, c, p)}}

ChangesOf(trees, tree, p) ==
  CASE p \in DOMAIN tree ->
         {Change("change", tree[p].kind, NoSource, Mod(tree[p].kind))}
           \union (IF p = <<>> THEN {}
                   ELSE AddsOf(trees, "replace", p)
                          \union {Change("delete", "unknown", NoSource, "none")})
    [] /\ p \notin DOMAIN tree /\ p # <<>>
       /\ Front(p) \in DOMAIN tree /\ tree[Front(p)].kind = "dir" ->
         AddsOf(trees, "add", p)
    [] OTHER -> {}

-----------------------------------------------------------------------------
(* The editor.  svn_repos_replay visits the changed paths depth first, and *)
(* makes of a replacement a deletion and an addition.  A deleted entry is  *)
(* remembered by its directory and reported when that directory is closed, *)
(* unless an addition of the same path took it up.                         *)

\* make_dir_baton, open_directory, open_file: what a path that is merely
\* opened is compared with, when it lies in a copied directory.
CompareWith(changes) ==
  LET f[p \in Paths] ==
        IF p = <<>> THEN NoSource
        ELSE IF p \in DOMAIN changes /\ changes[p].act \in {"add", "replace"}
          THEN changes[p].from
        ELSE IF f[Front(p)] = NoSource THEN NoSource
        ELSE [rev |-> f[Front(p)].rev, path |-> Append(f[Front(p)].path, Last(p))]
  IN  f

\* What delete_entry, and what add_directory and add_file are called for in p.
Entries(changes, p, acts) == {q \in ChildPaths(p) \intersect DOMAIN changes : changes[q].act \in acts}
DeletedEntries(changes, p) == Entries(changes, p, {"delete", "replace"})
AddedEntries(changes, p) == Entries(changes, p, {"add", "replace"})

\* A path is changed, or added: a replacement if it is among the entries deleted.
OpenOrAdd(changes, p) ==
  IF p \notin DOMAIN changes \/ changes[p].act = "delete" THEN <<>>
  ELSE IF changes[p].act = "change" THEN <<<<p, "change">>>>
  ELSE IF p \in DeletedEntries(changes, Front(p)) THEN <<<<p, "replace">>>>
  ELSE <<<<p, "add">>>>

(* Mutant: an entry that an addition took up is not forgotten.             *)
UnclaimedKept(changes, p) == DeletedEntries(changes, p)

\* The deleted entries that are left when p is closed.
Unclaimed(changes, p) == DeletedEntries(changes, p) \ AddedEntries(changes, p)

CloseDirectory(changes, p) ==
  LET left == SetToSeq(Unclaimed(changes, p))
  IN  [k \in DOMAIN left |-> <<left[k], "delete">>]

\* The calls of index_node, each a path and an action, in their order.
DriveOrder(changes) ==
  LET f[p \in Paths] ==
        OpenOrAdd(changes, p)
          \o FlattenSeq([k \in 1..Cardinality(ChildPaths(p)) |-> f[SetToSeq(ChildPaths(p))[k]]])
          \o CloseDirectory(changes, p)
  IN  f[<<>>]

-----------------------------------------------------------------------------
(* The database: for every revision, the sequence of its node records.  A  *)
(* record's id is its revision and its place; the order of ids is the      *)
(* order of creation.                                                      *)

NoData == [kind |-> "unknown", children |-> {}, props |-> 0, text |-> 0]    \* of NULL

Node(db, id) == db[id[1]][id[2]]

HasRoot(rows) == \E k \in DOMAIN rows : rows[k].path = <<>>

NamedAmong(db, ids, name) ==
  {id \in ids : Node(db, id).path # <<>> /\ Last(Node(db, id).path) = name}

\* get_predecessor_id: from the root of the latest revision that has one, by
\* name from children to children.  The set is empty for NULL; of several
\* namesakes a query would give any.
RootIds(db, rev) ==
  UNION {{<<r, k>> : k \in {j \in DOMAIN db[r] : db[r][j].path = <<>>}} :
           r \in {s \in DOMAIN db :
                    /\ s <= rev
                    /\ \A u \in DOMAIN db : s < u /\ u <= rev => ~HasRoot(db[u])}}

PredecessorIds(db, rev, path) ==
  LET f[n \in 0..Len(path)] ==
        IF n = 0 THEN RootIds(db, rev)
        ELSE UNION {NamedAmong(db, Node(db, id).children, path[n]) : id \in f[n - 1]}
  IN  f[Len(path)]

Predecessor(db, rev, path) ==
  LET ids == PredecessorIds(db, rev, path)
  IN  IF ids = {} THEN NoData ELSE Node(db, CHOOSE id \in ids : TRUE)

\* get_parent_id, when the parent has a record: ORDER BY action DESC
ActionRank(action) == CASE action = "delete" -> 3 [] action = "change" -> 2 [] OTHER -> 1

ParentIds(rows, path) ==
  LET at == {k \in DOMAIN rows : path # <<>> /\ rows[k].path = Front(path)}
  IN  {k \in at : \A j \in at : ActionRank(rows[j].action) <= ActionRank(rows[k].action)}

(* Mutant: the children are copied whatever the new node is.               *)
NewNodeAnyKind(path, kind, action, old) ==
  [path |-> path, kind |-> kind, action |-> action, props |-> old.props,
   children |-> old.children, text |-> IF kind = "dir" THEN 0 ELSE old.text]

\* The record starts as a copy of its predecessor's data.
NewNode(path, kind, action, old) ==
  [path |-> path, kind |-> kind, action |-> action, props |-> old.props,
   children |-> IF kind = "dir" THEN old.children ELSE {},
   text |-> IF kind = "dir" THEN 0 ELSE old.text]

\* create_node, once the parent has its record: the new record takes the place
\* of its namesake among the parent's children.
InsertNode(db, rev, path, kind, action, from) ==
  LET rows == db[rev]
      nid  == <<rev, Len(rows) + 1>>
      old  == IF from = NoSource THEN Predecessor(db, rev - 1, path)
                                 ELSE Predecessor(db, from.rev, from.path)
      listed(ids) == (ids \ NamedAmong(db, ids, Last(path)))
                       \union (IF action = "delete" THEN {} ELSE {nid})
      relisted == [k \in DOMAIN rows |->
                     IF k \in ParentIds(rows, path)
                       THEN [rows[k] EXCEPT !.children = listed(@)] ELSE rows[k]]
  IN  [db EXCEPT ![rev] = Append(relisted, NewNode(path, kind, action, old))]

\* get_parent_id: whether the revision has a record of the path already
HasNode(rows, path) == \E k \in DOMAIN rows : rows[k].path = path

\* get_parent_id and create_node: the ancestors that have no record in this
\* revision get one first, the outermost before the others.
CreateNode(db, rev, path, kind, action, from) ==
  LET f[n \in 0..Len(path)] ==
        IF n = 0 THEN db
        ELSE IF HasNode(f[n - 1][rev], SubSeq(path, 1, n - 1)) THEN f[n - 1]
        ELSE InsertNode(f[n - 1], rev, SubSeq(path, 1, n - 1), "dir", "change", NoSource)
  IN  InsertNode(f[Len(path)], rev, path, kind, action, from)

\* db_set_node_size, db_set_node_props: of the record just created
SetNode(db, rev, field, value) ==
  [db EXCEPT ![rev][Len(db[rev])][field] = value]

-----------------------------------------------------------------------------
(* index_node *)

\* Which of the node's data differ from what its record starts with.
MustDump(trees, rev, path, cmp, field) ==
  trees[cmp.rev][cmp.path][field] # trees[rev][path][field]

DumpNode(trees, db, rev, path, kind, cmp, all) ==
  LET node  == trees[rev][path]
      texts == kind = "file" /\ (all \/ MustDump(trees, rev, path, cmp, "text"))
      sized == IF texts THEN SetNode(db, rev, "text", node.text) ELSE db
  IN  IF all \/ MustDump(trees, rev, path, cmp, "props")
        THEN SetNode(sized, rev, "props", node.props) ELSE sized

IndexNode(trees, db, rev, path, act, c, cmp) ==
  LET default == [rev |-> rev - 1, path |-> path]
      create(d, action, from) == CreateNode(d, rev, path, c.kind, action, from)
      copied  == c.from # NoSource
  IN  CASE act = "delete" -> create(db, "delete", NoSource)
        [] act = "change" ->
             DumpNode(trees, create(db, "change", NoSource), rev, path, c.kind,
                      IF cmp = NoSource THEN default ELSE cmp, FALSE)
        [] act = "replace" /\ ~copied ->
             DumpNode(trees, create(db, "change", NoSource), rev, path, c.kind, default, TRUE)
        [] act = "replace" /\ copied ->
             DumpNode(trees, create(create(db, "delete", NoSource), "add", c.from),
                      rev, path, c.kind, c.from, FALSE)
        [] OTHER ->
             DumpNode(trees, create(db, "add", c.from), rev, path, c.kind, c.from, ~copied)

\* svn_repos_replay with the indexing editor: the records of one revision
IndexNodes(trees, db, rev, changes) ==
  LET order == DriveOrder(changes)
      cmp   == CompareWith(changes)
      f[n \in 0..Len(order)] ==
        IF n = 0 THEN db
        ELSE LET path == order[n][1]
             IN  IndexNode(trees, f[n - 1], rev, path, order[n][2], changes[path], cmp[path])
  IN  f[Len(order)]

-----------------------------------------------------------------------------
(* Reading back: the directory listing of the README, and the tree of a    *)
(* revision that a reader finds by listing every directory from the root.  *)

Listing(db, rev, path) == Predecessor(db, rev, path).children

Depth == CHOOSE n \in {Len(p) : p \in Paths} : \A p \in Paths : Len(p) <= n

Entry(path, node) == [path |-> path, kind |-> node.kind, props |-> node.props, text |-> node.text]

TreeAt(db, rev) ==
  LET f[n \in 0..Depth] ==
        IF n = 0 THEN {<<(<<>>), id>> : id \in RootIds(db, rev)}
        ELSE UNION {{<<Append(e[1], Last(Node(db, id).path)), id>> :
                       id \in Node(db, e[2]).children} : e \in f[n - 1]}
  IN  {Entry(e[1], Node(db, e[2])) : e \in UNION {f[n] : n \in 0..Depth}}

TreeOf(tree) == {Entry(p, tree[p]) : p \in DOMAIN tree}
=============================================================================
