------------------------------ MODULE SvnIndex -------------------------------
(***************************************************************************)
(* svnindex (src/svnindex): programs that copy the history of a Subversion *)
(* repository into a PostgreSQL database, one transaction for a revision,  *)
(* while commits go on.  The post-commit hook and the administrator may    *)
(* run several at a time on one database; each may be stopped at any point *)
(* and run again.                                                          *)
(***************************************************************************)
EXTENDS SvnTree

CONSTANTS
  Indexers,     \* the programs that may run at the same time
  MaxRev,       \* bound: the youngest revision the repository gets to
  MaxChanges,   \* bound: changed paths in a commit
  Joined,       \* bound: all but one of the changes of a commit are of these acts
  MaxStops,     \* bound: programs stopped before their end
  AnyCommit     \* whether commits that the index gets wrong are made too

ASSUME SvnIndexAssumption ==
  /\ MaxRev \in Nat /\ MaxRev >= 2 /\ MaxChanges \in Nat /\ MaxStops \in Nat
  /\ AnyCommit \in BOOLEAN
  /\ {<<"a">>, <<"a", "x">>, <<"b">>, <<"b", "x">>} \subseteq Paths     \* of History

VARIABLES
  repository,   \* revision -> its tree and the paths its commit changed
  db,           \* revision -> its node records, of the committed transactions
  idx,          \* indexer -> where it is in svnindex__index
  stops         \* programs stopped so far

vars == <<repository, db, idx, stops>>

Youngest == Cardinality(DOMAIN repository) - 1
trees == [r \in DOMAIN repository |-> repository[r].tree]

\* db_get_youngest_rev
DbYoungest == IF DOMAIN db = {} THEN -1 ELSE CHOOSE r \in DOMAIN db : \A s \in DOMAIN db : s <= r

Idle == [pc |-> "idle", rev |-> 0, end |-> 0]

-----------------------------------------------------------------------------
(* The repository.                                                         *)

\* The history the programs find: a directory with a file is imported, then
\* copied to a branch.
Import == Put(Put(<<>>, <<"a">>, Change("add", "dir", NoSource, "none")),
              <<"a", "x">>, Change("add", "file", NoSource, "props"))
Branch == Put(<<>>, <<"b">>, Change("add", "dir", [rev |-> 1, path |-> <<"a">>], "none"))

Root == [kind |-> "dir", props |-> 0, text |-> 0]
Empty == Put(<<>>, <<>>, Root)
Trunk == Put(Put(Empty, <<"a">>, Root),
             <<"a", "x">>, [kind |-> "file", props |-> 1, text |-> 1])
Branched == Put(Put(Trunk, <<"b">>, Trunk[<<"a">>]), <<"b", "x">>, Trunk[<<"a", "x">>])

History == [r \in 0..2 |-> CASE r = 0 -> [changes |-> <<>>, tree |-> Empty]
                            [] r = 1 -> [changes |-> Import, tree |-> Trunk]
                            [] r = 2 -> [changes |-> Branch, tree |-> Branched]]

\* Two kinds of commit that leave the records wrong: a directory replaced by a
\* new one keeps the old one's children, and a change inside a copy is compared
\* with the copy's source but takes its predecessor at its own path.
Ordinary(changes) ==
  /\ \A p \in DOMAIN changes :
       ~ /\ changes[p].act = "replace" /\ changes[p].from = NoSource
         /\ changes[p].kind = "dir"
         /\ p \in DOMAIN trees[Youngest] /\ trees[Youngest][p].kind = "dir"
  /\ \A p, q \in DOMAIN changes :
       ~ /\ q # p /\ IsPrefix(p, q) /\ changes[p].from # NoSource
         /\ (changes[q].act = "change" \/ changes[p].act = "replace")

\* The commits of at most MaxChanges paths, the outer paths first.
Commits ==
  LET rev == Youngest + 1
      extend(c) == UNION {{[changes |-> Put(c.changes, q, d),
                            tree |-> Apply(trees, c.tree, rev, q, d)] :
                             d \in ChangesOf(trees, c.tree, q)} :
                          q \in {s \in Paths \ DOMAIN c.changes :
                                   \A p \in DOMAIN c.changes : Len(p) <= Len(s)}}
      f[n \in 0..MaxChanges] ==
        IF n = 0 THEN {[changes |-> <<>>, tree |-> trees[Youngest]]}
        ELSE f[n - 1] \union UNION {extend(c) : c \in f[n - 1]}
  IN  {c \in f[MaxChanges] :
         /\ Cardinality({p \in DOMAIN c.changes : c.changes[p].act \notin Joined}) <= 1
         /\ AnyCommit \/ Ordinary(c.changes)}

Commit ==
  /\ Youngest < MaxRev
  /\ \E c \in Commits : repository' = Put(repository, Youngest + 1, c)
  /\ UNCHANGED <<db, idx, stops>>

-----------------------------------------------------------------------------
(* The programs.                                                           *)

\* svnindex__index, as far as its loop: without -r it goes on from the youngest
\* revision of the database to the youngest of the repository.
Start(i) ==
  /\ idx[i].pc = "idle"
  /\ DbYoungest + 1 <= Youngest
  /\ idx' = [idx EXCEPT ![i] = [pc |-> "loop", rev |-> DbYoungest + 1, end |-> Youngest]]
  /\ UNCHANGED <<repository, db, stops>>

\* The same with -r lower:upper; subcommand_index refuses every other pair.
StartRange(i) ==
  /\ idx[i].pc = "idle"
  /\ \E lower, upper \in DOMAIN repository :
       /\ lower <= upper
       /\ idx' = [idx EXCEPT ![i] = [pc |-> "loop", rev |-> lower, end |-> upper]]
  /\ UNCHANGED <<repository, db, stops>>

\* db_begin, db_start_revision: the primary key makes the program wait for
\* another transaction that holds the revision, and then fail if it committed.
Free(i, rev) == \A j \in Indexers \ {i} : ~ (idx[j].pc = "open" /\ idx[j].rev = rev)

(* Mutant: create_revision does not look for the previous revision.        *)
AcceptedAlone(rev) == rev \notin DOMAIN db

(* Mutant: the first revision is asked for a previous one too.             *)
AcceptedAfter(rev) == rev \notin DOMAIN db /\ rev - 1 \in DOMAIN db

Accepted(rev) == rev \notin DOMAIN db /\ (rev = 0 \/ rev - 1 \in DOMAIN db)

(* Mutant: a revision that is there already is waited for, not refused.    *)
CreateRevisionWaits(i) ==
  /\ idx[i].pc = "loop" /\ idx[i].rev <= idx[i].end
  /\ Free(i, idx[i].rev) /\ Accepted(idx[i].rev)
  /\ idx' = [idx EXCEPT ![i].pc = "open"]
  /\ UNCHANGED <<repository, db, stops>>

CreateRevision(i) ==
  /\ idx[i].pc = "loop" /\ idx[i].rev <= idx[i].end
  /\ Free(i, idx[i].rev)
  /\ idx' = [idx EXCEPT ![i] = IF Accepted(idx[i].rev) THEN [@ EXCEPT !.pc = "open"] ELSE Idle]
  /\ UNCHANGED <<repository, db, stops>>

\* svn_repos_replay and db_commit; revision 0 has the root from create_revision.
RootRow == [path |-> <<>>, kind |-> "dir", action |-> "add",
            children |-> {}, props |-> 0, text |-> 0]

CommitRevision(i) ==
  /\ idx[i].pc = "open"
  /\ idx' = [idx EXCEPT ![i].pc = "loop", ![i].rev = @ + 1]
  /\ UNCHANGED <<repository, stops>>

IndexRevision(i) ==
  /\ CommitRevision(i)
  /\ LET rev   == idx[i].rev
         begun == Put(db, rev, IF rev = 0 THEN <<RootRow>> ELSE <<>>)
     IN  db' = IndexNodes(trees, begun, rev, repository[rev].changes)

\* The loop is done.
Finish(i) ==
  /\ idx[i].pc = "loop" /\ idx[i].rev > idx[i].end
  /\ idx' = [idx EXCEPT ![i] = Idle]
  /\ UNCHANGED <<repository, db, stops>>

\* A signal seen by check_cancel between two revisions, an error of the
\* connection or a kill in one: the transaction is rolled back.
Stop(i) ==
  /\ idx[i].pc # "idle" /\ stops < MaxStops
  /\ idx' = [idx EXCEPT ![i] = Idle]
  /\ stops' = stops + 1
  /\ UNCHANGED <<repository, db>>

Init ==
  /\ repository = History
  /\ db = <<>>
  /\ idx = [i \in Indexers |-> Idle]
  /\ stops = 0

Next == \/ Commit
        \/ \E i \in Indexers :
             \/ Start(i) \/ StartRange(i)
             \/ CreateRevision(i) \/ IndexRevision(i) \/ Finish(i)
             \/ Stop(i)

\* A program that runs goes on (what it writes does not matter here); nobody
\* has to run one.
Turn(i) == CreateRevision(i) \/ CommitRevision(i) \/ Finish(i)
Fairness == \A i \in Indexers : WF_idx(Turn(i))

Spec == Init /\ [][Next]_vars /\ Fairness

-----------------------------------------------------------------------------
(* Properties.                                                             *)

\* Every record is well formed: its children are records of directories' own
\* entries, and only a directory has any.
TypeOK ==
  /\ DOMAIN repository = 0..Youngest /\ Youngest <= MaxRev
  /\ \A i \in Indexers : /\ idx[i].pc \in {"idle", "loop", "open"}
                         /\ idx[i].end \in DOMAIN repository
                         /\ idx[i].rev \in 0..(idx[i].end + 1)
  /\ \A r \in DOMAIN db : \A k \in DOMAIN db[r] :
       LET row == db[r][k]
       IN  /\ row.path \in Paths /\ row.props \in 0..r /\ row.text \in 0..r
           /\ row.kind \in {"file", "dir", "unknown"}
           /\ row.action \in {"add", "change", "delete"}
           /\ \A c \in row.children : c[1] <= r /\ c[1] \in DOMAIN db /\ c[2] \in DOMAIN db[c[1]]
           /\ row.kind # "dir" => row.children = {}
  /\ stops \in 0..MaxStops

\* No revision has two records with the same path and action: the unique
\* constraint of svn.node would end the indexing at that revision for good.
NoDuplicateNode ==
  \A r \in DOMAIN db : \A j, k \in DOMAIN db[r] :
    db[r][j].path = db[r][k].path /\ db[r][j].action = db[r][k].action => j = k

\* The revisions of the database are the first ones of the repository, and of
\* all programs at most one is in a transaction, for the revision after them.
InOrder ==
  /\ \E n \in 0..(Youngest + 1) : DOMAIN db = 0..(n - 1)
  /\ \A i \in Indexers : idx[i].pc = "open" =>
       /\ idx[i].rev \in DOMAIN repository \ DOMAIN db
       /\ \A r \in 0..(idx[i].rev - 1) : r \in DOMAIN db
       /\ \A j \in Indexers \ {i} : idx[j].pc # "open"

\* The records of a revision are complete when its transaction commits, and
\* later revisions, which read them, do not write them.
RecordsStay == [][\A r \in DOMAIN db : r \in DOMAIN db' /\ db'[r] = db[r]]_vars

\* "To list a directory": in every indexed revision, get_children of
\* get_predecessor_id gives each entry of the directory once, and nothing else.
ListingsMatch ==
  \A r \in DOMAIN db : \A p \in Paths :
    (p \in DOMAIN trees[r] /\ trees[r][p].kind = "dir") =>
      /\ {Last(Node(db, id).path) : id \in Listing(db, r, p)}
           = {Last(q) : q \in ChildPaths(p) \intersect DOMAIN trees[r]}
      /\ Cardinality(Listing(db, r, p)) = Cardinality(ChildPaths(p) \intersect DOMAIN trees[r])

\* The index is a log of the repository: revisions are added one at a time and
\* in order, whatever number of programs run or are stopped, each answers every
\* lookup as the repository would, and no later revision changes an answer.
Log == INSTANCE IndexLog WITH trees <- [r \in DOMAIN repository |-> TreeOf(repository[r].tree)],
                             log   <- [r \in DOMAIN db |-> TreeAt(db, r)]
LogSpec == Log!Spec

\* A program that is started ends: none waits for another for ever.
ProgramsEnd == \A i \in Indexers : idx[i].pc # "idle" ~> idx[i].pc = "idle"

\* A program that is to go as far as revision r and has come as far as the
\* database, which a program started without -r has, brings the database to r
\* even when it fails because another was faster: then that one goes on.  Only
\* a stop, or a program that ends before r and may be the faster one, can
\* prevent it.
Ahead(r) == \E i \in Indexers :
  idx[i].pc # "idle" /\ idx[i].rev = DbYoungest + 1 /\ idx[i].end >= r
EndsBefore(r) == \E i \in Indexers : idx[i].pc # "idle" /\ idx[i].end < r
CatchesUp == \A r \in 0..MaxRev, n \in 0..MaxStops :
  (Ahead(r) /\ ~EndsBefore(r) /\ stops = n)
    ~> (r \in DOMAIN db \/ EndsBefore(r) \/ stops > n)
=============================================================================
