----------------------------- MODULE MemStorage ------------------------------
(***************************************************************************)
(* The storage of helpers/memfs (storage.go): a map from paths to nodes    *)
(* and, per directory, a map from names to nodes.  The operators take a    *)
(* storage to the storage after the call, with the result of the call.     *)
(*                                                                         *)
(* A path is a sequence of names, the root <<>>; a name is a string.  A    *)
(* node is a number, kind tells what it is.  The maps of children are Go   *)
(* maps: nilmaps holds the paths under which a nil map is stored, which    *)
(* reads like an empty one and panics when written.                        *)
(***************************************************************************)
EXTENDS Integers, Sequences, FiniteSets, Functions

\* filepath.Dir and filepath.Base, strings.HasPrefix, and the directories a path passes.
Dir(p) == SubSeq(p, 1, Len(p) - 1)
Base(p) == p[Len(p)]
IsPrefix(p, q) == Len(p) <= Len(q) /\ SubSeq(p, 1, Len(p)) = SubSeq(q, 1, Len(p))
IsStrictPrefix(p, q) == IsPrefix(p, q) /\ p # q
Prefixes(p) == {SubSeq(p, 1, n) : n \in 0..Len(p)}

Store(files, children, nilmaps, kind) ==
  [files |-> files, children |-> children, nilmaps |-> nilmaps, kind |-> kind]
newStorage == Store(<<>>, <<>>, {}, <<>>)

Result(res, s) == [res |-> res, s |-> s]

Has(s, p) == p \in DOMAIN s.files
Kind(s, p) == s.kind[s.files[p]]
IsDir(s, p) == Has(s, p) /\ Kind(s, p) = "dir"
Node(s, p) == IF Has(s, p) THEN s.files[p] ELSE 0

\* The map of children of p, empty when there is none.
Children(s, p) == IF p \in DOMAIN s.children THEN s.children[p] ELSE <<>>

\* A Go map after m[x] = v, after delete(m, x), and after all of g was put in it.
Put(m, x, v) == [y \in DOMAIN m \cup {x} |-> IF y = x THEN v ELSE m[y]]
Without(m, x) == Restrict(m, DOMAIN m \ {x})
PutAll(m, g) == [y \in DOMAIN m \cup DOMAIN g |-> IF y \in DOMAIN g THEN g[y] ELSE m[y]]

\* The directories above p that New and createParent make, going up from p to the
\* first one that exists.
Missing(s, p) ==
  {q \in Prefixes(p) \ {p} : \A r \in Prefixes(p) \ {p} : IsPrefix(q, r) => ~Has(s, r)}

\* createParent for node n at path p.  An existing parent that is no directory is
\* an error, found after the files map was changed and before any map of children is.
createParent(s, p, n) ==
  LET missing == Missing(s, p)
      at(q) == IF q = p THEN n ELSE Len(s.kind) + Len(p) - Len(q)
      new == (missing \cup {p}) \ {<<>>}
      parents == {Dir(q) : q \in new}
      names(q) == [x \in {Base(r) : r \in {r \in new : Dir(r) = q}} |-> at(Append(q, x))]
      files == PutAll(s.files, [q \in missing |-> at(q)])
      kind == s.kind \o [i \in {Len(p) - Len(q) : q \in missing} |-> "dir"]
      children == PutAll(s.children, [q \in parents |-> PutAll(Children(s, q), names(q))])
  IN IF \E q \in parents : Has(s, q) /\ Kind(s, q) # "dir"
     THEN Result("error", Store(files, s.children, s.nilmaps, kind))
     ELSE IF parents \cap s.nilmaps # {}
          THEN Result("panic", Store(files, s.children, s.nilmaps, kind))
          ELSE Result("ok", Store(files, children, s.nilmaps, kind))

\* storage.New: a directory that exists is left as it is.
NewPath(s, p, kind) ==
  IF Has(s, p)
  THEN Result(IF Kind(s, p) = "dir" THEN "ok" ELSE "error", s)
  ELSE LET n == Len(s.kind) + 1 IN
       createParent(Store(Put(s.files, p, n), s.children, s.nilmaps, Append(s.kind, kind)), p, n)

\* OpenFile with O_CREATE and without O_EXCL, of a path that is no link.
OpenFile(s, p) ==
  IF Has(s, p)
  THEN Result(IF Kind(s, p) = "dir" THEN "error" ELSE "ok", s)
  ELSE NewPath(s, p, "file")

\* The file and its entry in the directory are deleted.
Unlink(s, p) ==
  LET entries(q) == IF q = Dir(p) THEN Without(s.children[q], Base(p)) ELSE s.children[q] IN
  Store(Without(s.files, p), [q \in DOMAIN s.children |-> entries(q)], s.nilmaps, s.kind)

\* move.  While both keys exist they share one map of children, or both are nil; the
\* deletes are deferred and happen after an error too.
move(s, from, to) ==
  LET shared == from \in DOMAIN s.children
      put == Store(Put(s.files, to, s.files[from]),
                   IF shared THEN Put(s.children, to, s.children[from]) ELSE Without(s.children, to),
                   IF shared THEN s.nilmaps \ {to} ELSE s.nilmaps \cup {to},
                   s.kind)
      r == createParent(put, to, s.files[from])
      all == IF shared THEN Put(r.s.children, to, r.s.children[from]) ELSE r.s.children
  IN Result(r.res, Unlink(Store(r.s.files, Without(all, from), r.s.nilmaps \ {from}, r.s.kind), from))

\* strings.HasPrefix on the joined paths: no separator is asked for.
HasPrefix(q, from) ==
  LET n == Len(from) IN
  Len(q) >= n /\ SubSeq(q, 1, n - 1) = Dir(from) /\ IsPrefix(from[n], q[n])

Others(s, from) == {q \in DOMAIN s.files : q # from /\ HasPrefix(q, from)}

\* Mutation: one name too many is cut off.
pathToShort(q, from, to) == to \o SubSeq(q, Len(from) + 2, Len(q))

\* filepath.Join(to, rel): for a path that is not below from, rel begins with "..".
pathTo(q, from, to) ==
  IF IsPrefix(from, q)
  THEN to \o SubSeq(q, Len(from) + 1, Len(q))
  ELSE Dir(to) \o SubSeq(q, Len(from), Len(q))

\* Rename: from first, then the others in the given order, up to the first error.
moveNext(r, q, from, to) == IF r.res = "ok" THEN move(r.s, q, pathTo(q, from, to)) ELSE r

moveAll(s, from, to, order) ==
  LET run[n \in 0..Len(order)] ==
        IF n = 0 THEN move(s, from, to) ELSE moveNext(run[n - 1], order[n], from, to)
  IN run[Len(order)]

\* Go iterates over a map in any order.
Orders(S) == Bijection(1..Cardinality(S), S)

RenamePath(s, from, to) ==
  IF ~Has(s, from)
  THEN {Result("noent", s)}
  ELSE {moveAll(s, from, to, order) : order \in Orders(Others(s, from))}

\* Mutation: a directory is removed with what is in it.
RemoveAny(s, p) == IF Has(s, p) THEN Result("ok", Unlink(s, p)) ELSE Result("noent", s)

\* Mutation: the map of children of the path is set to nil.
RemoveNils(s, p) ==
  IF ~Has(s, p)
  THEN Result("noent", s)
  ELSE IF Kind(s, p) = "dir" /\ DOMAIN Children(s, p) # {}
       THEN Result("error", s)
       ELSE Result("ok", [Unlink(s, p) EXCEPT !.children = Without(@, p), !.nilmaps = @ \cup {p}])

\* Remove.  The map of children of the path itself stays.
RemovePath(s, p) ==
  IF ~Has(s, p)
  THEN Result("noent", s)
  ELSE IF Kind(s, p) = "dir" /\ DOMAIN Children(s, p) # {}
       THEN Result("error", s)
       ELSE Result("ok", Unlink(s, p))
=============================================================================
