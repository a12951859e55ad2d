------------------------------ MODULE Namespace ------------------------------
(***************************************************************************)
(* The directory operations of the server over helpers/memfs: MKDIR,       *)
(* CREATE, SYMLINK, REMOVE, RENAME, LOOKUP and READDIR(PLUS), the handles  *)
(* their replies carry and the cache of directory listings.  memfs takes   *)
(* no concurrent calls, so there is one client and a handler is one step.  *)
(*                                                                         *)
(* A handle is identified with the path it resolves to, as ToHandle gives  *)
(* a path one handle at a time; eviction of handles, and fds, are in       *)
(* HandleLife.  Links point to nothing, and the client makes nothing over  *)
(* one.                                                                    *)
(***************************************************************************)
EXTENDS MemStorage, FiniteSetsExt

CONSTANTS
  Names,        \* names of files, in the order of sort.Slice
  Trees,        \* the contents of the filesystem at the start
  MaxDepth,     \* bound on the length of a path
  MaxOps,       \* bound on the requests; a RENAME counts twice
  HandleLimit   \* limit on handles, which also bounds a page of READDIR

Name == Range(Names)
Path == Seq(Name)

Kinds == {"dir", "file", "link"}

\* A storage: its maps hold nodes, and a path has a nil map or a map of children.
StoreOK(s) ==
  /\ s = Store(s.files, s.children, s.nilmaps, s.kind)
  /\ s.kind \in Seq(Kinds)
  /\ s.files \in [DOMAIN s.files -> 1..Len(s.kind)]
  /\ DOMAIN s.files \subseteq Path /\ IsFiniteSet(DOMAIN s.files)
  /\ DOMAIN s.children \subseteq Path
  /\ \A p \in DOMAIN s.children : \A x \in DOMAIN s.children[p] :
       x \in Name /\ s.children[p][x] \in 1..Len(s.kind)
  /\ s.nilmaps \cap DOMAIN s.children = {}

\* The two maps tell one story: a file is found at a path exactly when its directory
\* lists it, as the same node, and the directory is one.
Tree(s) ==
  /\ \A p \in DOMAIN s.files \ {<<>>} :
       /\ IsDir(s, Dir(p)) /\ Base(p) \in DOMAIN Children(s, Dir(p))
       /\ Children(s, Dir(p))[Base(p)] = s.files[p]
  /\ \A d \in DOMAIN s.children : \A x \in DOMAIN s.children[d] : Has(s, Append(d, x))

\* Names are strings, and no RENAME has happened to the filesystem at the start.
ASSUME NamespaceAssumption ==
  /\ Names \in Seq(Name) /\ \A x \in Name : Len(x) \in Nat
  /\ \A s \in Trees : StoreOK(s) /\ Tree(s) /\ s.nilmaps = {}
  /\ \A s \in Trees : \A p \in DOMAIN s.files : Len(p) <= MaxDepth
  /\ MaxDepth \in Nat /\ MaxOps \in Nat /\ HandleLimit \in Nat /\ HandleLimit >= 4

VARIABLES
  st,        \* storage of the filesystem
  crashed,   \* a handler panicked, which ends the process
  meant,     \* handles the client has: the node of the path when a reply first carried it
  walk,      \* the client's READDIR of one directory in pages
  listing,   \* activeVerifiers: the contents under the verifier of the walk, or Evicted
  ops,
  rough,     \* history: a RENAME happened that storage.Rename does not carry out well
  bare,      \* history: paths that a RENAME gave a node without a map of children
  strayed    \* history: handles of paths below one that was renamed

hist == <<rough, bare, strayed>>
vars == <<st, crashed, meant, walk, listing, ops, hist>>

Evicted == <<>>
Walk(dir, cookie, verf, snap, names, end) ==
  [dir |-> dir, cookie |-> cookie, verf |-> verf, snap |-> snap, names |-> names, end |-> end]
NewWalk(dir) == Walk(dir, 0, <<>>, <<>>, <<>>, "none")

Init ==
  /\ st \in Trees /\ crashed = FALSE
  /\ meant = [p \in {<<>>} |-> Node(st, p)]
  /\ walk = NewWalk(<<>>) /\ listing = Evicted /\ ops = 0
  /\ rough = FALSE /\ bare = {} /\ strayed = {}

-----------------------------------------------------------------------------
(* MKDIR, CREATE, SYMLINK, REMOVE, LOOKUP.                                 *)

\* A request, within the bound, about the handle d; about a name in it.
Ask(d, cost) ==
  ~crashed /\ d \in DOMAIN meant /\ ops + cost <= MaxOps /\ ops' = ops + cost
AskIn(d, cost) == Ask(d, cost) /\ Len(d) < MaxDepth

IsFile(s, p) == Has(s, p) /\ Kind(s, p) = "file"
IsLink(s, p) == Has(s, p) /\ Kind(s, p) = "link"

\* A reply carries the handles of the paths S.
Show(S, s) ==
  meant' = [p \in DOMAIN meant \cup S |->
              IF p \in DOMAIN meant /\ meant[p] # 0 THEN meant[p] ELSE Node(s, p)]

\* What follows the backend call that makes p, with result r.
Made(r, p) ==
  /\ st' = r.s /\ crashed' = (r.res = "panic")
  /\ IF r.res = "ok" THEN Show({p}, r.s) ELSE UNCHANGED meant

Refuse == UNCHANGED <<st, crashed, meant>>

\* onMkdir: over a file or a link it goes on to MkdirAll, which fails.
Mkdir(d, x) ==
  LET p == Append(d, x) IN
  /\ AskIn(d, 1)
  /\ IF IsDir(st, p) \/ (~IsFile(st, p) /\ ~IsDir(st, d))
     THEN Refuse
     ELSE Made(NewPath(st, p, "dir"), p)
  /\ UNCHANGED <<walk, listing, hist>>

\* onCreate, guarded or not.  attrs.Apply may fail, with the file made; the others do
\* not call it, as memfs has no billy.Change.
Create(d, x, guarded) ==
  LET p == Append(d, x) IN
  /\ AskIn(d, 1) /\ ~IsLink(st, p)
  /\ IF IsDir(st, p) \/ (IsFile(st, p) /\ guarded) \/ (~Has(st, p) /\ ~IsDir(st, d))
     THEN Refuse
     ELSE LET r == OpenFile(st, p) IN
          \/ Made(r, p)
          \/ r.res = "ok" /\ st' = r.s /\ UNCHANGED <<crashed, meant>>
  /\ UNCHANGED <<walk, listing, hist>>

\* onSymlink.
Symlink(d, x) ==
  LET p == Append(d, x) IN
  /\ AskIn(d, 1) /\ ~IsLink(st, p)
  /\ IF Has(st, p) \/ ~IsDir(st, d) THEN Refuse ELSE Made(NewPath(st, p, "link"), p)
  /\ UNCHANGED <<walk, listing, hist>>

\* InvalidateHandle.
Invalidate(S) == meant' = Restrict(meant, DOMAIN meant \ S)

\* onRemove and onRmDir.
Delete(d, x) ==
  LET p == Append(d, x)
      r == RemovePath(st, p) IN
  /\ AskIn(d, 1)
  /\ IF IsDir(st, d) /\ r.res = "ok"
     THEN st' = r.s /\ Invalidate({p}) /\ UNCHANGED crashed
     ELSE Refuse
  /\ UNCHANGED <<walk, listing, hist>>

\* onLookup of a name, and of "..".
Lookup(d, x) ==
  /\ AskIn(d, 1)
  /\ IsDir(st, d) /\ Has(st, Append(d, x)) /\ Show({Append(d, x)}, st)
  /\ UNCHANGED <<st, crashed, walk, listing, hist>>

LookupParent(d) ==
  /\ Ask(d, 1)
  /\ IsDir(st, d) /\ d # <<>> /\ Show({Dir(d)}, st)
  /\ UNCHANGED <<st, crashed, walk, listing, hist>>

-----------------------------------------------------------------------------
(* RENAME.                                                                 *)

\* What storage.Rename does not do well: to is from or below it; a name that begins
\* like that of from is next to it; there are entries two levels below from, which the
\* iteration may visit in either order; to is a directory with entries.
Rough(s, from, to) ==
  \/ IsPrefix(from, to)
  \/ \E q \in Others(s, from) : ~IsPrefix(from, q) \/ Len(q) > Len(from) + 1
  \/ DOMAIN Children(s, to) # {}

\* The paths that storage.Rename gives a node without a map of children.
Bare(s, from, to) ==
  IF Has(s, from)
  THEN {pathTo(q, from, to) : q \in ({from} \cup Others(s, from)) \ DOMAIN s.children}
  ELSE {}

\* dropAndRetry: after an error other than ErrNotExist the backend is asked once more.
dropAndRetry(first, from, to) ==
  IF first.res = "error" THEN RenamePath(first.s, from, to) ELSE {first}

\* Mutation: the handle of the destination stays valid.
InvalidateSource(from, to) == Invalidate({from})

\* The handles that onRename invalidates at the end.
InvalidateBoth(from, to) == Invalidate({from, to})

\* onRename.
Rename(d, x, e, y) ==
  LET from == Append(d, x)
      to == Append(e, y) IN
  /\ AskIn(d, 2) /\ AskIn(e, 2)
  /\ IF IsDir(st, d) /\ IsDir(st, e) /\ Has(st, from)
     THEN /\ \E first \in RenamePath(st, from, to) : \E r \in dropAndRetry(first, from, to) :
               /\ \A q \in DOMAIN r.s.files : Len(q) <= MaxDepth
               /\ st' = r.s /\ crashed' = (r.res = "panic")
               /\ IF r.res = "ok" THEN InvalidateBoth(from, to) ELSE UNCHANGED meant
               /\ bare' = bare \cup Bare(st, from, to) \cup
                          (IF first.res = "error" THEN Bare(first.s, from, to) ELSE {})
          /\ rough' = (rough \/ Rough(st, from, to))
          /\ strayed' = strayed \cup
               {p \in DOMAIN meant : IsStrictPrefix(from, p) \/ IsStrictPrefix(to, p)}
     ELSE Refuse /\ UNCHANGED hist
  /\ UNCHANGED <<walk, listing>>

-----------------------------------------------------------------------------
(* READDIR and READDIRPLUS.                                                *)

\* The names of S, sorted.
Sorted(S) ==
  LET upTo[n \in 0..Len(Names)] ==
        IF n = 0 THEN <<>>
        ELSE IF Names[n] \in S THEN Append(upTo[n - 1], Names[n]) ELSE upTo[n - 1]
  IN upTo[Len(Names)]

\* ReadDir of memfs, sorted: the names of the entries.
Contents(s, d) == Sorted(DOMAIN Children(s, d))

\* Names one after the other.
Concat(names) ==
  LET upTo[n \in 0..Len(names)] == IF n = 0 THEN "" ELSE upTo[n - 1] \o names[n]
  IN upTo[Len(names)]

\* hashPathAndContents: no separator is hashed between names.
hashPathAndContents(d, contents) == <<d, Concat(contents)>>

\* getDirListingWithVerifier: the listing cached under the verifier v of the walk if it
\* has entries, else the directory's, which goes to the cache under its own verifier.
\* ReadDir finds a file empty and follows a link.
getDirListingWithVerifier(d, v) ==
  IF v # <<>> /\ listing # Evicted
  THEN [ok |-> TRUE, contents |-> listing, verf |-> v]
  ELSE [ok |-> Has(st, d) /\ ~IsLink(st, d), contents |-> Contents(st, d),
        verf |-> hashPathAndContents(d, Contents(st, d))]

\* Mutation: a listing that changed between pages is not noticed.
BadCookieNever(cookie, verf, got) == FALSE

BadCookie(cookie, verf, got) == cookie > 0 /\ verf # <<>> /\ got # verf

\* Mutation: the cookie of an entry is one too high.
PageSkips(contents, cookie, room) ==
  LET next == IF cookie = 0 THEN 1 ELSE IF cookie \in 2..(Len(contents) + 1) THEN cookie
              ELSE Len(contents) + 1
      fit == HandleLimit \div 2 + 1 - (IF cookie = 0 THEN 2 ELSE 0)
      last == Min({Len(contents), next + room - 1, next + fit - 1})
  IN [names |-> SubSeq(contents, next, last), cookie |-> last + 2, eof |-> last = Len(contents)]

\* The entries of a page.  The cookie of the i-th entry is i + 1, so that cookie also
\* is the number of the entry after the one it names; a cookie that names no entry
\* starts nothing.  room is how many entries fit in the bytes the client asked for.
Page(contents, cookie, room) ==
  LET next == IF cookie = 0 THEN 1 ELSE IF cookie \in 2..(Len(contents) + 1) THEN cookie
              ELSE Len(contents) + 1
      fit == HandleLimit \div 2 + 1 - (IF cookie = 0 THEN 2 ELSE 0)
      last == Min({Len(contents), next + room - 1, next + fit - 1})
  IN [names |-> SubSeq(contents, next, last), cookie |-> last + 1, eof |-> last = Len(contents)]

\* onReadDir and onReadDirPlus: a page of directory d for the walk w; READDIRPLUS also
\* gives the handles of the entries.
Readdir(w, room, plus) ==
  LET got == getDirListingWithVerifier(w.dir, w.verf)
      page == Page(got.contents, w.cookie, room)
      shown == IF plus THEN {Append(w.dir, x) : x \in Range(page.names)} ELSE {}
  IN /\ IF ~got.ok \/ BadCookie(w.cookie, w.verf, got.verf)
        THEN /\ walk' = Walk(w.dir, w.cookie, w.verf, w.snap, w.names, "error")
             /\ UNCHANGED <<meant, listing>>
        ELSE /\ listing' = got.contents
             /\ walk' = Walk(w.dir, page.cookie, got.verf,
                             IF w.cookie = 0 THEN got.contents ELSE w.snap,
                             w.names \o page.names, IF page.eof THEN "eof" ELSE "more")
             /\ Show(shown, st)
     /\ UNCHANGED <<st, crashed, hist>>

\* The client starts to list a directory.
OpenDir(d, room, plus) ==
  /\ Ask(d, 1)
  /\ Readdir(NewWalk(d), room, plus)

\* The client asks for the next page; the directory's handle may be stale by now.
NextPage(room, plus) ==
  /\ ~crashed /\ walk.end = "more" /\ walk.dir \in DOMAIN meant
  /\ Readdir(walk, room, plus)
  /\ UNCHANGED ops

\* Listings of other directories push the listing of the walk out of the cache.
Evict ==
  /\ ~crashed /\ walk.end = "more" /\ listing # Evicted /\ listing' = Evicted
  /\ UNCHANGED <<st, crashed, meant, walk, ops, hist>>

\* Another listing of the directory of the walk, under the same verifier.
Relist ==
  /\ ~crashed /\ walk.end = "more" /\ walk.dir \in DOMAIN meant /\ IsDir(st, walk.dir)
  /\ hashPathAndContents(walk.dir, Contents(st, walk.dir)) = walk.verf
  /\ listing # Contents(st, walk.dir) /\ listing' = Contents(st, walk.dir)
  /\ UNCHANGED <<st, crashed, meant, walk, ops, hist>>

Dirs == DOMAIN meant
Next ==
  \/ \E d \in Dirs, x \in Name :
       \/ Mkdir(d, x)
       \/ \E guarded \in BOOLEAN : Create(d, x, guarded)
       \/ Symlink(d, x)
       \/ Delete(d, x)
       \/ Lookup(d, x)
       \/ \E e \in Dirs, y \in Name : Rename(d, x, e, y)
  \/ \E d \in Dirs : LookupParent(d)
  \/ \E d \in Dirs, room \in 1..Len(Names), plus \in BOOLEAN : OpenDir(d, room, plus)
  \/ \E room \in 1..Len(Names), plus \in BOOLEAN : NextPage(room, plus)
  \/ Evict
  \/ Relist

Spec == Init /\ [][Next]_vars

-----------------------------------------------------------------------------
(* Properties.                                                             *)

\* Types: every entry of the maps is a node, a path without a map of children is not
\* listed as having one, a page ends within its listing.
TypeOK ==
  /\ StoreOK(st) /\ \A p \in DOMAIN st.files : Len(p) <= MaxDepth
  /\ DOMAIN meant \subseteq Path
  /\ walk.cookie \in 0..(Len(Names) + 1) /\ ops \in 0..MaxOps
  /\ walk.end \in {"none", "more", "eof", "error"}

\* The two maps of memfs agree (storage.go: files and children).  RENAMEs that are rough
\* are excepted, as is a panic halfway.
TreeIntact == ~rough /\ ~crashed => Tree(st)

\* RENAME loses nothing: each node found before it is found after it, unless its path
\* has been taken by the node that was moved (storage.go: Rename).  Rough ones are
\* excepted: a RENAME of a file to its own name deletes it.
RenameKeepsFiles ==
  [][ops' = ops + 2 /\ ~rough' /\ ~crashed' =>
       \A p \in DOMAIN st.files :
         st.files[p] \in Range(st'.files) \/ Has(st', p)]_vars

\* The process goes down only after a RENAME of something without a map of children:
\* move stores a nil map for it, and createParent writes to that map once the path is
\* that of a directory (storage.go:145, :75).
PanicNeedsBareRename == crashed => bare # {}

\* A handle stands for the file that it was given out for: whatever RENAME, REMOVE and
\* CREATE do to its path, a handle that still resolves reaches the same node.  Handles
\* below a directory that was renamed are excepted, since onRename invalidates only
\* those of the two names.
HandleFaithful ==
  ~rough /\ ~crashed =>
    \A p \in DOMAIN meant \ strayed : meant[p] # 0 => Node(st, p) = meant[p]

\* A READDIR that reached the end, over any number of pages and with the directory
\* changing in between, gave each entry of the directory at the start once.  Excepted
\* is a directory whose old and new names join to the same string, and so have the
\* same verifier.
ListingComplete ==
  walk.end = "eof" =>
    \/ walk.names = walk.snap
    \/ \E S \in SUBSET Name :
         Sorted(S) # walk.snap /\ Concat(Sorted(S)) = Concat(walk.snap)
=============================================================================
