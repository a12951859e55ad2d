-------------------------- MODULE NamespaceProofs --------------------------
\* Proofs of the safety properties of Namespace: memfs keeps a tree, handles stay faithful,
\* listings are complete and renames lose no file.
EXTENDS Namespace, TLAPS, FiniteSetTheorems

\* Leaves are for Zenon; those about numbers and sequences name SMT.
USE Zenon

-----------------------------------------------------------------------------
(* Paths.                                                                  *)

\* A set of naturals has a least element.
LEMMA LeastNat ==
  ASSUME NEW T, T \subseteq Nat, NEW n \in T
  PROVE  \E m \in T : \A k \in T : m <= k
<1>1. PICK m \in T : \A k \in T : ~(<<k, m>> \in OpToRel(<, Nat))
  BY NatLessThanWellFounded, WFMin
<1>2. \A k \in T : k \in Nat /\ m \in Nat /\ ~(k < m) BY <1>1 DEF OpToRel
<1> QED BY SMT, <1>2

\* A path begins with paths of each smaller length.
LEMMA Initial ==
  ASSUME NEW p \in Path, NEW m \in 0..Len(p)
  PROVE  /\ SubSeq(p, 1, m) \in Path /\ Len(SubSeq(p, 1, m)) = m
         /\ \A i \in 1..m : SubSeq(p, 1, m)[i] = p[i]
BY SMT DEF Path

\* A name put to a path is its last.
LEMMA PathAppend ==
  ASSUME NEW d \in Path, NEW x \in Name
  PROVE  /\ Append(d, x) \in Path /\ Append(d, x) # <<>> /\ Len(Append(d, x)) = Len(d) + 1
         /\ Dir(Append(d, x)) = d /\ Base(Append(d, x)) = x
BY SMT DEF Path, Dir, Base

\* One path after another.
LEMMA Joined ==
  ASSUME NEW p \in Path, NEW q \in Path
  PROVE  p \o q \in Path /\ Len(p \o q) = Len(p) + Len(q)
BY SMT DEF Path

\* A path other than the root is its directory and its last name.
LEMMA PathSplit ==
  ASSUME NEW p \in Path, p # <<>>
  PROVE  /\ Dir(p) \in Path /\ Base(p) \in Name /\ p = Append(Dir(p), Base(p))
         /\ Len(p) \in Nat /\ Len(p) # 0 /\ Len(Dir(p)) = Len(p) - 1 /\ Dir(p) # p
<1>1. Len(p) \in Nat /\ Len(p) # 0 BY SMT DEF Path
<1>2. Len(p) - 1 \in 0..Len(p) BY SMT, <1>1
<1>3. PICK f : f = Dir(p) OBVIOUS
<1>4. f \in Path /\ Len(f) = Len(p) - 1 /\ \A i \in 1..(Len(p) - 1) : f[i] = p[i]
  BY <1>2, <1>3, Initial DEF Dir
<1>5. Base(p) \in Name BY SMT, <1>1 DEF Path, Base
<1>6. p = Append(f, Base(p)) BY SMT, <1>1, <1>4, <1>5 DEF Path, Base
<1> QED BY SMT, <1>1, <1>3, <1>4, <1>5, <1>6

-----------------------------------------------------------------------------
(* createParent.                                                           *)

\* The missing directories are the k paths right above p.
LEMMA MissingIs ==
  ASSUME NEW s, NEW p \in Path
  PROVE  \E k \in 0..Len(p) :
           Missing(s, p) = {SubSeq(p, 1, l) : l \in (Len(p) - k)..(Len(p) - 1)}
<1> DEFINE above == Prefixes(p) \ {p}
<1>1. Len(p) \in Nat BY SMT DEF Path
<1>2. \A l \in 0..(Len(p) - 1) : SubSeq(p, 1, l) \in above
  <2> TAKE l \in 0..(Len(p) - 1)
  <2>1. l \in 0..Len(p) /\ l # Len(p) BY SMT, <1>1
  <2>2. Len(SubSeq(p, 1, l)) = l BY <2>1, Initial
  <2> QED BY <2>1, <2>2 DEF Prefixes
<1>3. \A q \in above : q \in Path /\ \E l \in 0..(Len(p) - 1) : q = SubSeq(p, 1, l)
  <2>1. SubSeq(p, 1, Len(p)) = p BY SMT, <1>1 DEF Path
  <2> TAKE q \in above
  <2>2. PICK l \in 0..Len(p) : q = SubSeq(p, 1, l) BY DEF Prefixes
  <2>3. l # Len(p) BY <2>1, <2>2
  <2>4. l \in 0..(Len(p) - 1) BY SMT, <1>1, <2>2, <2>3
  <2> QED BY <2>2, <2>4, Initial
<1>4. \A l, m \in 0..(Len(p) - 1), r \in above :
        l <= m /\ IsPrefix(SubSeq(p, 1, m), r) => IsPrefix(SubSeq(p, 1, l), r)
  <2> SUFFICES ASSUME NEW l \in 0..(Len(p) - 1), NEW m \in 0..(Len(p) - 1), NEW r \in Path,
                      l <= m, IsPrefix(SubSeq(p, 1, m), r)
               PROVE  IsPrefix(SubSeq(p, 1, l), r)
    BY SMT, <1>3
  <2>1. PICK a : a = SubSeq(p, 1, l) OBVIOUS
  <2>2. PICK b : b = SubSeq(p, 1, m) OBVIOUS
  <2>3. a \in Path /\ Len(a) = l /\ \A i \in 1..l : a[i] = p[i] BY SMT, <1>1, <2>1, Initial
  <2>4. b \in Path /\ Len(b) = m /\ \A i \in 1..m : b[i] = p[i] BY SMT, <1>1, <2>2, Initial
  <2>5. l \in Nat /\ m \in Nat BY SMT, <1>1
  <2>6. Len(b) <= Len(r) /\ SubSeq(b, 1, m) = SubSeq(r, 1, m) BY SMT, <2>2, <2>4 DEF IsPrefix
  <2>7. \A i \in 1..m : SubSeq(b, 1, m)[i] = b[i] /\ SubSeq(r, 1, m)[i] = r[i]
    BY SMT, <2>4, <2>5, <2>6 DEF Path
  <2>8. \A i \in 1..l : a[i] = r[i] BY SMT, <2>3, <2>4, <2>5, <2>6, <2>7
  <2>9. Len(a) <= Len(r) /\ SubSeq(a, 1, l) = SubSeq(r, 1, l) BY SMT, <2>3, <2>4, <2>5, <2>6, <2>8 DEF Path
  <2> QED BY SMT, <2>1, <2>3, <2>9 DEF IsPrefix
<1>5. \A l, m \in 0..(Len(p) - 1) :
        l <= m /\ SubSeq(p, 1, l) \in Missing(s, p) => SubSeq(p, 1, m) \in Missing(s, p)
  BY <1>2, <1>4 DEF Missing
<1> DEFINE T == {n \in 1..(Len(p) + 1) : n = Len(p) + 1 \/ SubSeq(p, 1, Len(p) - n) \notin Missing(s, p)}
<1>6. T \subseteq Nat /\ Len(p) + 1 \in T BY SMT, <1>1
<1>7. PICK n \in T : \A m \in T : n <= m
  <2> HIDE DEF T
  <2> QED BY <1>6, LeastNat
<1>8. \A l \in (Len(p) - (n - 1))..(Len(p) - 1) : SubSeq(p, 1, l) \in Missing(s, p)
  <2> TAKE l \in (Len(p) - (n - 1))..(Len(p) - 1)
  <2>1. Len(p) - l \notin T /\ Len(p) - l \in 1..(Len(p) + 1) /\ l = Len(p) - (Len(p) - l)
    BY SMT, <1>1, <1>7
  <2> QED BY SMT, <2>1
<1>9. \A q \in Missing(s, p) : \E l \in (Len(p) - (n - 1))..(Len(p) - 1) : q = SubSeq(p, 1, l)
  <2> TAKE q \in Missing(s, p)
  <2>1. PICK l \in 0..(Len(p) - 1) : q = SubSeq(p, 1, l) BY SMT, <1>3 DEF Missing
  <2>2. SUFFICES ASSUME l < Len(p) - (n - 1) PROVE FALSE BY SMT, <1>1, <1>7, <2>1
  <2>3. Len(p) - n \in 0..(Len(p) - 1) /\ l <= Len(p) - n /\ n # Len(p) + 1 BY SMT, <1>1, <1>7, <2>2
  <2> QED BY SMT, <1>5, <1>7, <2>1, <2>3
<1>10. n - 1 \in 0..Len(p) BY SMT, <1>1, <1>7
<1>11. Missing(s, p) = {SubSeq(p, 1, l) : l \in (Len(p) - (n - 1))..(Len(p) - 1)}
  <2> HIDE DEF T
  <2> QED BY <1>8, <1>9
<1> QED BY <1>10, <1>11

-----------------------------------------------------------------------------
(* Listings, their pages and the walk of a client.                         *)

\* One step of Sorted.
SortNext(t, n, S) == IF Names[n] \in S THEN Append(t, Names[n]) ELSE t

\* f holds the listing of S among the first n names, for each n up to N.
IsSort(f, N, S) == f = [n \in 0..N |-> IF n = 0 THEN <<>> ELSE SortNext(f[n - 1], n, S)]

\* The function that Sorted is defined by exists.
LEMMA SortExists ==
  ASSUME NEW S, NEW N \in Nat
  PROVE  \E f : IsSort(f, N, S)
<1> DEFINE T == {k \in Nat : ~ \E f : IsSort(f, k, S)}
<1> SUFFICES ASSUME N \in T PROVE FALSE OBVIOUS
<1>1. T \subseteq Nat OBVIOUS
<1>2. PICK k \in T : \A j \in T : k <= j
  <2> HIDE DEF T
  <2> QED BY <1>1, LeastNat
<1>3. k \in Nat /\ ~ \E f : IsSort(f, k, S) BY <1>2
<1>4. CASE k = 0
  <2>1. PICK f : f = [n \in 0..0 |-> <<>>] OBVIOUS
  <2>2. \A n \in 0..0 : n = 0 BY SMT
  <2>3. f = [n \in 0..0 |-> IF n = 0 THEN <<>> ELSE SortNext(f[n - 1], n, S)] BY <2>1, <2>2
  <2> QED BY <1>3, <1>4, <2>3 DEF IsSort
<1>5. CASE k # 0
  <2>1. k - 1 \in Nat /\ ~(k <= k - 1) /\ k - 1 \in 0..(k - 1) BY SMT, <1>3, <1>5
  <2>2. PICK f : IsSort(f, k - 1, S) BY <1>2, <2>1
  <2>3. PICK x : x = SortNext(f[k - 1], k, S) OBVIOUS
  <2>4. PICK g : g = [n \in 0..k |-> IF n = k THEN x ELSE f[n]] OBVIOUS
  <2>5. \A n \in 0..k : n # k => n \in 0..(k - 1) BY SMT, <1>3
  <2>6. \A n \in 0..k : n # 0 => n - 1 \in 0..k /\ n - 1 # k BY SMT, <1>3
  <2>7. \A n \in 0..(k - 1) : f[n] = IF n = 0 THEN <<>> ELSE SortNext(f[n - 1], n, S)
    BY <2>2 DEF IsSort
  <2>8. \A n \in 0..k : n # 0 => g[n - 1] = f[n - 1] BY <2>4, <2>6
  <2>9. \A n \in 0..k : g[n] = IF n = 0 THEN <<>> ELSE SortNext(g[n - 1], n, S)
    <3> TAKE n \in 0..k
    <3>1. CASE n = k
      <4>1. g[n] = SortNext(f[n - 1], n, S) BY <2>3, <2>4, <3>1
      <4> QED BY <1>5, <2>8, <3>1, <4>1
    <3>2. CASE n # k
      <4>1. g[n] = f[n] /\ n \in 0..(k - 1) BY <2>4, <2>5, <3>2
      <4> QED BY <2>7, <2>8, <4>1
    <3> QED BY <3>1, <3>2
  <2>10. IsSort(g, k, S) BY <2>4, <2>9 DEF IsSort
  <2> QED BY <1>3, <2>10
<1> QED BY <1>4, <1>5

\* A listing: names, and no more than there are.
Listing(c) == c \in Seq(Name) /\ Len(c) <= Len(Names)

\* sort.Slice and the map of children give a listing.
LEMMA SortedOK ==
  ASSUME NEW S
  PROVE  Listing(Sorted(S))
<1>1. PICK N : N = Len(Names) OBVIOUS
<1>2. N \in Nat /\ \A n \in 1..N : Names[n] \in Name BY SMT, <1>1, NamespaceAssumption
<1>3. PICK f : f = CHOOSE g : IsSort(g, N, S) OBVIOUS
<1>4. IsSort(f, N, S) BY <1>2, <1>3, SortExists
<1>5. Sorted(S) = f[N] BY <1>1, <1>3 DEF Sorted, IsSort, SortNext
<1>6. \A n \in 0..N : f[n] = IF n = 0 THEN <<>> ELSE SortNext(f[n - 1], n, S) BY <1>4 DEF IsSort
<1> DEFINE T == {n \in 0..N : ~(f[n] \in Seq(Name) /\ Len(f[n]) <= n)}
<1>7. SUFFICES ASSUME N \in T PROVE FALSE
  <2>1. N \in 0..N BY SMT, <1>2
  <2> QED BY <1>1, <1>5, <2>1 DEF Listing
<1>8. T \subseteq Nat BY SMT, <1>2
<1>9. PICK n \in T : \A m \in T : n <= m
  <2> HIDE DEF T
  <2> QED BY <1>7, <1>8, LeastNat
<1>10. n \in 0..N /\ ~(f[n] \in Seq(Name) /\ Len(f[n]) <= n) BY <1>9
<1>11. CASE n = 0
  <2>1. f[n] = <<>> BY <1>6, <1>10, <1>11
  <2>2. <<>> \in Seq(Name) /\ Len(<<>>) <= 0 BY SMT
  <2> QED BY <1>10, <1>11, <2>1, <2>2
<1>12. CASE n # 0
  <2>1. n - 1 \in 0..N /\ ~(n <= n - 1) /\ n \in 1..N /\ n \in Nat BY SMT, <1>2, <1>10, <1>12
  <2>2. PICK t : t = f[n - 1] OBVIOUS
  <2>3. t \in Seq(Name) /\ Len(t) <= n - 1 BY <1>9, <2>1, <2>2
  <2>4. f[n] = SortNext(t, n, S) BY <1>6, <1>10, <1>12, <2>2
  <2>5. PICK y : y = Names[n] OBVIOUS
  <2>6. y \in Name BY <1>2, <2>1, <2>5
  <2>7. f[n] = t \/ f[n] = Append(t, y) BY <2>4, <2>5 DEF SortNext
  <2>8. t \in Seq(Name) /\ Len(t) <= n BY SMT, <2>1, <2>3
  <2>9. Append(t, y) \in Seq(Name) /\ Len(Append(t, y)) <= n BY SMT, <2>1, <2>3, <2>6
  <2> QED BY <1>10, <2>7, <2>8, <2>9
<1> QED BY <1>11, <1>12

\* What the model lists are names.
LEMMA ContentsOK ==
  ASSUME NEW s, StoreOK(s), NEW d
  PROVE  Listing(Contents(s, d)) /\ \E S \in SUBSET Name : Contents(s, d) = Sorted(S)
<1>1. PICK S : S = DOMAIN Children(s, d) OBVIOUS
<1>2. Contents(s, d) = Sorted(S) BY <1>1 DEF Contents
<1>3. DOMAIN <<>> = {} BY SMT
<1>4. S \subseteq Name BY <1>1, <1>3 DEF StoreOK, Children
<1> QED BY <1>2, <1>4, SortedOK

\* The least of three numbers.
LEMMA Least3 ==
  ASSUME NEW a \in Nat, NEW b \in Nat, NEW c \in Nat
  PROVE  /\ Min({a, b, c}) \in {a, b, c} /\ Min({a, b, c}) <= a /\ Min({a, b, c}) <= b
         /\ Min({a, b, c}) <= c
<1>1. PICK S : S = {a, b, c} OBVIOUS
<1>2. \E x \in S : \A y \in S : x <= y BY SMT, <1>1
<1>3. PICK m : m = Min(S) OBVIOUS
<1>4. m = CHOOSE x \in S : \A y \in S : x <= y BY <1>3 DEF Min
<1>5. m \in S /\ \A y \in S : m <= y BY <1>2, <1>4
<1> QED BY <1>1, <1>3, <1>5

\* A page goes up to the entry number last: it makes progress unless it is at the end.
PageTo(c, k, pg, last) ==
  /\ pg.cookie = last + 1 /\ (pg.eof <=> last = Len(c)) /\ pg.names \in Seq(Name)
  /\ k = 0 => pg.names = SubSeq(c, 1, last) /\ (last # Len(c) => last >= 1)
  /\ k \in 2..Len(c) => pg.names = SubSeq(c, k, last) /\ last >= k

\* A page of onReadDir, whatever room there is for it, goes up to some entry.
LEMMA PageOK ==
  ASSUME NEW c, Listing(c), NEW k \in Nat, NEW room \in 1..Len(Names)
  PROVE  \E last \in 0..Len(c) : PageTo(c, k, Page(c, k, room), last)
<1>1. c \in Seq(Name) /\ Len(c) \in Nat BY SMT DEF Listing
<1>2. PICK next : next = IF k = 0 THEN 1 ELSE IF k \in 2..(Len(c) + 1) THEN k ELSE Len(c) + 1 OBVIOUS
<1>3. PICK fit : fit = HandleLimit \div 2 + 1 - (IF k = 0 THEN 2 ELSE 0) OBVIOUS
<1>4. PICK i : i = next + room - 1 OBVIOUS
<1>5. PICK j : j = next + fit - 1 OBVIOUS
<1>6. PICK last : last = Min({Len(c), i, j}) OBVIOUS
<1>7. PICK pg : pg = Page(c, k, room) OBVIOUS
<1>8. pg = [names |-> SubSeq(c, next, last), cookie |-> last + 1, eof |-> last = Len(c)]
  BY <1>2, <1>3, <1>4, <1>5, <1>6, <1>7 DEF Page
<1>9. pg.cookie = last + 1 /\ pg.eof = (last = Len(c)) /\ pg.names = SubSeq(c, next, last) BY <1>8
<1>10. fit \in Nat /\ fit >= 1
  <2>1. HandleLimit \in Nat /\ HandleLimit >= 4 BY NamespaceAssumption
  <2>2. HandleLimit \div 2 \in Nat /\ HandleLimit \div 2 >= 2 BY SMT, <2>1
  <2> QED BY SMT, <1>3, <2>2
<1>11. next \in Nat /\ next >= 1 /\ next <= Len(c) + 1 BY SMT, <1>1, <1>2
<1>12. room \in Nat /\ room >= 1
  <2>1. Len(Names) \in Nat BY SMT, NamespaceAssumption
  <2> QED BY SMT, <2>1
<1>13. i \in Nat /\ j \in Nat /\ i >= next /\ j >= next BY SMT, <1>4, <1>5, <1>10, <1>11, <1>12
<1>14. last \in {Len(c), i, j} /\ last <= Len(c) BY <1>1, <1>6, <1>13, Least3
<1>15. last \in 0..Len(c) /\ (last # Len(c) => last >= next) BY SMT, <1>1, <1>13, <1>14
<1>16. next <= Len(c) => last >= next BY SMT, <1>1, <1>11, <1>13, <1>14
<1>17. SubSeq(c, next, last) \in Seq(Name)
  <2>1. next \in 1..(Len(c) + 1) /\ next \in Int /\ last \in Int /\ last <= Len(c) BY SMT, <1>1, <1>11, <1>15
  <2>2. \A n \in next..last : c[n] \in Name BY SMT, <1>1, <1>11, <1>15
  <2> QED BY SMT, <1>1, <2>1, <2>2
<1>18. k = 0 => pg.names = SubSeq(c, 1, last) /\ (last # Len(c) => last >= 1) BY SMT, <1>2, <1>9, <1>15
<1>19. k \in 2..Len(c) => next = k /\ next <= Len(c) BY SMT, <1>1, <1>2
<1>20. k \in 2..Len(c) => pg.names = SubSeq(c, k, last) /\ last >= k BY <1>9, <1>16, <1>19
<1>21. PageTo(c, k, pg, last) BY <1>9, <1>17, <1>18, <1>20 DEF PageTo
<1> QED BY <1>7, <1>15, <1>21

\* Two pages that follow each other.
LEMMA PagesJoin ==
  ASSUME NEW c \in Seq(Name), NEW k \in 2..Len(c), NEW last \in 0..Len(c), last >= k
  PROVE  SubSeq(c, 1, k - 1) \o SubSeq(c, k, last) = SubSeq(c, 1, last)
<1>1. Len(c) \in Nat BY SMT
<1>2. PICK a : a = SubSeq(c, 1, k - 1) OBVIOUS
<1>3. PICK b : b = SubSeq(c, k, last) OBVIOUS
<1>4. a \in Seq(Name) /\ Len(a) = k - 1 /\ \A n \in 1..(k - 1) : a[n] = c[n] BY SMT, <1>1, <1>2
<1>5. b \in Seq(Name) /\ Len(b) = last - k + 1 /\ \A n \in 1..(last - k + 1) : b[n] = c[k + n - 1] BY SMT, <1>1, <1>3
<1>6. PICK e : e = SubSeq(c, 1, last) OBVIOUS
<1>7. e \in Seq(Name) /\ Len(e) = last /\ \A n \in 1..last : e[n] = c[n] BY SMT, <1>1, <1>6
<1>8. PICK g : g = a \o b OBVIOUS
<1>9. g \in Seq(Name) /\ Len(g) = last
  <2>1. a \in Path /\ b \in Path /\ Len(a) = k - 1 /\ Len(b) = last - k + 1 BY <1>4, <1>5 DEF Path
  <2>2. g \in Path /\ Len(g) = Len(a) + Len(b) BY <1>8, <2>1, Joined
  <2>3. (k - 1) + (last - k + 1) = last BY SMT, <1>1
  <2> QED BY <2>1, <2>2, <2>3 DEF Path
<1>10. \A n \in 1..last : g[n] = c[n]
  <2> TAKE n \in 1..last
  <2>1. CASE n <= k - 1 BY SMT, <1>1, <1>4, <1>5, <1>8, <2>1
  <2>2. CASE n > k - 1
    <3>1. n - (k - 1) \in 1..(last - k + 1) BY SMT, <1>1, <2>2
    <3>2. g[n] = b[n - (k - 1)] BY SMT, <1>1, <1>4, <1>5, <1>8, <2>2
    <3>3. b[n - (k - 1)] = c[k + (n - (k - 1)) - 1] BY <1>5, <3>1
    <3>4. k + (n - (k - 1)) - 1 = n BY SMT, <1>1
    <3> QED BY <3>2, <3>3, <3>4
  <2> QED BY SMT, <1>1, <2>1, <2>2
<1>11. g = e BY SMT, <1>7, <1>9, <1>10
<1> QED BY <1>2, <1>3, <1>6, <1>8, <1>11

\* Another listing has the verifier of this one.
Clash(snap) == \E S \in SUBSET Name : Sorted(S) # snap /\ Concat(Sorted(S)) = Concat(snap)

\* The pages so far are the listing at the start up to the cookie, and the cache
\* holds that listing or none.
OnTrack(w, l) ==
  /\ l \in {Evicted, w.snap} /\ w.names = SubSeq(w.snap, 1, w.cookie - 1)
  /\ w.end = "more" => w.cookie \in 2..Len(w.snap)
  /\ w.end = "eof" => w.names = w.snap

\* The walk of a client through a directory: what its cookie, verifier and pages say, unless
\* another listing has the same verifier.
WalkOK(w, l) ==
  /\ Listing(l) /\ w.cookie \in 0..(Len(Names) + 1) /\ w.end \in {"none", "more", "eof", "error"}
  /\ w.end \in {"more", "eof"} =>
       /\ w.cookie # 0 /\ w.verf = hashPathAndContents(w.dir, w.snap) /\ Listing(w.snap)
       /\ Clash(w.snap) \/ OnTrack(w, l)

\* The parts of a walk.
IsWalk(w, d, k, v, c, n, e) ==
  w.dir = d /\ w.cookie = k /\ w.verf = v /\ w.snap = c /\ w.names = n /\ w.end = e

\* A walk has the parts it is made of.
LEMMA WalkIs ==
  ASSUME NEW d, NEW k, NEW v, NEW c, NEW n, NEW e
  PROVE  IsWalk(Walk(d, k, v, c, n, e), d, k, v, c, n, e)
BY SMT DEF Walk, IsWalk

\* A page of listing c for walk w.
AfterPage(w, pg, v, c) ==
  Walk(w.dir, pg.cookie, v, IF w.cookie = 0 THEN c ELSE w.snap, w.names \o pg.names,
       IF pg.eof THEN "eof" ELSE "more")

\* The first page of a READDIR starts a walk that is on track.
LEMMA FirstPage ==
  ASSUME NEW d, NEW c, Listing(c), NEW room \in 1..Len(Names)
  PROVE  WalkOK(AfterPage(NewWalk(d), Page(c, 0, room), hashPathAndContents(d, c), c), c)
<1>1. PICK pg : pg = Page(c, 0, room) OBVIOUS
<1>2. 0 \in Nat BY SMT
<1>3. PICK last \in 0..Len(c) : PageTo(c, 0, pg, last) BY <1>1, <1>2, PageOK
<1>4. /\ pg.cookie = last + 1 /\ (pg.eof <=> last = Len(c)) /\ pg.names \in Seq(Name)
      /\ pg.names = SubSeq(c, 1, last) /\ (last # Len(c) => last >= 1)
  BY <1>3 DEF PageTo
<1>5. PICK w : w = AfterPage(NewWalk(d), pg, hashPathAndContents(d, c), c) OBVIOUS
<1>6. NewWalk(d).dir = d /\ NewWalk(d).cookie = 0 /\ NewWalk(d).names = <<>> BY SMT DEF NewWalk, Walk
<1>7. <<>> \o pg.names = pg.names BY SMT, <1>4
<1>8. w = Walk(d, pg.cookie, hashPathAndContents(d, c), c, pg.names, IF pg.eof THEN "eof" ELSE "more")
  BY <1>5, <1>6, <1>7 DEF AfterPage
<1>9. /\ w.dir = d /\ w.cookie = last + 1 /\ w.verf = hashPathAndContents(d, c) /\ w.snap = c
      /\ w.names = SubSeq(c, 1, last) /\ w.end = (IF pg.eof THEN "eof" ELSE "more")
  <2>1. IsWalk(w, d, pg.cookie, hashPathAndContents(d, c), c, pg.names, IF pg.eof THEN "eof" ELSE "more")
    BY <1>8, WalkIs
  <2> QED BY <1>4, <2>1 DEF IsWalk
<1>10. c \in Seq(Name) /\ Len(c) \in Nat /\ Len(c) <= Len(Names) /\ Len(Names) \in Nat
  BY SMT, NamespaceAssumption DEF Listing
<1>11. last + 1 \in 0..(Len(Names) + 1) /\ last + 1 # 0 /\ (last + 1) - 1 = last BY SMT, <1>10
<1>12. w.end \in {"more", "eof"} /\ (w.end = "eof" <=> last = Len(c)) BY SMT, <1>4, <1>9
<1>13. w.end = "more" => last + 1 \in 2..Len(c) BY SMT, <1>4, <1>10, <1>12
<1>14. SubSeq(c, 1, Len(c)) = c BY SMT, <1>10
<1>15. OnTrack(w, c) BY <1>9, <1>11, <1>12, <1>13, <1>14 DEF OnTrack
<1>16. WalkOK(w, c) BY <1>9, <1>11, <1>12, <1>15 DEF WalkOK
<1> QED BY <1>1, <1>5, <1>16

\* A page that goes on with a listing keeps the walk on track.
LEMMA LaterPage ==
  ASSUME NEW w, NEW l, WalkOK(w, l), w.end = "more", NEW c, Listing(c),
         Clash(w.snap) \/ c = w.snap, NEW room \in 1..Len(Names)
  PROVE  WalkOK(AfterPage(w, Page(c, w.cookie, room), w.verf, c), c)
<1>1. PICK k : k = w.cookie OBVIOUS
<1>2. PICK pg : pg = Page(c, k, room) OBVIOUS
<1>3. /\ k \in 0..(Len(Names) + 1) /\ k # 0 /\ w.verf = hashPathAndContents(w.dir, w.snap)
      /\ Listing(w.snap) /\ (Clash(w.snap) \/ OnTrack(w, l))
  BY <1>1 DEF WalkOK
<1>4. k \in Nat BY SMT, <1>3
<1>5. PICK last \in 0..Len(c) : PageTo(c, k, pg, last) BY <1>2, <1>4, PageOK
<1>6. pg.cookie = last + 1 /\ (pg.eof <=> last = Len(c)) /\ pg.names \in Seq(Name)
  BY <1>5 DEF PageTo
<1>7. PICK v : v = AfterPage(w, pg, w.verf, c) OBVIOUS
<1>8. v = Walk(w.dir, pg.cookie, w.verf, w.snap, w.names \o pg.names, IF pg.eof THEN "eof" ELSE "more")
  BY <1>1, <1>3, <1>7 DEF AfterPage
<1>9. /\ v.dir = w.dir /\ v.cookie = last + 1 /\ v.verf = w.verf /\ v.snap = w.snap
      /\ v.names = w.names \o pg.names /\ v.end = (IF pg.eof THEN "eof" ELSE "more")
  <2>1. IsWalk(v, w.dir, pg.cookie, w.verf, w.snap, w.names \o pg.names, IF pg.eof THEN "eof" ELSE "more")
    BY <1>8, WalkIs
  <2> QED BY <1>6, <2>1 DEF IsWalk
<1>10. c \in Seq(Name) /\ Len(c) \in Nat /\ Len(c) <= Len(Names) /\ Len(Names) \in Nat
  BY SMT, NamespaceAssumption DEF Listing
<1>11. last + 1 \in 0..(Len(Names) + 1) /\ last + 1 # 0 /\ (last + 1) - 1 = last BY SMT, <1>10
<1>12. v.end \in {"more", "eof"} /\ (v.end = "eof" <=> last = Len(c)) BY SMT, <1>6, <1>9
<1>13. ASSUME ~ Clash(w.snap) PROVE OnTrack(v, c)
  <2>1. c = w.snap /\ OnTrack(w, l) BY <1>3, <1>13
  <2>2. k \in 2..Len(c) /\ w.names = SubSeq(c, 1, k - 1) BY <1>1, <2>1 DEF OnTrack
  <2>3. pg.names = SubSeq(c, k, last) /\ last >= k BY <1>5, <2>2 DEF PageTo
  <2>4. w.names \o pg.names = SubSeq(c, 1, last) BY <1>10, <2>2, <2>3, PagesJoin
  <2>5. v.end = "more" => last + 1 \in 2..Len(c)
    <3>1. k >= 2 /\ k \in Nat BY SMT, <2>2
    <3> QED BY SMT, <1>10, <1>12, <2>3, <3>1
  <2>6. SubSeq(c, 1, Len(c)) = c BY SMT, <1>10
  <2> QED BY <1>9, <1>11, <1>12, <2>1, <2>4, <2>5, <2>6 DEF OnTrack
<1>14. WalkOK(v, c) BY <1>3, <1>9, <1>11, <1>12, <1>13 DEF WalkOK
<1> QED BY <1>1, <1>2, <1>7, <1>14

\* A listing with the same verifier is the same, unless two listings clash.
LEMMA SameVerifier ==
  ASSUME NEW s, StoreOK(s), NEW d, NEW snap,
         hashPathAndContents(d, Contents(s, d)) = hashPathAndContents(d, snap)
  PROVE  Clash(snap) \/ Contents(s, d) = snap
<1>1. PICK c : c = Contents(s, d) OBVIOUS
<1>2. PICK S \in SUBSET Name : c = Sorted(S) BY <1>1, ContentsOK
<1>3. PICK f : f = Concat(c) OBVIOUS
<1>4. PICK g : g = Concat(snap) OBVIOUS
<1>5. <<d, f>> = <<d, g>> BY <1>1, <1>3, <1>4 DEF hashPathAndContents
<1>6. f = g BY SMT, <1>5
<1> QED BY <1>1, <1>2, <1>3, <1>4, <1>6 DEF Clash

-----------------------------------------------------------------------------
(* The operations of a storage, whatever it holds.                         *)

\* What makes a storage.
Sound(f, c, n, k) ==
  /\ k \in Seq(Kinds) /\ f \in [DOMAIN f -> 1..Len(k)]
  /\ DOMAIN f \subseteq Path /\ IsFiniteSet(DOMAIN f) /\ DOMAIN c \subseteq Path
  /\ \A p \in DOMAIN c : \A x \in DOMAIN c[p] : x \in Name /\ c[p][x] \in 1..Len(k)
  /\ n \cap DOMAIN c = {}

\* A storage and its parts.
Holds(s, f, c, n, k) == StoreOK(s) /\ s.files = f /\ s.children = c /\ s.nilmaps = n /\ s.kind = k

\* A storage has the parts it is made of.
LEMMA StoreIs ==
  ASSUME NEW f, NEW c, NEW n, NEW k, Sound(f, c, n, k)
  PROVE  Holds(Store(f, c, n, k), f, c, n, k)
<1>1. PICK s : s = Store(f, c, n, k) OBVIOUS
<1>2. s.files = f /\ s.children = c /\ s.nilmaps = n /\ s.kind = k BY SMT, <1>1 DEF Store
<1> QED BY <1>1, <1>2 DEF StoreOK, Sound, Holds

\* t has what s has.
Grown(s, t) ==
  /\ DOMAIN s.files \subseteq DOMAIN t.files /\ \A q \in DOMAIN s.files : t.files[q] = s.files[q]
  /\ Len(s.kind) <= Len(t.kind) /\ \A i \in 1..Len(s.kind) : t.kind[i] = s.kind[i]
  /\ DOMAIN s.children \subseteq DOMAIN t.children
  /\ t.nilmaps = s.nilmaps

\* What createParent does in any case.
LEMMA ParentOK ==
  ASSUME NEW s, StoreOK(s), NEW p \in Path, p # <<>>, NEW n \in 1..Len(s.kind),
         NEW r, r = createParent(s, p, n)
  PROVE  /\ StoreOK(r.s) /\ Grown(s, r.s) /\ r.res \in {"ok", "error", "panic"}
         /\ r.res = "panic" => s.nilmaps # {}
<1> DEFINE missing == Missing(s, p)
           at(q) == IF q = p THEN n ELSE Len(s.kind) + Len(p) - Len(q)
           new == (missing \cup {p}) \ {<<>>}
           parents == {Dir(q) : q \in new}
           names(q) == [x \in {Base(t) : t \in {t \in new : Dir(t) = q}} |-> at(Append(q, x))]
           files == PutAll(s.files, [q \in missing |-> at(q)])
           levels == {Len(p) - Len(q) : q \in missing}
           kind == s.kind \o [i \in levels |-> "dir"]
           children == PutAll(s.children, [q \in parents |-> PutAll(Children(s, q), names(q))])
<1>1. r = IF \E q \in parents : Has(s, q) /\ Kind(s, q) # "dir"
          THEN Result("error", Store(files, s.children, s.nilmaps, kind))
          ELSE IF parents \cap s.nilmaps # {}
               THEN Result("panic", Store(files, s.children, s.nilmaps, kind))
               ELSE Result("ok", Store(files, children, s.nilmaps, kind))
  BY DEF createParent
<1>2. /\ Len(p) \in Nat /\ Len(s.kind) \in Nat /\ s.kind \in Seq(Kinds)
      /\ s.files \in [DOMAIN s.files -> 1..Len(s.kind)] /\ DOMAIN s.files \subseteq Path
      /\ IsFiniteSet(DOMAIN s.files) /\ DOMAIN s.children \subseteq Path
      /\ s.nilmaps \cap DOMAIN s.children = {}
  BY SMT DEF Path, StoreOK
<1>3. PICK k \in 0..Len(p) : missing = {SubSeq(p, 1, l) : l \in (Len(p) - k)..(Len(p) - 1)}
  BY MissingIs
<1>4. \A q \in missing : q \in Path /\ Len(p) - Len(q) \in 1..k /\ Len(q) \in Nat /\ q # p
  <2> TAKE q \in missing
  <2>1. PICK l \in (Len(p) - k)..(Len(p) - 1) : q = SubSeq(p, 1, l) BY <1>3
  <2>2. l \in 0..Len(p) /\ Len(p) - l \in 1..k /\ l \in Nat /\ l # Len(p) BY SMT, <1>2, <1>3, <2>1
  <2>3. q \in Path /\ Len(q) = l BY <2>1, <2>2, Initial
  <2> QED BY <2>2, <2>3
<1>5. levels = 1..k
  <2>1. \A i \in 1..k : i \in levels
    <3> TAKE i \in 1..k
    <3>1. Len(p) - i \in (Len(p) - k)..(Len(p) - 1) /\ Len(p) - i \in 0..Len(p) /\ Len(p) - (Len(p) - i) = i
      BY SMT, <1>2, <1>3
    <3>2. SubSeq(p, 1, Len(p) - i) \in missing /\ Len(SubSeq(p, 1, Len(p) - i)) = Len(p) - i
      BY <1>3, <3>1, Initial
    <3> QED BY <3>1, <3>2
  <2>2. \A i \in levels : i \in 1..k BY <1>4
  <2> QED BY <2>1, <2>2
<1>6. PICK K : K = kind OBVIOUS
<1>7. /\ K \in Seq(Kinds) /\ Len(K) = Len(s.kind) + k /\ Len(K) \in Nat /\ Len(s.kind) <= Len(K)
      /\ \A i \in 1..Len(s.kind) : K[i] = s.kind[i]
  <2>1. PICK D : D = [i \in 1..k |-> "dir"] OBVIOUS
  <2>2. k \in Nat BY SMT, <1>2, <1>3
  <2>3. D \in Seq(Kinds) /\ Len(D) = k BY SMT, <2>1, <2>2 DEF Kinds
  <2>4. K = s.kind \o D BY <1>5, <1>6, <2>1
  <2>5. K \in Seq(Kinds) BY SMT, <1>2, <2>3, <2>4
  <2>6. Len(K) = Len(s.kind) + k
    <3>1. PICK J : J = s.kind OBVIOUS
    <3>2. J \in Seq(Kinds) BY <3>1, <1>2
    <3>3. Len(J \o D) = Len(J) + Len(D) BY SMT, <3>2, <2>3
    <3> QED BY <2>3, <2>4, <3>1, <3>3
  <2>7. \A i \in 1..Len(s.kind) : K[i] = s.kind[i] BY SMT, <1>2, <2>2, <2>3, <2>4
  <2>8. Len(K) \in Nat /\ Len(s.kind) <= Len(K) BY SMT, <1>2, <2>2, <2>6
  <2> QED BY <2>5, <2>6, <2>7, <2>8
<1>8. \A q \in missing \cup {p} : at(q) \in 1..Len(K)
  <2>1. \A q \in missing : at(q) = Len(s.kind) + (Len(p) - Len(q)) BY SMT, <1>2, <1>4
  <2>2. \A q \in missing : at(q) \in 1..Len(K) BY SMT, <1>2, <1>3, <1>4, <1>7, <2>1
  <2>3. at(p) \in 1..Len(K) BY SMT, <1>2, <1>7
  <2> QED BY <2>2, <2>3
<1>9. \A q \in missing : q \notin DOMAIN s.files
  <2> TAKE q \in missing
  <2>1. IsPrefix(q, q) BY SMT, <1>4 DEF Path, IsPrefix
  <2> QED BY <2>1 DEF Missing, Has
<1>10. PICK F : F = files OBVIOUS
<1>11. /\ DOMAIN F = DOMAIN s.files \cup missing /\ F \in [DOMAIN F -> 1..Len(K)]
       /\ \A q \in DOMAIN s.files : F[q] = s.files[q]
  <2>1. PICK G : G = [q \in missing |-> at(q)] OBVIOUS
  <2>2. DOMAIN G = missing /\ \A q \in missing : G[q] \in 1..Len(K) BY <1>8, <2>1
  <2>3. F = [y \in DOMAIN s.files \cup DOMAIN G |-> IF y \in DOMAIN G THEN G[y] ELSE s.files[y]]
    BY <1>10, <2>1 DEF PutAll
  <2>4. \A q \in DOMAIN s.files : s.files[q] \in 1..Len(K) BY SMT, <1>2, <1>7
  <2> QED BY <1>9, <2>2, <2>3, <2>4
<1>12. IsFiniteSet(DOMAIN F) /\ DOMAIN F \subseteq Path
  <2>1. (Len(p) - k) \in Int /\ (Len(p) - 1) \in Int BY SMT, <1>2, <1>3
  <2>2. IsFiniteSet((Len(p) - k)..(Len(p) - 1)) BY <2>1, FS_Interval
  <2>3. IsFiniteSet(missing)
    <3>1. PICK I : I = (Len(p) - k)..(Len(p) - 1) OBVIOUS
    <3>2. PICK h : h = [l \in I |-> SubSeq(p, 1, l)] OBVIOUS
    <3>3. missing = {h[l] : l \in I} BY <1>3, <3>1, <3>2
    <3>4. h \in Surjection(I, missing) BY <3>2, <3>3 DEF Surjection
    <3> QED BY <2>2, <3>1, <3>4, FS_Surjection DEF ExistsSurjection
  <2>4. IsFiniteSet(DOMAIN s.files \cup missing) BY <1>2, <2>3, FS_Union
  <2> QED BY <1>2, <1>4, <1>11, <2>4
<1>13. new \subseteq Path /\ (\A q \in new : q # <<>>) /\ new \subseteq missing \cup {p} BY <1>4
<1>14. parents \subseteq Path BY <1>13, PathSplit
<1>15. \A q \in parents : \A x \in DOMAIN names(q) : x \in Name /\ names(q)[x] \in 1..Len(K)
  <2> TAKE q \in parents
  <2> TAKE x \in DOMAIN names(q)
  <2>1. PICK t \in new : Dir(t) = q /\ Base(t) = x OBVIOUS
  <2>2. t = Append(q, x) /\ x \in Name BY <1>13, <2>1, PathSplit
  <2>3. names(q)[x] = at(Append(q, x)) OBVIOUS
  <2> QED BY <1>8, <1>13, <2>1, <2>2, <2>3
<1>16. \A q \in DOMAIN s.children : \A x \in DOMAIN s.children[q] : x \in Name /\ s.children[q][x] \in 1..Len(K)
  <2>1. \A i \in 1..Len(s.kind) : i \in 1..Len(K) BY SMT, <1>2, <1>7
  <2> QED BY <2>1 DEF StoreOK
<1>17. PICK C : C = children OBVIOUS
<1>18. /\ DOMAIN C = DOMAIN s.children \cup parents
       /\ \A q \in DOMAIN C : \A x \in DOMAIN C[q] : x \in Name /\ C[q][x] \in 1..Len(K)
  <2>1. PICK G : G = [q \in parents |-> PutAll(Children(s, q), names(q))] OBVIOUS
  <2>2. C = [y \in DOMAIN s.children \cup DOMAIN G |-> IF y \in DOMAIN G THEN G[y] ELSE s.children[y]]
    BY <1>17, <2>1 DEF PutAll
  <2>3. DOMAIN G = parents BY <2>1
  <2>4. \A q \in parents : \A x \in DOMAIN G[q] : x \in Name /\ G[q][x] \in 1..Len(K)
    <3> TAKE q \in parents
    <3>1. PICK m : m = names(q) OBVIOUS
    <3>2. PICK g : g = Children(s, q) OBVIOUS
    <3>3. G[q] = [y \in DOMAIN g \cup DOMAIN m |-> IF y \in DOMAIN m THEN m[y] ELSE g[y]]
      BY <2>1, <3>1, <3>2 DEF PutAll
    <3>4. \A x \in DOMAIN m : x \in Name /\ m[x] \in 1..Len(K) BY <1>15, <3>1
    <3>5. DOMAIN <<>> = {} BY SMT
    <3>6. \A x \in DOMAIN g : x \in Name /\ g[x] \in 1..Len(K) BY <1>16, <3>2, <3>5 DEF Children
    <3> QED BY <3>3, <3>4, <3>6
  <2> QED BY <1>16, <2>2, <2>3, <2>4
<1> HIDE DEF missing, at, new, parents, names, files, kind, children, levels
<1>19. CASE r = Result("ok", Store(files, children, s.nilmaps, kind)) /\ parents \cap s.nilmaps = {}
  <2>1. PICK t : t = Store(F, C, s.nilmaps, K) OBVIOUS
  <2>2. r = [res |-> "ok", s |-> t] BY <1>19, <2>1, <1>6, <1>10, <1>17 DEF Result
  <2>3. r.res = "ok" /\ r.s = t BY SMT, <2>2
  <2>4. DOMAIN C \subseteq Path /\ s.nilmaps \cap DOMAIN C = {} BY <1>2, <1>14, <1>18, <1>19
  <2>7. Sound(F, C, s.nilmaps, K) BY <2>4, <1>7, <1>11, <1>12, <1>18 DEF Sound
  <2>5. StoreOK(t) /\ t.files = F /\ t.children = C /\ t.nilmaps = s.nilmaps /\ t.kind = K
    <3>1. Holds(t, F, C, s.nilmaps, K) BY StoreIs, <2>1, <2>7
    <3> QED BY <3>1 DEF Holds
  <2>6. Grown(s, t) BY <2>5, <1>7, <1>11, <1>18 DEF Grown
  <2> QED BY <2>3, <2>5, <2>6
<1>20. CASE \/ r = Result("error", Store(files, s.children, s.nilmaps, kind))
            \/ r = Result("panic", Store(files, s.children, s.nilmaps, kind)) /\ parents \cap s.nilmaps # {}
  <2>1. PICK t : t = Store(F, s.children, s.nilmaps, K) OBVIOUS
  <2>2. \/ r = [res |-> "error", s |-> t]
        \/ r = [res |-> "panic", s |-> t] /\ s.nilmaps # {}
    BY <1>20, <2>1, <1>6, <1>10 DEF Result
  <2>3. (r.res = "error" \/ (r.res = "panic" /\ s.nilmaps # {})) /\ r.s = t BY SMT, <2>2
  <2>5. StoreOK(t) /\ t.files = F /\ t.children = s.children /\ t.nilmaps = s.nilmaps /\ t.kind = K
    <3>1. Sound(F, s.children, s.nilmaps, K) BY <1>2, <1>7, <1>11, <1>12, <1>16 DEF Sound
    <3>2. Holds(t, F, s.children, s.nilmaps, K) BY StoreIs, <2>1, <3>1
    <3> QED BY <3>2 DEF Holds
  <2>6. Grown(s, t) BY <2>5, <1>7, <1>11 DEF Grown
  <2> QED BY <2>3, <2>5, <2>6
<1> QED BY <1>1, <1>19, <1>20

-----------------------------------------------------------------------------
(* move.                                                                   *)

\* The parts of a storage.
LEMMA StoreHas ==
  ASSUME NEW s, StoreOK(s)
  PROVE  /\ Sound(s.files, s.children, s.nilmaps, s.kind) /\ Len(s.kind) \in Nat
         /\ \A p \in DOMAIN s.files : p \in Path /\ s.files[p] \in 1..Len(s.kind)
         /\ \A p \in DOMAIN s.children : p \in Path /\ p \notin s.nilmaps
<1>1. Sound(s.files, s.children, s.nilmaps, s.kind) BY DEF StoreOK, Sound
<1>2. Len(s.kind) \in Nat BY SMT, <1>1 DEF Sound
<1> QED BY <1>1, <1>2 DEF Sound

\* The deletion of a file and of its entry.
Unlinked(s, p, u) ==
  /\ StoreOK(u) /\ u.kind = s.kind /\ u.nilmaps = s.nilmaps
  /\ DOMAIN u.files = DOMAIN s.files \ {p} /\ \A q \in DOMAIN u.files : u.files[q] = s.files[q]
  /\ DOMAIN u.children = DOMAIN s.children
  /\ \A q \in DOMAIN s.children : /\ q # Dir(p) => u.children[q] = s.children[q]
                                  /\ q = Dir(p) => u.children[q] = Without(s.children[q], Base(p))

\* Unlink deletes the file and its entry and nothing else.
LEMMA UnlinkOK ==
  ASSUME NEW s, StoreOK(s), NEW p
  PROVE  Unlinked(s, p, Unlink(s, p))
<1> PICK u : u = Unlink(s, p) OBVIOUS
<1> DEFINE entries(q) == IF q = Dir(p) THEN Without(s.children[q], Base(p)) ELSE s.children[q]
<1>1. PICK f : f = Without(s.files, p) OBVIOUS
<1>2. PICK c : c = [q \in DOMAIN s.children |-> entries(q)] OBVIOUS
<1>3. u = Store(f, c, s.nilmaps, s.kind) BY <1>1, <1>2 DEF Unlink
<1>4. DOMAIN f = DOMAIN s.files \ {p} /\ \A q \in DOMAIN f : f[q] = s.files[q] BY <1>1 DEF Without, Restrict
<1>5. /\ DOMAIN c = DOMAIN s.children
      /\ \A q \in DOMAIN s.children : /\ q # Dir(p) => c[q] = s.children[q]
                                      /\ q = Dir(p) => c[q] = Without(s.children[q], Base(p))
  BY <1>2
<1>6. \A q \in DOMAIN s.children :
        DOMAIN c[q] \subseteq DOMAIN s.children[q] /\ \A x \in DOMAIN c[q] : c[q][x] = s.children[q][x]
  BY <1>5 DEF Without, Restrict
<1>7. IsFiniteSet(DOMAIN f)
  <2>1. DOMAIN f \subseteq DOMAIN s.files BY <1>4
  <2> QED BY <2>1, FS_Subset DEF StoreOK
<1>8. f \in [DOMAIN f -> 1..Len(s.kind)]
  <2>1. \A q \in DOMAIN f : f[q] \in 1..Len(s.kind) BY <1>4, StoreHas
  <2>2. f = [q \in DOMAIN f |-> f[q]] BY <1>1, <1>4 DEF Without, Restrict
  <2> QED BY <2>1, <2>2
<1>9. Sound(f, c, s.nilmaps, s.kind)
  <2>1. Sound(s.files, s.children, s.nilmaps, s.kind) BY StoreHas
  <2> QED BY <1>4, <1>5, <1>6, <1>7, <1>8, <2>1 DEF Sound
<1>10. StoreOK(u) /\ u.files = f /\ u.children = c /\ u.nilmaps = s.nilmaps /\ u.kind = s.kind
  <2>1. Holds(u, f, c, s.nilmaps, s.kind) BY StoreIs, <1>3, <1>9
  <2> QED BY <2>1 DEF Holds
<1> QED BY <1>4, <1>5, <1>10 DEF Unlinked

\* The storage of a move before createParent, and the one before its last two deletes.
MovePut(s, from, to) ==
  LET shared == from \in DOMAIN s.children IN
  Store(Put(s.files, to, s.files[from]),
        IF shared THEN Put(s.children, to, s.children[from]) ELSE Without(s.children, to),
        IF shared THEN s.nilmaps \ {to} ELSE s.nilmaps \cup {to},
        s.kind)

\* That storage without the maps of the old path.
MoveCut(s, t, from, to) ==
  LET shared == from \in DOMAIN s.children
      all == IF shared THEN Put(t.children, to, t.children[from]) ELSE t.children
  IN Store(t.files, Without(all, from), t.nilmaps \ {from}, t.kind)

\* The storage in which the parents are made.
Placed(s, from, to, t) ==
  /\ StoreOK(t) /\ t.kind = s.kind /\ s.files[from] \in 1..Len(t.kind)
  /\ DOMAIN t.files = DOMAIN s.files \cup {to} /\ t.files[to] = s.files[from]
  /\ \A q \in DOMAIN s.files : q # to => t.files[q] = s.files[q]
  /\ \A q \in DOMAIN s.children : q # to => q \in DOMAIN t.children /\ t.children[q] = s.children[q]
  /\ \A q \in DOMAIN t.children : q # to => q \in DOMAIN s.children
  /\ from \in DOMAIN s.children =>
       to \in DOMAIN t.children /\ t.children[to] = s.children[from] /\ t.nilmaps = s.nilmaps \ {to}
  /\ from \notin DOMAIN s.children => to \notin DOMAIN t.children /\ t.nilmaps = s.nilmaps \cup {to}

\* The first half of move: the node is under the new path, with the children of the old one.
LEMMA MovePutOK ==
  ASSUME NEW s, StoreOK(s), NEW from \in DOMAIN s.files, NEW to \in Path
  PROVE  Placed(s, from, to, MovePut(s, from, to))
<1> PICK t : t = MovePut(s, from, to) OBVIOUS
<1> DEFINE shared == from \in DOMAIN s.children
<1>1. PICK f : f = Put(s.files, to, s.files[from]) OBVIOUS
<1>2. PICK c : c = IF shared THEN Put(s.children, to, s.children[from]) ELSE Without(s.children, to)
  OBVIOUS
<1>3. PICK n : n = IF shared THEN s.nilmaps \ {to} ELSE s.nilmaps \cup {to} OBVIOUS
<1>4. t = Store(f, c, n, s.kind) BY <1>1, <1>2, <1>3 DEF MovePut
<1>5. Sound(s.files, s.children, s.nilmaps, s.kind) BY StoreHas
<1>6. /\ DOMAIN f = DOMAIN s.files \cup {to} /\ f[to] = s.files[from]
      /\ \A q \in DOMAIN s.files : q # to => f[q] = s.files[q]
  BY <1>1 DEF Put
<1>7. /\ shared => DOMAIN c = DOMAIN s.children \cup {to} /\ c[to] = s.children[from]
      /\ ~shared => DOMAIN c = DOMAIN s.children \ {to}
      /\ \A q \in DOMAIN c : q # to => q \in DOMAIN s.children /\ c[q] = s.children[q]
  <2>1. CASE shared
    <3>1. c = Put(s.children, to, s.children[from]) BY <1>2, <2>1
    <3> QED BY <2>1, <3>1 DEF Put
  <2>2. CASE ~shared
    <3>1. c = Without(s.children, to) BY <1>2, <2>2
    <3> QED BY <2>2, <3>1 DEF Without, Restrict
  <2> QED BY <2>1, <2>2
<1>8. f \in [DOMAIN f -> 1..Len(s.kind)]
  <2>1. \A q \in DOMAIN f : f[q] \in 1..Len(s.kind) BY <1>6, StoreHas
  <2>2. f = [q \in DOMAIN f |-> f[q]] BY <1>1 DEF Put
  <2> QED BY <2>1, <2>2
<1>9. IsFiniteSet(DOMAIN f)
  <2>1. IsFiniteSet(DOMAIN s.files) BY DEF StoreOK
  <2> QED BY <1>6, <2>1, FS_AddElement
<1>10. DOMAIN f \subseteq Path /\ DOMAIN c \subseteq Path BY <1>5, <1>6, <1>7 DEF Sound
<1>11. \A q \in DOMAIN c : \A x \in DOMAIN c[q] : x \in Name /\ c[q][x] \in 1..Len(s.kind)
  BY <1>5, <1>7 DEF Sound
<1>12. n \cap DOMAIN c = {} BY <1>3, <1>5, <1>7 DEF Sound
<1>13. Sound(f, c, n, s.kind) BY <1>5, <1>8, <1>9, <1>10, <1>11, <1>12 DEF Sound
<1>14. StoreOK(t) /\ t.files = f /\ t.children = c /\ t.nilmaps = n /\ t.kind = s.kind
  <2>1. Holds(t, f, c, n, s.kind) BY StoreIs, <1>4, <1>13
  <2> QED BY <2>1 DEF Holds
<1>15. s.files[from] \in 1..Len(s.kind) BY StoreHas
<1> QED BY <1>3, <1>6, <1>7, <1>14, <1>15 DEF Placed

\* What move does in any case.
Moved(s, from, r) ==
  /\ StoreOK(r.s) /\ r.res \in {"ok", "error", "panic"}
  /\ DOMAIN s.files \ {from} \subseteq DOMAIN r.s.files
  /\ from \in DOMAIN s.children /\ s.nilmaps = {} =>
       /\ r.res # "panic" /\ r.s.nilmaps = {}
       /\ DOMAIN s.children \ {from} \subseteq DOMAIN r.s.children

\* move leaves a storage and loses no path but the one it moves; it does not panic if that path
\* has a map of children and no map is nil.
LEMMA MoveOK ==
  ASSUME NEW s, StoreOK(s), NEW from \in DOMAIN s.files, NEW to \in Path, to # <<>>,
         NEW m, m = move(s, from, to)
  PROVE  Moved(s, from, m)
<1> DEFINE shared == from \in DOMAIN s.children
<1>1. PICK t : t = MovePut(s, from, to) OBVIOUS
<1>2. /\ StoreOK(t) /\ t.kind = s.kind /\ s.files[from] \in 1..Len(t.kind)
      /\ DOMAIN t.files = DOMAIN s.files \cup {to}
      /\ \A q \in DOMAIN s.children : q # to => q \in DOMAIN t.children
      /\ shared => to \in DOMAIN t.children /\ t.nilmaps = s.nilmaps \ {to}
      /\ ~shared => to \notin DOMAIN t.children /\ t.nilmaps = s.nilmaps \cup {to}
  <2>1. Placed(s, from, to, t) BY <1>1, MovePutOK
  <2> QED BY <2>1 DEF Placed
<1>3. PICK r : r = createParent(t, to, s.files[from]) OBVIOUS
<1>4. /\ StoreOK(r.s) /\ Grown(t, r.s) /\ r.res \in {"ok", "error", "panic"}
      /\ r.res = "panic" => t.nilmaps # {}
  BY <1>2, <1>3, ParentOK
<1>5. PICK c : c = MoveCut(s, r.s, from, to) OBVIOUS
<1>6. m.res = r.res /\ m.s = Unlink(c, from)
  <2>1. PICK u : u = Unlink(c, from) OBVIOUS
  <2>2. PICK e : e = r.res OBVIOUS
  <2>3. m = [res |-> e, s |-> u]
    BY <1>1, <1>3, <1>5, <2>1, <2>2 DEF move, MovePut, MoveCut, Result
  <2> QED BY SMT, <2>1, <2>2, <2>3
<1>7. PICK v : v = r.s OBVIOUS
<1>8. PICK all : all = IF shared THEN Put(v.children, to, v.children[from]) ELSE v.children OBVIOUS
<1>9. PICK w : w = Without(all, from) OBVIOUS
<1>10. c = Store(v.files, w, v.nilmaps \ {from}, v.kind) BY <1>5, <1>7, <1>8, <1>9 DEF MoveCut
<1>11. Sound(v.files, v.children, v.nilmaps, v.kind) /\ Grown(t, v) BY <1>4, <1>7, StoreHas
<1>12. shared => from \in DOMAIN v.children /\ to \in DOMAIN v.children
  BY <1>2, <1>11 DEF Grown
<1>13. /\ DOMAIN all = DOMAIN v.children
       /\ \A q \in DOMAIN all : \E k \in DOMAIN v.children : all[q] = v.children[k]
  <2>1. CASE shared
    <3>1. all = Put(v.children, to, v.children[from]) BY <1>8, <2>1
    <3> QED BY <1>12, <2>1, <3>1 DEF Put
  <2>2. CASE ~shared BY <1>8, <2>2
  <2> QED BY <2>1, <2>2
<1>14. /\ DOMAIN w = DOMAIN v.children \ {from}
       /\ \A q \in DOMAIN w : \E k \in DOMAIN v.children : w[q] = v.children[k]
  BY <1>9, <1>13 DEF Without, Restrict
<1>15. \A q \in DOMAIN w : \A x \in DOMAIN w[q] : x \in Name /\ w[q][x] \in 1..Len(v.kind)
  BY <1>11, <1>14 DEF Sound
<1>16. Sound(v.files, w, v.nilmaps \ {from}, v.kind)
  BY <1>11, <1>14, <1>15 DEF Sound
<1>17. /\ StoreOK(c) /\ c.files = v.files /\ c.children = w /\ c.nilmaps = v.nilmaps \ {from}
       /\ c.kind = v.kind
  <2>1. Holds(c, v.files, w, v.nilmaps \ {from}, v.kind) BY StoreIs, <1>10, <1>16
  <2> QED BY <2>1 DEF Holds
<1>18. /\ StoreOK(m.s) /\ m.s.nilmaps = c.nilmaps /\ DOMAIN m.s.files = DOMAIN c.files \ {from}
       /\ DOMAIN m.s.children = DOMAIN c.children
  <2>1. Unlinked(c, from, m.s) BY <1>6, <1>17, UnlinkOK
  <2> QED BY <2>1 DEF Unlinked
<1>19. DOMAIN s.files \ {from} \subseteq DOMAIN m.s.files
  BY <1>2, <1>11, <1>17, <1>18 DEF Grown
<1>20. ASSUME shared, s.nilmaps = {}
       PROVE  /\ m.res # "panic" /\ m.s.nilmaps = {}
              /\ DOMAIN s.children \ {from} \subseteq DOMAIN m.s.children
  <2>1. t.nilmaps = {} BY <1>2, <1>20
  <2>2. DOMAIN s.children \subseteq DOMAIN t.children BY <1>2, <1>20
  <2> QED BY <1>4, <1>6, <1>11, <1>14, <1>17, <1>18, <2>1, <2>2 DEF Grown
<1> QED BY <1>4, <1>6, <1>18, <1>19, <1>20 DEF Moved

-----------------------------------------------------------------------------
(* Rename.                                                                 *)

\* The states of a Rename, one for each move done.
IsRun(run, N, s, from, to, order) ==
  run = [n \in 0..N |-> IF n = 0 THEN move(s, from, to) ELSE moveNext(run[n - 1], order[n], from, to)]

\* The function that moveAll is defined by exists.
LEMMA RunExists ==
  ASSUME NEW s, NEW from, NEW to, NEW order, NEW N \in Nat
  PROVE  \E run : IsRun(run, N, s, from, to, order)
<1> DEFINE T == {k \in Nat : ~ \E run : IsRun(run, k, s, from, to, order)}
<1> SUFFICES ASSUME N \in T PROVE FALSE OBVIOUS
<1>1. T \subseteq Nat OBVIOUS
<1>2. PICK k \in T : \A j \in T : k <= j
  <2> HIDE DEF T
  <2> QED BY <1>1, LeastNat
<1>3. k \in Nat /\ ~ \E run : IsRun(run, k, s, from, to, order) BY <1>2
<1>4. CASE k = 0
  <2>1. PICK run : run = [n \in 0..0 |-> move(s, from, to)] OBVIOUS
  <2>2. \A n \in 0..0 : n = 0 BY SMT
  <2>3. run = [n \in 0..0 |-> IF n = 0 THEN move(s, from, to) ELSE moveNext(run[n - 1], order[n], from, to)]
    BY <2>1, <2>2
  <2> QED BY <1>3, <1>4, <2>3 DEF IsRun
<1>5. CASE k # 0
  <2>1. k - 1 \in Nat /\ ~(k <= k - 1) /\ k - 1 \in 0..(k - 1) BY SMT, <1>3, <1>5
  <2>2. PICK f : IsRun(f, k - 1, s, from, to, order) BY <1>2, <2>1
  <2>3. PICK x : x = moveNext(f[k - 1], order[k], from, to) OBVIOUS
  <2>4. PICK g : g = [n \in 0..k |-> IF n = k THEN x ELSE f[n]] OBVIOUS
  <2>5. \A n \in 0..k : n # k => n \in 0..(k - 1) BY SMT, <1>3
  <2>6. \A n \in 0..k : n # 0 => n - 1 \in 0..k /\ n - 1 # k BY SMT, <1>3
  <2>7. \A n \in 0..(k - 1) : f[n] = IF n = 0 THEN move(s, from, to) ELSE moveNext(f[n - 1], order[n], from, to)
    BY <2>2 DEF IsRun
  <2>8. \A n \in 0..k : n # 0 => g[n - 1] = f[n - 1] BY <2>4, <2>6
  <2>9. \A n \in 0..k : g[n] = IF n = 0 THEN move(s, from, to) ELSE moveNext(g[n - 1], order[n], from, to)
    <3> TAKE n \in 0..k
    <3>1. CASE n = k
      <4>1. g[n] = moveNext(f[n - 1], order[n], from, to) BY <2>3, <2>4, <3>1
      <4> QED BY <1>5, <2>8, <3>1, <4>1
    <3>2. CASE n # k
      <4>1. g[n] = f[n] /\ n \in 0..(k - 1) BY <2>4, <2>5, <3>2
      <4> QED BY <2>7, <2>8, <4>1
    <3> QED BY <3>1, <3>2
  <2>10. IsRun(g, k, s, from, to, order) BY <2>4, <2>9 DEF IsRun
  <2> QED BY <1>3, <2>10
<1> QED BY <1>4, <1>5

\* Rename is such a run.
RunsTo(run, s, from, to, order, N) ==
  /\ moveAll(s, from, to, order) = run[N] /\ run[0] = move(s, from, to)
  /\ \A n \in 1..N : run[n] = moveNext(run[n - 1], order[n], from, to)

\* moveAll is a run of moves, one after another.
LEMMA RunIs ==
  ASSUME NEW s, NEW from, NEW to, NEW order, Len(order) \in Nat
  PROVE  \E run : RunsTo(run, s, from, to, order, Len(order))
<1>1. PICK N : N = Len(order) OBVIOUS
<1>2. PICK run : run = CHOOSE f : IsRun(f, N, s, from, to, order) OBVIOUS
<1>3. IsRun(run, N, s, from, to, order) BY <1>1, <1>2, RunExists
<1>4. moveAll(s, from, to, order) = run[N] BY <1>1, <1>2 DEF moveAll, IsRun
<1>5. 0 \in 0..N /\ \A n \in 1..N : n \in 0..N /\ n # 0 BY SMT, <1>1
<1>6. \A n \in 0..N : run[n] = IF n = 0 THEN move(s, from, to) ELSE moveNext(run[n - 1], order[n], from, to)
  BY <1>3 DEF IsRun
<1> QED BY <1>1, <1>4, <1>5, <1>6 DEF RunsTo

\* The part of a path from a position on.
LEMMA Rest ==
  ASSUME NEW q \in Path, NEW i \in 1..(Len(q) + 1)
  PROVE  SubSeq(q, i, Len(q)) \in Path /\ Len(SubSeq(q, i, Len(q))) = Len(q) + 1 - i
BY SMT DEF Path

\* What a path that is moved along becomes is a path, and not the root.
LEMMA PathToOK ==
  ASSUME NEW q \in Path, NEW from \in Path, from # <<>>, NEW to \in Path, to # <<>>, HasPrefix(q, from)
  PROVE  pathTo(q, from, to) \in Path /\ pathTo(q, from, to) # <<>>
<1>1. Len(q) \in Nat /\ Len(from) \in Nat /\ Len(from) # 0 /\ Len(q) >= Len(from) BY SMT DEF Path, HasPrefix
<1>2. Dir(to) \in Path /\ Len(to) \in Nat /\ Len(to) # 0 BY PathSplit
<1>3. Len(from) \in 1..(Len(q) + 1) /\ Len(from) + 1 \in 1..(Len(q) + 1) BY SMT, <1>1
<1>4. PICK u : u = SubSeq(q, Len(from) + 1, Len(q)) OBVIOUS
<1>5. PICK v : v = SubSeq(q, Len(from), Len(q)) OBVIOUS
<1>6. u \in Path /\ v \in Path /\ Len(v) = Len(q) + 1 - Len(from) BY <1>3, <1>4, <1>5, Rest
<1>7. Len(u) \in Nat /\ Len(v) # 0 /\ Len(v) \in Nat /\ Len(Dir(to)) \in Nat
  BY SMT, <1>1, <1>2, <1>6 DEF Path
<1>8. to \o u \in Path /\ Len(to \o u) = Len(to) + Len(u) BY <1>6, Joined
<1>9. Dir(to) \o v \in Path /\ Len(Dir(to) \o v) = Len(Dir(to)) + Len(v)
  BY <1>2, <1>6, Joined
<1>10. Len(to \o u) # 0 /\ Len(Dir(to) \o v) # 0 BY SMT, <1>2, <1>7, <1>8, <1>9
<1>11. Len(<<>>) = 0 BY SMT
<1> QED BY <1>4, <1>5, <1>8, <1>9, <1>10, <1>11 DEF pathTo

\* An order has each member of the set once.
LEMMA OrderIs ==
  ASSUME NEW S, IsFiniteSet(S), NEW order \in Orders(S)
  PROVE  /\ Len(order) \in Nat /\ \A m \in 1..Len(order) : order[m] \in S
         /\ \A m, n \in 1..Len(order) : order[m] = order[n] => m = n
         /\ \A q \in S : \E m \in 1..Len(order) : order[m] = q
<1>1. PICK N : N = Cardinality(S) OBVIOUS
<1>2. N \in Nat BY <1>1, FS_CardinalityType
<1>3. /\ order \in [1..N -> S] /\ \A m, n \in 1..N : order[m] = order[n] => m = n
      /\ \A q \in S : \E m \in 1..N : order[m] = q
  BY <1>1 DEF Orders, Bijection, Injection, Surjection, IsInjective
<1>4. Len(order) = N BY SMT, <1>2, <1>3
<1> QED BY <1>2, <1>3, <1>4

\* The paths that Rename moves along.
LEMMA OthersAre ==
  ASSUME NEW s, StoreOK(s), NEW from
  PROVE  /\ IsFiniteSet(Others(s, from))
         /\ \A q \in Others(s, from) : q \in DOMAIN s.files /\ q \in Path /\ q # from /\ HasPrefix(q, from)
<1>1. Others(s, from) \subseteq DOMAIN s.files BY DEF Others
<1>2. IsFiniteSet(DOMAIN s.files) BY DEF StoreOK
<1>3. IsFiniteSet(Others(s, from)) BY <1>1, <1>2, FS_Subset
<1> QED BY <1>3, StoreHas DEF Others

\* Every path that Rename moves has a map of children.
Clean(s, from) ==
  s.nilmaps = {} /\ from \in DOMAIN s.children /\ Others(s, from) \subseteq DOMAIN s.children

\* After n moves: a storage, in which the paths still to be moved are found; if all had
\* a map of children, none is nil.
RunOK(r, n, order, clean) ==
  /\ StoreOK(r.s) /\ r.res \in {"ok", "error", "panic"}
  /\ r.res = "ok" => \A m \in (n + 1)..Len(order) : order[m] \in DOMAIN r.s.files
  /\ clean => /\ r.res # "panic" /\ r.s.nilmaps = {}
              /\ r.res = "ok" => \A m \in (n + 1)..Len(order) : order[m] \in DOMAIN r.s.children

\* What Rename does in any case.
LEMMA MoveAllOK ==
  ASSUME NEW s, StoreOK(s), NEW from \in DOMAIN s.files, from # <<>>, NEW to \in Path, to # <<>>,
         NEW order \in Orders(Others(s, from))
  PROVE  RunOK(moveAll(s, from, to, order), Len(order), order, Clean(s, from))
<1>1. PICK others : others = Others(s, from) OBVIOUS
<1>2. /\ IsFiniteSet(others)
      /\ \A q \in others : q \in DOMAIN s.files /\ q \in Path /\ q # from /\ HasPrefix(q, from)
  BY <1>1, OthersAre
<1>3. PICK N : N = Len(order) OBVIOUS
<1>4. N \in Nat /\ (\A m \in 1..N : order[m] \in others) /\ \A m, n \in 1..N : order[m] = order[n] => m = n
  BY <1>1, <1>2, <1>3, OrderIs
<1>5. PICK run : /\ moveAll(s, from, to, order) = run[N] /\ run[0] = move(s, from, to)
                 /\ \A n \in 1..N : run[n] = moveNext(run[n - 1], order[n], from, to)
  <2>1. PICK run : RunsTo(run, s, from, to, order, N) BY <1>3, <1>4, RunIs
  <2> QED BY <2>1 DEF RunsTo
<1>6. PICK clean : clean = Clean(s, from) OBVIOUS
<1>7. from \in Path BY StoreHas
<1>8. RunOK(run[0], 0, order, clean)
  <2>1. Moved(s, from, run[0]) BY <1>5, MoveOK
  <2>2. \A m \in (0 + 1)..N : m \in 1..N BY SMT
  <2>3. clean => from \in DOMAIN s.children /\ s.nilmaps = {} /\ others \subseteq DOMAIN s.children
    BY <1>1, <1>6 DEF Clean
  <2>4. \A m \in (0 + 1)..N : order[m] \in DOMAIN s.files \ {from} /\ order[m] \in others
    BY <1>2, <1>4, <2>2
  <2> QED BY <1>2, <1>3, <2>1, <2>3, <2>4 DEF Moved, RunOK
<1>9. ASSUME NEW n \in 1..N, RunOK(run[n - 1], n - 1, order, clean)
      PROVE  RunOK(run[n], n, order, clean)
  <2>1. PICK r : r = run[n - 1] OBVIOUS
  <2>2. PICK q : q = order[n] OBVIOUS
  <2>3. /\ n \in ((n - 1) + 1)..N
        /\ \A m \in (n + 1)..N : m \in ((n - 1) + 1)..N /\ m \in 1..N /\ m # n
    BY SMT, <1>4
  <2>4. q \in others /\ \A m \in (n + 1)..N : order[m] # q BY <1>4, <2>2, <2>3
  <2>5. run[n] = moveNext(r, q, from, to) BY <1>5, <2>1, <2>2
  <2>6. RunOK(r, n - 1, order, clean) BY <1>9, <2>1
  <2>7. CASE r.res # "ok"
    <3>1. run[n] = r BY <2>5, <2>7 DEF moveNext
    <3> QED BY <2>6, <2>7, <3>1 DEF RunOK
  <2>8. CASE r.res = "ok"
    <3>1. PICK t : t = pathTo(q, from, to) OBVIOUS
    <3>2. t \in Path /\ t # <<>> BY <1>2, <1>7, <2>4, <3>1, PathToOK
    <3>3. run[n] = move(r.s, q, t) BY <2>5, <2>8, <3>1 DEF moveNext
    <3>4. StoreOK(r.s) /\ q \in DOMAIN r.s.files BY <1>3, <2>2, <2>3, <2>6, <2>8 DEF RunOK
    <3>5. Moved(r.s, q, run[n]) BY <3>2, <3>3, <3>4, MoveOK
    <3>6. clean => /\ r.s.nilmaps = {} /\ q \in DOMAIN r.s.children
                   /\ \A m \in (n + 1)..N : order[m] \in DOMAIN r.s.children \ {q}
      BY <1>3, <2>2, <2>3, <2>4, <2>6, <2>8 DEF RunOK
    <3>7. \A m \in (n + 1)..N : order[m] \in DOMAIN r.s.files \ {q}
      BY <1>3, <2>3, <2>4, <2>6, <2>8 DEF RunOK
    <3> QED BY <1>3, <3>5, <3>6, <3>7 DEF Moved, RunOK
  <2> QED BY <2>7, <2>8
<1> DEFINE T == {n \in 0..N : ~ RunOK(run[n], n, order, clean)}
<1>10. SUFFICES ASSUME N \in T PROVE FALSE
  <2>1. N \in 0..N BY SMT, <1>4
  <2> QED BY <1>3, <1>5, <1>6, <2>1
<1>11. T \subseteq Nat BY SMT, <1>4
<1>12. PICK n \in T : \A m \in T : n <= m
  <2> HIDE DEF T
  <2> QED BY <1>10, <1>11, LeastNat
<1>13. n # 0 BY <1>8, <1>12
<1>14. n \in 1..N /\ n - 1 \in 0..N /\ ~(n <= n - 1) BY SMT, <1>4, <1>12, <1>13
<1> QED BY <1>9, <1>12, <1>14

\* Rename leaves a storage, and panics only where a map is nil or one of its moves makes it so.
LEMMA RenameOK ==
  ASSUME NEW s, StoreOK(s), NEW from, from # <<>>, NEW to \in Path, to # <<>>,
         NEW r \in RenamePath(s, from, to)
  PROVE  /\ StoreOK(r.s) /\ r.res \in {"ok", "error", "panic", "noent"}
         /\ s.nilmaps = {} /\ Bare(s, from, to) = {} => r.res # "panic" /\ r.s.nilmaps = {}
<1>1. CASE ~ Has(s, from)
  <2>1. r = Result("noent", s) BY <1>1 DEF RenamePath
  <2>2. r.res = "noent" /\ r.s = s BY SMT, <2>1 DEF Result
  <2> QED BY <2>2
<1>2. CASE Has(s, from)
  <2>1. PICK order \in Orders(Others(s, from)) : r = moveAll(s, from, to, order)
    BY <1>2 DEF RenamePath
  <2>2. RunOK(r, Len(order), order, Clean(s, from)) BY <1>2, <2>1, MoveAllOK DEF Has
  <2>3. s.nilmaps = {} /\ Bare(s, from, to) = {} => Clean(s, from)
    BY <1>2 DEF Bare, Clean
  <2> QED BY <2>2, <2>3 DEF RunOK
<1> QED BY <1>1, <1>2

-----------------------------------------------------------------------------
(* createParent and move when the directory exists.                        *)

\* The directory d lists node n under the name x.
Listed(s, d, x, n) ==
  d \in DOMAIN s.children /\ x \in DOMAIN s.children[d] /\ s.children[d][x] = n

\* A directory that exists is not missing.
LEMMA NoneMissing ==
  ASSUME NEW s, NEW p \in Path, p # <<>>, Has(s, Dir(p))
  PROVE  Missing(s, p) = {}
<1>1. PICK k \in 0..Len(p) : Missing(s, p) = {SubSeq(p, 1, l) : l \in (Len(p) - k)..(Len(p) - 1)}
  BY MissingIs
<1>2. Len(p) \in Nat /\ Len(p) # 0 /\ Dir(p) \in Path BY PathSplit
<1>3. CASE k = 0
  <2>1. (Len(p) - k)..(Len(p) - 1) = {} BY SMT, <1>2, <1>3
  <2> QED BY <1>1, <2>1
<1>4. CASE k # 0
  <2>1. Len(p) - 1 \in (Len(p) - k)..(Len(p) - 1) BY SMT, <1>1, <1>2, <1>4
  <2>2. Dir(p) \in Missing(s, p) BY <1>1, <2>1 DEF Dir
  <2>3. IsPrefix(Dir(p), Dir(p)) BY SMT, <1>2 DEF Path, IsPrefix
  <2> QED BY <2>2, <2>3 DEF Missing
<1> QED BY <1>3, <1>4

\* Node n is put in the directory of p under the last name of p; nothing else changes.
Hooked(s, p, n, r) ==
  /\ r.s.files = s.files /\ r.s.kind = s.kind
  /\ IsDir(s, Dir(p)) => r.res # "error"
  /\ r.res = "panic" => Dir(p) \in s.nilmaps
  /\ r.res = "ok" =>
       \A d, x, m : Listed(r.s, d, x, m) <=>
         IF d = Dir(p) /\ x = Base(p) THEN m = n ELSE Listed(s, d, x, m)

\* createParent in a directory that exists puts the node in it and does no more.
LEMMA ParentIn ==
  ASSUME NEW s, StoreOK(s), NEW p \in Path, p # <<>>, Has(s, Dir(p)), NEW n
  PROVE  Hooked(s, p, n, createParent(s, p, n))
<1> DEFINE missing == Missing(s, p)
           at(q) == IF q = p THEN n ELSE Len(s.kind) + Len(p) - Len(q)
           new == (missing \cup {p}) \ {<<>>}
           parents == {Dir(q) : q \in new}
           names(q) == [x \in {Base(t) : t \in {t \in new : Dir(t) = q}} |-> at(Append(q, x))]
           files == PutAll(s.files, [q \in missing |-> at(q)])
           levels == {Len(p) - Len(q) : q \in missing}
           kind == s.kind \o [i \in levels |-> "dir"]
           children == PutAll(s.children, [q \in parents |-> PutAll(Children(s, q), names(q))])
<1>1. PICK r : r = createParent(s, p, n) OBVIOUS
<1>2. r = IF \E q \in parents : Has(s, q) /\ Kind(s, q) # "dir"
          THEN Result("error", Store(files, s.children, s.nilmaps, kind))
          ELSE IF parents \cap s.nilmaps # {}
               THEN Result("panic", Store(files, s.children, s.nilmaps, kind))
               ELSE Result("ok", Store(files, children, s.nilmaps, kind))
  BY <1>1 DEF createParent
<1>3. missing = {} BY NoneMissing
<1>4. PICK d : d = Dir(p) OBVIOUS
<1>5. PICK x : x = Base(p) OBVIOUS
<1>6. p = Append(d, x) BY <1>4, <1>5, PathSplit
<1>7. new = {p} /\ parents = {d} BY <1>3, <1>4
<1>8. files = s.files
  <2>1. DOMAIN [q \in missing |-> at(q)] = {} BY <1>3
  <2>2. files = [q \in DOMAIN s.files |-> s.files[q]] BY <2>1 DEF PutAll
  <2>3. s.files = [q \in DOMAIN s.files |-> s.files[q]] BY DEF StoreOK
  <2> QED BY <2>2, <2>3
<1>9. kind = s.kind
  <2>1. levels = {} BY <1>3
  <2>2. PICK D : D = [i \in {} |-> "dir"] OBVIOUS
  <2>3. PICK J : J = s.kind OBVIOUS
  <2>4. J \in Seq(Kinds) BY <2>3 DEF StoreOK
  <2>5. D = [i \in 1..0 |-> "dir"] BY SMT, <2>2
  <2>6. D \in Seq(Kinds) /\ Len(D) = 0 BY SMT, <2>5 DEF Kinds
  <2>7. J \o D = J BY SMT, <2>4, <2>6
  <2> QED BY <2>1, <2>2, <2>3, <2>7
<1>10. PICK nm : nm = names(d) OBVIOUS
<1>11. DOMAIN nm = {x} /\ nm[x] = n
  <2>1. {Base(t) : t \in {t \in new : Dir(t) = d}} = {x} BY <1>4, <1>5, <1>7
  <2>2. nm = [y \in {x} |-> at(Append(d, y))] BY <1>10, <2>1
  <2>3. at(Append(d, x)) = n BY <1>6
  <2> QED BY <2>2, <2>3
<1>12. PICK C : C = children OBVIOUS
<1>13. PICK g : g = Children(s, d) OBVIOUS
<1>14. PICK h : h = PutAll(g, nm) OBVIOUS
<1>15. /\ DOMAIN C = DOMAIN s.children \cup {d} /\ C[d] = h
       /\ \A q \in DOMAIN s.children : q # d => C[q] = s.children[q]
  <2>1. PICK G : G = [q \in parents |-> PutAll(Children(s, q), names(q))] OBVIOUS
  <2>2. DOMAIN G = {d} /\ G[d] = h BY <1>7, <1>10, <1>13, <1>14, <2>1
  <2>3. C = PutAll(s.children, G) BY <1>12, <2>1
  <2> QED BY <2>2, <2>3 DEF PutAll
<1>16. \A y : y \in DOMAIN g <=> d \in DOMAIN s.children /\ y \in DOMAIN s.children[d]
  <2>1. DOMAIN <<>> = {} BY SMT
  <2> QED BY <1>13, <2>1 DEF Children
<1>17. d \in DOMAIN s.children => g = s.children[d] BY <1>13 DEF Children
<1>18. DOMAIN h = DOMAIN g \cup {x} /\ h[x] = n /\ \A y \in DOMAIN g : y # x => h[y] = g[y]
  BY <1>11, <1>14 DEF PutAll
<1> HIDE DEF missing, at, new, parents, names, files, kind, children, levels
<1>19. CASE r = Result("ok", Store(files, children, s.nilmaps, kind))
  <2>1. r = Result("ok", Store(s.files, C, s.nilmaps, s.kind)) BY <1>8, <1>9, <1>12, <1>19
  <2>2. /\ r.res = "ok" /\ r.s.files = s.files /\ r.s.kind = s.kind /\ r.s.children = C
    BY SMT, <2>1 DEF Result, Store
  <2>3. \A k, y, m : Listed(r.s, k, y, m) <=> IF k = d /\ y = x THEN m = n ELSE Listed(s, k, y, m)
    <3> TAKE k, y, m
    <3>1. CASE k = d BY <1>15, <1>16, <1>17, <1>18, <2>2, <3>1 DEF Listed
    <3>2. CASE k # d BY <1>15, <2>2, <3>2 DEF Listed
    <3> QED BY <3>1, <3>2
  <2>4. r.res # "error" /\ r.res # "panic" BY SMT, <2>2
  <2> QED BY <1>1, <1>4, <1>5, <2>2, <2>3, <2>4 DEF Hooked
<1>20. CASE \E q \in parents : Has(s, q) /\ Kind(s, q) # "dir"
  <2>1. r = Result("error", Store(s.files, s.children, s.nilmaps, s.kind))
    BY <1>2, <1>8, <1>9, <1>20
  <2>2. r.res = "error" /\ r.s.files = s.files /\ r.s.kind = s.kind BY SMT, <2>1 DEF Result, Store
  <2>3. ~ IsDir(s, d) BY <1>7, <1>20 DEF IsDir
  <2>4. r.res # "ok" /\ r.res # "panic" BY SMT, <2>2
  <2> QED BY <1>1, <1>4, <2>2, <2>3, <2>4 DEF Hooked
<1>21. CASE r = Result("panic", Store(files, s.children, s.nilmaps, kind)) /\ parents \cap s.nilmaps # {}
  <2>1. r = Result("panic", Store(s.files, s.children, s.nilmaps, s.kind)) BY <1>8, <1>9, <1>21
  <2>2. r.res = "panic" /\ r.s.files = s.files /\ r.s.kind = s.kind BY SMT, <2>1 DEF Result, Store
  <2>3. d \in s.nilmaps BY <1>7, <1>21
  <2>4. r.res # "ok" /\ r.res # "error" BY SMT, <2>2
  <2> QED BY <1>1, <1>4, <2>2, <2>3, <2>4 DEF Hooked
<1> QED BY <1>2, <1>19, <1>20, <1>21

\* The directories of u list what those of s do, with node n0 as name y of e in place
\* of name z of d, and the children of from under to.
Relisted(s, u, from, d, z, to, e, y, n0) ==
  \A k, x, n : Listed(u, k, x, n) <=>
    /\ k # from /\ ~(k = d /\ x = z)
    /\ \/ k = to /\ Listed(s, from, x, n)
       \/ k = e /\ x = y /\ n = n0
       \/ k = e /\ x # y /\ Listed(s, k, x, n)
       \/ k # e /\ k # to /\ Listed(s, k, x, n)

\* The storage after a move into a directory that exists.
Relocated(s, from, to, m) ==
  /\ StoreOK(m.s) /\ m.s.kind = s.kind
  /\ DOMAIN m.s.files = (DOMAIN s.files \cup {to}) \ {from} /\ m.s.files[to] = s.files[from]
  /\ \A q \in DOMAIN s.files : q # from /\ q # to => m.s.files[q] = s.files[q]
  /\ m.res \in {"ok", "panic"} /\ (m.res = "panic" => Dir(to) \in s.nilmaps)
  /\ m.res = "ok" =>
       /\ from \in DOMAIN s.children => to \notin m.s.nilmaps
       /\ \A q \in m.s.nilmaps : q \in s.nilmaps \/ q = to
       /\ Relisted(s, m.s, from, Dir(from), Base(from), to, Dir(to), Base(to), s.files[from])

\* move into a directory that exists: the node, its entry and its children change places.
LEMMA MoveIn ==
  ASSUME NEW s, StoreOK(s), NEW from \in DOMAIN s.files, NEW to \in Path, to # <<>>,
         IsDir(s, Dir(to)), from # to, Dir(to) # from
  PROVE  Relocated(s, from, to, move(s, from, to))
<1> DEFINE shared == from \in DOMAIN s.children
<1>1. PICK m : m = move(s, from, to) OBVIOUS
<1>2. PICK e : e = Dir(to) OBVIOUS
<1>3. PICK y : y = Base(to) OBVIOUS
<1>4. PICK n0 : n0 = s.files[from] OBVIOUS
<1>5. e # to /\ IsDir(s, e) /\ e # from BY <1>2, PathSplit
<1>6. PICK t : t = MovePut(s, from, to) OBVIOUS
<1>7. Placed(s, from, to, t) BY <1>6, MovePutOK
<1>8. StoreOK(t) /\ n0 \in 1..Len(t.kind) BY <1>4, <1>7 DEF Placed
<1>9. Has(t, e) /\ IsDir(t, e) BY <1>5, <1>7 DEF Placed, Has, IsDir, Kind
<1>10. PICK r : r = createParent(t, to, n0) OBVIOUS
<1>11. /\ StoreOK(r.s) /\ Grown(t, r.s) /\ r.res \in {"ok", "error", "panic"}
  BY <1>8, <1>10, ParentOK
<1>12. Hooked(t, to, n0, r) BY <1>2, <1>8, <1>9, <1>10, ParentIn
<1>13. r.res \in {"ok", "panic"} /\ (r.res = "panic" => e \in s.nilmaps)
  <2>1. r.res # "error" /\ (r.res = "panic" => e \in t.nilmaps) BY <1>2, <1>9, <1>12 DEF Hooked
  <2>2. e \in t.nilmaps => e \in s.nilmaps BY <1>5, <1>7 DEF Placed
  <2> QED BY <1>11, <2>1, <2>2
<1>14. PICK c : c = MoveCut(s, r.s, from, to) OBVIOUS
<1>15. m.res = r.res /\ m.s = Unlink(c, from)
  <2>1. PICK u : u = Unlink(c, from) OBVIOUS
  <2>2. PICK w : w = r.res OBVIOUS
  <2>3. m = [res |-> w, s |-> u]
    BY <1>1, <1>4, <1>6, <1>10, <1>14, <2>1, <2>2 DEF move, MovePut, MoveCut, Result
  <2> QED BY SMT, <2>1, <2>2, <2>3
<1>16. PICK v : v = r.s OBVIOUS
<1>17. PICK all : all = IF shared THEN Put(v.children, to, v.children[from]) ELSE v.children OBVIOUS
<1>18. PICK w : w = Without(all, from) OBVIOUS
<1>19. c = Store(v.files, w, v.nilmaps \ {from}, v.kind) BY <1>14, <1>16, <1>17, <1>18 DEF MoveCut
<1>20. c.files = v.files /\ c.children = w /\ c.nilmaps = v.nilmaps \ {from} /\ c.kind = v.kind
  BY SMT, <1>19 DEF Store
<1>21. v.files = t.files /\ v.kind = t.kind /\ v.nilmaps = t.nilmaps /\ DOMAIN t.children \subseteq DOMAIN v.children
  BY <1>11, <1>12, <1>16 DEF Hooked, Grown
<1>22. shared => from \in DOMAIN v.children /\ to \in DOMAIN v.children
  BY <1>7, <1>21 DEF Placed
<1>23. \A k, x, n : Listed(c, k, x, n) <=>
         k # from /\ IF shared /\ k = to THEN Listed(v, from, x, n) ELSE Listed(v, k, x, n)
  <2>1. DOMAIN w = DOMAIN all \ {from} /\ \A k \in DOMAIN w : w[k] = all[k]
    BY <1>18 DEF Without, Restrict
  <2>2. CASE shared
    <3>1. all = Put(v.children, to, v.children[from]) BY <1>17, <2>2
    <3>2. /\ DOMAIN all = DOMAIN v.children /\ all[to] = v.children[from]
          /\ \A k \in DOMAIN v.children : k # to => all[k] = v.children[k]
      BY <1>22, <2>2, <3>1 DEF Put
    <3> TAKE k, x, n
    <3>3. CASE k = to BY <1>20, <1>22, <2>1, <2>2, <3>2, <3>3 DEF Listed
    <3>4. CASE k # to BY <1>20, <2>1, <3>2, <3>4 DEF Listed
    <3> QED BY <3>3, <3>4
  <2>3. CASE ~ shared BY <1>17, <1>20, <2>1, <2>3 DEF Listed
  <2> QED BY <2>2, <2>3
<1>24. PICK u : u = m.s OBVIOUS
<1>25. StoreOK(c)
  <2>1. Sound(v.files, v.children, v.nilmaps, v.kind) BY <1>11, <1>16, StoreHas
  <2>2. DOMAIN w \subseteq DOMAIN v.children
    BY <1>17, <1>18, <1>22 DEF Without, Restrict, Put
  <2>3. \A k \in DOMAIN w : \A x \in DOMAIN w[k] : x \in Name /\ w[k][x] \in 1..Len(v.kind)
    <3> TAKE k \in DOMAIN w
    <3> TAKE x \in DOMAIN w[k]
    <3>1. Listed(c, k, x, w[k][x]) BY <1>20 DEF Listed
    <3>2. Listed(v, from, x, w[k][x]) \/ Listed(v, k, x, w[k][x]) BY <1>23, <3>1
    <3> QED BY <2>1, <3>2 DEF Listed, Sound
  <2>4. Sound(v.files, w, v.nilmaps \ {from}, v.kind) BY <2>1, <2>2, <2>3 DEF Sound
  <2>5. Holds(c, v.files, w, v.nilmaps \ {from}, v.kind) BY StoreIs, <1>19, <2>4
  <2> QED BY <2>5 DEF Holds
<1>26. Unlinked(c, from, u) BY <1>15, <1>24, <1>25, UnlinkOK
<1>27. /\ StoreOK(u) /\ u.kind = s.kind /\ DOMAIN u.files = (DOMAIN s.files \cup {to}) \ {from}
       /\ u.files[to] = s.files[from] /\ u.nilmaps = t.nilmaps \ {from}
       /\ \A q \in DOMAIN s.files : q # from /\ q # to => u.files[q] = s.files[q]
  <2>1. /\ StoreOK(u) /\ u.kind = t.kind /\ u.nilmaps = t.nilmaps \ {from}
        /\ DOMAIN u.files = DOMAIN t.files \ {from} /\ \A q \in DOMAIN u.files : u.files[q] = t.files[q]
    BY <1>20, <1>21, <1>26 DEF Unlinked
  <2>2. /\ t.kind = s.kind /\ DOMAIN t.files = DOMAIN s.files \cup {to} /\ t.files[to] = s.files[from]
        /\ \A q \in DOMAIN s.files : q # to => t.files[q] = s.files[q]
    BY <1>7 DEF Placed
  <2> QED BY <2>1, <2>2
<1>28. \A k, x, n : Listed(u, k, x, n) <=> Listed(c, k, x, n) /\ ~(k = Dir(from) /\ x = Base(from))
  <2> TAKE k, x, n
  <2>1. CASE k # Dir(from) BY <1>26, <2>1 DEF Listed, Unlinked
  <2>2. CASE k = Dir(from)
    <3>1. k \in DOMAIN c.children => u.children[k] = Without(c.children[k], Base(from))
      BY <1>26, <2>2 DEF Unlinked
    <3>2. DOMAIN u.children = DOMAIN c.children BY <1>26 DEF Unlinked
    <3> QED BY <2>2, <3>1, <3>2 DEF Listed, Without, Restrict
  <2> QED BY <2>1, <2>2
<1>29. \A k, x, n : k # to => (Listed(t, k, x, n) <=> Listed(s, k, x, n))
  BY <1>7 DEF Placed, Listed
<1>30. \A x, n : ~shared => ~ Listed(t, to, x, n) /\ ~ Listed(s, from, x, n)
  BY <1>7 DEF Placed, Listed
<1>31. ASSUME m.res = "ok"
       PROVE  /\ shared => to \notin u.nilmaps
              /\ \A q \in u.nilmaps : q \in s.nilmaps \/ q = to
              /\ Relisted(s, u, from, Dir(from), Base(from), to, e, y, n0)
  <2>1. shared => to \notin u.nilmaps BY <1>7, <1>27 DEF Placed
  <2>2. \A q \in u.nilmaps : q \in s.nilmaps \/ q = to BY <1>7, <1>27 DEF Placed
  <2>3. \A k, x, n : Listed(v, k, x, n) <=> IF k = e /\ x = y THEN n = n0 ELSE Listed(t, k, x, n)
    BY <1>2, <1>3, <1>12, <1>15, <1>16, <1>31 DEF Hooked
  <2>4. ASSUME NEW k, NEW x, NEW n
        PROVE  Listed(c, k, x, n) <=>
                 /\ k # from
                 /\ \/ k = to /\ Listed(s, from, x, n)
                    \/ k = e /\ x = y /\ n = n0
                    \/ k = e /\ x # y /\ Listed(s, k, x, n)
                    \/ k # e /\ k # to /\ Listed(s, k, x, n)
    <3>1. CASE k = from BY <1>23, <3>1
    <3>2. CASE k = to
      <4>1. Listed(v, from, x, n) <=> Listed(s, from, x, n) BY <1>5, <1>29, <2>3
      <4>2. Listed(v, to, x, n) <=> Listed(t, to, x, n) BY <1>5, <2>3
      <4> QED BY <1>5, <1>23, <1>30, <3>2, <4>1, <4>2
    <3>3. CASE k # from /\ k # to
      <4>1. Listed(c, k, x, n) <=> IF k = e /\ x = y THEN n = n0 ELSE Listed(s, k, x, n)
        BY <1>23, <1>29, <2>3, <3>3
      <4> QED BY <3>3, <4>1
    <3> QED BY <3>1, <3>2, <3>3
  <2>5. Relisted(s, u, from, Dir(from), Base(from), to, e, y, n0) BY <1>28, <2>4 DEF Relisted
  <2> QED BY <2>1, <2>2, <2>5
<1> QED BY <1>1, <1>2, <1>3, <1>4, <1>13, <1>15, <1>24, <1>27, <1>31 DEF Relocated

-----------------------------------------------------------------------------
(* A RENAME that is not rough: Halfway holds between two moves.            *)

\* Appending a name to a path can be undone.
LEMMA PathEq ==
  ASSUME NEW d \in Path, NEW x \in Name, NEW e \in Path, NEW y \in Name, Append(d, x) = Append(e, y)
  PROVE  d = e /\ x = y
<1>1. Dir(Append(d, x)) = d /\ Base(Append(d, x)) = x BY PathAppend
<1>2. Dir(Append(e, y)) = e /\ Base(Append(e, y)) = y BY PathAppend
<1> QED BY <1>1, <1>2

\* What is below an entry of a path is below the path.
LEMMA PrefixDown ==
  ASSUME NEW p \in Path, NEW q \in Path, IsPrefix(p, q), NEW z \in Name
  PROVE  IsPrefix(p, Append(q, z))
BY SMT DEF Path, IsPrefix

\* A path is a prefix of itself.
LEMMA PrefixSelf ==
  ASSUME NEW p \in Path
  PROVE  IsPrefix(p, p)
BY SMT DEF Path, IsPrefix

\* The paths below p and no deeper than one name are its entries.
LEMMA PrefixNext ==
  ASSUME NEW p \in Path, NEW q \in Path, IsPrefix(p, q), p # q, ~(Len(q) > Len(p) + 1)
  PROVE  q # <<>> /\ Dir(q) = p
<1>1. Len(p) \in Nat /\ Len(q) \in Nat /\ Len(p) <= Len(q) BY SMT DEF Path, IsPrefix
<1>2. Len(q) # Len(p) BY SMT, <1>1 DEF Path, IsPrefix
<1>3. Len(q) = Len(p) + 1 BY SMT, <1>1, <1>2
<1>4. Dir(q) = p BY SMT, <1>3 DEF Path, Dir, IsPrefix
<1> QED BY SMT, <1>1, <1>3, <1>4

\* What is below a path has the string of that path as a prefix.
LEMMA PrefixHas ==
  ASSUME NEW p \in Path, NEW q \in Path, p # <<>>, IsPrefix(p, q)
  PROVE  HasPrefix(q, p)
<1>1. Len(p) \in Nat /\ Len(q) \in Nat /\ Len(p) # 0 /\ Len(p) <= Len(q) BY SMT DEF Path, IsPrefix
<1>2. \A i \in 1..Len(p) : q[i] = p[i] BY SMT, <1>1 DEF Path, IsPrefix
<1>3. SubSeq(q, 1, Len(p) - 1) = Dir(p) BY SMT, <1>1, <1>2 DEF Path, Dir
<1>4. PICK x : x = p[Len(p)] OBVIOUS
<1>5. x \in Name /\ q[Len(p)] = x BY SMT, <1>1, <1>2, <1>4 DEF Path
<1>6. Len(x) <= Len(x)
  <2>1. Len(x) \in Nat BY <1>5, NamespaceAssumption
  <2> QED BY SMT, <2>1
<1>7. IsPrefix(x, x) BY <1>6 DEF IsPrefix
<1>8. Len(q) >= Len(p) BY SMT, <1>1
<1> QED BY <1>3, <1>4, <1>5, <1>7, <1>8 DEF HasPrefix

\* Something right below a path takes its place right below the new one.
LEMMA PathToNext ==
  ASSUME NEW p \in Path, NEW z \in Name, NEW to \in Path
  PROVE  pathTo(Append(p, z), p, to) = Append(to, z)
<1>1. Len(p) \in Nat BY SMT DEF Path
<1>2. PICK n : n = Len(p) + 1 OBVIOUS
<1>3. PICK q : q = Append(p, z) OBVIOUS
<1>4. q[n] = z /\ Len(q) = n /\ q \in Path /\ n \in Nat /\ n >= 1 BY SMT, <1>1, <1>2, <1>3 DEF Path
<1>5. IsPrefix(p, q) BY <1>3, PrefixSelf, PrefixDown
<1>6. PICK u : u = SubSeq(q, n, n) OBVIOUS
<1>7. u \in Path /\ Len(u) = 1 /\ u[1] = z BY SMT, <1>4, <1>6 DEF Path
<1>8. to \o u = Append(to, z)
  <2>1. Len(to) \in Nat BY SMT DEF Path
  <2>2. PICK v : v = to \o u OBVIOUS
  <2>3. v \in Path /\ Len(v) = Len(to) + 1 BY <1>7, <2>2, Joined
  <2>4. (\A i \in 1..Len(to) : v[i] = to[i]) /\ v[Len(to) + 1] = z BY SMT, <1>7, <2>1, <2>2 DEF Path
  <2>5. PICK w : w = Append(to, z) OBVIOUS
  <2>6. /\ w \in Path /\ Len(w) = Len(to) + 1
        /\ (\A i \in 1..Len(to) : w[i] = to[i]) /\ w[Len(to) + 1] = z
    BY SMT, <2>1, <2>5 DEF Path
  <2>7. v = w BY SMT, <2>1, <2>3, <2>4, <2>6 DEF Path
  <2> QED BY <2>2, <2>5, <2>7
<1> QED BY <1>2, <1>3, <1>4, <1>5, <1>6, <1>8 DEF pathTo

\* The two maps tell one story, in terms of Listed.
Linked(s) ==
  /\ \A p \in DOMAIN s.files : p # <<>> =>
       IsDir(s, Dir(p)) /\ Listed(s, Dir(p), Base(p), s.files[p])
  /\ \A d, x, n : Listed(s, d, x, n) => Has(s, Append(d, x))

\* Linked is the Tree that the model states.
LEMMA TreeLinked ==
  ASSUME NEW s
  PROVE  Tree(s) <=> Linked(s)
<1>1. DOMAIN <<>> = {} BY SMT
<1>2. \A d, x : x \in DOMAIN Children(s, d) <=> d \in DOMAIN s.children /\ x \in DOMAIN s.children[d]
  BY <1>1 DEF Children
<1>3. \A d, x, n : Listed(s, d, x, n) <=> x \in DOMAIN Children(s, d) /\ Children(s, d)[x] = n
  BY <1>2 DEF Listed, Children
<1>4. (\A d, x, n : Listed(s, d, x, n) => Has(s, Append(d, x))) <=>
      \A d \in DOMAIN s.children : \A x \in DOMAIN s.children[d] : Has(s, Append(d, x))
  BY DEF Listed
<1> QED BY <1>3, <1>4 DEF Tree, Linked

\* A RENAME from a to b of a tree s, not rough.
Smooth(s, a, b) ==
  /\ StoreOK(s) /\ Linked(s) /\ a \in DOMAIN s.files /\ a # <<>> /\ b \in Path /\ b # <<>>
  /\ IsDir(s, Dir(b)) /\ ~ Rough(s, a, b)

\* What a RENAME that is not rough moves: the entries of a, which have no entries of their own,
\* to a place outside a with none.
LEMMA SmoothIs ==
  ASSUME NEW s, NEW a, NEW b, Smooth(s, a, b)
  PROVE  /\ a \in Path /\ a # b /\ ~ IsPrefix(a, b) /\ Dir(b) # a /\ Dir(a) # b
         /\ \A q \in Others(s, a) : q \in Path /\ q # <<>> /\ Dir(q) = a
         /\ \A p \in DOMAIN s.files : p # <<>> /\ Dir(p) = a => p \in Others(s, a)
         /\ \A p \in DOMAIN s.files : p # <<>> => Dir(p) \notin Others(s, a)
         /\ \A x, n : ~ Listed(s, b, x, n)
<1>1. a \in Path /\ b \in Path /\ b # <<>> BY StoreHas DEF Smooth
<1>2. ~ IsPrefix(a, b) BY DEF Smooth, Rough
<1>3. a # b BY <1>1, <1>2, PrefixSelf
<1>4. Dir(b) # a
  <2>1. b = Append(Dir(b), Base(b)) /\ Base(b) \in Name BY <1>1, PathSplit
  <2> QED BY <1>1, <1>2, <2>1, PrefixSelf, PrefixDown
<1>5. \A x, n : ~ Listed(s, b, x, n)
  <2>1. DOMAIN Children(s, b) = {} BY DEF Smooth, Rough
  <2> QED BY <2>1 DEF Listed, Children
<1>6. Dir(a) # b BY <1>5 DEF Smooth, Linked
<1>7. \A q \in Others(s, a) : q \in Path /\ q # a /\ IsPrefix(a, q) /\ ~(Len(q) > Len(a) + 1)
  BY OthersAre DEF Smooth, Rough
<1>8. \A q \in Others(s, a) : q \in Path /\ q # <<>> /\ Dir(q) = a BY <1>1, <1>7, PrefixNext
<1>9. \A p \in DOMAIN s.files : IsPrefix(a, p) /\ p # a => p \in Others(s, a)
  <2>1. \A p \in DOMAIN s.files : p \in Path BY StoreHas DEF Smooth
  <2>2. a # <<>> BY DEF Smooth
  <2> QED BY <1>1, <2>1, <2>2, PrefixHas DEF Others
<1>10. \A p \in DOMAIN s.files : p # <<>> /\ Dir(p) = a => p \in Others(s, a)
  <2> SUFFICES ASSUME NEW p \in DOMAIN s.files, p # <<>>, Dir(p) = a PROVE p \in Others(s, a) BY SMT
  <2>1. p \in Path BY StoreHas DEF Smooth
  <2>2. p = Append(a, Base(p)) /\ Base(p) \in Name /\ p # a BY <2>1, PathSplit
  <2> QED BY <1>1, <1>9, <2>2, PrefixSelf, PrefixDown
<1>11. \A p \in DOMAIN s.files : p # <<>> => Dir(p) \notin Others(s, a)
  <2> SUFFICES ASSUME NEW p \in DOMAIN s.files, p # <<>>, Dir(p) \in Others(s, a) PROVE FALSE BY SMT
  <2>1. p \in Path BY StoreHas DEF Smooth
  <2>2. PICK q : q = Dir(p) OBVIOUS
  <2>3. p = Append(q, Base(p)) /\ Base(p) \in Name /\ Len(q) = Len(p) - 1 /\ Len(p) \in Nat
    BY <2>1, <2>2, PathSplit
  <2>4. q \in Path /\ q # <<>> /\ Dir(q) = a /\ IsPrefix(a, q) BY <1>7, <1>8, <2>2
  <2>5. Len(a) = Len(q) - 1 /\ Len(q) \in Nat /\ Len(a) \in Nat BY SMT, <1>1, <2>4, PathSplit DEF Path
  <2>6. IsPrefix(a, p) BY <1>1, <2>3, <2>4, PrefixDown
  <2>7. Len(p) = Len(a) + 2 BY SMT, <2>3, <2>5
  <2>8. p # a /\ Len(p) > Len(a) + 1 BY SMT, <2>5, <2>7
  <2> QED BY <1>7, <1>9, <2>6, <2>8
<1> QED BY <1>1, <1>2, <1>3, <1>4, <1>5, <1>6, <1>8, <1>10, <1>11

\* In the middle of a RENAME from a to b of the tree s: storage t, and U still to be moved.
Halfway(s, t, U, a, b) ==
  /\ StoreOK(t) /\ t.kind = s.kind /\ a \notin DOMAIN t.files /\ b \in DOMAIN t.files
  /\ \A p \in DOMAIN t.files : p # <<>> /\ p \notin U =>
       IsDir(t, Dir(p)) /\ Listed(t, Dir(p), Base(p), t.files[p])
  /\ \A k, x, n : Listed(t, k, x, n) => Has(t, Append(k, x)) \/ (k = b /\ Append(a, x) \in U)
  /\ \A q \in U : /\ q \in DOMAIN t.files /\ q # <<>> /\ Dir(q) = a
                  /\ Listed(t, b, Base(q), t.files[q]) /\ ~ Has(t, Append(b, Base(q)))
                  /\ IsDir(t, b) /\ b \notin t.nilmaps
  /\ \A p \in DOMAIN t.files : p # <<>> => Dir(p) \notin U
  /\ \A x, n : ~ Listed(t, a, x, n)
  /\ \A p \in DOMAIN s.files : p # b => \E q \in DOMAIN t.files : t.files[q] = s.files[p]
  /\ \A p : ~ IsPrefix(a, p) /\ ~ IsPrefix(b, p) => Node(t, p) = Node(s, p)

\* A name listed in a directory is the name of a path.
LEMMA ListedPath ==
  ASSUME NEW s, StoreOK(s), NEW d, NEW x, NEW n, Listed(s, d, x, n)
  PROVE  d \in Path /\ x \in Name /\ Append(d, x) \in Path
<1>1. d \in Path /\ x \in Name BY DEF StoreOK, Listed
<1> QED BY <1>1, PathAppend

\* The first move.
LEMMA FirstMove ==
  ASSUME NEW s, NEW a, NEW b, Smooth(s, a, b), NEW m, m = move(s, a, b), m.res = "ok"
  PROVE  Halfway(s, m.s, Others(s, a), a, b)
<1>1. PICK U : U = Others(s, a) OBVIOUS
<1>2. PICK e : e = Dir(b) OBVIOUS
<1>3. PICK y : y = Base(b) OBVIOUS
<1>4. PICK t : t = m.s OBVIOUS
<1>5. /\ StoreOK(s) /\ Linked(s) /\ a \in DOMAIN s.files /\ a # <<>> /\ b \in Path /\ b # <<>> /\ IsDir(s, e)
  BY <1>2 DEF Smooth
<1>6. /\ a \in Path /\ a # b /\ ~ IsPrefix(a, b) /\ e # a /\ Dir(a) # b
      /\ (\A q \in U : q \in Path /\ q # <<>> /\ Dir(q) = a)
      /\ (\A p \in DOMAIN s.files : p # <<>> /\ Dir(p) = a => p \in U)
      /\ (\A p \in DOMAIN s.files : p # <<>> => Dir(p) \notin U)
      /\ \A x, n : ~ Listed(s, b, x, n)
  BY <1>1, <1>2, SmoothIs
<1>7. \A q \in U : q \in DOMAIN s.files /\ q # a BY <1>1, <1>5, OthersAre
<1>8. e \in Path /\ y \in Name /\ b = Append(e, y) /\ e # b BY <1>2, <1>3, <1>5, PathSplit
<1>9. a = Append(Dir(a), Base(a)) /\ Dir(a) \in Path /\ Base(a) \in Name
  BY <1>5, <1>6, PathSplit
<1>10. \A q \in U : q = Append(a, Base(q)) /\ Base(q) \in Name BY <1>6, PathSplit
<1>11. b \notin U /\ e \notin U
  <2>1. \A q \in U : IsPrefix(a, q) BY <1>6, <1>10, PrefixSelf, PrefixDown
  <2> QED BY <1>6, <1>8, <2>1, PrefixDown
<1>12. Relocated(s, a, b, m) BY <1>2, <1>5, <1>6, MoveIn
<1>13. /\ StoreOK(t) /\ t.kind = s.kind /\ DOMAIN t.files = (DOMAIN s.files \cup {b}) \ {a}
       /\ t.files[b] = s.files[a]
       /\ \A q \in DOMAIN s.files : q # a /\ q # b => t.files[q] = s.files[q]
  BY <1>4, <1>12 DEF Relocated
<1>14. a \in DOMAIN s.children => b \notin t.nilmaps BY <1>4, <1>12 DEF Relocated
<1>15. \A k, x, n : Listed(t, k, x, n) <=>
         /\ k # a /\ ~(k = Dir(a) /\ x = Base(a))
         /\ \/ k = b /\ Listed(s, a, x, n)
            \/ k = e /\ x = y /\ n = s.files[a]
            \/ k = e /\ x # y /\ Listed(s, k, x, n)
            \/ k # e /\ k # b /\ Listed(s, k, x, n)
  <2>1. Relisted(s, t, a, Dir(a), Base(a), b, e, y, s.files[a])
    BY <1>2, <1>3, <1>4, <1>12 DEF Relocated
  <2> QED BY <2>1 DEF Relisted
<1>16. \A p \in DOMAIN s.files : p \in Path /\ (p # <<>> =>
         /\ IsDir(s, Dir(p)) /\ Listed(s, Dir(p), Base(p), s.files[p])
         /\ p = Append(Dir(p), Base(p)) /\ Dir(p) # b)
  <2> TAKE p \in DOMAIN s.files
  <2>1. p \in Path BY <1>5 DEF StoreOK
  <2>2. p # <<>> => IsDir(s, Dir(p)) /\ Listed(s, Dir(p), Base(p), s.files[p])
    BY <1>5 DEF Linked
  <2>3. p # <<>> => p = Append(Dir(p), Base(p)) BY <2>1, PathSplit
  <2>4. p # <<>> => Dir(p) # b BY <1>6, <2>2
  <2> QED BY <2>1, <2>2, <2>3, <2>4
<1>17. \A p : p # a /\ p # b /\ IsDir(s, p) => IsDir(t, p) BY <1>13 DEF IsDir, Has, Kind
<1>18. ASSUME NEW p \in DOMAIN t.files, p # <<>>, p \notin U
       PROVE  IsDir(t, Dir(p)) /\ Listed(t, Dir(p), Base(p), t.files[p])
  <2>1. CASE p = b
    <3>1. IsDir(t, e) BY <1>5, <1>6, <1>8, <1>17
    <3>2. ~(e = Dir(a) /\ y = Base(a)) BY <1>6, <1>8, <1>9
    <3>3. Listed(t, e, y, t.files[b]) BY <1>6, <1>13, <1>15, <3>2
    <3> QED BY <1>2, <1>3, <2>1, <3>1, <3>3
  <2>2. CASE p # b
    <3>1. p \in DOMAIN s.files /\ p # a /\ t.files[p] = s.files[p] BY <1>13, <2>2
    <3>2. Dir(p) # a /\ Dir(p) # b BY <1>6, <1>16, <1>18, <3>1
    <3>3. IsDir(t, Dir(p)) BY <1>16, <1>17, <1>18, <3>1, <3>2
    <3>4. ~(Dir(p) = Dir(a) /\ Base(p) = Base(a)) BY <1>9, <1>16, <1>18, <3>1
    <3>5. ~(Dir(p) = e /\ Base(p) = y) BY <1>8, <1>16, <1>18, <2>2, <3>1
    <3>6. Listed(s, Dir(p), Base(p), s.files[p]) BY <1>16, <1>18, <3>1
    <3> QED BY <1>15, <3>1, <3>2, <3>3, <3>4, <3>5, <3>6
  <2> QED BY <2>1, <2>2
<1>19. ASSUME NEW k, NEW x, NEW n, Listed(t, k, x, n)
       PROVE  Has(t, Append(k, x)) \/ (k = b /\ Append(a, x) \in U)
  <2>1. CASE k = b /\ Listed(s, a, x, n)
    <3>1. Append(a, x) \in DOMAIN s.files /\ x \in Name
      BY <1>5, <2>1, ListedPath DEF Linked, Has
    <3>2. Append(a, x) # <<>> /\ Dir(Append(a, x)) = a BY <1>6, <3>1, PathAppend
    <3> QED BY <1>6, <2>1, <3>1, <3>2
  <2>2. CASE k = e /\ x = y BY <1>6, <1>8, <1>13, <2>2 DEF Has
  <2>3. CASE Listed(s, k, x, n)
    <3>1. Append(k, x) \in DOMAIN s.files /\ k \in Path /\ x \in Name
      BY <1>5, <2>3, ListedPath DEF Linked, Has
    <3>2. Append(k, x) # a
      <4>1. ~(k = Dir(a) /\ x = Base(a)) BY <1>15, <1>19
      <4> QED BY <1>9, <3>1, <4>1, PathEq
    <3> QED BY <1>13, <3>1, <3>2 DEF Has
  <2> QED BY <1>15, <1>19, <2>1, <2>2, <2>3
<1>20. ASSUME NEW q \in U
       PROVE  /\ q \in DOMAIN t.files /\ q # <<>> /\ Dir(q) = a
              /\ Listed(t, b, Base(q), t.files[q]) /\ ~ Has(t, Append(b, Base(q)))
              /\ IsDir(t, b) /\ b \notin t.nilmaps
  <2>1. q \in DOMAIN s.files /\ q # a /\ q # b /\ q # <<>> /\ Dir(q) = a BY <1>6, <1>7, <1>11
  <2>2. q \in DOMAIN t.files /\ t.files[q] = s.files[q] BY <1>13, <2>1
  <2>3. Listed(s, a, Base(q), s.files[q]) /\ IsDir(s, a) BY <1>16, <2>1
  <2>4. Listed(t, b, Base(q), t.files[q]) BY <1>6, <1>15, <2>2, <2>3
  <2>5. IsDir(t, b) BY <1>6, <1>13, <2>3 DEF IsDir, Has, Kind
  <2>6. b \notin t.nilmaps BY <1>14, <2>3 DEF Listed
  <2>7. ~ Has(t, Append(b, Base(q)))
    <3>1. Append(b, Base(q)) # <<>> /\ Dir(Append(b, Base(q))) = b BY <1>5, <1>10, PathAppend
    <3>2. Append(b, Base(q)) \notin DOMAIN s.files BY <1>16, <3>1
    <3>3. Append(b, Base(q)) # b BY <1>2, <1>8, <3>1
    <3> QED BY <1>13, <3>2, <3>3 DEF Has
  <2> QED BY <2>1, <2>2, <2>4, <2>5, <2>6, <2>7
<1>21. \A p \in DOMAIN t.files : p # <<>> => Dir(p) \notin U BY <1>2, <1>6, <1>11, <1>13
<1>22. \A p \in DOMAIN s.files : p # b => \E q \in DOMAIN t.files : t.files[q] = s.files[p]
  BY <1>6, <1>13
<1>23. \A p : ~ IsPrefix(a, p) /\ ~ IsPrefix(b, p) => Node(t, p) = Node(s, p)
  <2>1. IsPrefix(a, a) /\ IsPrefix(b, b) BY <1>5, <1>6, PrefixSelf
  <2> QED BY <1>13, <2>1 DEF Node, Has
<1>24. a \notin DOMAIN t.files /\ b \in DOMAIN t.files /\ \A x, n : ~ Listed(t, a, x, n)
  BY <1>6, <1>13, <1>15
<1>25. Halfway(s, t, U, a, b)
  BY <1>13, <1>18, <1>19, <1>20, <1>21, <1>22, <1>23, <1>24 DEF Halfway
<1> QED BY <1>1, <1>4, <1>25

\* One more entry is moved.
LEMMA NextMove ==
  ASSUME NEW s, NEW t, NEW U, NEW a \in Path, NEW b \in Path, Halfway(s, t, U, a, b), b # <<>>,
         a # b, ~ IsPrefix(a, b), Dir(a) # b, NEW q \in U, NEW m, m = move(t, q, pathTo(q, a, b))
  PROVE  m.res = "ok" /\ Halfway(s, m.s, U \ {q}, a, b)
<1>1. PICK z : z = Base(q) OBVIOUS
<1>2. PICK w : w = Append(b, z) OBVIOUS
<1>3. PICK v : v = m.s OBVIOUS
<1>4. /\ StoreOK(t) /\ t.kind = s.kind /\ a \notin DOMAIN t.files /\ b \in DOMAIN t.files
      /\ \A p \in DOMAIN t.files : p # <<>> => Dir(p) \notin U
      /\ \A x, n : ~ Listed(t, a, x, n)
  BY DEF Halfway
<1>5. \A p \in DOMAIN t.files : p # <<>> /\ p \notin U =>
        IsDir(t, Dir(p)) /\ Listed(t, Dir(p), Base(p), t.files[p])
  BY DEF Halfway
<1>6. \A k, x, n : Listed(t, k, x, n) => Has(t, Append(k, x)) \/ (k = b /\ Append(a, x) \in U)
  BY DEF Halfway
<1>7. \A p \in U : /\ p \in DOMAIN t.files /\ p # <<>> /\ Dir(p) = a
                   /\ Listed(t, b, Base(p), t.files[p]) /\ ~ Has(t, Append(b, Base(p)))
                   /\ IsDir(t, b) /\ b \notin t.nilmaps
  BY DEF Halfway
<1>8. \A p \in DOMAIN t.files : p \in Path /\ (p # <<>> => p = Append(Dir(p), Base(p)) /\ Base(p) \in Name)
  BY <1>4, StoreHas, PathSplit
<1>9. \A p \in U : p = Append(a, Base(p)) /\ Base(p) \in Name /\ IsPrefix(a, p)
  BY <1>7, <1>8, PrefixSelf, PrefixDown
<1>10. z \in Name /\ q = Append(a, z) /\ q \in DOMAIN t.files /\ q \in Path /\ ~ Has(t, w) /\ IsDir(t, b) /\ b \notin t.nilmaps
  BY <1>1, <1>2, <1>7, <1>8, <1>9
<1>11. w \in Path /\ w # <<>> /\ Dir(w) = b /\ Base(w) = z BY <1>2, <1>10, PathAppend
<1>12. w \notin DOMAIN t.files /\ w # a /\ w # q /\ b \notin U /\ b # q /\ b # w
  BY <1>4, <1>9, <1>10, <1>11 DEF Has
<1>13. m = move(t, q, w) BY <1>2, <1>10, PathToNext
<1>14. Relocated(t, q, w, m) BY <1>4, <1>10, <1>11, <1>12, <1>13, MoveIn
<1>15. m.res = "ok" BY <1>10, <1>11, <1>14 DEF Relocated
<1>16. /\ StoreOK(v) /\ v.kind = s.kind /\ DOMAIN v.files = (DOMAIN t.files \cup {w}) \ {q}
       /\ v.files[w] = t.files[q]
       /\ \A p \in DOMAIN t.files : p # q /\ p # w => v.files[p] = t.files[p]
  BY <1>3, <1>4, <1>14 DEF Relocated
<1>17. b \notin v.nilmaps BY <1>3, <1>10, <1>12, <1>14, <1>15 DEF Relocated
<1>18. Dir(q) = a /\ Base(q) = z BY <1>1, <1>7
<1>19. \A x, n : ~ Listed(t, q, x, n)
  <2> SUFFICES ASSUME NEW x, NEW n, Listed(t, q, x, n) PROVE FALSE OBVIOUS
  <2>1. Append(q, x) \in DOMAIN t.files BY <1>6, <1>12 DEF Has
  <2>2. x \in Name BY <1>4, ListedPath
  <2>3. Append(q, x) # <<>> /\ Dir(Append(q, x)) = q BY <1>10, <2>2, PathAppend
  <2> QED BY <1>4, <2>1, <2>3
<1>20. \A k, x, n : Listed(v, k, x, n) <=>
         \/ k = b /\ x = z /\ n = t.files[q]
         \/ k = b /\ x # z /\ Listed(t, k, x, n)
         \/ k # b /\ k # w /\ k # q /\ Listed(t, k, x, n)
  <2>1. \A k, x, n : Listed(v, k, x, n) <=>
          /\ k # q /\ ~(k = a /\ x = z)
          /\ \/ k = w /\ Listed(t, q, x, n)
             \/ k = b /\ x = z /\ n = t.files[q]
             \/ k = b /\ x # z /\ Listed(t, k, x, n)
             \/ k # b /\ k # w /\ Listed(t, k, x, n)
    <3>1. Relisted(t, v, q, a, z, w, b, z, t.files[q])
      BY <1>3, <1>11, <1>14, <1>15, <1>18 DEF Relocated
    <3> QED BY <3>1 DEF Relisted
  <2> QED BY <1>4, <1>12, <1>19, <2>1
<1>21. \A p : p # q /\ p # w /\ IsDir(t, p) => IsDir(v, p) BY <1>4, <1>16 DEF IsDir, Has, Kind
<1>22. IsDir(v, b) BY <1>10, <1>12, <1>21
<1>23. ASSUME NEW p \in DOMAIN v.files, p # <<>>, p \notin U \ {q}
       PROVE  IsDir(v, Dir(p)) /\ Listed(v, Dir(p), Base(p), v.files[p])
  <2>1. CASE p = w BY <1>11, <1>16, <1>20, <1>22, <2>1
  <2>2. CASE p # w
    <3>1. p \in DOMAIN t.files /\ p # q /\ v.files[p] = t.files[p] /\ p \notin U
      BY <1>16, <1>23, <2>2
    <3>2. IsDir(t, Dir(p)) /\ Listed(t, Dir(p), Base(p), t.files[p]) BY <1>5, <1>23, <3>1
    <3>3. Dir(p) # q /\ Dir(p) # w BY <1>4, <1>12, <1>23, <3>1, <3>2 DEF IsDir, Has
    <3>4. ~(Dir(p) = b /\ Base(p) = z) BY <1>2, <1>8, <1>23, <2>2, <3>1
    <3> QED BY <1>20, <1>21, <3>1, <3>2, <3>3, <3>4
  <2> QED BY <2>1, <2>2
<1>24. ASSUME NEW k, NEW x, NEW n, Listed(v, k, x, n)
       PROVE  Has(v, Append(k, x)) \/ (k = b /\ Append(a, x) \in U \ {q})
  <2>1. CASE k = b /\ x = z BY <1>2, <1>12, <1>16, <2>1 DEF Has
  <2>2. CASE Listed(t, k, x, n) /\ ~(k = b /\ x = z)
    <3>1. k \in Path /\ x \in Name BY <1>4, <2>2, ListedPath
    <3>2. k # a BY <1>4, <2>2
    <3>3. Append(k, x) # q BY <1>10, <3>1, <3>2, PathEq
    <3>4. k = b => Append(a, x) # q BY <1>10, <2>2, <3>1, PathEq
    <3> QED BY <1>6, <1>16, <2>2, <3>3, <3>4 DEF Has
  <2> QED BY <1>20, <1>24, <2>1, <2>2
<1>25. ASSUME NEW p \in U \ {q}
       PROVE  /\ p \in DOMAIN v.files /\ p # <<>> /\ Dir(p) = a
              /\ Listed(v, b, Base(p), v.files[p]) /\ ~ Has(v, Append(b, Base(p)))
              /\ IsDir(v, b) /\ b \notin v.nilmaps
  <2>1. p \in U /\ p # q /\ p \in DOMAIN t.files /\ p # w BY <1>7, <1>12
  <2>2. p \in DOMAIN v.files /\ v.files[p] = t.files[p] BY <1>16, <2>1
  <2>3. Base(p) # z /\ Base(p) \in Name BY <1>9, <1>10, <2>1
  <2>4. Listed(v, b, Base(p), v.files[p]) BY <1>7, <1>20, <2>1, <2>2, <2>3
  <2>5. Append(b, Base(p)) # w BY <1>2, <1>10, <2>3, PathEq
  <2>6. ~ Has(v, Append(b, Base(p))) BY <1>7, <1>16, <2>1, <2>5 DEF Has
  <2> QED BY <1>7, <1>17, <1>22, <2>1, <2>2, <2>4, <2>6
<1>26. \A p \in DOMAIN v.files : p # <<>> => Dir(p) \notin U \ {q}
  BY <1>4, <1>11, <1>12, <1>16
<1>27. \A x, n : ~ Listed(v, a, x, n) BY <1>4, <1>20
<1>28. \A p \in DOMAIN s.files : p # b => \E p2 \in DOMAIN v.files : v.files[p2] = s.files[p]
  <2> SUFFICES ASSUME NEW p \in DOMAIN s.files, p # b
               PROVE  \E p2 \in DOMAIN v.files : v.files[p2] = s.files[p] OBVIOUS
  <2>1. PICK p1 \in DOMAIN t.files : t.files[p1] = s.files[p] BY DEF Halfway
  <2> QED BY <1>12, <1>16, <2>1
<1>29. \A p : ~ IsPrefix(a, p) /\ ~ IsPrefix(b, p) => Node(v, p) = Node(s, p)
  <2>1. IsPrefix(a, q) /\ IsPrefix(b, w) BY <1>2, <1>9, <1>10, PrefixSelf, PrefixDown
  <2>2. \A p : p # q /\ p # w => Node(v, p) = Node(t, p) BY <1>16 DEF Node, Has
  <2> QED BY <2>1, <2>2 DEF Halfway
<1>30. a \notin DOMAIN v.files /\ b \in DOMAIN v.files BY <1>4, <1>12, <1>16
<1>31. Halfway(s, v, U \ {q}, a, b)
  BY <1>16, <1>23, <1>24, <1>25, <1>26, <1>27, <1>28, <1>29, <1>30 DEF Halfway
<1> QED BY <1>3, <1>15, <1>31

\* How a RENAME ends that moves whole directories only.
Carried(s, r, a, b) == r.res = "panic" \/ (r.res = "ok" /\ Halfway(s, r.s, {}, a, b))

\* What is left of the order after n moves.
Left(order, n) == {order[m] : m \in (n + 1)..Len(order)}

\* After n moves the run has panicked or is in the middle of the RENAME.
OnTheWay(s, r, n, order, a, b) == r.res = "panic" \/ (r.res = "ok" /\ Halfway(s, r.s, Left(order, n), a, b))

\* Every path to be moved is moved once.
Ordered(S, order) ==
  /\ Len(order) \in Nat /\ (\A m \in 1..Len(order) : order[m] \in S)
  /\ (\A m, n \in 1..Len(order) : order[m] = order[n] => m = n)
  /\ \A q \in S : \E m \in 1..Len(order) : order[m] = q

\* An order of Go's range over the map has every path once.
LEMMA OrderedIs ==
  ASSUME NEW S, IsFiniteSet(S), NEW order \in Orders(S)
  PROVE  Ordered(S, order)
<1>1. PICK N : N = Cardinality(S) OBVIOUS
<1>2. N \in Nat BY <1>1, FS_CardinalityType
<1>3. order \in [1..N -> S] BY <1>1 DEF Orders, Bijection, Injection, Surjection, IsInjective
<1>4. \A m, n \in 1..N : order[m] = order[n] => m = n
  BY <1>1, <1>3 DEF Orders, Bijection, Injection, Surjection, IsInjective
<1>5. \A q \in S : \E m \in 1..N : order[m] = q
  BY <1>1, <1>3 DEF Orders, Bijection, Injection, Surjection, IsInjective
<1>6. Len(order) = N BY SMT, <1>2, <1>3
<1>7. \A m \in 1..N : order[m] \in S BY <1>3
<1> QED BY <1>2, <1>4, <1>5, <1>6, <1>7 DEF Ordered

\* Before the first move all is left.
LEMMA LeftFirst ==
  ASSUME NEW U, NEW order, Ordered(U, order)
  PROVE  Left(order, 0) = U
<1>1. PICK N : N = Len(order) OBVIOUS
<1>2. (0 + 1)..N = 1..N BY SMT
<1>3. Left(order, 0) = {order[m] : m \in 1..N} BY <1>1, <1>2 DEF Left
<1>4. \A q \in {order[m] : m \in 1..N} : q \in U
  <2> SUFFICES ASSUME NEW m \in 1..N PROVE order[m] \in U OBVIOUS
  <2> QED BY <1>1 DEF Ordered
<1>5. \A q \in U : q \in {order[m] : m \in 1..N}
  <2> SUFFICES ASSUME NEW q \in U PROVE q \in {order[m] : m \in 1..N} OBVIOUS
  <2>1. PICK m \in 1..N : order[m] = q BY <1>1 DEF Ordered
  <2> QED BY <2>1
<1> QED BY <1>3, <1>4, <1>5

\* A move takes one path from what is left.
LEMMA LeftNext ==
  ASSUME NEW U, NEW order, Ordered(U, order), NEW n \in 1..Len(order)
  PROVE  order[n] \in Left(order, n - 1) /\ Left(order, n) = Left(order, n - 1) \ {order[n]}
<1>1. PICK N : N = Len(order) OBVIOUS
<1>2. N \in Nat /\ n \in 1..N /\ \A i, j \in 1..N : order[i] = order[j] => i = j BY <1>1 DEF Ordered
<1>3. (n - 1) + 1 = n BY SMT, <1>2
<1>4. PICK V : V = Left(order, n - 1) OBVIOUS
<1>5. PICK W : W = Left(order, n) OBVIOUS
<1>6. V = {order[m] : m \in n..N} /\ W = {order[m] : m \in (n + 1)..N} BY <1>1, <1>3, <1>4, <1>5 DEF Left
<1>7. n \in n..N /\ \A m \in (n + 1)..N : m \in n..N /\ m # n /\ m \in 1..N BY SMT, <1>2
<1>8. \A m \in n..N : m # n => m \in (n + 1)..N BY SMT, <1>2
<1>9. order[n] \in V BY <1>6, <1>7
<1>10. \A q \in W : q \in V /\ q # order[n]
  <2> SUFFICES ASSUME NEW q \in W PROVE q \in V /\ q # order[n] OBVIOUS
  <2>1. PICK m \in (n + 1)..N : q = order[m] BY <1>6
  <2>2. m \in n..N /\ m # n /\ m \in 1..N BY <1>7
  <2>3. q # order[n] BY <1>2, <2>1, <2>2
  <2>4. q \in V BY <1>6, <2>1, <2>2
  <2> QED BY <2>3, <2>4
<1>11. \A q \in V : q # order[n] => q \in W
  <2> SUFFICES ASSUME NEW q \in V, q # order[n] PROVE q \in W OBVIOUS
  <2>1. PICK m \in n..N : q = order[m] BY <1>6
  <2>2. m \in (n + 1)..N BY <1>8, <2>1
  <2> QED BY <1>6, <2>1, <2>2
<1>12. W = V \ {order[n]} BY <1>10, <1>11
<1> QED BY <1>4, <1>5, <1>9, <1>12

\* A RENAME that is not rough carries the whole directory, or panics.
LEMMA SmoothRename ==
  ASSUME NEW s, NEW a, NEW b, Smooth(s, a, b), NEW r \in RenamePath(s, a, b)
  PROVE  Carried(s, r, a, b)
<1>1. PICK U : U = Others(s, a) OBVIOUS
<1>2. StoreOK(s) /\ a \in DOMAIN s.files /\ b \in Path /\ b # <<>> /\ IsDir(s, Dir(b)) BY DEF Smooth
<1>3. a \in Path /\ a # b /\ ~ IsPrefix(a, b) /\ Dir(a) # b /\ Dir(b) # a BY SmoothIs
<1>4. PICK order \in Orders(U) : r = moveAll(s, a, b, order) BY <1>1, <1>2 DEF RenamePath, Has
<1>5. IsFiniteSet(U) BY <1>1, <1>2, OthersAre
<1>6. PICK N : N = Len(order) OBVIOUS
<1>7. N \in Nat /\ Ordered(U, order)
  <2>1. Ordered(U, order) BY <1>5, OrderedIs
  <2> QED BY <1>6, <2>1 DEF Ordered
<1>8. PICK run : /\ r = run[N] /\ run[0] = move(s, a, b)
                 /\ \A n \in 1..N : run[n] = moveNext(run[n - 1], order[n], a, b)
  <2>1. PICK run : RunsTo(run, s, a, b, order, N) BY <1>6, <1>7, RunIs
  <2> QED BY <1>4, <2>1 DEF RunsTo
<1>9. OnTheWay(s, run[0], 0, order, a, b)
  <2>1. Relocated(s, a, b, run[0]) BY <1>2, <1>3, <1>8, MoveIn
  <2>2. run[0].res \in {"ok", "panic"} BY <2>1 DEF Relocated
  <2>4. Left(order, 0) = U BY <1>7, LeftFirst
  <2>5. run[0].res = "ok" => Halfway(s, run[0].s, U, a, b) BY <1>1, <1>8, FirstMove
  <2> QED BY <2>2, <2>4, <2>5 DEF OnTheWay
<1>10. ASSUME NEW n \in 1..N, OnTheWay(s, run[n - 1], n - 1, order, a, b)
       PROVE  OnTheWay(s, run[n], n, order, a, b)
  <2>1. PICK g : g = run[n - 1] OBVIOUS
  <2>2. PICK q : q = order[n] OBVIOUS
  <2>3. run[n] = moveNext(g, q, a, b) BY <1>8, <2>1, <2>2
  <2>4. CASE g.res # "ok"
    <3>1. run[n] = g BY <2>3, <2>4 DEF moveNext
    <3> QED BY <1>10, <2>1, <2>4, <3>1 DEF OnTheWay
  <2>5. CASE g.res = "ok"
    <3>1. run[n] = move(g.s, q, pathTo(q, a, b)) BY <2>3, <2>5 DEF moveNext
    <3>2. PICK V : V = Left(order, n - 1) OBVIOUS
    <3>3. Halfway(s, g.s, V, a, b) BY <1>10, <2>1, <2>5, <3>2 DEF OnTheWay
    <3>5. q \in V /\ Left(order, n) = V \ {q} BY <1>6, <1>7, <2>2, <3>2, LeftNext
    <3>7. run[n].res = "ok" /\ Halfway(s, run[n].s, V \ {q}, a, b)
      BY <1>2, <1>3, <3>1, <3>3, <3>5, NextMove
    <3> QED BY <3>5, <3>7 DEF OnTheWay
  <2> QED BY <2>4, <2>5
<1> DEFINE T == {n \in 0..N : ~ OnTheWay(s, run[n], n, order, a, b)}
<1>11. SUFFICES ASSUME N \in T PROVE FALSE
  <2>1. N \in 0..N /\ (N + 1)..N = {} BY SMT, <1>7
  <2>2. Left(order, N) = {} BY <1>6, <2>1 DEF Left
  <2> QED BY <1>8, <2>1, <2>2 DEF OnTheWay, Carried
<1>12. T \subseteq Nat BY SMT, <1>7
<1>13. PICK n \in T : \A m \in T : n <= m
  <2> HIDE DEF T
  <2> QED BY <1>11, <1>12, LeastNat
<1>14. n # 0 BY <1>9, <1>13
<1>15. n \in 1..N /\ n - 1 \in 0..N /\ ~(n <= n - 1) BY SMT, <1>7, <1>13, <1>14
<1> QED BY <1>10, <1>13, <1>15

\* Then the tree is whole, every file but the one that b was is still there, and the
\* other paths lead where they led.
Settled(s, t, a, b) ==
  /\ Linked(t) /\ b \in DOMAIN t.files
  /\ \A p \in DOMAIN s.files : p # b => \E q \in DOMAIN t.files : t.files[q] = s.files[p]
  /\ \A p : ~ IsPrefix(a, p) /\ ~ IsPrefix(b, p) => Node(t, p) = Node(s, p)

\* Once nothing is left to be moved the tree is whole.
LEMMA CarriedIs ==
  ASSUME NEW s, NEW t, NEW a, NEW b, Halfway(s, t, {}, a, b)
  PROVE  Settled(s, t, a, b)
<1>1. Linked(t) BY DEF Halfway, Linked
<1> QED BY <1>1 DEF Halfway, Settled

-----------------------------------------------------------------------------
(* Files made and removed.                                                 *)

\* What New and OpenFile do: they put a node at p, if there is none.
Adds(s, p, r) ==
  /\ StoreOK(r.s) /\ r.s.nilmaps = s.nilmaps
  /\ DOMAIN s.files \subseteq DOMAIN r.s.files /\ DOMAIN r.s.files \subseteq DOMAIN s.files \cup {p}
  /\ \A q \in DOMAIN s.files : r.s.files[q] = s.files[q]
  /\ r.res = "panic" => s.nilmaps # {}
  /\ Linked(s) /\ r.res # "panic" => Linked(r.s)

\* A file, directory or link made in a directory that exists.
LEMMA FreshOK ==
  ASSUME NEW s, StoreOK(s), NEW p \in Path, p # <<>>, IsDir(s, Dir(p)), ~ Has(s, p),
         NEW kind \in Kinds
  PROVE  Adds(s, p, NewPath(s, p, kind))
<1>1. PICK n : n = Len(s.kind) + 1 OBVIOUS
<1>2. PICK f : f = Put(s.files, p, n) OBVIOUS
<1>3. PICK k : k = Append(s.kind, kind) OBVIOUS
<1>4. PICK t : t = Store(f, s.children, s.nilmaps, k) OBVIOUS
<1>5. PICK r : r = createParent(t, p, n) OBVIOUS
<1>6. NewPath(s, p, kind) = r BY <1>1, <1>2, <1>3, <1>4, <1>5 DEF NewPath
<1>7. DOMAIN f = DOMAIN s.files \cup {p} /\ f[p] = n /\ \A q \in DOMAIN s.files : f[q] = s.files[q]
  BY <1>2 DEF Put, Has
<1>8. Sound(s.files, s.children, s.nilmaps, s.kind) /\ Len(s.kind) \in Nat BY StoreHas
<1>9. /\ k \in Seq(Kinds) /\ n \in 1..Len(k) /\ \A i \in 1..Len(s.kind) : i \in 1..Len(k) /\ k[i] = s.kind[i]
  BY SMT, <1>1, <1>3, <1>8 DEF Sound
<1>10. f \in [DOMAIN f -> 1..Len(k)]
  <2>1. f = [q \in DOMAIN f |-> f[q]] BY <1>2 DEF Put
  <2>2. \A q \in DOMAIN s.files : s.files[q] \in 1..Len(s.kind) BY <1>8 DEF Sound
  <2>3. \A q \in DOMAIN f : f[q] \in 1..Len(k) BY <1>7, <1>9, <2>2
  <2> QED BY <2>1, <2>3
<1>11. IsFiniteSet(DOMAIN f) BY <1>7, <1>8, FS_AddElement DEF Sound
<1>12. DOMAIN f \subseteq Path BY <1>7, <1>8 DEF Sound
<1>13. Sound(f, s.children, s.nilmaps, k) BY <1>8, <1>9, <1>10, <1>11, <1>12 DEF Sound
<1>14. Holds(t, f, s.children, s.nilmaps, k) BY <1>4, <1>13, StoreIs
<1>15. StoreOK(t) /\ t.files = f /\ t.children = s.children /\ t.nilmaps = s.nilmaps /\ t.kind = k
  BY <1>14 DEF Holds
<1>16. \A q \in DOMAIN s.files : Kind(t, q) = Kind(s, q)
  <2>1. \A q \in DOMAIN s.files : s.files[q] \in 1..Len(s.kind) BY <1>8 DEF Sound
  <2> QED BY <1>7, <1>9, <1>15, <2>1 DEF Kind
<1>17. \A q : IsDir(s, q) => IsDir(t, q) /\ Has(t, q) BY <1>7, <1>15, <1>16 DEF IsDir, Has
<1>18. /\ StoreOK(r.s) /\ Grown(t, r.s) /\ r.res \in {"ok", "error", "panic"}
       /\ r.res = "panic" => t.nilmaps # {}
  BY <1>5, <1>9, <1>15, ParentOK
<1>19. Hooked(t, p, n, r) BY <1>5, <1>15, <1>17, ParentIn
<1>20. r.s.files = f /\ r.s.kind = k /\ r.res # "error" BY <1>15, <1>17, <1>19 DEF Hooked
<1>21. r.s.nilmaps = s.nilmaps BY <1>15, <1>18 DEF Grown
<1>22. ASSUME Linked(s), r.res = "ok" PROVE Linked(r.s)
  <2>1. \A d, x, m : Listed(r.s, d, x, m) <=>
          IF d = Dir(p) /\ x = Base(p) THEN m = n ELSE Listed(s, d, x, m)
    <3>1. \A d, x, m : Listed(t, d, x, m) <=> Listed(s, d, x, m) BY <1>15 DEF Listed
    <3>2. \A d, x, m : Listed(r.s, d, x, m) <=>
            IF d = Dir(p) /\ x = Base(p) THEN m = n ELSE Listed(t, d, x, m)
      BY <1>19, <1>22 DEF Hooked
    <3> QED BY <3>1, <3>2
  <2>2. \A q : IsDir(s, q) => IsDir(r.s, q) BY <1>15, <1>17, <1>20 DEF IsDir, Has, Kind
  <2>3. p = Append(Dir(p), Base(p)) BY PathSplit
  <2>4. ASSUME NEW q \in DOMAIN r.s.files, q # <<>>
        PROVE  IsDir(r.s, Dir(q)) /\ Listed(r.s, Dir(q), Base(q), r.s.files[q])
    <3>1. CASE q = p BY <1>7, <1>20, <2>1, <2>2, <3>1
    <3>2. CASE q # p
      <4>1. q \in DOMAIN s.files /\ r.s.files[q] = s.files[q] BY <1>7, <1>20, <3>2
      <4>2. IsDir(s, Dir(q)) /\ Listed(s, Dir(q), Base(q), s.files[q])
        BY <1>22, <2>4, <4>1 DEF Linked
      <4>3. q \in Path BY <1>8, <4>1 DEF Sound
      <4>4. q = Append(Dir(q), Base(q)) BY <2>4, <4>3, PathSplit
      <4>5. ~(Dir(q) = Dir(p) /\ Base(q) = Base(p)) BY <2>3, <3>2, <4>4
      <4> QED BY <2>1, <2>2, <4>1, <4>2, <4>5
    <3> QED BY <3>1, <3>2
  <2>5. ASSUME NEW d, NEW x, NEW m, Listed(r.s, d, x, m) PROVE Has(r.s, Append(d, x))
    <3>1. Listed(s, d, x, m) => Has(s, Append(d, x)) BY <1>22 DEF Linked
    <3> QED BY <1>7, <1>20, <2>1, <2>3, <2>5, <3>1 DEF Has
  <2> QED BY <2>4, <2>5 DEF Linked
<1>23. Adds(s, p, r) BY <1>7, <1>15, <1>18, <1>20, <1>21, <1>22 DEF Adds
<1> QED BY <1>6, <1>23

\* New and OpenFile, of a path that exists or is in a directory.
LEMMA AddOK ==
  ASSUME NEW s, StoreOK(s), NEW p \in Path, p # <<>>, Has(s, p) \/ IsDir(s, Dir(p)),
         NEW kind \in Kinds
  PROVE  Adds(s, p, NewPath(s, p, kind)) /\ Adds(s, p, OpenFile(s, p))
<1>1. CASE Has(s, p)
  <2>1. ASSUME NEW res, res # "panic" PROVE Adds(s, p, Result(res, s))
    <3>1. PICK r : r = Result(res, s) OBVIOUS
    <3>2. r.res = res /\ r.s = s BY SMT, <3>1 DEF Result
    <3>3. Adds(s, p, r) BY <2>1, <3>2 DEF Adds
    <3> QED BY <3>1, <3>3
  <2>2. PICK e : e = IF Kind(s, p) = "dir" THEN "ok" ELSE "error" OBVIOUS
  <2>3. PICK g : g = IF Kind(s, p) = "dir" THEN "error" ELSE "ok" OBVIOUS
  <2>4. e # "panic" /\ g # "panic" BY SMT, <2>2, <2>3
  <2>5. NewPath(s, p, kind) = Result(e, s) BY <1>1, <2>2 DEF NewPath
  <2>6. OpenFile(s, p) = Result(g, s) BY <1>1, <2>3 DEF OpenFile
  <2> QED BY <2>1, <2>4, <2>5, <2>6
<1>2. CASE ~ Has(s, p)
  <2>1. Adds(s, p, NewPath(s, p, kind)) BY <1>2, FreshOK
  <2>2. "file" \in Kinds BY SMT DEF Kinds
  <2>3. OpenFile(s, p) = NewPath(s, p, "file") BY <1>2 DEF OpenFile
  <2>4. Adds(s, p, NewPath(s, p, "file")) BY <1>2, <2>2, FreshOK
  <2> QED BY <2>1, <2>3, <2>4
<1> QED BY <1>1, <1>2

\* What Remove does.
Drops(s, p, r) ==
  /\ StoreOK(r.s) /\ r.s.nilmaps = s.nilmaps
  /\ DOMAIN r.s.files \subseteq DOMAIN s.files /\ \A q : q # p => Node(r.s, q) = Node(s, q)
  /\ Linked(s) => Linked(r.s)

\* Remove of a file or an empty directory takes one path out of the tree.
LEMMA RemoveOK ==
  ASSUME NEW s, StoreOK(s), NEW p \in Path, p # <<>>, RemovePath(s, p).res = "ok"
  PROVE  Drops(s, p, RemovePath(s, p))
<1>1. PICK r : r = RemovePath(s, p) OBVIOUS
<1>2. /\ ~(Kind(s, p) = "dir" /\ DOMAIN Children(s, p) # {})
      /\ r = Result("ok", Unlink(s, p))
  <2>1. Result("noent", s).res # "ok" /\ Result("error", s).res # "ok" BY SMT DEF Result
  <2> QED BY <1>1, <2>1 DEF RemovePath
<1>3. PICK u : u = Unlink(s, p) OBVIOUS
<1>4. r.s = u BY SMT, <1>2, <1>3 DEF Result
<1>5. Unlinked(s, p, u) BY <1>3, UnlinkOK
<1>6. /\ StoreOK(u) /\ u.kind = s.kind /\ u.nilmaps = s.nilmaps
      /\ DOMAIN u.files = DOMAIN s.files \ {p} /\ \A q \in DOMAIN u.files : u.files[q] = s.files[q]
  BY <1>5 DEF Unlinked
<1>7. \A q : q # p => Node(u, q) = Node(s, q) BY <1>6 DEF Node, Has
<1>8. ASSUME NEW d, NEW x, NEW n
      PROVE  Listed(u, d, x, n) <=> Listed(s, d, x, n) /\ ~(d = Dir(p) /\ x = Base(p))
  <2>1. CASE d # Dir(p) BY <1>5, <2>1 DEF Unlinked, Listed
  <2>2. CASE d = Dir(p)
    <3>1. DOMAIN u.children = DOMAIN s.children BY <1>5 DEF Unlinked
    <3>2. d \in DOMAIN s.children => u.children[d] = Without(s.children[d], Base(p))
      BY <1>5, <2>2 DEF Unlinked
    <3>3. d \in DOMAIN s.children =>
            /\ DOMAIN u.children[d] = DOMAIN s.children[d] \ {Base(p)}
            /\ \A y \in DOMAIN u.children[d] : u.children[d][y] = s.children[d][y]
      BY <3>2 DEF Without, Restrict
    <3> QED BY <2>2, <3>1, <3>3 DEF Listed
  <2> QED BY <2>1, <2>2
<1>9. ASSUME Linked(s) PROVE Linked(u)
  <2>1. p = Append(Dir(p), Base(p)) /\ Dir(p) \in Path /\ Base(p) \in Name BY PathSplit
  <2>2. \A q : q # p /\ IsDir(s, q) => IsDir(u, q) BY <1>6 DEF IsDir, Has, Kind
  <2>3. ASSUME NEW q \in DOMAIN u.files, q # <<>>
        PROVE  IsDir(u, Dir(q)) /\ Listed(u, Dir(q), Base(q), u.files[q])
    <3>1. q \in DOMAIN s.files /\ q # p /\ u.files[q] = s.files[q] BY <1>6
    <3>2. IsDir(s, Dir(q)) /\ Listed(s, Dir(q), Base(q), s.files[q])
      BY <1>9, <2>3, <3>1 DEF Linked
    <3>3. q = Append(Dir(q), Base(q)) BY <2>3, <3>1, StoreHas, PathSplit
    <3>4. Dir(q) # p BY <1>2, <3>2 DEF IsDir, Listed, Children
    <3> QED BY <1>8, <2>1, <2>2, <3>1, <3>2, <3>3, <3>4
  <2>4. ASSUME NEW d, NEW x, NEW n, Listed(u, d, x, n) PROVE Has(u, Append(d, x))
    <3>1. Listed(s, d, x, n) /\ ~(d = Dir(p) /\ x = Base(p)) BY <1>8, <2>4
    <3>2. Has(s, Append(d, x)) BY <1>9, <3>1 DEF Linked
    <3>3. d \in Path /\ x \in Name BY <3>1, ListedPath
    <3>4. Append(d, x) # p BY <2>1, <3>1, <3>3, PathEq
    <3> QED BY <1>6, <3>2, <3>4 DEF Has
  <2> QED BY <2>3, <2>4 DEF Linked
<1>10. DOMAIN u.files \subseteq DOMAIN s.files BY <1>6
<1>11. Drops(s, p, r) BY <1>4, <1>6, <1>7, <1>9, <1>10 DEF Drops
<1> QED BY <1>1, <1>11

-----------------------------------------------------------------------------
(* The inductive invariant, request by request.                            *)

\* A handle that stands for a node reaches it.
Faithful(s, m, away) == \A p \in DOMAIN m \ away : m[p] # 0 => Node(s, p) = m[p]

\* A tree, and handles that reach what they stand for.
Whole(s, m, away) == Linked(s) /\ Faithful(s, m, away)

\* The storage, the handles and the count of requests have their types.
Typed(s, m, o) ==
  /\ StoreOK(s) /\ (\A p \in DOMAIN s.files : Len(p) <= MaxDepth)
  /\ DOMAIN m \subseteq Path /\ o \in 0..MaxOps

\* The inductive invariant.
IInv ==
  /\ Typed(st, meant, ops) /\ WalkOK(walk, listing)
  /\ bare = {} => st.nilmaps = {} /\ ~crashed
  /\ ~rough /\ ~crashed => Whole(st, meant, strayed)

\* What Show makes of the handles.
Shown(m, S, s) ==
  [p \in DOMAIN m \cup S |-> IF p \in DOMAIN m /\ m[p] # 0 THEN m[p] ELSE Node(s, p)]

\* Show keeps the handles that stand for something and takes the others from the storage.
LEMMA ShownIs ==
  ASSUME NEW m, NEW S, NEW s
  PROVE  /\ DOMAIN Shown(m, S, s) = DOMAIN m \cup S
         /\ \A p \in DOMAIN m \cup S :
              Shown(m, S, s)[p] = IF p \in DOMAIN m /\ m[p] # 0 THEN m[p] ELSE Node(s, p)
BY DEF Shown

\* Handles stay faithful as long as nothing that is found goes elsewhere.
LEMMA FaithKept ==
  ASSUME NEW s, NEW t, NEW m, NEW away, NEW S, NEW n, Faithful(s, m, away),
         \A p : Node(s, p) # 0 => Node(t, p) = Node(s, p), n = m \/ n = Shown(m, S, t)
  PROVE  Faithful(t, n, away)
<1>1. CASE n = m BY <1>1 DEF Faithful
<1>2. CASE n = Shown(m, S, t)
  <2>1. DOMAIN n = DOMAIN m \cup S BY <1>2, ShownIs
  <2>2. \A p \in DOMAIN n : n[p] = IF p \in DOMAIN m /\ m[p] # 0 THEN m[p] ELSE Node(t, p)
    BY <1>2, <2>1 DEF Shown
  <2> SUFFICES ASSUME NEW p \in DOMAIN n \ away, n[p] # 0 PROVE Node(t, p) = n[p] BY DEF Faithful
  <2>3. CASE p \in DOMAIN m /\ m[p] # 0
    <3>1. n[p] = m[p] /\ Node(s, p) = m[p] BY <2>2, <2>3 DEF Faithful
    <3> QED BY <2>3, <3>1
  <2>4. CASE ~(p \in DOMAIN m /\ m[p] # 0) BY <2>2, <2>4
  <2> QED BY <2>3, <2>4
<1> QED BY <1>1, <1>2

\* A request that changes no file.
LEMMA StillStep ==
  ASSUME IInv, st' = st, crashed' = crashed, UNCHANGED hist, ops' \in 0..MaxOps, WalkOK(walk', listing'),
         NEW S, S \subseteq Path, meant' = meant \/ Show(S, st)
  PROVE  IInv'
<1>1. rough' = rough /\ bare' = bare /\ strayed' = strayed BY SMT DEF hist
<1>2. meant' = meant \/ meant' = Shown(meant, S, st') BY DEF Show, Shown
<1>3. DOMAIN meant' \subseteq Path
  <2>1. DOMAIN meant \subseteq Path BY DEF IInv, Typed
  <2>2. DOMAIN Shown(meant, S, st') = DOMAIN meant \cup S BY ShownIs
  <2> QED BY <1>2, <2>1, <2>2
<1>4. Typed(st', meant', ops') BY <1>3 DEF IInv, Typed
<1>5. ~rough /\ ~crashed => Whole(st', meant', strayed')
  <2> SUFFICES ASSUME Whole(st, meant, strayed) PROVE Whole(st', meant', strayed') BY DEF IInv
  <2>1. Faithful(st, meant, strayed) BY DEF Whole
  <2>2. \A p : Node(st, p) # 0 => Node(st', p) = Node(st, p) OBVIOUS
  <2>3. Faithful(st', meant', strayed) BY <1>2, <2>1, <2>2, FaithKept
  <2> QED BY <1>1, <2>3 DEF Whole
<1>6. bare' = {} => st'.nilmaps = {} /\ ~crashed' BY <1>1 DEF IInv
<1> QED BY <1>1, <1>4, <1>5, <1>6 DEF IInv

\* A request that makes a file.
LEMMA MadeStep ==
  ASSUME IInv, ~crashed, NEW p \in Path, Len(p) <= MaxDepth, NEW r, Adds(st, p, r), st' = r.s,
         crashed' <=> r.res = "panic", ops' \in 0..MaxOps, UNCHANGED <<walk, listing, hist>>,
         meant' = meant \/ Show({p}, r.s)
  PROVE  IInv'
<1>1. rough' = rough /\ bare' = bare /\ strayed' = strayed /\ walk' = walk /\ listing' = listing BY SMT DEF hist
<1>2. meant' = meant \/ meant' = Shown(meant, {p}, st') BY DEF Show, Shown
<1>3. DOMAIN meant' \subseteq Path
  <2>1. DOMAIN meant \subseteq Path BY DEF IInv, Typed
  <2>2. DOMAIN Shown(meant, {p}, st') = DOMAIN meant \cup {p} BY ShownIs
  <2> QED BY <1>2, <2>1, <2>2
<1>4. Typed(st', meant', ops') BY <1>3 DEF IInv, Typed, Adds
<1>5. WalkOK(walk', listing') BY <1>1 DEF IInv
<1>6. bare' = {} => st'.nilmaps = {} /\ ~crashed' BY <1>1 DEF IInv, Adds
<1>7. ~rough /\ ~crashed' => Whole(st', meant', strayed')
  <2> SUFFICES ASSUME ~rough, ~crashed' PROVE Whole(st', meant', strayed') OBVIOUS
  <2>1. Linked(st) /\ Faithful(st, meant, strayed) BY DEF IInv, Whole
  <2>2. \A q : Node(st, q) # 0 => Node(st', q) = Node(st, q) BY DEF Adds, Node, Has
  <2>3. Faithful(st', meant', strayed) BY <1>2, <2>1, <2>2, FaithKept
  <2>4. Linked(st') BY <2>1 DEF Adds
  <2> QED BY <1>1, <2>3, <2>4 DEF Whole
<1> QED BY <1>1, <1>4, <1>5, <1>6, <1>7 DEF IInv

\* A request about a name in a directory.
LEMMA Asked ==
  ASSUME IInv, NEW d, NEW x \in Name, NEW cost \in {1, 2}, AskIn(d, cost)
  PROVE  /\ ~crashed /\ d \in DOMAIN meant /\ d \in Path /\ ops' \in 0..MaxOps
         /\ Append(d, x) \in Path /\ Append(d, x) # <<>> /\ Dir(Append(d, x)) = d
         /\ Len(Append(d, x)) <= MaxDepth
<1>1. ~crashed /\ d \in DOMAIN meant /\ ops + cost <= MaxOps /\ ops' = ops + cost /\ Len(d) < MaxDepth
  BY DEF AskIn, Ask
<1>2. d \in Path /\ ops \in 0..MaxOps BY <1>1 DEF IInv, Typed
<1>3. MaxOps \in Nat /\ MaxDepth \in Nat BY NamespaceAssumption
<1>4. ops' \in 0..MaxOps BY SMT, <1>1, <1>2, <1>3
<1>5. /\ Append(d, x) \in Path /\ Append(d, x) # <<>> /\ Dir(Append(d, x)) = d
      /\ Len(Append(d, x)) = Len(d) + 1
  BY <1>2, PathAppend
<1>6. Len(d) \in Nat BY SMT, <1>2 DEF Path
<1>7. Len(d) + 1 <= MaxDepth BY SMT, <1>1, <1>3, <1>6
<1> QED BY <1>1, <1>2, <1>4, <1>5, <1>7

\* A request that is refused.
LEMMA RefuseStep ==
  ASSUME IInv, ops' \in 0..MaxOps, Refuse, UNCHANGED <<walk, listing, hist>>
  PROVE  IInv'
<1>1. st' = st /\ crashed' = crashed /\ meant' = meant BY SMT DEF Refuse
<1>2. walk' = walk /\ listing' = listing /\ UNCHANGED hist BY SMT
<1>3. WalkOK(walk', listing') BY <1>2 DEF IInv
<1>4. {} \subseteq Path OBVIOUS
<1> QED BY <1>1, <1>2, <1>3, <1>4, StillStep

\* MKDIR keeps the invariant.
LEMMA MkdirStep ==
  ASSUME IInv, NEW d, NEW x \in Name, Mkdir(d, x)
  PROVE  IInv'
<1>1. PICK p : p = Append(d, x) OBVIOUS
<1>2. 1 \in {1, 2} OBVIOUS
<1>3. AskIn(d, 1) BY DEF Mkdir
<1>4. /\ ~crashed /\ ops' \in 0..MaxOps /\ p \in Path /\ p # <<>> /\ Dir(p) = d /\ Len(p) <= MaxDepth
  BY <1>1, <1>2, <1>3, Asked
<1>5. UNCHANGED <<walk, listing, hist>> BY DEF Mkdir
<1>6. CASE Refuse BY <1>4, <1>5, <1>6, RefuseStep
<1>7. CASE ~ Refuse
  <2>1. PICK r : r = NewPath(st, p, "dir") OBVIOUS
  <2>2. Made(r, p) /\ (Has(st, p) \/ IsDir(st, Dir(p)))
    BY <1>1, <1>4, <1>7, <2>1 DEF Mkdir, IsFile
  <2>3. "dir" \in Kinds BY SMT DEF Kinds
  <2>4. StoreOK(st) BY DEF IInv, Typed
  <2>5. Adds(st, p, r) BY <1>4, <2>1, <2>2, <2>3, <2>4, AddOK
  <2>6. st' = r.s /\ (crashed' <=> r.res = "panic") /\ (meant' = meant \/ Show({p}, r.s))
    BY <2>2 DEF Made
  <2> QED BY <1>4, <1>5, <2>5, <2>6, MadeStep
<1> QED BY <1>6, <1>7

\* CREATE keeps the invariant.
LEMMA CreateStep ==
  ASSUME IInv, NEW d, NEW x \in Name, NEW guarded, Create(d, x, guarded)
  PROVE  IInv'
<1>1. PICK p : p = Append(d, x) OBVIOUS
<1>2. 1 \in {1, 2} OBVIOUS
<1>3. AskIn(d, 1) BY DEF Create
<1>4. /\ ~crashed /\ ops' \in 0..MaxOps /\ p \in Path /\ p # <<>> /\ Dir(p) = d /\ Len(p) <= MaxDepth
  BY <1>1, <1>2, <1>3, Asked
<1>5. UNCHANGED <<walk, listing, hist>> BY DEF Create
<1>6. CASE Refuse BY <1>4, <1>5, <1>6, RefuseStep
<1>7. CASE ~ Refuse
  <2>1. PICK r : r = OpenFile(st, p) OBVIOUS
  <2>2. /\ Made(r, p) \/ (r.res = "ok" /\ st' = r.s /\ UNCHANGED <<crashed, meant>>)
        /\ Has(st, p) \/ IsDir(st, Dir(p))
    BY <1>1, <1>4, <1>7, <2>1 DEF Create
  <2>3. "file" \in Kinds BY SMT DEF Kinds
  <2>4. StoreOK(st) BY DEF IInv, Typed
  <2>5. Adds(st, p, r) BY <1>4, <2>1, <2>2, <2>3, <2>4, AddOK
  <2>6. CASE Made(r, p)
    <3>1. st' = r.s /\ (crashed' <=> r.res = "panic") /\ (meant' = meant \/ Show({p}, r.s))
      BY <2>6 DEF Made
    <3> QED BY <1>4, <1>5, <2>5, <3>1, MadeStep
  <2>7. CASE r.res = "ok" /\ st' = r.s /\ UNCHANGED <<crashed, meant>>
    <3>1. r.res # "panic" /\ crashed' = crashed /\ meant' = meant BY SMT, <2>7
    <3>2. crashed' <=> r.res = "panic" BY <1>4, <3>1
    <3> QED BY <1>4, <1>5, <2>5, <2>7, <3>1, <3>2, MadeStep
  <2> QED BY <2>2, <2>6, <2>7
<1> QED BY <1>6, <1>7

\* SYMLINK keeps the invariant.
LEMMA SymlinkStep ==
  ASSUME IInv, NEW d, NEW x \in Name, Symlink(d, x)
  PROVE  IInv'
<1>1. PICK p : p = Append(d, x) OBVIOUS
<1>2. 1 \in {1, 2} OBVIOUS
<1>3. AskIn(d, 1) BY DEF Symlink
<1>4. /\ ~crashed /\ ops' \in 0..MaxOps /\ p \in Path /\ p # <<>> /\ Dir(p) = d /\ Len(p) <= MaxDepth
  BY <1>1, <1>2, <1>3, Asked
<1>5. UNCHANGED <<walk, listing, hist>> BY DEF Symlink
<1>6. CASE Refuse BY <1>4, <1>5, <1>6, RefuseStep
<1>7. CASE ~ Refuse
  <2>1. PICK r : r = NewPath(st, p, "link") OBVIOUS
  <2>2. Made(r, p) /\ IsDir(st, Dir(p))
    BY <1>1, <1>4, <1>7, <2>1 DEF Symlink
  <2>3. "link" \in Kinds BY SMT DEF Kinds
  <2>4. StoreOK(st) BY DEF IInv, Typed
  <2>5. Adds(st, p, r) BY <1>4, <2>1, <2>2, <2>3, <2>4, AddOK
  <2>6. st' = r.s /\ (crashed' <=> r.res = "panic") /\ (meant' = meant \/ Show({p}, r.s))
    BY <2>2 DEF Made
  <2> QED BY <1>4, <1>5, <2>5, <2>6, MadeStep
<1> QED BY <1>6, <1>7

\* What InvalidateHandle leaves.
LEMMA InvalidateIs ==
  ASSUME NEW S, Invalidate(S)
  PROVE  DOMAIN meant' = DOMAIN meant \ S /\ \A p \in DOMAIN meant' : meant'[p] = meant[p]
BY DEF Invalidate, Restrict

\* REMOVE and RMDIR keep the invariant.
LEMMA DeleteStep ==
  ASSUME IInv, NEW d, NEW x \in Name, Delete(d, x)
  PROVE  IInv'
<1>1. PICK p : p = Append(d, x) OBVIOUS
<1>2. 1 \in {1, 2} OBVIOUS
<1>3. AskIn(d, 1) BY DEF Delete
<1>4. ~crashed /\ ops' \in 0..MaxOps /\ p \in Path /\ p # <<>> BY <1>1, <1>2, <1>3, Asked
<1>5. UNCHANGED <<walk, listing, hist>> BY DEF Delete
<1>6. CASE Refuse BY <1>4, <1>5, <1>6, RefuseStep
<1>7. CASE ~ Refuse
  <2>1. PICK r : r = RemovePath(st, p) OBVIOUS
  <2>2. r.res = "ok" /\ st' = r.s /\ Invalidate({p}) /\ UNCHANGED crashed
    BY <1>1, <1>7, <2>1 DEF Delete
  <2>3. StoreOK(st) /\ (\A q \in DOMAIN st.files : Len(q) <= MaxDepth) /\ DOMAIN meant \subseteq Path
    BY DEF IInv, Typed
  <2>4. Drops(st, p, r) BY <1>4, <2>1, <2>2, <2>3, RemoveOK
  <2>5. DOMAIN meant' = DOMAIN meant \ {p} /\ \A q \in DOMAIN meant' : meant'[q] = meant[q]
    BY <2>2, InvalidateIs
  <2>6. rough' = rough /\ bare' = bare /\ strayed' = strayed /\ walk' = walk /\ listing' = listing
    BY SMT, <1>5 DEF hist
  <2>7. Typed(st', meant', ops') BY <1>4, <2>2, <2>3, <2>4, <2>5 DEF Typed, Drops
  <2>8. WalkOK(walk', listing') BY <2>6 DEF IInv
  <2>9. bare' = {} => st'.nilmaps = {} /\ ~crashed' BY <2>2, <2>4, <2>6 DEF IInv, Drops
  <2>10. ~rough => Whole(st', meant', strayed')
    <3> SUFFICES ASSUME ~rough PROVE Whole(st', meant', strayed') OBVIOUS
    <3>1. Linked(st) /\ Faithful(st, meant, strayed) BY <1>4 DEF IInv, Whole
    <3>2. Linked(st') /\ \A q : q # p => Node(st', q) = Node(st, q) BY <2>2, <2>4, <3>1 DEF Drops
    <3>3. Faithful(st', meant', strayed') BY <2>5, <2>6, <3>1, <3>2 DEF Faithful
    <3> QED BY <3>2, <3>3 DEF Whole
  <2> QED BY <2>6, <2>7, <2>8, <2>9, <2>10 DEF IInv
<1> QED BY <1>6, <1>7

\* LOOKUP of a name keeps the invariant.
LEMMA LookupStep ==
  ASSUME IInv, NEW d, NEW x \in Name, Lookup(d, x)
  PROVE  IInv'
<1>1. PICK S : S = {Append(d, x)} OBVIOUS
<1>2. 1 \in {1, 2} OBVIOUS
<1>3. AskIn(d, 1) BY DEF Lookup
<1>4. ops' \in 0..MaxOps /\ S \subseteq Path BY <1>1, <1>2, <1>3, Asked
<1>5. Show(S, st) BY <1>1 DEF Lookup
<1>6. st' = st /\ crashed' = crashed /\ walk' = walk /\ listing' = listing /\ UNCHANGED hist BY SMT DEF Lookup
<1>7. WalkOK(walk', listing') BY <1>6 DEF IInv
<1> QED BY <1>4, <1>5, <1>6, <1>7, StillStep

\* LOOKUP of the parent keeps the invariant.
LEMMA LookupParentStep ==
  ASSUME IInv, NEW d, LookupParent(d)
  PROVE  IInv'
<1>1. PICK S : S = {Dir(d)} OBVIOUS
<1>2. d \in DOMAIN meant /\ ops + 1 <= MaxOps /\ ops' = ops + 1 /\ d # <<>> /\ Show(S, st)
  BY <1>1 DEF LookupParent, Ask
<1>3. d \in Path /\ ops \in 0..MaxOps BY <1>2 DEF IInv, Typed
<1>4. MaxOps \in Nat BY NamespaceAssumption
<1>5. ops' \in 0..MaxOps BY SMT, <1>2, <1>3, <1>4
<1>6. S \subseteq Path BY <1>1, <1>2, <1>3, PathSplit
<1>7. st' = st /\ crashed' = crashed /\ walk' = walk /\ listing' = listing /\ UNCHANGED hist BY SMT DEF LookupParent
<1>8. WalkOK(walk', listing') BY <1>7 DEF IInv
<1> QED BY <1>2, <1>5, <1>6, <1>7, <1>8, StillStep

\* RENAME as one call of the backend, or two.
RenameTo(d, x, e, y, first, r) ==
  LET from == Append(d, x)
      to == Append(e, y) IN
  /\ IsDir(st, d) /\ IsDir(st, e) /\ Has(st, from)
  /\ first \in RenamePath(st, from, to) /\ r \in dropAndRetry(first, from, to)
  /\ \A q \in DOMAIN r.s.files : Len(q) <= MaxDepth
  /\ st' = r.s /\ crashed' = (r.res = "panic")
  /\ IF r.res = "ok" THEN InvalidateBoth(from, to) ELSE UNCHANGED meant
  /\ bare' = bare \cup Bare(st, from, to) \cup
             (IF first.res = "error" THEN Bare(first.s, from, to) ELSE {})
  /\ rough' = (rough \/ Rough(st, from, to))
  /\ strayed' = strayed \cup
       {p \in DOMAIN meant : IsStrictPrefix(from, p) \/ IsStrictPrefix(to, p)}

\* RENAME is refused or goes to the backend.
LEMMA RenameIs ==
  ASSUME NEW d, NEW x, NEW e, NEW y, Rename(d, x, e, y)
  PROVE  (\E first, r : RenameTo(d, x, e, y, first, r)) \/ (Refuse /\ UNCHANGED hist)
<1>1. PICK from : from = Append(d, x) OBVIOUS
<1>2. PICK to : to = Append(e, y) OBVIOUS
<1>3. CASE IsDir(st, d) /\ IsDir(st, e) /\ Has(st, from)
  <2>1. /\ \E first \in RenamePath(st, from, to) : \E r \in dropAndRetry(first, from, to) :
               /\ \A q \in DOMAIN r.s.files : Len(q) <= MaxDepth
               /\ st' = r.s /\ crashed' = (r.res = "panic")
               /\ IF r.res = "ok" THEN InvalidateBoth(from, to) ELSE UNCHANGED meant
               /\ bare' = bare \cup Bare(st, from, to) \cup
                          (IF first.res = "error" THEN Bare(first.s, from, to) ELSE {})
        /\ rough' = (rough \/ Rough(st, from, to))
        /\ strayed' = strayed \cup
             {p \in DOMAIN meant : IsStrictPrefix(from, p) \/ IsStrictPrefix(to, p)}
    BY <1>1, <1>2, <1>3 DEF Rename
  <2> QED BY <1>1, <1>2, <1>3, <2>1 DEF RenameTo
<1>4. CASE ~(IsDir(st, d) /\ IsDir(st, e) /\ Has(st, from)) BY <1>1, <1>2, <1>4 DEF Rename
<1> QED BY <1>3, <1>4

\* What RENAME does in any case.
Renames(s, from, to, r) ==
  /\ StoreOK(r.s)
  /\ s.nilmaps = {} /\ Bare(s, from, to) = {} => r.res # "panic" /\ r.s.nilmaps = {}

\* Rename does that.
LEMMA RenamesAny ==
  ASSUME NEW s, StoreOK(s), NEW from, from # <<>>, NEW to \in Path, to # <<>>,
         NEW r \in RenamePath(s, from, to)
  PROVE  Renames(s, from, to, r)
BY RenameOK DEF Renames

\* A smooth RENAME is carried out in full, at once.
LEMMA RenameCarries ==
  ASSUME IInv, NEW d, NEW x \in Name, NEW e, NEW y \in Name, NEW first, NEW r, ~ crashed,
         d \in Path, e \in Path, RenameTo(d, x, e, y, first, r), ~ rough', ~ crashed'
  PROVE  /\ ~ rough /\ Linked(st) /\ Faithful(st, meant, strayed)
         /\ r = first /\ r.res = "ok" /\ Halfway(st, st', {}, Append(d, x), Append(e, y))
<1>1. PICK from : from = Append(d, x) OBVIOUS
<1>2. PICK to : to = Append(e, y) OBVIOUS
<1>3. from \in Path /\ from # <<>> /\ to \in Path /\ to # <<>> /\ Dir(to) = e
  BY <1>1, <1>2, PathAppend
<1>4. /\ IsDir(st, e) /\ from \in DOMAIN st.files
      /\ first \in RenamePath(st, from, to) /\ r \in dropAndRetry(first, from, to)
      /\ st' = r.s /\ crashed' = (r.res = "panic") /\ rough' = (rough \/ Rough(st, from, to))
  BY <1>1, <1>2 DEF RenameTo, Has
<1>5. ~ rough /\ ~ Rough(st, from, to) /\ r.res # "panic" BY <1>4
<1>6. StoreOK(st) /\ Linked(st) /\ Faithful(st, meant, strayed) BY <1>5 DEF IInv, Typed, Whole
<1>7. Smooth(st, from, to) BY <1>3, <1>4, <1>5, <1>6 DEF Smooth
<1>8. Carried(st, first, from, to) BY <1>4, <1>7, SmoothRename
<1>9. first.res # "error"
  <2>1. first.res = "panic" \/ first.res = "ok" BY <1>8 DEF Carried
  <2> QED BY SMT, <2>1
<1>10. r = first BY <1>4, <1>9 DEF dropAndRetry
<1>11. r.res = "ok" /\ Halfway(st, st', {}, from, to) BY <1>4, <1>5, <1>8, <1>10 DEF Carried
<1> QED BY <1>1, <1>2, <1>5, <1>6, <1>10, <1>11

\* RENAME keeps the invariant.
LEMMA RenameStep ==
  ASSUME IInv, NEW d, NEW x \in Name, NEW e, NEW y \in Name, Rename(d, x, e, y)
  PROVE  IInv'
<1>1. PICK from : from = Append(d, x) OBVIOUS
<1>2. PICK to : to = Append(e, y) OBVIOUS
<1>3. 2 \in {1, 2} OBVIOUS
<1>4. AskIn(d, 2) /\ AskIn(e, 2) /\ UNCHANGED <<walk, listing>> BY DEF Rename
<1>5. ~crashed /\ d \in Path /\ ops' \in 0..MaxOps /\ from \in Path /\ from # <<>>
  BY <1>1, <1>3, <1>4, Asked
<1>6. e \in Path /\ to \in Path /\ to # <<>> BY <1>2, <1>3, <1>4, Asked
<1>7. walk' = walk /\ listing' = listing BY SMT, <1>4
<1>8. CASE Refuse /\ UNCHANGED hist
  <2>1. UNCHANGED <<walk, listing, hist>> BY SMT, <1>7, <1>8
  <2> QED BY <1>5, <1>8, <2>1, RefuseStep
<1>9. ASSUME NEW first, NEW r, RenameTo(d, x, e, y, first, r) PROVE IInv'
  <2>1. /\ first \in RenamePath(st, from, to) /\ r \in dropAndRetry(first, from, to)
        /\ \A q \in DOMAIN r.s.files : Len(q) <= MaxDepth
        /\ st' = r.s /\ crashed' = (r.res = "panic")
        /\ IF r.res = "ok" THEN InvalidateBoth(from, to) ELSE UNCHANGED meant
    BY <1>1, <1>2, <1>9 DEF RenameTo
  <2>2. /\ bare' = bare \cup Bare(st, from, to) \cup
                   (IF first.res = "error" THEN Bare(first.s, from, to) ELSE {})
        /\ strayed' = strayed \cup
             {p \in DOMAIN meant : IsStrictPrefix(from, p) \/ IsStrictPrefix(to, p)}
    BY <1>1, <1>2, <1>9 DEF RenameTo
  <2>3. StoreOK(st) /\ DOMAIN meant \subseteq Path BY DEF IInv, Typed
  <2>4. Renames(st, from, to, first) BY <1>5, <1>6, <2>1, <2>3, RenamesAny
  <2>5. first.res = "error" => Renames(first.s, from, to, r)
    <3> SUFFICES ASSUME first.res = "error" PROVE Renames(first.s, from, to, r) OBVIOUS
    <3>1. r \in RenamePath(first.s, from, to) BY <2>1 DEF dropAndRetry
    <3>2. StoreOK(first.s) BY <2>4 DEF Renames
    <3> QED BY <1>5, <1>6, <3>1, <3>2, RenamesAny
  <2>6. first.res # "error" => r = first BY <2>1 DEF dropAndRetry
  <2>7. StoreOK(st') BY <2>1, <2>4, <2>5, <2>6 DEF Renames
  <2>8. /\ DOMAIN meant' \subseteq DOMAIN meant /\ \A p \in DOMAIN meant' : meant'[p] = meant[p]
        /\ r.res = "ok" => from \notin DOMAIN meant' /\ to \notin DOMAIN meant'
    <3>1. CASE r.res = "ok"
      <4>1. Invalidate({from, to}) BY <2>1, <3>1 DEF InvalidateBoth
      <4>2. DOMAIN meant' = DOMAIN meant \ {from, to} /\ \A p \in DOMAIN meant' : meant'[p] = meant[p]
        BY <4>1, InvalidateIs
      <4> QED BY <4>2
    <3>2. CASE r.res # "ok"
      <4>1. meant' = meant BY <2>1, <3>2
      <4> QED BY <3>2, <4>1
    <3> QED BY <3>1, <3>2
  <2>9. Typed(st', meant', ops') BY <1>5, <2>1, <2>3, <2>7, <2>8 DEF Typed
  <2>10. WalkOK(walk', listing') BY <1>7 DEF IInv
  <2>11. ASSUME bare' = {} PROVE st'.nilmaps = {} /\ ~crashed'
    <3>1. bare = {} /\ Bare(st, from, to) = {} /\ (first.res = "error" => Bare(first.s, from, to) = {})
      BY <2>2, <2>11
    <3>2. st.nilmaps = {} BY <3>1 DEF IInv
    <3>3. first.res # "panic" /\ first.s.nilmaps = {} BY <2>4, <3>1, <3>2 DEF Renames
    <3>4. r.res # "panic" /\ r.s.nilmaps = {} BY <2>5, <2>6, <3>1, <3>3 DEF Renames
    <3> QED BY <2>1, <3>4
  <2>12. ASSUME ~ rough', ~ crashed' PROVE Whole(st', meant', strayed')
    <3>1. /\ Faithful(st, meant, strayed) /\ r.res = "ok" /\ Halfway(st, st', {}, from, to)
      BY <1>1, <1>2, <1>5, <1>6, <1>9, <2>12, RenameCarries
    <3>2. Linked(st') /\ \A p : ~ IsPrefix(from, p) /\ ~ IsPrefix(to, p) => Node(st', p) = Node(st, p)
      <4>1. Settled(st, st', from, to) BY <3>1, CarriedIs
      <4> QED BY <4>1 DEF Settled
    <3>3. Faithful(st', meant', strayed')
      <4> SUFFICES ASSUME NEW p \in DOMAIN meant' \ strayed', meant'[p] # 0
                   PROVE  Node(st', p) = meant'[p]
        BY DEF Faithful
      <4>1. p \in DOMAIN meant /\ p \notin strayed /\ meant'[p] = meant[p] /\ p # from /\ p # to
        BY <2>2, <2>8, <3>1
      <4>2. ~ IsStrictPrefix(from, p) /\ ~ IsStrictPrefix(to, p) BY <2>2, <4>1
      <4>3. ~ IsPrefix(from, p) /\ ~ IsPrefix(to, p) BY <4>1, <4>2 DEF IsStrictPrefix
      <4>4. Node(st, p) = meant[p] BY <3>1, <4>1 DEF Faithful
      <4> QED BY <3>2, <4>1, <4>3, <4>4
    <3> QED BY <3>2, <3>3 DEF Whole
  <2> QED BY <2>9, <2>10, <2>11, <2>12 DEF IInv
<1> QED BY <1>8, <1>9, RenameIs

\* The handles of the entries of a page are those of paths.
LEMMA ShownPaths ==
  ASSUME NEW d \in Path, NEW names \in Seq(Name)
  PROVE  {Append(d, x) : x \in Range(names)} \subseteq Path
<1>1. \A i \in DOMAIN names : names[i] \in Name BY SMT
<1>2. \A x \in Range(names) : x \in Name BY <1>1 DEF Range
<1> QED BY <1>2, PathAppend

\* READDIR and READDIRPLUS: what becomes of the walk w, which is new or goes on.
LEMMA ReaddirOK ==
  ASSUME IInv, NEW w, NEW room \in 1..Len(Names), NEW plus, w.dir \in DOMAIN meant,
         w = NewWalk(w.dir) \/ (w = walk /\ walk.end = "more"), Readdir(w, room, plus)
  PROVE  WalkOK(walk', listing') /\ \E S : S \subseteq Path /\ (meant' = meant \/ Show(S, st))
<1>1. StoreOK(st) /\ w.dir \in Path /\ WalkOK(walk, listing) BY DEF IInv, Typed
<1>2. PICK got : got = getDirListingWithVerifier(w.dir, w.verf) OBVIOUS
<1>3. PICK page : page = Page(got.contents, w.cookie, room) OBVIOUS
<1>4. PICK S : S = IF plus THEN {Append(w.dir, x) : x \in Range(page.names)} ELSE {} OBVIOUS
<1>5. PICK c : c = Contents(st, w.dir) OBVIOUS
<1>6. Listing(c) BY <1>1, <1>5, ContentsOK
<1>c. w.cookie \in 0..(Len(Names) + 1)
  <2>1. NewWalk(w.dir).cookie = 0 BY SMT DEF NewWalk, Walk
  <2>2. 0 \in 0..(Len(Names) + 1) BY SMT, NamespaceAssumption
  <2>3. walk.cookie \in 0..(Len(Names) + 1) BY <1>1 DEF WalkOK
  <2> QED BY <2>1, <2>2, <2>3
<1>7. CASE ~got.ok \/ BadCookie(w.cookie, w.verf, got.verf)
  <2>1. walk' = Walk(w.dir, w.cookie, w.verf, w.snap, w.names, "error") /\ meant' = meant /\ listing' = listing
    BY <1>2, <1>7 DEF Readdir
  <2>2. IsWalk(walk', w.dir, w.cookie, w.verf, w.snap, w.names, "error") BY <2>1, WalkIs
  <2>3. walk'.cookie = w.cookie /\ walk'.end = "error" BY <2>2 DEF IsWalk
  <2>5. walk'.end \notin {"more", "eof"} /\ walk'.end \in {"none", "more", "eof", "error"} BY SMT, <2>3
  <2>6. WalkOK(walk', listing') BY <1>1, <1>c, <2>1, <2>3, <2>5 DEF WalkOK
  <2>7. {} \subseteq Path OBVIOUS
  <2> QED BY <2>1, <2>6, <2>7
<1>8. CASE ~(~got.ok \/ BadCookie(w.cookie, w.verf, got.verf))
  <2>1. /\ listing' = got.contents /\ walk' = AfterPage(w, page, got.verf, got.contents)
        /\ Show(S, st)
    BY <1>2, <1>3, <1>4, <1>8 DEF Readdir, AfterPage
  <2> SUFFICES WalkOK(walk', listing') /\ Listing(got.contents)
    <3>1. Listing(got.contents) => S \subseteq Path
      <4> SUFFICES ASSUME Listing(got.contents) PROVE S \subseteq Path OBVIOUS
      <4>1. w.cookie \in Nat BY SMT, <1>c
      <4>2. PICK last \in 0..Len(got.contents) : PageTo(got.contents, w.cookie, page, last)
        BY <1>3, <4>1, PageOK
      <4>3. page.names \in Seq(Name) BY <4>2 DEF PageTo
      <4>4. {Append(w.dir, x) : x \in Range(page.names)} \subseteq Path BY <1>1, <4>3, ShownPaths
      <4>5. {} \subseteq Path OBVIOUS
      <4> QED BY <1>4, <4>4, <4>5
    <3> QED BY <2>1, <3>1
  <2>2. CASE w = NewWalk(w.dir)
    <3>1. w.cookie = 0 /\ w.verf = <<>> BY SMT, <2>2 DEF NewWalk, Walk
    <3>2. got = [ok |-> Has(st, w.dir) /\ ~IsLink(st, w.dir), contents |-> c,
                 verf |-> hashPathAndContents(w.dir, c)]
      BY <1>2, <1>5, <3>1 DEF getDirListingWithVerifier
    <3>3. got.contents = c /\ got.verf = hashPathAndContents(w.dir, c) BY SMT, <3>2
    <3>4. WalkOK(AfterPage(w, Page(c, 0, room), hashPathAndContents(w.dir, c), c), c)
      BY <1>6, <2>2, FirstPage
    <3> QED BY <1>3, <1>6, <2>1, <3>1, <3>3, <3>4
  <2>3. CASE w = walk /\ walk.end = "more"
    <3>1. w.cookie # 0 /\ w.verf = hashPathAndContents(w.dir, w.snap) /\ (Clash(w.snap) \/ OnTrack(w, listing))
      BY <1>1, <2>3 DEF WalkOK
    <3>2. w.verf # <<>> BY SMT, <3>1 DEF hashPathAndContents
    <3>3. Listing(listing) /\ w.cookie \in 0..(Len(Names) + 1) BY <1>1, <2>3 DEF WalkOK
    <3>4. CASE listing # Evicted
      <4>1. got = [ok |-> TRUE, contents |-> listing, verf |-> w.verf]
        BY <1>2, <3>2, <3>4 DEF getDirListingWithVerifier
      <4>2. got.contents = listing /\ got.verf = w.verf BY SMT, <4>1
      <4>3. Clash(w.snap) \/ listing = w.snap BY <3>1, <3>4 DEF OnTrack
      <4>4. WalkOK(AfterPage(w, Page(listing, w.cookie, room), w.verf, listing), listing)
        BY <1>1, <2>3, <3>3, <4>3, LaterPage
      <4> QED BY <1>3, <2>1, <3>3, <4>2, <4>4
    <3>5. CASE listing = Evicted
      <4>1. got = [ok |-> Has(st, w.dir) /\ ~IsLink(st, w.dir), contents |-> c,
                   verf |-> hashPathAndContents(w.dir, c)]
        BY <1>2, <1>5, <3>5 DEF getDirListingWithVerifier
      <4>2. got.contents = c /\ got.verf = hashPathAndContents(w.dir, c) BY SMT, <4>1
      <4>3. w.cookie > 0 BY SMT, <3>1, <3>3
      <4>4. got.verf = w.verf BY <1>8, <3>2, <4>3 DEF BadCookie
      <4>5. hashPathAndContents(w.dir, c) = hashPathAndContents(w.dir, w.snap) BY <3>1, <4>2, <4>4
      <4>6. Clash(w.snap) \/ c = w.snap BY <1>1, <1>5, <4>5, SameVerifier
      <4>7. WalkOK(AfterPage(w, Page(c, w.cookie, room), w.verf, c), c)
        BY <1>1, <1>6, <2>3, <4>6, LaterPage
      <4> QED BY <1>3, <1>6, <2>1, <4>2, <4>4, <4>7
    <3> QED BY <3>4, <3>5
  <2> QED BY <2>2, <2>3
<1> QED BY <1>7, <1>8

\* A READDIR that starts keeps the invariant.
LEMMA OpenDirStep ==
  ASSUME IInv, NEW d, NEW room \in 1..Len(Names), NEW plus, OpenDir(d, room, plus)
  PROVE  IInv'
<1>1. d \in DOMAIN meant /\ ops + 1 <= MaxOps /\ ops' = ops + 1 BY DEF OpenDir, Ask
<1>2. ops \in 0..MaxOps BY DEF IInv, Typed
<1>3. MaxOps \in Nat BY NamespaceAssumption
<1>4. ops' \in 0..MaxOps BY SMT, <1>1, <1>2, <1>3
<1>5. PICK w : w = NewWalk(d) OBVIOUS
<1>6. w.dir = d BY SMT, <1>5 DEF NewWalk, Walk
<1>7. Readdir(w, room, plus) BY <1>5 DEF OpenDir
<1>8. WalkOK(walk', listing') /\ \E S : S \subseteq Path /\ (meant' = meant \/ Show(S, st))
  BY <1>1, <1>5, <1>6, <1>7, ReaddirOK
<1>9. st' = st /\ crashed' = crashed /\ UNCHANGED hist BY SMT, <1>7 DEF Readdir
<1> QED BY <1>4, <1>8, <1>9, StillStep

\* A READDIR that goes on keeps the invariant.
LEMMA NextPageStep ==
  ASSUME IInv, NEW room \in 1..Len(Names), NEW plus, NextPage(room, plus)
  PROVE  IInv'
<1>1. walk.end = "more" /\ walk.dir \in DOMAIN meant /\ Readdir(walk, room, plus) BY DEF NextPage
<1>2. ops' = ops BY SMT DEF NextPage
<1>3. ops' \in 0..MaxOps BY <1>2 DEF IInv, Typed
<1>4. WalkOK(walk', listing') /\ \E S : S \subseteq Path /\ (meant' = meant \/ Show(S, st))
  BY <1>1, ReaddirOK
<1>5. st' = st /\ crashed' = crashed /\ UNCHANGED hist BY SMT, <1>1 DEF Readdir
<1> QED BY <1>3, <1>4, <1>5, StillStep

\* The cache of listings loses the listing of the walk, or has it again.
LEMMA CacheStep ==
  ASSUME IInv, Evict \/ Relist
  PROVE  IInv'
<1>1. walk.end = "more" /\ (Evict => listing' = <<>>) BY DEF Evict, Relist, Evicted
<1>2. st' = st /\ crashed' = crashed /\ meant' = meant /\ walk' = walk /\ ops' = ops /\ UNCHANGED hist
  BY SMT DEF Evict, Relist
<1>3. StoreOK(st) /\ ops' \in 0..MaxOps /\ WalkOK(walk, listing) BY <1>2 DEF IInv, Typed
<1>4. walk.verf = hashPathAndContents(walk.dir, walk.snap) /\ (Clash(walk.snap) \/ OnTrack(walk, listing))
  BY <1>1, <1>3 DEF WalkOK
<1>5. Listing(listing') /\ (Clash(walk.snap) \/ listing' \in {Evicted, walk.snap})
  <2>1. CASE Evict
    <3>1. Listing(<<>>) BY SMT, NamespaceAssumption DEF Listing
    <3> QED BY <1>1, <2>1, <3>1 DEF Evicted
  <2>2. CASE Relist
    <3>1. PICK c : c = Contents(st, walk.dir) OBVIOUS
    <3>2. listing' = c /\ hashPathAndContents(walk.dir, c) = walk.verf BY <2>2, <3>1 DEF Relist
    <3>3. Listing(c) BY <1>3, <3>1, ContentsOK
    <3>4. Clash(walk.snap) \/ c = walk.snap BY <1>3, <1>4, <3>1, <3>2, SameVerifier
    <3> QED BY <3>2, <3>3, <3>4
  <2> QED BY <2>1, <2>2
<1>6. WalkOK(walk', listing') BY <1>2, <1>3, <1>4, <1>5 DEF WalkOK, OnTrack
<1>7. {} \subseteq Path OBVIOUS
<1> QED BY <1>2, <1>3, <1>6, <1>7, StillStep

-----------------------------------------------------------------------------
(* The theorems.                                                           *)

\* The filesystem at the start is a tree, the client has the handle of its root and
\* lists nothing.
LEMMA InitOK == Init => IInv
<1> SUFFICES ASSUME Init PROVE IInv OBVIOUS
<1>1. /\ st \in Trees /\ ~ crashed /\ meant = [p \in {<<>>} |-> Node(st, p)]
      /\ walk = NewWalk(<<>>) /\ listing = <<>> /\ ops = 0 /\ ~ rough /\ bare = {} /\ strayed = {}
  BY DEF Init, Evicted
<1>2. /\ StoreOK(st) /\ Tree(st) /\ st.nilmaps = {} /\ (\A p \in DOMAIN st.files : Len(p) <= MaxDepth)
      /\ MaxOps \in Nat
  BY <1>1, NamespaceAssumption
<1>3. Linked(st) BY <1>2, TreeLinked
<1>4. DOMAIN meant = {<<>>} /\ \A p \in DOMAIN meant : meant[p] = Node(st, p) BY <1>1
<1>5. <<>> \in Path BY SMT DEF Path
<1>6. ops \in 0..MaxOps BY SMT, <1>1, <1>2
<1>7. Typed(st, meant, ops) BY <1>2, <1>4, <1>5, <1>6 DEF Typed
<1>8. Whole(st, meant, strayed) BY <1>3, <1>4 DEF Whole, Faithful
<1>9. WalkOK(walk, listing)
  <2>1. IsWalk(walk, <<>>, 0, <<>>, <<>>, <<>>, "none") BY <1>1, WalkIs DEF NewWalk
  <2>2. walk.cookie = 0 /\ walk.end = "none" BY <2>1 DEF IsWalk
  <2>3. Len(Names) \in Nat BY SMT, NamespaceAssumption
  <2>4. 0 \in 0..(Len(Names) + 1) /\ Listing(<<>>) BY SMT, <2>3 DEF Listing
  <2>5. "none" \in {"none", "more", "eof", "error"} /\ "none" \notin {"more", "eof"} BY SMT
  <2> QED BY <1>1, <2>2, <2>4, <2>5 DEF WalkOK
<1> QED BY <1>1, <1>2, <1>7, <1>8, <1>9 DEF IInv

\* A step that is not a RENAME, as the bound on requests counts it.
LEMMA OtherStep ==
  ASSUME NEW d, NEW x,
         \/ Mkdir(d, x) \/ (\E guarded \in BOOLEAN : Create(d, x, guarded)) \/ Symlink(d, x)
         \/ Delete(d, x) \/ Lookup(d, x) \/ LookupParent(d)
         \/ \E room \in 1..Len(Names), plus \in BOOLEAN : OpenDir(d, room, plus)
  PROVE  ops' = ops + 1
BY DEF Mkdir, Create, Symlink, Delete, Lookup, LookupParent, OpenDir, AskIn, Ask

\* Pages and the cache are not counted as requests.
LEMMA CacheOps ==
  ASSUME (\E room \in 1..Len(Names), plus \in BOOLEAN : NextPage(room, plus)) \/ Evict \/ Relist
  PROVE  ops' = ops
BY SMT DEF NextPage, Evict, Relist

\* Every step of the server or of its client keeps the invariant.
LEMMA NextOK == IInv /\ [Next]_vars => IInv'
<1> SUFFICES ASSUME IInv, [Next]_vars PROVE IInv' OBVIOUS
<1>1. CASE Next
  <2>1. ASSUME NEW d \in Dirs, NEW x \in Name, Mkdir(d, x) PROVE IInv' BY <2>1, MkdirStep
  <2>2. ASSUME NEW d \in Dirs, NEW x \in Name, NEW guarded \in BOOLEAN, Create(d, x, guarded) PROVE IInv'
    BY <2>2, CreateStep
  <2>3. ASSUME NEW d \in Dirs, NEW x \in Name, Symlink(d, x) PROVE IInv' BY <2>3, SymlinkStep
  <2>4. ASSUME NEW d \in Dirs, NEW x \in Name, Delete(d, x) PROVE IInv' BY <2>4, DeleteStep
  <2>5. ASSUME NEW d \in Dirs, NEW x \in Name, Lookup(d, x) PROVE IInv' BY <2>5, LookupStep
  <2>6. ASSUME NEW d \in Dirs, NEW x \in Name, NEW e \in Dirs, NEW y \in Name, Rename(d, x, e, y) PROVE IInv'
    BY <2>6, RenameStep
  <2>7. ASSUME NEW d \in Dirs, LookupParent(d) PROVE IInv' BY <2>7, LookupParentStep
  <2>8. ASSUME NEW d \in Dirs, NEW room \in 1..Len(Names), NEW plus \in BOOLEAN, OpenDir(d, room, plus)
        PROVE  IInv'
    BY <2>8, OpenDirStep
  <2>9. ASSUME NEW room \in 1..Len(Names), NEW plus \in BOOLEAN, NextPage(room, plus) PROVE IInv'
    BY <2>9, NextPageStep
  <2>10. ASSUME Evict \/ Relist PROVE IInv' BY <2>10, CacheStep
  <2> QED BY <1>1, <2>1, <2>2, <2>3, <2>4, <2>5, <2>6, <2>7, <2>8, <2>9, <2>10 DEF Next
<1>2. CASE UNCHANGED vars
  <2>1. /\ st' = st /\ crashed' = crashed /\ meant' = meant /\ walk' = walk /\ listing' = listing /\ ops' = ops
        /\ UNCHANGED hist
    BY SMT, <1>2 DEF vars
  <2>2. ops' \in 0..MaxOps /\ WalkOK(walk', listing') BY <2>1 DEF IInv, Typed
  <2>3. {} \subseteq Path OBVIOUS
  <2> QED BY <2>1, <2>2, <2>3, StillStep
<1> QED BY <1>1, <1>2

\* What RENAME keeps.
Kept == \A p \in DOMAIN st.files : st.files[p] \in Range(st'.files) \/ Has(st', p)

\* A RENAME that is not rough loses no file but the one it replaces.
LEMMA RenameKeeps ==
  ASSUME IInv, NEW d, NEW x \in Name, NEW e, NEW y \in Name, Rename(d, x, e, y), ~ rough', ~ crashed'
  PROVE  Kept
<1>1. 2 \in {1, 2} OBVIOUS
<1>2. AskIn(d, 2) /\ AskIn(e, 2) BY DEF Rename
<1>3. ~crashed /\ d \in Path /\ e \in Path BY <1>1, <1>2, Asked
<1>4. CASE Refuse
  <2>1. st' = st BY SMT, <1>4 DEF Refuse
  <2> QED BY <2>1 DEF Kept, Has
<1>5. ASSUME NEW first, NEW r, RenameTo(d, x, e, y, first, r) PROVE Kept
  <2>1. PICK to : to = Append(e, y) OBVIOUS
  <2>2. Halfway(st, st', {}, Append(d, x), to) BY <1>3, <1>5, <2>1, RenameCarries
  <2>3. Settled(st, st', Append(d, x), to) BY <2>2, CarriedIs
  <2>4. /\ to \in DOMAIN st'.files
        /\ \A p \in DOMAIN st.files : p # to => \E q \in DOMAIN st'.files : st'.files[q] = st.files[p]
    BY <2>3 DEF Settled
  <2>5. \A p \in DOMAIN st.files : p # to => st.files[p] \in Range(st'.files) BY <2>4 DEF Range
  <2> QED BY <2>4, <2>5 DEF Kept, Has
<1> QED BY <1>4, <1>5, RenameIs

\* The inductive invariant holds of every reachable state.
THEOREM Invariance == Spec => []IInv
<1>1. Init => IInv BY InitOK
<1>2. IInv /\ [Next]_vars => IInv' BY NextOK
<1> QED BY <1>1, <1>2, PTL DEF Spec

\* The storage of memfs, the handles and the walk keep their types, whatever requests come.
THEOREM TypeCorrect == Spec => []TypeOK
<1>1. IInv => TypeOK BY DEF IInv, Typed, WalkOK, TypeOK
<1> QED BY <1>1, Invariance, PTL

\* The files and the children of memfs tell one story as long as no RENAME was rough: every path
\* is an entry of a directory, and every entry is a path.
THEOREM TreeStaysIntact == Spec => []TreeIntact
<1>1. IInv => TreeIntact BY TreeLinked DEF IInv, Whole, TreeIntact
<1> QED BY <1>1, Invariance, PTL

\* The server panics on a nil map of children only after a RENAME moved a path that had none.
THEOREM PanicOnlyAfterBareRename == Spec => []PanicNeedsBareRename
<1>1. IInv => PanicNeedsBareRename BY DEF IInv, PanicNeedsBareRename
<1> QED BY <1>1, Invariance, PTL

\* A handle the client holds reaches the file it was given for, unless a RENAME moved something
\* above that file or the file is gone.
THEOREM HandlesStayFaithful == Spec => []HandleFaithful
<1>1. IInv => HandleFaithful BY DEF IInv, Whole, Faithful, HandleFaithful
<1> QED BY <1>1, Invariance, PTL

\* A client that reads a directory to its end has every name of the listing it began with, once,
\* whatever is created, removed or evicted between two pages, unless two listings have one verifier.
THEOREM ListingsAreComplete == Spec => []ListingComplete
<1>1. IInv => ListingComplete
  <2> SUFFICES ASSUME WalkOK(walk, listing), walk.end = "eof"
               PROVE  walk.names = walk.snap \/ Clash(walk.snap)
    BY DEF IInv, ListingComplete, Clash
  <2> QED BY DEF WalkOK, OnTrack
<1> QED BY <1>1, Invariance, PTL

\* No RENAME that is not rough and does not panic loses a file other than the one it replaces.
THEOREM RenamesKeepFiles == Spec => RenameKeepsFiles
<1> DEFINE A == ops' = ops + 2 /\ ~rough' /\ ~crashed' => Kept
<1>1. IInv /\ [Next]_vars => [A]_vars
  <2> SUFFICES ASSUME IInv, Next, ops' = ops + 2, ~rough', ~crashed' PROVE Kept OBVIOUS
  <2>1. ops \in 0..MaxOps BY DEF IInv, Typed
  <2>2. ops' # ops + 1 /\ ops' # ops
    <3>1. MaxOps \in Nat BY NamespaceAssumption
    <3> QED BY SMT, <2>1, <3>1
  <2>3. \E d \in Dirs, x \in Name : \E e \in Dirs, y \in Name : Rename(d, x, e, y)
    BY <2>2, OtherStep, CacheOps DEF Next
  <2> QED BY <2>3, RenameKeeps
<1>2. [][A]_vars => RenameKeepsFiles
  <2>1. [A]_vars => [ops' = ops + 2 /\ ~rough' /\ ~crashed' =>
                      \A p \in DOMAIN st.files : st.files[p] \in Range(st'.files) \/ Has(st', p)]_vars
    BY DEF Kept
  <2> QED BY <2>1, PTL DEF RenameKeepsFiles
<1> QED BY <1>1, <1>2, Invariance, PTL DEF Spec
=============================================================================
