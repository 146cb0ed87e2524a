------------------------ MODULE FileOperationsProofs ------------------------
(***************************************************************************)
(* Proofs about FileOperations, for every tree, any number of operations   *)
(* and any bounds.                                                         *)
(***************************************************************************)
EXTENDS FileOperations, SequenceTheorems, TLAPS

Safety == Init /\ [][Next]_vars

-----------------------------------------------------------------------------
(* Paths: an order of prefixes.                                            *)

LEMMA Before ==
  ASSUME NEW n \in Nat, n > 0, n # 1
  PROVE  n > 1 /\ n - 1 \in 1..n
  OBVIOUS

LEMMA After ==
  ASSUME NEW m \in Nat, NEW n \in Nat, NEW i \in 1..n
  PROVE  m + i \in 1..(m + n) /\ ~(m + i <= m) /\ m + i - m = i
  OBVIOUS

LEMMA PathFacts ==
  ASSUME NEW p \in Paths
  PROVE  /\ p \in Seq(Names) /\ Len(p) \in Nat /\ Len(p) > 0
         /\ \A n \in 1..Len(p) : SubSeq(p, 1, n) \in Paths
  BY FilesAssumption, LenProperties

LEMMA PrefixFacts ==
  ASSUME NEW p \in Paths, NEW n \in 1..Len(p)
  PROVE  /\ SubSeq(p, 1, n) \in Paths
         /\ Len(SubSeq(p, 1, n)) = n
         /\ \A i \in 1..n : SubSeq(p, 1, n)[i] = p[i]
  BY PathFacts, SubSeqProperties

LEMMA SamePath ==
  ASSUME NEW p \in Paths, NEW q \in Paths, Len(p) = Len(q),
         \A i \in 1..Len(p) : p[i] = q[i]
  PROVE  p = q
  BY PathFacts, SeqEqual

LEMMA UnderIff ==
  ASSUME NEW p \in Paths, NEW q \in Paths
  PROVE  q \in Under[p] <=> Len(p) <= Len(q) /\ \A i \in 1..Len(p) : q[i] = p[i]
<1>1. q \in Under[p] <=> Len(p) <= Len(q) /\ SubSeq(q, 1, Len(p)) = p
  BY DEF Under
<1>2. ASSUME Len(p) <= Len(q)
      PROVE  SubSeq(q, 1, Len(p)) = p <=> \A i \in 1..Len(p) : q[i] = p[i]
  <2>1. Len(p) \in 1..Len(q)
    BY <1>2, PathFacts
  <2>2. /\ SubSeq(q, 1, Len(p)) \in Paths
        /\ Len(SubSeq(q, 1, Len(p))) = Len(p)
        /\ \A i \in 1..Len(p) : SubSeq(q, 1, Len(p))[i] = q[i]
    BY <2>1, PrefixFacts
  <2> QED
    BY <2>2, SamePath
<1> QED
  BY <1>1, <1>2

LEMMA UnderOrder ==
  ASSUME NEW p \in Paths
  PROVE  /\ Under[p] \subseteq Paths /\ p \in Under[p]
         /\ \A q \in Under[p] : Under[q] \subseteq Under[p]
         /\ \A q \in Under[p] : Len(p) <= Len(q) /\ (Len(p) = Len(q) => p = q)
<1>1. Under[p] \subseteq Paths
  BY DEF Under
<1>2. p \in Under[p]
  BY UnderIff, PathFacts
<1>3. ASSUME NEW q \in Under[p], NEW r \in Under[q] PROVE r \in Under[p]
  <2>1. q \in Paths /\ r \in Paths
    BY <1>1 DEF Under
  <2> QED
    BY <2>1, UnderIff, PathFacts
<1>4. ASSUME NEW q \in Under[p]
      PROVE  Len(p) <= Len(q) /\ (Len(p) = Len(q) => p = q)
  BY <1>1, UnderIff, SamePath
<1> QED
  BY <1>1, <1>2, <1>3, <1>4

(* The paths above a path are in line.                                     *)
LEMMA UnderLinear ==
  ASSUME NEW x \in Paths, NEW d \in Paths, NEW q \in Under[x], q \in Under[d]
  PROVE  x \in Under[d] \/ d \in Under[x]
<1>1. q \in Paths
  BY DEF Under
<1>2. CASE Len(x) <= Len(d)
  BY <1>1, <1>2, UnderIff, PathFacts
<1>3. CASE Len(d) <= Len(x)
  BY <1>1, <1>3, UnderIff, PathFacts
<1> QED
  BY <1>2, <1>3, PathFacts

LEMMA ParentFacts ==
  ASSUME NEW d \in Paths \ Tops
  PROVE  /\ Parent(d) \in Paths
         /\ d \in Under[Parent(d)] /\ d # Parent(d)
         /\ \A x \in Paths : d \in Under[x] => x = d \/ Parent(d) \in Under[x]
<1>1. Len(d) > 1 /\ Len(d) - 1 \in 1..Len(d)
  <2>1. Len(d) # 1 /\ d \in Paths
    BY DEF Tops
  <2>2. Len(d) \in Nat /\ Len(d) > 0
    BY <2>1, PathFacts
  <2> QED
    BY <2>1, <2>2, Before
<1>2. /\ Parent(d) \in Paths /\ Len(Parent(d)) = Len(d) - 1
      /\ \A i \in 1..(Len(d) - 1) : Parent(d)[i] = d[i]
  BY <1>1, PrefixFacts DEF Parent
<1>3. d \in Under[Parent(d)] /\ d # Parent(d)
  BY <1>1, <1>2, UnderIff
<1>4. ASSUME NEW x \in Paths, d \in Under[x], x # d PROVE Parent(d) \in Under[x]
  <2>1. Len(x) <= Len(d) - 1
    BY <1>4, UnderOrder, PathFacts
  <2>2. \A i \in 1..Len(x) : d[i] = x[i]
    BY <1>4, UnderIff
  <2>3. \A i \in 1..Len(x) : Parent(d)[i] = x[i]
    BY <1>2, <2>1, <2>2, PathFacts
  <2> QED
    BY <1>2, <2>1, <2>3, UnderIff
<1> QED
  BY <1>2, <1>3, <1>4

(* Between a path and one below it is a child of the first.                *)
LEMMA ChildBetween ==
  ASSUME NEW q \in Paths, NEW r \in Under[q], r # q
  PROVE  \E c \in Children[q] : r \in Under[c]
<1>1. r \in Paths /\ Len(q) + 1 \in 1..Len(r)
  BY UnderOrder, PathFacts
<1>2. PICK c \in Paths : /\ Len(c) = Len(q) + 1
                        /\ \A i \in 1..(Len(q) + 1) : c[i] = r[i]
  BY <1>1, PrefixFacts
<1>3. r \in Under[c]
  BY <1>1, <1>2, UnderIff, PathFacts
<1>4. c \in Paths \ Tops
  BY <1>2, PathFacts DEF Tops
<1>5. q = Parent(c)
  <2>1. Len(c) - 1 = Len(q) /\ Len(c) - 1 \in 1..Len(c)
    BY <1>2, PathFacts
  <2>2. /\ Parent(c) \in Paths /\ Len(Parent(c)) = Len(q)
        /\ \A i \in 1..Len(q) : Parent(c)[i] = c[i]
    BY <2>1, PrefixFacts DEF Parent
  <2>3. \A i \in 1..Len(q) : r[i] = q[i]
    BY <1>1, UnderIff
  <2>4. \A i \in 1..Len(q) : Parent(c)[i] = q[i]
    BY <1>2, <2>2, <2>3, PathFacts
  <2> QED
    BY <2>2, <2>4, SamePath
<1> QED
  BY <1>3, <1>4, <1>5 DEF Children

(* A path extended by the rest of another one.                             *)
LEMMA ConcatSplit ==
  ASSUME NEW p \in Paths, NEW d \in Paths, NEW q \in Under[d], NEW s \in Seq(Names),
         Len(s) = Len(q) - Len(d),
         \A i \in 1..(Len(q) - Len(d)) : s[i] = q[Len(d) + i]
  PROVE  /\ p \o s \in Seq(Names) /\ Len(p \o s) = Len(p) + Len(q) - Len(d)
         /\ \A i \in 1..Len(p) : (p \o s)[i] = p[i]
         /\ \A i \in 1..(Len(q) - Len(d)) : (p \o s)[Len(p) + i] = q[Len(d) + i]
<1>1. /\ Len(p) \in Nat /\ Len(d) \in Nat /\ Len(q) \in Nat /\ Len(d) <= Len(q)
      /\ p \in Seq(Names)
  BY PathFacts, UnderOrder
<1>2. /\ p \o s \in Seq(Names) /\ Len(p \o s) = Len(p) + Len(s)
      /\ \A i \in 1..(Len(p) + Len(s)) :
           (p \o s)[i] = IF i <= Len(p) THEN p[i] ELSE s[i - Len(p)]
  BY <1>1, ConcatProperties
<1>3. \A i \in 1..Len(p) : (p \o s)[i] = p[i]
  BY <1>1, <1>2
<1>4. ASSUME NEW i \in 1..(Len(q) - Len(d))
      PROVE  (p \o s)[Len(p) + i] = q[Len(d) + i]
  <2>1. i \in 1..Len(s) /\ Len(s) \in Nat
    BY <1>1
  <2>2. /\ Len(p) + i \in 1..(Len(p) + Len(s)) /\ ~(Len(p) + i <= Len(p))
        /\ Len(p) + i - Len(p) = i
    BY <1>1, <2>1, After
  <2>3. (p \o s)[Len(p) + i] = s[Len(p) + i - Len(p)]
    BY <1>2, <2>2
  <2> QED
    BY <2>2, <2>3
<1> QED
  BY <1>1, <1>2, <1>3, <1>4

(* What a rename moves keeps its order.                                    *)
LEMMA MovedOrder ==
  ASSUME NEW d \in Paths, NEW p \in Paths, NEW x \in Under[d], NEW q \in Under[x],
         Moved(q, d, p) \in Paths
  PROVE  /\ Moved(x, d, p) \in Paths
         /\ Moved(q, d, p) \in Under[Moved(x, d, p)]
         /\ Moved(q, d, p) = Moved(x, d, p) => q = x
<1>1. x \in Paths /\ q \in Paths /\ q \in Under[d]
  BY UnderOrder
<1>2. /\ Len(d) <= Len(x) /\ Len(x) <= Len(q)
      /\ \A i \in 1..Len(x) : q[i] = x[i]
  BY <1>1, UnderIff
<1> DEFINE sx == SubSeq(x, Len(d) + 1, Len(x))
           sq == SubSeq(q, Len(d) + 1, Len(q))
<1>3. /\ sx \in Seq(Names) /\ Len(sx) = Len(x) - Len(d)
      /\ \A i \in 1..(Len(x) - Len(d)) : sx[i] = x[Len(d) + i]
  BY <1>1, <1>2, PathFacts, SubSeqProperties
<1>4. /\ sq \in Seq(Names) /\ Len(sq) = Len(q) - Len(d)
      /\ \A i \in 1..(Len(q) - Len(d)) : sq[i] = q[Len(d) + i]
  BY <1>1, <1>2, PathFacts, SubSeqProperties
<1>5. /\ Moved(x, d, p) = p \o sx /\ Moved(q, d, p) = p \o sq
  BY DEF Moved
<1> HIDE DEF sx, sq
<1> DEFINE mx == p \o sx
           mq == p \o sq
<1>6. /\ mx \in Seq(Names) /\ Len(mx) = Len(p) + Len(x) - Len(d)
      /\ \A i \in 1..Len(p) : mx[i] = p[i]
      /\ \A i \in 1..(Len(x) - Len(d)) : mx[Len(p) + i] = x[Len(d) + i]
  BY <1>3, ConcatSplit
<1>7. /\ Len(mq) = Len(p) + Len(q) - Len(d)
      /\ \A i \in 1..Len(p) : mq[i] = p[i]
      /\ \A i \in 1..(Len(q) - Len(d)) : mq[Len(p) + i] = q[Len(d) + i]
  <2>1. q \in Under[d] /\ sq \in Seq(Names)
    BY <1>1, <1>4
  <2> QED
    BY <1>4, <2>1, ConcatSplit
<1>8. mq \in Paths
  BY <1>5
<1> HIDE DEF mx, mq
<1>9. /\ Len(mx) \in 1..Len(mq)
      /\ \A i \in 1..Len(mx) : mq[i] = mx[i]
  <2>1. Len(mx) \in 1..Len(mq)
    BY <1>1, <1>2, <1>6, <1>7, PathFacts
  <2>2. ASSUME NEW i \in 1..Len(mx), i > Len(p) PROVE mq[i] = mx[i]
    <3> DEFINE j == i - Len(p)
    <3>1. /\ j \in 1..(Len(x) - Len(d)) /\ j \in 1..(Len(q) - Len(d))
          /\ i = Len(p) + j
      BY <1>1, <1>2, <1>6, <2>2, PathFacts
    <3> HIDE DEF j
    <3>2. mq[i] = q[Len(d) + j] /\ mx[i] = x[Len(d) + j]
      BY <1>6, <1>7, <3>1
    <3>3. Len(d) + j \in 1..Len(x)
      BY <1>1, <1>2, <3>1, PathFacts
    <3> QED
      BY <1>2, <3>2, <3>3
  <2>3. ASSUME NEW i \in 1..Len(mx), i <= Len(p) PROVE mq[i] = mx[i]
    BY <1>6, <1>7, <2>3, PathFacts
  <2> QED
    BY <2>1, <2>2, <2>3, PathFacts
<1>10. mx = SubSeq(mq, 1, Len(mx))
  <2>1. /\ SubSeq(mq, 1, Len(mx)) \in Seq(Names)
        /\ Len(SubSeq(mq, 1, Len(mx))) = Len(mx)
        /\ \A i \in 1..Len(mx) : SubSeq(mq, 1, Len(mx))[i] = mq[i]
    BY <1>8, <1>9, PrefixFacts, PathFacts
  <2> QED
    BY <1>6, <1>9, <2>1, SeqEqual
<1>11. mx \in Paths
  BY <1>8, <1>9, <1>10, PrefixFacts
<1>12. mq \in Under[mx]
  BY <1>8, <1>9, <1>11, UnderIff
<1>13. mq = mx => q = x
  BY <1>1, <1>2, <1>6, <1>7, PathFacts, SamePath
<1> QED
  BY <1>5, <1>11, <1>12, <1>13 DEF mx, mq

(* The rest of a path below another one of some length.                    *)
LEMMA RestOf ==
  ASSUME NEW p \in Paths, NEW q \in Paths, Len(p) <= Len(q)
  PROVE  LET r == SubSeq(q, Len(p) + 1, Len(q)) IN
           /\ r \in Seq(Names) /\ Len(r) = Len(q) - Len(p)
           /\ \A i \in 1..(Len(q) - Len(p)) : r[i] = q[Len(p) + i]
  BY PathFacts, SubSeqProperties

(* What was moved lies under its new place, and moving it back gives the   *)
(* path it had.                                                            *)
LEMMA MovedBack ==
  ASSUME NEW p \in Paths, NEW d \in Paths, NEW q \in Under[p],
         Moved(q, p, d) \in Paths
  PROVE  /\ Moved(q, p, d) \in Under[d]
         /\ Moved(Moved(q, p, d), d, p) = q
<1>1. q \in Paths /\ Len(p) <= Len(q) /\ \A i \in 1..Len(p) : q[i] = p[i]
  BY UnderOrder, UnderIff
<1> DEFINE sq == SubSeq(q, Len(p) + 1, Len(q))
           m  == Moved(q, p, d)
           sm == SubSeq(m, Len(d) + 1, Len(m))
<1>2. /\ sq \in Seq(Names) /\ Len(sq) = Len(q) - Len(p)
      /\ \A i \in 1..(Len(q) - Len(p)) : sq[i] = q[Len(p) + i]
  BY <1>1, RestOf
<1>3. m = d \o sq /\ m \in Paths
  BY DEF Moved
<1> HIDE DEF sq
<1>4. /\ Len(m) = Len(d) + Len(q) - Len(p)
      /\ \A i \in 1..Len(d) : m[i] = d[i]
      /\ \A i \in 1..(Len(q) - Len(p)) : m[Len(d) + i] = q[Len(p) + i]
  <2>1. /\ Len(d \o sq) = Len(d) + Len(q) - Len(p)
        /\ \A i \in 1..Len(d) : (d \o sq)[i] = d[i]
        /\ \A i \in 1..(Len(q) - Len(p)) : (d \o sq)[Len(d) + i] = q[Len(p) + i]
    BY <1>2, ConcatSplit
  <2> HIDE DEF m
  <2> QED
    BY <1>3, <2>1
<1>5. Moved(m, d, p) = p \o sm
  BY DEF Moved
<1> HIDE DEF m
<1>6. m \in Under[d] /\ Len(d) <= Len(m)
  <2>1. Len(d) <= Len(m)
    BY <1>1, <1>4, PathFacts
  <2> QED
    BY <1>3, <1>4, <2>1, UnderIff
<1>7. /\ sm \in Seq(Names) /\ Len(sm) = Len(m) - Len(d)
      /\ \A i \in 1..(Len(m) - Len(d)) : sm[i] = m[Len(d) + i]
  BY <1>3, <1>6, RestOf
<1> HIDE DEF sm
<1> DEFINE b == p \o sm
<1>8. /\ b \in Seq(Names) /\ Len(b) = Len(p) + Len(m) - Len(d)
      /\ \A i \in 1..Len(p) : b[i] = p[i]
      /\ \A i \in 1..(Len(m) - Len(d)) : b[Len(p) + i] = m[Len(d) + i]
  BY <1>6, <1>7, ConcatSplit
<1> HIDE DEF b
<1>9. Len(b) = Len(q) /\ Len(m) - Len(d) = Len(q) - Len(p)
  BY <1>1, <1>3, <1>4, <1>8, PathFacts
<1>10. ASSUME NEW i \in 1..Len(q) PROVE b[i] = q[i]
  <2>1. CASE i <= Len(p)
    BY <1>1, <1>8, <2>1, PathFacts
  <2>2. CASE i > Len(p)
    <3> DEFINE j == i - Len(p)
    <3>1. j \in 1..(Len(q) - Len(p)) /\ i = Len(p) + j
      BY <1>1, <2>2, PathFacts
    <3> HIDE DEF j
    <3> QED
      BY <1>4, <1>8, <1>9, <3>1
  <2> QED
    BY <1>1, <2>1, <2>2, PathFacts
<1>11. b = q
  BY <1>1, <1>8, <1>9, <1>10, PathFacts, SeqEqual
<1> QED
  BY <1>5, <1>6, <1>11 DEF b, m

(* No device lies below another path.                                      *)
LEMMA TopsOnTop ==
  ASSUME NEW s \in Paths \ Tops, NEW q \in Tops
  PROVE  q \notin Under[s]
<1>1. s \in Paths /\ q \in Paths /\ Len(q) = 1 /\ Len(s) # 1
  BY DEF Tops
<1>2. Len(s) \in Nat /\ Len(s) > 1
  BY <1>1, PathFacts, Before
<1>3. q \in Under[s] => Len(s) <= Len(q)
  BY <1>1, UnderOrder
<1> QED
  BY <1>1, <1>2, <1>3

-----------------------------------------------------------------------------
(* Trees: what every change of the tree leaves in it.                      *)

(* The change overwrites no file but exposed ones.                         *)
Kept(t) ==
  \A p \in Paths : tree[p] \in Contents \ exposed => t[p] \in {tree[p], Nothing}

LEMMA TreeFacts ==
  ASSUME Sound(tree)
  PROVE  /\ \A p \in Paths : tree[p] \in Entries
         /\ \A p \in Paths : ~Exists(p) => p \notin Tops
         /\ \A p \in Paths : \A q \in Under[p] : Exists(q) => q = p \/ IsDir(p)
         /\ \A p \in Tops : p \in Paths /\ IsDir(p)
         /\ Dir \notin Contents /\ Nothing \notin Contents /\ Dir # Nothing
         /\ Dir \in Entries /\ Nothing \in Entries /\ Contents \subseteq Entries
  BY FilesAssumption DEF Sound, Exists, IsDir, Tops, Entries

(* A file, a new directory or nothing comes where no directory is.         *)
LEMMA SetEntry ==
  ASSUME Sound(tree), NEW d \in Paths, NEW e \in Entries,
         ~IsDir(d), e # Nothing => IsDir(Parent(d))
  PROVE  /\ Sound([tree EXCEPT ![d] = e])
         /\ e = Nothing \/ tree[d] \notin Contents \ exposed => Kept([tree EXCEPT ![d] = e])
<1> DEFINE t == [tree EXCEPT ![d] = e]
<1>1. d \in Paths \ Tops
  BY TreeFacts
<1>2. /\ t \in [Paths -> Entries] /\ t[d] = e
      /\ \A p \in Paths \ {d} : t[p] = tree[p]
  BY DEF Sound
<1> HIDE DEF t
<1>3. \A p \in Tops : t[p] = Dir
  BY <1>1, <1>2, TreeFacts DEF IsDir
<1>4. ASSUME NEW p \in Paths, NEW q \in Under[p] \ {p}, t[q] # Nothing
      PROVE  t[p] = Dir
  <2>1. q \in Paths
    BY UnderOrder
  <2>2. CASE q = d
    <3>1. Parent(d) \in Under[p] /\ Parent(d) \in Paths /\ IsDir(Parent(d))
      BY <1>1, <1>2, <1>4, <2>2, ParentFacts
    <3>2. IsDir(p)
      BY <3>1, TreeFacts DEF IsDir, Exists
    <3> QED
      BY <1>2, <2>2, <3>2 DEF IsDir
  <2>3. CASE q # d
    <3>1. IsDir(p)
      BY <1>2, <1>4, <2>1, <2>3, TreeFacts DEF Exists
    <3> QED
      BY <1>2, <3>1 DEF IsDir
  <2> QED
    BY <2>2, <2>3
<1>5. e = Nothing \/ tree[d] \notin Contents \ exposed => Kept(t)
  BY <1>2 DEF Kept
<1> QED
  BY <1>2, <1>3, <1>4, <1>5 DEF Sound, t

LEMMA MakePath ==
  ASSUME Sound(tree), NEW d \in Paths, CanMake(d)
  PROVE  Sound(Made(d)) /\ Kept(Made(d))
<1>1. /\ Made(d) \in [Paths -> Entries]
      /\ \A p \in Paths : Made(d)[p] = IF d \in Under[p] THEN Dir ELSE tree[p]
  BY TreeFacts DEF Made
<1>2. \A p \in Tops : Made(d)[p] = Dir
  BY <1>1, TreeFacts DEF IsDir
<1>3. ASSUME NEW p \in Paths, NEW q \in Under[p] \ {p}, Made(d)[q] # Nothing
      PROVE  Made(d)[p] = Dir
  <2>1. q \in Paths
    BY UnderOrder
  <2>2. CASE d \in Under[q]
    BY <1>1, <2>1, <2>2, UnderOrder
  <2>3. CASE d \notin Under[q]
    BY <1>1, <1>3, <2>1, <2>3, TreeFacts DEF Exists, IsDir
  <2> QED
    BY <2>2, <2>3
<1>4. Kept(Made(d))
  BY <1>1, TreeFacts DEF Kept, CanMake
<1> QED
  BY <1>1, <1>2, <1>3, <1>4 DEF Sound

LEMMA DropEntry ==
  ASSUME Sound(tree), NEW q \in Paths \ Tops, \A c \in Children[q] : ~Exists(c)
  PROVE  /\ Sound([tree EXCEPT ![q] = Nothing])
         /\ Kept([tree EXCEPT ![q] = Nothing])
<1> DEFINE t == [tree EXCEPT ![q] = Nothing]
<1>1. /\ t \in [Paths -> Entries] /\ t[q] = Nothing
      /\ \A p \in Paths \ {q} : t[p] = tree[p]
  BY TreeFacts DEF Sound
<1> HIDE DEF t
<1>2. \A p \in Tops : t[p] = Dir
  BY <1>1, TreeFacts DEF IsDir
<1>3. ASSUME NEW p \in Paths, NEW r \in Under[p] \ {p}, t[r] # Nothing
      PROVE  t[p] = Dir
  <2>1. r \in Paths /\ r # q /\ Exists(r)
    BY <1>1, <1>3, UnderOrder DEF Exists
  <2>2. IsDir(p)
    BY <1>3, <2>1, TreeFacts
  <2>3. p # q
    <3>1. SUFFICES ASSUME p = q PROVE FALSE
      OBVIOUS
    <3>2. PICK c \in Children[q] : r \in Under[c]
      BY <3>1, ChildBetween
    <3>3. c \in Paths
      BY DEF Children
    <3> QED
      BY <2>1, <3>2, <3>3, TreeFacts DEF Exists, IsDir
  <2> QED
    BY <1>1, <2>2, <2>3 DEF IsDir
<1>4. Kept(t)
  BY <1>1 DEF Kept
<1> QED
  BY <1>1, <1>2, <1>3, <1>4 DEF Sound, t

LEMMA DropAll ==
  ASSUME Sound(tree), NEW s \in Paths \ Tops
  PROVE  LET t == [q \in Paths |-> IF q \in Under[s] THEN Nothing ELSE tree[q]]
         IN  Sound(t) /\ Kept(t)
<1> DEFINE t == [q \in Paths |-> IF q \in Under[s] THEN Nothing ELSE tree[q]]
<1>1. /\ t \in [Paths -> Entries]
      /\ \A p \in Paths : t[p] = IF p \in Under[s] THEN Nothing ELSE tree[p]
  BY TreeFacts
<1> HIDE DEF t
<1>2. \A p \in Tops : t[p] = Dir
  BY <1>1, TopsOnTop, TreeFacts DEF IsDir
<1>3. ASSUME NEW p \in Paths, NEW q \in Under[p] \ {p}, t[q] # Nothing
      PROVE  t[p] = Dir
  <2>1. q \in Paths /\ q \notin Under[s] /\ Exists(q)
    BY <1>1, <1>3, UnderOrder DEF Exists
  <2>2. p \notin Under[s] /\ IsDir(p)
    BY <1>3, <2>1, UnderOrder, TreeFacts
  <2> QED
    BY <1>1, <2>2 DEF IsDir
<1>4. Kept(t)
  BY <1>1 DEF Kept
<1> QED
  BY <1>1, <1>2, <1>3, <1>4 DEF Sound, t

LEMMA RenameEntry ==
  ASSUME Sound(tree), NEW p \in Paths \ Tops, NEW d \in Paths, CanRename(p, d)
  PROVE  Sound(Renamed(p, d)) /\ Kept(Renamed(p, d))
<1> DEFINE t == Renamed(p, d)
           from(q) == Moved(q, d, p)
<1>1. /\ Exists(p) /\ ~Exists(d) /\ IsDir(Parent(d)) /\ d \notin Under[p]
      /\ d \in Paths \ Tops
  BY TreeFacts DEF CanRename
<1>2. \A q \in Paths :
        t[q] = IF q \in Under[p] THEN Nothing
               ELSE IF q \in Under[d] THEN
                      IF from(q) \in Paths THEN tree[from(q)] ELSE Nothing
               ELSE tree[q]
  BY DEF Renamed
<1>3. t \in [Paths -> Entries]
  BY TreeFacts DEF Renamed
<1> HIDE DEF t
<1>4. \A q \in Under[d] : q \in Paths /\ ~Exists(q) /\ q \notin Under[p]
  <2>1. \A q \in Under[d] : q \in Paths /\ ~Exists(q)
    BY <1>1, UnderOrder, TreeFacts DEF Exists, IsDir
  <2>2. p \notin Under[d]
    BY <1>1, <2>1
  <2> QED
    BY <1>1, <2>1, <2>2, UnderLinear
<1>5. \A q \in Tops : t[q] = Dir
  BY <1>1, <1>2, TopsOnTop, TreeFacts DEF IsDir
<1>6. ASSUME NEW x \in Paths, NEW q \in Under[x] \ {x}, t[q] # Nothing
      PROVE  t[x] = Dir
  <2>1. q \in Paths /\ q \notin Under[p] /\ x \notin Under[p]
    BY <1>2, <1>6, UnderOrder
  <2>2. CASE q \in Under[d] /\ x \in Under[d]
    <3>1. from(q) \in Paths /\ tree[from(q)] # Nothing
      BY <1>2, <1>6, <2>1, <2>2
    <3>2. from(x) \in Paths /\ from(q) \in Under[from(x)] /\ from(q) # from(x)
      BY <1>6, <2>2, <3>1, MovedOrder
    <3>3. tree[from(x)] = Dir
      BY <3>1, <3>2, TreeFacts DEF Exists, IsDir
    <3> QED
      BY <1>2, <2>1, <2>2, <3>2, <3>3
  <2>3. CASE q \in Under[d] /\ x \notin Under[d]
    <3>1. d \in Under[x] /\ d # x
      BY <2>1, <2>3, UnderLinear, UnderOrder
    <3>2. Parent(d) \in Under[x] /\ Parent(d) \in Paths /\ Exists(Parent(d))
      BY <1>1, <3>1, ParentFacts, TreeFacts DEF Exists, IsDir
    <3>3. IsDir(x)
      BY <1>1, <3>2, TreeFacts DEF IsDir
    <3> QED
      BY <1>2, <2>1, <2>3, <3>3 DEF IsDir
  <2>4. CASE q \notin Under[d]
    <3>1. x \notin Under[d] /\ Exists(q)
      BY <1>2, <1>6, <2>1, <2>4, UnderOrder DEF Exists
    <3>2. IsDir(x)
      BY <1>6, <3>1, TreeFacts
    <3> QED
      BY <1>2, <2>1, <3>1, <3>2 DEF IsDir
  <2> QED
    BY <2>2, <2>3, <2>4
<1>7. Kept(t)
  BY <1>2, <1>4, TreeFacts DEF Kept, Exists
<1> QED
  BY <1>3, <1>5, <1>6, <1>7 DEF Sound, t

-----------------------------------------------------------------------------
(* Steps.                                                                  *)

(* While a rename is under way, what came to its new name is exposed.       *)
Landed ==
  \A i \in Workers : step[i] = "rename" => tree[dest[i]] \notin Contents \ exposed

TreeGood == Sound(tree') /\ (Landed => Kept(tree'))

LEMMA SameTree == ASSUME Sound(tree), UNCHANGED tree PROVE TreeGood
  BY DEF TreeGood, Kept

LEMMA NewEntry ==
  ASSUME Sound(tree), NEW d \in Paths, NEW e \in Entries, ~IsDir(d),
         e # Nothing => IsDir(Parent(d)),
         e = Nothing \/ (Landed => tree[d] \notin Contents \ exposed),
         tree' = [tree EXCEPT ![d] = e]
  PROVE  TreeGood
  BY SetEntry DEF TreeGood

LEMMA TreeStep == ASSUME TypeOK, [Next]_vars PROVE TreeGood
<1>1. Sound(tree)
  BY DEF TypeOK
<1>2. CASE CopyPathsAsync \/ MovePathsAsync \/ MovePathsToTrashAsync \/ RenamePath
  BY <1>1, <1>2, SameTree DEF CopyPathsAsync, MovePathsAsync, MovePathsToTrashAsync,
     Begin, RenamePath, fileVars
<1>3. ASSUME NEW d \in Paths, NEW e \in Entries, ~Exists(d), IsDir(Parent(d)),
             tree' = [tree EXCEPT ![d] = e]
      PROVE  TreeGood
  BY <1>1, <1>3, NewEntry, TreeFacts DEF Exists, IsDir
<1>4. CASE CreateFolder \/ Save
  <2>1. PICK d \in Paths, e \in Contents \cup {Dir} :
          ~Exists(d) /\ IsDir(Parent(d)) /\ tree' = [tree EXCEPT ![d] = e]
    BY <1>4 DEF CreateFolder, Save, Put
  <2> QED
    BY <1>3, <2>1 DEF Entries
<1>5. ASSUME NEW r \in Searched, SearchIndexed(r) PROVE TreeGood
  BY <1>1, <1>5, SameTree DEF SearchIndexed, fileVars
<1>6. ASSUME NEW i \in Workers, Thread(i) PROVE TreeGood
  <2>1. CASE Take(i) \/ Finish(i) \/ Copied(i)
    BY <1>1, <2>1, SameTree DEF Take, Finish, Copied, fileVars
  <2>2. CASE Rename(i)
    <3>1. source[i] \in Paths \ Tops /\ dest[i] \in Paths /\ step[i] = "rename"
      BY <2>2 DEF Rename, TypeOK
    <3>2. CASE CanRename(source[i], dest[i]) /\ tree' = Renamed(source[i], dest[i])
      BY <1>1, <3>1, <3>2, RenameEntry DEF TreeGood
    <3>3. ASSUME CanWrite(source[i], dest[i]), NEW e \in {tree[source[i]], Nothing},
                 tree' = [tree EXCEPT ![dest[i]] = e]
          PROVE  TreeGood
      <4>1. Landed => tree[dest[i]] \notin Contents \ exposed
        BY <3>1 DEF Landed
      <4>2. e \in Entries
        BY <1>1, <3>1, TreeFacts
      <4> QED
        BY <1>1, <3>1, <3>3, <4>1, <4>2, NewEntry DEF CanWrite
    <3> QED
      BY <1>1, <2>2, <3>2, <3>3, SameTree DEF Rename, Put
  <2>3. CASE Unlink(i)
    <3>1. source[i] \in Paths /\ dest[i] \in Paths
      BY <2>3 DEF TypeOK
    <3>2. ASSUME tree[source[i]] \in Contents, tree' = [tree EXCEPT ![source[i]] = Nothing]
          PROVE  TreeGood
      BY <1>1, <3>1, <3>2, NewEntry, TreeFacts DEF IsDir
    <3>3. ASSUME tree' = [tree EXCEPT ![dest[i]] = IF @ = Dir THEN Dir ELSE Nothing]
          PROVE  TreeGood
      <4>1. CASE IsDir(dest[i])
        BY <1>1, <3>1, <3>3, <4>1, SameTree DEF IsDir, Sound
      <4>2. CASE ~IsDir(dest[i])
        <5>1. tree' = [tree EXCEPT ![dest[i]] = Nothing]
          BY <3>3, <4>2 DEF IsDir
        <5> QED
          BY <1>1, <3>1, <4>2, <5>1, NewEntry, TreeFacts
      <4> QED
        BY <4>1, <4>2
    <3> QED
      BY <2>3, <3>2, <3>3 DEF Unlink, Put
  <2>4. CASE CopyRecursively(i)
    <3>1. PICK job \in todo[i] :
            (CanMake(job[2]) /\ tree' = Made(job[2])) \/ UNCHANGED tree
      BY <2>4 DEF CopyRecursively, Put
    <3>2. job[2] \in Paths
      BY <2>4, <3>1 DEF TypeOK, Jobs
    <3> QED
      BY <1>1, <3>1, <3>2, MakePath, SameTree DEF TreeGood
  <2>5. CASE Place(i)
    <3>1. PICK job \in todo[i] :
            \/ CanPlace(job[2]) /\ tree' = [tree EXCEPT ![job[2]] = job[3]]
            \/ UNCHANGED tree
      BY <2>5 DEF Place, Put
    <3>2. job[2] \in Paths /\ job[3] \in Entries
      BY <2>5, <3>1 DEF TypeOK, Jobs, Entries
    <3> QED
      BY <1>1, <1>3, <3>1, <3>2, SameTree DEF CanPlace
  <2>6. CASE Remove(i)
    <3>1. source[i] \in Paths \ Tops
      BY <2>6 DEF Remove, TypeOK
    <3>2. ASSUME NEW q \in Under[source[i]], \A c \in Children[q] : ~Exists(c),
                 tree' = [tree EXCEPT ![q] = Nothing]
          PROVE  TreeGood
      <4>1. q \in Paths \ Tops
        BY <3>1, UnderOrder, TopsOnTop
      <4> QED
        BY <1>1, <3>2, <4>1, DropEntry DEF TreeGood
    <3> QED
      BY <1>1, <2>6, <3>2, SameTree DEF Remove, Put
  <2>7. CASE Trash(i)
    <3>1. source[i] \in Paths \ Tops
      BY <2>7 DEF Trash, TypeOK
    <3> QED
      BY <1>1, <2>7, <3>1, DropAll, SameTree DEF Trash, Put, TreeGood, fileVars
  <2> QED
    BY <1>6, <2>1, <2>2, <2>3, <2>4, <2>5, <2>6, <2>7 DEF Thread
<1>7. ASSUME NEW i \in Workers, UpdateOperation(i) PROVE TreeGood
  BY <1>1, <1>7, SameTree DEF UpdateOperation, fileVars
<1>8. CASE UNCHANGED vars
  BY <1>1, <1>8, SameTree DEF vars, fileVars
<1> QED
  BY <1>2, <1>4, <1>5, <1>6, <1>7, <1>8 DEF Next, User, Worker

(* Put marks only contents as exposed.                                     *)
LEMMA PutTyped ==
  ASSUME TypeOK, NEW others, NEW t, Put(others, t)
  PROVE  exposed' \subseteq Contents
  BY DEF Put, TypeOK

LEMMA HomeIsTop == Home \in Tops /\ Home \in Paths
  BY FilesAssumption DEF Home, Tops

(* What TypeOK says of an operation.                                       *)
OpTypes ==
  /\ kind \in [Workers -> {"copy", "move", "trash", "rename"}]
  /\ sources \in [Workers -> SUBSET (Paths \ Tops)] /\ target \in [Workers -> Paths]
  /\ step \in [Workers -> Steps] /\ ok \in [Workers -> BOOLEAN]
  /\ step[GUI] \in {"unused", "rename", "unlink"}
  /\ source \in [Workers -> Paths] /\ dest \in [Workers -> Paths]
  /\ \A i \in Workers : step[i] \in {"rename", "unlink", "copy", "remove", "trash"} =>
                          source[i] \notin Tops
  /\ todo \in [Workers -> SUBSET Jobs]

(* What it says of the rest.                                               *)
RestTypes ==
  /\ trashed \subseteq Contents /\ exposed \subseteq Contents
  /\ started \in 0..MaxOps /\ reported \subseteq Ops /\ edits \in 0..MaxEdits
  /\ index \in [Searched -> (SUBSET Paths) \cup {Nothing}]
  /\ spoiled \in BOOLEAN

LEMMA TypeParts == TypeOK <=> Sound(tree) /\ OpTypes /\ RestTypes
  BY DEF TypeOK, OpTypes, RestTypes

LEMMA WorkerFacts ==
  /\ GUI \in Workers /\ Ops \subseteq Workers /\ GUI \notin Ops
  /\ \A i \in Workers \ {GUI} : i \in Ops
  BY FilesAssumption DEF GUI, Workers, Ops

(* The GUI thread does nothing but rename.                                  *)
LEMMA GUIRenames ==
  ASSUME TypeOK, NEW i \in Workers, Worker(i)
  PROVE  (Rename(i) \/ Unlink(i)) \/ i \in Ops
<1>1. CASE i = GUI
  <2>1. step[i] \in {"unused", "rename", "unlink"}
    BY <1>1 DEF TypeOK
  <2> QED
    BY <2>1 DEF Worker, Thread, Take, Finish, CopyRecursively, Place, Copied, Remove, Trash,
       UpdateOperation
<1> QED
  BY <1>1, WorkerFacts

(* A rename or what follows one changes of the workers only its own step    *)
(* and, when it goes on with copying, what there is to copy.                *)
LEMMA RenameSteps ==
  ASSUME TypeOK, NEW i \in Workers, Rename(i) \/ Unlink(i)
  PROVE  /\ Renaming(i)
         /\ UNCHANGED <<kind, sources, target, source, dest, ok>>
         /\ \/ i = GUI /\ step' = [step EXCEPT ![i] = "unused"] /\ UNCHANGED todo
            \/ i # GUI /\ step' = [step EXCEPT ![i] = "next"] /\ UNCHANGED todo
            \/ i # GUI /\ BeginCopy(i, source[i], dest[i])
            \/ step' = [step EXCEPT ![i] = "unlink"] /\ UNCHANGED todo
<1>1. \/ RenameDone(i)
      \/ RenameFailed(i)
      \/ step' = [step EXCEPT ![i] = "unlink"] /\ UNCHANGED todo
  <2>1. CASE Rename(i)
    BY <2>1 DEF Rename
  <2>2. CASE Unlink(i)
    BY <2>2 DEF Unlink
  <2> QED
    BY <2>1, <2>2
<1>2. Renaming(i) /\ UNCHANGED <<kind, sources, target, source, dest, ok>>
  BY DEF Rename, Unlink, Renaming
<1>3. CASE i = GUI
  BY <1>1, <1>2, <1>3 DEF RenameDone, RenameFailed
<1>4. CASE i # GUI
  BY <1>1, <1>2, <1>4 DEF RenameDone, RenameFailed
<1> QED
  BY <1>3, <1>4

LEMMA OpStep == ASSUME TypeOK, [Next]_vars PROVE OpTypes'
<1> USE HomeIsTop, WorkerFacts DEF OpTypes, Steps
<1>0. OpTypes
  BY TypeParts
<1>1. ASSUME NEW k \in {"copy", "move", "trash"}, NEW ps \in SUBSET (Paths \ Tops),
             NEW d \in Paths, Begin(k, ps, d)
      PROVE  OpTypes'
  <2>1. started + 1 \in Ops
    BY <1>1, FilesAssumption DEF Begin, TypeOK, Ops
  <2> QED
    BY <1>0, <1>1, <2>1 DEF Begin
<1>2. CASE CopyPathsAsync \/ MovePathsAsync \/ MovePathsToTrashAsync
  BY <1>1, <1>2 DEF CopyPathsAsync, MovePathsAsync, MovePathsToTrashAsync, Selections
<1>3. CASE CreateFolder \/ Save \/ (\E r \in Searched : SearchIndexed(r))
  BY <1>0, <1>3 DEF CreateFolder, Save, SearchIndexed, workerVars
<1>4. CASE RenamePath
  <2>1. PICK p \in Paths \ Tops, d \in Paths :
          source' = [source EXCEPT ![GUI] = p] /\ dest' = [dest EXCEPT ![GUI] = d]
    BY <1>4 DEF RenamePath
  <2>2. step' = [step EXCEPT ![GUI] = "rename"] /\ UNCHANGED <<kind, sources, target, todo, ok>>
    BY <1>4 DEF RenamePath
  <2> QED
    BY <1>0, <2>1, <2>2
<1>5. ASSUME NEW i \in Workers, Rename(i) \/ Unlink(i) PROVE OpTypes'
  <2>1. /\ Renaming(i) /\ UNCHANGED <<kind, sources, target, source, dest, ok>>
        /\ \/ i = GUI /\ step' = [step EXCEPT ![i] = "unused"] /\ UNCHANGED todo
           \/ i # GUI /\ step' = [step EXCEPT ![i] = "next"] /\ UNCHANGED todo
           \/ i # GUI /\ BeginCopy(i, source[i], dest[i])
           \/ step' = [step EXCEPT ![i] = "unlink"] /\ UNCHANGED todo
    BY <1>5, RenameSteps
  <2>2. source[i] \in Paths \ Tops /\ dest[i] \in Paths
    BY <1>0, <2>1 DEF Renaming
  <2>3. <<source[i], dest[i], Nothing>> \in Jobs
    BY <2>2 DEF Jobs
  <2>4. todo' \in [Workers -> SUBSET Jobs]
    BY <1>0, <2>1, <2>3 DEF BeginCopy
  <2>5. /\ step' \in [Workers -> Steps] /\ step'[GUI] \in {"unused", "rename", "unlink"}
        /\ \A j \in Workers \ {i} : step'[j] = step[j]
    BY <1>0, <2>1 DEF BeginCopy
  <2>6. \A j \in Workers : step'[j] \in {"rename", "unlink", "copy", "remove", "trash"} =>
                            source'[j] \notin Tops
    BY <1>0, <2>1, <2>2, <2>5
  <2> QED
    BY <1>0, <2>1, <2>4, <2>5, <2>6
<1>6. ASSUME NEW i \in Ops, Thread(i) PROVE OpTypes'
  <2>1. CASE Take(i)
    <3>1. PICK p \in sources[i] :
            /\ sources' = [sources EXCEPT ![i] = @ \ {p}]
            /\ source' = [source EXCEPT ![i] = p]
            /\ \/ Fail(i) /\ UNCHANGED dest
               \/ step' = [step EXCEPT ![i] = "trash"] /\ UNCHANGED <<dest, todo, ok>>
               \/ \E d \in UniqueTargets(i, p) :
                    /\ dest' = [dest EXCEPT ![i] = d]
                    /\ \/ step' = [step EXCEPT ![i] = "rename"] /\ UNCHANGED todo
                       \/ BeginCopy(i, p, d)
                    /\ UNCHANGED ok
      BY <2>1 DEF Take
    <3>2. p \in Paths \ Tops
      BY <1>0, <3>1
    <3>3. UniqueTargets(i, p) \subseteq Paths
      BY <1>0 DEF UniqueTargets, Children
    <3>4. UNCHANGED <<kind, target>>
      BY <2>1 DEF Take
    <3>5. /\ sources' \in [Workers -> SUBSET (Paths \ Tops)]
          /\ source' \in [Workers -> Paths] /\ source'[i] \notin Tops
          /\ \A j \in Workers \ {i} : source'[j] = source[j]
      BY <1>0, <3>1, <3>2
    <3>6. /\ step' \in [Workers -> Steps] /\ step'[GUI] = step[GUI]
          /\ \A j \in Workers \ {i} : step'[j] = step[j]
      BY <1>0, <3>1 DEF Fail, BeginCopy
    <3>7. ok' \in [Workers -> BOOLEAN]
      BY <1>0, <3>1 DEF Fail
    <3>8. \A d \in UniqueTargets(i, p) : <<p, d, Nothing>> \in Jobs
      BY <3>2, <3>3 DEF Jobs
    <3>9. todo' \in [Workers -> SUBSET Jobs]
      BY <1>0, <3>1, <3>8 DEF Fail, BeginCopy
    <3>10. dest' \in [Workers -> Paths]
      BY <1>0, <3>1, <3>3
    <3> QED
      BY <1>0, <3>4, <3>5, <3>6, <3>7, <3>9, <3>10
  <2>2. CASE Finish(i) \/ Copied(i)
    BY <1>0, <2>2 DEF Finish, Copied
  <2>3. CASE CopyRecursively(i) \/ Place(i)
    <3>1. todo' \in [Workers -> SUBSET Jobs]
      <4>1. CASE Place(i)
        BY <1>0, <4>1 DEF Place, Fail
      <4>2. CASE CopyRecursively(i)
        <5>1. PICK job \in todo[i] :
                \/ \E below \in SUBSET Jobs : todo' = [todo EXCEPT ![i] = (@ \ {job}) \cup below]
                \/ /\ tree[job[1]] \in Contents
                   /\ todo' = [todo EXCEPT ![i] =
                                 (@ \ {job}) \cup {<<job[1], job[2], tree[job[1]]>>}]
                \/ todo' = [todo EXCEPT ![i] = {}]
          BY <4>2 DEF CopyRecursively, Fail
        <5>2. job \in Jobs
          BY <1>0, <5>1
        <5>3. tree[job[1]] \in Contents => <<job[1], job[2], tree[job[1]]>> \in Jobs
          BY <5>2 DEF Jobs
        <5> QED
          BY <1>0, <5>1, <5>3
      <4> QED
        BY <2>3, <4>1, <4>2
    <3>2. step' = step \/ step' = [step EXCEPT ![i] = "posted"]
      BY <2>3 DEF CopyRecursively, Place, Fail
    <3>3. ok' = ok \/ ok' = [ok EXCEPT ![i] = FALSE]
      BY <2>3 DEF CopyRecursively, Place, Fail
    <3>4. UNCHANGED <<kind, sources, target, source, dest>>
      BY <2>3 DEF CopyRecursively, Place
    <3> QED
      BY <1>0, <3>1, <3>2, <3>3, <3>4
  <2>4. CASE Remove(i) \/ Trash(i)
    BY <1>0, <2>4 DEF Remove, Trash, NextPath, Fail, Jobs
  <2> QED
    BY <1>5, <1>6, <2>1, <2>2, <2>3, <2>4 DEF Thread
<1>7. ASSUME NEW i \in Ops, UpdateOperation(i) PROVE OpTypes'
  BY <1>0, <1>7 DEF UpdateOperation, Forget
<1>8. CASE UNCHANGED vars
  BY <1>0, <1>8 DEF vars, workerVars
<1>9. ASSUME NEW i \in Workers, Worker(i) PROVE OpTypes'
  BY <1>5, <1>6, <1>7, <1>9, GUIRenames DEF Worker
<1> QED
  BY <1>2, <1>3, <1>4, <1>8, <1>9 DEF Next, User

LEMMA RestStep == ASSUME TypeOK, [Next]_vars PROVE RestTypes'
<1> USE FilesAssumption DEF RestTypes, fileVars, guiVars, workerVars
<1> SUFFICES ASSUME RestTypes PROVE RestTypes'
  BY TypeParts
<1>1. CASE CopyPathsAsync \/ MovePathsAsync \/ MovePathsToTrashAsync
  BY <1>1 DEF CopyPathsAsync, MovePathsAsync, MovePathsToTrashAsync, Begin
<1>2. CASE CreateFolder
  <2>1. exposed' \subseteq Contents
    BY <1>2, PutTyped DEF CreateFolder
  <2>2. Edit /\ ClearIndex /\ UNCHANGED <<trashed, started, reported>>
    BY <1>2 DEF CreateFolder
  <2>3. edits' \in 0..MaxEdits
    BY <2>2 DEF Edit
  <2> QED
    BY <2>1, <2>2, <2>3 DEF ClearIndex
<1>3. CASE Save
  BY <1>3, PutTyped DEF Save, Edit
<1>4. CASE RenamePath
  BY <1>4 DEF RenamePath, Edit
<1>5. ASSUME NEW r \in Searched, SearchIndexed(r) PROVE RestTypes'
  <2>1. {p \in Under[r] : Exists(p)} \in SUBSET Paths
    BY DEF Under, Tops
  <2> QED
    BY <1>5, <2>1 DEF SearchIndexed
<1>6. ASSUME NEW i \in Workers, Thread(i) PROVE RestTypes'
  <2>1. CASE Take(i) \/ Finish(i) \/ Copied(i)
    BY <2>1 DEF Take, Finish, Copied
  <2>2. CASE Rename(i) \/ Unlink(i)
    <3>1. exposed' \subseteq Contents
      BY <2>2, PutTyped DEF Rename, Unlink
    <3>2. /\ UNCHANGED <<trashed, started, reported, edits>>
          /\ UNCHANGED <<index, spoiled>> \/ ClearIndex
      BY <2>2 DEF Rename, Unlink, RenameDone, RenameFailed
    <3> QED
      BY <3>1, <3>2 DEF ClearIndex
  <2>3. CASE CopyRecursively(i) \/ Place(i)
    <3>1. exposed' \subseteq Contents
      BY <2>3, PutTyped DEF CopyRecursively, Place
    <3>2. UNCHANGED <<trashed, guiVars>>
      BY <2>3 DEF CopyRecursively, Place
    <3> QED
      BY <3>1, <3>2
  <2>4. CASE Remove(i)
    <3>1. exposed' \subseteq Contents
      BY <2>4, PutTyped DEF Remove
    <3> QED
      BY <2>4, <3>1 DEF Remove
  <2>5. CASE Trash(i)
    BY <2>5, PutTyped DEF Trash
  <2> QED
    BY <1>6, <2>1, <2>2, <2>3, <2>4, <2>5 DEF Thread
<1>7. ASSUME NEW i \in Ops, UpdateOperation(i) PROVE RestTypes'
  BY <1>7 DEF UpdateOperation, ClearIndex
<1>8. CASE UNCHANGED vars
  BY <1>8 DEF vars
<1>9. ASSUME NEW i \in Workers, Worker(i) PROVE RestTypes'
  BY <1>6, <1>7, <1>9, GUIRenames DEF Worker, Thread
<1> QED
  BY <1>1, <1>2, <1>3, <1>4, <1>5, <1>8, <1>9 DEF Next, User

-----------------------------------------------------------------------------
(* Every variable keeps its type; above all, the tree stays one: whatever  *)
(* exists is in directories up to the root of its device, at every moment  *)
(* of any operations beside each other.                                    *)
THEOREM FileTypes == Safety => []TypeOK
<1>1. ASSUME Init PROVE TypeOK
  <2>1. OpTypes
    BY <1>1, HomeIsTop, WorkerFacts DEF Init, OpTypes, Steps
  <2>2. RestTypes
    <3>1. 0 \in 0..MaxOps /\ 0 \in 0..MaxEdits
      BY FilesAssumption
    <3>2. index \in [Searched -> (SUBSET Paths) \cup {Nothing}]
      BY <1>1 DEF Init
    <3> QED
      BY <1>1, <3>1, <3>2 DEF Init, RestTypes
  <2> QED
    BY <1>1, <2>1, <2>2, TypeParts, FilesAssumption DEF Init
<1>2. TypeOK /\ [Next]_vars => TypeOK'
  BY TreeStep, OpStep, RestStep DEF TreeGood, TypeOK, OpTypes, RestTypes
<1> QED
  BY <1>1, <1>2, PTL DEF Safety

(* Whatever a step puts where a worker deletes, or where another one        *)
(* overwrites, is exposed; only its own target is no danger to a worker.    *)
ExposedBy(others) ==
  exposed' = exposed \cup
    (Contents \cap {tree'[p] : p \in {q \in Doomed \cup Landings(others) : tree'[q] # tree[q]}})

LEMMA ExposedNone ==
  ASSUME NEW others, UNCHANGED <<tree, exposed>>
  PROVE  ExposedBy(others)
  BY DEF ExposedBy

LEMMA ExposedUser == ASSUME User \/ UNCHANGED vars PROVE ExposedBy(Workers)
<1>1. CASE CreateFolder \/ Save
  BY <1>1 DEF CreateFolder, Save, Put, ExposedBy
<1>2. CASE CopyPathsAsync \/ MovePathsAsync \/ MovePathsToTrashAsync \/ RenamePath
           \/ \E r \in Searched : SearchIndexed(r)
  BY <1>2, ExposedNone DEF CopyPathsAsync, MovePathsAsync, MovePathsToTrashAsync, Begin,
     RenamePath, SearchIndexed, fileVars
<1>3. CASE UNCHANGED vars
  BY <1>3, ExposedNone DEF vars, fileVars
<1> QED
  BY <1>1, <1>2, <1>3 DEF User

LEMMA ExposedWorker ==
  ASSUME NEW i \in Workers, Worker(i)
  PROVE  ExposedBy(Workers \ {i})
<1>1. CASE Take(i) \/ Finish(i) \/ Copied(i) \/ UpdateOperation(i)
  BY <1>1, ExposedNone DEF Take, Finish, Copied, UpdateOperation, fileVars
<1>2. ASSUME NEW t, Put(Workers \ {i}, t) PROVE ExposedBy(Workers \ {i})
  BY <1>2 DEF Put, ExposedBy
<1>3. CASE Rename(i)
  BY <1>2, <1>3, ExposedNone DEF Rename
<1>4. CASE Unlink(i)
  BY <1>2, <1>4, ExposedNone DEF Unlink
<1>5. CASE CopyRecursively(i)
  BY <1>2, <1>5, ExposedNone DEF CopyRecursively
<1>6. CASE Place(i)
  BY <1>2, <1>6, ExposedNone DEF Place
<1>7. CASE Remove(i)
  BY <1>2, <1>7, ExposedNone DEF Remove
<1>8. CASE Trash(i)
  BY <1>2, <1>8, ExposedNone DEF Trash, fileVars
<1> QED
  BY <1>1, <1>3, <1>4, <1>5, <1>6, <1>7, <1>8 DEF Worker, Thread

(* What is not exposed after a step arrived in no such place.               *)
LEMMA Arrival ==
  ASSUME NEW others, ExposedBy(others), NEW c \in Contents \ exposed', NEW m,
         tree'[m] = c, tree[m] # c
  PROVE  c \notin exposed /\ m \notin Doomed /\ m \notin Landings(others)
  BY DEF ExposedBy

(* What is exposed remains so, and what becomes so has just arrived.        *)
LEMMA ExposedGrows ==
  ASSUME TypeOK, [Next]_vars
  PROVE  /\ exposed \subseteq exposed'
         /\ \A c \in exposed' \ exposed : \E p \in Paths : tree'[p] = c
<1>1. PICK others \in SUBSET Workers : ExposedBy(others)
  <2>1. CASE User \/ UNCHANGED vars
    BY <2>1, ExposedUser
  <2>2. CASE \E i \in Workers : Worker(i)
    BY <2>2, ExposedWorker
  <2> QED
    BY <2>1, <2>2 DEF Next
<1>2. Doomed \cup Landings(others) \subseteq Paths
  <2>1. \A i \in Workers : /\ source[i] \in Paths /\ dest[i] \in Paths
                           /\ Under[source[i]] \subseteq Paths
    BY TypeParts DEF OpTypes, Under
  <2> QED
    BY <2>1 DEF Doomed, Landings
<1> QED
  BY <1>1, <1>2 DEF ExposedBy

(* The other workers take no step.                                          *)
OthersWait(i) ==
  \A j \in Workers \ {i} : /\ kind'[j] = kind[j] /\ step'[j] = step[j]
                           /\ source'[j] = source[j] /\ dest'[j] = dest[j]
                           /\ todo'[j] = todo[j]

LEMMA WorkerAlone == ASSUME TypeOK, NEW i \in Workers, Worker(i) PROVE OthersWait(i)
<1>0. OpTypes
  BY TypeParts
<1> USE <1>0 DEF OpTypes, OthersWait
<1>1. CASE Take(i)
  <2>1. PICK p \in sources[i] :
          /\ source' = [source EXCEPT ![i] = p]
          /\ \/ Fail(i) /\ UNCHANGED dest
             \/ step' = [step EXCEPT ![i] = "trash"] /\ UNCHANGED <<dest, todo, ok>>
             \/ \E d \in UniqueTargets(i, p) :
                  /\ dest' = [dest EXCEPT ![i] = d]
                  /\ \/ step' = [step EXCEPT ![i] = "rename"] /\ UNCHANGED todo
                     \/ BeginCopy(i, p, d)
    BY <1>1 DEF Take
  <2>2. UNCHANGED kind
    BY <1>1 DEF Take
  <2> QED
    BY <2>1, <2>2 DEF Fail, BeginCopy
<1>2. CASE Finish(i) \/ Copied(i) \/ Remove(i) \/ Trash(i)
  BY <1>2 DEF Finish, Copied, Remove, Trash, NextPath, Fail
<1>3. CASE Rename(i) \/ Unlink(i)
  BY <1>3, RenameSteps DEF BeginCopy
<1>4. CASE CopyRecursively(i)
  BY <1>4 DEF CopyRecursively, Fail
<1>5. CASE Place(i)
  BY <1>5 DEF Place, Fail
<1>6. CASE UpdateOperation(i)
  BY <1>6 DEF UpdateOperation, Forget
<1> QED
  BY <1>1, <1>2, <1>3, <1>4, <1>5, <1>6 DEF Worker, Thread

(* A target is taken for a rename when nothing is there.                    *)
LEMMA TargetFree ==
  ASSUME TypeOK, NEW i \in Workers, Worker(i), step'[i] = "rename"
  PROVE  UNCHANGED tree /\ tree[dest'[i]] = Nothing
<1>0. OpTypes
  BY TypeParts
<1>1. CASE Take(i)
  <2>1. PICK p \in sources[i] :
          \/ step' = [step EXCEPT ![i] = "posted"]
          \/ step' = [step EXCEPT ![i] = "trash"]
          \/ \E d \in UniqueTargets(i, p) : dest' = [dest EXCEPT ![i] = d]
    BY <1>1 DEF Take, Fail
  <2>2. \A d \in UniqueTargets(i, p) : tree[d] = Nothing
    BY DEF UniqueTargets, Exists
  <2>3. tree[dest'[i]] = Nothing
    BY <1>0, <2>1, <2>2 DEF OpTypes
  <2> QED
    BY <1>1, <2>3 DEF Take, fileVars
<1>2. CASE Finish(i) \/ Copied(i) \/ Remove(i) \/ Trash(i) \/ UpdateOperation(i)
  BY <1>0, <1>2 DEF OpTypes, Finish, Copied, Remove, Trash, NextPath, Fail, UpdateOperation
<1>3. CASE Rename(i) \/ Unlink(i)
  BY <1>0, <1>3, RenameSteps DEF OpTypes, BeginCopy
<1>4. CASE CopyRecursively(i) \/ Place(i)
  BY <1>0, <1>4 DEF OpTypes, CopyRecursively, Place, Fail
<1> QED
  BY <1>1, <1>2, <1>3, <1>4 DEF Worker, Thread

LEMMA LandedStep == ASSUME TypeOK, Landed, [Next]_vars PROVE Landed'
<1>0. OpTypes /\ Nothing \notin Contents
  BY TypeParts, TreeFacts DEF TypeOK
<1>1. ASSUME NEW others \in SUBSET Workers, ExposedBy(others), NEW j \in others,
             step[j] = "rename", dest'[j] = dest[j]
      PROVE  tree'[dest'[j]] \notin Contents \ exposed'
  <2>1. SUFFICES ASSUME tree'[dest[j]] \in Contents \ exposed' PROVE FALSE
    BY <1>1
  <2>2. dest[j] \in Landings(others)
    BY <1>1 DEF Landings, Renaming
  <2>3. tree'[dest[j]] = tree[dest[j]]
    BY <1>1, <2>1, <2>2, Arrival
  <2>4. tree[dest[j]] \notin exposed
    BY <1>1, <2>1, <2>3 DEF ExposedBy
  <2> QED
    BY <1>1, <2>1, <2>3, <2>4 DEF Landed
<1>2. CASE User \/ UNCHANGED vars
  <2>1. ExposedBy(Workers)
    BY <1>2, ExposedUser
  <2>2. CASE RenamePath
    <3>1. PICK d \in Paths : dest' = [dest EXCEPT ![GUI] = d] /\ tree[d] = Nothing
      BY <2>2 DEF RenamePath, Exists
    <3>2. UNCHANGED tree /\ step' = [step EXCEPT ![GUI] = "rename"]
      BY <2>2 DEF RenamePath, fileVars
    <3>3. ASSUME NEW j \in Workers, step'[j] = "rename"
          PROVE  tree'[dest'[j]] \notin Contents \ exposed'
      <4>1. CASE j = GUI
        BY <1>0, <3>1, <3>2, <4>1 DEF OpTypes
      <4>2. CASE j # GUI
        BY <1>0, <1>1, <2>1, <3>1, <3>2, <3>3, <4>2 DEF OpTypes
      <4> QED
        BY <4>1, <4>2
    <3> QED
      BY <3>3 DEF Landed
  <2>3. CASE CopyPathsAsync \/ MovePathsAsync \/ MovePathsToTrashAsync
    <3>1. UNCHANGED dest /\ \E i : step' = [step EXCEPT ![i] = "next"]
      BY <2>3 DEF CopyPathsAsync, MovePathsAsync, MovePathsToTrashAsync, Begin
    <3> QED
      BY <1>0, <1>1, <2>1, <3>1 DEF Landed, OpTypes
  <2>4. CASE UNCHANGED <<step, dest>>
    BY <1>1, <2>1, <2>4 DEF Landed
  <2> QED
    BY <1>2, <2>2, <2>3, <2>4 DEF User, CreateFolder, Save, SearchIndexed, workerVars, vars
<1>3. ASSUME NEW i \in Workers, Worker(i) PROVE Landed'
  <2>1. ExposedBy(Workers \ {i}) /\ OthersWait(i)
    BY <1>3, ExposedWorker, WorkerAlone
  <2>2. ASSUME NEW j \in Workers, step'[j] = "rename"
        PROVE  tree'[dest'[j]] \notin Contents \ exposed'
    <3>1. CASE j = i
      BY <1>0, <1>3, <2>2, <3>1, TargetFree
    <3>2. CASE j # i
      BY <1>1, <2>1, <2>2, <3>2 DEF OthersWait
    <3> QED
      BY <3>1, <3>2
  <2> QED
    BY <2>2 DEF Landed
<1> QED
  BY <1>2, <1>3 DEF Next

(* At the name a move or rename has found free there is no file, but one    *)
(* another worker put there since: that one is exposed.                     *)
THEOREM TargetsLanded == Safety => []Landed
<1>1. Init => Landed
  BY DEF Init, Landed
<1>2. TypeOK /\ Landed /\ [Next]_vars => Landed'
  BY LandedStep
<1> QED
  BY <1>1, <1>2, FileTypes, PTL DEF Safety

(* No step of an operation, of a folder command or of a user's own work     *)
(* replaces a file by another one, but for what came to the new name of a   *)
(* move or rename that is under way.                                        *)
THEOREM NothingOverwritten == Safety => NeverOverwrites
<1>1. TypeOK /\ Landed /\ [Next]_vars =>
        [\A p \in Paths : tree[p] \in Contents \ exposed => tree'[p] \in {tree[p], Nothing}]_vars
  BY TreeStep DEF TreeGood, Kept
<1> QED
  BY <1>1, FileTypes, TargetsLanded, PTL DEF Safety, NeverOverwrites

-----------------------------------------------------------------------------
(* The index.                                                              *)

(* An operation that has begun is quiet again only when its result was     *)
(* delivered.                                                              *)
Quiet == \A i \in Ops : step[i] \in {"unused", "delivered"}

(* While nothing but the GUI thread's own rename is under way, the index    *)
(* misses at most the file that it has just written.                        *)
IndexInv ==
  Quiet /\ ~spoiled =>
    /\ step[GUI] = "unlink" => ~IsDir(dest[GUI])
    /\ \A r \in Searched : index[r] # Nothing =>
         \A p \in Under[r] : Exists(p) =>
           p \in index[r] \/ (step[GUI] = "unlink" /\ p = dest[GUI])

LEMMA IndexMeans == ASSUME IndexInv PROVE IndexComplete
  BY WorkerFacts DEF IndexInv, IndexComplete, Quiet

LEMMA IndexStep == TypeOK /\ IndexInv /\ [Next]_vars => IndexInv'
<1> SUFFICES ASSUME TypeOK, IndexInv, [Next]_vars PROVE IndexInv'
  OBVIOUS
<1>0. OpTypes /\ Sound(tree) /\ GUI \in Workers
  BY TypeParts, WorkerFacts
<1>1. ASSUME index' = [r \in Searched |-> Nothing], step'[GUI] # "unlink" PROVE IndexInv'
  BY <1>1 DEF IndexInv
<1>2. CASE spoiled'
  BY <1>2 DEF IndexInv
<1>3. CASE ~Quiet'
  BY <1>3 DEF IndexInv
<1>4. ASSUME UNCHANGED <<index, spoiled>>, UNCHANGED tree, \A i \in Ops : step'[i] = step[i],
             step[GUI] # "unlink", step'[GUI] # "unlink"
      PROVE  IndexInv'
  <2>1. Quiet' => Quiet
    BY <1>4 DEF Quiet
  <2>2. ASSUME Quiet', ~spoiled', NEW r \in Searched, index'[r] # Nothing,
               NEW p \in Under[r], Exists(p)'
        PROVE  p \in index'[r]
    BY <1>4, <2>1, <2>2 DEF IndexInv, Exists
  <2> QED
    BY <1>4, <2>2 DEF IndexInv, Exists
<1>5. CASE CopyPathsAsync \/ MovePathsAsync \/ MovePathsToTrashAsync
  <2>1. /\ started + 1 \in Ops
        /\ step' = [step EXCEPT ![started + 1] = "next"]
    BY <1>5, FilesAssumption DEF CopyPathsAsync, MovePathsAsync,
       MovePathsToTrashAsync, Begin, TypeOK, Ops
  <2>2. step'[started + 1] = "next"
    BY <1>0, <2>1, WorkerFacts DEF OpTypes
  <2> QED
    BY <1>3, <2>1, <2>2 DEF Quiet
<1>6. CASE CreateFolder \/ Save
  BY <1>1, <1>2, <1>6 DEF CreateFolder, Save, ClearIndex, Idle, Renaming, workerVars
<1>7. CASE RenamePath
  <2>1. step[GUI] # "unlink" /\ step' = [step EXCEPT ![GUI] = "rename"]
    BY <1>7 DEF RenamePath, Idle, Renaming
  <2>2. step'[GUI] = "rename" /\ \A i \in Ops : step'[i] = step[i]
    BY <1>0, <2>1, WorkerFacts DEF OpTypes
  <2> QED
    BY <1>4, <1>7, <2>1, <2>2 DEF RenamePath, fileVars
<1>8. ASSUME NEW r \in Searched, SearchIndexed(r) PROVE IndexInv'
  <2>1. /\ UNCHANGED <<tree, step, spoiled>> /\ step[GUI] # "unlink"
        /\ index' = [index EXCEPT ![r] = {p \in Under[r] : Exists(p)}]
    BY <1>8 DEF SearchIndexed, Idle, Renaming, fileVars, workerVars
  <2>2. \A p \in Under[r] : Exists(p)' => p \in index'[r]
    BY <2>1 DEF Exists, TypeOK
  <2>3. \A q \in Searched \ {r} : index'[q] = index[q]
    BY <2>1 DEF TypeOK
  <2>4. Quiet' => Quiet
    BY <2>1 DEF Quiet
  <2>5. ASSUME Quiet', ~spoiled', NEW q \in Searched, index'[q] # Nothing,
               NEW p \in Under[q], Exists(p)'
        PROVE  p \in index'[q]
    <3>1. CASE q = r
      BY <2>2, <2>5, <3>1
    <3>2. CASE q # r
      BY <2>1, <2>3, <2>4, <2>5, <3>2 DEF IndexInv, Exists
    <3> QED
      BY <3>1, <3>2
  <2>6. step'[GUI] # "unlink"
    BY <2>1
  <2> QED
    BY <2>5, <2>6 DEF IndexInv, Exists
<1>9. ASSUME NEW i \in Ops, Thread(i) PROVE IndexInv'
  <2>1. step[i] \notin {"unused", "delivered"}
    BY <1>9 DEF Thread, Take, Finish, Rename, Unlink, CopyRecursively, Place, Copied, Remove,
       Trash
  <2>2. i \in Workers /\ i # GUI
    BY WorkerFacts
  <2>3. CASE Rename(i) \/ Unlink(i)
    BY <1>0, <1>3, <2>2, <2>3, RenameSteps DEF OpTypes, BeginCopy, Quiet
  <2>4. CASE ~(Rename(i) \/ Unlink(i))
    <3>1. \/ UNCHANGED step
          \/ \E to \in Steps \ {"unused", "delivered"} : step' = [step EXCEPT ![i] = to]
      BY <1>9, <2>4 DEF Thread, Take, Finish, CopyRecursively, Place, Copied, Remove, Trash,
         BeginCopy, Fail, NextPath, Steps
    <3>2. step'[i] \notin {"unused", "delivered"}
      BY <1>0, <2>1, <2>2, <3>1 DEF OpTypes
    <3> QED
      BY <1>3, <3>2 DEF Quiet
  <2> QED
    BY <2>3, <2>4
<1>10. ASSUME NEW i \in Ops, UpdateOperation(i) PROVE IndexInv'
  <2>1. step[GUI] # "unlink" /\ step' = [step EXCEPT ![i] = "delivered"]
    BY <1>10 DEF UpdateOperation, Idle, Renaming
  <2>2. step'[GUI] # "unlink"
    BY <1>0, <2>1 DEF OpTypes
  <2> QED
    BY <1>1, <1>2, <1>10, <2>2 DEF UpdateOperation, ClearIndex
<1>11. ASSUME Rename(GUI) \/ Unlink(GUI) PROVE IndexInv'
  <2>1. CASE RenameDone(GUI)
    BY <1>0, <1>1, <2>1 DEF RenameDone, ClearIndex, OpTypes
  <2>2. ASSUME UNCHANGED <<index, spoiled, dest>>, \A i \in Ops : step'[i] = step[i],
               step'[GUI] = "unlink" => ~IsDir(dest[GUI])',
               \A p \in Paths : Exists(p)' =>
                 \/ step'[GUI] = "unlink" /\ p = dest[GUI]
                 \/ Exists(p) /\ ~(Quiet /\ ~spoiled /\ step[GUI] = "unlink" /\ p = dest[GUI])
        PROVE  IndexInv'
    <3>1. \A r \in Searched : Under[r] \subseteq Paths
      BY FilesAssumption, UnderOrder DEF Tops
    <3> QED
      BY <2>2, <3>1 DEF IndexInv, Quiet
  <2>3. UNCHANGED dest /\ dest[GUI] \in Paths /\ source[GUI] \in Paths
    BY <1>0, <1>11 DEF Rename, Unlink, OpTypes
  <2>4. CASE RenameFailed(GUI)
    <3>1. /\ UNCHANGED <<index, spoiled>> /\ step'[GUI] = "unused"
          /\ \A i \in Ops : step'[i] = step[i]
      BY <1>0, <2>4, WorkerFacts DEF RenameFailed, OpTypes
    <3>2. CASE Rename(GUI)
      <4>1. \A p \in Paths : Exists(p)' /\ ~RenameDone(GUI) => Exists(p)
        <5>1. \/ RenameDone(GUI)
              \/ UNCHANGED tree
              \/ step' = [step EXCEPT ![GUI] = "unlink"]
              \/ tree' = [tree EXCEPT ![dest[GUI]] = Nothing]
          BY <3>2 DEF Rename, Put
        <5>2. step' # [step EXCEPT ![GUI] = "unlink"]
          BY <1>0, <3>1 DEF OpTypes
        <5> QED
          BY <1>0, <2>3, <5>1, <5>2 DEF Exists, Sound
      <4>2. step[GUI] = "rename"
        BY <3>2 DEF Rename
      <4> QED
        BY <2>1, <2>2, <2>3, <3>1, <4>1, <4>2
    <3>3. CASE Unlink(GUI)
      <4>1. CASE ~RenameDone(GUI) /\ ~IsDir(dest[GUI])
        <5>1. tree' = [tree EXCEPT ![dest[GUI]] = Nothing]
          BY <3>3, <4>1 DEF Unlink, Put, IsDir
        <5>2. \A p \in Paths : Exists(p)' => Exists(p) /\ p # dest[GUI]
          BY <1>0, <2>3, <5>1 DEF Exists, Sound
        <5> QED
          BY <2>2, <2>3, <3>1, <5>2
      <4>2. CASE IsDir(dest[GUI])
        <5>1. step[GUI] = "unlink"
          BY <3>3 DEF Unlink
        <5> QED
          BY <3>1, <4>2, <5>1 DEF IndexInv, Quiet
      <4> QED
        BY <2>1, <4>1, <4>2
    <3> QED
      BY <1>11, <3>2, <3>3
  <2>5. CASE step' = [step EXCEPT ![GUI] = "unlink"]
    <3>1. step'[GUI] = "unlink" /\ \A i \in Ops : step'[i] = step[i]
      BY <1>0, <2>5, WorkerFacts DEF OpTypes
    <3>2. /\ step[GUI] = "rename" /\ UNCHANGED <<index, spoiled>>
          /\ tree[source[GUI]] \in Contents
          /\ tree' = [tree EXCEPT ![dest[GUI]] = tree[source[GUI]]]
      BY <1>11, <3>1, <1>0 DEF Rename, Unlink, RenameDone, RenameFailed, CanWrite, Put, OpTypes
    <3>3. tree'[dest[GUI]] \in Contents /\ \A p \in Paths \ {dest[GUI]} : tree'[p] = tree[p]
      BY <1>0, <2>3, <3>2 DEF Sound
    <3>4. ~IsDir(dest[GUI])'
      BY <1>0, <2>3, <3>3, TreeFacts DEF IsDir
    <3> QED
      BY <2>2, <2>3, <3>1, <3>2, <3>3, <3>4 DEF Exists
  <2> QED
    BY <1>11, <2>1, <2>4, <2>5 DEF Rename, Unlink
<1>12. CASE UNCHANGED vars
  BY <1>12 DEF vars, fileVars, workerVars, guiVars, IndexInv, Quiet, Exists, IsDir
<1>13. ASSUME NEW i \in Workers, Worker(i) PROVE IndexInv'
  <2>1. CASE i = GUI
    BY <1>11, <1>13, <2>1, GUIRenames, WorkerFacts
  <2>2. CASE i # GUI
    BY <1>9, <1>10, <1>13, <2>2, WorkerFacts DEF Worker
  <2> QED
    BY <2>1, <2>2
<1> QED
  BY <1>5, <1>6, <1>7, <1>8, <1>12, <1>13 DEF Next, User

(* A search by an index misses no file once the operations since it was    *)
(* built are over, went well and were all reported.                        *)
THEOREM IndexStaysComplete == Safety => []IndexComplete
<1>1. Init => IndexInv
  BY WorkerFacts DEF Init, IndexInv
<1>2. TypeOK /\ IndexInv /\ [Next]_vars => IndexInv'
  BY IndexStep
<1>3. IndexInv => IndexComplete
  BY IndexMeans
<1> QED
  BY <1>1, <1>2, <1>3, FileTypes, PTL DEF Safety

-----------------------------------------------------------------------------
(* Files.  What a move that copies is sure to delete, of what lies below its *)
(* source, is only what it has copied already; what arrives there is        *)
(* exposed.  A rename that writes its file anew removes the old place or,   *)
(* when that fails, the new one, so two such renames may undo each other's  *)
(* work.  An unexposed file always has places that no move is about to      *)
(* delete, in which every rename that removes one leads to a higher one,    *)
(* and a lowest place that no rename may take back.                         *)

Moving(i) == kind[i] = "move" /\ step[i] \in {"copy", "remove"}

ToCopy(i, p) == step[i] = "copy" /\ \E job \in todo[i] : p \in Under[job[1]]

Free(p) == \A i \in Workers : Moving(i) /\ p \in Under[source[i]] => ToCopy(i, p)

(* Every rename that removes one of P has written a higher one of P.        *)
Linked(P, h) ==
  \A i \in Workers : step[i] = "unlink" /\ source[i] \in P =>
                       dest[i] \in P /\ h[source[i]] < h[dest[i]]

(* What was written in P was written by one rename, and not to the root.    *)
Rooted(r, P) ==
  \A i \in Workers : Renaming(i) /\ dest[i] \in P =>
    /\ dest[i] # r /\ step[i] = "unlink"
    /\ \A j \in Workers \ {i} : Renaming(j) => dest[j] # dest[i]

Ranked(c, r, P, h) ==
  /\ P \subseteq Paths /\ r \in P /\ h \in [Paths -> Nat]
  /\ \A p \in P : tree[p] = c /\ Free(p)
  /\ Linked(P, h) /\ Rooted(r, P)

Good(c) == c \in trashed \/ \E r, P, h : Ranked(c, r, P, h)

GoodInv == \A c \in Contents \ exposed : Somewhere(c) => Good(c)

(* Only a move removes what it has copied.                                  *)
MoveSteps == \A i \in Workers : step[i] = "remove" => kind[i] = "move"

(* A move copies what lies below its source, and the content of a file it   *)
(* has read is the one that is there, but for exposed ones.                 *)
JobFine(i, job) ==
  /\ job[1] \in Under[source[i]]
  /\ job[3] # Nothing =>
       \A q \in Under[job[1]] : tree[q] \in Contents \ exposed => tree[q] = job[3]

Opened ==
  \A i \in Workers : kind[i] = "move" /\ step[i] = "copy" =>
    \A job \in todo[i] : JobFine(i, job)

(* Places stay good when one worker takes a step.                           *)
LEMMA ChainKept ==
  ASSUME NEW i \in Workers, OthersWait(i),
         NEW c, NEW r, NEW P, NEW h, Ranked(c, r, P, h),
         NEW Q \in SUBSET P, NEW s \in Q,
         \A p \in Q : tree'[p] = c,
         \A p \in Q : Moving(i)' /\ p \in Under[source'[i]] => ToCopy(i, p)',
         Renaming(i)' => dest'[i] \notin Q,
         step'[i] = "unlink" => source'[i] \notin Q,
         \A j \in Workers \ {i} : step[j] = "unlink" /\ source[j] \in Q => dest[j] \in Q,
         \A j \in Workers \ {i} : Renaming(j) => dest[j] # s
  PROVE  Good(c)'
<1>1. Q \subseteq Paths /\ h \in [Paths -> Nat]
  BY DEF Ranked
<1>2. \A p \in Q : Free(p)'
  BY DEF Ranked, OthersWait, Free, Moving, ToCopy
<1>3. Linked(Q, h)'
  BY DEF Ranked, OthersWait, Linked
<1>4. Rooted(s, Q)'
  BY DEF Ranked, OthersWait, Rooted, Renaming
<1>5. Ranked(c, s, Q, h)'
  BY <1>1, <1>2, <1>3, <1>4 DEF Ranked
<1> QED
  BY <1>5 DEF Good

(* They stay as they are when none of them is touched.                      *)
LEMMA ChainWhole ==
  ASSUME NEW i \in Workers, OthersWait(i),
         NEW c, NEW r, NEW P, NEW h, Ranked(c, r, P, h),
         \A p \in P : tree'[p] = c,
         \A p \in P : Moving(i)' /\ p \in Under[source'[i]] => ToCopy(i, p)',
         Renaming(i)' => dest'[i] \notin P,
         step'[i] = "unlink" => source'[i] \notin P
  PROVE  Good(c)'
<1>1. r \in P /\ P \in SUBSET P
  BY DEF Ranked
<1>2. \A j \in Workers \ {i} : step[j] = "unlink" /\ source[j] \in P => dest[j] \in P
  BY DEF Ranked, Linked
<1>3. \A j \in Workers \ {i} : Renaming(j) => dest[j] # r
  BY <1>1 DEF Ranked, Rooted
<1> QED
  BY <1>1, <1>2, <1>3, ChainKept

LEMMA ChainSame ==
  ASSUME UNCHANGED workerVars, NEW c, NEW r, NEW P, NEW h, Ranked(c, r, P, h),
         \A p \in P : tree'[p] = c
  PROVE  Good(c)'
<1>1. Ranked(c, r, P, h)'
  BY DEF Ranked, workerVars, Free, Moving, ToCopy, Linked, Rooted, Renaming
<1> QED
  BY <1>1 DEF Good

LEMMA DoomedMeans ==
  ASSUME NEW m, m \notin Doomed
  PROVE  \A j \in Workers : /\ Moving(j) => m \notin Under[source[j]]
                            /\ step[j] = "unlink" => source[j] # m
<1>1. /\ m \notin UNION {Under[source[i]] : i \in {j \in Workers : kind[j] = "move"
                                                      /\ step[j] \in {"copy", "remove"}}}
      /\ m \notin {source[i] : i \in {j \in Workers : step[j] = "unlink"}}
  BY DEF Doomed
<1>2. ASSUME NEW j \in Workers, Moving(j) PROVE m \notin Under[source[j]]
  BY <1>1, <1>2 DEF Moving
<1>3. ASSUME NEW j \in Workers, step[j] = "unlink" PROVE source[j] # m
  BY <1>1, <1>3
<1> QED
  BY <1>2, <1>3

(* An unexposed file that has just arrived somewhere is good there.         *)
LEMMA NewRoot ==
  ASSUME NEW others \in SUBSET Workers, ExposedBy(others),
         \A j \in others : /\ kind'[j] = kind[j] /\ step'[j] = step[j]
                           /\ source'[j] = source[j] /\ dest'[j] = dest[j],
         \A j \in Workers \ others : /\ ~Renaming(j)'
                                     /\ Moving(j)' => Moving(j) /\ source'[j] = source[j],
         NEW c \in Contents \ exposed', NEW m \in Paths, tree'[m] = c, tree[m] # c
  PROVE  Good(c)'
<1> DEFINE h == [p \in Paths |-> 0]
<1>1. m \notin Doomed /\ m \notin Landings(others)
  BY Arrival
<1>2. \A j \in Workers : /\ Moving(j) => m \notin Under[source[j]]
                         /\ step[j] = "unlink" => source[j] # m
  BY <1>1, DoomedMeans
<1>3. \A j \in others : Renaming(j) => dest[j] # m
  BY <1>1 DEF Landings
<1>4. Free(m)'
  BY <1>2 DEF Free, Moving
<1>5. Linked({m}, h)'
  BY <1>2 DEF Linked, Renaming
<1>6. Rooted(m, {m})'
  BY <1>3 DEF Rooted, Renaming
<1>7. Ranked(c, m, {m}, h)'
  BY <1>4, <1>5, <1>6 DEF Ranked
<1> HIDE DEF h
<1> QED
  BY <1>7 DEF Good

(* The same when the worker that brings it is done with its rename.         *)
LEMMA WorkerRoot ==
  ASSUME NEW i \in Workers, ExposedBy(Workers \ {i}), OthersWait(i), ~Renaming(i)',
         Moving(i)' => Moving(i) /\ source'[i] = source[i],
         NEW c \in Contents \ exposed', NEW m \in Paths, tree'[m] = c, tree[m] # c
  PROVE  Good(c)'
<1> DEFINE others == Workers \ {i}
<1>1. others \in SUBSET Workers /\ \A j \in Workers \ others : j = i
  OBVIOUS
<1>2. \A j \in others : /\ kind'[j] = kind[j] /\ step'[j] = step[j]
                        /\ source'[j] = source[j] /\ dest'[j] = dest[j]
  BY DEF OthersWait
<1>3. ExposedBy(others)
  OBVIOUS
<1> HIDE DEF others
<1>4. \A j \in Workers \ others : /\ ~Renaming(j)'
                                  /\ Moving(j)' => Moving(j) /\ source'[j] = source[j]
  BY <1>1
<1> QED
  BY <1>1, <1>2, <1>3, <1>4, NewRoot

(* A rename takes every file along.                                         *)
LEMMA RenameMoves ==
  ASSUME Sound(tree), NEW s \in Paths \ Tops, NEW d \in Paths, CanRename(s, d),
         tree' = Renamed(s, d), NEW c \in Contents
  PROVE  /\ \A p \in Paths : tree[p] = c =>
              tree'[p] = c \/ \E m \in Paths : tree'[m] = c /\ tree[m] # c
         /\ \A p \in Paths : tree'[p] = c => \E m \in Paths : tree[m] = c
<1>1. /\ Exists(s) /\ ~Exists(d) /\ d \notin Under[s]
      /\ \A q \in Under[s] : Exists(q) => Moved(q, s, d) \in Paths
  BY DEF CanRename
<1>2. \A q \in Paths :
        tree'[q] = IF q \in Under[s] THEN Nothing
                   ELSE IF q \in Under[d] THEN
                          IF Moved(q, d, s) \in Paths THEN tree[Moved(q, d, s)] ELSE Nothing
                   ELSE tree[q]
  BY DEF Renamed
<1>3. \A q \in Under[d] : q \in Paths /\ tree[q] = Nothing /\ q \notin Under[s]
  <2>1. \A q \in Under[d] : q \in Paths /\ ~Exists(q)
    BY <1>1, UnderOrder, TreeFacts DEF Exists, IsDir
  <2>2. s \notin Under[d]
    BY <1>1, <2>1
  <2> QED
    BY <1>1, <2>1, <2>2, UnderLinear DEF Exists
<1>4. c # Nothing
  BY TreeFacts
<1>5. ASSUME NEW p \in Under[s], tree[p] = c
      PROVE  \E m \in Paths : tree'[m] = c /\ tree[m] # c
  <2> DEFINE m == Moved(p, s, d)
  <2>1. m \in Paths
    BY <1>1, <1>4, <1>5 DEF Exists
  <2>2. m \in Under[d] /\ Moved(m, d, s) = p
    BY <2>1, MovedBack
  <2>3. p \in Paths
    BY UnderOrder
  <2> HIDE DEF m
  <2> QED
    BY <1>2, <1>3, <1>4, <1>5, <2>1, <2>2, <2>3
<1>6. ASSUME NEW p \in Paths, p \notin Under[s], tree[p] = c
      PROVE  tree'[p] = c
  BY <1>2, <1>3, <1>4, <1>6
<1>7. ASSUME NEW p \in Paths, tree'[p] = c PROVE \E m \in Paths : tree[m] = c
  BY <1>2, <1>4, <1>7
<1> QED
  BY <1>5, <1>6, <1>7

(* What is trashed stays trashed.                                           *)
LEMMA TrashKept == ASSUME [Next]_vars PROVE trashed \subseteq trashed'
<1> USE DEF fileVars
<1>1. CASE User
  BY <1>1 DEF User, CopyPathsAsync, MovePathsAsync, MovePathsToTrashAsync, Begin,
     CreateFolder, RenamePath, Save, SearchIndexed
<1>2. ASSUME NEW i \in Workers, Worker(i) PROVE trashed \subseteq trashed'
  BY <1>2 DEF Worker, Thread, Take, Finish, Rename, Unlink, CopyRecursively, Place, Copied,
     Remove, Trash, UpdateOperation
<1> QED
  BY <1>1, <1>2 DEF Next, vars

LEMMA ContentFacts ==
  ASSUME TypeOK, NEW c \in Contents, NEW r, NEW P, NEW h, Ranked(c, r, P, h)
  PROVE  /\ OpTypes /\ Sound(tree) /\ P \subseteq Paths
         /\ c # Nothing /\ c # Dir
         /\ \A p \in P : tree[p] = c /\ Exists(p)
  BY TypeParts, TreeFacts DEF Ranked, Exists

LEMMA GoodUser ==
  ASSUME TypeOK, User, NEW c \in Contents \ exposed',
         NEW r, NEW P, NEW h, Ranked(c, r, P, h)
  PROVE  Good(c)'
<1>0. /\ OpTypes /\ Sound(tree) /\ P \subseteq Paths /\ c # Nothing
      /\ \A p \in P : tree[p] = c /\ Exists(p)
  BY ContentFacts
<1>1. CASE CopyPathsAsync \/ MovePathsAsync \/ MovePathsToTrashAsync
  <2>1. PICK k, ps, d, i : i = started + 1 /\ Begin(k, ps, d)
    BY <1>1 DEF CopyPathsAsync, MovePathsAsync, MovePathsToTrashAsync
  <2>2. /\ UNCHANGED <<tree, source, dest, todo>>
        /\ kind' = [kind EXCEPT ![i] = k]
        /\ step' = [step EXCEPT ![i] = "next"]
    BY <2>1 DEF Begin, fileVars
  <2>3. i \in Workers
    BY <2>1, FilesAssumption, WorkerFacts DEF Begin, TypeOK, Ops
  <2>4. OthersWait(i) /\ step'[i] = "next"
    BY <1>0, <2>2, <2>3 DEF OthersWait, OpTypes
  <2>5. ~Moving(i)' /\ ~Renaming(i)' /\ step'[i] # "unlink"
    BY <2>4 DEF Moving, Renaming
  <2>6. \A p \in P : tree'[p] = c
    BY <1>0, <2>2
  <2> QED
    BY <2>3, <2>4, <2>5, <2>6, ChainWhole
<1>2. CASE CreateFolder \/ Save
  <2>1. UNCHANGED workerVars
    BY <1>2 DEF CreateFolder, Save
  <2>2. PICK d \in Paths : ~Exists(d) /\ \E e : tree' = [tree EXCEPT ![d] = e]
    BY <1>2 DEF CreateFolder, Save, Put
  <2>3. \A p \in P : tree'[p] = c
    BY <1>0, <2>2 DEF Sound
  <2> QED
    BY <2>1, <2>3, ChainSame
<1>3. CASE RenamePath
  <2>1. PICK s, d \in Paths : /\ ~Exists(d)
                             /\ source' = [source EXCEPT ![GUI] = s]
                             /\ dest' = [dest EXCEPT ![GUI] = d]
    BY <1>3 DEF RenamePath
  <2>2. UNCHANGED <<tree, kind, todo>> /\ step' = [step EXCEPT ![GUI] = "rename"]
    BY <1>3 DEF RenamePath, fileVars
  <2>3. OthersWait(GUI) /\ step'[GUI] = "rename" /\ dest'[GUI] = d
    BY <1>0, <2>1, <2>2, WorkerFacts DEF OthersWait, OpTypes
  <2>4. ~Moving(GUI)' /\ dest'[GUI] \notin P /\ \A p \in P : tree'[p] = c
    BY <1>0, <2>1, <2>2, <2>3 DEF Moving
  <2> QED
    BY <2>3, <2>4, WorkerFacts, ChainWhole
<1>4. ASSUME NEW q \in Searched, SearchIndexed(q) PROVE Good(c)'
  <2>1. UNCHANGED <<tree, workerVars>>
    BY <1>4 DEF SearchIndexed, fileVars
  <2> QED
    BY <1>0, <2>1, ChainSame
<1> QED
  BY <1>1, <1>2, <1>3, <1>4 DEF User

(* What a worker does with the next of its paths.                           *)
LEMMA TakeSteps ==
  ASSUME TypeOK, NEW i \in Workers, Take(i)
  PROVE  /\ UNCHANGED tree
         /\ step'[i] \in {"posted", "trash", "rename"} \/ (step'[i] = "copy" /\ kind'[i] # "move")
<1>1. PICK p \in sources[i] :
        \/ Fail(i)
        \/ step' = [step EXCEPT ![i] = "trash"]
        \/ \E d \in UniqueTargets(i, p) :
             IF kind[i] = "move" THEN step' = [step EXCEPT ![i] = "rename"] ELSE BeginCopy(i, p, d)
  BY DEF Take
<1>2. UNCHANGED <<tree, kind>> /\ OpTypes
  BY TypeParts DEF Take, fileVars
<1> QED
  BY <1>1, <1>2 DEF OpTypes, Fail, BeginCopy

LEMMA GoodTake ==
  ASSUME TypeOK, NEW i \in Workers,
         Take(i) \/ Finish(i) \/ Copied(i) \/ UpdateOperation(i),
         NEW c \in Contents \ exposed', NEW r, NEW P, NEW h, Ranked(c, r, P, h)
  PROVE  Good(c)'
<1>0. OpTypes /\ \A p \in P : tree[p] = c /\ Exists(p)
  BY ContentFacts
<1>1. OthersWait(i)
  BY WorkerAlone DEF Worker, Thread
<1>2. ASSUME UNCHANGED tree, ~Moving(i)', Renaming(i)' => dest'[i] \notin P, step'[i] # "unlink"
      PROVE  Good(c)'
  BY <1>0, <1>1, <1>2, ChainWhole
<1>3. CASE Take(i)
  <2>1. /\ UNCHANGED tree
        /\ step'[i] \in {"posted", "trash", "rename"} \/ (step'[i] = "copy" /\ kind'[i] # "move")
    BY <1>3, TakeSteps
  <2>2. step'[i] = "rename" => tree[dest'[i]] = Nothing
    BY <1>3, TargetFree DEF Worker, Thread
  <2>3. Renaming(i)' => dest'[i] \notin P
    BY <1>0, <2>1, <2>2 DEF Renaming, Exists
  <2> QED
    BY <1>2, <2>1, <2>3 DEF Moving
<1>4. CASE Finish(i) \/ UpdateOperation(i)
  <2>1. UNCHANGED tree /\ step'[i] \in {"posted", "delivered"}
    BY <1>0, <1>4 DEF Finish, UpdateOperation, fileVars, OpTypes
  <2> QED
    BY <1>2, <2>1 DEF Moving, Renaming
<1>5. CASE Copied(i)
  <2>1. /\ step[i] = "copy" /\ todo[i] = {} /\ UNCHANGED <<tree, kind, source>>
        /\ step'[i] = IF kind[i] = "move" THEN "remove" ELSE "next"
    BY <1>0, <1>5 DEF Copied, fileVars, OpTypes
  <2>2. \A p \in P : ~(Moving(i)' /\ p \in Under[source'[i]])
    BY <2>1 DEF Ranked, Free, Moving, ToCopy
  <2>3. ~Renaming(i)' /\ step'[i] # "unlink"
    BY <2>1 DEF Renaming
  <2> QED
    BY <1>0, <1>1, <2>1, <2>2, <2>3, ChainWhole
<1> QED
  BY <1>3, <1>4, <1>5

LEMMA GoodRename ==
  ASSUME TypeOK, Landed, NEW i \in Workers, Rename(i) \/ Unlink(i),
         NEW c \in Contents \ exposed', NEW r, NEW P, NEW h, Ranked(c, r, P, h)
  PROVE  Good(c)'
<1>0. /\ OpTypes /\ Sound(tree) /\ P \subseteq Paths
      /\ c # Nothing /\ c # Dir
      /\ \A p \in P : tree[p] = c /\ Exists(p)
  BY ContentFacts
<1>1. /\ OthersWait(i) /\ ExposedBy(Workers \ {i}) /\ c \notin exposed
  <2>1. Worker(i)
    BY DEF Worker, Thread
  <2> QED
    BY <2>1, WorkerAlone, ExposedWorker DEF ExposedBy
<1>2. /\ Renaming(i) /\ UNCHANGED <<kind, source, dest>>
      /\ \/ i = GUI /\ step' = [step EXCEPT ![i] = "unused"] /\ UNCHANGED todo
         \/ i # GUI /\ step' = [step EXCEPT ![i] = "next"] /\ UNCHANGED todo
         \/ i # GUI /\ BeginCopy(i, source[i], dest[i])
         \/ step' = [step EXCEPT ![i] = "unlink"] /\ UNCHANGED todo
  BY RenameSteps
<1>3. PICK s \in Paths \ Tops, d \in Paths : s = source[i] /\ d = dest[i]
  BY <1>0, <1>2 DEF OpTypes, Renaming
<1>4. ASSUME step'[i] # "unlink"
      PROVE  /\ ~Renaming(i)'
             /\ \A p : Moving(i)' /\ p \in Under[source'[i]] => ToCopy(i, p)'
  <2>1. \/ step'[i] \in {"unused", "next"}
        \/ step'[i] = "copy" /\ todo'[i] = {<<s, d, Nothing>>}
    BY <1>0, <1>2, <1>3, <1>4 DEF OpTypes, BeginCopy
  <2>2. ASSUME step'[i] = "copy", todo'[i] = {<<s, d, Nothing>>}, NEW p, p \in Under[source'[i]]
        PROVE  ToCopy(i, p)'
    <3>1. <<s, d, Nothing>>[1] = s /\ source'[i] = s
      BY <1>2, <1>3
    <3> QED
      BY <2>2, <3>1 DEF ToCopy
  <2> QED
    BY <2>1, <2>2 DEF Moving, Renaming
<1>5. ASSUME step'[i] # "unlink", \A p \in P : tree'[p] = c PROVE Good(c)'
  BY <1>1, <1>4, <1>5, ChainWhole
<1>6. CASE Rename(i)
  <2>1. step[i] = "rename" /\ d \notin P
    <3>1. step[i] = "rename"
      BY <1>6 DEF Rename
    <3> QED
      BY <1>0, <1>1, <1>3, <3>1 DEF Landed
  <2>2. CASE CanRename(s, d) /\ tree' = Renamed(s, d) /\ RenameDone(i)
    <3>1. step'[i] \in {"unused", "next"}
      BY <1>0, <2>2 DEF RenameDone, OpTypes
    <3>2. ~Renaming(i)' /\ ~Moving(i)'
      BY <3>1 DEF Renaming, Moving
    <3>3. CASE \A p \in P : tree'[p] = c
      BY <1>5, <3>1, <3>3
    <3>4. CASE \E p \in P : tree'[p] # c
      <4>1. PICK m \in Paths : tree'[m] = c /\ tree[m] # c
        BY <1>0, <2>2, <3>4, RenameMoves
      <4> QED
        BY <1>1, <3>2, <4>1, WorkerRoot
    <3> QED
      BY <3>3, <3>4
  <2>3. CASE RenameFailed(i) /\ (UNCHANGED tree \/ tree' = [tree EXCEPT ![d] = Nothing])
    <3>1. step'[i] # "unlink"
      BY <1>0, <2>3 DEF RenameFailed, BeginCopy, OpTypes
    <3>2. \A p \in P : tree'[p] = c
      BY <1>0, <2>1, <2>3 DEF Sound
    <3> QED
      BY <1>5, <3>1, <3>2
  <2>4. CASE /\ tree' = [tree EXCEPT ![d] = tree[s]]
             /\ step' = [step EXCEPT ![i] = "unlink"]
    <3>1. step'[i] = "unlink" /\ source'[i] = s /\ dest'[i] = d /\ ~Moving(i)' /\ ~Moving(i)
      BY <1>0, <1>2, <1>3, <2>1, <2>4 DEF OpTypes, Moving
    <3>2. tree'[d] = tree[s] /\ \A p \in Paths \ {d} : tree'[p] = tree[p]
      BY <1>0, <2>4 DEF Sound
    <3>3. \A p \in P : tree'[p] = c
      BY <1>0, <2>1, <3>2
    <3>4. CASE s \notin P
      BY <1>1, <2>1, <3>1, <3>3, <3>4, ChainWhole
    <3>5. CASE s \in P
      <4>1. tree'[d] = c /\ tree[d] # c
        BY <1>0, <1>1, <1>3, <2>1, <3>2, <3>5 DEF Landed
      <4>2. d \notin Doomed /\ d \notin Landings(Workers \ {i})
        BY <1>1, <4>1, Arrival
      <4>3. \A j \in Workers : /\ Moving(j) => d \notin Under[source[j]]
                               /\ step[j] = "unlink" => source[j] # d
        BY <4>2, DoomedMeans
      <4>4. \A j \in Workers \ {i} : Renaming(j) => dest[j] # d
        BY <4>2 DEF Landings
      <4> DEFINE g == [h EXCEPT ![d] = h[s] + 1]
                 R == P \cup {d}
      <4>5. /\ r \in P /\ h \in [Paths -> Nat] /\ Linked(P, h) /\ Rooted(r, P)
            /\ \A p \in P : Free(p)
        BY DEF Ranked
      <4>6. /\ g \in [Paths -> Nat] /\ g[d] = h[s] + 1 /\ h[s] \in Nat
            /\ \A p \in P : g[p] = h[p]
        BY <1>0, <2>1, <3>5, <4>5
      <4> HIDE DEF g
      <4>7. \A p \in R : tree'[p] = c /\ Free(p)'
        <5>1. ASSUME NEW p \in R, Free(p) PROVE Free(p)'
          BY <1>1, <3>1, <5>1 DEF OthersWait, Free, Moving, ToCopy
        <5>2. Free(d)
          BY <4>3 DEF Free
        <5> QED
          BY <3>3, <4>1, <4>5, <5>1, <5>2
      <4>8. Linked(R, g)'
        <5>1. ASSUME NEW j \in Workers, step'[j] = "unlink", source'[j] \in R
              PROVE  dest'[j] \in R /\ g[source'[j]] < g[dest'[j]]
          <6>1. CASE j = i
            BY <3>1, <3>5, <4>6, <6>1
          <6>2. CASE j # i
            <7>1. step[j] = "unlink" /\ source'[j] = source[j] /\ dest'[j] = dest[j]
              BY <1>1, <5>1, <6>2 DEF OthersWait
            <7>2. source[j] \in P
              BY <4>3, <5>1, <7>1
            <7> QED
              BY <4>5, <4>6, <7>1, <7>2 DEF Linked
          <6> QED
            BY <6>1, <6>2
        <5> QED
          BY <5>1 DEF Linked
      <4>9. Rooted(r, R)'
        <5>1. ASSUME NEW j \in Workers, Renaming(j)', dest'[j] \in R
              PROVE  /\ dest'[j] # r /\ step'[j] = "unlink"
                     /\ \A k \in Workers \ {j} : Renaming(k)' => dest'[k] # dest'[j]
          <6>1. CASE j = i
            BY <1>1, <2>1, <3>1, <4>4, <4>5, <6>1 DEF OthersWait, Renaming
          <6>2. CASE j # i
            <7>1. Renaming(j) /\ step'[j] = step[j] /\ dest'[j] = dest[j]
              BY <1>1, <5>1, <6>2 DEF OthersWait, Renaming
            <7>2. dest[j] \in P
              BY <4>4, <5>1, <6>2, <7>1
            <7>3. ASSUME NEW k \in Workers \ {j}, Renaming(k)' PROVE dest'[k] # dest'[j]
              <8>1. Renaming(k) /\ dest'[k] = dest[k]
                BY <1>1, <1>2, <7>3 DEF OthersWait, Renaming
              <8> QED
                BY <4>5, <7>1, <7>2, <8>1 DEF Rooted
            <7> QED
              BY <4>5, <7>1, <7>2, <7>3 DEF Rooted
          <6> QED
            BY <6>1, <6>2
        <5> QED
          BY <5>1 DEF Rooted
      <4>10. Ranked(c, r, R, g)'
        BY <1>0, <4>5, <4>6, <4>7, <4>8, <4>9 DEF Ranked
      <4> QED
        BY <4>10 DEF Good
    <3> QED
      BY <3>4, <3>5
  <2> QED
    BY <1>3, <1>6, <2>2, <2>3, <2>4 DEF Rename, Put
<1>7. CASE Unlink(i)
  <2>1. step[i] = "unlink" /\ step'[i] # "unlink"
    <3>1. RenameDone(i) \/ RenameFailed(i)
      BY <1>7 DEF Unlink
    <3> QED
      BY <1>0, <1>7, <3>1 DEF Unlink, RenameDone, RenameFailed, BeginCopy, OpTypes
  <2>2. ASSUME NEW Q \in SUBSET P, NEW t \in Q, \A p \in Q : tree'[p] = c,
               \A j \in Workers \ {i} : step[j] = "unlink" /\ source[j] \in Q => dest[j] \in Q,
               \A j \in Workers \ {i} : Renaming(j) => dest[j] # t
        PROVE  Good(c)'
    BY <1>1, <1>4, <2>1, <2>2, ChainKept
  <2>3. CASE tree' = [tree EXCEPT ![s] = Nothing]
    <3>1. \A p \in Paths \ {s} : tree'[p] = tree[p]
      BY <1>0, <2>3 DEF Sound
    <3>2. CASE s \notin P
      BY <1>0, <1>5, <2>1, <3>1, <3>2
    <3>3. CASE s \in P
      <4> DEFINE Q == {p \in P : h[d] <= h[p]}
      <4>1. d \in P /\ h[s] < h[d] /\ h \in [Paths -> Nat]
        BY <1>3, <2>1, <3>3 DEF Ranked, Linked
      <4>2. d \in Q /\ s \notin Q /\ Q \in SUBSET P
        BY <1>0, <4>1
      <4>3. \A j \in Workers : step[j] = "unlink" /\ source[j] \in Q => dest[j] \in Q
        BY <1>0, <4>1 DEF Ranked, Linked
      <4>4. \A j \in Workers \ {i} : Renaming(j) => dest[j] # d
        BY <1>2, <1>3, <4>1 DEF Ranked, Rooted
      <4>5. \A p \in Q : tree'[p] = c
        BY <1>0, <3>1, <4>2
      <4> HIDE DEF Q
      <4> QED
        BY <2>2, <4>2, <4>3, <4>4, <4>5
    <3> QED
      BY <3>2, <3>3
  <2>4. CASE tree' = [tree EXCEPT ![d] = IF @ = Dir THEN Dir ELSE Nothing]
    <3>1. \A p \in Paths \ {d} : tree'[p] = tree[p]
      BY <1>0, <2>4 DEF Sound
    <3>2. CASE d \notin P
      BY <1>0, <1>5, <2>1, <3>1, <3>2
    <3>3. CASE d \in P
      <4> DEFINE Q == P \ {d}
      <4>1. /\ d # r /\ r \in P
            /\ \A j \in Workers \ {i} : Renaming(j) => dest[j] # d
        BY <1>2, <1>3, <3>3 DEF Ranked, Rooted
      <4>2. \A j \in Workers \ {i} : step[j] = "unlink" /\ source[j] \in Q => dest[j] \in Q
        BY <4>1 DEF Ranked, Linked, Renaming
      <4>3. \A j \in Workers \ {i} : Renaming(j) => dest[j] # r
        BY <4>1 DEF Ranked, Rooted
      <4>4. r \in Q /\ Q \in SUBSET P /\ \A p \in Q : tree'[p] = c
        BY <1>0, <3>1, <4>1
      <4> HIDE DEF Q
      <4> QED
        BY <2>2, <4>2, <4>3, <4>4
    <3> QED
      BY <3>2, <3>3
  <2> QED
    BY <1>3, <1>7, <2>3, <2>4 DEF Unlink, Put
<1> QED
  BY <1>6, <1>7

(* What copying one entry, or beginning to, does.                            *)
LEMMA CopySteps ==
  ASSUME NEW i \in Workers, CopyRecursively(i)
  PROVE  \E job \in todo[i] :
          \/ /\ IsDir(job[1]) /\ CanMake(job[2]) /\ tree' = Made(job[2])
             /\ UNCHANGED step
             /\ \E below : /\ todo' = [todo EXCEPT ![i] = (@ \ {job}) \cup below]
                           /\ \A ch \in Children[job[1]] : Exists(ch) =>
                                \E b \in below : b[1] = ch
                           /\ \A b \in below : b[1] \in Children[job[1]] /\ b[3] = Nothing
          \/ /\ tree[job[1]] \in Contents
             /\ UNCHANGED <<tree, step>>
             /\ todo' = [todo EXCEPT ![i] = (@ \ {job}) \cup {<<job[1], job[2], tree[job[1]]>>}]
          \/ Fail(i) /\ UNCHANGED tree
<1> DEFINE Below(job) == {<<ch, Append(job[2], ch[Len(ch)]), Nothing>> :
                            ch \in {x \in Children[job[1]] : Exists(x)}}
<1>1. PICK job \in todo[i] :
        \/ /\ IsDir(job[1]) /\ CanMake(job[2]) /\ Below(job) \subseteq Jobs
           /\ Put(Workers \ {i}, Made(job[2]))
           /\ todo' = [todo EXCEPT ![i] = (@ \ {job}) \cup Below(job)]
           /\ UNCHANGED <<step, ok>>
        \/ /\ tree[job[1]] \in Contents /\ ~Exists(job[2])
           /\ todo' = [todo EXCEPT ![i] = (@ \ {job}) \cup {<<job[1], job[2], tree[job[1]]>>}]
           /\ UNCHANGED <<tree, exposed, step, ok>>
        \/ Fail(i) /\ UNCHANGED <<tree, exposed>>
  BY DEF CopyRecursively
<1>2. \A ch \in Children[job[1]] : Exists(ch) => \E b \in Below(job) : b[1] = ch
  <2> SUFFICES ASSUME NEW ch \in Children[job[1]], Exists(ch)
               PROVE  \E b \in Below(job) : b[1] = ch
    OBVIOUS
  <2> DEFINE b == <<ch, Append(job[2], ch[Len(ch)]), Nothing>>
  <2>1. b \in Below(job) /\ b[1] = ch
    OBVIOUS
  <2> QED
    BY <2>1
<1>3. \A b \in Below(job) : b[1] \in Children[job[1]] /\ b[3] = Nothing
  OBVIOUS
<1> HIDE DEF Below
<1> QED
  BY <1>1, <1>2, <1>3 DEF Put

LEMMA GoodCopy ==
  ASSUME TypeOK, NEW i \in Workers, CopyRecursively(i),
         NEW c \in Contents \ exposed', NEW r, NEW P, NEW h, Ranked(c, r, P, h)
  PROVE  Good(c)'
<1>0. /\ OpTypes /\ Sound(tree) /\ P \subseteq Paths
      /\ c # Nothing /\ c # Dir
      /\ \A p \in P : tree[p] = c /\ Exists(p)
  BY ContentFacts
<1>1. OthersWait(i) /\ UNCHANGED <<kind, source>> /\ step[i] = "copy"
  BY WorkerAlone DEF Worker, Thread, CopyRecursively
<1>2. PICK job \in todo[i] :
        \/ /\ IsDir(job[1]) /\ CanMake(job[2]) /\ tree' = Made(job[2])
           /\ UNCHANGED step
           /\ \E below : /\ todo' = [todo EXCEPT ![i] = (@ \ {job}) \cup below]
                         /\ \A ch \in Children[job[1]] : Exists(ch) =>
                              \E b \in below : b[1] = ch
                         /\ \A b \in below : b[1] \in Children[job[1]] /\ b[3] = Nothing
        \/ /\ tree[job[1]] \in Contents
           /\ UNCHANGED <<tree, step>>
           /\ todo' = [todo EXCEPT ![i] = (@ \ {job}) \cup {<<job[1], job[2], tree[job[1]]>>}]
        \/ Fail(i) /\ UNCHANGED tree
  BY CopySteps
<1>3. job[1] \in Paths /\ job[2] \in Paths
  BY <1>0, <1>2 DEF OpTypes, Jobs
<1>4. ASSUME step'[i] = "copy", \A p \in P : tree'[p] = c,
             \A old \in todo[i] \ {job} : old \in todo'[i],
             \A p \in P : p \in Under[job[1]] => \E new \in todo'[i] : p \in Under[new[1]]
      PROVE  Good(c)'
  <2>1. \A p \in P : Moving(i)' /\ p \in Under[source'[i]] => ToCopy(i, p)
    BY <1>1, <1>4 DEF Ranked, Free, Moving
  <2>2. \A p \in P : ToCopy(i, p) => ToCopy(i, p)'
    BY <1>1, <1>4 DEF ToCopy
  <2>3. ~Renaming(i)' /\ step'[i] # "unlink"
    BY <1>4 DEF Renaming
  <2> QED
    BY <1>1, <1>4, <2>1, <2>2, <2>3, ChainWhole
<1>5. CASE Fail(i) /\ UNCHANGED tree
  <2>1. step'[i] = "posted"
    BY <1>0, <1>5 DEF Fail, OpTypes
  <2>2. ~Moving(i)' /\ ~Renaming(i)' /\ step'[i] # "unlink"
    BY <2>1 DEF Moving, Renaming
  <2> QED
    BY <1>0, <1>1, <1>5, <2>2, ChainWhole
<1>6. ASSUME IsDir(job[1]), CanMake(job[2]), tree' = Made(job[2]), UNCHANGED step,
             NEW below, todo' = [todo EXCEPT ![i] = (@ \ {job}) \cup below],
             \A ch \in Children[job[1]] : Exists(ch) => \E b \in below : b[1] = ch
      PROVE  Good(c)'
  <2>1. todo'[i] = (todo[i] \ {job}) \cup below
    BY <1>0, <1>6 DEF OpTypes
  <2>2. \A p \in P : tree'[p] = c
    BY <1>0, <1>6 DEF CanMake, Made
  <2>3. ASSUME NEW p \in P, p \in Under[job[1]] PROVE \E new \in below : p \in Under[new[1]]
    <3>1. p # job[1]
      BY <1>0, <1>6 DEF IsDir
    <3>2. PICK ch \in Children[job[1]] : p \in Under[ch]
      BY <1>3, <2>3, <3>1, ChildBetween
    <3>3. ch \in Paths /\ Exists(ch)
      <4>1. ch \in Paths
        BY <1>3 DEF Children
      <4>2. p = ch \/ IsDir(ch)
        BY <1>0, <3>2, <4>1, TreeFacts
      <4> QED
        BY <1>0, <4>1, <4>2, TreeFacts DEF IsDir, Exists
    <3> QED
      BY <1>6, <3>2, <3>3
  <2> QED
    BY <1>1, <1>4, <1>6, <2>1, <2>2, <2>3
<1>7. CASE /\ UNCHANGED <<tree, step>>
           /\ todo' = [todo EXCEPT ![i] = (@ \ {job}) \cup {<<job[1], job[2], tree[job[1]]>>}]
  <2> DEFINE new == <<job[1], job[2], tree[job[1]]>>
  <2>1. todo'[i] = (todo[i] \ {job}) \cup {new}
    BY <1>0, <1>7 DEF OpTypes
  <2>2. new[1] = job[1]
    OBVIOUS
  <2> HIDE DEF new
  <2> QED
    BY <1>0, <1>1, <1>4, <1>7, <2>1, <2>2
<1> QED
  BY <1>2, <1>5, <1>6, <1>7

LEMMA GoodPlace ==
  ASSUME TypeOK, Opened, NEW i \in Workers, Place(i),
         NEW c \in Contents \ exposed', NEW r, NEW P, NEW h, Ranked(c, r, P, h)
  PROVE  Good(c)'
<1>0. /\ OpTypes /\ Sound(tree) /\ P \subseteq Paths
      /\ c # Nothing /\ c # Dir
      /\ \A p \in P : tree[p] = c /\ Exists(p)
  BY ContentFacts
<1>1. /\ OthersWait(i) /\ ExposedBy(Workers \ {i}) /\ c \notin exposed
      /\ UNCHANGED <<kind, source>> /\ step[i] = "copy"
  <2>1. Worker(i)
    BY DEF Worker, Thread
  <2> QED
    BY <2>1, WorkerAlone, ExposedWorker DEF ExposedBy, Place
<1>2. PICK job \in todo[i] :
        /\ job[3] # Nothing
        /\ \/ /\ CanPlace(job[2])
              /\ tree' = [tree EXCEPT ![job[2]] = job[3]]
              /\ todo' = [todo EXCEPT ![i] = @ \ {job}]
              /\ UNCHANGED <<step, ok>>
           \/ Fail(i) /\ UNCHANGED <<tree, exposed>>
  BY DEF Place, Put
<1>3. job[2] \in Paths
  BY <1>0, <1>2 DEF OpTypes, Jobs
<1>4. CASE Fail(i) /\ UNCHANGED tree
  <2>1. step'[i] = "posted"
    BY <1>0, <1>4 DEF Fail, OpTypes
  <2>2. ~Moving(i)' /\ ~Renaming(i)' /\ step'[i] # "unlink"
    BY <2>1 DEF Moving, Renaming
  <2> QED
    BY <1>0, <1>1, <1>4, <2>2, ChainWhole
<1>5. CASE /\ CanPlace(job[2]) /\ tree' = [tree EXCEPT ![job[2]] = job[3]]
           /\ todo' = [todo EXCEPT ![i] = @ \ {job}] /\ UNCHANGED <<step, ok>>
  <2>1. /\ tree[job[2]] = Nothing /\ tree'[job[2]] = job[3] /\ step'[i] = "copy"
        /\ \A p \in Paths \ {job[2]} : tree'[p] = tree[p]
        /\ todo'[i] = todo[i] \ {job}
    BY <1>0, <1>1, <1>3, <1>5 DEF CanPlace, Exists, Sound, OpTypes
  <2>2. ~Renaming(i)' /\ step'[i] # "unlink"
    BY <2>1 DEF Renaming
  <2>3. CASE job[3] = c
    <3>1. Moving(i)' => Moving(i) /\ source'[i] = source[i]
      BY <1>1, <2>1 DEF Moving
    <3> QED
      BY <1>0, <1>1, <1>3, <2>1, <2>2, <2>3, <3>1, WorkerRoot
  <2>4. CASE job[3] # c
    <3>1. \A p \in P : tree'[p] = c
      BY <1>0, <2>1
    <3>2. ASSUME NEW p \in P, Moving(i)', p \in Under[source'[i]] PROVE ToCopy(i, p)'
      <4>1. Moving(i) /\ p \in Under[source[i]] /\ kind[i] = "move"
        BY <1>1, <3>2 DEF Moving
      <4>2. PICK old \in todo[i] : p \in Under[old[1]]
        BY <4>1 DEF Ranked, Free, ToCopy
      <4>3. p \notin Under[job[1]]
        <5>1. JobFine(i, job)
          BY <1>1, <1>2, <4>1 DEF Opened
        <5> QED
          BY <1>0, <1>1, <1>2, <2>4, <5>1 DEF JobFine
      <4>4. old \in todo'[i]
        BY <2>1, <4>2, <4>3
      <4> QED
        BY <2>1, <4>2, <4>4 DEF ToCopy
    <3> QED
      BY <1>1, <2>2, <3>1, <3>2, ChainWhole
  <2> QED
    BY <2>3, <2>4
<1> QED
  BY <1>2, <1>4, <1>5

LEMMA GoodRemove ==
  ASSUME TypeOK, MoveSteps, NEW i \in Workers, Remove(i) \/ Trash(i),
         NEW c \in Contents \ exposed', NEW r, NEW P, NEW h, Ranked(c, r, P, h)
  PROVE  Good(c)'
<1>0. OpTypes /\ Sound(tree) /\ P \subseteq Paths /\ \A p \in P : tree[p] = c /\ Exists(p)
  BY ContentFacts
<1>1. /\ OthersWait(i) /\ UNCHANGED <<kind, source>>
      /\ NextPath(i) \/ Fail(i) \/ (UNCHANGED step /\ step[i] = "remove")
  BY WorkerAlone DEF Worker, Thread, Remove, Trash
<1>2. step'[i] \in {"next", "posted"} \/ (step'[i] = "remove" /\ step[i] = "remove")
  BY <1>0, <1>1 DEF NextPath, Fail, OpTypes
<1>3. ~Renaming(i)' /\ step'[i] # "unlink" /\ (Moving(i)' => Moving(i) /\ step[i] = "remove")
  BY <1>1, <1>2 DEF Renaming, Moving
<1>4. \A p \in P : Moving(i) /\ step[i] = "remove" => p \notin Under[source[i]]
  BY DEF Ranked, Free, ToCopy
<1>5. ASSUME \A p \in P : tree'[p] = c PROVE Good(c)'
  BY <1>1, <1>3, <1>4, <1>5, ChainWhole
<1>6. CASE Remove(i)
  <2>1. /\ step[i] = "remove" /\ kind[i] = "move"
        /\ \/ UNCHANGED tree
           \/ \E q \in Under[source[i]] : tree' = [tree EXCEPT ![q] = Nothing]
    BY <1>6 DEF Remove, Put, MoveSteps
  <2>2. \A p \in P : p \notin Under[source[i]]
    BY <1>4, <2>1 DEF Moving
  <2>3. \A p \in P : tree'[p] = c
    BY <1>0, <2>1, <2>2 DEF Sound
  <2> QED
    BY <1>5, <2>3
<1>7. CASE Trash(i)
  <2>1. c \in trashed' \/ \A p \in P : tree'[p] = c
    BY <1>0, <1>7 DEF Trash, Put, fileVars
  <2> QED
    BY <1>5, <2>1 DEF Good
<1> QED
  BY <1>6, <1>7

LEMMA GoodStep ==
  ASSUME TypeOK, Landed, MoveSteps, Opened, [Next]_vars, NEW c \in Contents \ exposed', Good(c)
  PROVE  Good(c)'
<1>1. CASE c \in trashed
  BY <1>1, TrashKept DEF Good
<1>2. CASE c \notin trashed
  <2>1. PICK r, P, h : Ranked(c, r, P, h)
    BY <1>2 DEF Good
  <2>2. CASE UNCHANGED vars
    BY <2>1, <2>2, ChainSame DEF vars, fileVars, Ranked
  <2>3. CASE User
    BY <2>1, <2>3, GoodUser
  <2>4. ASSUME NEW i \in Workers, Worker(i) PROVE Good(c)'
    BY <2>1, <2>4, GoodTake, GoodRename, GoodCopy, GoodPlace, GoodRemove DEF Worker, Thread
  <2> QED
    BY <2>2, <2>3, <2>4 DEF Next
<1> QED
  BY <1>1, <1>2

(* Only saving and copying bring a file that was nowhere.                   *)
LEMMA NewFile ==
  ASSUME TypeOK, [Next]_vars, NEW c \in Contents \ exposed', Somewhere(c)', ~Somewhere(c)
  PROVE  Good(c)'
<1>0. OpTypes /\ Sound(tree) /\ c # Nothing /\ c # Dir
  BY TypeParts, TreeFacts
<1>1. \A p \in Paths : tree[p] # c
  BY DEF Somewhere
<1>2. ASSUME UNCHANGED trashed PROVE \E m \in Paths : tree'[m] = c
  BY <1>2 DEF Somewhere
<1>3. CASE UNCHANGED <<tree, trashed>>
  BY <1>3 DEF Somewhere
<1>4. CASE CopyPathsAsync \/ MovePathsAsync \/ MovePathsToTrashAsync \/ RenamePath
           \/ (\E r \in Searched : SearchIndexed(r)) \/ UNCHANGED vars
  BY <1>3, <1>4 DEF CopyPathsAsync, MovePathsAsync, MovePathsToTrashAsync, Begin, RenamePath,
     SearchIndexed, vars, fileVars
<1>5. CASE CreateFolder
  BY <1>0, <1>1, <1>2, <1>5 DEF CreateFolder, Put, Sound
<1>6. CASE Save
  <2>1. PICK m \in Paths : tree'[m] = c
    BY <1>2, <1>6 DEF Save
  <2>2. /\ ExposedBy(Workers) /\ tree[m] # c
        /\ UNCHANGED <<kind, step, source, dest>>
    BY <1>1, <1>6, ExposedUser DEF Save, User, workerVars
  <2>3. /\ \A j \in Workers : /\ kind'[j] = kind[j] /\ step'[j] = step[j]
                              /\ source'[j] = source[j] /\ dest'[j] = dest[j]
        /\ Workers \in SUBSET Workers /\ Workers \ Workers = {}
    BY <2>2
  <2> QED
    BY <2>1, <2>2, <2>3, NewRoot
<1>7. ASSUME NEW i \in Workers, Worker(i) PROVE Good(c)'
  <2>1. CASE Take(i) \/ Finish(i) \/ Copied(i) \/ UpdateOperation(i)
    BY <1>3, <2>1 DEF Take, Finish, Copied, UpdateOperation, fileVars
  <2>2. CASE Rename(i) \/ Unlink(i)
    <3>1. source[i] \in Paths \ Tops /\ dest[i] \in Paths /\ UNCHANGED trashed
      BY <1>0, <2>2 DEF Rename, Unlink, OpTypes
    <3>2. CASE CanRename(source[i], dest[i]) /\ tree' = Renamed(source[i], dest[i])
      BY <1>0, <1>1, <1>2, <3>1, <3>2, RenameMoves
    <3>3. CASE \/ UNCHANGED tree
               \/ tree' = [tree EXCEPT ![dest[i]] = tree[source[i]]]
               \/ tree' = [tree EXCEPT ![dest[i]] = Nothing]
               \/ tree' = [tree EXCEPT ![source[i]] = Nothing]
               \/ tree' = [tree EXCEPT ![dest[i]] = IF @ = Dir THEN Dir ELSE Nothing]
      <4>1. \A m \in Paths : tree'[m] # c
        BY <1>0, <1>1, <3>1, <3>3 DEF Sound
      <4> QED
        BY <1>2, <3>1, <4>1
    <3> QED
      BY <2>2, <3>2, <3>3 DEF Rename, Unlink, Put
  <2>3. CASE CopyRecursively(i)
    <3>1. PICK job \in todo[i] : tree' = Made(job[2]) \/ UNCHANGED tree
      BY <2>3, CopySteps
    <3>2. UNCHANGED trashed
      BY <2>3 DEF CopyRecursively
    <3> QED
      BY <1>0, <1>1, <1>2, <3>1, <3>2 DEF Made
  <2>4. CASE Place(i)
    <3>1. PICK m \in Paths : tree'[m] = c /\ tree[m] # c
      BY <1>1, <1>2, <2>4 DEF Place
    <3>2. /\ OthersWait(i) /\ ExposedBy(Workers \ {i})
          /\ UNCHANGED <<kind, source>> /\ step[i] = "copy"
          /\ step' = step \/ step' = [step EXCEPT ![i] = "posted"]
      BY <1>7, <2>4, WorkerAlone, ExposedWorker DEF Place, Fail
    <3>3. step'[i] \in {"copy", "posted"}
      BY <1>0, <3>2 DEF OpTypes
    <3>4. ~Renaming(i)' /\ (Moving(i)' => Moving(i) /\ source'[i] = source[i])
      BY <3>2, <3>3 DEF Renaming, Moving
    <3> QED
      BY <3>1, <3>2, <3>4, WorkerRoot
  <2>5. CASE Remove(i)
    <3>1. UNCHANGED trashed /\ (UNCHANGED tree \/ \E q : tree' = [tree EXCEPT ![q] = Nothing])
      BY <2>5 DEF Remove, Put
    <3> QED
      BY <1>0, <1>1, <1>2, <3>1 DEF Sound
  <2>6. CASE Trash(i)
    <3>1. \A p \in Paths : tree'[p] # c
      BY <1>0, <1>1, <2>6 DEF Trash, Put, fileVars
    <3>2. Under[source[i]] \subseteq Paths
      BY <1>0 DEF OpTypes, Under
    <3>3. c \notin trashed'
      BY <1>1, <2>6, <3>2 DEF Trash, fileVars, Somewhere
    <3> QED
      BY <3>1, <3>3 DEF Somewhere
  <2> QED
    BY <1>7, <2>1, <2>2, <2>3, <2>4, <2>5, <2>6 DEF Worker, Thread
<1> QED
  BY <1>4, <1>5, <1>6, <1>7 DEF Next, User

(* Everyone else's tasks stay fine whatever arrives.                        *)
LEMMA JobKept ==
  ASSUME TypeOK, NEW others, ExposedBy(others), NEW i \in Workers,
         Moving(i), source'[i] = source[i], NEW job, JobFine(i, job), job[1] \in Paths
  PROVE  JobFine(i, job)'
<1>1. Under[source[i]] \subseteq Doomed
  BY DEF Doomed, Moving
<1>2. \A q \in Under[job[1]] : q \in Doomed /\ q \in Paths
  BY <1>1, UnderOrder DEF JobFine, TypeOK
<1>3. ASSUME job[3] # Nothing, NEW q \in Under[job[1]], tree'[q] \in Contents \ exposed'
      PROVE  tree'[q] = job[3]
  <2>1. tree'[q] = tree[q] /\ tree[q] \notin exposed
    BY <1>2, <1>3 DEF ExposedBy
  <2> QED
    BY <1>3, <2>1 DEF JobFine
<1> QED
  BY <1>3 DEF JobFine

LEMMA MoveStepsKept ==
  ASSUME TypeOK, MoveSteps, Opened, [Next]_vars
  PROVE  MoveSteps' /\ Opened'
<1>0. OpTypes /\ Sound(tree)
  BY TypeParts
<1>1. ASSUME NEW others \in SUBSET Workers, ExposedBy(others), NEW j \in Workers,
             kind'[j] = kind[j], step'[j] = step[j], source'[j] = source[j],
             todo'[j] = todo[j]
      PROVE  /\ step'[j] = "remove" => kind'[j] = "move"
             /\ kind'[j] = "move" /\ step'[j] = "copy" =>
                  \A job \in todo'[j] : JobFine(j, job)'
  <2>1. ASSUME kind[j] = "move", step[j] = "copy", NEW job \in todo[j] PROVE JobFine(j, job)'
    <3>1. Moving(j) /\ JobFine(j, job) /\ job[1] \in Paths
      BY <1>0, <2>1 DEF Opened, Moving, OpTypes, Jobs
    <3> QED
      BY <1>1, <3>1, JobKept
  <2> QED
    BY <1>1, <2>1 DEF MoveSteps
<1>2. ASSUME NEW i \in Workers, OthersWait(i), NEW others \in SUBSET Workers, ExposedBy(others),
             step'[i] = "remove" => kind'[i] = "move",
             kind'[i] = "move" /\ step'[i] = "copy" => \A job \in todo'[i] : JobFine(i, job)'
      PROVE  MoveSteps' /\ Opened'
  BY <1>1, <1>2 DEF MoveSteps, Opened, OthersWait
<1>3. CASE User \/ UNCHANGED vars
  <2>1. ExposedBy(Workers)
    BY <1>3, ExposedUser
  <2>2. CASE CopyPathsAsync \/ MovePathsAsync \/ MovePathsToTrashAsync
    <3>1. PICK k, ps, d : Begin(k, ps, d)
      BY <2>2 DEF CopyPathsAsync, MovePathsAsync, MovePathsToTrashAsync
    <3>2. /\ UNCHANGED <<source, dest, todo>>
          /\ kind' = [kind EXCEPT ![started + 1] = k]
          /\ step' = [step EXCEPT ![started + 1] = "next"]
      BY <3>1 DEF Begin
    <3>3. started + 1 \in Workers
      BY <3>1, FilesAssumption, WorkerFacts DEF Begin, TypeOK, Ops
    <3>4. OthersWait(started + 1) /\ step'[started + 1] = "next"
      BY <1>0, <3>2, <3>3 DEF OthersWait, OpTypes
    <3> QED
      BY <1>2, <2>1, <3>3, <3>4
  <2>3. CASE RenamePath
    <3>1. /\ \E s, d : /\ source' = [source EXCEPT ![GUI] = s]
                       /\ dest' = [dest EXCEPT ![GUI] = d]
          /\ step' = [step EXCEPT ![GUI] = "rename"] /\ UNCHANGED <<kind, todo>>
      BY <2>3 DEF RenamePath
    <3>2. OthersWait(GUI) /\ step'[GUI] = "rename"
      BY <1>0, <3>1, WorkerFacts DEF OthersWait, OpTypes
    <3> QED
      BY <1>2, <2>1, <3>2, WorkerFacts
  <2>4. CASE UNCHANGED workerVars
    BY <1>1, <2>1, <2>4 DEF workerVars, MoveSteps, Opened
  <2> QED
    BY <1>3, <2>2, <2>3, <2>4 DEF User, CreateFolder, Save, SearchIndexed, vars
<1>4. ASSUME NEW i \in Workers, Worker(i) PROVE MoveSteps' /\ Opened'
  <2>1. OthersWait(i) /\ ExposedBy(Workers \ {i})
    BY <1>4, WorkerAlone, ExposedWorker
  <2>2. ASSUME step'[i] = "remove" => kind'[i] = "move",
               kind'[i] = "move" /\ step'[i] = "copy" => \A job \in todo'[i] : JobFine(i, job)'
        PROVE  MoveSteps' /\ Opened'
    BY <1>2, <2>1, <2>2
  <2>3. CASE Take(i)
    BY <2>2, <2>3, TakeSteps
  <2>4. CASE Finish(i) \/ UpdateOperation(i)
    <3>1. step'[i] \in {"posted", "delivered"}
      BY <1>0, <2>4 DEF Finish, UpdateOperation, OpTypes
    <3> QED
      BY <2>2, <3>1
  <2>5. CASE Copied(i)
    <3>1. /\ UNCHANGED kind
          /\ step'[i] = IF kind[i] = "move" THEN "remove" ELSE "next"
      BY <1>0, <2>5 DEF Copied, OpTypes
    <3> QED
      BY <2>2, <3>1
  <2>6. CASE Remove(i) \/ Trash(i)
    <3>1. /\ UNCHANGED kind
          /\ NextPath(i) \/ Fail(i) \/ (UNCHANGED step /\ step[i] = "remove")
      BY <2>6 DEF Remove, Trash
    <3>2. step'[i] \in {"next", "posted"} \/ (step'[i] = "remove" /\ step[i] = "remove")
      BY <1>0, <3>1 DEF NextPath, Fail, OpTypes
    <3> QED
      BY <2>2, <3>1, <3>2 DEF MoveSteps
  <2>7. CASE Rename(i) \/ Unlink(i)
    <3>1. /\ UNCHANGED source /\ source[i] \in Paths
          /\ \/ step'[i] \in {"unused", "next", "unlink"}
             \/ step'[i] = "copy" /\ todo'[i] = {<<source[i], dest[i], Nothing>>}
      BY <1>0, <2>7, RenameSteps DEF OpTypes, BeginCopy
    <3>2. ASSUME NEW job, job = <<source[i], dest[i], Nothing>> PROVE JobFine(i, job)'
      <4>1. job[1] = source'[i] /\ job[3] = Nothing /\ source'[i] \in Paths
        BY <3>1, <3>2
      <4> QED
        BY <4>1, UnderOrder DEF JobFine
    <3> QED
      BY <2>2, <3>1, <3>2
  <2>8. ASSUME UNCHANGED <<kind, source>>, step[i] = "copy", kind[i] = "move",
               NEW job \in todo[i]
        PROVE  JobFine(i, job) /\ JobFine(i, job)' /\ job[1] \in Paths
    <3>1. Moving(i) /\ JobFine(i, job) /\ job[1] \in Paths
      BY <1>0, <2>8 DEF Opened, Moving, OpTypes, Jobs
    <3> QED
      BY <2>1, <2>8, <3>1, JobKept
  <2>9. CASE Place(i)
    <3>1. /\ UNCHANGED <<kind, source>> /\ step[i] = "copy"
          /\ \/ UNCHANGED step /\ \E job : todo' = [todo EXCEPT ![i] = @ \ {job}]
             \/ Fail(i)
      BY <2>9 DEF Place
    <3>2. step'[i] = "posted" \/ (step'[i] = "copy" /\ todo'[i] \subseteq todo[i])
      BY <1>0, <3>1 DEF Fail, OpTypes
    <3> QED
      BY <2>2, <2>8, <3>1, <3>2
  <2>10. CASE CopyRecursively(i)
    <3>1. UNCHANGED <<kind, source>> /\ step[i] = "copy"
      BY <2>10 DEF CopyRecursively
    <3>2. PICK job \in todo[i] :
            \/ /\ UNCHANGED step
               /\ \E below : /\ todo' = [todo EXCEPT ![i] = (@ \ {job}) \cup below]
                             /\ \A b \in below : b[1] \in Children[job[1]] /\ b[3] = Nothing
            \/ /\ tree[job[1]] \in Contents
               /\ UNCHANGED <<tree, step>>
               /\ todo' = [todo EXCEPT ![i] =
                             (@ \ {job}) \cup {<<job[1], job[2], tree[job[1]]>>}]
            \/ Fail(i)
      BY <2>10, CopySteps
    <3>3. SUFFICES ASSUME kind[i] = "move" PROVE MoveSteps' /\ Opened'
      <4>1. ASSUME kind'[i] # "move" PROVE step'[i] # "remove"
        BY <1>0, <3>1, <3>2 DEF Fail, OpTypes
      <4> QED
        BY <2>2, <3>1, <4>1
    <3>4. JobFine(i, job) /\ job[1] \in Paths /\ \A old \in todo[i] : JobFine(i, old)'
      BY <2>8, <3>1, <3>3
    <3>5. ASSUME step'[i] = "copy", NEW new,
                 todo'[i] = (todo[i] \ {job}) \cup new, \A b \in new : JobFine(i, b)'
          PROVE  MoveSteps' /\ Opened'
      BY <2>2, <3>4, <3>5
    <3>6. CASE Fail(i)
      <4>1. step'[i] = "posted"
        BY <1>0, <3>6 DEF Fail, OpTypes
      <4> QED
        BY <2>2, <4>1
    <3>7. ASSUME UNCHANGED step, NEW below, todo' = [todo EXCEPT ![i] = (@ \ {job}) \cup below],
                 \A b \in below : b[1] \in Children[job[1]] /\ b[3] = Nothing
          PROVE  MoveSteps' /\ Opened'
      <4>1. ASSUME NEW b \in below PROVE JobFine(i, b)'
        <5>1. b[1] \in Paths \ Tops /\ job[1] = Parent(b[1])
          BY <3>4, <3>7 DEF Children
        <5>2. b[1] \in Under[job[1]]
          BY <5>1, ParentFacts
        <5>3. b[1] \in Under[source[i]]
          BY <1>0, <3>4, <5>2, UnderOrder DEF JobFine, OpTypes
        <5> QED
          BY <3>1, <3>7, <5>3 DEF JobFine
      <4> QED
        BY <1>0, <3>1, <3>5, <3>7, <4>1 DEF OpTypes
    <3>8. CASE /\ tree[job[1]] \in Contents /\ UNCHANGED <<tree, step>>
               /\ todo' = [todo EXCEPT ![i] =
                             (@ \ {job}) \cup {<<job[1], job[2], tree[job[1]]>>}]
      <4> DEFINE b == <<job[1], job[2], tree[job[1]]>>
      <4>1. b[1] = job[1] /\ b[3] = tree[job[1]]
        OBVIOUS
      <4>2. todo'[i] = (todo[i] \ {job}) \cup {b} /\ step'[i] = "copy"
        BY <1>0, <3>1, <3>8 DEF OpTypes
      <4>3. ~IsDir(job[1])
        BY <1>0, <3>8, TreeFacts DEF IsDir
      <4>4. \A q \in Under[job[1]] : tree[q] \in Contents => q = job[1]
        BY <1>0, <3>4, <4>3, TreeFacts DEF Exists
      <4> HIDE DEF b
      <4>5. ASSUME NEW x, x = b PROVE JobFine(i, x)'
        BY <3>1, <3>4, <3>8, <4>1, <4>4, <4>5 DEF JobFine
      <4> QED
        BY <3>5, <4>2, <4>5
    <3> QED
      BY <3>2, <3>6, <3>7, <3>8
  <2> QED
    BY <1>4, <2>3, <2>4, <2>5, <2>6, <2>7, <2>9, <2>10 DEF Worker, Thread
<1> QED
  BY <1>3, <1>4 DEF Next

(* No operation, beside any others and beside the user's own work, makes a  *)
(* file disappear, but those put where a move or rename is about to delete  *)
(* or to write.                                                             *)
THEOREM NoFileIsLost == Safety => FilesKept
<1>1. Init => MoveSteps /\ Opened /\ GoodInv
  <2>1. ASSUME Init PROVE MoveSteps /\ Opened
    BY <2>1 DEF Init, MoveSteps, Opened
  <2>2. ASSUME Init, NEW c, NEW p \in Paths, tree[p] = c PROVE Good(c)
    <3> DEFINE h == [q \in Paths |-> 0]
    <3>1. \A i \in Workers : step[i] = "unused"
      BY <2>2 DEF Init
    <3>2. Free(p) /\ Linked({p}, h) /\ Rooted(p, {p})
      BY <3>1 DEF Free, Moving, Linked, Rooted, Renaming
    <3>3. Ranked(c, p, {p}, h)
      BY <2>2, <3>2 DEF Ranked
    <3> HIDE DEF h
    <3> QED
      BY <3>3 DEF Good
  <2> QED
    BY <2>1, <2>2 DEF GoodInv, Somewhere, Good
<1>2. TypeOK /\ Landed /\ MoveSteps /\ Opened /\ GoodInv /\ [Next]_vars =>
        MoveSteps' /\ Opened' /\ GoodInv'
  <2> SUFFICES ASSUME TypeOK, Landed, MoveSteps, Opened, GoodInv, [Next]_vars
               PROVE  MoveSteps' /\ Opened' /\ GoodInv'
    OBVIOUS
  <2>1. ASSUME NEW c \in Contents \ exposed', Somewhere(c)' PROVE Good(c)'
    <3>1. c \notin exposed
      BY ExposedGrows
    <3> QED
      BY <2>1, <3>1, GoodStep, NewFile DEF GoodInv
  <2> QED
    BY <2>1, MoveStepsKept DEF GoodInv
<1>3. TypeOK /\ Landed /\ MoveSteps /\ Opened /\ GoodInv /\ [Next]_vars =>
        [\A c \in Contents \ exposed : Somewhere(c) => Somewhere(c)']_vars
  <2> SUFFICES ASSUME TypeOK, Landed, MoveSteps, Opened, GoodInv, [Next]_vars,
                      NEW c \in Contents \ exposed, Somewhere(c)
               PROVE  Somewhere(c)'
    OBVIOUS
  <2>1. CASE c \in exposed'
    BY <2>1, ExposedGrows DEF Somewhere
  <2>2. CASE c \notin exposed'
    BY <2>2, GoodStep DEF GoodInv, Good, Ranked, Somewhere
  <2> QED
    BY <2>1, <2>2
<1> QED
  BY <1>1, <1>2, <1>3, FileTypes, TargetsLanded, PTL DEF Safety, FilesKept
=============================================================================
