------------------------- MODULE OrgMutationProofs -------------------------
(***************************************************************************)
(* Proofs about OrgMutation, for every number of requests and workspaces,  *)
(* every roster, every nesting of the directories, every manifest that can *)
(* be posted and every hire, with restarts and unattended engines.         *)
(*                                                                         *)
(* The invariant OrgInv stands on two pillars.  A ranking of the requests  *)
(* (ChainInv) in which each waits for the last before it shows the chain   *)
(* of promises to be a lock, although a request knows only the tail it     *)
(* found.  And while a hire may still be taken back, nothing else lies  *)
(* below its directory (StagedInv), so that what was applied, and what an  *)
(* unattended engine has read, rests on other packages (SafeInv).          *)
(*                                                                         *)
(* The invariant ExactInv follows the renames of an adjustment or an undo  *)
(* along the trees its validation computed.  It needs OrgInv, for nobody   *)
(* else moves a directory meanwhile, and induction over the changes of a   *)
(* manifest and over the depth of a directory: on sets, from the           *)
(* well-founded order of the naturals (Induction).                         *)
(***************************************************************************)
EXTENDS OrgMutation, SequenceTheorems, FiniteSetTheorems, WellFoundedInduction, TLAPS

-----------------------------------------------------------------------------
(* Directories *)

\* A path that is cut off is a path.
LEMMA CutPath ==
  ASSUME NEW d \in Paths, NEW n \in 1 .. Len(d)
  PROVE  /\ SubSeq(d, 1, n) \in Paths /\ Len(SubSeq(d, 1, n)) = n
         /\ \A i \in 1 .. n : SubSeq(d, 1, n)[i] = d[i]
<1>1. d \in Seq(Ids) /\ Len(d) \in Nat /\ n \in Nat
  BY DEF Paths
<1>2. SubSeq(d, 1, n) \in Seq(Ids) /\ Len(SubSeq(d, 1, n)) = n
  BY <1>1
<1>3. \A i \in 1 .. n : SubSeq(d, 1, n)[i] = d[i]
  BY <1>1
<1> QED  BY <1>1, <1>2, <1>3 DEF Paths

\* Two paths are the same if they agree everywhere.
LEMMA SamePath ==
  ASSUME NEW d \in Paths, NEW e \in Paths, Len(d) = Len(e), \A i \in 1 .. Len(d) : d[i] = e[i]
  PROVE  d = e
  BY DEF Paths

\* What lies below a directory agrees with it as far as it goes.
LEMMA WithinIs ==
  ASSUME NEW d \in Paths, NEW s \in Paths
  PROVE  Within(d, s) <=> Len(s) <= Len(d) /\ \A i \in 1 .. Len(s) : d[i] = s[i]
<1>0. Len(s) \in Nat \ {0} /\ Len(d) \in Nat /\ d \in Seq(Ids) /\ s \in Seq(Ids)
  BY DEF Paths
<1>1. ASSUME Within(d, s) PROVE Len(s) <= Len(d) /\ \A i \in 1 .. Len(s) : d[i] = s[i]
  <2>1. Len(s) \in 1 .. Len(d) /\ SubSeq(d, 1, Len(s)) = s
    BY <1>0, <1>1 DEF Within
  <2> QED  BY <1>0, <2>1, CutPath
<1>2. ASSUME Len(s) <= Len(d), \A i \in 1 .. Len(s) : d[i] = s[i] PROVE Within(d, s)
  <2>1. Len(s) \in 1 .. Len(d)
    BY <1>0, <1>2
  <2>2. /\ SubSeq(d, 1, Len(s)) \in Paths /\ Len(SubSeq(d, 1, Len(s))) = Len(s)
        /\ \A i \in 1 .. Len(s) : SubSeq(d, 1, Len(s))[i] = s[i]
    BY <2>1, <1>2, CutPath
  <2>3. SubSeq(d, 1, Len(s)) = s
    BY <2>2, SamePath
  <2> QED  BY <1>2, <2>3 DEF Within
<1> QED  BY <1>1, <1>2

\* A directory that lies above another lies above all that are below that one.
LEMMA WithinCut ==
  ASSUME NEW d \in Paths, NEW s \in Paths, NEW n \in 1 .. Len(d), Within(SubSeq(d, 1, n), s)
  PROVE  Within(d, s)
<1>1. /\ SubSeq(d, 1, n) \in Paths /\ Len(SubSeq(d, 1, n)) = n /\ n <= Len(d) /\ n \in Nat
      /\ \A i \in 1 .. n : SubSeq(d, 1, n)[i] = d[i]
  BY CutPath DEF Paths
<1>2. Len(s) <= n /\ \A i \in 1 .. Len(s) : SubSeq(d, 1, n)[i] = s[i]
  BY <1>1, WithinIs
<1>3. Len(s) \in Nat /\ Len(d) \in Nat
  BY DEF Paths
<1>4. Len(s) <= Len(d) /\ \A i \in 1 .. Len(s) : d[i] = s[i]
  BY <1>1, <1>2, <1>3
<1> QED  BY <1>4, WithinIs

\* A renamed directory: its length, its parts and its id.
Grafted(e, d, s, t) ==
  /\ e \in Paths /\ Len(e) = Len(t) + (Len(d) - Len(s))
  /\ \A i \in 1 .. Len(t) : e[i] = t[i]
  /\ \A i \in Len(t) + 1 .. Len(e) : e[i] = d[i - Len(t) + Len(s)]
  /\ Len(d) = Len(s) => d = s /\ e = t
  /\ Len(d) # Len(s) => IdOf(e) = IdOf(d)

\* A rename leaves paths, and moves whole paths: what lay below s lies below t.
LEMMA RenamedPath ==
  ASSUME NEW d \in Paths, NEW s \in Paths, NEW t \in Paths, Within(d, s)
  PROVE  Grafted(t \o Rest(d, s), d, s, t)
<1> DEFINE e == t \o Rest(d, s)
<1> HIDE DEF e
<1> DEFINE r == Rest(d, s)
<1>e. e = t \o r
  BY DEF e
<1> SUFFICES Grafted(e, d, s, t)
  BY DEF e
<1>0. /\ Len(s) \in Nat \ {0} /\ Len(d) \in Nat /\ Len(t) \in Nat \ {0} /\ Len(s) <= Len(d)
      /\ d \in Seq(Ids) /\ s \in Seq(Ids) /\ t \in Seq(Ids) /\ \A i \in 1 .. Len(s) : d[i] = s[i]
  BY WithinIs DEF Paths
<1>1. r \in Seq(Ids) /\ Len(r) = Len(d) - Len(s)
  BY <1>0 DEF Rest
<1>2. \A i \in 1 .. Len(r) : r[i] = d[i + Len(s)]
  <2> DEFINE m == Len(s) + 1
  <2>1. m \in Int /\ Len(d) \in Int /\ m \in Nat \ {0}
    BY <1>0
  <2>2. \A j \in m .. Len(d) : d[j] \in Ids
    BY <1>0
  <2>3. \A j \in 1 .. Len(d) - m + 1 : SubSeq(d, m, Len(d))[j] = d[m + j - 1]
    <3> HIDE DEF m
    <3> QED  BY ONLY <2>1, <2>2, SubSeqProperties
  <2>4. \A j \in 1 .. Len(r) : j \in 1 .. Len(d) - m + 1 /\ m + j - 1 = j + Len(s)
    BY <1>0, <1>1
  <2>5. r = SubSeq(d, m, Len(d))
    BY DEF Rest
  <2> HIDE DEF m, r
  <2>6. ASSUME NEW j \in 1 .. Len(r) PROVE r[j] = d[j + Len(s)]
    <3>1. j \in 1 .. Len(d) - m + 1 /\ m + j - 1 = j + Len(s)
      BY <2>4
    <3>2. SubSeq(d, m, Len(d))[j] = d[m + j - 1]
      BY <2>3, <3>1
    <3> QED  BY <2>5, <3>1, <3>2, Zenon
  <2> QED  BY <2>6
<1> HIDE DEF r
<1>3. e \in Seq(Ids) /\ Len(e) = Len(t) + Len(r) /\ e # <<>>
  <2>0. t \in Seq(Ids) /\ r \in Seq(Ids)
    BY <1>0, <1>1
  <2>1. e \in Seq(Ids) /\ Len(e) = Len(t) + Len(r)
    BY ONLY <1>e, <2>0, ConcatProperties
  <2>2. Len(e) # 0
    BY <1>0, <1>1, <2>1
  <2> QED  BY <2>1, <2>2
<1>4. \A i \in 1 .. Len(t) : e[i] = t[i]
  BY <1>0, <1>1, <1>e
<1>5. \A i \in Len(t) + 1 .. Len(e) : e[i] = d[i - Len(t) + Len(s)]
  <2> SUFFICES ASSUME NEW i \in Len(t) + 1 .. Len(e) PROVE e[i] = d[i - Len(t) + Len(s)]
    OBVIOUS
  <2>1. i - Len(t) \in 1 .. Len(r) /\ i \in Nat
    BY <1>0, <1>1, <1>3
  <2>2. e[i] = r[i - Len(t)]
    BY <1>0, <1>1, <1>e, <2>1
  <2> QED  BY <1>2, <2>1, <2>2
<1>6. e \in Paths
  BY <1>3 DEF Paths
<1>7. CASE Len(d) = Len(s)
  <2>1. d = s
    BY <1>0, <1>7, SamePath
  <2>2. Len(e) = Len(t)
    BY <1>0, <1>1, <1>3, <1>7
  <2>3. e = t
    BY <1>4, <1>6, <2>2, SamePath
  <2> QED  BY <1>1, <1>3, <1>4, <1>5, <1>6, <1>7, <2>1, <2>3 DEF Grafted
<1>8. CASE Len(d) # Len(s)
  <2>1. Len(e) \in Len(t) + 1 .. Len(e) /\ Len(e) - Len(t) + Len(s) = Len(d)
    BY <1>0, <1>1, <1>3, <1>8
  <2>2. IdOf(e) = IdOf(d)
    BY <1>5, <2>1 DEF IdOf
  <2> QED  BY <1>1, <1>3, <1>4, <1>5, <1>6, <1>8, <2>2 DEF Grafted
<1> QED  BY <1>7, <1>8

-----------------------------------------------------------------------------
(* What a rename leaves *)

\* The parts of a renamed directory: those of its destination, and those it brings along.
LEMMA RenamedCut ==
  ASSUME NEW d \in Paths, NEW s \in Paths, NEW t \in Paths, Within(d, s),
         NEW n \in 1 .. Len(t \o Rest(d, s))
  PROVE  \/ n < Len(t) /\ SubSeq(t \o Rest(d, s), 1, n) = SubSeq(t, 1, n)
         \/ \E k \in 1 .. Len(d) : /\ Within(SubSeq(d, 1, k), s)
                                   /\ SubSeq(t \o Rest(d, s), 1, n) = t \o Rest(SubSeq(d, 1, k), s)
<1> DEFINE e == t \o Rest(d, s)
<1>0. /\ e \in Paths /\ Len(e) = Len(t) + (Len(d) - Len(s))
      /\ \A i \in 1 .. Len(t) : e[i] = t[i]
      /\ \A i \in Len(t) + 1 .. Len(e) : e[i] = d[i - Len(t) + Len(s)]
  <2>1. Grafted(e, d, s, t)
    BY RenamedPath
  <2> HIDE DEF e
  <2> QED  BY <2>1 DEF Grafted
<1>a. /\ Len(s) \in Nat \ {0} /\ Len(d) \in Nat /\ Len(t) \in Nat \ {0} /\ Len(s) <= Len(d)
      /\ \A i \in 1 .. Len(s) : d[i] = s[i]
  BY WithinIs DEF Paths
<1>b. n \in 1 .. Len(e)
  OBVIOUS
<1> HIDE DEF e
<1>1. /\ SubSeq(e, 1, n) \in Paths /\ Len(SubSeq(e, 1, n)) = n
      /\ \A i \in 1 .. n : SubSeq(e, 1, n)[i] = e[i]
  BY <1>0, <1>b, CutPath
<1>2. CASE n < Len(t)
  <2>1. n \in 1 .. Len(t)
    BY <1>a, <1>b, <1>2
  <2>2. /\ SubSeq(t, 1, n) \in Paths /\ Len(SubSeq(t, 1, n)) = n
        /\ \A i \in 1 .. n : SubSeq(t, 1, n)[i] = t[i]
    BY <2>1, CutPath
  <2>3. \A i \in 1 .. n : SubSeq(e, 1, n)[i] = SubSeq(t, 1, n)[i]
    BY <1>0, <1>1, <1>a, <2>1, <2>2
  <2>4. SubSeq(e, 1, n) = SubSeq(t, 1, n)
    BY <1>1, <2>2, <2>3, SamePath
  <2> QED  BY <1>2, <2>4 DEF e
<1>3. CASE ~ n < Len(t)
  <2> DEFINE k == n - Len(t) + Len(s)
  <2>1. k \in 1 .. Len(d) /\ Len(s) <= k /\ n \in Nat /\ n = Len(t) + (k - Len(s)) /\ k \in Nat
    BY <1>0, <1>a, <1>b, <1>3
  <2> HIDE DEF k
  <2> DEFINE c == SubSeq(d, 1, k)
  <2>2. /\ c \in Paths /\ Len(c) = k /\ \A i \in 1 .. k : c[i] = d[i]
    BY <2>1, CutPath
  <2> HIDE DEF c
  <2>3. Within(c, s)
    <3>1. \A i \in 1 .. Len(s) : c[i] = s[i]
      BY <1>a, <2>1, <2>2
    <3> QED  BY <2>1, <2>2, <3>1, WithinIs
  <2> DEFINE f == t \o Rest(c, s)
  <2>4. /\ f \in Paths /\ Len(f) = Len(t) + (Len(c) - Len(s))
        /\ \A i \in 1 .. Len(t) : f[i] = t[i]
        /\ \A i \in Len(t) + 1 .. Len(f) : f[i] = c[i - Len(t) + Len(s)]
    <3>1. Grafted(f, c, s, t)
      BY <2>2, <2>3, RenamedPath
    <3> HIDE DEF f
    <3> QED  BY <3>1 DEF Grafted
  <2> HIDE DEF f
  <2>5. \A i \in 1 .. n : SubSeq(e, 1, n)[i] = f[i]
    <3> SUFFICES ASSUME NEW i \in 1 .. n PROVE e[i] = f[i]
      BY <1>1
    <3>1. CASE i <= Len(t)
      BY <1>0, <1>a, <2>1, <2>4, <3>1
    <3>2. CASE ~ i <= Len(t)
      <4>1. i \in Len(t) + 1 .. Len(e) /\ i \in Len(t) + 1 .. Len(f) /\ i - Len(t) + Len(s) \in 1 .. k
        BY <1>0, <1>a, <1>b, <2>1, <2>2, <2>4, <3>2
      <4> QED  BY <1>0, <2>2, <2>4, <4>1
    <3> QED  BY <3>1, <3>2
  <2>6. SubSeq(e, 1, n) = f
    <3>1. Len(f) = n
      BY <2>1, <2>2, <2>4
    <3> QED  BY <1>1, <2>4, <2>5, <3>1, SamePath
  <2> QED  BY <2>1, <2>3, <2>6 DEF e, f, c
<1> QED  BY <1>2, <1>3

\* What a rename brings to its destination.
Grafts(tree, s, t) == {t \o Rest(d, s) : d \in Subtree(tree, s)}

\* What a rename brings to its destination lies below it, and so does all that is above it there.
LEMMA GraftCut ==
  ASSUME NEW tree \in SUBSET Paths, Closed(tree), NEW s \in Paths, NEW t \in Paths,
         NEW e \in Grafts(tree, s, t)
  PROVE  /\ e \in Paths /\ Within(e, t)
         /\ \A n \in 1 .. Len(e) : \/ SubSeq(e, 1, n) \in Grafts(tree, s, t)
                                   \/ n < Len(t) /\ SubSeq(e, 1, n) = SubSeq(t, 1, n)
<1>1. PICK d \in Subtree(tree, s) : e = t \o Rest(d, s)
  BY DEF Grafts
<1>2. d \in Paths /\ d \in tree /\ Within(d, s)
  BY DEF Subtree
<1>3. e \in Paths /\ Within(e, t)
  <2>1. Grafted(e, d, s, t)
    BY <1>1, <1>2, RenamedPath
  <2>2. /\ e \in Paths /\ Len(e) = Len(t) + (Len(d) - Len(s))
        /\ \A i \in 1 .. Len(t) : e[i] = t[i]
    BY <2>1 DEF Grafted
  <2>3. Len(s) <= Len(d)
    BY <1>2, WithinIs
  <2>4. Len(t) <= Len(e)
    BY <2>2, <2>3 DEF Paths
  <2> QED  BY <2>2, <2>4, WithinIs
<1>4. ASSUME NEW n \in 1 .. Len(e)
      PROVE  \/ SubSeq(e, 1, n) \in Grafts(tree, s, t)
             \/ n < Len(t) /\ SubSeq(e, 1, n) = SubSeq(t, 1, n)
  <2>1. n \in 1 .. Len(t \o Rest(d, s))
    BY <1>1
  <2>2. \/ n < Len(t) /\ SubSeq(t \o Rest(d, s), 1, n) = SubSeq(t, 1, n)
        \/ \E k \in 1 .. Len(d) : /\ Within(SubSeq(d, 1, k), s)
                                  /\ SubSeq(t \o Rest(d, s), 1, n) = t \o Rest(SubSeq(d, 1, k), s)
    BY <1>2, <2>1, RenamedCut
  <2>3. ASSUME NEW k \in 1 .. Len(d), Within(SubSeq(d, 1, k), s),
               SubSeq(t \o Rest(d, s), 1, n) = t \o Rest(SubSeq(d, 1, k), s)
        PROVE  SubSeq(e, 1, n) \in Grafts(tree, s, t)
    <3>1. SubSeq(d, 1, k) \in Subtree(tree, s)
      BY <1>2, <2>3 DEF Closed, Subtree
    <3> QED  BY <1>1, <2>3, <3>1 DEF Grafts
  <2> QED  BY <1>1, <2>2, <2>3
<1> QED  BY <1>3, <1>4

\* A rename to a directory below positions that stay leaves every position below positions.
LEMMA RenamedClosed ==
  ASSUME NEW dirs \in SUBSET Paths, Closed(dirs), NEW s \in Paths, NEW t \in Paths,
         \A n \in 1 .. Len(t) : n < Len(t) => SubSeq(t, 1, n) \in dirs \ Subtree(dirs, s)
  PROVE  Renamed(dirs, s, t) \subseteq Paths /\ Closed(Renamed(dirs, s, t))
<1>0. Renamed(dirs, s, t) = (dirs \ Subtree(dirs, s)) \cup Grafts(dirs, s, t)
  BY DEF Renamed, Grafts
<1>1. Renamed(dirs, s, t) \subseteq Paths
  BY <1>0, GraftCut
<1>2. ASSUME NEW e \in Renamed(dirs, s, t), NEW n \in 1 .. Len(e)
      PROVE  SubSeq(e, 1, n) \in Renamed(dirs, s, t)
  <2>1. CASE e \in dirs \ Subtree(dirs, s)
    <3>1. SubSeq(e, 1, n) \in dirs
      BY <2>1 DEF Closed
    <3>2. ~ Within(SubSeq(e, 1, n), s)
      BY <2>1, WithinCut DEF Subtree
    <3> QED  BY <1>0, <3>1, <3>2 DEF Subtree
  <2>2. CASE e \in Grafts(dirs, s, t)
    <3>1. \/ SubSeq(e, 1, n) \in Grafts(dirs, s, t)
          \/ n < Len(t) /\ SubSeq(e, 1, n) = SubSeq(t, 1, n)
      BY <2>2, GraftCut
    <3>2. CASE n < Len(t) /\ SubSeq(e, 1, n) = SubSeq(t, 1, n)
      <4>1. n \in 1 .. Len(t)
        BY <3>2 DEF Paths
      <4> QED  BY <1>0, <3>2, <4>1
    <3> QED  BY <1>0, <3>1, <3>2
  <2> QED  BY <1>0, <2>1, <2>2
<1> QED  BY <1>1, <1>2 DEF Closed

\* A tree whose directories all lie below s goes to its destination whole.
LEMMA RenamedWhole ==
  ASSUME NEW tree, NEW s, NEW t, \A d \in tree : Within(d, s)
  PROVE  Renamed(tree, s, t) = Grafts(tree, s, t)
<1>1. Subtree(tree, s) = tree
  BY DEF Subtree
<1> QED  BY <1>1 DEF Renamed, Grafts

\* A tree that is moved to a directory of its own is a tree again.
LEMMA TakenAway ==
  ASSUME NEW dirs \in SUBSET Paths, Closed(dirs), NEW s \in Paths, NEW id \in Ids
  PROVE  LET tree == Renamed(Subtree(dirs, s), s, <<id>>) IN
         tree \subseteq Paths /\ Closed(tree) /\ \A d \in tree : Within(d, <<id>>)
<1> DEFINE t == <<id>>
<1>0. t \in Paths /\ Len(t) = 1
  BY DEF Paths
<1> HIDE DEF t
<1>1. Subtree(Subtree(dirs, s), s) = Subtree(dirs, s)
  BY DEF Subtree
<1>2. Renamed(Subtree(dirs, s), s, t) = Grafts(dirs, s, t)
  BY <1>1 DEF Renamed, Grafts
<1>3. ASSUME NEW e \in Grafts(dirs, s, t) PROVE e \in Paths /\ Within(e, t)
  BY <1>0, <1>3, GraftCut
<1>4. ASSUME NEW e \in Grafts(dirs, s, t), NEW n \in 1 .. Len(e)
      PROVE  SubSeq(e, 1, n) \in Grafts(dirs, s, t)
  <2>1. ~ n < Len(t)
    BY <1>0
  <2> QED  BY <1>0, <2>1, GraftCut
<1>5. Closed(Grafts(dirs, s, t))
  BY <1>4 DEF Closed
<1>6. /\ Renamed(Subtree(dirs, s), s, t) \subseteq Paths /\ Closed(Renamed(Subtree(dirs, s), s, t))
      /\ \A d \in Renamed(Subtree(dirs, s), s, t) : Within(d, t)
  BY <1>2, <1>3, <1>5
<1> QED  BY <1>6 DEF t

\* A tree that is moved below positions leaves every position below positions.
LEMMA BroughtBack ==
  ASSUME NEW dirs \in SUBSET Paths, Closed(dirs), NEW tree \in SUBSET Paths, Closed(tree),
         NEW s \in Paths, NEW t \in Paths, \A d \in tree : Within(d, s),
         \A n \in 1 .. Len(t) : n < Len(t) => SubSeq(t, 1, n) \in dirs
  PROVE  LET all == dirs \cup Renamed(tree, s, t) IN all \subseteq Paths /\ Closed(all)
<1>1. Renamed(tree, s, t) = Grafts(tree, s, t)
  BY RenamedWhole
<1>2. ASSUME NEW e \in Grafts(tree, s, t) PROVE e \in Paths
  BY <1>2, GraftCut
<1>3. ASSUME NEW e \in Grafts(tree, s, t), NEW n \in 1 .. Len(e)
      PROVE  SubSeq(e, 1, n) \in dirs \cup Grafts(tree, s, t)
  <2>1. \/ SubSeq(e, 1, n) \in Grafts(tree, s, t)
        \/ n < Len(t) /\ SubSeq(e, 1, n) = SubSeq(t, 1, n)
    BY GraftCut
  <2>2. CASE n < Len(t) /\ SubSeq(e, 1, n) = SubSeq(t, 1, n)
    <3>1. n \in 1 .. Len(t)
      BY <2>2 DEF Paths
    <3> QED  BY <2>2, <3>1
  <2> QED  BY <2>1, <2>2
<1>4. Closed(dirs \cup Grafts(tree, s, t))
  BY <1>3 DEF Closed
<1> QED  BY <1>1, <1>2, <1>4

\* A rename that keeps the last name keeps every id.
LEMMA RenamedIds ==
  ASSUME NEW dirs \in SUBSET Paths, NEW s \in Paths, NEW t \in Paths, IdOf(t) = IdOf(s)
  PROVE  ScannedIds(Renamed(dirs, s, t)) = ScannedIds(dirs)
<1>1. ASSUME NEW d \in Subtree(dirs, s) PROVE IdOf(t \o Rest(d, s)) = IdOf(d)
  <2>1. d \in Paths /\ Within(d, s)
    BY DEF Subtree
  <2>2. Grafted(t \o Rest(d, s), d, s, t)
    BY <2>1, RenamedPath
  <2> QED  BY <2>2 DEF Grafted
<1>2. ASSUME NEW id \in ScannedIds(dirs) PROVE id \in ScannedIds(Renamed(dirs, s, t))
  <2>1. PICK d \in dirs : IdOf(d) = id
    BY DEF ScannedIds
  <2>2. CASE d \in Subtree(dirs, s)
    <3>1. t \o Rest(d, s) \in Renamed(dirs, s, t)
      BY <2>2 DEF Renamed
    <3> QED  BY <1>1, <2>1, <2>2, <3>1 DEF ScannedIds
  <2>3. CASE d \notin Subtree(dirs, s)
    BY <2>1, <2>3 DEF Renamed, ScannedIds
  <2> QED  BY <2>2, <2>3
<1>3. ASSUME NEW id \in ScannedIds(Renamed(dirs, s, t)) PROVE id \in ScannedIds(dirs)
  <2>1. PICK e \in Renamed(dirs, s, t) : IdOf(e) = id
    BY DEF ScannedIds
  <2>2. CASE e \in dirs
    BY <2>1, <2>2 DEF ScannedIds
  <2>3. ASSUME NEW d \in Subtree(dirs, s), e = t \o Rest(d, s) PROVE id \in ScannedIds(dirs)
    BY <1>1, <2>1, <2>3 DEF ScannedIds, Subtree
  <2> QED  BY <2>1, <2>2, <2>3 DEF Renamed
<1> QED  BY <1>2, <1>3

\* What is taken away with all that lies below it leaves every position below positions.
LEMMA RemainsClosed ==
  ASSUME NEW dirs \in SUBSET Paths, Closed(dirs), NEW s \in Paths
  PROVE  dirs \ Subtree(dirs, s) \subseteq Paths /\ Closed(dirs \ Subtree(dirs, s))
<1> SUFFICES ASSUME NEW d \in dirs \ Subtree(dirs, s), NEW n \in 1 .. Len(d)
             PROVE  SubSeq(d, 1, n) \in dirs \ Subtree(dirs, s)
  BY DEF Closed
<1>1. SubSeq(d, 1, n) \in dirs
  BY DEF Closed
<1>2. ~ Within(SubSeq(d, 1, n), s)
  BY WithinCut DEF Subtree
<1> QED  BY <1>1, <1>2 DEF Subtree

\* The directory a position that reports to parent belongs in lies below positions.
LEMMA PlaceIsPath ==
  ASSUME NEW dirs \in SUBSET Paths, Closed(dirs), NEW parent, NEW id \in Ids
  PROVE  LET t == PlaceUnder(dirs, parent, id) IN
         /\ t \in Paths /\ IdOf(t) = id
         /\ \A n \in 1 .. Len(t) : n < Len(t) => SubSeq(t, 1, n) \in dirs
<1>1. CASE parent \in ScannedIds(dirs)
  <2> DEFINE p == DirOf(dirs, parent)
             t == Append(p, id)
  <2>1. p \in dirs
    BY <1>1 DEF DirOf, ScannedIds
  <2> HIDE DEF p
  <2>2. p \in Seq(Ids) /\ p \in Paths /\ Len(p) \in Nat
    BY <2>1 DEF Paths
  <2>3. t \in Seq(Ids) /\ Len(t) = Len(p) + 1 /\ t[Len(p) + 1] = id
        /\ \A i \in 1 .. Len(p) : t[i] = p[i]
    BY <2>2
  <2> HIDE DEF t
  <2>4. t \in Paths /\ IdOf(t) = id
    BY <2>2, <2>3 DEF Paths, IdOf
  <2>5. ASSUME NEW n \in 1 .. Len(t), n < Len(t) PROVE SubSeq(t, 1, n) \in dirs
    <3>1. n \in 1 .. Len(p)
      BY <2>2, <2>3, <2>5
    <3>2. /\ SubSeq(t, 1, n) \in Paths /\ Len(SubSeq(t, 1, n)) = n
          /\ \A i \in 1 .. n : SubSeq(t, 1, n)[i] = t[i]
      BY <2>4, CutPath
    <3>3. /\ SubSeq(p, 1, n) \in Paths /\ Len(SubSeq(p, 1, n)) = n
          /\ \A i \in 1 .. n : SubSeq(p, 1, n)[i] = p[i]
      BY <2>2, <3>1, CutPath
    <3>4. SubSeq(t, 1, n) = SubSeq(p, 1, n)
      <4>1. \A i \in 1 .. n : SubSeq(t, 1, n)[i] = SubSeq(p, 1, n)[i]
        BY <2>2, <2>3, <3>1, <3>2, <3>3
      <4> QED  BY <3>2, <3>3, <4>1, SamePath
    <3> QED  BY <2>1, <3>1, <3>4 DEF Closed
  <2>6. PlaceUnder(dirs, parent, id) = t
    BY <1>1 DEF PlaceUnder, p, t
  <2> QED  BY <2>4, <2>5, <2>6
<1>2. CASE parent \notin ScannedIds(dirs)
  <2> DEFINE t == <<id>>
  <2>1. t \in Paths /\ Len(t) = 1 /\ IdOf(t) = id
    BY DEF Paths, IdOf
  <2>2. PlaceUnder(dirs, parent, id) = t
    BY <1>2 DEF PlaceUnder
  <2> HIDE DEF t
  <2>3. \A n \in 1 .. Len(t) : ~ n < Len(t)
    BY <2>1
  <2> QED  BY <2>1, <2>2, <2>3
<1> QED  BY <1>1, <1>2

\* The ids of directories are ids.
LEMMA IdsAreIds ==
  ASSUME NEW dirs \in SUBSET Paths
  PROVE  ScannedIds(dirs) \subseteq Ids
<1>1. ASSUME NEW d \in dirs PROVE IdOf(d) \in Ids
  <2>1. d \in Seq(Ids) /\ Len(d) \in 1 .. Len(d)
    BY DEF Paths
  <2> QED  BY <2>1 DEF IdOf
<1> QED  BY <1>1 DEF ScannedIds

-----------------------------------------------------------------------------
(***************************************************************************)
(* The chain of promises.  What every request knows is the request it has  *)
(* to wait for; that they stand in one line, and that the map entry is its *)
(* end, is a fact about all of them: there is an order in which each waits *)
(* for one that stands no earlier than anybody before it.                  *)
(***************************************************************************)
\* In line: queued and not answered yet.
Live(r) == req[r].at \notin {"new", "done"}

\* Inside the lock, or about to enter.
Works(r) == Inside(r) \/ Admitted(r)

AfterInLine(rank, s, q) ==
  LET p == req[q].after IN
  /\ ~ Inside(q)
  /\ p \in Requests /\ Live(p) /\ req[p].lock = req[q].lock
  /\ rank[s] <= rank[p] /\ rank[p] < rank[q]

InLine(rank) ==
  \A q \in Requests : Live(q) =>
    /\ req[q].lock \in Workspaces /\ tail[req[q].lock] # None
    /\ \A s \in Requests \ {q} : Live(s) /\ req[s].lock = req[q].lock =>
         rank[s] # rank[q] /\ (rank[s] < rank[q] => AfterInLine(rank, s, q))

TailLast(rank) ==
  \A w \in Workspaces : tail[w] # None =>
    /\ tail[w] \in Requests /\ Live(tail[w]) /\ req[tail[w]].lock = w
    /\ \A q \in Requests : Live(q) /\ req[q].lock = w => rank[q] <= rank[tail[w]]

ChainInv == \E rank \in [Requests -> Nat] : InLine(rank) /\ TailLast(rank)

TailTyped == tail \in [Workspaces -> Requests \cup {None}]

NoRequest == None \notin Requests

\* None names no request.
LEMMA NoneIsNoRequest == NoRequest
  BY OrgAssumption DEF NoRequest

\* Who is inside the lock, or may enter, is the only one inside.
LEMMA Alone ==
  ASSUME ChainInv, NEW r \in Requests, NEW q \in Requests, Works(r), Inside(q),
         req[q].lock = req[r].lock
  PROVE  q = r
<1> SUFFICES ASSUME q # r PROVE FALSE
  OBVIOUS
<1>1. PICK rank \in [Requests -> Nat] : InLine(rank) /\ TailLast(rank)
  BY DEF ChainInv
<1>2. Live(r) /\ Live(q)
  BY DEF Works, Inside, Live, Admitted
<1>3. rank[q] # rank[r] /\ (rank[q] < rank[r] => AfterInLine(rank, q, r))
      /\ (rank[r] < rank[q] => AfterInLine(rank, r, q))
  BY <1>1, <1>2 DEF InLine
<1>4. ~ rank[r] < rank[q]
  BY <1>3 DEF AfterInLine
<1>5. rank[q] < rank[r]
  BY <1>3, <1>4
<1>6. ~ Inside(r) /\ req[r].after \in Requests /\ Live(req[r].after)
  BY <1>3, <1>5 DEF AfterInLine
<1>7. Admitted(r)
  BY <1>6 DEF Works
<1> QED  BY <1>6, <1>7, NoneIsNoRequest DEF Admitted, Live, NoRequest

\* All that a step of r leaves to the others.
Stays(r) == DOMAIN req' = Requests /\ \A q \in Requests \ {r} : req'[q] = req[q]

\* A request that queues is the last of the line.
LEMMA ChainEnqueued ==
  ASSUME ChainInv, TailTyped, NEW r \in Requests, ~ Live(r), open \in Workspaces, Stays(r),
         req'[r].at = "waiting", req'[r].lock = open, req'[r].after = tail[open],
         tail' = [tail EXCEPT ![open] = r]
  PROVE  ChainInv'
<1>1. PICK rank \in [Requests -> Nat] : InLine(rank) /\ TailLast(rank)
  BY DEF ChainInv
<1>0. PICK last : last = tail[open]
  OBVIOUS
<1> DEFINE place == IF last = None THEN 0 ELSE rank[last] + 1
           new == [rank EXCEPT ![r] = place]
<1>2. last # None => last \in Requests /\ Live(last) /\ req[last].lock = open /\ last # r
  BY <1>0, <1>1 DEF TailLast
<1>3. place \in Nat
  BY <1>2
<1>4. new \in [Requests -> Nat] /\ new[r] = place /\ \A q \in Requests \ {r} : new[q] = rank[q]
  BY <1>3
<1>5. Live(r)' /\ ~ Inside(r)'
  BY DEF Live, Inside
<1>6. \A q \in Requests \ {r} : (Live(q)' <=> Live(q)) /\ (Inside(q)' <=> Inside(q))
  BY DEF Live, Inside, Stays
<1>7. ASSUME NEW q \in Requests \ {r}, Live(q), req[q].lock = open
      PROVE  last # None /\ rank[q] <= rank[last] /\ rank[q] < place
  <2>1. last # None
    BY <1>0, <1>1, <1>7 DEF InLine
  <2>2. rank[q] <= rank[last]
    BY <1>0, <1>1, <1>7, <2>1 DEF TailLast
  <2> QED  BY <1>2, <2>1, <2>2
<1> HIDE DEF new, place
<1>8. ASSUME NEW s \in Requests \ {r}, Live(s), req[s].lock = open
      PROVE  AfterInLine(new, s, r)'
  <2>1. last \in Requests /\ last # r /\ Live(last)' /\ req'[last].lock = open
    BY <1>2, <1>6, <1>7, <1>8 DEF Stays
  <2>2. new[s] <= new[last]
    BY <1>4, <1>7, <1>8, <2>1
  <2>3. new[last] < new[r]
    BY <1>4, <1>2, <1>7, <1>8, <2>1
  <2>4. req'[r].after = last /\ req'[r].lock = open
    BY <1>0
  <2> QED  BY <1>5, <2>1, <2>2, <2>3, <2>4 DEF AfterInLine
<1>9. ASSUME NEW q \in Requests, Live(q)'
      PROVE  /\ req'[q].lock \in Workspaces /\ tail'[req'[q].lock] # None
             /\ \A s \in Requests \ {q} : Live(s)' /\ req'[s].lock = req'[q].lock =>
                  new[s] # new[q] /\ (new[s] < new[q] => AfterInLine(new, s, q)')
  <2>1. CASE q = r
    <3>1. tail'[req'[q].lock] # None
      BY <2>1, NoneIsNoRequest DEF TailTyped, NoRequest
    <3>2. ASSUME NEW s \in Requests \ {q}, Live(s)', req'[s].lock = req'[q].lock
          PROVE  new[s] # new[q] /\ (new[s] < new[q] => AfterInLine(new, s, q)')
      <4>1. Live(s) /\ req[s].lock = open /\ s # r
        BY <1>6, <2>1, <3>2 DEF Stays
      <4>2. new[s] < new[q]
        BY <1>4, <1>7, <2>1, <4>1
      <4> QED  BY <1>4, <1>8, <2>1, <4>1, <4>2
    <3> QED  BY <2>1, <3>1, <3>2
  <2>2. CASE q # r
    <3>1. Live(q) /\ req'[q] = req[q]
      BY <1>6, <1>9, <2>2 DEF Stays
    <3>2. req[q].lock \in Workspaces /\ tail[req[q].lock] # None
      BY <1>1, <3>1 DEF InLine
    <3>3. tail'[req'[q].lock] # None
      BY <3>1, <3>2, NoneIsNoRequest DEF TailTyped, NoRequest
    <3>4. ASSUME NEW s \in Requests \ {q}, Live(s)', req'[s].lock = req'[q].lock
          PROVE  new[s] # new[q] /\ (new[s] < new[q] => AfterInLine(new, s, q)')
      <4>1. CASE s = r
        <5>1. new[q] < new[s]
          BY <1>4, <1>7, <2>2, <3>1, <3>4, <4>1
        <5> QED  BY <1>4, <5>1
      <4>2. CASE s # r
        <5>1. Live(s) /\ req[s].lock = req[q].lock
          BY <1>6, <3>1, <3>4, <4>2 DEF Stays
        <5>2. rank[s] # rank[q] /\ (rank[s] < rank[q] => AfterInLine(rank, s, q))
          BY <1>1, <3>1, <5>1 DEF InLine
        <5>3. ASSUME new[s] < new[q] PROVE AfterInLine(new, s, q)'
          <6>1. AfterInLine(rank, s, q)
            BY <1>4, <2>2, <4>2, <5>2, <5>3
          <6>2. PICK p : p = req[q].after
            OBVIOUS
          <6>3. /\ ~ Inside(q) /\ p \in Requests /\ Live(p) /\ req[p].lock = req[q].lock
                /\ p # r /\ rank[s] <= rank[p] /\ rank[p] < rank[q]
            BY <6>1, <6>2 DEF AfterInLine
          <6>4. ~ Inside(q)' /\ Live(p)' /\ req'[p].lock = req'[q].lock /\ req'[q].after = p
            BY <1>6, <2>2, <3>1, <6>2, <6>3 DEF Stays
          <6>5. new[s] <= new[p] /\ new[p] < new[q]
            BY <1>4, <2>2, <4>2, <6>3
          <6> QED  BY <6>3, <6>4, <6>5 DEF AfterInLine
        <5> QED  BY <1>4, <2>2, <4>2, <5>2, <5>3
      <4> QED  BY <4>1, <4>2
    <3> QED  BY <3>1, <3>2, <3>3, <3>4
  <2> QED  BY <2>1, <2>2
<1>10. ASSUME NEW w \in Workspaces, tail'[w] # None
       PROVE  /\ tail'[w] \in Requests /\ req'[tail'[w]].at \notin {"new", "done"} /\ req'[tail'[w]].lock = w
              /\ \A q \in Requests : Live(q)' /\ req'[q].lock = w => new[q] <= new[tail'[w]]
  <2>1. CASE w = open
    <3>1. tail'[w] = r
      BY <2>1 DEF TailTyped
    <3>2. ASSUME NEW q \in Requests, Live(q)', req'[q].lock = w PROVE new[q] <= new[r]
      <4>1. CASE q = r
        BY <1>4, <1>3, <4>1
      <4>2. CASE q # r
        <5>1. Live(q) /\ req[q].lock = open
          BY <1>6, <2>1, <3>2, <4>2 DEF Stays
        <5> QED  BY <1>3, <1>4, <1>7, <4>2, <5>1
      <4> QED  BY <4>1, <4>2
    <3>3. req'[tail'[w]].at \notin {"new", "done"}
      BY <3>1
    <3> QED  BY <2>1, <3>1, <3>2, <3>3
  <2>2. CASE w # open
    <3>1. tail'[w] = tail[w] /\ tail[w] # None
      BY <1>10, <2>2 DEF TailTyped
    <3>2. /\ tail[w] \in Requests /\ Live(tail[w]) /\ req[tail[w]].lock = w /\ tail[w] # r
          /\ \A q \in Requests : Live(q) /\ req[q].lock = w => rank[q] <= rank[tail[w]]
      BY <1>1, <3>1 DEF TailLast
    <3>3. req'[tail'[w]].at \notin {"new", "done"} /\ req'[tail'[w]].lock = w
      BY <3>1, <3>2 DEF Stays, Live
    <3>4. ASSUME NEW q \in Requests, Live(q)', req'[q].lock = w PROVE new[q] <= new[tail'[w]]
      <4>1. q # r
        BY <2>2, <3>4
      <4>2. Live(q) /\ req[q].lock = w
        BY <1>6, <3>4, <4>1 DEF Stays
      <4> QED  BY <1>4, <3>1, <3>2, <4>1, <4>2
    <3> QED  BY <3>1, <3>2, <3>3, <3>4
  <2> QED  BY <2>1, <2>2
<1>11. InLine(new)' /\ TailLast(new)'
  <2>1. InLine(new)'
    BY <1>9 DEF InLine
  <2>2. TailLast(new)'
    BY <1>10 DEF TailLast, Live
  <2> QED  BY <2>1, <2>2
<1> QED  BY <1>4, <1>11 DEF ChainInv

\* A request that may enter goes on without changing the line.
LEMMA ChainAdvanced ==
  ASSUME ChainInv, NEW r \in Requests, Works(r), Stays(r), Inside(r)', tail' = tail,
         req'[r].lock = req[r].lock, req'[r].after = req[r].after
  PROVE  ChainInv'
<1>1. PICK rank \in [Requests -> Nat] : InLine(rank) /\ TailLast(rank)
  BY DEF ChainInv
<1>2. Live(r) /\ Live(r)'
  BY DEF Works, Inside, Live, Admitted
<1>3. \A q \in Requests : /\ (Live(q)' <=> Live(q))
                          /\ req'[q].lock = req[q].lock /\ req'[q].after = req[q].after
  BY <1>2 DEF Live, Stays
<1>4. \A q \in Requests \ {r} : Inside(q)' <=> Inside(q)
  BY DEF Inside, Stays
<1>5. ASSUME NEW q \in Requests, NEW s \in Requests, AfterInLine(rank, s, q)
      PROVE  AfterInLine(rank, s, q)'
  <2>1. PICK p : p = req[q].after
    OBVIOUS
  <2>2. /\ ~ Inside(q) /\ p \in Requests /\ Live(p) /\ req[p].lock = req[q].lock
        /\ rank[s] <= rank[p] /\ rank[p] < rank[q]
    BY <1>5, <2>1 DEF AfterInLine
  <2>3. q # r
    BY <2>1, <2>2, NoneIsNoRequest DEF Works, Admitted, Live, NoRequest
  <2>4. ~ Inside(q)' /\ Live(p)' /\ req'[p].lock = req'[q].lock /\ req'[q].after = p
    BY <1>3, <1>4, <2>1, <2>2, <2>3
  <2> QED  BY <2>2, <2>4 DEF AfterInLine
<1>6. InLine(rank)'
  BY <1>1, <1>3, <1>5 DEF InLine
<1>7. TailLast(rank)'
  <2> SUFFICES ASSUME NEW w \in Workspaces, tail'[w] # None
      PROVE  /\ tail'[w] \in Requests /\ req'[tail'[w]].at \notin {"new", "done"} /\ req'[tail'[w]].lock = w
             /\ \A q \in Requests : Live(q)' /\ req'[q].lock = w => rank[q] <= rank[tail'[w]]
    BY DEF TailLast, Live
  <2>1. /\ tail[w] \in Requests /\ Live(tail[w]) /\ req[tail[w]].lock = w
        /\ \A q \in Requests : Live(q) /\ req[q].lock = w => rank[q] <= rank[tail[w]]
    BY <1>1 DEF TailLast
  <2>2. req'[tail[w]].at \notin {"new", "done"}
    BY <1>3, <2>1 DEF Live
  <2> QED  BY <1>3, <2>1, <2>2 DEF Live
<1> QED  BY <1>6, <1>7 DEF ChainInv

\* A request that may enter and answers leaves the line; it was its first.
LEMMA ChainAnswered ==
  ASSUME ChainInv, TailTyped, NEW r \in Requests, Works(r), Stays(r), req'[r].at = "done",
         tail' = [tail EXCEPT ![req[r].lock] = IF @ = r THEN None ELSE @]
  PROVE  ChainInv'
<1>1. PICK rank \in [Requests -> Nat] : InLine(rank) /\ TailLast(rank)
  BY DEF ChainInv
<1>2. Live(r) /\ ~ Live(r)'
  BY DEF Works, Inside, Live, Admitted
<1>3. \A q \in Requests \ {r} :
        /\ (Live(q)' <=> Live(q)) /\ (Inside(q)' <=> Inside(q)) /\ req'[q] = req[q]
  BY DEF Live, Inside, Stays
<1>4. ASSUME NEW s \in Requests, AfterInLine(rank, s, r) PROVE FALSE
  BY <1>4, NoneIsNoRequest DEF AfterInLine, Works, Admitted, Live, NoRequest
<1>5. ASSUME NEW s \in Requests \ {r}, Live(s), req[s].lock = req[r].lock PROVE rank[r] < rank[s]
  BY <1>1, <1>2, <1>4, <1>5 DEF InLine
<1>6. \A w \in Workspaces : tail'[w] = IF w = req[r].lock /\ tail[w] = r THEN None ELSE tail[w]
  BY DEF TailTyped
<1>7. ASSUME NEW q \in Requests, Live(q)'
      PROVE  /\ req'[q].lock \in Workspaces /\ tail'[req'[q].lock] # None
             /\ \A s \in Requests \ {q} : Live(s)' /\ req'[s].lock = req'[q].lock =>
                  rank[s] # rank[q] /\ (rank[s] < rank[q] => AfterInLine(rank, s, q)')
  <2>1. q # r /\ Live(q) /\ req'[q] = req[q]
    BY <1>2, <1>3, <1>7
  <2>2. req[q].lock \in Workspaces /\ tail[req[q].lock] # None
    BY <1>1, <2>1 DEF InLine
  <2>3. tail'[req[q].lock] # None
    <3> SUFFICES ASSUME req[q].lock = req[r].lock, tail[req[q].lock] = r PROVE FALSE
      BY <1>6, <2>2
    <3>1. rank[q] <= rank[r]
      BY <1>1, <2>1, <2>2 DEF TailLast
    <3>2. rank[r] < rank[q]
      BY <1>5, <2>1
    <3> QED  BY <3>1, <3>2
  <2>4. ASSUME NEW s \in Requests \ {q}, Live(s)', req'[s].lock = req'[q].lock
        PROVE  rank[s] # rank[q] /\ (rank[s] < rank[q] => AfterInLine(rank, s, q)')
    <3>1. s # r /\ Live(s) /\ req[s].lock = req[q].lock
      BY <1>2, <1>3, <2>1, <2>4
    <3>2. rank[s] # rank[q] /\ (rank[s] < rank[q] => AfterInLine(rank, s, q))
      BY <1>1, <2>1, <3>1 DEF InLine
    <3>3. ASSUME AfterInLine(rank, s, q) PROVE AfterInLine(rank, s, q)'
      <4>1. PICK p : p = req[q].after
        OBVIOUS
      <4>2. /\ ~ Inside(q) /\ p \in Requests /\ Live(p) /\ req[p].lock = req[q].lock
            /\ rank[s] <= rank[p] /\ rank[p] < rank[q]
        BY <3>3, <4>1 DEF AfterInLine
      <4>3. p # r
        <5> SUFFICES ASSUME p = r PROVE FALSE
          OBVIOUS
        <5>1. rank[r] < rank[s]
          BY <1>5, <3>1, <4>2
        <5> QED  BY <4>2, <5>1
      <4>4. ~ Inside(q)' /\ Live(p)' /\ req'[p].lock = req'[q].lock /\ req'[q].after = p
        BY <1>3, <2>1, <4>1, <4>2, <4>3
      <4> QED  BY <4>2, <4>4 DEF AfterInLine
    <3> QED  BY <3>2, <3>3
  <2> QED  BY <2>1, <2>2, <2>3, <2>4
<1>8. ASSUME NEW w \in Workspaces, tail'[w] # None
      PROVE  /\ tail'[w] \in Requests /\ req'[tail'[w]].at \notin {"new", "done"} /\ req'[tail'[w]].lock = w
             /\ \A q \in Requests : Live(q)' /\ req'[q].lock = w => rank[q] <= rank[tail'[w]]
  <2>1. tail'[w] = tail[w]
    BY <1>6, <1>8
  <2>2. /\ tail[w] \in Requests /\ Live(tail[w]) /\ req[tail[w]].lock = w
        /\ \A q \in Requests : Live(q) /\ req[q].lock = w => rank[q] <= rank[tail[w]]
    BY <1>1, <1>8, <2>1 DEF TailLast
  <2>3. tail[w] # r
    BY <1>6, <1>8, <2>2
  <2>4. req'[tail[w]] = req[tail[w]] /\ req[tail[w]].at \notin {"new", "done"}
    BY <1>3, <2>2, <2>3 DEF Live
  <2>5. ASSUME NEW q \in Requests, Live(q)', req'[q].lock = w PROVE rank[q] <= rank[tail[w]]
    <3>1. q # r /\ Live(q) /\ req[q].lock = w
      BY <1>2, <1>3, <2>5
    <3> QED  BY <2>2, <3>1
  <2> QED  BY <2>1, <2>2, <2>4, <2>5 DEF Live
<1>9. InLine(rank)' /\ TailLast(rank)'
  <2>1. InLine(rank)'
    BY <1>7 DEF InLine
  <2>2. TailLast(rank)'
    BY <1>8 DEF TailLast, Live
  <2> QED  BY <2>1, <2>2
<1> QED  BY <1>9 DEF ChainInv

\* Nobody is in line.
LEMMA ChainEmpty ==
  ASSUME NoRequest, \A r \in Requests : ~ Live(r), \A w \in Workspaces : tail[w] = None
  PROVE  ChainInv
<1> DEFINE rank == [r \in Requests |-> 0]
<1>1. rank \in [Requests -> Nat]
  OBVIOUS
<1>2. InLine(rank) /\ TailLast(rank)
  BY DEF InLine, TailLast
<1> QED  BY <1>1, <1>2 DEF ChainInv

-----------------------------------------------------------------------------
(* What a step does to the requests *)

Fields == {"at", "job", "lock", "after", "dir", "changes", "n", "goal", "prev", "entry", "made",
           "from", "loaded", "pending"}

TreeOK(dirs) == dirs \subseteq Paths /\ Closed(dirs)

(***************************************************************************)
(* The locals of a mutation: what waits or works has an open workspace and *)
(* a lock, what works does so in the workspace of its lock unless it       *)
(* strayed, and only a hire past its validation has made a directory.      *)
(***************************************************************************)
RequestOK(q) ==
  /\ DOMAIN q = Fields
  /\ q.at \notin {"new", "done"} =>
       open \in Workspaces /\ q.lock \in Workspaces /\ q.job \in Jobs
  /\ q.at \notin {"new", "waiting", "done"} =>
       q.dir \in Workspaces /\ (~ strayed => q.dir = q.lock)
  /\ q.at = "validating" => q.job.kind = "hire"
  /\ q.made # None =>
       /\ q.at \notin {"new", "waiting", "validating", "placing", "done"}
       /\ q.job.kind = "hire" /\ q.made \in Paths /\ IdOf(q.made) = q.job.id

RequestsInv == DOMAIN req = Requests /\ \A q \in Requests : RequestOK(req[q])

DiskFields == {"positions", "applied", "order", "undo", "backup", "dismissed"}

(***************************************************************************)
(* Every directory of positions/ and of the restore area lies below        *)
(* positions, and a backup holds one tree.                                 *)
(***************************************************************************)
DiskOK(d) ==
  /\ DOMAIN d = DiskFields
  /\ TreeOK(d.positions) /\ DOMAIN d.applied \subseteq Ids
  /\ \A b \in d.backup : TreeOK(b.tree) /\ \A p \in b.tree : Within(p, <<b.id>>)

DisksInv == DOMAIN disk = Workspaces /\ \A w \in Workspaces : DiskOK(disk[w])

Answered(r) ==
  /\ Stays(r) /\ DOMAIN req'[r] = Fields /\ req'[r].at = "done" /\ req'[r].made = None
  /\ tail' = [tail EXCEPT ![req[r].lock] = IF @ = r THEN None ELSE @]

Advanced(r) ==
  /\ Stays(r) /\ DOMAIN req'[r] = Fields /\ tail' = tail
  /\ req'[r].at \notin {"new", "waiting", "done"}
  /\ req'[r].job = req[r].job /\ req'[r].lock = req[r].lock /\ req'[r].after = req[r].after
  /\ req[r].at = "waiting" => req'[r].dir = open /\ (~ strayed' => open = req[r].lock)
  /\ req[r].at # "waiting" => req'[r].dir = req[r].dir
  /\ req'[r].at = "validating" => req[r].job.kind = "hire"
  /\ \/ req'[r].made = req[r].made
        /\ (req'[r].made # None => req'[r].at \notin {"validating", "placing"})
     \/ /\ req[r].at = "validating" /\ req'[r].at = "applying"
        /\ req'[r].made \in Paths /\ IdOf(req'[r].made) = req[r].job.id
  /\ req'[r].at = "applying" => req'[r].made = None \/ req[r].at = "validating"

\* A request that goes on has its new locals; nobody else's and no tail changes.
LEMMA GoesOn ==
  ASSUME DOMAIN req = Requests, NEW r \in Requests, NEW q, Goes(r, q)
  PROVE  Stays(r) /\ req'[r] = q /\ tail' = tail
  BY DEF Goes, Stays

\* A request that answers is done.
LEMMA AnswersIt ==
  ASSUME DOMAIN req = Requests, NEW r \in Requests, Answer(r)
  PROVE  Answered(r)
<1>1. Stays(r) /\ req'[r] = Finished /\ tail' = [tail EXCEPT ![req[r].lock] = IF @ = r THEN None ELSE @]
  BY DEF Answer, Stays
<1>2. DOMAIN Finished = Fields /\ Finished.at = "done" /\ Finished.made = None
  BY DEF Finished, Fresh, Fields
<1> QED  BY <1>1, <1>2 DEF Answered

\* A step that only names the next place.
LEMMA GoesTo ==
  ASSUME RequestsInv, NEW r \in Requests, NEW at, To(r, at), Inside(r), req[r].at # "waiting",
         at \notin {"new", "waiting", "done", "validating", "placing", "applying"}
  PROVE  Advanced(r)
<1> DEFINE q == [req[r] EXCEPT !.at = at]
<1>1. Stays(r) /\ req'[r] = q /\ tail' = tail
  BY GoesOn DEF To, RequestsInv
<1>2. DOMAIN req[r] = Fields
  BY DEF RequestsInv, RequestOK
<1>3. /\ DOMAIN q = Fields /\ q.at = at /\ q.job = req[r].job /\ q.lock = req[r].lock
      /\ q.after = req[r].after /\ q.dir = req[r].dir /\ q.made = req[r].made
  BY <1>2 DEF Fields
<1> HIDE DEF q
<1> QED  BY <1>1, <1>3 DEF Advanced

\* Who has strayed stays astray; who has not has entered the workspace of his lock.
LEMMA StrayedStays ==
  ASSUME NEW r \in Requests, Enters(r)
  PROVE  (strayed => strayed') /\ (~ strayed' => open = req[r].lock)
  BY DEF Enters

\* The validation of an adjustment or an undo, once it may enter.
LEMMA StartsAdjust ==
  ASSUME RequestsInv, NEW r \in Requests, NEW changes, NEW entry, Enters(r),
         StartAdjust(r, changes, entry)
  PROVE  Answered(r) \/ Advanced(r)
<1>1. CASE Answer(r)
  BY <1>1, AnswersIt DEF RequestsInv
<1>2. CASE ~ Answer(r)
  <2> DEFINE at == IF Structural(changes) = << >> THEN "ordering" ELSE "placing"
             dirs == disk[open].positions
             goal == Trees(Parents(dirs), changes, Owner[open])[Len(changes)]
             prev == [roles |-> roles, order |-> layout]
             q == [req[r] EXCEPT !.at = at, !.dir = open, !.changes = changes, !.n = 1,
                                 !.entry = entry, !.goal = goal, !.prev = prev]
  <2>1. Goes(r, q)
    BY <1>2 DEF StartAdjust
  <2>2. at \in {"ordering", "placing"}
    OBVIOUS
  <2> HIDE DEF at, goal, prev
  <2>3. Stays(r) /\ req'[r] = q /\ tail' = tail
    BY <2>1, GoesOn DEF RequestsInv
  <2>4. DOMAIN req[r] = Fields /\ req[r].at = "waiting" /\ req[r].made = None
    BY DEF RequestsInv, RequestOK, Enters, Admitted
  <2>5. /\ DOMAIN q = Fields /\ q.at = at /\ q.job = req[r].job /\ q.lock = req[r].lock
        /\ q.after = req[r].after /\ q.dir = open /\ q.made = req[r].made
    BY <2>4 DEF Fields
  <2> HIDE DEF q
  <2> QED  BY <2>2, <2>3, <2>4, <2>5, StrayedStays DEF Advanced
<1> QED  BY <1>1, <1>2

\* A mutation that enters goes to at.
EntersAt(r, at) == Goes(r, [req[r] EXCEPT !.at = at, !.dir = open])

\* A mutation that enters with a new place and nothing else that matters here.
LEMMA EntersTo ==
  ASSUME RequestsInv, NEW r \in Requests, NEW at, Enters(r), EntersAt(r, at),
         at \notin {"new", "waiting", "done", "placing"},
         at = "validating" => req[r].job.kind = "hire"
  PROVE  Advanced(r)
<1> DEFINE q == [req[r] EXCEPT !.at = at, !.dir = open]
<1>1. Stays(r) /\ req'[r] = q /\ tail' = tail
  BY GoesOn DEF RequestsInv, EntersAt
<1>2. DOMAIN req[r] = Fields /\ req[r].at = "waiting" /\ req[r].made = None
  BY DEF RequestsInv, RequestOK, Enters, Admitted
<1>3. /\ DOMAIN q = Fields /\ q.at = at /\ q.job = req[r].job /\ q.lock = req[r].lock
      /\ q.after = req[r].after /\ q.dir = open /\ q.made = req[r].made
  BY <1>2 DEF Fields
<1> HIDE DEF q
<1> QED  BY <1>1, <1>2, <1>3, StrayedStays DEF Advanced

\* An undo of an adjustment that only reordered.
LEMMA EntersUndo ==
  ASSUME RequestsInv, NEW r \in Requests, NEW entry, Enters(r),
         Goes(r, [req[r] EXCEPT !.at = "undoing", !.dir = open, !.entry = entry])
  PROVE  Advanced(r)
<1> DEFINE q == [req[r] EXCEPT !.at = "undoing", !.dir = open, !.entry = entry]
<1>1. Stays(r) /\ req'[r] = q /\ tail' = tail
  BY GoesOn DEF RequestsInv
<1>2. DOMAIN req[r] = Fields /\ req[r].at = "waiting" /\ req[r].made = None
  BY DEF RequestsInv, RequestOK, Enters, Admitted
<1>3. /\ DOMAIN q = Fields /\ q.at = "undoing" /\ q.job = req[r].job /\ q.lock = req[r].lock
      /\ q.after = req[r].after /\ q.dir = open /\ q.made = req[r].made
  BY <1>2 DEF Fields
<1> HIDE DEF q
<1> QED  BY <1>1, <1>2, <1>3, StrayedStays DEF Advanced

\* A materialized change.
LEMMA PlacedOn ==
  ASSUME RequestsInv, NEW r \in Requests, NEW dirs, NEW backup, Placed(r, dirs, backup),
         req[r].at = "placing"
  PROVE  Advanced(r) /\ req'[r].made = None
<1> DEFINE at == IF req[r].n = Len(req[r].changes) THEN "applying" ELSE req[r].at
           n == req[r].n + 1
           q == [req[r] EXCEPT !.n = n, !.at = at]
<1>0. Goes(r, q)
  BY DEF Placed
<1>1. Stays(r) /\ req'[r] = q /\ tail' = tail
  BY <1>0, GoesOn DEF RequestsInv
<1>2. DOMAIN req[r] = Fields /\ req[r].made = None
  BY DEF RequestsInv, RequestOK
<1>3. at \in {"placing", "applying"}
  OBVIOUS
<1> HIDE DEF at, n
<1>4. /\ DOMAIN q = Fields /\ q.at = at /\ q.job = req[r].job /\ q.lock = req[r].lock
      /\ q.after = req[r].after /\ q.dir = req[r].dir /\ q.made = req[r].made
  BY <1>2 DEF Fields
<1> HIDE DEF q
<1> QED  BY <1>1, <1>2, <1>3, <1>4 DEF Advanced

\* The id a hire asks for is an id, the id a restore asks for too.
LEMMA JobIds ==
  ASSUME NEW job \in Jobs
  PROVE  (job.kind = "hire" => job.id \in Ids) /\ (job.kind = "restore" => job.id \in Ids)
<1>1. CASE job \in [kind : {"adjust"}, changes : Manifests] \cup [kind : {"undo"}]
  BY <1>1
<1>2. CASE job \in [kind : {"restore"}, id : Restores]
  BY <1>2, OrgAssumption
<1>3. CASE job \in {[kind |-> "hire", id |-> h.id, reportTo |-> h.reportTo] : h \in Hires}
  BY <1>3, OrgAssumption
<1> QED  BY <1>1, <1>2, <1>3 DEF Jobs

\* A hire that is staged: where its skeleton is written.
MadeFor(r) ==
  LET job == req[r].job
      target == IF job.reportTo = Root THEN Owner[req[r].dir] ELSE job.reportTo
  IN PlaceUnder(disk[req[r].dir].positions, target, job.id)

\* A hire's directory is its position's, below positions.
LEMMA MadeIsPath ==
  ASSUME RequestsInv, DisksInv, NEW r \in Requests, req[r].at = "validating"
  PROVE  /\ MadeFor(r) \in Paths /\ IdOf(MadeFor(r)) = req[r].job.id
         /\ \A n \in 1 .. Len(MadeFor(r)) :
              n < Len(MadeFor(r)) => SubSeq(MadeFor(r), 1, n) \in disk[req[r].dir].positions
<1> DEFINE dirs == disk[req[r].dir].positions
<1>1. req[r].job \in Jobs /\ req[r].job.kind = "hire" /\ req[r].dir \in Workspaces
  BY DEF RequestsInv, RequestOK
<1>2. req[r].job.id \in Ids
  BY <1>1, JobIds
<1>3. dirs \in SUBSET Paths /\ Closed(dirs)
  BY <1>1 DEF DisksInv, DiskOK, TreeOK
<1> HIDE DEF dirs
<1>4. \A parent : LET t == PlaceUnder(dirs, parent, req[r].job.id) IN
         /\ t \in Paths /\ IdOf(t) = req[r].job.id
         /\ \A n \in 1 .. Len(t) : n < Len(t) => SubSeq(t, 1, n) \in dirs
  BY <1>2, <1>3, PlaceIsPath
<1> QED  BY <1>4 DEF MadeFor, dirs

\* A hire whose skeleton is written.
LEMMA StagesOn ==
  ASSUME RequestsInv, DisksInv, NEW r \in Requests, req[r].at = "validating",
         Goes(r, [req[r] EXCEPT !.at = "applying", !.made = MadeFor(r)])
  PROVE  Advanced(r)
<1> DEFINE m == MadeFor(r)
           q == [req[r] EXCEPT !.at = "applying", !.made = m]
<1>1. Stays(r) /\ req'[r] = q /\ tail' = tail
  BY GoesOn DEF RequestsInv
<1>2. DOMAIN req[r] = Fields
  BY DEF RequestsInv, RequestOK
<1>3. m \in Paths /\ IdOf(m) = req[r].job.id
  BY MadeIsPath
<1> HIDE DEF m
<1>4. /\ DOMAIN q = Fields /\ q.at = "applying" /\ q.job = req[r].job /\ q.lock = req[r].lock
      /\ q.after = req[r].after /\ q.dir = req[r].dir /\ q.made = m
  BY <1>2 DEF Fields
<1> HIDE DEF q
<1> QED  BY <1>1, <1>3, <1>4 DEF Advanced

\* The reload of the applied organization and of the layout.
LEMMA ReloadsOn ==
  ASSUME RequestsInv, NEW r \in Requests, ReloadRead(r) \/ ReloadLayout(r) \/ ReloadStamp(r)
  PROVE  Advanced(r)
<1>0. DOMAIN req[r] = Fields
  BY DEF RequestsInv, RequestOK
<1>a. AfterReload(r) \in {"answering", "ordering", "recording"}
  BY DEF AfterReload
<1>1. CASE ReloadRead(r)
  <2> DEFINE model == disk[open].applied
             q == [req[r] EXCEPT !.at = "replacing", !.from = open, !.loaded = model]
  <2>1. Goes(r, q) /\ req[r].at = "reloading"
    BY <1>1 DEF ReloadRead
  <2> HIDE DEF model
  <2>2. Stays(r) /\ req'[r] = q /\ tail' = tail
    BY <2>1, GoesOn DEF RequestsInv
  <2>3. /\ DOMAIN q = Fields /\ q.at = "replacing" /\ q.job = req[r].job /\ q.lock = req[r].lock
        /\ q.after = req[r].after /\ q.dir = req[r].dir /\ q.made = req[r].made
    BY <1>0 DEF Fields
  <2> HIDE DEF q
  <2> QED  BY <2>1, <2>2, <2>3 DEF Advanced
<1>2. CASE ReloadLayout(r)
  <2>0. req[r].at = "layouting" /\ Inside(r)
    BY <1>2 DEF ReloadLayout, Inside
  <2>1. CASE To(r, AfterReload(r))
    BY <1>a, <2>0, <2>1, GoesTo
  <2>2. CASE ~ To(r, AfterReload(r))
    <3> DEFINE fitting == Reconcile(req[r].loaded, disk[req[r].from].order)
               q == [req[r] EXCEPT !.at = "stamping", !.pending = fitting]
    <3>1. Goes(r, q)
      BY <1>2, <2>2 DEF ReloadLayout
    <3> HIDE DEF fitting
    <3>2. Stays(r) /\ req'[r] = q /\ tail' = tail
      BY <3>1, GoesOn DEF RequestsInv
    <3>3. /\ DOMAIN q = Fields /\ q.at = "stamping" /\ q.job = req[r].job /\ q.lock = req[r].lock
          /\ q.after = req[r].after /\ q.dir = req[r].dir /\ q.made = req[r].made
      BY <1>0 DEF Fields
    <3> HIDE DEF q
    <3> QED  BY <2>0, <3>2, <3>3 DEF Advanced
  <2> QED  BY <2>1, <2>2
<1>3. CASE ReloadStamp(r)
  <2> DEFINE at == AfterReload(r)
             q == [req[r] EXCEPT !.at = at, !.pending = None]
  <2>1. Goes(r, q) /\ req[r].at = "stamping"
    BY <1>3 DEF ReloadStamp
  <2>2. at \in {"answering", "ordering", "recording"}
    BY <1>a
  <2> HIDE DEF at
  <2>3. Stays(r) /\ req'[r] = q /\ tail' = tail
    BY <2>1, GoesOn DEF RequestsInv
  <2>4. /\ DOMAIN q = Fields /\ q.at = at /\ q.job = req[r].job /\ q.lock = req[r].lock
        /\ q.after = req[r].after /\ q.dir = req[r].dir /\ q.made = req[r].made
    BY <1>0 DEF Fields
  <2> HIDE DEF q
  <2> QED  BY <2>1, <2>2, <2>3, <2>4 DEF Advanced
<1> QED  BY <1>1, <1>2, <1>3

\* A step of a mutation is made by one that may work, and it goes on or answers.
LEMMA Handled ==
  ASSUME RequestsInv, DisksInv, NEW r \in Requests, Mutate(r)
  PROVE  Works(r) /\ (Answered(r) \/ Advanced(r))
<1>0. DOMAIN req = Requests
  BY DEF RequestsInv
<1>a. ASSUME Answer(r) PROVE Answered(r)
  BY <1>0, <1>a, AnswersIt
<1>1. CASE EnterAdjust(r)
  BY <1>1, StartsAdjust DEF EnterAdjust, Enters, Works
<1>2. CASE EnterUndo(r)
  <2>1. Enters(r) /\ Works(r)
    BY <1>2 DEF EnterUndo, Enters, Works
  <2>2. \/ Answer(r)
        \/ \E entry : StartAdjust(r, entry.inverse, entry)
        \/ \E entry : Goes(r, [req[r] EXCEPT !.at = "undoing", !.dir = open, !.entry = entry])
    BY <1>2 DEF EnterUndo
  <2> QED  BY <1>a, <2>1, <2>2, StartsAdjust, EntersUndo
<1>3. CASE EnterRestore(r)
  <2>1. Enters(r) /\ Works(r)
    BY <1>3 DEF EnterRestore, Enters, Works
  <2>2. Answer(r) \/ EntersAt(r, "applying")
    BY <1>3 DEF EnterRestore, EntersAt
  <2> QED  BY <1>a, <2>1, <2>2, EntersTo
<1>4. CASE EnterHire(r)
  <2>1. Enters(r) /\ Works(r) /\ req[r].job.kind = "hire"
    BY <1>4 DEF EnterHire, Enters, Works
  <2>2. Answer(r) \/ EntersAt(r, "validating")
    BY <1>4 DEF EnterHire, EntersAt
  <2> QED  BY <1>a, <2>1, <2>2, EntersTo
<1>5. CASE Place(r)
  <2>1. req[r].at = "placing"
    BY <1>5 DEF Place
  <2>2. Answer(r) \/ \E dirs, backup : Placed(r, dirs, backup)
    BY <1>5 DEF Place
  <2> QED  BY <1>a, <2>1, <2>2, PlacedOn DEF Works, Inside
<1>6. CASE HireRefused(r)
  BY <1>a, <1>6 DEF HireRefused, Works, Inside
<1>7. CASE Stage(r)
  <2>1. req[r].at = "validating"
    BY <1>7 DEF Stage
  <2>2. Answer(r) \/ Goes(r, [req[r] EXCEPT !.at = "applying", !.made = MadeFor(r)])
    BY <1>7 DEF Stage, SkeletonWritten, MadeFor
  <2> QED  BY <1>a, <2>1, <2>2, StagesOn DEF Works, Inside
<1>8. CASE EngineApplies(r)
  BY <1>8, GoesTo DEF EngineApplies, Works, Inside
<1>9. CASE EngineRefuses(r) \/ EngineTimesOut(r)
  BY <1>a, <1>9 DEF EngineRefuses, EngineTimesOut, Works, Inside
<1>10. CASE ReloadRead(r) \/ ReloadLayout(r) \/ ReloadStamp(r)
  BY <1>10, ReloadsOn DEF ReloadRead, ReloadLayout, ReloadStamp, Works, Inside
<1>11. CASE ReloadReplace(r)
  BY <1>11, GoesTo DEF ReloadReplace, Works, Inside
<1>12. CASE Order(r) \/ OrderHired(r) \/ UndoOrder(r) \/ UndoConsume(r)
  BY <1>12, GoesTo DEF Order, OrderHired, UndoOrder, UndoConsume, Works, Inside
<1>13. CASE Record(r)
  <2> DEFINE at == IF req[r].job.kind = "undo" THEN "undoing" ELSE "answering"
  <2>1. To(r, at) /\ req[r].at = "recording"
    BY <1>13 DEF Record
  <2>2. at \in {"undoing", "answering"}
    OBVIOUS
  <2> HIDE DEF at
  <2> QED  BY <2>1, <2>2, GoesTo DEF Works, Inside
<1>14. CASE Publish(r) \/ Fails(r)
  BY <1>a, <1>14 DEF Publish, Fails, Works, Inside
<1> QED  BY <1>1, <1>2, <1>3, <1>4, <1>5, <1>6, <1>7, <1>8, <1>9, <1>10, <1>11, <1>12, <1>13, <1>14
     DEF Mutate

\* What is open stays open while a mutation works.
LEMMA MutationKeeps ==
  ASSUME NEW r \in Requests, Mutate(r)
  PROVE  /\ open' = open /\ opening' = opening /\ opens' = opens /\ (strayed => strayed')
<1>1. CASE EnterAdjust(r) \/ EnterUndo(r) \/ EnterRestore(r) \/ EnterHire(r)
  BY <1>1, StrayedStays DEF EnterAdjust, EnterUndo, EnterRestore, EnterHire, memory, Enters
<1>2. CASE \/ Place(r) \/ HireRefused(r) \/ Stage(r)
           \/ EngineApplies(r) \/ EngineRefuses(r) \/ EngineTimesOut(r)
  <2>1. opening' = opening /\ UNCHANGED memory /\ opens' = opens
    BY <1>2 DEF Place, HireRefused, Stage, EngineApplies, EngineRefuses, EngineTimesOut, observed
  <2>2. strayed' = strayed
    BY <1>2 DEF Place, HireRefused, Stage, EngineApplies, EngineRefuses, EngineTimesOut, observed
  <2> QED  BY <2>1, <2>2 DEF memory
<1>3. CASE \/ ReloadRead(r) \/ ReloadReplace(r) \/ ReloadLayout(r) \/ ReloadStamp(r)
           \/ Order(r) \/ OrderHired(r)
  BY <1>3 DEF ReloadRead, ReloadReplace, ReloadLayout, ReloadStamp, Order, OrderHired, memory, observed
<1>4. CASE Record(r) \/ UndoOrder(r) \/ UndoConsume(r) \/ Publish(r) \/ Fails(r)
  BY <1>4 DEF Record, UndoOrder, UndoConsume, Publish, Fails, memory, observed
<1> QED  BY <1>1, <1>2, <1>3, <1>4 DEF Mutate

\* A step of a mutation keeps the line in order.
LEMMA ChainMutates ==
  ASSUME RequestsInv, DisksInv, TailTyped, ChainInv, NEW r \in Requests, Mutate(r)
  PROVE  ChainInv' /\ TailTyped'
<1>1. Works(r) /\ (Answered(r) \/ Advanced(r))
  BY Handled
<1>2. CASE Answered(r)
  BY <1>1, <1>2, ChainAnswered DEF Answered, TailTyped
<1>3. CASE Advanced(r)
  BY <1>1, <1>3, ChainAdvanced DEF Advanced, Inside, TailTyped
<1> QED  BY <1>1, <1>2, <1>3

\* A step of a mutation keeps the locals of every mutation in order.
LEMMA RequestsMutate ==
  ASSUME RequestsInv, DisksInv, NEW r \in Requests, Mutate(r)
  PROVE  RequestsInv'
<1>1. Works(r) /\ (Answered(r) \/ Advanced(r))
  BY Handled
<1>2. open' = open /\ (strayed => strayed')
  BY MutationKeeps
<1>3. Stays(r)
  BY <1>1 DEF Answered, Advanced
<1>4. ASSUME NEW q \in Requests \ {r} PROVE RequestOK(req[q])'
  <2>1. RequestOK(req[q]) /\ req'[q] = req[q]
    BY <1>3 DEF RequestsInv, Stays
  <2> QED  BY <1>2, <2>1 DEF RequestOK
<1>5. RequestOK(req[r])'
  <2>1. RequestOK(req[r])
    BY DEF RequestsInv
  <2>2. CASE Answered(r)
    BY <2>2 DEF Answered, RequestOK
  <2>3. CASE Advanced(r)
    <3>1. open \in Workspaces /\ req[r].lock \in Workspaces /\ req[r].job \in Jobs
      BY <1>1, <2>1 DEF RequestOK, Works, Inside, Admitted
    <3>2. req'[r].dir \in Workspaces /\ (~ strayed' => req'[r].dir = req'[r].lock)
      BY <1>1, <1>2, <2>1, <2>3, <3>1 DEF RequestOK, Advanced, Works, Inside, Admitted
    <3>3. req'[r].made # None =>
            /\ req'[r].at \notin {"new", "waiting", "validating", "placing", "done"}
            /\ req'[r].job.kind = "hire" /\ req'[r].made \in Paths /\ IdOf(req'[r].made) = req'[r].job.id
      BY <2>1, <2>3 DEF RequestOK, Advanced
    <3> QED  BY <1>2, <2>3, <3>1, <3>2, <3>3 DEF RequestOK, Advanced
  <2> QED  BY <1>1, <2>2, <2>3
<1> QED  BY <1>3, <1>4, <1>5 DEF RequestsInv, Stays

-----------------------------------------------------------------------------
(* What a step does to the files *)

BackupOK(b) == TreeOK(b.tree) /\ \A p \in b.tree : Within(p, <<b.id>>)

DiskShaped == DOMAIN disk' = Workspaces /\ \A w \in Workspaces : DOMAIN disk'[w] = DiskFields

SamePlaces ==
  \A w \in Workspaces : disk'[w].positions = disk[w].positions /\ disk'[w].backup = disk[w].backup

SameModels == \A w \in Workspaces : disk'[w].applied = disk[w].applied

\* The directories of one workspace are rearranged: no package is lost.
Rearranged(w) ==
  /\ DiskShaped /\ SameModels
  /\ \A v \in Workspaces \ {w} :
       disk'[v].positions = disk[v].positions /\ disk'[v].backup = disk[v].backup
  /\ TreeOK(disk'[w].positions) /\ \A b \in disk'[w].backup : BackupOK(b)
  /\ Packages(disk[w]) \subseteq Packages(disk'[w])

\* What the invariant says of one workspace.
LEMMA DiskFacts ==
  ASSUME DisksInv, NEW w \in Workspaces
  PROVE  /\ DOMAIN disk = Workspaces /\ DOMAIN disk[w] = DiskFields
         /\ disk[w].positions \in SUBSET Paths /\ Closed(disk[w].positions)
         /\ DOMAIN disk[w].applied \subseteq Ids
         /\ \A b \in disk[w].backup : BackupOK(b)
  BY DEF DisksInv, DiskOK, TreeOK, BackupOK

\* A layout that is written touches nothing else.
LEMMA OrderOnly ==
  ASSUME DisksInv, NEW x, NEW v, disk' = [disk EXCEPT ![x].order = v]
  PROVE  DiskShaped /\ SamePlaces /\ SameModels
<1>1. DOMAIN disk' = Workspaces
  BY DEF DisksInv
<1>2. ASSUME NEW w \in Workspaces
      PROVE  /\ DOMAIN disk'[w] = DiskFields /\ disk'[w].positions = disk[w].positions
             /\ disk'[w].backup = disk[w].backup /\ disk'[w].applied = disk[w].applied
  <2>1. DOMAIN disk[w] = DiskFields /\ DOMAIN disk = Workspaces
    BY DiskFacts
  <2>2. disk'[w] = disk[w] \/ disk'[w] = [disk[w] EXCEPT !.order = v]
    BY <2>1
  <2> QED  BY <2>1, <2>2 DEF DiskFields
<1> QED  BY <1>1, <1>2 DEF DiskShaped, SamePlaces, SameModels

\* An undo entry that is written or cleared touches nothing else.
LEMMA UndoOnly ==
  ASSUME DisksInv, NEW x, NEW v, disk' = [disk EXCEPT ![x].undo = v]
  PROVE  DiskShaped /\ SamePlaces /\ SameModels
<1>1. DOMAIN disk' = Workspaces
  BY DEF DisksInv
<1>2. ASSUME NEW w \in Workspaces
      PROVE  /\ DOMAIN disk'[w] = DiskFields /\ disk'[w].positions = disk[w].positions
             /\ disk'[w].backup = disk[w].backup /\ disk'[w].applied = disk[w].applied
  <2>1. DOMAIN disk[w] = DiskFields /\ DOMAIN disk = Workspaces
    BY DiskFacts
  <2>2. disk'[w] = disk[w] \/ disk'[w] = [disk[w] EXCEPT !.undo = v]
    BY <2>1
  <2> QED  BY <2>1, <2>2 DEF DiskFields
<1> QED  BY <1>1, <1>2 DEF DiskShaped, SamePlaces, SameModels

\* A step that writes nothing leaves everything.
LEMMA DiskSame ==
  ASSUME DisksInv, disk' = disk
  PROVE  DiskShaped /\ SamePlaces /\ SameModels
  BY DiskFacts DEF DiskShaped, SamePlaces, SameModels, DisksInv

\* The steps of a mutation that neither touch positions/ nor the applied model.
Quiet(r) ==
  \/ EnterAdjust(r) \/ EnterUndo(r) \/ EnterHire(r) \/ HireRefused(r)
  \/ ReloadRead(r) \/ ReloadReplace(r) \/ ReloadLayout(r) \/ ReloadStamp(r)
  \/ Order(r) \/ OrderHired(r) \/ Record(r) \/ UndoOrder(r) \/ UndoConsume(r)
  \/ Publish(r) \/ Fails(r)

\* The quiet steps leave directories, backups and applied models as they are.
LEMMA QuietSteps ==
  ASSUME DisksInv, NEW r \in Requests, Quiet(r)
  PROVE  DiskShaped /\ SamePlaces /\ SameModels /\ late' = late /\ abandoned' = abandoned
<1>1. CASE \/ EnterAdjust(r) \/ EnterUndo(r) \/ EnterHire(r) \/ HireRefused(r)
           \/ ReloadRead(r) \/ ReloadReplace(r) \/ ReloadLayout(r) \/ Publish(r) \/ Fails(r)
  <2>1. disk' = disk /\ late' = late /\ abandoned' = abandoned
    BY <1>1 DEF EnterAdjust, EnterUndo, EnterHire, HireRefused, ReloadRead, ReloadReplace,
                ReloadLayout, Publish, Fails, Enters, disks, observed
  <2> QED  BY <2>1, DiskSame
<1>2. CASE ReloadStamp(r) \/ Order(r) \/ OrderHired(r) \/ UndoOrder(r)
  <2>1. late' = late /\ abandoned' = abandoned
    BY <1>2 DEF ReloadStamp, Order, OrderHired, UndoOrder, observed
  <2>2. disk' = disk \/ \E x, v : disk' = [disk EXCEPT ![x].order = v]
    BY <1>2 DEF ReloadStamp, Order, OrderHired, UndoOrder, SetLayoutOrder
  <2> QED  BY <2>1, <2>2, DiskSame, OrderOnly
<1>3. CASE Record(r) \/ UndoConsume(r)
  <2>1. late' = late /\ abandoned' = abandoned
    BY <1>3 DEF Record, UndoConsume, observed
  <2>2. \E x, v : disk' = [disk EXCEPT ![x].undo = v]
    BY <1>3 DEF Record, UndoConsume
  <2> QED  BY <2>1, <2>2, UndoOnly
<1> QED  BY <1>1, <1>2, <1>3 DEF Quiet

\* Where the positions and the restore area of one workspace are replaced.
PlacesBecome(x, dirs, backup) ==
  disk' = [disk EXCEPT ![x].positions = dirs, ![x].backup = backup]

\* Then everything else is as it was.
LEMMA PlacesOnly ==
  ASSUME DisksInv, NEW x \in Workspaces, NEW dirs, NEW backup, PlacesBecome(x, dirs, backup)
  PROVE  /\ DiskShaped /\ SameModels
         /\ disk'[x].positions = dirs /\ disk'[x].backup = backup
         /\ \A v \in Workspaces \ {x} :
              disk'[v].positions = disk[v].positions /\ disk'[v].backup = disk[v].backup
<1>1. DOMAIN disk' = Workspaces
  BY DEF DisksInv, PlacesBecome
<1>2. DOMAIN disk[x] = DiskFields /\ DOMAIN disk = Workspaces
  BY DiskFacts
<1>3. disk'[x] = [disk[x] EXCEPT !.positions = dirs, !.backup = backup]
  BY <1>2 DEF PlacesBecome
<1>4. /\ DOMAIN disk'[x] = DiskFields /\ disk'[x].positions = dirs /\ disk'[x].backup = backup
      /\ disk'[x].applied = disk[x].applied
  BY <1>2, <1>3 DEF DiskFields
<1>5. ASSUME NEW v \in Workspaces \ {x} PROVE disk'[v] = disk[v] /\ DOMAIN disk[v] = DiskFields
  BY <1>2, DiskFacts DEF PlacesBecome
<1> QED  BY <1>1, <1>4, <1>5 DEF DiskShaped, SameModels

\* Where the positions of one workspace are replaced.
LEMMA PositionsOnly ==
  ASSUME DisksInv, NEW x \in Workspaces, NEW dirs, disk' = [disk EXCEPT ![x].positions = dirs]
  PROVE  /\ DiskShaped /\ SameModels
         /\ disk'[x].positions = dirs /\ disk'[x].backup = disk[x].backup
         /\ \A v \in Workspaces \ {x} :
              disk'[v].positions = disk[v].positions /\ disk'[v].backup = disk[v].backup
<1>1. DOMAIN disk' = Workspaces
  BY DEF DisksInv
<1>2. DOMAIN disk[x] = DiskFields /\ DOMAIN disk = Workspaces
  BY DiskFacts
<1>3. disk'[x] = [disk[x] EXCEPT !.positions = dirs]
  BY <1>2
<1>4. /\ DOMAIN disk'[x] = DiskFields /\ disk'[x].positions = dirs
      /\ disk'[x].backup = disk[x].backup /\ disk'[x].applied = disk[x].applied
  BY <1>2, <1>3 DEF DiskFields
<1>5. ASSUME NEW v \in Workspaces \ {x} PROVE disk'[v] = disk[v] /\ DOMAIN disk[v] = DiskFields
  BY <1>2, DiskFacts
<1> QED  BY <1>1, <1>4, <1>5 DEF DiskShaped, SameModels

\* The directory found for an id is one of the directories, and has that id.
LEMMA FoundIs ==
  ASSUME NEW dirs \in SUBSET Paths, NEW id \in ScannedIds(dirs)
  PROVE  DirOf(dirs, id) \in dirs /\ IdOf(DirOf(dirs, id)) = id /\ id \in Ids
<1>1. \E d \in dirs : IdOf(d) = id
  BY DEF ScannedIds
<1> QED  BY <1>1, IdsAreIds DEF DirOf

\* A move within positions/.
LEMMA MoveKeeps ==
  ASSUME NEW dirs \in SUBSET Paths, Closed(dirs), NEW id \in ScannedIds(dirs), NEW parent,
         ~ Within(PlaceUnder(dirs, parent, id), DirOf(dirs, id))
  PROVE  LET moved == Renamed(dirs, DirOf(dirs, id), PlaceUnder(dirs, parent, id)) IN
         TreeOK(moved) /\ ScannedIds(moved) = ScannedIds(dirs)
<1> DEFINE s == DirOf(dirs, id)
           t == PlaceUnder(dirs, parent, id)
<1>1. s \in dirs /\ s \in Paths /\ IdOf(s) = id /\ id \in Ids
  BY FoundIs
<1>2. t \in Paths /\ IdOf(t) = id /\ \A n \in 1 .. Len(t) : n < Len(t) => SubSeq(t, 1, n) \in dirs
  BY <1>1, PlaceIsPath
<1>3. ~ Within(t, s)
  OBVIOUS
<1> HIDE DEF s, t
<1>4. ASSUME NEW n \in 1 .. Len(t), n < Len(t) PROVE SubSeq(t, 1, n) \in dirs \ Subtree(dirs, s)
  BY <1>1, <1>2, <1>3, <1>4, WithinCut DEF Subtree
<1>5. Renamed(dirs, s, t) \subseteq Paths /\ Closed(Renamed(dirs, s, t))
  BY <1>1, <1>2, <1>4, RenamedClosed
<1>6. ScannedIds(Renamed(dirs, s, t)) = ScannedIds(dirs)
  BY <1>1, <1>2, RenamedIds
<1> QED  BY <1>5, <1>6 DEF TreeOK, s, t

\* A delete: the tree is gone from positions/, and lies in the restore area with every id it had.
LEMMA DeleteKeeps ==
  ASSUME NEW dirs \in SUBSET Paths, Closed(dirs), NEW id \in ScannedIds(dirs), NEW b,
         b = [id |-> id, tree |-> Renamed(Subtree(dirs, DirOf(dirs, id)), DirOf(dirs, id), <<id>>)]
  PROVE  /\ TreeOK(dirs \ Subtree(dirs, DirOf(dirs, id))) /\ BackupOK(b)
         /\ ScannedIds(dirs) \subseteq
              ScannedIds(dirs \ Subtree(dirs, DirOf(dirs, id))) \cup ScannedIds(b.tree)
<1> DEFINE s == DirOf(dirs, id)
           tree == Renamed(Subtree(dirs, s), s, <<id>>)
<1>1. s \in dirs /\ s \in Paths /\ IdOf(s) = id /\ id \in Ids
  BY FoundIs
<1>2. b.id = id /\ b.tree = tree
  OBVIOUS
<1>3. <<id>> \in Paths /\ IdOf(<<id>>) = id
  BY <1>1 DEF Paths, IdOf
<1> HIDE DEF s
<1>4. TreeOK(dirs \ Subtree(dirs, s))
  BY <1>1, RemainsClosed DEF TreeOK
<1>5. tree \subseteq Paths /\ Closed(tree) /\ \A d \in tree : Within(d, <<id>>)
  BY <1>1, TakenAway
<1>6. Subtree(dirs, s) \in SUBSET Paths
  BY DEF Subtree
<1>7. ScannedIds(tree) = ScannedIds(Subtree(dirs, s))
  BY <1>1, <1>3, <1>6, RenamedIds
<1> HIDE DEF tree
<1>8. BackupOK(b)
  BY <1>2, <1>5 DEF BackupOK, TreeOK
<1>9. ScannedIds(dirs) \subseteq ScannedIds(dirs \ Subtree(dirs, s)) \cup ScannedIds(Subtree(dirs, s))
  BY DEF ScannedIds
<1> QED  BY <1>2, <1>4, <1>7, <1>8, <1>9 DEF s

IdsOf(backup) == UNION {ScannedIds(b.tree) : b \in backup}

\* A materialized change that keeps every package rearranges the workspace.
LEMMA PlacedKeeps ==
  ASSUME DisksInv, NEW r \in Requests, req[r].dir \in Workspaces, NEW dirs, NEW backup,
         Placed(r, dirs, backup), TreeOK(dirs), \A b \in backup : BackupOK(b),
         Packages(disk[req[r].dir]) \subseteq ScannedIds(dirs) \cup IdsOf(backup)
  PROVE  Rearranged(req[r].dir)
<1>1. PICK w \in Workspaces : w = req[r].dir
  OBVIOUS
<1>2. PlacesBecome(w, dirs, backup)
  BY <1>1 DEF Placed, PlacesBecome
<1>3. /\ DiskShaped /\ SameModels
      /\ disk'[w].positions = dirs /\ disk'[w].backup = backup
      /\ \A v \in Workspaces \ {w} :
           disk'[v].positions = disk[v].positions /\ disk'[v].backup = disk[v].backup
  BY <1>2, PlacesOnly
<1>4. Packages(disk'[w]) = ScannedIds(dirs) \cup IdsOf(backup)
  BY <1>3 DEF Packages, IdsOf
<1>5. TreeOK(disk'[w].positions) /\ \A b \in disk'[w].backup : BackupOK(b)
  BY <1>3
<1>6. Packages(disk[w]) \subseteq Packages(disk'[w])
  BY <1>1, <1>4
<1>7. Rearranged(w)
  BY <1>3, <1>5, <1>6 DEF Rearranged
<1> QED  BY <1>1, <1>7

\* Every change of a manifest rearranges the directories without losing a package.
LEMMA PlaceKeeps ==
  ASSUME RequestsInv, DisksInv, NEW r \in Requests, Place(r)
  PROVE  /\ disk' = disk \/ Rearranged(req[r].dir)
         /\ late' = late /\ abandoned' = abandoned
<1>0. late' = late /\ abandoned' = abandoned
  BY DEF Place, observed
<1> DEFINE c == req[r].changes[req[r].n]
           w == req[r].dir
           dirs == disk[w].positions
           backup == disk[w].backup
           source == DirOf(dirs, c.id)
           destination == PlaceUnder(dirs, c.reportTo, c.id)
           b == [id |-> c.id, tree |-> Renamed(Subtree(dirs, source), source, <<c.id>>)]
<1>1. w \in Workspaces
  BY DEF Place, RequestsInv, RequestOK
<1>2. dirs \in SUBSET Paths /\ Closed(dirs) /\ \A x \in backup : BackupOK(x)
  BY <1>1, DiskFacts
<1>3. Packages(disk[w]) = ScannedIds(dirs) \cup IdsOf(backup)
  BY DEF Packages, IdsOf
<1>4. \/ disk' = disk
      \/ Placed(r, dirs, backup)
      \/ /\ c.id \in ScannedIds(dirs) /\ ~ Within(destination, source)
         /\ Placed(r, Renamed(dirs, source, destination), backup)
      \/ c.id \in ScannedIds(dirs) /\ Placed(r, dirs \ Subtree(dirs, source), backup \cup {b})
  BY DEF Place
<1> HIDE DEF c, dirs, backup
<1>5. CASE Placed(r, dirs, backup)
  BY <1>0, <1>1, <1>2, <1>3, <1>5, PlacedKeeps DEF TreeOK
<1>6. CASE /\ c.id \in ScannedIds(dirs) /\ ~ Within(destination, source)
           /\ Placed(r, Renamed(dirs, source, destination), backup)
  <2> DEFINE moved == Renamed(dirs, source, destination)
  <2>1. TreeOK(moved) /\ ScannedIds(moved) = ScannedIds(dirs)
    BY <1>2, <1>6, MoveKeeps
  <2> HIDE DEF moved, source, destination
  <2> QED  BY <1>0, <1>1, <1>2, <1>3, <1>6, <2>1, PlacedKeeps DEF moved
<1>7. CASE c.id \in ScannedIds(dirs) /\ Placed(r, dirs \ Subtree(dirs, source), backup \cup {b})
  <2> DEFINE rest == dirs \ Subtree(dirs, source)
  <2>1. /\ TreeOK(rest) /\ BackupOK(b)
        /\ ScannedIds(dirs) \subseteq ScannedIds(rest) \cup ScannedIds(b.tree)
    BY <1>2, <1>7, DeleteKeeps
  <2>2. Placed(r, rest, backup \cup {b})
    BY <1>7
  <2> HIDE DEF rest, b, source, destination
  <2>3. IdsOf(backup \cup {b}) = IdsOf(backup) \cup ScannedIds(b.tree)
    BY DEF IdsOf
  <2>4. \A x \in backup \cup {b} : BackupOK(x)
    BY <1>2, <2>1
  <2>5. Packages(disk[w]) \subseteq ScannedIds(rest) \cup IdsOf(backup \cup {b})
    BY <1>3, <2>1, <2>3
  <2> QED  BY <1>0, <1>1, <2>1, <2>2, <2>4, <2>5, PlacedKeeps
<1> QED  BY <1>0, <1>4, <1>5, <1>6, <1>7

\* A restore brings a backup back whole.
LEMMA RestoreKeeps ==
  ASSUME RequestsInv, DisksInv, NEW r \in Requests, EnterRestore(r)
  PROVE  /\ disk' = disk \/ (Rearranged(open) /\ Advanced(r) /\ req'[r].made = None)
         /\ late' = late /\ abandoned' = abandoned
<1>0. late' = late /\ abandoned' = abandoned
  BY DEF EnterRestore, Enters
<1>a. RequestOK(req[r]) /\ req[r].at = "waiting" /\ Enters(r) /\ req[r].job.kind = "restore"
  BY DEF RequestsInv, EnterRestore, Enters, Admitted
<1>b. open \in Workspaces /\ req[r].job \in Jobs /\ req[r].made = None
  BY <1>a DEF RequestOK
<1> DEFINE id == req[r].job.id
           dirs == disk[open].positions
           backup == disk[open].backup
           t == PlaceUnder(dirs, disk[open].dismissed[id], id)
<1>1. id \in Ids
  BY <1>a, <1>b, JobIds
<1>2. dirs \in SUBSET Paths /\ Closed(dirs) /\ \A x \in backup : BackupOK(x)
  BY <1>b, DiskFacts
<1>3. t \in Paths /\ IdOf(t) = id /\ \A n \in 1 .. Len(t) : n < Len(t) => SubSeq(t, 1, n) \in dirs
  BY <1>1, <1>2, PlaceIsPath
<1>4. \/ disk' = disk
      \/ \E b \in backup :
           /\ b.id = id
           /\ disk' = [disk EXCEPT ![open].positions = @ \cup Renamed(b.tree, <<id>>, t),
                                   ![open].backup = @ \ {b}]
           /\ EntersAt(r, "applying")
  BY DEF EnterRestore, EntersAt
<1> SUFFICES ASSUME NEW b \in backup, b.id = id, EntersAt(r, "applying"),
                    disk' = [disk EXCEPT ![open].positions = @ \cup Renamed(b.tree, <<id>>, t),
                                         ![open].backup = @ \ {b}]
             PROVE  Rearranged(open) /\ Advanced(r) /\ req'[r].made = None
  BY <1>0, <1>4
<1>5. Advanced(r)
  <2>1. PICK at : at = "applying"
    OBVIOUS
  <2>2. EntersAt(r, at)
    BY <2>1
  <2> QED  BY <1>a, <2>1, <2>2, EntersTo
<1>6. req'[r].made = None
  BY <1>5, <1>a, <1>b DEF Advanced
<1>7. PICK w \in Workspaces : w = open
  BY <1>b
<1> DEFINE brought == Renamed(b.tree, <<id>>, t)
<1>8. PlacesBecome(w, dirs \cup brought, backup \ {b})
  BY <1>7 DEF PlacesBecome
<1> HIDE DEF t
<1>9. /\ b.tree \in SUBSET Paths /\ Closed(b.tree) /\ \A p \in b.tree : Within(p, <<id>>)
  BY <1>2 DEF BackupOK, TreeOK
<1>10. <<id>> \in Paths /\ IdOf(<<id>>) = id
  BY <1>1 DEF Paths, IdOf
<1> HIDE DEF id, dirs, backup
<1>11. dirs \cup brought \subseteq Paths /\ Closed(dirs \cup brought)
  BY <1>2, <1>3, <1>9, <1>10, BroughtBack
<1>12. ScannedIds(brought) = ScannedIds(b.tree)
  BY <1>3, <1>9, <1>10, RenamedIds
<1> HIDE DEF brought
<1>13. /\ DiskShaped /\ SameModels
       /\ disk'[w].positions = dirs \cup brought /\ disk'[w].backup = backup \ {b}
       /\ \A v \in Workspaces \ {w} :
            disk'[v].positions = disk[v].positions /\ disk'[v].backup = disk[v].backup
  BY <1>8, PlacesOnly
<1>14. Packages(disk[w]) = ScannedIds(dirs) \cup IdsOf(backup)
  BY <1>7 DEF Packages, IdsOf, dirs, backup
<1>15. Packages(disk'[w]) = ScannedIds(dirs \cup brought) \cup IdsOf(backup \ {b})
  BY <1>13 DEF Packages, IdsOf
<1>16. ScannedIds(dirs \cup brought) = ScannedIds(dirs) \cup ScannedIds(b.tree)
  <2>1. ScannedIds(dirs \cup brought) = ScannedIds(dirs) \cup ScannedIds(brought)
    BY DEF ScannedIds
  <2> QED  BY <1>12, <2>1
<1>17. IdsOf(backup) \subseteq IdsOf(backup \ {b}) \cup ScannedIds(b.tree)
  BY DEF IdsOf
<1>18. Rearranged(w)
  BY <1>2, <1>11, <1>13, <1>14, <1>15, <1>16, <1>17 DEF Rearranged, TreeOK
<1> QED  BY <1>5, <1>6, <1>7, <1>18

\* A hire adds a directory where none was.
LEMMA StageKeeps ==
  ASSUME RequestsInv, DisksInv, NEW r \in Requests, Stage(r)
  PROVE  /\ \/ disk' = disk /\ Answered(r)
            \/ /\ Rearranged(req[r].dir) /\ MadeFor(r) \notin disk[req[r].dir].positions
               /\ disk'[req[r].dir].positions = disk[req[r].dir].positions \cup {MadeFor(r)}
               /\ disk'[req[r].dir].backup = disk[req[r].dir].backup
               /\ Answered(r) \/ (Advanced(r) /\ req'[r].made = MadeFor(r))
         /\ late' = late /\ abandoned' = abandoned
<1>0. late' = late /\ abandoned' = abandoned /\ req[r].at = "validating"
  BY DEF Stage, observed
<1>1. PICK w \in Workspaces : w = req[r].dir
  BY <1>0 DEF RequestsInv, RequestOK
<1> DEFINE dirs == disk[w].positions
<1>2. PICK m : m = MadeFor(r)
  OBVIOUS
<1>3. /\ m \in Paths
      /\ \A n \in 1 .. Len(m) : n < Len(m) => SubSeq(m, 1, n) \in dirs
  BY <1>0, <1>1, <1>2, MadeIsPath
<1>4. dirs \in SUBSET Paths /\ Closed(dirs) /\ \A x \in disk[w].backup : BackupOK(x)
  BY <1>1, DiskFacts
<1>5. \/ disk' = disk /\ Answer(r)
      \/ /\ m \notin dirs /\ disk' = [disk EXCEPT ![w].positions = dirs \cup {m}]
         /\ Answer(r) \/ Goes(r, [req[r] EXCEPT !.at = "applying", !.made = MadeFor(r)])
  BY <1>1, <1>2 DEF Stage, SkeletonWritten, MadeFor
<1>6. CASE disk' = disk /\ Answer(r)
  BY <1>0, <1>6, AnswersIt DEF RequestsInv
<1>7. CASE /\ m \notin dirs /\ disk' = [disk EXCEPT ![w].positions = dirs \cup {m}]
           /\ Answer(r) \/ Goes(r, [req[r] EXCEPT !.at = "applying", !.made = MadeFor(r)])
  <2>1. Answered(r) \/ (Advanced(r) /\ req'[r].made = MadeFor(r))
    <3>1. CASE Answer(r)
      BY <3>1, AnswersIt DEF RequestsInv
    <3>2. CASE Goes(r, [req[r] EXCEPT !.at = "applying", !.made = MadeFor(r)])
      <4>1. Advanced(r)
        BY <1>0, <3>2, StagesOn
      <4>2. req'[r].made = MadeFor(r)
        <5>1. DOMAIN req[r] = Fields
          BY DEF RequestsInv, RequestOK
        <5>2. req'[r] = [req[r] EXCEPT !.at = "applying", !.made = m]
          BY <1>2, <3>2, GoesOn DEF RequestsInv
        <5> QED  BY <1>2, <5>1, <5>2 DEF Fields
      <4> QED  BY <4>1, <4>2
    <3> QED  BY <1>7, <3>1, <3>2
  <2>2. /\ DiskShaped /\ SameModels
        /\ disk'[w].positions = dirs \cup {m} /\ disk'[w].backup = disk[w].backup
        /\ \A v \in Workspaces \ {w} :
             disk'[v].positions = disk[v].positions /\ disk'[v].backup = disk[v].backup
    BY <1>7, PositionsOnly
  <2> HIDE DEF dirs
  <2>3. SubSeq(m, 1, Len(m)) = m
    BY <1>3 DEF Paths
  <2>4. ASSUME NEW n \in 1 .. Len(m) PROVE SubSeq(m, 1, n) \in dirs \cup {m}
    <3>1. CASE n = Len(m)
      BY <2>3, <3>1
    <3>2. CASE n # Len(m)
      <4>1. n < Len(m)
        BY <1>3, <3>2 DEF Paths
      <4> QED  BY <1>3, <4>1
    <3> QED  BY <3>1, <3>2
  <2>5. TreeOK(dirs \cup {m})
    BY <1>3, <1>4, <2>4 DEF TreeOK, Closed
  <2>6. Packages(disk[w]) \subseteq Packages(disk'[w])
    BY <2>2 DEF Packages, ScannedIds, dirs
  <2>7. Rearranged(w)
    BY <1>4, <2>2, <2>5, <2>6 DEF Rearranged
  <2> QED  BY <1>0, <1>1, <1>2, <1>7, <2>1, <2>2, <2>7 DEF dirs
<1> QED  BY <1>5, <1>6, <1>7

\* A hire that is taken back takes its directory with all that lies below it.
LEMMA RollbackIs ==
  ASSUME RequestsInv, DisksInv, NEW r \in Requests, req[r].at = "applying", RolledBack(r)
  PROVE  /\ DiskShaped /\ SameModels
         /\ \A v \in Workspaces : disk'[v].backup = disk[v].backup
         /\ \A v \in Workspaces \ {req[r].dir} : disk'[v].positions = disk[v].positions
         /\ TreeOK(disk'[req[r].dir].positions)
         /\ req[r].made = None => disk'[req[r].dir].positions = disk[req[r].dir].positions
         /\ req[r].made # None => disk'[req[r].dir].positions =
              disk[req[r].dir].positions \ Subtree(disk[req[r].dir].positions, req[r].made)
<1>1. PICK w \in Workspaces : w = req[r].dir
  BY DEF RequestsInv, RequestOK
<1>2. PICK m : m = req[r].made
  OBVIOUS
<1>m. m # None => m \in Paths
  BY <1>2 DEF RequestsInv, RequestOK
<1> DEFINE dirs == disk[w].positions
           rest == IF m = None THEN dirs ELSE dirs \ Subtree(dirs, m)
<1>3. dirs \in SUBSET Paths /\ Closed(dirs)
  BY DiskFacts
<1>4. disk' = [disk EXCEPT ![w].positions = rest]
  BY <1>1, <1>2 DEF RolledBack
<1>5. TreeOK(rest)
  <2> HIDE DEF dirs
  <2>1. CASE m = None
    BY <1>3, <2>1 DEF TreeOK
  <2>2. CASE m # None
    BY <1>3, <1>m, <2>2, RemainsClosed DEF TreeOK
  <2> QED  BY <2>1, <2>2
<1> HIDE DEF rest
<1>6. /\ DiskShaped /\ SameModels
      /\ disk'[w].positions = rest /\ disk'[w].backup = disk[w].backup
      /\ \A v \in Workspaces \ {w} :
           disk'[v].positions = disk[v].positions /\ disk'[v].backup = disk[v].backup
  BY <1>4, PositionsOnly
<1>7. /\ m = None => rest = disk[w].positions
      /\ m # None => rest = disk[w].positions \ Subtree(disk[w].positions, m)
  BY DEF rest
<1>8. \A v \in Workspaces : disk'[v].backup = disk[v].backup
  BY <1>6
<1> QED  BY <1>1, <1>2, <1>5, <1>6, <1>7, <1>8

\* An engine that applies replaces the applied model and nothing of the directories.
LEMMA AppliesIs ==
  ASSUME DisksInv, NEW w \in Workspaces, NEW dirs,
         \/ disk' = [disk EXCEPT ![w] = AppliedFrom(@, dirs)]
         \/ disk' = [disk EXCEPT ![w].applied = Parents(dirs)]
  PROVE  /\ DiskShaped /\ SamePlaces
         /\ DOMAIN disk'[w].applied = ScannedIds(dirs)
         /\ \A v \in Workspaces \ {w} : disk'[v].applied = disk[v].applied
<1>1. DOMAIN disk' = Workspaces
  BY DEF DisksInv
<1>2. DOMAIN disk[w] = DiskFields /\ DOMAIN disk = Workspaces
  BY DiskFacts
<1>3. disk'[w] = AppliedFrom(disk[w], dirs) \/ disk'[w] = [disk[w] EXCEPT !.applied = Parents(dirs)]
  BY <1>2
<1>4. /\ DOMAIN disk'[w] = DiskFields /\ disk'[w].positions = disk[w].positions
      /\ disk'[w].backup = disk[w].backup /\ disk'[w].applied = Parents(dirs)
  <2>1. CASE disk'[w] = AppliedFrom(disk[w], dirs)
    <3> DEFINE gone == DOMAIN disk[w].applied \ DOMAIN Parents(dirs)
               dismissed == [id \in DOMAIN disk[w].dismissed \cup gone |->
                               IF id \in gone THEN disk[w].applied[id] ELSE disk[w].dismissed[id]]
    <3>1. disk'[w] = [disk[w] EXCEPT !.applied = Parents(dirs), !.dismissed = dismissed]
      BY <2>1 DEF AppliedFrom
    <3> HIDE DEF dismissed
    <3> QED  BY <1>2, <3>1 DEF DiskFields
  <2>2. CASE disk'[w] = [disk[w] EXCEPT !.applied = Parents(dirs)]
    BY <1>2, <2>2 DEF DiskFields
  <2> QED  BY <1>3, <2>1, <2>2
<1>5. ASSUME NEW v \in Workspaces \ {w} PROVE disk'[v] = disk[v] /\ DOMAIN disk[v] = DiskFields
  BY <1>2, DiskFacts
<1>6. DOMAIN Parents(dirs) = ScannedIds(dirs)
  BY DEF Parents
<1> QED  BY <1>1, <1>4, <1>5, <1>6 DEF DiskShaped, SamePlaces

\* Directories stay in order where only the applied model changes.
LEMMA DisksSamePlaces ==
  ASSUME DisksInv, DiskShaped, SamePlaces,
         \A w \in Workspaces : DOMAIN disk'[w].applied \subseteq Ids
  PROVE  DisksInv'
<1> SUFFICES ASSUME NEW w \in Workspaces PROVE DiskOK(disk'[w])
  BY DEF DisksInv, DiskShaped
<1>1. DiskOK(disk[w])
  BY DEF DisksInv
<1> QED  BY <1>1 DEF DiskOK, DiskShaped, SamePlaces

\* Directories stay in order where they are rearranged.
LEMMA DisksRearranged ==
  ASSUME DisksInv, NEW w \in Workspaces, Rearranged(w)
  PROVE  DisksInv'
<1> SUFFICES ASSUME NEW v \in Workspaces PROVE DiskOK(disk'[v])
  BY DEF DisksInv, DiskShaped, Rearranged
<1>1. DiskOK(disk[v])
  BY DEF DisksInv
<1>2. DOMAIN disk'[v] = DiskFields /\ disk'[v].applied = disk[v].applied
  BY DEF Rearranged, DiskShaped, SameModels
<1>3. CASE v = w
  BY <1>1, <1>2, <1>3 DEF DiskOK, Rearranged, BackupOK
<1>4. CASE v # w
  BY <1>1, <1>2, <1>4 DEF DiskOK, Rearranged
<1> QED  BY <1>3, <1>4

\* The engines nobody waits for have read position directories of a workspace.
LateInv == \A e \in late : e.dir \in Workspaces /\ e.dirs \subseteq Paths

\* An engine that is given up has read the directories of a workspace.
LEMMA LateEngineOK ==
  ASSUME RequestsInv, DisksInv, NEW r \in Requests, req[r].at = "applying"
  PROVE  LateEngine(r).dir \in Workspaces /\ LateEngine(r).dirs \subseteq Paths
<1>1. req[r].dir \in Workspaces
  BY DEF RequestsInv, RequestOK
<1> QED  BY <1>1, DiskFacts DEF LateEngine

\* A step of a mutation keeps the files in order.
LEMMA FilesMutate ==
  ASSUME RequestsInv, DisksInv, LateInv, NEW r \in Requests, Mutate(r)
  PROVE  DisksInv' /\ LateInv'
<1>m. ASSUME SameModels PROVE \A w \in Workspaces : DOMAIN disk'[w].applied \subseteq Ids
  BY <1>m, DiskFacts DEF SameModels
<1>1. CASE Quiet(r)
  BY <1>1, <1>m, QuietSteps, DisksSamePlaces DEF LateInv
<1>2. CASE disk' = disk /\ late' = late
  BY <1>2, <1>m, DiskSame, DisksSamePlaces DEF LateInv
<1>3. CASE EnterRestore(r)
  <2>1. open \in Workspaces
    BY <1>3 DEF RequestsInv, RequestOK, EnterRestore, Enters, Admitted
  <2> QED  BY <1>2, <1>3, <2>1, RestoreKeeps, DisksRearranged DEF LateInv
<1>4. CASE Place(r)
  <2>1. req[r].dir \in Workspaces
    BY <1>4 DEF RequestsInv, RequestOK, Place
  <2> QED  BY <1>2, <1>4, <2>1, PlaceKeeps, DisksRearranged DEF LateInv
<1>5. CASE Stage(r)
  <2>1. req[r].dir \in Workspaces
    BY <1>5 DEF RequestsInv, RequestOK, Stage
  <2> QED  BY <1>2, <1>5, <2>1, StageKeeps, DisksRearranged DEF LateInv
<1>6. CASE EngineApplies(r)
  <2>1. req[r].dir \in Workspaces
    BY <1>6 DEF RequestsInv, RequestOK, EngineApplies
  <2>2. PICK w \in Workspaces : w = req[r].dir
    BY <2>1
  <2>3. PICK dirs : dirs = disk[w].positions
    OBVIOUS
  <2>4. disk' = [disk EXCEPT ![w] = AppliedFrom(@, dirs)] /\ late' = late
    BY <1>6, <2>2, <2>3 DEF EngineApplies
  <2>5. ScannedIds(dirs) \subseteq Ids
    BY <2>3, DiskFacts, IdsAreIds
  <2>6. /\ DiskShaped /\ SamePlaces
        /\ DOMAIN disk'[w].applied = ScannedIds(dirs)
        /\ \A v \in Workspaces \ {w} : disk'[v].applied = disk[v].applied
    BY <2>4, AppliesIs
  <2>7. \A v \in Workspaces : DOMAIN disk'[v].applied \subseteq Ids
    BY <2>5, <2>6, DiskFacts
  <2> QED  BY <2>4, <2>6, <2>7, DisksSamePlaces DEF LateInv
<1>7. CASE EngineRefuses(r) \/ EngineTimesOut(r)
  <2>1. req[r].at = "applying" /\ RolledBack(r)
    BY <1>7 DEF EngineRefuses, EngineTimesOut
  <2>2. late' \subseteq late \cup {LateEngine(r)}
    BY <1>7 DEF EngineRefuses, EngineTimesOut
  <2>3. LateInv'
    BY <2>1, <2>2, LateEngineOK DEF LateInv
  <2>4. PICK w \in Workspaces : w = req[r].dir
    BY <2>1 DEF RequestsInv, RequestOK
  <2>5. /\ DiskShaped /\ SameModels
        /\ \A v \in Workspaces : disk'[v].backup = disk[v].backup
        /\ \A v \in Workspaces \ {w} : disk'[v].positions = disk[v].positions
        /\ TreeOK(disk'[w].positions)
    BY <2>1, <2>4, RollbackIs
  <2>6. ASSUME NEW v \in Workspaces PROVE DiskOK(disk'[v])
    <3>1. DiskOK(disk[v])
      BY DEF DisksInv
    <3>2. DOMAIN disk'[v] = DiskFields /\ disk'[v].applied = disk[v].applied
          /\ disk'[v].backup = disk[v].backup
      BY <2>5 DEF DiskShaped, SameModels
    <3>3. TreeOK(disk'[v].positions)
      BY <2>5, <3>1 DEF DiskOK
    <3> QED  BY <3>1, <3>2, <3>3 DEF DiskOK
  <2> QED  BY <2>3, <2>5, <2>6 DEF DisksInv, DiskShaped
<1> QED  BY <1>1, <1>3, <1>4, <1>5, <1>6, <1>7 DEF Mutate, Quiet

-----------------------------------------------------------------------------
(***************************************************************************)
(* What is safe.  A hire writes its directory before the engine has seen   *)
(* it and takes it back when the engine refuses; until then no position of *)
(* an applied model, and none an unattended engine has read, may depend on *)
(* that directory, and nothing else may lie below it.                      *)
(***************************************************************************)
Staging(r) == req[r].at = "applying" /\ req[r].made # None

Staged(w) == {req[r].made : r \in {q \in Requests : Staging(q) /\ req[q].dir = w}}

Abandoned(w) == {id \in Ids : [dir |-> w, id |-> id] \in abandoned}

Safe(w) == ScannedIds(disk[w].positions \ Staged(w)) \cup IdsOf(disk[w].backup) \cup Abandoned(w)

StagedInv ==
  ~ strayed => \A r \in Requests : Staging(r) =>
    Subtree(disk[req[r].dir].positions, req[r].made) \subseteq {req[r].made}

SafeInv ==
  ~ strayed => /\ \A w \in Workspaces : DOMAIN disk[w].applied \subseteq Safe(w)
               /\ \A e \in late : ScannedIds(e.dirs) \subseteq Safe(e.dir)

\* What was safe stays safe when nothing becomes less safe and what is new is safe.
LEMMA SafeGrows ==
  ASSUME SafeInv, LateInv, strayed => strayed',
         ~ strayed' =>
           /\ \A w \in Workspaces :
                /\ Safe(w) \subseteq Safe(w)'
                /\ DOMAIN disk'[w].applied \subseteq DOMAIN disk[w].applied \cup Safe(w)'
           /\ \A e \in late' : e \in late \/ ScannedIds(e.dirs) \subseteq Safe(e.dir)'
  PROVE  SafeInv'
<1> SUFFICES ASSUME ~ strayed'
             PROVE  /\ \A w \in Workspaces : DOMAIN disk'[w].applied \subseteq Safe(w)'
                    /\ \A e \in late' : ScannedIds(e.dirs) \subseteq Safe(e.dir)'
  BY DEF SafeInv
<1>1. ~ strayed
  OBVIOUS
<1>2. ASSUME NEW w \in Workspaces PROVE DOMAIN disk'[w].applied \subseteq Safe(w)'
  BY <1>1 DEF SafeInv
<1>3. ASSUME NEW e \in late' PROVE ScannedIds(e.dirs) \subseteq Safe(e.dir)'
  BY <1>1 DEF SafeInv, LateInv
<1> QED  BY <1>2, <1>3

\* Where a mutation works it is alone, unless somebody strayed.
WorksIn(r, w) ==
  \/ Inside(r) /\ w = req[r].dir
  \/ Advanced(r) /\ req[r].at = "waiting" /\ w = open

\* Where a mutation works, nobody else is inside.
LEMMA NobodyElse ==
  ASSUME RequestsInv, DisksInv, ChainInv, NEW r \in Requests, Mutate(r), ~ strayed',
         NEW w, WorksIn(r, w), NEW q \in Requests, Inside(q), req[q].dir = w
  PROVE  q = r
<1>1. ~ strayed
  BY MutationKeeps
<1>2. req[q].lock = w
  BY <1>1 DEF RequestsInv, RequestOK, Inside
<1>3. req[r].lock = w
  BY <1>1 DEF RequestsInv, RequestOK, Inside, Advanced, WorksIn
<1>4. Works(r)
  BY Handled
<1> QED  BY <1>2, <1>3, <1>4, Alone

\* A step other than a staging leaves at most what was staged.
LEMMA StagedShrinks ==
  ASSUME RequestsInv, DisksInv, NEW r \in Requests, Mutate(r),
         Answered(r) \/ req[r].at # "validating", NEW q \in Requests, Staging(q)'
  PROVE  q # r /\ Staging(q) /\ req'[q] = req[q]
<1>1. Answered(r) \/ Advanced(r)
  BY Handled
<1>2. ~ Staging(r)'
  BY <1>1 DEF Staging, Answered, Advanced
<1>3. q # r
  BY <1>2
<1>4. req'[q] = req[q]
  BY <1>1, <1>3 DEF Answered, Advanced, Stays
<1> QED  BY <1>3, <1>4 DEF Staging

\* A step other than a staging stages nothing.
LEMMA StagedSubset ==
  ASSUME RequestsInv, DisksInv, NEW r \in Requests, Mutate(r),
         Answered(r) \/ req[r].at # "validating", NEW w
  PROVE  Staged(w)' \subseteq Staged(w)
<1> SUFFICES ASSUME NEW q \in Requests, Staging(q)', req'[q].dir = w
             PROVE  req'[q].made \in Staged(w)
  BY DEF Staged
<1>1. Staging(q) /\ req'[q] = req[q]
  BY StagedShrinks
<1> QED  BY <1>1 DEF Staged

\* Where a mutation works, nothing is staged but by itself.
LEMMA NothingStaged ==
  ASSUME RequestsInv, DisksInv, ChainInv, NEW r \in Requests, Mutate(r), ~ strayed',
         NEW w, WorksIn(r, w)
  PROVE  /\ ~ Staging(r) => Staged(w) = {}
         /\ Staging(r) => Staged(w) \subseteq {req[r].made}
         /\ Answered(r) \/ req[r].at # "validating" => Staged(w)' = {}
<1>1. ASSUME NEW q \in Requests, Staging(q), req[q].dir = w PROVE q = r
  BY <1>1, NobodyElse DEF Staging, Inside
<1>2. ASSUME Answered(r) \/ req[r].at # "validating", NEW q \in Requests, Staging(q)', req'[q].dir = w
      PROVE  FALSE
  <2>1. q # r /\ Staging(q) /\ req'[q] = req[q]
    BY <1>2, StagedShrinks
  <2> QED  BY <1>1, <1>2, <2>1
<1> QED  BY <1>1, <1>2 DEF Staged

\* Nobody changes the positions another one works on.
LEMMA PositionsOfOthers ==
  ASSUME RequestsInv, DisksInv, ChainInv, NEW r \in Requests, Mutate(r), ~ strayed',
         NEW q \in Requests, q # r, Inside(q), NEW w \in Workspaces, w = req[q].dir
  PROVE  disk'[w].positions = disk[w].positions
<1>0. ASSUME NEW x, WorksIn(r, x) PROVE x # w
  BY <1>0, NobodyElse
<1>1. ASSUME NEW x, WorksIn(r, x), Rearranged(x) PROVE disk'[w].positions = disk[w].positions
  BY <1>0, <1>1 DEF Rearranged
<1>2. CASE Quiet(r)
  BY <1>2, QuietSteps DEF SamePlaces
<1>3. CASE EnterRestore(r)
  <2>1. CASE disk' = disk
    BY <2>1
  <2>2. CASE disk' # disk
    <3>1. Rearranged(open) /\ Advanced(r) /\ req[r].at = "waiting"
      BY <1>3, <2>2, RestoreKeeps DEF EnterRestore, Enters, Admitted
    <3> QED  BY <1>1, <3>1 DEF WorksIn
  <2> QED  BY <2>1, <2>2
<1>4. CASE Place(r)
  BY <1>1, <1>4, PlaceKeeps DEF WorksIn, Place, Inside
<1>5. CASE Stage(r)
  BY <1>1, <1>5, StageKeeps DEF WorksIn, Stage, Inside
<1>6. CASE EngineApplies(r)
  <2>1. disk' = [disk EXCEPT ![req[r].dir] = AppliedFrom(@, @.positions)]
    BY <1>6 DEF EngineApplies
  <2>2. req[r].dir \in Workspaces
    BY <1>6 DEF RequestsInv, RequestOK, EngineApplies
  <2>3. SamePlaces
    <3>1. PICK x \in Workspaces : x = req[r].dir
      BY <2>2
    <3>2. PICK dirs : dirs = disk[x].positions
      OBVIOUS
    <3>3. disk' = [disk EXCEPT ![x] = AppliedFrom(@, dirs)]
      BY <2>1, <3>1, <3>2
    <3> QED  BY <3>3, AppliesIs
  <2> QED  BY <2>3 DEF SamePlaces
<1>7. CASE EngineRefuses(r) \/ EngineTimesOut(r)
  <2>1. req[r].at = "applying" /\ RolledBack(r)
    BY <1>7 DEF EngineRefuses, EngineTimesOut
  <2>2. w # req[r].dir
    BY <1>0, <2>1 DEF WorksIn, Inside
  <2> QED  BY <2>1, <2>2, RollbackIs
<1> QED  BY <1>2, <1>3, <1>4, <1>5, <1>6, <1>7 DEF Mutate, Quiet

\* A step of a mutation leaves nothing below a staged directory.
LEMMA StagedMutates ==
  ASSUME RequestsInv, DisksInv, ChainInv, StagedInv, NEW r \in Requests, Mutate(r)
  PROVE  StagedInv'
<1> SUFFICES ASSUME ~ strayed', NEW q \in Requests, Staging(q)'
             PROVE  Subtree(disk'[req'[q].dir].positions, req'[q].made) \subseteq {req'[q].made}
  BY DEF StagedInv
<1>1. ~ strayed
  BY MutationKeeps
<1>2. Answered(r) \/ Advanced(r)
  BY Handled
<1>3. CASE q # r
  <2>1. req'[q] = req[q] /\ Staging(q)
    BY <1>2, <1>3 DEF Answered, Advanced, Stays, Staging
  <2>2. PICK w \in Workspaces : w = req[q].dir
    BY <2>1 DEF Staging, RequestsInv, RequestOK
  <2>3. disk'[w].positions = disk[w].positions
    BY <1>3, <2>1, <2>2, PositionsOfOthers DEF Staging, Inside
  <2>4. Subtree(disk[w].positions, req[q].made) \subseteq {req[q].made}
    BY <1>1, <2>1, <2>2 DEF StagedInv
  <2> QED  BY <2>1, <2>2, <2>3, <2>4 DEF Subtree
<1>4. CASE q = r
  <2>1. ~ Answered(r) /\ req[r].at = "validating" /\ Advanced(r)
    BY <1>2, <1>4, StagedShrinks
  <2>2. Stage(r)
    <3>1. ~ HireRefused(r)
      BY <2>1, AnswersIt DEF HireRefused, RequestsInv
    <3> QED  BY <2>1, <3>1 DEF Mutate, EnterAdjust, EnterUndo, EnterRestore, EnterHire, Enters,
                Admitted, Place, EngineApplies, EngineRefuses, EngineTimesOut, ReloadRead,
                ReloadReplace, ReloadLayout, ReloadStamp, Order, OrderHired, Record, UndoOrder,
                UndoConsume, Publish, Fails
  <2>3. PICK w \in Workspaces : w = req[r].dir
    BY <2>1 DEF RequestsInv, RequestOK
  <2>4. PICK m : m = MadeFor(r)
    OBVIOUS
  <2>5. /\ m \notin disk[w].positions /\ disk'[w].positions = disk[w].positions \cup {m}
        /\ req'[r].made = m /\ req'[r].dir = w
    BY <2>1, <2>2, <2>3, <2>4, StageKeeps DEF Advanced, Staging, Answered
  <2>6. m \in Paths
    BY <2>1, <2>4, MadeIsPath
  <2>7. ASSUME NEW d \in disk[w].positions, Within(d, m) PROVE FALSE
    <3>1. d \in Paths /\ Closed(disk[w].positions)
      BY DiskFacts
    <3>2. Len(m) \in 1 .. Len(d) /\ SubSeq(d, 1, Len(m)) = m
      BY <2>6, <2>7, <3>1 DEF Within, Paths
    <3> QED  BY <2>5, <3>1, <3>2 DEF Closed
  <2> QED  BY <1>4, <2>5, <2>7 DEF Subtree
<1> QED  BY <1>3, <1>4

\* Nothing becomes less safe where no directory goes and nothing new is staged.
LEMMA SafeSame ==
  ASSUME NEW w \in Workspaces, Staged(w)' \subseteq Staged(w), abandoned \subseteq abandoned',
         disk[w].positions \subseteq disk'[w].positions, disk'[w].backup = disk[w].backup
  PROVE  Safe(w) \subseteq Safe(w)'
<1>1. disk[w].positions \ Staged(w) \subseteq disk'[w].positions \ Staged(w)'
  OBVIOUS
<1>2. ScannedIds(disk[w].positions \ Staged(w)) \subseteq ScannedIds(disk'[w].positions \ Staged(w)')
  BY <1>1 DEF ScannedIds
<1>3. Abandoned(w) \subseteq Abandoned(w)'
  BY DEF Abandoned
<1> QED  BY <1>2, <1>3 DEF Safe

\* Nothing becomes less safe where the directories are rearranged.
LEMMA SafeRearranged ==
  ASSUME RequestsInv, DisksInv, ChainInv, NEW r \in Requests, Mutate(r), ~ strayed',
         NEW x \in Workspaces, WorksIn(r, x), Rearranged(x), abandoned' = abandoned,
         req[r].at # "validating", NEW w \in Workspaces
  PROVE  Safe(w) \subseteq Safe(w)'
<1>1. CASE w = x
  <2>1. Staged(w)' = {}
    BY <1>1, NothingStaged
  <2>2. Safe(w) \subseteq Packages(disk[w]) \cup Abandoned(w)
    BY DEF Safe, Packages, IdsOf, ScannedIds
  <2>3. Packages(disk[w]) \subseteq Packages(disk'[w])
    BY <1>1 DEF Rearranged
  <2>4. Safe(w)' = Packages(disk'[w]) \cup Abandoned(w)'
    <3>1. disk'[w].positions \ Staged(w)' = disk'[w].positions
      BY <2>1
    <3> QED  BY <3>1 DEF Safe, Packages, IdsOf
  <2>5. Abandoned(w)' = Abandoned(w)
    BY DEF Abandoned
  <2> QED  BY <2>2, <2>3, <2>4, <2>5
<1>2. CASE w # x
  <2>1. Staged(w)' \subseteq Staged(w)
    BY StagedSubset
  <2> QED  BY <1>2, <2>1, SafeSame DEF Rearranged
<1> QED  BY <1>1, <1>2

\* A staged directory hides none that was there before.
LEMMA SafeStaged ==
  ASSUME RequestsInv, DisksInv, NEW r \in Requests, Stage(r), Mutate(r), NEW w \in Workspaces
  PROVE  Safe(w) \subseteq Safe(w)'
<1>0. abandoned' = abandoned
  BY StageKeeps
<1>1. CASE disk' = disk /\ Answered(r)
  <2>1. Staged(w)' \subseteq Staged(w)
    BY <1>1, StagedSubset
  <2> QED  BY <1>0, <1>1, <2>1, SafeSame
<1>2. CASE ~ (disk' = disk /\ Answered(r))
  <2>1. PICK x \in Workspaces : x = req[r].dir
    BY DEF Stage, RequestsInv, RequestOK
  <2>2. PICK m : m = MadeFor(r)
    OBVIOUS
  <2>3. /\ Rearranged(x) /\ m \notin disk[x].positions
        /\ disk'[x].positions = disk[x].positions \cup {m} /\ disk'[x].backup = disk[x].backup
        /\ Answered(r) \/ (Advanced(r) /\ req'[r].made = m)
    BY <1>2, <2>1, <2>2, StageKeeps
  <2>4. ASSUME NEW q \in Requests, Staging(q)'
        PROVE  (Staging(q) /\ req'[q] = req[q]) \/ (q = r /\ req'[r].made = m /\ req'[r].dir = x)
    <3>1. CASE q # r
      BY <2>3, <2>4, <3>1 DEF Answered, Advanced, Stays, Staging
    <3>2. CASE q = r
      <4>1. Advanced(r) /\ req'[r].made = m
        BY <2>3, <2>4, <3>2 DEF Answered, Staging
      <4>2. req[r].at = "validating"
        BY DEF Stage
      <4> QED  BY <2>1, <3>2, <4>1, <4>2 DEF Advanced
    <3> QED  BY <3>1, <3>2
  <2>5. CASE w = x
    <3>1. Staged(w)' \subseteq Staged(w) \cup {m}
      BY <2>4 DEF Staged
    <3>2. disk[w].positions \ Staged(w) \subseteq disk'[w].positions \ Staged(w)'
      BY <2>3, <2>5, <3>1
    <3>3. ScannedIds(disk[w].positions \ Staged(w)) \subseteq ScannedIds(disk'[w].positions \ Staged(w)')
      BY <3>2 DEF ScannedIds
    <3>4. Abandoned(w)' = Abandoned(w)
      BY <1>0 DEF Abandoned
    <3> QED  BY <2>3, <2>5, <3>3, <3>4 DEF Safe
  <2>6. CASE w # x
    <3>1. Staged(w)' \subseteq Staged(w)
      BY <2>4, <2>6 DEF Staged
    <3> QED  BY <1>0, <2>3, <2>6, <3>1, SafeSame DEF Rearranged
  <2> QED  BY <2>5, <2>6
<1> QED  BY <1>1, <1>2

\* A hire that is taken back takes no position along that an applied model may have.
LEMMA SafeRolledBack ==
  ASSUME RequestsInv, DisksInv, ChainInv, StagedInv, NEW r \in Requests, Mutate(r), ~ strayed',
         Answered(r), req[r].at = "applying", RolledBack(r), abandoned \subseteq abandoned',
         NEW w \in Workspaces
  PROVE  Safe(w) \subseteq Safe(w)'
<1>1. Staged(w)' \subseteq Staged(w)
  BY StagedSubset
<1>2. disk'[w].backup = disk[w].backup
  BY RollbackIs
<1>3. CASE w # req[r].dir \/ req[r].made = None
  <2>1. disk'[w].positions = disk[w].positions
    BY <1>3, RollbackIs
  <2> QED  BY <1>1, <1>2, <2>1, SafeSame
<1>4. CASE w = req[r].dir /\ req[r].made # None
  <2>1. PICK m : m = req[r].made
    OBVIOUS
  <2>2. disk'[w].positions = disk[w].positions \ Subtree(disk[w].positions, m)
    BY <1>4, <2>1, RollbackIs
  <2>3. ~ strayed
    BY MutationKeeps
  <2>4. Subtree(disk[w].positions, m) \subseteq {m}
    BY <1>4, <2>1, <2>3 DEF StagedInv, Staging
  <2>5. m \in Staged(w)
    BY <1>4, <2>1 DEF Staged, Staging
  <2>6. disk[w].positions \ Staged(w) \subseteq disk'[w].positions \ Staged(w)'
    BY <1>1, <2>2, <2>4, <2>5
  <2>7. ScannedIds(disk[w].positions \ Staged(w)) \subseteq ScannedIds(disk'[w].positions \ Staged(w)')
    BY <2>6 DEF ScannedIds
  <2>8. Abandoned(w) \subseteq Abandoned(w)'
    BY DEF Abandoned
  <2> QED  BY <1>2, <2>7, <2>8 DEF Safe
<1> QED  BY <1>3, <1>4

\* What an engine that is given up has read is safe.
LEMMA SafeLate ==
  ASSUME RequestsInv, DisksInv, ChainInv, NEW r \in Requests, Mutate(r), ~ strayed',
         EngineTimesOut(r), NEW e, e = LateEngine(r),
         \A w \in Workspaces : Safe(w) \subseteq Safe(w)'
  PROVE  ScannedIds(e.dirs) \subseteq Safe(e.dir)'
<1>0. req[r].at = "applying"
  BY DEF EngineTimesOut
<1>1. PICK w \in Workspaces : w = req[r].dir
  BY <1>0 DEF RequestsInv, RequestOK
<1>2. PICK dirs : dirs = disk[w].positions
  OBVIOUS
<1>4. e.dir = w /\ e.dirs = dirs
  BY <1>1, <1>2 DEF LateEngine
<1>5. WorksIn(r, w)
  BY <1>0, <1>1 DEF WorksIn, Inside
<1>6. ASSUME NEW d \in dirs PROVE IdOf(d) \in Safe(w)'
  <2>1. CASE d \notin Staged(w)
    <3>1. IdOf(d) \in Safe(w)
      BY <1>2, <2>1 DEF Safe, ScannedIds
    <3> QED  BY <3>1
  <2>2. CASE d \in Staged(w)
    <3>1. Staging(r) /\ d = req[r].made
      BY <1>5, <2>2, NothingStaged
    <3>2. req[r].made # None /\ IdOf(d) = req[r].job.id /\ req[r].job.id \in Ids
      BY <1>0, <3>1, JobIds DEF Staging, RequestsInv, RequestOK
    <3>3. [dir |-> w, id |-> req[r].job.id] \in abandoned'
      BY <1>1, <3>2 DEF EngineTimesOut
    <3> QED  BY <3>2, <3>3 DEF Safe, Abandoned
  <2> QED  BY <2>1, <2>2
<1>7. ScannedIds(dirs) \subseteq Safe(w)'
  BY <1>6 DEF ScannedIds
<1> QED  BY <1>4, <1>7

\* A step of a mutation leaves every applied model on what is safe.
LEMMA SafeMutates ==
  ASSUME RequestsInv, DisksInv, ChainInv, StagedInv, SafeInv, LateInv,
         NEW r \in Requests, Mutate(r)
  PROVE  SafeInv'
<1>s. strayed => strayed'
  BY MutationKeeps
<1> SUFFICES ASSUME ~ strayed'
             PROVE  /\ \A w \in Workspaces :
                         /\ Safe(w) \subseteq Safe(w)'
                         /\ DOMAIN disk'[w].applied \subseteq DOMAIN disk[w].applied \cup Safe(w)'
                    /\ \A e \in late' : e \in late \/ ScannedIds(e.dirs) \subseteq Safe(e.dir)'
  BY <1>s, SafeGrows
<1>1. CASE Quiet(r)
  <2>1. DiskShaped /\ SamePlaces /\ SameModels /\ late' = late /\ abandoned' = abandoned
    BY <1>1, QuietSteps
  <2>2. Answered(r) \/ req[r].at # "validating"
    <3>1. CASE HireRefused(r)
      BY <3>1, AnswersIt DEF HireRefused, RequestsInv
    <3>2. CASE ~ HireRefused(r)
      BY <1>1, <3>2 DEF Quiet, EnterAdjust, EnterUndo, EnterHire, Enters, Admitted, ReloadRead,
                ReloadReplace, ReloadLayout, ReloadStamp, Order, OrderHired, Record, UndoOrder,
                UndoConsume, Publish, Fails
    <3> QED  BY <3>1, <3>2
  <2>3. ASSUME NEW w \in Workspaces PROVE Safe(w) \subseteq Safe(w)'
    <3>1. Staged(w)' \subseteq Staged(w)
      BY <2>2, StagedSubset
    <3> QED  BY <2>1, <3>1, SafeSame DEF SamePlaces
  <2> QED  BY <2>1, <2>3 DEF SameModels
<1>2. ASSUME disk' = disk, late' = late, abandoned' = abandoned,
             Answered(r) \/ req[r].at # "validating"
      PROVE  /\ \A w \in Workspaces :
                  /\ Safe(w) \subseteq Safe(w)'
                  /\ DOMAIN disk'[w].applied \subseteq DOMAIN disk[w].applied \cup Safe(w)'
             /\ \A e \in late' : e \in late \/ ScannedIds(e.dirs) \subseteq Safe(e.dir)'
  <2>1. ASSUME NEW w \in Workspaces PROVE Safe(w) \subseteq Safe(w)'
    <3>1. Staged(w)' \subseteq Staged(w)
      BY <1>2, StagedSubset
    <3> QED  BY <1>2, <3>1, SafeSame
  <2> QED  BY <1>2, <2>1
<1>3. ASSUME NEW x \in Workspaces, WorksIn(r, x), Rearranged(x), late' = late,
             abandoned' = abandoned, req[r].at # "validating"
      PROVE  /\ \A w \in Workspaces :
                  /\ Safe(w) \subseteq Safe(w)'
                  /\ DOMAIN disk'[w].applied \subseteq DOMAIN disk[w].applied \cup Safe(w)'
             /\ \A e \in late' : e \in late \/ ScannedIds(e.dirs) \subseteq Safe(e.dir)'
  <2>1. \A w \in Workspaces : Safe(w) \subseteq Safe(w)'
    BY <1>3, SafeRearranged
  <2> QED  BY <1>3, <2>1 DEF Rearranged, SameModels
<1>4. CASE EnterRestore(r)
  <2>1. req[r].at = "waiting" /\ open \in Workspaces
    BY <1>4 DEF EnterRestore, Enters, Admitted, RequestsInv, RequestOK
  <2>2. CASE disk' = disk
    BY <1>2, <1>4, <2>1, <2>2, RestoreKeeps
  <2>3. CASE disk' # disk
    <3>1. Rearranged(open) /\ WorksIn(r, open) /\ late' = late /\ abandoned' = abandoned
      BY <1>4, <2>1, <2>3, RestoreKeeps DEF WorksIn
    <3> QED  BY <1>3, <2>1, <3>1
  <2> QED  BY <2>2, <2>3
<1>5. CASE Place(r)
  <2>1. req[r].at = "placing" /\ req[r].dir \in Workspaces /\ WorksIn(r, req[r].dir)
    BY <1>5 DEF Place, RequestsInv, RequestOK, WorksIn, Inside
  <2> QED  BY <1>2, <1>3, <1>5, <2>1, PlaceKeeps
<1>6. CASE Stage(r)
  <2>1. late' = late /\ SameModels
    BY <1>6, StageKeeps, DiskSame DEF Rearranged
  <2> QED  BY <1>6, <2>1, SafeStaged DEF SameModels
<1>7. CASE EngineApplies(r)
  <2>1. req[r].at = "applying" /\ late' = late /\ abandoned' = abandoned
    BY <1>7 DEF EngineApplies, observed
  <2>2. PICK x \in Workspaces : x = req[r].dir
    BY <2>1 DEF RequestsInv, RequestOK
  <2>3. PICK dirs : dirs = disk[x].positions
    OBVIOUS
  <2>4. disk' = [disk EXCEPT ![x] = AppliedFrom(@, dirs)]
    BY <1>7, <2>2, <2>3 DEF EngineApplies
  <2>5. /\ DiskShaped /\ SamePlaces
        /\ DOMAIN disk'[x].applied = ScannedIds(dirs)
        /\ \A v \in Workspaces \ {x} : disk'[v].applied = disk[v].applied
    BY <2>4, AppliesIs
  <2>6. \A w \in Workspaces : Safe(w) \subseteq Safe(w)'
    <3> SUFFICES ASSUME NEW w \in Workspaces PROVE Safe(w) \subseteq Safe(w)'
      OBVIOUS
    <3>1. Staged(w)' \subseteq Staged(w)
      BY <2>1, StagedSubset
    <3> QED  BY <2>1, <2>5, <3>1, SafeSame DEF SamePlaces
  <2>7. Staged(x)' = {}
    BY <2>1, <2>2, NothingStaged DEF WorksIn, Inside
  <2>8. ScannedIds(dirs) \subseteq Safe(x)'
    <3>1. disk'[x].positions \ Staged(x)' = dirs
      BY <2>3, <2>5, <2>7 DEF SamePlaces
    <3> QED  BY <3>1 DEF Safe
  <2>9. ASSUME NEW w \in Workspaces
        PROVE  DOMAIN disk'[w].applied \subseteq DOMAIN disk[w].applied \cup Safe(w)'
    BY <2>5, <2>8
  <2> QED  BY <2>1, <2>6, <2>9
<1>8. CASE EngineRefuses(r) \/ EngineTimesOut(r)
  <2>1. /\ req[r].at = "applying" /\ RolledBack(r) /\ Answered(r)
        /\ abandoned \subseteq abandoned' /\ SameModels
    <3>1. req[r].at = "applying" /\ RolledBack(r) /\ Answered(r)
      BY <1>8, AnswersIt DEF EngineRefuses, EngineTimesOut, RequestsInv
    <3>2. abandoned \subseteq abandoned'
      BY <1>8 DEF EngineRefuses, EngineTimesOut, observed
    <3> QED  BY <3>1, <3>2, RollbackIs
  <2>2. \A w \in Workspaces : Safe(w) \subseteq Safe(w)'
    BY <2>1, SafeRolledBack
  <2>3. ASSUME NEW e \in late' PROVE e \in late \/ ScannedIds(e.dirs) \subseteq Safe(e.dir)'
    <3>1. CASE EngineRefuses(r)
      BY <3>1 DEF EngineRefuses
    <3>2. CASE EngineTimesOut(r)
      <4>1. e \in late \/ e = LateEngine(r)
        BY <3>2 DEF EngineTimesOut
      <4> QED  BY <2>2, <3>2, <4>1, SafeLate
    <3> QED  BY <1>8, <3>1, <3>2
  <2> QED  BY <2>1, <2>2, <2>3 DEF SameModels
<1> QED  BY <1>1, <1>4, <1>5, <1>6, <1>7, <1>8 DEF Mutate, Quiet

-----------------------------------------------------------------------------
(* The invariant *)

OpeningInv ==
  /\ DOMAIN opening = {"at", "dir", "loaded", "pending"}
  /\ opening.at # "idle" => opening.dir \in Workspaces
  /\ open \in Workspaces \cup {None} /\ opens \in 0 .. MaxOpens

OrgInv ==
  /\ TailTyped /\ ChainInv
  /\ RequestsInv /\ OpeningInv
  /\ DisksInv /\ LateInv
  /\ StagedInv /\ SafeInv

\* The invariant holds at first.
LEMMA OrgInit == Init => OrgInv
<1> SUFFICES ASSUME Init PROVE OrgInv
  OBVIOUS
<1>0. None \notin Requests /\ None \notin Workspaces
  BY OrgAssumption
<1>1. \A r \in Requests : req[r] = Fresh
  BY DEF Init
<1>2. TailTyped /\ \A w \in Workspaces : tail[w] = None
  BY DEF Init, TailTyped
<1>3. ChainInv
  BY <1>1, <1>2, NoneIsNoRequest, ChainEmpty DEF Live, Fresh
<1>4. RequestsInv
  <2>1. DOMAIN Fresh = Fields /\ Fresh.at = "new" /\ Fresh.made = None
    BY DEF Fresh, Fields
  <2>2. RequestOK(Fresh)
    BY <2>1 DEF RequestOK
  <2>3. DOMAIN req = Requests
    BY DEF Init
  <2> QED  BY <1>1, <2>2, <2>3 DEF RequestsInv
<1>5. OpeningInv
  BY OrgAssumption DEF Init, OpeningInv, NotOpening
<1>6. ASSUME NEW w \in Workspaces
      PROVE  /\ DOMAIN disk[w] = DiskFields /\ disk[w].positions = FirstDirs[w]
             /\ disk[w].applied = Parents(FirstDirs[w]) /\ disk[w].backup = {}
  BY DEF Init, DiskFields
<1>7. DisksInv
  <2>1. DOMAIN disk = Workspaces
    BY DEF Init
  <2>2. ASSUME NEW w \in Workspaces PROVE DiskOK(disk[w])
    <3>1. FirstDirs[w] \subseteq Paths /\ Closed(FirstDirs[w])
      BY OrgAssumption
    <3>2. DOMAIN Parents(FirstDirs[w]) \subseteq Ids
      BY <3>1, IdsAreIds DEF Parents
    <3> QED  BY <1>6, <3>1, <3>2 DEF DiskOK, TreeOK
  <2> QED  BY <2>1, <2>2 DEF DisksInv
<1>8. late = {}
  BY DEF Init
<1>9. \A r \in Requests : ~ Staging(r)
  BY <1>1 DEF Staging, Fresh
<1>10. LateInv /\ StagedInv
  BY <1>8, <1>9 DEF LateInv, StagedInv
<1>11. SafeInv
  <2>1. ASSUME NEW w \in Workspaces PROVE DOMAIN disk[w].applied \subseteq Safe(w)
    <3>1. Staged(w) = {}
      BY <1>9 DEF Staged
    <3>2. disk[w].positions \ Staged(w) = FirstDirs[w]
      BY <1>6, <3>1
    <3>3. DOMAIN disk[w].applied = ScannedIds(FirstDirs[w])
      BY <1>6 DEF Parents
    <3> QED  BY <3>2, <3>3 DEF Safe
  <2> QED  BY <1>8, <2>1 DEF SafeInv
<1> QED  BY <1>2, <1>3, <1>4, <1>5, <1>7, <1>10, <1>11 DEF OrgInv

\* The steps that are no mutation's: what they leave to the requests and the files.
LEMMA OthersKeepFiles ==
  ASSUME OrgInv, DiskShaped, SamePlaces, late' = late, strayed' = strayed, abandoned' = abandoned,
         \A q \in Requests : Staging(q)' => Staging(q) /\ req'[q] = req[q],
         \A w \in Workspaces : \/ disk'[w].applied = disk[w].applied
                               \/ \E e \in late : e.dir = w /\ DOMAIN disk'[w].applied = ScannedIds(e.dirs)
  PROVE  DisksInv' /\ LateInv' /\ StagedInv' /\ SafeInv'
<1>0. RequestsInv /\ DisksInv /\ LateInv /\ StagedInv /\ SafeInv
  BY DEF OrgInv
<1>s. strayed => strayed'
  OBVIOUS
<1>1. ASSUME NEW w \in Workspaces PROVE DOMAIN disk'[w].applied \subseteq Ids
  <2>1. CASE disk'[w].applied = disk[w].applied
    BY <1>0, <2>1, DiskFacts
  <2>2. ASSUME NEW e \in late, DOMAIN disk'[w].applied = ScannedIds(e.dirs)
        PROVE  DOMAIN disk'[w].applied \subseteq Ids
    BY <1>0, <2>2, IdsAreIds DEF LateInv
  <2> QED  BY <2>1, <2>2
<1>2. DisksInv'
  BY <1>0, <1>1, DisksSamePlaces
<1>3. LateInv'
  BY <1>0 DEF LateInv
<1>4. StagedInv'
  <2> SUFFICES ASSUME ~ strayed', NEW q \in Requests, Staging(q)'
               PROVE  Subtree(disk'[req'[q].dir].positions, req'[q].made) \subseteq {req'[q].made}
    BY DEF StagedInv
  <2>1. Staging(q) /\ req'[q] = req[q] /\ ~ strayed
    BY <1>s
  <2>2. PICK w \in Workspaces : w = req[q].dir
    BY <1>0, <2>1 DEF Staging, RequestsInv, RequestOK
  <2> QED  BY <1>0, <2>1, <2>2 DEF StagedInv, SamePlaces
<1>5. ASSUME NEW w \in Workspaces PROVE Safe(w) \subseteq Safe(w)'
  <2>1. Staged(w)' \subseteq Staged(w)
    BY DEF Staged
  <2> QED  BY <2>1, SafeSame DEF SamePlaces
<1>6. ASSUME ~ strayed', NEW w \in Workspaces
      PROVE  DOMAIN disk'[w].applied \subseteq DOMAIN disk[w].applied \cup Safe(w)'
  <2>1. ASSUME NEW e \in late, e.dir = w, DOMAIN disk'[w].applied = ScannedIds(e.dirs)
        PROVE  DOMAIN disk'[w].applied \subseteq Safe(w)
    BY <1>0, <1>6, <1>s, <2>1 DEF SafeInv
  <2> QED  BY <1>5, <2>1
<1>7. SafeInv'
  BY <1>0, <1>5, <1>6, <1>s, SafeGrows
<1> QED  BY <1>2, <1>3, <1>4, <1>7

\* Where no request and no tail changes, the line stays as it is.
LEMMA ChainSame ==
  ASSUME ChainInv, TailTyped, req' = req, tail' = tail
  PROVE  ChainInv' /\ TailTyped'
<1>1. PICK rank \in [Requests -> Nat] : InLine(rank) /\ TailLast(rank)
  BY DEF ChainInv
<1>2. InLine(rank)' /\ TailLast(rank)'
  BY <1>1 DEF InLine, TailLast, AfterInLine, Live, Inside
<1> QED  BY <1>2 DEF ChainInv, TailTyped

\* The invariant survives a request that queues.
LEMMA OrgEnqueues ==
  ASSUME OrgInv, NEW r \in Requests, NEW job \in Jobs, Enqueue(r, job)
  PROVE  OrgInv'
<1>0. /\ RequestsInv /\ DisksInv /\ LateInv /\ OpeningInv /\ ChainInv /\ TailTyped
      /\ open \in Workspaces /\ ~ Live(r) /\ RequestOK(req[r]) /\ DOMAIN req = Requests
  BY DEF OrgInv, OpeningInv, Enqueue, Live, RequestsInv
<1> DEFINE after == tail[open]
           q0 == [Fresh EXCEPT !.at = "waiting", !.job = job, !.lock = open, !.after = after]
<1>1. req' = [req EXCEPT ![r] = q0] /\ tail' = [tail EXCEPT ![open] = r]
  BY DEF Enqueue
<1> HIDE DEF after
<1>2. /\ DOMAIN q0 = Fields /\ q0.at = "waiting" /\ q0.lock = open /\ q0.after = after
      /\ q0.job = job /\ q0.made = None
  BY DEF Fresh, Fields
<1> HIDE DEF q0
<1>3. Stays(r) /\ req'[r] = q0
  BY <1>0, <1>1 DEF Stays
<1>4. /\ disk' = disk /\ late' = late /\ strayed' = strayed /\ abandoned' = abandoned
      /\ open' = open /\ opening' = opening /\ opens' = opens
  <2>1. disk' = disk /\ late' = late /\ open' = open /\ opening' = opening
    BY DEF Enqueue, disks, memory
  <2>2. strayed' = strayed
    BY DEF Enqueue, observed
  <2>3. abandoned' = abandoned /\ opens' = opens
    BY DEF Enqueue, observed
  <2> QED  BY <2>1, <2>2, <2>3
<1>5. ChainInv'
  BY <1>0, <1>1, <1>2, <1>3, ChainEnqueued DEF after
<1>6. TailTyped'
  BY <1>0, <1>1 DEF TailTyped
<1>7. RequestsInv'
  <2>1. RequestOK(req[r])'
    BY <1>0, <1>2, <1>3, <1>4 DEF RequestOK
  <2>2. ASSUME NEW q \in Requests \ {r} PROVE RequestOK(req[q])'
    <3>1. RequestOK(req[q]) /\ req'[q] = req[q]
      BY <1>0, <1>3 DEF RequestsInv, Stays
    <3>2. strayed' => strayed
      BY <1>4
    <3>3. strayed => strayed'
      BY <1>4
    <3> QED  BY <1>4, <3>1, <3>2, <3>3 DEF RequestOK
  <2> QED  BY <1>3, <2>1, <2>2 DEF RequestsInv, Stays
<1>8. DiskShaped /\ SamePlaces /\ SameModels
  BY <1>0, <1>4, DiskSame
<1>9. \A q \in Requests : Staging(q)' => Staging(q) /\ req'[q] = req[q]
  BY <1>2, <1>3 DEF Staging, Stays
<1>10. DisksInv' /\ LateInv' /\ StagedInv' /\ SafeInv'
  BY <1>4, <1>8, <1>9, OthersKeepFiles DEF SameModels
<1>11. OpeningInv'
  BY <1>0, <1>4 DEF OpeningInv
<1> QED  BY <1>5, <1>6, <1>7, <1>10, <1>11 DEF OrgInv

\* The steps of an opening and of an engine nobody waits for leave the requests alone.
LEMMA OrgOutside ==
  ASSUME OrgInv, req' = req, tail' = tail, strayed' = strayed, abandoned' = abandoned,
         late' = late, OpeningInv', open \in Workspaces => open' \in Workspaces,
         DiskShaped, SamePlaces, SameModels
  PROVE  OrgInv'
<1>0. RequestsInv /\ ChainInv /\ TailTyped
  BY DEF OrgInv
<1>1. strayed => strayed'
  OBVIOUS
<1>2. ASSUME NEW q \in Requests PROVE RequestOK(req[q])'
  <2>1. RequestOK(req[q])
    BY <1>0 DEF RequestsInv
  <2> QED  BY <1>1, <2>1 DEF RequestOK
<1>3. RequestsInv'
  BY <1>0, <1>2 DEF RequestsInv
<1>4. ChainInv' /\ TailTyped'
  BY <1>0, ChainSame
<1>5. \A q \in Requests : Staging(q)' => Staging(q) /\ req'[q] = req[q]
  BY DEF Staging
<1>6. DisksInv' /\ LateInv' /\ StagedInv' /\ SafeInv'
  BY <1>5, OthersKeepFiles DEF SameModels
<1> QED  BY <1>3, <1>4, <1>6 DEF OrgInv

\* The invariant survives every step of an opening.
LEMMA OrgOpens ==
  ASSUME OrgInv, (\E w \in Workspaces : OpenRead(w)) \/ OpenLayout \/ OpenStamp \/ OpenFails
  PROVE  OrgInv'
<1>0. DisksInv /\ OpeningInv /\ MaxOpens \in Nat
  BY OrgAssumption DEF OrgInv
<1>1. req' = req /\ tail' = tail /\ late' = late
  BY DEF OpenRead, OpenLayout, OpenStamp, OpenFails, disks
<1>2. strayed' = strayed
  BY DEF OpenRead, OpenLayout, OpenStamp, OpenFails, observed
<1>3. abandoned' = abandoned
  BY DEF OpenRead, OpenLayout, OpenStamp, OpenFails, observed
<1>4. DiskShaped /\ SamePlaces /\ SameModels
  <2>1. disk' = disk \/ \E x, v : disk' = [disk EXCEPT ![x].order = v]
    BY DEF OpenRead, OpenLayout, OpenStamp, OpenFails, disks
  <2> QED  BY <1>0, <2>1, DiskSame, OrderOnly
<1>5. OpeningInv' /\ (open \in Workspaces => open' \in Workspaces)
  <2>1. CASE \E w \in Workspaces : OpenRead(w)
    BY <1>0, <2>1 DEF OpenRead, OpeningInv, memory
  <2>2. CASE OpenLayout
    <3>1. CASE \E order : Opens(order)
      BY <1>0, <2>2, <3>1 DEF OpenLayout, Opens, OpeningInv, NotOpening, observed
    <3>2. CASE ~ \E order : Opens(order)
      <4> DEFINE fitting == Reconcile(opening.loaded, disk[opening.dir].order)
      <4>1. /\ opening' = [opening EXCEPT !.at = "stamping", !.pending = fitting]
            /\ open' = open /\ opens' = opens /\ opening.at = "read"
        BY <2>2, <3>2 DEF OpenLayout, memory, observed
      <4> HIDE DEF fitting
      <4> QED  BY <1>0, <4>1 DEF OpeningInv
    <3> QED  BY <3>1, <3>2
  <2>3. CASE OpenStamp
    BY <1>0, <2>3 DEF OpenStamp, Opens, OpeningInv, NotOpening, observed
  <2>4. CASE OpenFails
    BY <1>0, <2>4 DEF OpenFails, OpeningInv, NotOpening, memory, observed
  <2> QED  BY <2>1, <2>2, <2>3, <2>4
<1> QED  BY <1>1, <1>2, <1>3, <1>4, <1>5, OrgOutside

\* The invariant survives what an engine does that nobody waits for.
LEMMA OrgEndsLate ==
  ASSUME OrgInv, NEW e \in late, EngineEndsLate(e)
  PROVE  OrgInv'
<1>0. RequestsInv /\ DisksInv /\ OpeningInv /\ ChainInv /\ TailTyped /\ LateInv /\ StagedInv /\ SafeInv
  BY DEF OrgInv
<1>1. req' = req /\ tail' = tail /\ opening' = opening /\ late' \subseteq late /\ open' = open
  BY DEF EngineEndsLate, memory
<1>2. strayed' = strayed
  BY DEF EngineEndsLate, observed
<1>3. abandoned' = abandoned /\ opens' = opens
  BY DEF EngineEndsLate, observed
<1>s. strayed => strayed'
  BY <1>2
<1>4. RequestsInv'
  <2>1. ASSUME NEW q \in Requests PROVE RequestOK(req[q])'
    <3>1. RequestOK(req[q])
      BY <1>0 DEF RequestsInv
    <3> QED  BY <1>1, <1>s, <3>1 DEF RequestOK
  <2> QED  BY <1>0, <1>1, <2>1 DEF RequestsInv
<1>5. ChainInv' /\ TailTyped'
  BY <1>0, <1>1, ChainSame
<1>6. OpeningInv'
  BY <1>0, <1>1, <1>3 DEF OpeningInv
<1>7. LateInv'
  BY <1>0, <1>1 DEF LateInv
<1>8. PICK x \in Workspaces : x = e.dir
  BY <1>0 DEF LateInv
<1>9. PICK dirs : dirs = e.dirs
  OBVIOUS
<1>10. /\ DiskShaped /\ SamePlaces
       /\ \A w \in Workspaces : \/ disk'[w].applied = disk[w].applied
                                \/ w = x /\ DOMAIN disk'[w].applied = ScannedIds(dirs)
  <2>1. CASE disk' = disk
    BY <1>0, <2>1, DiskSame DEF SameModels
  <2>2. CASE disk' # disk
    <3>1. \/ disk' = [disk EXCEPT ![x] = AppliedFrom(@, dirs)]
          \/ disk' = [disk EXCEPT ![x].applied = Parents(dirs)]
      BY <1>8, <1>9, <2>2 DEF EngineEndsLate
    <3> QED  BY <1>0, <3>1, AppliesIs
  <2> QED  BY <2>1, <2>2
<1>11. ScannedIds(dirs) \subseteq Ids
  BY <1>0, <1>9, IdsAreIds DEF LateInv
<1>12. DisksInv'
  <2>1. \A w \in Workspaces : DOMAIN disk'[w].applied \subseteq Ids
    BY <1>0, <1>10, <1>11, DiskFacts
  <2> QED  BY <1>0, <1>10, <2>1, DisksSamePlaces
<1>13. StagedInv'
  <2> SUFFICES ASSUME ~ strayed', NEW q \in Requests, Staging(q)'
               PROVE  Subtree(disk'[req'[q].dir].positions, req'[q].made) \subseteq {req'[q].made}
    BY DEF StagedInv
  <2>1. Staging(q) /\ ~ strayed
    BY <1>1, <1>s DEF Staging
  <2>2. PICK w \in Workspaces : w = req[q].dir
    BY <1>0, <2>1 DEF Staging, RequestsInv, RequestOK
  <2> QED  BY <1>0, <1>1, <1>10, <2>1, <2>2 DEF StagedInv, SamePlaces
<1>14. SafeInv'
  <2>1. ASSUME NEW w \in Workspaces PROVE Safe(w) \subseteq Safe(w)'
    <3>1. Staged(w)' \subseteq Staged(w)
      BY <1>1 DEF Staged, Staging
    <3> QED  BY <1>3, <1>10, <3>1, SafeSame DEF SamePlaces
  <2>2. ASSUME ~ strayed', NEW w \in Workspaces
        PROVE  DOMAIN disk'[w].applied \subseteq DOMAIN disk[w].applied \cup Safe(w)'
    <3>1. ScannedIds(dirs) \subseteq Safe(x)
      BY <1>0, <1>8, <1>9, <1>s, <2>2 DEF SafeInv
    <3> QED  BY <1>10, <2>1, <3>1
  <2> QED  BY <1>0, <1>1, <1>s, <2>1, <2>2, SafeGrows
<1> QED  BY <1>4, <1>5, <1>6, <1>7, <1>12, <1>13, <1>14 DEF OrgInv

\* The invariant survives a restart.
LEMMA OrgRestarts ==
  ASSUME OrgInv, Restart
  PROVE  OrgInv'
<1>0. RequestsInv /\ DisksInv /\ OpeningInv /\ LateInv /\ SafeInv
  BY DEF OrgInv
<1>1. /\ disk' = disk /\ open' = None /\ opening' = NotOpening
      /\ tail' = [w \in Workspaces |-> None]
      /\ req' = [r \in Requests |-> IF req[r].at = "new" THEN Fresh ELSE Finished]
  BY DEF Restart
<1>2. strayed' = strayed
  BY DEF Restart, observed
<1>3. abandoned' = abandoned /\ opens' = opens
  BY DEF Restart, observed
<1>s. strayed => strayed'
  BY <1>2
<1>4. /\ DOMAIN Fresh = Fields /\ Fresh.at = "new" /\ Fresh.made = None
      /\ DOMAIN Finished = Fields /\ Finished.at = "done" /\ Finished.made = None
  BY DEF Fresh, Finished, Fields
<1>5. DOMAIN req' = Requests /\ \A r \in Requests : req'[r] \in {Fresh, Finished}
  BY <1>1
<1>6. RequestsInv'
  <2>1. ASSUME NEW r \in Requests PROVE RequestOK(req[r])'
    <3>1. DOMAIN req'[r] = Fields /\ req'[r].at \in {"new", "done"} /\ req'[r].made = None
      BY <1>4, <1>5
    <3> QED  BY <3>1 DEF RequestOK
  <2> QED  BY <1>5, <2>1 DEF RequestsInv
<1>7. TailTyped' /\ \A w \in Workspaces : tail'[w] = None
  BY <1>1 DEF TailTyped
<1>8. ChainInv'
  <2>1. \A r \in Requests : ~ Live(r)'
    BY <1>4, <1>5 DEF Live
  <2>2. NoRequest /\ NoRequest'
    BY NoneIsNoRequest DEF NoRequest
  <2> DEFINE rank == [r \in Requests |-> 0]
  <2>3. rank \in [Requests -> Nat]
    OBVIOUS
  <2>4. InLine(rank)' /\ TailLast(rank)'
    BY <1>7, <2>1 DEF InLine, TailLast
  <2> QED  BY <2>3, <2>4 DEF ChainInv
<1>9. OpeningInv'
  BY <1>0, <1>1, <1>3 DEF OpeningInv, NotOpening
<1>10. DiskShaped /\ SamePlaces /\ SameModels
  BY <1>0, <1>1, DiskSame
<1>11. \A r \in Requests : ~ Staging(r)'
  BY <1>4, <1>5 DEF Staging
<1>12. ASSUME NEW e \in late'
       PROVE  \/ e \in late
              \/ \E r \in Requests : req[r].at = "applying" /\ e = LateEngine(r)
  BY DEF Restart
<1>13. LateInv'
  <2>1. ASSUME NEW e \in late' PROVE e.dir \in Workspaces /\ e.dirs \subseteq Paths
    BY <1>0, <1>12, LateEngineOK DEF LateInv
  <2> QED  BY <2>1 DEF LateInv
<1>14. DisksInv'
  <2>1. \A w \in Workspaces : DOMAIN disk'[w].applied \subseteq Ids
    BY <1>0, <1>1, DiskFacts
  <2> QED  BY <1>0, <1>10, <2>1, DisksSamePlaces
<1>15. StagedInv'
  BY <1>11 DEF StagedInv
<1>16. \A w : Staged(w)' = {}
  BY <1>11 DEF Staged
<1>17. SafeInv'
  <2>1. ASSUME NEW w \in Workspaces PROVE Safe(w) \subseteq Safe(w)'
    <3>1. Staged(w)' \subseteq Staged(w)
      BY <1>16
    <3> QED  BY <1>1, <1>3, <3>1, SafeSame
  <2>2. ASSUME NEW e \in late' PROVE e \in late \/ ScannedIds(e.dirs) \subseteq Safe(e.dir)'
    <3>1. ASSUME NEW r \in Requests, req[r].at = "applying", e = LateEngine(r)
          PROVE  ScannedIds(e.dirs) \subseteq Safe(e.dir)'
      <4>1. e.dirs = disk'[e.dir].positions
        BY <1>1, <3>1 DEF LateEngine
      <4>2. disk'[e.dir].positions \ Staged(e.dir)' = disk'[e.dir].positions
        BY <1>16
      <4> QED  BY <4>1, <4>2 DEF Safe
    <3> QED  BY <1>12, <3>1
  <2> QED  BY <1>0, <1>1, <1>s, <2>1, <2>2, SafeGrows
<1> QED  BY <1>6, <1>7, <1>8, <1>9, <1>13, <1>14, <1>15, <1>17 DEF OrgInv

\* The invariant survives every step of a mutation.
LEMMA OrgMutates ==
  ASSUME OrgInv, NEW r \in Requests, Mutate(r)
  PROVE  OrgInv'
<1>0. RequestsInv /\ DisksInv /\ OpeningInv /\ ChainInv /\ TailTyped /\ LateInv /\ StagedInv /\ SafeInv
  BY DEF OrgInv
<1>1. ChainInv' /\ TailTyped'
  BY <1>0, ChainMutates
<1>2. RequestsInv'
  BY <1>0, RequestsMutate
<1>3. DisksInv' /\ LateInv'
  BY <1>0, FilesMutate
<1>4. StagedInv' /\ SafeInv'
  BY <1>0, StagedMutates, SafeMutates
<1>5. OpeningInv'
  BY <1>0, MutationKeeps DEF OpeningInv
<1> QED  BY <1>1, <1>2, <1>3, <1>4, <1>5 DEF OrgInv

\* The invariant survives every step.
LEMMA OrgStep == OrgInv /\ [Next]_vars => OrgInv'
<1> SUFFICES ASSUME OrgInv, [Next]_vars PROVE OrgInv'
  OBVIOUS
<1>1. CASE Next
  <2>1. CASE \E r \in Requests, job \in Jobs : Enqueue(r, job)
    BY <2>1, OrgEnqueues
  <2>2. CASE \E r \in Requests : Mutate(r)
    BY <2>2, OrgMutates
  <2>3. CASE \E e \in late : EngineEndsLate(e)
    BY <2>3, OrgEndsLate
  <2>4. CASE (\E w \in Workspaces : OpenRead(w)) \/ OpenLayout \/ OpenStamp \/ OpenFails
    BY <2>4, OrgOpens
  <2>5. CASE Restart
    BY <2>5, OrgRestarts
  <2> QED  BY <1>1, <2>1, <2>2, <2>3, <2>4, <2>5 DEF Next
<1>2. CASE UNCHANGED vars
  <2>1. /\ req' = req /\ tail' = tail /\ abandoned' = abandoned /\ late' = late
        /\ open' = open /\ opening' = opening /\ opens' = opens /\ disk' = disk
    BY <1>2 DEF vars
  <2>2. strayed' = strayed
    BY <1>2 DEF vars
  <2>3. OpeningInv' /\ DiskShaped /\ SamePlaces /\ SameModels
    BY <2>1, DiskSame DEF OrgInv, OpeningInv
  <2> QED  BY <2>1, <2>2, <2>3, OrgOutside
<1> QED  BY <1>1, <1>2

-----------------------------------------------------------------------------
(* Induction and recursion over the naturals *)

\* The order of the naturals, as a set of pairs.
LEMMA LessThanPairs == OpToRel(<, Nat) = {ss \in Nat \X Nat : ss[1] < ss[2]}
BY Zenon DEF OpToRel

\* A set of naturals that has a member has a least one.
LEMMA Least == ASSUME NEW S, S \subseteq Nat, S # {} PROVE \E m \in S : \A k \in S : m <= k
<1> DEFINE R == OpToRel(<, Nat)
<1>1. PICK m \in S : \A y \in S : ~ (<<y, m>> \in R)
  BY NatLessThanWellFounded, WFMin
<1>2. R = {ss \in Nat \X Nat : ss[1] < ss[2]}
  BY LessThanPairs
<1>3. ASSUME NEW k \in S PROVE m <= k
  <2> HIDE DEF R
  <2>1. ~(<<k, m>> \in {ss \in Nat \X Nat : ss[1] < ss[2]})
    BY <1>1, <1>2, Zenon
  <2> QED BY <2>1
<1> QED BY <1>3

\* Induction over the naturals, on a set instead of a predicate.
LEMMA Induction == ASSUME NEW S, 0 \in S, \A n \in Nat : n \in S => n + 1 \in S PROVE Nat \subseteq S
<1> SUFFICES ASSUME Nat \ S # {} PROVE FALSE
  OBVIOUS
<1>1. PICK m \in Nat \ S : \A k \in Nat \ S : m <= k
  BY Least
<1>2. m - 1 \in Nat /\ m - 1 \in S
  BY <1>1
<1> QED BY <1>2, <1>1

\* What a function is that starts with x and takes a step for every number up to N.
Steps(f, N, S, x, step) ==
  /\ f \in [0 .. N -> S] /\ f[0] = x
  /\ \A n \in 1 .. N : f[n] = step[<<n, f[n - 1]>>]

\* Recursion on a bounded number of steps: a function with a first value and one step after the other.
LEMMA Recursion ==
  ASSUME NEW N \in Nat, NEW S, NEW x \in S, NEW step \in [(1 .. N) \X S -> S]
  PROVE  \E f : Steps(f, N, S, x, step)
<1>. DEFINE P(k, f) == f[0] = x /\ \A n \in 1 .. k : f[n] = step[<<n, f[n - 1]>>]
            A == {k \in Nat : k <= N => \E f \in [0 .. k -> S] : P(k, f)}
<1>1. 0 \in A
  <2>. DEFINE f == [n \in 0 .. 0 |-> x]
  <2>1. f \in [0 .. 0 -> S] /\ P(0, f)
    OBVIOUS
  <2>. QED BY <2>1
<1>2. ASSUME NEW k \in Nat, k \in A
      PROVE  k + 1 \in A
  <2>. SUFFICES ASSUME k + 1 <= N
                PROVE  \E f \in [0 .. k + 1 -> S] : P(k + 1, f)
    OBVIOUS
  <2>1. PICK f \in [0 .. k -> S] : P(k, f)
    BY <1>2
  <2>. DEFINE last == step[<<k + 1, f[k]>>]
              g == [n \in 0 .. k + 1 |-> IF n <= k THEN f[n] ELSE last]
  <2>2. last \in S
    <3>1. <<k + 1, f[k]>> \in (1 .. N) \X S
      BY <2>1
    <3>. QED BY <3>1
  <2>3. g \in [0 .. k + 1 -> S]
    <3>. HIDE DEF last
    <3>. QED BY <2>1, <2>2
  <2>4. g[0] = x
    BY <2>1
  <2>5. ASSUME NEW n \in 1 .. k + 1
        PROVE  g[n] = step[<<n, g[n - 1]>>]
    <3>1. CASE n <= k
      BY <2>1, <3>1
    <3>2. CASE n = k + 1
      BY <3>2
    <3>. QED BY <3>1, <3>2
  <2>. HIDE DEF g
  <2>. QED BY <2>3, <2>4, <2>5
<1>. HIDE DEF A
<1>3. Nat \subseteq A
  BY <1>1, <1>2, Induction
<1>. QED BY <1>3 DEF A, Steps

-----------------------------------------------------------------------------
(* Directories and the tree they are *)

\* One directory for an id: what a scan that does not refuse has found.
Unique(dirs) == \A d, e \in dirs : IdOf(d) = IdOf(e) => d = e

\* Where the ids are unique, an id is found where it is, and has the parent its directory says.
LEMMA FoundWhere ==
  ASSUME NEW dirs \in SUBSET Paths, Unique(dirs), NEW d \in dirs
  PROVE  /\ DirOf(dirs, IdOf(d)) = d /\ IdOf(d) \in ScannedIds(dirs)
         /\ Parents(dirs)[IdOf(d)] = ParentOf(d)
<1>1. IdOf(d) \in ScannedIds(dirs)
  BY DEF ScannedIds
<1>2. DirOf(dirs, IdOf(d)) = d
  BY DEF Unique, DirOf
<1> QED  BY <1>1, <1>2 DEF Parents

\* The parents of the ids along a path.
LEMMA ParentAlong ==
  ASSUME NEW dirs \in SUBSET Paths, Closed(dirs), Unique(dirs), NEW d \in dirs, NEW k \in 1 .. Len(d)
  PROVE  /\ SubSeq(d, 1, k) \in dirs /\ IdOf(SubSeq(d, 1, k)) = d[k]
         /\ d[k] \in ScannedIds(dirs) /\ DirOf(dirs, d[k]) = SubSeq(d, 1, k)
         /\ Parents(dirs)[d[k]] = IF k = 1 THEN Root ELSE d[k - 1]
<1> DEFINE c == SubSeq(d, 1, k)
<1>1. c \in dirs
  BY DEF Closed
<1>2. Len(c) = k /\ \A i \in 1 .. k : c[i] = d[i]
  BY CutPath
<1> HIDE DEF c
<1>3. IdOf(c) = d[k]
  BY <1>2 DEF IdOf
<1>4. ParentOf(c) = IF k = 1 THEN Root ELSE d[k - 1]
  <2>1. k # 1 => k - 1 \in 1 .. k
    OBVIOUS
  <2> QED  BY <1>2, <2>1 DEF ParentOf
<1>5. /\ DirOf(dirs, d[k]) = c /\ d[k] \in ScannedIds(dirs)
      /\ Parents(dirs)[d[k]] = ParentOf(c)
  BY <1>1, <1>3, FoundWhere
<1> QED  BY <1>1, <1>3, <1>4, <1>5 DEF c

\* The ids that positions can have are finitely many.
LEMMA IdsFinite == IsFiniteSet(Ids)
<1>1. Alphabet \in [1 .. Len(Alphabet) -> Ids] /\ Len(Alphabet) \in Nat
  BY TreeAssumption
<1>2. \A i \in Ids : \E n \in 1 .. Len(Alphabet) : Alphabet[n] = i
  BY <1>1 DEF Ids, Range
<1>3. Alphabet \in Surjection(1 .. Len(Alphabet), Ids)
  BY <1>1, <1>2 DEF Surjection
<1>4. IsFiniteSet(1 .. Len(Alphabet))
  BY <1>1, FS_Interval
<1> QED  BY <1>3, <1>4, FS_Surjection

\* A path is no longer than there are positions.
LEMMA PathLength ==
  ASSUME NEW dirs \in SUBSET Paths, Closed(dirs), Unique(dirs), NEW d \in dirs
  PROVE  Cardinality(ScannedIds(dirs)) \in Nat /\ Len(d) <= Cardinality(ScannedIds(dirs))
<1> DEFINE S == ScannedIds(dirs)
<1>1. IsFiniteSet(S)
  BY IdsFinite, IdsAreIds, FS_Subset
<1>2. d \in Seq(Ids) /\ Len(d) \in Nat
  BY DEF Paths
<1> DEFINE f == [k \in 1 .. Len(d) |-> d[k]]
<1>3. \A k \in 1 .. Len(d) : d[k] \in S
  BY ParentAlong
<1>4. ASSUME NEW j \in 1 .. Len(d), NEW k \in 1 .. Len(d), d[j] = d[k] PROVE j = k
  <2>1. SubSeq(d, 1, j) = DirOf(dirs, d[j]) /\ SubSeq(d, 1, k) = DirOf(dirs, d[k])
    BY ParentAlong
  <2>2. Len(SubSeq(d, 1, j)) = j /\ Len(SubSeq(d, 1, k)) = k
    BY CutPath
  <2> QED  BY <1>4, <2>1, <2>2
<1>5. f \in Injection(1 .. Len(d), S)
  <2>1. f \in [1 .. Len(d) -> S]
    BY <1>3
  <2>2. \A j, k \in 1 .. Len(d) : f[j] = f[k] => j = k
    BY <1>4
  <2> HIDE DEF f, S
  <2> QED  BY <2>1, <2>2 DEF Injection, IsInjective
<1> HIDE DEF f, S
<1>6. Cardinality(1 .. Len(d)) <= Cardinality(S)
  BY <1>1, <1>5, FS_Injection
<1>7. Cardinality(1 .. Len(d)) = Len(d)
  BY <1>2, FS_Interval
<1>8. Cardinality(S) \in Nat
  BY <1>1, FS_CardinalityType
<1> QED  BY <1>6, <1>7, <1>8 DEF S

\* The walk from a position towards the root meets the positions on its path.
LEMMA ChainIs ==
  ASSUME NEW dirs \in SUBSET Paths, Closed(dirs), Unique(dirs), NEW d \in dirs
  PROVE  Chain(Parents(dirs), IdOf(d)) = {d[k] : k \in 1 .. Len(d)}
<1> DEFINE parents == Parents(dirs)
           S == ScannedIds(dirs)
           N == Cardinality(S)
           R(g) == [n \in 0 .. N |->
                      IF n = 0 THEN {IdOf(d)} \cap S
                      ELSE g[n - 1] \cup ({parents[i] : i \in g[n - 1]} \cap S)]
           met == CHOOSE g : g = R(g)
           f == [n \in 0 .. N |-> {d[k] : k \in {k \in 1 .. Len(d) : k >= Len(d) - n}}]
<1>1. N \in Nat /\ Len(d) <= N
  BY PathLength
<1>2. Len(d) \in Nat \ {0} /\ Len(d) \in 1 .. Len(d)
  BY DEF Paths
<1>3. DOMAIN parents = S
  BY DEF Parents
<1>4. \A k \in 1 .. Len(d) : d[k] \in S /\ parents[d[k]] = IF k = 1 THEN Root ELSE d[k - 1]
  BY ParentAlong
<1>r. Root \notin S
  BY IdsAreIds, TreeAssumption
<1>5. Chain(parents, IdOf(d)) = met[N]
  BY <1>3 DEF Chain
<1> HIDE DEF parents, S, N
<1>6. f[0] = {IdOf(d)} \cap S
  <2>1. {k \in 1 .. Len(d) : k >= Len(d) - 0} = {Len(d)}
    BY <1>2
  <2>2. f[0] = {d[Len(d)]}
    BY <1>1, <2>1
  <2> HIDE DEF f
  <2> QED  BY <1>2, <1>4, <2>2 DEF IdOf
<1>7. ASSUME NEW n \in 0 .. N, n # 0 PROVE f[n] = f[n - 1] \cup ({parents[i] : i \in f[n - 1]} \cap S)
  <2>1. n - 1 \in 0 .. N
    BY <1>1, <1>7
  <2>2. f[n] = {d[k] : k \in {k \in 1 .. Len(d) : k >= Len(d) - n}}
    BY <1>1
  <2>3. f[n - 1] = {d[k] : k \in {k \in 1 .. Len(d) : k >= Len(d) - (n - 1)}}
    BY <2>1
  <2> DEFINE step == f[n - 1] \cup ({parents[i] : i \in f[n - 1]} \cap S)
  <2> HIDE DEF f, met, R
  <2>4. ASSUME NEW x \in f[n] PROVE x \in step
    <3>1. PICK k \in 1 .. Len(d) : k >= Len(d) - n /\ x = d[k]
      BY <2>2, <2>4
    <3>2. CASE k >= Len(d) - (n - 1)
      BY <2>3, <3>1, <3>2
    <3>3. CASE ~ k >= Len(d) - (n - 1)
      <4>1. k + 1 \in 1 .. Len(d) /\ k + 1 >= Len(d) - (n - 1) /\ (k + 1) - 1 = k /\ k + 1 # 1
        BY <1>2, <1>7, <3>1, <3>3
      <4>2. d[k + 1] \in f[n - 1] /\ parents[d[k + 1]] = d[k] /\ d[k] \in S
        BY <1>4, <2>3, <4>1
      <4> QED  BY <3>1, <4>2
    <3> QED  BY <3>2, <3>3
  <2>5. ASSUME NEW x \in step PROVE x \in f[n]
    <3>1. CASE x \in f[n - 1]
      <4>1. PICK k \in 1 .. Len(d) : k >= Len(d) - (n - 1) /\ x = d[k]
        BY <2>3, <3>1
      <4>2. k >= Len(d) - n
        BY <1>2, <1>7, <4>1
      <4> QED  BY <2>2, <4>1, <4>2
    <3>2. CASE x \notin f[n - 1]
      <4>1. PICK k \in 1 .. Len(d) : k >= Len(d) - (n - 1) /\ x = parents[d[k]] /\ x \in S
        BY <2>3, <2>5, <3>2
      <4>2. k # 1 /\ x = d[k - 1]
        BY <1>4, <1>r, <4>1
      <4>3. k - 1 \in 1 .. Len(d) /\ k - 1 >= Len(d) - n
        BY <1>2, <1>7, <4>1, <4>2
      <4> QED  BY <2>2, <4>2, <4>3
    <3> QED  BY <3>1, <3>2
  <2> QED  BY <2>4, <2>5
<1>8. f = R(f)
  <2>1. ASSUME NEW n \in 0 .. N PROVE f[n] = R(f)[n]
    <3>1. R(f)[n] = IF n = 0 THEN {IdOf(d)} \cap S
                    ELSE f[n - 1] \cup ({parents[i] : i \in f[n - 1]} \cap S)
      OBVIOUS
    <3> HIDE DEF f, R
    <3> QED  BY <1>6, <1>7, <3>1
  <2>2. f = [n \in 0 .. N |-> f[n]] /\ R(f) = [n \in 0 .. N |-> R(f)[n]]
    BY Zenon
  <2> HIDE DEF f, R
  <2> QED  BY <2>1, <2>2
<1>9. met = R(met)
  BY <1>8, Zenon
<1> HIDE DEF met
<1>10. \A n \in 0 .. N : met[n] = IF n = 0 THEN {IdOf(d)} \cap S
                                 ELSE met[n - 1] \cup ({parents[i] : i \in met[n - 1]} \cap S)
  BY <1>9, Zenon
<1> HIDE DEF R
<1>11. met[N] = f[N]
  <2> DEFINE A == {n \in Nat : n <= N => met[n] = f[n]}
  <2> HIDE DEF f
  <2>1. 0 \in A
    <3>1. 0 \in 0 .. N
      BY <1>1
    <3>2. met[0] = f[0]
      BY <1>6, <1>10, <3>1, Zenon
    <3> QED  BY <3>2
  <2>2. ASSUME NEW n \in Nat, n \in A PROVE n + 1 \in A
    <3>1. CASE n + 1 <= N
      <4>1. n + 1 \in 0 .. N /\ n + 1 # 0 /\ (n + 1) - 1 = n /\ n <= N
        BY <1>1, <3>1
      <4>2. met[n + 1] = met[n] \cup ({parents[i] : i \in met[n]} \cap S)
        BY <1>10, <4>1
      <4>3. f[n + 1] = f[n] \cup ({parents[i] : i \in f[n]} \cap S)
        <5>1. f[n + 1] = f[(n + 1) - 1] \cup ({parents[i] : i \in f[(n + 1) - 1]} \cap S)
          BY <1>7, <4>1, Zenon
        <5> QED  BY <4>1, <5>1, Zenon
      <4>4. met[n] = f[n]
        BY <2>2, <4>1
      <4>5. met[n + 1] = f[n + 1]
        BY <4>2, <4>3, <4>4, Zenon
      <4> QED  BY <4>5
    <3> QED  BY <3>1
  <2> HIDE DEF A
  <2>3. Nat \subseteq A
    BY <2>1, <2>2, Induction
  <2> QED  BY <1>1, <2>3 DEF A
<1>12. f[N] = {d[k] : k \in 1 .. Len(d)}
  <2>1. {k \in 1 .. Len(d) : k >= Len(d) - N} = 1 .. Len(d)
    BY <1>1, <1>2
  <2> QED  BY <1>1, <2>1
<1> QED  BY <1>5, <1>11, <1>12 DEF parents, S, N

\* The directory a known position belongs under names it as the parent.
LEMMA PlaceNames ==
  ASSUME NEW dirs \in SUBSET Paths, NEW id \in Ids, NEW parent,
         parent = Root \/ parent \in ScannedIds(dirs)
  PROVE  ParentOf(PlaceUnder(dirs, parent, id)) = parent
<1>1. CASE parent \in ScannedIds(dirs)
  <2> DEFINE p == DirOf(dirs, parent)
             t == Append(p, id)
  <2>1. p \in dirs /\ IdOf(p) = parent
    BY <1>1, FoundIs
  <2> HIDE DEF p
  <2>2. p \in Seq(Ids) /\ Len(p) \in Nat \ {0}
    BY <2>1 DEF Paths
  <2>3. Len(t) = Len(p) + 1 /\ t[Len(p)] = p[Len(p)]
    BY <2>2
  <2>4. ParentOf(t) = p[Len(p)]
    BY <2>2, <2>3 DEF ParentOf
  <2> QED  BY <1>1, <2>1, <2>4 DEF PlaceUnder, p, IdOf
<1>2. CASE parent \notin ScannedIds(dirs)
  <2>1. PlaceUnder(dirs, parent, id) = <<id>> /\ parent = Root
    BY <1>2 DEF PlaceUnder
  <2> QED  BY <2>1 DEF ParentOf
<1> QED  BY <1>1, <1>2

\* Where a directory comes from that is there after a rename, and whose parent it has.
Origin(dirs, s, t, parent, e, d) ==
  /\ d \in dirs /\ IdOf(e) = IdOf(d)
  /\ e = IF Within(d, s) THEN t \o Rest(d, s) ELSE d
  /\ ParentOf(e) = IF d = s THEN parent ELSE ParentOf(d)

\* Every directory after a rename comes from one with its id, and only that of the destination is elsewhere.
LEMMA RenamedOrigin ==
  ASSUME NEW dirs \in SUBSET Paths, NEW s \in dirs, NEW t \in Paths, IdOf(t) = IdOf(s),
         NEW e \in Renamed(dirs, s, t)
  PROVE  \E d \in dirs : Origin(dirs, s, t, ParentOf(t), e, d)
<1>1. CASE e \in dirs \ Subtree(dirs, s)
  <2>1. ~ Within(e, s) /\ Within(s, s)
    BY <1>1, WithinIs DEF Subtree
  <2> QED  BY <1>1, <2>1 DEF Origin
<1>2. CASE e \notin dirs \ Subtree(dirs, s)
  <2>1. PICK d \in Subtree(dirs, s) : e = t \o Rest(d, s)
    BY <1>2 DEF Renamed
  <2>2. d \in dirs /\ d \in Paths /\ Within(d, s)
    BY DEF Subtree
  <2>3. Grafted(e, d, s, t)
    BY <2>1, <2>2, RenamedPath
  <2>4. /\ Len(s) \in Nat \ {0} /\ Len(d) \in Nat /\ Len(t) \in Nat \ {0} /\ Len(s) <= Len(d)
        /\ \A i \in 1 .. Len(s) : d[i] = s[i]
    BY <2>2, WithinIs DEF Paths
  <2>5. CASE Len(d) = Len(s)
    <3>1. d = s /\ e = t
      BY <2>3, <2>5 DEF Grafted
    <3> QED  BY <2>1, <2>2, <3>1 DEF Origin
  <2>6. CASE Len(d) # Len(s)
    <3>1. /\ Len(e) = Len(t) + (Len(d) - Len(s)) /\ IdOf(e) = IdOf(d)
          /\ \A i \in 1 .. Len(t) : e[i] = t[i]
          /\ \A i \in Len(t) + 1 .. Len(e) : e[i] = d[i - Len(t) + Len(s)]
      BY <2>3, <2>6 DEF Grafted
    <3>2. Len(d) >= Len(s) + 1 /\ Len(e) # 1 /\ Len(d) # 1
      BY <2>4, <2>6, <3>1
    <3>3. e[Len(e) - 1] = d[Len(d) - 1]
      <4>1. CASE Len(d) = Len(s) + 1
        <5>1. Len(e) - 1 = Len(t) /\ Len(d) - 1 = Len(s) /\ Len(t) \in 1 .. Len(t) /\ Len(s) \in 1 .. Len(s)
          BY <2>4, <3>1, <4>1
        <5>2. t[Len(t)] = s[Len(s)]
          BY DEF IdOf
        <5> QED  BY <2>4, <3>1, <5>1, <5>2
      <4>2. CASE Len(d) # Len(s) + 1
        <5>1. /\ Len(e) - 1 \in Len(t) + 1 .. Len(e)
              /\ (Len(e) - 1) - Len(t) + Len(s) = Len(d) - 1
          BY <2>4, <3>1, <3>2, <4>2
        <5> QED  BY <3>1, <5>1
      <4> QED  BY <4>1, <4>2
    <3>4. ParentOf(e) = ParentOf(d)
      BY <3>2, <3>3 DEF ParentOf
    <3> QED  BY <2>1, <2>2, <2>6, <3>1, <3>4 DEF Origin
  <2> QED  BY <2>5, <2>6
<1> QED  BY <1>1, <1>2

\* Two trees are the same that give the same positions the same parents.
LEMMA SameTree ==
  ASSUME NEW dirs, NEW tree, tree = [id \in ScannedIds(dirs) |-> tree[id]],
         \A id \in ScannedIds(dirs) : Parents(dirs)[id] = tree[id]
  PROVE  Parents(dirs) = tree
<1>1. Parents(dirs) = [id \in ScannedIds(dirs) |-> Parents(dirs)[id]]
  BY DEF Parents
<1> QED  BY <1>1

\* A rename of materializeProposal does to the directories what a move does to the tree.
LEMMA MoveIsExact ==
  ASSUME NEW dirs \in SUBSET Paths, Unique(dirs), NEW c, c.op = "move",
         c.id \in ScannedIds(dirs), Known(Parents(dirs), c.reportTo)
  PROVE  LET s == DirOf(dirs, c.id)
             t == PlaceUnder(dirs, c.reportTo, c.id)
         IN  /\ t = s => Parents(dirs) = Effect(Parents(dirs), c)
             /\ Renamed(dirs, s, t) \subseteq Paths => Parents(Renamed(dirs, s, t)) = Effect(Parents(dirs), c)
<1> DEFINE s == DirOf(dirs, c.id)
           t == PlaceUnder(dirs, c.reportTo, c.id)
           parents == Parents(dirs)
           S == ScannedIds(dirs)
           new == Renamed(dirs, s, t)
           tree == [id \in S |-> IF id = c.id THEN c.reportTo ELSE parents[id]]
<1>1. s \in dirs /\ IdOf(s) = c.id /\ c.id \in Ids
  BY FoundIs
<1>2. c.reportTo = Root \/ c.reportTo \in S
  BY DEF Known, Parents
<1>3. ParentOf(t) = c.reportTo
  BY <1>1, <1>2, PlaceNames
<1>4. t \in Paths /\ IdOf(t) = c.id
  <2>1. CASE c.reportTo \in S
    <3> DEFINE p == DirOf(dirs, c.reportTo)
    <3>1. p \in Paths
      BY <2>1, FoundIs
    <3> HIDE DEF p
    <3>2. Append(p, c.id) \in Paths /\ IdOf(Append(p, c.id)) = c.id
      BY <1>1, <3>1 DEF Paths, IdOf
    <3> QED  BY <2>1, <3>2 DEF PlaceUnder, p
  <2>2. CASE c.reportTo \notin S
    BY <1>1, <2>2 DEF PlaceUnder, Paths, IdOf
  <2> QED  BY <2>1, <2>2
<1>5. DOMAIN parents = S
  BY DEF Parents
<1>6. Effect(parents, c) = tree
  BY <1>5 DEF Effect
<1>7. \A d \in dirs : IdOf(d) \in S /\ parents[IdOf(d)] = ParentOf(d)
  BY FoundWhere
<1>8. \A id \in S : \E d \in dirs : IdOf(d) = id
  BY DEF ScannedIds
<1> HIDE DEF s, t, parents
<1>9. ASSUME t = s PROVE Parents(dirs) = tree
  <2>1. ASSUME NEW id \in S PROVE parents[id] = tree[id]
    BY <1>1, <1>3, <1>7, <1>9
  <2>2. tree = [id \in S |-> tree[id]]
    OBVIOUS
  <2> HIDE DEF tree
  <2> QED  BY <2>1, <2>2, SameTree DEF parents
<1>10. ASSUME new \subseteq Paths PROVE Parents(new) = tree
  <2>0. \A e \in new : \E d \in dirs : Origin(dirs, s, t, c.reportTo, e, d)
    BY <1>1, <1>3, <1>4, RenamedOrigin
  <2> HIDE DEF new
  <2>1. Unique(new)
    <3> SUFFICES ASSUME NEW e \in new, NEW f \in new, IdOf(e) = IdOf(f) PROVE e = f
      BY DEF Unique
    <3>1. PICK d \in dirs : Origin(dirs, s, t, c.reportTo, e, d)
      BY <2>0
    <3>2. PICK g \in dirs : Origin(dirs, s, t, c.reportTo, f, g)
      BY <2>0
    <3>3. d = g
      BY <3>1, <3>2 DEF Origin, Unique
    <3> QED  BY <3>1, <3>2, <3>3 DEF Origin
  <2>2. ScannedIds(new) = S
    BY <1>1, <1>4, RenamedIds DEF new
  <2>3. ASSUME NEW id \in S PROVE Parents(new)[id] = tree[id]
    <3>1. PICK e \in new : IdOf(e) = id
      BY <2>2, <2>3 DEF ScannedIds
    <3>2. Parents(new)[id] = ParentOf(e)
      BY <1>10, <2>1, <3>1, FoundWhere
    <3>3. PICK d \in dirs : Origin(dirs, s, t, c.reportTo, e, d)
      BY <2>0
    <3>4. IdOf(d) = id /\ ParentOf(e) = IF d = s THEN c.reportTo ELSE ParentOf(d)
      BY <3>1, <3>3 DEF Origin
    <3>5. d = s <=> id = c.id
      BY <1>1, <3>4 DEF Unique
    <3> QED  BY <1>7, <3>2, <3>4, <3>5
  <2>4. tree = [id \in S |-> tree[id]]
    OBVIOUS
  <2> HIDE DEF tree, S
  <2> QED  BY <2>2, <2>3, <2>4, SameTree
<1> QED  BY <1>6, <1>9, <1>10 DEF parents, s, t

\* The rename to the restore area does to the directories what a delete does to the tree.
LEMMA DeleteIsExact ==
  ASSUME NEW dirs \in SUBSET Paths, Closed(dirs), Unique(dirs), NEW c, c.op = "delete",
         c.id \in ScannedIds(dirs)
  PROVE  Parents(dirs \ Subtree(dirs, DirOf(dirs, c.id))) = Effect(Parents(dirs), c)
<1> DEFINE s == DirOf(dirs, c.id)
           parents == Parents(dirs)
           S == ScannedIds(dirs)
           new == dirs \ Subtree(dirs, s)
           left == {i \in S : ~ IsDescendant(parents, i, c.id)}
           tree == [id \in left |-> parents[id]]
<1>1. s \in dirs /\ IdOf(s) = c.id /\ c.id \in Ids
  BY FoundIs
<1>2. DOMAIN parents = S
  BY DEF Parents
<1>3. Effect(parents, c) = tree
  BY <1>2 DEF Effect
<1>4. \A d \in dirs : IdOf(d) \in S /\ parents[IdOf(d)] = ParentOf(d)
  BY FoundWhere
<1>5. ASSUME NEW d \in dirs PROVE IsDescendant(parents, IdOf(d), c.id) <=> Within(d, s)
  <2>1. Chain(parents, IdOf(d)) = {d[k] : k \in 1 .. Len(d)}
    BY ChainIs
  <2>2. Len(s) \in Nat \ {0} /\ Len(d) \in Nat
    BY <1>1 DEF Paths
  <2>3. ASSUME NEW k \in 1 .. Len(d), d[k] = c.id PROVE Within(d, s)
    <3>1. DirOf(dirs, d[k]) = SubSeq(d, 1, k)
      BY ParentAlong
    <3>2. s = SubSeq(d, 1, k) /\ Len(SubSeq(d, 1, k)) = k
      BY <2>3, <3>1, CutPath
    <3> QED  BY <3>2 DEF Within
  <2>4. ASSUME Within(d, s) PROVE \E k \in 1 .. Len(d) : d[k] = c.id
    <3>1. Len(s) \in 1 .. Len(d) /\ d[Len(s)] = s[Len(s)]
      BY <1>1, <2>2, <2>4, WithinIs
    <3> QED  BY <1>1, <3>1 DEF IdOf
  <2> QED  BY <2>1, <2>3, <2>4 DEF IsDescendant
<1> HIDE DEF s, parents
<1>6. ScannedIds(new) = left
  <2>1. ASSUME NEW id \in ScannedIds(new) PROVE id \in left
    <3>1. PICK d \in new : IdOf(d) = id
      BY DEF ScannedIds
    <3> QED  BY <1>4, <1>5, <3>1 DEF Subtree
  <2>2. ASSUME NEW id \in left PROVE id \in ScannedIds(new)
    <3>1. PICK d \in dirs : IdOf(d) = id
      BY DEF ScannedIds
    <3> QED  BY <1>5, <3>1 DEF ScannedIds, Subtree
  <2> QED  BY <2>1, <2>2
<1>7. Unique(new)
  BY DEF Unique
<1>8. ASSUME NEW id \in left PROVE Parents(new)[id] = tree[id]
  <2>1. PICK d \in new : IdOf(d) = id
    BY <1>6 DEF ScannedIds
  <2>2. Parents(new)[id] = ParentOf(d)
    BY <1>7, <2>1, FoundWhere
  <2> QED  BY <1>4, <2>1, <2>2
<1>9. tree = [id \in left |-> tree[id]]
  OBVIOUS
<1> HIDE DEF tree, new, left
<1> QED  BY <1>3, <1>6, <1>8, <1>9, SameTree DEF parents, s, new

-----------------------------------------------------------------------------
(* The trees of a validation *)

\* The recursive definition of Kept has the value it says.
LEMMA KeptIs ==
  ASSUME NEW T, NEW list \in Seq(T), NEW K
  PROVE  \E f \in [0 .. Len(list) -> Seq(T)] :
           /\ f[0] = << >> /\ Kept(list, K) = f[Len(list)]
           /\ \A n \in 1 .. Len(list) :
                f[n] = IF list[n] \in K THEN Append(f[n - 1], list[n]) ELSE f[n - 1]
<1>. DEFINE N == Len(list)
            R(g) == [n \in 0 .. N |-> IF n = 0 THEN << >>
                                      ELSE IF list[n] \in K THEN Append(g[n - 1], list[n]) ELSE g[n - 1]]
            f == CHOOSE g : g = R(g)
<1>1. Kept(list, K) = f[N]
  BY DEF Kept
<1>2. N \in Nat /\ \A n \in 1 .. N : list[n] \in T
  OBVIOUS
<1>3. \E g : g = R(g)
  <2>. DEFINE step == [p \in (1 .. N) \X Seq(T) |-> IF list[p[1]] \in K THEN Append(p[2], list[p[1]]) ELSE p[2]]
  <2>1. step \in [(1 .. N) \X Seq(T) -> Seq(T)] /\ << >> \in Seq(T)
    BY <1>2
  <2>0. PICK g : Steps(g, N, Seq(T), << >>, step)
    <3>1. N \in Nat
      BY <1>2
    <3>. HIDE DEF step, N, R
    <3>. QED BY <3>1, <2>1, Recursion, Zenon
  <2>2. /\ g \in [0 .. N -> Seq(T)] /\ g[0] = << >>
        /\ \A n \in 1 .. N : g[n] = step[<<n, g[n - 1]>>]
    <3>. HIDE DEF step, N, R
    <3>. QED BY <2>0 DEF Steps
  <2>3. ASSUME NEW n \in 0 .. N
        PROVE  g[n] = R(g)[n]
    <3>1. CASE n = 0
      BY <2>2, <3>1
    <3>2. CASE n \in 1 .. N
      <4>0. n - 1 \in 0 .. N
        BY <1>2, <3>2
      <4>1. g[n - 1] \in Seq(T)
        BY <2>2, <4>0
      <4>2. <<n, g[n - 1]>> \in (1 .. N) \X Seq(T)
        BY <3>2, <4>1, Zenon
      <4>3. step[<<n, g[n - 1]>>] = IF list[n] \in K THEN Append(g[n - 1], list[n]) ELSE g[n - 1]
        BY <4>2
      <4>. QED BY <2>2, <3>2, <4>3
    <3>. QED BY <1>2, <3>1, <3>2
  <2>4. g = [n \in 0 .. N |-> g[n]] /\ R(g) = [n \in 0 .. N |-> R(g)[n]]
    BY <2>2
  <2>. HIDE DEF R
  <2>5. g = R(g)
    BY <2>3, <2>4
  <2>. QED BY <2>5
<1>4. f = R(f)
  BY <1>3
<1>. HIDE DEF f
<1>5. \A n \in 0 .. N : f[n] = IF n = 0 THEN << >>
                               ELSE IF list[n] \in K THEN Append(f[n - 1], list[n]) ELSE f[n - 1]
  BY <1>4, Zenon
<1>. HIDE DEF N
<1>6. \A n \in 0 .. N : f[n] \in Seq(T)
  <2>. DEFINE A == {n \in Nat : n <= N => f[n] \in Seq(T)}
  <2>1. 0 \in A
    <3>1. f[0] = << >> /\ << >> \in Seq(T)
      BY <1>2, <1>5
    <3>. QED BY <3>1
  <2>2. ASSUME NEW n \in Nat, n \in A
        PROVE  n + 1 \in A
    <3>. SUFFICES ASSUME n + 1 <= N
                  PROVE  f[n + 1] \in Seq(T)
      OBVIOUS
    <3>1. n + 1 \in 0 .. N /\ n + 1 # 0 /\ (n + 1) - 1 = n /\ n + 1 \in 1 .. N /\ f[n] \in Seq(T)
      BY <1>2, <2>2
    <3>2. f[n + 1] = IF list[n + 1] \in K THEN Append(f[n], list[n + 1]) ELSE f[n]
      BY <1>5, <3>1
    <3>. QED BY <1>2, <3>1, <3>2
  <2>. HIDE DEF A
  <2>3. Nat \subseteq A
    BY <2>1, <2>2, Induction
  <2>. QED BY <1>2, <2>3 DEF A
<1>7. f \in [0 .. N -> Seq(T)]
  <2>1. f = [n \in 0 .. N |-> f[n]]
    BY <1>4
  <2>. QED BY <1>6, <2>1
<1>8. f[0] = << >> /\ \A n \in 1 .. N : f[n] = IF list[n] \in K THEN Append(f[n - 1], list[n]) ELSE f[n - 1]
  BY <1>2, <1>5
<1>. QED BY <1>1, <1>7, <1>8 DEF N

\* A list that has a structural change has a list of them.
LEMMA StructuralIs ==
  ASSUME NEW changes, changes \in Seq(Range(changes))
  PROVE  /\ Structural(changes) \in Seq(Range(changes))
         /\ (\E n \in 1 .. Len(changes) : changes[n].op # "reorder") => Structural(changes) # << >>
         /\ Len(changes) = 0 => Structural(changes) = << >>
<1> DEFINE T == Range(changes)
           K == {c \in T : c.op # "reorder"}
           N == Len(changes)
<1>1. N \in Nat /\ \A n \in 1 .. N : changes[n] \in T
  OBVIOUS
<1>a. changes \in Seq(T) /\ Structural(changes) = Kept(changes, K)
  BY DEF Structural
<1>2. PICK f \in [0 .. N -> Seq(T)] :
        /\ f[0] = << >> /\ Kept(changes, K) = f[N]
        /\ \A n \in 1 .. N : f[n] = IF changes[n] \in K THEN Append(f[n - 1], changes[n]) ELSE f[n - 1]
  <2> HIDE DEF T, K
  <2> QED  BY <1>a, KeptIs
<1>3. Structural(changes) = f[N]
  BY <1>2, <1>a
<1>4. ASSUME NEW n \in 1 .. N, changes[n].op # "reorder" PROVE f[N] # << >>
  <2>0. changes[n] \in K
    BY <1>1, <1>4
  <2> DEFINE A == {m \in Nat : n <= m /\ m <= N => f[m] # << >>}
  <2> HIDE DEF K, T
  <2>1. 0 \in A
    OBVIOUS
  <2>2. ASSUME NEW m \in Nat, m \in A PROVE m + 1 \in A
    <3> SUFFICES ASSUME n <= m + 1, m + 1 <= N PROVE f[m + 1] # << >>
      OBVIOUS
    <3>1. m + 1 \in 1 .. N /\ (m + 1) - 1 = m /\ m \in 0 .. N
      BY <1>1
    <3>2. f[m + 1] = IF changes[m + 1] \in K THEN Append(f[m], changes[m + 1]) ELSE f[m]
      BY <1>2, <3>1
    <3>3. f[m] \in Seq(T)
      BY <1>2, <3>1
    <3>4. \A x : Append(f[m], x) # << >>
      BY <3>3
    <3>5. CASE n = m + 1
      BY <2>0, <3>2, <3>4, <3>5
    <3>6. CASE n # m + 1
      <4>1. f[m] # << >>
        BY <2>2, <3>1, <3>6
      <4> QED  BY <3>2, <3>4, <4>1
    <3> QED  BY <3>5, <3>6
  <2> HIDE DEF A
  <2>3. Nat \subseteq A
    BY <2>1, <2>2, Induction
  <2> QED  BY <1>1, <2>3 DEF A
<1>5. f[N] \in Seq(T)
  BY <1>1, <1>2
<1>6. N = 0 => f[N] = << >>
  BY <1>2
<1> QED  BY <1>3, <1>4, <1>5, <1>6

\* The trees of a validation: the scanned one, and each the effect of a change on the one before.
LEMMA TreesAre ==
  ASSUME NEW parents, NEW T, NEW changes \in Seq(T), NEW owner
  PROVE  /\ Trees(parents, changes, owner)[0] = parents
         /\ \A n \in 1 .. Len(changes) :
              Trees(parents, changes, owner)[n] = Effect(Trees(parents, changes, owner)[n - 1], changes[n])
<1> DEFINE N == Len(changes)
           R(g) == [n \in 0 .. N |-> IF n = 0 THEN parents ELSE Effect(g[n - 1], changes[n])]
           trees == CHOOSE g : g = R(g)
<1>0. N \in Nat
  OBVIOUS
<1>1. Trees(parents, changes, owner) = trees
  BY DEF Trees
<1> HIDE DEF N
<1>2. \E g : g = R(g)
  <2> DEFINE P(k, g) == g[0] = parents /\ \A n \in 1 .. k : g[n] = Effect(g[n - 1], changes[n])
             A == {k \in Nat : \E g : P(k, g)}
  <2>1. 0 \in A
    <3> DEFINE g == [n \in 0 .. 0 |-> parents]
    <3>1. P(0, g)
      OBVIOUS
    <3> QED  BY <3>1
  <2>2. ASSUME NEW k \in Nat, k \in A PROVE k + 1 \in A
    <3>1. PICK g : P(k, g)
      BY <2>2
    <3> DEFINE last == Effect(g[k], changes[k + 1])
               h == [n \in 0 .. k + 1 |-> IF n <= k THEN g[n] ELSE last]
    <3> HIDE DEF last
    <3>2. h[0] = parents
      BY <3>1
    <3>3. ASSUME NEW n \in 1 .. k + 1 PROVE h[n] = Effect(h[n - 1], changes[n])
      <4>1. CASE n <= k
        <5>1. h[n] = g[n] /\ h[n - 1] = g[n - 1] /\ n \in 1 .. k
          BY <4>1
        <5>2. g[n] = Effect(g[n - 1], changes[n])
          BY <3>1, <5>1
        <5> QED  BY <5>1, <5>2, Zenon
      <4>2. CASE n = k + 1
        <5>1. h[n] = last /\ h[n - 1] = g[k]
          BY <4>2
        <5> QED  BY <4>2, <5>1, Zenon DEF last
      <4> QED  BY <4>1, <4>2
    <3> HIDE DEF h
    <3> QED  BY <3>2, <3>3
  <2> HIDE DEF A
  <2>3. N \in A
    BY <1>0, <2>1, <2>2, Induction
  <2>4. PICK g : P(N, g)
    BY <2>3 DEF A
  <2> DEFINE f == [n \in 0 .. N |-> g[n]]
  <2>5. ASSUME NEW n \in 0 .. N PROVE f[n] = R(f)[n]
    <3>1. CASE n = 0
      BY <2>4, <3>1
    <3>2. CASE n # 0
      <4>1. n \in 1 .. N /\ n - 1 \in 0 .. N
        BY <1>0, <3>2
      <4>2. f[n] = g[n] /\ f[n - 1] = g[n - 1]
        BY <4>1
      <4>3. g[n] = Effect(g[n - 1], changes[n])
        BY <2>4, <4>1
      <4>4. R(f)[n] = Effect(f[n - 1], changes[n])
        BY <3>2
      <4> QED  BY <4>2, <4>3, <4>4, Zenon
    <3> QED  BY <3>1, <3>2
  <2>6. f = [n \in 0 .. N |-> f[n]]
    OBVIOUS
  <2> HIDE DEF f
  <2>7. R(f) = [n \in 0 .. N |-> R(f)[n]]
    BY Zenon
  <2> HIDE DEF R
  <2>8. f = R(f)
    BY <2>5, <2>6, <2>7
  <2> QED  BY <2>8
<1>3. trees = R(trees)
  BY <1>2, Zenon
<1> HIDE DEF trees
<1>4. \A n \in 0 .. N : trees[n] = IF n = 0 THEN parents ELSE Effect(trees[n - 1], changes[n])
  BY <1>3, Zenon
<1>5. 0 \in 0 .. N /\ \A n \in 1 .. N : n \in 0 .. N /\ n # 0
  BY <1>0
<1>6. trees[0] = parents /\ \A n \in 1 .. N : trees[n] = Effect(trees[n - 1], changes[n])
  BY <1>4, <1>5, Zenon
<1> QED  BY <1>1, <1>6 DEF N

\* The trees along a list of changes each of which is permitted where it comes.
Along(t, changes, owner) ==
  \A n \in 1 .. Len(changes) :
    t[n] = Effect(t[n - 1], changes[n]) /\ Permits(t[n - 1], changes[n], owner)

\* What an undo has to bring about.
Undone(tree, entry) == \A c \in Range(entry.inverse) : tree[c.id] = ParentIn(entry.before, c.id)

\* An undo entry moves every position it names to the parent it had.
EntryOK(entry) ==
  /\ entry.inverse \in Seq(Range(entry.inverse))
  /\ \A c \in Range(entry.inverse) : c.op = "move" /\ c.reportTo = ParentIn(entry.before, c.id)

\* The moves of an undo entry, one after the other, bring every position where it was before.
LEMMA MovesUndo ==
  ASSUME NEW entry, EntryOK(entry), NEW t, NEW owner, Along(t, entry.inverse, owner)
  PROVE  Undone(t[Len(entry.inverse)], entry)
<1> DEFINE moves == entry.inverse
           N == Len(moves)
           Back(m, j) == moves[j].id \in DOMAIN t[m] /\ t[m][moves[j].id] = ParentIn(entry.before, moves[j].id)
           A == {m \in Nat : m <= N => \A j \in 1 .. m : Back(m, j)}
<1>1. N \in Nat /\ \A j \in 1 .. N : moves[j] \in Range(moves)
  BY DEF EntryOK
<1>2. \A j \in 1 .. N : moves[j].op = "move" /\ moves[j].reportTo = ParentIn(entry.before, moves[j].id)
  BY <1>1 DEF EntryOK
<1>3. \A c \in Range(moves) : \E j \in 1 .. N : c = moves[j]
  <2>1. DOMAIN moves = 1 .. N
    BY DEF EntryOK
  <2> QED  BY <2>1 DEF Range
<1>4. 0 \in A
  OBVIOUS
<1>5. ASSUME NEW m \in Nat, m \in A PROVE m + 1 \in A
  <2> SUFFICES ASSUME m + 1 <= N, NEW j \in 1 .. m + 1 PROVE Back(m + 1, j)
    OBVIOUS
  <2>1. m + 1 \in 1 .. N /\ (m + 1) - 1 = m
    BY <1>1
  <2> DEFINE c == moves[m + 1]
             old == t[m]
             new == t[m + 1]
  <2>2. new = Effect(old, c) /\ Permits(old, c, owner) /\ c.op = "move"
    BY <1>2, <2>1 DEF Along
  <2>3. \A i \in 1 .. m : Back(m, i)
    BY <1>5
  <2>4. c.reportTo = ParentIn(entry.before, c.id)
    BY <1>2, <2>1
  <2> HIDE DEF A, N, moves, c, old, new
  <2>5. new = [id \in DOMAIN old |-> IF id = c.id THEN c.reportTo ELSE old[id]]
    BY <2>2 DEF Effect
  <2>6. c.id \in DOMAIN old
    BY <2>2 DEF Permits
  <2>7. CASE j = m + 1
    <3>1. moves[j] = c
      BY <2>7 DEF c
    <3>2. c.id \in DOMAIN new /\ new[c.id] = ParentIn(entry.before, c.id)
      BY <2>4, <2>5, <2>6
    <3> QED  BY <3>1, <3>2 DEF new
  <2>8. CASE j # m + 1
    <3>1. j \in 1 .. m
      BY <2>8
    <3>2. moves[j].id \in DOMAIN old /\ old[moves[j].id] = ParentIn(entry.before, moves[j].id)
      BY <2>3, <3>1 DEF old
    <3>3. moves[j].id \in DOMAIN new /\ new[moves[j].id] = ParentIn(entry.before, moves[j].id)
      <4>1. CASE moves[j].id = c.id
        BY <2>4, <2>5, <3>2, <4>1
      <4>2. CASE moves[j].id # c.id
        BY <2>5, <3>2, <4>2
      <4> QED  BY <4>1, <4>2
    <3> QED  BY <3>3 DEF new
  <2> QED  BY <2>7, <2>8
<1> HIDE DEF A
<1>6. N \in A
  BY <1>1, <1>4, <1>5, Induction
<1>7. \A j \in 1 .. N : Back(N, j)
  BY <1>1, <1>6 DEF A
<1> HIDE DEF N
<1> QED  BY <1>3, <1>7 DEF Undone, N

-----------------------------------------------------------------------------
(***************************************************************************)
(* What the renames do.  The validation has computed a tree after every    *)
(* change; before each rename the directories are the tree it was computed *)
(* for (Planned), so that after the last they are the goal.  An undo's     *)
(* goal has every position it names where it was (Undone), and nobody      *)
(* moves anything until its entry is consumed.                             *)
(***************************************************************************)
Adjusts(q) == q.job.kind \in {"adjust", "undo"}

AfterEngine == {"reloading", "replacing", "layouting", "stamping", "ordering", "recording"}
Manifested == {"placing", "applying"} \cup AfterEngine
Undoing == {"undoing", "consuming"}

\* The locals of an adjustment and of an undo.
LocalOK(q) ==
  /\ q.at \in Manifested /\ Adjusts(q) => q.changes \in Seq(Range(q.changes))
  /\ q.at = "placing" => Adjusts(q) /\ q.n \in 1 .. Len(q.changes)
  /\ q.at \in Manifested \cup Undoing /\ q.job.kind = "undo" => EntryOK(q.entry)
  /\ q.at \in Manifested /\ q.job.kind = "undo" => q.changes = q.entry.inverse
  /\ q.at \in Undoing => q.job.kind = "undo"
  /\ q.at = "ordering" => q.job.kind # "restore"
  /\ q.at = "recording" => Adjusts(q)

Planned(q, tree) ==
  \E t : t[q.n - 1] = tree /\ t[Len(q.changes)] = q.goal /\ Along(t, q.changes, Owner[q.dir])

\* Where a mutation has come with the tree of its workspace.
Exact(q, tree) ==
  /\ q.at = "placing" => Planned(q, tree)
  /\ q.at = "applying" /\ Adjusts(q) => tree = q.goal
  /\ q.at \in {"placing", "applying"} /\ q.job.kind = "undo" => Undone(q.goal, q.entry)
  /\ q.at \in AfterEngine \cup Undoing /\ q.job.kind = "undo" => Undone(tree, q.entry)

TreeOf(q) == Parents(disk[q.dir].positions)

EntriesInv == \A w \in Workspaces : disk[w].undo # None => EntryOK(disk[w].undo)

LocalsInv == \A r \in Requests : LocalOK(req[r])

PlacesInv == ~ strayed => \A r \in Requests : Exact(req[r], TreeOf(req[r]))

ExactInv == EntriesInv /\ LocalsInv /\ PlacesInv

SameUndo == \A w \in Workspaces : disk'[w].undo = disk[w].undo

\* What writes directories, orders and models leaves the undo entries.
LEMMA UndoSame ==
  ASSUME DisksInv, NEW x, NEW v, NEW b,
         \/ disk' = [disk EXCEPT ![x].order = v] \/ disk' = [disk EXCEPT ![x].positions = v]
         \/ disk' = [disk EXCEPT ![x].applied = v] \/ disk' = [disk EXCEPT ![x] = AppliedFrom(@, v)]
         \/ PlacesBecome(x, v, b)
  PROVE  SameUndo
<1> SUFFICES ASSUME NEW w \in Workspaces PROVE disk'[w].undo = disk[w].undo
  BY DEF SameUndo
<1>1. DOMAIN disk = Workspaces /\ DOMAIN disk[w] = DiskFields
  BY DiskFacts
<1>2. \/ disk'[w] = disk[w]
      \/ disk'[w] = [disk[w] EXCEPT !.order = v] \/ disk'[w] = [disk[w] EXCEPT !.positions = v]
      \/ disk'[w] = [disk[w] EXCEPT !.applied = v] \/ disk'[w] = AppliedFrom(disk[w], v)
      \/ disk'[w] = [disk[w] EXCEPT !.positions = v, !.backup = b]
  BY <1>1 DEF PlacesBecome
<1>3. CASE disk'[w] = AppliedFrom(disk[w], v)
  <2> DEFINE m == Parents(v)
             g == DOMAIN disk[w].applied \ DOMAIN m
             d == [id \in DOMAIN disk[w].dismissed \cup g |->
                     IF id \in g THEN disk[w].applied[id] ELSE disk[w].dismissed[id]]
  <2>1. disk'[w] = [disk[w] EXCEPT !.applied = m, !.dismissed = d]
    BY <1>3 DEF AppliedFrom
  <2> HIDE DEF m, g, d
  <2> QED  BY <1>1, <2>1 DEF DiskFields
<1> QED  BY <1>1, <1>2, <1>3 DEF DiskFields

\* Every step of a mutation but the recording and the consuming leaves the undo entries.
LEMMA UndoMutates ==
  ASSUME RequestsInv, DisksInv, NEW r \in Requests, Mutate(r)
  PROVE  SameUndo \/ Record(r) \/ UndoConsume(r)
<1>0. disk' = disk => SameUndo
  BY DEF SameUndo
<1>1. CASE \/ EnterAdjust(r) \/ EnterUndo(r) \/ EnterHire(r) \/ HireRefused(r)
           \/ ReloadRead(r) \/ ReloadReplace(r) \/ ReloadLayout(r) \/ Publish(r) \/ Fails(r)
  BY <1>0, <1>1 DEF EnterAdjust, EnterUndo, EnterHire, HireRefused, ReloadRead, ReloadReplace,
                    ReloadLayout, Publish, Fails, disks
<1>2. CASE ReloadStamp(r) \/ Order(r) \/ OrderHired(r) \/ UndoOrder(r)
  <2>1. disk' = disk \/ \E x, v : disk' = [disk EXCEPT ![x].order = v]
    BY <1>2 DEF ReloadStamp, Order, OrderHired, UndoOrder, SetLayoutOrder
  <2> QED  BY <1>0, <2>1, UndoSame
<1>3. CASE EnterRestore(r) \/ Place(r)
  <2>1. disk' = disk \/ \E x, v, b : PlacesBecome(x, v, b)
    <3>1. CASE EnterRestore(r)
      <4>0. open \in Workspaces /\ DOMAIN disk = Workspaces /\ DOMAIN disk[open] = DiskFields
        BY <3>1, DiskFacts DEF EnterRestore, Enters, Admitted, RequestsInv, RequestOK
      <4>1. \/ disk' = disk
            \/ \E v, b : disk' = [disk EXCEPT ![open].positions = @ \cup v, ![open].backup = @ \ {b}]
        BY <3>1 DEF EnterRestore
      <4>2. ASSUME NEW v, NEW b, disk' = [disk EXCEPT ![open].positions = @ \cup v, ![open].backup = @ \ {b}]
            PROVE  PlacesBecome(open, disk[open].positions \cup v, disk[open].backup \ {b})
        BY <4>0, <4>2 DEF PlacesBecome
      <4> QED  BY <4>1, <4>2
    <3>2. CASE Place(r)
      <4>1. disk' = disk \/ \E v, b : Placed(r, v, b)
        BY <3>2 DEF Place
      <4> QED  BY <4>1 DEF Placed, PlacesBecome
    <3> QED  BY <1>3, <3>1, <3>2
  <2> QED  BY <1>0, <2>1, UndoSame
<1>4. CASE Stage(r)
  <2>1. req[r].dir \in Workspaces /\ DOMAIN disk = Workspaces
    BY <1>4, DiskFacts DEF Stage, RequestsInv, RequestOK
  <2>2. disk' = disk \/ \E x : disk' = [disk EXCEPT ![req[r].dir].positions = @ \cup {x}]
    BY <1>4 DEF Stage, SkeletonWritten
  <2>3. disk' = disk \/ \E v : disk' = [disk EXCEPT ![req[r].dir].positions = v]
    BY <2>1, <2>2
  <2> QED  BY <1>0, <2>3, UndoSame
<1>5. CASE EngineApplies(r)
  <2>1. PICK w \in Workspaces : w = req[r].dir
    BY <1>5 DEF EngineApplies, RequestsInv, RequestOK
  <2>2. PICK v : v = disk[w].positions
    OBVIOUS
  <2>3. disk' = [disk EXCEPT ![w] = AppliedFrom(@, v)]
    BY <1>5, <2>1, <2>2 DEF EngineApplies
  <2> QED  BY <2>3, UndoSame
<1>6. CASE EngineRefuses(r) \/ EngineTimesOut(r)
  <2>1. PICK w \in Workspaces : w = req[r].dir
    BY <1>6 DEF EngineRefuses, EngineTimesOut, RequestsInv, RequestOK
  <2>2. PICK v : v = IF req[r].made = None THEN disk[w].positions
                     ELSE disk[w].positions \ Subtree(disk[w].positions, req[r].made)
    OBVIOUS
  <2>3. disk' = [disk EXCEPT ![w].positions = v]
    BY <1>6, <2>1, <2>2, DiskFacts DEF EngineRefuses, EngineTimesOut, RolledBack
  <2> QED  BY <2>3, UndoSame
<1> QED  BY <1>1, <1>2, <1>3, <1>4, <1>5, <1>6 DEF Mutate

\* Undo entries name moves back, however mutations write and clear them.
LEMMA EntriesMutate ==
  ASSUME RequestsInv, DisksInv, EntriesInv, LocalsInv, NEW r \in Requests, Mutate(r)
  PROVE  EntriesInv'
<1>0. None' = None
  OBVIOUS
<1>1. CASE SameUndo
  BY <1>1 DEF EntriesInv, SameUndo, EntryOK
<1>2. CASE UndoConsume(r)
  <2> SUFFICES ASSUME NEW w \in Workspaces, disk'[w].undo # None PROVE EntryOK(disk'[w].undo)
    BY DEF EntriesInv
  <2>1. disk' = [disk EXCEPT ![req[r].lock].undo = None]
    BY <1>2 DEF UndoConsume
  <2>2. DOMAIN disk = Workspaces /\ DOMAIN disk[w] = DiskFields
    BY DiskFacts
  <2>3. disk'[w] = disk[w] \/ disk'[w] = [disk[w] EXCEPT !.undo = None]
    BY <2>1, <2>2
  <2>4. disk'[w].undo = disk[w].undo
    BY <2>2, <2>3 DEF DiskFields
  <2> QED  BY <2>4 DEF EntriesInv
<1>3. CASE Record(r)
  <2> SUFFICES ASSUME NEW w \in Workspaces, disk'[w].undo # None PROVE EntryOK(disk'[w].undo)
    BY DEF EntriesInv
  <2> DEFINE entry == [inverse |-> InverseMoves(r), order |-> req[r].prev.order,
                       before |-> req[r].prev.roles]
             deletes == \E c \in Range(req[r].changes) : c.op = "delete"
  <2>1. /\ disk' = [disk EXCEPT ![req[r].dir].undo = IF deletes THEN None ELSE entry]
        /\ req[r].at = "recording"
    BY <1>3 DEF Record
  <2> HIDE DEF deletes
  <2>2. DOMAIN disk = Workspaces /\ DOMAIN disk[w] = DiskFields
    BY DiskFacts
  <2>3. disk'[w].undo \in {disk[w].undo, None, entry}
    <3> HIDE DEF entry
    <3>1. disk'[w] \in {disk[w], [disk[w] EXCEPT !.undo = None], [disk[w] EXCEPT !.undo = entry]}
      BY <2>1, <2>2
    <3> QED  BY <2>2, <3>1 DEF DiskFields
  <2>4. EntryOK(entry) \/ ~ Adjusts(req[r])
    <3> SUFFICES ASSUME Adjusts(req[r]) PROVE EntryOK(entry)
      OBVIOUS
    <3> DEFINE changes == req[r].changes
               moves == Structural(changes)
               before == req[r].prev.roles
               inverse == [n \in DOMAIN moves |->
                             [op |-> "move", id |-> moves[n].id, reportTo |-> ParentIn(before, moves[n].id)]]
    <3>1. changes \in Seq(Range(changes))
      BY <2>1 DEF LocalsInv, LocalOK, Manifested, AfterEngine
    <3>2. moves \in Seq(Range(changes))
      BY <3>1, StructuralIs
    <3>3. entry.inverse = inverse /\ entry.before = before
      BY DEF InverseMoves
    <3> HIDE DEF changes, moves, before, entry
    <3>4. DOMAIN moves = 1 .. Len(moves) /\ Len(moves) \in Nat
      BY <3>2
    <3>5. ASSUME NEW c \in Range(inverse) PROVE c.op = "move" /\ c.reportTo = ParentIn(before, c.id)
      <4>1. PICK n \in DOMAIN moves : c = inverse[n]
        BY <3>5 DEF Range
      <4> QED  BY <4>1
    <3>6. inverse \in Seq(Range(inverse))
      <4>1. inverse \in [1 .. Len(moves) -> Range(inverse)]
        BY <3>4 DEF Range
      <4> HIDE DEF inverse
      <4> QED  BY <3>4, <4>1
    <3> QED  BY <3>3, <3>5, <3>6 DEF EntryOK
  <2>5. Adjusts(req[r])
    BY <2>1 DEF LocalsInv, LocalOK
  <2> QED  BY <2>3, <2>4, <2>5 DEF EntriesInv
<1> QED  BY <1>1, <1>2, <1>3, UndoMutates

\* What a job asks for: a kind that is handled, and for an adjustment a manifest.
LEMMA JobKinds ==
  ASSUME NEW job \in Jobs
  PROVE  /\ job.kind \in {"adjust", "undo", "restore", "hire"}
         /\ job.kind = "adjust" => job.changes \in Seq(Range(job.changes))
<1>1. CASE job \in [kind : {"adjust"}, changes : Manifests]
  BY <1>1, OrgAssumption
<1>2. CASE job \in [kind : {"undo"}] \cup [kind : {"restore"}, id : Restores]
  BY <1>2
<1>3. CASE job \in {[kind |-> "hire", id |-> h.id, reportTo |-> h.reportTo] : h \in Hires}
  BY <1>3
<1> QED  BY <1>1, <1>2, <1>3 DEF Jobs

\* Everything holds of a mutation that has nothing left to place and nothing to undo.
Idle(q) ==
  \/ q.at \in {"new", "waiting", "validating", "answering", "done"}
  \/ q.at = "applying" /\ ~ Adjusts(q)

\* Of such a mutation there is nothing to say.
LEMMA IdleOK ==
  ASSUME NEW q, Idle(q), NEW tree
  PROVE  LocalOK(q) /\ Exact(q, tree)
<1>1. q.at = "applying" => ~ Adjusts(q) /\ q.job.kind # "undo"
  BY DEF Idle, Adjusts
<1> QED  BY <1>1 DEF Idle, LocalOK, Exact, Manifested, AfterEngine, Undoing

\* A mutation that carries its locals on, from where its renames are done.
CarriedOn(q, p) ==
  /\ p.job = q.job /\ p.dir = q.dir /\ p.changes = q.changes /\ p.goal = q.goal /\ p.entry = q.entry
  /\ p.at \notin {"placing", "applying"}
  /\ p.at \in AfterEngine => q.at \in {"applying"} \cup AfterEngine
  /\ p.at \in Undoing => p.job.kind = "undo" /\ q.at \in AfterEngine \cup Undoing
  /\ p.at = "ordering" => p.job.kind # "restore"
  /\ p.at = "recording" => Adjusts(p)

\* Then it has still come with the tree it had come with.
LEMMA CarriedOK ==
  ASSUME NEW q, NEW p, LocalOK(q), CarriedOn(q, p), NEW tree
  PROVE  LocalOK(p) /\ (Exact(q, tree) => Exact(p, tree))
<1>1. /\ p.job = q.job /\ p.dir = q.dir /\ p.changes = q.changes /\ p.goal = q.goal /\ p.entry = q.entry
      /\ p.at \notin {"placing", "applying"}
  BY DEF CarriedOn
<1>2. p.at \in Manifested => p.at \in AfterEngine /\ q.at \in Manifested
  BY <1>1 DEF CarriedOn, Manifested, AfterEngine
<1>3. p.at \in Undoing => p.job.kind = "undo" /\ q.at \in AfterEngine \cup Undoing
  BY DEF CarriedOn
<1>4. Adjusts(p) = Adjusts(q)
  BY <1>1 DEF Adjusts
<1>5. LocalOK(p)
  <2>1. p.at \in Manifested /\ Adjusts(p) => p.changes \in Seq(Range(p.changes))
    BY <1>1, <1>2, <1>4 DEF LocalOK
  <2>2. p.at \in Manifested \cup Undoing /\ p.job.kind = "undo" => EntryOK(p.entry)
    BY <1>1, <1>2, <1>3 DEF LocalOK, Manifested
  <2>3. p.at \in Manifested /\ p.job.kind = "undo" => p.changes = p.entry.inverse
    BY <1>1, <1>2 DEF LocalOK
  <2> QED  BY <1>1, <1>3, <2>1, <2>2, <2>3 DEF LocalOK, CarriedOn
<1>6. ASSUME Exact(q, tree) PROVE Exact(p, tree)
  <2>1. ASSUME p.at \in AfterEngine \cup Undoing, p.job.kind = "undo" PROVE Undone(tree, p.entry)
    <3>1. q.at \in {"applying"} \cup AfterEngine \cup Undoing
      BY <2>1 DEF CarriedOn
    <3>2. CASE q.at = "applying"
      BY <1>1, <1>6, <2>1, <3>2 DEF Exact, Adjusts
    <3>3. CASE q.at # "applying"
      BY <1>1, <1>6, <2>1, <3>1, <3>3 DEF Exact
    <3> QED  BY <3>2, <3>3
  <2> QED  BY <1>1, <2>1 DEF Exact
<1> QED  BY <1>5, <1>6

\* The steps between the engine and the answer.
Passes(r) ==
  \/ EngineApplies(r) \/ ReloadRead(r) \/ ReloadReplace(r) \/ ReloadLayout(r) \/ ReloadStamp(r)
  \/ Order(r) \/ OrderHired(r) \/ Record(r) \/ UndoOrder(r) \/ UndoConsume(r)

\* A step that only names the next place carries the locals on.
LEMMA GoesCarrying ==
  ASSUME RequestsInv, NEW r \in Requests, NEW at, To(r, at)
  PROVE  /\ req'[r].at = at /\ req'[r].job = req[r].job /\ req'[r].dir = req[r].dir
         /\ req'[r].changes = req[r].changes /\ req'[r].goal = req[r].goal /\ req'[r].entry = req[r].entry
<1> DEFINE q == [req[r] EXCEPT !.at = at]
<1>1. req'[r] = q
  BY GoesOn DEF To, RequestsInv
<1>2. DOMAIN req[r] = Fields
  BY DEF RequestsInv, RequestOK
<1> QED  BY <1>1, <1>2 DEF Fields

\* Where the reload leads.
LEMMA AfterReloadIs ==
  ASSUME RequestsInv, NEW r \in Requests, Inside(r)
  PROVE  /\ AfterReload(r) \in {"answering", "ordering", "recording"}
         /\ AfterReload(r) = "ordering" => req[r].job.kind # "restore"
         /\ AfterReload(r) = "recording" => Adjusts(req[r])
<1>1. req[r].job.kind \in {"adjust", "undo", "restore", "hire"}
  BY JobKinds DEF RequestsInv, RequestOK, Inside
<1>2. CASE req[r].job.kind \in {"restore", "hire"}
  BY <1>2 DEF AfterReload
<1>3. CASE req[r].job.kind \notin {"restore", "hire"}
  <2>1. AfterReload(r) = IF Reorders(req[r].changes) = {} THEN "recording" ELSE "ordering"
    BY <1>3 DEF AfterReload
  <2> QED  BY <1>1, <1>3, <2>1 DEF Adjusts
<1> QED  BY <1>2, <1>3

\* Between the engine and the answer a mutation carries its locals on.
LEMMA PassesOn ==
  ASSUME RequestsInv, LocalsInv, NEW r \in Requests, Passes(r)
  PROVE  CarriedOn(req[r], req'[r])
<1>0. LocalOK(req[r]) /\ DOMAIN req[r] = Fields
  BY DEF LocalsInv, RequestsInv, RequestOK
<1>1. ASSUME NEW at, To(r, at), at \notin {"placing", "applying"},
             at \in AfterEngine => req[r].at \in {"applying"} \cup AfterEngine,
             at \in Undoing => req[r].job.kind = "undo" /\ req[r].at \in AfterEngine \cup Undoing,
             at = "ordering" => req[r].job.kind # "restore",
             at = "recording" => Adjusts(req[r])
      PROVE  CarriedOn(req[r], req'[r])
  <2>1. /\ req'[r].at = at /\ req'[r].job = req[r].job /\ req'[r].dir = req[r].dir
        /\ req'[r].changes = req[r].changes /\ req'[r].goal = req[r].goal /\ req'[r].entry = req[r].entry
    BY <1>1, GoesCarrying
  <2> QED  BY <1>1, <2>1 DEF CarriedOn, Adjusts
<1>2. CASE EngineApplies(r)
  BY <1>1, <1>2 DEF EngineApplies, AfterEngine, Undoing
<1>3. CASE ReloadRead(r)
  <2> DEFINE model == disk[open].applied
             q == [req[r] EXCEPT !.at = "replacing", !.from = open, !.loaded = model]
  <2>1. Goes(r, q) /\ req[r].at = "reloading"
    BY <1>3 DEF ReloadRead
  <2> HIDE DEF model
  <2>2. req'[r] = q
    BY <2>1, GoesOn DEF RequestsInv
  <2>3. /\ q.at = "replacing" /\ q.job = req[r].job /\ q.dir = req[r].dir
        /\ q.changes = req[r].changes /\ q.goal = req[r].goal /\ q.entry = req[r].entry
    BY <1>0 DEF Fields
  <2> HIDE DEF q
  <2> QED  BY <2>1, <2>2, <2>3 DEF CarriedOn, AfterEngine, Undoing
<1>4. CASE ReloadReplace(r)
  BY <1>1, <1>4 DEF ReloadReplace, AfterEngine, Undoing
<1>5. CASE ReloadLayout(r)
  <2>0. req[r].at = "layouting" /\ Inside(r)
    BY <1>5 DEF ReloadLayout, Inside
  <2>1. CASE To(r, AfterReload(r))
    <3>1. PICK at : at = AfterReload(r)
      OBVIOUS
    <3>2. /\ at \in {"answering", "ordering", "recording"}
          /\ at = "ordering" => req[r].job.kind # "restore"
          /\ at = "recording" => Adjusts(req[r])
      BY <2>0, <3>1, AfterReloadIs
    <3>3. To(r, at)
      BY <2>1, <3>1
    <3> QED  BY <1>1, <2>0, <3>2, <3>3 DEF AfterEngine, Undoing
  <2>2. CASE ~ To(r, AfterReload(r))
    <3> DEFINE fitting == Reconcile(req[r].loaded, disk[req[r].from].order)
               q == [req[r] EXCEPT !.at = "stamping", !.pending = fitting]
    <3>1. Goes(r, q)
      BY <1>5, <2>2 DEF ReloadLayout
    <3> HIDE DEF fitting
    <3>2. req'[r] = q
      BY <3>1, GoesOn DEF RequestsInv
    <3>3. /\ q.at = "stamping" /\ q.job = req[r].job /\ q.dir = req[r].dir
          /\ q.changes = req[r].changes /\ q.goal = req[r].goal /\ q.entry = req[r].entry
      BY <1>0 DEF Fields
    <3> HIDE DEF q
    <3> QED  BY <2>0, <3>2, <3>3 DEF CarriedOn, AfterEngine, Undoing
  <2> QED  BY <2>1, <2>2
<1>6. CASE ReloadStamp(r)
  <2>0. req[r].at = "stamping" /\ Inside(r)
    BY <1>6 DEF ReloadStamp, Inside
  <2>1. PICK at : at = AfterReload(r)
    OBVIOUS
  <2>2. /\ at \in {"answering", "ordering", "recording"}
        /\ at = "ordering" => req[r].job.kind # "restore"
        /\ at = "recording" => Adjusts(req[r])
    BY <2>0, <2>1, AfterReloadIs
  <2> DEFINE q == [req[r] EXCEPT !.at = at, !.pending = None]
  <2>3. Goes(r, q)
    BY <1>6, <2>1 DEF ReloadStamp
  <2>4. req'[r] = q
    BY <2>3, GoesOn DEF RequestsInv
  <2>5. /\ q.at = at /\ q.job = req[r].job /\ q.dir = req[r].dir
        /\ q.changes = req[r].changes /\ q.goal = req[r].goal /\ q.entry = req[r].entry
    BY <1>0 DEF Fields
  <2> HIDE DEF q
  <2> QED  BY <2>0, <2>2, <2>4, <2>5 DEF CarriedOn, AfterEngine, Undoing, Adjusts
<1>7. CASE Order(r)
  <2>1. To(r, "recording") /\ req[r].at = "ordering" /\ req[r].job.kind # "hire"
    BY <1>7 DEF Order
  <2>2. req[r].job.kind \in {"adjust", "undo", "restore", "hire"}
    BY <2>1, JobKinds DEF RequestsInv, RequestOK
  <2>3. Adjusts(req[r])
    BY <1>0, <2>1, <2>2 DEF LocalOK, Adjusts
  <2> QED  BY <1>1, <2>1, <2>3 DEF AfterEngine, Undoing
<1>8. CASE OrderHired(r)
  BY <1>1, <1>8 DEF OrderHired, AfterEngine, Undoing
<1>9. CASE Record(r)
  <2>1. PICK at : at = IF req[r].job.kind = "undo" THEN "undoing" ELSE "answering"
    OBVIOUS
  <2>2. To(r, at) /\ req[r].at = "recording"
    BY <1>9, <2>1 DEF Record
  <2> QED  BY <1>1, <2>1, <2>2 DEF AfterEngine, Undoing
<1>10. CASE UndoOrder(r)
  BY <1>0, <1>1, <1>10 DEF UndoOrder, LocalOK, AfterEngine, Undoing
<1>11. CASE UndoConsume(r)
  BY <1>1, <1>11 DEF UndoConsume, AfterEngine, Undoing
<1> QED  BY <1>2, <1>3, <1>4, <1>5, <1>6, <1>7, <1>8, <1>9, <1>10, <1>11 DEF Passes

\* Everything that holds of a mutation after a step of its own.
Right(r) == LocalOK(req[r]) /\ (~ strayed => Exact(req[r], TreeOf(req[r])))

\* An answer leaves nothing to say.
LEMMA AnswersRight ==
  ASSUME NEW r \in Requests, Answered(r)
  PROVE  Right(r)'
<1>1. Idle(req'[r])
  BY DEF Answered, Idle
<1> QED  BY <1>1, IdleOK DEF Right

\* The validation of an adjustment has computed the trees along which the renames go.
LEMMA StartsRight ==
  ASSUME RequestsInv, NEW r \in Requests, NEW changes, changes \in Seq(Range(changes)), NEW entry,
         Enters(r), StartAdjust(r, changes, entry), disk' = disk, Adjusts(req[r]),
         req[r].job.kind = "undo" => EntryOK(entry) /\ changes = entry.inverse /\ changes # << >>
  PROVE  Right(r)'
<1>1. CASE Answer(r)
  BY <1>1, AnswersIt, AnswersRight DEF RequestsInv
<1>2. CASE ~ Answer(r)
  <2> DEFINE at == IF Structural(changes) = << >> THEN "ordering" ELSE "placing"
             parents == Parents(disk[open].positions)
             t == Trees(parents, changes, Owner[open])
             goal == t[Len(changes)]
             prev == [roles |-> roles, order |-> layout]
             q == [req[r] EXCEPT !.at = at, !.dir = open, !.changes = changes, !.n = 1,
                                 !.entry = entry, !.goal = goal, !.prev = prev]
  <2>1. Goes(r, q) /\ Valid(parents, changes, Owner[open])
    BY <1>2 DEF StartAdjust
  <2>2. t[0] = parents /\ \A n \in 1 .. Len(changes) : t[n] = Effect(t[n - 1], changes[n])
    BY TreesAre
  <2>3. \A n \in 1 .. Len(changes) : Permits(t[n - 1], changes[n], Owner[open])
    BY <2>1 DEF Valid
  <2>4. Along(t, changes, Owner[open])
    <3> HIDE DEF t, parents
    <3> QED  BY <2>2, <2>3 DEF Along
  <2>5. at \in {"ordering", "placing"} /\ (at = "placing" <=> Structural(changes) # << >>)
    OBVIOUS
  <2>6. goal = t[Len(changes)]
    OBVIOUS
  <2> HIDE DEF at, goal, prev, t
  <2>7. DOMAIN req[r] = Fields
    BY DEF RequestsInv, RequestOK
  <2>8. /\ q.at = at /\ q.job = req[r].job /\ q.dir = open /\ q.changes = changes
        /\ q.n = 1 /\ q.entry = entry /\ q.goal = goal
    BY <2>7 DEF Fields
  <2> HIDE DEF q
  <2>9. req'[r] = q
    BY <2>1, GoesOn DEF RequestsInv
  <2>10. Adjusts(q) /\ Len(changes) \in Nat
    BY <2>8 DEF Adjusts
  <2>11. req[r].job.kind = "undo" => at = "placing"
    <3> SUFFICES ASSUME req[r].job.kind = "undo" PROVE at = "placing"
      OBVIOUS
    <3>1. /\ EntryOK(entry) /\ changes = entry.inverse /\ changes # << >>
      OBVIOUS
    <3>2. Len(changes) # 0 /\ changes[1] \in Range(changes)
      BY <3>1
    <3>3. changes[1].op = "move" /\ 1 \in 1 .. Len(changes)
      BY <3>1, <3>2, <2>10 DEF EntryOK
    <3>4. changes[1].op # "reorder"
      BY <3>3
    <3>5. Structural(changes) # << >>
      BY <3>3, <3>4, StructuralIs
    <3> QED  BY <2>5, <3>5
  <2>12. at = "placing" => 1 \in 1 .. Len(changes)
    <3>1. Len(changes) = 0 => Structural(changes) = << >>
      BY StructuralIs
    <3> QED  BY <2>5, <2>10, <3>1
  <2>13. LocalOK(q)
    BY <2>5, <2>8, <2>10, <2>12 DEF LocalOK, Manifested, AfterEngine, Undoing, Adjusts
  <2>14. TreeOf(req[r])' = parents
    BY <2>8, <2>9 DEF TreeOf
  <2> HIDE DEF parents
  <2>15. Planned(q, parents)
    <3>1. q.n - 1 = 0
      BY <2>8
    <3>2. t[q.n - 1] = parents /\ t[Len(q.changes)] = q.goal /\ Along(t, q.changes, Owner[q.dir])
      BY <2>2, <2>4, <2>6, <2>8, <3>1
    <3> QED  BY <3>2 DEF Planned
  <2>16. req[r].job.kind = "undo" => Undone(goal, entry)
    BY <2>4, <2>6, MovesUndo
  <2>17. Exact(q, parents)
    BY <2>5, <2>8, <2>11, <2>15, <2>16 DEF Exact, AfterEngine, Undoing
  <2> QED  BY <2>9, <2>13, <2>14, <2>17 DEF Right
<1> QED  BY <1>1, <1>2

\* A mutation that enters starts right.
LEMMA EntersRight ==
  ASSUME RequestsInv, DisksInv, EntriesInv, NEW r \in Requests,
         EnterAdjust(r) \/ EnterUndo(r) \/ EnterRestore(r) \/ EnterHire(r)
  PROVE  Right(r)'
<1>0. Enters(r) /\ req[r].at = "waiting"
  BY DEF EnterAdjust, EnterUndo, EnterRestore, EnterHire, Enters, Admitted
<1>a. /\ req[r].job \in Jobs /\ open \in Workspaces /\ req[r].lock \in Workspaces
      /\ DOMAIN req[r] = Fields
  BY <1>0 DEF RequestsInv, RequestOK
<1>b. ASSUME Answer(r) PROVE Right(r)'
  BY <1>b, AnswersIt, AnswersRight DEF RequestsInv
<1>1. CASE EnterAdjust(r)
  <2> DEFINE changes == req[r].job.changes
  <2>1. req[r].job.kind = "adjust" /\ StartAdjust(r, changes, None) /\ disk' = disk
    BY <1>1 DEF EnterAdjust, disks
  <2>2. changes \in Seq(Range(changes)) /\ Adjusts(req[r])
    BY <1>a, <2>1, JobKinds DEF Adjusts
  <2> HIDE DEF changes
  <2> QED  BY <1>0, <2>1, <2>2, StartsRight
<1>2. CASE EnterUndo(r)
  <2>1. PICK entry : entry = disk[req[r].lock].undo
    OBVIOUS
  <2>2. /\ req[r].job.kind = "undo" /\ disk' = disk
        /\ \/ Answer(r)
           \/ entry # None /\ entry.inverse # << >> /\ StartAdjust(r, entry.inverse, entry)
           \/ /\ entry # None /\ entry.inverse = << >>
              /\ Goes(r, [req[r] EXCEPT !.at = "undoing", !.dir = open, !.entry = entry])
    BY <1>2, <2>1 DEF EnterUndo, disks
  <2>3. entry # None => EntryOK(entry)
    BY <1>a, <2>1 DEF EntriesInv
  <2>4. CASE entry # None /\ entry.inverse # << >> /\ StartAdjust(r, entry.inverse, entry)
    <3>1. PICK changes : changes = entry.inverse
      OBVIOUS
    <3>2. changes \in Seq(Range(changes)) /\ Adjusts(req[r])
      BY <2>2, <2>3, <2>4, <3>1 DEF Adjusts, EntryOK
    <3> QED  BY <1>0, <2>2, <2>3, <2>4, <3>1, <3>2, StartsRight
  <2>5. CASE /\ entry # None /\ entry.inverse = << >>
             /\ Goes(r, [req[r] EXCEPT !.at = "undoing", !.dir = open, !.entry = entry])
    <3> DEFINE q == [req[r] EXCEPT !.at = "undoing", !.dir = open, !.entry = entry]
    <3>1. req'[r] = q
      BY <2>5, GoesOn DEF RequestsInv
    <3>2. q.at = "undoing" /\ q.job = req[r].job /\ q.entry = entry
      BY <1>a DEF Fields
    <3> HIDE DEF q
    <3>3. LocalOK(q)
      BY <2>2, <2>3, <2>5, <3>2 DEF LocalOK, Manifested, AfterEngine, Undoing
    <3>4. Range(entry.inverse) = {}
      BY <2>5 DEF Range
    <3>5. ASSUME NEW tree PROVE Exact(q, tree)
      BY <3>2, <3>4 DEF Exact, Undone, AfterEngine, Undoing
    <3> QED  BY <3>1, <3>3, <3>5 DEF Right
  <2> QED  BY <1>b, <2>2, <2>4, <2>5
<1>3. CASE EnterRestore(r) \/ EnterHire(r)
  <2>1. PICK at \in {"applying", "validating"} : Answer(r) \/ EntersAt(r, at)
    BY <1>3 DEF EnterRestore, EnterHire, EntersAt
  <2>2. ~ Adjusts(req[r])
    BY <1>3 DEF EnterRestore, EnterHire, Adjusts
  <2>3. CASE EntersAt(r, at)
    <3> DEFINE q == [req[r] EXCEPT !.at = at, !.dir = open]
    <3>1. req'[r] = q
      BY <2>3, GoesOn DEF RequestsInv, EntersAt
    <3>2. q.at = at /\ q.job = req[r].job
      BY <1>a DEF Fields
    <3> HIDE DEF q
    <3>3. Idle(q)
      BY <2>2, <3>2 DEF Idle, Adjusts
    <3> QED  BY <3>1, <3>3, IdleOK DEF Right
  <2> QED  BY <1>b, <2>1, <2>3
<1> QED  BY <1>1, <1>2, <1>3

\* One rename (or none, for a reorder) does to the tree what its change does.
LEMMA PlaceIsExact ==
  ASSUME RequestsInv, DisksInv, NEW r \in Requests, Place(r), ~ Answer(r),
         NEW owner, Permits(TreeOf(req[r]), req[r].changes[req[r].n], owner)
  PROVE  /\ \E dirs, backup : Placed(r, dirs, backup)
         /\ Parents(disk'[req[r].dir].positions) = Effect(TreeOf(req[r]), req[r].changes[req[r].n])
<1>1. PICK w \in Workspaces : w = req[r].dir
  BY DEF Place, RequestsInv, RequestOK
<1>2. PICK c : c = req[r].changes[req[r].n]
  OBVIOUS
<1> DEFINE dirs == disk[w].positions
           backup == disk[w].backup
           source == DirOf(dirs, c.id)
           destination == PlaceUnder(dirs, c.reportTo, c.id)
           found == ~ ScanRefuses(dirs) /\ c.id \in ScannedIds(dirs)
           b == [id |-> c.id, tree |-> Renamed(Subtree(dirs, source), source, <<c.id>>)]
<1>3. dirs \in SUBSET Paths /\ Closed(dirs)
  BY DiskFacts
<1>4. \/ c.op = "reorder" /\ Placed(r, dirs, backup)
      \/ c.op = "move" /\ found /\ destination = source /\ Placed(r, dirs, backup)
      \/ /\ c.op = "move" /\ found /\ ~ Within(destination, source)
         /\ Placed(r, Renamed(dirs, source, destination), backup)
      \/ c.op = "delete" /\ found /\ Placed(r, dirs \ Subtree(dirs, source), backup \cup {b})
  BY <1>1, <1>2 DEF Place
<1>5. Permits(Parents(dirs), c, owner) /\ TreeOf(req[r]) = Parents(dirs)
  BY <1>1, <1>2 DEF TreeOf
<1>6. found => Unique(dirs)
  BY DEF ScanRefuses, Unique
<1>7. ASSUME NEW new, NEW left, Placed(r, new, left) PROVE disk'[w].positions = new
  <2>1. PlacesBecome(w, new, left)
    BY <1>1, <1>7 DEF Placed, PlacesBecome
  <2> QED  BY <2>1, PlacesOnly
<1>8. Parents(disk'[w].positions) = Effect(Parents(dirs), c)
  <2>1. CASE c.op = "reorder" /\ Placed(r, dirs, backup)
    <3>1. Effect(Parents(dirs), c) = Parents(dirs)
      BY <2>1 DEF Effect
    <3>2. disk'[w].positions = dirs
      BY <1>7, <2>1
    <3> QED  BY <3>1, <3>2
  <2>2. CASE c.op = "move" /\ found /\ destination = source /\ Placed(r, dirs, backup)
    <3>1. Known(Parents(dirs), c.reportTo)
      BY <1>5, <2>2 DEF Permits
    <3>2. Parents(dirs) = Effect(Parents(dirs), c)
      <4> HIDE DEF dirs
      <4> QED  BY <1>3, <1>6, <2>2, <3>1, MoveIsExact
    <3>3. disk'[w].positions = dirs
      BY <1>7, <2>2
    <3> QED  BY <3>2, <3>3
  <2>3. CASE /\ c.op = "move" /\ found /\ ~ Within(destination, source)
             /\ Placed(r, Renamed(dirs, source, destination), backup)
    <3>1. Known(Parents(dirs), c.reportTo)
      BY <1>5, <2>3 DEF Permits
    <3>2. disk'[w].positions = Renamed(dirs, source, destination)
      BY <1>7, <2>3
    <3> HIDE DEF dirs
    <3>3. Renamed(dirs, source, destination) \subseteq Paths
      BY <1>3, <2>3, MoveKeeps DEF TreeOK
    <3>4. Parents(Renamed(dirs, source, destination)) = Effect(Parents(dirs), c)
      BY <1>3, <1>6, <2>3, <3>1, <3>3, MoveIsExact
    <3> QED  BY <3>2, <3>4
  <2>4. CASE c.op = "delete" /\ found /\ Placed(r, dirs \ Subtree(dirs, source), backup \cup {b})
    <3>1. disk'[w].positions = dirs \ Subtree(dirs, source)
      BY <1>7, <2>4
    <3> HIDE DEF dirs
    <3>2. Parents(dirs \ Subtree(dirs, source)) = Effect(Parents(dirs), c)
      BY <1>3, <1>6, <2>4, DeleteIsExact
    <3> QED  BY <3>1, <3>2
  <2> QED  BY <1>4, <2>1, <2>2, <2>3, <2>4
<1>9. \E new, left : Placed(r, new, left)
  BY <1>4
<1> QED  BY <1>1, <1>2, <1>5, <1>8, <1>9

\* The locals of a materialized change.
LEMMA PlacedLocals ==
  ASSUME RequestsInv, NEW r \in Requests, NEW dirs, NEW backup, Placed(r, dirs, backup)
  PROVE  /\ req'[r].at = IF req[r].n = Len(req[r].changes) THEN "applying" ELSE req[r].at
         /\ req'[r].n = req[r].n + 1
         /\ req'[r].job = req[r].job /\ req'[r].dir = req[r].dir /\ req'[r].changes = req[r].changes
         /\ req'[r].goal = req[r].goal /\ req'[r].entry = req[r].entry
<1> DEFINE at == IF req[r].n = Len(req[r].changes) THEN "applying" ELSE req[r].at
           n == req[r].n + 1
           q == [req[r] EXCEPT !.n = n, !.at = at]
<1>1. Goes(r, q)
  BY DEF Placed
<1>2. req'[r] = q
  BY <1>1, GoesOn DEF RequestsInv
<1>3. DOMAIN req[r] = Fields
  BY DEF RequestsInv, RequestOK
<1> HIDE DEF at, n
<1>4. /\ q.at = at /\ q.n = n /\ q.job = req[r].job /\ q.dir = req[r].dir
      /\ q.changes = req[r].changes /\ q.goal = req[r].goal /\ q.entry = req[r].entry
  BY <1>3 DEF Fields
<1> HIDE DEF q
<1> QED  BY <1>2, <1>4 DEF at, n

\* Each rename comes to the next tree of the validation, the last to the goal.
LEMMA PlacesRight ==
  ASSUME RequestsInv, DisksInv, LocalsInv, PlacesInv, NEW r \in Requests, Place(r)
  PROVE  Right(r)'
<1>0. /\ req[r].at = "placing" /\ LocalOK(req[r]) /\ (~ strayed => Exact(req[r], TreeOf(req[r])))
  BY DEF Place, LocalsInv, PlacesInv
<1>s. strayed' = strayed
  BY DEF Place, observed
<1>1. CASE Answer(r)
  BY <1>1, AnswersIt, AnswersRight DEF RequestsInv
<1>2. CASE ~ Answer(r)
  <2>1. PICK dirs, backup : Placed(r, dirs, backup)
    <3>1. ~ Answer(r)
      BY <1>2
    <3> QED  BY <3>1 DEF Place
  <2> DEFINE q == req[r]
             p == req'[r]
             N == Len(q.changes)
  <2>2. /\ p.at = IF q.n = N THEN "applying" ELSE q.at
        /\ p.n = q.n + 1 /\ p.job = q.job /\ p.dir = q.dir /\ p.changes = q.changes
        /\ p.goal = q.goal /\ p.entry = q.entry
    BY <2>1, PlacedLocals
  <2>3. Adjusts(q) /\ q.n \in 1 .. N /\ q.changes \in Seq(Range(q.changes))
    BY <1>0 DEF LocalOK, Manifested
  <2>4. N \in Nat
    BY <2>3
  <2>5. \/ p.at = "applying" /\ q.n = N
        \/ p.at = "placing" /\ p.n \in 1 .. N
    BY <1>0, <2>2, <2>3, <2>4
  <2>6. Adjusts(p)
    BY <2>2, <2>3 DEF Adjusts
  <2>7. LocalOK(p)
    BY <1>0, <2>2, <2>3, <2>5, <2>6 DEF LocalOK, Manifested, Undoing
  <2>8. ASSUME ~ strayed PROVE Exact(p, Parents(disk'[p.dir].positions))
    <3>1. Planned(q, TreeOf(q)) /\ (q.job.kind = "undo" => Undone(q.goal, q.entry))
      BY <1>0, <2>8 DEF Exact
    <3>2. PICK t : t[q.n - 1] = TreeOf(q) /\ t[N] = q.goal /\ Along(t, q.changes, Owner[q.dir])
      BY <3>1 DEF Planned
    <3>3. t[q.n] = Effect(TreeOf(q), q.changes[q.n]) /\ Permits(TreeOf(q), q.changes[q.n], Owner[q.dir])
      BY <2>3, <3>2 DEF Along
    <3>4. Parents(disk'[q.dir].positions) = t[q.n]
      BY <1>2, <3>3, PlaceIsExact
    <3> HIDE DEF q, p
    <3>5. q.n = N => Parents(disk'[p.dir].positions) = p.goal
      BY <2>2, <3>2, <3>4
    <3>6. p.n - 1 = q.n
      BY <2>2, <2>3
    <3>7. Planned(p, Parents(disk'[p.dir].positions))
      <4>1. /\ t[p.n - 1] = Parents(disk'[p.dir].positions) /\ t[Len(p.changes)] = p.goal
            /\ Along(t, p.changes, Owner[p.dir])
        BY <2>2, <3>2, <3>4, <3>6
      <4> QED  BY <4>1 DEF Planned
    <3>8. p.job.kind = "undo" => Undone(p.goal, p.entry)
      BY <2>2, <3>1
    <3> QED  BY <2>5, <3>5, <3>7, <3>8 DEF Exact, AfterEngine, Undoing
  <2>9. TreeOf(req[r])' = Parents(disk'[p.dir].positions)
    BY DEF TreeOf
  <2> QED  BY <1>s, <2>7, <2>8, <2>9 DEF Right
<1> QED  BY <1>1, <1>2

\* From the engine to the answer, nobody else's step and none of its own moves a directory.
LEMMA PassesRight ==
  ASSUME RequestsInv, DisksInv, LocalsInv, PlacesInv, NEW r \in Requests, Passes(r), strayed => strayed'
  PROVE  Right(r)'
<1>1. CarriedOn(req[r], req'[r]) /\ LocalOK(req[r])
  BY PassesOn DEF LocalsInv
<1>2. Inside(r)
  BY DEF Passes, EngineApplies, ReloadRead, ReloadReplace, ReloadLayout, ReloadStamp, Order,
         OrderHired, Record, UndoOrder, UndoConsume, Inside
<1>3. PICK w \in Workspaces : w = req[r].dir
  BY <1>2 DEF RequestsInv, RequestOK, Inside
<1>4. SamePlaces
  <2>1. CASE EngineApplies(r)
    <3>1. PICK dirs : dirs = disk[w].positions
      OBVIOUS
    <3>2. disk' = [disk EXCEPT ![w] = AppliedFrom(@, dirs)]
      BY <1>3, <2>1, <3>1 DEF EngineApplies
    <3> QED  BY <3>2, AppliesIs
  <2>2. CASE ~ EngineApplies(r)
    BY <2>2, QuietSteps DEF Passes, Quiet
  <2> QED  BY <2>1, <2>2
<1>5. req'[r].dir = w
  BY <1>1, <1>3 DEF CarriedOn
<1>6. TreeOf(req[r])' = TreeOf(req[r])
  BY <1>3, <1>4, <1>5 DEF TreeOf, SamePlaces
<1>7. ~ strayed' => Exact(req[r], TreeOf(req[r]))
  BY DEF PlacesInv
<1> QED  BY <1>1, <1>6, <1>7, CarriedOK DEF Right

\* Whatever step a mutation makes, it is right about what it does.
LEMMA MutatesRight ==
  ASSUME RequestsInv, DisksInv, ExactInv, NEW r \in Requests, Mutate(r)
  PROVE  Right(r)'
<1>0. EntriesInv /\ LocalsInv /\ PlacesInv
  BY DEF ExactInv
<1>a. ASSUME Answer(r) PROVE Right(r)'
  BY <1>a, AnswersIt, AnswersRight DEF RequestsInv
<1>1. CASE EnterAdjust(r) \/ EnterUndo(r) \/ EnterRestore(r) \/ EnterHire(r)
  BY <1>0, <1>1, EntersRight
<1>2. CASE Place(r)
  BY <1>0, <1>2, PlacesRight
<1>3. CASE HireRefused(r) \/ EngineRefuses(r) \/ EngineTimesOut(r) \/ Publish(r) \/ Fails(r)
  BY <1>a, <1>3 DEF HireRefused, EngineRefuses, EngineTimesOut, Publish, Fails
<1>4. CASE Stage(r)
  <2>1. Answer(r) \/ Goes(r, [req[r] EXCEPT !.at = "applying", !.made = MadeFor(r)])
    BY <1>4 DEF Stage, SkeletonWritten, MadeFor
  <2>2. CASE Goes(r, [req[r] EXCEPT !.at = "applying", !.made = MadeFor(r)])
    <3> DEFINE m == MadeFor(r)
               q == [req[r] EXCEPT !.at = "applying", !.made = m]
    <3>1. req'[r] = q
      BY <2>2, GoesOn DEF RequestsInv
    <3>2. DOMAIN req[r] = Fields /\ req[r].job.kind = "hire"
      BY <1>4 DEF Stage, RequestsInv, RequestOK
    <3> HIDE DEF m
    <3>3. q.at = "applying" /\ q.job = req[r].job
      BY <3>2 DEF Fields
    <3> HIDE DEF q
    <3>4. Idle(q)
      BY <3>2, <3>3 DEF Idle, Adjusts
    <3> QED  BY <3>1, <3>4, IdleOK DEF Right
  <2> QED  BY <1>a, <2>1, <2>2
<1>5. CASE Passes(r)
  <2>1. strayed => strayed'
    BY MutationKeeps
  <2> QED  BY <1>0, <1>5, <2>1, PassesRight
<1> QED  BY <1>1, <1>2, <1>3, <1>4, <1>5 DEF Mutate, Passes

\* A mutation that is not at work has nothing to say.
LEMMA OutsideIsIdle ==
  ASSUME NEW r \in Requests, ~ Inside(r)
  PROVE  Idle(req[r])
  BY DEF Inside, Idle

\* The renames stay exact through every step of a mutation.
LEMMA ExactMutates ==
  ASSUME OrgInv, ExactInv, NEW r \in Requests, Mutate(r)
  PROVE  ExactInv'
<1>0. RequestsInv /\ DisksInv /\ ChainInv /\ EntriesInv /\ LocalsInv /\ PlacesInv
  BY DEF OrgInv, ExactInv
<1>1. EntriesInv'
  BY <1>0, EntriesMutate
<1>2. Right(r)'
  BY <1>0, MutatesRight
<1>3. Stays(r)
  BY <1>0, Handled DEF Answered, Advanced
<1>4. LocalsInv'
  <2>1. ASSUME NEW q \in Requests PROVE LocalOK(req'[q])
    BY <1>0, <1>2, <1>3 DEF LocalsInv, Right, Stays
  <2> QED  BY <2>1 DEF LocalsInv
<1>5. PlacesInv'
  <2>1. ASSUME ~ strayed', NEW q \in Requests PROVE Exact(req'[q], TreeOf(req[q])')
    <3>0. ~ strayed
      BY <2>1, MutationKeeps
    <3>1. CASE q = r
      BY <1>2, <2>1, <3>1 DEF Right
    <3>2. CASE q # r /\ ~ Inside(q)
      <4>1. req'[q] = req[q] /\ Idle(req[q])
        BY <1>3, <3>2, OutsideIsIdle DEF Stays
      <4> QED  BY <4>1, IdleOK
    <3>3. CASE q # r /\ Inside(q)
      <4>1. PICK w \in Workspaces : w = req[q].dir
        BY <1>0, <3>3 DEF RequestsInv, RequestOK, Inside
      <4>2. disk'[w].positions = disk[w].positions /\ req'[q] = req[q]
        BY <1>0, <1>3, <2>1, <3>3, <4>1, PositionsOfOthers DEF Stays
      <4>3. TreeOf(req[q])' = TreeOf(req[q])
        BY <4>1, <4>2 DEF TreeOf
      <4> QED  BY <1>0, <3>0, <4>2, <4>3 DEF PlacesInv
    <3> QED  BY <3>1, <3>2, <3>3
  <2> QED  BY <2>1 DEF PlacesInv
<1> QED  BY <1>1, <1>4, <1>5 DEF ExactInv

\* They stay exact where no directory and no entry changes and no mutation goes on.
LEMMA ExactOutside ==
  ASSUME OrgInv, ExactInv, SamePlaces, SameUndo, strayed => strayed',
         \A q \in Requests : req'[q] = req[q] \/ Idle(req'[q])
  PROVE  ExactInv'
<1>0. RequestsInv /\ EntriesInv /\ LocalsInv /\ PlacesInv
  BY DEF OrgInv, ExactInv
<1>1. EntriesInv'
  BY <1>0 DEF EntriesInv, SameUndo, EntryOK
<1>2. LocalsInv'
  <2>1. ASSUME NEW q \in Requests PROVE LocalOK(req'[q])
    BY <1>0, IdleOK DEF LocalsInv
  <2> QED  BY <2>1 DEF LocalsInv
<1>3. PlacesInv'
  <2>1. ASSUME ~ strayed', NEW q \in Requests PROVE Exact(req'[q], TreeOf(req[q])')
    <3>1. CASE Idle(req'[q])
      BY <3>1, IdleOK
    <3>2. CASE req'[q] = req[q] /\ ~ Idle(req[q])
      <4>1. Inside(q)
        BY <3>2, OutsideIsIdle
      <4>2. PICK w \in Workspaces : w = req[q].dir
        BY <1>0, <4>1 DEF RequestsInv, RequestOK, Inside
      <4>3. TreeOf(req[q])' = TreeOf(req[q])
        BY <3>2, <4>2 DEF TreeOf, SamePlaces
      <4> QED  BY <1>0, <2>1, <3>2, <4>3 DEF PlacesInv
    <3> QED  BY <3>1, <3>2
  <2> QED  BY <2>1 DEF PlacesInv
<1> QED  BY <1>1, <1>2, <1>3 DEF ExactInv

\* The renames stay exact through every step.
LEMMA ExactStep == OrgInv /\ ExactInv /\ [Next]_vars => ExactInv'
<1> SUFFICES ASSUME OrgInv, ExactInv, [Next]_vars PROVE ExactInv'
  OBVIOUS
<1>0. RequestsInv /\ DisksInv /\ LateInv
  BY DEF OrgInv
<1>d. ASSUME disk' = disk PROVE SamePlaces /\ SameUndo
  BY <1>0, <1>d, DiskSame DEF SameUndo
<1>1. ASSUME NEW r \in Requests, NEW job \in Jobs, Enqueue(r, job) PROVE ExactInv'
  <2>1. disk' = disk
    BY <1>1 DEF Enqueue, disks
  <2>2. strayed' = strayed
    BY <1>1 DEF Enqueue, observed
  <2>3. strayed => strayed'
    BY <2>2
  <2> DEFINE q0 == [Fresh EXCEPT !.at = "waiting", !.job = job, !.lock = open, !.after = tail[open]]
  <2>4. req' = [req EXCEPT ![r] = q0]
    BY <1>1 DEF Enqueue
  <2>5. q0.at = "waiting"
    BY DEF Fresh
  <2> HIDE DEF q0
  <2>6. ASSUME NEW q \in Requests PROVE req'[q] = req[q] \/ Idle(req'[q])
    BY <1>0, <2>4, <2>5 DEF RequestsInv, Idle
  <2> QED  BY <1>d, <2>1, <2>3, <2>6, ExactOutside
<1>2. ASSUME NEW e \in late, EngineEndsLate(e) PROVE ExactInv'
  <2>1. req' = req
    BY <1>2 DEF EngineEndsLate
  <2>2. strayed' = strayed
    BY <1>2 DEF EngineEndsLate, observed
  <2>3. strayed => strayed'
    BY <2>2
  <2>4. PICK x \in Workspaces : x = e.dir
    BY <1>0 DEF LateInv
  <2>5. PICK dirs : dirs = e.dirs
    OBVIOUS
  <2>6. \/ disk' = disk
        \/ disk' = [disk EXCEPT ![x] = AppliedFrom(@, dirs)]
        \/ disk' = [disk EXCEPT ![x].applied = Parents(dirs)]
    BY <1>2, <2>4, <2>5 DEF EngineEndsLate
  <2>7. SamePlaces /\ SameUndo
    <3>1. CASE disk' # disk
      BY <1>0, <2>6, <3>1, AppliesIs, UndoSame
    <3> QED  BY <1>d, <3>1
  <2> QED  BY <2>1, <2>3, <2>7, ExactOutside
<1>3. ASSUME (\E w \in Workspaces : OpenRead(w)) \/ OpenLayout \/ OpenStamp \/ OpenFails PROVE ExactInv'
  <2>1. req' = req
    BY <1>3 DEF OpenRead, OpenLayout, OpenStamp, OpenFails
  <2>2. strayed' = strayed
    BY <1>3 DEF OpenRead, OpenLayout, OpenStamp, OpenFails, observed
  <2>3. strayed => strayed'
    BY <2>2
  <2>4. disk' = disk \/ \E x, v : disk' = [disk EXCEPT ![x].order = v]
    BY <1>3 DEF OpenRead, OpenLayout, OpenStamp, OpenFails, disks
  <2>5. SamePlaces /\ SameUndo
    BY <1>0, <1>d, <2>4, OrderOnly, UndoSame
  <2> QED  BY <2>1, <2>3, <2>5, ExactOutside
<1>4. ASSUME Restart PROVE ExactInv'
  <2>1. disk' = disk /\ req' = [r \in Requests |-> IF req[r].at = "new" THEN Fresh ELSE Finished]
    BY <1>4 DEF Restart
  <2>2. strayed' = strayed
    BY <1>4 DEF Restart, observed
  <2>3. strayed => strayed'
    BY <2>2
  <2>4. Fresh.at = "new" /\ Finished.at = "done"
    BY DEF Fresh, Finished
  <2>5. ASSUME NEW q \in Requests PROVE Idle(req'[q])
    <3>1. req'[q] \in {Fresh, Finished}
      BY <2>1
    <3> QED  BY <2>4, <3>1 DEF Idle
  <2> QED  BY <1>d, <2>1, <2>3, <2>5, ExactOutside
<1>5. CASE UNCHANGED vars
  <2>1. disk' = disk /\ req' = req
    BY <1>5 DEF vars
  <2>2. strayed' = strayed
    BY <1>5 DEF vars
  <2>3. strayed => strayed'
    BY <2>2
  <2> QED  BY <1>d, <2>1, <2>3, ExactOutside
<1> QED  BY <1>1, <1>2, <1>3, <1>4, <1>5, ExactMutates DEF Next

\* At first no entry is kept and nothing is at work.
LEMMA ExactInit == Init => ExactInv
<1> SUFFICES ASSUME Init PROVE ExactInv
  OBVIOUS
<1>1. ASSUME NEW w \in Workspaces PROVE disk[w].undo = None
  BY DEF Init
<1>2. ASSUME NEW r \in Requests PROVE Idle(req[r])
  BY DEF Init, Fresh, Idle
<1> QED  BY <1>1, <1>2, IdleOK DEF ExactInv, EntriesInv, LocalsInv, PlacesInv

-----------------------------------------------------------------------------
(* The theorems *)

(***************************************************************************)
(* The inductive invariant: the promises of the mutation lock stand in one *)
(* line, the locals of a mutation are those of its place in it, the        *)
(* directories are closed, and what the applied models rest on is safe.    *)
(***************************************************************************)
THEOREM OrgInvariant == Spec => []OrgInv
  BY OrgInit, OrgStep, PTL DEF Spec

(***************************************************************************)
(* Whatever renames, skeletons and removals do to positions/, every        *)
(* directory's parent is a position directory too: what scanProposalTree   *)
(* (apply.ts:240) relies on when it descends only into positions.          *)
(***************************************************************************)
THEOREM OrgTypes == Spec => []TypeOK
<1>1. OrgInv => TypeOK
  BY DiskFacts DEF OrgInv, TypeOK, TailTyped, OpeningInv
<1> QED  BY <1>1, OrgInvariant, PTL

(***************************************************************************)
(* withOrgMutationLock (apply.ts:70) excludes: no two mutations queued for *)
(* the same workspace are past the lock at once, however requests arrive,  *)
(* fail and answer, and across restarts.                                   *)
(***************************************************************************)
THEOREM OneMutationAtATime == Spec => []MutationsExclude
<1>1. OrgInv => MutationsExclude
  BY Alone DEF OrgInv, MutationsExclude, Works
<1> QED  BY <1>1, OrgInvariant, PTL

(***************************************************************************)
(* No mutation, refusal, failure, timeout or restart leaves an applied     *)
(* position without its employee package, unless a hire is taken back      *)
(* while its engine is still at work.                                      *)
(***************************************************************************)
THEOREM PackagesAreKept == Spec => []PackagesOfApplied
<1>1. ASSUME OrgInv PROVE PackagesOfApplied
  <2>0. SafeInv
    BY <1>1 DEF OrgInv
  <2>1. ASSUME NEW w \in Workspaces, NEW id \in DOMAIN disk[w].applied, ~ strayed
        PROVE  id \in Packages(disk[w]) \/ [dir |-> w, id |-> id] \in abandoned
    <3>1. id \in Safe(w)
      BY <2>0, <2>1 DEF SafeInv
    <3> QED  BY <3>1 DEF Safe, Packages, IdsOf, ScannedIds, Abandoned
  <2> QED  BY <2>1 DEF PackagesOfApplied
<1> QED  BY <1>1, OrgInvariant, PTL

(***************************************************************************)
(* A step of the requests destroys no package but that of a hire it takes  *)
(* back.                                                                   *)
(***************************************************************************)
Destroys(w, id) ==
  \/ strayed
  \/ \E r \in Requests : req[r].made # None /\ req[r].dir = w /\ req[r].job.id = id

\* The packages are those of the directories and of the restore area.
LEMMA SameFilesSamePackages ==
  ASSUME SamePlaces, NEW w \in Workspaces
  PROVE  Packages(disk'[w]) = Packages(disk[w])
  BY DEF SamePlaces, Packages

\* Where one workspace is rearranged, no package is lost in any.
LEMMA OthersSamePackages ==
  ASSUME NEW x, Rearranged(x), NEW w \in Workspaces
  PROVE  Packages(disk[w]) \subseteq Packages(disk'[w])
<1>1. CASE w = x
  BY <1>1 DEF Rearranged
<1>2. CASE w # x
  BY <1>2 DEF Rearranged, Packages
<1> QED  BY <1>1, <1>2

\* A step of a mutation destroys nothing but a hire's own package.
LEMMA MutationDestroys ==
  ASSUME OrgInv, NEW r \in Requests, Mutate(r), NEW w \in Workspaces,
         NEW id \in Packages(disk[w]) \ Packages(disk'[w])
  PROVE  Destroys(w, id)
<1>0. RequestsInv /\ DisksInv /\ StagedInv
  BY DEF OrgInv
<1>1. ASSUME SamePlaces PROVE FALSE
  BY <1>1, SameFilesSamePackages
<1>2. ASSUME NEW x, Rearranged(x) PROVE FALSE
  BY <1>2, OthersSamePackages
<1>3. ASSUME disk' = disk PROVE FALSE
  BY <1>3
<1>4. CASE Quiet(r)
  BY <1>0, <1>1, <1>4, QuietSteps
<1>5. CASE EnterRestore(r)
  BY <1>0, <1>2, <1>3, <1>5, RestoreKeeps
<1>6. CASE Place(r)
  BY <1>0, <1>2, <1>3, <1>6, PlaceKeeps
<1>7. CASE Stage(r)
  BY <1>0, <1>2, <1>3, <1>7, StageKeeps
<1>8. CASE EngineApplies(r)
  <2>1. PICK x \in Workspaces : x = req[r].dir
    BY <1>0, <1>8 DEF EngineApplies, RequestsInv, RequestOK
  <2>2. PICK dirs : dirs = disk[x].positions
    OBVIOUS
  <2>3. disk' = [disk EXCEPT ![x] = AppliedFrom(@, dirs)]
    BY <1>8, <2>1, <2>2 DEF EngineApplies
  <2> QED  BY <1>0, <1>1, <2>3, AppliesIs
<1>9. CASE EngineRefuses(r) \/ EngineTimesOut(r)
  <2>1. req[r].at = "applying" /\ RolledBack(r)
    BY <1>9 DEF EngineRefuses, EngineTimesOut
  <2>2. disk'[w].backup = disk[w].backup
    BY <1>0, <2>1, RollbackIs
  <2>3. disk'[w].positions # disk[w].positions
    BY <2>2 DEF Packages
  <2>4. w = req[r].dir /\ req[r].made # None
    BY <1>0, <2>1, <2>3, RollbackIs
  <2>5. PICK m : m = req[r].made
    OBVIOUS
  <2>6. disk'[w].positions = disk[w].positions \ Subtree(disk[w].positions, m)
    BY <1>0, <2>1, <2>4, <2>5, RollbackIs
  <2>7. CASE ~ strayed
    <3>1. Subtree(disk[w].positions, m) \subseteq {m}
      BY <1>0, <2>1, <2>4, <2>5, <2>7 DEF StagedInv, Staging
    <3>2. disk[w].positions \subseteq disk'[w].positions \cup {m}
      BY <2>6, <3>1
    <3>3. id = IdOf(m)
      BY <2>2, <3>2 DEF Packages, ScannedIds
    <3>4. IdOf(m) = req[r].job.id
      BY <1>0, <2>4, <2>5 DEF RequestsInv, RequestOK
    <3> QED  BY <2>4, <3>3, <3>4 DEF Destroys
  <2> QED  BY <2>7 DEF Destroys
<1> QED  BY <1>4, <1>5, <1>6, <1>7, <1>8, <1>9 DEF Mutate, Quiet

(***************************************************************************)
(* No step removes a package, but the rollback of a hire (hire.ts:271) its *)
(* own: renames and deletes keep every id they move, and nobody else has   *)
(* put anything below the directory that is removed.                       *)
(***************************************************************************)
THEOREM NothingIsDestroyed == Spec => NothingDestroyed
<1>1. ASSUME OrgInv, Next, NEW w \in Workspaces, NEW id \in Packages(disk[w]) \ Packages(disk'[w])
      PROVE  Destroys(w, id)
  <2>0. DisksInv /\ LateInv
    BY <1>1 DEF OrgInv
  <2>1. ASSUME SamePlaces PROVE FALSE
    BY <1>1, <2>1, SameFilesSamePackages
  <2>2. ASSUME disk' = disk PROVE FALSE
    BY <1>1, <2>2
  <2>3. CASE \E r \in Requests, job \in Jobs : Enqueue(r, job)
    BY <2>2, <2>3 DEF Enqueue, disks
  <2>4. CASE \E r \in Requests : Mutate(r)
    BY <1>1, <2>4, MutationDestroys
  <2>5. ASSUME NEW e \in late, EngineEndsLate(e) PROVE FALSE
    <3>1. PICK x \in Workspaces : x = e.dir
      BY <2>0 DEF LateInv
    <3>2. PICK dirs : dirs = e.dirs
      OBVIOUS
    <3>3. \/ disk' = disk
          \/ disk' = [disk EXCEPT ![x] = AppliedFrom(@, dirs)]
          \/ disk' = [disk EXCEPT ![x].applied = Parents(dirs)]
      BY <2>5, <3>1, <3>2 DEF EngineEndsLate
    <3> QED  BY <2>0, <2>1, <2>2, <3>3, AppliesIs
  <2>6. CASE (\E x \in Workspaces : OpenRead(x)) \/ OpenLayout \/ OpenStamp \/ OpenFails
    <3>1. disk' = disk \/ \E x, v : disk' = [disk EXCEPT ![x].order = v]
      BY <2>6 DEF OpenRead, OpenLayout, OpenStamp, OpenFails, disks
    <3> QED  BY <2>0, <2>1, <2>2, <3>1, OrderOnly
  <2>7. CASE Restart
    BY <2>2, <2>7 DEF Restart
  <2> QED  BY <1>1, <2>3, <2>4, <2>5, <2>6, <2>7 DEF Next
<1>2. ASSUME OrgInv, [Next]_vars
      PROVE  [\A w \in Workspaces : \A id \in Packages(disk[w]) \ Packages(disk'[w]) :
                \/ strayed
                \/ \E r \in Requests : req[r].made # None /\ req[r].dir = w /\ req[r].job.id = id]_vars
  <2>1. CASE UNCHANGED vars
    BY <2>1
  <2>2. CASE Next
    BY <1>1, <1>2, <2>2 DEF Destroys
  <2> QED  BY <1>2, <2>1, <2>2
<1> QED  BY <1>2, OrgInvariant, PTL DEF Spec, NothingDestroyed

(***************************************************************************)
(* The invariant of the renames: an undo entry moves each position to the  *)
(* parent it had, a mutation that renames has come as far along the trees  *)
(* its validation computed as its place says, and after the engine a       *)
(* replayed entry has every position where it says.                        *)
(***************************************************************************)
THEOREM ExactInvariant == Spec => []ExactInv
  BY ExactInit, ExactStep, OrgInvariant, PTL DEF Spec

(***************************************************************************)
(* The renames of materializeProposal (apply.ts:427), each after a scan of *)
(* its own, leave for the engine the very tree that the validation         *)
(* computed in memory (apply.ts:303), and an undo about to consume its     *)
(* entry has every position it moves back where it was, unless a mutation  *)
(* ran in a workspace it held no lock of.                                  *)
(***************************************************************************)
THEOREM RenamesAreExact == Spec => []MovesAreExact
<1>1. ASSUME ExactInv, ~ strayed, NEW r \in Requests
      PROVE  /\ req[r].at = "applying" /\ req[r].job.kind \in {"adjust", "undo"} =>
                  Parents(disk[req[r].dir].positions) = req[r].goal
             /\ req[r].at = "consuming" =>
                  \A c \in Range(req[r].entry.inverse) :
                    Parents(disk[req[r].dir].positions)[c.id] = ParentIn(req[r].entry.before, c.id)
  <2>1. LocalOK(req[r]) /\ Exact(req[r], TreeOf(req[r]))
    BY <1>1 DEF ExactInv, LocalsInv, PlacesInv
  <2>2. req[r].at = "applying" /\ Adjusts(req[r]) => TreeOf(req[r]) = req[r].goal
    BY <2>1 DEF Exact
  <2>3. req[r].at = "consuming" => Undone(TreeOf(req[r]), req[r].entry)
    BY <2>1 DEF Exact, LocalOK, Undoing
  <2> QED  BY <2>2, <2>3 DEF TreeOf, Adjusts, Undone
<1>2. ExactInv => MovesAreExact
  BY <1>1 DEF MovesAreExact
<1> QED  BY <1>2, ExactInvariant, PTL
=============================================================================
