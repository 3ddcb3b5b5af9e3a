---------------------------- MODULE DiscoveryProofs ----------------------------
(***************************************************************************)
(* Theorems about the discovery of a station: about DiscoveryScan for      *)
(* every site, tree and limit, then about ArchiveInspection for every      *)
(* database and limit, beginning with the operators of the analyzer.       *)
(***************************************************************************)
EXTENDS DiscoveryScan, ArchiveInspection, FiniteSetTheorems, TLAPS

(* Every next-state step is one of these; the case split of the proofs.     *)
LEMMA NextCases ==
  ASSUME Next
  PROVE  \/ Gather \/ WalkEnds \/ WalkTruncated \/ NextDirectory
         \/ ListingFails \/ ListedTooLate \/ Listed
         \/ \E d \in Dirs : Directory(d)
         \/ \E f \in Files : File(f)
         \/ FileLimit \/ EntriesDone \/ Choose \/ TimeIsUp \/ RequestStop
BY DEF Next, Walk, List, Examine

(* No step changes the site.                                                *)
LEMMA SiteKept == [Next]_vars => site' = site
<1>. SUFFICES ASSUME [Next]_vars PROVE site' = site
  OBVIOUS
<1>1. CASE Next
  BY <1>1, NextCases DEF Gather, WalkEnds, WalkTruncated, NextDirectory, ListingFails,
     ListedTooLate, Listed, Directory, File, FileLimit, EntriesDone, Choose, TimeIsUp,
     RequestStop
<1>. QED
  BY <1>1 DEF vars

(* What depends on the site alone is the same after a step.                 *)
LEMMA SameSite ==
  ASSUME site' = site
  PROVE  /\ \A d \in Dirs : Restricted(d)' = Restricted(d) /\ IsRoot(d)' = IsRoot(d)
         /\ Enterable' = Enterable
         /\ \A f : Found(f)' = Found(f)
<1>1. \A d \in Dirs : Restricted(d)' = Restricted(d)
  BY DEF Restricted
<1>2. \A d \in Dirs : IsRoot(d)' = IsRoot(d)
  BY DEF IsRoot, NamedPoints, Named
<1>3. \A f : Found(f)' = Found(f)
  BY DEF Found, Visible
<1>4. Enterable' = Enterable
  BY <1>1, <1>2 DEF Enterable
<1>. QED
  BY <1>1, <1>2, <1>3, <1>4

(* What is known of every site.                                             *)
LEMMA SiteFacts ==
  ASSUME site \in Sites
  PROVE  /\ site.parent \in [Dirs -> 0..NumDirs]
         /\ site.present \subseteq Files
         /\ \A d \in site.drives : site.parent[d] = 0
         /\ \A d \in site.system : site.parent[d] \in {0} \cup site.drives \cup site.system
         /\ site.directories \in Nat /\ site.files \in Nat
         /\ site.drives \subseteq Dirs /\ site.system \subseteq Dirs
BY DiscoveryAssumption DEF SiteType

(* Directories, files and what a file is a candidate for are finitely many. *)
LEMMA Finite ==
  /\ \A S : S \subseteq Dirs \/ S \subseteq Files => IsFiniteSet(S)
  /\ \A f : IsFiniteSet(Found(f))
<1>1. IsFiniteSet(Dirs) /\ IsFiniteSet(Files)
  BY FS_Interval, DiscoveryAssumption DEF Dirs, Files
<1>2. ASSUME NEW f PROVE IsFiniteSet(Found(f))
  <2> DEFINE a == [file |-> f, type |-> "log", score |-> LogScore(Visible(f))]
             b == [file |-> f, type |-> "archive", score |-> ArchiveScore(Visible(f))]
  <2>1. Found(f) \subseteq {a} \cup {b}
    BY DEF Found
  <2>2. IsFiniteSet({a}) /\ IsFiniteSet({b})
    BY FS_Singleton
  <2>3. IsFiniteSet({a} \cup {b})
    BY <2>2, FS_Union
  <2>. QED
    BY <2>1, <2>3, FS_Subset
<1>. QED
  BY <1>1, <1>2, FS_Subset

(* A directory that is followed may be entered: it is no junction, and what *)
(* lies below a directory that may be entered is no drive and no part of    *)
(* Windows or Users.                                                        *)
LEMMA ChildMayBeEntered ==
  ASSUME Walking, NEW d \in entries.dirs, Follows(d)
  PROVE  d \in Enterable
<1>1. /\ d \in Dirs /\ site.parent[d] \in visited /\ site.parent[d] \in Dirs
      /\ ~Restricted(site.parent[d])
  BY DEF Walking, Waiting, Counted, StaysOnSite, Restricted
<1>2. site.parent[d] # 0
  BY <1>1, DiscoveryAssumption DEF Dirs
<1>. QED
  BY <1>1, <1>2, SiteFacts DEF Walking, Waiting, Enterable, Restricted, Follows

(* One element more in a set that is below a limit.                         *)
LEMMA OneMore ==
  ASSUME NEW S, NEW x, NEW limit \in Nat, IsFiniteSet(S),
         Cardinality(S) < limit
  PROVE  Cardinality(S \cup {x}) <= limit
<1>1. Cardinality(S) \in Nat
  BY FS_CardinalityType
<1>2. Cardinality(S \cup {x}) \in {Cardinality(S), Cardinality(S) + 1}
  BY FS_AddElement
<1>. QED
  BY <1>1, <1>2

(* The walk starts with nothing visited, waiting or found.                   *)
THEOREM InitWalking == Init => Walking
<1>. SUFFICES ASSUME Init PROVE Walking
  OBVIOUS
<1>. USE DEF Init
<1>1. site \in Sites /\ site.directories \in Nat /\ site.files \in Nat
  BY SiteFacts
<1>2. Waiting
  BY <1>1, DiscoveryAssumption DEF Waiting, None
<1>3. IsFiniteSet({}) /\ Cardinality({}) = 0
  BY FS_EmptySet
<1>4. Counted /\ Remembered /\ StaysOnSite
  BY <1>1, <1>3 DEF Counted, Remembered, StaysOnSite
<1>. QED
  BY <1>2, <1>4 DEF Walking

(* The deque: how it is filled, and both of its ends.                       *)
LEMMA Filled ==
  ASSUME NEW T, NEW n \in Nat, NEW f \in [1..n -> T]
  PROVE  f \in Seq(T) /\ Len(f) = n
OBVIOUS

(* The front of the deque, and what is left behind it.                       *)
LEMMA PopFront ==
  ASSUME NEW T, NEW q \in Seq(T), q # <<>>
  PROVE  /\ Head(q) = q[1] /\ q[1] \in T /\ 1 \in 1..Len(q)
         /\ Tail(q) \in Seq(T) /\ Len(Tail(q)) = Len(q) - 1
         /\ \A i \in 1..Len(Tail(q)) : Tail(q)[i] = q[i + 1] /\ i + 1 \in 1..Len(q)
<1>1. Len(q) \in Nat /\ Len(q) > 0
  OBVIOUS
<1>. QED
  BY <1>1

(* The back of the deque.                                                    *)
LEMMA PushBack ==
  ASSUME NEW T, NEW q \in Seq(T), NEW e \in T
  PROVE  /\ Append(q, e) \in Seq(T) /\ Len(Append(q, e)) = Len(q) + 1
         /\ \A i \in 1..Len(q) : Append(q, e)[i] = q[i]
         /\ Append(q, e)[Len(q) + 1] = e
OBVIOUS

(* Steps that neither enter the deque, nor a set, nor the report.           *)
LEMMA PauseKeeps ==
  ASSUME Walking, site' = site,
         UNCHANGED <<pending, visited, here, seen, candidates, report>>,
         pc' \in {"walk", "choose"} \/ (pc' = pc /\ pc # "done"),
         entries' \in {entries, [dirs |-> {}, files |-> {}]}
  PROVE  Walking'
<1>. USE DEF Walking
<1>1. Waiting'
  BY SameSite DEF Waiting
<1>2. Counted'
  BY DEF Counted
<1>3. Remembered'
  BY SameSite DEF Remembered, Waiting
<1>4. StaysOnSite'
  BY SameSite DEF StaysOnSite, Counted
<1>. QED
  BY <1>1, <1>2, <1>3, <1>4

(* The roots that start the walk are allowed.                               *)
LEMMA GatherKeeps == Walking /\ Gather => Walking'
<1>. SUFFICES ASSUME Walking, Gather PROVE Walking'
  OBVIOUS
<1>. USE DEF Walking
<1>1. PICK s \in Orders :
        pending' = [i \in 1..Cardinality(Allowed) |-> [dir |-> s[i], depth |-> 0]]
  BY DEF Gather
<1>2. /\ site' = site /\ pc' = "walk"
      /\ UNCHANGED <<visited, here, entries, seen, candidates, report>>
  BY DEF Gather
<1>3. \A d \in Allowed : d \in Enterable
  BY DEF Allowed, Roots, Enterable
<1>4. Cardinality(Allowed) \in Nat
  BY Finite, FS_CardinalityType DEF Allowed, Roots
<1>5. \A i \in 1..Cardinality(Allowed) : s[i] \in Dirs /\ s[i] \in Enterable
  BY <1>3 DEF Orders, Enterable
<1>6. /\ pending' \in Seq([dir : Dirs, depth : Nat])
      /\ \A i \in 1..Len(pending') : pending'[i].dir \in Enterable
  <2>1. \A i \in 1..Cardinality(Allowed) :
           [dir |-> s[i], depth |-> 0] \in [dir : Dirs, depth : Nat]
    BY <1>5
  <2>2. pending' \in Seq([dir : Dirs, depth : Nat]) /\ Len(pending') = Cardinality(Allowed)
    <3>1. pending' \in [1..Cardinality(Allowed) -> [dir : Dirs, depth : Nat]]
      BY <1>1, <2>1
    <3>. QED
      BY <1>4, <3>1, Filled
  <2>3. \A i \in 1..Cardinality(Allowed) : pending'[i].dir = s[i]
    BY <1>1
  <2>. QED
    BY <1>5, <2>2, <2>3
<1>7. Waiting'
  BY <1>2, <1>6, SameSite DEF Waiting
<1>8. Counted' /\ Remembered' /\ StaysOnSite'
  BY <1>2, SameSite DEF Counted, Remembered, StaysOnSite
<1>. QED
  BY <1>7, <1>8

(* A directory is taken off the deque and entered for the first time.       *)
LEMMA NextDirectoryKeeps == Walking /\ NextDirectory => Walking'
<1>. SUFFICES ASSUME Walking, NextDirectory PROVE Walking'
  OBVIOUS
<1>. USE DEF Walking
<1>1. /\ site' = site /\ pending' = Tail(pending) /\ pending # <<>>
      /\ pc = "walk" /\ ~OverBudget
      /\ UNCHANGED <<entries, seen, candidates, report>>
  BY DEF NextDirectory
<1>2. /\ Head(pending) \in [dir : Dirs, depth : Nat] /\ Head(pending).dir \in Enterable
      /\ pending' \in Seq([dir : Dirs, depth : Nat])
      /\ \A i \in 1..Len(pending') : pending'[i].dir \in Enterable
  <2>1. /\ pending \in Seq([dir : Dirs, depth : Nat])
        /\ \A i \in 1..Len(pending) : pending[i].dir \in Enterable
    BY DEF Waiting
  <2>. QED
    BY <1>1, <2>1, PopFront
<1>3. \/ UNCHANGED <<pc, visited, here>>
      \/ /\ visited' = visited \cup {Head(pending).dir}
         /\ here' = Head(pending) /\ pc' = "list"
  BY DEF NextDirectory
<1>4. Waiting'
  <2>1. /\ here' \in [dir : 0..NumDirs, depth : Nat]
        /\ pc' \in {"list", "entries"} => here'.dir \in visited'
        /\ pc' \in {"walk", "list"} /\ visited \subseteq visited'
    <3>1. CASE UNCHANGED <<pc, visited, here>>
      BY <1>1, <3>1 DEF Waiting
    <3>2. CASE /\ visited' = visited \cup {Head(pending).dir}
               /\ here' = Head(pending) /\ pc' = "list"
      <4>1. Head(pending).dir \in 0..NumDirs /\ Head(pending).depth \in Nat
        BY <1>2, DiscoveryAssumption DEF Dirs
      <4>2. Head(pending) \in [dir : 0..NumDirs, depth : Nat]
        BY <1>2, <4>1
      <4>. QED
        BY <3>2, <4>2
    <3>. QED
      BY <1>3, <3>1, <3>2
  <2>. QED
    BY <1>1, <1>2, <2>1, SameSite DEF Waiting
<1>5. /\ \A d \in visited' : d \in Enterable
      /\ Cardinality(visited') <= site.directories
  <2>1. \A d \in visited : d \in Enterable
    BY DEF Counted, StaysOnSite, Enterable, Restricted
  <2>2. IsFiniteSet(visited) /\ Cardinality(visited) \in Nat
    BY Finite, FS_CardinalityType DEF Counted
  <2>3. Cardinality(visited) < site.directories /\ site.directories \in Nat
    BY <1>1, <2>2, SiteFacts DEF OverBudget, Waiting
  <2>. QED
    BY <1>2, <1>3, <2>1, <2>2, <2>3, OneMore DEF StaysOnSite
<1>6. StaysOnSite'
  BY <1>1, <1>5, SameSite DEF StaysOnSite, Enterable, Restricted
<1>7. Counted'
  BY <1>1, <1>5 DEF Counted, Enterable
<1>8. Remembered'
  BY <1>1, <1>3, SameSite DEF Remembered
<1>. QED
  BY <1>4, <1>6, <1>7, <1>8

(* The listing of a directory that has been visited.                        *)
LEMMA ListedKeeps == Walking /\ Listed => Walking'
<1>. SUFFICES ASSUME Walking, Listed PROVE Walking'
  OBVIOUS
<1>. USE DEF Walking
<1>1. /\ site' = site /\ pc = "list" /\ pc' = "entries" /\ here.dir \in visited
      /\ entries' \in [dirs : SUBSET Listing(here.dir).dirs,
                      files : SUBSET Listing(here.dir).files]
      /\ UNCHANGED <<pending, visited, here, seen, candidates, report>>
  BY DEF Listed, Waiting
<1>2. /\ DOMAIN entries' = {"dirs", "files"}
      /\ \A d \in entries'.dirs : d \in Dirs /\ site.parent[d] \in visited
      /\ entries'.files \subseteq Files
  BY <1>1, SiteFacts DEF Listing, Waiting
<1>3. Waiting'
  BY <1>1, <1>2, SameSite DEF Waiting
<1>4. Counted' /\ Remembered' /\ StaysOnSite'
  BY <1>1, <1>2, SameSite DEF Counted, Remembered, StaysOnSite
<1>. QED
  BY <1>3, <1>4

(* A directory entry: it joins the deque only if it may be entered.         *)
LEMMA DirectoryKeeps ==
  ASSUME Walking, NEW d \in Dirs, Directory(d)
  PROVE  Walking'
<1>. USE DEF Walking
<1>1. /\ site' = site /\ pc = "entries" /\ pc' = pc /\ d \in entries.dirs
      /\ pending' = IF Follows(d) THEN Enqueued(d) ELSE pending
      /\ UNCHANGED <<visited, here, seen, candidates, report>>
  BY DEF Directory
<1>2. /\ DOMAIN entries' = {"dirs", "files"}
      /\ entries'.dirs \subseteq entries.dirs /\ entries'.files = entries.files
  BY DEF Directory, Waiting
<1>3. /\ pending' \in Seq([dir : Dirs, depth : Nat])
      /\ \A i \in 1..Len(pending') : pending'[i].dir \in Enterable
  <2>1. CASE ~Follows(d)
    BY <1>1, <2>1 DEF Waiting
  <2>2. CASE Follows(d)
    <3> DEFINE e == [dir |-> d, depth |-> here.depth + 1]
    <3>1. e \in [dir : Dirs, depth : Nat] /\ e.dir = d /\ d \in Enterable
      BY <1>1, <2>2, ChildMayBeEntered DEF Waiting
    <3>2. pending' = Append(pending, e)
      BY <1>1, <2>2 DEF Enqueued
    <3>3. /\ pending \in Seq([dir : Dirs, depth : Nat])
          /\ \A i \in 1..Len(pending) : pending[i].dir \in Enterable
      BY DEF Waiting
    <3>. HIDE DEF e
    <3>4. /\ pending' \in Seq([dir : Dirs, depth : Nat])
          /\ Len(pending') = Len(pending) + 1
          /\ \A i \in 1..Len(pending) : pending'[i] = pending[i]
          /\ pending'[Len(pending) + 1] = e
      BY <3>1, <3>2, <3>3, PushBack
    <3>5. \A i \in 1..Len(pending') : i \in 1..Len(pending) \/ i = Len(pending) + 1
      BY <3>3, <3>4
    <3>. QED
      BY <3>1, <3>3, <3>4, <3>5
  <2>. QED
    BY <2>1, <2>2
<1>4. Waiting'
  BY <1>1, <1>2, <1>3, SameSite DEF Waiting
<1>5. Counted' /\ Remembered' /\ StaysOnSite'
  BY <1>1, <1>2, SameSite DEF Counted, Remembered, StaysOnSite
<1>. QED
  BY <1>4, <1>5

(* A file entry is counted and leaves its candidates.                       *)
LEMMA FileKeeps ==
  ASSUME Walking, NEW f \in Files, File(f)
  PROVE  Walking'
<1>. USE DEF Walking
<1>1. /\ site' = site /\ pc = "entries" /\ pc' = pc
      /\ Cardinality(seen) < site.files
      /\ seen' = seen \cup {f} /\ candidates' = candidates \cup Found(f)
      /\ UNCHANGED <<pending, visited, here, report>>
  BY DEF File
<1>2. /\ DOMAIN entries' = {"dirs", "files"}
      /\ entries'.dirs = entries.dirs /\ entries'.files \subseteq entries.files
  BY DEF File, Waiting
<1>3. Waiting'
  BY <1>1, <1>2, SameSite DEF Waiting
<1>4. Counted'
  <2>1. IsFiniteSet(candidates')
    BY <1>1, Finite, FS_Union DEF Counted
  <2>. QED
    BY <1>1, <1>2, <2>1 DEF Counted
<1>5. Remembered'
  <2>1. \A c \in Found(f) : c.file = f
    <3> DEFINE a == [file |-> f, type |-> "log", score |-> LogScore(Visible(f))]
               b == [file |-> f, type |-> "archive", score |-> ArchiveScore(Visible(f))]
    <3>1. \A c \in Found(f) : c = a \/ c = b
      BY DEF Found
    <3>2. a.file = f /\ b.file = f
      OBVIOUS
    <3>. QED
      BY <3>1, <3>2
  <2>. QED
    BY <1>1, <2>1, SameSite DEF Remembered
<1>6. StaysOnSite'
  <2>1. IsFiniteSet(seen) /\ site.files \in Nat
    BY Finite, SiteFacts DEF Counted, Waiting
  <2>2. Cardinality(seen') <= site.files
    BY <1>1, <2>1, OneMore
  <2>. QED
    BY <1>1, <2>2, SameSite DEF StaysOnSite, Counted
<1>. QED
  BY <1>3, <1>4, <1>5, <1>6

(* The choice is made once, from what the walk has left.                    *)
LEMMA ChooseKeeps == Walking /\ Choose => Walking'
<1>. SUFFICES ASSUME Walking, Choose PROVE Walking'
  OBVIOUS
<1>. USE DEF Walking
<1>1. /\ site' = site /\ pc' = "done"
      /\ UNCHANGED <<pending, visited, here, entries, seen, candidates>>
      /\ report'.selected = Chosen.selected /\ report'.confirm = Chosen.confirm
  BY DEF Choose
<1>2. Chosen' = Chosen
  BY <1>1 DEF Chosen, ByName, Proposed, Strong, Archives, Named
<1>3. Waiting'
  BY <1>1, SameSite DEF Waiting
<1>4. Counted' /\ Remembered' /\ StaysOnSite'
  BY <1>1, <1>2, SameSite DEF Counted, Remembered, StaysOnSite
<1>. QED
  BY <1>3, <1>4

(* Every step of the walk keeps it so.                                       *)
THEOREM NextWalking == Walking /\ [Next]_vars => Walking'
<1>. SUFFICES ASSUME Walking, [Next]_vars PROVE Walking'
  OBVIOUS
<1>1. CASE Gather
  BY <1>1, GatherKeeps
<1>2. CASE WalkEnds \/ WalkTruncated
  BY <1>2, PauseKeeps DEF WalkEnds, WalkTruncated
<1>3. CASE NextDirectory
  BY <1>3, NextDirectoryKeeps
<1>4. CASE ListingFails \/ ListedTooLate
  BY <1>4, PauseKeeps DEF ListingFails, ListedTooLate
<1>5. CASE Listed
  BY <1>5, ListedKeeps
<1>6. CASE \E d \in Dirs : Directory(d)
  BY <1>6, DirectoryKeeps
<1>7. CASE \E f \in Files : File(f)
  BY <1>7, FileKeeps
<1>8. CASE FileLimit \/ EntriesDone
  BY <1>8, PauseKeeps DEF FileLimit, EntriesDone
<1>9. CASE Choose
  BY <1>9, ChooseKeeps
<1>10. CASE TimeIsUp \/ RequestStop
  BY <1>10, PauseKeeps DEF TimeIsUp, RequestStop
<1>11. CASE UNCHANGED vars
  <2>1. Chosen' = Chosen
    BY <1>11 DEF vars, Chosen, ByName, Proposed, Strong, Archives, Named
  <2>2. /\ site' = site
        /\ UNCHANGED <<pc, pending, visited, here, entries, seen, candidates, report>>
    BY <1>11 DEF vars
  <2>. QED
    BY <2>1, <2>2, SameSite DEF Walking, Waiting, Counted, Remembered, StaysOnSite
<1>. QED
  BY <1>1, <1>2, <1>3, <1>4, <1>5, <1>6, <1>7, <1>8, <1>9, <1>10, <1>11, NextCases

(* The inductive invariant: what waits in the deque may be entered, and the *)
(* report repeats the choice.                                               *)
THEOREM SpecWalking == Spec => []Walking
BY InitWalking, NextWalking, PTL DEF Spec

(* The walk enters no drive as a whole, no system directory and no junction *)
(* but a root, and stays within its limits.                                 *)
THEOREM SpecStaysOnSite == Spec => []StaysOnSite
<1>1. Walking => StaysOnSite
  BY DEF Walking
<1>. QED
  BY <1>1, SpecWalking, PTL

(* One strong archive is the only one.                                      *)
LEMMA OnlyStrong ==
  ASSUME Walking, Cardinality(Strong) = 1
  PROVE  \E c \in candidates : Strong = {c} /\ c.file \in seen
<1>1. IsFiniteSet(Strong)
  BY FS_Subset DEF Strong, Archives, Walking, Counted
<1>2. PICK c : Strong = {c}
  BY <1>1, FS_Singleton
<1>. QED
  BY <1>2 DEF Strong, Archives, Walking, Remembered

(* What is selected is the named archive, or the only strong candidate,     *)
(* which then waits for a confirmation.                                     *)
THEOREM SpecNeverSwitched == Spec => []NeverSwitched
<1>1. Walking => NeverSwitched
  <2>. SUFFICES ASSUME Walking, pc = "done" PROVE NeverSwitched
    BY DEF NeverSwitched
  <2>1. report.selected = Chosen.selected /\ report.confirm = Chosen.confirm
    BY DEF Walking, Remembered
  <2>2. CASE Named # None
    BY <2>1, <2>2 DEF NeverSwitched, Chosen, ByName
  <2>3. CASE Named = None
    <3>1. CASE Cardinality(Strong) = 1
      <4>1. PICK c \in candidates : Strong = {c} /\ c.file \in seen
        BY <3>1, OnlyStrong
      <4>2. report.selected = c.file /\ report.confirm = TRUE
        BY <2>1, <2>3, <3>1, <4>1 DEF Chosen, Proposed
      <4>3. c.file # None
        BY <4>1 DEF Walking, Counted, Files, None
      <4>4. ASSUME NEW f \in (seen \ site.locked) \ {c.file}, "sqlite header" \in site.marks[f]
            PROVE  Confidence(ArchiveScore(site.marks[f])) # "high"
        <5> DEFINE a == [file |-> f, type |-> "archive",
                         score |-> ArchiveScore(Visible(f))]
        <5>1. a \in Found(f) /\ Visible(f) = site.marks[f]
          BY <4>4 DEF Found, Visible
        <5>2. a \in Archives
          BY <5>1 DEF Archives, Walking, Remembered
        <5>3. a \notin Strong
          <6>1. a.file = f /\ f # c.file
            BY <4>4
          <6>. QED
            BY <4>1, <6>1
        <5>4. Confidence(a.score) # "high"
          BY <5>2, <5>3 DEF Strong
        <5>. QED
          BY <5>1, <5>4
      <4>. QED
        BY <2>3, <4>2, <4>3, <4>4 DEF NeverSwitched
    <3>2. CASE Cardinality(Strong) # 1
      BY <2>1, <2>3, <3>2 DEF NeverSwitched, Chosen, Proposed
    <3>. QED
      BY <3>1, <3>2
  <2>. QED
    BY <2>2, <2>3
<1>. QED
  BY <1>1, SpecWalking, PTL
-------------------------------------------------------------------------------
(* A set of natural numbers that is not empty has a least member.           *)
LEMMA LeastOf ==
  ASSUME NEW T, T \subseteq Nat, T # {}
  PROVE  \E m \in T : \A k \in T : m <= k
<1>1. PICK m \in T : \A k \in T : ~(<<k, m>> \in OpToRel(<, Nat))
  BY WFMin, NatLessThanWellFounded, Zenon
<1>2. \A k \in T : ~(k < m)
  BY <1>1, Zenon DEF OpToRel
<1>. QED
  BY <1>2

(* Induction over a set of natural numbers.                                 *)
LEMMA NatInductionOnSet ==
  ASSUME NEW S, 0 \in S, \A n \in Nat : n \in S => n + 1 \in S
  PROVE  \A n \in Nat : n \in S
<1>. SUFFICES ASSUME Nat \ S # {} PROVE FALSE
  OBVIOUS
<1>1. PICK m \in Nat \ S : \A k \in Nat \ S : m <= k
  BY LeastOf
<1>2. m - 1 \in Nat /\ m - 1 \notin S
  BY <1>1
<1>. QED
  BY <1>1, <1>2

(* The function that defines InReach exists: its first values do, and one   *)
(* more does with them.                                                     *)
LEMMA NearExists ==
  ASSUME site.depth \in Nat
  PROVE  \E near : near = [n \in 0..site.depth |->
                             IF n = 0 THEN Allowed
                             ELSE near[n - 1] \cup {d \in Dirs \ (site.junctions \cup lost.dirs) :
                                  site.parent[d] \in near[n - 1] \ failed}]
<1>. DEFINE step(S) == S \cup {d \in Dirs \ (site.junctions \cup lost.dirs) : site.parent[d] \in S \ failed}
            P(near, m) == near = [n \in 0..m |-> IF n = 0 THEN Allowed ELSE step(near[n - 1])]
            T == {m \in Nat : \E near : P(near, m)}
<1>1. 0 \in T
  <2>1. P([n \in 0..0 |-> Allowed], 0)
    <3>. HIDE DEF step
    <3>. QED
      OBVIOUS
  <2>. QED
    BY <2>1
<1>2. ASSUME NEW m \in Nat, m \in T PROVE m + 1 \in T
  <2>. HIDE DEF step
  <2>1. PICK near : P(near, m)
    BY <1>2
  <2>. DEFINE more == [n \in 0..(m + 1) |-> IF n = m + 1 THEN step(near[m]) ELSE near[n]]
  <2>2. P(more, m + 1)
    <3>1. ASSUME NEW n \in 0..(m + 1)
          PROVE  more[n] = IF n = 0 THEN Allowed ELSE step(more[n - 1])
      <4>1. CASE n = m + 1
        BY <4>1
      <4>2. CASE n # m + 1
        <5>1. n \in 0..m /\ more[n] = near[n] /\ (n # 0 => more[n - 1] = near[n - 1])
          BY <4>2
        <5>2. near[n] = IF n = 0 THEN Allowed ELSE step(near[n - 1])
          BY <2>1, <5>1
        <5>. QED BY <5>1, <5>2
      <4>. QED
        BY <4>1, <4>2
    <3>. HIDE DEF more
    <3>2. more = [n \in 0..(m + 1) |-> more[n]]
      BY DEF more
    <3>. QED
      BY <3>1, <3>2
  <2>3. \E n : P(n, m + 1)
    BY <2>2, Zenon
  <2>. HIDE DEF P
  <2>. QED
    BY <2>3
<1>3. site.depth \in T
  <2>. HIDE DEF T
  <2>. QED
    BY <1>1, <1>2, NatInductionOnSet
<1>. QED
  BY <1>3

(* InReach, layer by layer.                                                 *)
LEMMA ReachLayers ==
  ASSUME site.depth \in Nat
  PROVE  \E near : /\ InReach = near[site.depth] /\ near[0] = Allowed
                   /\ \A n \in 1..site.depth :
                       near[n] = near[n - 1] \cup {d \in Dirs \ (site.junctions \cup lost.dirs) :
                                  site.parent[d] \in near[n - 1] \ failed}
<1>. DEFINE near == CHOOSE near : near = [n \in 0..site.depth |->
                             IF n = 0 THEN Allowed
                             ELSE near[n - 1] \cup {d \in Dirs \ (site.junctions \cup lost.dirs) :
                                  site.parent[d] \in near[n - 1] \ failed}]
<1>1. InReach = near[site.depth]
  BY Zenon DEF InReach
<1>2. near = [n \in 0..site.depth |->
                             IF n = 0 THEN Allowed
                             ELSE near[n - 1] \cup {d \in Dirs \ (site.junctions \cup lost.dirs) :
                                  site.parent[d] \in near[n - 1] \ failed}]
  BY NearExists, Zenon
<1>. HIDE DEF near
<1>3. near[0] = Allowed
  BY <1>2
<1>4. \A n \in 1..site.depth :
         near[n] = near[n - 1] \cup {d \in Dirs \ (site.junctions \cup lost.dirs) :
                                      site.parent[d] \in near[n - 1] \ failed}
  <2>. DEFINE more(S) == S \cup {d \in Dirs \ (site.junctions \cup lost.dirs) : site.parent[d] \in S \ failed}
  <2>1. near = [n \in 0..site.depth |-> IF n = 0 THEN Allowed ELSE more(near[n - 1])]
    BY <1>2, Zenon
  <2>2. \A n \in 1..site.depth : near[n] = more(near[n - 1])
    <3>. HIDE DEF more
    <3>. QED
      BY <2>1
  <2>. QED
    BY <2>2, Zenon
<1>. QED
  BY <1>1, <1>3, <1>4, Zenon

(* sum adds up the weights of the members of each subset of S, in the order *)
(* in which pick takes them.                                                *)
Picks(pick, S) == \A s \in SUBSET S : s # {} => pick[s] \in s

Sums(sum, S, w, pick) ==
  sum = [s \in SUBSET S |-> IF s = {} THEN 0 ELSE w[pick[s]] + sum[s \ {pick[s]}]]

(* A member less: subsets of a finite set shrink to the empty one.          *)
LEMMA Smaller ==
  ASSUME NEW S, IsFiniteSet(S), NEW pick, Picks(pick, S), NEW s \in SUBSET S
  PROVE  /\ Cardinality(s) \in Nat /\ Cardinality(s) <= Cardinality(S)
         /\ Cardinality(s) = 0 <=> s = {}
         /\ s # {} => /\ pick[s] \in S /\ s \ {pick[s]} \in SUBSET S
                      /\ Cardinality(s \ {pick[s]}) = Cardinality(s) - 1
BY FS_Subset, FS_CardinalityType, FS_EmptySet, FS_RemoveElement DEF Picks

(* The sums exist: those of small subsets do, and those of one member more. *)
LEMMA SumExists ==
  ASSUME NEW S, IsFiniteSet(S), NEW w, NEW pick, Picks(pick, S)
  PROVE  \E sum : Sums(sum, S, w, pick)
<1>. DEFINE Small(n) == {s \in SUBSET S : Cardinality(s) <= n}
            value(sum, s) == IF s = {} THEN 0 ELSE w[pick[s]] + sum[s \ {pick[s]}]
            P(sum, n) == sum = [s \in Small(n) |-> value(sum, s)]
            T == {n \in Nat : \E sum : P(sum, n)}
<1>1. 0 \in T
  <2>1. P([s \in Small(0) |-> 0], 0)
    BY Smaller
  <2>2. \E sum : P(sum, 0)
    BY <2>1, Zenon
  <2>. HIDE DEF P
  <2>. QED
    BY <2>2
<1>2. ASSUME NEW n \in Nat, n \in T PROVE n + 1 \in T
  <2>1. PICK sum : P(sum, n)
    BY <1>2
  <2>. DEFINE more == [s \in Small(n + 1) |-> value(sum, s)]
  <2>2. ASSUME NEW s \in Small(n + 1) PROVE more[s] = value(more, s)
    <3>1. CASE s = {}
      BY <3>1
    <3>2. CASE s # {}
      <4> DEFINE r == s \ {pick[s]}
      <4>1. r \in Small(n) /\ r \in Small(n + 1)
        BY <3>2, Smaller
      <4>2. sum[r] = value(sum, r) /\ more[r] = value(sum, r)
        <5>. HIDE DEF Small, value, r
        <5>. QED
          BY <2>1, <4>1
      <4>3. more[s] = value(sum, s)
        <5>. HIDE DEF Small, value, r
        <5>. QED
          OBVIOUS
      <4>. HIDE DEF more, Small
      <4>. QED
        BY <3>2, <4>2, <4>3
    <3>. QED
      BY <3>1, <3>2
  <2>3. P(more, n + 1)
    <3>. HIDE DEF value, Small
    <3>1. more = [s \in Small(n + 1) |-> more[s]]
      OBVIOUS
    <3>. HIDE DEF more
    <3>. QED
      BY <2>2, <3>1
  <2>4. \E x : P(x, n + 1)
    BY <2>3, Zenon
  <2>. HIDE DEF P
  <2>. QED
    BY <2>4
<1>3. Cardinality(S) \in T
  <2>. HIDE DEF T
  <2>. QED
    BY <1>1, <1>2, NatInductionOnSet, FS_CardinalityType
<1>4. Small(Cardinality(S)) = SUBSET S
  BY Smaller
<1>. QED
  <2>. HIDE DEF Small, value
  <2>1. PICK sum : sum = [s \in SUBSET S |-> value(sum, s)]
    BY <1>3, <1>4
  <2>. QED
    BY <2>1, Zenon DEF value, Sums

(* Natural numbers add up to natural numbers.                               *)
LEMMA SumsAreNatural ==
  ASSUME NEW S, IsFiniteSet(S), NEW w, \A x \in S : w[x] \in Nat,
         NEW pick, Picks(pick, S), NEW sum, Sums(sum, S, w, pick)
  PROVE  \A s \in SUBSET S : sum[s] \in Nat
<1>. DEFINE T == {n \in Nat : \A s \in SUBSET S : Cardinality(s) = n => sum[s] \in Nat}
<1>1. 0 \in T
  <2>1. sum[{}] = 0
    BY DEF Sums
  <2>2. \A s \in SUBSET S : Cardinality(s) = 0 => s = {}
    BY Smaller
  <2>. QED
    BY <2>1, <2>2
<1>2. ASSUME NEW n \in Nat, n \in T PROVE n + 1 \in T
  <2>1. ASSUME NEW s \in SUBSET S, Cardinality(s) = n + 1 PROVE sum[s] \in Nat
    <3>1. s # {} /\ Cardinality(s \ {pick[s]}) = n /\ s \ {pick[s]} \in SUBSET S
          /\ pick[s] \in S
      BY <2>1, Smaller
    <3>2. sum[s \ {pick[s]}] \in Nat
      BY <1>2, <3>1
    <3>3. sum[s] = w[pick[s]] + sum[s \ {pick[s]}] /\ w[pick[s]] \in Nat
      BY <3>1 DEF Sums
    <3>. QED
      BY <3>2, <3>3
  <2>. QED
    BY <2>1
<1>3. ASSUME NEW n \in Nat PROVE n \in T
  <2>. HIDE DEF T
  <2>. QED
    BY <1>1, <1>2, NatInductionOnSet
<1>4. ASSUME NEW s \in SUBSET S PROVE sum[s] \in Nat
  BY <1>3, Smaller
<1>. QED
  BY <1>4

(* Scores are natural numbers.                                              *)
LEMMA ArchiveScoreType ==
  ASSUME NEW marks, IsFiniteSet(marks)
  PROVE  ArchiveScore(marks) \in Nat
<1>. DEFINE w == [m \in marks |-> ArchivePoints(m)]
            pick == [s \in SUBSET marks |-> CHOOSE x \in s : TRUE]
            Points(sum) == sum = [s \in SUBSET marks |->
                                   IF s = {} THEN 0
                                   ELSE ArchivePoints(CHOOSE x \in s : TRUE)
                                         + sum[s \ {CHOOSE x \in s : TRUE}]]
<1>1. \A x \in marks : w[x] = ArchivePoints(x) /\ w[x] \in Nat
  BY DEF ArchivePoints
<1>2. Picks(pick, marks) /\ \A s \in SUBSET marks : pick[s] = CHOOSE x \in s : TRUE
  BY DEF Picks
<1>3. \A sum : Points(sum) <=> Sums(sum, marks, w, pick)
  <2>1. ASSUME NEW s \in SUBSET marks, s # {}
        PROVE  w[pick[s]] = ArchivePoints(CHOOSE x \in s : TRUE)
    BY <1>1, <1>2, <2>1 DEF Picks
  <2>. HIDE DEF w, pick
  <2>. QED
    BY <1>2, <2>1 DEF Sums
<1>. HIDE DEF w, pick, Points
<1>4. \E sum : Points(sum)
  BY <1>2, <1>3, SumExists
<1>. DEFINE total == CHOOSE sum : Points(sum)
<1>5. ArchiveScore(marks) = total[marks]
  BY Zenon DEF ArchiveScore, MapThenSumSet, MapThenFoldSet, Points
<1>6. Points(total)
  BY <1>4, Zenon
<1>. HIDE DEF total
<1>. QED
  BY <1>1, <1>2, <1>3, <1>5, <1>6, SumsAreNatural
(* The same of the score of a log.                                           *)
LEMMA LogScoreType ==
  ASSUME NEW marks, IsFiniteSet(marks)
  PROVE  LogScore(marks) \in Nat
<1>. DEFINE w == [m \in marks |-> LogPoints(m)]
            pick == [s \in SUBSET marks |-> CHOOSE x \in s : TRUE]
            Points(sum) == sum = [s \in SUBSET marks |->
                                   IF s = {} THEN 0
                                   ELSE LogPoints(CHOOSE x \in s : TRUE)
                                         + sum[s \ {CHOOSE x \in s : TRUE}]]
<1>1. \A x \in marks : w[x] = LogPoints(x) /\ w[x] \in Nat
  BY DEF LogPoints
<1>2. Picks(pick, marks) /\ \A s \in SUBSET marks : pick[s] = CHOOSE x \in s : TRUE
  BY DEF Picks
<1>3. \A sum : Points(sum) <=> Sums(sum, marks, w, pick)
  <2>1. ASSUME NEW s \in SUBSET marks, s # {}
        PROVE  w[pick[s]] = LogPoints(CHOOSE x \in s : TRUE)
    BY <1>1, <1>2, <2>1 DEF Picks
  <2>. HIDE DEF w, pick
  <2>. QED
    BY <1>2, <2>1 DEF Sums
<1>. HIDE DEF w, pick, Points
<1>4. \E sum : Points(sum)
  BY <1>2, <1>3, SumExists
<1>. DEFINE total == CHOOSE sum : Points(sum)
<1>5. LogScore(marks) = total[marks]
  BY Zenon DEF LogScore, MapThenSumSet, MapThenFoldSet, Points
<1>6. Points(total)
  BY <1>4, Zenon
<1>. HIDE DEF total
<1>. QED
  BY <1>1, <1>2, <1>3, <1>5, <1>6, SumsAreNatural
(* The same of the points of a root's sources.                               *)
LEMMA SourcePointsType ==
  ASSUME NEW sources \in SUBSET Sources, IsFiniteSet(sources)
  PROVE  MapThenSumSet(SourcePoints, sources) \in Nat
<1>. DEFINE w == [m \in sources |-> SourcePoints(m)]
            pick == [s \in SUBSET sources |-> CHOOSE x \in s : TRUE]
            Points(sum) == sum = [s \in SUBSET sources |->
                                   IF s = {} THEN 0
                                   ELSE SourcePoints(CHOOSE x \in s : TRUE)
                                         + sum[s \ {CHOOSE x \in s : TRUE}]]
<1>1. \A x \in sources : w[x] = SourcePoints(x) /\ w[x] \in Nat
  BY DEF SourcePoints, Sources
<1>2. Picks(pick, sources) /\ \A s \in SUBSET sources : pick[s] = CHOOSE x \in s : TRUE
  BY DEF Picks
<1>3. \A sum : Points(sum) <=> Sums(sum, sources, w, pick)
  <2>1. ASSUME NEW s \in SUBSET sources, s # {}
        PROVE  w[pick[s]] = SourcePoints(CHOOSE x \in s : TRUE)
    BY <1>1, <1>2, <2>1 DEF Picks
  <2>. HIDE DEF w, pick
  <2>. QED
    BY <1>2, <2>1 DEF Sums
<1>. HIDE DEF w, pick, Points
<1>4. \E sum : Points(sum)
  BY <1>2, <1>3, SumExists
<1>. DEFINE total == CHOOSE sum : Points(sum)
<1>5. MapThenSumSet(SourcePoints, sources) = total[sources]
  BY Zenon DEF MapThenSumSet, MapThenFoldSet, Points
<1>6. Points(total)
  BY <1>4, Zenon
<1>. HIDE DEF total
<1>7. total[sources] \in Nat
  BY <1>1, <1>2, <1>3, <1>6, SumsAreNatural
<1>. QED
  BY <1>5, <1>7, Zenon

(* And more of what is known of every site.                                 *)
LEMMA MoreSiteFacts ==
  ASSUME site \in Sites
  PROVE  /\ site.parent \in [Dirs -> 0..NumDirs] /\ \A d \in Dirs : site.parent[d] < d
         /\ site.sources \in [Dirs -> SUBSET Sources]
         /\ site.home \in [Files -> Dirs] /\ site.present \subseteq Files
         /\ site.marks \in [Files -> SUBSET Marks]
         /\ site.confirmed \in 0..NumFiles /\ site.configured \in 0..NumFiles
         /\ site.depth \in Nat
         /\ Allowed \subseteq Dirs
BY DiscoveryAssumption DEF SiteType, Allowed, Roots

(* The sets of marks and of sources are finite.                             *)
LEMMA FiniteNames == IsFiniteSet(Marks) /\ IsFiniteSet(Sources)
<1>1. ASSUME NEW a, NEW b, NEW c PROVE IsFiniteSet({a, b, c})
  <2>1. IsFiniteSet({a} \cup {b})
    BY FS_Singleton, FS_Union
  <2>2. IsFiniteSet(({a} \cup {b}) \cup {c})
    BY <2>1, FS_Singleton, FS_Union
  <2>3. {a, b, c} = ({a} \cup {b}) \cup {c}
    OBVIOUS
  <2>. QED
    BY <2>2, <2>3
<1>2. IsFiniteSet(Marks)
  <2> DEFINE A == {"log name", "markers", "sqlite header"}
             B == {"readonly", "objects", "timestamps"}
             C == {"sidecar", "recent", "large"}
  <2>1. Marks = (A \cup B) \cup C
    BY DEF Marks
  <2>2. IsFiniteSet(A) /\ IsFiniteSet(B) /\ IsFiniteSet(C)
    BY <1>1, Zenon
  <2>. HIDE DEF A, B, C
  <2>3. IsFiniteSet(A \cup B)
    BY <2>2, FS_Union
  <2>. QED
    BY <2>1, <2>2, <2>3, FS_Union
<1>3. IsFiniteSet(Sources)
  <2> DEFINE A == {"process", "branded process", "service"}
             B == {"application", "publisher's application", "standard"}
             C == {"additional", "additional", "additional"}
  <2>1. Sources = (A \cup B) \cup C
    BY DEF Sources
  <2>2. IsFiniteSet(A) /\ IsFiniteSet(B) /\ IsFiniteSet(C)
    BY <1>1, Zenon
  <2>. HIDE DEF A, B, C
  <2>3. IsFiniteSet(A \cup B)
    BY <2>2, FS_Union
  <2>. QED
    BY <2>1, <2>2, <2>3, FS_Union
<1>. QED
  BY <1>2, <1>3

(* What a file is a candidate for has its type.                             *)
LEMMA FoundType ==
  ASSUME site \in Sites, NEW f \in Files
  PROVE  Found(f) \subseteq Candidates
<1>2. Visible(f) \subseteq site.marks[f] /\ IsFiniteSet(Visible(f))
  BY FiniteNames, MoreSiteFacts, FS_Subset DEF Visible
<1>3. LogScore(Visible(f)) \in Nat /\ ArchiveScore(Visible(f)) \in Nat
  BY <1>2, LogScoreType, ArchiveScoreType
<1>. DEFINE a == [file |-> f, type |-> "log", score |-> LogScore(Visible(f))]
            b == [file |-> f, type |-> "archive", score |-> ArchiveScore(Visible(f))]
<1>4. a \in Candidates /\ b \in Candidates
  BY <1>3 DEF Candidates
<1>5. \A c \in Found(f) : c = a \/ c = b
  BY DEF Found
<1>. QED
  BY <1>4, <1>5

(* The score of a root is a natural number.                                 *)
LEMMA RootScoreType ==
  ASSUME site \in Sites, NEW d \in Dirs
  PROVE  RootScore(d) \in Nat
<1>2. site.sources[d] \in SUBSET Sources /\ IsFiniteSet(site.sources[d])
  BY FiniteNames, MoreSiteFacts, FS_Subset
<1>3. MapThenSumSet(SourcePoints, site.sources[d]) \in Nat
  BY <1>2, SourcePointsType
<1>4. NamedPoints(d) \in Nat
  BY DEF NamedPoints
<1>. DEFINE points == MapThenSumSet(SourcePoints, site.sources[d])
<1>5. RootScore(d) = points + NamedPoints(d)
  BY Zenon DEF RootScore
<1>. HIDE DEF points
<1>. QED
  BY <1>3, <1>4, <1>5 DEF points

(* What can be chosen, and when the choice is an error.                     *)
LEMMA ChosenType ==
  ASSUME Walking
  PROVE  /\ Chosen.selected \in 0..NumFiles /\ Chosen.confirm \in BOOLEAN
         /\ Chosen.status \in {"none", "ambiguous", "error", "confirmed", "configured"}
         /\ Chosen.status = "error" => Named # None /\ ByName.status = "error"
<1>1. CASE Named # None
  <2>1. Named \in 0..NumFiles
    BY MoreSiteFacts DEF Walking, Waiting, Named
  <2>2. /\ ByName.selected = Named /\ ByName.confirm = FALSE
        /\ ByName.status \in {"error", "confirmed", "configured"}
    BY DEF ByName
  <2>. QED
    BY <1>1, <2>1, <2>2 DEF Chosen
<1>2. CASE Named = None
  <2>1. CASE Cardinality(Strong) = 1
    <3>1. PICK c \in candidates : Strong = {c} /\ c.file \in seen
      BY <2>1, OnlyStrong
    <3>2. c.file \in 0..NumFiles
      <4>1. c.file \in Files
        BY <3>1 DEF Walking, Counted
      <4>. QED
        BY <4>1, DiscoveryAssumption DEF Files
    <3>3. /\ Proposed.selected = c.file /\ Proposed.confirm = TRUE
          /\ Proposed.status = "none"
      BY <2>1, <3>1 DEF Proposed
    <3>. QED
      BY <1>2, <3>2, <3>3 DEF Chosen
  <2>2. CASE Cardinality(Strong) # 1
    <3>1. /\ Proposed.selected = None /\ Proposed.confirm = FALSE
          /\ Proposed.status \in {"none", "ambiguous"}
      BY <2>2 DEF Proposed
    <3>2. Chosen = Proposed
      BY <1>2 DEF Chosen
    <3>3. 0 \in 0..NumFiles
      BY DiscoveryAssumption
    <3>. QED
      BY <3>1, <3>2, <3>3 DEF None
  <2>. QED
    BY <2>1, <2>2
<1>. QED
  BY <1>1, <1>2

(* The steps that change nothing of what has a structured type.             *)
LEMMA PauseTypes ==
  ASSUME TypeOK, Walking, site' = site,
         UNCHANGED <<pending, visited, here, seen, candidates, components, report>>,
         pc' \in {"gather", "walk", "list", "entries", "choose", "done"},
         failed' = failed \/ (pc = "list" /\ failed' = failed \cup {here.dir}),
         entries' \in {entries, [dirs |-> {}, files |-> {}]}, lost' = lost,
         truncated' \in BOOLEAN, stopping' \in BOOLEAN, late' \in BOOLEAN
  PROVE  TypeOK'
<1>1. failed' \subseteq visited
  BY DEF TypeOK, Walking, Waiting
<1>2. entries'.dirs \subseteq Dirs /\ entries'.files \subseteq site.present
  BY DEF TypeOK, Listing
<1>. QED
  BY <1>1, <1>2 DEF TypeOK

(* Types hold at the start.                                                 *)
LEMMA InitTypeOK == Init => TypeOK
<1>. SUFFICES ASSUME Init PROVE TypeOK
  OBVIOUS
<1>1. site \in Sites /\ site.depth \in Nat
  BY MoreSiteFacts DEF Init
<1>2. here \in [dir : 0..NumDirs, depth : 0..site.depth]
  BY <1>1, DiscoveryAssumption DEF Init, None
<1>3. report \in Verdicts
  BY DiscoveryAssumption DEF Init, Verdicts, Scanning, None
<1>4. pending \in Seq([dir : Dirs, depth : 0..site.depth])
  BY DEF Init
<1>. QED
  BY <1>1, <1>2, <1>3, <1>4 DEF TypeOK, Init

(* Every step keeps the types.                                              *)
LEMMA TypeOKKept == TypeOK /\ Walking /\ Walking' /\ [Next]_vars => TypeOK'
<1>. SUFFICES ASSUME TypeOK, Walking, Walking', [Next]_vars PROVE TypeOK'
  OBVIOUS
<1>1. site' = site /\ site \in Sites /\ site.depth \in Nat
  BY SiteKept, MoreSiteFacts DEF TypeOK
<1>2. CASE Gather
  <2>1. PICK s \in Orders :
          pending' = [i \in 1..Cardinality(Allowed) |-> [dir |-> s[i], depth |-> 0]]
    BY <1>2 DEF Gather
  <2>2. Cardinality(Allowed) \in Nat
    BY Finite, FS_CardinalityType DEF Allowed, Roots
  <2>3. \A i \in 1..Cardinality(Allowed) :
          [dir |-> s[i], depth |-> 0] \in [dir : Dirs, depth : 0..site.depth]
    BY <1>1 DEF Orders, Allowed, Roots
  <2>4. pending' \in [1..Cardinality(Allowed) -> [dir : Dirs, depth : 0..site.depth]]
    BY <2>1, <2>3
  <2>5. pending' \in Seq([dir : Dirs, depth : 0..site.depth])
    BY <2>2, <2>4, Filled
  <2>6. components' \subseteq [type : ComponentTypes, score : Nat]
    <3>1. ASSUME NEW s1 \in UNION {site.sources[d] : d \in Dirs}
          PROVE  s1 \in Sources /\ SourcePoints(s1) \in Nat
      BY <1>1, MoreSiteFacts DEF SourcePoints, Sources
    <3>2. \A c \in components' : \E s1 \in UNION {site.sources[d] : d \in Dirs} :
             c = [type |-> s1, score |-> SourcePoints(s1)]
      BY <1>2 DEF Gather
    <3>. QED
      BY <3>1, <3>2 DEF ComponentTypes
  <2>. QED
    BY <1>1, <1>2, <2>5, <2>6 DEF TypeOK, Gather
<1>3. CASE NextDirectory
  <2>1. pending # <<>> /\ pending' = Tail(pending)
    BY <1>3 DEF NextDirectory
  <2>2. /\ Head(pending) \in [dir : Dirs, depth : 0..site.depth]
        /\ Tail(pending) \in Seq([dir : Dirs, depth : 0..site.depth])
    <3>1. pending \in Seq([dir : Dirs, depth : 0..site.depth])
      BY DEF TypeOK
    <3>. QED
      BY <2>1, <3>1, PopFront
  <2>3. Head(pending) \in [dir : 0..NumDirs, depth : 0..site.depth]
    BY <2>2, DiscoveryAssumption DEF Dirs
  <2>4. CASE UNCHANGED <<pc, visited, here>>
    BY <1>1, <1>3, <2>1, <2>2, <2>4 DEF TypeOK, NextDirectory
  <2>5. CASE /\ visited' = visited \cup {Head(pending).dir}
             /\ here' = Head(pending) /\ pc' = "list"
    BY <1>1, <1>3, <2>1, <2>2, <2>3, <2>5 DEF TypeOK, NextDirectory
  <2>. QED
    BY <1>3, <2>4, <2>5 DEF NextDirectory
<1>4. CASE ListingFails \/ ListedTooLate \/ WalkEnds \/ WalkTruncated \/ FileLimit
            \/ EntriesDone \/ TimeIsUp \/ RequestStop
  BY <1>4, PauseTypes DEF TypeOK, ListingFails, ListedTooLate, WalkEnds, WalkTruncated,
     FileLimit, EntriesDone, TimeIsUp, RequestStop
<1>5. CASE Listed
  <2>1. here.dir \in Dirs
    BY <1>5 DEF Listed, Walking, Waiting, Counted
  <2>2. RootScore(here.dir) + 10 \in Nat
    BY <1>1, <2>1, RootScoreType
  <2>3. components' \subseteq [type : ComponentTypes, score : Nat]
    BY <1>5, <2>2 DEF Listed, TypeOK, ComponentTypes
  <2>4. entries'.dirs \subseteq Dirs /\ entries'.files \subseteq site.present
    BY <1>5 DEF Listed, Listing
  <2>5. lost' \in [dirs : SUBSET Dirs, files : SUBSET Files]
    <3>1. lost.dirs \subseteq Dirs /\ lost.files \subseteq Files
      BY DEF TypeOK
    <3>2. Listing(here.dir).dirs \subseteq Dirs /\ Listing(here.dir).files \subseteq Files
      BY <1>1, SiteFacts DEF Listing
    <3>. QED
      BY <1>5, <3>1, <3>2 DEF Listed
  <2>6. failed' \subseteq visited'
    BY <1>5 DEF Listed, TypeOK
  <2>. QED
    BY <1>1, <1>5, <2>3, <2>4, <2>5, <2>6 DEF TypeOK, Listed
<1>6. CASE \E d \in Dirs : Directory(d)
  <2>1. PICK d \in Dirs : Directory(d)
    BY <1>6
  <2>2. entries'.dirs \subseteq Dirs /\ entries'.files \subseteq site.present
    BY <2>1 DEF Directory, TypeOK, Walking, Waiting
  <2>3. pending' \in Seq([dir : Dirs, depth : 0..site.depth])
    <3>1. CASE Follows(d)
      <4>1. [dir |-> d, depth |-> here.depth + 1] \in [dir : Dirs, depth : 0..site.depth]
        BY <1>1, <3>1 DEF Follows, TypeOK
      <4>. QED
        BY <2>1, <3>1, <4>1, PushBack DEF Directory, Enqueued, TypeOK
    <3>2. CASE ~Follows(d)
      BY <2>1, <3>2 DEF Directory, TypeOK
    <3>. QED
      BY <3>1, <3>2
  <2>. QED
    BY <1>1, <2>1, <2>2, <2>3 DEF TypeOK, Directory
<1>7. CASE \E f \in Files : File(f)
  <2>1. PICK f \in Files : File(f)
    BY <1>7
  <2>2. /\ entries'.dirs \subseteq Dirs /\ entries'.files \subseteq site.present
        /\ seen' \subseteq site.present
    BY <2>1 DEF File, TypeOK, Walking, Waiting
  <2>3. candidates' \subseteq Candidates
    BY <1>1, <2>1, FoundType DEF File, TypeOK
  <2>. QED
    BY <1>1, <2>1, <2>2, <2>3 DEF TypeOK, File
<1>8. CASE Choose
  <2>1. \A n : Confidence(n) \in {"unknown", "low", "medium", "high"}
    BY DEF Confidence
  <2>2. Detected \in BOOLEAN
    BY DEF Detected
  <2>3. report' \in Verdicts
    <3>1. report' = [selected |-> Chosen.selected, confirm |-> Chosen.confirm,
                     detected |-> Detected, confidence |-> Confidence(BestScore),
                     status |-> IF Chosen.status # "none" THEN Chosen.status
                                ELSE IF Detected THEN "detected" ELSE "not_found"]
      BY <1>8 DEF Choose
    <3>2. (IF Chosen.status # "none" THEN Chosen.status
           ELSE IF Detected THEN "detected" ELSE "not_found")
          \in {"scanning", "detected", "confirmed", "configured", "not_found",
               "ambiguous", "error"}
      BY ChosenType
    <3>. QED
      BY <2>1, <2>2, <3>1, <3>2, ChosenType DEF Verdicts
  <2>. QED
    BY <1>1, <1>8, <2>3 DEF TypeOK, Choose
<1>9. CASE UNCHANGED vars
  BY <1>9 DEF vars, TypeOK
<1>. QED
  BY <1>2, <1>3, <1>4, <1>5, <1>6, <1>7, <1>8, <1>9, NextCases

(* How the walk came to where it is: level[d] is the depth at which d was   *)
(* visited.                                                                 *)
Opened == {d \in visited \ failed : ~(pc = "list" /\ d = here.dir)}

(* A directory at depth n is an allowed root, or an entry that is no        *)
(* junction of a directory one level up that has been listed.               *)
Way(level, d, n) ==
  \/ n = 0 /\ d \in Allowed
  \/ /\ d \notin site.junctions \cup lost.dirs /\ site.parent[d] \in Opened
     /\ n = level[site.parent[d]] + 1

Routes(level) ==
  /\ \A d \in visited : Way(level, d, level[d])
  /\ \A i \in 1..Len(pending) : Way(level, pending[i].dir, pending[i].depth)

(* The deque holds at most two levels, the nearer one first, and nothing    *)
(* nearer than what has been visited.                                       *)
Breadth(level) ==
  /\ \A i \in 1..Len(pending) : \A d \in visited : level[d] <= pending[i].depth
  /\ \A i, j \in 1..Len(pending) :
       /\ pending[j].depth <= pending[i].depth + 1
       /\ i <= j => pending[i].depth <= pending[j].depth

InFront(level) ==
  pc \in {"list", "entries"} =>
    /\ here.dir \in visited \ failed /\ level[here.dir] = here.depth
    /\ \A d \in visited : level[d] <= here.depth
    /\ \A i \in 1..Len(pending) : pending[i].depth <= here.depth + 1

(* d has been visited, or waits to be, at depth n or above.                 *)
Met(level, d, n) ==
  \/ d \in visited /\ level[d] <= n
  \/ \E i \in 1..Len(pending) : pending[i].dir = d /\ pending[i].depth <= n

(* Nothing is forgotten: what has been listed lies before the walk, behind  *)
(* it, or is left of the listing.                                           *)
NothingLost(level) ==
  ~truncated /\ ~stopping =>
    /\ pc # "gather" => \A d \in Allowed : Met(level, d, 0)
    /\ \A d \in Dirs \ (site.junctions \cup lost.dirs) :
         site.parent[d] \in Opened /\ level[site.parent[d]] < site.depth =>
           d \in entries.dirs \/ Met(level, d, level[site.parent[d]] + 1)
    /\ \A f \in site.present \ lost.files :
         site.home[f] \in Opened => f \in seen \cup entries.files
    /\ pc \in {"choose", "done"} => pending = <<>>

Levels == [visited -> 0..site.depth]

Surroundings ==
  /\ \A d \in entries.dirs : pc = "entries" /\ site.parent[d] = here.dir
  /\ \A f \in entries.files : pc = "entries" /\ site.home[f] = here.dir
  /\ pc = "gather" => visited = {}
  /\ \A f \in seen : site.home[f] \in Opened
  /\ report.status = "error" => Named # None /\ ByName.status = "error"
  /\ pc # "done" => report.status # "error"

(* What a listing left out is neither waiting nor examined, and lies in a   *)
(* directory that has been listed.                                          *)
LeftOut ==
  /\ \A d \in lost.dirs : site.parent[d] \in Opened /\ d \notin entries.dirs
  /\ \A f \in lost.files : site.home[f] \in Opened /\ f \notin seen \cup entries.files

Trace ==
  \E level \in Levels : Routes(level) /\ Breadth(level) /\ InFront(level) /\ NothingLost(level)

Tracing == Walking /\ TypeOK /\ Surroundings /\ LeftOut /\ Trace

(* The walk starts with nothing visited.                                    *)
LEMMA InitTracing == Init => Tracing
<1>. SUFFICES ASSUME Init PROVE Tracing
  OBVIOUS
<1>1. Walking /\ TypeOK
  BY InitWalking, InitTypeOK
<1>2. Surroundings /\ LeftOut
  BY DEF Init, Surroundings, Scanning, LeftOut
<1>. DEFINE level == [d \in visited |-> 0]
<1>3. level \in Levels
  BY DEF Init, Levels
<1>. HIDE DEF level
<1>4. Opened = {}
  BY DEF Opened, Init
<1>5. Len(pending) = 0
  BY DEF Init
<1>6. Routes(level) /\ Breadth(level) /\ InFront(level) /\ NothingLost(level)
  BY <1>4, <1>5 DEF Init, Routes, Breadth, InFront, NothingLost
<1>. QED
  BY <1>1, <1>2, <1>3, <1>6 DEF Tracing, Trace

(* Steps that leave the walk where it is.                                   *)
LEMMA StillKeeps ==
  ASSUME NEW level, Routes(level), Breadth(level), InFront(level), site' = site,
         UNCHANGED <<visited, pending, here>>, Opened \subseteq Opened',
         \A d \in lost'.dirs : d \in lost.dirs \/ site.parent[d] \notin Opened,
         pc' \in {"list", "entries"} =>
           pc \in {"list", "entries"} /\ here.dir \notin failed'
  PROVE  Routes(level)' /\ Breadth(level)' /\ InFront(level)'
<1>1. Allowed' = Allowed
  BY SameSite DEF Allowed, Roots
<1>2. \A d, n : Way(level, d, n) => Way(level, d, n)'
  BY <1>1 DEF Way
<1>3. Routes(level)'
  BY <1>2 DEF Routes
<1>4. Breadth(level)'
  BY DEF Breadth
<1>5. InFront(level)'
  BY DEF InFront
<1>. QED
  BY <1>3, <1>4, <1>5

(* The depths of what was visited stay a function of the right type.        *)
LEMMA SameLevels ==
  ASSUME NEW level \in Levels, site' = site, visited' = visited
  PROVE  level \in Levels'
BY DEF Levels

(* The same steps forget nothing.                                           *)
LEMMA StillForgetsNothing ==
  ASSUME NEW level, NothingLost(level), site' = site,
         UNCHANGED <<visited, pending, entries, seen, lost>>, Opened' \subseteq Opened,
         truncated => truncated', stopping => stopping',
         pc' # "gather" => pc # "gather",
         pc' \in {"choose", "done"} => pc \in {"choose", "done"} \/ pending = <<>>
  PROVE  NothingLost(level)'
<1>1. Allowed' = Allowed
  BY SameSite DEF Allowed, Roots
<1>2. \A d, n : Met(level, d, n)' = Met(level, d, n)
  BY DEF Met
<1>. QED
  BY <1>1, <1>2 DEF NothingLost

(* What is left of a listing and what has been examined stay where they are.*)
LEMMA SurroundingsKept == Tracing /\ [Next]_vars => Surroundings'
<1>. SUFFICES ASSUME Tracing, [Next]_vars PROVE Surroundings'
  OBVIOUS
<1>. USE DEF Tracing
<1>1. site' = site
  BY SiteKept
<1>2. Named' = Named /\ (candidates' = candidates => ByName' = ByName)
  BY <1>1 DEF Named, ByName, Archives
<1>3. failed \subseteq visited
  BY DEF TypeOK
<1>4. CASE Gather
  BY <1>1, <1>2, <1>4 DEF Gather, Surroundings, Opened
<1>5. CASE WalkEnds \/ WalkTruncated
  BY <1>1, <1>2, <1>5 DEF WalkEnds, WalkTruncated, Surroundings, Opened
<1>6. CASE NextDirectory
  <2>1. CASE UNCHANGED <<pc, visited, here>>
    BY <1>1, <1>2, <1>6, <2>1 DEF NextDirectory, Surroundings, Opened
  <2>2. CASE /\ visited' = visited \cup {Head(pending).dir}
             /\ Head(pending).dir \notin visited
             /\ here' = Head(pending) /\ pc' = "list"
    BY <1>1, <1>2, <1>6, <2>2 DEF NextDirectory, Surroundings, Opened
  <2>. QED
    BY <1>6, <2>1, <2>2 DEF NextDirectory
<1>7. CASE ListingFails
  BY <1>1, <1>2, <1>7 DEF ListingFails, Surroundings, Opened
<1>8. CASE ListedTooLate
  BY <1>1, <1>2, <1>8 DEF ListedTooLate, Surroundings, Opened
<1>9. CASE Listed
  BY <1>1, <1>2, <1>9 DEF Listed, Surroundings, Opened, Listing
<1>10. CASE \E d \in Dirs : Directory(d)
  <2>1. PICK d \in Dirs : Directory(d)
    BY <1>10
  <2>2. entries'.dirs \subseteq entries.dirs /\ entries'.files = entries.files
    BY <2>1 DEF Directory, Walking, Waiting
  <2>. QED
    BY <1>1, <1>2, <2>1, <2>2 DEF Directory, Surroundings, Opened
<1>11. CASE \E f \in Files : File(f)
  <2>1. PICK f \in Files : File(f)
    BY <1>11
  <2>2. entries'.dirs = entries.dirs /\ entries'.files \subseteq entries.files
    BY <2>1 DEF File, Walking, Waiting
  <2>3. pc = "entries" /\ site.home[f] = here.dir /\ here.dir \in visited \ failed
    BY <2>1 DEF File, Surroundings, Trace, InFront
  <2>. QED
    BY <1>1, <1>2, <2>1, <2>2, <2>3 DEF File, Surroundings, Opened
<1>12. CASE FileLimit \/ EntriesDone
  BY <1>1, <1>2, <1>12 DEF FileLimit, EntriesDone, Surroundings, Opened
<1>13. CASE Choose
  <2>1. report'.status = "error" => Chosen.status = "error"
    <3>1. report'.status = IF Chosen.status # "none" THEN Chosen.status
                           ELSE IF Detected THEN "detected" ELSE "not_found"
      BY <1>13 DEF Choose
    <3>. QED
      BY <3>1
  <2>2. report'.status = "error" => Named # None /\ ByName.status = "error"
    BY <2>1, ChosenType
  <2>. QED
    BY <1>1, <1>2, <1>13, <2>2 DEF Choose, Surroundings, Opened
<1>14. CASE TimeIsUp \/ RequestStop
  BY <1>1, <1>2, <1>14 DEF TimeIsUp, RequestStop, Surroundings, Opened
<1>15. CASE UNCHANGED vars
  BY <1>1, <1>2, <1>15 DEF vars, Surroundings, Opened
<1>. QED
  BY <1>4, <1>5, <1>6, <1>7, <1>8, <1>9, <1>10, <1>11, <1>12, <1>13, <1>14, <1>15, NextCases

(* What has been left out stays out.                                        *)
LEMMA StillLeftOut ==
  ASSUME LeftOut, site' = site, lost' = lost, Opened \subseteq Opened',
         entries'.dirs \subseteq entries.dirs,
         seen' \cup entries'.files \subseteq seen \cup entries.files
  PROVE  LeftOut'
BY DEF LeftOut

LEMMA LeftOutKept == Tracing /\ [Next]_vars => LeftOut'
<1>. SUFFICES ASSUME Tracing, [Next]_vars PROVE LeftOut'
  OBVIOUS
<1>. USE DEF Tracing
<1>1. site' = site /\ failed \subseteq visited
  BY SiteKept DEF TypeOK
<1>2. CASE Listed
  <2>1. /\ pc = "list" /\ pc' = "entries"
        /\ UNCHANGED <<visited, here, seen, failed>>
        /\ entries' \in [dirs : SUBSET Listing(here.dir).dirs,
                        files : SUBSET Listing(here.dir).files]
        /\ lost'.dirs = lost.dirs \cup (Listing(here.dir).dirs \ entries'.dirs)
        /\ lost'.files = lost.files \cup (Listing(here.dir).files \ entries'.files)
    BY <1>2 DEF Listed
  <2>2. here.dir \in visited \ failed
    BY <2>1 DEF Trace, InFront
  <2>3. Opened' = Opened \cup {here.dir} /\ here.dir \notin Opened
    BY <2>1, <2>2 DEF Opened
  <2>4. ASSUME NEW d \in lost'.dirs
        PROVE  site.parent[d] \in Opened' /\ d \notin entries'.dirs
    BY <2>1, <2>3, <2>4 DEF LeftOut, Listing
  <2>5. ASSUME NEW f \in lost'.files
        PROVE  site.home[f] \in Opened' /\ f \notin seen' \cup entries'.files
    <3>1. CASE f \in lost.files
      BY <2>1, <2>3, <3>1 DEF LeftOut, Listing
    <3>2. CASE f \in Listing(here.dir).files \ entries'.files
      <4>1. site.home[f] = here.dir
        BY <3>2 DEF Listing
      <4>2. f \notin seen
        BY <2>3, <4>1 DEF Surroundings
      <4>. QED
        BY <2>1, <2>3, <3>2, <4>1, <4>2
    <3>. QED
      BY <2>1, <2>5, <3>1, <3>2
  <2>. QED
    BY <1>1, <2>4, <2>5 DEF LeftOut
<1>3. CASE \E d \in Dirs : Directory(d)
  <2>1. PICK d \in Dirs : Directory(d)
    BY <1>3
  <2>2. entries'.dirs \subseteq entries.dirs /\ entries'.files = entries.files
    BY <2>1 DEF Directory, Walking, Waiting
  <2>. QED
    BY <1>1, <2>1, <2>2, StillLeftOut DEF Directory, Opened
<1>4. CASE \E f \in Files : File(f)
  <2>1. PICK f \in Files : File(f)
    BY <1>4
  <2>2. /\ entries'.dirs = entries.dirs /\ entries'.files \subseteq entries.files
        /\ seen' \subseteq seen \cup entries.files
    BY <2>1 DEF File, Walking, Waiting
  <2>. QED
    BY <1>1, <2>1, <2>2, StillLeftOut DEF File, Opened
<1>5. CASE NextDirectory
  <2>1. lost' = lost /\ entries' = entries /\ seen' = seen /\ failed' = failed
    BY <1>5 DEF NextDirectory
  <2>2. Opened \subseteq Opened'
    <3>1. CASE UNCHANGED <<pc, visited, here>>
      BY <2>1, <3>1 DEF Opened
    <3>2. CASE /\ visited' = visited \cup {Head(pending).dir}
               /\ Head(pending).dir \notin visited
               /\ here' = Head(pending) /\ pc' = "list"
      BY <2>1, <3>2 DEF Opened
    <3>. QED
      BY <1>5, <3>1, <3>2 DEF NextDirectory
  <2>. QED
    BY <1>1, <2>1, <2>2, StillLeftOut
<1>6. CASE ListingFails \/ ListedTooLate
  BY <1>1, <1>6, StillLeftOut DEF ListingFails, ListedTooLate, Opened
<1>7. CASE Gather \/ WalkEnds \/ WalkTruncated \/ Choose \/ TimeIsUp \/ RequestStop
  BY <1>1, <1>7, StillLeftOut DEF Gather, WalkEnds, WalkTruncated, Choose, TimeIsUp,
     RequestStop, Opened
<1>8. CASE FileLimit \/ EntriesDone
  BY <1>1, <1>8, StillLeftOut DEF FileLimit, EntriesDone, Opened
<1>9. CASE UNCHANGED vars
  BY <1>1, <1>9, StillLeftOut DEF vars, Opened
<1>. QED
  BY <1>2, <1>3, <1>4, <1>5, <1>6, <1>7, <1>8, <1>9, NextCases

(* The steps that end the walk, a listing or the scan, and the environment's.*)
LEMMA PauseTraces ==
  ASSUME Tracing,
         \/ WalkEnds \/ WalkTruncated \/ ListingFails \/ ListedTooLate
         \/ FileLimit \/ EntriesDone \/ Choose \/ TimeIsUp \/ RequestStop
         \/ UNCHANGED vars
  PROVE  Trace'
<1>1. PICK level \in Levels :
        Routes(level) /\ Breadth(level) /\ InFront(level) /\ NothingLost(level)
  BY DEF Tracing, Trace
<1>2. site' = site /\ UNCHANGED <<visited, pending, here, lost>>
  BY DEF WalkEnds, WalkTruncated, ListingFails, ListedTooLate, FileLimit, EntriesDone,
     Choose, TimeIsUp, RequestStop, vars
<1>3. /\ Opened \subseteq Opened'
      /\ pc' \in {"list", "entries"} =>
           pc \in {"list", "entries"} /\ here.dir \notin failed'
  <2>1. pc \in {"list", "entries"} => here.dir \notin failed
    BY <1>1 DEF InFront
  <2>2. CASE ListingFails
    BY <2>2 DEF Opened, ListingFails
  <2>3. CASE ListedTooLate
    BY <2>3 DEF Opened, ListedTooLate
  <2>4. CASE \/ WalkEnds \/ WalkTruncated \/ FileLimit \/ EntriesDone \/ Choose
             \/ TimeIsUp \/ RequestStop \/ UNCHANGED vars
    BY <2>1, <2>4 DEF Opened, WalkEnds, WalkTruncated, FileLimit, EntriesDone, Choose,
       TimeIsUp, RequestStop, vars
  <2>. QED
    BY <2>2, <2>3, <2>4
<1>4. Routes(level)' /\ Breadth(level)' /\ InFront(level)'
  BY <1>1, <1>2, <1>3, StillKeeps
<1>5. NothingLost(level)'
  <2>1. CASE truncated' \/ stopping'
    BY <2>1 DEF NothingLost
  <2>2. CASE ~truncated' /\ ~stopping'
    <3>1. /\ ~ListedTooLate /\ ~FileLimit /\ ~WalkTruncated /\ ~RequestStop
          /\ truncated' = truncated /\ stopping' = stopping
      BY <2>2 DEF ListedTooLate, FileLimit, WalkTruncated, RequestStop, WalkEnds,
         ListingFails, EntriesDone, Choose, TimeIsUp, vars
    <3>2. UNCHANGED <<entries, seen>> /\ Opened' \subseteq Opened
      <4>1. CASE EntriesDone
        BY <2>2, <4>1 DEF EntriesDone, Opened
      <4>2. CASE ListingFails
        BY <4>2 DEF ListingFails, Opened
      <4>3. CASE WalkEnds \/ Choose \/ TimeIsUp \/ UNCHANGED vars
        BY <4>3 DEF WalkEnds, Choose, TimeIsUp, vars, Opened
      <4>. QED
        BY <3>1, <4>1, <4>2, <4>3
    <3>3. /\ pc' # "gather" => pc # "gather"
          /\ pc' \in {"choose", "done"} => pc \in {"choose", "done"} \/ pending = <<>>
      BY <2>2, <3>1 DEF WalkEnds, ListingFails, EntriesDone, Choose, TimeIsUp, vars
    <3>. QED
      BY <1>1, <1>2, <3>1, <3>2, <3>3, StillForgetsNothing
  <2>. QED
    BY <2>1, <2>2
<1>. QED
  BY <1>1, <1>2, <1>4, <1>5, SameLevels DEF Trace

(* An order of a finite set names all of it.                                *)
LEMMA OrderIsOnto ==
  ASSUME NEW S, IsFiniteSet(S), NEW s \in [1..Cardinality(S) -> S],
         \A i, j \in 1..Cardinality(S) : s[i] = s[j] => i = j
  PROVE  \A x \in S : \E i \in 1..Cardinality(S) : s[i] = x
<1>1. Cardinality(S) \in Nat
  BY FS_CardinalityType
<1>2. Cardinality(1..Cardinality(S)) = Cardinality(S)
  BY <1>1, FS_Interval
<1>3. s \in Injection(1..Cardinality(S), S)
  BY DEF Injection, IsInjective
<1>4. s \in Surjection(1..Cardinality(S), S)
  BY <1>2, <1>3, FS_Injection
<1>. QED
  BY <1>4 DEF Surjection

(* The walk starts with all the allowed roots.                              *)
LEMMA GatherTraces == Tracing /\ Gather => Trace'
<1>. SUFFICES ASSUME Tracing, Gather PROVE Trace'
  OBVIOUS
<1>1. PICK level \in Levels :
        Routes(level) /\ Breadth(level) /\ InFront(level) /\ NothingLost(level)
  BY DEF Tracing, Trace
<1>2. PICK s \in Orders :
        pending' = [i \in 1..Cardinality(Allowed) |-> [dir |-> s[i], depth |-> 0]]
  BY DEF Gather
<1>3. /\ site' = site /\ pc' = "walk" /\ visited = {} /\ visited' = {}
      /\ UNCHANGED <<entries, seen, failed, lost>>
  BY DEF Gather, Tracing, Surroundings
<1>4. IsFiniteSet(Allowed) /\ Cardinality(Allowed) \in Nat
  BY Finite, FS_CardinalityType DEF Allowed, Roots
<1>5. \A i \in 1..Cardinality(Allowed) : s[i] \in Allowed
  BY DEF Orders
<1>6. \A d \in Allowed : \E i \in 1..Cardinality(Allowed) : s[i] = d
  BY <1>4, OrderIsOnto DEF Orders
<1>7. /\ Len(pending') = Cardinality(Allowed)
      /\ \A i \in 1..Cardinality(Allowed) :
           pending'[i].dir = s[i] /\ pending'[i].depth = 0
  BY <1>2, <1>4
<1>8. Allowed' = Allowed /\ Opened' = {}
  BY <1>3, SameSite DEF Allowed, Roots, Opened
<1>9. Routes(level)'
  BY <1>3, <1>5, <1>7, <1>8 DEF Routes, Way
<1>10. Breadth(level)' /\ InFront(level)'
  BY <1>3, <1>7 DEF Breadth, InFront
<1>11. NothingLost(level)'
  <2>1. \A d \in Allowed : Met(level, d, 0)'
    BY <1>6, <1>7 DEF Met
  <2>. QED
    BY <1>3, <1>8, <2>1 DEF NothingLost
<1>. QED
  BY <1>1, <1>3, <1>9, <1>10, <1>11, SameLevels DEF Trace

(* The members of a sequence.                                               *)
LEMMA Members ==
  ASSUME NEW T, NEW q \in Seq(T)
  PROVE  Len(q) \in Nat /\ \A i \in 1..Len(q) : q[i] \in T
OBVIOUS

(* A listing puts its entries before the walk.                              *)
LEMMA ListedTraces == Tracing /\ Listed => Trace'
<1>. SUFFICES ASSUME Tracing, Listed PROVE Trace'
  OBVIOUS
<1>1. PICK level \in Levels :
        Routes(level) /\ Breadth(level) /\ InFront(level) /\ NothingLost(level)
  BY DEF Tracing, Trace
<1>2. /\ site' = site /\ pc = "list" /\ pc' = "entries"
      /\ UNCHANGED <<visited, pending, here, seen, failed, truncated, stopping>>
      /\ entries' \in [dirs : SUBSET Listing(here.dir).dirs,
                      files : SUBSET Listing(here.dir).files]
      /\ lost'.dirs = lost.dirs \cup (Listing(here.dir).dirs \ entries'.dirs)
      /\ lost'.files = lost.files \cup (Listing(here.dir).files \ entries'.files)
  BY DEF Listed
<1>3. here.dir \in visited \ failed
  BY <1>1, <1>2 DEF InFront
<1>4. Opened' = Opened \cup {here.dir}
  BY <1>2, <1>3 DEF Opened
<1>5. Routes(level)' /\ Breadth(level)' /\ InFront(level)'
  <2>1. \A d \in lost'.dirs : d \in lost.dirs \/ site.parent[d] \notin Opened
    BY <1>2 DEF Listing, Opened
  <2>. QED
    BY <1>1, <1>2, <1>3, <1>4, <2>1, StillKeeps
<1>6. NothingLost(level)'
  <2>1. /\ \A d \in Dirs \ lost'.dirs : site.parent[d] = here.dir => d \in entries'.dirs
        /\ \A f \in site.present \ lost'.files : site.home[f] = here.dir => f \in entries'.files
        /\ lost.dirs \subseteq lost'.dirs /\ lost.files \subseteq lost'.files
    BY <1>2 DEF Listing
  <2>2. Allowed' = Allowed /\ \A d, n : Met(level, d, n)' = Met(level, d, n)
    BY <1>2, SameSite DEF Allowed, Roots, Met
  <2>3. entries.dirs = {} /\ entries.files = {}
    BY <1>2 DEF Tracing, Surroundings
  <2>. QED
    BY <1>1, <1>2, <1>4, <2>1, <2>2, <2>3 DEF NothingLost
<1>. QED
  BY <1>1, <1>2, <1>5, <1>6, SameLevels DEF Trace

(* A file that has been examined was one of the listing.                    *)
LEMMA FileTraces ==
  ASSUME Tracing, NEW f \in Files, File(f)
  PROVE  Trace'
<1>1. PICK level \in Levels :
        Routes(level) /\ Breadth(level) /\ InFront(level) /\ NothingLost(level)
  BY DEF Tracing, Trace
<1>2. /\ site' = site /\ pc' = pc /\ pc = "entries" /\ seen' = seen \cup {f}
      /\ UNCHANGED <<visited, pending, here, failed, lost, truncated, stopping>>
  BY DEF File
<1>3. entries'.dirs = entries.dirs /\ entries'.files = entries.files \ {f}
  BY DEF File, Tracing, Walking, Waiting
<1>4. Opened' = Opened
  BY <1>2 DEF Opened
<1>5. Routes(level)' /\ Breadth(level)' /\ InFront(level)'
  BY <1>1, <1>2, <1>4, StillKeeps DEF InFront
<1>6. NothingLost(level)'
  <2>1. Allowed' = Allowed /\ \A d, n : Met(level, d, n)' = Met(level, d, n)
    BY <1>2, SameSite DEF Allowed, Roots, Met
  <2>. QED
    BY <1>1, <1>2, <1>3, <1>4, <2>1 DEF NothingLost
<1>. QED
  BY <1>1, <1>2, <1>5, <1>6, SameLevels DEF Trace

(* A directory that is followed joins the deque one level below.            *)
LEMMA DirectoryTraces ==
  ASSUME Tracing, NEW d \in Dirs, Directory(d)
  PROVE  Trace'
<1>1. PICK level \in Levels :
        Routes(level) /\ Breadth(level) /\ InFront(level) /\ NothingLost(level)
  BY DEF Tracing, Trace
<1>2. /\ site' = site /\ pc' = pc /\ pc = "entries" /\ d \in entries.dirs
      /\ UNCHANGED <<visited, here, seen, failed, lost, truncated, stopping>>
      /\ pending' = IF Follows(d) THEN Enqueued(d) ELSE pending
  BY DEF Directory
<1>3. entries'.dirs = entries.dirs \ {d} /\ entries'.files = entries.files
  BY DEF Directory, Tracing, Walking, Waiting
<1>4. Opened' = Opened /\ Allowed' = Allowed
  BY <1>2, SameSite DEF Opened, Allowed, Roots
<1>5. /\ site.parent[d] = here.dir /\ here.dir \in Opened /\ d \notin lost.dirs
      /\ level[here.dir] = here.depth /\ here.depth \in Nat
  BY <1>1, <1>2 DEF Tracing, Surroundings, LeftOut, InFront, Opened, Walking, Waiting
<1>6. CASE ~Follows(d)
  <2>1. pending' = pending
    BY <1>2, <1>6
  <2>2. Routes(level)' /\ Breadth(level)' /\ InFront(level)'
    BY <1>1, <1>2, <1>4, <2>1, StillKeeps DEF InFront
  <2>3. NothingLost(level)'
    <3>1. \A e, n : Met(level, e, n)' = Met(level, e, n)
      BY <1>2, <2>1 DEF Met
    <3>2. d \in site.junctions \/ level[site.parent[d]] >= site.depth
      BY <1>5, <1>6, MoreSiteFacts DEF Follows, Tracing, TypeOK
    <3>. QED
      BY <1>1, <1>2, <1>3, <1>4, <1>5, <1>6, <2>1, <3>1, <3>2 DEF NothingLost, Follows
  <2>. QED
    BY <1>1, <1>2, <2>2, <2>3, SameLevels DEF Trace
<1>7. CASE Follows(d)
  <2> DEFINE e == [dir |-> d, depth |-> here.depth + 1]
             n == Len(pending)
  <2>1. e.dir = d /\ e.depth = here.depth + 1 /\ e \in [dir : Dirs, depth : Nat]
    BY <1>5
  <2>2. pending' = Append(pending, e) /\ pending \in Seq([dir : Dirs, depth : Nat])
    BY <1>2, <1>7 DEF Enqueued, Tracing, Walking, Waiting
  <2>. HIDE DEF e
  <2>3. /\ n \in Nat /\ Len(pending') = n + 1 /\ pending'[n + 1] = e
        /\ \A i \in 1..n : pending'[i] = pending[i] /\ pending[i].depth \in Nat
        /\ \A i \in 1..Len(pending') : i \in 1..n \/ i = n + 1
        /\ 1..n \subseteq 1..Len(pending') /\ n + 1 \in 1..Len(pending')
    <3>1. /\ n \in Nat /\ Len(pending') = n + 1 /\ pending'[n + 1] = e
          /\ \A i \in 1..n : pending'[i] = pending[i]
      BY <2>1, <2>2, PushBack
    <3>2. \A i \in 1..n : pending[i].depth \in Nat
      <4>1. pending \in Seq([dir : Dirs, depth : Nat])
        BY <2>2
      <4>2. \A i \in 1..n : pending[i] \in [dir : Dirs, depth : Nat]
        BY <4>1, Members
      <4>. HIDE DEF n
      <4>. QED
        BY <4>2
    <3>3. /\ \A i \in 1..(n + 1) : i \in 1..n \/ i = n + 1
          /\ 1..n \subseteq 1..(n + 1) /\ n + 1 \in 1..(n + 1)
      BY <3>1
    <3>. HIDE DEF n
    <3>. QED
      BY <3>1, <3>2, <3>3
  <2>. HIDE DEF n
  <2>4. \A c, k : Way(level, c, k) => Way(level, c, k)'
    BY <1>2, <1>4 DEF Way
  <2>5. Routes(level)'
    <3>1. Way(level, e.dir, e.depth)
      BY <1>5, <1>7, <2>1 DEF Way, Follows
    <3>. QED
      BY <1>1, <1>2, <2>3, <2>4, <3>1 DEF Routes, n
  <2>6. \A i \in 1..n : pending[i].depth <= here.depth + 1 /\ here.depth <= pending[i].depth
    BY <1>1, <1>2, <1>5 DEF InFront, Breadth, Opened, n
  <2>7. Breadth(level)' /\ InFront(level)'
    <3>1. \A v \in visited : level[v] <= here.depth + 1
      BY <1>1, <1>2, <1>5, MoreSiteFacts DEF InFront, Levels, Tracing, TypeOK
    <3>2. InFront(level)'
      BY <1>1, <1>2, <1>5, <2>1, <2>3, <2>6 DEF InFront
    <3>3. Breadth(level)'
      <4>1. ASSUME NEW i \in 1..Len(pending')
            PROVE  \A v \in visited : level[v] <= pending'[i].depth
        BY <1>1, <2>1, <2>3, <3>1, <4>1 DEF Breadth, n
      <4>2. /\ \A i, j \in 1..n : /\ pending'[j].depth <= pending'[i].depth + 1
                                  /\ i <= j => pending'[i].depth <= pending'[j].depth
            /\ \A i \in 1..n : /\ pending'[i].depth <= e.depth
                               /\ e.depth <= pending'[i].depth + 1
        <5>1. \A i, j \in 1..n : /\ pending[j].depth <= pending[i].depth + 1
                                 /\ i <= j => pending[i].depth <= pending[j].depth
          BY <1>1 DEF Breadth, n
        <5>2. \A i \in 1..n : /\ pending[i].depth <= e.depth
                              /\ e.depth <= pending[i].depth + 1
          BY <1>5, <2>1, <2>3, <2>6
        <5>. QED
          BY <2>3, <5>1, <5>2
      <4>3. ASSUME NEW i \in 1..Len(pending'), NEW j \in 1..Len(pending')
            PROVE  /\ pending'[j].depth <= pending'[i].depth + 1
                   /\ i <= j => pending'[i].depth <= pending'[j].depth
        <5>1. e.depth \in Nat /\ \A k \in 1..n : pending'[k].depth \in Nat
          BY <1>5, <2>1, <2>3
        <5>2. CASE i \in 1..n /\ j \in 1..n
          BY <4>2, <5>2
        <5>3. CASE i \in 1..n /\ j = n + 1
          BY <2>3, <4>2, <5>1, <5>3
        <5>4. CASE i = n + 1 /\ j \in 1..n
          BY <2>3, <4>2, <5>1, <5>4
        <5>5. CASE i = n + 1 /\ j = n + 1
          BY <2>3, <5>1, <5>5
        <5>. QED
          BY <2>3, <5>2, <5>3, <5>4, <5>5
      <4>. QED
        BY <1>2, <4>1, <4>3 DEF Breadth
    <3>. QED
      BY <3>2, <3>3
  <2>8. NothingLost(level)'
    <3>1. \A c, k : Met(level, c, k) => Met(level, c, k)'
      BY <1>2, <2>3 DEF Met, n
    <3>2. \A k \in Nat : e.depth <= k => Met(level, d, k)'
      BY <2>1, <2>3 DEF Met
    <3>3. e.depth = level[site.parent[d]] + 1 /\ e.depth \in Nat
      BY <1>5, <2>1
    <3>. QED
      BY <1>1, <1>2, <1>3, <1>4, <1>5, <3>1, <3>2, <3>3 DEF NothingLost
  <2>. QED
    BY <1>1, <1>2, <2>5, <2>7, <2>8, SameLevels DEF Trace
<1>. QED
  BY <1>6, <1>7

(* The nearest directory is taken off the deque, and the rest stays as far. *)
LEMMA Taken ==
  ASSUME Tracing, NextDirectory, NEW level, Routes(level), Breadth(level)
  PROVE  /\ Head(pending) = pending[1] /\ 1 \in 1..Len(pending)
         /\ pending[1] \in [dir : Dirs, depth : 0..site.depth]
         /\ pending[1].depth \in Nat
         /\ \A i \in 1..Len(pending') : /\ i + 1 \in 1..Len(pending)
                                        /\ pending'[i] = pending[i + 1]
                                        /\ pending'[i].depth \in Nat
                                        /\ pending[1].depth <= pending'[i].depth
                                        /\ pending'[i].depth <= pending[1].depth + 1
         /\ \A i \in 1..Len(pending) : i = 1 \/ i - 1 \in 1..Len(pending')
         /\ \A i, j \in 1..Len(pending') :
              /\ pending'[j].depth <= pending'[i].depth + 1
              /\ i <= j => pending'[i].depth <= pending'[j].depth
<1>. DEFINE R == [dir : Dirs, depth : 0..site.depth]
<1>1. pending \in Seq(R) /\ pending # <<>> /\ pending' = Tail(pending)
  BY DEF Tracing, TypeOK, NextDirectory
<1>2. site.depth \in Nat
  BY MoreSiteFacts DEF Tracing, TypeOK
<1>3. \A x \in R : x.depth \in Nat
  BY <1>2
<1>. HIDE DEF R
<1>4. /\ Head(pending) = pending[1] /\ 1 \in 1..Len(pending)
      /\ pending[1] \in R
      /\ \A i \in 1..Len(pending') : i + 1 \in 1..Len(pending) /\ pending'[i] = pending[i + 1]
      /\ Len(pending') = Len(pending) - 1
  BY <1>1, PopFront
<1>5. \A i \in 1..Len(pending) : pending[i] \in R /\ pending[i].depth \in Nat
  BY <1>1, <1>3, Members
<1>6. \A i \in 1..Len(pending) : i = 1 \/ i - 1 \in 1..Len(pending')
  <2>1. Len(pending) \in Nat
    BY <1>1, Members
  <2>. QED
    BY <1>4, <2>1
<1>7. \A i, j \in 1..Len(pending) :
              /\ pending[j].depth <= pending[i].depth + 1
              /\ i <= j => pending[i].depth <= pending[j].depth
  BY DEF Breadth
<1>8. ASSUME NEW i \in 1..Len(pending')
      PROVE  /\ pending'[i].depth \in Nat
             /\ pending[1].depth <= pending'[i].depth
             /\ pending'[i].depth <= pending[1].depth + 1
  <2>1. i + 1 \in 1..Len(pending) /\ pending'[i] = pending[i + 1] /\ 1 <= i + 1
    BY <1>4
  <2>2. pending[i + 1].depth \in Nat
    BY <1>5, <2>1
  <2>3. /\ pending[i + 1].depth <= pending[1].depth + 1
        /\ pending[1].depth <= pending[i + 1].depth
    BY <1>4, <1>7, <2>1
  <2>. QED
    BY <2>1, <2>2, <2>3
<1>9. ASSUME NEW i \in 1..Len(pending'), NEW j \in 1..Len(pending')
      PROVE  /\ pending'[j].depth <= pending'[i].depth + 1
             /\ i <= j => pending'[i].depth <= pending'[j].depth
  <2>1. i <= j => i + 1 <= j + 1
    BY <1>1
  <2>. QED
    BY <1>4, <1>7, <2>1
<1>. QED
  BY <1>4, <1>5, <1>6, <1>8, <1>9 DEF R

(* A directory that has been visited under another root is dropped.         *)
LEMMA DropTraces ==
  ASSUME Tracing, NextDirectory, UNCHANGED <<pc, visited, here>>,
         Head(pending).dir \in visited
  PROVE  Trace'
<1>1. PICK level \in Levels :
        Routes(level) /\ Breadth(level) /\ InFront(level) /\ NothingLost(level)
  BY DEF Tracing, Trace
<1>2. /\ site' = site /\ pc = "walk" /\ pc' = pc
      /\ UNCHANGED <<entries, seen, failed, lost, truncated, stopping>>
  BY DEF NextDirectory
<1>3. Opened' = Opened /\ Allowed' = Allowed
  BY <1>2, SameSite DEF Opened, Allowed, Roots
<1>4. \A d, k : Way(level, d, k) => Way(level, d, k)'
  BY <1>2, <1>3 DEF Way
<1>5. Routes(level)'
  BY <1>1, <1>4, Taken DEF Routes
<1>6. Breadth(level)'
  <2>1. \A i \in 1..Len(pending') : \A d \in visited : level[d] <= pending'[i].depth
    BY <1>1, Taken DEF Breadth
  <2>. QED
    BY <1>1, <2>1, Taken DEF Breadth
<1>7. InFront(level)'
  BY <1>2 DEF InFront
<1>8. ASSUME NEW d, NEW k \in Nat, Met(level, d, k) PROVE Met(level, d, k)'
  <2>1. CASE d \in visited /\ level[d] <= k
    BY <2>1 DEF Met
  <2>2. CASE \E i \in 1..Len(pending) : pending[i].dir = d /\ pending[i].depth <= k
    <3>1. PICK i \in 1..Len(pending) : pending[i].dir = d /\ pending[i].depth <= k
      BY <2>2
    <3>2. CASE i = 1
      <4>1. d \in visited /\ level[d] <= pending[1].depth
        BY <1>1, <3>1, <3>2, Taken DEF Breadth
      <4>2. level[d] \in Int /\ pending[1].depth \in Nat
        <5>1. site.depth \in Nat
          BY MoreSiteFacts DEF Tracing, TypeOK
        <5>2. pending[1].depth \in Nat
          BY <1>1, Taken
        <5>. QED
          BY <1>1, <4>1, <5>1, <5>2 DEF Levels
      <4>. QED
        BY <3>1, <3>2, <4>1, <4>2 DEF Met
    <3>3. CASE i # 1
      <4>1. i - 1 \in 1..Len(pending') /\ pending'[i - 1] = pending[i]
        <5>1. i - 1 \in 1..Len(pending')
          BY <1>1, <3>3, Taken
        <5>2. pending'[i - 1] = pending[(i - 1) + 1]
          BY <1>1, <5>1, Taken
        <5>. QED
          BY <5>1, <5>2
      <4>. QED
        BY <3>1, <4>1 DEF Met
    <3>. QED
      BY <3>2, <3>3
  <2>. QED
    BY <1>8, <2>1, <2>2 DEF Met
<1>9. NothingLost(level)'
  <2>1. \A d \in Opened : level[d] + 1 \in Nat
    BY <1>1, MoreSiteFacts DEF Opened, Levels, Tracing, TypeOK
  <2>. QED
    BY <1>1, <1>2, <1>3, <1>8, <2>1 DEF NothingLost
<1>. QED
  BY <1>1, <1>2, <1>5, <1>6, <1>7, <1>9, SameLevels DEF Trace

(* A directory that is new is visited at its depth in the deque.            *)
LEMMA VisitTraces ==
  ASSUME Tracing, NextDirectory, Head(pending).dir \notin visited,
         visited' = visited \cup {Head(pending).dir}, here' = Head(pending),
         pc' = "list"
  PROVE  Trace'
<1>1. PICK level \in Levels :
        Routes(level) /\ Breadth(level) /\ InFront(level) /\ NothingLost(level)
  BY DEF Tracing, Trace
<1>2. /\ site' = site /\ pc = "walk"
      /\ UNCHANGED <<entries, seen, failed, lost, truncated, stopping>>
  BY DEF NextDirectory
<1>0. PICK top : top = pending[1]
  OBVIOUS
<1>3. /\ here' = top /\ visited' = visited \cup {top.dir} /\ top.dir \notin visited
      /\ top.dir \in Dirs /\ top.depth \in 0..site.depth /\ top.depth \in Nat
  BY <1>0, <1>1, Taken
<1>4. PICK new \in Levels' :
        /\ new[top.dir] = top.depth
        /\ \A d \in visited : new[d] = level[d] /\ level[d] \in Nat
  <2> DEFINE f == [d \in visited \cup {top.dir} |->
                     IF d = top.dir THEN top.depth ELSE level[d]]
  <2>1. \A d \in visited : level[d] \in 0..site.depth /\ level[d] \in Nat
    BY <1>1, MoreSiteFacts DEF Levels, Tracing, TypeOK
  <2>2. f \in [visited' -> 0..site.depth]
    BY <1>3, <2>1
  <2>3. f[top.dir] = top.depth /\ \A d \in visited : f[d] = level[d]
    BY <1>3
  <2>. HIDE DEF f
  <2>. QED
    BY <1>2, <2>1, <2>2, <2>3 DEF Levels
<1>5. Opened' = Opened /\ Opened \subseteq visited /\ Allowed' = Allowed
      /\ top.dir \notin failed
  BY <1>2, <1>3, SameSite DEF Opened, Allowed, Roots, Tracing, TypeOK
<1>6. \A d, k : Way(level, d, k) => Way(new, d, k)'
  BY <1>2, <1>4, <1>5 DEF Way
<1>7. Routes(new)'
  <2>1. \A d \in visited' : Way(new, d, new[d])'
    BY <1>0, <1>1, <1>3, <1>4, <1>6, Taken DEF Routes
  <2>2. (\A i \in 1..Len(pending) : Way(new, pending[i].dir, pending[i].depth))'
    BY <1>0, <1>1, <1>6, Taken DEF Routes
  <2>. QED
    BY <2>1, <2>2 DEF Routes
<1>8. \A d \in visited : new[d] <= top.depth
  BY <1>0, <1>1, <1>4, Taken DEF Breadth
<1>9. Breadth(new)'
  <2>1. \A i \in 1..Len(pending') : \A d \in visited' : new[d] <= pending'[i].depth
    <3>1. ASSUME NEW i \in 1..Len(pending'), NEW d \in visited
          PROVE  new[d] <= pending'[i].depth
      BY <1>0, <1>1, <1>4, Taken DEF Breadth
    <3>2. \A i \in 1..Len(pending') : new[top.dir] <= pending'[i].depth
      BY <1>0, <1>1, <1>4, Taken
    <3>. QED
      BY <1>3, <3>1, <3>2
  <2>. QED
    BY <1>0, <1>1, <2>1, Taken DEF Breadth
<1>10. InFront(new)'
  BY <1>0, <1>1, <1>2, <1>3, <1>4, <1>5, <1>8, Taken DEF InFront
<1>11. ASSUME NEW d, NEW k \in Nat, Met(level, d, k) PROVE Met(new, d, k)'
  <2>1. CASE d \in visited /\ level[d] <= k
    BY <1>3, <1>4, <2>1 DEF Met
  <2>2. CASE \E i \in 1..Len(pending) : pending[i].dir = d /\ pending[i].depth <= k
    <3>1. PICK i \in 1..Len(pending) : pending[i].dir = d /\ pending[i].depth <= k
      BY <2>2
    <3>2. CASE i = 1
      BY <1>0, <1>3, <1>4, <3>1, <3>2 DEF Met
    <3>3. CASE i # 1
      <4>1. i - 1 \in 1..Len(pending') /\ pending'[i - 1] = pending[i]
        <5>1. i - 1 \in 1..Len(pending')
          BY <1>0, <1>1, <3>3, Taken
        <5>2. pending'[i - 1] = pending[(i - 1) + 1]
          BY <1>0, <1>1, <5>1, Taken
        <5>. QED
          BY <5>1, <5>2
      <4>. QED
        BY <3>1, <4>1 DEF Met
    <3>. QED
      BY <3>2, <3>3
  <2>. QED
    BY <1>11, <2>1, <2>2 DEF Met
<1>12. NothingLost(new)'
  <2>1. \A d \in Opened : new[d] = level[d] /\ level[d] + 1 \in Nat
    BY <1>4, <1>5
  <2>. QED
    BY <1>0, <1>1, <1>2, <1>5, <1>11, <2>1 DEF NothingLost
<1>. QED
  BY <1>4, <1>7, <1>9, <1>10, <1>12 DEF Trace

(* Every step keeps the trace.                                              *)
THEOREM NextTracing == Tracing /\ [Next]_vars => Tracing'
<1>. SUFFICES ASSUME Tracing, [Next]_vars PROVE Tracing'
  OBVIOUS
<1>1. Walking' /\ TypeOK'
  BY NextWalking, TypeOKKept DEF Tracing
<1>2. Trace'
  <2>1. CASE Gather
    BY <2>1, GatherTraces
  <2>2. CASE NextDirectory
    BY <2>2, DropTraces, VisitTraces DEF NextDirectory
  <2>3. CASE Listed
    BY <2>3, ListedTraces
  <2>4. CASE \E d \in Dirs : Directory(d)
    BY <2>4, DirectoryTraces
  <2>5. CASE \E f \in Files : File(f)
    BY <2>5, FileTraces
  <2>. QED
    BY <2>1, <2>2, <2>3, <2>4, <2>5, NextCases, PauseTraces
<1>. QED
  BY <1>1, <1>2, SurroundingsKept, LeftOutKept DEF Tracing

(* The inductive invariant of the walk.                                     *)
THEOREM SpecTracing == Spec => []Tracing
BY InitTracing, NextTracing, PTL DEF Spec

(* Whatever is near in fewer steps is near.                                 *)
LEMMA NearGrows ==
  ASSUME NEW depth \in Nat, NEW near, \A n \in 1..depth : near[n - 1] \subseteq near[n],
         NEW m \in 0..depth
  PROVE  near[m] \subseteq near[depth]
<1>. DEFINE T == {n \in Nat : m <= n /\ n <= depth => near[m] \subseteq near[n]}
<1>1. 0 \in T
  OBVIOUS
<1>2. ASSUME NEW n \in Nat, n \in T PROVE n + 1 \in T
  <2>. SUFFICES ASSUME m <= n + 1, n + 1 <= depth PROVE near[m] \subseteq near[n + 1]
    OBVIOUS
  <2>1. CASE m = n + 1
    BY <2>1
  <2>2. CASE m <= n
    <3>1. near[m] \subseteq near[n] /\ n + 1 \in 1..depth
      BY <1>2, <2>2
    <3>2. near[(n + 1) - 1] \subseteq near[n + 1]
      BY <3>1
    <3>. QED
      BY <3>1, <3>2
  <2>. QED
    BY <2>1, <2>2
<1>3. depth \in T
  <2>. HIDE DEF T
  <2>. QED
    BY <1>1, <1>2, NatInductionOnSet
<1>. QED
  BY <1>3

(* The walk goes nowhere else: what was visited at depth n is near in n     *)
(* steps.                                                                   *)
LEMMA VisitedIsInReach == Tracing => visited \subseteq InReach
<1>. SUFFICES ASSUME Tracing PROVE visited \subseteq InReach
  OBVIOUS
<1>1. PICK level \in Levels :
        Routes(level) /\ Breadth(level) /\ InFront(level) /\ NothingLost(level)
  BY DEF Tracing, Trace
<1>2. site.depth \in Nat
  BY MoreSiteFacts DEF Tracing, TypeOK
<1>3. PICK near : /\ InReach = near[site.depth] /\ near[0] = Allowed
                  /\ \A n \in 1..site.depth :
                       near[n] = near[n - 1] \cup {d \in Dirs \ (site.junctions \cup lost.dirs) :
                                   site.parent[d] \in near[n - 1] \ failed}
  BY <1>2, ReachLayers
<1>. DEFINE T == {n \in Nat : \A d \in visited : level[d] = n => d \in near[n]}
<1>4. \A d \in visited : level[d] \in Nat /\ level[d] \in 0..site.depth /\ d \in Dirs
  BY <1>1, <1>2 DEF Levels, Tracing, TypeOK
<1>5. \A d \in visited : Way(level, d, level[d])
  BY <1>1 DEF Routes
<1>6. 0 \in T
  <2>1. ASSUME NEW d \in visited, level[d] = 0 PROVE d \in Allowed
    <3>1. \A e \in Opened : level[e] + 1 # 0
      BY <1>4 DEF Opened
    <3>. QED
      BY <1>5, <2>1, <3>1 DEF Way
  <2>. QED
    BY <1>3, <2>1
<1>7. ASSUME NEW n \in Nat, n \in T PROVE n + 1 \in T
  <2>1. ASSUME NEW d \in visited, level[d] = n + 1 PROVE d \in near[n + 1]
    <3>1. /\ d \in Dirs \ (site.junctions \cup lost.dirs)
          /\ site.parent[d] \in visited \ failed
          /\ level[site.parent[d]] = n
      BY <1>4, <1>5, <2>1 DEF Way, Opened
    <3>2. site.parent[d] \in near[n] \ failed
      BY <1>7, <3>1
    <3>3. n + 1 \in 1..site.depth /\ (n + 1) - 1 = n
      BY <1>4, <2>1
    <3>. QED
      BY <1>3, <3>1, <3>2, <3>3
  <2>. QED
    BY <2>1
<1>8. \A d \in visited : d \in near[level[d]]
  <2>1. \A n \in Nat : n \in T
    <3>. HIDE DEF T
    <3>. QED
      BY <1>6, <1>7, NatInductionOnSet
  <2>. QED
    BY <1>4, <2>1
<1>9. \A n \in 1..site.depth : near[n - 1] \subseteq near[n]
  BY <1>3
<1>. QED
  BY <1>2, <1>3, <1>4, <1>8, <1>9, NearGrows

(* A complete walk goes everywhere: what is near in n steps was visited at  *)
(* depth n or above.                                                        *)
LEMMA InReachIsVisited ==
  ASSUME Tracing, pc = "done", ~truncated, ~stopping
  PROVE  InReach \subseteq visited
<1>1. PICK level \in Levels :
        Routes(level) /\ Breadth(level) /\ InFront(level) /\ NothingLost(level)
  BY DEF Tracing, Trace
<1>2. site.depth \in Nat
  BY MoreSiteFacts DEF Tracing, TypeOK
<1>3. PICK near : /\ InReach = near[site.depth] /\ near[0] = Allowed
                  /\ \A n \in 1..site.depth :
                       near[n] = near[n - 1] \cup {d \in Dirs \ (site.junctions \cup lost.dirs) :
                                   site.parent[d] \in near[n - 1] \ failed}
  BY <1>2, ReachLayers
<1>. DEFINE T == {n \in Nat : n <= site.depth =>
                    \A d \in near[n] : d \in visited /\ level[d] <= n}
<1>4. /\ entries.dirs = {} /\ Opened = visited \ failed
      /\ \A d, n : Met(level, d, n) => d \in visited /\ level[d] <= n
  <2>1. Len(pending) = 0
    BY <1>1 DEF NothingLost
  <2>. QED
    BY <2>1 DEF Tracing, Surroundings, Opened, Met
<1>5. \A d \in visited : level[d] \in Nat
  BY <1>1, <1>2 DEF Levels
<1>6. 0 \in T
  BY <1>1, <1>3, <1>4 DEF NothingLost
<1>7. ASSUME NEW n \in Nat, n \in T PROVE n + 1 \in T
  <2>1. ASSUME n + 1 <= site.depth, NEW d \in near[n + 1]
        PROVE  d \in visited /\ level[d] <= n + 1
    <3>1. n + 1 \in 1..site.depth /\ (n + 1) - 1 = n /\ n <= site.depth
      BY <1>2, <2>1
    <3>2. CASE d \in near[n]
      BY <1>5, <1>7, <3>1, <3>2
    <3>3. CASE d \in Dirs \ (site.junctions \cup lost.dirs) /\ site.parent[d] \in near[n] \ failed
      <4>1. site.parent[d] \in visited \ failed /\ level[site.parent[d]] <= n
        BY <1>7, <3>1, <3>3
      <4>2. level[site.parent[d]] \in Nat /\ level[site.parent[d]] < site.depth
        BY <1>2, <1>5, <2>1, <4>1
      <4>3. Met(level, d, level[site.parent[d]] + 1)
        BY <1>1, <1>4, <3>3, <4>1, <4>2 DEF NothingLost
      <4>4. d \in visited /\ level[d] <= level[site.parent[d]] + 1
        BY <1>4, <4>3
      <4>. QED
        BY <1>5, <4>1, <4>2, <4>4
    <3>4. near[n + 1] = near[n] \cup {e \in Dirs \ (site.junctions \cup lost.dirs) :
                                       site.parent[e] \in near[n] \ failed}
      BY <1>3, <3>1
    <3>. QED
      BY <2>1, <3>2, <3>3, <3>4
  <2>. QED
    BY <2>1
<1>8. site.depth \in T
  <2>. HIDE DEF T
  <2>. QED
    BY <1>2, <1>6, <1>7, NatInductionOnSet
<1>. QED
  BY <1>2, <1>3, <1>8

(* A complete walk examines all the files there are.                        *)
LEMMA AllFilesSeen ==
  ASSUME Tracing, pc = "done", ~truncated, ~stopping
  PROVE  seen = {f \in site.present : site.home[f] \in InReach \ failed} \ lost.files
<1>1. PICK level \in Levels : NothingLost(level)
  BY DEF Tracing, Trace
<1>2. InReach = visited
  BY VisitedIsInReach, InReachIsVisited
<1>3. entries.files = {} /\ Opened = visited \ failed
  BY DEF Tracing, Surroundings, Opened
<1>4. \A f \in site.present \ lost.files : site.home[f] \in visited \ failed => f \in seen
  BY <1>1, <1>3 DEF NothingLost
<1>5. \A f \in seen : /\ f \in site.present \ lost.files
                      /\ site.home[f] \in visited \ failed
  BY <1>3 DEF Tracing, TypeOK, Surroundings, LeftOut
<1>. QED
  BY <1>2, <1>4, <1>5

(* The walk stays within reach, and a scan that is neither truncated nor    *)
(* stopped has visited and examined all of it, whatever the trees, the roots,*)
(* the limits and the order of the listings.                                *)
THEOREM SpecNothingMissed == Spec => []NothingMissed
<1>1. Tracing => NothingMissed
  BY VisitedIsInReach, InReachIsVisited, AllFilesSeen DEF NothingMissed, Tracing
<1>. QED
  BY <1>1, SpecTracing, PTL

(* A complete walk visits all the allowed roots.                            *)
LEMMA RootsAreVisited ==
  ASSUME Tracing, pc = "done", ~truncated, ~stopping
  PROVE  Allowed \subseteq visited
<1>1. PICK level \in Levels : NothingLost(level)
  BY DEF Tracing, Trace
<1>2. Len(pending) = 0
  BY <1>1 DEF NothingLost
<1>. QED
  BY <1>1, <1>2 DEF NothingLost, Met

(* The directory of the named archive is a root.                            *)
LEMMA NamedIsRoot == Named # None => IsRoot(site.home[Named])
<1>1. Named # None => NamedPoints(site.home[Named]) \in {60, 100}
  BY DEF NamedPoints
<1>2. \A n : n \in {60, 100} => n > 0
  OBVIOUS
<1>. QED
  BY <1>1, <1>2 DEF IsRoot

(* An archive that is named, present and a database, in a directory that    *)
(* may be and could be listed, is a candidate of every complete scan.       *)
LEMMA NamedIsFound ==
  ASSUME Tracing, pc = "done", ~truncated, ~stopping, Named # None,
         Named \in site.present, "sqlite header" \in site.marks[Named],
         Named \notin site.locked, Named \notin lost.files,
         ~Restricted(site.home[Named]), site.home[Named] \notin failed
  PROVE  \E c \in Archives : c.file = Named
<1>1. site.home[Named] \in Dirs
  BY MoreSiteFacts DEF Tracing, TypeOK
<1>2. site.home[Named] \in Allowed
  BY <1>1, NamedIsRoot DEF Allowed, Roots
<1>3. site.home[Named] \in visited
  BY <1>2, RootsAreVisited
<1>4. Named \in seen
  BY <1>3, AllFilesSeen, VisitedIsInReach
<1>. DEFINE a == [file |-> Named, type |-> "archive",
                  score |-> ArchiveScore(Visible(Named))]
<1>5. a \in Found(Named) /\ a.file = Named /\ a.type = "archive"
  BY DEF Found, Visible
<1>6. a \in candidates
  BY <1>4, <1>5 DEF Tracing, Walking, Remembered
<1>. QED
  BY <1>5, <1>6 DEF Archives

(* A complete scan never reports the loss of an archive it could have found.*)
THEOREM SpecAlarmIsReal == Spec => []AlarmIsReal
<1>1. Tracing => AlarmIsReal
  <2>. SUFFICES ASSUME Tracing, pc = "done", report.status = "error", ~truncated, ~stopping,
                       Named \in site.present, "sqlite header" \in site.marks[Named],
                       Named \notin site.locked, Named \notin lost.files,
                       ~Restricted(site.home[Named]), site.home[Named] \notin failed
                PROVE  FALSE
    BY DEF AlarmIsReal
  <2>1. Named # None /\ ByName.status = "error"
    BY DEF Tracing, Surroundings
  <2>2. {c \in Archives : c.file = Named} = {}
    BY <2>1 DEF ByName
  <2>. QED
    BY <2>1, <2>2, NamedIsFound
<1>. QED
  BY <1>1, SpecTracing, PTL
-------------------------------------------------------------------------------
(* The largest of the first numbers.                                        *)
LEMMA LargestIsLast ==
  ASSUME NEW n \in Nat \ {0}
  PROVE  Max(1..n) = n /\ (1..n) \ {n} = 1..(n - 1)
BY DEF Max

(* A bounded set of natural numbers has a largest one.                      *)
LEMMA LargestOfBounded ==
  ASSUME NEW S, S \subseteq Nat, S # {}, NEW n \in Nat, \A k \in S : k <= n
  PROVE  Max(S) \in S /\ \A k \in S : k <= Max(S)
<1>. DEFINE T == {b \in Nat : \A k \in S : k <= b}
<1>1. n \in T
  OBVIOUS
<1>2. PICK b \in T : \A k \in T : b <= k
  BY <1>1, LeastOf
<1>3. b \in S
  <2>1. PICK x \in S : x \in Nat /\ x <= b
    BY <1>2
  <2>2. CASE b = 0
    BY <2>1, <2>2
  <2>3. CASE b # 0
    <3>1. b - 1 \in Nat /\ b - 1 \notin T
      BY <1>2, <2>3
    <3>2. PICK k \in S : ~(k <= b - 1) /\ k \in Nat /\ k <= b
      BY <1>2, <3>1
    <3>. QED
      BY <3>2
  <2>. QED
    BY <2>2, <2>3
<1>4. \E x \in S : \A y \in S : x >= y
  BY <1>2, <1>3
<1>5. Max(S) \in S /\ \A y \in S : Max(S) >= y
  BY <1>4, Zenon DEF Max
<1>. QED
  BY <1>5

(* Every set of some of the first numbers has a largest one.                *)
LEMMA LargestOf ==
  ASSUME NEW n \in Nat, NEW S \in SUBSET (1..n), S # {}
  PROVE  Max(S) \in S /\ \A k \in S : k <= Max(S)
<1>1. S \subseteq Nat /\ \A k \in S : k <= n
  OBVIOUS
<1>. QED
  BY <1>1, LargestOfBounded

(* sum[k] adds up the first k of n numbers.                                 *)
Running(sum, n, w) ==
  sum \in [0..n -> Nat] /\ sum[0] = 0 /\ \A k \in 1..n : sum[k] = sum[k - 1] + w[k]

(* What FoldLeft chooses to add up numbers from the left.                   *)
Fold(f, n, w) ==
  f = [s \in SUBSET (1..n) |-> IF s = {} THEN 0 ELSE f[s \ {Max(s)}] + w[Max(s)]]

(* Such a function exists.                                                   *)
LEMMA FoldExists ==
  ASSUME NEW n \in Nat, NEW w, \A i \in 1..n : w[i] \in Nat
  PROVE  \E f : Fold(f, n, w)
<1>. DEFINE pick == [s \in SUBSET (1..n) |-> Max(s)]
<1>1. Picks(pick, 1..n)
  BY LargestOf DEF Picks
<1>2. IsFiniteSet(1..n)
  BY FS_Interval
<1>. HIDE DEF pick
<1>3. PICK f : Sums(f, 1..n, w, pick)
  BY <1>1, <1>2, SumExists
<1>4. \A s \in SUBSET (1..n) : f[s] \in Nat
  BY <1>1, <1>2, <1>3, SumsAreNatural
<1>5. ASSUME NEW s \in SUBSET (1..n)
      PROVE  f[s] = IF s = {} THEN 0 ELSE f[s \ {Max(s)}] + w[Max(s)]
  <2>1. CASE s = {}
    BY <1>3, <2>1 DEF Sums
  <2>2. CASE s # {}
    <3>1. Max(s) \in 1..n /\ s \ {Max(s)} \in SUBSET (1..n) /\ pick[s] = Max(s)
      BY <2>2, LargestOf DEF pick
    <3>2. f[s] = w[Max(s)] + f[s \ {Max(s)}]
      BY <1>3, <2>2, <3>1 DEF Sums
    <3>3. w[Max(s)] \in Nat /\ f[s \ {Max(s)}] \in Nat
      BY <1>4, <3>1
    <3>4. \A x, y \in Nat : x + y = y + x
      OBVIOUS
    <3>5. f[s] = f[s \ {Max(s)}] + w[Max(s)]
      BY <3>2, <3>3, <3>4, Zenon
    <3>. QED
      BY <2>2, <3>5
  <2>. QED
    BY <2>1, <2>2
<1>6. f = [s \in SUBSET (1..n) |-> f[s]]
  BY <1>3 DEF Sums
<1>. QED
  BY <1>5, <1>6 DEF Fold

(* Folding the first numbers adds them up one after the other.              *)
LEMMA FoldRuns ==
  ASSUME NEW n \in Nat, NEW w, \A i \in 1..n : w[i] \in Nat, NEW f, Fold(f, n, w)
  PROVE  \E sum : Running(sum, n, w) /\ sum[n] = f[1..n]
<1>. DEFINE sum == [k \in 0..n |-> f[1..k]]
<1>1. ASSUME NEW k \in 1..n PROVE f[1..k] = f[1..(k - 1)] + w[k]
  <2>1. 1..k # {} /\ 1..k \in SUBSET (1..n) /\ Max(1..k) = k /\ (1..k) \ {k} = 1..(k - 1)
    BY LargestIsLast
  <2>. QED
    BY <2>1 DEF Fold
<1>2. f[1..0] = 0
  <2>1. 1..0 = {}
    OBVIOUS
  <2>. QED
    BY <2>1 DEF Fold
<1>3. \A k \in Nat : k \in 0..n => f[1..k] \in Nat
  <2>. DEFINE T == {k \in Nat : k \in 0..n => f[1..k] \in Nat}
  <2>1. 0 \in T
    BY <1>2
  <2>2. ASSUME NEW k \in Nat, k \in T PROVE k + 1 \in T
    <3>1. k + 1 \in 0..n => k \in 0..n /\ k + 1 \in 1..n /\ (k + 1) - 1 = k
      OBVIOUS
    <3>. QED
      BY <1>1, <2>2, <3>1
  <2>. HIDE DEF T
  <2>3. \A k \in Nat : k \in T
    BY <2>1, <2>2, NatInductionOnSet
  <2>. QED
    BY <2>3 DEF T
<1>4. Running(sum, n, w) /\ sum[n] = f[1..n]
  BY <1>1, <1>2, <1>3 DEF Running
<1>. QED
  BY <1>4, Zenon

(* Equal numbers have equal sums.                                           *)
LEMMA SameSums ==
  ASSUME NEW n \in Nat, NEW m \in Nat, n <= m, NEW w, NEW v,
         \A k \in 1..n : w[k] = v[k],
         NEW f, NEW g, Running(f, n, w), Running(g, m, v)
  PROVE  f[n] = g[n]
<1>. DEFINE T == {k \in Nat : k \in 0..n => f[k] = g[k]}
<1>1. 0 \in T
  BY DEF Running
<1>2. ASSUME NEW k \in Nat, k \in T PROVE k + 1 \in T
  <2>1. k + 1 \in 0..n => /\ k \in 0..n /\ k + 1 \in 1..n /\ k + 1 \in 1..m
                          /\ (k + 1) - 1 = k
    OBVIOUS
  <2>. QED
    BY <1>2, <2>1 DEF Running
<1>. HIDE DEF T
<1>3. \A k \in Nat : k \in T
  BY <1>1, <1>2, NatInductionOnSet
<1>. QED
  BY <1>3 DEF T

(* The bytes of the cells of a row, of the rows of an object and of the     *)
(* objects are running sums.                                                *)
LEMMA BytesRun ==
  ASSUME NEW n \in Nat, NEW cells, DOMAIN cells = 1..n,
         \A i \in 1..n : cells[i].bytes \in Nat
  PROVE  \E sum : /\ Running(sum, n, [i \in 1..n |-> cells[i].bytes])
                  /\ Bytes(cells) = sum[n]
<1>. DEFINE w == [i \in 1..n |-> cells[i].bytes]
            F(f) == f = [s \in SUBSET (DOMAIN cells) |->
                           IF s = {} THEN 0 ELSE f[s \ {Max(s)}] + cells[Max(s)].bytes]
            total == CHOOSE f : F(f)
<1>1. Bytes(cells) = total[DOMAIN cells]
  BY Zenon DEF Bytes, FoldLeft, MapThenFoldSet
<1>2. \A f : F(f) <=> Fold(f, n, w)
  <2>1. ASSUME NEW s \in SUBSET (1..n), s # {} PROVE w[Max(s)] = cells[Max(s)].bytes
    BY <2>1, LargestOf
  <2>. HIDE DEF w
  <2>. QED
    BY <2>1 DEF Fold
<1>3. \A i \in 1..n : w[i] \in Nat
  OBVIOUS
<1>. HIDE DEF w, F
<1>4. F(total)
  BY <1>2, <1>3, FoldExists, Zenon
<1>. HIDE DEF total
<1>5. PICK sum : Running(sum, n, w) /\ sum[n] = total[1..n]
  BY <1>2, <1>3, <1>4, FoldRuns
<1>. QED
  BY <1>1, <1>5 DEF w

(* The bytes of the rows of an object.                                       *)
LEMMA RowsRun ==
  ASSUME NEW o, NEW n \in Nat, DOMAIN o.samples = 1..n,
         \A i \in 1..n : Bytes(o.samples[i]) \in Nat
  PROVE  \E sum : /\ Running(sum, n, [i \in 1..n |-> Bytes(o.samples[i])])
                  /\ RowBytes(o) = sum[n]
<1>. DEFINE rows == o.samples
            w == [i \in 1..n |-> Bytes(rows[i])]
            F(f) == f = [s \in SUBSET (DOMAIN rows) |->
                           IF s = {} THEN 0 ELSE f[s \ {Max(s)}] + Bytes(rows[Max(s)])]
            total == CHOOSE f : F(f)
<1>1. RowBytes(o) = total[DOMAIN rows]
  BY Zenon DEF RowBytes, FoldLeft, MapThenFoldSet
<1>2. \A f : F(f) <=> Fold(f, n, w)
  <2>1. ASSUME NEW s \in SUBSET (1..n), s # {} PROVE w[Max(s)] = Bytes(rows[Max(s)])
    BY <2>1, LargestOf
  <2>. HIDE DEF w
  <2>. QED
    BY <2>1 DEF Fold
<1>3. \A i \in 1..n : w[i] \in Nat
  OBVIOUS
<1>. HIDE DEF w, F
<1>4. F(total)
  BY <1>2, <1>3, FoldExists, Zenon
<1>. HIDE DEF total
<1>5. PICK sum : Running(sum, n, w) /\ sum[n] = total[1..n]
  BY <1>2, <1>3, <1>4, FoldRuns
<1>. QED
  BY <1>1, <1>5 DEF w

(* The bytes of the objects of a file.                                       *)
LEMMA ObjectsRun ==
  ASSUME NEW n \in Nat, NEW os, DOMAIN os = 1..n, \A i \in 1..n : RowBytes(os[i]) \in Nat
  PROVE  \E sum : /\ Running(sum, n, [i \in 1..n |-> RowBytes(os[i])])
                  /\ SampleBytes(os) = sum[n]
<1>. DEFINE w == [i \in 1..n |-> RowBytes(os[i])]
            F(f) == f = [s \in SUBSET (DOMAIN os) |->
                           IF s = {} THEN 0 ELSE f[s \ {Max(s)}] + RowBytes(os[Max(s)])]
            total == CHOOSE f : F(f)
<1>1. SampleBytes(os) = total[DOMAIN os]
  BY Zenon DEF SampleBytes, FoldLeft, MapThenFoldSet
<1>2. \A f : F(f) <=> Fold(f, n, w)
  <2>1. ASSUME NEW s \in SUBSET (1..n), s # {} PROVE w[Max(s)] = RowBytes(os[Max(s)])
    BY <2>1, LargestOf
  <2>. HIDE DEF w
  <2>. QED
    BY <2>1 DEF Fold
<1>3. \A i \in 1..n : w[i] \in Nat
  OBVIOUS
<1>. HIDE DEF w, F
<1>4. F(total)
  BY <1>2, <1>3, FoldExists, Zenon
<1>. HIDE DEF total
<1>5. PICK sum : Running(sum, n, w) /\ sum[n] = total[1..n]
  BY <1>2, <1>3, <1>4, FoldRuns
<1>. QED
  BY <1>1, <1>5 DEF w

(* The sum of fewer numbers is one of the sums.                             *)
LEMMA ShorterSum ==
  ASSUME NEW n \in Nat, NEW m \in Nat, n <= m, NEW w, NEW v, NEW f, NEW g,
         \A k \in 1..n : w[k] = v[k], Running(f, n, w), Running(g, m, v)
  PROVE  g[n] = f[n] /\ f[n] \in Nat
<1>1. f[n] \in Nat
  BY DEF Running
<1>. QED
  BY <1>1, SameSums

(* One number more.                                                         *)
LEMMA LongerSum ==
  ASSUME NEW n \in Nat, NEW w, NEW v, NEW f, NEW g,
         \A k \in 1..n : w[k] = v[k], Running(f, n, w), Running(g, n + 1, v)
  PROVE  g[n + 1] = f[n] + v[n + 1]
<1>1. n + 1 \in Nat /\ n <= n + 1 /\ n + 1 \in 1..(n + 1) /\ (n + 1) - 1 = n
  OBVIOUS
<1>2. g[n] = f[n]
  BY <1>1, ShorterSum
<1>. QED
  BY <1>1, <1>2 DEF Running

(* A last number that grew.                                                 *)
LEMMA GrownSum ==
  ASSUME NEW n \in Nat \ {0}, NEW w, NEW v, NEW f, NEW g, NEW d \in Nat,
         \A k \in 1..(n - 1) : w[k] = v[k], w[n] \in Nat, v[n] = w[n] + d,
         Running(f, n, w), Running(g, n, v)
  PROVE  g[n] = f[n] + d
<1>1. n - 1 \in Nat /\ n - 1 <= n /\ n \in 1..n /\ n - 1 \in 0..n /\ n \in Nat
  OBVIOUS
<1>2. Running([k \in 0..(n - 1) |-> f[k]], n - 1, w)
  BY <1>1 DEF Running
<1>3. g[n - 1] = f[n - 1]
  BY <1>1, <1>2, ShorterSum
<1>4. f[n - 1] \in Nat /\ f[n] = f[n - 1] + w[n] /\ g[n] = g[n - 1] + v[n]
  BY <1>1 DEF Running
<1>. QED
  BY <1>3, <1>4

(* What is kept of a cell fits into the budget, the limit and the cell.     *)
LEMMA KeptFits ==
  ASSUME NEW cell \in StoredCell, NEW budget \in Nat
  PROVE  /\ Kept(cell, budget) \in 0..MaxCell /\ Kept(cell, budget) <= budget
         /\ Kept(cell, budget) <= cell.size
         /\ Kept(cell, budget) \in Nat /\ budget - Kept(cell, budget) \in Nat
<1>1. cell.size \in Nat /\ MaxCell \in Nat
  BY LimitAssumption DEF StoredCell
<1>. QED
  BY <1>1 DEF Kept, Least

(* The budget left of a row exists, cell by cell, and only falls.           *)
LEMMA LeftExists ==
  ASSUME NEW row \in Seq(StoredCell), NEW budget \in Nat
  PROVE  \E left : left = [i \in 0..Len(row) |->
                             IF i = 0 THEN budget
                             ELSE left[i - 1] - Kept(row[i], left[i - 1])]
<1>. DEFINE step(i, b) == b - Kept(row[i], b)
            P(left, m) == left = [i \in 0..m |-> IF i = 0 THEN budget
                                                 ELSE step(i, left[i - 1])]
            T == {m \in Nat : \E left : P(left, m)}
<1>1. 0 \in T
  <2>1. P([i \in 0..0 |-> budget], 0)
    <3>. HIDE DEF step
    <3>. QED
      OBVIOUS
  <2>. QED
    BY <2>1
<1>2. ASSUME NEW m \in Nat, m \in T PROVE m + 1 \in T
  <2>. HIDE DEF step
  <2>1. PICK left : P(left, m)
    BY <1>2
  <2>. DEFINE more == [i \in 0..(m + 1) |-> IF i = m + 1 THEN step(i, left[m]) ELSE left[i]]
  <2>2. P(more, m + 1)
    <3>1. ASSUME NEW i \in 0..(m + 1)
          PROVE  more[i] = IF i = 0 THEN budget ELSE step(i, more[i - 1])
      <4>1. CASE i = m + 1
        BY <4>1
      <4>2. CASE i # m + 1
        <5>1. i \in 0..m /\ more[i] = left[i] /\ (i # 0 => more[i - 1] = left[i - 1])
          BY <4>2
        <5>2. left[i] = IF i = 0 THEN budget ELSE step(i, left[i - 1])
          BY <2>1, <5>1
        <5>. QED BY <5>1, <5>2
      <4>. QED
        BY <4>1, <4>2
    <3>. HIDE DEF more
    <3>2. more = [i \in 0..(m + 1) |-> more[i]]
      BY DEF more
    <3>. QED
      BY <3>1, <3>2
  <2>3. \E f : P(f, m + 1)
    BY <2>2, Zenon
  <2>. HIDE DEF P
  <2>. QED
    BY <2>3
<1>3. Len(row) \in T
  <2>. HIDE DEF T
  <2>. QED
    BY <1>1, <1>2, NatInductionOnSet, Members
<1>. QED
  BY <1>3

(* What is left of the budget after each cell of a row.                      *)
LEMMA LeftFalls ==
  ASSUME NEW row \in Seq(StoredCell), NEW budget \in Nat
  PROVE  LET left == Left(row, budget)
         IN /\ left \in [0..Len(row) -> Nat] /\ left[0] = budget
            /\ \A i \in 1..Len(row) :
                 /\ left[i - 1] \in Nat
                 /\ left[i - 1] = left[i] + Kept(row[i], left[i - 1])
                 /\ left[i] \in Nat
<1>. DEFINE left == Left(row, budget)
            step(i, b) == b - Kept(row[i], b)
<1>1. left = [i \in 0..Len(row) |-> IF i = 0 THEN budget ELSE step(i, left[i - 1])]
  BY LeftExists, Zenon DEF Left
<1>2. /\ Len(row) \in Nat /\ \A i \in 1..Len(row) : row[i] \in StoredCell
  BY Members
<1>3. \A i \in 1..Len(row), b \in Nat :
         step(i, b) \in Nat /\ b = step(i, b) + Kept(row[i], b)
  <2>1. ASSUME NEW i \in 1..Len(row), NEW b \in Nat
        PROVE  step(i, b) \in Nat /\ b = step(i, b) + Kept(row[i], b)
    <3>1. Kept(row[i], b) \in Nat /\ Kept(row[i], b) <= b
      BY <1>2, KeptFits
    <3>. QED
      BY <3>1
  <2>. QED
    BY <2>1
<1>. HIDE DEF left, step
<1>4. left[0] = budget /\ \A i \in 1..Len(row) : left[i] = step(i, left[i - 1])
  BY <1>1, <1>2
<1>. DEFINE T == {m \in Nat : m \in 0..Len(row) => left[m] \in Nat}
<1>5. \A m \in Nat : m \in T
  <2>1. 0 \in T
    BY <1>4
  <2>2. ASSUME NEW m \in Nat, m \in T PROVE m + 1 \in T
    <3>1. m + 1 \in 0..Len(row) => m \in 0..Len(row) /\ m + 1 \in 1..Len(row)
                                   /\ (m + 1) - 1 = m
      BY <1>2
    <3>2. ASSUME m + 1 \in 0..Len(row) PROVE left[m + 1] \in Nat
      <4>1. left[m] \in Nat /\ m + 1 \in 1..Len(row)
        BY <2>2, <3>1, <3>2
      <4>2. step(m + 1, left[m]) \in Nat
        BY <1>3, <4>1
      <4>3. left[m + 1] = step(m + 1, left[(m + 1) - 1])
        BY <1>4, <4>1
      <4>. QED
        BY <3>1, <3>2, <4>2, <4>3
    <3>. QED
      BY <3>2
  <2>. HIDE DEF T
  <2>. QED
    BY <2>1, <2>2, NatInductionOnSet
<1>6. \A m \in 0..Len(row) : left[m] \in Nat
  BY <1>2, <1>5
<1>7. left \in [0..Len(row) -> Nat]
  BY <1>1, <1>6
<1>8. ASSUME NEW i \in 1..Len(row)
      PROVE  left[i - 1] \in Nat /\ left[i - 1] = left[i] + Kept(row[i], left[i - 1])
             /\ left[i] \in Nat
  <2>1. i - 1 \in 0..Len(row) /\ i \in 0..Len(row)
    BY <1>2
  <2>. QED
    BY <1>3, <1>4, <1>6, <2>1
<1>. QED
  BY <1>4, <1>7, <1>8 DEF left

(* What a sample keeps of a cell.                                           *)
Sights == {"null", "number", "stamped", "torn", "plain"}
KeptCell == [seen : Sights, bytes : 0..MaxCell]

(* The analyzer sees one of five things.                                     *)
LEMMA SeenType ==
  ASSUME NEW cell \in StoredCell, NEW kept
  PROVE  Seen(cell, kept) \in Sights
<1>1. cell.type \in {"null", "number", "text", "blob"}
  BY DEF StoredCell
<1>. QED
  BY <1>1 DEF Seen, Sights

(* The positions up to n are n.                                              *)
LEMMA Positions ==
  ASSUME NEW n \in Nat
  PROVE  IsFiniteSet(1..n) /\ Cardinality(1..n) = n
<1>1. /\ IsFiniteSet(1..n)
      /\ Cardinality(1..n) = IF 1 > n THEN 0 ELSE n - 1 + 1
  BY FS_Interval
<1>. QED
  BY <1>1

(* How much of the row is read, and what it costs.                          *)
LEMMA CellsOfRow ==
  ASSUME NEW row \in Seq(StoredCell), NEW budget \in Nat
  PROVE  /\ Cells(row, budget) \in Seq(KeptCell)
         /\ Len(Cells(row, budget)) <= Len(row)
         /\ Len(Cells(row, budget)) <= MaxColumns
         /\ \A c \in 1..Len(Cells(row, budget)) :
              \E kept \in Nat : /\ kept <= row[c].size
                                /\ Cells(row, budget)[c].seen = Seen(row[c], kept)
         /\ Bytes(Cells(row, budget)) \in Nat /\ Bytes(Cells(row, budget)) <= budget
<1>. DEFINE left == Left(row, budget)
            S == {i \in 1..Least(Len(row), MaxColumns) : left[i - 1] > 0}
            n == Cardinality(S)
            kept(i) == Kept(row[i], left[i - 1])
            cells == [i \in 1..n |-> [seen |-> Seen(row[i], kept(i)), bytes |-> kept(i)]]
<1>1. Cells(row, budget) = cells
  BY DEF Cells
<1>2. Len(row) \in Nat /\ \A i \in 1..Len(row) : row[i] \in StoredCell
  BY Members
<1>3. n \in Nat /\ n <= Len(row) /\ n <= MaxColumns
  <2>1. S \subseteq 1..Len(row) /\ S \subseteq 1..MaxColumns
    BY <1>2, LimitAssumption DEF Least
  <2>2. IsFiniteSet(1..Len(row)) /\ Cardinality(1..Len(row)) = Len(row)
    BY <1>2, Positions
  <2>3. IsFiniteSet(1..MaxColumns) /\ Cardinality(1..MaxColumns) = MaxColumns
    BY LimitAssumption, Positions
  <2>. HIDE DEF S
  <2>. QED
    BY <2>1, <2>2, <2>3, FS_Subset, FS_CardinalityType
<1>4. /\ left \in [0..Len(row) -> Nat] /\ left[0] = budget
      /\ \A i \in 1..Len(row) :
           left[i - 1] \in Nat /\ left[i - 1] = left[i] + kept(i) /\ left[i] \in Nat
  BY LeftFalls
<1>5. \A i \in 1..Len(row) :
         kept(i) \in 0..MaxCell /\ kept(i) <= row[i].size /\ kept(i) \in Nat
  BY <1>2, <1>4, KeptFits
<1>6. \A i \in 1..Len(row) : Seen(row[i], kept(i)) \in Sights
  BY <1>2, SeenType
<1>. HIDE DEF left, n, kept
<1>7. cells \in Seq(KeptCell) /\ Len(cells) = n
  <2>1. cells \in [1..n -> KeptCell]
    BY <1>3, <1>5, <1>6 DEF KeptCell
  <2>. QED
    BY <1>3, <2>1, Filled
<1>8. \A c \in 1..n : /\ cells[c].seen = Seen(row[c], kept(c)) /\ cells[c].bytes = kept(c)
                      /\ c \in 1..Len(row)
  BY <1>3
<1>9. Bytes(cells) \in Nat /\ Bytes(cells) <= budget
  <2>1. DOMAIN cells = 1..n /\ \A i \in 1..n : cells[i].bytes \in Nat
    BY <1>5, <1>8
  <2>. HIDE DEF cells
  <2>2. PICK sum : Running(sum, n, [i \in 1..n |-> cells[i].bytes]) /\ Bytes(cells) = sum[n]
    BY <1>3, <2>1, BytesRun
  <2>. DEFINE T == {m \in Nat : m \in 0..n => sum[m] + left[m] = budget}
  <2>3. 0 \in T
    BY <1>4, <2>2 DEF Running
  <2>4. ASSUME NEW m \in Nat, m \in T PROVE m + 1 \in T
    <3>1. m + 1 \in 0..n => /\ m \in 0..n /\ m + 1 \in 1..n /\ (m + 1) - 1 = m
                            /\ m + 1 \in 1..Len(row)
      BY <1>3
    <3>2. m + 1 \in 0..n => /\ sum[m + 1] = sum[m] + kept(m + 1) /\ sum[m] \in Nat
                            /\ left[m] = left[m + 1] + kept(m + 1)
                            /\ left[m + 1] \in Nat /\ kept(m + 1) \in Nat
      BY <1>4, <1>5, <1>8, <2>2, <3>1 DEF Running
    <3>. QED
      BY <2>4, <3>1, <3>2
  <2>. HIDE DEF T
  <2>5. n \in T
    BY <1>3, <2>3, <2>4, NatInductionOnSet
  <2>6. sum[n] + left[n] = budget /\ left[n] \in Nat /\ sum[n] \in Nat
    BY <1>3, <1>4, <2>2, <2>5 DEF T, Running
  <2>. QED
    BY <2>2, <2>6
<1>10. ASSUME NEW c \in 1..n
       PROVE  \E k \in Nat : k <= row[c].size /\ cells[c].seen = Seen(row[c], k)
  BY <1>5, <1>8
<1>. HIDE DEF cells
<1>. QED
  BY <1>1, <1>3, <1>7, <1>9, <1>10

(* An index of the object has the column.                                    *)
Indexed(o, c) == \E ix \in o.indexes : \E i \in 1..Len(ix) : ix[i] = c

(* o shows the analyzer no more than w does.                                *)
NoMore(o, w) ==
  /\ o.type = w.type
  /\ Len(o.columns) \in Nat /\ Len(w.columns) \in Nat /\ Len(o.columns) <= Len(w.columns)
  /\ w.columns = <<>> => o.columns = <<>>
  /\ \A c \in Columns(o) : o.columns[c] = w.columns[c]
  /\ \A c \in Columns(o) : Indexed(o, c) => Indexed(w, c)
  /\ o.foreign \subseteq w.foreign
  /\ Len(o.samples) \in Nat /\ Len(w.samples) \in Nat
  /\ \A c \in Columns(o) : \A i \in Populated(o, c) :
       /\ i \in Populated(w, c)
       /\ o.samples[i][c].seen \in {"number", "stamped"} =>
            w.samples[i][c].seen = o.samples[i][c].seen

(* Rows are counted by natural numbers.                                      *)
LEMMA HavingIsNatural ==
  ASSUME NEW o, Len(o.samples) \in Nat, NEW c, NEW kinds
  PROVE  /\ IsFiniteSet(Populated(o, c)) /\ Cardinality(Populated(o, c)) \in Nat
         /\ Having(o, c, kinds) \in Nat
<1>1. IsFiniteSet(1..Len(o.samples))
  BY FS_Interval
<1>2. IsFiniteSet(Populated(o, c))
  BY <1>1, FS_Subset DEF Populated
<1>3. IsFiniteSet({i \in Populated(o, c) : o.samples[i][c].seen \in kinds})
  BY <1>2, FS_Subset
<1>. QED
  BY <1>2, <1>3, FS_CardinalityType DEF Having

(* The more is shown, the more rows count.                                   *)
LEMMA HavingGrows ==
  ASSUME NEW o, NEW w, NoMore(o, w), NEW c \in Columns(o)
  PROVE  /\ Cardinality(Populated(o, c)) <= Cardinality(Populated(w, c))
         /\ Having(o, c, {"number"}) <= Having(w, c, {"number"})
         /\ Having(o, c, {"stamped"}) <= Having(w, c, {"stamped"})
<1>1. IsFiniteSet(Populated(w, c))
  BY HavingIsNatural DEF NoMore
<1>2. Populated(o, c) \subseteq Populated(w, c)
  BY DEF NoMore
<1>3. ASSUME NEW k \in {"number", "stamped"}
      PROVE  Having(o, c, {k}) <= Having(w, c, {k})
  <2>1. {i \in Populated(o, c) : o.samples[i][c].seen \in {k}}
          \subseteq {i \in Populated(w, c) : w.samples[i][c].seen \in {k}}
    BY DEF NoMore
  <2>2. IsFiniteSet({i \in Populated(w, c) : w.samples[i][c].seen \in {k}})
    BY <1>1, FS_Subset
  <2>. QED
    BY <2>1, <2>2, FS_Subset DEF Having
<1>. QED
  BY <1>1, <1>2, <1>3, FS_Subset

(* And the more they repeat themselves.                                      *)
LEMMA RepeatsGrow ==
  ASSUME NEW n \in Nat, NEW m \in Nat, n <= m
  PROVE  Repeats(n) \in 0..1 /\ Repeats(m) \in 0..1 /\ Repeats(n) <= Repeats(m)
BY DEF Repeats

(* The score of the samples, role by role.                                  *)
SamplePoints(number, stamped, many, role) ==
  CASE role = "timestamp" -> Least(10, 2 * number + 3 * stamped + 2 * many)
    [] role = "value"     -> Least(10, 2 * number + 2 * many)
    [] role = "signal_id" -> Least(10, 3 * many)
    [] role = "quality"   -> Least(10, 2 * many)

(* The score of the samples is made of these points.                         *)
LEMMA SampleScoreIs ==
  ASSUME NEW o, NEW c, NEW role \in Roles
  PROVE  sample_score(o, c, role) =
           SamplePoints(Having(o, c, {"number"}), Having(o, c, {"stamped"}),
                        Repeats(Cardinality(Populated(o, c))), role)
BY DEF sample_score, SamplePoints, Roles

(* They grow with what they count, up to 10.                                 *)
LEMMA SamplePointsGrow ==
  ASSUME NEW a \in Nat, NEW b \in Nat, NEW m \in 0..1,
         NEW x \in Nat, NEW y \in Nat, NEW n \in 0..1, a <= x, b <= y, m <= n,
         NEW role \in Roles
  PROVE  /\ SamplePoints(a, b, m, role) \in 0..10
         /\ SamplePoints(a, b, m, role) <= SamplePoints(x, y, n, role)
         /\ role = "signal_id" => SamplePoints(a, b, m, role) <= 3
<1>1. 2 * a <= 2 * x /\ 3 * b <= 3 * y /\ 2 * a \in Nat /\ 3 * b \in Nat
  OBVIOUS
<1>2. \A p, q \in Nat : p <= q => Least(10, p) \in 0..10 /\ Least(10, p) <= Least(10, q)
  BY DEF Least
<1>3. CASE role = "timestamp"
  BY <1>1, <1>2, <1>3 DEF SamplePoints
<1>4. CASE role = "value"
  BY <1>1, <1>2, <1>4 DEF SamplePoints
<1>5. CASE role = "signal_id"
  BY <1>2, <1>5 DEF SamplePoints, Least
<1>6. CASE role = "quality"
  BY <1>2, <1>6 DEF SamplePoints
<1>. QED
  BY <1>3, <1>4, <1>5, <1>6 DEF Roles

(* The more is shown, the more the samples score.                            *)
LEMMA SampleScoreGrows ==
  ASSUME NEW o, NEW w, NoMore(o, w), NEW c \in Columns(o), NEW role \in Roles
  PROVE  sample_score(o, c, role) <= sample_score(w, c, role)
<1>1. Len(o.samples) \in Nat /\ Len(w.samples) \in Nat
  BY DEF NoMore
<1>2. /\ Repeats(Cardinality(Populated(o, c))) \in 0..1
      /\ Repeats(Cardinality(Populated(w, c))) \in 0..1
      /\ Repeats(Cardinality(Populated(o, c))) <= Repeats(Cardinality(Populated(w, c)))
  BY <1>1, HavingIsNatural, HavingGrows, RepeatsGrow
<1>3. /\ Having(o, c, {"number"}) \in Nat /\ Having(o, c, {"stamped"}) \in Nat
      /\ Having(w, c, {"number"}) \in Nat /\ Having(w, c, {"stamped"}) \in Nat
  BY <1>1, HavingIsNatural
<1>4. /\ Having(o, c, {"number"}) <= Having(w, c, {"number"})
      /\ Having(o, c, {"stamped"}) <= Having(w, c, {"stamped"})
  BY HavingGrows
<1>. HIDE DEF Roles
<1>. QED
  BY <1>2, <1>3, <1>4, SamplePointsGrow, SampleScoreIs

(* Samples score at most 10, the signal's at most 3.                         *)
LEMMA SampleScoreType ==
  ASSUME NEW o, Len(o.samples) \in Nat, NEW c, NEW role \in Roles
  PROVE  /\ sample_score(o, c, role) \in 0..10
         /\ role = "signal_id" => sample_score(o, c, role) <= 3
<1>1. Repeats(Cardinality(Populated(o, c))) \in 0..1
  BY DEF Repeats
<1>2. Having(o, c, {"number"}) \in Nat /\ Having(o, c, {"stamped"}) \in Nat
  BY HavingIsNatural
<1>3. \A k \in Nat : k <= k
  OBVIOUS
<1>. QED
  BY <1>1, <1>2, <1>3, SamplePointsGrow, SampleScoreIs

(* The points of a column's name and declaration, role by role.             *)
LEMMA NameScoreType ==
  ASSUME NEW col, NEW role \in Roles
  PROVE  name_score(col, role) \in 0..19 /\ (col.names = {} => name_score(col, role) = 0)
<1>1. \A p : If(p, 15) \in 0..15 /\ If(p, 12) \in 0..12 /\ If(p, 7) \in 0..7
  BY DEF If
<1>2. CASE role = "signal_id"
  BY <1>1, <1>2 DEF name_score, If
<1>3. CASE role \in {"timestamp", "value", "quality"}
  BY <1>1, <1>3 DEF name_score, If
<1>. QED
  BY <1>2, <1>3 DEF Roles

(* The points of an index, and those of the declaration and the keys.       *)
IndexPoints(o, c, role) == If(Indexed(o, c), IF role = "value" THEN 1 ELSE 4)

DeclaredPoints(o, c, role) ==
  LET col == o.columns[c]
  IN CASE role = "timestamp" -> If(col.type = "date" \/ Numeric(col), 4)
       [] role = "signal_id" -> If(Textual(col) \/ Numeric(col), 3)
                                  + If(col.key \/ c \in o.foreign, 4)
       [] role = "value"     -> If(Numeric(col), 7)
       [] role = "quality"   -> If(Textual(col) \/ Numeric(col), 3)

(* The score of the metadata is made of these points.                        *)
LEMMA MetadataScoreIs ==
  ASSUME NEW o, NEW c, NEW role \in Roles
  PROVE  metadata_score(o, c, role) = IndexPoints(o, c, role) + DeclaredPoints(o, c, role)
BY Zenon DEF metadata_score, IndexPoints, DeclaredPoints, Indexed

(* It is at most 11, and 8 for the time and the value.                       *)
LEMMA MetadataScoreType ==
  ASSUME NEW o, NEW c, NEW role \in Roles
  PROVE  /\ IndexPoints(o, c, role) \in 0..4 /\ DeclaredPoints(o, c, role) \in 0..7
         /\ role = "value" => IndexPoints(o, c, role) <= 1
         /\ role = "timestamp" => DeclaredPoints(o, c, role) <= 4
         /\ metadata_score(o, c, role) \in 0..11
         /\ role \in {"timestamp", "value"} => metadata_score(o, c, role) <= 8
<1>1. IndexPoints(o, c, role) \in 0..4 /\ (role = "value" => IndexPoints(o, c, role) <= 1)
  BY DEF IndexPoints, If
<1>2. /\ DeclaredPoints(o, c, role) \in 0..7
      /\ role = "timestamp" => DeclaredPoints(o, c, role) <= 4
  BY DEF DeclaredPoints, If, Roles
<1>. QED
  BY <1>1, <1>2, MetadataScoreIs

(* The more is shown, the more the metadata score.                           *)
LEMMA MetadataScoreGrows ==
  ASSUME NEW o, NEW w, NoMore(o, w), NEW c \in Columns(o), NEW role \in Roles
  PROVE  metadata_score(o, c, role) <= metadata_score(w, c, role)
<1>1. /\ o.columns[c] = w.columns[c] /\ (Indexed(o, c) => Indexed(w, c))
      /\ c \in o.foreign => c \in w.foreign
  BY DEF NoMore
<1>2. IndexPoints(o, c, role) <= IndexPoints(w, c, role)
  BY <1>1 DEF IndexPoints, If
<1>3. DeclaredPoints(o, c, role) <= DeclaredPoints(w, c, role)
  BY <1>1 DEF DeclaredPoints, If, Roles
<1>. QED
  BY <1>2, <1>3, MetadataScoreIs, MetadataScoreType

(* A column scores at most 40, a nameless one less.                          *)
LEMMA RoleScoreType ==
  ASSUME NEW o, Len(o.samples) \in Nat, NEW c, NEW role \in Roles
  PROVE  /\ role_score(o, c, role) \in 0..40
         /\ o.columns[c].names = {} =>
              role_score(o, c, role) <= IF role = "signal_id" THEN 14 ELSE 21
         /\ o.columns[c].names = {} /\ role \in {"timestamp", "value"} =>
              role_score(o, c, role) <= 18
<1>. DEFINE s == sample_score(o, c, role)
            n == name_score(o.columns[c], role)
            d == metadata_score(o, c, role)
<1>1. s \in 0..10 /\ (role = "signal_id" => s <= 3)
  BY SampleScoreType
<1>2. n \in 0..19 /\ (o.columns[c].names = {} => n = 0)
  BY NameScoreType
<1>3. d \in 0..11 /\ (role \in {"timestamp", "value"} => d <= 8)
  BY MetadataScoreType
<1>4. role_score(o, c, role) = s + n + d
  BY DEF role_score
<1>. HIDE DEF s, n, d
<1>. QED
  BY <1>1, <1>2, <1>3, <1>4

(* The more is shown, the more a column scores.                              *)
LEMMA RoleScoreGrows ==
  ASSUME NEW o, NEW w, NoMore(o, w), NEW c \in Columns(o), NEW role \in Roles
  PROVE  role_score(o, c, role) <= role_score(w, c, role)
<1>1. sample_score(o, c, role) <= sample_score(w, c, role)
  BY SampleScoreGrows
<1>2. o.columns[c] = w.columns[c] /\ Len(o.samples) \in Nat /\ Len(w.samples) \in Nat
  BY DEF NoMore
<1>3. metadata_score(o, c, role) <= metadata_score(w, c, role)
  BY MetadataScoreGrows
<1>4. /\ sample_score(o, c, role) \in 0..10 /\ sample_score(w, c, role) \in 0..10
      /\ name_score(o.columns[c], role) \in 0..19
      /\ metadata_score(o, c, role) \in 0..11 /\ metadata_score(w, c, role) \in 0..11
  BY <1>2, SampleScoreType, NameScoreType, MetadataScoreType
<1>. DEFINE s == sample_score(o, c, role)
            d == metadata_score(o, c, role)
            n == name_score(o.columns[c], role)
            s2 == sample_score(w, c, role)
            d2 == metadata_score(w, c, role)
<1>5. role_score(o, c, role) = s + n + d /\ role_score(w, c, role) = s2 + n + d2
  BY <1>2 DEF role_score
<1>. HIDE DEF s, d, n, s2, d2
<1>6. s <= s2 /\ d <= d2 /\ s \in Nat /\ d \in Nat /\ n \in Nat /\ s2 \in Nat /\ d2 \in Nat
  BY <1>1, <1>3, <1>4 DEF s, d, n, s2, d2
<1>. QED
  BY <1>5, <1>6

(* The best score of a role is that of a column, or 0.                      *)
LEMMA BestScoreIs ==
  ASSUME NEW o, Len(o.samples) \in Nat, NEW role \in Roles
  PROVE  /\ best_score(o, role) \in 0..40
         /\ \A c \in Columns(o) : role_score(o, c, role) <= best_score(o, role)
         /\ best_score(o, role) # 0 =>
              \E c \in Columns(o) : best_score(o, role) = role_score(o, c, role)
<1>. DEFINE S == {0} \cup {role_score(o, c, role) : c \in Columns(o)}
<1>2. best_score(o, role) = Max(S)
  BY DEF best_score
<1>3. \A k \in S : k = 0 \/ \E c \in Columns(o) : k = role_score(o, c, role)
  OBVIOUS
<1>4. 0 \in S /\ \A c \in Columns(o) : role_score(o, c, role) \in S
  OBVIOUS
<1>. HIDE DEF S
<1>1. S \subseteq 0..40
  <2>1. \A c \in Columns(o) : role_score(o, c, role) \in 0..40
    BY RoleScoreType
  <2>2. ASSUME NEW k \in S PROVE k \in 0..40
    <3>1. CASE k = 0
      BY <3>1
    <3>2. CASE k # 0
      <4>1. PICK c \in Columns(o) : k = role_score(o, c, role)
        BY <1>3, <3>2
      <4>. QED
        BY <2>1, <4>1, Zenon
    <3>. QED
      BY <3>1, <3>2
  <2>. QED
    BY <2>2
<1>5. Max(S) \in S /\ \A k \in S : k <= Max(S)
  <2>1. S \subseteq Nat /\ S # {} /\ 40 \in Nat /\ \A k \in S : k <= 40
    BY <1>1, <1>4
  <2>. QED
    BY <2>1, LargestOfBounded
<1>. QED
  BY <1>1, <1>2, <1>3, <1>4, <1>5

(* And the more the best column of a role scores.                            *)
LEMMA BestScoreGrows ==
  ASSUME NEW o, NEW w, NoMore(o, w), NEW role \in Roles
  PROVE  best_score(o, role) <= best_score(w, role)
<1>1. Len(o.samples) \in Nat /\ Len(w.samples) \in Nat /\ Columns(o) \subseteq Columns(w)
  BY DEF NoMore, Columns
<1>2. best_score(o, role) \in 0..40 /\ best_score(w, role) \in 0..40
  BY <1>1, BestScoreIs
<1>3. CASE best_score(o, role) = 0
  BY <1>2, <1>3
<1>4. CASE best_score(o, role) # 0
  <2>1. PICK c \in Columns(o) : best_score(o, role) = role_score(o, c, role)
    BY <1>1, <1>4, BestScoreIs
  <2>2. role_score(o, c, role) <= role_score(w, c, role)
    BY RoleScoreGrows
  <2>3. role_score(w, c, role) <= best_score(w, role)
    BY <1>1, BestScoreIs
  <2>4. role_score(w, c, role) \in 0..40
    BY <1>1, RoleScoreType
  <2>. QED
    BY <1>2, <2>1, <2>2, <2>3, <2>4
<1>. QED
  BY <1>3, <1>4

(* A score is below a threshold, or it reaches it.                           *)
LEMMA LessIsNotMore == \A b \in 0..40, t \in {10, 12} : (b < t) <=> ~(b >= t)
OBVIOUS

(* A role has a column exactly when its best score is high enough.          *)
LEMMA BestColumnIs ==
  ASSUME NEW o, Len(o.samples) \in Nat, Len(o.columns) \in Nat, NEW role \in Roles
  PROVE  /\ best_column(o, role) # 0 <=> best_score(o, role) >= Threshold(role)
         /\ best_column(o, role) \in 0..Len(o.columns)
<1>. DEFINE S == {c \in Columns(o) : role_score(o, c, role) = best_score(o, role)}
<1>1. Threshold(role) \in {10, 12} /\ best_score(o, role) \in 0..40
  BY BestScoreIs DEF Threshold
<1>2. CASE best_score(o, role) < Threshold(role)
  <2>1. best_column(o, role) = 0
    BY <1>2, Zenon DEF best_column
  <2>2. ~(best_score(o, role) >= Threshold(role))
    BY <1>1, <1>2, LessIsNotMore, Zenon
  <2>3. 0 \in 0..Len(o.columns)
    OBVIOUS
  <2>. QED
    BY <2>1, <2>2, <2>3, Zenon
<1>3. CASE ~(best_score(o, role) < Threshold(role))
  <2>1. best_column(o, role) = Min(S)
    BY <1>3, Zenon DEF best_column
  <2>2. S \subseteq Nat /\ S # {}
    <3>1. PICK c \in Columns(o) : best_score(o, role) = role_score(o, c, role)
      BY <1>1, <1>3, BestScoreIs
    <3>. QED
      BY <3>1 DEF Columns
  <2>3. \A c \in S : c \in 1..Len(o.columns)
    BY DEF Columns
  <2>. HIDE DEF S
  <2>4. \E x \in S : \A y \in S : x <= y
    BY <2>2, LeastOf
  <2>5. Min(S) \in S
    BY <2>4, Zenon DEF Min
  <2>. QED
    <3>1. best_column(o, role) \in 1..Len(o.columns)
      BY <2>1, <2>3, <2>5
    <3>2. best_score(o, role) >= Threshold(role)
      BY <1>1, <1>3, LessIsNotMore, Zenon
    <3>3. \A k \in 1..Len(o.columns) : k # 0 /\ k \in 0..Len(o.columns)
      OBVIOUS
    <3>. QED
      BY <3>1, <3>2, <3>3, Zenon
<1>. QED
  BY <1>2, <1>3

(* The more is shown, the more roles have a column.                          *)
LEMMA CompleteGrows ==
  ASSUME NEW o, NEW w, NoMore(o, w)
  PROVE  Complete(o) \in Nat /\ Complete(w) \in Nat /\ Complete(o) <= Complete(w)
<1>. DEFINE S(x) == {r \in Needed : best_column(x, r) # 0}
<1>1. Needed \subseteq Roles /\ IsFiniteSet(Needed)
  <2>1. IsFiniteSet({"timestamp"}) /\ IsFiniteSet({"signal_id"}) /\ IsFiniteSet({"value"})
    BY FS_Singleton
  <2>2. IsFiniteSet(({"timestamp"} \cup {"signal_id"}) \cup {"value"})
    BY <2>1, FS_Union
  <2>3. Needed = ({"timestamp"} \cup {"signal_id"}) \cup {"value"}
    BY DEF Needed
  <2>. QED
    BY <2>2, <2>3 DEF Needed, Roles
<1>2. Complete(o) = Cardinality(S(o)) /\ Complete(w) = Cardinality(S(w))
  BY DEF Complete
<1>3. S(o) \subseteq S(w)
  <2>1. ASSUME NEW r \in Needed, best_column(o, r) # 0 PROVE best_column(w, r) # 0
    <3>1. /\ Len(o.samples) \in Nat /\ Len(o.columns) \in Nat
          /\ Len(w.samples) \in Nat /\ Len(w.columns) \in Nat /\ r \in Roles
      BY <1>1 DEF NoMore
    <3>2. best_score(o, r) >= Threshold(r) /\ best_score(o, r) <= best_score(w, r)
      BY <2>1, <3>1, BestColumnIs, BestScoreGrows
    <3>3. best_score(o, r) \in Nat /\ best_score(w, r) \in Nat /\ Threshold(r) \in Nat
      <4>1. best_score(o, r) \in 0..40 /\ best_score(w, r) \in 0..40
        BY <3>1, BestScoreIs
      <4>2. Threshold(r) \in Nat
        BY DEF Threshold
      <4>3. \A k \in 0..40 : k \in Nat
        OBVIOUS
      <4>. QED
        BY <4>1, <4>2, <4>3, Zenon
    <3>4. \A a, b, c \in Nat : a >= c /\ a <= b => b >= c
      OBVIOUS
    <3>5. best_score(w, r) >= Threshold(r)
      BY <3>2, <3>3, <3>4, Zenon
    <3>. QED
      BY <3>1, <3>5, BestColumnIs
  <2>. QED
    BY <2>1
<1>4. IsFiniteSet(S(o)) /\ IsFiniteSet(S(w))
  BY <1>1, FS_Subset
<1>. HIDE DEF S
<1>. QED
  BY <1>2, <1>3, <1>4, FS_Subset, FS_CardinalityType

(* And the more points they have together.                                   *)
LEMMA TotalGrows ==
  ASSUME NEW o, NEW w, NoMore(o, w)
  PROVE  Total(o) \in Nat /\ Total(w) \in Nat /\ Total(o) <= Total(w)
<1>1. \A r \in Roles : /\ best_score(o, r) \in 0..40 /\ best_score(w, r) \in 0..40
                       /\ best_score(o, r) <= best_score(w, r)
  BY BestScoreIs, BestScoreGrows DEF NoMore
<1>. DEFINE a == best_score(o, "timestamp")
            b == best_score(o, "signal_id")
            c == best_score(o, "value")
            x == best_score(w, "timestamp")
            y == best_score(w, "signal_id")
            z == best_score(w, "value")
<1>2. /\ a \in 0..40 /\ x \in 0..40 /\ a <= x /\ b \in 0..40 /\ y \in 0..40 /\ b <= y
      /\ c \in 0..40 /\ z \in 0..40 /\ c <= z
  BY <1>1 DEF Roles
<1>3. Total(o) = a + b + c /\ Total(w) = x + y + z
  BY DEF Total
<1>. HIDE DEF a, b, c, x, y, z
<1>. QED
  BY <1>2, <1>3

(* The grade a table reaches with so many roles and points.                 *)
Reached(complete, total) == {g \in 1..3 : complete >= g /\ total >= <<0, 30, 55>>[g]}

(* More roles and more points reach no lower grade.                          *)
LEMMA GradeGrows ==
  ASSUME NEW a \in Nat, NEW b \in Nat, NEW x \in Nat, NEW y \in Nat, a <= x, b <= y
  PROVE  /\ Max({0} \cup Reached(a, b)) \in 0..3
         /\ Max({0} \cup Reached(a, b)) <= Max({0} \cup Reached(x, y))
         /\ Max({0} \cup Reached(a, b)) = 3 => b >= 55
<1>1. Reached(a, b) \subseteq Reached(x, y) /\ Reached(x, y) \subseteq 1..3
  <2>1. ASSUME NEW g \in Reached(a, b) PROVE g \in Reached(x, y)
    <3>1. <<0, 30, 55>>[g] \in Nat
      BY DEF Reached
    <3>. QED
      BY <3>1 DEF Reached
  <2>. QED
    BY <2>1 DEF Reached
<1>2. 3 \in Reached(a, b) => b >= 55
  BY DEF Reached
<1>. DEFINE S == {0} \cup Reached(a, b)
            T == {0} \cup Reached(x, y)
<1>3. /\ S \subseteq T /\ 0 \in S /\ T \subseteq Nat /\ S \subseteq Nat
      /\ (\A k \in T : k <= 3) /\ (\A k \in S : k <= 3)
  BY <1>1
<1>4. 3 \in S => b >= 55
  BY <1>2
<1>. HIDE DEF S, T
<1>5. Max(S) \in S /\ \A k \in S : k <= Max(S)
  BY <1>3, LargestOfBounded
<1>6. Max(T) \in T /\ \A k \in T : k <= Max(T)
  BY <1>3, LargestOfBounded
<1>7. Max(S) \in 0..3 /\ Max(S) <= Max(T) /\ (Max(S) = 3 => b >= 55)
  <2>1. Max(S) \in Nat /\ Max(S) <= 3
    BY <1>3, <1>5, Zenon
  <2>2. Max(S) \in T /\ (Max(S) = 3 => 3 \in S)
    BY <1>3, <1>5, Zenon
  <2>3. Max(S) <= Max(T)
    BY <1>6, <2>2, Zenon
  <2>. QED
    BY <1>4, <2>1, <2>2, <2>3
<1>. QED
  BY <1>7 DEF S, T

(* The confidence in a table is that grade.                                  *)
LEMMA ConfidenceIs ==
  ASSUME NEW o
  PROVE  candidate_confidence(o) =
           IF o.type # "table" \/ o.columns = <<>> THEN 0
           ELSE Max({0} \cup Reached(Complete(o), Total(o)))
BY Zenon DEF candidate_confidence, Reached

(* Nothing shows more than itself.                                           *)
LEMMA SameIsNoMore ==
  ASSUME NEW o, Len(o.samples) \in Nat, Len(o.columns) \in Nat
  PROVE  NoMore(o, o)
BY DEF NoMore

(* There are three grades, and the highest takes 55 points.                  *)
LEMMA ConfidenceType ==
  ASSUME NEW o, Len(o.samples) \in Nat, Len(o.columns) \in Nat
  PROVE  /\ candidate_confidence(o) \in 0..3
         /\ candidate_confidence(o) = 3 => Total(o) >= 55
<1>1. Complete(o) \in Nat /\ Total(o) \in Nat
  BY SameIsNoMore, CompleteGrows, TotalGrows
<1>2. /\ Max({0} \cup Reached(Complete(o), Total(o))) \in 0..3
      /\ Max({0} \cup Reached(Complete(o), Total(o))) = 3 => Total(o) >= 55
  <2>1. Complete(o) <= Complete(o) /\ Total(o) <= Total(o)
    BY <1>1
  <2>. QED
    BY <1>1, <2>1, GradeGrows
<1>3. 0 \in 0..3 /\ 0 # 3
  OBVIOUS
<1>. QED
  BY <1>2, <1>3, ConfidenceIs, Zenon

(* The less the analyzer sees, the less it claims.                          *)
LEMMA ConfidenceGrows ==
  ASSUME NEW o, NEW w, NoMore(o, w)
  PROVE  candidate_confidence(o) <= candidate_confidence(w)
<1>1. candidate_confidence(w) \in 0..3
  BY ConfidenceType DEF NoMore
<1>2. CASE o.type # "table" \/ o.columns = <<>>
  <2>1. candidate_confidence(o) = 0
    BY <1>2, ConfidenceIs, Zenon
  <2>. QED
    BY <1>1, <2>1
<1>3. CASE ~(o.type # "table" \/ o.columns = <<>>)
  <2>1. ~(w.type # "table" \/ w.columns = <<>>)
    BY <1>3 DEF NoMore
  <2>2. /\ candidate_confidence(o) = Max({0} \cup Reached(Complete(o), Total(o)))
        /\ candidate_confidence(w) = Max({0} \cup Reached(Complete(w), Total(w)))
    BY <1>3, <2>1, ConfidenceIs, Zenon
  <2>3. /\ Complete(o) \in Nat /\ Complete(w) \in Nat /\ Complete(o) <= Complete(w)
        /\ Total(o) \in Nat /\ Total(w) \in Nat /\ Total(o) <= Total(w)
    BY CompleteGrows, TotalGrows
  <2>4. Max({0} \cup Reached(Complete(o), Total(o)))
          <= Max({0} \cup Reached(Complete(w), Total(w)))
    BY <2>3, GradeGrows
  <2>. QED
    BY <2>2, <2>4, Zenon
<1>. QED
  BY <1>2, <1>3

(* 18 points for the time, 14 for the signal and 18 for the value are the   *)
(* most a table can have without its columns' names.                        *)
LEMMA OpaqueIsUnsure ==
  ASSUME NEW o, Len(o.samples) \in Nat, Len(o.columns) \in Nat, Opaque(o)
  PROVE  candidate_confidence(o) # 3
<1>1. ASSUME NEW r \in Needed
      PROVE  /\ best_score(o, r) \in 0..40
             /\ best_score(o, r) <= IF r = "signal_id" THEN 14 ELSE 18
  <2>1. r \in Roles /\ best_score(o, r) \in 0..40
    BY BestScoreIs DEF Needed, Roles
  <2>2. CASE best_score(o, r) = 0
    BY <2>1, <2>2
  <2>3. CASE best_score(o, r) # 0
    <3>1. PICK c \in Columns(o) : best_score(o, r) = role_score(o, c, r)
      BY <2>1, <2>3, BestScoreIs
    <3>2. o.columns[c].names = {}
      BY DEF Opaque
    <3>3. role_score(o, c, r) <= IF r = "signal_id" THEN 14 ELSE 18
      <4>1. CASE r = "signal_id"
        BY <2>1, <3>2, <4>1, RoleScoreType
      <4>2. CASE r # "signal_id"
        BY <2>1, <3>2, <4>2, RoleScoreType DEF Needed
      <4>. QED
        BY <4>1, <4>2
    <3>. QED
      BY <2>1, <3>1, <3>3, Zenon
  <2>. QED
    BY <2>2, <2>3
<1>. DEFINE t == best_score(o, "timestamp")
            s == best_score(o, "signal_id")
            v == best_score(o, "value")
<1>2. t \in 0..40 /\ t <= 18 /\ s \in 0..40 /\ s <= 14 /\ v \in 0..40 /\ v <= 18
  <2>1. "timestamp" \in Needed /\ "signal_id" \in Needed /\ "value" \in Needed
    BY DEF Needed
  <2>2. "timestamp" # "signal_id" /\ "value" # "signal_id"
    OBVIOUS
  <2>. QED
    BY <1>1, <2>1, <2>2, Zenon
<1>3. Total(o) = t + s + v
  BY DEF Total
<1>. HIDE DEF t, s, v
<1>4. ~(Total(o) >= 55)
  BY <1>2, <1>3
<1>. QED
  BY <1>4, ConfidenceType

(* s is the beginning of t.                                                 *)
Begins(s, t) == Len(s) <= Len(t) /\ \A i \in 1..Len(s) : s[i] = t[i]

(* The cells show what is seen of the first cells of the row.               *)
Shows(cells, row) ==
  /\ Len(cells) <= Len(row)
  /\ \A c \in 1..Len(cells) :
       \E kept \in Nat : kept <= row[c].size /\ cells[c].seen = Seen(row[c], kept)

(* What can be read of an object.                                            *)
ReadObject ==
  [type : {"none", "table", "view"}, columns : Seq(StoredColumn), indexes : SUBSET Seq(Nat),
   foreign : SUBSET Nat, samples : Seq(Seq(KeptCell))]

(* o is what was read of the stored object t.                               *)
CutOf(o, t) ==
  /\ o.type = t.type
  /\ Begins(o.columns, t.columns)
  /\ \A ix \in o.indexes : \E i \in 1..Len(t.indexes) : Begins(ix, t.indexes[i])
  /\ \A key \in o.foreign : \E i \in 1..Len(t.foreign) : key = t.foreign[i]
  /\ Len(o.samples) <= Len(t.rows)
  /\ \A r \in 1..Len(o.samples) : Shows(o.samples[r], t.rows[r])

(* No more is read of an object than the limits allow.                       *)
Bounded(o) == /\ Len(o.columns) <= MaxColumns
              /\ Cardinality(o.indexes) <= MaxIndexes
              /\ \A ix \in o.indexes : Len(ix) <= MaxColumns
              /\ Cardinality(o.foreign) <= MaxForeign
              /\ Len(o.samples) <= MaxRows
              /\ \A r \in 1..Len(o.samples) : Len(o.samples[r]) <= MaxColumns

(* The rows of the whole of a table, every cell at its full length.         *)
LEMMA WholeRows ==
  ASSUME NEW t \in StoredObject
  PROVE  LET rows == Whole(t).samples
         IN /\ Len(rows) = Len(t.rows) /\ Len(t.rows) \in Nat
            /\ \A r \in 1..Len(t.rows) :
                 /\ Len(rows[r]) = Len(t.rows[r]) /\ Len(t.rows[r]) \in Nat
                 /\ \A c \in 1..Len(t.rows[r]) :
                      /\ t.rows[r][c] \in StoredCell
                      /\ rows[r][c].seen = Seen(t.rows[r][c], t.rows[r][c].size)
<1>. DEFINE cell(r, c) == [seen |-> Seen(t.rows[r][c], t.rows[r][c].size),
                           bytes |-> t.rows[r][c].size]
            row(r) == [c \in 1..Len(t.rows[r]) |-> cell(r, c)]
            rows == [r \in 1..Len(t.rows) |-> row(r)]
            C == [seen : Sights, bytes : Nat]
<1>1. Whole(t).samples = rows
  BY DEF Whole
<1>2. t.rows \in Seq(Seq(StoredCell))
  BY DEF StoredObject
<1>3. Len(t.rows) \in Nat /\ \A r \in 1..Len(t.rows) : t.rows[r] \in Seq(StoredCell)
  BY <1>2, Members
<1>4. ASSUME NEW r \in 1..Len(t.rows)
      PROVE  /\ Len(t.rows[r]) \in Nat
             /\ \A c \in 1..Len(t.rows[r]) : t.rows[r][c] \in StoredCell
             /\ row(r) \in Seq(C) /\ Len(row(r)) = Len(t.rows[r])
  <2>1. /\ Len(t.rows[r]) \in Nat
        /\ \A c \in 1..Len(t.rows[r]) : t.rows[r][c] \in StoredCell
    BY <1>3, Members
  <2>2. \A c \in 1..Len(t.rows[r]) : cell(r, c) \in C
    <3>1. ASSUME NEW c \in 1..Len(t.rows[r]) PROVE cell(r, c) \in C
      <4>1. t.rows[r][c].size \in Nat
        BY <2>1 DEF StoredCell
      <4>. QED
        BY <2>1, <4>1, SeenType
    <3>. QED
      BY <3>1
  <2>. HIDE DEF cell, C
  <2>3. row(r) \in [1..Len(t.rows[r]) -> C]
    BY <2>2
  <2>. HIDE DEF row
  <2>. QED
    BY <2>1, <2>3, Filled
<1>5. \A r \in 1..Len(t.rows) : \A c \in 1..Len(t.rows[r]) :
         row(r)[c].seen = Seen(t.rows[r][c], t.rows[r][c].size)
  OBVIOUS
<1>. HIDE DEF C, row
<1>6. Len(rows) = Len(t.rows) /\ \A r \in 1..Len(t.rows) : rows[r] = row(r)
  <2>1. rows \in [1..Len(t.rows) -> Seq(C)]
    BY <1>4
  <2>2. \A r \in 1..Len(t.rows) : rows[r] = row(r)
    OBVIOUS
  <2>. HIDE DEF rows
  <2>. QED
    BY <1>3, <2>1, <2>2, Filled
<1>. HIDE DEF rows
<1>. QED
  BY <1>1, <1>3, <1>4, <1>5, <1>6

(* A cut hides a stamp, never adds one.                                     *)
LEMMA SeenGrows ==
  ASSUME NEW cell \in StoredCell, NEW kept \in Nat, kept <= cell.size
  PROVE  /\ Seen(cell, kept) # "null" => Seen(cell, cell.size) # "null"
         /\ Seen(cell, kept) \in {"number", "stamped"} =>
              Seen(cell, cell.size) = Seen(cell, kept)
<1>1. /\ cell.type \in {"null", "number", "text", "blob"} /\ cell.size \in Nat
      /\ cell.stamp \in Nat /\ cell.size \notin cell.inside
  BY DEF StoredCell
<1>2. cell.stamp \in 1..kept => cell.stamp \in 1..cell.size
  BY <1>1
<1>. QED
  BY <1>1, <1>2 DEF Seen

(* What was read of an object shows no more than the whole.                  *)
LEMMA CutShowsNoMore ==
  ASSUME NEW t \in StoredObject, NEW o \in ReadObject, CutOf(o, t)
  PROVE  NoMore(o, Whole(t))
<1>. DEFINE w == Whole(t)
<1>1. /\ w.type = t.type /\ w.columns = t.columns /\ w.indexes = ToSet(t.indexes)
      /\ w.foreign = ToSet(t.foreign)
  BY DEF Whole
<1>2. /\ o.columns \in Seq(StoredColumn) /\ t.columns \in Seq(StoredColumn)
      /\ o.indexes \subseteq Seq(Nat) /\ t.indexes \in Seq(Seq(Nat))
      /\ t.foreign \in Seq(Nat) /\ o.samples \in Seq(Seq(KeptCell))
  BY DEF ReadObject, StoredObject
<1>3. o.type = w.type
  BY <1>1 DEF CutOf
<1>4. /\ Len(o.columns) \in Nat /\ Len(w.columns) \in Nat
      /\ Len(o.columns) <= Len(w.columns)
      /\ w.columns = <<>> => o.columns = <<>>
      /\ \A c \in Columns(o) : o.columns[c] = w.columns[c]
  BY <1>1, <1>2 DEF CutOf, Begins, Columns
<1>5. ASSUME NEW c \in Columns(o), Indexed(o, c) PROVE Indexed(w, c)
  <2>1. PICK ix \in o.indexes : \E i \in 1..Len(ix) : ix[i] = c
    BY <1>5 DEF Indexed
  <2>2. PICK i \in 1..Len(ix) : ix[i] = c
    BY <2>1
  <2>3. PICK j \in 1..Len(t.indexes) : Begins(ix, t.indexes[j])
    BY DEF CutOf
  <2>4. t.indexes[j] \in w.indexes /\ t.indexes[j] \in Seq(Nat) /\ ix \in Seq(Nat)
    BY <1>1, <1>2, Members DEF ToSet
  <2>5. Len(ix) \in Nat /\ Len(t.indexes[j]) \in Nat
    BY <2>4
  <2>6. i \in 1..Len(t.indexes[j]) /\ t.indexes[j][i] = c
    BY <2>2, <2>3, <2>5 DEF Begins
  <2>. QED
    BY <2>4, <2>6 DEF Indexed
<1>6. o.foreign \subseteq w.foreign
  BY <1>1, <1>2 DEF CutOf, ToSet
<1>7. Len(o.samples) \in Nat /\ Len(w.samples) \in Nat
  BY <1>2, WholeRows, Members
<1>8. ASSUME NEW c \in Columns(o), NEW i \in Populated(o, c)
      PROVE  /\ i \in Populated(w, c)
             /\ o.samples[i][c].seen \in {"number", "stamped"} =>
                  w.samples[i][c].seen = o.samples[i][c].seen
  <2>1. /\ i \in 1..Len(o.samples) /\ c <= Len(o.samples[i])
        /\ o.samples[i][c].seen # "null"
    BY DEF Populated
  <2>2. Len(t.rows) \in Nat /\ Len(o.samples) <= Len(t.rows) /\ i \in 1..Len(t.rows)
    BY <1>7, <2>1, WholeRows DEF CutOf
  <2>3. Shows(o.samples[i], t.rows[i])
    BY <2>1 DEF CutOf
  <2>4. Len(o.samples[i]) \in Nat /\ Len(t.rows[i]) \in Nat
    <3>1. o.samples[i] \in Seq(KeptCell)
      BY <1>2, <2>1, Members
    <3>2. Len(o.samples[i]) \in Nat
      BY <3>1, Members
    <3>. QED
      BY <2>2, <3>2, WholeRows
  <2>5. c \in 1..Len(o.samples[i]) /\ c \in 1..Len(t.rows[i])
    BY <1>4, <2>1, <2>3, <2>4 DEF Columns, Shows
  <2>6. PICK kept \in Nat : /\ kept <= t.rows[i][c].size
                            /\ o.samples[i][c].seen = Seen(t.rows[i][c], kept)
    BY <2>3, <2>5 DEF Shows
  <2>7. /\ t.rows[i][c] \in StoredCell /\ Len(w.samples) = Len(t.rows)
        /\ Len(w.samples[i]) = Len(t.rows[i])
        /\ w.samples[i][c].seen = Seen(t.rows[i][c], t.rows[i][c].size)
    BY <2>2, <2>5, WholeRows
  <2>8. /\ w.samples[i][c].seen # "null"
        /\ o.samples[i][c].seen \in {"number", "stamped"} =>
             w.samples[i][c].seen = o.samples[i][c].seen
    BY <2>1, <2>6, <2>7, SeenGrows
  <2>9. c <= Len(w.samples[i]) /\ i \in 1..Len(w.samples)
    BY <2>2, <2>4, <2>5, <2>7
  <2>. QED
    BY <2>8, <2>9 DEF Populated
<1>. HIDE DEF w
<1>9. NoMore(o, w)
  BY <1>3, <1>4, <1>5, <1>6, <1>7, <1>8 DEF NoMore
<1>. QED
  BY <1>9 DEF w

(* Samples cost a natural number of bytes.                                  *)
LEMMA CellBytesType ==
  ASSUME NEW cells \in Seq(KeptCell)
  PROVE  Bytes(cells) \in Nat
<1>1. Len(cells) \in Nat /\ DOMAIN cells = 1..Len(cells)
  OBVIOUS
<1>2. \A i \in 1..Len(cells) : cells[i].bytes \in Nat
  <2>1. \A i \in 1..Len(cells) : cells[i] \in KeptCell
    BY Members
  <2>. QED
    BY <2>1, LimitAssumption DEF KeptCell
<1>3. PICK sum : /\ Running(sum, Len(cells), [i \in 1..Len(cells) |-> cells[i].bytes])
                 /\ Bytes(cells) = sum[Len(cells)]
  BY <1>1, <1>2, BytesRun
<1>. QED
  BY <1>1, <1>3 DEF Running

(* So do the rows of an object.                                              *)
LEMMA RowBytesType ==
  ASSUME NEW o, o.samples \in Seq(Seq(KeptCell))
  PROVE  /\ RowBytes(o) \in Nat /\ Len(o.samples) \in Nat
         /\ DOMAIN o.samples = 1..Len(o.samples)
         /\ \A i \in 1..Len(o.samples) : Bytes(o.samples[i]) \in Nat
<1>. DEFINE n == Len(o.samples)
<1>1. n \in Nat /\ DOMAIN o.samples = 1..n
  OBVIOUS
<1>2. \A i \in 1..n : Bytes(o.samples[i]) \in Nat
  BY Members, CellBytesType
<1>3. PICK sum : /\ Running(sum, n, [i \in 1..n |-> Bytes(o.samples[i])])
                 /\ RowBytes(o) = sum[n]
  BY <1>1, <1>2, RowsRun
<1>4. RowBytes(o) \in Nat
  BY <1>1, <1>3 DEF Running
<1>. QED
  BY <1>1, <1>2, <1>4

(* And the objects of a file.                                                *)
LEMMA SampleBytesType ==
  ASSUME NEW os \in Seq(ReadObject)
  PROVE  /\ SampleBytes(os) \in Nat /\ Len(os) \in Nat /\ DOMAIN os = 1..Len(os)
         /\ \A i \in 1..Len(os) : RowBytes(os[i]) \in Nat
<1>. DEFINE n == Len(os)
<1>1. n \in Nat /\ DOMAIN os = 1..n
  OBVIOUS
<1>2. \A i \in 1..n : RowBytes(os[i]) \in Nat
  <2>1. \A i \in 1..n : os[i] \in ReadObject
    BY Members
  <2>. QED
    BY <2>1, RowBytesType DEF ReadObject
<1>3. PICK sum : /\ Running(sum, n, [i \in 1..n |-> RowBytes(os[i])])
                 /\ SampleBytes(os) = sum[n]
  BY <1>1, <1>2, ObjectsRun
<1>4. SampleBytes(os) \in Nat
  BY <1>1, <1>3 DEF Running
<1>. QED
  BY <1>1, <1>2, <1>4

(* A row more costs its own bytes.                                          *)
LEMMA RowMore ==
  ASSUME NEW o, o.samples \in Seq(Seq(KeptCell)), NEW cells \in Seq(KeptCell),
         NEW p, p.samples = Append(o.samples, cells)
  PROVE  RowBytes(p) = RowBytes(o) + Bytes(cells)
<1>. DEFINE n == Len(o.samples)
            w == [i \in 1..n |-> Bytes(o.samples[i])]
            v == [i \in 1..(n + 1) |-> Bytes(p.samples[i])]
<1>1. /\ p.samples \in Seq(Seq(KeptCell)) /\ Len(p.samples) = n + 1 /\ n \in Nat
      /\ \A i \in 1..n : p.samples[i] = o.samples[i]
      /\ p.samples[n + 1] = cells
  BY PushBack, Members
<1>2. PICK f : Running(f, n, w) /\ RowBytes(o) = f[n]
  BY <1>1, RowBytesType, RowsRun
<1>3. PICK g : Running(g, n + 1, v) /\ RowBytes(p) = g[n + 1]
  BY <1>1, RowBytesType, RowsRun
<1>4. \A k \in 1..n : w[k] = v[k]
  BY <1>1
<1>5. v[n + 1] = Bytes(cells)
  BY <1>1
<1>. HIDE DEF v, w, n
<1>6. g[n + 1] = f[n] + v[n + 1]
  BY <1>1, <1>2, <1>3, <1>4, LongerSum
<1>. QED
  BY <1>2, <1>3, <1>5, <1>6, Zenon

(* A new object without samples costs nothing.                              *)
LEMMA ObjectMore ==
  ASSUME NEW os \in Seq(ReadObject), NEW o \in ReadObject, o.samples = <<>>
  PROVE  SampleBytes(Append(os, o)) = SampleBytes(os)
<1>. DEFINE n == Len(os)
            more == Append(os, o)
            w == [i \in 1..n |-> RowBytes(os[i])]
            v == [i \in 1..(n + 1) |-> RowBytes(more[i])]
<1>1. /\ more \in Seq(ReadObject) /\ Len(more) = n + 1 /\ n \in Nat
      /\ \A i \in 1..n : more[i] = os[i]
      /\ more[n + 1] = o
  BY PushBack, Members
<1>. HIDE DEF more
<1>2. PICK f : Running(f, n, w) /\ SampleBytes(os) = f[n]
  BY <1>1, SampleBytesType, ObjectsRun
<1>3. PICK g : Running(g, n + 1, v) /\ SampleBytes(more) = g[n + 1]
  BY <1>1, SampleBytesType, ObjectsRun
<1>4. \A k \in 1..n : w[k] = v[k]
  BY <1>1
<1>5. v[n + 1] = RowBytes(o)
  BY <1>1
<1>6. RowBytes(o) = 0
  <2>1. o.samples \in Seq(Seq(KeptCell)) /\ Len(o.samples) = 0
    BY DEF ReadObject
  <2>2. PICK h : /\ Running(h, 0, [i \in 1..0 |-> Bytes(o.samples[i])])
                 /\ RowBytes(o) = h[0]
    BY <2>1, RowBytesType, RowsRun
  <2>. QED
    BY <2>2 DEF Running
<1>. HIDE DEF v, w
<1>7. f[n] \in Nat
  BY <1>1, <1>2 DEF Running
<1>8. g[n + 1] = f[n] + v[n + 1]
  BY <1>1, <1>2, <1>3, <1>4, LongerSum
<1>9. SampleBytes(more) = SampleBytes(os)
  BY <1>2, <1>3, <1>5, <1>6, <1>7, <1>8
<1>. QED
  BY <1>9 DEF more

(* What the last object costs more, all of them cost more.                  *)
LEMMA LastObject ==
  ASSUME NEW os \in Seq(ReadObject), os # <<>>, NEW o \in ReadObject, NEW d \in Nat,
         RowBytes(o) = RowBytes(os[Len(os)]) + d
  PROVE  SampleBytes([os EXCEPT ![Len(os)] = o]) = SampleBytes(os) + d
<1>. DEFINE n == Len(os)
            other == [os EXCEPT ![n] = o]
            w == [i \in 1..n |-> RowBytes(os[i])]
            v == [i \in 1..n |-> RowBytes(other[i])]
<1>1. n \in Nat \ {0} /\ n \in 1..n
  OBVIOUS
<1>2. /\ other \in Seq(ReadObject) /\ Len(other) = n /\ other[n] = o
      /\ \A i \in 1..(n - 1) : other[i] = os[i]
  BY <1>1
<1>. HIDE DEF other
<1>3. PICK f : Running(f, n, w) /\ SampleBytes(os) = f[n]
  BY SampleBytesType, ObjectsRun
<1>4. PICK g : Running(g, n, v) /\ SampleBytes(other) = g[n]
  BY <1>2, SampleBytesType, ObjectsRun
<1>5. \A k \in 1..(n - 1) : w[k] = v[k]
  BY <1>1, <1>2
<1>6. w[n] \in Nat /\ v[n] = w[n] + d
  BY <1>1, <1>2, SampleBytesType
<1>. HIDE DEF v, w, n
<1>7. g[n] = f[n] + d
  BY <1>1, <1>3, <1>4, <1>5, <1>6, GrownSum
<1>8. SampleBytes(other) = SampleBytes(os) + d
  BY <1>3, <1>4, <1>7, Zenon
<1>. QED
  BY <1>8 DEF other, n

(* The queries about one object.                                             *)
InObject == {"columns", "indexes", "keys", "count", "samples"}

(* The state of the inspection itself.                                       *)
Status ==
  /\ database \in Databases
  /\ query \in {"open", "objects", "columns", "indexes", "keys", "count", "samples",
                "analyze", "ranges", "done", "thrown"}
  /\ overdue \in BOOLEAN
  /\ errcode \in {"ok", "interrupt", "other"}
  /\ error \in {"none", "cannot open", "deadline"}

(* What was read are the first objects, each cut short; one query of one of *)
(* them at a time.                                                          *)
Readings ==
  /\ objects \in Seq(ReadObject)
  /\ Len(objects) <= Len(database) /\ Len(objects) <= MaxObjects
  /\ query \in InObject => objects # <<>>
  /\ \A i \in 1..Len(objects) : CutOf(objects[i], database[i]) /\ Bounded(objects[i])

(* What the samples do not use is left of the budget.                        *)
Budgeted == remaining \in Nat /\ SampleBytes(objects) + remaining = MaxBytes

(* Candidates come last, with the confidence of what was read.              *)
Proposals ==
  /\ schema_candidates \subseteq [table : 1..Len(objects), confidence : 1..3,
                                  timestamp : Nat, range : {"unread", "read", "skipped"}]
  /\ \A c \in schema_candidates : c.confidence = candidate_confidence(objects[c.table])
  /\ query \notin {"ranges", "done"} => schema_candidates = {}

(* The inductive invariant of the inspection.                                *)
Inspecting == Status /\ Readings /\ Budgeted /\ Proposals

(* What is known of every database.                                          *)
LEMMA DatabaseType ==
  ASSUME database \in Databases
  PROVE  /\ database \in Seq(StoredObject) /\ Len(database) \in Nat
         /\ \A i \in 1..Len(database) : database[i] \in StoredObject
<1>1. database \in Seq(StoredObject)
  BY DatabaseAssumption
<1>. QED
  BY <1>1, Members

(* The inspection starts with nothing read.                                  *)
LEMMA InitInspecting == InspectInit => Inspecting
<1>. SUFFICES ASSUME InspectInit PROVE Inspecting
  OBVIOUS
<1>. USE DEF InspectInit
<1>1. Status
  BY DEF Status
<1>2. objects \in Seq(ReadObject) /\ Len(objects) = 0
  OBVIOUS
<1>3. Readings
  BY <1>2, DatabaseType, LimitAssumption DEF Readings, InObject
<1>4. SampleBytes(objects) = 0
  <2>1. PICK sum : Running(sum, 0, [i \in 1..0 |-> RowBytes(objects[i])])
                   /\ SampleBytes(objects) = sum[0]
    BY <1>2, SampleBytesType, ObjectsRun
  <2>. QED
    BY <2>1 DEF Running
<1>5. Budgeted
  BY <1>4, LimitAssumption DEF Budgeted
<1>6. Proposals
  BY DEF Proposals
<1>. QED
  BY <1>1, <1>3, <1>5, <1>6 DEF Inspecting

(* Without an object read, a byte spent or a candidate, nothing is disturbed.*)
LEMMA NothingRead ==
  ASSUME Inspecting, UNCHANGED <<database, objects, remaining, schema_candidates>>,
         Status', query' \in InObject => objects # <<>>,
         query' \notin {"ranges", "done"} => schema_candidates = {}
  PROVE  Inspecting'
<1>1. Readings' /\ Budgeted' /\ Proposals'
  BY DEF Inspecting, Readings, Budgeted, Proposals
<1>. QED
  BY <1>1 DEF Inspecting

(* The current object is replaced by another cut of the same source.        *)
LEMMA ObjectReplaced ==
  ASSUME Inspecting, query \in InObject, query' \in InObject \cup {"objects"},
         NEW o \in ReadObject, CutOf(o, Source), Bounded(o), Reads(o), Status',
         UNCHANGED <<database, schema_candidates>>,
         NEW d \in Nat, RowBytes(o) = RowBytes(objects[Current]) + d,
         d <= remaining, remaining' = remaining - d
  PROVE  Inspecting'
<1>1. /\ objects \in Seq(ReadObject) /\ objects # <<>> /\ Current = Len(objects)
      /\ Len(objects) \in Nat \ {0}
  BY DEF Inspecting, Readings, Current
<1>2. objects' = [objects EXCEPT ![Len(objects)] = o]
  BY <1>1 DEF Reads
<1>3. /\ objects' \in Seq(ReadObject) /\ Len(objects') = Len(objects) /\ objects' # <<>>
      /\ objects'[Len(objects)] = o
      /\ \A i \in 1..Len(objects) : i # Len(objects) => objects'[i] = objects[i]
  BY <1>1, <1>2
<1>4. Readings'
  <2>1. ASSUME NEW i \in 1..Len(objects')
        PROVE  CutOf(objects'[i], database[i]) /\ Bounded(objects'[i])
    <3>1. CASE i = Len(objects)
      BY <1>1, <1>3, <3>1 DEF Source
    <3>2. CASE i # Len(objects)
      BY <1>3, <3>2 DEF Inspecting, Readings
    <3>. QED
      BY <3>1, <3>2
  <2>. QED
    BY <1>3, <2>1 DEF Inspecting, Readings
<1>5. Budgeted'
  <2>1. SampleBytes(objects') = SampleBytes(objects) + d
    BY <1>1, <1>2, LastObject
  <2>2. SampleBytes(objects) \in Nat
    BY <1>1, SampleBytesType
  <2>. QED
    BY <2>1, <2>2 DEF Inspecting, Budgeted
<1>6. Proposals'
  <2>1. query # "ranges" /\ query # "done" /\ query' # "ranges" /\ query' # "done"
    BY DEF InObject
  <2>. QED
    BY <2>1 DEF Inspecting, Proposals
<1>. QED
  BY <1>4, <1>5, <1>6 DEF Inspecting

(* An object before anything of it is read.                                 *)
LEMMA EmptyObject ==
  ASSUME NEW x \in {"table", "view"}
  PROVE  LET o == [NoObject EXCEPT !.type = x]
         IN /\ o \in ReadObject /\ o.type = x
            /\ o.columns = <<>> /\ o.indexes = {} /\ o.foreign = {} /\ o.samples = <<>>
<1>1. /\ NoObject.columns = <<>> /\ NoObject.indexes = {} /\ NoObject.foreign = {}
      /\ NoObject.samples = <<>>
  BY DEF NoObject
<1>2. NoObject \in ReadObject
  <2>1. <<>> \in Seq(StoredColumn) /\ <<>> \in Seq(Seq(KeptCell))
    OBVIOUS
  <2>. QED
    BY <2>1 DEF NoObject, ReadObject
<1>. DEFINE o == [NoObject EXCEPT !.type = x]
<1>3. o \in ReadObject /\ o.type = x /\ o.columns = NoObject.columns
  BY <1>2 DEF ReadObject
<1>4. /\ o.indexes = NoObject.indexes /\ o.foreign = NoObject.foreign
      /\ o.samples = NoObject.samples
  BY <1>2 DEF ReadObject
<1>. QED
  BY <1>1, <1>3, <1>4

(* A new object starts empty, with the type of its source.                   *)
LEMMA NextObjectKeeps == Inspecting /\ NextObject => Inspecting'
<1>. SUFFICES ASSUME Inspecting, NextObject PROVE Inspecting'
  OBVIOUS
<1>1. /\ query = "objects"
      /\ UNCHANGED <<database, overdue, schema_candidates, error, remaining>>
      /\ Len(objects) \in Nat /\ Len(database) \in Nat /\ objects \in Seq(ReadObject)
      /\ Len(objects) <= Len(database) /\ Len(objects) <= MaxObjects
  BY DatabaseType, Members DEF NextObject, Rest, Inspecting, Readings, Status
<1>2. Status'
  BY <1>1 DEF NextObject, Inspecting, Status, Completes, Breaks, Interrupted
<1>3. CASE UNCHANGED objects
  BY <1>1, <1>2, <1>3, NothingRead DEF NextObject, InObject, Inspecting, Proposals
<1>4. CASE ~UNCHANGED objects
  <2>. DEFINE o == [NoObject EXCEPT !.type = database[Current + 1].type]
              t == database[Len(objects) + 1]
  <2>1. /\ Current = Len(objects) /\ Current < Least(MaxObjects, Len(database))
        /\ objects' = Append(objects, o) /\ query' = "columns"
    BY <1>4 DEF NextObject, Current
  <2>2. Len(objects) + 1 \in 1..Len(database) /\ Len(objects) + 1 <= MaxObjects
    BY <1>1, <2>1, LimitAssumption DEF Least
  <2>3. t \in StoredObject
    BY <2>2, DatabaseType DEF Inspecting, Status
  <2>. HIDE DEF t
  <2>4. t.type \in {"table", "view"} /\ o = [NoObject EXCEPT !.type = t.type]
    BY <2>1, <2>3 DEF StoredObject, t
  <2>. HIDE DEF o
  <2>5. /\ o \in ReadObject /\ o.type = t.type /\ o.columns = <<>> /\ o.indexes = {}
        /\ o.foreign = {} /\ o.samples = <<>>
    BY <2>4, EmptyObject, Zenon
  <2>6. CutOf(o, t) /\ Bounded(o)
    <3>1. Len(t.columns) \in Nat /\ Len(t.rows) \in Nat
      BY <2>3, Members DEF StoredObject
    <3>2. Cardinality({}) = 0
      BY FS_EmptySet
    <3>. QED
      BY <2>5, <3>1, <3>2, LimitAssumption DEF CutOf, Bounded, Begins
  <2>7. /\ objects' \in Seq(ReadObject) /\ Len(objects') = Len(objects) + 1
        /\ \A i \in 1..Len(objects) : objects'[i] = objects[i]
        /\ objects'[Len(objects) + 1] = o
    BY <1>1, <2>1, <2>5, PushBack
  <2>8. Readings'
    <3>1. ASSUME NEW i \in 1..Len(objects')
          PROVE  CutOf(objects'[i], database[i]) /\ Bounded(objects'[i])
      <4>1. CASE i = Len(objects) + 1
        BY <2>6, <2>7, <4>1 DEF t
      <4>2. CASE i # Len(objects) + 1
        <5>1. i \in 1..Len(objects)
          BY <1>1, <2>7, <4>2
        <5>. QED
          BY <2>7, <5>1 DEF Inspecting, Readings
      <4>. QED
        BY <4>1, <4>2
    <3>2. objects' # <<>>
      BY <1>1, <2>7
    <3>3. Len(objects') <= Len(database) /\ Len(objects') <= MaxObjects
      BY <1>1, <2>2, <2>7
    <3>. QED
      BY <1>1, <2>7, <3>1, <3>2, <3>3 DEF Readings
  <2>9. Budgeted'
    <3>1. SampleBytes(objects') = SampleBytes(objects)
      BY <1>1, <2>1, <2>5, ObjectMore
    <3>. QED
      BY <1>1, <3>1 DEF Inspecting, Budgeted
  <2>10. Proposals'
    BY <1>1, <2>1 DEF Inspecting, Proposals
  <2>. QED
    BY <1>2, <2>8, <2>9, <2>10 DEF Inspecting
<1>. QED
  BY <1>3, <1>4

(* The object that is read, its source, and how a cut of it is written back.*)
LEMMA CurrentObject ==
  ASSUME Inspecting, query \in InObject
  PROVE  /\ Current \in 1..Len(objects) /\ Current = Len(objects)
         /\ objects[Current] \in ReadObject /\ Source \in StoredObject
         /\ CutOf(objects[Current], Source) /\ Bounded(objects[Current])
         /\ remaining \in Nat
<1>1. /\ objects \in Seq(ReadObject) /\ objects # <<>>
      /\ Len(objects) <= Len(database) /\ Len(database) \in Nat
  BY DatabaseType DEF Inspecting, Readings, Status
<1>2. Len(objects) \in 1..Len(objects) /\ Len(objects) \in 1..Len(database)
  BY <1>1
<1>. QED
  BY <1>1, <1>2, Members, DatabaseType
     DEF Current, Source, Inspecting, Readings, Status, Budgeted

(* The first elements of a sequence.                                         *)
LEMMA FirstOf ==
  ASSUME NEW T, NEW s \in Seq(T), NEW n \in Nat
  PROVE  /\ First(s, n) \in Seq(T) /\ Begins(First(s, n), s)
         /\ Len(First(s, n)) <= n
<1>. DEFINE m == Least(n, Len(s))
<1>1. m \in 0..Len(s) /\ m <= n
  BY DEF Least
<1>. HIDE DEF m
<1>2. First(s, n) = SubSeq(s, 1, m)
  BY DEF First, m
<1>3. /\ SubSeq(s, 1, m) \in Seq(T) /\ Len(SubSeq(s, 1, m)) = m
      /\ \A i \in 1..m : SubSeq(s, 1, m)[i] = s[i]
  BY <1>1
<1>. QED
  BY <1>1, <1>2, <1>3 DEF Begins

(* A cut that leaves the samples alone.                                     *)
LEMMA ObjectRead ==
  ASSUME Inspecting, query \in InObject, query' \in InObject \cup {"objects"},
         NEW o \in ReadObject, CutOf(o, Source), Bounded(o), Reads(o), Status',
         UNCHANGED <<database, schema_candidates, remaining>>,
         o.samples = objects[Current].samples
  PROVE  Inspecting'
<1>1. RowBytes(o) = RowBytes(objects[Current])
  BY DEF RowBytes
<1>2. RowBytes(o) \in Nat
  BY RowBytesType DEF ReadObject
<1>3. remaining \in Nat
  BY CurrentObject
<1>4. /\ 0 \in Nat /\ RowBytes(o) = RowBytes(objects[Current]) + 0 /\ 0 <= remaining
      /\ remaining' = remaining - 0
  BY <1>1, <1>2, <1>3
<1>. QED
  BY <1>4, ObjectReplaced

(* A loop takes no more than its limit.                                     *)
LEMMA EndsWithin ==
  ASSUME NEW n, NEW len, NEW most \in Nat, n \in 0..len, EndsAfter(n, len, most)
  PROVE  n \in Nat /\ n <= most /\ errcode' \in {"ok", "interrupt", "other"}
BY DEF EndsAfter, Completes, Breaks, Interrupted

(* The columns read are the first of the table's.                            *)
LEMMA ReadColumnsKeeps == Inspecting /\ ReadColumns => Inspecting'
<1>. SUFFICES ASSUME Inspecting, ReadColumns PROVE Inspecting'
  OBVIOUS
<1>1. /\ query = "columns" /\ query' \in {"indexes", "objects"}
      /\ UNCHANGED <<database, overdue, schema_candidates, error, remaining>>
  BY DEF ReadColumns, Rest
<1>2. query \in InObject
  BY <1>1 DEF InObject
<1>3. /\ objects[Current] \in ReadObject /\ Source \in StoredObject
      /\ CutOf(objects[Current], Source) /\ Bounded(objects[Current]) /\ remaining \in Nat
  BY <1>2, CurrentObject
<1>4. PICK n \in 0..Len(Source.columns) :
        /\ EndsAfter(n, Len(Source.columns), MaxColumns)
        /\ Reads([objects[Current] EXCEPT !.columns = First(Source.columns, n)])
  BY DEF ReadColumns
<1>. DEFINE o == [objects[Current] EXCEPT !.columns = First(Source.columns, n)]
<1>5. n \in Nat /\ n <= MaxColumns /\ errcode' \in {"ok", "interrupt", "other"}
  BY <1>4, EndsWithin, LimitAssumption
<1>6. /\ First(Source.columns, n) \in Seq(StoredColumn)
      /\ Begins(First(Source.columns, n), Source.columns)
      /\ Len(First(Source.columns, n)) <= n
  BY <1>3, <1>5, FirstOf DEF StoredObject
<1>7. /\ o \in ReadObject /\ o.type = objects[Current].type
      /\ o.columns = First(Source.columns, n)
      /\ o.indexes = objects[Current].indexes /\ o.foreign = objects[Current].foreign
      /\ o.samples = objects[Current].samples
  BY <1>3, <1>6 DEF ReadObject
<1>. HIDE DEF o
<1>8. CutOf(o, Source)
  BY <1>3, <1>6, <1>7 DEF CutOf
<1>9. Bounded(o)
  <2>1. Len(First(Source.columns, n)) \in Nat
    BY <1>6
  <2>2. Len(First(Source.columns, n)) <= MaxColumns
    BY <1>5, <1>6, <2>1, LimitAssumption
  <2>. QED
    BY <1>3, <1>7, <2>2 DEF Bounded
<1>10. Status'
  BY <1>1, <1>5 DEF Inspecting, Status
<1>11. query' \in InObject \cup {"objects"} /\ Reads(o)
  BY <1>1, <1>4 DEF InObject, o
<1>. QED
  BY <1>1, <1>2, <1>7, <1>8, <1>9, <1>10, <1>11, ObjectRead

(* As many values as indices at most.                                       *)
LEMMA ValuesBelow ==
  ASSUME NEW n \in Nat, NEW f, DOMAIN f = 1..n, NEW S, S = {f[i] : i \in 1..n}
  PROVE  Cardinality(S) \in Nat /\ Cardinality(S) <= n
<1>. DEFINE g == [i \in 1..n |-> f[i]]
<1>1. g \in Surjection(1..n, S)
  BY DEF Surjection
<1>2. IsFiniteSet(1..n) /\ Cardinality(1..n) = n
  BY FS_Interval
<1>. HIDE DEF g
<1>. QED
  BY <1>1, <1>2, FS_Surjection, FS_CardinalityType

(* The indexes read are some of the table's, each cut short.                 *)
LEMMA ReadIndexesKeeps == Inspecting /\ ReadIndexes => Inspecting'
<1>. SUFFICES ASSUME Inspecting, ReadIndexes PROVE Inspecting'
  OBVIOUS
<1>1. /\ query = "indexes" /\ query' = "keys"
      /\ UNCHANGED <<database, overdue, schema_candidates, error, remaining>>
  BY DEF ReadIndexes, Rest
<1>2. query \in InObject
  BY <1>1 DEF InObject
<1>3. /\ objects[Current] \in ReadObject /\ Source \in StoredObject
      /\ CutOf(objects[Current], Source) /\ Bounded(objects[Current]) /\ remaining \in Nat
  BY <1>2, CurrentObject
<1>4. PICK n \in 0..Len(Source.indexes) : \E most \in [1..n -> 0..MaxColumns] :
        /\ EndsAfter(n, Len(Source.indexes), MaxIndexes)
        /\ Reads([objects[Current] EXCEPT
                    !.indexes = {First(Source.indexes[i], most[i]) : i \in 1..n}])
  BY DEF ReadIndexes
<1>0. PICK most \in [1..n -> 0..MaxColumns] :
        /\ EndsAfter(n, Len(Source.indexes), MaxIndexes)
        /\ Reads([objects[Current] EXCEPT
                    !.indexes = {First(Source.indexes[i], most[i]) : i \in 1..n}])
  BY <1>4
<1>. DEFINE f == [i \in 1..n |-> First(Source.indexes[i], most[i])]
            S == {f[i] : i \in 1..n}
            o == [objects[Current] EXCEPT !.indexes = S]
<1>5. n \in Nat /\ n <= MaxIndexes /\ errcode' \in {"ok", "interrupt", "other"}
  BY <1>0, EndsWithin, LimitAssumption
<1>6. /\ Len(Source.indexes) \in Nat
      /\ \A i \in 1..Len(Source.indexes) : Source.indexes[i] \in Seq(Nat)
  <2>1. Source.indexes \in Seq(Seq(Nat))
    BY <1>3 DEF StoredObject
  <2>. QED
    BY <2>1, Members
<1>7. \A i \in 1..n : /\ i \in 1..Len(Source.indexes)
                      /\ f[i] \in Seq(Nat) /\ Begins(f[i], Source.indexes[i])
                      /\ Len(f[i]) <= MaxColumns
  <2>1. ASSUME NEW i \in 1..n
        PROVE  /\ i \in 1..Len(Source.indexes)
               /\ f[i] \in Seq(Nat) /\ Begins(f[i], Source.indexes[i])
               /\ Len(f[i]) <= MaxColumns
    <3>1. i \in 1..Len(Source.indexes) /\ f[i] = First(Source.indexes[i], most[i])
      BY <1>4, <1>5, <1>6
    <3>2. most[i] \in Nat /\ most[i] <= MaxColumns
      BY <1>0, LimitAssumption
    <3>3. /\ f[i] \in Seq(Nat) /\ Begins(f[i], Source.indexes[i])
          /\ Len(f[i]) <= most[i]
      BY <1>6, <3>1, <3>2, FirstOf
    <3>4. Len(f[i]) \in Nat
      BY <3>3
    <3>. HIDE DEF f
    <3>. QED
      BY <3>1, <3>2, <3>3, <3>4, LimitAssumption
  <2>. QED
    BY <2>1
<1>8. Reads(o)
  <2>1. S = {First(Source.indexes[i], most[i]) : i \in 1..n}
    OBVIOUS
  <2>. HIDE DEF S
  <2>. QED
    BY <1>0, <2>1
<1>9. Cardinality(S) <= MaxIndexes
  <2>1. DOMAIN f = 1..n
    OBVIOUS
  <2>. HIDE DEF f
  <2>2. Cardinality(S) \in Nat /\ Cardinality(S) <= n
    BY <1>5, <2>1, ValuesBelow
  <2>. QED
    BY <1>5, <2>2, LimitAssumption
<1>10. /\ S \subseteq Seq(Nat)
       /\ \A ix \in S : \E i \in 1..Len(Source.indexes) :
                                  Begins(ix, Source.indexes[i])
       /\ \A ix \in S : Len(ix) <= MaxColumns
  BY <1>7
<1>. HIDE DEF S
<1>11. /\ o \in ReadObject /\ o.type = objects[Current].type
       /\ o.columns = objects[Current].columns
       /\ o.indexes = S /\ o.foreign = objects[Current].foreign
       /\ o.samples = objects[Current].samples
  BY <1>3, <1>10 DEF ReadObject
<1>. HIDE DEF o
<1>12. CutOf(o, Source) /\ Bounded(o)
  <2>1. CutOf(o, Source)
    BY <1>3, <1>10, <1>11 DEF CutOf
  <2>2. Bounded(o)
    BY <1>3, <1>9, <1>10, <1>11 DEF Bounded
  <2>. QED
    BY <2>1, <2>2
<1>13. Status'
  BY <1>1, <1>5 DEF Inspecting, Status
<1>14. query' \in InObject \cup {"objects"}
  BY <1>1 DEF InObject
<1>. QED
  BY <1>1, <1>2, <1>8, <1>11, <1>12, <1>13, <1>14, ObjectRead

(* The foreign keys read are some of the table's.                            *)
LEMMA ReadForeignKeysKeeps == Inspecting /\ ReadForeignKeys => Inspecting'
<1>. SUFFICES ASSUME Inspecting, ReadForeignKeys PROVE Inspecting'
  OBVIOUS
<1>1. /\ query = "keys" /\ query' = "count"
      /\ UNCHANGED <<database, overdue, schema_candidates, error, remaining>>
  BY DEF ReadForeignKeys, Rest
<1>2. query \in InObject
  BY <1>1 DEF InObject
<1>3. /\ objects[Current] \in ReadObject /\ Source \in StoredObject
      /\ CutOf(objects[Current], Source) /\ Bounded(objects[Current]) /\ remaining \in Nat
  BY <1>2, CurrentObject
<1>4. PICK n \in 0..Len(Source.foreign) :
        /\ EndsAfter(n, Len(Source.foreign), MaxForeign)
        /\ Reads([objects[Current] EXCEPT !.foreign = {Source.foreign[i] : i \in 1..n}])
  BY DEF ReadForeignKeys
<1>. DEFINE S == {Source.foreign[i] : i \in 1..n}
            o == [objects[Current] EXCEPT !.foreign = S]
<1>5. n \in Nat /\ n <= MaxForeign /\ errcode' \in {"ok", "interrupt", "other"}
  BY <1>4, EndsWithin, LimitAssumption
<1>6. /\ Len(Source.foreign) \in Nat
      /\ \A i \in 1..Len(Source.foreign) : Source.foreign[i] \in Nat
  <2>1. Source.foreign \in Seq(Nat)
    BY <1>3 DEF StoredObject
  <2>. QED
    BY <2>1, Members
<1>7. /\ S \subseteq Nat
      /\ \A key \in S : \E i \in 1..Len(Source.foreign) : key = Source.foreign[i]
  <2>1. \A i \in 1..n : i \in 1..Len(Source.foreign)
    BY <1>4, <1>6
  <2>. QED
    BY <1>6, <2>1
<1>8. Reads(o)
  BY <1>4
<1>13. Cardinality(S) <= MaxForeign
  <2>. DEFINE f == [i \in 1..n |-> Source.foreign[i]]
  <2>1. DOMAIN f = 1..n /\ S = {f[i] : i \in 1..n}
    OBVIOUS
  <2>. HIDE DEF f, S
  <2>2. Cardinality(S) \in Nat /\ Cardinality(S) <= n
    BY <1>5, <2>1, ValuesBelow
  <2>. QED
    BY <1>5, <2>2, LimitAssumption
<1>. HIDE DEF S
<1>9. /\ o \in ReadObject /\ o.type = objects[Current].type
      /\ o.columns = objects[Current].columns
      /\ o.indexes = objects[Current].indexes /\ o.foreign = S
      /\ o.samples = objects[Current].samples
  BY <1>3, <1>7 DEF ReadObject
<1>. HIDE DEF o
<1>10. CutOf(o, Source) /\ Bounded(o)
  <2>1. CutOf(o, Source)
    BY <1>3, <1>7, <1>9 DEF CutOf
  <2>2. Bounded(o)
    BY <1>3, <1>9, <1>13 DEF Bounded
  <2>. QED
    BY <2>1, <2>2
<1>11. Status'
  BY <1>1, <1>5 DEF Inspecting, Status
<1>12. query' \in InObject \cup {"objects"}
  BY <1>1 DEF InObject
<1>. QED
  BY <1>1, <1>2, <1>8, <1>9, <1>10, <1>11, <1>12, ObjectRead

(* A row: its cells are paid for out of what the rows before it have left.  *)
LEMMA ReadRowKeeps == Inspecting /\ ReadRow => Inspecting'
<1>. SUFFICES ASSUME Inspecting, ReadRow PROVE Inspecting'
  OBVIOUS
<1>1. /\ query = "samples" /\ query \in InObject
      /\ UNCHANGED <<database, overdue, schema_candidates, error>>
  BY DEF ReadRow, Rest, InObject
<1>2. /\ objects[Current] \in ReadObject /\ Source \in StoredObject
      /\ CutOf(objects[Current], Source) /\ Bounded(objects[Current]) /\ remaining \in Nat
  BY <1>1, CurrentObject
<1>. DEFINE n == Len(objects[Current].samples)
            cells == Cells(Source.rows[n + 1], remaining)
            o == [objects[Current] EXCEPT !.samples = Append(@, cells)]
<1>3. CASE /\ n < MaxRows /\ remaining > 0 /\ n < Len(Source.rows) /\ Completes
           /\ Reads(o) /\ remaining' = remaining - Bytes(cells) /\ UNCHANGED query
  <2>1. /\ objects[Current].samples \in Seq(Seq(KeptCell)) /\ n \in Nat
        /\ Len(Source.rows) \in Nat
        /\ Source.rows[n + 1] \in Seq(StoredCell)
    <3>1. /\ objects[Current].samples \in Seq(Seq(KeptCell))
          /\ Source.rows \in Seq(Seq(StoredCell))
      BY <1>2 DEF ReadObject, StoredObject
    <3>2. n \in Nat /\ Len(Source.rows) \in Nat
      BY <3>1, Members
    <3>3. n + 1 \in 1..Len(Source.rows)
      BY <1>3, <3>2
    <3>. QED
      BY <3>1, <3>2, <3>3, Members
  <2>2. /\ cells \in Seq(KeptCell) /\ Shows(cells, Source.rows[n + 1])
        /\ Len(cells) <= MaxColumns /\ Bytes(cells) \in Nat /\ Bytes(cells) <= remaining
    BY <1>2, <2>1, CellsOfRow DEF Shows
  <2>. HIDE DEF cells
  <2>3. /\ o \in ReadObject /\ o.type = objects[Current].type
        /\ o.columns = objects[Current].columns
        /\ o.indexes = objects[Current].indexes /\ o.foreign = objects[Current].foreign
        /\ o.samples = Append(objects[Current].samples, cells)
    <3>1. Append(objects[Current].samples, cells) \in Seq(Seq(KeptCell))
      BY <2>1, <2>2, PushBack
    <3>. QED
      BY <1>2, <3>1 DEF ReadObject
  <2>. HIDE DEF o
  <2>4. /\ Len(o.samples) = n + 1 /\ o.samples[n + 1] = cells
        /\ \A r \in 1..n : o.samples[r] = objects[Current].samples[r]
    BY <2>1, <2>2, <2>3, PushBack
  <2>. HIDE DEF n
  <2>5. CutOf(o, Source)
    <3>1. n + 1 <= Len(Source.rows)
      BY <1>3, <2>1
    <3>2. ASSUME NEW r \in 1..(n + 1) PROVE Shows(o.samples[r], Source.rows[r])
      <4>1. CASE r = n + 1
        BY <2>2, <2>4, <4>1
      <4>2. CASE r # n + 1
        <5>1. r \in 1..n
          BY <2>1, <4>2
        <5>. QED
          BY <1>2, <2>4, <5>1 DEF CutOf, n
      <4>. QED
        BY <4>1, <4>2
    <3>. QED
      BY <1>2, <2>3, <2>4, <3>1, <3>2 DEF CutOf
  <2>6. Bounded(o)
    <3>1. n + 1 <= MaxRows
      BY <1>3, <2>1, LimitAssumption
    <3>2. ASSUME NEW r \in 1..(n + 1) PROVE Len(o.samples[r]) <= MaxColumns
      <4>1. CASE r = n + 1
        BY <2>2, <2>4, <4>1
      <4>2. CASE r # n + 1
        <5>1. r \in 1..n
          BY <2>1, <4>2
        <5>. QED
          BY <1>2, <2>4, <5>1 DEF Bounded, n
      <4>. QED
        BY <4>1, <4>2
    <3>. QED
      BY <1>2, <2>3, <2>4, <3>1, <3>2 DEF Bounded
  <2>7. RowBytes(o) = RowBytes(objects[Current]) + Bytes(cells)
    BY <2>1, <2>2, <2>3, RowMore
  <2>8. Status'
    BY <1>1, <1>3 DEF Inspecting, Status, Completes
  <2>9. query' \in InObject \cup {"objects"}
    BY <1>1, <1>3
  <2>. QED
    BY <1>1, <1>3, <2>2, <2>3, <2>5, <2>6, <2>7, <2>8, <2>9, ObjectReplaced
<1>4. CASE /\ UNCHANGED <<objects, remaining>> /\ query' = "objects"
           /\ errcode' \in {"ok", "interrupt", "other"}
  <2>1. Status'
    BY <1>1, <1>4 DEF Inspecting, Status
  <2>2. query' \notin InObject /\ schema_candidates = {}
    BY <1>1, <1>4 DEF Inspecting, Proposals, InObject
  <2>. QED
    BY <1>1, <1>4, <2>1, <2>2, NothingRead
<1>5. errcode \in {"ok", "interrupt", "other"}
  BY DEF Inspecting, Status
<1>. QED
  BY <1>3, <1>4, <1>5 DEF ReadRow, Completes, Breaks, Interrupted

(* Every object of which the analyzer is sure enough becomes a candidate.   *)
LEMMA AnalyzeKeeps == Inspecting /\ Analyze => Inspecting'
<1>. SUFFICES ASSUME Inspecting, Analyze PROVE Inspecting'
  OBVIOUS
<1>1. /\ query = "analyze" /\ query' \in {"thrown", "ranges"}
      /\ UNCHANGED <<database, overdue, errcode, objects, remaining, error>>
      /\ schema_candidates = {}
  BY DEF Analyze, Inspecting, Proposals
<1>2. Status' /\ Readings' /\ Budgeted'
  BY <1>1 DEF Inspecting, Status, Readings, Budgeted, InObject
<1>3. CASE query' = "thrown" /\ UNCHANGED schema_candidates
  BY <1>1, <1>2, <1>3 DEF Inspecting, Proposals
<1>4. CASE /\ schema_candidates' = {c \in {Candidate(i) : i \in 1..Len(objects)} :
                                       c.confidence > 0}
           /\ query' = "ranges"
  <2>1. ASSUME NEW i \in 1..Len(objects), Candidate(i).confidence > 0
        PROVE  /\ Candidate(i) \in [table : 1..Len(objects), confidence : 1..3,
                                    timestamp : Nat, range : {"unread", "read", "skipped"}]
               /\ Candidate(i).confidence
                    = candidate_confidence(objects[Candidate(i).table])
    <3>1. objects[i] \in ReadObject
      BY Members DEF Inspecting, Readings
    <3>2. /\ objects[i].columns \in Seq(StoredColumn)
          /\ objects[i].samples \in Seq(Seq(KeptCell))
      BY <3>1 DEF ReadObject
    <3>3. Len(objects[i].columns) \in Nat /\ Len(objects[i].samples) \in Nat
      BY <3>2, Members
    <3>4. candidate_confidence(objects[i]) \in 0..3
      BY <3>3, ConfidenceType
    <3>5. best_column(objects[i], "timestamp") \in Nat
      <4>1. best_column(objects[i], "timestamp") \in 0..Len(objects[i].columns)
        BY <3>3, BestColumnIs DEF Roles
      <4>2. \A k \in 0..Len(objects[i].columns) : k \in Nat
        BY <3>3
      <4>. QED
        BY <4>1, <4>2, Zenon
    <3>6. candidate_confidence(objects[i]) \in 1..3
      BY <2>1, <3>4 DEF Candidate
    <3>. QED
      BY <3>5, <3>6 DEF Candidate
  <2>2. Proposals'
    <3>1. ASSUME NEW c \in schema_candidates'
          PROVE  /\ c \in [table : 1..Len(objects), confidence : 1..3,
                           timestamp : Nat, range : {"unread", "read", "skipped"}]
                 /\ c.confidence = candidate_confidence(objects[c.table])
      <4>1. PICK i \in 1..Len(objects) : c = Candidate(i) /\ Candidate(i).confidence > 0
        BY <1>4
      <4>. QED
        BY <2>1, <4>1
    <3>. QED
      BY <1>1, <1>4, <3>1 DEF Proposals
  <2>. QED
    BY <1>2, <2>2 DEF Inspecting
<1>. QED
  BY <1>3, <1>4 DEF Analyze

(* A range that was looked for changes no confidence.                       *)
LEMMA ReadRangeKeeps == Inspecting /\ ReadRange => Inspecting'
<1>. SUFFICES ASSUME Inspecting, ReadRange PROVE Inspecting'
  OBVIOUS
<1>1. /\ query = "ranges" /\ query' = query /\ errcode' \in {"ok", "interrupt", "other"}
      /\ UNCHANGED <<database, overdue, objects, remaining, error>>
  BY DEF ReadRange, Completes, Breaks, Interrupted, Inspecting, Status
<1>2. Status' /\ Readings' /\ Budgeted'
  BY <1>1 DEF Inspecting, Status, Readings, Budgeted, InObject
<1>3. PICK c \in schema_candidates, r \in {"read", "skipped"} :
        schema_candidates' = (schema_candidates \ {c}) \cup {[c EXCEPT !.range = r]}
  BY DEF ReadRange
<1>. DEFINE d == [c EXCEPT !.range = r]
<1>4. /\ d \in [table : 1..Len(objects), confidence : 1..3, timestamp : Nat,
                range : {"unread", "read", "skipped"}]
      /\ d.table = c.table /\ d.confidence = c.confidence
  BY DEF Inspecting, Proposals
<1>. HIDE DEF d
<1>5. Proposals'
  BY <1>1, <1>3, <1>4 DEF Inspecting, Proposals, d
<1>. QED
  BY <1>2, <1>5 DEF Inspecting

(* Every step of the inspection keeps it so.                                 *)
THEOREM NextInspecting == Inspecting /\ [InspectNext]_inspectVars => Inspecting'
<1>. SUFFICES ASSUME Inspecting, [InspectNext]_inspectVars PROVE Inspecting'
  OBVIOUS
<1>1. CASE Expire
  <2>1. UNCHANGED <<database, objects, remaining, schema_candidates, query>> /\ Status'
    BY <1>1 DEF Expire, Inspecting, Status
  <2>. QED
    BY <2>1, NothingRead DEF Inspecting, Readings, Proposals
<1>2. CASE Open
  <2>1. /\ UNCHANGED <<database, objects, remaining, schema_candidates>> /\ Status'
        /\ query' \notin InObject /\ schema_candidates = {}
    BY <1>2 DEF Open, Inspecting, Status, InObject, Proposals
  <2>. QED
    BY <2>1, NothingRead
<1>3. CASE NextObject
  BY <1>3, NextObjectKeeps
<1>4. CASE ReadColumns
  BY <1>4, ReadColumnsKeeps
<1>5. CASE ReadIndexes
  BY <1>5, ReadIndexesKeeps
<1>6. CASE ReadForeignKeys
  BY <1>6, ReadForeignKeysKeeps
<1>7. CASE Count
  <2>1. /\ UNCHANGED <<database, objects, remaining, schema_candidates>> /\ Status'
        /\ query \in InObject /\ schema_candidates = {}
    BY <1>7 DEF Count, Rest, Inspecting, Status, InObject, Proposals, Completes, Breaks, Interrupted
  <2>. QED
    BY <2>1, NothingRead DEF Inspecting, Readings
<1>8. CASE ReadRow
  BY <1>8, ReadRowKeeps
<1>9. CASE Analyze
  BY <1>9, AnalyzeKeeps
<1>10. CASE ReadRange
  BY <1>10, ReadRangeKeeps
<1>11. CASE Finish
  <2>1. /\ UNCHANGED <<database, objects, remaining, schema_candidates>> /\ Status'
        /\ query' = "done" /\ query' \notin InObject
    BY <1>11 DEF Finish, Inspecting, Status, InObject
  <2>. QED
    BY <2>1, NothingRead
<1>12. CASE UNCHANGED inspectVars
  <2>1. UNCHANGED <<database, objects, remaining, schema_candidates, query>> /\ Status'
    BY <1>12 DEF inspectVars, Inspecting, Status
  <2>. QED
    BY <2>1, NothingRead DEF Inspecting, Readings, Proposals
<1>. QED
  BY <1>1, <1>2, <1>3, <1>4, <1>5, <1>6, <1>7, <1>8, <1>9, <1>10, <1>11, <1>12
     DEF InspectNext, Inspect

(* What was read is a cut of the file, within every limit and paid for.      *)
THEOREM SpecInspecting == InspectSpec => []Inspecting
BY InitInspecting, NextInspecting, PTL DEF InspectSpec

(* The report stays within every limit.                                     *)
THEOREM SpecWithinLimits == InspectSpec => []WithinLimits
<1>1. Inspecting => WithinLimits
  <2>. SUFFICES ASSUME Inspecting PROVE WithinLimits
    OBVIOUS
  <2>1. objects \in Seq(ReadObject) /\ SampleBytes(objects) \in Nat
    BY SampleBytesType DEF Inspecting, Readings
  <2>2. remaining \in 0..MaxBytes
    BY <2>1, LimitAssumption DEF Inspecting, Budgeted
  <2>3. Types
    BY <2>2 DEF Types, Inspecting, Status, Proposals
  <2>4. ASSUME NEW i \in 1..Len(objects)
        PROVE  /\ Bounded(objects[i])
               /\ \A r \in 1..Len(objects[i].samples) :
                    \A c \in 1..Len(objects[i].samples[r]) :
                      objects[i].samples[r][c].bytes <= MaxCell
    <3>0. objects[i] \in ReadObject
      BY <2>1, Members
    <3>1. objects[i].samples \in Seq(Seq(KeptCell))
      BY <3>0 DEF ReadObject
    <3>2. ASSUME NEW r \in 1..Len(objects[i].samples),
                 NEW c \in 1..Len(objects[i].samples[r])
          PROVE  objects[i].samples[r][c].bytes <= MaxCell
      <4>1. objects[i].samples[r] \in Seq(KeptCell)
        BY <3>1, Members
      <4>2. objects[i].samples[r][c] \in KeptCell
        BY <4>1, Members
      <4>. QED
        BY <4>2, LimitAssumption DEF KeptCell
    <3>. QED
      BY <3>2 DEF Inspecting, Readings
  <2>. QED
    BY <2>3, <2>4 DEF WithinLimits, Bounded, Inspecting, Readings, Budgeted
<1>. QED
  BY <1>1, SpecInspecting, PTL

(* The object of a candidate, and the table it was read of.                 *)
LEMMA CandidateObject ==
  ASSUME Inspecting, NEW c \in schema_candidates
  PROVE  /\ c.confidence = candidate_confidence(objects[c.table])
         /\ objects[c.table] \in ReadObject /\ database[c.table] \in StoredObject
         /\ CutOf(objects[c.table], database[c.table])
<1>1. c.table \in 1..Len(objects) /\ c.confidence = candidate_confidence(objects[c.table])
  BY DEF Inspecting, Proposals
<1>2. /\ objects \in Seq(ReadObject) /\ Len(objects) <= Len(database)
      /\ Len(database) \in Nat /\ Len(objects) \in Nat
  BY DatabaseType, Members DEF Inspecting, Readings, Status
<1>3. c.table \in 1..Len(database)
  BY <1>1, <1>2
<1>. QED
  BY <1>1, <1>2, <1>3, Members, DatabaseType DEF Inspecting, Readings, Status

(* Names that say nothing never make a candidate of High confidence.        *)
THEOREM SpecOpaqueNeverHigh == InspectSpec => []OpaqueNeverHigh
<1>1. Inspecting => OpaqueNeverHigh
  <2>. SUFFICES ASSUME Inspecting, NEW c \in schema_candidates, c.confidence = 3
                PROVE  ~Opaque(objects[c.table])
    BY DEF OpaqueNeverHigh
  <2>1. /\ objects[c.table].columns \in Seq(StoredColumn)
        /\ objects[c.table].samples \in Seq(Seq(KeptCell))
    BY CandidateObject DEF ReadObject
  <2>2. Len(objects[c.table].columns) \in Nat /\ Len(objects[c.table].samples) \in Nat
    BY <2>1, Members
  <2>. QED
    BY <2>2, CandidateObject, OpaqueIsUnsure
<1>. QED
  BY <1>1, SpecInspecting, PTL

(* No limit, budget or deadline makes the analyzer surer of a table.        *)
THEOREM SpecCutNeverRaises == InspectSpec => []CutNeverRaises
<1>1. Inspecting => CutNeverRaises
  <2>. SUFFICES ASSUME Inspecting, NEW c \in schema_candidates
                PROVE  c.confidence <= candidate_confidence(Whole(database[c.table]))
    BY DEF CutNeverRaises
  <2>1. NoMore(objects[c.table], Whole(database[c.table]))
    BY CandidateObject, CutShowsNoMore
  <2>. QED
    BY <2>1, CandidateObject, ConfidenceGrows, Zenon
<1>. QED
  BY <1>1, SpecInspecting, PTL
===============================================================================
