--------------------------- MODULE WorkspacesProofs ---------------------------
(***************************************************************************)
(* Proofs about Sessions, with the readers of Worktrees, and about         *)
(* ManagerConsole, for any directories, commands, registrations, requests  *)
(* and workspaces.                                                         *)
(*                                                                         *)
(* Sessions: Accounts says what each command knows of the sessions of its  *)
(* directory, and that one command at a time works on a directory that is  *)
(* not disturbed.  What the readers of worktrees say is a fact about every *)
(* disk; it is proved of their operators, and of the steps only that a     *)
(* disk stays one.  Belongs says of both registries, in memory and on      *)
(* file, that a session's workspace is registered or was cut in half;      *)
(* Looks says what a remote call knows between its last look and its read. *)
(*                                                                         *)
(* The console: Answered says what the operation under way was asked about *)
(* and what it was answered with; Refreshing ties the status read and its  *)
(* timer to that operation; Outstanding ties the attempt the console       *)
(* remembers to the receipts nobody has read.                              *)
(***************************************************************************)
EXTENDS Sessions, ManagerConsole, TLAPS, FiniteSetTheorems, SequenceTheorems

-----------------------------------------------------------------------------
(* Directories and disks. *)

\* Among finitely many directories one is deepest.
LEMMA DeepestExists ==
  ASSUME NEW d \in Dirs, NEW dirs \in SUBSET Around[d], dirs # {}
  PROVE  Deepest(dirs) \in dirs /\ \A e \in dirs : Depth(e) <= Depth(Deepest(dirs))
<1> DEFINE Above(e) == Depth(d) - Depth(e)
           heights  == {Above(e) : e \in dirs}
<1>1. \A e \in Around[d] : Depth(e) \in Nat /\ Depth(e) <= Depth(d)
  BY DirsAreNested, FS_CardinalityType, FS_Subset DEF Depth
<1>2. Depth(d) \in Nat
  BY <1>1, DirsAreNested
<1>3. heights \subseteq Nat /\ heights # {}
  BY <1>1, <1>2
<1>4. PICK h \in heights : \A k \in heights : ~ (<<k, h>> \in OpToRel(<, Nat))
  <2> HIDE DEF heights
  <2> QED BY <1>3, NatLessThanWellFounded, WFMin
<1>5. \A k \in heights : ~ (k < h)
  BY <1>3, <1>4 DEF OpToRel
<1>6. PICK e \in dirs : h = Above(e)
  OBVIOUS
<1>7. \A f \in dirs : Depth(f) <= Depth(e)
  BY <1>1, <1>2, <1>5, <1>6
<1> QED
  BY <1>7 DEF Deepest

\* What is around a directory is less deep than it is.
LEMMA DeepestAround ==
  ASSUME NEW d \in Dirs, NEW dirs \in SUBSET Around[d], d \in dirs
  PROVE  Deepest(dirs) = d
<1> DEFINE top == Deepest(dirs)
<1>1. top \in dirs /\ Depth(d) <= Depth(top)
  BY DeepestExists
<1>2. Around[top] \subseteq Around[d] /\ top \in Dirs /\ IsFiniteSet(Around[d])
  BY <1>1, DirsAreNested
<1>3. Cardinality(Around[top]) <= Cardinality(Around[d])
      /\ (Cardinality(Around[d]) = Cardinality(Around[top]) => Around[d] = Around[top])
  BY <1>2, FS_Subset
<1>4. Cardinality(Around[d]) \in Nat /\ Cardinality(Around[top]) \in Nat
  BY <1>2, FS_CardinalityType, DirsAreNested
<1>5. Around[d] = Around[top]
  BY <1>1, <1>3, <1>4 DEF Depth
<1> QED
  BY <1>1, <1>5, DirsAreNested

\* The repository that Git finds for a main root is that root.
LEMMA MainIsItself ==
  ASSUME NEW k, IsDisk(k), NEW m \in Dirs, k.at[m].kind = "main"
  PROVE  gitTopLevel(k, m) = m /\ gitCommonDirectory(k, m) = m
<1> DEFINE owned == {e \in Around[m] : k.at[e].kind \notin {"absent", "plain"}}
<1>1. m \in owned /\ Deepest(owned) = m
  BY DeepestAround, DirsAreNested
<1>2. k.at[m].via = "posix" /\ RepositoryOf(k, m) = m
  BY DEF IsDisk, Entries, RepositoryOf
<1>3. gitTopLevel(k, m) = m
  BY <1>1, <1>2, DirsAreNested DEF gitTopLevel, canonicalDirectory
<1> QED
  BY <1>2, <1>3, DirsAreNested DEF gitCommonDirectory

\* A directory and its record stay one to one whatever the user does.
LEMMA ChangesKeepDisks ==
  ASSUME NEW k, IsDisk(k), NEW n \in Changes(k)
  PROVE  IsDisk(n)
<1>1. ASSUME NEW repo \in Dirs, NEW d \in Dirs, NEW via \in Vias, n = WithWorktree(k, repo, d, via)
      PROVE  IsDisk(n)
  <2>1. Entry("linked", repo, via) \in Entries
    BY DEF Entry, Entries
  <2>2. n.at \in [Dirs -> Entries] /\ n.records \in [Dirs -> SUBSET [root : Dirs, via : Vias]]
    BY <1>1, <2>1 DEF WithWorktree, IsDisk
  <2>3. \A e \in Dirs : \A r, s \in n.records[e] : r.root = s.root => r = s
    BY <1>1 DEF WithWorktree, IsDisk
  <2> QED
    BY <1>1, <2>2, <2>3 DEF WithWorktree, IsDisk
<1>2. ASSUME NEW d \in Dirs, NEW kind \in {"plain", "main", "bare"}, n = WithDirectory(k, d, kind)
      PROVE  IsDisk(n)
  <2>1. Entry(kind, Nowhere, "posix") \in Entries
    BY DEF Entry, Entries
  <2> QED
    BY <1>2, <2>1 DEF WithDirectory, IsDisk
<1>3. ASSUME NEW d \in Dirs, NEW forget \in BOOLEAN, n = Deleted(k, d, forget)
      PROVE  IsDisk(n)
  <2>1. Absent \in Entries
    BY DEF Absent, Entry, Entries
  <2> QED
    BY <1>3, <2>1 DEF Deleted, IsDisk
<1> QED
  BY <1>1, <1>2, <1>3 DEF Changes

-----------------------------------------------------------------------------
(* The readers of worktrees. *)

\* The worktree that a record of a main root is found to be.
Worktree(k, m, r) == validateCandidate(k, r, m, TRUE)
Valid(k, m, r, w) ==
  /\ Worktree(k, m, r) = {w} /\ candidateRoot(k, r, TRUE)
  /\ w.id = worktreeIdFor(m, r.root) /\ w.root = r.root

\* What list_worktrees shows of a main root: what Git says of each of its records.
LEMMA DerivedFromRecords ==
  ASSUME NEW k, IsDisk(k), NEW m \in Dirs, NEW w \in derivedWorktrees(k, m)
  PROVE  /\ readInventory(k, m).main = m /\ readInventory(k, m).records = k.records[m]
         /\ \E r \in k.records[m] : Valid(k, m, r, w)
<1>1. readInventory(k, m).main = m
  BY DEF derivedWorktrees
<1>2. gitCommonDirectory(k, m) = m
  BY <1>1, DirsAreNested DEF readInventory, Inventory
<1>3. readInventory(k, m).records = k.records[m]
  BY <1>2, DirsAreNested DEF readInventory, Inventory
<1>4. PICK r \in k.records[m] : w \in Worktree(k, m, r)
  BY <1>1, <1>3 DEF derivedWorktrees, Worktree
<1>5. /\ candidateRoot(k, r, TRUE)
      /\ \/ Worktree(k, m, r) = {Candidate(m, r.root, FALSE)}
         \/ Worktree(k, m, r) = {Candidate(m, r.root, TRUE)}
  BY <1>4 DEF validateCandidate, Worktree
<1>6. Worktree(k, m, r) = {w} /\ (w = Candidate(m, r.root, FALSE) \/ w = Candidate(m, r.root, TRUE))
  BY <1>4, <1>5
<1>7. w.id = worktreeIdFor(m, r.root) /\ w.root = r.root
  BY <1>6 DEF Candidate
<1>8. Valid(k, m, r, w)
  BY <1>5, <1>6, <1>7 DEF Valid
<1> QED
  BY <1>1, <1>3, <1>8

\* An id that is shown resolves to the worktree that was shown with it, and tells it apart.
LEMMA IdsResolve ==
  ASSUME NEW k, IsDisk(k), NEW m \in Dirs, NEW w \in derivedWorktrees(k, m)
  PROVE  /\ resolveDerivedWorktree(k, m, w.id) = {w}
         /\ \A n \in Dirs : \A v \in derivedWorktrees(k, n) : v.id = w.id => n = m /\ v = w
<1>1. PICK r \in k.records[m] : Valid(k, m, r, w)
  BY DerivedFromRecords
<1>2. readInventory(k, m).main = m /\ readInventory(k, m).records = k.records[m]
  BY DerivedFromRecords
<1> DEFINE named == {q \in k.records[m] : candidateRoot(k, q, TRUE) /\ worktreeIdFor(m, q.root) = w.id}
<1>3. \A q \in named : q = r
  BY <1>1 DEF worktreeIdFor, IsDisk, Valid
<1>4. named = {r}
  BY <1>1, <1>3 DEF Valid
<1>5. (CHOOSE q \in named : TRUE) = r
  BY <1>4
<1>6. resolveDerivedWorktree(k, m, w.id) = {w}
  BY <1>1, <1>2, <1>4, <1>5 DEF resolveDerivedWorktree, Valid, Worktree
<1>7. ASSUME NEW n \in Dirs, NEW v \in derivedWorktrees(k, n), v.id = w.id
      PROVE  n = m /\ v = w
  <2>1. PICK q \in k.records[n] : Valid(k, n, q, v)
    BY DerivedFromRecords
  <2>2. n = m /\ q.root = r.root
    BY <1>1, <1>7, <2>1 DEF worktreeIdFor, Valid
  <2>3. q = r
    BY <2>2 DEF IsDisk
  <2> QED
    BY <1>1, <2>1, <2>2, <2>3 DEF Valid
<1> QED
  BY <1>6, <1>7

\* What a local command takes for a worktree is shown to remote clients.
LEMMA LocalIsDerived ==
  ASSUME NEW k, IsDisk(k), NEW d \in Dirs, resolveLocalWorktree(k, d).kind = "linked"
  PROVE  \E m \in Dirs : \E w \in derivedWorktrees(k, m) :
           m = resolveLocalWorktree(k, d).main /\ w.root = d /\ ~w.explicit
<1> DEFINE inventory == readInventory(k, d)
           m == inventory.main
<1>1. m # Nowhere /\ m = resolveLocalWorktree(k, d).main
      /\ \E r \in inventory.records : r.root = d /\ validateCandidate(k, r, m, FALSE) # {}
  BY DEF resolveLocalWorktree, LocalWorktreeOf, LocalWorktree
<1>2. PICK r \in inventory.records : r.root = d /\ validateCandidate(k, r, m, FALSE) # {}
  BY <1>1
<1>3. m = gitCommonDirectory(k, d) /\ inventory.records = k.records[m] /\ k.at[m].kind = "main"
  BY <1>1 DEF readInventory, Inventory
<1>4. gitCommonDirectory(k, d) \in Dirs \union {Nowhere}
  <2>1. \A e \in Dirs : RepositoryOf(k, e) \in Dirs \union {Nowhere}
    BY DEF RepositoryOf, IsDisk, Entries
  <2>2. gitTopLevel(k, d) \in Dirs \union {Nowhere}
    BY DeepestExists, DirsAreNested DEF gitTopLevel
  <2> QED
    BY <2>1, <2>2 DEF gitCommonDirectory
<1>5. m \in Dirs
  BY <1>1, <1>3, <1>4
<1>6. readInventory(k, m).main = m /\ readInventory(k, m).records = k.records[m]
  BY <1>3, <1>5, MainIsItself, DirsAreNested DEF readInventory, Inventory
<1>7. Candidate(m, d, FALSE) \in validateCandidate(k, r, m, TRUE)
  BY <1>2 DEF validateCandidate, candidateRoot
<1>8. Candidate(m, d, FALSE) \in derivedWorktrees(k, m)
  BY <1>2, <1>3, <1>6, <1>7 DEF derivedWorktrees
<1>9. Candidate(m, d, FALSE).root = d /\ ~Candidate(m, d, FALSE).explicit
  BY DEF Candidate
<1> QED
  BY <1>1, <1>5, <1>8, <1>9

\* A worktree that is found current when it is looked at again is one of its main root.
LEMMA CurrentIsOwned ==
  ASSUME NEW k, NEW m \in Dirs, NEW w, w.id = worktreeIdFor(m, w.root), assertDerivedWorktreeCurrent(k, m, w)
  PROVE  RepositoryOf(k, w.root) = m
<1>1. gitCommonDirectory(k, m) = m
  BY DEF assertDerivedWorktreeCurrent, worktreeIdFor
<1>2. CASE w.explicit
  BY <1>2 DEF assertDerivedWorktreeCurrent, validateExplicitWorktreeTarget
<1>3. CASE ~w.explicit
  BY <1>1, <1>3, DirsAreNested DEF assertDerivedWorktreeCurrent, gitCommonDirectory
<1> QED
  BY <1>2, <1>3

-----------------------------------------------------------------------------
(* The readers of registrations. *)

\* A command in a directory means what the nearest target around it is to a command in that one.
LEMMA NearestTarget ==
  ASSUME NEW k, NEW list, NEW d \in Dirs, NEW chosen, chosen = resolveContainingLocalTarget(k, list, d)
  PROVE  LET targets == {resolveLocalTarget(k, list, e) : e \in Around[d]}
         IN  IF chosen.kind = "unregistered" THEN \A t \in targets : t.kind = "unregistered"
             ELSE chosen \in targets /\ \A t \in targets : t.kind = "unregistered" \/ Depth(t.root) <= Depth(chosen.root)
<1> DEFINE Explicit(e) == registrationForRoot(list, e)
           Found(e)    == resolveLocalWorktree(k, e)
           Derived(e)  == IF Found(e).kind = "none" THEN <<>> ELSE registrationForRoot(list, Found(e).main)
           candidates  == {e \in Around[d] : Explicit(e) # <<>> \/ Derived(e) # <<>>}
           root        == Deepest(candidates)
           Own(e)    == resolveLocalTarget(k, list, e)
<1>1. chosen = IF candidates = {} THEN Target("unregistered", d, <<>>)
               ELSE IF Explicit(root) # <<>> THEN Target("exact", root, Explicit(root))
               ELSE Target("derived", root, Derived(root))
  BY DEF resolveContainingLocalTarget
<1>2. \A e : Own(e) = IF Explicit(e) # <<>> THEN Target("exact", e, Explicit(e))
                        ELSE IF Found(e).kind = "linked" /\ registrationForRoot(list, Found(e).main) # <<>>
                        THEN Target("derived", e, registrationForRoot(list, Found(e).main))
                        ELSE Target("unregistered", e, <<>>)
  BY DEF resolveLocalTarget
<1>3. \A e : Found(e).kind \in {"none", "main", "linked"} /\ (Found(e).kind = "main" => Found(e).main = e)
  BY DEF resolveLocalWorktree, LocalWorktreeOf, LocalWorktree
<1>4. \A e : Own(e).root = e /\ (Own(e).kind = "unregistered" <=> Explicit(e) = <<>> /\ Derived(e) = <<>>)
  BY <1>2, <1>3 DEF Target
<1>5. CASE candidates = {}
  BY <1>1, <1>4, <1>5 DEF Target
<1>6. CASE candidates # {}
  <2>1. root \in candidates /\ \A e \in candidates : Depth(e) <= Depth(root)
    BY <1>6, DeepestExists
  <2>2. chosen = Own(root) /\ chosen.kind # "unregistered" /\ chosen.root = root
    <3> HIDE DEF root, candidates
    <3>1. CASE Explicit(root) # <<>>
      BY <1>1, <1>2, <1>6, <3>1 DEF Target
    <3>2. CASE Explicit(root) = <<>>
      <4>1. Derived(root) # <<>>
        BY <2>1, <3>2 DEF candidates
      <4>2. Found(root).kind = "linked"
        BY <1>3, <3>2, <4>1
      <4> QED
        BY <1>1, <1>2, <1>6, <3>2, <4>1, <4>2 DEF Target
    <3> QED
      BY <3>1, <3>2
  <2>3. \A e \in Around[d] : Own(e).kind = "unregistered" \/ Depth(Own(e).root) <= Depth(chosen.root)
    BY <1>4, <2>1, <2>2
  <2>4. root \in Around[d]
    BY <2>1
  <2> QED
    <3> HIDE DEF root, candidates, Own, Explicit, Derived, Found
    <3>1. \E e \in Around[d] : chosen = Own(e)
      BY <2>2, <2>4
    <3> QED
      BY <2>2, <2>3, <3>1 DEF Own
<1> QED
  BY <1>5, <1>6

\* The registration that is found is one of the list, and of the root.
LEMMA RegistrationFound ==
  ASSUME NEW list \in Seq(Registrations), NEW root, registrationForRoot(list, root) # <<>>
  PROVE  \E k \in DOMAIN list : registrationForRoot(list, root) = <<list[k]>>
<1> DEFINE found == {k \in DOMAIN list : list[k].root = root}
<1>1. found # {} /\ registrationForRoot(list, root) = <<list[Min(found)]>>
  BY DEF registrationForRoot
<1>2. found \subseteq Nat
  OBVIOUS
<1>3. PICK k \in found : \A j \in found : ~ (<<j, k>> \in OpToRel(<, Nat))
  <2> HIDE DEF found
  <2> QED BY <1>1, <1>2, NatLessThanWellFounded, WFMin
<1>4. \A j \in found : ~ (j < k)
  <2> HIDE DEF found
  <2> QED BY <1>2, <1>3 DEF OpToRel
<1>5. Min(found) \in found
  <2> HIDE DEF found
  <2>1. \A j \in found : k <= j
    BY <1>2, <1>4
  <2> QED BY <2>1 DEF Min
<1> QED
  BY <1>1, <1>5

\* Sorting by name keeps every registration, once.
LEMMA SortedByName ==
  ASSUME NEW list \in Seq(Registrations)
  PROVE  /\ Sorted(list) \in Seq(Registrations)
         /\ \A k \in DOMAIN list : \E i \in DOMAIN Sorted(list) : Sorted(list)[i] = list[k]
<1> DEFINE places == DOMAIN list
           Until(k) == {j \in places : Before(list, j, k)}
           place == [k \in places |-> Place(list, k)]
<1>1. Len(list) \in Nat /\ places = 1..Len(list) /\ \A k \in places : list[k].name \in Nat
  <2>1. /\ Len(list) \in Nat /\ places = 1..Len(list)
        /\ list \in [1..Len(list) -> Registrations]
    BY LenProperties
  <2> QED
    BY <2>1 DEF Registrations
<1>2. IsFiniteSet(places) /\ Cardinality(places) = Len(list)
  BY <1>1, FS_Interval
<1>3. \A k \in places : IsFiniteSet(Until(k)) /\ Cardinality(Until(k)) \in Nat
                        /\ Cardinality(Until(k)) <= Len(list)
  BY <1>2, FS_Subset, FS_CardinalityType
<1>4. \A k \in places : k \in Until(k)
  BY <1>1 DEF Before
<1>5. ASSUME NEW k \in places  PROVE  Place(list, k) \in places
  <2>1. Cardinality({k}) = 1 /\ IsFiniteSet({k})
    BY FS_Singleton
  <2>2. Cardinality({k}) <= Cardinality(Until(k))
    <3>1. {k} \in SUBSET Until(k)
      BY <1>4
    <3> QED
      BY <1>3, <3>1, FS_Subset
  <2>3. Place(list, k) = Cardinality(Until(k))
    BY DEF Place
  <2> HIDE DEF Until, places
  <2> QED
    BY <1>1, <1>3, <2>1, <2>2, <2>3
<1>6. ASSUME NEW j \in places, NEW k \in places, Place(list, j) = Place(list, k)  PROVE  j = k
  <2>1. Before(list, j, k) \/ Before(list, k, j)
    BY <1>1 DEF Before
  <2>2. ASSUME NEW a \in places, NEW b \in places, Before(list, a, b), Place(list, a) = Place(list, b)  PROVE  a = b
    <3>1. Until(a) \in SUBSET Until(b)
      BY <1>1, <2>2 DEF Before
    <3>2. Until(a) = Until(b)
      BY <1>3, <2>2, <3>1, FS_Subset DEF Place
    <3>3. Before(list, b, a)
      BY <1>4, <3>2
    <3> QED
      BY <1>1, <2>2, <3>3 DEF Before
  <2> QED
    BY <1>6, <2>1, <2>2
<1>7. place \in Injection(places, places)
  BY <1>5, <1>6 DEF Injection, IsInjective
<1>8. place \in Surjection(places, places)
  BY <1>2, <1>7, FS_Injection
<1>9. \A i \in places : \E k \in places : Place(list, k) = i
  BY <1>8 DEF Surjection
<1>10. \A i \in places : (CHOOSE k \in places : Place(list, k) = i) \in places
  BY <1>9
<1>11. \A k \in places : (CHOOSE j \in places : Place(list, j) = Place(list, k)) = k
  BY <1>6
<1>12. DOMAIN Sorted(list) = places /\ \A k \in places : Sorted(list)[Place(list, k)] = list[k]
  BY <1>5, <1>11 DEF Sorted
<1>13. Sorted(list) \in [1..Len(list) -> Registrations]
  <2> DEFINE nth(i) == CHOOSE k \in places : Place(list, k) = i
  <2>1. list \in [places -> Registrations]
    BY <1>1, LenProperties
  <2>2. Sorted(list) = [i \in places |-> list[nth(i)]]
    BY DEF Sorted
  <2>3. \A i \in places : nth(i) \in places
    BY <1>10
  <2>4. \A i \in places : list[nth(i)] \in Registrations
    <3> HIDE DEF nth, places
    <3> QED BY <2>1, <2>3
  <2>5. Sorted(list) \in [places -> Registrations]
    <3> HIDE DEF nth, places
    <3> QED BY <2>2, <2>4
  <2> QED
    BY <1>1, <2>5
<1>14. Sorted(list) \in Seq(Registrations)
  BY <1>1, <1>13, SeqDef
<1> QED
  BY <1>5, <1>12, <1>14

\* Removing a registration keeps every other one.
LEMMA OthersStay ==
  ASSUME NEW list \in Seq(Registrations), NEW k \in DOMAIN list
  PROVE  /\ RemoveAt(list, k) \in Seq(Registrations)
         /\ \A j \in DOMAIN list \ {k} : \E i \in DOMAIN RemoveAt(list, k) : RemoveAt(list, k)[i] = list[j]
         /\ \A i \in DOMAIN RemoveAt(list, k) : \E j \in DOMAIN list : RemoveAt(list, k)[i] = list[j]
<1> DEFINE front == SubSeq(list, 1, k - 1)
           rest  == SubSeq(list, k + 1, Len(list))
<1>1. Len(list) \in Nat /\ k \in 1..Len(list) /\ DOMAIN list = 1..Len(list)
  OBVIOUS
<1>2. /\ front \in Seq(Registrations) /\ Len(front) = k - 1
      /\ \A i \in 1..k-1 : front[i] = list[i]
  BY <1>1
<1>3. /\ rest \in Seq(Registrations) /\ Len(rest) = Len(list) - k
      /\ \A i \in 1..Len(list)-k : rest[i] = list[k + i]
  BY <1>1
<1>4. RemoveAt(list, k) = front \o rest
  BY DEF RemoveAt
<1> HIDE DEF front, rest
<1>5. /\ front \o rest \in Seq(Registrations)
      /\ Len(front \o rest) = Len(front) + Len(rest)
      /\ \A i \in 1..Len(front) + Len(rest) : (front \o rest)[i] = IF i <= Len(front) THEN front[i] ELSE rest[i - Len(front)]
  BY <1>2, <1>3, ConcatProperties
<1>6. Len(front) = k - 1 /\ Len(front) + Len(rest) = Len(list) - 1 /\ \A i \in Int : i <= k - 1 <=> i < k
  BY <1>1, <1>2, <1>3
<1>7. /\ front \o rest \in Seq(Registrations) /\ Len(front \o rest) = Len(list) - 1
      /\ \A i \in 1..Len(list)-1 : (front \o rest)[i] = IF i < k THEN front[i] ELSE rest[i - (k - 1)]
  BY <1>5, <1>6
<1>8. ASSUME NEW j \in 1..Len(list), j < k  PROVE  j \in 1..Len(list)-1 /\ (front \o rest)[j] = list[j]
  BY <1>1, <1>2, <1>7, <1>8
<1>9. ASSUME NEW j \in 1..Len(list), j > k
      PROVE  j - 1 \in 1..Len(list)-1 /\ (front \o rest)[j - 1] = list[j]
  <2>1. j - 1 \in 1..Len(list)-1 /\ ~(j - 1 < k) /\ j - 1 - (k - 1) = j - k /\ j - k \in 1..Len(list)-k
    BY <1>1, <1>9
  <2>2. rest[j - k] = list[k + (j - k)] /\ k + (j - k) = j
    BY <1>1, <1>3, <2>1
  <2> QED
    BY <1>7, <2>1, <2>2
<1>10. DOMAIN (front \o rest) = 1..Len(list)-1
  BY <1>7, LenProperties
<1>11. \A j \in DOMAIN list \ {k} : j \in 1..Len(list) /\ (j < k \/ j > k)
  BY <1>1
<1>12. ASSUME NEW i \in 1..Len(list)-1  PROVE \E j \in 1..Len(list) : (front \o rest)[i] = list[j]
  <2>1. CASE i < k
    <3>1. i \in 1..Len(list)
      BY <1>1
    <3> QED
      BY <1>8, <2>1, <3>1
  <2>2. CASE ~(i < k)
    <3>1. i + 1 \in 1..Len(list) /\ i + 1 > k /\ (i + 1) - 1 = i
      BY <1>1, <2>2
    <3> QED
      BY <1>9, <3>1
  <2> QED
    BY <2>1, <2>2
<1> QED
  BY <1>1, <1>4, <1>7, <1>8, <1>9, <1>10, <1>11, <1>12

-----------------------------------------------------------------------------
(* Sessions. *)

Ids == {<<>>} \union (Dirs \X Nat)
Steps == {"idle", "start", "register", "load", "beat", "create", "save", "post", "clear"}
Operations == {"none", "ensure", "heartbeat", "end", "remove"}
States == [at : Steps, op : Operations, dir : Dirs \union {Nowhere}, name : Names \union {Unnamed},
           workspace : Ids, session : Nat]
BindingFiles == {<<>>} \union {<<b>> : b \in [session : Nat, workspace : Ids]}

SessionsUpTo(n) == [id : 1..n, workspace : Ids, dir : Dirs, expired : BOOLEAN]

SessionTypes ==
  /\ IsDisk(disk) /\ registry \in Seq(Registrations) /\ made \in Nat
  /\ saved = [registry |-> saved.registry, sessions |-> saved.sessions] /\ saved.registry \in Seq(Registrations)
  /\ Known \subseteq SessionsUpTo(made)
  /\ bindings \in [Dirs -> BindingFiles] /\ commands \in [Commands -> States]
  /\ \A c \in Commands : commands[c].op = "none" \/ commands[c].dir \in Dirs
  /\ selected # <<>> => /\ selected[1].main \in Dirs
                        /\ selected[1].candidate.id = worktreeIdFor(selected[1].main, selected[1].candidate.root)
                        /\ selected = <<[main |-> selected[1].main, candidate |-> selected[1].candidate, at |-> selected[1].at]>>

\* The sessions of a directory that have not expired, in memory or on file.
Left(d) == {s \in Known : s.dir = d /\ ~s.expired}
IsBound(d, id) == bindings[d] # <<>> /\ bindings[d][1].session = id

\* One command at a time works on a directory that is not disturbed.
OneCommand ==
  \A b, c \in Commands : commands[b].dir = commands[c].dir /\ commands[c].dir \in Dirs \ disturbed => b = c

\* What a command knows of the sessions of its directory.
Knows(c) ==
  LET d  == commands[c].dir
      id == commands[c].session
  IN  /\ At(c, "ensure", "save") => id <= made /\ \A s \in Known : s.id = id => s.dir = d
      /\ d \notin disturbed =>
           /\ At(c, "ensure", "beat") \/ At(c, "end", "post") => IsBound(d, id)
           /\ At(c, "ensure", "create") \/ At(c, "end", "clear") => Left(d) = {}
           /\ At(c, "ensure", "save") => \A s \in Left(d) : s.id = id

\* What is on file only is of a directory that is disturbed.
FileOnly == \A s \in saved.sessions \ sessions : s.expired \/ s.dir \in disturbed

Accounts ==
  /\ FileOnly /\ \A s, t \in Known : s.id = t.id => s = t
  /\ OneCommand /\ \A c \in Commands : Knows(c)
  /\ HeldByDirectories

\* A step that makes no session and changes no binding keeps the accounts if the commands it moves
\* know what they should, and none of them gives up a session it was about to bind.
LEMMA AccountsKept ==
  ASSUME SessionTypes, Accounts, made' = made, bindings' = bindings, disturbed \subseteq disturbed',
         FileOnly', \A s, t \in Known' : s.id = t.id => s = t,
         \A t \in Known' : \E s \in Known : s.id = t.id /\ s.dir = t.dir /\ (s.expired => t.expired),
         \A c \in Commands : \/ commands'[c] = commands[c]
                             \/ /\ Knows(c)' /\ commands'[c].dir \in {commands[c].dir, Nowhere}
                                /\ At(c, "ensure", "save") => commands[c].dir \in disturbed'
  PROVE  Accounts'
<1>1. ASSUME NEW c \in Commands, commands'[c] = commands[c]  PROVE Knows(c)'
  BY <1>1 DEF Accounts, Knows, At, Left, IsBound, Known
<1>2. \A c \in Commands : Knows(c)'
  BY <1>1
<1>3. OneCommand'
  BY DirsAreNested DEF Accounts, OneCommand
<1>4. HeldByDirectories'
  <2> SUFFICES ASSUME NEW t \in Known', ~t.expired, t.dir \notin disturbed'
               PROVE  \/ bindings'[t.dir] # <<>> /\ bindings'[t.dir][1].session = t.id
                      \/ \E c \in Commands : At(c, "ensure", "save")' /\ commands'[c].session = t.id
    BY DEF HeldByDirectories
  <2>1. PICK s \in Known : s.id = t.id /\ s.dir = t.dir /\ (s.expired => t.expired)
    OBVIOUS
  <2>2. \/ bindings[s.dir] # <<>> /\ bindings[s.dir][1].session = s.id
        \/ \E c \in Commands : At(c, "ensure", "save") /\ commands[c].session = s.id
    BY <2>1 DEF Accounts, HeldByDirectories
  <2>3. ASSUME NEW c \in Commands, At(c, "ensure", "save"), commands[c].session = s.id
        PROVE  At(c, "ensure", "save")' /\ commands'[c].session = t.id
    <3>1. commands[c].dir = s.dir
      BY <2>3 DEF Accounts, Knows
    <3> QED
      BY <2>1, <2>3, <3>1 DEF At
  <2> QED
    BY <2>1, <2>2, <2>3
<1> QED
  BY <1>2, <1>3, <1>4 DEF Accounts

\* A command that has ended knows nothing.
LEMMA IdleKnows ==
  ASSUME NEW c, commands'[c] = Idle  PROVE  Knows(c)' /\ commands'[c].dir = Nowhere
BY DEF Knows, Idle, At

\* A target that is registered carries a registration of the list.
LEMMA TargetIsRegistered ==
  ASSUME NEW k, NEW list \in Seq(Registrations), NEW d \in Dirs, NEW t, t.kind # "unregistered",
         t = resolveLocalTarget(k, list, d) \/ t = resolveContainingLocalTarget(k, list, d)
  PROVE  Head(t.registration).id \in Ids
<1>1. PICK e : t = resolveLocalTarget(k, list, e)
  BY NearestTarget
<1>2. t.registration # <<>> /\ \E root : t.registration = registrationForRoot(list, root)
  BY <1>1 DEF resolveLocalTarget, Target
<1>3. PICK i \in DOMAIN list : t.registration = <<list[i]>>
  BY <1>2, RegistrationFound
<1>4. list[i] \in Registrations
  BY LenProperties
<1> QED
  BY <1>3, <1>4 DEF Registrations, Ids

\* The name that a registration gets.
LEMMA NameIsTyped ==
  ASSUME SessionTypes, NEW d \in Dirs, NEW name \in Names \union {Unnamed}
  PROVE  displayName(d, name) \in Nat
<1> DEFINE existing == registrationForRoot(registry, d)
<1>1. CASE existing # <<>>
  <2>1. PICK i \in DOMAIN registry : existing = <<registry[i]>>
    BY <1>1, RegistrationFound DEF SessionTypes
  <2>2. registry[i] \in Registrations
    BY LenProperties DEF SessionTypes
  <2>3. Head(existing).name \in Nat
    BY <2>1, <2>2 DEF Registrations
  <2> HIDE DEF existing
  <2>4. displayName(d, name) = IF name # Unnamed THEN name ELSE IF existing # <<>> THEN Head(existing).name ELSE BaseName[d]
    BY DEF displayName, existing
  <2> QED
    BY <1>1, <2>3, <2>4, SessionBounds
<1>2. CASE existing = <<>>
  BY <1>2, SessionBounds DEF displayName
<1> QED
  BY <1>1, <1>2

\* What a save leaves.
LEMMA SavesKeep ==
  ASSUME SessionTypes, NEW kept, kept \subseteq sessions, Saves(kept)
  PROVE  /\ Known' = prune(kept) /\ Known' \subseteq Known /\ FileOnly'
         /\ saved' = [registry |-> saved.registry, sessions |-> prune(kept)]
<1>1. sessions' = prune(kept) /\ saved' = [registry |-> saved.registry, sessions |-> prune(kept)]
  BY DEF Saves, SessionTypes
<1> QED
  BY <1>1 DEF Known, FileOnly, prune

\* What is left when nothing is touched.
LEMMA SameSessions ==
  ASSUME SessionTypes, Accounts, UNCHANGED <<sessions, saved>>, disturbed \subseteq disturbed'
  PROVE  Known' = Known /\ FileOnly'
BY DEF Known, FileOnly, Accounts

\* The sessions on file once only some are left in memory.
LEMMA WrittenIs ==
  ASSUME NEW kept
  PROVE  (kept = sessions /\ Written(kept) = saved.sessions) \/ (kept # sessions /\ Written(kept) = kept)
BY DEF Written

\* A heartbeat and an end drop sessions, from the file too.
LEMMA TouchTypes ==
  ASSUME SessionTypes, NEW id, touch(id) \/ end(id)
  PROVE  Known' \subseteq Known /\ saved' = [registry |-> saved.registry, sessions |-> saved'.sessions]
<1>1. CASE UNCHANGED <<sessions, saved>>
  BY <1>1 DEF SessionTypes, Known
<1>2. CASE Saves(sessions) \/ Saves(sessions \ Named(id))
  BY <1>2, SavesKeep
<1> QED
  BY <1>1, <1>2 DEF touch, end

\* So does a removal, whichever of its saves fails.
LEMMA RemovalTypes ==
  ASSUME SessionTypes, NEW c \in Commands, RemoveWorkspace(c) \/ EndSome(c)
  PROVE  /\ Known' \subseteq Known /\ saved' = [registry |-> saved'.registry, sessions |-> saved'.sessions]
         /\ saved'.registry \in {saved.registry, Sorted(registry')}
<1> DEFINE id == commands[c].workspace
           Some(kept) == /\ sessions' \subseteq kept
                         /\ saved' = [registry |-> Sorted(registry'), sessions |-> Written(kept)]
<1>1. CASE UNCHANGED saved /\ sessions' \subseteq sessions
  BY <1>1 DEF SessionTypes, Known
<1>2. CASE saved' = [saved EXCEPT !.registry = Sorted(registry')] /\ sessions' \subseteq sessions
  BY <1>2 DEF SessionTypes, Known
<1>3. ASSUME NEW kept, kept \subseteq sessions, Some(kept)
      PROVE  /\ Known' \subseteq Known /\ saved' = [registry |-> saved'.registry, sessions |-> saved'.sessions]
             /\ saved'.registry = Sorted(registry')
  BY <1>3, WrittenIs DEF SessionTypes, Known
<1>4. CASE RemoveWorkspace(c)
  <2>1. endByWorkspace(id) \subseteq sessions
    BY DEF endByWorkspace, prune
  <2> HIDE DEF Some
  <2>2. \/ UNCHANGED saved /\ sessions' \subseteq sessions
        \/ saved' = [saved EXCEPT !.registry = Sorted(registry')] /\ sessions' \subseteq sessions
        \/ Some(endByWorkspace(id))
    BY <1>4 DEF RemoveWorkspace, prune, Some
  <2> QED
    BY <1>1, <1>2, <1>3, <2>1, <2>2
<1>5. CASE EndSome(c)
  <2>1. PICK s \in prune(sessions) :
          Some({t \in prune(sessions) : t.workspace # id \/ t.id >= s.id})
    BY <1>5 DEF EndSome
  <2> HIDE DEF Some
  <2>2. {t \in prune(sessions) : t.workspace # id \/ t.id >= s.id} \subseteq sessions
    BY DEF prune
  <2> QED
    BY <1>3, <2>1, <2>2
<1> QED
  BY <1>4, <1>5

\* A heartbeat, and the end of a session.
LEMMA TouchKeeps ==
  ASSUME SessionTypes, Accounts, NEW id, touch(id) \/ end(id), disturbed \subseteq disturbed'
  PROVE  /\ Known' \subseteq Known /\ FileOnly'
         /\ saved' = [registry |-> saved.registry, sessions |-> saved'.sessions]
         /\ end(id) => \A s \in Known' : s.id # id \/ s.expired \/ s.dir \in disturbed
<1>1. CASE Named(id) = {}
  <2>1. UNCHANGED <<sessions, saved>>
    BY <1>1 DEF touch, end
  <2>2. \A s \in Known : s.id # id \/ s \in saved.sessions \ sessions
    BY <1>1 DEF Named, Known
  <2> QED
    BY <2>1, <2>2, SameSessions DEF SessionTypes, Accounts, FileOnly
<1>2. CASE Named(id) # {}
  <2>1. CASE Saves(sessions \ Named(id))
    BY <2>1, SavesKeep DEF prune, Named
  <2>2. CASE Saves(sessions) /\ ~end(id)
    BY <2>2, SavesKeep
  <2>3. Saves(sessions \ Named(id)) \/ (Saves(sessions) /\ ~end(id))
    BY <1>2 DEF touch, end
  <2> QED
    BY <2>1, <2>2, <2>3
<1> QED
  BY <1>1, <1>2

\* The types hold before the first command.
LEMMA TypesStart == Init => SessionTypes
<1> SUFFICES ASSUME Init PROVE SessionTypes
  OBVIOUS
<1>1. Idle \in States
  BY DEF Idle, States, Ids, Steps, Operations
<1>2. bindings \in [Dirs -> BindingFiles]
  BY DEF Init, BindingFiles
<1>3. Idle.op = "none" /\ registry \in Seq(Registrations) /\ IsDisk(disk)
  BY SessionBounds DEF Idle, Init
<1>4. saved = [registry |-> Listed, sessions |-> {}] /\ Listed \in Seq(Registrations)
  BY <1>3, SortedByName DEF Init, Listed
<1>5. Known = {}
  BY <1>4 DEF Known, Init
<1> QED
  BY <1>1, <1>2, <1>3, <1>4, <1>5 DEF Init, SessionTypes

\* The steps of a command keep the types.
LEMMA CommandTypes ==
  ASSUME SessionTypes, NEW c \in Commands
  PROVE  /\ \A act \in Operations \ {"none"}, d \in Dirs, name \in Names \union {Unnamed} : Begin(c, act, d, name) => SessionTypes'
         /\ Targets(c) => SessionTypes'
         /\ Register(c) => SessionTypes'
         /\ loadBinding(c) => SessionTypes'
         /\ Beat(c) => SessionTypes'
         /\ Create(c) => SessionTypes'
         /\ saveBinding(c) => SessionTypes'
         /\ ReadBinding(c, "heartbeat") \/ ReadBinding(c, "end") => SessionTypes'
         /\ heartbeat(c) => SessionTypes'
         /\ End(c) => SessionTypes'
         /\ clearBinding(c) => SessionTypes'
         /\ resolveRemovalWorkspaceId(c) => SessionTypes'
         /\ RemoveWorkspace(c) \/ EndSome(c) => SessionTypes'
         /\ Fails(c) => SessionTypes'
<1> USE DEF Local, diskVars, brokerVars, Disturbs, Happens, Ends, Goes, Known
<1>1. Idle \in States /\ commands[c] \in States
  BY DEF Idle, States, Ids, Steps, Operations, SessionTypes
<1> DEFINE Typed == /\ commands' \in [Commands -> States]
                    /\ \A b \in Commands : commands'[b].op = "none" \/ commands'[b].dir \in Dirs
<1>2. ASSUME Ends(c)  PROVE Typed
  <2>1. Idle.op = "none"
    BY DEF Idle
  <2> QED
    BY <1>1, <1>2, <2>1 DEF SessionTypes
<1>3. ASSUME NEW at \in Steps, Goes(c, at)  PROVE Typed
  BY <1>3 DEF SessionTypes, States
<1>4. ASSUME NEW at \in Steps, NEW id \in Ids, commands' = [commands EXCEPT ![c].at = at, ![c].workspace = id]
      PROVE  Typed
  BY <1>4 DEF SessionTypes, States
<1>5. ASSUME NEW at \in Steps, NEW n \in Nat, commands' = [commands EXCEPT ![c].at = at, ![c].session = n]
      PROVE  Typed
  BY <1>5 DEF SessionTypes, States
<1>6. ASSUME NEW act \in Operations \ {"none"}, NEW d \in Dirs, NEW name \in Names \union {Unnamed}, Begin(c, act, d, name)
      PROVE SessionTypes'
  <2>1. [Idle EXCEPT !.op = act, !.at = "start", !.dir = d, !.name = name] \in States
    BY DEF Idle, States, Ids, Steps
  <2>2. Typed
    BY <1>6, <2>1 DEF Begin, SessionTypes
  <2> QED
    BY <1>6, <2>2 DEF Begin, SessionTypes
<1>7. ASSUME Targets(c)  PROVE SessionTypes'
  <2> DEFINE meant == resolveLocalTarget(disk, Listed, commands[c].dir)
  <2>1. meant.kind \in {"exact", "derived", "unregistered"}
    BY DEF resolveLocalTarget, Target
  <2>2. meant.kind = "derived" => Head(meant.registration).id \in Ids
    <3>1. commands[c].dir \in Dirs
      BY <1>7 DEF Targets, At, SessionTypes
    <3>2. Listed \in Seq(Registrations)
      BY SortedByName DEF SessionTypes, Listed
    <3> QED
      BY <3>1, <3>2, TargetIsRegistered
  <2>3. Typed
    <3> HIDE DEF meant
    <3>1. \/ Goes(c, "register") \/ Ends(c)
          \/ /\ meant.kind = "derived"
             /\ commands' = [commands EXCEPT ![c].at = "load", ![c].workspace = Head(meant.registration).id]
      BY <1>7 DEF Targets, meant
    <3> QED
      BY <1>2, <1>3, <1>4, <2>2, <3>1 DEF Steps
  <2> QED
    BY <1>7, <2>3 DEF Targets, SessionTypes
<1>8. ASSUME Register(c)  PROVE SessionTypes'
  <2> DEFINE d    == commands[c].dir
             name == displayName(d, commands[c].name)
             id   == workspaceIdFor(d, name)
  <2>1. d \in Dirs /\ commands[c].name \in Names \union {Unnamed}
    BY <1>1, <1>8 DEF Register, At, SessionTypes, States
  <2>2. name \in Nat
    BY <2>1, NameIsTyped
  <2> HIDE DEF name
  <2>3. id \in Ids /\ [id |-> id, root |-> d, name |-> name] \in Registrations
    BY <2>1, <2>2 DEF workspaceIdFor, Ids, Registrations
  <2>4. registry' = registry \/ registry' = Append(registry, [id |-> id, root |-> d, name |-> name])
    BY <1>8 DEF Register, register, name
  <2>9. registry \in Seq(Registrations)
    BY DEF SessionTypes
  <2>5. registry' \in Seq(Registrations)
    <3> HIDE DEF id
    <3> QED BY <2>3, <2>4, <2>9, AppendProperties
  <2>6. Typed
    <3>1. commands' = [commands EXCEPT ![c].at = "load", ![c].workspace = id] \/ Ends(c)
      BY <1>8 DEF Register, name
    <3> HIDE DEF id, Ends
    <3> QED
      BY <1>2, <1>4, <2>3, <3>1 DEF Steps
  <2>7. saved' = [saved EXCEPT !.registry = Sorted(registry')] \/ saved' = saved
    BY <1>8 DEF Register
  <2>8. Sorted(registry') \in Seq(Registrations)
    BY <2>5, SortedByName
  <2> QED
    BY <1>8, <2>5, <2>6, <2>7, <2>8 DEF Register, SessionTypes
<1>9. ASSUME loadBinding(c)  PROVE SessionTypes'
  <2> DEFINE binding == bindings[commands[c].dir]
             same    == binding # <<>> /\ binding[1].workspace = commands[c].workspace
  <2>1. binding \in BindingFiles
    BY <1>9 DEF loadBinding, At, SessionTypes
  <2>2. binding # <<>> => binding[1].session \in Nat
    BY <2>1 DEF BindingFiles
  <2>3. Typed
    <3> HIDE DEF binding
    <3>1. \/ /\ binding # <<>>
             /\ commands' = [commands EXCEPT ![c].at = "beat", ![c].session = binding[1].session]
          \/ commands' = [commands EXCEPT ![c].at = "create", ![c].session = 0]
      BY <1>9 DEF loadBinding, binding
    <3> QED
      BY <1>5, <2>2, <3>1 DEF Steps
  <2> QED
    BY <1>9, <2>3 DEF loadBinding, SessionTypes
<1>10. ASSUME Beat(c)  PROVE SessionTypes'
  <2>1. Typed
    BY <1>2, <1>3, <1>10 DEF Beat, Steps
  <2>2. Known' \subseteq Known /\ saved' = [registry |-> saved.registry, sessions |-> saved'.sessions]
    BY <1>10, TouchTypes DEF Beat, SessionTypes
  <2> QED
    BY <1>10, <2>1, <2>2 DEF Beat, SessionTypes
<1>11. ASSUME Create(c)  PROVE SessionTypes'
  <2>1. Typed
    <3>1. Ends(c) \/ (made + 1 \in Nat /\ commands' = [commands EXCEPT ![c].at = "save", ![c].session = made + 1])
      <4>1. made \in Nat
        BY DEF SessionTypes
      <4>2. Ends(c) \/ commands' = [commands EXCEPT ![c].at = "save", ![c].session = made + 1]
        BY <1>11 DEF Create
      <4> QED
        BY <4>1, <4>2
    <3> HIDE DEF Ends
    <3> QED
      BY <1>2, <1>5, <3>1 DEF Steps
  <2>2. CASE UNCHANGED <<sessions, saved, made>>
    BY <1>11, <2>1, <2>2 DEF Create, SessionTypes
  <2>3. CASE create(commands[c].workspace, commands[c].dir)
    <3> DEFINE new == [id |-> made + 1, workspace |-> commands[c].workspace, dir |-> commands[c].dir, expired |-> FALSE]
    <3>1. made' = made + 1 /\ made \in Nat /\ sessions' \subseteq sessions \union {new}
      BY <2>3 DEF create, prune, SessionTypes
    <3>2. commands[c].dir \in Dirs /\ commands[c].workspace \in Ids
      BY <1>1, <1>11 DEF Create, At, SessionTypes, States
    <3>3. new \in SessionsUpTo(made')
      BY <3>1, <3>2 DEF SessionsUpTo
    <3>4. \A s \in Known : s \in SessionsUpTo(made')
      BY <3>1 DEF SessionTypes, SessionsUpTo
    <3>5. \/ saved' = saved
          \/ saved' = [saved EXCEPT !.sessions = sessions']
          \/ saved' = [saved EXCEPT !.sessions = Written(prune(sessions))]
      BY <1>11, <2>3 DEF Create
    <3>6. Written(prune(sessions)) \subseteq Known
      BY WrittenIs DEF prune
    <3>7. /\ saved' = [registry |-> saved.registry, sessions |-> saved'.sessions]
          /\ saved'.sessions \subseteq Known \union {new}
      <4> HIDE DEF new
      <4> QED BY <3>1, <3>5, <3>6 DEF SessionTypes
    <3>8. Known' \subseteq SessionsUpTo(made')
      <4> HIDE DEF new
      <4> QED BY <3>1, <3>3, <3>4, <3>7
    <3> QED
      BY <1>11, <2>1, <3>1, <3>7, <3>8 DEF Create, SessionTypes
  <2> QED
    BY <1>11, <2>2, <2>3 DEF Create
<1>12. ASSUME saveBinding(c)  PROVE SessionTypes'
  <2>1. Typed
    BY <1>2, <1>12 DEF saveBinding
  <2>2. <<[session |-> commands[c].session, workspace |-> commands[c].workspace]>> \in BindingFiles
    BY <1>1 DEF States, BindingFiles
  <2>3. bindings' \in [Dirs -> BindingFiles]
    BY <1>12, <2>2 DEF saveBinding, SessionTypes
  <2> QED
    BY <1>12, <2>1, <2>3 DEF saveBinding, SessionTypes
<1>13. ASSUME NEW act, ReadBinding(c, act), act # "none"  PROVE SessionTypes'
  <2>1. bindings[commands[c].dir] # <<>> => bindings[commands[c].dir][1].session \in Nat
    <3>1. bindings[commands[c].dir] \in BindingFiles
      BY <1>13 DEF ReadBinding, At, SessionTypes
    <3> QED
      BY <3>1 DEF BindingFiles
  <2>2. Typed
    BY <1>2, <1>13, <1>5, <2>1 DEF ReadBinding, Steps
  <2> QED
    BY <1>13, <2>2 DEF ReadBinding, SessionTypes
<1>14. ASSUME heartbeat(c)  PROVE SessionTypes'
  <2>1. Typed /\ Known' \subseteq Known /\ saved' = [registry |-> saved.registry, sessions |-> saved'.sessions]
    BY <1>2, <1>14, TouchTypes DEF heartbeat
  <2> QED
    BY <1>14, <2>1 DEF heartbeat, SessionTypes
<1>15. ASSUME End(c)  PROVE SessionTypes'
  <2>1. Typed
    BY <1>3, <1>15 DEF End, Steps
  <2>2. Known' \subseteq Known /\ saved' = [registry |-> saved.registry, sessions |-> saved'.sessions]
    <3>1. CASE end(commands[c].session)
      BY <3>1, TouchTypes
    <3>2. CASE sessions' \subseteq sessions /\ saved' = saved
      BY <3>2 DEF SessionTypes
    <3> QED
      BY <1>15, <3>1, <3>2 DEF End, prune
  <2> QED
    BY <1>15, <2>1, <2>2 DEF End, SessionTypes
<1>16. ASSUME clearBinding(c)  PROVE SessionTypes'
  <2>1. Typed /\ <<>> \in BindingFiles
    BY <1>2, <1>16 DEF clearBinding, BindingFiles
  <2>2. bindings' \in [Dirs -> BindingFiles]
    BY <1>16, <2>1 DEF clearBinding, SessionTypes
  <2> QED
    BY <1>16, <2>1, <2>2 DEF clearBinding, SessionTypes
<1>17. ASSUME resolveRemovalWorkspaceId(c)  PROVE SessionTypes'
  <2> DEFINE meant == resolveContainingLocalTarget(disk, Listed, commands[c].dir)
  <2>1. meant.kind # "unregistered" => Head(meant.registration).id \in Ids
    <3>1. commands[c].dir \in Dirs
      BY <1>17 DEF resolveRemovalWorkspaceId, At, SessionTypes
    <3>2. Listed \in Seq(Registrations)
      BY SortedByName DEF SessionTypes, Listed
    <3> QED
      BY <3>1, <3>2, TargetIsRegistered
  <2>2. Typed
    <3> HIDE DEF meant
    <3>1. \/ Ends(c)
          \/ /\ meant.kind # "unregistered"
             /\ commands' = [commands EXCEPT ![c].at = "post", ![c].workspace = Head(meant.registration).id]
      BY <1>17 DEF resolveRemovalWorkspaceId, meant
    <3> QED
      BY <1>2, <1>4, <2>1, <3>1 DEF Steps
  <2> QED
    BY <1>17, <2>2 DEF resolveRemovalWorkspaceId, SessionTypes
<1>18. ASSUME RemoveWorkspace(c) \/ EndSome(c)  PROVE SessionTypes'
  <2> DEFINE id == commands[c].workspace
             k  == CHOOSE i \in DOMAIN registry : registry[i].id = id
  <2>1. Typed
    BY <1>2, <1>18 DEF RemoveWorkspace, EndSome
  <2>2. registry' \in Seq(Registrations) /\ Sorted(registry') \in Seq(Registrations)
    <3>1. CASE registry' = registry
      BY <3>1, SortedByName DEF SessionTypes
    <3>2. CASE remove(id)
      <4>1. k \in DOMAIN registry /\ registry' = RemoveAt(registry, k)
        BY <3>2 DEF Registered, remove
      <4> HIDE DEF k
      <4> QED
        BY <4>1, OthersStay, SortedByName DEF SessionTypes
    <3> QED
      BY <1>18, <3>1, <3>2 DEF RemoveWorkspace, EndSome
  <2>3. Known' \subseteq Known /\ saved' = [registry |-> saved'.registry, sessions |-> saved'.sessions]
        /\ saved'.registry \in {saved.registry, Sorted(registry')}
    BY <1>18, RemovalTypes
  <2> QED
    BY <1>18, <2>1, <2>2, <2>3 DEF RemoveWorkspace, EndSome, SessionTypes
<1>19. ASSUME Fails(c)  PROVE SessionTypes'
  BY <1>2, <1>19 DEF Fails, SessionTypes
<1> QED
  BY <1>6, <1>7, <1>8, <1>9, <1>10, <1>11, <1>12, <1>13, <1>14, <1>15, <1>16, <1>17, <1>18, <1>19

\* The steps of the broker and of the user keep the types.
LEMMA SurroundingTypes ==
  ASSUME SessionTypes
  PROVE  /\ Crash \/ Start \/ Recheck \/ ReadWorktree \/ ChangeDisk => SessionTypes'
         /\ \A s \in Known : Expire(s) => SessionTypes'
         /\ \A k \in DOMAIN registry, d \in Dirs : resolveRegisteredWorkspaceTarget(k, d) => SessionTypes'
<1> USE DEF Local, diskVars, brokerVars, Happens, Known
<1>1. Crash => SessionTypes'
  BY DEF Crash, SessionTypes
<1>2. Start => SessionTypes'
  BY DEF Start, SessionTypes
<1>3. ReadWorktree \/ Recheck => SessionTypes'
  <2>1. ReadWorktree => SessionTypes'
    BY DEF ReadWorktree, SessionTypes
  <2>2. ASSUME Recheck  PROVE SessionTypes'
    <3>1. selected' = <<>> \/ selected' = <<[selected[1] EXCEPT !.at = "current"]>>
      BY <2>2 DEF Recheck
    <3> QED
      BY <2>2, <3>1 DEF Recheck, SessionTypes
  <2> QED
    BY <2>1, <2>2
<1>4. ASSUME ChangeDisk  PROVE SessionTypes'
  <2>1. IsDisk(disk')
    BY <1>4, ChangesKeepDisks DEF ChangeDisk, SessionTypes
  <2>2. selected' = selected \/ (selected # <<>> /\ selected' = <<[selected[1] EXCEPT !.at = "moved"]>>)
    BY <1>4 DEF ChangeDisk
  <2> QED
    BY <1>4, <2>1, <2>2 DEF ChangeDisk, SessionTypes
<1>5. ASSUME NEW s \in Known, Expire(s)  PROVE SessionTypes'
  <2>1. s \in SessionsUpTo(made)
    BY DEF SessionTypes
  <2>2. [s EXCEPT !.expired = TRUE] \in SessionsUpTo(made)
    BY <2>1 DEF SessionsUpTo
  <2>3. saved' = [registry |-> saved.registry, sessions |-> saved'.sessions] /\ Known' \subseteq Known \union {[s EXCEPT !.expired = TRUE]}
    BY <1>5 DEF Expire, SessionTypes
  <2> QED
    BY <1>5, <2>2, <2>3 DEF Expire, SessionTypes
<1>6. ASSUME NEW k \in DOMAIN registry, NEW d \in Dirs, resolveRegisteredWorkspaceTarget(k, d)  PROVE SessionTypes'
  <2>1. registry[k] \in Registrations
    BY LenProperties DEF SessionTypes
  <2> DEFINE main == registry[k].root
             named == worktreeIdFor(main, d)
  <2>2. main \in Dirs
    BY <2>1 DEF Registrations
  <2>3. PICK w \in resolveDerivedWorktree(disk, main, named) : selected' = <<[main |-> main, candidate |-> w, at |-> "selected"]>>
    BY <1>6 DEF resolveRegisteredWorkspaceTarget
  <2>4. PICK r : w \in validateCandidate(disk, r, main, TRUE)
    BY <2>3 DEF resolveDerivedWorktree
  <2>5. w.id = worktreeIdFor(main, w.root)
    <3>1. w = Candidate(main, r.root, FALSE) \/ w = Candidate(main, r.root, TRUE)
      BY <2>4 DEF validateCandidate
    <3> QED
      BY <3>1 DEF Candidate
  <2> HIDE DEF main
  <2>6. /\ selected'[1].main \in Dirs
        /\ selected'[1].candidate.id = worktreeIdFor(selected'[1].main, selected'[1].candidate.root)
        /\ selected' = <<[main |-> selected'[1].main, candidate |-> selected'[1].candidate, at |-> selected'[1].at]>>
    BY <2>2, <2>3, <2>5
  <2> QED
    BY <1>6, <2>6 DEF resolveRegisteredWorkspaceTarget, SessionTypes
<1> QED
  BY <1>1, <1>2, <1>3, <1>4, <1>5, <1>6

\* With no session and no command there is nothing to account for.
LEMMA AccountsStart == Init => Accounts
<1> SUFFICES ASSUME Init PROVE Accounts
  OBVIOUS
<1>1. ASSUME NEW c \in Commands  PROVE commands[c].op = "none" /\ commands[c].dir = Nowhere
  BY DEF Init, Idle
<1>2. OneCommand /\ \A c \in Commands : Knows(c)
  BY <1>1, DirsAreNested DEF OneCommand, Knows, At
<1>3. Known = {} /\ FileOnly
  BY DEF Init, Known, FileOnly
<1> QED
  BY <1>2, <1>3 DEF Accounts, HeldByDirectories

\* The same for one command, and a broker that may drop sessions.
LEMMA CommandKeeps ==
  ASSUME SessionTypes, Accounts, NEW c \in Commands, made' = made, bindings' = bindings, disturbed \subseteq disturbed',
         Known' \subseteq Known, FileOnly', \A b \in Commands \ {c} : commands'[b] = commands[b],
         commands'[c].dir \in {commands[c].dir, Nowhere}, Knows(c)',
         At(c, "ensure", "save") => commands[c].dir \in disturbed'
  PROVE  Accounts'
<1>1. \A s, t \in Known' : s.id = t.id => s = t
  BY DEF Accounts
<1>2. \A t \in Known' : \E s \in Known : s.id = t.id /\ s.dir = t.dir /\ (s.expired => t.expired)
  OBVIOUS
<1>3. ASSUME NEW b \in Commands
      PROVE  \/ commands'[b] = commands[b]
             \/ /\ Knows(b)' /\ commands'[b].dir \in {commands[b].dir, Nowhere}
                /\ At(b, "ensure", "save") => commands[b].dir \in disturbed'
  BY DEF Knows, At, Left, IsBound
<1> QED
  BY <1>1, <1>2, <1>3, AccountsKept

\* What is live in a directory that is not disturbed while one command works there, and has none to bind.
LEMMA LeftIsBound ==
  ASSUME SessionTypes, Accounts, NEW c \in Commands, commands[c].dir \in Dirs \ disturbed,
         ~At(c, "ensure", "save"), NEW s \in Left(commands[c].dir)
  PROVE  IsBound(commands[c].dir, s.id)
<1>1. s \in Known /\ s.dir = commands[c].dir /\ ~s.expired
  BY DEF Left
<1>2. ASSUME NEW b \in Commands, At(b, "ensure", "save"), commands[b].session = s.id  PROVE FALSE
  <2>1. commands[b].dir = s.dir
    BY <1>1, <1>2 DEF Accounts, Knows
  <2>2. b = c
    BY <1>1, <2>1 DEF Accounts, OneCommand
  <2> QED
    BY <1>2, <2>2
<1> QED
  BY <1>1, <1>2 DEF Accounts, HeldByDirectories, IsBound

\* What a removal leaves on file only is of a directory that is disturbed.
LEMMA RemovalFiles ==
  ASSUME SessionTypes, Accounts, NEW c \in Commands, RemoveWorkspace(c) \/ EndSome(c)
  PROVE  FileOnly'
<1> DEFINE id == commands[c].workspace
<1>1. CASE RemoveWorkspace(c)
  <2>1. disturbed' = disturbed
    BY <1>1 DEF RemoveWorkspace
  <2>2. CASE saved'.sessions = saved.sessions /\ sessions' \in {sessions, prune(sessions)}
    BY <2>1, <2>2 DEF FileOnly, Accounts, prune
  <2>3. CASE saved'.sessions = Written(sessions')
    <3>1. saved'.sessions \ sessions' \subseteq saved.sessions \ sessions
      BY <2>3, WrittenIs
    <3> QED
      BY <2>1, <3>1 DEF FileOnly, Accounts
  <2> QED
    BY <1>1, <2>2, <2>3 DEF RemoveWorkspace, SessionTypes
<1>2. CASE EndSome(c)
  <2> DEFINE Later(s) == {t \in prune(sessions) : t.workspace # id \/ t.id >= s.id}
  <2>1. PICK s \in prune(sessions) :
          /\ saved'.sessions = Written(Later(s))
          /\ \/ sessions' = Later(s) \ {s} /\ disturbed' = disturbed \union {s.dir}
             \/ sessions' = Later(s) /\ disturbed' = disturbed
    <3>1. PICK s \in {t \in prune(sessions) : t.workspace = id} :
            /\ saved' = [registry |-> Sorted(registry'), sessions |-> Written(Later(s))]
            /\ \/ sessions' = Later(s) \ {s} /\ disturbed' = disturbed \union {s.dir}
               \/ sessions' = Later(s) /\ disturbed' = disturbed
      BY <1>2 DEF EndSome, Disturbs
    <3> HIDE DEF Later
    <3> QED
      BY <3>1
  <2>2. saved'.sessions \ sessions' \subseteq (saved.sessions \ sessions) \union {s}
    <3> HIDE DEF Later
    <3> QED BY <2>1, WrittenIs
  <2>3. s \in saved'.sessions \ sessions' => s \in saved.sessions \ sessions \/ s.dir \in disturbed'
    <3> HIDE DEF Later
    <3> QED BY <2>1, WrittenIs
  <2> QED
    BY <2>1, <2>2, <2>3 DEF FileOnly, Accounts
<1> QED
  BY <1>1, <1>2

\* The steps of a command that makes no session and leaves its binding alone keep the accounts.
LEMMA CommandAccounts ==
  ASSUME SessionTypes, Accounts, NEW c \in Commands
  PROVE  /\ Targets(c) => Accounts'
         /\ Register(c) => Accounts'
         /\ loadBinding(c) => Accounts'
         /\ Beat(c) => Accounts'
         /\ ReadBinding(c, "heartbeat") \/ ReadBinding(c, "end") => Accounts'
         /\ heartbeat(c) => Accounts'
         /\ End(c) => Accounts'
         /\ resolveRemovalWorkspaceId(c) => Accounts'
         /\ RemoveWorkspace(c) \/ EndSome(c) => Accounts'
         /\ Fails(c) => Accounts'
<1> USE DEF Local, diskVars, brokerVars, Disturbs
<1> DEFINE d == commands[c].dir
           Others == \A b \in Commands \ {c} : commands'[b] = commands[b]
<1>1. commands \in [Commands -> States] /\ (commands[c].op # "none" => d \in Dirs)
  BY DEF SessionTypes
<1>2. ASSUME Ends(c)  PROVE Others /\ Knows(c)' /\ commands'[c].dir = Nowhere
  BY <1>1, <1>2, IdleKnows DEF Ends
<1>3. ASSUME NEW at \in {"register", "load"}, commands'[c].at = at, commands'[c].op = "ensure"
      PROVE  Knows(c)'
  BY <1>3 DEF Knows, At
<1>4. ASSUME Targets(c)  PROVE Accounts'
  <2>1. Others /\ commands'[c].dir \in {d, Nowhere} /\ Knows(c)'
    <3>1. CASE Ends(c)
      BY <1>2, <3>1
    <3>2. CASE ~Ends(c)
      <4>1. Others /\ commands'[c].dir = d /\ commands'[c].op = "ensure" /\ commands'[c].at \in {"register", "load"}
        BY <1>1, <1>4, <3>2 DEF Targets, Goes, At, States
      <4> QED
        BY <1>3, <4>1
    <3> QED
      BY <3>1, <3>2
  <2>2. Known' = Known /\ FileOnly'
    BY <1>4, SameSessions DEF Targets
  <2> QED
    BY <1>4, <2>1, <2>2, CommandKeeps DEF Targets, At
<1>5. ASSUME Register(c)  PROVE Accounts'
  <2>1. Others /\ commands'[c].dir \in {d, Nowhere} /\ Knows(c)'
    <3>1. CASE Ends(c)
      BY <1>2, <3>1
    <3>2. CASE ~Ends(c)
      <4>1. Others /\ commands'[c].dir = d /\ commands'[c].op = "ensure" /\ commands'[c].at = "load"
        BY <1>1, <1>5, <3>2 DEF Register, At, States
      <4> QED
        BY <1>3, <4>1
    <3> QED
      BY <3>1, <3>2
  <2>2. Known' = Known /\ FileOnly'
    <3>1. saved'.sessions = saved.sessions /\ UNCHANGED <<sessions, disturbed>>
      BY <1>5 DEF Register, SessionTypes
    <3> QED
      BY <3>1 DEF Known, FileOnly, Accounts
  <2> QED
    BY <1>5, <2>1, <2>2, CommandKeeps DEF Register, At
<1>6. ASSUME loadBinding(c)  PROVE Accounts'
  <2> DEFINE same == bindings[d] # <<>> /\ bindings[d][1].workspace = commands[c].workspace
  <2>1. /\ At(c, "ensure", "load") /\ disturbed' = disturbed \union {e \in {d} : bindings[d] # <<>> /\ ~same}
        /\ commands' = [commands EXCEPT ![c].at = IF same THEN "beat" ELSE "create",
                                        ![c].session = IF same THEN bindings[d][1].session ELSE 0]
        /\ UNCHANGED <<sessions, saved, made, bindings>>
    BY <1>6 DEF loadBinding
  <2>2. /\ Others /\ commands'[c].dir = d /\ commands'[c].op = "ensure"
        /\ commands'[c].at = IF same THEN "beat" ELSE "create"
        /\ commands'[c].session = IF same THEN bindings[d][1].session ELSE 0
    BY <1>1, <2>1 DEF At, States
  <2>3. ASSUME ~same, d \notin disturbed'  PROVE Left(d)' = {}
    <3>1. bindings[d] = <<>> /\ d \notin disturbed /\ d \in Dirs /\ ~At(c, "ensure", "save")
      BY <1>1, <2>1, <2>3 DEF At
    <3>2. Left(d) = {}
      BY <3>1, LeftIsBound DEF IsBound
    <3> QED
      BY <2>1, <2>2, <3>2 DEF Left, Known
  <2>4. Knows(c)'
    <3>1. CASE same
      BY <2>1, <2>2, <3>1 DEF Knows, At, IsBound
    <3>2. CASE ~same
      <4>1. At(c, "ensure", "create")' /\ ~At(c, "ensure", "save")' /\ ~At(c, "ensure", "beat")'
            /\ ~At(c, "end", "post")' /\ ~At(c, "end", "clear")'
        BY <2>2, <3>2 DEF At
      <4> QED
        BY <2>2, <2>3, <3>2, <4>1 DEF Knows, Left
    <3> QED
      BY <3>1, <3>2
  <2>5. Known' = Known /\ FileOnly'
    BY <2>1, SameSessions
  <2> QED
    BY <2>1, <2>2, <2>4, <2>5, CommandKeeps DEF At
<1>7. ASSUME Beat(c)  PROVE Accounts'
  <2>1. /\ At(c, "ensure", "beat") /\ UNCHANGED <<made, bindings>> /\ disturbed \subseteq disturbed'
        /\ Ends(c) \/ Goes(c, "create")
        /\ touch(commands[c].session) \/ UNCHANGED <<sessions, saved>>
    BY <1>7 DEF Beat
  <2>4. Known' \subseteq Known /\ FileOnly'
    BY <2>1, TouchKeeps, SameSessions
  <2>2. CASE Ends(c)
    BY <1>2, <2>1, <2>2, <2>4, CommandKeeps DEF At
  <2>3. CASE Goes(c, "create") /\ ~Ends(c)
    <3>1. Others /\ commands'[c].dir = d /\ commands'[c].op = "ensure" /\ commands'[c].at = "create"
      BY <1>1, <2>1, <2>3 DEF Goes, At, States
    <3>2. ASSUME d \notin disturbed'  PROVE Left(d) = {}
      <4>1. ~Live(commands[c].session) /\ d \notin disturbed
        BY <1>7, <2>3, <3>2 DEF Beat
      <4>2. IsBound(d, commands[c].session)
        BY <2>1, <4>1 DEF Accounts, Knows
      <4>3. ~At(c, "ensure", "save") /\ d \in Dirs
        BY <1>1, <2>1 DEF At
      <4>4. ASSUME NEW s \in Left(d)  PROVE FALSE
        <5>1. IsBound(d, s.id)
          BY <4>1, <4>3, LeftIsBound
        <5>2. s.id = commands[c].session
          BY <4>2, <5>1 DEF IsBound
        <5>3. s \in saved.sessions \ sessions
          BY <4>1, <5>2 DEF Left, Live, Named, Known
        <5> QED
          BY <4>1, <5>3 DEF Left, Accounts, FileOnly
      <4> QED
        BY <4>4
    <3>3. Knows(c)'
      BY <2>1, <2>4, <3>1, <3>2 DEF Knows, At, Left
    <3> QED
      BY <2>1, <2>4, <3>1, <3>3, CommandKeeps DEF At
  <2> QED
    BY <2>1, <2>2, <2>3
<1>8. ASSUME NEW act \in {"heartbeat", "end"}, ReadBinding(c, act)  PROVE Accounts'
  <2>1. At(c, act, "start") /\ UNCHANGED <<made, bindings, sessions, saved, disturbed>>
    BY <1>8 DEF ReadBinding
  <2>4. Known' = Known /\ FileOnly'
    BY <2>1, SameSessions
  <2>2. CASE Ends(c)
    BY <1>2, <2>1, <2>2, <2>4, CommandKeeps DEF At
  <2>3. CASE ~Ends(c)
    <3>1. bindings[d] # <<>>
          /\ commands' = [commands EXCEPT ![c].at = "post", ![c].session = bindings[d][1].session]
      BY <1>8, <2>3 DEF ReadBinding
    <3>2. /\ Others /\ commands'[c].dir = d /\ commands'[c].op = act /\ commands'[c].at = "post"
          /\ commands'[c].session = bindings[d][1].session
      BY <1>1, <2>1, <3>1 DEF At, States
    <3>3. Knows(c)'
      BY <2>1, <3>1, <3>2 DEF Knows, At, IsBound
    <3> QED
      BY <2>1, <2>4, <3>2, <3>3, CommandKeeps DEF At
  <2> QED
    BY <2>2, <2>3
<1>9. ASSUME heartbeat(c)  PROVE Accounts'
  <2>1. /\ At(c, "heartbeat", "post") /\ UNCHANGED <<made, bindings, disturbed>> /\ Ends(c)
        /\ touch(commands[c].session)
    BY <1>9 DEF heartbeat
  <2>2. Known' \subseteq Known /\ FileOnly'
    BY <2>1, TouchKeeps
  <2> QED
    BY <1>2, <2>1, <2>2, CommandKeeps DEF At
<1>10. ASSUME End(c)  PROVE Accounts'
  <2> DEFINE id    == commands[c].session
             Loses == /\ sessions' = prune(sessions \ Named(id)) /\ UNCHANGED saved
                      /\ disturbed' = disturbed \union {d} \union {s.dir : s \in Named(id)}
  <2>1. /\ At(c, "end", "post") /\ UNCHANGED <<made, bindings>> /\ Goes(c, "clear")
        /\ \/ end(id) /\ disturbed' = disturbed
           \/ UNCHANGED <<sessions, saved>> /\ disturbed' = disturbed \union {d}
           \/ Loses
    BY <1>10 DEF End
  <2>2. Others /\ commands'[c].dir = d /\ commands'[c].op = "end" /\ commands'[c].at = "clear"
    BY <1>1, <2>1 DEF Goes, At, States
  <2>3. disturbed \subseteq disturbed' /\ Known' \subseteq Known /\ FileOnly'
    <3>1. CASE Loses
      BY <3>1 DEF Known, FileOnly, Accounts, prune, Named
    <3> HIDE DEF Loses
    <3> QED
      BY <2>1, <3>1, TouchKeeps, SameSessions
  <2>4. ASSUME d \notin disturbed'  PROVE Left(d)' = {}
    <3>1. end(id) /\ disturbed' = disturbed
      BY <2>1, <2>4
    <3>2. IsBound(d, id)
      BY <2>1, <2>4, <3>1 DEF Accounts, Knows
    <3>3. ~At(c, "ensure", "save") /\ d \in Dirs
      BY <1>1, <2>1 DEF At
    <3>4. ASSUME NEW s \in Left(d)  PROVE s.id = id
      BY <2>4, <3>1, <3>2, <3>3, LeftIsBound DEF IsBound
    <3>5. \A s \in Known' : s.id # id \/ s.expired \/ s.dir \in disturbed
      BY <3>1, TouchKeeps
    <3> QED
      BY <2>2, <2>3, <2>4, <3>1, <3>4, <3>5 DEF Left
  <2>5. Knows(c)'
    BY <2>1, <2>2, <2>4 DEF Knows, At, Left
  <2> QED
    BY <2>1, <2>2, <2>3, <2>5, CommandKeeps DEF At
<1>11. ASSUME resolveRemovalWorkspaceId(c)  PROVE Accounts'
  <2>1. At(c, "remove", "start") /\ UNCHANGED <<made, bindings, sessions, saved, disturbed>>
    BY <1>11 DEF resolveRemovalWorkspaceId
  <2>4. Known' = Known /\ FileOnly'
    BY <2>1, SameSessions
  <2>2. CASE Ends(c)
    BY <1>2, <2>1, <2>2, <2>4, CommandKeeps DEF At
  <2>3. CASE ~Ends(c)
    <3>1. Others /\ commands'[c].dir = d /\ commands'[c].op = "remove"
      BY <1>1, <1>11, <2>1, <2>3 DEF resolveRemovalWorkspaceId, At, States
    <3>2. Knows(c)'
      BY <3>1 DEF Knows, At
    <3> QED
      BY <2>1, <2>4, <3>1, <3>2, CommandKeeps DEF At
  <2> QED
    BY <2>2, <2>3
<1>12. ASSUME RemoveWorkspace(c) \/ EndSome(c)  PROVE Accounts'
  <2>1. /\ At(c, "remove", "post") /\ UNCHANGED <<made, bindings>> /\ disturbed \subseteq disturbed' /\ Ends(c)
    BY <1>12 DEF RemoveWorkspace, EndSome
  <2>2. Known' \subseteq Known /\ FileOnly'
    BY <1>12, RemovalTypes, RemovalFiles
  <2> QED
    BY <1>2, <2>1, <2>2, CommandKeeps DEF At
<1>13. ASSUME Fails(c)  PROVE Accounts'
  <2>1. /\ UNCHANGED <<made, bindings, sessions, saved>> /\ disturbed \subseteq disturbed' /\ Ends(c)
        /\ At(c, "ensure", "save") => d \in disturbed'
    BY <1>13 DEF Fails, At
  <2>2. Known' = Known /\ FileOnly'
    BY <2>1, SameSessions
  <2> QED
    BY <1>2, <2>1, <2>2, CommandKeeps
<1> QED
  BY <1>4, <1>5, <1>6, <1>7, <1>8, <1>9, <1>10, <1>11, <1>12, <1>13

\* A command begins: another one of its directory disturbs it.
LEMMA BeginAccounts ==
  ASSUME SessionTypes, Accounts, NEW c \in Commands, NEW act, NEW d \in Dirs, NEW name, Begin(c, act, d, name)
  PROVE  Accounts'
<1>1. /\ UNCHANGED <<sessions, saved, made, bindings>> /\ commands[c] = Idle
      /\ disturbed' = disturbed \union {e \in {d} : \E b \in Commands : commands[b].dir = d}
  BY DEF Begin, brokerVars, Disturbs
<1>2. /\ \A b \in Commands \ {c} : commands'[b] = commands[b]
      /\ commands'[c].dir = d /\ commands'[c].at = "start"
  <2>1. commands' = [commands EXCEPT ![c] = [Idle EXCEPT !.op = act, !.at = "start", !.dir = d, !.name = name]]
    BY DEF Begin
  <2> QED
    BY <2>1 DEF SessionTypes, Idle
<1>3. OneCommand'
  <2> SUFFICES ASSUME NEW a \in Commands, NEW b \in Commands, commands'[a].dir = commands'[b].dir,
                      commands'[b].dir \in Dirs \ disturbed'
               PROVE  a = b
    BY DEF OneCommand
  <2>1. CASE a # c /\ b # c
    BY <1>1, <1>2, <2>1 DEF Accounts, OneCommand
  <2>2. CASE a = c /\ b # c
    BY <1>1, <1>2, <2>2
  <2>3. CASE a # c /\ b = c
    BY <1>1, <1>2, <2>3
  <2> QED
    BY <2>1, <2>2, <2>3
<1>4. ASSUME NEW b \in Commands  PROVE Knows(b)'
  <2>1. CASE b = c
    BY <1>2, <2>1 DEF Knows, At
  <2>2. CASE b # c
    BY <1>1, <1>2, <2>2 DEF Accounts, Knows, At, Left, IsBound, Known
  <2> QED
    BY <2>1, <2>2
<1>5. HeldByDirectories'
  <2>1. ~At(c, "ensure", "save")
    BY <1>1 DEF At, Idle
  <2>2. \A b \in Commands : At(b, "ensure", "save") => At(b, "ensure", "save")' /\ commands'[b].session = commands[b].session
    BY <1>2, <2>1 DEF At
  <2> QED
    BY <1>1, <2>2 DEF Accounts, HeldByDirectories, Known
<1>6. Known' = Known /\ FileOnly'
  BY <1>1, SameSessions
<1> QED
  BY <1>3, <1>4, <1>5, <1>6 DEF Accounts

\* A session is made: its command is told of it and is to bind it, or it is lost and its directory disturbed.
LEMMA CreateAccounts ==
  ASSUME SessionTypes, Accounts, NEW c \in Commands, Create(c)
  PROVE  Accounts'
<1> DEFINE d   == commands[c].dir
           new == [id |-> made + 1, workspace |-> commands[c].workspace, dir |-> d, expired |-> FALSE]
           Tells == commands'[c].at = "save" /\ commands'[c].op = "ensure" /\ commands'[c].dir = d
                    /\ commands'[c].session = made + 1 /\ disturbed' = disturbed
           Loses == commands'[c] = Idle /\ disturbed' = disturbed \union {d}
<1>1. At(c, "ensure", "create") /\ bindings' = bindings
  BY DEF Create
<1>2. d \in Dirs /\ made \in Nat /\ commands \in [Commands -> States]
  BY <1>1 DEF At, SessionTypes
<1>3. CASE ~Registered(commands[c].workspace)
  <2>1. UNCHANGED <<sessions, saved, made, disturbed>> /\ commands' = [commands EXCEPT ![c] = Idle]
    BY <1>3 DEF Create, Ends
  <2>2. (\A b \in Commands \ {c} : commands'[b] = commands[b]) /\ commands'[c] = Idle
    BY <1>2, <2>1
  <2>3. Knows(c)' /\ commands'[c].dir = Nowhere
    BY <2>2, IdleKnows
  <2>4. ~At(c, "ensure", "save")
    BY <1>1 DEF At
  <2>5. Known' = Known /\ FileOnly'
    BY <2>1, SameSessions
  <2> QED
    BY <1>1, <2>1, <2>2, <2>3, <2>4, <2>5, CommandKeeps
<1>4. CASE Registered(commands[c].workspace)
  <2>1. made' = made + 1 /\ sessions' = prune(sessions) \union {new}
    BY <1>4 DEF Create, create
  <2>2. (\A b \in Commands \ {c} : commands'[b] = commands[b]) /\ (Tells \/ Loses)
    <3>1. \/ commands' = [commands EXCEPT ![c].at = "save", ![c].session = made + 1] /\ disturbed' = disturbed
          \/ commands' = [commands EXCEPT ![c] = Idle] /\ disturbed' = disturbed \union {d}
      BY <1>4 DEF Create, Ends, Disturbs
    <3>2. \A b \in Commands \ {c} : commands'[b] = commands[b]
      BY <1>2, <3>1
    <3>3. CASE commands' = [commands EXCEPT ![c].at = "save", ![c].session = made + 1] /\ disturbed' = disturbed
      BY <1>1, <1>2, <3>2, <3>3 DEF At, States
    <3>4. CASE commands' = [commands EXCEPT ![c] = Idle] /\ disturbed' = disturbed \union {d}
      BY <1>2, <3>2, <3>4
    <3> QED
      BY <3>1, <3>3, <3>4
  <2>3. \A s \in Known : s.id \in 1..made
    BY DEF SessionTypes, SessionsUpTo
  <2>11. saved'.sessions = sessions' \/ saved'.sessions = Written(prune(sessions))
    BY <1>4 DEF Create, SessionTypes
  <2>12. saved'.sessions \ sessions' \subseteq saved.sessions \ sessions
    BY <2>1, <2>11, WrittenIs
  <2>4. \A s \in Known' : s = new \/ s \in Known
    <3> HIDE DEF new
    <3> QED BY <2>1, <2>12 DEF prune, Known
  <2>13. FileOnly'
    BY <2>2, <2>12 DEF Accounts, FileOnly
  <2>5. new.id = made + 1 /\ new.dir = d
    OBVIOUS
  <2> HIDE DEF new
  <2>6. \A s, t \in Known' : s.id = t.id => s = t
    <3>1. \A s \in Known : s.id # made + 1
      BY <1>2, <2>3
    <3> QED
      BY <2>4, <2>5, <3>1 DEF Accounts
  <2>7. OneCommand'
    <3>1. \A b \in Commands : commands'[b].dir = commands[b].dir \/ commands'[b].dir \notin Dirs
      BY <2>2, DirsAreNested DEF Idle
    <3> QED
      BY <2>2, <3>1 DEF Accounts, OneCommand
  <2>8. ASSUME NEW b \in Commands \ {c}  PROVE Knows(b)'
    <3>1. commands'[b] = commands[b] /\ Knows(b)
      BY <2>2 DEF Accounts
    <3>2. At(b, "ensure", "save") => /\ commands[b].session <= made'
                                     /\ \A s \in Known' : s.id = commands[b].session => s.dir = commands[b].dir
      <4>1. commands[b].session \in Nat
        BY <1>2 DEF States
      <4> QED
        BY <1>2, <2>1, <2>4, <2>5, <3>1, <4>1 DEF Knows
    <3>3. ASSUME commands[b].dir \notin disturbed', commands[b].dir \in Dirs
          PROVE  Left(commands[b].dir)' \subseteq Left(commands[b].dir)
      <4>1. commands[b].dir # d
        BY <2>2, <3>3 DEF Accounts, OneCommand
      <4> QED
        BY <2>4, <2>5, <3>1, <4>1 DEF Left
    <3>4. commands[b].op = "none" \/ commands[b].dir \in Dirs
      BY DEF SessionTypes
    <3>5. disturbed \subseteq disturbed'
      BY <2>2
    <3> QED
      BY <1>1, <3>1, <3>2, <3>3, <3>4, <3>5 DEF Knows, At, IsBound
  <2>9. Knows(c)'
    <3>1. CASE Loses
      BY <3>1, IdleKnows
    <3>2. CASE Tells
      <4>1. At(c, "ensure", "save")' /\ commands'[c].session = made' /\ commands'[c].dir = d /\ disturbed' = disturbed
        BY <2>1, <3>2 DEF At
      <4>2. \A s \in Known' : s.id = made' => s.dir = d
        BY <1>2, <2>1, <2>3, <2>4, <2>5
      <4>3. ASSUME d \notin disturbed  PROVE \A s \in Left(d)' : s.id = made'
        <5>1. Left(d) = {}
          BY <1>1, <4>3 DEF Accounts, Knows
        <5> QED
          BY <2>1, <2>4, <2>5, <4>1, <5>1 DEF Left
      <4>4. made' \in Nat
        BY <1>2, <2>1
      <4> QED
        BY <4>1, <4>2, <4>3, <4>4 DEF Knows, At, Left
    <3> QED
      BY <2>2, <3>1, <3>2
  <2>10. HeldByDirectories'
    <3>1. ASSUME NEW b \in Commands, At(b, "ensure", "save")
          PROVE  At(b, "ensure", "save")' /\ commands'[b].session = commands[b].session
      BY <1>1, <2>2, <3>1 DEF At
    <3>2. new.dir \in disturbed' \/ (At(c, "ensure", "save")' /\ commands'[c].session = new.id)
      BY <2>2, <2>5 DEF At
    <3>3. disturbed \subseteq disturbed'
      BY <2>2
    <3> QED
      BY <1>1, <2>4, <3>1, <3>2, <3>3 DEF Accounts, HeldByDirectories
  <2> QED
    BY <2>6, <2>7, <2>8, <2>9, <2>10, <2>13 DEF Accounts
<1> QED
  BY <1>3, <1>4

\* A command binds its directory, or clears the binding, and ends: the sessions of the directory are
\* then the one it is bound to, or none.
LEMMA BindingAccounts ==
  ASSUME SessionTypes, Accounts, NEW c \in Commands, saveBinding(c) \/ clearBinding(c)
  PROVE  Accounts'
<1> DEFINE d == commands[c].dir
<1>1. /\ UNCHANGED <<sessions, saved, made, disturbed>> /\ commands' = [commands EXCEPT ![c] = Idle]
      /\ At(c, "ensure", "save") \/ At(c, "end", "clear")
      /\ At(c, "ensure", "save") =>
           bindings' = [bindings EXCEPT ![d] = <<[session |-> commands[c].session, workspace |-> commands[c].workspace]>>]
      /\ At(c, "end", "clear") => bindings' = [bindings EXCEPT ![d] = <<>>]
  BY DEF saveBinding, clearBinding, Ends, brokerVars, At
<1>2. d \in Dirs /\ commands \in [Commands -> States] /\ bindings \in [Dirs -> BindingFiles]
  BY <1>1 DEF At, SessionTypes
<1>3. /\ \A b \in Commands \ {c} : commands'[b] = commands[b]
      /\ commands'[c] = Idle /\ \A e \in Dirs \ {d} : bindings'[e] = bindings[e]
  BY <1>1, <1>2
<1>4. Knows(c)' /\ commands'[c].dir = Nowhere
  BY <1>3, IdleKnows
<1>5. OneCommand'
  BY <1>1, <1>3, <1>4, DirsAreNested DEF Accounts, OneCommand
<1>6. ASSUME NEW b \in Commands \ {c}  PROVE Knows(b)'
  <2>1. commands'[b] = commands[b] /\ Knows(b) /\ (commands[b].op = "none" \/ commands[b].dir \in Dirs)
    BY <1>3 DEF Accounts, SessionTypes
  <2>2. ASSUME commands[b].dir \notin disturbed, commands[b].dir \in Dirs
        PROVE  bindings'[commands[b].dir] = bindings[commands[b].dir]
    BY <1>2, <1>3, <2>2 DEF Accounts, OneCommand
  <2> QED
    BY <1>1, <2>1, <2>2 DEF Knows, At, Left, IsBound, Known
<1>7. HeldByDirectories'
  <2> SUFFICES ASSUME NEW s \in Known, ~s.expired, s.dir \notin disturbed
               PROVE  \/ bindings'[s.dir] # <<>> /\ bindings'[s.dir][1].session = s.id
                      \/ \E b \in Commands : At(b, "ensure", "save")' /\ commands'[b].session = s.id
    BY <1>1 DEF HeldByDirectories, Known
  <2>1. CASE s.dir = d
    <3>1. s \in Left(d) /\ d \notin disturbed /\ Knows(c)
      BY <2>1 DEF Left, Accounts
    <3>2. At(c, "ensure", "save") /\ s.id = commands[c].session
      BY <1>1, <3>1 DEF Knows
    <3>3. bindings'[d] = <<[session |-> commands[c].session, workspace |-> commands[c].workspace]>>
      BY <1>1, <1>2, <3>2
    <3> QED
      BY <2>1, <3>2, <3>3
  <2>2. CASE s.dir # d
    <3>1. s.dir \in Dirs
      BY DEF SessionTypes, SessionsUpTo
    <3>2. \A b \in Commands : At(b, "ensure", "save") /\ commands[b].session = s.id => b # c
      BY <2>2 DEF Accounts, Knows
    <3> QED
      BY <1>3, <2>2, <3>1, <3>2 DEF Accounts, HeldByDirectories, At
  <2> QED
    BY <2>1, <2>2
<1>8. Known' = Known /\ FileOnly'
  BY <1>1, SameSessions
<1> QED
  BY <1>4, <1>5, <1>6, <1>7, <1>8 DEF Accounts

\* The broker, the remote calls, the user and time move no command and drop no live session.
LEMMA SurroundingAccounts ==
  ASSUME SessionTypes, Accounts
  PROVE  /\ Crash \/ Start \/ Recheck \/ ReadWorktree \/ ChangeDisk => Accounts'
         /\ \A s \in Known : Expire(s) => Accounts'
         /\ \A k \in DOMAIN registry, d \in Dirs : resolveRegisteredWorkspaceTarget(k, d) => Accounts'
<1> USE DEF Local, diskVars, brokerVars
<1>1. ASSUME UNCHANGED <<sessions, saved, made, bindings, commands, disturbed>>  PROVE Accounts'
  BY <1>1 DEF Accounts, OneCommand, Knows, HeldByDirectories, At, Left, IsBound, Known, FileOnly
<1>2. Crash \/ Recheck \/ ReadWorktree \/ ChangeDisk => Accounts'
  BY <1>1 DEF Crash, Recheck, ReadWorktree, ChangeDisk
<1>5. ASSUME Start  PROVE Accounts'
  <2>1. UNCHANGED <<made, bindings, commands, disturbed>> /\ Known' = saved.sessions /\ FileOnly'
    BY <1>5 DEF Start, Known, FileOnly
  <2>2. Known' \subseteq Known
    BY <2>1 DEF Known
  <2> QED
    BY <2>1, <2>2, AccountsKept DEF Accounts
<1>3. ASSUME NEW s \in Known, Expire(s)  PROVE Accounts'
  <2> DEFINE gone == [s EXCEPT !.expired = TRUE]
             After(kept) == {IF t = s THEN gone ELSE t : t \in kept}
  <2>1. /\ UNCHANGED <<made, bindings, commands, disturbed>> /\ sessions' = After(sessions)
        /\ saved'.sessions = After(saved.sessions)
    BY <1>3 DEF Expire, SessionTypes
  <2>2. gone.id = s.id /\ gone.dir = s.dir /\ gone.expired
    BY DEF SessionTypes, SessionsUpTo
  <2> HIDE DEF gone
  <2>3. Known' = After(Known)
    BY <2>1 DEF Known
  <2>4. \A t, u \in Known' : t.id = u.id => t = u
    BY <2>2, <2>3 DEF Accounts
  <2>5. \A t \in Known' : \E u \in Known : u.id = t.id /\ u.dir = t.dir /\ (u.expired => t.expired)
    BY <2>2, <2>3
  <2>6. FileOnly'
    BY <2>1, <2>2 DEF FileOnly, Accounts
  <2> QED
    BY <2>1, <2>4, <2>5, <2>6, AccountsKept
<1>4. ASSUME NEW k \in DOMAIN registry, NEW d \in Dirs, resolveRegisteredWorkspaceTarget(k, d)  PROVE Accounts'
  BY <1>1, <1>4 DEF resolveRegisteredWorkspaceTarget
<1> QED
  BY <1>2, <1>3, <1>4, <1>5

\* A workspace that a session may be of; whatever is registered is one.
Vouched(id) == id \in orphaned \/ (Registered(id) /\ OnFile(id))
Filed == \A id : Registered(id) => Vouched(id)
Belongs == BelongToWorkspaces /\ Filed

\* A step that makes no session keeps them to workspaces if it keeps the workspaces.
LEMMA BelongKept ==
  ASSUME BelongToWorkspaces, \A id : Vouched(id) => Vouched(id)',
         \A t \in Known' : \E s \in Known : s.workspace = t.workspace /\ (s.expired => t.expired)
  PROVE  BelongToWorkspaces'
BY DEF BelongToWorkspaces, Vouched

\* So does one that leaves the registrations alone.
LEMMA SameRegistry ==
  ASSUME Belongs, UNCHANGED <<registry, orphaned>>, saved'.registry = saved.registry,
         \A t \in Known' : \E s \in Known : s.workspace = t.workspace /\ (s.expired => t.expired)
  PROVE  Belongs'
<1>1. \A id : (Registered(id) <=> Registered(id)') /\ (Vouched(id) <=> Vouched(id)')
  BY DEF Registered, OnFile, Vouched
<1> QED
  BY <1>1, BelongKept DEF Belongs, Filed

\* Once the registry is saved, what is registered is vouched for.
LEMMA RegistrySaved ==
  ASSUME NEW gone, registry' \in Seq(Registrations), saved'.registry = Sorted(registry'), Orphans \subseteq orphaned',
         \A id : id \in gone \/ (Registered(id) => Registered(id)')
  PROVE  Filed' /\ \A id : id \in gone \/ (Vouched(id) => Vouched(id)')
<1>1. \A k \in DOMAIN registry' : \E i \in DOMAIN saved'.registry : saved'.registry[i] = registry'[k]
  BY SortedByName
<1>2. \A id : Registered(id)' => OnFile(id)'
  BY <1>1 DEF Registered, OnFile
<1>3. \A id \in orphaned : Registered(id)' \/ id \in orphaned'
  BY DEF Orphans
<1> QED
  BY <1>2, <1>3 DEF Filed, Vouched

\* A registration that goes leaves the others.
LEMMA OneRemoved ==
  ASSUME SessionTypes, NEW id, remove(id)
  PROVE  \A i : (i \in {id} \/ (Registered(i) => Registered(i)')) /\ (Registered(i)' => Registered(i))
<1> DEFINE k == CHOOSE j \in DOMAIN registry : registry[j].id = id
<1>1. k \in DOMAIN registry /\ registry[k].id = id /\ registry' = RemoveAt(registry, k)
  BY DEF Registered, remove
<1> HIDE DEF k
<1>4. registry \in Seq(Registrations)
  BY DEF SessionTypes
<1>5. \A j \in DOMAIN registry \ {k} : \E i \in DOMAIN registry' : registry'[i] = registry[j]
  BY <1>1, <1>4, OthersStay
<1>2. \A j \in DOMAIN registry : registry[j].id = id \/ \E i \in DOMAIN registry' : registry'[i] = registry[j]
  BY <1>1, <1>5
<1>3. \A i \in DOMAIN registry' : \E j \in DOMAIN registry : registry'[i] = registry[j]
  BY <1>1, OthersStay DEF SessionTypes
<1> QED
  BY <1>2, <1>3 DEF Registered

\* A removal keeps the sessions to workspaces, whichever of its saves fails.
LEMMA RemovalBelongs ==
  ASSUME SessionTypes, SessionTypes', Belongs, NEW c \in Commands, RemoveWorkspace(c) \/ EndSome(c)
  PROVE  Belongs'
<1> DEFINE id == commands[c].workspace
<1>1. Known' \subseteq Known
  BY RemovalTypes
<1>2. CASE UNCHANGED <<registry, saved, orphaned>>
  BY <1>1, <1>2, SameRegistry
<1>3. ASSUME remove(id), saved'.registry = Sorted(registry'), Orphans \subseteq orphaned',
             \A t \in Known' : t.expired \/ t.workspace # id \/ id \in orphaned'
      PROVE  Belongs'
  <2>1. \A i : i \in {id} \/ (Registered(i) => Registered(i)')
    BY <1>3, OneRemoved
  <2>2. Filed' /\ \A i : i \in {id} \/ (Vouched(i) => Vouched(i)')
    BY <1>3, <2>1, RegistrySaved DEF SessionTypes
  <2> QED
    BY <1>1, <1>3, <2>2 DEF Belongs, BelongToWorkspaces, Vouched
<1>4. CASE remove(id) /\ UNCHANGED saved /\ orphaned' = orphaned \union {id}
  <2>1. \A i : (i \in {id} \/ (Registered(i) => Registered(i)')) /\ (Registered(i)' => Registered(i))
    BY <1>4, OneRemoved
  <2>2. \A i : Vouched(i) => Vouched(i)'
    BY <1>4, <2>1 DEF Vouched, OnFile
  <2> QED
    BY <1>1, <2>1, <2>2, BelongKept DEF Belongs, Filed
<1>5. CASE RemoveWorkspace(c)
  <2>1. CASE /\ remove(id) /\ sessions' = endByWorkspace(id) /\ saved'.registry = Sorted(registry')
             /\ orphaned' = Orphans \union {s.workspace : s \in {t \in prune(saved'.sessions) \ sessions' : t.workspace = id}}
    <3>1. \A t \in Known' : t.expired \/ t.workspace # id \/ id \in orphaned'
      BY <2>1 DEF Known, endByWorkspace, prune
    <3> QED
      BY <1>3, <2>1, <3>1
  <2>2. CASE /\ remove(id) /\ orphaned' = orphaned \union {id} /\ saved'.registry = Sorted(registry')
    BY <1>3, <2>2 DEF Orphans
  <2> QED
    BY <1>2, <1>4, <1>5, <2>1, <2>2 DEF RemoveWorkspace, SessionTypes
<1>6. CASE EndSome(c)
  BY <1>3, <1>6 DEF EndSome
<1> QED
  BY <1>5, <1>6

\* The steps of a command keep the sessions to workspaces.
LEMMA CommandBelongs ==
  ASSUME SessionTypes, SessionTypes', Belongs, NEW c \in Commands
  PROVE  /\ \A act, d, name : Begin(c, act, d, name) => Belongs'
         /\ Register(c) => Belongs'
         /\ Targets(c) \/ loadBinding(c) \/ Beat(c) \/ saveBinding(c) => Belongs'
         /\ Create(c) => Belongs'
         /\ \A act : ReadBinding(c, act) => Belongs'
         /\ heartbeat(c) \/ End(c) \/ clearBinding(c) \/ resolveRemovalWorkspaceId(c) \/ Fails(c) => Belongs'
<1> USE DEF brokerVars
<1>1. ASSUME UNCHANGED <<registry, orphaned>>, saved'.registry = saved.registry, Known' \subseteq Known  PROVE Belongs'
  BY <1>1, SameRegistry
<1>9. ASSUME UNCHANGED <<registry, sessions, saved, orphaned>>  PROVE Belongs'
  BY <1>1, <1>9 DEF Known
<1>2. \A act, d, name : Begin(c, act, d, name) => Belongs'
  BY <1>9 DEF Begin
<1>3. ASSUME Register(c)  PROVE Belongs'
  <2> DEFINE name == displayName(commands[c].dir, commands[c].name)
             id   == workspaceIdFor(commands[c].dir, name)
             new  == [id |-> id, root |-> commands[c].dir, name |-> name]
  <2>1. /\ registry' = IF Registered(id) THEN registry ELSE Append(registry, new)
        /\ UNCHANGED sessions /\ new.id = id
    BY <1>3 DEF Register, register
  <2>2. \/ saved' = [saved EXCEPT !.registry = Sorted(registry')] /\ orphaned' = Orphans
        \/ saved' = saved /\ orphaned' = orphaned \union {w \in {id} : ~Registered(w)}
    BY <1>3 DEF Register
  <2> HIDE DEF id, new
  <2>3. Known' = Known
    BY <2>1, <2>2 DEF Known, SessionTypes
  <2>4. ASSUME NEW i  PROVE (Registered(i) => Registered(i)') /\ (Registered(i)' => Registered(i) \/ i = id)
    <3>1. CASE Registered(id)
      BY <2>1, <3>1 DEF Registered
    <3>2. CASE ~Registered(id)
      <4>1. /\ registry' = Append(registry, new) /\ Len(registry) \in Nat
            /\ DOMAIN registry = 1..Len(registry) /\ DOMAIN registry' = 1..Len(registry) + 1
            /\ \A k \in 1..Len(registry) : registry'[k] = registry[k]
            /\ registry'[Len(registry) + 1] = new
        BY <2>1, <3>2 DEF SessionTypes
      <4>2. \A k \in DOMAIN registry' : k \in DOMAIN registry \/ registry'[k] = new
        BY <4>1
      <4>3. \A k \in DOMAIN registry : k \in DOMAIN registry'
        BY <4>1
      <4> QED
        BY <2>1, <4>1, <4>2, <4>3 DEF Registered
    <3> QED
      BY <3>1, <3>2
  <2>5. CASE saved' = [saved EXCEPT !.registry = Sorted(registry')] /\ orphaned' = Orphans
    <3>1. saved'.registry = Sorted(registry')
      BY <2>5 DEF SessionTypes
    <3>2. Filed' /\ \A i : Vouched(i) => Vouched(i)'
      <4>0. PICK none : none = {}
        OBVIOUS
      <4>1. \A i : i \in none \/ (Registered(i) => Registered(i)')
        BY <2>4
      <4>2. registry' \in Seq(Registrations)
        BY DEF SessionTypes
      <4>3. Orphans \subseteq orphaned'
        BY <2>5
      <4>4. Filed' /\ \A i : i \in none \/ (Vouched(i) => Vouched(i)')
        BY <3>1, <4>1, <4>2, <4>3, RegistrySaved
      <4> QED
        BY <4>0, <4>4
    <3> QED
      BY <2>3, <3>2, BelongKept DEF Belongs
  <2>6. CASE saved' = saved /\ orphaned' = orphaned \union {w \in {id} : ~Registered(w)}
    <3>1. \A i : Vouched(i) => Vouched(i)'
      BY <2>4, <2>6 DEF Vouched, OnFile
    <3>2. \A i : Registered(i)' => Registered(i) \/ i \in orphaned'
      BY <2>4, <2>6
    <3> QED
      BY <2>3, <3>1, <3>2, BelongKept DEF Belongs, Filed, Vouched
  <2> QED
    BY <2>2, <2>5, <2>6
<1>4. ASSUME Targets(c) \/ loadBinding(c) \/ Beat(c) \/ saveBinding(c)  PROVE Belongs'
  <2>1. CASE Beat(c)
    <3>1. saved'.registry = saved.registry /\ Known' \subseteq Known
      BY <2>1, TouchTypes DEF Beat, Known
    <3> QED
      BY <1>1, <2>1, <3>1 DEF Beat
  <2> QED
    BY <1>4, <1>9, <2>1 DEF Targets, loadBinding, saveBinding
<1>5. ASSUME Create(c)  PROVE Belongs'
  <2>0. PICK id : id = commands[c].workspace
    OBVIOUS
  <2> DEFINE new == [id |-> made + 1, workspace |-> id, dir |-> commands[c].dir, expired |-> FALSE]
  <2>1. UNCHANGED <<registry, orphaned>>
    BY <1>5 DEF Create
  <2>2. CASE UNCHANGED <<sessions, saved>>
    BY <1>9, <2>1, <2>2
  <2>3. CASE /\ Registered(id) /\ sessions' = prune(sessions) \union {new} /\ saved'.registry = saved.registry
             /\ saved'.sessions = sessions' \/ saved'.sessions = Written(prune(sessions))
    <3>1. new.workspace = id
      OBVIOUS
    <3> HIDE DEF new
    <3>2. Written(prune(sessions)) \subseteq Known
      BY WrittenIs DEF Known, prune
    <3>3. sessions' \subseteq Known \union {new} /\ saved'.sessions \subseteq Known \union {new}
      BY <2>3, <3>2 DEF Known, prune
    <3>4. \A s \in Known' : s \in Known \/ s.workspace = id
      BY <3>1, <3>3 DEF Known
    <3>5. \A i : (Registered(i) <=> Registered(i)') /\ (Vouched(i) <=> Vouched(i)')
      BY <2>1, <2>3 DEF Registered, Vouched, OnFile
    <3>6. Vouched(id)' /\ Filed'
      BY <2>3, <3>5 DEF Belongs, Filed
    <3> QED
      BY <3>4, <3>5, <3>6 DEF Belongs, BelongToWorkspaces, Vouched
  <2> QED
    BY <1>5, <2>0, <2>2, <2>3 DEF Create, create, SessionTypes
<1>6. \A act : ReadBinding(c, act) => Belongs'
  BY <1>9 DEF ReadBinding
<1>7. ASSUME heartbeat(c) \/ End(c) \/ clearBinding(c) \/ resolveRemovalWorkspaceId(c) \/ Fails(c)  PROVE Belongs'
  <2>1. CASE heartbeat(c) \/ End(c)
    <3>1. /\ UNCHANGED <<registry, orphaned>>
          /\ \/ touch(commands[c].session) \/ end(commands[c].session)
             \/ sessions' \subseteq sessions /\ saved' = saved
      BY <2>1 DEF heartbeat, End, prune
    <3>2. saved'.registry = saved.registry /\ Known' \subseteq Known
      BY <3>1, TouchTypes DEF Known
    <3> QED
      BY <1>1, <3>1, <3>2
  <2> QED
    BY <1>7, <1>9, <2>1 DEF clearBinding, resolveRemovalWorkspaceId, Fails
<1> QED
  BY <1>2, <1>3, <1>4, <1>5, <1>6, <1>7

\* The steps of the broker and of the user keep the sessions to workspaces.
LEMMA SurroundingBelongs ==
  ASSUME SessionTypes, Belongs
  PROVE  /\ Crash \/ Start \/ Recheck \/ ReadWorktree \/ ChangeDisk => Belongs'
         /\ \A s \in Known : Expire(s) => Belongs'
         /\ \A k \in DOMAIN registry, d \in Dirs : resolveRegisteredWorkspaceTarget(k, d) => Belongs'
<1> USE DEF Local, diskVars, brokerVars
<1>1. ASSUME UNCHANGED <<registry, sessions, saved, orphaned>>  PROVE Belongs'
  BY <1>1, SameRegistry DEF Known
<1>2. Crash \/ Recheck \/ ReadWorktree \/ ChangeDisk => Belongs'
  BY <1>1 DEF Crash, Recheck, ReadWorktree, ChangeDisk
<1>3. ASSUME Start  PROVE Belongs'
  <2>1. registry' = saved.registry /\ UNCHANGED <<saved, orphaned>> /\ Known' \subseteq Known
    BY <1>3 DEF Start, Known
  <2>2. \A id : (Registered(id)' <=> OnFile(id)) /\ (OnFile(id)' <=> OnFile(id))
    BY <2>1 DEF Registered, OnFile
  <2>3. \A id : Vouched(id) => Vouched(id)'
    BY <2>1, <2>2 DEF Vouched
  <2> QED
    BY <2>1, <2>2, <2>3, BelongKept DEF Belongs, Filed, Vouched
<1>4. ASSUME NEW s \in Known, Expire(s)  PROVE Belongs'
  <2> DEFINE gone == [s EXCEPT !.expired = TRUE]
             After(kept) == {IF t = s THEN gone ELSE t : t \in kept}
  <2>1. /\ UNCHANGED <<registry, orphaned>> /\ saved'.registry = saved.registry
        /\ sessions' = After(sessions) /\ saved'.sessions = After(saved.sessions)
    BY <1>4 DEF Expire, SessionTypes
  <2>2. gone.workspace = s.workspace /\ gone.expired
    BY DEF SessionTypes, SessionsUpTo
  <2> HIDE DEF gone
  <2>3. \A t \in Known' : \E u \in Known : u.workspace = t.workspace /\ (u.expired => t.expired)
    BY <2>1, <2>2 DEF Known
  <2> QED
    BY <2>1, <2>3, SameRegistry
<1>5. ASSUME NEW k \in DOMAIN registry, NEW d \in Dirs, resolveRegisteredWorkspaceTarget(k, d)  PROVE Belongs'
  BY <1>1, <1>5 DEF resolveRegisteredWorkspaceTarget
<1> QED
  BY <1>2, <1>3, <1>4, <1>5

\* What a remote call has looked at again is a worktree of its workspace, until the disk changes.
LookedAt ==
  selected # <<>> /\ selected[1].at = "current" => RepositoryOf(disk, selected[1].candidate.root) = selected[1].main

LEMMA RecheckLooks == SessionTypes /\ Recheck => LookedAt'
<1> SUFFICES ASSUME SessionTypes, Recheck, selected' # <<>>
             PROVE  RepositoryOf(disk', selected'[1].candidate.root) = selected'[1].main
  BY DEF LookedAt
<1> DEFINE main == selected[1].main
           w    == selected[1].candidate
<1>1. main \in Dirs /\ w.id = worktreeIdFor(main, w.root)
  BY DEF Recheck, SessionTypes
<1>2. /\ assertDerivedWorktreeCurrent(disk, main, w) /\ disk' = disk
      /\ selected' = <<[selected[1] EXCEPT !.at = "current"]>>
  BY DEF Recheck, diskVars
<1>3. selected'[1].main = main /\ selected'[1].candidate = w
  BY <1>2 DEF SessionTypes, Recheck
<1> HIDE DEF main, w
<1> QED
  BY <1>1, <1>2, <1>3, CurrentIsOwned

\* A disk that changes makes it one that has moved.
LEMMA ChangeMoves == SessionTypes /\ LookedAt /\ ChangeDisk => LookedAt'
<1> SUFFICES ASSUME SessionTypes, ChangeDisk  PROVE selected' = <<>> \/ selected'[1].at # "current"
  BY DEF LookedAt
<1>1. CASE selected # <<>> /\ selected[1].at = "current"
  <2>1. selected' = <<[selected[1] EXCEPT !.at = "moved"]>>
    BY <1>1 DEF ChangeDisk
  <2>2. selected'[1].at = "moved"
    BY <1>1, <2>1 DEF SessionTypes
  <2> QED
    BY <2>2
<1>2. CASE ~(selected # <<>> /\ selected[1].at = "current")
  BY <1>2 DEF ChangeDisk
<1> QED
  BY <1>1, <1>2

\* What every step keeps.
Looks == LookedAt /\ ~strayRead

\* What was looked at again stays a worktree until the disk changes, and it is read as one.
LEMMA LooksKept ==
  ASSUME SessionTypes, Looks
  PROVE  /\ UNCHANGED <<disk, strayRead>> /\ (selected' = selected \/ selected' = <<>>) => Looks'
         /\ ReadWorktree => Looks'
         /\ Recheck \/ ChangeDisk => Looks'
<1>1. UNCHANGED <<disk, strayRead>> /\ (selected' = selected \/ selected' = <<>>) => Looks'
  BY DEF Looks, LookedAt
<1>2. ASSUME ReadWorktree  PROVE Looks'
  <2>1. LookedAt'
    BY <1>2 DEF ReadWorktree, LookedAt
  <2>2. ~(selected[1].at = "current" /\ RepositoryOf(disk, selected[1].candidate.root) # selected[1].main)
    BY <1>2 DEF ReadWorktree, Looks, LookedAt
  <2>3. strayRead' = (strayRead \/ (selected[1].at = "current" /\ RepositoryOf(disk, selected[1].candidate.root) # selected[1].main))
    BY <1>2, Zenon DEF ReadWorktree
  <2>4. ~strayRead'
    BY <2>2, <2>3, Zenon DEF Looks
  <2> QED
    BY <2>1, <2>4 DEF Looks
<1>3. ASSUME Recheck \/ ChangeDisk  PROVE Looks'
  <2>1. strayRead' = strayRead
    BY <1>3 DEF Recheck, ChangeDisk
  <2>2. LookedAt'
    BY <1>3, RecheckLooks, ChangeMoves DEF Looks
  <2> QED
    BY <2>1, <2>2, Zenon DEF Looks
<1> QED
  BY <1>1, <1>2, <1>3

WellKept == SessionTypes /\ Accounts /\ Belongs /\ Looks

\* Types, what each command knows of its directory's sessions, where each session belongs, in memory and
\* on file, and what was last looked at before a remote read: the invariant that the two properties of
\* sessions and worktrees follow from.
THEOREM SessionInvariant == Spec => []WellKept
<1> DEFINE Inv == WellKept
<1>1. Init => Inv
  <2>1. Init => Known = {} /\ Filed /\ Looks
    <3> SUFFICES ASSUME Init PROVE Known = {} /\ Filed /\ Looks
      OBVIOUS
    <3>1. saved.registry = Sorted(registry) /\ registry \in Seq(Registrations)
      BY TypesStart DEF Init, Listed, SessionTypes
    <3>2. \A k \in DOMAIN registry : \E i \in DOMAIN saved.registry : saved.registry[i] = registry[k]
      BY <3>1, SortedByName
    <3>3. Filed
      BY <3>2 DEF Filed, Vouched, Registered, OnFile
    <3> QED
      BY <3>3 DEF Init, Known, Looks, LookedAt
  <2>2. Init => Belongs
    BY <2>1 DEF Belongs, BelongToWorkspaces
  <2> QED
    BY <2>1, <2>2, TypesStart, AccountsStart DEF WellKept
<1>2. Inv /\ [Next]_vars => Inv'
  <2> SUFFICES ASSUME SessionTypes, Accounts, Belongs, Looks, [Next]_vars  PROVE Inv'
    BY DEF WellKept
  <2> USE DEF WellKept
  <2>8. ASSUME UNCHANGED <<disk, strayRead>>, selected' = selected \/ selected' = <<>>  PROVE Looks'
    BY <2>8, LooksKept
  <2>1. ASSUME NEW c \in Commands
        PROVE  /\ \A act \in {"ensure", "heartbeat", "end", "remove"}, d \in Dirs, name \in Names \union {Unnamed} :
                    Begin(c, act, d, name) => Looks'
               /\ \/ Targets(c) \/ Register(c) \/ loadBinding(c) \/ Beat(c) \/ Create(c) \/ saveBinding(c)
                  \/ ReadBinding(c, "heartbeat") \/ heartbeat(c) \/ ReadBinding(c, "end") \/ End(c) \/ clearBinding(c)
                  \/ resolveRemovalWorkspaceId(c) \/ RemoveWorkspace(c) \/ EndSome(c) \/ Fails(c)
                  => Looks'
    BY <2>8 DEF Begin, Targets, Register, loadBinding, Beat, Create, saveBinding, ReadBinding, heartbeat, End, clearBinding,
           resolveRemovalWorkspaceId, RemoveWorkspace, EndSome, Fails, Local, diskVars
  <2>2. ASSUME NEW c \in Commands, NEW act \in {"ensure", "heartbeat", "end", "remove"}, NEW d \in Dirs,
               NEW name \in Names \union {Unnamed}, Begin(c, act, d, name)
        PROVE  Inv'
    <3>1. act \in Operations \ {"none"}
      BY DEF Operations
    <3> QED
      BY <2>1, <2>2, <3>1, CommandTypes, BeginAccounts, CommandBelongs
  <2>3. ASSUME NEW c \in Commands,
               \/ Targets(c) \/ Register(c) \/ loadBinding(c) \/ Beat(c) \/ Create(c) \/ saveBinding(c)
               \/ ReadBinding(c, "heartbeat") \/ heartbeat(c) \/ ReadBinding(c, "end") \/ End(c) \/ clearBinding(c)
               \/ resolveRemovalWorkspaceId(c) \/ RemoveWorkspace(c) \/ EndSome(c) \/ Fails(c)
        PROVE  Inv'
    <3>1. SessionTypes'
      BY <2>3, CommandTypes
    <3>2. Accounts'
      BY <2>3, CommandAccounts, CreateAccounts, BindingAccounts
    <3>3. Belongs'
      BY <2>3, <3>1, CommandBelongs, RemovalBelongs
    <3> QED
      BY <2>1, <2>3, <3>1, <3>2, <3>3
  <2>4. ASSUME Crash \/ Start \/ Recheck \/ ReadWorktree \/ ChangeDisk  PROVE Inv'
    <3>1. ASSUME Crash \/ Start  PROVE Looks'
      BY <2>8, <3>1 DEF Crash, Start, Local, diskVars
    <3>2. ASSUME ReadWorktree \/ Recheck \/ ChangeDisk  PROVE Looks'
      BY <3>2, LooksKept
    <3>3. Looks'
      BY <2>4, <3>1, <3>2
    <3> QED
      BY <2>4, <3>3, SurroundingTypes, SurroundingAccounts, SurroundingBelongs
  <2>5. ASSUME NEW s \in Known, Expire(s)  PROVE Inv'
    <3>1. Looks'
      BY <2>5, <2>8 DEF Expire, Local, diskVars
    <3> QED
      BY <2>5, <3>1, SurroundingTypes, SurroundingAccounts, SurroundingBelongs
  <2>6. ASSUME NEW k \in DOMAIN registry, NEW d \in Dirs, resolveRegisteredWorkspaceTarget(k, d)  PROVE Inv'
    <3>1. Looks'
      BY <2>6 DEF resolveRegisteredWorkspaceTarget, Looks, LookedAt
    <3> QED
      BY <2>6, <3>1, SurroundingTypes, SurroundingAccounts, SurroundingBelongs
  <2>7. ASSUME UNCHANGED vars  PROVE Inv'
    <3>1. Looks'
      BY <2>7, <2>8 DEF vars
    <3>2. Known' = Known /\ Belongs'
      BY <2>7, SameRegistry DEF vars, Known
    <3> QED
      BY <2>7, <3>1, <3>2 DEF vars, SessionTypes, Accounts, OneCommand, Knows, HeldByDirectories, At, Left, IsBound, FileOnly
  <2> QED
    BY <2>2, <2>3, <2>4, <2>5, <2>6, <2>7 DEF Next
<1> QED
  BY <1>1, <1>2, PTL DEF Spec

\* Every live session, in memory or on file, is one of a workspace that is registered in both, or of one
\* whose registration or removal a failed save or a crash cut in half (orphaned); and it is the one its
\* directory is bound to or is about to be, unless the directory is disturbed.
THEOREM SessionsAccounted == Spec => []SessionsAreAccounted
<1>1. WellKept => SessionsAreAccounted
  BY DEF WellKept, Accounts, Belongs, SessionsAreAccounted
<1> QED
  BY <1>1, SessionInvariant, PTL

\* The readers of worktrees fit together on every disk and every registry, and a remote call reads a
\* worktree of its workspace unless the disk changed between its last look and the read.
THEOREM TargetsAlwaysFit == Spec => []TargetsFit
<1>1. ASSUME WellKept  PROVE TargetsFit
  <2> DEFINE derived == UNION {{[main |-> m, candidate |-> w] : w \in derivedWorktrees(disk, m)} : m \in Dirs}
             local   == {[dir |-> d, target |-> resolveLocalTarget(disk, Listed, d)] : d \in Dirs}
  <2>1. ~strayRead /\ IsDisk(disk)
    BY <1>1 DEF WellKept, SessionTypes, Looks
  <2>2. \A v \in derived : \E m \in Dirs : \E w \in derivedWorktrees(disk, m) : v = [main |-> m, candidate |-> w]
    OBVIOUS
  <2>3. \A m \in Dirs : \A w \in derivedWorktrees(disk, m) : [main |-> m, candidate |-> w] \in derived
    OBVIOUS
  <2>4. \A w \in derived : /\ resolveDerivedWorktree(disk, w.main, w.candidate.id) = {w.candidate}
                           /\ \A v \in derived : v.candidate.id = w.candidate.id => v = w
    <3> HIDE DEF derived
    <3>1. ASSUME NEW m \in Dirs, NEW w \in derivedWorktrees(disk, m)
          PROVE  /\ resolveDerivedWorktree(disk, m, w.id) = {w}
                 /\ \A n \in Dirs : \A v \in derivedWorktrees(disk, n) : v.id = w.id => n = m /\ v = w
      BY <2>1, IdsResolve
    <3> QED
      BY <2>2, <3>1
  <2>5. ASSUME NEW d \in Dirs, resolveLocalWorktree(disk, d).kind = "linked"
        PROVE  \E w \in derived : /\ w.main = resolveLocalWorktree(disk, d).main /\ w.candidate.root = d
                                  /\ ~w.candidate.explicit
    <3> HIDE DEF derived
    <3>1. PICK m \in Dirs : \E w \in derivedWorktrees(disk, m) :
                              m = resolveLocalWorktree(disk, d).main /\ w.root = d /\ ~w.explicit
      BY <2>1, <2>5, LocalIsDerived
    <3>2. PICK w \in derivedWorktrees(disk, m) : m = resolveLocalWorktree(disk, d).main /\ w.root = d /\ ~w.explicit
      BY <3>1
    <3> QED
      BY <2>3, <3>2
  <2>6. ASSUME NEW d \in Dirs
        PROVE  LET targets == {l.target : l \in {x \in local : x.dir \in Around[d]}}
                   chosen  == resolveContainingLocalTarget(disk, Listed, d)
               IN  IF chosen.kind = "unregistered" THEN \A t \in targets : t.kind = "unregistered"
                   ELSE chosen \in targets /\ \A t \in targets : t.kind = "unregistered" \/ Depth(t.root) <= Depth(chosen.root)
    <3> DEFINE meant(e) == resolveLocalTarget(disk, Listed, e)
    <3>1. {l.target : l \in {x \in local : x.dir \in Around[d]}} = {meant(e) : e \in Around[d]}
      <4>1. \A x \in local : \E e \in Dirs : x = [dir |-> e, target |-> meant(e)]
        OBVIOUS
      <4>2. \A e \in Around[d] : [dir |-> e, target |-> meant(e)] \in local
        BY DirsAreNested
      <4> HIDE DEF local, meant
      <4>3. ASSUME NEW l \in local, l.dir \in Around[d]  PROVE \E e \in Around[d] : l.target = meant(e)
        BY <4>1, <4>3
      <4>4. ASSUME NEW e \in Around[d]  PROVE \E l \in local : l.dir \in Around[d] /\ l.target = meant(e)
        <5>1. [dir |-> e, target |-> meant(e)].dir = e /\ [dir |-> e, target |-> meant(e)].target = meant(e)
          OBVIOUS
        <5> QED
          BY <4>2, <4>4, <5>1
      <4>5. \A y : y \in {l.target : l \in {x \in local : x.dir \in Around[d]}} <=> y \in {meant(e) : e \in Around[d]}
        BY <4>3, <4>4
      <4> QED
        BY <4>5
    <3> QED
      BY <3>1, NearestTarget
  <2> QED
    BY <2>1, <2>4, <2>5, <2>6 DEF TargetsFit, ReadersAgree
<1> QED
  BY <1>1, SessionInvariant, PTL

-----------------------------------------------------------------------------
(* The console of the manager. *)

Statuses == {"pending", "applied", "closed"}
Views == {"none", "loading", "ready", "unavailable"}
Phases == {"none", "reconcile", "list", "detail", "approve", "finish", "worktrees", "execute", "refresh"}
SomeRequest == Requests \union {Nothing}
Receipts == [id : SomeRequest, status : Statuses \union {"failed", "done", "listed"}, list : SUBSET Requests]
RequestReceipts == [id : Requests, status : Statuses, list : {{}}]

Reads == [phase : {"none", "new", "reading"}, current : BOOLEAN, aborted : BOOLEAN, clean : BOOLEAN]
Ops == [kind : {"none", "requests", "detail", "lifecycle"}, phase : Phases, current : BOOLEAN,
        aborted : BOOLEAN, id : SomeRequest, reply : Receipts \union {Nothing}]
Reviews == [workspace : Workspaces \union {Nothing}, state : Views, requests : SUBSET Requests,
            at : SomeRequest, detail : Views, request : RequestReceipts \union {Nothing}]
Attempts == [id : SomeRequest, state : {"none", "unknown", "resolved"}]

ConsoleTypes ==
  /\ closed \in BOOLEAN /\ timer \in BOOLEAN /\ read \in Reads /\ op \in Ops
  /\ store \in [Requests -> Statuses] /\ approving \subseteq Requests
  /\ selection \in Workspaces \union {Nothing} /\ workspaces \subseteq Workspaces
  /\ review \in Reviews /\ attempt \in Attempts
  /\ attempt.state # "none" => attempt.id \in Requests

\* What the broker was asked about, and what it answered.
Answered ==
  /\ op.phase \in {"detail", "reconcile", "approve"} => op.id \in Requests
  /\ op.phase = "detail" => op.reply \in RequestReceipts \union {Failed, Nothing}
  /\ op.reply # Nothing /\ isTerminal(op.reply.status) =>
       op.reply \in RequestReceipts /\ isTerminal(store[op.reply.id])

\* The next read is scheduled, or the one under way is the one that counts,
\* exactly while no foreground action is at work.
Refreshing ==
  /\ "stale" \notin wrong
  /\ ~closed /\ active = "none" => op.phase = "none"
  /\ read.current => read.clean /\ read.phase # "none"
  /\ timer => read.phase = "none"
  /\ timer \/ read.current => op.phase \in {"none", "refresh"}
  /\ ~closed /\ op.phase \in {"none", "refresh"} => timer \/ read.current

\* No receipt is outstanding but that of an attempt whose outcome is unknown.
Outstanding ==
  /\ "doubled" \notin wrong
  /\ unread \subseteq IF attempt.state = "unknown" THEN {attempt.id} ELSE {}
  /\ attempt.state = "resolved" => isTerminal(store[attempt.id])

Console == ConsoleTypes /\ Answered /\ Refreshing /\ Outstanding
-----------------------------------------------------------------------------
(* What the shared parts of the actions do.                                *)

\* What the broker may answer.
LEMMA ReceiptTypes ==
  /\ \A r \in Requests, s \in Statuses : Receipt(r, s) \in RequestReceipts
  /\ RequestReceipts \subseteq Receipts /\ Failed \in Receipts /\ ~isTerminal(Failed.status)
  /\ Receipt(Nothing, "done") \in Receipts /\ ~isTerminal(Receipt(Nothing, "done").status)
  /\ \A list \in SUBSET Requests : Listing(list) \in Receipts /\ ~isTerminal(Listing(list).status)
BY DEF Receipt, Statuses, RequestReceipts, Receipts, SomeRequest, Failed, Listing, isTerminal

\* A foreground action takes the timer and the read over, and has no answer yet.
LEMMA ForegroundEffect ==
  ASSUME ConsoleTypes, NEW kind \in {"requests", "detail", "lifecycle"}, NEW phase \in Phases,
         NEW id \in SomeRequest, Foreground(kind, phase, id)
  PROVE  /\ timer' = FALSE /\ read' \in Reads /\ ~read'.current /\ active' = kind
         /\ op' \in Ops /\ op'.phase = phase /\ op'.id = id /\ op'.reply = Nothing
<1>1. op' \in Ops /\ op'.phase = phase /\ op'.id = id /\ op'.reply = Nothing
  BY DEF Foreground, NoOp, Ops, Phases, SomeRequest
<1>2. read' \in Reads /\ ~read'.current
  BY DEF Foreground, beginForegroundAction, NoRead, Reads, ConsoleTypes
<1> QED
  BY <1>1, <1>2 DEF Foreground, beginForegroundAction

\* An operation that moves on keeps what it is about and forgets the answer.
LEMMA ToEffect ==
  ASSUME op \in Ops, NEW phase \in Phases
  PROVE  To(phase) \in Ops /\ To(phase).phase = phase /\ To(phase).id = op.id
         /\ To(phase).reply = Nothing
BY DEF To, Ops

\* The console shows another selection: the review may be dropped, and the
\* operation only loses its right to show.
LEMMA PatchEffect ==
  ASSUME ConsoleTypes, NEW sel \in Workspaces \union {Nothing}, NEW wss \in SUBSET Workspaces,
         NEW then \in Ops, patch(sel, wss, then)
  PROVE  /\ op' \in Ops /\ op'.phase = then.phase /\ op'.id = then.id /\ op'.reply = then.reply
         /\ review' \in {review, NoReview}
         /\ selection' \in Workspaces \union {Nothing} /\ workspaces' \subseteq Workspaces
<1>1. op' \in Ops /\ op'.phase = then.phase /\ op'.id = then.id /\ op'.reply = then.reply
  BY DEF patch, Ops
<1>2. review' \in {review, NoReview}
  BY DEF patch, target
<1>3. selection' \in Workspaces \union {Nothing} /\ workspaces' \subseteq Workspaces
  BY DEF patch, target, ConsoleTypes
<1> QED
  BY <1>1, <1>2, <1>3

\* A status is accepted as such a change.
LEMMA AcceptEffect ==
  ASSUME ConsoleTypes, NEW wss \in SUBSET Workspaces, NEW then \in Ops, acceptStatus(wss, then)
  PROVE  /\ op' \in Ops /\ op'.phase = then.phase /\ op'.id = then.id /\ op'.reply = then.reply
         /\ review' \in {review, NoReview}
         /\ selection' \in Workspaces \union {Nothing} /\ workspaces' \subseteq Workspaces
<1>1. PICK sel \in Workspaces \union {Nothing} : patch(sel, wss, then)
  BY DEF acceptStatus
<1> QED
  BY <1>1, PatchEffect

\* A review that is empty, or loading, or back at its list, is one.
LEMMA ReviewEffects ==
  ASSUME review \in Reviews
  PROVE  /\ NoReview \in Reviews
         /\ \A w \in Workspaces \union {Nothing} :
              [NoReview EXCEPT !.workspace = w, !.state = "loading"] \in Reviews
         /\ [review EXCEPT !.detail = "loading", !.request = Nothing] \in Reviews
         /\ [review EXCEPT !.detail = "none", !.request = Nothing] \in Reviews
         /\ [review EXCEPT !.detail = "unavailable"] \in Reviews
         /\ \A r \in review.requests : [review EXCEPT !.at = r] \in Reviews
         /\ \A receipt \in RequestReceipts :
              /\ [review EXCEPT !.request = receipt] \in Reviews
              /\ [review EXCEPT !.detail = "ready", !.request = receipt] \in Reviews
         /\ \A at \in SomeRequest, list \in SUBSET Requests :
              /\ [review EXCEPT !.state = "ready", !.requests = list, !.at = at] \in Reviews
              /\ [review EXCEPT !.state = "unavailable", !.requests = {}, !.at = at] \in Reviews
BY DEF NoReview, Reviews, Views, SomeRequest
-----------------------------------------------------------------------------
(* What each part of the invariant needs of a step.                        *)

\* Requests that were settled stay so.
SettledStay == \A r \in Requests : isTerminal(store[r]) => isTerminal(store'[r])
SameQuestion == op'.phase = op.phase /\ op'.id = op.id /\ op'.reply = op.reply

\* The answer stays true while the question does.
LEMMA AnsweredStays ==
  ASSUME ConsoleTypes, Answered, SameQuestion, SettledStay
  PROVE  Answered'
BY DEF SameQuestion, SettledStay, Answered, RequestReceipts

\* A new question has no answer yet.
LEMMA AnsweredMoves ==
  ASSUME op'.reply = Nothing, op'.phase \in {"detail", "reconcile", "approve"} => op'.id \in Requests
  PROVE  Answered'
BY DEF Answered

\* Steps that leave the read alone, of an operation that is at work or stays
\* where it is.
LEMMA RefreshingStays ==
  ASSUME Refreshing, UNCHANGED <<closed, active, read, timer>>, "stale" \notin wrong',
         op'.phase = op.phase \/ {op.phase, op'.phase} \intersect {"none", "refresh"} = {}
  PROVE  Refreshing'
BY DEF Refreshing

\* A foreground action supersedes the read.
LEMMA RefreshingYields ==
  ASSUME timer' = FALSE, ~read'.current, active' # "none", op'.phase \notin {"none", "refresh"},
         "stale" \notin wrong'
  PROVE  Refreshing'
BY DEF Refreshing

\* Nothing is sent and no receipt is read.
LEMMA OutstandingStays ==
  ASSUME ConsoleTypes, Outstanding, UNCHANGED <<unread, attempt>>, "doubled" \notin wrong', SettledStay
  PROVE  Outstanding'
BY DEF ConsoleTypes, Outstanding, SettledStay, Attempts

-----------------------------------------------------------------------------
(* The steps.                                                              *)

\* Requests are settled, worked on and answered.
LEMMA BrokerSteps ==
  ASSUME Console, Answer \/ \E r \in Requests : Settle(r) \/ Approve(r)
  PROVE  Console'
<1> USE DEF Console, broker, target, asked, polling, ghosts
<1>1. /\ UNCHANGED <<closed, timer, read, selection, workspaces, review, attempt, active, unread, wrong>>
      /\ approving' \subseteq approving /\ op'.phase = op.phase /\ op'.id = op.id
  BY DEF Answer, Settle, Approve, ConsoleTypes, Ops
<1>2. store' \in [Requests -> Statuses] /\ SettledStay
  <2>1. ASSUME NEW r \in Requests, Settle(r) PROVE store' \in [Requests -> Statuses] /\ SettledStay
    BY <2>1 DEF Settle, ConsoleTypes, Statuses, SettledStay, isTerminal
  <2>2. ASSUME NEW r \in Requests, Approve(r) PROVE store' \in [Requests -> Statuses] /\ SettledStay
    <3>1. PICK status \in Statuses :
            /\ store' = [store EXCEPT ![r] = status]
            /\ store[r] # "pending" => status = store[r]
      BY <2>2 DEF Approve, ConsoleTypes, Statuses
    <3> QED
      BY <3>1 DEF ConsoleTypes, SettledStay, isTerminal
  <2>3. CASE Answer
    BY <2>3 DEF Answer, ConsoleTypes, SettledStay
  <2> QED
    BY <2>1, <2>2, <2>3
<1>3. op' \in Ops /\ Answered'
  <2>1. ASSUME NEW r \in Requests, Settle(r) PROVE op' \in Ops /\ Answered'
    BY <1>2, <2>1, AnsweredStays DEF Settle, ConsoleTypes, SameQuestion
  <2>2. ASSUME NEW r \in Requests, Approve(r) PROVE op' \in Ops /\ Answered'
    <3>1. CASE op' = op
      BY <1>2, <3>1, AnsweredStays DEF ConsoleTypes, SameQuestion
    <3>2. CASE op' # op
      <4>1. PICK reply \in Receipts :
              /\ op.phase = "approve" /\ op' = [op EXCEPT !.reply = reply]
              /\ isTerminal(reply.status) => reply \in RequestReceipts /\ isTerminal(store'[reply.id])
        <5>1. PICK status \in Statuses :
                /\ store' = [store EXCEPT ![r] = status]
                /\ op' = IF op.phase = "approve" /\ op.reply = Nothing /\ op.id = r
                         THEN [op EXCEPT !.reply = IF store[r] = "pending" /\ isTerminal(status)
                                                   THEN Receipt(r, status) ELSE Failed] ELSE op
          BY <2>2 DEF Approve, ConsoleTypes, Statuses
        <5>2. store'[r] = status /\ Receipt(r, status).id = r
          BY <5>1 DEF ConsoleTypes, Receipt
        <5>3. CASE store[r] = "pending" /\ isTerminal(status)
          <6>1. Receipt(r, status) \in RequestReceipts /\ isTerminal(store'[Receipt(r, status).id])
            BY <5>2, <5>3, ReceiptTypes
          <6> QED
            BY <3>2, <5>1, <5>3, <6>1, ReceiptTypes
        <5>4. CASE ~(store[r] = "pending" /\ isTerminal(status))
          BY <3>2, <5>1, <5>4, ReceiptTypes
        <5> QED
          BY <5>3, <5>4
      <4> QED
        BY <4>1 DEF ConsoleTypes, Ops, Answered
    <3> QED
      BY <3>1, <3>2
  <2>3. CASE Answer
    <3>1. PICK reply \in {Failed} \union
             (CASE op.phase = "list" -> {Listing({r \in Requests : WorkspaceOf[r] = review.workspace /\ store[r] = "pending"})}
                [] op.phase \in {"detail", "reconcile"} -> {Receipt(op.id, store[op.id])}
                [] op.phase \in {"execute", "worktrees"} -> {Receipt(Nothing, "done")}
                [] OTHER -> {}) :
           op' = [op EXCEPT !.reply = reply]
      BY <2>3 DEF Answer
    <3>2. CASE reply = Failed
      BY <3>1, <3>2, ReceiptTypes DEF ConsoleTypes, Ops, Answered
    <3>3. CASE reply # Failed /\ op.phase \in {"detail", "reconcile"}
      <4>1. reply = Receipt(op.id, store[op.id])
        BY <3>1, <3>3
      <4>2. reply \in RequestReceipts /\ reply.id = op.id /\ reply.status = store[op.id] /\ store' = store
        BY <2>3, <3>3, <4>1, ReceiptTypes DEF Answer, Answered, ConsoleTypes, Receipt
      <4> QED
        BY <3>1, <3>3, <4>2, ReceiptTypes DEF ConsoleTypes, Ops, Answered
    <3>4. CASE reply # Failed /\ op.phase \notin {"detail", "reconcile"}
      <4>1. reply \in Receipts /\ ~isTerminal(reply.status)
        <5>1. {r \in Requests : WorkspaceOf[r] = review.workspace /\ store[r] = "pending"} \in SUBSET Requests
          OBVIOUS
        <5> QED
          BY <3>1, <3>4, <5>1, ReceiptTypes
      <4> QED
        BY <3>1, <3>4, <4>1 DEF ConsoleTypes, Ops, Answered
    <3> QED
      BY <3>2, <3>3, <3>4
  <2> QED
    BY <2>1, <2>2, <2>3
<1>4. ConsoleTypes'
  BY <1>1, <1>2, <1>3 DEF ConsoleTypes
<1> QED
  BY <1>1, <1>2, <1>3, <1>4, RefreshingStays, OutstandingStays DEF Refreshing, Outstanding

\* The user moves about: what is shown changes, and what an operation may show.
LEMMA ViewSteps ==
  ASSUME Console,
         \/ \E w \in Workspaces : selectWorkspace(w)
         \/ \E r \in Requests : moveSelection(r)
         \/ back \/ requestApproval \/ cancelConfirmation \/ closeWorkspaceDetail
  PROVE  Console'
<1> USE DEF Console, broker, target, asked, polling, ghosts
<1>1. UNCHANGED <<closed, timer, read, active, store, approving, attempt, unread, wrong>>
  BY DEF selectWorkspace, moveSelection, back, requestApproval, cancelConfirmation, closeWorkspaceDetail
<1>2. /\ op' \in Ops /\ SameQuestion /\ review' \in Reviews
      /\ selection' \in Workspaces \union {Nothing} /\ workspaces' \subseteq Workspaces
  <2>1. ASSUME NEW w \in Workspaces, selectWorkspace(w)
        PROVE  /\ op' \in Ops /\ SameQuestion /\ review' \in Reviews
               /\ selection' \in Workspaces \union {Nothing} /\ workspaces' \subseteq Workspaces
    BY <2>1, PatchEffect, ReviewEffects DEF selectWorkspace, ConsoleTypes, SameQuestion
  <2>2. ASSUME NEW r \in Requests, moveSelection(r) PROVE review' \in Reviews
    BY <2>2, ReviewEffects DEF moveSelection, ConsoleTypes
  <2>3. CASE back
    BY <2>3, ReviewEffects DEF back, invalidate, ConsoleTypes, Ops, SameQuestion
  <2>4. CASE closeWorkspaceDetail
    BY <2>4 DEF closeWorkspaceDetail, ConsoleTypes, Ops, SameQuestion
  <2> QED
    BY <2>1, <2>2, <2>3, <2>4 DEF moveSelection, requestApproval, cancelConfirmation, ConsoleTypes, SameQuestion
<1>3. SettledStay /\ ConsoleTypes'
  BY <1>1, <1>2 DEF SettledStay, ConsoleTypes
<1> QED
  BY <1>1, <1>2, <1>3, AnsweredStays, RefreshingStays, OutstandingStays
     DEF Refreshing, Outstanding, SameQuestion

\* The status read is made, ends or is superseded, and the console is closed.
LEMMA ReadSteps ==
  ASSUME Console,
         Poll \/ runRead \/ endRead("value") \/ endRead("error") \/ refreshOverview \/ refreshAfter \/ close
  PROVE  Console'
<1> USE DEF Console, broker, target, asked, polling, ghosts
<1>1. /\ UNCHANGED <<store, approving, attempt, unread>> /\ SettledStay /\ "doubled" \notin wrong'
  BY DEF Poll, runRead, endRead, refreshOverview, refreshAfter, close, SettledStay, Outstanding
<1>2. NewRead \in Reads /\ NewRead.current /\ NewRead.clean /\ NewRead.phase = "new"
      /\ NoRead \in Reads /\ ~NoRead.current /\ NoRead.phase = "none"
  BY DEF NewRead, NoRead, Reads
<1>3. Outstanding'
  BY <1>1, OutstandingStays
<1>4. ASSUME op' = op, UNCHANGED <<selection, workspaces, review>>, timer' \in BOOLEAN, read' \in Reads,
             closed' \in BOOLEAN
      PROVE  ConsoleTypes' /\ Answered'
  BY <1>1, <1>4, AnsweredStays DEF ConsoleTypes, SameQuestion
<1>5. CASE Poll \/ refreshOverview
  <2>1. /\ op' = op /\ UNCHANGED <<closed, active, selection, workspaces, review, wrong>>
        /\ closed = FALSE /\ timer' = FALSE /\ read' = IF read.phase = "none" THEN NewRead ELSE read
        /\ timer \/ active = "none"
    BY <1>5 DEF Poll, refreshOverview, refresh, Free
  <2>2. op.phase \in {"none", "refresh"}
    BY <2>1 DEF Refreshing
  <2>3. Refreshing'
    BY <1>2, <2>1, <2>2 DEF Refreshing
  <2> QED
    BY <1>2, <1>3, <1>4, <2>1, <2>3 DEF ConsoleTypes
<1>6. CASE runRead
  <2>1. /\ op' = op /\ UNCHANGED <<closed, active, selection, workspaces, review, wrong, timer>>
        /\ read.phase = "new" /\ read' = [read EXCEPT !.phase = "reading"]
    BY <1>6 DEF runRead
  <2>2. read' \in Reads /\ read'.current = read.current /\ read'.clean = read.clean
        /\ read'.phase = "reading"
    BY <2>1 DEF ConsoleTypes, Reads
  <2>3. Refreshing'
    BY <2>1, <2>2 DEF Refreshing
  <2> QED
    BY <1>3, <1>4, <2>1, <2>2, <2>3 DEF ConsoleTypes
<1>7. ASSUME NEW result \in {"value", "error"}, endRead(result) PROVE Console'
  <2>1. /\ read' = NoRead /\ timer' = (timer \/ (~closed /\ read.current)) /\ UNCHANGED <<closed, active>>
    BY <1>7 DEF endRead
  <2>2. /\ op' \in Ops /\ SameQuestion /\ review' \in Reviews
        /\ selection' \in Workspaces \union {Nothing} /\ workspaces' \subseteq Workspaces
    <3>1. op \in Ops /\ NoReview \in Reviews
      BY ReviewEffects DEF ConsoleTypes
    <3> QED
      BY <1>7, <3>1, AcceptEffect DEF endRead, ConsoleTypes, SameQuestion
  <2>3. "stale" \notin wrong'
    BY <1>7 DEF endRead, Refreshing
  <2>4. ConsoleTypes' /\ Answered'
    BY <1>1, <1>2, <2>1, <2>2, AnsweredStays DEF ConsoleTypes
  <2>5. Refreshing'
    BY <1>2, <2>1, <2>2, <2>3 DEF Refreshing, SameQuestion
  <2> QED
    BY <1>3, <2>4, <2>5
<1>8. CASE refreshAfter
  <2>1. UNCHANGED <<closed, selection, workspaces, review, wrong>> /\ refreshAfterAction
    BY <1>8 DEF refreshAfter
  <2>2. NoOp \in Ops /\ NoOp.phase = "none" /\ NoOp.reply = Nothing
    BY DEF NoOp, Ops, Phases, SomeRequest
  <2>3. CASE op.phase = "finish" /\ closed /\ op' = NoOp /\ UNCHANGED <<active, polling>>
    <3>1. ConsoleTypes' /\ Answered'
      BY <1>1, <2>1, <2>2, <2>3, AnsweredMoves DEF ConsoleTypes
    <3>2. Refreshing'
      BY <2>1, <2>2, <2>3 DEF Refreshing
    <3> QED
      BY <1>3, <3>1, <3>2
  <2>4. CASE /\ op.phase = "finish" /\ ~closed /\ read.phase = "none" /\ refresh
             /\ op' = To("refresh") /\ UNCHANGED active
    <3>1. op' \in Ops /\ op'.phase = "refresh" /\ op'.reply = Nothing
      BY <2>4, ToEffect DEF ConsoleTypes, Phases
    <3>2. timer' = FALSE /\ read' = NewRead
      BY <2>4 DEF refresh
    <3>3. ConsoleTypes' /\ Answered'
      BY <1>1, <1>2, <2>1, <3>1, <3>2, AnsweredMoves DEF ConsoleTypes
    <3>4. Refreshing'
      BY <1>2, <2>1, <2>4, <3>1, <3>2 DEF Refreshing
    <3> QED
      BY <1>3, <3>3, <3>4
  <2>5. CASE /\ op.phase = "refresh" /\ (closed \/ read.phase = "none")
             /\ op' = NoOp /\ active' = "none" /\ UNCHANGED polling
    <3>1. ConsoleTypes' /\ Answered'
      BY <1>1, <2>1, <2>2, <2>5, AnsweredMoves DEF ConsoleTypes
    <3>2. Refreshing'
      BY <2>1, <2>2, <2>5 DEF Refreshing
    <3> QED
      BY <1>3, <3>1, <3>2
  <2> QED
    BY <2>1, <2>3, <2>4, <2>5 DEF refreshAfterAction
<1>9. CASE close
  <2>1. /\ closed' = TRUE /\ timer' = FALSE /\ UNCHANGED <<selection, workspaces, review, wrong>>
        /\ read' = [read EXCEPT !.aborted = TRUE] /\ op' = [op EXCEPT !.aborted = TRUE]
    BY <1>9 DEF close
  <2>2. read' \in Reads /\ read'.current = read.current /\ read'.clean = read.clean
        /\ read'.phase = read.phase
    BY <2>1 DEF ConsoleTypes, Reads
  <2>3. op' \in Ops /\ SameQuestion
    BY <2>1 DEF ConsoleTypes, Ops, SameQuestion
  <2>4. ConsoleTypes' /\ Answered'
    BY <1>1, <2>1, <2>2, <2>3, AnsweredStays DEF ConsoleTypes
  <2>5. Refreshing'
    BY <2>1, <2>2, <2>3 DEF Refreshing, SameQuestion
  <2> QED
    BY <1>3, <2>4, <2>5
<1> QED
  BY <1>5, <1>6, <1>7, <1>8, <1>9

\* What a foreground action that begins keeps, when it changes no attempt.
LEMMA Beginning ==
  ASSUME Console, NEW kind \in {"requests", "detail", "lifecycle"},
         NEW phase \in Phases \ {"none", "refresh"}, NEW id \in SomeRequest,
         phase \in {"detail", "reconcile", "approve"} => id \in Requests,
         Foreground(kind, phase, id),
         UNCHANGED <<closed, store, selection, workspaces, wrong>>, review' \in Reviews
  PROVE  /\ Answered' /\ Refreshing'
         /\ UNCHANGED <<approving, attempt>> => ConsoleTypes'
         /\ UNCHANGED <<attempt, unread>> => Outstanding'
<1> USE DEF Console
<1>1. /\ timer' = FALSE /\ read' \in Reads /\ ~read'.current /\ active' = kind
      /\ op' \in Ops /\ op'.phase = phase /\ op'.id = id /\ op'.reply = Nothing
  BY ForegroundEffect
<1>2. SettledStay /\ Answered'
  BY <1>1, AnsweredMoves DEF SettledStay
<1>3. Refreshing'
  BY <1>1, RefreshingYields DEF Refreshing
<1>4. UNCHANGED <<approving, attempt>> => ConsoleTypes'
  BY <1>1 DEF ConsoleTypes
<1>5. UNCHANGED <<attempt, unread>> => Outstanding'
  BY <1>2, OutstandingStays DEF Outstanding
<1> QED
  BY <1>2, <1>3, <1>4, <1>5

\* Foreground actions begin: an approval only when no receipt is outstanding.
LEMMA BeginSteps ==
  ASSUME Console,
         \/ openQueue \/ openDetail \/ confirmApproval \/ reconcile \/ openWorkspaceDetail
         \/ \E asks \in BOOLEAN : perform(asks)
         \/ confirmPendingAction
  PROVE  Console'
<1> USE DEF Console, broker, target, asked, polling, ghosts
<1>1. /\ \A w \in Workspaces \union {Nothing} :
           [NoReview EXCEPT !.workspace = w, !.state = "loading"] \in Reviews
      /\ [review EXCEPT !.detail = "loading", !.request = Nothing] \in Reviews
      /\ review \in Reviews /\ attempt.id \in SomeRequest /\ Nothing \in SomeRequest
      /\ attempt.state = "unknown" => attempt.id \in Requests
  BY ReviewEffects DEF ConsoleTypes, Attempts, SomeRequest
<1>2. {"reconcile", "list", "detail", "approve", "finish", "worktrees", "execute"}
        = Phases \ {"none", "refresh"}
  BY DEF Phases
<1>3. CASE openQueue
  <2>1. /\ UNCHANGED <<closed, store, selection, workspaces, wrong, approving, attempt, unread>>
        /\ review' \in Reviews
    BY <1>1, <1>3 DEF openQueue, ConsoleTypes
  <2>2. PICK phase \in {"reconcile", "list"} :
          Foreground("requests", phase, attempt.id) /\ (phase = "reconcile" => attempt.state = "unknown")
    BY <1>3 DEF openQueue
  <2> QED
    BY <1>1, <1>2, <2>1, <2>2, Beginning
<1>4. CASE openDetail
  <2>1. /\ UNCHANGED <<closed, store, selection, workspaces, wrong, approving, attempt, unread>>
        /\ review' \in Reviews /\ Foreground("requests", "detail", review.at) /\ review.at \in Requests
    BY <1>1, <1>4 DEF openDetail, Reviews, SomeRequest
  <2> QED
    BY <1>1, <1>2, <2>1, Beginning DEF SomeRequest
<1>5. CASE \/ reconcile \/ openWorkspaceDetail
           \/ (\E asks \in BOOLEAN : perform(asks)) \/ confirmPendingAction
  <2>1. UNCHANGED <<closed, store, selection, workspaces, wrong, approving, attempt, unread, review>>
    BY <1>5 DEF reconcile, openWorkspaceDetail, perform, confirmPendingAction
  <2>2. \/ attempt.state = "unknown" /\ Foreground("requests", "reconcile", attempt.id)
        \/ Foreground("detail", "worktrees", Nothing)
        \/ Foreground("lifecycle", "execute", Nothing)
        \/ UNCHANGED <<active, op, polling>>
    BY <1>5 DEF reconcile, openWorkspaceDetail, perform, confirmPendingAction
  <2>3. CASE UNCHANGED <<active, op, polling>>
    <3>1. ConsoleTypes' /\ SettledStay /\ SameQuestion
      BY <2>1, <2>3 DEF ConsoleTypes, SettledStay, SameQuestion
    <3> QED
      BY <2>1, <2>3, <3>1, AnsweredStays, RefreshingStays, OutstandingStays DEF Refreshing, Outstanding
  <2> QED
    BY <1>1, <1>2, <2>1, <2>2, <2>3, Beginning
<1>6. CASE confirmApproval
  <2>1. UNCHANGED <<closed, store, selection, workspaces, review>>
    BY <1>6 DEF confirmApproval
  <2>2. CASE UNCHANGED <<active, op, attempt, approving, polling, ghosts>>
    <3>1. ConsoleTypes' /\ SettledStay /\ SameQuestion
      BY <2>1, <2>2 DEF ConsoleTypes, SettledStay, SameQuestion
    <3> QED
      BY <2>1, <2>2, <3>1, AnsweredStays, RefreshingStays, OutstandingStays DEF Refreshing, Outstanding
  <2>3. CASE ~UNCHANGED <<active, op, attempt, approving, polling, ghosts>>
    <3> DEFINE r == review.request.id
    <3>1. /\ attempt.state # "unknown"
          /\ \/ Foreground("requests", "approve", r) /\ Dispatch(r)
             \/ Foreground("requests", "finish", r) /\ UNCHANGED <<attempt, approving, ghosts>>
      BY <1>6, <2>3 DEF confirmApproval
    <3>2. r \in Requests
      BY <1>6, <2>3 DEF confirmApproval, ConsoleTypes, Reviews, RequestReceipts
    <3> HIDE DEF r
    <3>3. CASE Foreground("requests", "finish", r) /\ UNCHANGED <<attempt, approving, ghosts>>
      BY <1>1, <1>2, <2>1, <3>2, <3>3, Beginning DEF SomeRequest
    <3>4. CASE Foreground("requests", "approve", r) /\ Dispatch(r)
      <4>1. /\ attempt' = [id |-> r, state |-> "unknown"] /\ unread' = {r} /\ wrong' = wrong
            /\ approving' = approving \union {r}
        BY <3>1, <3>4 DEF Dispatch, Outstanding
      <4>2. Answered' /\ Refreshing'
        BY <1>1, <1>2, <2>1, <3>2, <3>4, <4>1, Beginning DEF SomeRequest
      <4>3. op' \in Ops /\ timer' = FALSE /\ read' \in Reads
        BY <1>2, <3>2, <3>4, ForegroundEffect DEF SomeRequest
      <4>4. attempt' \in Attempts
        BY <3>2, <4>1 DEF Attempts, SomeRequest
      <4>5. ConsoleTypes'
        BY <2>1, <3>2, <4>1, <4>3, <4>4 DEF ConsoleTypes
      <4>6. Outstanding'
        BY <4>1 DEF Outstanding
      <4> QED
        BY <4>2, <4>5, <4>6
    <3> QED
      BY <3>1, <3>3, <3>4
  <2> QED
    BY <2>2, <2>3
<1> QED
  BY <1>3, <1>4, <1>5, <1>6

\* A terminal receipt settles the attempt it is about; no other one does.
LEMMA AcceptingReceipt ==
  ASSUME ConsoleTypes, Outstanding, UNCHANGED <<store, wrong>>, NEW receipt, acceptReceipt(receipt),
         isTerminal(receipt.status) => receipt \in RequestReceipts /\ isTerminal(store[receipt.id])
  PROVE  /\ Outstanding' /\ attempt' \in Attempts
         /\ attempt'.state # "none" => attempt'.id \in Requests
         /\ attempt'.id = attempt.id
<1>1. /\ unread' = unread \ {r \in unread : r = receipt.id /\ isTerminal(receipt.status)}
      /\ attempt' = IF ~closed /\ receipt.id = attempt.id /\ isTerminal(receipt.status)
                    THEN [attempt EXCEPT !.state = "resolved"] ELSE attempt
  BY DEF acceptReceipt
<1>2. CASE attempt' = attempt
  BY <1>1, <1>2 DEF ConsoleTypes, Outstanding
<1>3. CASE attempt' # attempt
  <2>1. /\ receipt.id = attempt.id /\ isTerminal(receipt.status) /\ receipt.id \in Requests
        /\ attempt' = [attempt EXCEPT !.state = "resolved"]
    BY <1>1, <1>3 DEF RequestReceipts
  <2>2. attempt' \in Attempts /\ attempt'.id = attempt.id /\ attempt'.state = "resolved"
    BY <2>1 DEF ConsoleTypes, Attempts
  <2>3. unread' = {}
    BY <1>1, <2>1 DEF Outstanding
  <2> QED
    BY <2>1, <2>2, <2>3 DEF Outstanding
<1> QED
  BY <1>2, <1>3

\* An operation at work goes on, and what it is about is known.
LEMMA Proceeding ==
  ASSUME ConsoleTypes, Answered, Refreshing, UNCHANGED <<closed, active, read, timer, wrong>>,
         NEW phase \in {"reconcile", "list", "finish"},
         op.phase \notin {"none", "refresh"}, phase = "reconcile" => op.id \in Requests,
         op' \in Ops, op'.phase = phase, op'.id = op.id, op'.reply = Nothing
  PROVE  Answered' /\ Refreshing'
<1>1. Answered'
  BY AnsweredMoves
<1>2. Refreshing'
  BY RefreshingStays DEF Refreshing
<1> QED
  BY <1>1, <1>2

\* Answers are read.
LEMMA ReplySteps ==
  ASSUME Console, Approved \/ Reconciled \/ ListRead \/ DetailRead \/ WorktreesRead \/ execute
  PROVE  Console'
<1> USE DEF Console, broker, target, asked, polling, ghosts
<1>1. /\ UNCHANGED <<closed, active, read, timer, store, approving, wrong>>
      /\ op.phase \in {"approve", "reconcile", "list", "detail", "worktrees", "execute"}
      /\ op.reply # Nothing
  BY DEF Approved, Reconciled, ListRead, DetailRead, WorktreesRead, execute, Ready
<1>2. \A phase \in Phases : /\ To(phase) \in Ops /\ To(phase).phase = phase
                            /\ To(phase).id = op.id /\ To(phase).reply = Nothing
  BY ToEffect DEF ConsoleTypes
<1>3. isTerminal(op.reply.status) => op.reply \in RequestReceipts /\ isTerminal(store[op.reply.id])
  BY <1>1 DEF Answered
<1>4. SettledStay
  BY <1>1 DEF SettledStay
<1>5. Shown(op.reply) => review' \in Reviews
  BY <1>3, ReviewEffects DEF Shown, ConsoleTypes
<1>6. CASE Approved \/ Reconciled
  <2>1. /\ review' \in Reviews /\ UNCHANGED <<selection, workspaces>>
        /\ op.phase \in {"approve", "reconcile"}
        /\ \E phase \in {"reconcile", "list", "finish"} : op' = To(phase)
    BY <1>5, <1>6 DEF Approved, Reconciled, ConsoleTypes, Ready
  <2>2. op.id \in Requests
    BY <2>1 DEF Answered
  <2>3. op' \in Ops /\ Answered' /\ Refreshing'
    BY <1>1, <1>2, <2>1, <2>2, Proceeding DEF Phases
  <2>4. acceptReceipt(op.reply) \/ UNCHANGED <<unread, attempt>>
    BY <1>6 DEF Approved, Reconciled
  <2>5. Outstanding' /\ attempt' \in Attempts /\ (attempt'.state # "none" => attempt'.id \in Requests)
    <3>1. CASE UNCHANGED <<unread, attempt>>
      BY <1>1, <1>4, <3>1, OutstandingStays DEF ConsoleTypes, Outstanding
    <3>2. CASE acceptReceipt(op.reply)
      BY <1>1, <1>3, <3>2, AcceptingReceipt
    <3> QED
      BY <2>4, <3>1, <3>2
  <2> QED
    BY <1>1, <2>1, <2>3, <2>5 DEF ConsoleTypes
<1>7. CASE ListRead \/ DetailRead \/ WorktreesRead \/ execute
  <2>1. /\ UNCHANGED <<attempt, unread>> /\ op' \in Ops /\ op'.phase = "finish" /\ op'.id = op.id
        /\ op'.reply = Nothing
    <3>1. CASE ListRead \/ DetailRead \/ WorktreesRead
      BY <1>2, <3>1 DEF ListRead, DetailRead, WorktreesRead, Phases
    <3>2. CASE execute
      <4>1. "finish" \in Phases
        BY DEF Phases
      <4>2. To("finish") \in Ops
        BY <1>2, <4>1
      <4> QED
        BY <1>2, <3>2, <4>1, <4>2, AcceptEffect DEF execute
    <3> QED
      BY <1>7, <3>1, <3>2
  <2>2. /\ review' \in Reviews /\ selection' \in Workspaces \union {Nothing}
        /\ workspaces' \subseteq Workspaces
    <3>1. CASE ListRead
      <4>1. PICK at \in IF op.reply.list = {} THEN {Nothing} ELSE op.reply.list :
              review' = IF ~Shows THEN review
                        ELSE IF op.reply = Failed THEN [review EXCEPT !.state = "unavailable", !.requests = {}, !.at = at]
                        ELSE [review EXCEPT !.state = "ready", !.requests = op.reply.list, !.at = at]
        BY <3>1 DEF ListRead
      <4>2. op.reply.list \in SUBSET Requests /\ at \in SomeRequest
        BY <1>1 DEF ConsoleTypes, Ops, Receipts, SomeRequest
      <4> QED
        BY <3>1, <4>1, <4>2, ReviewEffects DEF ListRead, ConsoleTypes
    <3>2. CASE DetailRead
      <4>1. op.reply \in RequestReceipts \union {Failed}
        BY <1>1, <3>2 DEF DetailRead, Ready, Answered
      <4> QED
        BY <3>2, <4>1, ReviewEffects DEF DetailRead, ConsoleTypes
    <3>3. CASE WorktreesRead
      BY <3>3 DEF WorktreesRead, ConsoleTypes
    <3>4. CASE execute
      <4>1. To("finish") \in Ops
        BY <1>2 DEF Phases
      <4> QED
        BY <3>4, <4>1, AcceptEffect, ReviewEffects DEF execute, ConsoleTypes
    <3> QED
      BY <1>7, <3>1, <3>2, <3>3, <3>4
  <2>3. ConsoleTypes'
    BY <1>1, <2>1, <2>2 DEF ConsoleTypes
  <2>4. Answered' /\ Refreshing'
    BY <1>1, <2>1, Proceeding
  <2>5. Outstanding'
    BY <1>1, <1>4, <2>1, OutstandingStays DEF Outstanding
  <2> QED
    BY <2>3, <2>4, <2>5
<1> QED
  BY <1>6, <1>7

-----------------------------------------------------------------------------
(* The theorems.                                                           *)

\* The console that opens reads a status, and has sent nothing.
LEMMA ConsoleStarts == ConsoleInit => Console
<1> SUFFICES ASSUME ConsoleInit PROVE Console
  OBVIOUS
<1> USE DEF ConsoleInit
<1>1. NewRead \in Reads /\ NewRead.current /\ NewRead.clean /\ NewRead.phase = "new"
  BY DEF NewRead, NoRead, Reads
<1>2. NoOp \in Ops /\ NoOp.phase = "none" /\ NoOp.reply = Nothing
  BY DEF NoOp, Ops, Phases, SomeRequest
<1>3. NoReview \in Reviews /\ NoAttempt \in Attempts /\ NoAttempt.state = "none"
  BY DEF NoReview, Reviews, Views, SomeRequest, NoAttempt, Attempts
<1>4. ConsoleTypes
  BY <1>1, <1>2, <1>3 DEF ConsoleTypes, Statuses
<1>5. Answered /\ Refreshing /\ Outstanding
  BY <1>1, <1>2, <1>3 DEF Answered, Refreshing, Outstanding
<1> QED
  BY <1>4, <1>5 DEF Console

\* Every step keeps the invariant.
LEMMA ConsolePreserved == Console /\ [ConsoleNext]_consoleVars => Console'
<1> SUFFICES ASSUME Console, [ConsoleNext]_consoleVars PROVE Console'
  OBVIOUS
<1>1. CASE ConsoleNext
  BY <1>1, BrokerSteps, ViewSteps, ReadSteps, BeginSteps, ReplySteps DEF ConsoleNext
<1>2. CASE UNCHANGED consoleVars
  <2>1. /\ UNCHANGED <<closed, active, read, timer, op, unread, wrong>>
        /\ UNCHANGED <<store, approving, selection, workspaces, review, attempt>>
    BY <1>2 DEF consoleVars, broker, target, polling, ghosts
  <2>2. ConsoleTypes' /\ SettledStay /\ SameQuestion
    BY <2>1 DEF Console, ConsoleTypes, SettledStay, SameQuestion
  <2> QED
    BY <2>1, <2>2, AnsweredStays, RefreshingStays, OutstandingStays DEF Console, Refreshing, Outstanding
<1> QED
  BY <1>1, <1>2

\* The console's invariant.
THEOREM ConsoleInvariant == ConsoleSpec => []Console
BY ConsoleStarts, ConsolePreserved, PTL DEF ConsoleSpec

\* A status is shown only when no foreground action began after its read did,
\* and while the console is open the next read is never forgotten.
THEOREM StatusStaysCurrent == ConsoleSpec => []StatusIsCurrent
<1>1. Console => StatusIsCurrent
  BY DEF Console, ConsoleTypes, Refreshing, StatusIsCurrent
<1> QED
  BY <1>1, ConsoleInvariant, PTL

\* An approval is sent only when the terminal receipt of every earlier one was
\* read, and what is shown as resolved is settled in the broker.
THEOREM ApprovalsStaySettled == ConsoleSpec => []ApprovalsAreSettled
<1>1. Console => ApprovalsAreSettled
  BY DEF Console, Outstanding, ApprovalsAreSettled
<1> QED
  BY <1>1, ConsoleInvariant, PTL

=============================================================================
