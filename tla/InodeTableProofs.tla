-------------------------- MODULE InodeTableProofs --------------------------
(***************************************************************************)
(* Proofs about module InodeTable, for every finite set of paths and every *)
(* number of inodes and lookups: types, that a path the table knows leads  *)
(* to an entry with that path (PathsResolve), and that the table counts at *)
(* least the lookups the kernel holds (RefsCoverKernel).                   *)
(*                                                                         *)
(* The invariant has a part about the table alone and one about the        *)
(* kernel; both need that a number not yet handed out is unused.           *)
(***************************************************************************)
EXTENDS InodeTable, CollectionFacts, FunctionTheorems

TableTypes ==
  /\ byPath \in [Paths -> Inos \cup {NoIno}]
  /\ inoPath \in [Inos -> Paths \cup {NoPath}]
  /\ refs \in [Inos -> 0..MaxRefs] /\ \A i \in Inos : inoPath[i] = NoPath <=> refs[i] = 0
  /\ nextIno \in 2..(MaxIno + 1)

\* The table: its two maps agree, and the numbers from nextIno on are unused.
TableInv == TableTypes /\ PathsResolve /\ \A i \in Inos : i >= nextIno => refs[i] = 0

\* The kernel holds no lookup of a number that was not handed out.
KernelInv ==
  /\ kernel \in [Inos -> [n : 0..MaxRefs, at : Paths \cup {NoPath}]]
  /\ RefsCoverKernel /\ \A i \in Inos : i >= nextIno => kernel[i].n = 0

InodeInv == tree \in [Paths -> {"none", "file", "dir"}] /\ TableInv /\ KernelInv

LEMMA TypesOfInv == InodeInv => TypeOK
  BY DEF InodeInv, TableInv, TableTypes, KernelInv, TypeOK

LEMMA InodeInitInv == Init => InodeInv
<1> SUFFICES ASSUME Init PROVE InodeInv
  OBVIOUS
<1>0. /\ MaxIno \in Nat /\ MaxIno >= 1 /\ MaxRefs \in Nat /\ MaxRefs >= 1
      /\ Root \in Paths /\ NoPath \notin Paths /\ Root # NoPath
  BY InodeTableAssumption
<1>1. RootIno \in Inos /\ 1 \in 0..MaxRefs /\ 0 \in 0..MaxRefs /\ MaxRefs \in 0..MaxRefs /\ NoIno \notin Inos
      /\ 2 \in 2..(MaxIno + 1)
  BY <1>0 DEF RootIno, Inos, NoIno
<1>2. tree \in [Paths -> {"none", "file", "dir"}]
  BY DEF Init
<1>3. TableTypes
  BY <1>0, <1>1 DEF Init, TableTypes
<1>4. PathsResolve
  BY <1>0, <1>1 DEF Init, PathsResolve
<1>5. \A i \in Inos : i >= nextIno => refs[i] = 0
  BY DEF Init, Inos, RootIno
<1>6. kernel \in [Inos -> [n : 0..MaxRefs, at : Paths \cup {NoPath}]]
  BY <1>0, <1>1 DEF Init
<1>7. RefsCoverKernel
  BY <1>0, <1>1 DEF Init, RefsCoverKernel
<1>8. \A i \in Inos : i >= nextIno => kernel[i].n = 0
  BY DEF Init, Inos, RootIno
<1>. QED  BY <1>2, <1>3, <1>4, <1>5, <1>6, <1>7, <1>8 DEF InodeInv, TableInv, KernelInv

-----------------------------------------------------------------------------
(* The table.                                                              *)

\* No two paths share an inode, and a path that has one is not NoPath's.
LEMMA OnePath ==
  ASSUME TableInv, NEW p \in Paths, byPath[p] # NoIno
  PROVE  /\ byPath[p] \in Inos /\ inoPath[byPath[p]] = p /\ refs[byPath[p]] # 0 /\ byPath[p] < nextIno
         /\ \A q \in Paths : byPath[q] = byPath[p] => q = p
<1>1. byPath[p] \in Inos /\ inoPath[byPath[p]] = p /\ p # NoPath
  BY InodeTableAssumption DEF TableInv, TableTypes, PathsResolve
<1>2. refs[byPath[p]] # 0
  BY <1>1 DEF TableInv, TableTypes
<1>3. byPath[p] \in Int /\ nextIno \in Int
  BY <1>1, InodeTableAssumption DEF TableInv, TableTypes, Inos
<1>4. byPath[p] < nextIno
  BY <1>1, <1>2, <1>3 DEF TableInv
<1>5. \A q \in Paths : byPath[q] = byPath[p] => q = p
  BY <1>1 DEF TableInv, PathsResolve
<1>. QED  BY <1>1, <1>2, <1>4, <1>5

\* get_or_create.
LEMMA CreatesEntry ==
  ASSUME TableInv, NEW p \in Paths, GetOrCreate(p), NEW i, i = InoOf(p)
  PROVE  /\ TableInv' /\ i \in Inos /\ i < nextIno' /\ nextIno <= nextIno'
         /\ refs'[i] = refs[i] + 1
         /\ \A j \in Inos \ {i} : refs'[j] = refs[j] /\ inoPath'[j] = inoPath[j]
         /\ byPath[p] = NoIno => i = nextIno
         /\ byPath[p] # NoIno => inoPath[i] # NoPath
<1>0. /\ byPath \in [Paths -> Inos \cup {NoIno}] /\ inoPath \in [Inos -> Paths \cup {NoPath}]
      /\ refs \in [Inos -> 0..MaxRefs] /\ nextIno \in 2..(MaxIno + 1)
      /\ MaxIno \in Nat /\ MaxRefs \in Nat /\ NoPath \notin Paths /\ p # NoPath /\ NoIno \notin Inos
      /\ Inos \subseteq Nat
  BY InodeTableAssumption DEF TableInv, TableTypes, Inos, NoIno
<1>1. /\ i \in Inos /\ refs[i] < MaxRefs
      /\ byPath' = [byPath EXCEPT ![p] = i]
      /\ refs' = [refs EXCEPT ![i] = refs[i] + 1]
  BY DEF GetOrCreate, OneMoreRef
<1>2. refs[i] \in 0..MaxRefs /\ refs[i] + 1 \in 0..MaxRefs /\ refs[i] + 1 # 0
  BY <1>0, <1>1
<1>3. CASE byPath[p] # NoIno
  <2>1. i = byPath[p] /\ inoPath' = inoPath /\ nextIno' = nextIno
    BY <1>3 DEF GetOrCreate, InoOf
  <2>2. inoPath[i] = p /\ i < nextIno
    BY <1>3, <2>1, OnePath
  <2>3. TableTypes'
    BY <1>0, <1>1, <1>2, <2>1, <2>2 DEF TableInv, TableTypes
  <2>4. PathsResolve'
    BY <1>0, <1>1, <2>1 DEF TableInv, PathsResolve
  <2>5. \A j \in Inos : j >= nextIno' => refs'[j] = 0
    BY <1>0, <1>1, <2>1, <2>2 DEF TableInv
  <2>. QED  BY <1>0, <1>1, <1>2, <1>3, <2>1, <2>2, <2>3, <2>4, <2>5 DEF TableInv
<1>4. CASE byPath[p] = NoIno
  <2>1. i = nextIno /\ inoPath' = [inoPath EXCEPT ![i] = p] /\ nextIno' = nextIno + 1
    BY <1>4 DEF GetOrCreate, InoOf
  <2>2. nextIno' \in 2..(MaxIno + 1) /\ i < nextIno' /\ nextIno <= nextIno'
    BY <1>0, <1>1, <2>1 DEF Inos
  <2>3. TableTypes'
    BY <1>0, <1>1, <1>2, <2>1, <2>2 DEF TableInv, TableTypes
  <2>4. PathsResolve'
    <3>1. \A q \in Paths : byPath[q] # NoIno => byPath[q] # i
      BY <1>0, <2>1, OnePath
    <3>. QED  BY <1>0, <1>1, <2>1, <3>1 DEF TableInv, PathsResolve
  <2>5. \A j \in Inos : j >= nextIno' => refs'[j] = 0
    BY <1>0, <1>1, <2>1, <2>2 DEF TableInv
  <2>. QED  BY <1>0, <1>1, <1>2, <1>4, <2>1, <2>2, <2>3, <2>4, <2>5 DEF TableInv
<1>. QED  BY <1>3, <1>4

\* remove_path and remove_subtree.
LEMMA RemovesEntries ==
  ASSUME TableInv, NEW ps \in SUBSET Paths, RemovePaths(ps)
  PROVE  /\ TableInv' /\ nextIno' = nextIno
         /\ \A j \in Inos : inoPath'[j] # NoPath => inoPath[j] # NoPath /\ refs'[j] = refs[j]
<1>. PICK gone : gone = {byPath[p] : p \in ps}
  OBVIOUS
<1>0. /\ byPath \in [Paths -> Inos \cup {NoIno}] /\ inoPath \in [Inos -> Paths \cup {NoPath}]
      /\ refs \in [Inos -> 0..MaxRefs] /\ MaxRefs \in Nat /\ NoIno \notin Inos
  BY InodeTableAssumption DEF TableInv, TableTypes, Inos, NoIno
<1>1. /\ byPath' = [p \in Paths |-> IF p \in ps THEN NoIno ELSE byPath[p]]
      /\ inoPath' = [i \in Inos |-> IF i \in gone THEN NoPath ELSE inoPath[i]]
      /\ refs' = [i \in Inos |-> IF i \in gone THEN 0 ELSE refs[i]]
      /\ nextIno' = nextIno
  BY DEF RemovePaths
<1>2. TableTypes'
  BY <1>0, <1>1 DEF TableInv, TableTypes
<1>3. PathsResolve'
  <2>1. SUFFICES ASSUME NEW p \in Paths, byPath'[p] # NoIno PROVE inoPath'[byPath'[p]] = p
    BY DEF PathsResolve
  <2>2. p \notin ps /\ byPath'[p] = byPath[p] /\ byPath[p] # NoIno
    BY <1>1, <2>1
  <2>3. byPath[p] \in Inos /\ inoPath[byPath[p]] = p /\ byPath[p] \notin gone
    BY <2>2, OnePath
  <2>. QED  BY <1>1, <2>2, <2>3
<1>4. \A j \in Inos : j >= nextIno' => refs'[j] = 0
  BY <1>1 DEF TableInv
<1>5. \A j \in Inos : inoPath'[j] # NoPath => inoPath[j] # NoPath /\ refs'[j] = refs[j]
  BY <1>1
<1>. QED  BY <1>1, <1>2, <1>3, <1>4, <1>5 DEF TableInv

\* rename_path.  What it moves fits into the paths of the model.
LEMMA RenamesEntries ==
  ASSUME TableInv, NEW old \in Paths, NEW new \in Paths, RenamePath(old, new), ~Under(old, new),
         \A q \in Paths : Under(old, q) /\ byPath[q] # NoIno => Moved(old, new, q) \in Paths
  PROVE  /\ TableInv' /\ nextIno' = nextIno
         /\ \A j \in Inos : inoPath'[j] # NoPath => inoPath[j] # NoPath /\ refs'[j] = refs[j]
<1>. PICK moving : moving = {q \in Paths : Under(old, q) /\ byPath[q] # NoIno}
  OBVIOUS
<1> DEFINE Source(p) == {q \in moving : Moved(old, new, q) = p}
           M(i) == CHOOSE q \in moving : byPath[q] = i
<1>0. /\ byPath \in [Paths -> Inos \cup {NoIno}] /\ inoPath \in [Inos -> Paths \cup {NoPath}]
      /\ refs \in [Inos -> 0..MaxRefs] /\ MaxRefs \in Nat /\ NoIno \notin Inos /\ NoPath \notin Paths
  BY InodeTableAssumption DEF TableInv, TableTypes, Inos, NoIno
<1>1. /\ byPath' = [p \in Paths |->
            IF Source(p) # {} THEN byPath[CHOOSE q \in Source(p) : TRUE]
            ELSE IF p = new \/ Under(old, p) THEN NoIno ELSE byPath[p]]
      /\ inoPath' = [i \in Inos |->
            IF i = byPath[new] THEN NoPath
            ELSE IF \E q \in moving : byPath[q] = i THEN Moved(old, new, M(i)) ELSE inoPath[i]]
      /\ refs' = [i \in Inos |-> IF i = byPath[new] THEN 0 ELSE refs[i]]
      /\ nextIno' = nextIno
  BY DEF RenamePath
\* An inode that moves is that of one path only, and not that of the target.
<1>2. ASSUME NEW q \in moving
      PROVE  /\ byPath[q] \in Inos /\ inoPath[byPath[q]] = q /\ refs[byPath[q]] # 0
             /\ byPath[q] # byPath[new] /\ M(byPath[q]) = q /\ Moved(old, new, q) \in Paths
             /\ inoPath'[byPath[q]] = Moved(old, new, q)
  <2>1. q \in Paths /\ byPath[q] # NoIno /\ Under(old, q)
    OBVIOUS
  <2>2. /\ byPath[q] \in Inos /\ inoPath[byPath[q]] = q /\ refs[byPath[q]] # 0
        /\ \A r \in Paths : byPath[r] = byPath[q] => r = q
    BY <2>1, OnePath
  <2>3. byPath[q] # byPath[new]
    BY <2>1, <2>2
  <2>4. M(byPath[q]) \in moving /\ byPath[M(byPath[q])] = byPath[q]
    OBVIOUS
  <2>5. M(byPath[q]) = q
    BY <2>2, <2>4
  <2>6. Moved(old, new, q) \in Paths
    BY <2>1
  <2> HIDE DEF M
  <2>7. inoPath'[byPath[q]] = Moved(old, new, q)
    BY <1>1, <2>2, <2>3, <2>5
  <2>. QED  BY <2>2, <2>3, <2>5, <2>6, <2>7
<1>3. ASSUME NEW p \in Paths, Source(p) # {}
      PROVE  \E q \in moving : Moved(old, new, q) = p /\ byPath'[p] = byPath[q]
  <2>1. (CHOOSE q \in Source(p) : TRUE) \in Source(p)
    BY <1>3
  <2>. QED  BY <1>1, <1>3, <2>1
<1>4. ASSUME NEW p \in Paths, Source(p) = {}
      PROVE  byPath'[p] = IF p = new \/ Under(old, p) THEN NoIno ELSE byPath[p]
  BY <1>1, <1>4
<1>5. ASSUME NEW i \in Inos
      PROVE  /\ i = byPath[new] => inoPath'[i] = NoPath /\ refs'[i] = 0
             /\ i # byPath[new] => refs'[i] = refs[i]
             /\ i # byPath[new] /\ (\A q \in moving : byPath[q] # i) => inoPath'[i] = inoPath[i]
  BY <1>1
<1> HIDE DEF M
<1>6. PathsResolve'
  <2>1. SUFFICES ASSUME NEW p \in Paths, byPath'[p] # NoIno PROVE inoPath'[byPath'[p]] = p
    BY DEF PathsResolve
  <2>2. CASE Source(p) # {}
    BY <1>2, <1>3, <2>2
  <2>3. CASE Source(p) = {}
    <3>1. byPath'[p] = byPath[p] /\ p # new /\ ~Under(old, p) /\ byPath[p] # NoIno
      BY <1>4, <2>1, <2>3
    <3>2. byPath[p] \in Inos /\ inoPath[byPath[p]] = p /\ \A q \in Paths : byPath[q] = byPath[p] => q = p
      BY <3>1, OnePath
    <3>3. byPath[p] # byPath[new] /\ \A q \in moving : byPath[q] # byPath[p]
      BY <3>1, <3>2
    <3>. QED  BY <1>5, <3>1, <3>2, <3>3
  <2>. QED  BY <2>2, <2>3
<1>7. TableTypes'
  <2>1. byPath' \in [Paths -> Inos \cup {NoIno}]
    <3>1. \A p \in Paths : byPath'[p] \in Inos \cup {NoIno}
      BY <1>0, <1>2, <1>3, <1>4
    <3>. QED  BY <1>1, <3>1
  <2>2. \A i \in Inos : /\ inoPath'[i] \in Paths \cup {NoPath} /\ refs'[i] \in 0..MaxRefs
                        /\ inoPath'[i] = NoPath <=> refs'[i] = 0
    <3>1. SUFFICES ASSUME NEW i \in Inos
                   PROVE  /\ inoPath'[i] \in Paths \cup {NoPath} /\ refs'[i] \in 0..MaxRefs
                          /\ inoPath'[i] = NoPath <=> refs'[i] = 0
      OBVIOUS
    <3>2. CASE i = byPath[new]
      BY <1>0, <1>5, <3>2
    <3>3. CASE i # byPath[new] /\ \E q \in moving : byPath[q] = i
      BY <1>0, <1>2, <1>5, <3>3
    <3>4. CASE i # byPath[new] /\ \A q \in moving : byPath[q] # i
      BY <1>0, <1>5, <3>4 DEF TableInv, TableTypes
    <3>. QED  BY <3>2, <3>3, <3>4
  <2>3. inoPath' \in [Inos -> Paths \cup {NoPath}] /\ refs' \in [Inos -> 0..MaxRefs]
    BY <1>1, <2>2
  <2>. QED  BY <1>1, <2>1, <2>2, <2>3 DEF TableInv, TableTypes
<1>8. \A j \in Inos : j >= nextIno' => refs'[j] = 0
  BY <1>1 DEF TableInv
<1>9. \A j \in Inos : inoPath'[j] # NoPath => inoPath[j] # NoPath /\ refs'[j] = refs[j]
  <2>1. SUFFICES ASSUME NEW j \in Inos, inoPath'[j] # NoPath PROVE inoPath[j] # NoPath /\ refs'[j] = refs[j]
    OBVIOUS
  <2>2. j # byPath[new]
    BY <1>5, <2>1
  <2>3. CASE \E q \in moving : byPath[q] = j
    BY <1>0, <1>2, <1>5, <2>2, <2>3
  <2>4. CASE \A q \in moving : byPath[q] # j
    BY <1>5, <2>1, <2>2, <2>4
  <2>. QED  BY <2>3, <2>4
<1>. QED  BY <1>1, <1>6, <1>7, <1>8, <1>9 DEF TableInv

\* list_dir_entries: get_or_create for every entry of a directory.
LEMMA CreatesEntries ==
  ASSUME TableInv, NEW ps \in SUBSET Paths, GetOrCreateAll(ps)
  PROVE  /\ TableInv' /\ nextIno <= nextIno'
         /\ \A j \in Inos : inoPath'[j] # NoPath =>
              \/ j >= nextIno /\ refs'[j] = 1
              \/ inoPath[j] # NoPath /\ refs'[j] >= refs[j]
<1> DEFINE new == {p \in ps : byPath[p] = NoIno}
           fresh == nextIno..(nextIno + Cardinality(new) - 1)
<1>. PICK n \in Nat : n = Cardinality(new)
  <2>1. new \in SUBSET Paths
    OBVIOUS
  <2>. QED  BY <2>1, InodeTableAssumption, FS_Subset, FS_CardinalityType
<1>0. /\ byPath \in [Paths -> Inos \cup {NoIno}] /\ inoPath \in [Inos -> Paths \cup {NoPath}]
      /\ refs \in [Inos -> 0..MaxRefs] /\ nextIno \in 2..(MaxIno + 1) /\ nextIno \in Nat
      /\ MaxIno \in Nat /\ MaxRefs \in Nat /\ MaxRefs >= 1 /\ NoPath \notin Paths /\ NoIno \notin Inos
      /\ Inos \subseteq Nat
  BY InodeTableAssumption DEF TableInv, TableTypes, Inos, NoIno
<1>1. PICK f \in Bijection(new, fresh) :
        /\ byPath' = [p \in Paths |-> IF p \in new THEN f[p] ELSE byPath[p]]
        /\ inoPath' = [i \in Inos |-> IF i \in fresh THEN CHOOSE p \in new : f[p] = i ELSE inoPath[i]]
        /\ refs' = [i \in Inos |-> IF i \in fresh THEN 1
                                   ELSE IF \E p \in ps : byPath[p] = i THEN refs[i] + 1 ELSE refs[i]]
  BY Zenon DEF GetOrCreateAll
<1>2. /\ fresh \subseteq Inos /\ nextIno' = nextIno + n
      /\ \A p \in ps \ new : refs[byPath[p]] < MaxRefs
  BY DEF GetOrCreateAll
<1>2a. new \subseteq Paths /\ (\A p \in Paths : p \in ps => (p \in new <=> byPath[p] = NoIno))
       /\ fresh = nextIno..(nextIno + n - 1)
  OBVIOUS
<1> HIDE DEF new, fresh
<1>3. /\ f \in [new -> fresh] /\ \A p, q \in new : f[p] = f[q] => p = q
      /\ \A i \in fresh : \E p \in new : f[p] = i
  <2>1. f \in [new -> fresh] /\ IsInjective(f) /\ \A i \in fresh : \E p \in new : f[p] = i
    BY <1>1, Zenon DEF Bijection, Injection, Surjection
  <2>. QED  BY <2>1 DEF IsInjective
\* The path of a new number.
<1>4. ASSUME NEW i \in fresh
      PROVE  inoPath'[i] \in new /\ f[inoPath'[i]] = i
  <2>1. \E p \in new : f[p] = i
    BY <1>3
  <2>2. inoPath'[i] = CHOOSE p \in new : f[p] = i
    BY <1>1, <1>2
  <2>. QED  BY <2>1, <2>2
\* An old number is not among the new ones.
<1>5. ASSUME NEW p \in Paths, byPath[p] # NoIno
      PROVE  byPath[p] \in Inos /\ byPath[p] \notin fresh /\ inoPath[byPath[p]] = p /\ refs[byPath[p]] # 0
  BY <1>2a, <1>0, <1>5, OnePath
<1>6. PathsResolve'
  <2>1. SUFFICES ASSUME NEW p \in Paths, byPath'[p] # NoIno PROVE inoPath'[byPath'[p]] = p
    BY DEF PathsResolve
  <2>2. CASE p \in new
    <3>1. byPath'[p] = f[p] /\ f[p] \in fresh
      BY <1>1, <1>3, <2>2
    <3>2. inoPath'[f[p]] \in new /\ f[inoPath'[f[p]]] = f[p]
      BY <1>4, <3>1
    <3>. QED  BY <1>3, <2>2, <3>1, <3>2
  <2>3. CASE p \notin new
    <3>1. byPath'[p] = byPath[p]
      BY <1>1, <2>3
    <3>. QED  BY <1>1, <1>5, <2>1, <3>1
  <2>. QED  BY <2>2, <2>3
<1>7. ASSUME NEW i \in Inos, i \notin fresh
      PROVE  /\ inoPath'[i] = inoPath[i] /\ refs'[i] \in {refs[i], refs[i] + 1} /\ refs'[i] \in 0..MaxRefs
             /\ refs'[i] # refs[i] => refs[i] # 0
  <2>1. inoPath'[i] = inoPath[i]
    BY <1>1, <1>7
  <2>2. CASE \E p \in ps : byPath[p] = i
    <3>1. PICK p \in ps : byPath[p] = i /\ byPath[p] # NoIno
      BY <1>0, <2>2
    <3>2. refs[i] < MaxRefs /\ refs[i] # 0
      BY <1>2a, <1>2, <1>5, <3>1
    <3>3. refs'[i] = refs[i] + 1 /\ refs[i] \in 0..MaxRefs
      BY <1>0, <1>1, <1>7, <2>2
    <3>4. refs[i] + 1 \in 0..MaxRefs
      BY <1>0, <3>2, <3>3
    <3>. QED  BY <2>1, <3>2, <3>3, <3>4
  <2>3. CASE ~\E p \in ps : byPath[p] = i
    <3>1. refs'[i] = refs[i]
      BY <1>1, <1>7, <2>3
    <3>. QED  BY <1>0, <2>1, <3>1
  <2>. QED  BY <2>2, <2>3
<1>8. ASSUME NEW i \in fresh PROVE i \in Inos /\ refs'[i] = 1 /\ inoPath'[i] \in Paths
  BY <1>2a, <1>1, <1>2, <1>4
<1>9. nextIno' \in 2..(MaxIno + 1)
  <2>1. CASE n = 0
    BY <1>0, <1>2, <2>1
  <2>2. CASE n # 0
    <3>1. nextIno + n - 1 \in fresh
      BY <1>2a, <1>0, <2>2
    <3>2. nextIno + n - 1 \in 1..MaxIno
      BY <1>2, <3>1 DEF Inos
    <3>. QED  BY <1>0, <1>2, <3>2
  <2>. QED  BY <2>1, <2>2
<1>10. TableTypes'
  <2>1. \A p \in Paths : byPath'[p] \in Inos \cup {NoIno}
    BY <1>0, <1>1, <1>2, <1>3
  <2>2. byPath' \in [Paths -> Inos \cup {NoIno}]
    BY <1>1, <2>1
  <2>3. ASSUME NEW i \in Inos
        PROVE  /\ inoPath'[i] \in Paths \cup {NoPath} /\ refs'[i] \in 0..MaxRefs
               /\ inoPath'[i] = NoPath <=> refs'[i] = 0
    <3>1. CASE i \in fresh
      BY <1>0, <1>8, <3>1
    <3>2. CASE i \notin fresh
      <4>1. refs[i] \in 0..MaxRefs /\ (inoPath[i] = NoPath <=> refs[i] = 0) /\ inoPath[i] \in Paths \cup {NoPath}
        BY DEF TableInv, TableTypes
      <4>. QED  BY <1>0, <1>7, <3>2, <4>1
    <3>. QED  BY <3>1, <3>2
  <2>4. inoPath' \in [Inos -> Paths \cup {NoPath}] /\ refs' \in [Inos -> 0..MaxRefs]
    BY <1>1, <2>3
  <2>. QED  BY <1>9, <2>2, <2>3, <2>4 DEF TableTypes
<1>11. \A j \in Inos : j >= nextIno' => refs'[j] = 0
  <2>1. SUFFICES ASSUME NEW j \in Inos, j >= nextIno' PROVE refs'[j] = 0
    OBVIOUS
  <2>2. j \notin fresh /\ j >= nextIno
    BY <1>2a, <1>0, <1>2, <2>1
  <2>3. refs[j] = 0
    BY <2>2 DEF TableInv
  <2>. QED  BY <1>7, <2>2, <2>3
<1>12. \A j \in Inos : inoPath'[j] # NoPath =>
              \/ j >= nextIno /\ refs'[j] = 1
              \/ inoPath[j] # NoPath /\ refs'[j] >= refs[j]
  <2>1. SUFFICES ASSUME NEW j \in Inos, inoPath'[j] # NoPath
                 PROVE  \/ j >= nextIno /\ refs'[j] = 1
                        \/ inoPath[j] # NoPath /\ refs'[j] >= refs[j]
    OBVIOUS
  <2>2. CASE j \in fresh
    <3>1. j >= nextIno
      BY <1>2a, <1>0, <2>2
    <3>. QED  BY <1>8, <2>2, <3>1
  <2>3. CASE j \notin fresh
    <3>1. refs[j] \in 0..MaxRefs
      BY <1>0
    <3>. QED  BY <1>0, <1>7, <2>1, <2>3, <3>1
  <2>. QED  BY <2>2, <2>3
<1>. QED  BY <1>0, <1>2, <1>6, <1>10, <1>11, <1>12 DEF TableInv

\* forget: the count goes down by what the kernel gives back, and at zero the
\* entry and its name go.
LEMMA ForgetsEntry ==
  ASSUME TableInv, NEW i \in Inos, NEW n \in Nat, ForgetIno(i, n)
  PROVE  /\ TableInv' /\ nextIno' = nextIno
         /\ \A j \in Inos : inoPath'[j] # NoPath =>
              /\ inoPath[j] # NoPath
              /\ \/ refs'[j] = refs[j] /\ (j # i \/ i = RootIno)
                 \/ j = i /\ refs'[j] = refs[j] - n
<1>0. /\ byPath \in [Paths -> Inos \cup {NoIno}] /\ inoPath \in [Inos -> Paths \cup {NoPath}]
      /\ refs \in [Inos -> 0..MaxRefs] /\ MaxRefs \in Nat /\ NoIno \notin Inos /\ NoPath \notin Paths
      /\ refs[i] \in 0..MaxRefs
  BY InodeTableAssumption DEF TableInv, TableTypes, Inos, NoIno
<1>1. CASE i = RootIno \/ inoPath[i] = NoPath
  <2>1. UNCHANGED tableVars
    BY <1>1 DEF ForgetIno
  <2>2. TableInv'
    BY <2>1 DEF tableVars, TableInv, TableTypes, PathsResolve
  <2>. QED  BY <1>1, <2>1, <2>2 DEF tableVars
<1>2. CASE ~(i = RootIno \/ inoPath[i] = NoPath) /\ ~(refs[i] <= n)
  <2>1. /\ refs' = [refs EXCEPT ![i] = refs[i] - n] /\ UNCHANGED <<byPath, inoPath, nextIno>>
    BY <1>0, <1>2 DEF ForgetIno, Exhausted
  <2>2. refs[i] - n \in 0..MaxRefs /\ refs[i] - n # 0
    BY <1>0, <1>2
  <2>3. TableTypes'
    BY <1>0, <1>2, <2>1, <2>2 DEF TableInv, TableTypes
  <2>4. PathsResolve'
    BY <2>1 DEF TableInv, PathsResolve
  <2>5. \A j \in Inos : j >= nextIno' => refs'[j] = 0
    <3>1. refs[i] # 0
      BY <1>2 DEF TableInv, TableTypes
    <3>. QED  BY <1>0, <2>1, <3>1 DEF TableInv
  <2>. QED  BY <1>0, <2>1, <2>3, <2>4, <2>5 DEF TableInv
<1>3. CASE ~(i = RootIno \/ inoPath[i] = NoPath) /\ refs[i] <= n
  <2>. PICK p \in Paths : p = inoPath[i]
    BY <1>0, <1>3
  <2>1. /\ refs' = [refs EXCEPT ![i] = 0] /\ inoPath' = [inoPath EXCEPT ![i] = NoPath]
        /\ byPath' = [byPath EXCEPT ![p] = NoIno] /\ nextIno' = nextIno
    BY <1>0, <1>3 DEF ForgetIno, Exhausted, DropName
  <2>2. TableTypes'
    BY <1>0, <2>1 DEF TableInv, TableTypes
  <2>3. PathsResolve'
    <3>1. SUFFICES ASSUME NEW q \in Paths, byPath'[q] # NoIno PROVE inoPath'[byPath'[q]] = q
      BY DEF PathsResolve
    <3>2. q # p /\ byPath'[q] = byPath[q] /\ byPath[q] # NoIno
      BY <1>0, <2>1, <3>1
    <3>3. byPath[q] \in Inos /\ inoPath[byPath[q]] = q
      BY <3>2, OnePath
    <3>4. byPath[q] # i
      BY <3>2, <3>3
    <3>. QED  BY <1>0, <2>1, <3>2, <3>3, <3>4
  <2>4. \A j \in Inos : j >= nextIno' => refs'[j] = 0
    BY <1>0, <2>1 DEF TableInv
  <2>. QED  BY <1>0, <2>1, <2>2, <2>3, <2>4 DEF TableInv
<1>. QED  BY <1>1, <1>2, <1>3

-----------------------------------------------------------------------------
(* The kernel.                                                             *)

KernelTypes == kernel \in [Inos -> [n : 0..MaxRefs, at : Paths \cup {NoPath}]]

\* A step after which the kernel holds no more lookups than before, and the
\* table counts no less for what it keeps.
LEMMA KernelKept ==
  ASSUME KernelInv, KernelTypes', nextIno' >= nextIno, nextIno \in Nat, nextIno' \in Nat,
         \A j \in Inos : kernel'[j].n = kernel[j].n,
         refs \in [Inos -> 0..MaxRefs], refs' \in [Inos -> 0..MaxRefs],
         \A j \in Inos : inoPath'[j] # NoPath =>
           \/ j >= nextIno
           \/ inoPath[j] # NoPath /\ refs'[j] >= refs[j]
  PROVE  KernelInv'
<1>1. MaxRefs \in Nat /\ Inos \subseteq Nat
  BY InodeTableAssumption DEF Inos
<1>2. \A j \in Inos : kernel[j].n \in 0..MaxRefs /\ refs[j] \in 0..MaxRefs /\ refs'[j] \in 0..MaxRefs
  BY DEF KernelInv
<1>3. RefsCoverKernel'
  <2>1. SUFFICES ASSUME NEW j \in Inos, inoPath'[j] # NoPath PROVE refs'[j] >= kernel'[j].n
    BY DEF RefsCoverKernel
  <2>2. CASE j >= nextIno
    BY <1>1, <1>2, <2>2 DEF KernelInv
  <2>3. CASE inoPath[j] # NoPath /\ refs'[j] >= refs[j]
    BY <1>1, <1>2, <2>3 DEF KernelInv, RefsCoverKernel
  <2>. QED  BY <2>1, <2>2, <2>3
<1>4. \A j \in Inos : j >= nextIno' => kernel'[j].n = 0
  BY <1>1 DEF KernelInv
<1>. QED  BY <1>3, <1>4 DEF KernelInv, KernelTypes

LEMMA UnhashEffect ==
  ASSUME KernelTypes, NEW p, NEW k, k = Unhash(p)
  PROVE  /\ k \in [Inos -> [n : 0..MaxRefs, at : Paths \cup {NoPath}]]
         /\ \A j \in Inos : k[j].n = kernel[j].n
  BY DEF Unhash, KernelTypes

\* A reply with an entry: one more lookup for one inode.
LEMMA EntryEffect ==
  ASSUME KernelTypes, NEW i \in Inos, NEW p \in Paths, kernel[i].n < MaxRefs, Entry(i, p)
  PROVE  /\ KernelTypes' /\ kernel'[i].n = kernel[i].n + 1
         /\ \A j \in Inos \ {i} : kernel'[j].n = kernel[j].n
<1>. PICK kept : kept = IF kernel[i].at = p THEN kernel ELSE Unhash(p)
  OBVIOUS
<1>1. /\ kept \in [Inos -> [n : 0..MaxRefs, at : Paths \cup {NoPath}]]
      /\ \A j \in Inos : kept[j].n = kernel[j].n
  BY UnhashEffect DEF KernelTypes
<1>2. kernel[i].n + 1 \in 0..MaxRefs
  BY InodeTableAssumption DEF KernelTypes
<1>3. kernel' = [kept EXCEPT ![i] = [n |-> kernel[i].n + 1, at |-> p]]
  BY DEF Entry
<1>. QED  BY <1>1, <1>2, <1>3 DEF KernelTypes

\* Lookup and the creating operations: get_or_create, and a reply with the
\* entry it made or found.
LEMMA CreatedInv ==
  ASSUME InodeInv, NEW p \in Paths, NEW q \in Paths, GetOrCreate(p),
         kernel[InoOf(p)].n < MaxRefs, Entry(InoOf(p), q)
  PROVE  TableInv' /\ KernelInv'
<1>. PICK i : i = InoOf(p)
  OBVIOUS
<1>1. /\ TableInv' /\ i \in Inos /\ i < nextIno' /\ nextIno <= nextIno'
      /\ refs'[i] = refs[i] + 1
      /\ \A j \in Inos \ {i} : refs'[j] = refs[j] /\ inoPath'[j] = inoPath[j]
      /\ byPath[p] = NoIno => i = nextIno
      /\ byPath[p] # NoIno => inoPath[i] # NoPath
  BY CreatesEntry DEF InodeInv
<1>2. /\ KernelTypes' /\ kernel'[i].n = kernel[i].n + 1
      /\ \A j \in Inos \ {i} : kernel'[j].n = kernel[j].n
  BY <1>1, EntryEffect DEF InodeInv, KernelInv, KernelTypes
<1>3. /\ refs \in [Inos -> 0..MaxRefs] /\ nextIno \in Nat /\ nextIno' \in Nat /\ MaxRefs \in Nat /\ Inos \subseteq Nat
      /\ \A j \in Inos : kernel[j].n \in 0..MaxRefs /\ refs[j] \in 0..MaxRefs
  <2>1. MaxRefs \in Nat /\ MaxIno \in Nat /\ Inos \subseteq Nat
    BY InodeTableAssumption DEF Inos
  <2>2. refs \in [Inos -> 0..MaxRefs] /\ nextIno \in 2..(MaxIno + 1) /\ nextIno' \in 2..(MaxIno + 1)
    BY <1>1 DEF InodeInv, TableInv, TableTypes
  <2>3. \A j \in Inos : kernel[j].n \in 0..MaxRefs
    BY DEF InodeInv, KernelInv
  <2>4. \A x \in 2..(MaxIno + 1) : x \in Nat
    BY <2>1
  <2>5. nextIno \in Nat /\ nextIno' \in Nat
    BY <2>2, <2>4
  <2>6. \A j \in Inos : refs[j] \in 0..MaxRefs
    BY <2>2
  <2>. QED  BY <2>1, <2>2, <2>3, <2>5, <2>6
<1>4. refs[i] >= kernel[i].n
  <2>1. CASE byPath[p] = NoIno
    BY <1>1, <1>3, <2>1 DEF InodeInv, KernelInv
  <2>2. CASE byPath[p] # NoIno
    BY <1>1, <2>2 DEF InodeInv, KernelInv, RefsCoverKernel
  <2>. QED  BY <2>1, <2>2
<1>5. RefsCoverKernel'
  <2>1. SUFFICES ASSUME NEW j \in Inos, inoPath'[j] # NoPath PROVE refs'[j] >= kernel'[j].n
    BY DEF RefsCoverKernel
  <2>2. CASE j = i
    BY <1>1, <1>2, <1>3, <1>4, <2>2
  <2>3. CASE j # i
    BY <1>1, <1>2, <2>1, <2>3 DEF InodeInv, KernelInv, RefsCoverKernel
  <2>. QED  BY <2>2, <2>3
<1>6. \A j \in Inos : j >= nextIno' => kernel'[j].n = 0
  BY <1>1, <1>2, <1>3 DEF InodeInv, KernelInv
<1>. QED  BY <1>1, <1>2, <1>5, <1>6 DEF KernelInv, KernelTypes

-----------------------------------------------------------------------------
(* The handlers.                                                           *)

LEMMA InvTypes ==
  ASSUME InodeInv
  PROVE  /\ tree \in [Paths -> {"none", "file", "dir"}] /\ KernelTypes /\ KernelInv /\ TableInv
         /\ refs \in [Inos -> 0..MaxRefs] /\ nextIno \in Nat
  BY InodeTableAssumption DEF InodeInv, KernelTypes, KernelInv, TableInv, TableTypes

LEMMA NextTypes ==
  ASSUME TableInv'
  PROVE  refs' \in [Inos -> 0..MaxRefs] /\ nextIno' \in Nat
  BY InodeTableAssumption DEF TableInv, TableTypes

LEMMA LookupInv ==
  ASSUME InodeInv, NEW i \in Inos, NEW name, Lookup(i, name)
  PROVE  InodeInv'
<1>. PICK p \in Paths, q \in Paths : p = ServerPath(i, name) /\ q = KernelPath(i, name)
  BY DEF Lookup, Served
<1>1. GetOrCreate(p) /\ tree' = tree
  BY DEF Lookup
<1>2. CASE tree[p] # "none" \/ p \in Cached
  <2>1. kernel[InoOf(p)].n < MaxRefs /\ Entry(InoOf(p), q)
    BY <1>2 DEF Lookup
  <2>. QED  BY <1>1, <2>1, CreatedInv DEF InodeInv
\* The entry is made although the file does not exist: a lookup is counted
\* that the kernel does not hold.
<1>3. CASE ~(tree[p] # "none" \/ p \in Cached)
  <2>. PICK k : k = InoOf(p)
    OBVIOUS
  <2>1. kernel' = Unhash(q)
    BY <1>3 DEF Lookup
  <2>2. KernelTypes' /\ \A j \in Inos : kernel'[j].n = kernel[j].n
    BY <2>1, UnhashEffect, InvTypes DEF KernelTypes
  <2>3. /\ TableInv' /\ k \in Inos /\ nextIno <= nextIno'
        /\ refs'[k] = refs[k] + 1
        /\ \A j \in Inos \ {k} : refs'[j] = refs[j] /\ inoPath'[j] = inoPath[j]
        /\ byPath[p] = NoIno => k = nextIno
        /\ byPath[p] # NoIno => inoPath[k] # NoPath
    BY <1>1, CreatesEntry, InvTypes
  <2>4. refs \in [Inos -> 0..MaxRefs] /\ refs' \in [Inos -> 0..MaxRefs] /\ nextIno \in Nat /\ nextIno' \in Nat
    BY <2>3, InvTypes, NextTypes
  <2>5. ASSUME NEW j \in Inos, inoPath'[j] # NoPath
        PROVE  \/ j >= nextIno
               \/ inoPath[j] # NoPath /\ refs'[j] >= refs[j]
    <3>1. refs[j] \in Nat
      BY <2>4, InodeTableAssumption
    <3>. QED  BY <2>3, <2>4, <2>5, <3>1
  <2>6. KernelInv'
    BY <2>2, <2>3, <2>4, <2>5, KernelKept, InvTypes
  <2>. QED  BY <1>1, <2>3, <2>6 DEF InodeInv
<1>. QED  BY <1>2, <1>3

LEMMA MakeEntryInv ==
  ASSUME InodeInv, NEW i \in Inos, NEW name, NEW kind \in {"file", "dir"}, MakeEntry(i, name, kind)
  PROVE  InodeInv'
<1>. PICK p \in Paths, q \in Paths : p = ServerPath(i, name) /\ q = KernelPath(i, name)
  BY DEF MakeEntry, Served
<1>1. GetOrCreate(p) /\ tree' = [tree EXCEPT ![p] = kind] /\ kernel[InoOf(p)].n < MaxRefs /\ Entry(InoOf(p), q)
  BY DEF MakeEntry
<1>2. tree' \in [Paths -> {"none", "file", "dir"}]
  BY <1>1, InvTypes
<1>. QED  BY <1>1, <1>2, CreatedInv DEF InodeInv

LEMMA ReaddirInv ==
  ASSUME InodeInv, NEW i \in Inos, Readdir(i)
  PROVE  InodeInv'
<1>. PICK ps \in SUBSET Paths : ps = {p \in Children(inoPath[i]) : tree[p] # "none"}
  BY DEF Children
<1>1. GetOrCreateAll(ps) /\ UNCHANGED <<tree, kernel>>
  BY DEF Readdir
<1>2. /\ TableInv' /\ nextIno <= nextIno'
      /\ \A j \in Inos : inoPath'[j] # NoPath =>
           \/ j >= nextIno /\ refs'[j] = 1
           \/ inoPath[j] # NoPath /\ refs'[j] >= refs[j]
  BY <1>1, CreatesEntries, InvTypes
<1>3. KernelTypes' /\ \A j \in Inos : kernel'[j].n = kernel[j].n
  BY <1>1, InvTypes DEF KernelTypes
<1>4. refs \in [Inos -> 0..MaxRefs] /\ refs' \in [Inos -> 0..MaxRefs] /\ nextIno \in Nat /\ nextIno' \in Nat
  BY <1>2, InvTypes, NextTypes
<1>5. KernelInv'
  BY <1>2, <1>3, <1>4, KernelKept, InvTypes
<1>. QED  BY <1>1, <1>2, <1>5 DEF InodeInv

\* A step of the table that keeps or drops entries, with a kernel that keeps
\* its counts: unlink, rmdir and rename.
LEMMA DroppedInv ==
  ASSUME InodeInv, tree' \in [Paths -> {"none", "file", "dir"}], TableInv', nextIno' = nextIno,
         \A j \in Inos : inoPath'[j] # NoPath => inoPath[j] # NoPath /\ refs'[j] = refs[j],
         KernelTypes', \A j \in Inos : kernel'[j].n = kernel[j].n
  PROVE  InodeInv'
<1>1. refs \in [Inos -> 0..MaxRefs] /\ refs' \in [Inos -> 0..MaxRefs] /\ nextIno \in Nat /\ nextIno' \in Nat
  BY InvTypes, NextTypes
<1>2. \A j \in Inos : refs[j] \in Nat
  BY <1>1, InodeTableAssumption
<1>3. KernelInv'
  BY <1>1, <1>2, KernelKept, InvTypes
<1>. QED  BY <1>3 DEF InodeInv

LEMMA RemovingInv ==
  ASSUME InodeInv, NEW i \in Inos, NEW name, Unlink(i, name) \/ Rmdir(i, name)
  PROVE  InodeInv'
<1>. PICK p \in Paths, q \in Paths : p = ServerPath(i, name) /\ q = KernelPath(i, name)
  BY DEF Unlink, Rmdir, Served
<1>1. PICK ps \in SUBSET Paths : RemovePaths(ps)
  BY DEF Unlink, Rmdir
<1>2. kernel' = Unhash(q) /\ tree' = [tree EXCEPT ![p] = "none"]
  BY DEF Unlink, Rmdir
<1>3. KernelTypes' /\ \A j \in Inos : kernel'[j].n = kernel[j].n
  BY <1>2, UnhashEffect, InvTypes DEF KernelTypes
<1>4. /\ TableInv' /\ nextIno' = nextIno
      /\ \A j \in Inos : inoPath'[j] # NoPath => inoPath[j] # NoPath /\ refs'[j] = refs[j]
  BY <1>1, RemovesEntries, InvTypes
<1>5. tree' \in [Paths -> {"none", "file", "dir"}]
  BY <1>2, InvTypes
<1>. QED  BY <1>3, <1>4, <1>5, DroppedInv

LEMMA RenameInv ==
  ASSUME InodeInv, NEW i \in Inos, NEW name, NEW j \in Inos, NEW newname, NEW flag,
         Rename(i, name, j, newname, flag)
  PROVE  InodeInv'
<1>. PICK old \in Paths, new \in Paths, kold \in Paths, knew \in Paths :
        /\ old = ServerPath(i, name) /\ new = ServerPath(j, newname)
        /\ kold = KernelPath(i, name) /\ knew = KernelPath(j, newname)
  BY DEF Rename, Served
<1>1. /\ RenamePath(old, new) /\ ~Under(old, new)
      /\ \A p \in Paths : Under(old, p) /\ byPath[p] # NoIno => Moved(old, new, p) \in Paths
  BY DEF Rename, MayRename, Fits
<1>2. /\ TableInv' /\ nextIno' = nextIno
      /\ \A k \in Inos : inoPath'[k] # NoPath => inoPath[k] # NoPath /\ refs'[k] = refs[k]
  BY <1>1, RenamesEntries, InvTypes
<1>3. tree' \in [Paths -> {"none", "file", "dir"}]
  <2>1. tree' = Swapped(tree, old, new, flag, "none")
    BY DEF Rename
  <2>. QED  BY <2>1, InvTypes DEF Swapped
<1>4. KernelTypes' /\ \A k \in Inos : kernel'[k].n = kernel[k].n
  <2>1. /\ \A k \in Inos : kernel[k].at # NoPath =>
             /\ Under(kold, kernel[k].at) => Moved(kold, knew, kernel[k].at) \in Paths
             /\ Under(knew, kernel[k].at) => Moved(knew, kold, kernel[k].at) \in Paths
        /\ kernel' = [k \in Inos |->
             IF kernel[k].at = NoPath THEN kernel[k]
             ELSE IF Under(kold, kernel[k].at) THEN [kernel[k] EXCEPT !.at = Moved(kold, knew, @)]
             ELSE IF Under(knew, kernel[k].at)
                  THEN [kernel[k] EXCEPT !.at = IF flag = "exchange" THEN Moved(knew, kold, @) ELSE NoPath]
             ELSE kernel[k]]
    BY DEF Rename
  <2>2. ASSUME NEW k \in Inos
        PROVE  kernel'[k] \in [n : 0..MaxRefs, at : Paths \cup {NoPath}] /\ kernel'[k].n = kernel[k].n
    <3>. PICK x \in [n : 0..MaxRefs, at : Paths \cup {NoPath}] : x = kernel[k]
      BY InvTypes DEF KernelTypes
    <3>1. kernel'[k] = x \/ \E a \in Paths \cup {NoPath} : kernel'[k] = [x EXCEPT !.at = a]
      BY <2>1
    <3>. QED  BY <3>1
  <2>. QED  BY <2>1, <2>2 DEF KernelTypes
<1>. QED  BY <1>2, <1>3, <1>4, DroppedInv

LEMMA ForgetInv ==
  ASSUME InodeInv, NEW i \in Inos, NEW n, Forget(i, n)
  PROVE  InodeInv'
<1>0. kernel[i] \in [n : 0..MaxRefs, at : Paths \cup {NoPath}] /\ MaxRefs \in Nat
  BY InvTypes, InodeTableAssumption DEF KernelTypes
<1>1. /\ i # RootIno /\ n \in 1..kernel[i].n /\ n \in Nat /\ tree' = tree /\ ForgetIno(i, n)
      /\ kernel' = [kernel EXCEPT ![i] =
                      IF n = kernel[i].n THEN [n |-> 0, at |-> NoPath] ELSE [kernel[i] EXCEPT !.n = kernel[i].n - n]]
  BY <1>0 DEF Forget
<1>2. /\ TableInv' /\ nextIno' = nextIno
      /\ \A j \in Inos : inoPath'[j] # NoPath =>
           /\ inoPath[j] # NoPath
           /\ \/ refs'[j] = refs[j] /\ (j # i \/ i = RootIno)
              \/ j = i /\ refs'[j] = refs[j] - n
  BY <1>1, ForgetsEntry, InvTypes
<1>3. KernelTypes' /\ kernel'[i].n = kernel[i].n - n /\ \A j \in Inos \ {i} : kernel'[j] = kernel[j]
  <2>. PICK x \in [n : 0..MaxRefs, at : Paths \cup {NoPath}] : x = kernel[i]
    BY <1>0
  <2>. PICK m \in 0..MaxRefs : m = x.n - n
    BY <1>0, <1>1
  <2>1. CASE n = x.n
    <3>1. kernel' = [kernel EXCEPT ![i] = [n |-> 0, at |-> NoPath]] /\ m = 0
      BY <1>1, <2>1
    <3>. QED  BY <3>1, InvTypes DEF KernelTypes
  <2>2. CASE n # x.n
    <3>1. kernel' = [kernel EXCEPT ![i] = [x EXCEPT !.n = m]]
      BY <1>1, <2>2
    <3>. QED  BY <3>1, InvTypes DEF KernelTypes
  <2>. QED  BY <2>1, <2>2
<1>4. \A j \in Inos : refs[j] \in Int /\ kernel[j].n \in Int
  BY InvTypes, InodeTableAssumption DEF KernelTypes
<1>5. RefsCoverKernel'
  <2>1. SUFFICES ASSUME NEW j \in Inos, inoPath'[j] # NoPath PROVE refs'[j] >= kernel'[j].n
    BY DEF RefsCoverKernel
  <2>2. refs[j] >= kernel[j].n
    BY <1>2, <2>1 DEF InodeInv, KernelInv, RefsCoverKernel
  <2>. QED  BY <1>1, <1>2, <1>3, <1>4, <2>1, <2>2
<1>6. \A j \in Inos : j >= nextIno' => kernel'[j].n = 0
  <2>1. \A j \in Inos : j >= nextIno => kernel[j].n = 0
    BY DEF InodeInv, KernelInv
  <2>2. ~(i >= nextIno)
    BY <1>0, <1>1, <2>1
  <2>. QED  BY <1>2, <1>3, <2>1, <2>2
<1>. QED  BY <1>1, <1>2, <1>3, <1>5, <1>6 DEF InodeInv, KernelInv, KernelTypes

LEMMA InodeStepInv ==
  ASSUME InodeInv, [Next]_vars
  PROVE  InodeInv'
<1>1. ASSUME UNCHANGED <<tableVars, kernel>>, tree' \in [Paths -> {"none", "file", "dir"}]
      PROVE  InodeInv'
  BY <1>1 DEF tableVars, InodeInv, TableInv, TableTypes, PathsResolve, KernelInv, RefsCoverKernel
<1>2. CASE UNCHANGED vars
  BY <1>1, <1>2, InvTypes DEF vars
<1>3. ASSUME NEW i \in Inos, NEW name \in Names,
             \/ Lookup(i, name) \/ Unlink(i, name) \/ Rmdir(i, name)
             \/ Mkdir(i, name) \/ Mknod(i, name) \/ Symlink(i, name) \/ Create(i, name)
             \/ \E k \in Inos : Link(k, i, name)
             \/ \E j \in Inos, newname \in Names, flag \in Flags : Rename(i, name, j, newname, flag)
      PROVE  InodeInv'
  <2>1. CASE \/ Mkdir(i, name) \/ Mknod(i, name) \/ Symlink(i, name) \/ Create(i, name)
             \/ \E k \in Inos : Link(k, i, name)
    <3>1. \E kind \in {"file", "dir"} : MakeEntry(i, name, kind)
      BY <2>1 DEF Mkdir, Mknod, Symlink, Create, Link
    <3>. QED  BY <3>1, MakeEntryInv
  <2>. QED  BY <1>3, <2>1, LookupInv, RemovingInv, RenameInv
<1>4. CASE \E i \in Inos : Readdir(i)
  BY <1>4, ReaddirInv
<1>5. CASE \E i \in Inos, n \in 1..MaxRefs : Forget(i, n)
  BY <1>5, ForgetInv
<1>6. ASSUME NEW p \in Paths, BackingRemove(p) \/ \E kind \in {"file", "dir"} : BackingCreate(p, kind)
      PROVE  InodeInv'
  <2>1. UNCHANGED <<tableVars, kernel>> /\ tree' \in [Paths -> {"none", "file", "dir"}]
    BY <1>6, InvTypes DEF BackingRemove, BackingCreate
  <2>. QED  BY <1>1, <2>1
<1>. QED  BY <1>2, <1>3, <1>4, <1>5, <1>6 DEF Next

-----------------------------------------------------------------------------
(* The theorems.                                                           *)

\* The inductive invariant holds in every state of the mount.
THEOREM InodeInvariance == Spec => []InodeInv
  BY InodeInitInv, InodeStepInv, PTL DEF Spec

\* Types; in particular an entry is there exactly as long as its refcount is
\* not zero (InodeTable, inode.rs).
THEOREM InodeTypeCorrect == Spec => []TypeOK
  BY TypesOfInv, InodeInvariance, PTL

\* The two maps of the table agree whatever handlers ran before, renames of
\* directories and forgets included, so that the unwrap in get_or_create does
\* not panic (inode.rs).
THEOREM TablePathsResolve == Spec => []PathsResolve
<1>1. InodeInv => PathsResolve
  BY DEF InodeInv, TableInv
<1>. QED  BY <1>1, InodeInvariance, PTL

\* The table counts at least the lookups the kernel holds, also when lookups,
\* readdirs and forgets of part of the count interleave (get_or_create and
\* forget, inode.rs): no forget removes an entry the kernel still uses.
THEOREM TableCoversKernel == Spec => []RefsCoverKernel
<1>1. InodeInv => RefsCoverKernel
  BY DEF InodeInv, KernelInv
<1>. QED  BY <1>1, InodeInvariance, PTL
=============================================================================
