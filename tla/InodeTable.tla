----------------------------- MODULE InodeTable -----------------------------
(***************************************************************************)
(* The inode table of a mount (src/src/fuse/inode.rs) under the handlers   *)
(* that change it: lookup, readdir, the creating operations, unlink,       *)
(* rmdir, rename and forget (src/src/fuse/{fusefs,read,write}.rs).         *)
(*                                                                         *)
(* fuser serves a session from one thread, so a handler is one step; what  *)
(* interleaves with it are changes made to the backing store from outside  *)
(* and the kernel's forgets.  The kernel is modelled by the lookups it     *)
(* holds of each inode and by the path at which it believes the inode is.  *)
(***************************************************************************)
EXTENDS Naturals, SequencesExt

CONSTANTS
  Names,       \* file names
  Paths,       \* relative paths, sequences of names; bounds the depth of the tree
  Cached,      \* files the cache answers a lookup for although the backing has lost them
  Flags,       \* rename flags the kernel passes: of "none", "noreplace", "exchange"
  External,    \* whether the backing store is changed from outside the mount
  MaxIno,      \* bounds the inode numbers handed out
  MaxRefs,     \* bounds the lookups of one inode
  NoPath

Root == <<>>
RootIno == 1
Inos == 1..MaxIno
NoIno == 0

ASSUME InodeTableAssumption ==
  /\ Paths \subseteq Seq(Names) /\ Root \in Paths /\ IsFiniteSet(Paths)
  /\ \A p \in Paths : p # Root => Front(p) \in Paths
  /\ Cached \subseteq Paths /\ Root \notin Cached
  /\ Flags \subseteq {"none", "noreplace", "exchange"}
  /\ External \in BOOLEAN
  /\ MaxIno \in Nat \ {0} /\ MaxRefs \in Nat \ {0}
  /\ NoPath \notin Paths

VARIABLES
  tree,      \* what the backing store has at each path
  byPath,    \* InodeTable.by_path
  inoPath,   \* InodeTable.by_ino: the path of each entry
  refs,      \* InodeTable.by_ino: the refcount of each entry
  nextIno,   \* InodeTable.next_ino
  kernel     \* per inode, the lookups the kernel holds and where it has the inode

tableVars == <<byPath, inoPath, refs, nextIno>>
vars == <<tree, tableVars, kernel>>

TypeOK ==
  /\ tree \in [Paths -> {"none", "file", "dir"}]
  /\ byPath \in [Paths -> Inos \cup {NoIno}]
  /\ inoPath \in [Inos -> Paths \cup {NoPath}]
  /\ refs \in [Inos -> 0..MaxRefs] /\ \A i \in Inos : inoPath[i] = NoPath <=> refs[i] = 0
  /\ nextIno \in 2..(MaxIno + 1)
  /\ kernel \in [Inos -> [n : 0..MaxRefs, at : Paths \cup {NoPath}]]

Init ==
  /\ tree = [p \in Paths |-> IF p = Root THEN "dir" ELSE "none"]
  /\ byPath = [p \in Paths |-> IF p = Root THEN RootIno ELSE NoIno]
  /\ inoPath = [i \in Inos |-> IF i = RootIno THEN Root ELSE NoPath]
  /\ refs = [i \in Inos |-> IF i = RootIno THEN MaxRefs ELSE 0]
  /\ nextIno = 2
  /\ kernel = [i \in Inos |-> IF i = RootIno THEN [n |-> 1, at |-> Root]
                                             ELSE [n |-> 0, at |-> NoPath]]

-----------------------------------------------------------------------------
(* Paths.                                                                  *)

Under(dir, p) == IsPrefix(dir, p)
Children(dir) == {p \in Paths : p # Root /\ Front(p) = dir}

\* new.join(old_child.strip_prefix(old))
Moved(old, new, p) == new \o SubSeq(p, Len(old) + 1, Len(p))

-----------------------------------------------------------------------------
(* InodeTable.                                                             *)

InoOf(p) == IF byPath[p] # NoIno THEN byPath[p] ELSE nextIno

\* get_or_create counts a lookup of the entry it finds or makes.
OneRefOnly(i) == 1
OneMoreRef(i) == refs[i] + 1

GetOrCreate(p) ==
  LET i == InoOf(p) IN
  /\ i \in Inos /\ refs[i] < MaxRefs
  /\ byPath' = [byPath EXCEPT ![p] = i]
  /\ inoPath' = IF byPath[p] # NoIno THEN inoPath ELSE [inoPath EXCEPT ![i] = p]
  /\ refs' = [refs EXCEPT ![i] = OneMoreRef(i)]
  /\ nextIno' = IF byPath[p] # NoIno THEN nextIno ELSE nextIno + 1

\* list_dir_entries calls get_or_create for every entry, in directory order.
GetOrCreateAll(ps) ==
  LET new == {p \in ps : byPath[p] = NoIno}
      fresh == nextIno..(nextIno + Cardinality(new) - 1) IN
  /\ fresh \subseteq Inos
  /\ \A p \in ps \ new : refs[byPath[p]] < MaxRefs
  /\ \E f \in Bijection(new, fresh) :
       /\ byPath' = [p \in Paths |-> IF p \in new THEN f[p] ELSE byPath[p]]
       /\ inoPath' = [i \in Inos |-> IF i \in fresh THEN CHOOSE p \in new : f[p] = i ELSE inoPath[i]]
       /\ refs' = [i \in Inos |-> IF i \in fresh THEN 1
                                  ELSE IF \E p \in ps : byPath[p] = i THEN refs[i] + 1 ELSE refs[i]]
  /\ nextIno' = nextIno + Cardinality(new)

\* remove_path of each path in ps: remove_path itself, and remove_subtree.
RemovePaths(ps) ==
  LET gone == {byPath[p] : p \in ps} IN
  /\ byPath' = [p \in Paths |-> IF p \in ps THEN NoIno ELSE byPath[p]]
  /\ inoPath' = [i \in Inos |-> IF i \in gone THEN NoPath ELSE inoPath[i]]
  /\ refs' = [i \in Inos |-> IF i \in gone THEN 0 ELSE refs[i]]
  /\ UNCHANGED nextIno

\* rename_path: `new` loses its entry, `old` and its descendants get new paths.
\* The descendants of `new` keep theirs unless one is moved onto them.
RenamePath(old, new) ==
  LET moving == {q \in Paths : Under(old, q) /\ byPath[q] # NoIno}
      Source(p) == {q \in moving : Moved(old, new, q) = p} IN
  /\ byPath' = [p \in Paths |->
       IF Source(p) # {} THEN byPath[CHOOSE q \in Source(p) : TRUE]
       ELSE IF p = new \/ Under(old, p) THEN NoIno ELSE byPath[p]]
  /\ inoPath' = [i \in Inos |->
       IF i = byPath[new] THEN NoPath
       ELSE IF \E q \in moving : byPath[q] = i
            THEN Moved(old, new, CHOOSE q \in moving : byPath[q] = i)
            ELSE inoPath[i]]
  /\ refs' = [i \in Inos |-> IF i = byPath[new] THEN 0 ELSE refs[i]]
  /\ UNCHANGED nextIno

\* forget: at zero the entry goes, and the name it has.
KeepName(p) == byPath
DropName(p) == [byPath EXCEPT ![p] = NoIno]

Overdrawn(i, n) == refs[i] < n
Exhausted(i, n) == refs[i] <= n

ForgetIno(i, n) ==
  IF i = RootIno \/ inoPath[i] = NoPath
  THEN UNCHANGED tableVars
  ELSE /\ refs' = [refs EXCEPT ![i] = IF @ > n THEN @ - n ELSE 0]
       /\ IF Exhausted(i, n)
          THEN /\ inoPath' = [inoPath EXCEPT ![i] = NoPath]
               /\ byPath' = DropName(inoPath[i])
          ELSE UNCHANGED <<byPath, inoPath>>
       /\ UNCHANGED nextIno

-----------------------------------------------------------------------------
(* The kernel.  It names a child by an inode it holds at some path.        *)

KernelDir(i) == kernel[i].n > 0 /\ kernel[i].at # NoPath
KernelHas(p) == \E i \in Inos : kernel[i].n > 0 /\ kernel[i].at = p

\* The kernel unhashes what it has at p and below.
Unhash(p) ==
  [i \in Inos |-> IF kernel[i].at # NoPath /\ Under(p, kernel[i].at)
                  THEN [kernel[i] EXCEPT !.at = NoPath] ELSE kernel[i]]

\* A reply tells the kernel that i is at p; another inode it had there is dropped.
Entry(i, p) ==
  LET kept == IF kernel[i].at = p THEN kernel ELSE Unhash(p) IN
  kernel' = [kept EXCEPT ![i] = [n |-> kernel[i].n + 1, at |-> p]]

\* child_path, where the server and the kernel see it: the parent's entry, and
\* the parent's place in the kernel's tree.
ServerPath(i, name) == Append(inoPath[i], name)
KernelPath(i, name) == Append(kernel[i].at, name)
Served(i, name) ==
  /\ KernelDir(i) /\ inoPath[i] # NoPath
  /\ ServerPath(i, name) \in Paths /\ KernelPath(i, name) \in Paths

-----------------------------------------------------------------------------
(* Handlers.  `i` is the parent inode.                                     *)

\* do_lookup makes the entry before it knows whether the file exists.
Lookup(i, name) ==
  LET p == ServerPath(i, name) IN
  /\ Served(i, name)
  /\ GetOrCreate(p)
  /\ IF tree[p] # "none" \/ p \in Cached
     THEN kernel[InoOf(p)].n < MaxRefs /\ Entry(InoOf(p), KernelPath(i, name))
     ELSE kernel' = Unhash(KernelPath(i, name))
  /\ UNCHANGED tree

\* The backing call makes the name, then fresh_attr_for_path the entry.
MakeEntry(i, name, kind) ==
  LET p == ServerPath(i, name) IN
  /\ Served(i, name)
  /\ tree[inoPath[i]] = "dir" /\ tree[p] = "none"
  /\ tree' = [tree EXCEPT ![p] = kind]
  /\ GetOrCreate(p)
  /\ kernel[InoOf(p)].n < MaxRefs
  /\ Entry(InoOf(p), KernelPath(i, name))

Mkdir(i, name) == MakeEntry(i, name, "dir")
Mknod(i, name) == MakeEntry(i, name, "file")
Symlink(i, name) == MakeEntry(i, name, "file")
Create(i, name) == MakeEntry(i, name, "file")

\* do_link: another name for the file of inode k, with an inode of its own.
Link(k, i, name) ==
  /\ kernel[k].n > 0 /\ inoPath[k] # NoPath /\ tree[inoPath[k]] = "file"
  /\ MakeEntry(i, name, "file")

\* do_readdir: the numbers it returns are no lookups to the kernel.
Readdir(i) ==
  /\ KernelDir(i) /\ inoPath[i] # NoPath /\ tree[inoPath[i]] = "dir"
  /\ GetOrCreateAll({p \in Children(inoPath[i]) : tree[p] # "none"})
  /\ UNCHANGED <<tree, kernel>>

Unlink(i, name) ==
  LET p == ServerPath(i, name) IN
  /\ Served(i, name) /\ KernelHas(KernelPath(i, name))
  /\ tree[p] = "file"
  /\ tree' = [tree EXCEPT ![p] = "none"]
  /\ RemovePaths({p})
  /\ kernel' = Unhash(KernelPath(i, name))

EmptyDir(p) == tree[p] = "dir" /\ \A c \in Children(p) : tree[c] = "none"

Rmdir(i, name) ==
  LET p == ServerPath(i, name) IN
  /\ Served(i, name) /\ KernelHas(KernelPath(i, name))
  /\ EmptyDir(p)
  /\ tree' = [tree EXCEPT ![p] = "none"]
  /\ RemovePaths({q \in Paths : Under(p, q)})
  /\ kernel' = Unhash(KernelPath(i, name))

\* renameat2 as the backing file system does it.
MayRename(old, new, flag) ==
  /\ tree[old] # "none" /\ ~Under(old, new) /\ ~Under(new, old)
  /\ tree[Front(new)] = "dir"
  /\ CASE flag = "none" -> \/ tree[new] = "none"
                           \/ tree[old] = "file" /\ tree[new] = "file"
                           \/ tree[old] = "dir" /\ EmptyDir(new)
       [] flag = "noreplace" -> tree[new] = "none"
       [] flag = "exchange" -> tree[new] # "none"

\* What was at p before the rename, for a function of paths.
Swapped(f, old, new, flag, absent) ==
  [p \in Paths |->
     LET src == IF Under(new, p) THEN Moved(new, old, p)
                ELSE IF Under(old, p) THEN Moved(old, new, p) ELSE p IN
     IF (Under(old, p) /\ flag # "exchange") \/ src \notin Paths THEN absent ELSE f[src]]

\* Everything that moves stays within the paths of the model.
Fits(old, new) ==
  \A p \in Paths : /\ Under(old, p) /\ (tree[p] # "none" \/ byPath[p] # NoIno \/ KernelHas(p))
                      => Moved(old, new, p) \in Paths
                   /\ Under(new, p) /\ (tree[p] # "none" \/ KernelHas(p)) => Moved(new, old, p) \in Paths

Rename(i, name, j, newname, flag) ==
  LET old == ServerPath(i, name)
      new == ServerPath(j, newname)
      kold == KernelPath(i, name)
      knew == KernelPath(j, newname) IN
  /\ Served(i, name) /\ Served(j, newname) /\ KernelHas(kold)
  /\ ~Under(kold, knew) /\ ~Under(knew, kold)
  /\ MayRename(old, new, flag) /\ Fits(old, new)
  /\ tree' = Swapped(tree, old, new, flag, "none")
  /\ RenamePath(old, new)
  /\ \A k \in Inos : kernel[k].at # NoPath =>
       /\ Under(kold, kernel[k].at) => Moved(kold, knew, kernel[k].at) \in Paths
       /\ Under(knew, kernel[k].at) => Moved(knew, kold, kernel[k].at) \in Paths
  /\ kernel' = [k \in Inos |->
       IF kernel[k].at = NoPath THEN kernel[k]
       ELSE IF Under(kold, kernel[k].at) THEN [kernel[k] EXCEPT !.at = Moved(kold, knew, @)]
       ELSE IF Under(knew, kernel[k].at)
            THEN [kernel[k] EXCEPT !.at = IF flag = "exchange" THEN Moved(knew, kold, @) ELSE NoPath]
       ELSE kernel[k]]

\* The kernel evicts an inode with no children in its tree; a lookup answered
\* meanwhile keeps part of the count.
Forget(i, n) ==
  /\ i # RootIno /\ n \in 1..kernel[i].n
  /\ \A k \in Inos : kernel[i].at # NoPath /\ kernel[k].at # NoPath /\ k # i
                       => ~Under(kernel[i].at, kernel[k].at)
  /\ kernel' = [kernel EXCEPT ![i] =
                  IF n = kernel[i].n THEN [n |-> 0, at |-> NoPath] ELSE [kernel[i] EXCEPT !.n = kernel[i].n - n]]
  /\ ForgetIno(i, n)
  /\ UNCHANGED tree

-----------------------------------------------------------------------------
(* Changes to the backing store from outside the mount.                    *)

BackingCreate(p, kind) ==
  /\ External
  /\ p # Root /\ tree[p] = "none" /\ tree[Front(p)] = "dir"
  /\ tree' = [tree EXCEPT ![p] = kind]
  /\ UNCHANGED <<tableVars, kernel>>

BackingRemove(p) ==
  /\ External
  /\ p # Root /\ (tree[p] = "file" \/ EmptyDir(p))
  /\ tree' = [tree EXCEPT ![p] = "none"]
  /\ UNCHANGED <<tableVars, kernel>>

Next ==
  \/ \E i \in Inos, name \in Names :
       \/ Lookup(i, name) \/ Unlink(i, name) \/ Rmdir(i, name)
       \/ Mkdir(i, name) \/ Mknod(i, name) \/ Symlink(i, name) \/ Create(i, name)
       \/ \E k \in Inos : Link(k, i, name)
       \/ \E j \in Inos, newname \in Names, flag \in Flags : Rename(i, name, j, newname, flag)
  \/ \E i \in Inos : Readdir(i)
  \/ \E i \in Inos, n \in 1..MaxRefs : Forget(i, n)
  \/ \E p \in Paths : BackingRemove(p) \/ \E kind \in {"file", "dir"} : BackingCreate(p, kind)

Spec == Init /\ [][Next]_vars

-----------------------------------------------------------------------------
(* What must hold.                                                         *)

\* A path that the table knows leads to an entry with that very path, so the
\* unwrap in get_or_create never panics with the table's mutex held; two paths
\* never share an inode.
PathsResolve ==
  \A p \in Paths : byPath[p] # NoIno => inoPath[byPath[p]] = p

\* The table counts at least the lookups the kernel holds: no forget removes an
\* entry that the kernel will still use.
RefsCoverKernel ==
  \A i \in Inos : inoPath[i] # NoPath => refs[i] >= kernel[i].n

\* An inode that the kernel can reach by name is, in the table, at the path at
\* which the kernel has it (tests/passthrough.rs:348): an operation on it acts
\* on the file that the caller named.
KernelViewAgrees ==
  \A i \in Inos : kernel[i].n > 0 /\ kernel[i].at # NoPath => inoPath[i] = kernel[i].at
=============================================================================
