------------------------------ MODULE Fsstress ------------------------------
(***************************************************************************)
(* fsstress (io_integration_test.sh.data/ltp/fsstress.c): a process does   *)
(* random operations on the tree below its own directory p<procid>.  It    *)
(* never reads the tree: what exists is what its lists say (flist, one per *)
(* type of file), and an entry has the id of its name and the id of its    *)
(* parent directory only.  Paths are built from the entries of the parents *)
(* which are found through a small cache of list slots (dcache).           *)
(*                                                                         *)
(* The module has the lists and, beside them, the tree that the kernel     *)
(* keeps.  Each operation is one action: choose entries, build the paths,  *)
(* make the call, which may always fail, and correct the lists.  A path    *)
(* that is too long for a call is walked down with chdir() first and left  *)
(* with chdir("..") afterwards, in the tree as it is then.                 *)
(***************************************************************************)
EXTENDS Integers, SequencesExt

CONSTANTS
  NDCACHE,   \* size of the directory cache
  rtpct,     \* TRUE when the file system has real-time blocks
  cleanup,   \* -c
  MaxLoops,  \* -l
  MaxNames,  \* bound on nameseq
  MaxSets    \* bound on successful setxattr() calls

ASSUME FsstressAssumption ==
  /\ NDCACHE \in Nat \ {0} /\ rtpct \in BOOLEAN
  /\ cleanup \in BOOLEAN /\ MaxLoops \in Nat \ {0}
  /\ MaxNames \in Nat /\ MaxSets \in Nat

\* The types are the tags of the names: directory, regular, real-time, device,
\* symbolic link.
FTypes     == {"d", "f", "r", "c", "l"}
FT_NOTDIR  == FTypes \ {"d"}
FT_REGFILE == {"f", "r"}

VARIABLES
  flist,     \* the entries of each type: id, parent (-1: top), xattr_counter
  dcache,    \* id % NDCACHE -> slot of a directory, 0 for none (slots from 1)
  nameseq,
  loops,     \* calls of doproc() still to come to an end
  dirents,   \* the tree: dir, name, ino; an inode is <<type, number>>
  xattrs,    \* pairs <<inode, number of an attribute>>
  cwd,       \* the directory the process is in
  sets,      \* successful setxattr() calls
  linked     \* history: inodes that have had a second name

vars == <<flist, dcache, nameseq, loops, dirents, xattrs, cwd, sets, linked>>

Top     == <<"d", -1>>
NoInode == <<"none", -1>>

Init ==
  /\ flist = [t \in FTypes |-> <<>>]
  /\ dcache = [h \in 0 .. NDCACHE - 1 |-> 0]
  /\ nameseq = 0
  /\ loops = MaxLoops
  /\ dirents = {} /\ xattrs = {} /\ sets = 0 /\ linked = {}
  /\ cwd = Top

-----------------------------------------------------------------------------
(* The kernel's tree.                                                      *)

\* The inode a path leads to from directory d.
Resolve(d, path) ==
  LET at[i \in 0 .. Len(path)] ==
        IF i = 0 THEN d
        ELSE LET hit == {x \in dirents : x.dir = at[i - 1] /\ x.name = path[i]}
             IN IF hit = {} THEN NoInode ELSE (CHOOSE x \in hit : TRUE).ino
  IN at[Len(path)]

\* chdir("..") k times from directory d.
Climb(ents, d, k) ==
  LET at[i \in 0 .. k] ==
        IF i = 0 THEN d
        ELSE LET up == {x \in ents : x.ino = at[i - 1]}
             IN IF up = {} THEN NoInode ELSE (CHOOSE x \in up : TRUE).dir
  IN at[k]

\* d is directory top or lies below it.
Below(d, top) == \E k \in 0 .. Cardinality(dirents) : Climb(dirents, d, k) = top

Dirent(d, t, id, i) == [dir |-> d, name |-> <<t, id>>, ino |-> i]

-----------------------------------------------------------------------------
(* The lists and the cache.                                                *)

Dirs == flist["d"]
Slots(t) == 1 .. Len(flist[t])

\* The entries get_fname() may choose, for a set of types.
get_fname(which) == {p \in which \X (1 .. MaxNames) : p[2] \in Slots(p[1])}
Ent(p) == flist[p[1]][p[2]]

\* A slot beyond the list is no entry; CacheCurrent says it is never met.
Hit(c, d) == c[d % NDCACHE] \in Slots("d") /\ Dirs[c[d % NDCACHE]].id = d

dirid_to_fent(d) == {s \in Slots("d") : Dirs[s].id = d}

dcache_purge(c, d) == IF Hit(c, d) THEN [c EXCEPT ![d % NDCACHE] = 0] ELSE c

\* What the lookup of a directory does to the cache.
Lookup(c, d) ==
  IF Hit(c, d) \/ dirid_to_fent(d) = {} THEN c
  ELSE [c EXCEPT ![d % NDCACHE] =
          CHOOSE s \in dirid_to_fent(d) : \A u \in dirid_to_fent(d) : s <= u]

\* The parents from p to the top: their ids, and the cache after the lookups.
Parents(c, p) ==
  LET up[n \in 0 .. Len(Dirs)] ==
        IF n = 0 THEN [ids |-> <<>>, at |-> p, cache |-> c]
        ELSE LET u == up[n - 1] IN
             IF u.at = -1 THEN u
             ELSE [ids |-> Append(u.ids, u.at),
                   at |-> IF dirid_to_fent(u.at) = {} THEN -1
                          ELSE Dirs[CHOOSE s \in dirid_to_fent(u.at) : TRUE].parent,
                   cache |-> Lookup(u.cache, u.at)]
  IN up[Len(Dirs)]

\* The path of an entry, and the cache after it has been built.
fent_to_name(c, t, e) ==
  LET up == Parents(c, e.parent)
      n  == Len(up.ids)
  IN [path |-> Append([i \in 1 .. n |-> <<"d", up.ids[n + 1 - i]>>], <<t, e.id>>),
      cache |-> up.cache]

\* Directories for a new name: without any, the name is made at the top.
NewParents == IF Dirs = <<>> THEN {0} ELSE Slots("d")

\* The directory part of a new name below slot s, and the cache after it.
generate_fname(c, s) ==
  IF s = 0 THEN [path |-> <<>>, cache |-> c] ELSE fent_to_name(c, "d", Dirs[s])
ParentId(s) == IF s = 0 THEN -1 ELSE Dirs[s].id

NewEntry(id, parent, n) == [id |-> id, parent |-> parent, xattr_counter |-> n]

add_to_flist(fl, t, e) == [fl EXCEPT ![t] = Append(@, e)]

\* The last entry moves over the deleted one.
del_from_flist(fl, t, s) ==
  LET n == Len(fl[t]) IN
  [fl EXCEPT ![t] = [i \in 1 .. n - 1 |-> IF i = s THEN @[n] ELSE @[i]]]

\* Mutant of PurgeDeleted: the entry that moves keeps its old slot in the cache.
PurgeDeletedOnly(c, s) == dcache_purge(c, Dirs[s].id)

\* del_from_flist() for directory slot s forgets it and the one that moves.
PurgeDeleted(c, s) ==
  dcache_purge(dcache_purge(c, Dirs[s].id), Dirs[Len(Dirs)].id)

\* Mutant of fix_parent: an exchange moves only one of the two subtrees.
fix_parent_noswap(fl, old, new, swap) ==
  [t \in FTypes |-> [i \in DOMAIN fl[t] |->
     [fl[t][i] EXCEPT !.parent = IF @ = old THEN new ELSE @]]]

fix_parent(fl, old, new, swap) ==
  [t \in FTypes |-> [i \in DOMAIN fl[t] |->
     [fl[t][i] EXCEPT !.parent =
        IF @ = old THEN new ELSE IF swap /\ @ = new THEN old ELSE @]]]

-----------------------------------------------------------------------------
(* The calls with paths.                                                   *)

\* Mutant of ChdirBack: the last level is not left again.
ChdirBackShort(ents, path) ==
  {Climb(ents, Resolve(cwd, SubSeq(path, 1, k)), IF k = 0 THEN 0 ELSE k - 1) :
     k \in {j \in 0 .. Len(path) - 1 : Resolve(cwd, SubSeq(path, 1, j)) # NoInode}}

\* Where a call on this path may leave the process when ents is the tree after
\* it: k levels down while the path is too long, and k times "..".
ChdirBack(ents, path) ==
  {Climb(ents, Resolve(cwd, SubSeq(path, 1, k)), k) :
     k \in {j \in 0 .. Len(path) - 1 : Resolve(cwd, SubSeq(path, 1, j)) # NoInode}}

\* link_path() and rename_path() go down along either of their paths.
CwdAfter(ents, path) == cwd' \in ChdirBack(ents, path)
CwdAfter2(ents, path1, path2) ==
  cwd' \in ChdirBack(ents, path1) \cup ChdirBack(ents, path2)

Child(dirpath, t, id) == Append(dirpath, <<t, id>>)

\* The tree without the name x; the attributes go with the last name.
Unlinked(x) ==
  /\ dirents' = dirents \ {x}
  /\ xattrs' = {a \in xattrs : \E y \in dirents \ {x} : y.ino = a[1]}

\* A call that changes nothing: it has failed, or only looks.
NoChange(path) ==
  /\ CwdAfter(dirents, path)
  /\ UNCHANGED <<flist, dirents, xattrs, sets, linked>>

Running == loops > 0
Choose(id) == Running /\ id <= MaxNames /\ nameseq' = id /\ UNCHANGED loops

\* creat_f(), mkdir_f(), mknod_f() and symlink_f(): a new name of type t.
NewName(t) ==
  /\ Choose(nameseq + 1)
  /\ \E s \in NewParents :
       LET g    == generate_fname(dcache, s)
           d    == Resolve(cwd, g.path)
           path == Child(g.path, t, nameseq)
       IN /\ dcache' = g.cache
          /\ \/ NoChange(path)
             \/ /\ d[1] = "d"
                /\ dirents' = dirents \cup {Dirent(d, t, nameseq, <<t, nameseq>>)}
                /\ flist' = add_to_flist(flist, t, NewEntry(nameseq, ParentId(s), 0))
                /\ CwdAfter(dirents', path)
                /\ UNCHANGED <<xattrs, sets, linked>>

creat_f   == \E t \in IF rtpct THEN FT_REGFILE ELSE {"f"} : NewName(t)
mkdir_f   == NewName("d")
mknod_f   == NewName("c")
symlink_f == NewName("l")

\* A second name for a file, with the counter of the first.
link_f ==
  /\ Choose(nameseq + 1)
  /\ \E p \in get_fname(FT_NOTDIR), s \in NewParents :
       LET f    == fent_to_name(dcache, p[1], Ent(p))
           g    == generate_fname(f.cache, s)
           d    == Resolve(cwd, g.path)
           i    == Resolve(cwd, f.path)
           path == Child(g.path, p[1], nameseq)
       IN /\ dcache' = g.cache
          /\ \/ /\ CwdAfter2(dirents, f.path, path)
                /\ UNCHANGED <<flist, dirents, xattrs, sets, linked>>
             \/ /\ d[1] = "d" /\ i # NoInode
                /\ dirents' = dirents \cup {Dirent(d, p[1], nameseq, i)}
                /\ linked' = linked \cup {i}
                /\ flist' = add_to_flist(flist, p[1],
                              NewEntry(nameseq, ParentId(s), Ent(p).xattr_counter))
                /\ CwdAfter2(dirents', f.path, path)
                /\ UNCHANGED <<xattrs, sets>>

\* rename_f() and rnoreplace_f(): the entry is deleted and a new one appended;
\* the children of a directory get its new id.  The kernel refuses to move a
\* directory into itself.
rename_f ==
  /\ Choose(nameseq + 1)
  /\ \E p \in get_fname(FTypes), s \in NewParents :
       LET t     == p[1]
           f     == fent_to_name(dcache, t, Ent(p))
           g     == generate_fname(f.cache, s)
           d     == Resolve(cwd, g.path)
           i     == Resolve(cwd, f.path)
           from  == Dirent(Resolve(cwd, Front(f.path)), t, Ent(p).id, i)
           path  == Child(g.path, t, nameseq)
           fixed == IF t = "d" THEN fix_parent(flist, Ent(p).id, nameseq, FALSE)
                    ELSE flist
       IN \/ /\ dcache' = g.cache
             /\ CwdAfter2(dirents, f.path, path)
             /\ UNCHANGED <<flist, dirents, xattrs, sets, linked>>
          \/ /\ d[1] = "d" /\ i # NoInode /\ ~Below(d, i)
             /\ dirents' = (dirents \ {from}) \cup {Dirent(d, t, nameseq, i)}
             /\ flist' = add_to_flist(del_from_flist(fixed, t, p[2]), t,
                           NewEntry(nameseq, ParentId(s), Ent(p).xattr_counter))
             /\ dcache' = IF t = "d" THEN PurgeDeleted(g.cache, p[2]) ELSE g.cache
             /\ CwdAfter2(dirents', f.path, path)
             /\ UNCHANGED <<xattrs, sets, linked>>

\* rwhiteout_f(): only devices, because a device stays behind under the old name.
rwhiteout_f ==
  /\ Choose(nameseq + 1)
  /\ \E p \in get_fname({"c"}), s \in NewParents :
       LET f    == fent_to_name(dcache, "c", Ent(p))
           g    == generate_fname(f.cache, s)
           d    == Resolve(cwd, g.path)
           i    == Resolve(cwd, f.path)
           dir  == Resolve(cwd, Front(f.path))
           path == Child(g.path, "c", nameseq)
       IN /\ dcache' = g.cache
          /\ \/ /\ CwdAfter2(dirents, f.path, path)
                /\ UNCHANGED <<flist, dirents, xattrs, sets, linked>>
             \/ /\ d[1] = "d" /\ i # NoInode
                /\ dirents' = (dirents \ {Dirent(dir, "c", Ent(p).id, i)})
                       \cup {Dirent(dir, "c", Ent(p).id, <<"c", nameseq>>),
                             Dirent(d, "c", nameseq, i)}
                /\ flist' = add_to_flist([flist EXCEPT !["c"][p[2]].xattr_counter = 0],
                              "c", NewEntry(nameseq, ParentId(s), Ent(p).xattr_counter))
                /\ CwdAfter2(dirents', f.path, path)
                /\ UNCHANGED <<xattrs, sets, linked>>

\* fents_ancestor_check(): the walk from an entry towards the top stops where
\* directory d is the parent; the lookups made on the way.
AncestorCheck(c, e, d) ==
  LET up   == Parents(c, e.parent)
      hits == {i \in DOMAIN up.ids : up.ids[i] = d}
      walk[n \in 0 .. Len(up.ids)] ==
        IF n = 0 THEN c
        ELSE IF \E i \in hits : i <= n THEN walk[n - 1]
        ELSE Lookup(walk[n - 1], up.ids[n])
  IN [found |-> hits # {}, cache |-> walk[Len(up.ids)]]

\* Mutant of SwapCounters: the counters stay with the names.
KeepCounters(fl, t, s, u) == fl

\* The attributes have changed places with the inodes.
SwapCounters(fl, t, s, u) ==
  [fl EXCEPT ![t][s].xattr_counter = fl[t][u].xattr_counter,
             ![t][u].xattr_counter = fl[t][s].xattr_counter]

\* rexchange_f(): two names of the same type exchange their inodes, the entries
\* stay; the children of two directories change parents.
rexchange_f ==
  /\ Choose(nameseq)
  /\ \E p \in get_fname(FTypes) : \E u \in Slots(p[1]) :
       LET t  == p[1]
           e1 == Ent(p)
           e2 == flist[t][u]
           f  == fent_to_name(dcache, t, e1)
           g  == fent_to_name(f.cache, t, e2)
           c1 == AncestorCheck(g.cache, e1, e2.id)
           c2 == AncestorCheck(c1.cache, e2, e1.id)
           i1 == Resolve(cwd, f.path)
           i2 == Resolve(cwd, g.path)
           x1 == Dirent(Resolve(cwd, Front(f.path)), t, e1.id, i1)
           x2 == Dirent(Resolve(cwd, Front(g.path)), t, e2.id, i2)
           fixed == IF t = "d" THEN fix_parent(flist, e1.id, e2.id, TRUE) ELSE flist
       IN /\ dcache' = IF t # "d" THEN g.cache
                       ELSE IF c1.found THEN c1.cache ELSE c2.cache
          /\ \/ /\ cwd' \in {cwd} \cup
                     IF t = "d" /\ (c1.found \/ c2.found) THEN {}
                     ELSE ChdirBack(dirents, f.path) \cup ChdirBack(dirents, g.path)
                /\ UNCHANGED <<flist, dirents>>
             \/ /\ ~(t = "d" /\ (c1.found \/ c2.found))
                /\ i1 # NoInode /\ i2 # NoInode
                /\ i1 = i2 \/ (~Below(x1.dir, i2) /\ ~Below(x2.dir, i1))
                /\ dirents' = (dirents \ {x1, x2})
                         \cup {[x1 EXCEPT !.ino = i2], [x2 EXCEPT !.ino = i1]}
                /\ flist' = SwapCounters(fixed, t, p[2], u)
                /\ CwdAfter2(dirents', f.path, g.path)
          /\ UNCHANGED <<xattrs, sets, linked>>

\* rmdir_f() removes an empty directory, unlink_f() anything else.
RemoveName(which) ==
  /\ Choose(nameseq)
  /\ \E p \in get_fname(which) :
       LET f == fent_to_name(dcache, p[1], Ent(p))
           i == Resolve(cwd, f.path)
           x == Dirent(Resolve(cwd, Front(f.path)), p[1], Ent(p).id, i)
       IN \/ dcache' = f.cache /\ NoChange(f.path)
          \/ /\ i # NoInode
             /\ ~\E y \in dirents : y.dir = i
             /\ Unlinked(x)
             /\ flist' = del_from_flist(flist, p[1], p[2])
             /\ dcache' = IF p[1] = "d" THEN PurgeDeleted(f.cache, p[2]) ELSE f.cache
             /\ CwdAfter(dirents', f.path)
             /\ UNCHANGED <<sets, linked>>

rmdir_f  == RemoveName({"d"})
unlink_f == RemoveName(FT_NOTDIR)

-----------------------------------------------------------------------------
(* Extended attributes.                                                    *)

\* A known number, with or without XATTR_REPLACE, or the next one, with or
\* without XATTR_CREATE.  The counter counts the calls that succeed.
setfattr_f ==
  /\ Choose(nameseq)
  /\ \E p \in get_fname(FT_REGFILE \cup {"d"}), flag \in {"none", "create", "replace"} :
       LET f == fent_to_name(dcache, p[1], Ent(p))
           n == Ent(p).xattr_counter
           i == Resolve(cwd, f.path)
       IN /\ dcache' = f.cache
          /\ \/ UNCHANGED <<flist, xattrs, sets>>
             \/ /\ sets < MaxSets
                /\ \E num \in (IF flag = "create" THEN {} ELSE 1 .. n)
                         \cup (IF flag = "replace" THEN {} ELSE {n + 1}) :
                     /\ i # NoInode
                     /\ flag = "create" => <<i, num>> \notin xattrs
                     /\ flag = "replace" => <<i, num>> \in xattrs
                     /\ xattrs' = xattrs \cup {<<i, num>>}
                /\ flist' = [flist EXCEPT ![p[1]][p[2]].xattr_counter = n + 1]
                /\ sets' = sets + 1
          /\ UNCHANGED <<dirents, cwd, linked>>

\* One of the known numbers, or number 0, which no file has.
removefattr_f ==
  /\ Choose(nameseq)
  /\ \E p \in get_fname(FT_REGFILE \cup {"d"}) :
       LET f == fent_to_name(dcache, p[1], Ent(p))
           n == Ent(p).xattr_counter
           i == Resolve(cwd, f.path)
       IN /\ dcache' = f.cache
          /\ \E num \in IF n > 0 THEN 1 .. n ELSE {0} : xattrs' = xattrs \ {<<i, num>>}
          /\ UNCHANGED <<flist, dirents, cwd, sets, linked>>

-----------------------------------------------------------------------------
(* Operations that leave names and lists alone: they build the paths of    *)
(* the files they work on.                                                 *)

\* One file of these types: its path is built and it is opened.
Visit(which) ==
  \E p \in get_fname(which) :
    LET f == fent_to_name(dcache, p[1], Ent(p)) IN
    dcache' = f.cache /\ NoChange(f.path)

\* Reads, writes, mappings and allocation of space, on one regular file.
DataOp == Choose(nameseq) /\ Visit(FT_REGFILE)
\* The synchronising calls, also for directories.
SyncOp == Choose(nameseq) /\ Visit(FT_REGFILE \cup {"d"})
\* chown, stat and the inode's flags, of any file.
InodeOp == Choose(nameseq) /\ Visit(FTypes)
\* readlink_f() and getdents_f().
ReadlinkOp == Choose(nameseq) /\ Visit({"l"})
GetdentsOp == Choose(nameseq) /\ Visit({"d"})

\* clonerange_f(), copyrange_f() and splice_f(): two paths are built and then
\* opened, each from the process's own directory.
RangeOp ==
  /\ Choose(nameseq)
  /\ \E p, q \in get_fname({"f"}) :
       LET f == fent_to_name(dcache, "f", Ent(p))
           g == fent_to_name(f.cache, "f", Ent(q))
       IN /\ dcache' = g.cache
          /\ CwdAfter2(dirents, f.path, g.path)
          /\ UNCHANGED <<flist, dirents, xattrs, sets, linked>>

\* attr_set_f() takes its attribute's name from nameseq, also at the top.
attr_set_f ==
  /\ Choose(nameseq + 1)
  /\ \/ Visit(FTypes)
     \/ /\ get_fname(FTypes) = {}
        /\ UNCHANGED <<flist, dcache, dirents, xattrs, cwd, sets, linked>>

-----------------------------------------------------------------------------
(* A call of doproc() ends after any number of operations; with -c the     *)
(* directory and the lists are thrown away.                                *)
EndOfLoop ==
  /\ Running
  /\ loops' = loops - 1
  /\ IF cleanup
     THEN /\ flist' = [t \in FTypes |-> <<>>]
          /\ dirents' = {} /\ xattrs' = {}
     ELSE UNCHANGED <<flist, dirents, xattrs>>
  /\ UNCHANGED <<dcache, nameseq, cwd, sets, linked>>

Next ==
  \/ creat_f \/ mkdir_f \/ mknod_f \/ symlink_f \/ link_f
  \/ rename_f \/ rwhiteout_f \/ rexchange_f \/ rmdir_f \/ unlink_f
  \/ setfattr_f \/ removefattr_f \/ attr_set_f
  \/ DataOp \/ SyncOp \/ InodeOp \/ ReadlinkOp \/ GetdentsOp \/ RangeOp
  \/ EndOfLoop

Spec == Init /\ [][Next]_vars

-----------------------------------------------------------------------------
Entries == {p \in FTypes \X (1 .. MaxNames) : p[2] \in Slots(p[1])}
PathOf(p) == fent_to_name(dcache, p[1], Ent(p)).path

\* The lists name exactly the files that exist, each once, where it is and in
\* the list of its type: whatever was renamed, exchanged or removed before, the
\* path built from an entry leads to its file, and no file is forgotten.
ListExact ==
  loops > 0 \/ ~cleanup =>
    /\ \A p, q \in Entries : p # q => Ent(p).id # Ent(q).id
    /\ {<<Resolve(Top, Front(PathOf(p))), <<p[1], Ent(p).id>> >> : p \in Entries} =
         {<<x.dir, x.name>> : x \in dirents}
    /\ \A x \in dirents : x.ino[1] = x.name[1]

\* dcache[] never refers to a slot beyond the list, nor to an entry that the
\* hash would not find there: moving the last entry over a deleted one leaves
\* no stale slot behind (-c frees the lists when the process ends).
CacheCurrent ==
  Running =>
    \A h \in DOMAIN dcache :
      dcache[h] # 0 => dcache[h] \in Slots("d") /\ Dirs[dcache[h]].id % NDCACHE = h

\* xattr_counter is at least the number of every attribute the file has, through
\* renames and exchanges, as long as the file never had a second name: getfattr
\* and removefattr find all of them, and number 0 does not exist.
XattrsCounted ==
  \A p \in Entries :
    LET i == Resolve(Top, PathOf(p)) IN
    i \notin linked =>
      \A a \in xattrs : a[1] = i => a[2] \in 1 .. Ent(p).xattr_counter

\* After every operation the process is back in its own directory, although the
\* operation may have moved directories while the process was inside them
\* (check_cwd()).
CwdHome == cwd = Top
=============================================================================
