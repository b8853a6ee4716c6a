----------------------------- MODULE FatVolume ------------------------------
(***************************************************************************)
(* projects/fs/app0/ff.c, the part below the API: chains, directories and  *)
(* mounting, as the configuration in ffconf.h compiles it (short names,    *)
(* FAT16 and FAT32, FSINFO in use, no file locks, no exFAT).               *)
(***************************************************************************)
EXTENDS FatTable, SequencesExt

CONSTANTS
    Upper,       \* what create_name makes of each character it accepts
    Deleted      \* a directory entry whose name begins with DDEM

ZeroSector == [i \in Cells |-> Zero]

Least(a, b) == IF a <= b THEN a ELSE b

-----------------------------------------------------------------------------
(* Chains of the allocation table.                                         *)

RECURSIVE FreeFrom(_, _)
FreeFrom(v, clst) ==
    LET g == get_fat(v, clst)
        w == FreeOne(g.v, clst)
    IN  IF g.val = 0 THEN g.v
        ELSE IF g.val < v.fs.n_fatent THEN FreeFrom(w, g.val) ELSE w

(* The chain from clst on; pclst, if not 0, becomes its end.               *)
remove_chain(v, clst, pclst) ==
    FreeFrom(IF pclst # 0 THEN put_fat(v, pclst, EOC) ELSE v, clst)

(* The search of create_chain: from ncl to the next free cluster, back to  *)
(* the first one at the end of the table, but not past scl.                *)
RECURSIVE FindFree(_, _, _)
Looked(g, n, scl) == IF g.val = 0 THEN [v |-> g.v, val |-> n]
                     ELSE IF n = scl THEN [v |-> g.v, val |-> 0]
                     ELSE FindFree(g.v, n, scl)
FindFree(v, ncl, scl) ==
    LET end == ncl + 1 >= v.fs.n_fatent
        n == IF end THEN 2 ELSE ncl + 1
    IN  IF end /\ n > scl THEN [v |-> v, val |-> 0]
        ELSE Looked(get_fat(v, n), n, scl)

(* Is last_clst the number of a cluster?                                   *)
Suggests(v, first) == v.fs.last_clst \in first .. v.fs.n_fatent - 1

(* The cluster create_chain takes, 0 if there is none: the one after clst  *)
(* (ncl, whose entry is g), or the next free one from the last on.         *)
After(g, ncl, scl) == IF g.val = 0 THEN [v |-> g.v, val |-> ncl]
                      ELSE FindFree(g.v, scl, scl)
FreeCluster(v, clst) ==
    LET ncl == IF clst + 1 >= v.fs.n_fatent THEN 2 ELSE clst + 1
        scl == IF Suggests(v, 2) THEN v.fs.last_clst ELSE clst
        first == IF Suggests(v, 1) THEN v.fs.last_clst ELSE 1
    IN  IF clst = 0 THEN FindFree(v, first, first)
        ELSE After(get_fat(v, ncl), ncl, scl)

(* The cluster after clst, a new one if clst ends its chain (or is 0);     *)
(* val is 0 if no cluster is free.                                         *)
Linked(c, clst) == IF c.val = 0 THEN c
                   ELSE [v |-> Taken(c.v, clst, c.val), val |-> c.val]
Stretch(g, clst) ==
    IF g.val < g.v.fs.n_fatent THEN g
    ELSE IF g.v.fs.free_clst = 0 THEN [v |-> g.v, val |-> 0]
    ELSE Linked(FreeCluster(g.v, clst), clst)
create_chain(v, clst) ==
    Stretch(IF clst = 0 THEN [v |-> v, val |-> EOC] ELSE get_fat(v, clst), clst)

-----------------------------------------------------------------------------
(* Directories.  A directory object is a cursor: where the directory       *)
(* begins, and the cluster, sector and number of the current entry.        *)

Entry(name, attr, clst, size) ==
    [name |-> name, attr |-> attr, clst |-> clst, size |-> size]

IsEntry(cell) == cell \notin {Zero, Deleted}

(* dir_clear: the sectors of a cluster are zeroed, the window is the first.*)
dir_clear(v, clst) ==
    LET sect == clst2sect(v, clst)
        w == [sync_window(v) EXCEPT !.fs.winsect = sect, !.fs.win = ZeroSector]
    IN  FoldLeft(LAMBDA x, n : disk_write(x, sect + n, ZeroSector), w,
                 [n \in 1 .. v.fs.csize |-> n - 1])

(* dir_sdi to the first entry: the root of FAT32 is a chain, that of FAT16 *)
(* an area of its own.                                                     *)
dir_sdi(v, sclust) ==
    LET clst == IF sclust = 0 /\ v.fs.fs_type = 32 THEN v.fs.dirbase ELSE sclust
    IN  [sclust |-> sclust, clust |-> clst, dptr |-> 0,
         sect |-> IF clst = 0 THEN v.fs.dirbase ELSE clst2sect(v, clst)]

NoDir == [sclust |-> 0, clust |-> 0, dptr |-> 0, sect |-> 0]
Step(v, dp, res) == [v |-> v, dp |-> dp, res |-> res]

(* The cursor dp moves to the beginning of a cluster: one that follows its *)
(* own (g), or one that c adds to the directory.                           *)
ToCluster(v, dp, clst) ==
    Step(v, [dp EXCEPT !.dptr = @ + 1, !.clust = clst, !.sect = clst2sect(v, clst)],
         "FR_OK")
Stretched(c, dp) ==
    IF c.val = 0 THEN Step(c.v, dp, "FR_DENIED")
    ELSE ToCluster(dir_clear(c.v, c.val), dp, c.val)
NextCluster(g, dp, stretch) ==
    IF g.val < g.v.fs.n_fatent THEN ToCluster(g.v, dp, g.val)
    ELSE IF ~stretch THEN Step(g.v, [dp EXCEPT !.sect = 0], "FR_NO_FILE")
    ELSE Stretched(create_chain(g.v, dp.clust), dp)

dir_next(v, dp, stretch) ==
    LET ofs == dp.dptr + 1
        next == [dp EXCEPT !.dptr = ofs, !.sect = @ + 1]
    IN  IF dp.sect = 0 THEN Step(v, dp, "FR_NO_FILE")
        ELSE IF ofs % SS # 0 THEN Step(v, [dp EXCEPT !.dptr = ofs], "FR_OK")
        ELSE IF dp.clust = 0
        THEN IF ofs >= v.fs.n_rootdir
             THEN Step(v, [dp EXCEPT !.sect = 0], "FR_NO_FILE")
             ELSE Step(v, next, "FR_OK")
        ELSE IF (ofs \div SS) % v.fs.csize # 0 THEN Step(v, next, "FR_OK")
        ELSE NextCluster(get_fat(v, dp.clust), dp, stretch)

(* What the loops of dir_alloc and dir_read look for; dir_find looks for a  *)
(* name.                                                                   *)
Vacant == <<"?", "vacant">>
Named == <<"?", "any">>

(* The entries the loops of dir_find, dir_read and dir_alloc stop at.      *)
Sought(cell, what) ==
    CASE what = Vacant -> ~IsEntry(cell)
      [] what = Named -> IsEntry(cell) /\ cell.name \notin {<<".">>, <<".", ".">>}
      [] OTHER -> IsEntry(cell) /\ cell.name = what

RECURSIVE Walk(_, _, _)
Onward(n, what) == IF n.res # "FR_OK" THEN n ELSE Walk(n.v, n.dp, what)
Visit(v, dp, what) ==
    LET cell == v.fs.win[dp.dptr % SS]
    IN  IF Sought(cell, what) THEN Step(v, dp, "FR_OK")
        ELSE IF cell = Zero THEN Step(v, dp, "FR_NO_FILE")
        ELSE Onward(dir_next(v, dp, what = Vacant), what)
Walk(v, dp, what) == Visit(move_window(v, dp.sect), dp, what)

(* dir_read is called with a cursor that may have reached the end.         *)
AtEnd(r) == IF r.res = "FR_OK" THEN r ELSE [r EXCEPT !.dp.sect = 0]
dir_read(v, dp) == IF dp.sect = 0 THEN Step(v, dp, "FR_NO_FILE")
                   ELSE AtEnd(Walk(v, dp, Named))

dir_find(v, sclust, fn) == Walk(v, dir_sdi(v, sclust), fn)

Full(r) == IF r.res = "FR_NO_FILE" THEN [r EXCEPT !.res = "FR_DENIED"] ELSE r
dir_alloc(v, sclust) == Full(Walk(v, dir_sdi(v, sclust), Vacant))

(* The entry under the cursor: read from, or stored into, the window.      *)
EntryAt(v, dp) == v.fs.win[dp.dptr % SS]
StoreAt(v, dp, cell) == Store(v, dp.dptr % SS, cell)

Registered(a, fn) ==
    IF a.res # "FR_OK" THEN a
    ELSE [a EXCEPT !.v = StoreAt(move_window(a.v, a.dp.sect), a.dp,
                                 Entry(fn, "", 0, 0))]
dir_register(v, sclust, fn) == Registered(dir_alloc(v, sclust), fn)

dir_remove(v, dp) == StoreAt(move_window(v, dp.sect), dp, Deleted)

-----------------------------------------------------------------------------
(* Paths.                                                                  *)

(* create_name: the upper-case form of a name, <<>> for one it refuses.    *)
create_name(name) ==
    IF \A i \in DOMAIN name : name[i] \in DOMAIN Upper
    THEN [i \in DOMAIN name |-> Upper[name[i]]]
    ELSE <<>>

(* follow_path from the directory sclust on; f is where its first name was *)
(* found.  fn is the last name looked for, <<>> when the path is empty     *)
(* (NS_NONAME).                                                            *)
RECURSIVE FollowFrom(_, _, _)
Descend(f, path) ==
    LET e == EntryAt(f.v, f.dp)
        Stop(res) == [v |-> f.v, dp |-> f.dp, res |-> res,
                      fn |-> create_name(path[1])]
    IN  IF Len(path) = 1 THEN Stop(f.res)
        ELSE IF f.res # "FR_OK" \/ e.attr # "DIR" THEN Stop("FR_NO_PATH")
        ELSE FollowFrom(f.v, e.clst, Tail(path))
FollowFrom(v, sclust, path) ==
    LET fn == create_name(path[1])
    IN  IF fn = <<>>
        THEN [v |-> v, dp |-> dir_sdi(v, sclust), res |-> "FR_INVALID_NAME", fn |-> fn]
        ELSE Descend(dir_find(v, sclust, fn), path)

follow_path(v, path) ==
    IF path = <<>>
    THEN [v |-> v, dp |-> dir_sdi(v, 0), res |-> "FR_OK", fn |-> <<>>]
    ELSE FollowFrom(v, 0, path)

-----------------------------------------------------------------------------
(* Mounting.                                                               *)

NoFs == [fs_type |-> 0, id |-> 0, volbase |-> 0, fatbase |-> 0, fsize |-> 0,
         n_fats |-> 0, csize |-> 0, n_rootdir |-> 0, dirbase |-> 0,
         database |-> 0, n_fatent |-> 0, win |-> ZeroSector,
         winsect |-> Unknown, wflag |-> FALSE, free_clst |-> Unknown,
         last_clst |-> Unknown, fsi_flag |-> 0]

(* check_fs: what kind of sector it is, now in the window.                 *)
check_fs(v, sect) ==
    LET w == move_window([v EXCEPT !.fs.wflag = FALSE, !.fs.winsect = Unknown],
                         sect)
    IN  [v |-> w, fmt |-> CASE w.fs.win.kind = "boot" -> 0
                            [] w.fs.win.kind = "mbr" -> 2
                            [] OTHER -> 3]

(* find_volume: sector 0, or the first partition of its table that holds   *)
(* a volume.                                                               *)
TryPartition(x, p) == IF x.fmt < 2 \/ p = 0 THEN x ELSE check_fs(x.v, p)
Partitions(c) == IF c.fmt # 2 THEN c
                 ELSE FoldLeft(TryPartition, [c EXCEPT !.fmt = 3], c.v.fs.win.parts)
find_volume(v) == Partitions(check_fs(v, 0))

(* The free count and the last cluster, from the FSINFO sector of FAT32.   *)
Informed(v) == [v EXCEPT !.fs.fsi_flag = 0, !.fs.free_clst = v.fs.win.free,
                         !.fs.last_clst = v.fs.win.next]
ReadInfo(v) == IF v.fs.fs_type # 32 THEN v
               ELSE Informed(move_window(v, v.fs.volbase + 1))

Mounted(c) ==
    LET g == [c.v EXCEPT !.fs = Geometry(@, c.v.fs.win, c.v.fs.winsect)]
    IN  IF c.fmt >= 2 \/ NoFileSystem(c.v.fs.win)
        THEN [v |-> c.v, res |-> "FR_NO_FILESYSTEM"]
        ELSE [v |-> [ReadInfo(g) EXCEPT !.fs.id = @ + 1], res |-> "FR_OK"]
mount_volume(v) ==
    IF v.fs.fs_type # 0 THEN [v |-> v, res |-> "FR_OK"]
    ELSE Mounted(find_volume([v EXCEPT !.fs.fs_type = 0]))

(* What most calls begin with: the volume is mounted, the path followed.   *)
PathOn(m, path) ==
    IF m.res = "FR_OK" THEN follow_path(m.v, path)
    ELSE [v |-> m.v, dp |-> NoDir, res |-> m.res, fn |-> <<>>]
Locate(v, path) == PathOn(mount_volume(v), path)
=============================================================================
