------------------------------ MODULE FatTable ------------------------------
(***************************************************************************)
(* projects/fs/app0/ff.c, the lowest part: where a volume's parts lie, the *)
(* window through which sectors are read and written one at a time, the    *)
(* allocation table in it, and what becomes of the count of free clusters. *)
(*                                                                         *)
(* The functions of ff.c work on the volume v, a record of the disk, the   *)
(* file system object fs and the log of the sectors written, and return    *)
(* the volume they leave behind.  A sector is SS cells; a cell holds what  *)
(* the code finds there: an entry of the table, a directory entry or a     *)
(* piece of a file.  Disk errors cannot occur (diskio.c always answers     *)
(* RES_OK once initialised), and FR_INT_ERR needs a damaged volume.        *)
(***************************************************************************)
EXTENDS Integers, Sequences, FiniteSets

CONSTANTS
    SS,          \* cells of a sector
    Zero,        \* a cell of zeroes: a free cluster, the end of a directory
    MAX_FAT16,   \* a volume with more clusters is FAT32
    EOC          \* 0xFFFFFFFF cut to the width of the table: ends a chain

ASSUME CellsAssumption == SS \in Nat \ {0} /\ EOC \in Nat \ {0} /\ Zero \notin Nat

Cells == 0 .. SS - 1
Unknown == -1    \* free_clst and last_clst at 0xFFFFFFFF, and no sector

-----------------------------------------------------------------------------
(* Where things are.                                                       *)

(* The geometry mount_volume computes from the parameter block b found in  *)
(* sector bsect.                                                           *)
Geometry(fs, b, bsect) ==
    LET sysect == b.rsvd + b.fatsz * b.fats + b.rootent \div SS
        nclst == (b.totsec - sysect) \div b.secperclus
        fat32 == nclst > MAX_FAT16
    IN  [fs EXCEPT !.fs_type = IF fat32 THEN 32 ELSE 16,
                   !.volbase = bsect, !.fatbase = bsect + b.rsvd,
                   !.fsize = b.fatsz, !.n_fats = b.fats,
                   !.csize = b.secperclus, !.n_rootdir = b.rootent,
                   !.dirbase = IF fat32 THEN b.rootclus
                               ELSE bsect + b.rsvd + b.fatsz * b.fats,
                   !.database = bsect + sysect, !.n_fatent = nclst + 2,
                   !.free_clst = Unknown, !.last_clst = Unknown,
                   !.fsi_flag = 128]

(* The conditions under which it refuses the volume.                       *)
NoFileSystem(b) ==
    LET sysect == b.rsvd + b.fatsz * b.fats + b.rootent \div SS
        nclst == (b.totsec - sysect) \div b.secperclus
    IN  \/ b.fats \notin {1, 2}
        \/ b.secperclus \notin {1, 2, 4, 8}
        \/ b.rootent % SS # 0
        \/ b.rsvd = 0
        \/ b.totsec < sysect
        \/ nclst = 0
        \/ nclst > MAX_FAT16 /\ b.rootent # 0
        \/ nclst <= MAX_FAT16 /\ b.rootent = 0
        \/ b.fatsz < (nclst + 2 + SS - 1) \div SS

clst2sect(v, clst) == v.fs.database + v.fs.csize * (clst - 2)

-----------------------------------------------------------------------------
(* The window.                                                             *)

disk_write(v, sect, data) ==
    [v EXCEPT !.disk[sect] = data, !.log = Append(@, <<sect, data>>)]

sync_window(v) ==
    LET fs == v.fs
        w == disk_write([v EXCEPT !.fs.wflag = FALSE], fs.winsect, fs.win)
    IN  IF ~fs.wflag THEN v
        ELSE IF fs.winsect \in fs.fatbase .. fs.fatbase + fs.fsize - 1 /\ fs.n_fats = 2
        THEN disk_write(w, fs.winsect + fs.fsize, fs.win)
        ELSE w

(* Mutant: the window moves without being written back.                    *)
move_window_lossy(v, sect) ==
    IF sect = v.fs.winsect THEN v
    ELSE [v EXCEPT !.fs.win = v.disk[sect], !.fs.winsect = sect,
                   !.fs.wflag = FALSE]

move_window(v, sect) ==
    IF sect = v.fs.winsect THEN v
    ELSE LET w == sync_window(v)
         IN  [w EXCEPT !.fs.win = w.disk[sect], !.fs.winsect = sect]

(* A store into the window, with fs->wflag = 1.                            *)
Store(v, i, cell) == [v EXCEPT !.fs.win[i] = cell, !.fs.wflag = TRUE]

WithInfo(v) ==
    LET sect == v.fs.volbase + 1
        info == [free |-> v.fs.free_clst, next |-> v.fs.last_clst]
    IN  IF v.fs.fs_type = 32 /\ v.fs.fsi_flag = 1
        THEN disk_write([v EXCEPT !.fs.win = info, !.fs.fsi_flag = 0,
                                  !.fs.winsect = sect], sect, info)
        ELSE v

sync_fs(v) == WithInfo(sync_window(v))

-----------------------------------------------------------------------------
(* The allocation table.                                                   *)

(* What get_fat and put_fat begin with.                                    *)
FatWindow(v, clst) == move_window(v, v.fs.fatbase + clst \div SS)

Fetched(v, clst) == [v |-> v, val |-> IF v.fs.win[clst % SS] = Zero THEN 0
                                      ELSE v.fs.win[clst % SS]]
get_fat(v, clst) == Fetched(FatWindow(v, clst), clst)

put_fat(v, clst, val) ==
    Store(FatWindow(v, clst), clst % SS, IF val = 0 THEN Zero ELSE val)

(* fsi_flag |= 1: FSINFO is to be written, unless bit 7 says it is not used.*)
Marked(flag) == IF flag >= 128 THEN 129 ELSE 1

(* free_clst is a number of clusters, not Unknown.                         *)
Known(fs) == fs.free_clst \in 0 .. fs.n_fatent - 2

(* One cluster less in use: free_clst counts it unless it is unknown.      *)
Freed(v) ==
    IF Known(v.fs) /\ v.fs.free_clst # v.fs.n_fatent - 2
    THEN [v EXCEPT !.fs.free_clst = @ + 1,
                   !.fs.fsi_flag = Marked(@)]
    ELSE v

(* A turn of the loop of remove_chain: the entry is cleared and counted.    *)
FreeOne(v, clst) == Freed(put_fat(v, clst, 0))

(* Mutant: free_clst is not counted down.                                  *)
TakenUncounted(v, clst, ncl) ==
    LET w == put_fat(v, ncl, EOC)
        x == IF clst = 0 THEN w ELSE put_fat(w, clst, ncl)
    IN  [x EXCEPT !.fs.last_clst = ncl,
                  !.fs.fsi_flag = Marked(@)]

(* The cluster ncl ends the chain of clst, or a new one.                   *)
Taken(v, clst, ncl) ==
    LET w == put_fat(v, ncl, EOC)
        x == IF clst = 0 THEN w ELSE put_fat(w, clst, ncl)
    IN  [x EXCEPT !.fs.last_clst = ncl,
                  !.fs.free_clst = IF Known(v.fs) THEN @ - 1 ELSE @,
                  !.fs.fsi_flag = Marked(@)]

-----------------------------------------------------------------------------
(* What a table in use satisfies, with what waits in the window.           *)

TableSectors(fs) == fs.fatbase .. fs.fatbase + fs.fsize - 1
CopySectors(fs) == IF fs.n_fats = 2
                   THEN fs.fatbase + fs.fsize .. fs.fatbase + 2 * fs.fsize - 1 ELSE {}
Clusters(fs) == 2 .. fs.n_fatent - 1

Held(v, s) == IF s = v.fs.winsect THEN v.fs.win ELSE v.disk[s]
Table(v) == [c \in Clusters(v.fs) |-> Held(v, v.fs.fatbase + c \div SS)[c % SS]]
FreeIn(t) == {c \in DOMAIN t : t[c] = Zero}

(* mount_volume has found, or the formatting program has seen to it, that  *)
(* the table is large enough for its clusters, whose numbers end below EOC *)
(* (MAX_FAT16, MAX_FAT32), and lies, with its copy, apart from FSINFO;     *)
(* every entry is a number.  The window never holds a sector of the copy.  *)
Formatted(v) ==
    LET fs == v.fs IN
    /\ fs.n_fats \in {1, 2}
    /\ fs.n_fatent <= EOC
    /\ fs.n_fatent <= fs.fsize * SS
    /\ TableSectors(fs) \cup CopySectors(fs) \subseteq DOMAIN v.disk
    /\ fs.fs_type = 32 =>
          fs.volbase + 1 \in DOMAIN v.disk \ (TableSectors(fs) \cup CopySectors(fs))
    /\ fs.winsect \in DOMAIN v.disk \ CopySectors(fs)
    /\ \A s \in TableSectors(fs) : Held(v, s) \in [Cells -> Nat \cup {Zero}]

(* The window is what the disk holds of its sector, or is to be written.   *)
Coherent(v) == v.fs.wflag \/ v.fs.win = v.disk[v.fs.winsect]

(* The two copies of the table are the same, also while a sector waits in  *)
(* the window: sync_window writes both.                                    *)
CopiesAgree(v) ==
    v.fs.n_fats = 2 =>
        \A s \in TableSectors(v.fs) : v.disk[s] = v.disk[s + v.fs.fsize]

(* Links lead to clusters in use, no two to the same, and every chain ends: *)
(* there is no set of clusters that links never leave.                     *)
Chained(t) ==
    /\ \A c \in DOMAIN t : t[c] \in DOMAIN t => t[t[c]] # Zero
    /\ \A c, d \in DOMAIN t : t[c] = t[d] /\ t[c] \in DOMAIN t => c = d
    /\ \A X \in (SUBSET DOMAIN t) \ {{}} : \E c \in X : t[c] \notin X

(* free_clst, when it is known, is the number of free clusters.            *)
CountExact(v) == Known(v.fs) => v.fs.free_clst = Cardinality(FreeIn(Table(v)))

TableSound(v) == Formatted(v) /\ Coherent(v) /\ CopiesAgree(v)
TableWhole(v) == TableSound(v) /\ Chained(Table(v)) /\ CountExact(v)
=============================================================================
