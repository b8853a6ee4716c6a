--------------------------- MODULE FatTableProofs ---------------------------
(***************************************************************************)
(* Proofs about the window and the allocation table of ff.c, for a disk of *)
(* any size, any number of cells to a sector, either kind of volume and    *)
(* one or two copies of the table.                                         *)
(*                                                                         *)
(* The argument goes through what a sector holds: the window if it is the  *)
(* sector in it, the disk otherwise.  Moving the window changes what no    *)
(* sector holds (but those of the copy, which are never read), a store     *)
(* changes one cell; so an entry written is the entry read, whatever was   *)
(* in the window in between.  What the operations do to chains is then a   *)
(* matter of the table as a function.                                      *)
(***************************************************************************)
EXTENDS FatTable, FiniteSetTheorems, TLAPS

-----------------------------------------------------------------------------
(* Types.                                                                  *)

CONSTANTS
    DiskSize,    \* sectors of the disk
    Other        \* what sectors hold besides the table and FSINFO

Sectors == {s \in Nat : s < DiskSize}
Entries == Nat \cup {Zero}
Contents == [Cells -> Entries] \cup [free : Int, next : Int] \cup Other

FatFs ==
    [fs_type : Nat, id : Nat, volbase : Nat, fatbase : Nat, fsize : Nat,
     n_fats : Nat, csize : Nat, n_rootdir : Nat, dirbase : Nat, database : Nat,
     n_fatent : Nat, win : Contents, winsect : Sectors, wflag : BOOLEAN,
     free_clst : Int, last_clst : Int, fsi_flag : Nat]
Volumes == [disk : [Sectors -> Contents], fs : FatFs, log : Seq(Sectors \X Contents)]

-----------------------------------------------------------------------------
(* Where things are.                                                       *)

\* What the first sector of a volume says.
BootSectors ==
    [kind : {"boot"}, rsvd : Nat, fats : Nat, fatsz : Nat, rootent : Nat,
     secperclus : Nat, totsec : Nat, rootclus : Nat]

\* Division by the cells of a sector.
LEMMA CellWidth == SS \in Nat \ {0}
  BY CellsAssumption

LEMMA Quotient ==
    ASSUME NEW c \in Nat
    PROVE  /\ c \div SS \in Nat /\ c % SS \in Cells
           /\ c = SS * (c \div SS) + (c % SS)
<1>1. c \div SS \in Nat
  BY CellWidth
<1>2. c % SS \in Cells
  BY CellWidth DEF Cells
<1>3. c = SS * (c \div SS) + (c % SS)
  BY CellWidth
<1>. QED BY <1>1, <1>2, <1>3

LEMMA QuotientBelow ==
    ASSUME NEW c \in Nat, NEW n \in Nat, c < n * SS
    PROVE  c \div SS < n
<1>1. /\ c \div SS \in Nat /\ c % SS \in Cells
      /\ c = SS * (c \div SS) + (c % SS)
  BY Quotient
<1>2. PICK q \in Nat, r \in Cells : q = c \div SS /\ r = c % SS
  BY <1>1, Zenon
<1>3. c = SS * q + r
  BY <1>1, <1>2
<1>4. SS \in Nat /\ r \in Nat
  BY CellWidth DEF Cells
<1>5. q >= n => SS * q >= SS * n
  BY <1>4
<1>6. SS * n = n * SS /\ SS * q \in Nat
  BY <1>4
<1>7. q >= n => c >= SS * n
  BY <1>3, <1>4, <1>5, <1>6
<1>. QED BY <1>2, <1>4, <1>6, <1>7

\* Division by the sectors of a cluster.
LEMMA ClusterQuotient ==
    ASSUME NEW n \in Nat, NEW k \in {1, 2, 4, 8}
    PROVE  /\ n \div k \in Nat
           /\ k * (n \div k) <= n
  OBVIOUS

\* What mount_volume does not refuse lies where it should: an entry for every
\* cluster, the table and its copy behind the boot sector and before the
\* clusters, these inside the volume and apart from each other, and each
\* with a number below the end of the table (mount_volume, clst2sect).
THEOREM GeometryFits ==
    ASSUME NEW fs \in FatFs, NEW b \in BootSectors, NEW bsect \in Nat,
           ~NoFileSystem(b), NEW v \in Volumes, v.fs = Geometry(fs, b, bsect)
    PROVE  LET g == v.fs
               Last(c) == clst2sect(v, c) + g.csize - 1
           IN  /\ g.n_fats \in {1, 2}
               /\ g.n_fatent <= g.fsize * SS
               /\ TableSectors(g) \cup CopySectors(g) \subseteq bsect + 1 .. g.database - 1
               /\ \A c \in Clusters(g) :
                     clst2sect(v, c) .. Last(c) \subseteq g.database .. bsect + b.totsec - 1
               /\ \A c, d \in Clusters(g) : c < d => Last(c) < clst2sect(v, d)
<1>1. /\ b.rsvd \in Nat /\ b.fats \in Nat /\ b.fatsz \in Nat /\ b.rootent \in Nat
      /\ b.secperclus \in Nat /\ b.totsec \in Nat
  BY DEF BootSectors
<1>2. PICK root \in Nat : root = b.rootent \div SS
  BY <1>1, Quotient
<1>3. PICK sysect : sysect = b.rsvd + b.fatsz * b.fats + b.rootent \div SS
  OBVIOUS
<1>4. PICK nclst : nclst = (b.totsec - sysect) \div b.secperclus
  OBVIOUS
<1>5. /\ b.fats \in {1, 2} /\ b.secperclus \in {1, 2, 4, 8} /\ b.rsvd # 0
      /\ b.totsec >= sysect /\ ~(b.fatsz < (nclst + 2 + SS - 1) \div SS)
  BY <1>1, <1>2, <1>3, <1>4 DEF NoFileSystem
<1>6. /\ v.fs.n_fats = b.fats /\ v.fs.fsize = b.fatsz /\ v.fs.csize = b.secperclus
      /\ v.fs.fatbase = bsect + b.rsvd /\ v.fs.database = bsect + sysect
      /\ v.fs.n_fatent = nclst + 2
  BY <1>3, <1>4 DEF Geometry, FatFs
<1>7. PICK area \in Nat : /\ area = b.fatsz * b.fats
                          /\ b.fats = 1 => area = b.fatsz
                          /\ b.fats = 2 => area = 2 * b.fatsz
  BY <1>1, <1>5
<1>8. sysect = b.rsvd + area + root /\ sysect \in Nat
  BY <1>1, <1>2, <1>3, <1>7
<1>9. PICK n \in Nat : n = b.totsec - sysect
  BY <1>1, <1>5, <1>8
<1>10. nclst \in Nat /\ b.secperclus * nclst <= n
  BY <1>4, <1>5, <1>9, ClusterQuotient
<1>11. v.fs.n_fatent <= v.fs.fsize * SS
  <2>1. PICK m \in Nat : m = nclst + 2 + SS - 1
    BY <1>10, CellWidth
  <2>2. PICK q \in Nat, r \in Cells : q = m \div SS /\ m = SS * q + r
    BY Quotient
  <2>3. q <= b.fatsz
    BY <1>1, <1>5, <2>1, <2>2
  <2>4. SS * q <= b.fatsz * SS
    BY <1>1, <2>3, CellWidth
  <2>5. PICK x \in Nat, y \in Nat : x = SS * q /\ y = b.fatsz * SS
    BY <1>1, <2>2, CellWidth
  <2>6. r \in Nat /\ r <= SS - 1
    BY CellWidth DEF Cells
  <2>7. m = x + r /\ x <= y
    BY <2>2, <2>4, <2>5
  <2>8. nclst + 2 <= y
    BY <1>10, <2>1, <2>6, <2>7, CellWidth
  <2>. QED BY <1>6, <2>5, <2>8
<1>12. TableSectors(v.fs) \cup CopySectors(v.fs) \subseteq bsect + 1 .. v.fs.database - 1
  <2>1. PICK f \in Nat, z \in Nat : f = b.fatsz /\ z = b.rsvd
    BY <1>1, Zenon
  <2>2. /\ z # 0
        /\ v.fs.fatbase = bsect + z /\ v.fs.fsize = f
        /\ v.fs.database = bsect + (z + area + root)
    BY <1>5, <1>6, <1>8, <2>1
  <2>3. \/ b.fats = 1 /\ area = f
        \/ b.fats = 2 /\ area = 2 * f
    BY <1>5, <1>7, <2>1
  <2>4. f <= area /\ area \in Nat /\ root \in Nat
    BY <1>2, <1>7, <2>1, <2>3
  <2>5. bsect + z .. bsect + z + f - 1 \subseteq bsect + 1 .. bsect + (z + area + root) - 1
    BY <2>1, <2>2, <2>4
  <2>6. TableSectors(v.fs) = bsect + z .. bsect + z + f - 1
    BY <2>2 DEF TableSectors
  <2>7. TableSectors(v.fs) \subseteq bsect + 1 .. v.fs.database - 1
    BY <2>2, <2>5, <2>6
  <2>8. CASE b.fats = 1
    BY <1>6, <2>7, <2>8 DEF CopySectors
  <2>9. CASE b.fats = 2
    <3>1. CopySectors(v.fs) = bsect + z + f .. bsect + z + 2 * f - 1
      BY <1>6, <2>2, <2>9 DEF CopySectors
    <3>2. area = 2 * f
      BY <2>3, <2>9
    <3>3. bsect + z + f .. bsect + z + 2 * f - 1
            \subseteq bsect + 1 .. bsect + (z + area + root) - 1
      BY <2>1, <2>2, <2>4, <3>2
    <3>. QED BY <2>2, <2>7, <3>1, <3>3
  <2>. QED BY <1>5, <2>8, <2>9
<1>13. PICK k \in {1, 2, 4, 8} : k = v.fs.csize
  BY <1>5, <1>6
<1>14. Clusters(v.fs) = 2 .. nclst + 1
  BY <1>6, <1>10 DEF Clusters
<1>15. \A c \in Clusters(v.fs) :
         /\ clst2sect(v, c) = bsect + sysect + k * (c - 2)
         /\ k * (c - 2) \in Nat /\ k * (c - 2) + k <= n
  <2>1. TAKE c \in Clusters(v.fs)
  <2>2. c \in Nat /\ 2 <= c /\ c <= nclst + 1
    BY <1>10, <1>14
  <2>3. k * nclst <= n
    BY <1>6, <1>10, <1>13
  <2>4. k * (c - 2) \in Nat /\ k * (c - 2) + k <= k * nclst
    BY <1>10, <2>2
  <2>5. k * (c - 2) + k <= n
    BY <1>9, <1>10, <2>3, <2>4
  <2>. QED BY <1>6, <1>13, <2>4, <2>5 DEF clst2sect
<1>16. \A c \in Clusters(v.fs) :
         clst2sect(v, c) .. clst2sect(v, c) + v.fs.csize - 1
            \subseteq v.fs.database .. bsect + b.totsec - 1
  <2>1. TAKE c \in Clusters(v.fs)
  <2>2. PICK x \in Nat : /\ x = k * (c - 2) /\ x + k <= n
                         /\ clst2sect(v, c) = bsect + sysect + x
    BY <1>15
  <2>. QED BY <1>1, <1>6, <1>8, <1>9, <1>13, <2>2
<1>17. \A c, d \in Clusters(v.fs) :
         c < d => clst2sect(v, c) + v.fs.csize - 1 < clst2sect(v, d)
  <2>1. SUFFICES ASSUME NEW c \in Clusters(v.fs), NEW d \in Clusters(v.fs), c < d
                 PROVE  clst2sect(v, c) + v.fs.csize - 1 < clst2sect(v, d)
    OBVIOUS
  <2>2. c \in Nat /\ d \in Nat /\ 2 <= c
    BY <1>10, <1>14
  <2>3. k * (c - 2) + k <= k * (d - 2)
    BY <2>1, <2>2
  <2>4. PICK x \in Nat, y \in Nat :
           /\ x = k * (c - 2) /\ y = k * (d - 2) /\ x + k <= y
           /\ clst2sect(v, c) = bsect + sysect + x
           /\ clst2sect(v, d) = bsect + sysect + y
    BY <1>15, <2>3
  <2>. QED BY <1>8, <1>13, <2>4
<1>. QED BY <1>5, <1>6, <1>11, <1>12, <1>16, <1>17

-----------------------------------------------------------------------------
(* The window.                                                             *)

\* disk_write changes one sector of the disk and nothing of the volume's
\* description.
LEMMA DiskWrite ==
    ASSUME NEW v \in Volumes,
           NEW s \in Sectors, NEW data \in Contents
    PROVE  /\ disk_write(v, s, data) \in Volumes
           /\ disk_write(v, s, data).fs = v.fs
           /\ \A t \in Sectors : disk_write(v, s, data).disk[t] = IF t = s THEN data ELSE v.disk[t]
<1>1. v.log \in Seq(Sectors \X Contents) /\ <<s, data>> \in Sectors \X Contents
  BY DEF Volumes
<1>2. Append(v.log, <<s, data>>) \in Seq(Sectors \X Contents)
  BY <1>1
<1>. QED BY <1>2 DEF disk_write, Volumes

\* Marking the window as written changes nothing else.
LEMMA SetFlag ==
    ASSUME NEW v \in Volumes
    PROVE  LET w == [v EXCEPT !.fs.wflag = FALSE]
           IN  /\ w \in Volumes /\ w.disk = v.disk
               /\ w.fs = [v.fs EXCEPT !.wflag = FALSE]
  BY DEF Volumes, FatFs

\* The sectors that sync_window writes.
Saved(fs) == IF ~fs.wflag THEN {}
             ELSE IF fs.winsect \in TableSectors(fs) /\ fs.n_fats = 2
             THEN {fs.winsect, fs.winsect + fs.fsize} ELSE {fs.winsect}

\* sync_window writes the window to its sector and, if that is one of the
\* table, to the copy's.
LEMMA SyncWindow ==
    ASSUME NEW v \in Volumes, Formatted(v)
    PROVE  LET w == sync_window(v)
           IN  /\ w \in Volumes
               /\ w.fs = [v.fs EXCEPT !.wflag = FALSE]
               /\ \A t \in Sectors : w.disk[t] = IF t \in Saved(v.fs) THEN v.fs.win ELSE v.disk[t]
<1>. DEFINE fs == v.fs
<1>0. /\ fs \in FatFs /\ v.disk \in [Sectors -> Contents]
      /\ fs.winsect \in Sectors /\ fs.win \in Contents /\ fs.wflag \in BOOLEAN
      /\ fs.fsize \in Nat /\ fs.fatbase \in Nat /\ fs.winsect \in Nat
  BY DEF Volumes, FatFs, Sectors
<1>1. PICK u \in Volumes :
         /\ u = [v EXCEPT !.fs.wflag = FALSE] /\ u.disk = v.disk
         /\ u.fs = [v.fs EXCEPT !.wflag = FALSE]
  BY SetFlag
<1>2. PICK s \in Sectors, d \in Contents : s = fs.winsect /\ d = fs.win
  BY <1>0
<1>3. PICK w \in Volumes :
         /\ w = disk_write(u, s, d)
         /\ w.fs = u.fs
         /\ \A t \in Sectors : w.disk[t] = IF t = s THEN d ELSE u.disk[t]
  <2>1. /\ disk_write(u, s, d) \in Volumes
        /\ disk_write(u, s, d).fs = u.fs
        /\ \A t \in Sectors : disk_write(u, s, d).disk[t] = IF t = s THEN d ELSE u.disk[t]
    BY DiskWrite
  <2>. QED BY Zenon, <2>1
<1>4. CASE ~fs.wflag
  <2>1. sync_window(v) = v
    BY <1>4 DEF sync_window
  <2>2. Saved(fs) = {}
    BY <1>4 DEF Saved
  <2>3. [v.fs EXCEPT !.wflag = FALSE] = v.fs
    BY <1>0, <1>4 DEF FatFs
  <2>. QED BY <1>0, <2>1, <2>2, <2>3
<1>5. CASE fs.wflag /\ ~(fs.winsect \in TableSectors(fs) /\ fs.n_fats = 2)
  <2>1. sync_window(v) = w
    BY <1>1, <1>2, <1>3, <1>5 DEF sync_window, TableSectors
  <2>2. Saved(fs) = {s}
    BY <1>2, <1>5 DEF Saved
  <2>3. \A t \in Sectors : w.disk[t] = IF t \in Saved(fs) THEN fs.win ELSE v.disk[t]
    BY <1>0, <1>1, <1>2, <1>3, <2>2
  <2>. QED BY <1>1, <1>3, <2>1, <2>3
<1>6. CASE fs.wflag /\ fs.winsect \in TableSectors(fs) /\ fs.n_fats = 2
  <2>1. PICK r \in Sectors : r = s + fs.fsize
    <3>1. s + fs.fsize \in CopySectors(fs)
      BY <1>0, <1>2, <1>6 DEF CopySectors, TableSectors
    <3>2. TableSectors(v.fs) \cup CopySectors(v.fs) \subseteq DOMAIN v.disk
      BY Zenon DEF Formatted
    <3>3. CopySectors(v.fs) \subseteq DOMAIN v.disk /\ DOMAIN v.disk = Sectors
      BY <1>0, <3>2
    <3>. QED BY <3>1, <3>3
  <2>2. PICK x \in Volumes :
           /\ x = disk_write(w, r, d)
           /\ x.fs = w.fs
           /\ \A t \in Sectors : x.disk[t] = IF t = r THEN d ELSE w.disk[t]
    <3>1. /\ disk_write(w, r, d) \in Volumes
          /\ disk_write(w, r, d).fs = w.fs
          /\ \A t \in Sectors : disk_write(w, r, d).disk[t] = IF t = r THEN d ELSE w.disk[t]
      BY DiskWrite
    <3>. QED BY Zenon, <3>1
  <2>3. sync_window(v) = x
    <3>1. w = disk_write([v EXCEPT !.fs.wflag = FALSE], v.fs.winsect, v.fs.win)
      BY <1>1, <1>2, <1>3
    <3>2. r = v.fs.winsect + v.fs.fsize /\ d = v.fs.win
      BY <1>2, <2>1
    <3>3. x = disk_write(w, v.fs.winsect + v.fs.fsize, v.fs.win)
      BY <2>2, <3>2
    <3>4. /\ v.fs.wflag /\ v.fs.n_fats = 2
          /\ v.fs.winsect \in v.fs.fatbase .. v.fs.fatbase + v.fs.fsize - 1
      BY <1>6 DEF TableSectors
    <3>. QED BY <3>1, <3>3, <3>4 DEF sync_window
  <2>4. Saved(fs) = {s, r}
    BY <1>2, <1>6, <2>1 DEF Saved
  <2>5. \A t \in Sectors : x.disk[t] = IF t \in Saved(fs) THEN fs.win ELSE v.disk[t]
    <3>1. \A t \in Sectors : x.disk[t] = IF t \in {s, r} THEN d ELSE u.disk[t]
      BY <1>3, <2>2
    <3>. QED BY Zenon, <1>1, <1>2, <2>4, <3>1
  <2>. QED BY <1>1, <1>3, <2>2, <2>3, <2>5
<1>. QED BY <1>0, <1>4, <1>5, <1>6

\* The fields of the file system object that moving the window leaves alone.
SameFs(f, g) == g = [f EXCEPT !.win = g.win, !.winsect = g.winsect, !.wflag = g.wflag]

\* What that leaves of a file system object.
LEMMA SameFields ==
    ASSUME NEW f \in FatFs, NEW g \in FatFs, SameFs(f, g)
    PROVE  /\ g.fs_type = f.fs_type /\ g.volbase = f.volbase /\ g.fatbase = f.fatbase
           /\ g.fsize = f.fsize /\ g.n_fats = f.n_fats /\ g.n_fatent = f.n_fatent
           /\ g.free_clst = f.free_clst /\ g.last_clst = f.last_clst
           /\ g.fsi_flag = f.fsi_flag
           /\ TableSectors(g) = TableSectors(f) /\ CopySectors(g) = CopySectors(f)
           /\ Clusters(g) = Clusters(f)
<1>1. /\ g.fs_type = f.fs_type /\ g.volbase = f.volbase /\ g.fatbase = f.fatbase
      /\ g.fsize = f.fsize /\ g.n_fats = f.n_fats /\ g.n_fatent = f.n_fatent
      /\ g.free_clst = f.free_clst /\ g.last_clst = f.last_clst
      /\ g.fsi_flag = f.fsi_flag
  BY DEF SameFs, FatFs
<1>. QED BY <1>1 DEF TableSectors, CopySectors, Clusters

\* Two moves of the window are one.
LEMMA SameFsTrans ==
    ASSUME NEW f \in FatFs, NEW g \in FatFs, NEW h \in FatFs, SameFs(f, g), SameFs(g, h)
    PROVE  SameFs(f, h)
  BY DEF SameFs, FatFs

\* The types of the fields that say where things are.
LEMMA Fields ==
    ASSUME NEW v \in Volumes
    PROVE  /\ v.fs \in FatFs /\ v.disk \in [Sectors -> Contents]
           /\ v.fs.fatbase \in Nat /\ v.fs.fsize \in Nat /\ v.fs.n_fats \in Nat
           /\ v.fs.volbase \in Nat /\ v.fs.n_fatent \in Nat /\ v.fs.fs_type \in Nat
           /\ v.fs.winsect \in Sectors /\ v.fs.win \in Contents
           /\ v.fs.wflag \in BOOLEAN /\ v.fs.free_clst \in Int
           /\ v.fs.last_clst \in Int /\ v.fs.fsi_flag \in Nat
           /\ Sectors \subseteq Nat
  BY DEF Volumes, FatFs, Sectors

\* Everywhere but in the copy of the table, w holds what v held.
Alike(v, w) ==
    /\ w \in Volumes
    /\ SameFs(v.fs, w.fs)
    /\ TableSound(w)
    /\ \A t \in Sectors \ CopySectors(v.fs) : Held(w, t) = Held(v, t)

\* Where the table and its copy lie, they do not overlap, and the window
\* is never a sector of the copy.
LEMMA Apart ==
    ASSUME NEW v \in Volumes, Formatted(v)
    PROVE  /\ TableSectors(v.fs) \cap CopySectors(v.fs) = {}
           /\ TableSectors(v.fs) \subseteq Sectors /\ CopySectors(v.fs) \subseteq Sectors
           /\ v.fs.winsect \notin CopySectors(v.fs)
           /\ v.fs.n_fats = 2 =>
                 /\ \A t \in TableSectors(v.fs) : t + v.fs.fsize \in CopySectors(v.fs)
                 /\ \A t \in CopySectors(v.fs) : t - v.fs.fsize \in TableSectors(v.fs)
<1>1. /\ v.fs.fatbase \in Nat /\ v.fs.fsize \in Nat /\ DOMAIN v.disk = Sectors
  BY Fields
<1>2. TableSectors(v.fs) \cap CopySectors(v.fs) = {}
  BY <1>1 DEF TableSectors, CopySectors
<1>3. /\ TableSectors(v.fs) \cup CopySectors(v.fs) \subseteq DOMAIN v.disk
      /\ v.fs.winsect \in DOMAIN v.disk \ CopySectors(v.fs)
  BY Zenon DEF Formatted
<1>4. v.fs.n_fats = 2 =>
         /\ \A t \in TableSectors(v.fs) : t + v.fs.fsize \in CopySectors(v.fs)
         /\ \A t \in CopySectors(v.fs) : t - v.fs.fsize \in TableSectors(v.fs)
  BY <1>1 DEF TableSectors, CopySectors
<1>5. /\ TableSectors(v.fs) \subseteq Sectors /\ CopySectors(v.fs) \subseteq Sectors
      /\ v.fs.winsect \notin CopySectors(v.fs)
  BY <1>1, <1>3
<1>. QED BY <1>2, <1>4, <1>5

\* The layout of a volume that is sound carries over to one that holds the same.
LEMMA FormattedKept ==
    ASSUME NEW v \in Volumes, Formatted(v), NEW w \in Volumes, SameFs(v.fs, w.fs),
           w.fs.winsect \notin CopySectors(v.fs),
           \A t \in TableSectors(v.fs) : Held(w, t) \in [Cells -> Entries]
    PROVE  Formatted(w)
<1>1. /\ v.fs \in FatFs /\ w.fs \in FatFs /\ w.fs.winsect \in Sectors
      /\ DOMAIN v.disk = Sectors /\ DOMAIN w.disk = Sectors
  BY Fields
<1>2. /\ w.fs.fs_type = v.fs.fs_type /\ w.fs.volbase = v.fs.volbase
      /\ w.fs.fsize = v.fs.fsize /\ w.fs.n_fats = v.fs.n_fats
      /\ w.fs.n_fatent = v.fs.n_fatent
      /\ TableSectors(w.fs) = TableSectors(v.fs) /\ CopySectors(w.fs) = CopySectors(v.fs)
  BY <1>1, SameFields
<1>. QED BY <1>1, <1>2 DEF Formatted, Entries

\* The entry of a cluster is a cell of a sector of the table.
LEMMA EntrySector ==
    ASSUME NEW v \in Volumes, Formatted(v), NEW c \in Clusters(v.fs)
    PROVE  /\ c \in Nat /\ c % SS \in Cells
           /\ v.fs.fatbase + c \div SS \in TableSectors(v.fs)
<1>1. /\ v.fs.fatbase \in Nat /\ v.fs.fsize \in Nat /\ v.fs.n_fatent \in Nat
  BY Fields
<1>2. v.fs.n_fatent <= v.fs.fsize * SS
  BY DEF Formatted
<1>3. c \in Nat /\ c < v.fs.n_fatent
  BY <1>1 DEF Clusters
<1>4. c < v.fs.fsize * SS
  <2>1. PICK m \in Nat : m = v.fs.fsize * SS
    BY <1>1, CellsAssumption
  <2>. QED BY <1>1, <1>2, <1>3, <2>1
<1>5. c \div SS < v.fs.fsize /\ c \div SS \in Nat /\ c % SS \in Cells
  BY <1>1, <1>3, <1>4, QuotientBelow, Quotient
<1>. QED BY <1>1, <1>3, <1>5 DEF TableSectors

\* The table depends on what its sectors hold, and on nothing else.
LEMMA SameTable ==
    ASSUME NEW v \in Volumes, Formatted(v), NEW w \in Volumes,
           w.fs.fatbase = v.fs.fatbase, w.fs.n_fatent = v.fs.n_fatent,
           \A t \in TableSectors(v.fs) : Held(w, t) = Held(v, t)
    PROVE  Table(w) = Table(v)
<1>1. Clusters(w.fs) = Clusters(v.fs)
  BY DEF Clusters
<1>2. \A c \in Clusters(v.fs) : v.fs.fatbase + c \div SS \in TableSectors(v.fs)
  BY EntrySector
<1>3. \A c \in Clusters(v.fs) :
         Held(w, w.fs.fatbase + c \div SS) = Held(v, v.fs.fatbase + c \div SS)
  BY <1>2
<1>. QED BY <1>1, <1>3 DEF Table

\* sync_window leaves a sound volume as it was, with nothing waiting.
LEMMA SyncAlike ==
    ASSUME NEW v \in Volumes, TableSound(v)
    PROVE  /\ Alike(v, sync_window(v))
           /\ ~sync_window(v).fs.wflag
           /\ sync_window(v).fs = [v.fs EXCEPT !.wflag = FALSE]
           /\ sync_window(v).disk[v.fs.winsect] =
                 IF v.fs.wflag THEN v.fs.win ELSE v.disk[v.fs.winsect]
<1>0. Formatted(v) /\ Coherent(v) /\ CopiesAgree(v)
  BY DEF TableSound
<1>1. PICK w \in Volumes :
         /\ w = sync_window(v)
         /\ w.fs = [v.fs EXCEPT !.wflag = FALSE]
         /\ \A t \in Sectors : w.disk[t] = IF t \in Saved(v.fs) THEN v.fs.win ELSE v.disk[t]
  <2>1. LET w == sync_window(v)
        IN  /\ w \in Volumes
            /\ w.fs = [v.fs EXCEPT !.wflag = FALSE]
            /\ \A t \in Sectors : w.disk[t] = IF t \in Saved(v.fs) THEN v.fs.win ELSE v.disk[t]
    BY <1>0, SyncWindow
  <2>. QED BY Zenon, <2>1
<1>2. /\ v.fs \in FatFs /\ w.fs \in FatFs /\ v.fs.winsect \in Sectors
      /\ v.fs.fsize \in Nat /\ v.fs.fatbase \in Nat /\ v.fs.wflag \in BOOLEAN
      /\ Sectors \subseteq Nat
  BY Fields
<1>3. /\ SameFs(v.fs, w.fs) /\ ~w.fs.wflag
      /\ w.fs.win = v.fs.win /\ w.fs.winsect = v.fs.winsect
  BY <1>1, <1>2 DEF FatFs, SameFs
<1>4. /\ w.fs.fsize = v.fs.fsize /\ w.fs.n_fats = v.fs.n_fats
      /\ TableSectors(w.fs) = TableSectors(v.fs) /\ CopySectors(w.fs) = CopySectors(v.fs)
  BY <1>2, <1>3, SameFields
<1>5. /\ TableSectors(v.fs) \cap CopySectors(v.fs) = {}
      /\ TableSectors(v.fs) \subseteq Sectors /\ CopySectors(v.fs) \subseteq Sectors
      /\ v.fs.winsect \notin CopySectors(v.fs)
      /\ v.fs.n_fats = 2 => \A t \in TableSectors(v.fs) : t + v.fs.fsize \in CopySectors(v.fs)
  BY <1>0, Apart
<1>6. Saved(v.fs) \subseteq {v.fs.winsect} \cup CopySectors(v.fs)
  BY <1>5 DEF Saved
<1>7. \A t \in Sectors \ CopySectors(v.fs) : Held(w, t) = Held(v, t)
  BY <1>1, <1>3, <1>6 DEF Held
<1>8. w.disk[v.fs.winsect] = IF v.fs.wflag THEN v.fs.win ELSE v.disk[v.fs.winsect]
  BY <1>1, <1>2 DEF Saved
<1>9. Formatted(w)
  <2>1. \A t \in TableSectors(v.fs) : Held(v, t) \in [Cells -> Entries]
    BY <1>0 DEF Formatted, Entries
  <2>2. \A t \in TableSectors(v.fs) : Held(w, t) \in [Cells -> Entries]
    BY <2>1, <1>5, <1>7
  <2>. QED BY <1>0, <1>3, <1>5, <2>2, FormattedKept
<1>10. Coherent(w)
  BY <1>0, <1>3, <1>8 DEF Coherent
<1>11. CopiesAgree(w)
  <2>1. SUFFICES ASSUME v.fs.n_fats = 2, NEW s \in TableSectors(v.fs)
                 PROVE  w.disk[s] = w.disk[s + v.fs.fsize]
    BY <1>4 DEF CopiesAgree
  <2>2. v.disk[s] = v.disk[s + v.fs.fsize]
    BY <1>0, <2>1 DEF CopiesAgree
  <2>3. PICK r \in CopySectors(v.fs) : r = s + v.fs.fsize
    BY <1>5, <2>1
  <2>4. r \in Saved(v.fs) <=> s \in Saved(v.fs)
    <3>1. s \in Nat /\ r \in Nat /\ v.fs.winsect \in Nat /\ s # r
      BY <1>2, <1>5
    <3>2. s # v.fs.winsect + v.fs.fsize \/ v.fs.winsect \notin TableSectors(v.fs)
      BY <1>5, <2>1
    <3>3. r # v.fs.winsect
      BY <1>5
    <3>4. r = v.fs.winsect + v.fs.fsize <=> s = v.fs.winsect
      BY <1>2, <2>3, <3>1
    <3>. QED BY <2>1, <3>2, <3>3, <3>4 DEF Saved
  <2>. QED BY <1>1, <1>5, <2>2, <2>3, <2>4
<1>. QED BY <1>1, <1>3, <1>7, <1>8, <1>9, <1>10, <1>11 DEF Alike, TableSound

\* Another sector is loaded when nothing waits in the window.
Loaded(v, sect) == [v EXCEPT !.fs.win = v.disk[sect], !.fs.winsect = sect]

\* Loading a sector changes nothing of what the sectors hold.
LEMMA LoadAlike ==
    ASSUME NEW v \in Volumes, TableSound(v), ~v.fs.wflag,
           NEW sect \in Sectors \ CopySectors(v.fs)
    PROVE  /\ Alike(v, Loaded(v, sect))
           /\ Loaded(v, sect).fs.winsect = sect
           /\ Loaded(v, sect).fs.win = v.disk[sect]
           /\ Loaded(v, sect).disk = v.disk
<1>0. Formatted(v) /\ Coherent(v) /\ CopiesAgree(v)
  BY DEF TableSound
<1>1. /\ v.fs \in FatFs /\ v.disk \in [Sectors -> Contents] /\ v.fs.winsect \in Sectors
  BY Fields
<1>2. PICK w : w = Loaded(v, sect)
  OBVIOUS
<1>3. /\ w \in Volumes /\ w.disk = v.disk /\ SameFs(v.fs, w.fs)
      /\ w.fs.win = v.disk[sect] /\ w.fs.winsect = sect
  BY <1>1, <1>2 DEF Volumes, FatFs, Loaded, SameFs
<1>4. v.fs.win = v.disk[v.fs.winsect]
  BY <1>0 DEF Coherent
<1>5. \A t \in Sectors : Held(v, t) = v.disk[t] /\ Held(w, t) = v.disk[t]
  BY <1>3, <1>4 DEF Held
<1>6. w.fs \in FatFs
  BY <1>3, Fields
<1>7. /\ w.fs.fsize = v.fs.fsize /\ w.fs.n_fats = v.fs.n_fats
      /\ TableSectors(w.fs) = TableSectors(v.fs) /\ CopySectors(w.fs) = CopySectors(v.fs)
  BY <1>1, <1>3, <1>6, SameFields
<1>8. TableSectors(v.fs) \subseteq Sectors
  BY <1>0, Apart
<1>9. Formatted(w)
  <2>1. \A t \in TableSectors(v.fs) : Held(v, t) \in [Cells -> Entries]
    BY <1>0 DEF Formatted, Entries
  <2>2. \A t \in TableSectors(v.fs) : Held(w, t) \in [Cells -> Entries]
    BY <2>1, <1>5, <1>8
  <2>. QED BY <1>0, <1>3, <2>2, FormattedKept
<1>10. Coherent(w)
  BY <1>3 DEF Coherent
<1>11. CopiesAgree(w)
  BY <1>0, <1>3, <1>7 DEF CopiesAgree
<1>. QED BY <1>2, <1>3, <1>5, <1>9, <1>10, <1>11 DEF Alike, TableSound

\* Two changes that go unnoticed are one.
LEMMA AlikeTrans ==
    ASSUME NEW v \in Volumes, NEW u \in Volumes, NEW w \in Volumes,
           Alike(v, u), Alike(u, w)
    PROVE  Alike(v, w)
<1>1. v.fs \in FatFs /\ u.fs \in FatFs /\ w.fs \in FatFs
  BY Fields
<1>2. SameFs(v.fs, w.fs)
  BY <1>1, SameFsTrans DEF Alike
<1>3. CopySectors(u.fs) = CopySectors(v.fs)
  BY <1>1, SameFields DEF Alike
<1>. QED BY <1>2, <1>3 DEF Alike

\* The window can be moved to any sector but those of the copy, and nobody
\* notices: what is read afterwards, in the window or on the disk, is what
\* would have been read before (move_window).
THEOREM WindowTransparent ==
    ASSUME NEW v \in Volumes, TableSound(v),
           NEW sect \in Sectors \ CopySectors(v.fs)
    PROVE  /\ Alike(v, move_window(v, sect))
           /\ move_window(v, sect).fs.winsect = sect
           /\ move_window(v, sect).fs.win = Held(v, sect)
<1>1. CASE sect = v.fs.winsect
  <2>1. move_window(v, sect) = v
    BY <1>1 DEF move_window
  <2>2. v.fs \in FatFs
    BY Fields
  <2>3. SameFs(v.fs, v.fs)
    BY <2>2 DEF FatFs, SameFs
  <2>. QED BY <1>1, <2>1, <2>3 DEF Alike, Held
<1>2. CASE sect # v.fs.winsect
  <2>1. PICK w \in Volumes : w = sync_window(v) /\ Alike(v, w) /\ ~w.fs.wflag
    BY SyncAlike DEF Alike
  <2>2. v.fs \in FatFs /\ w.fs \in FatFs
    BY Fields
  <2>3. TableSound(w) /\ CopySectors(w.fs) = CopySectors(v.fs)
    BY <2>1, <2>2, SameFields DEF Alike
  <2>4. PICK x \in Volumes : /\ x = Loaded(w, sect) /\ Alike(w, x)
                             /\ x.fs.winsect = sect /\ x.fs.win = w.disk[sect]
    BY <2>1, <2>3, LoadAlike DEF Alike
  <2>5. move_window(v, sect) = x
    BY <1>2, <2>1, <2>4 DEF move_window, Loaded
  <2>6. Alike(v, x)
    BY <2>1, <2>4, AlikeTrans
  <2>7. Held(x, sect) = Held(v, sect)
    BY <2>6 DEF Alike
  <2>8. x.fs.win = Held(v, sect)
    BY <2>4, <2>7 DEF Held
  <2>. QED BY <2>4, <2>5, <2>6, <2>8
<1>. QED BY <1>1, <1>2
-----------------------------------------------------------------------------
(* The allocation table.                                                   *)

\* What is stored for a value, and read for a cell.
Coded(val) == IF val = 0 THEN Zero ELSE val
Decoded(cell) == IF cell = Zero THEN 0 ELSE cell

\* Every cell of the table holds a number or the mark of a free cluster.
LEMMA TableType ==
    ASSUME NEW v \in Volumes, Formatted(v)
    PROVE  /\ Table(v) \in [Clusters(v.fs) -> Entries]
           /\ \A t \in TableSectors(v.fs) : Held(v, t) \in [Cells -> Entries]
<1>1. \A t \in TableSectors(v.fs) : Held(v, t) \in [Cells -> Entries]
  BY DEF Formatted, Entries
<1>2. \A c \in Clusters(v.fs) :
         c % SS \in Cells /\ v.fs.fatbase + c \div SS \in TableSectors(v.fs)
  BY EntrySector
<1>3. \A c \in Clusters(v.fs) : Held(v, v.fs.fatbase + c \div SS)[c % SS] \in Entries
  BY <1>1, <1>2
<1>. QED BY <1>1, <1>3 DEF Table

\* A volume that holds the same has the same table.
LEMMA AlikeTable ==
    ASSUME NEW v \in Volumes, Formatted(v), NEW w \in Volumes, Alike(v, w)
    PROVE  Table(w) = Table(v)
<1>1. v.fs \in FatFs /\ w.fs \in FatFs
  BY Fields
<1>2. w.fs.fatbase = v.fs.fatbase /\ w.fs.n_fatent = v.fs.n_fatent
  BY <1>1, SameFields DEF Alike
<1>3. \A t \in TableSectors(v.fs) : t \in Sectors \ CopySectors(v.fs)
  BY Apart
<1>. QED BY <1>2, <1>3, SameTable DEF Alike

\* What get_fat and put_fat find in the window.
LEMMA EntryInWindow ==
    ASSUME NEW v \in Volumes, TableSound(v), NEW c \in Clusters(v.fs)
    PROVE  LET w == FatWindow(v, c)
           IN  /\ Alike(v, w)
               /\ w.fs.winsect = v.fs.fatbase + c \div SS
               /\ w.fs.win = Held(v, v.fs.fatbase + c \div SS)
               /\ w.fs.win \in [Cells -> Entries]
               /\ w.fs.win[c % SS] = Table(v)[c]
<1>1. Formatted(v)
  BY DEF TableSound
<1>2. PICK s \in TableSectors(v.fs) : s = v.fs.fatbase + c \div SS
  BY <1>1, EntrySector
<1>3. s \in Sectors \ CopySectors(v.fs)
  BY <1>1, Apart
<1>4. /\ Alike(v, move_window(v, s))
      /\ move_window(v, s).fs.winsect = s
      /\ move_window(v, s).fs.win = Held(v, s)
  BY <1>3, WindowTransparent
<1>5. Held(v, s) \in [Cells -> Entries]
  BY <1>1, TableType
<1>6. Table(v)[c] = Held(v, s)[c % SS]
  BY <1>2 DEF Table
<1>. QED BY <1>2, <1>4, <1>5, <1>6 DEF FatWindow

\* get_fat answers the entry of the table, with what waits in the window,
\* and changes no entry.
THEOREM GetFatReads ==
    ASSUME NEW v \in Volumes, TableSound(v), NEW c \in Clusters(v.fs)
    PROVE  /\ get_fat(v, c).val = Decoded(Table(v)[c])
           /\ Alike(v, get_fat(v, c).v)
           /\ Table(get_fat(v, c).v) = Table(v)
<1>1. PICK w : /\ w = FatWindow(v, c) /\ Alike(v, w)
               /\ w.fs.win[c % SS] = Table(v)[c]
  BY EntryInWindow
<1>2. w \in Volumes /\ Formatted(v)
  BY <1>1 DEF Alike, TableSound
<1>3. Table(w) = Table(v)
  BY <1>1, <1>2, AlikeTable
<1>. QED BY <1>1, <1>3 DEF get_fat, Fetched, Decoded

\* A store into the window changes one cell of the sector in it.
LEMMA StoreInWindow ==
    ASSUME NEW v \in Volumes, TableSound(v), NEW i \in Cells, NEW cell \in Entries,
           v.fs.win \in [Cells -> Entries]
    PROVE  LET w == Store(v, i, cell)
           IN  /\ w \in Volumes /\ SameFs(v.fs, w.fs) /\ TableSound(w)
               /\ w.fs.winsect = v.fs.winsect
               /\ Held(w, v.fs.winsect) = [v.fs.win EXCEPT ![i] = cell]
               /\ \A t \in Sectors \ {v.fs.winsect} : Held(w, t) = Held(v, t)
<1>0. Formatted(v) /\ Coherent(v) /\ CopiesAgree(v)
  BY DEF TableSound
<1>1. /\ v.fs \in FatFs /\ v.disk \in [Sectors -> Contents] /\ v.fs.winsect \in Sectors
  BY Fields
<1>2. PICK win \in [Cells -> Entries] : win = [v.fs.win EXCEPT ![i] = cell]
  OBVIOUS
<1>3. win \in Contents
  BY DEF Contents
<1>4. PICK w : w = Store(v, i, cell)
  OBVIOUS
<1>5. w = [v EXCEPT !.fs = [v.fs EXCEPT !.win = win, !.wflag = TRUE]]
  BY <1>1, <1>2, <1>4 DEF Store, Volumes, FatFs
<1>6. /\ w \in Volumes /\ w.disk = v.disk /\ SameFs(v.fs, w.fs)
      /\ w.fs.win = win /\ w.fs.winsect = v.fs.winsect /\ w.fs.wflag
  BY <1>1, <1>3, <1>5 DEF Volumes, FatFs, SameFs
<1>7. w.fs \in FatFs
  BY <1>6, Fields
<1>8. /\ w.fs.fsize = v.fs.fsize /\ w.fs.n_fats = v.fs.n_fats
      /\ TableSectors(w.fs) = TableSectors(v.fs) /\ CopySectors(w.fs) = CopySectors(v.fs)
  BY <1>1, <1>6, <1>7, SameFields
<1>9. /\ Held(w, v.fs.winsect) = win
      /\ \A t \in Sectors \ {v.fs.winsect} : Held(w, t) = Held(v, t)
  BY <1>6 DEF Held
<1>10. Formatted(w)
  <2>1. /\ \A t \in TableSectors(v.fs) : Held(v, t) \in [Cells -> Entries]
        /\ v.fs.winsect \notin CopySectors(v.fs) /\ TableSectors(v.fs) \subseteq Sectors
    BY <1>0, TableType, Apart
  <2>2. \A t \in TableSectors(v.fs) : Held(w, t) \in [Cells -> Entries]
    BY <1>9, <2>1
  <2>. QED BY <1>0, <1>6, <2>1, <2>2, FormattedKept
<1>11. Coherent(w) /\ CopiesAgree(w)
  BY <1>0, <1>6, <1>8 DEF Coherent, CopiesAgree
<1>. QED BY <1>2, <1>4, <1>6, <1>9, <1>10, <1>11 DEF TableSound

\* put_fat changes the entry it is called for, in the table and in what its
\* sectors hold, and nothing else on the volume.
THEOREM PutFatWrites ==
    ASSUME NEW v \in Volumes, TableSound(v), NEW c \in Clusters(v.fs), NEW val \in Nat
    PROVE  LET w == put_fat(v, c, val)
           IN  /\ w \in Volumes /\ SameFs(v.fs, w.fs) /\ TableSound(w)
               /\ Table(w) = [Table(v) EXCEPT ![c] = Coded(val)]
               /\ \A t \in Sectors \ CopySectors(v.fs) :
                     t # v.fs.fatbase + c \div SS => Held(w, t) = Held(v, t)
<1>0. Formatted(v)
  BY DEF TableSound
<1>1. PICK s \in TableSectors(v.fs), i \in Cells : s = v.fs.fatbase + c \div SS /\ i = c % SS
  BY <1>0, EntrySector
<1>2. PICK u \in Volumes : /\ u = FatWindow(v, c) /\ Alike(v, u)
                           /\ u.fs.winsect = s /\ u.fs.win = Held(v, s)
                           /\ u.fs.win \in [Cells -> Entries]
  BY <1>1, EntryInWindow DEF Alike
<1>3. TableSound(u) /\ Coded(val) \in Entries
  BY <1>2 DEF Alike, Coded, Entries
<1>4. PICK cell \in Entries : cell = Coded(val)
  BY <1>3
<1>5. PICK w : /\ w = Store(u, i, cell)
               /\ w \in Volumes /\ SameFs(u.fs, w.fs) /\ TableSound(w)
               /\ Held(w, s) = [u.fs.win EXCEPT ![i] = Coded(val)]
               /\ \A t \in Sectors \ {s} : Held(w, t) = Held(u, t)
  <2>1. LET x == Store(u, i, cell)
        IN  /\ x \in Volumes /\ SameFs(u.fs, x.fs) /\ TableSound(x)
            /\ x.fs.winsect = u.fs.winsect
            /\ Held(x, u.fs.winsect) = [u.fs.win EXCEPT ![i] = cell]
            /\ \A t \in Sectors \ {u.fs.winsect} : Held(x, t) = Held(u, t)
    <3>1. TableSound(u) /\ u.fs.win \in [Cells -> Entries]
      BY <1>2, <1>3
    <3>. QED BY Zenon, <3>1, StoreInWindow
  <2>. QED BY Zenon, <1>2, <1>4, <2>1
<1>6. w = put_fat(v, c, val)
  BY <1>1, <1>2, <1>4, <1>5 DEF put_fat, Coded
<1>7. v.fs \in FatFs /\ u.fs \in FatFs /\ w.fs \in FatFs
  BY <1>2, <1>5, Fields
<1>8. SameFs(v.fs, w.fs)
  <2>1. SameFs(v.fs, u.fs) /\ SameFs(u.fs, w.fs)
    BY <1>2, <1>5 DEF Alike
  <2>. QED BY <1>7, <2>1, SameFsTrans
<1>9. /\ \A t \in Sectors \ CopySectors(v.fs) : t # s => Held(w, t) = Held(v, t)
      /\ Held(w, s) = [Held(v, s) EXCEPT ![i] = Coded(val)]
  BY <1>2, <1>5 DEF Alike
<1>10. Table(w) = [Table(v) EXCEPT ![c] = Coded(val)]
  <2>1. Clusters(w.fs) = Clusters(v.fs) /\ w.fs.fatbase = v.fs.fatbase
    BY <1>7, <1>8, SameFields
  <2>2. \A d \in Clusters(v.fs) :
           Held(w, v.fs.fatbase + d \div SS)[d % SS] = IF d = c THEN Coded(val) ELSE Table(v)[d]
    <3>1. TAKE d \in Clusters(v.fs)
    <3>2. PICK r \in TableSectors(v.fs), j \in Cells :
             r = v.fs.fatbase + d \div SS /\ j = d % SS
      BY <1>0, EntrySector
    <3>3. Table(v)[d] = Held(v, r)[j]
      BY <3>2 DEF Table
    <3>4. r \in Sectors \ CopySectors(v.fs)
      BY <1>0, Apart
    <3>5. Held(v, s) \in [Cells -> Entries]
      BY <1>0, TableType
    <3>6. d = c <=> r = s /\ j = i
      <4>1. /\ c \in Nat /\ d \in Nat /\ v.fs.fatbase \in Nat
        BY <1>0, EntrySector, Fields
      <4>2. PICK q \in Nat, p \in Nat : q = c \div SS /\ p = d \div SS
        BY <4>1, Quotient
      <4>3. c = SS * q + i /\ d = SS * p + j
        BY <1>1, <3>2, <4>1, <4>2, Quotient
      <4>4. r = s => p = q
        BY <1>1, <3>2, <4>1, <4>2
      <4>. QED BY <1>1, <3>2, <4>3, <4>4
    <3>7. Held(w, r)[j] = IF r = s /\ j = i THEN Coded(val) ELSE Held(v, r)[j]
      BY <1>9, <3>4, <3>5
    <3>. QED BY <3>2, <3>3, <3>6, <3>7
  <2>3. \A d \in Clusters(v.fs) :
           Table(w)[d] = IF d = c THEN Coded(val) ELSE Table(v)[d]
    BY <2>1, <2>2 DEF Table
  <2>4. /\ Table(w) = [d \in Clusters(v.fs) |-> Table(w)[d]]
        /\ Table(v) = [d \in Clusters(v.fs) |-> Table(v)[d]]
    BY <2>1 DEF Table
  <2>. QED BY <2>3, <2>4
<1>. QED BY <1>1, <1>5, <1>6, <1>8, <1>9, <1>10
-----------------------------------------------------------------------------
(* Writing what waits in memory.                                           *)

\* A sector that is not of the table, of its copy or in the window can be
\* written, as f_write writes the sectors of a file: the table and every
\* other sector hold what they held (disk_write).
THEOREM WriteSparesTable ==
    ASSUME NEW v \in Volumes, TableSound(v), NEW data \in Contents,
           NEW s \in Sectors \ (TableSectors(v.fs) \cup CopySectors(v.fs)),
           s # v.fs.winsect
    PROVE  /\ disk_write(v, s, data) \in Volumes
           /\ TableSound(disk_write(v, s, data))
           /\ Table(disk_write(v, s, data)) = Table(v)
           /\ \A t \in Sectors \ {s} : Held(disk_write(v, s, data), t) = Held(v, t)
<1>0. Formatted(v) /\ Coherent(v) /\ CopiesAgree(v)
  BY DEF TableSound
<1>1. PICK w \in Volumes :
         /\ w = disk_write(v, s, data) /\ w.fs = v.fs
         /\ \A t \in Sectors : w.disk[t] = IF t = s THEN data ELSE v.disk[t]
  <2>1. /\ disk_write(v, s, data) \in Volumes
        /\ disk_write(v, s, data).fs = v.fs
        /\ \A t \in Sectors : disk_write(v, s, data).disk[t] = IF t = s THEN data ELSE v.disk[t]
    BY DiskWrite
  <2>. QED BY Zenon, <2>1
<1>2. /\ v.fs \in FatFs /\ v.fs.winsect \in Sectors
  BY Fields
<1>3. /\ TableSectors(v.fs) \subseteq Sectors /\ CopySectors(v.fs) \subseteq Sectors
      /\ v.fs.winsect \notin CopySectors(v.fs)
      /\ v.fs.n_fats = 2 => \A t \in TableSectors(v.fs) : t + v.fs.fsize \in CopySectors(v.fs)
  BY <1>0, Apart
<1>4. \A t \in Sectors \ {s} : Held(w, t) = Held(v, t)
  BY <1>1 DEF Held
<1>5. Formatted(w)
  <2>1. \A t \in TableSectors(v.fs) : Held(w, t) \in [Cells -> Entries]
    BY <1>0, <1>3, <1>4, TableType
  <2>2. SameFs(v.fs, w.fs)
    BY <1>1, <1>2 DEF SameFs, FatFs
  <2>. QED BY <1>0, <1>1, <1>3, <2>1, <2>2, FormattedKept
<1>6. Coherent(w)
  BY <1>0, <1>1, <1>2 DEF Coherent
<1>7. CopiesAgree(w)
  BY <1>0, <1>1, <1>3 DEF CopiesAgree
<1>8. Table(w) = Table(v)
  <2>1. \A t \in TableSectors(v.fs) : Held(w, t) = Held(v, t)
    BY <1>3, <1>4
  <2>. QED BY <1>0, <1>1, <2>1, SameTable
<1>. QED BY <1>1, <1>4, <1>5, <1>6, <1>7, <1>8 DEF TableSound

\* With nothing waiting, the disk and its copy hold the table.
LEMMA NothingWaits ==
    ASSUME NEW v \in Volumes, TableSound(v), ~v.fs.wflag
    PROVE  \A t \in TableSectors(v.fs) :
              /\ v.disk[t] = Held(v, t)
              /\ v.fs.n_fats = 2 => v.disk[t + v.fs.fsize] = Held(v, t)
  BY DEF TableSound, Coherent, CopiesAgree, Held

\* What WithInfo puts in the window and on the disk.
LEMMA InfoWritten ==
    ASSUME NEW v \in Volumes, TableSound(v), ~v.fs.wflag,
           v.fs.fs_type = 32, v.fs.fsi_flag = 1
    PROVE  LET w == WithInfo(v)
           IN  /\ w \in Volumes /\ TableSound(w) /\ Table(w) = Table(v)
               /\ ~w.fs.wflag /\ w.fs.fsi_flag = 0
               /\ w.disk[v.fs.volbase + 1] = [free |-> v.fs.free_clst, next |-> v.fs.last_clst]
               /\ \A t \in TableSectors(v.fs) \cup CopySectors(v.fs) : w.disk[t] = v.disk[t]
<1>0. Formatted(v) /\ Coherent(v) /\ CopiesAgree(v)
  BY DEF TableSound
<1>1. /\ v.fs \in FatFs /\ v.disk \in [Sectors -> Contents] /\ v.fs.winsect \in Sectors
      /\ v.fs.free_clst \in Int /\ v.fs.last_clst \in Int
  BY Fields
<1>2. /\ TableSectors(v.fs) \subseteq Sectors /\ CopySectors(v.fs) \subseteq Sectors
      /\ v.fs.winsect \notin CopySectors(v.fs)
      /\ v.fs.n_fats = 2 => \A t \in TableSectors(v.fs) : t + v.fs.fsize \in CopySectors(v.fs)
  BY <1>0, Apart
<1>3. PICK s \in Sectors \ (TableSectors(v.fs) \cup CopySectors(v.fs)) : s = v.fs.volbase + 1
  BY <1>0, <1>1 DEF Formatted
<1>4. PICK info \in Contents : info = [free |-> v.fs.free_clst, next |-> v.fs.last_clst]
  BY <1>1 DEF Contents
<1>5. PICK u : u = [v EXCEPT !.fs.win = info, !.fs.fsi_flag = 0, !.fs.winsect = s]
  OBVIOUS
<1>6. /\ u \in Volumes /\ u.disk = v.disk
      /\ u.fs = [v.fs EXCEPT !.win = info, !.fsi_flag = 0, !.winsect = s]
  BY <1>1, <1>5 DEF Volumes, FatFs
<1>7. PICK w \in Volumes :
         /\ w = disk_write(u, s, info) /\ w.fs = u.fs
         /\ \A t \in Sectors : w.disk[t] = IF t = s THEN info ELSE u.disk[t]
  <2>1. /\ disk_write(u, s, info) \in Volumes
        /\ disk_write(u, s, info).fs = u.fs
        /\ \A t \in Sectors : disk_write(u, s, info).disk[t] = IF t = s THEN info ELSE u.disk[t]
    BY <1>6, DiskWrite
  <2>. QED BY Zenon, <2>1
<1>8. w = WithInfo(v)
  BY <1>3, <1>4, <1>5, <1>7 DEF WithInfo
<1>9. /\ w.fs.winsect = s /\ w.fs.win = info /\ w.fs.fsi_flag = 0 /\ ~w.fs.wflag
      /\ w.fs.fs_type = v.fs.fs_type /\ w.fs.volbase = v.fs.volbase
      /\ w.fs.fatbase = v.fs.fatbase /\ w.fs.fsize = v.fs.fsize
      /\ w.fs.n_fats = v.fs.n_fats /\ w.fs.n_fatent = v.fs.n_fatent
  BY <1>1, <1>6, <1>7 DEF FatFs
<1>10. /\ TableSectors(w.fs) = TableSectors(v.fs) /\ CopySectors(w.fs) = CopySectors(v.fs)
  BY <1>9 DEF TableSectors, CopySectors
<1>11. \A t \in TableSectors(v.fs) \cup CopySectors(v.fs) : w.disk[t] = v.disk[t]
  BY <1>2, <1>6, <1>7
<1>12. \A t \in TableSectors(v.fs) : Held(w, t) = Held(v, t)
  BY <1>0, <1>9, <1>11 DEF Held, Coherent
<1>13. DOMAIN w.disk = Sectors /\ DOMAIN v.disk = Sectors
  BY <1>1, <1>7, Fields
<1>14. Formatted(w)
  <2>1. \A t \in TableSectors(v.fs) : Held(w, t) \in [Cells -> Entries]
    BY <1>0, <1>12, TableType
  <2>. QED BY <1>0, <1>3, <1>9, <1>10, <1>13, <2>1 DEF Formatted, Entries
<1>15. Coherent(w)
  BY <1>7, <1>9 DEF Coherent
<1>16. CopiesAgree(w)
  BY <1>0, <1>2, <1>9, <1>10, <1>11 DEF CopiesAgree
<1>17. Table(w) = Table(v)
  BY <1>0, <1>9, <1>12, SameTable
<1>. QED BY <1>3, <1>4, <1>7, <1>8, <1>9, <1>11, <1>14, <1>15, <1>16, <1>17 DEF TableSound

\* After sync_fs nothing waits: the disk holds the table that the volume
\* had, its copy holds it too, and FSINFO the count if it was to be written.
THEOREM SyncFsWritesAll ==
    ASSUME NEW v \in Volumes, TableSound(v)
    PROVE  LET w == sync_fs(v)
           IN  /\ w \in Volumes /\ TableSound(w) /\ Table(w) = Table(v) /\ ~w.fs.wflag
               /\ \A t \in TableSectors(v.fs) :
                     /\ w.disk[t] = Held(v, t)
                     /\ v.fs.n_fats = 2 => w.disk[t + v.fs.fsize] = Held(v, t)
               /\ v.fs.fs_type = 32 /\ v.fs.fsi_flag = 1 =>
                     w.disk[v.fs.volbase + 1] =
                        [free |-> v.fs.free_clst, next |-> v.fs.last_clst]
<1>0. Formatted(v)
  BY DEF TableSound
<1>1. PICK u \in Volumes : u = sync_window(v) /\ Alike(v, u) /\ ~u.fs.wflag
  BY SyncAlike DEF Alike
<1>2. v.fs \in FatFs /\ u.fs \in FatFs
  BY Fields
<1>3. /\ TableSound(u) /\ Table(u) = Table(v)
  BY <1>0, <1>1, AlikeTable DEF Alike
<1>4. /\ u.fs.fs_type = v.fs.fs_type /\ u.fs.volbase = v.fs.volbase
      /\ u.fs.fsize = v.fs.fsize /\ u.fs.n_fats = v.fs.n_fats
      /\ u.fs.free_clst = v.fs.free_clst /\ u.fs.last_clst = v.fs.last_clst
      /\ u.fs.fsi_flag = v.fs.fsi_flag
      /\ TableSectors(u.fs) = TableSectors(v.fs) /\ CopySectors(u.fs) = CopySectors(v.fs)
  BY <1>1, <1>2, SameFields DEF Alike
<1>5. \A t \in TableSectors(v.fs) :
         /\ u.disk[t] = Held(v, t)
         /\ v.fs.n_fats = 2 => u.disk[t + v.fs.fsize] = Held(v, t)
  <2>1. \A t \in TableSectors(v.fs) : Held(u, t) = Held(v, t)
    BY <1>0, <1>1, Apart DEF Alike
  <2>. QED BY <1>1, <1>3, <1>4, <2>1, NothingWaits
<1>6. CASE ~(v.fs.fs_type = 32 /\ v.fs.fsi_flag = 1)
  <2>1. sync_fs(v) = u
    BY <1>1, <1>4, <1>6 DEF sync_fs, WithInfo
  <2>. QED BY <1>1, <1>3, <1>5, <1>6, <2>1
<1>7. CASE v.fs.fs_type = 32 /\ v.fs.fsi_flag = 1
  <2>1. PICK w : /\ w = WithInfo(u)
                 /\ w \in Volumes /\ TableSound(w) /\ Table(w) = Table(u) /\ ~w.fs.wflag
                 /\ w.disk[u.fs.volbase + 1] = [free |-> u.fs.free_clst, next |-> u.fs.last_clst]
                 /\ \A t \in TableSectors(u.fs) \cup CopySectors(u.fs) : w.disk[t] = u.disk[t]
    BY <1>1, <1>3, <1>4, <1>7, InfoWritten
  <2>2. w = sync_fs(v)
    BY <1>1, <2>1 DEF sync_fs
  <2>3. v.fs.n_fats = 2 => \A t \in TableSectors(v.fs) : t + v.fs.fsize \in CopySectors(v.fs)
    BY <1>0, Apart
  <2>4. \A t \in TableSectors(v.fs) :
         /\ w.disk[t] = Held(v, t)
         /\ v.fs.n_fats = 2 => w.disk[t + v.fs.fsize] = Held(v, t)
    BY <1>4, <1>5, <2>1, <2>3
  <2>. QED BY <1>3, <1>4, <2>1, <2>2, <2>4
<1>. QED BY <1>6, <1>7
-----------------------------------------------------------------------------
(* Chains and the count of free clusters, of tables t alone.               *)

\* A cluster nobody links to can be freed: the links stay sound.
LEMMA FreedChained ==
    ASSUME NEW n \in Nat, NEW t \in [2 .. n - 1 -> Entries], Chained(t),
           NEW c \in 2 .. n - 1, \A d \in 2 .. n - 1 : t[d] # c
    PROVE  Chained([t EXCEPT ![c] = Zero])
<1>1. PICK u : u = [t EXCEPT ![c] = Zero]
  OBVIOUS
<1>2. /\ DOMAIN t = 2 .. n - 1 /\ DOMAIN u = 2 .. n - 1
      /\ u[c] = Zero /\ \A d \in 2 .. n - 1 : d # c => u[d] = t[d]
  BY <1>1
<1>3. Zero \notin 2 .. n - 1
  BY CellsAssumption
<1>4. \A d \in 2 .. n - 1 : u[d] \in 2 .. n - 1 => u[u[d]] # Zero
  BY <1>2, <1>3 DEF Chained
<1>5. \A d, e \in 2 .. n - 1 : u[d] = u[e] /\ u[d] \in 2 .. n - 1 => d = e
  BY <1>2, <1>3 DEF Chained
<1>6. \A X \in (SUBSET (2 .. n - 1)) \ {{}} : \E d \in X : u[d] \notin X
  <2>1. TAKE X \in (SUBSET (2 .. n - 1)) \ {{}}
  <2>2. CASE c \in X
    BY <1>2, <1>3, <2>2
  <2>3. CASE c \notin X
    <3>1. PICK d \in X : t[d] \notin X
      BY <1>2 DEF Chained
    <3>. QED BY <1>2, <2>3, <3>1
  <2>. QED BY <2>2, <2>3
<1>. QED BY <1>1, <1>2, <1>4, <1>5, <1>6 DEF Chained

\* A chain can be cut behind any cluster.
LEMMA CutChained ==
    ASSUME NEW n \in Nat, n <= EOC, NEW t \in [2 .. n - 1 -> Entries], Chained(t),
           NEW p \in 2 .. n - 1
    PROVE  Chained([t EXCEPT ![p] = EOC])
<1>1. PICK u : u = [t EXCEPT ![p] = EOC]
  OBVIOUS
<1>2. /\ DOMAIN t = 2 .. n - 1 /\ DOMAIN u = 2 .. n - 1
      /\ u[p] = EOC /\ \A d \in 2 .. n - 1 : d # p => u[d] = t[d]
  BY <1>1
<1>3. Zero \notin 2 .. n - 1 /\ EOC \notin 2 .. n - 1 /\ EOC # Zero
  BY CellsAssumption
<1>4. \A d \in 2 .. n - 1 : u[d] \in 2 .. n - 1 => u[u[d]] # Zero
  BY <1>2, <1>3 DEF Chained
<1>5. \A d, e \in 2 .. n - 1 : u[d] = u[e] /\ u[d] \in 2 .. n - 1 => d = e
  BY <1>2, <1>3 DEF Chained
<1>6. \A X \in (SUBSET (2 .. n - 1)) \ {{}} : \E d \in X : u[d] \notin X
  <2>1. TAKE X \in (SUBSET (2 .. n - 1)) \ {{}}
  <2>2. CASE p \in X
    BY <1>2, <1>3, <2>2
  <2>3. CASE p \notin X
    <3>1. PICK d \in X : t[d] \notin X
      BY <1>2 DEF Chained
    <3>. QED BY <1>2, <2>3, <3>1
  <2>. QED BY <2>2, <2>3
<1>. QED BY <1>1, <1>2, <1>4, <1>5, <1>6 DEF Chained

\* A chain of one cluster can be linked to the end, or in place of the
\* rest, of another.
LEMMA LinkedChained ==
    ASSUME NEW n \in Nat, n <= EOC, NEW t \in [2 .. n - 1 -> Entries], Chained(t),
           NEW c \in 2 .. n - 1, t[c] = EOC, \A d \in 2 .. n - 1 : t[d] # c,
           NEW p \in 2 .. n - 1, p # c, t[p] # Zero
    PROVE  Chained([t EXCEPT ![p] = c])
<1>1. PICK u : u = [t EXCEPT ![p] = c]
  OBVIOUS
<1>2. /\ DOMAIN t = 2 .. n - 1 /\ DOMAIN u = 2 .. n - 1
      /\ u[p] = c /\ \A d \in 2 .. n - 1 : d # p => u[d] = t[d]
  BY <1>1
<1>3. Zero \notin 2 .. n - 1 /\ EOC \notin 2 .. n - 1 /\ EOC # Zero
  BY CellsAssumption
<1>4. \A d \in 2 .. n - 1 : u[d] \in 2 .. n - 1 => u[u[d]] # Zero
  BY <1>2, <1>3 DEF Chained
<1>5. \A d, e \in 2 .. n - 1 : u[d] = u[e] /\ u[d] \in 2 .. n - 1 => d = e
  BY <1>2, <1>3 DEF Chained
<1>6. \A X \in (SUBSET (2 .. n - 1)) \ {{}} : \E d \in X : u[d] \notin X
  <2>1. TAKE X \in (SUBSET (2 .. n - 1)) \ {{}}
  <2>2. CASE c \in X
    BY <1>2, <1>3, <2>2
  <2>3. CASE c \notin X /\ p \in X
    BY <1>2, <2>3
  <2>4. CASE c \notin X /\ p \notin X
    <3>1. PICK d \in X : t[d] \notin X
      BY <1>2 DEF Chained
    <3>. QED BY <1>2, <2>4, <3>1
  <2>. QED BY <2>2, <2>3, <2>4
<1>. QED BY <1>1, <1>2, <1>4, <1>5, <1>6 DEF Chained

\* Freeing a used cluster adds one to the number of free ones.
LEMMA OneMoreFree ==
    ASSUME NEW n \in Nat, NEW t \in [2 .. n - 1 -> Entries],
           NEW c \in 2 .. n - 1, t[c] # Zero
    PROVE  /\ Cardinality(FreeIn(t)) \in 0 .. n - 3
           /\ Cardinality(FreeIn([t EXCEPT ![c] = Zero])) = Cardinality(FreeIn(t)) + 1
<1>1. IsFiniteSet(2 .. n - 1) /\ Cardinality(2 .. n - 1) = n - 2
  <2>1. n \in Nat /\ n - 1 \in Int /\ n >= 3
    OBVIOUS
  <2>. QED BY <2>1, FS_Interval
<1>2. FreeIn(t) \subseteq (2 .. n - 1) \ {c}
  BY DEF FreeIn
<1>3. /\ IsFiniteSet((2 .. n - 1) \ {c}) /\ Cardinality((2 .. n - 1) \ {c}) = n - 3
  <2>1. PICK D : D = 2 .. n - 1
    OBVIOUS
  <2>2. IsFiniteSet(D \ {c}) /\ Cardinality(D \ {c}) = Cardinality(D) - 1
    BY <1>1, <2>1, FS_RemoveElement
  <2>3. Cardinality(D) - 1 = n - 3
    BY <1>1, <2>1
  <2>. QED BY Zenon, <2>1, <2>2, <2>3
<1>4. IsFiniteSet(FreeIn(t)) /\ Cardinality(FreeIn(t)) <= n - 3
  BY <1>2, <1>3, FS_Subset
<1>5. FreeIn([t EXCEPT ![c] = Zero]) = FreeIn(t) \cup {c}
  BY DEF FreeIn
<1>6. Cardinality(FreeIn(t)) \in Nat
  BY <1>4, FS_CardinalityType
<1>7. c \notin FreeIn(t)
  BY DEF FreeIn
<1>8. Cardinality(FreeIn(t) \cup {c}) = Cardinality(FreeIn(t)) + 1
  BY <1>4, <1>7, FS_AddElement
<1>9. PICK k \in Nat : k = Cardinality(FreeIn(t))
  BY <1>6
<1>10. k <= n - 3
  BY <1>4, <1>9
<1>11. k \in 0 .. n - 3
  BY <1>10
<1>. QED BY Zenon, <1>5, <1>8, <1>9, <1>11

\* Using a free one subtracts one.
LEMMA OneLessFree ==
    ASSUME NEW n \in Nat, NEW t \in [2 .. n - 1 -> Entries],
           NEW c \in 2 .. n - 1, t[c] = Zero, NEW val \in Nat \ {0}
    PROVE  /\ Cardinality(FreeIn(t)) \in 1 .. n - 2
           /\ Cardinality(FreeIn([t EXCEPT ![c] = val])) = Cardinality(FreeIn(t)) - 1
<1>1. IsFiniteSet(2 .. n - 1) /\ Cardinality(2 .. n - 1) = n - 2
  <2>1. n \in Nat /\ n - 1 \in Int /\ n >= 3
    OBVIOUS
  <2>. QED BY <2>1, FS_Interval
<1>2. FreeIn(t) \subseteq 2 .. n - 1
  BY DEF FreeIn
<1>3. IsFiniteSet(FreeIn(t)) /\ Cardinality(FreeIn(t)) <= n - 2
  BY <1>1, <1>2, FS_Subset
<1>4. FreeIn([t EXCEPT ![c] = val]) = FreeIn(t) \ {c}
  BY CellsAssumption DEF FreeIn
<1>5. Cardinality(FreeIn(t)) \in Nat /\ c \in FreeIn(t)
  BY <1>3, FS_CardinalityType DEF FreeIn
<1>6. /\ IsFiniteSet(FreeIn(t) \ {c})
      /\ Cardinality(FreeIn(t) \ {c}) = Cardinality(FreeIn(t)) - 1
  BY <1>3, <1>5, FS_RemoveElement
<1>7. Cardinality(FreeIn(t) \ {c}) \in Nat
  BY <1>6, FS_CardinalityType
<1>8. PICK k \in Nat : k = Cardinality(FreeIn(t))
  BY <1>5
<1>9. k <= n - 2 /\ k - 1 \in Nat
  BY <1>3, <1>6, <1>7, <1>8
<1>10. k \in 1 .. n - 2
  BY <1>9
<1>. QED BY Zenon, <1>4, <1>6, <1>8, <1>10

-----------------------------------------------------------------------------
(* Freeing and taking a cluster.                                           *)

\* The counts are not part of the table.
LEMMA CountsApart ==
    ASSUME NEW v \in Volumes, TableSound(v), NEW w \in Volumes, w.disk = v.disk,
           w.fs = [v.fs EXCEPT !.free_clst = w.fs.free_clst, !.last_clst = w.fs.last_clst,
                               !.fsi_flag = w.fs.fsi_flag]
    PROVE  TableSound(w) /\ Table(w) = Table(v) /\ w.fs.n_fatent = v.fs.n_fatent
<1>0. Formatted(v) /\ Coherent(v) /\ CopiesAgree(v)
  BY DEF TableSound
<1>1. v.fs \in FatFs /\ w.fs \in FatFs
  BY Fields
<1>2. /\ w.fs.winsect = v.fs.winsect /\ w.fs.win = v.fs.win /\ w.fs.wflag = v.fs.wflag
      /\ w.fs.fs_type = v.fs.fs_type /\ w.fs.volbase = v.fs.volbase
      /\ w.fs.fatbase = v.fs.fatbase /\ w.fs.fsize = v.fs.fsize
      /\ w.fs.n_fats = v.fs.n_fats /\ w.fs.n_fatent = v.fs.n_fatent
  BY <1>1 DEF FatFs
<1>3. /\ TableSectors(w.fs) = TableSectors(v.fs) /\ CopySectors(w.fs) = CopySectors(v.fs)
  BY <1>2 DEF TableSectors, CopySectors
<1>4. \A t \in Sectors : Held(w, t) = Held(v, t)
  BY <1>2 DEF Held
<1>5. TableSectors(v.fs) \subseteq Sectors
  BY <1>0, Apart
<1>6. Formatted(w)
  <2>1. \A t \in TableSectors(v.fs) : Held(w, t) \in [Cells -> Entries]
    BY <1>0, <1>4, <1>5, TableType
  <2>. QED BY <1>0, <1>2, <1>3, <2>1 DEF Formatted, Entries
<1>7. Coherent(w) /\ CopiesAgree(w)
  BY <1>0, <1>2, <1>3 DEF Coherent, CopiesAgree
<1>8. Table(w) = Table(v)
  BY <1>0, <1>2, <1>4, <1>5, SameTable
<1>. QED BY <1>2, <1>6, <1>7, <1>8 DEF TableSound

\* What put_fat leaves, in short.
LEMMA PutFields ==
    ASSUME NEW v \in Volumes, TableSound(v), NEW c \in Clusters(v.fs), NEW val \in Nat
    PROVE  LET w == put_fat(v, c, val)
           IN  /\ w \in Volumes /\ TableSound(w)
               /\ Table(w) = [Table(v) EXCEPT ![c] = Coded(val)]
               /\ w.fs.n_fatent = v.fs.n_fatent /\ w.fs.free_clst = v.fs.free_clst
               /\ Clusters(w.fs) = Clusters(v.fs)
<1>1. PICK w : /\ w = put_fat(v, c, val)
               /\ w \in Volumes /\ SameFs(v.fs, w.fs) /\ TableSound(w)
               /\ Table(w) = [Table(v) EXCEPT ![c] = Coded(val)]
  BY PutFatWrites
<1>2. v.fs \in FatFs /\ w.fs \in FatFs
  BY <1>1, Fields
<1>3. /\ w.fs.n_fatent = v.fs.n_fatent /\ w.fs.free_clst = v.fs.free_clst
      /\ Clusters(w.fs) = Clusters(v.fs)
  BY <1>1, <1>2, SameFields
<1>. QED BY <1>1, <1>3

\* A table as a function from its clusters.
LEMMA TableOf ==
    ASSUME NEW v \in Volumes, TableSound(v)
    PROVE  /\ v.fs.n_fatent \in Nat /\ v.fs.n_fatent <= EOC
           /\ Clusters(v.fs) = 2 .. v.fs.n_fatent - 1
           /\ Table(v) \in [2 .. v.fs.n_fatent - 1 -> Entries]
<1>1. Formatted(v)
  BY DEF TableSound
<1>. QED BY <1>1, TableType, Fields DEF Formatted, Clusters

\* The turn of remove_chain's loop frees a cluster that no other links to:
\* the table stays whole, the count is one more if it is known (the guard
\* free_clst < n_fatent - 2 never drops one), and the cluster after it is
\* now the one that no other links to, for the next turn.
THEOREM FreeOneKeepsWhole ==
    ASSUME NEW v \in Volumes, TableWhole(v), NEW c \in Clusters(v.fs),
           Table(v)[c] # Zero, \A d \in Clusters(v.fs) : Table(v)[d] # c
    PROVE  LET w == FreeOne(v, c)
           IN  /\ w \in Volumes /\ TableWhole(w)
               /\ Clusters(w.fs) = Clusters(v.fs)
               /\ Table(w) = [Table(v) EXCEPT ![c] = Zero]
               /\ Known(v.fs) => Known(w.fs) /\ w.fs.free_clst = v.fs.free_clst + 1
               /\ \A next \in Clusters(v.fs) : Table(v)[c] = next =>
                     /\ Table(w)[next] # Zero
                     /\ \A d \in Clusters(w.fs) : Table(w)[d] # next
<1>0. TableSound(v) /\ Chained(Table(v)) /\ CountExact(v)
  BY DEF TableWhole
<1>1. PICK n, t :
         /\ n = v.fs.n_fatent /\ t = Table(v) /\ n \in Nat /\ n <= EOC
         /\ t \in [2 .. n - 1 -> Entries] /\ Clusters(v.fs) = 2 .. n - 1
  BY <1>0, TableOf
<1>2. PICK u \in Volumes :
         /\ u = put_fat(v, c, 0) /\ TableSound(u)
         /\ Table(u) = [Table(v) EXCEPT ![c] = Coded(0)]
         /\ u.fs.n_fatent = v.fs.n_fatent /\ u.fs.free_clst = v.fs.free_clst
         /\ Clusters(u.fs) = Clusters(v.fs)
  <2>1. PICK z \in Nat : z = 0
    OBVIOUS
  <2>2. LET u == put_fat(v, c, z)
        IN  /\ u \in Volumes /\ TableSound(u)
            /\ Table(u) = [Table(v) EXCEPT ![c] = Coded(z)]
            /\ u.fs.n_fatent = v.fs.n_fatent /\ u.fs.free_clst = v.fs.free_clst
            /\ Clusters(u.fs) = Clusters(v.fs)
    BY <1>0, PutFields
  <2>. QED BY Zenon, <2>1, <2>2
<1>3. Table(u) = [t EXCEPT ![c] = Zero]
  BY <1>1, <1>2 DEF Coded
<1>4. PICK w : w = FreeOne(v, c) /\ w = Freed(u)
  BY <1>2 DEF FreeOne
<1>5. u.fs \in FatFs /\ u.fs.free_clst \in Int /\ u.fs.fsi_flag \in Nat
  BY Fields
<1>6. PICK k \in 0 .. n - 3 :
         /\ k = Cardinality(FreeIn(t))
         /\ Cardinality(FreeIn([t EXCEPT ![c] = Zero])) = k + 1
  BY <1>1, OneMoreFree
<1>7. Known(v.fs) <=> Known(u.fs)
  BY <1>2 DEF Known
<1>8. Known(v.fs) => v.fs.free_clst = k
  BY <1>0, <1>1, <1>6 DEF CountExact
<1>9. /\ w \in Volumes /\ TableSound(w) /\ Table(w) = Table(u)
      /\ w.fs.n_fatent = v.fs.n_fatent
      /\ w.fs.free_clst = IF Known(v.fs) THEN k + 1 ELSE v.fs.free_clst
  <2>1. CASE Known(v.fs)
    <3>0. k \in Int /\ k # n - 2
      BY <1>1, <1>6
    <3>1. u.fs.free_clst = k /\ k # u.fs.n_fatent - 2
      BY Zenon, <1>1, <1>2, <1>8, <2>1, <3>0
    <3>2. w = [u EXCEPT !.fs.free_clst = @ + 1, !.fs.fsi_flag = Marked(@)]
      BY <1>4, <1>7, <2>1, <3>1 DEF Freed
    <3>3. PICK m \in Nat : m = Marked(u.fs.fsi_flag)
      BY DEF Marked
    <3>4. PICK j \in Int : j = k + 1
      BY <3>0
    <3>5. w = [u EXCEPT !.fs = [u.fs EXCEPT !.free_clst = j, !.fsi_flag = m]]
      BY <3>1, <3>2, <3>3, <3>4 DEF Volumes, FatFs
    <3>6. /\ w \in Volumes /\ w.disk = u.disk
          /\ w.fs = [u.fs EXCEPT !.free_clst = j, !.fsi_flag = m]
      BY <1>5, <3>5 DEF Volumes, FatFs
    <3>7. /\ w.fs.free_clst = j
          /\ w.fs = [u.fs EXCEPT !.free_clst = w.fs.free_clst, !.last_clst = w.fs.last_clst,
                                  !.fsi_flag = w.fs.fsi_flag]
      BY <1>5, <3>6 DEF FatFs
    <3>8. /\ TableSound(w) /\ Table(w) = Table(u) /\ w.fs.n_fatent = u.fs.n_fatent
      BY <1>2, <3>6, <3>7, CountsApart
    <3>. QED BY <1>2, <2>1, <3>4, <3>6, <3>7, <3>8
  <2>2. CASE ~Known(v.fs)
    BY <1>2, <1>4, <1>7, <2>2 DEF Freed
  <2>. QED BY <2>1, <2>2
<1>10. Known(w.fs) <=> Known(v.fs)
  BY <1>1, <1>6, <1>9 DEF Known
<1>11. CountExact(w)
  BY <1>3, <1>6, <1>9, <1>10 DEF CountExact
<1>12. Chained(Table(w))
  <2>1. Chained(t) /\ c \in 2 .. n - 1 /\ \A d \in 2 .. n - 1 : t[d] # c
    BY <1>0, <1>1
  <2>2. Chained([t EXCEPT ![c] = Zero])
    BY <1>1, <2>1, FreedChained
  <2>. QED BY <1>3, <1>9, <2>2
<1>13. \A next \in Clusters(v.fs) : Table(v)[c] = next =>
          /\ Table(w)[next] # Zero
          /\ \A d \in Clusters(v.fs) : Table(w)[d] # next
  <2>1. SUFFICES ASSUME NEW next \in 2 .. n - 1, t[c] = next
                 PROVE  /\ [t EXCEPT ![c] = Zero][next] # Zero
                        /\ \A d \in 2 .. n - 1 : [t EXCEPT ![c] = Zero][d] # next
    BY <1>1, <1>3, <1>9
  <2>2. /\ DOMAIN t = 2 .. n - 1 /\ next # c /\ Zero \notin 2 .. n - 1 /\ c \in 2 .. n - 1
    BY <1>1, <2>1, CellsAssumption
  <2>3. t[next] # Zero /\ \A d \in 2 .. n - 1 : t[d] = next => d = c
    BY <1>0, <1>1, <2>1, <2>2 DEF Chained
  <2>. QED BY <2>2, <2>3
<1>14. Clusters(w.fs) = Clusters(v.fs)
  BY <1>9 DEF Clusters
<1>. QED BY <1>3, <1>1, <1>4, <1>8, <1>9, <1>10, <1>11, <1>12, <1>13, <1>14 DEF TableWhole
\* remove_chain and f_truncate first end the chain before the part that is
\* freed: the table stays whole, and nothing links to that part any more.
THEOREM CutKeepsWhole ==
    ASSUME NEW v \in Volumes, TableWhole(v), NEW p \in Clusters(v.fs), Table(v)[p] # Zero
    PROVE  LET w == put_fat(v, p, EOC)
           IN  /\ w \in Volumes /\ TableWhole(w)
               /\ Clusters(w.fs) = Clusters(v.fs)
               /\ Table(w) = [Table(v) EXCEPT ![p] = EOC]
               /\ \A next \in Clusters(v.fs) : Table(v)[p] = next =>
                     /\ Table(w)[next] # Zero
                     /\ \A d \in Clusters(w.fs) : Table(w)[d] # next
<1>0. TableSound(v) /\ Chained(Table(v)) /\ CountExact(v)
  BY DEF TableWhole
<1>1. PICK n, t :
         /\ n = v.fs.n_fatent /\ t = Table(v) /\ n \in Nat /\ n <= EOC
         /\ t \in [2 .. n - 1 -> Entries] /\ Clusters(v.fs) = 2 .. n - 1
  BY <1>0, TableOf
<1>2. PICK w :
         /\ w = put_fat(v, p, EOC) /\ w \in Volumes /\ TableSound(w)
         /\ Table(w) = [Table(v) EXCEPT ![p] = EOC]
         /\ w.fs.n_fatent = v.fs.n_fatent /\ w.fs.free_clst = v.fs.free_clst
         /\ Clusters(w.fs) = Clusters(v.fs)
  <2>1. PICK e \in Nat : e = EOC /\ Coded(e) = EOC
    BY CellsAssumption DEF Coded
  <2>2. LET w == put_fat(v, p, e)
        IN  /\ w \in Volumes /\ TableSound(w)
            /\ Table(w) = [Table(v) EXCEPT ![p] = Coded(e)]
            /\ w.fs.n_fatent = v.fs.n_fatent /\ w.fs.free_clst = v.fs.free_clst
            /\ Clusters(w.fs) = Clusters(v.fs)
    BY <1>0, PutFields
  <2>. QED BY Zenon, <2>1, <2>2
<1>3. /\ p \in 2 .. n - 1 /\ Chained(t) /\ t[p] # Zero
      /\ Zero \notin 2 .. n - 1 /\ EOC \notin 2 .. n - 1 /\ EOC # Zero
  BY <1>0, <1>1, CellsAssumption
<1>4. Chained(Table(w))
  <2>1. Chained([t EXCEPT ![p] = EOC])
    BY <1>1, <1>3, CutChained
  <2>. QED BY <1>1, <1>2, <2>1
<1>5. CountExact(w)
  <2>1. FreeIn([t EXCEPT ![p] = EOC]) = FreeIn(t)
    BY <1>1, <1>3 DEF FreeIn
  <2>2. Known(w.fs) <=> Known(v.fs)
    BY <1>2 DEF Known
  <2>. QED BY <1>0, <1>1, <1>2, <2>1, <2>2 DEF CountExact
<1>6. \A next \in Clusters(v.fs) : Table(v)[p] = next =>
          /\ Table(w)[next] # Zero
          /\ \A d \in Clusters(v.fs) : Table(w)[d] # next
  <2>1. SUFFICES ASSUME NEW next \in 2 .. n - 1, t[p] = next
                 PROVE  /\ [t EXCEPT ![p] = EOC][next] # Zero
                        /\ \A d \in 2 .. n - 1 : [t EXCEPT ![p] = EOC][d] # next
    BY <1>1, <1>2
  <2>2. DOMAIN t = 2 .. n - 1
    BY <1>1
  <2>3. t[next] # Zero /\ \A d \in 2 .. n - 1 : t[d] = next => d = p
    BY <1>3, <2>1, <2>2 DEF Chained
  <2>. QED BY <1>3, <2>1, <2>2, <2>3
<1>. QED BY <1>2, <1>4, <1>5, <1>6 DEF TableWhole

\* create_chain takes a free cluster and links it to the end of a chain (or
\* begins one, clst = 0): the table stays whole, so no two chains run into
\* each other and none becomes a cycle, and the count is one less.
THEOREM TakenKeepsWhole ==
    ASSUME NEW v \in Volumes, TableWhole(v),
           NEW ncl \in Clusters(v.fs), Table(v)[ncl] = Zero,
           NEW clst \in Clusters(v.fs) \cup {0},
           clst # 0 => Table(v)[clst] # Zero /\ Table(v)[clst] \notin Clusters(v.fs)
    PROVE  LET w == Taken(v, clst, ncl)
           IN  /\ w \in Volumes /\ TableWhole(w)
               /\ Clusters(w.fs) = Clusters(v.fs)
               /\ Table(w)[ncl] = EOC
               /\ clst # 0 => Table(w)[clst] = ncl
               /\ \A d \in Clusters(v.fs) \ {clst, ncl} : Table(w)[d] = Table(v)[d]
               /\ Known(v.fs) => Known(w.fs) /\ w.fs.free_clst = v.fs.free_clst - 1
<1>0. TableSound(v) /\ Chained(Table(v)) /\ CountExact(v)
  BY DEF TableWhole
<1>1. PICK n, t :
         /\ n = v.fs.n_fatent /\ t = Table(v) /\ n \in Nat /\ n <= EOC
         /\ t \in [2 .. n - 1 -> Entries] /\ Clusters(v.fs) = 2 .. n - 1
  BY <1>0, TableOf
<1>2. PICK w \in Volumes :
         /\ w = put_fat(v, ncl, EOC) /\ TableSound(w)
         /\ Table(w) = [t EXCEPT ![ncl] = EOC]
         /\ w.fs.n_fatent = n /\ w.fs.free_clst = v.fs.free_clst
         /\ Clusters(w.fs) = 2 .. n - 1
  <2>1. PICK e \in Nat : e = EOC /\ Coded(e) = EOC
    BY CellsAssumption DEF Coded
  <2>2. LET w == put_fat(v, ncl, e)
        IN  /\ w \in Volumes /\ TableSound(w)
            /\ Table(w) = [Table(v) EXCEPT ![ncl] = Coded(e)]
            /\ w.fs.n_fatent = v.fs.n_fatent /\ w.fs.free_clst = v.fs.free_clst
            /\ Clusters(w.fs) = Clusters(v.fs)
    BY <1>0, PutFields
  <2>. QED BY Zenon, <1>1, <2>1, <2>2
<1>3. /\ ncl \in 2 .. n - 1 /\ Chained(t) /\ t[ncl] = Zero
      /\ Zero \notin 2 .. n - 1 /\ EOC \notin 2 .. n - 1 /\ EOC # Zero
      /\ clst # 0 => clst \in 2 .. n - 1 /\ clst # ncl /\ t[clst] # Zero
                      /\ t[clst] \notin 2 .. n - 1
      /\ ncl \in Nat /\ ncl # 0 /\ DOMAIN t = 2 .. n - 1
  BY <1>0, <1>1, CellsAssumption
<1>4. PICK t1 : /\ t1 = [t EXCEPT ![ncl] = EOC] /\ t1 \in [2 .. n - 1 -> Entries]
                /\ Chained(t1) /\ DOMAIN t1 = 2 .. n - 1
  <2>1. Chained([t EXCEPT ![ncl] = EOC])
    BY <1>1, <1>3, CutChained
  <2>2. [t EXCEPT ![ncl] = EOC] \in [2 .. n - 1 -> Entries]
    BY <1>1, CellsAssumption DEF Entries
  <2>. QED BY <2>1, <2>2
<1>5. PICK x, t2 :
         /\ x = (IF clst = 0 THEN w ELSE put_fat(w, clst, ncl))
         /\ x \in Volumes /\ TableSound(x) /\ Table(x) = t2
         /\ t2 = (IF clst = 0 THEN t1 ELSE [t1 EXCEPT ![clst] = ncl])
         /\ x.fs.n_fatent = n /\ x.fs.free_clst = v.fs.free_clst
  <2>1. CASE clst = 0
    BY <1>2, <1>4, <2>1
  <2>2. CASE clst # 0
    <3>1. PICK e \in Nat, c \in Clusters(w.fs) : e = ncl /\ c = clst /\ Coded(e) = ncl
      BY <1>2, <1>3, <2>2 DEF Coded
    <3>2. LET u == put_fat(w, c, e)
          IN  /\ u \in Volumes /\ TableSound(u)
              /\ Table(u) = [Table(w) EXCEPT ![c] = Coded(e)]
              /\ u.fs.n_fatent = w.fs.n_fatent /\ u.fs.free_clst = w.fs.free_clst
              /\ Clusters(u.fs) = Clusters(w.fs)
      <4>1. w \in Volumes /\ TableSound(w)
        BY <1>2
      <4>. QED BY <4>1, PutFields
    <3>3. PICK u : /\ u = put_fat(w, clst, ncl) /\ u \in Volumes /\ TableSound(u)
                   /\ Table(u) = [t1 EXCEPT ![clst] = ncl]
                   /\ u.fs.n_fatent = n /\ u.fs.free_clst = v.fs.free_clst
      BY Zenon, <1>2, <1>4, <3>1, <3>2
    <3>. QED BY <2>2, <3>3
  <2>. QED BY <2>1, <2>2
<1>6. Chained(t2)
  <2>1. CASE clst = 0
    BY <1>4, <1>5, <2>1
  <2>2. CASE clst # 0
    <3>1. \A d \in 2 .. n - 1 : t[d] # ncl
      BY <1>3 DEF Chained
    <3>2. /\ t1[ncl] = EOC /\ t1[clst] # Zero
          /\ \A d \in 2 .. n - 1 : t1[d] # ncl
      BY <1>1, <1>3, <1>4, <2>2, <3>1
    <3>3. Chained([t1 EXCEPT ![clst] = ncl])
      BY <1>1, <1>3, <1>4, <2>2, <3>2, LinkedChained
    <3>. QED BY <1>5, <2>2, <3>3
  <2>. QED BY <2>1, <2>2
<1>7. /\ t2[ncl] = EOC
      /\ clst # 0 => t2[clst] = ncl
      /\ \A d \in (2 .. n - 1) \ {clst, ncl} : t2[d] = t[d]
  BY <1>1, <1>3, <1>4, <1>5
<1>8. PICK k \in 1 .. n - 2 :
         /\ k = Cardinality(FreeIn(t))
         /\ Cardinality(FreeIn(t1)) = k - 1
  <2>1. PICK e \in Nat \ {0} : e = EOC
    BY CellsAssumption
  <2>2. /\ Cardinality(FreeIn(t)) \in 1 .. n - 2
        /\ Cardinality(FreeIn([t EXCEPT ![ncl] = e])) = Cardinality(FreeIn(t)) - 1
    <3>1. n \in Nat /\ t \in [2 .. n - 1 -> Entries]
      BY Zenon, <1>1
    <3>2. ncl \in 2 .. n - 1 /\ t[ncl] = Zero
      BY Zenon, <1>3
    <3>3. \A val \in Nat \ {0} :
             /\ Cardinality(FreeIn(t)) \in 1 .. n - 2
             /\ Cardinality(FreeIn([t EXCEPT ![ncl] = val])) = Cardinality(FreeIn(t)) - 1
      BY <3>1, <3>2, OneLessFree
    <3>. QED BY Zenon, <3>3
  <2>. QED BY Zenon, <1>4, <2>1, <2>2
<1>9. FreeIn(t2) = FreeIn(t1)
  <2>1. CASE clst = 0
    BY <1>5, <2>1
  <2>2. CASE clst # 0
    <3>1. t1[clst] # Zero /\ ncl # Zero
      BY <1>3, <1>4, <2>2, CellsAssumption
    <3>. QED BY <1>4, <1>5, <2>2, <3>1 DEF FreeIn
  <2>. QED BY <2>1, <2>2
<1>10. Known(v.fs) => v.fs.free_clst = k
  BY <1>0, <1>1, <1>8 DEF CountExact
<1>11. PICK y, j, m :
         /\ y = Taken(v, clst, ncl) /\ j \in Int /\ m \in Nat
         /\ j = (IF Known(v.fs) THEN k - 1 ELSE v.fs.free_clst)
         /\ y = [x EXCEPT !.fs = [x.fs EXCEPT !.last_clst = ncl, !.free_clst = j, !.fsi_flag = m]]
  <2>1. PICK m \in Nat : m = Marked(x.fs.fsi_flag)
    BY DEF Marked
  <2>2. PICK j \in Int : /\ j = (IF Known(v.fs) THEN k - 1 ELSE v.fs.free_clst)
                          /\ j = (IF Known(v.fs) THEN x.fs.free_clst - 1 ELSE x.fs.free_clst)
    <3>1. k \in Int /\ v.fs.free_clst \in Int
      BY <1>1, <1>8, Fields
    <3>. QED BY <1>5, <1>10, <3>1
  <2>3. Taken(v, clst, ncl) = [x EXCEPT !.fs.last_clst = ncl,
                  !.fs.free_clst = IF Known(v.fs) THEN @ - 1 ELSE @,
                  !.fs.fsi_flag = Marked(@)]
    BY <1>2, <1>5 DEF Taken
  <2>4. x.fs \in FatFs /\ x \in Volumes
    BY <1>5, Fields
  <2>5. [x EXCEPT !.fs.last_clst = ncl,
                  !.fs.free_clst = IF Known(v.fs) THEN @ - 1 ELSE @,
                  !.fs.fsi_flag = Marked(@)] =
          [x EXCEPT !.fs.last_clst = ncl, !.fs.free_clst = j, !.fs.fsi_flag = m]
    <3>1. CASE Known(v.fs)
      BY <2>1, <2>2, <2>4, <3>1 DEF Volumes, FatFs
    <3>2. CASE ~Known(v.fs)
      BY <2>1, <2>2, <2>4, <3>2 DEF Volumes, FatFs
    <3>. QED BY <3>1, <3>2
  <2>6. [x EXCEPT !.fs.last_clst = ncl, !.fs.free_clst = j, !.fs.fsi_flag = m] =
          [x EXCEPT !.fs = [x.fs EXCEPT !.last_clst = ncl, !.free_clst = j, !.fsi_flag = m]]
    BY <2>4 DEF Volumes, FatFs
  <2>7. Taken(v, clst, ncl) =
          [x EXCEPT !.fs = [x.fs EXCEPT !.last_clst = ncl, !.free_clst = j, !.fsi_flag = m]]
    BY Zenon, <2>3, <2>5, <2>6
  <2>. QED BY <2>1, <2>2, <2>7
<1>12. /\ y \in Volumes /\ y.disk = x.disk
       /\ y.fs = [x.fs EXCEPT !.last_clst = ncl, !.free_clst = j, !.fsi_flag = m]
  <2>1. x.fs \in FatFs /\ ncl \in Int
    BY <1>3, <1>5, Fields
  <2>2. PICK g \in FatFs : g = [x.fs EXCEPT !.last_clst = ncl, !.free_clst = j, !.fsi_flag = m]
    BY <1>11, <2>1 DEF FatFs
  <2>3. y = [x EXCEPT !.fs = g]
    BY <1>11, <2>2
  <2>. QED BY <1>5, <2>2, <2>3 DEF Volumes
<1>13. /\ y.fs.free_clst = j
       /\ y.fs = [x.fs EXCEPT !.free_clst = y.fs.free_clst, !.last_clst = y.fs.last_clst,
                               !.fsi_flag = y.fs.fsi_flag]
  <2>1. x.fs \in FatFs
    BY <1>5, Fields
  <2>. QED BY <1>12, <2>1 DEF FatFs
<1>14. /\ TableSound(y) /\ Table(y) = t2 /\ y.fs.n_fatent = n
  <2>1. TableSound(y) /\ Table(y) = Table(x) /\ y.fs.n_fatent = x.fs.n_fatent
    <3>1. x \in Volumes /\ TableSound(x) /\ y \in Volumes /\ y.disk = x.disk
      BY <1>5, <1>12
    <3>. QED BY Zenon, <1>13, <3>1, CountsApart
  <2>. QED BY <1>5, <2>1
<1>15. /\ Known(y.fs) <=> Known(v.fs)
       /\ Known(v.fs) => y.fs.free_clst = k - 1
  BY <1>1, <1>8, <1>10, <1>11, <1>13, <1>14 DEF Known
<1>16. CountExact(y)
  BY <1>8, <1>9, <1>14, <1>15 DEF CountExact
<1>17. Clusters(y.fs) = Clusters(v.fs)
  BY <1>1, <1>14 DEF Clusters
<1>18. y \in Volumes /\ TableWhole(y)
  BY <1>6, <1>12, <1>14, <1>16 DEF TableWhole
<1>19. Known(v.fs) => Known(y.fs) /\ y.fs.free_clst = v.fs.free_clst - 1
  BY <1>10, <1>15
<1>20. /\ Table(y)[ncl] = EOC
       /\ clst # 0 => Table(y)[clst] = ncl
       /\ \A d \in Clusters(v.fs) \ {clst, ncl} : Table(y)[d] = Table(v)[d]
  BY <1>1, <1>7, <1>14
<1>. QED BY <1>11, <1>17, <1>18, <1>19, <1>20

=============================================================================
