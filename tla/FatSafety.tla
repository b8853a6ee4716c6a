----------------------------- MODULE FatSafety ------------------------------
(***************************************************************************)
(* What a FAT volume must satisfy while ff.c works on it, what a power cut *)
(* leaves of it, and the tree of files it implements.                      *)
(*                                                                         *)
(* The volume is read here by definitions of its own, from the disk as it  *)
(* would be if all that waits in memory were written: the window, the      *)
(* buffers of open files, and their sizes and first clusters.              *)
(***************************************************************************)
EXTENDS Fat

CONSTANTS Off, None

Readable(g) == g.fs_type # 0

-----------------------------------------------------------------------------
(* Reading a disk d of geometry g.                                         *)

Link(g, d, c) == d[g.fatbase + c \div SS][c % SS]

(* The chain that begins at c: it stops at an end, at a cluster that is    *)
(* free, and when it comes back to a cluster it has visited.               *)
RECURSIVE ChainFrom(_, _, _, _)
ChainFrom(g, d, c, seen) ==
    LET next == Link(g, d, c)
    IN  IF next = Zero \/ next \in seen \/ next >= g.n_fatent THEN <<c>>
        ELSE <<c>> \o ChainFrom(g, d, next, seen \cup {next})

Chain(g, d, c) == IF c = 0 THEN <<>> ELSE ChainFrom(g, d, c, {c})

Ended(g, d, chain) == Len(chain) > 0 => Link(g, d, Last(chain)) = EOC

(* The cells of n sectors from sect on, and those stored in a chain.       *)
RECURSIVE SectorCells(_, _, _)
SectorCells(d, sect, n) ==
    IF n = 0 THEN <<>>
    ELSE [j \in 1 .. SS |-> d[sect][j - 1]] \o SectorCells(d, sect + 1, n - 1)

RECURSIVE Stored(_, _, _)
Stored(g, d, chain) ==
    IF chain = <<>> THEN <<>>
    ELSE SectorCells(d, g.database + g.csize * (chain[1] - 2), g.csize)
         \o Stored(g, d, Tail(chain))

(* The root directory: a chain, or the area of FAT16.                      *)
RootCells(g, d) ==
    IF g.fs_type = 32 THEN Stored(g, d, Chain(g, d, g.dirbase))
    ELSE SectorCells(d, g.dirbase, g.n_rootdir \div SS)

(* The entries of a directory: up to the first cell of zeroes, without     *)
(* deleted ones, the dots, and what is left of a file after a power cut.   *)
Entries(cells) ==
    LET end == CHOOSE n \in 0 .. Len(cells) :
                  /\ n = Len(cells) \/ cells[n + 1] = Zero
                  /\ \A i \in 1 .. n : cells[i] # Zero
    IN  {cells[i] : i \in {j \in 1 .. end :
            /\ cells[j] \notin {Deleted} \cup Data
            /\ cells[j].name \notin {<<".">>, <<".", ".">>}}}

RECURSIVE Below(_, _, _, _)
Below(g, d, cells, prefix) ==
    UNION {{[path |-> Append(prefix, e.name), entry |-> e]}
           \cup (IF e.attr = "DIR"
                 THEN Below(g, d, Stored(g, d, Chain(g, d, e.clst)),
                            Append(prefix, e.name))
                 ELSE {}) : e \in Entries(cells)}

Objects(g, d) == IF Readable(g) THEN Below(g, d, RootCells(g, d), <<>>) ELSE {}

Node(g, d, e) ==
    LET cells == Stored(g, d, Chain(g, d, e.clst))
    IN  IF e.attr = "DIR" THEN [dir |-> TRUE, data |-> <<>>]
        ELSE [dir |-> FALSE, data |-> SubSeq(cells, 1, Least(e.size, Len(cells)))]

Tree(g, d, objects) ==
    [p \in {o.path : o \in objects} |->
        Node(g, d, (CHOOSE o \in objects : o.path = p).entry)]

-----------------------------------------------------------------------------
(* The disk with everything that waits in memory.                          *)

WithWindow(d, f) == IF f.fs_type # 0 /\ f.wflag
                    THEN [d EXCEPT ![f.winsect] = f.win] ELSE d

WithFile(d, f) ==
    LET e == [d EXCEPT ![f.dir_sect][f.dir_ptr] =
                [@ EXCEPT !.clst = f.sclust, !.size = f.objsize]]
    IN  IF ~f.open THEN d
        ELSE IF "D" \in f.flag THEN [e EXCEPT ![f.sect] = f.buf] ELSE e

(* The geometry g, the disk d and the objects in it, of a disk, a file     *)
(* system object and file objects.                                         *)
View(d, f, fils) ==
    LET g == IF f.fs_type # 0 THEN f
             ELSE mount_volume([disk |-> d, fs |-> NoFs, log |-> <<>>]).v.fs
        e == FoldLeft(LAMBDA x, h : WithFile(x, fils[h]), WithWindow(d, f),
                      SetToSeq(Handles))
    IN  [g |-> g, d |-> e, objects |-> Objects(g, e)]

Now == View(disk, fs, fil)

(* The path of an open file, found by marking its entry.                   *)
PathOf(n, f) ==
    LET marked == [n.d EXCEPT ![f.dir_sect][f.dir_ptr] = [@ EXCEPT !.attr = Off]]
    IN  (CHOOSE o \in Objects(n.g, marked) : o.entry.attr = Off).path

(* What the volume, the window and the buffers together show: the tree of  *)
(* files and, of each file object, the path and the position.  They are    *)
(* kept in variables of their own, set at every step; after a power cut    *)
(* the tree is the one the disk alone holds.                               *)
VARIABLES tree, files

TreeOf(n) == Tree(n.g, n.d, n.objects)
FilesOf(n, fils) ==
    [h \in Handles |-> IF fils[h].open
                       THEN [path |-> PathOf(n, fils[h]), pos |-> fils[h].fptr]
                       ELSE None]

Shows == tree = TreeOf(Now) /\ files = FilesOf(Now, fil)
ShowsNext == \E n \in {View(disk', fs', fil')} :
                tree' = TreeOf(n) /\ files' = FilesOf(n, fil')

ShownInit == Init /\ Shows
ShownNext == \/ FileNext /\ ShowsNext
             \/ PathNext /\ ShowsNext
             \/ PowerCut /\ ShowsNext
             \/ ~power /\ Fresh /\ ShowsNext
ShownSpec == ShownInit /\ [][ShownNext]_<<vars, tree, files>>

-----------------------------------------------------------------------------
(* The chains of two objects never share a cluster, every chain comes to   *)
(* an end, and a file has exactly the clusters its size asks for.          *)
ChainsSound ==
    power =>
    LET n == Now
        C(o) == Chain(n.g, n.d, o.entry.clst)
        bcs == n.g.csize * SS
        root == IF n.g.fs_type = 32 THEN ToSet(Chain(n.g, n.d, n.g.dirbase)) ELSE {}
    IN  /\ \A o \in n.objects :
              /\ Ended(n.g, n.d, C(o))
              /\ ToSet(C(o)) \cap root = {}
              /\ o.entry.attr # "DIR" =>
                    Len(C(o)) = (o.entry.size + bcs - 1) \div bcs
        /\ \A o, p \in n.objects : o # p => ToSet(C(o)) \cap ToSet(C(p)) = {}

(* No cluster is lost: the table marks as used exactly the clusters of the *)
(* chains, and free_clst, when it is known, counts the others.             *)
NoLostClusters ==
    power /\ fs.fs_type # 0 =>
    LET n == Now
        used == UNION {ToSet(Chain(n.g, n.d, o.entry.clst)) : o \in n.objects}
                \cup (IF fs.fs_type = 32 THEN ToSet(Chain(n.g, n.d, fs.dirbase))
                      ELSE {})
        free == {c \in 2 .. fs.n_fatent - 1 : Link(n.g, n.d, c) = Zero}
    IN  /\ free = (2 .. fs.n_fatent - 1) \ used
        /\ fs.free_clst # Unknown => fs.free_clst = Cardinality(free)

(* The table is laid out as mount_volume takes it to be, what waits in the  *)
(* window and what is on the disk fit together, the copies are the same and*)
(* the links are sound (see FatTable): what the theorems of FatTableProofs *)
(* show each operation on the table to preserve.                           *)
TableKept ==
    power /\ fs.fs_type # 0 => TableWhole(Volume)

(* The volume is sound after every sequence of calls: what a disk checker  *)
(* would look for is never there.                                          *)
VolumeSound == ChainsSound /\ NoLostClusters /\ TableKept

(* To read k cells from the position on, f_read asks disk_read for two     *)
(* neighbouring sectors (s and the next) of a cluster at once.             *)
LongRun(f, k) ==
    \E s \in 0 .. MaxSize :
        /\ (s + 1) % fs.csize # 0
        /\ f.fptr <= s * SS
        /\ (s + 2) * SS <= Least(f.fptr + k, f.objsize)

(* f_read answers what the file holds from the position on, whether it     *)
(* lies on the disk, in the window or in the buffer, and across clusters;  *)
(* except where it reads a run of sectors at once, which disk_read does not*)
(* do (see DiskSafety, ReadsTheRun).                                       *)
ReadsContent ==
    \A h \in Handles, k \in 1 .. MaxSize :
        fil[h].open /\ "FA_READ" \in fil[h].flag /\ ~LongRun(fil[h], k) =>
            f_read(Volume, fil[h], k).data =
                SubSeq(tree[files[h].path].data, fil[h].fptr + 1,
                       Least(fil[h].fptr + k, fil[h].objsize))

(* Looking for a name finds it exactly if it is in the tree, and reading a *)
(* directory lists each of its names once, however many of its entries     *)
(* were removed and wherever its chain leads.                              *)
FindsNames ==
    power /\ fs.fs_type # 0 =>
    LET paths == DOMAIN tree
        Listed(p) == f_readdir(Volume, p).names
        Children(p) == {q \in paths : Len(q) = Len(p) + 1 /\ IsPrefix(p, q)}
    IN  /\ \A p \in Paths : f_stat(Volume, p).res = "FR_OK" <=> Names(p) \in paths
        /\ \A p \in Paths \cup {<<>>} :
              f_readdir(Volume, p).res = "FR_OK" =>
                 /\ {Append(Names(p), x) : x \in ToSet(Listed(p))} = Children(Names(p))
                 /\ Len(Listed(p)) = Cardinality(Children(Names(p)))

-----------------------------------------------------------------------------
(* A power cut may cost the objects that were open and modified and, in    *)
(* the middle of a call, the one object (with what lies below it) the call *)
(* is about; every other object is on the disk as it was, in a chain that  *)
(* ends.                                                                   *)
Modified == {files[h].path : h \in {i \in Handles : "M" \in fil[i].flag}}
Lost == {p \in DOMAIN tree \ Modified :
            ~(p \in DOMAIN tree' /\ tree'[p] = tree[p])}

SurvivesPowerCut ==
    [][power /\ ~power' =>
         /\ disk' = disk => Lost = {}
         /\ \E p \in Paths : \A q \in Lost : IsPrefix(Names(p), q)
         /\ \A n \in {View(disk', fs', fil')} : \A o \in n.objects :
                   o.path \in DOMAIN tree \ (Modified \cup Lost) =>
                      Ended(n.g, n.d, Chain(n.g, n.d, o.entry.clst))]_vars

(* What is shown is a tree of files in which every call is one step; a     *)
(* power cut ends it.                                                      *)
Promise == INSTANCE FileTree WITH
             tree <- IF power THEN tree ELSE Off, Paths <- {Names(p) : p \in Paths}

ImplementsFileTree == Promise!Spec
=============================================================================
