-------------------------------- MODULE Fat ---------------------------------
(***************************************************************************)
(* projects/fs/app0/ff.c, the API: files and directories on a mounted      *)
(* volume.  The program is sequential, so a call is one step, computed by  *)
(* an operator of the same name; but the power may fail after any of the   *)
(* sector writes of the call, and then the disk holds only those before.   *)
(*                                                                         *)
(* A volume after a power cut is not used again before it is made anew:    *)
(* the properties say what such a disk is good for.  The application keeps *)
(* to what ffconf.h asks for when FF_FS_LOCK is 0: it does not open,       *)
(* remove or rename an object that is open.                                *)
(***************************************************************************)
EXTENDS FatVolume

CONSTANTS
    Handles,     \* the file objects of the application
    Paths,       \* the paths it uses, sequences of names
    Data,        \* what it writes
    Counts,      \* how much it reads and writes at once
    Targets,     \* where it seeks to
    New,         \* the piece it writes
    MaxSize,     \* bound on the size of a file, in cells
    MaxMount,    \* bound on the number of times the volume is mounted
    MaxChange,   \* bound on the calls that change files or directories
    Volumes      \* the disks it may find

VARIABLES disk, fs, fil, power, left
vars == <<disk, fs, fil, power, left>>

(* The volume the calls work on.                                           *)
Volume == [disk |-> disk, fs |-> fs, log |-> <<>>]

NoFil == [open |-> FALSE, id |-> 0, flag |-> {}, sclust |-> 0, objsize |-> 0,
          fptr |-> 0, clust |-> 0, sect |-> 0, buf |-> ZeroSector,
          dir_sect |-> 0, dir_ptr |-> 0]

Result(v, f, res) == [v |-> v, f |-> f, res |-> res]
Bcs(v) == v.fs.csize * SS      \* cells of a cluster

-----------------------------------------------------------------------------
(* f_open.  mode is a set of flags; M stands for FA_MODIFIED, D for        *)
(* FA_DIRTY.                                                               *)

Creates == {"FA_CREATE_NEW", "FA_CREATE_ALWAYS", "FA_OPEN_ALWAYS"}

(* A created or truncated file: its entry is emptied before its clusters   *)
(* are freed, and the window comes back to the entry.                      *)
Emptied(v, dp) ==
    LET e == EntryAt(v, dp)
        w == StoreAt(v, dp, Entry(e.name, "ARC", 0, 0))
        x == move_window(remove_chain(w, e.clst, 0), w.fs.winsect)
    IN  IF e.clst = 0 THEN w ELSE [x EXCEPT !.fs.last_clst = e.clst - 1]

(* The cluster that holds the last cell of a chain of size cells.          *)
RECURSIVE SeekEnd(_, _, _)
Ahead(g, ofs) == SeekEnd(g.v, g.val, ofs)
SeekEnd(v, clst, ofs) ==
    IF ofs > Bcs(v) THEN Ahead(get_fat(v, clst), ofs - Bcs(v))
    ELSE [v |-> v, clst |-> clst, ofs |-> ofs]

(* The file object of the entry in the window, which dp points at; with    *)
(* FA_SEEKEND its position is the end.                                     *)
AtLast(s, f) ==
    LET sect == clst2sect(s.v, s.clst) + s.ofs \div SS
        g == [f EXCEPT !.fptr = @ + f.objsize, !.clust = s.clst]
    IN  IF s.ofs % SS = 0 THEN Result(s.v, g, "FR_OK")
        ELSE Result(s.v, [g EXCEPT !.sect = sect, !.buf = s.v.disk[sect]], "FR_OK")
Opened(v, dp, mode) ==
    LET e == EntryAt(v, dp)
        f == [open |-> TRUE, id |-> v.fs.id,
              flag |-> mode \cap {"FA_READ", "FA_WRITE", "M"}, sclust |-> e.clst,
              objsize |-> e.size, fptr |-> 0, clust |-> 0, sect |-> 0,
              buf |-> ZeroSector, dir_sect |-> v.fs.winsect,
              dir_ptr |-> dp.dptr % SS]
    IN  IF "FA_SEEKEND" \in mode /\ e.size > 0
        THEN AtLast(SeekEnd(v, e.clst, e.size), f)
        ELSE Result(v, f, "FR_OK")

OpenEmpty(r, mode) ==
    IF r.res # "FR_OK" THEN Result(r.v, NoFil, r.res)
    ELSE Opened(Emptied(r.v, r.dp), r.dp, mode \cup {"M"})

(* p is where the path leads, e the entry found there.                     *)
OpenAt(p, mode) ==
    LET e == EntryAt(p.v, p.dp)
        Fail(res) == Result(p.v, NoFil, res)
        create == mode \cap Creates # {}
    IN  IF p.res = "FR_NO_FILE" /\ create
        THEN OpenEmpty(dir_register(p.v, p.dp.sclust, p.fn), mode)
        ELSE IF p.res # "FR_OK" THEN Fail(p.res)
        ELSE IF p.fn = <<>> THEN Fail("FR_INVALID_NAME")
        ELSE IF create /\ e.attr \in {"RDO", "DIR"} THEN Fail("FR_DENIED")
        ELSE IF "FA_CREATE_NEW" \in mode THEN Fail("FR_EXIST")
        ELSE IF "FA_CREATE_ALWAYS" \in mode THEN OpenEmpty(p, mode)
        ELSE IF e.attr = "DIR" THEN Fail("FR_NO_FILE")
        ELSE IF e.attr = "RDO" /\ "FA_WRITE" \in mode THEN Fail("FR_DENIED")
        ELSE Opened(p.v, p.dp, mode)

f_open(v, path, mode) == OpenAt(Locate(v, path), mode)

-----------------------------------------------------------------------------
(* Reading and writing.                                                    *)

(* validate: the object was opened since the volume was last mounted.      *)
validate(v, f) == f.open /\ v.fs.fs_type # 0 /\ f.id = v.fs.id

(* Mutant: the buffer is not written back when the file moves on.          *)
FlushBufNot(v, f) == [v |-> v, f |-> [f EXCEPT !.flag = @ \ {"D"}]]

(* The buffer of the file is written back if it is dirty.                  *)
FlushBuf(v, f) ==
    IF "D" \in f.flag
    THEN [v |-> disk_write(v, f.sect, f.buf), f |-> [f EXCEPT !.flag = @ \ {"D"}]]
    ELSE [v |-> v, f |-> f]

Csect(v, f) == (f.fptr \div SS) % v.fs.csize

(* Up to the end of the sector.                                            *)
Piece(f, n) == Least(SS - (f.fptr % SS), n)

(* A turn of the loop of f_read: data is what has been read so far, c the  *)
(* cluster of the position.  A piece of a sector is copied from the        *)
(* buffer, whole sectors are read past it, cc at once: but disk_read stays *)
(* at the first one (diskio.c:73-79), and answers it cc times.             *)
RECURSIVE ReadLoop(_, _, _, _)
ReadPiece(b, btr, data) ==
    LET f == b.f
        n == Piece(f, btr)
    IN  ReadLoop(b.v, [f EXCEPT !.fptr = @ + n], btr - n,
                 data \o [i \in 1 .. n |-> f.buf[(f.fptr % SS) + i - 1]])
Fill(b, sect) == IF b.f.sect = sect THEN b
                 ELSE [b EXCEPT !.f.sect = sect, !.f.buf = b.v.disk[sect]]
ReadFrom(c, f, btr, data) ==
    LET csect == Csect(c.v, f)
        g == [f EXCEPT !.clust = c.val]
        sect == clst2sect(c.v, c.val) + csect
        cc == Least(btr \div SS, c.v.fs.csize - csect)
        Sector(n) == IF "D" \in f.flag /\ f.sect = sect + n THEN f.buf
                     ELSE c.v.disk[sect]
        whole == [i \in 1 .. cc * SS |-> Sector((i - 1) \div SS)[(i - 1) % SS]]
    IN  IF cc > 0
        THEN ReadLoop(c.v, [g EXCEPT !.fptr = @ + cc * SS], btr - cc * SS,
                      data \o whole)
        ELSE ReadPiece(Fill(IF f.sect = sect THEN [v |-> c.v, f |-> g]
                            ELSE FlushBuf(c.v, g), sect), btr, data)
ReadLoop(v, f, btr, data) ==
    IF btr = 0 THEN [v |-> v, f |-> f, res |-> "FR_OK", data |-> data]
    ELSE IF f.fptr % SS # 0 THEN ReadPiece([v |-> v, f |-> f], btr, data)
    ELSE ReadFrom(IF Csect(v, f) # 0 THEN [v |-> v, val |-> f.clust]
                  ELSE IF f.fptr = 0 THEN [v |-> v, val |-> f.sclust]
                  ELSE get_fat(v, f.clust), f, btr, data)

f_read(v, f, btr) ==
    LET Fail(res) == [v |-> v, f |-> f, res |-> res, data |-> <<>>]
    IN  IF ~validate(v, f) THEN Fail("FR_INVALID_OBJECT")
        ELSE IF "FA_READ" \notin f.flag THEN Fail("FR_DENIED")
        ELSE ReadLoop(v, f, Least(btr, f.objsize - f.fptr), <<>>)

Grown(f, n) == [f EXCEPT !.fptr = @ + n,
                         !.objsize = IF f.fptr + n > @ THEN f.fptr + n ELSE @]

(* The same for f_write; a full volume (no cluster c) ends the loop early.  *)
RECURSIVE WriteLoop(_, _, _)
WritePiece(b, data) ==
    LET f == b.f
        n == Piece(f, Len(data))
        o == f.fptr % SS
        buf == [i \in Cells |-> IF i \in o .. o + n - 1 THEN data[i - o + 1]
                                ELSE f.buf[i]]
    IN  WriteLoop(b.v, Grown([f EXCEPT !.buf = buf, !.flag = @ \cup {"D"}], n),
                  SubSeq(data, n + 1, Len(data)))
Refill(b, sect) ==
    [b EXCEPT !.f.sect = sect,
              !.f.buf = IF b.f.sect # sect /\ b.f.fptr < b.f.objsize
                        THEN b.v.disk[sect] ELSE @]
(* cc sectors are written at once from sect on, by disk_write one after the*)
(* other into the first (diskio.c:107-112); a copy in the buffer is brought*)
(* up to date.                                                             *)
WriteWhole(b, sect, cc, data) ==
    LET f == b.f
        Sector(n) == [i \in Cells |-> data[n * SS + i + 1]]
        Write(x, n) == disk_write(x, sect, Sector(n))
    IN  WriteLoop(FoldLeft(Write, b.v, [n \in 1 .. cc |-> n - 1]),
                  Grown(IF f.sect \in sect .. sect + cc - 1
                        THEN [f EXCEPT !.buf = Sector(f.sect - sect)] ELSE f,
                        cc * SS),
                  SubSeq(data, cc * SS + 1, Len(data)))
WriteAt(b, data) ==
    LET csect == Csect(b.v, b.f)
        sect == clst2sect(b.v, b.f.clust) + csect
        cc == Least(Len(data) \div SS, b.v.fs.csize - csect)
    IN  IF cc > 0 THEN WriteWhole(b, sect, cc, data)
        ELSE WritePiece(Refill(b, sect), data)
WriteTo(c, f, data) ==
    IF c.val = 0 THEN [v |-> c.v, f |-> f]
    ELSE WriteAt(FlushBuf(c.v, [f EXCEPT !.clust = c.val,
                                         !.sclust = IF @ = 0 THEN c.val ELSE @]),
                 data)
WriteLoop(v, f, data) ==
    IF data = <<>> THEN [v |-> v, f |-> f]
    ELSE IF f.fptr % SS # 0 THEN WritePiece([v |-> v, f |-> f], data)
    ELSE WriteTo(IF Csect(v, f) # 0 THEN [v |-> v, val |-> f.clust]
                 ELSE IF f.fptr # 0 THEN create_chain(v, f.clust)
                 ELSE IF f.sclust = 0 THEN create_chain(v, 0)
                 ELSE [v |-> v, val |-> f.sclust], f, data)

WriteEnd(r) == Result(r.v, [r.f EXCEPT !.flag = @ \cup {"M"}], "FR_OK")
f_write(v, f, data) ==
    IF ~validate(v, f) THEN Result(v, f, "FR_INVALID_OBJECT")
    ELSE IF "FA_WRITE" \notin f.flag THEN Result(v, f, "FR_DENIED")
    ELSE WriteEnd(WriteLoop(v, f, data))

(* Mutant: the entry waits in the window.                                  *)
SyncEndLazy(w, f, clst) ==
    LET e == [w.fs.win[f.dir_ptr] EXCEPT !.attr = "ARC", !.clst = clst,
                                         !.size = f.objsize]
    IN  Result(Store(w, f.dir_ptr, e), [f EXCEPT !.flag = @ \ {"M"}], "FR_OK")

(* f_sync: buffer, then table, then the entry, then FSINFO.  w is the   *)
(* volume with the entry in the window, clst its first cluster.            *)
SyncEnd(w, f, clst) ==
    LET e == [w.fs.win[f.dir_ptr] EXCEPT !.attr = "ARC", !.clst = clst,
                                         !.size = f.objsize]
    IN  Result(sync_fs(Store(w, f.dir_ptr, e)), [f EXCEPT !.flag = @ \ {"M"}],
               "FR_OK")

(* Mutant: the buffer and the entry, but the first cluster stays as it was.*)
f_sync_size(v, f) ==
    LET b == FlushBuf(v, f)
        w == move_window(b.v, f.dir_sect)
    IN  IF ~validate(v, f) THEN Result(v, f, "FR_INVALID_OBJECT")
        ELSE IF "M" \notin f.flag THEN Result(v, f, "FR_OK")
        ELSE SyncEnd(w, b.f, w.fs.win[f.dir_ptr].clst)

f_sync(v, f) ==
    LET b == FlushBuf(v, f)
    IN  IF ~validate(v, f) THEN Result(v, f, "FR_INVALID_OBJECT")
        ELSE IF "M" \notin f.flag THEN Result(v, f, "FR_OK")
        ELSE SyncEnd(move_window(b.v, f.dir_sect), b.f, f.sclust)

Closed(s) == IF s.res = "FR_OK" THEN [s EXCEPT !.f = NoFil] ELSE s
f_close(v, f) == Closed(f_sync(v, f))

-----------------------------------------------------------------------------
(* f_lseek and f_truncate.                                                 *)

(* The loop of f_lseek: on through the chain, which a file open for        *)
(* writing extends; a full volume ends it at the last cluster.             *)
RECURSIVE SeekLoop(_, _, _)
SeekOn(c, f, ofs) ==
    IF c.val = 0 THEN [v |-> c.v, f |-> f, ofs |-> 0]
    ELSE SeekLoop(c.v, [f EXCEPT !.clust = c.val], ofs)
SeekLoop(v, f, ofs) ==
    IF ofs <= Bcs(v) THEN [v |-> v, f |-> f, ofs |-> ofs]
    ELSE SeekOn(IF "FA_WRITE" \in f.flag THEN create_chain(v, f.clust)
                ELSE get_fat(v, f.clust),
                [f EXCEPT !.fptr = @ + Bcs(v)], ofs - Bcs(v))

(* From the first cluster c on; there may be none, nor room for one.       *)
SeekFirst(c, f, ofs) ==
    IF c.val = 0 THEN [v |-> c.v, f |-> [f EXCEPT !.fptr = 0, !.clust = 0], ofs |-> 0]
    ELSE SeekLoop(c.v, [f EXCEPT !.fptr = 0, !.sclust = c.val, !.clust = c.val], ofs)

(* The rest of the offset; a file that grew is modified, and the buffer    *)
(* gets the sector of the new position.                                    *)
SeekEnds(r) ==
    LET f == [r.f EXCEPT !.fptr = @ + r.ofs]
        g == IF f.fptr > f.objsize
             THEN [f EXCEPT !.objsize = f.fptr, !.flag = @ \cup {"M"}] ELSE f
        nsect == IF r.ofs % SS = 0 THEN 0
                 ELSE clst2sect(r.v, f.clust) + r.ofs \div SS
        b == FlushBuf(r.v, g)
    IN  IF f.fptr % SS # 0 /\ nsect # f.sect
        THEN Result(b.v, [b.f EXCEPT !.sect = nsect, !.buf = b.v.disk[nsect]], "FR_OK")
        ELSE Result(r.v, g, "FR_OK")

f_lseek(v, f, to) ==
    LET ofs == IF "FA_WRITE" \in f.flag THEN to ELSE Least(to, f.objsize)
        bcs == Bcs(v)
        ahead == f.fptr > 0 /\ (ofs - 1) \div bcs >= (f.fptr - 1) \div bcs
        base == ((f.fptr - 1) \div bcs) * bcs
    IN  IF ~validate(v, f) THEN Result(v, f, "FR_INVALID_OBJECT")
        ELSE SeekEnds(
               IF ofs = 0 THEN [v |-> v, f |-> [f EXCEPT !.fptr = 0], ofs |-> 0]
               ELSE IF ahead THEN SeekLoop(v, [f EXCEPT !.fptr = base], ofs - base)
               ELSE SeekFirst(IF f.sclust = 0 THEN create_chain(v, 0)
                              ELSE [v |-> v, val |-> f.sclust], f, ofs))

(* The chain is cut after the cluster of the read/write pointer.           *)
CutAfter(g, clst) == IF g.val < g.v.fs.n_fatent THEN remove_chain(g.v, g.val, clst)
                     ELSE g.v
Cut(v, f) == IF f.fptr = 0 THEN remove_chain(v, f.sclust, 0)
             ELSE CutAfter(get_fat(v, f.clust), f.clust)

Truncated(b) == Result(b.v, b.f, "FR_OK")
f_truncate(v, f) ==
    LET g == [f EXCEPT !.sclust = IF f.fptr = 0 THEN 0 ELSE @,
                       !.objsize = f.fptr, !.flag = @ \cup {"M"}]
    IN  IF ~validate(v, f) THEN Result(v, f, "FR_INVALID_OBJECT")
        ELSE IF "FA_WRITE" \notin f.flag THEN Result(v, f, "FR_DENIED")
        ELSE IF f.fptr >= f.objsize THEN Result(v, f, "FR_OK")
        ELSE Truncated(FlushBuf(Cut(v, f), g))

-----------------------------------------------------------------------------
(* Calls that name a path.  Done is what they answer; p is where the path  *)
(* leads.                                                                  *)

Done(v, res) == [v |-> v, res |-> res]

(* f_unlink: sub is the first entry of a directory that is to be removed.  *)
Freeing(v, clst) == IF clst = 0 THEN v ELSE remove_chain(v, clst, 0)
Unlinked(sub, dp, clst) ==
    IF sub.res = "FR_OK" THEN Done(sub.v, "FR_DENIED")
    ELSE Done(sync_fs(Freeing(dir_remove(sub.v, dp), clst)), "FR_OK")
UnlinkAt(p) ==
    LET e == EntryAt(p.v, p.dp)
    IN  IF p.res # "FR_OK" THEN Done(p.v, p.res)
        ELSE IF p.fn = <<>> THEN Done(p.v, "FR_INVALID_NAME")
        ELSE IF e.attr = "RDO" THEN Done(p.v, "FR_DENIED")
        ELSE Unlinked(IF e.attr = "DIR" THEN dir_read(p.v, dir_sdi(p.v, e.clst))
                      ELSE Step(p.v, p.dp, "FR_NO_FILE"), p.dp, e.clst)
f_unlink(v, path) == UnlinkAt(Locate(v, path))

(* f_mkdir: the new directory c is cleared and given its dots before the   *)
(* name is entered above it (r); if that fails its cluster is freed again. *)
Enter(r, fn, clst) ==
    IF r.res # "FR_OK" THEN Done(remove_chain(r.v, clst, 0), r.res)
    ELSE Done(sync_fs(StoreAt(r.v, r.dp, Entry(fn, "DIR", clst, 0))), "FR_OK")
Dots(clst, parent) ==
    [i \in Cells |-> CASE i = 0 -> Entry(<<".">>, "DIR", clst, 0)
                       [] i = 1 -> Entry(<<".", ".">>, "DIR", parent, 0)
                       [] OTHER -> Zero]
MkdirIn(c, sclust, fn) ==
    LET w == [dir_clear(c.v, c.val) EXCEPT !.fs.win = Dots(c.val, sclust),
                                           !.fs.wflag = TRUE]
    IN  IF c.val = 0 THEN Done(c.v, "FR_DENIED")
        ELSE Enter(dir_register(w, sclust, fn), fn, c.val)
MkdirAt(p) == IF p.res = "FR_OK" THEN Done(p.v, "FR_EXIST")
              ELSE IF p.res # "FR_NO_FILE" THEN Done(p.v, p.res)
              ELSE MkdirIn(create_chain(p.v, 0), p.dp.sclust, p.fn)
f_mkdir(v, path) == MkdirAt(Locate(v, path))

(* f_rename: the old entry e (at o) is copied to the new place (r), then   *)
(* removed; a directory that moved gets its new parent in "..".            *)
Reparent(v, e, sclust) ==
    LET w == move_window(v, clst2sect(v, e.clst))
    IN  Store(w, 1, [w.fs.win[1] EXCEPT !.clst = sclust])
Renamed(r, fn, o, e) ==
    LET w == StoreAt(r.v, r.dp, [e EXCEPT !.name = fn,
                                   !.attr = IF @ = "" THEN "ARC" ELSE @])
        x == IF e.attr = "DIR" /\ o.sclust # r.dp.sclust
             THEN Reparent(w, e, r.dp.sclust) ELSE w
    IN  IF r.res # "FR_OK" THEN Done(r.v, r.res)
        ELSE Done(sync_fs(dir_remove(x, o)), "FR_OK")
RenameTo(n, o, e) ==
    LET same == n.dp.sclust = o.sclust /\ n.dp.dptr = o.dptr
    IN  IF n.res = "FR_OK" /\ ~same THEN Done(n.v, "FR_EXIST")
        ELSE IF n.res \notin {"FR_OK", "FR_NO_FILE"} THEN Done(n.v, n.res)
        ELSE Renamed(dir_register(n.v, n.dp.sclust, n.fn), n.fn, o, e)
RenameFrom(p, path_new) ==
    IF p.res # "FR_OK" THEN Done(p.v, p.res)
    ELSE IF p.fn = <<>> THEN Done(p.v, "FR_INVALID_NAME")
    ELSE RenameTo(follow_path(p.v, path_new), p.dp, EntryAt(p.v, p.dp))
f_rename(v, path_old, path_new) == RenameFrom(Locate(v, path_old), path_new)

StatAt(p) == Done(p.v, IF p.res = "FR_OK" /\ p.fn = <<>> THEN "FR_INVALID_NAME"
                       ELSE p.res)
f_stat(v, path) == StatAt(Locate(v, path))

(* f_opendir, f_readdir until it finds no more, f_closedir: the names.     *)
RECURSIVE ReadDirLoop(_, _, _)
Further(n, names) == ReadDirLoop(n.v, n.dp, names)
ReadDirFrom(r, names) ==
    IF r.res # "FR_OK" THEN [v |-> r.v, res |-> "FR_OK", names |-> names]
    ELSE Further(dir_next(r.v, r.dp, FALSE), Append(names, EntryAt(r.v, r.dp).name))
ReadDirLoop(v, dp, names) == ReadDirFrom(dir_read(v, dp), names)
ReadDirAt(p) ==
    LET e == EntryAt(p.v, p.dp)
        Fail(res) == [v |-> p.v, res |-> res, names |-> <<>>]
    IN  IF p.res = "FR_NO_FILE" THEN Fail("FR_NO_PATH")
        ELSE IF p.res # "FR_OK" THEN Fail(p.res)
        ELSE IF p.fn = <<>> THEN ReadDirLoop(p.v, p.dp, <<>>)
        ELSE IF e.attr # "DIR" THEN Fail("FR_NO_PATH")
        ELSE ReadDirLoop(p.v, dir_sdi(p.v, e.clst), <<>>)
f_readdir(v, path) == ReadDirAt(Locate(v, path))

(* f_getfree: the free clusters, counted in the table if not known.        *)
CountCell(v, clst, n) == [v |-> v, val |-> IF v.fs.win[clst % SS] = Zero THEN n + 1
                                           ELSE n]
CountFree(x, clst) == CountCell(FatWindow(x.v, clst), clst, x.val)
Counted(r) == [v |-> [r.v EXCEPT !.fs.free_clst = r.val, !.fs.fsi_flag = Marked(@)],
               res |-> "FR_OK", nclst |-> r.val]
GetFreeOn(m) ==
    IF m.res # "FR_OK" THEN [v |-> m.v, res |-> m.res, nclst |-> 0]
    ELSE IF Known(m.v.fs)
    THEN [v |-> m.v, res |-> "FR_OK", nclst |-> m.v.fs.free_clst]
    ELSE Counted(FoldLeft(CountFree, [v |-> m.v, val |-> 0],
                          [i \in 1 .. m.v.fs.n_fatent |-> i - 1]))
f_getfree(v) == GetFreeOn(mount_volume(v))

(* f_mount: the volume is forgotten; opt = 1 mounts it at once.            *)
f_mount(vol, opt) ==
    LET v == [vol EXCEPT !.fs.fs_type = 0]
    IN  IF opt = 0 THEN Done(v, "FR_OK") ELSE mount_volume(v)

-----------------------------------------------------------------------------
(* A call that leaves the volume v and the file objects fils: it returns,  *)
(* or the power fails after the first k of its writes.  Before the first   *)
(* it fails between two calls (PowerCut).                                  *)

Returns(v, fils) ==
    /\ disk' = v.disk
    /\ fs' = v.fs
    /\ fil' = fils
    /\ UNCHANGED power

PowerFails(d) ==
    /\ power
    /\ disk' = d
    /\ fs' = NoFs
    /\ fil' = [h \in Handles |-> NoFil]
    /\ power' = FALSE

Written(log) == FoldLeft(LAMBDA d, w : [d EXCEPT ![w[1]] = w[2]], disk, log)

Call(v, fils) ==
    /\ power
    /\ \/ Returns(v, fils)
       \/ \E k \in 1 .. Len(v.log) : PowerFails(Written(SubSeq(v.log, 1, k)))

PathCall(r) == Call(r.v, fil)
FileCall(h, r) == Call(r.v, [fil EXCEPT ![h] = r.f])

(* The bound: left counts the changing calls that may still be made.       *)
Looks == UNCHANGED left
Changes == left > 0 /\ left' = left - 1

(* Where the entry of a path lies, if it has one, and whether it is open.  *)
Place(path) ==
    LET p == Locate(Volume, path)
    IN  IF p.res = "FR_OK" /\ p.fn # <<>>
        THEN <<p.dp.sect, p.dp.dptr % SS>> ELSE <<0, 0>>
InUse(path) == \E h \in Handles :
                  fil[h].open /\ Place(path) = <<fil[h].dir_sect, fil[h].dir_ptr>>

Modes == {{"FA_READ"}, {"FA_READ", "FA_WRITE", "FA_CREATE_ALWAYS"},
          {"FA_WRITE", "FA_CREATE_NEW"},
          {"FA_READ", "FA_WRITE", "FA_OPEN_ALWAYS", "FA_SEEKEND"}}

Open(h, path, mode) ==
    /\ ~fil[h].open
    /\ ~InUse(path)
    /\ IF mode \cap Creates = {} THEN Looks ELSE Changes
    /\ FileCall(h, f_open(Volume, path, mode))

Read(h, n) == Looks /\ fil[h].open /\ FileCall(h, f_read(Volume, fil[h], n))

Write(h, data) == /\ Changes
                  /\ fil[h].open
                  /\ fil[h].fptr + Len(data) <= MaxSize
                  /\ FileCall(h, f_write(Volume, fil[h], data))

Sync(h) == Looks /\ fil[h].open /\ FileCall(h, f_sync(Volume, fil[h]))
Close(h) == Looks /\ fil[h].open /\ FileCall(h, f_close(Volume, fil[h]))
Seek(h, to) ==
    /\ fil[h].open
    /\ IF to > fil[h].objsize THEN Changes ELSE Looks
    /\ FileCall(h, f_lseek(Volume, fil[h], to))
Truncate(h) == Changes /\ fil[h].open /\ FileCall(h, f_truncate(Volume, fil[h]))

Unlink(path) == Changes /\ ~InUse(path) /\ PathCall(f_unlink(Volume, path))
Mkdir(path) == Changes /\ PathCall(f_mkdir(Volume, path))
(* A directory is not moved into itself: f_rename would not notice.        *)
Names(path) == [i \in DOMAIN path |-> create_name(path[i])]
Rename(old, new) ==
    /\ Changes
    /\ ~InUse(old)
    /\ ~IsStrictPrefix(Names(old), Names(new))
    /\ PathCall(f_rename(Volume, old, new))
Stat(path) == Looks /\ PathCall(f_stat(Volume, path))
ReadDir(path) == Looks /\ PathCall(f_readdir(Volume, path))
GetFree == Looks /\ PathCall(f_getfree(Volume))

(* The volume may be mounted anew when nothing waits to be written.        *)
Mount(opt) ==
    /\ Looks
    /\ fs.id < MaxMount
    /\ ~fs.wflag
    /\ \A h \in Handles : ~fil[h].open
    /\ PathCall(f_mount(Volume, opt))

PowerCut == Looks /\ PowerFails(disk)

(* A disk found at start, or made anew (external) after a power cut.       *)
Fresh == /\ disk' \in Volumes
         /\ fs' = NoFs
         /\ fil' = [h \in Handles |-> NoFil]
         /\ power' = TRUE
         /\ left' = MaxChange

Init == /\ disk \in Volumes
        /\ fs = NoFs
        /\ fil = [h \in Handles |-> NoFil]
        /\ power = TRUE
        /\ left = MaxChange

FileNext == \E h \in Handles :
    \/ \E path \in Paths, mode \in Modes : Open(h, path, mode)
    \/ \E n \in Counts : Read(h, n)
    \/ \E n \in Counts : Write(h, [i \in 1 .. n |-> New])
    \/ \E to \in Targets : Seek(h, to)
    \/ Sync(h) \/ Close(h) \/ Truncate(h)

PathNext ==
    \/ \E path \in Paths : Unlink(path) \/ Mkdir(path) \/ Stat(path)
                           \/ ReadDir(path)
    \/ \E old, new \in Paths : Rename(old, new)
    \/ GetFree
    \/ \E opt \in 0 .. 1 : Mount(opt)

Next == FileNext \/ PathNext \/ PowerCut \/ (~power /\ Fresh)

Spec == Init /\ [][Next]_vars
=============================================================================
