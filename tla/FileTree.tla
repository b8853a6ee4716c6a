------------------------------ MODULE FileTree ------------------------------
(***************************************************************************)
(* What ff.c promises: a tree of directories and files, and file objects   *)
(* with a position in one of them.  Every call is one step.                *)
(***************************************************************************)
EXTENDS Naturals, Sequences, SequencesExt

CONSTANTS Handles, Paths, Off, None

VARIABLES tree,    \* path -> [dir, data]; Off between power cut and restart
          files    \* Handles -> None or [path, pos]

File(data) == [dir |-> FALSE, data |-> data]
Directory == [dir |-> TRUE, data |-> <<>>]

Has(p) == tree # Off /\ p \in DOMAIN tree
IsFile(p) == Has(p) /\ ~tree[p].dir
Room(p) == /\ tree # Off /\ ~Has(p)
           /\ Len(p) > 1 => Has(Front(p)) /\ tree[Front(p)].dir
InUse(p) == \E h \in Handles : files[h] # None /\ files[h].path = p

With(p, node) == [q \in DOMAIN tree \cup {p} |-> IF q = p THEN node ELSE tree[q]]
At(h) == tree[files[h].path].data
Position(h, pos) == files' = [files EXCEPT ![h].pos = pos]

(* Opening: an existing file, emptied or not, or a new one.                *)
Open(h) ==
    /\ files[h] = None
    /\ \E p \in Paths :
          /\ ~InUse(p)
          /\ \/ IsFile(p) /\ (tree' = tree \/ tree' = With(p, File(<<>>)))
             \/ Room(p) /\ tree' = With(p, File(<<>>))
          /\ \E pos \in {0, Len(tree'[p].data)} :
                files' = [files EXCEPT ![h] = [path |-> p, pos |-> pos]]

Close(h) == /\ files[h] # None
            /\ files' = [files EXCEPT ![h] = None]
            /\ tree' = tree

(* Reading moves the position, at most to the end.                         *)
Read(h) == /\ files[h] # None
           /\ files'[h] # None /\ files'[h].path = files[h].path
           /\ files'[h].pos \in files[h].pos .. Len(At(h))
           /\ Position(h, files'[h].pos)
           /\ tree' = tree

(* Writing replaces what lies between the old position and the new, and    *)
(* nothing else.                                                           *)
Write(h) ==
    /\ files[h] # None
    /\ files'[h] # None /\ files'[h].path = files[h].path
    /\ Has(files[h].path) /\ files[h].path \in DOMAIN tree'
    /\ LET from == files[h].pos
           to == files'[h].pos
           new == tree'[files[h].path].data
       IN  /\ from < to
           /\ Len(new) = IF to > Len(At(h)) THEN to ELSE Len(At(h))
           /\ \A i \in 1 .. Len(new) : i \notin from + 1 .. to => new[i] = At(h)[i]
           /\ tree' = With(files[h].path, File(new))
           /\ Position(h, to)

(* Seeking stays inside the file or extends it with cells of any content.  *)
Seek(h) ==
    /\ files[h] # None
    /\ files'[h] # None /\ files'[h].path = files[h].path
    /\ Has(files[h].path) /\ files[h].path \in DOMAIN tree'
    /\ LET to == files'[h].pos
           new == tree'[files[h].path].data
       IN  /\ Len(new) = IF to > Len(At(h)) THEN to ELSE Len(At(h))
           /\ \A i \in 1 .. Len(At(h)) : new[i] = At(h)[i]
           /\ tree' = With(files[h].path, File(new))
           /\ Position(h, to)

Truncate(h) == /\ files[h] # None
               /\ tree' = With(files[h].path,
                               File(SubSeq(At(h), 1, files[h].pos)))
               /\ UNCHANGED files

Mkdir(p) == /\ Room(p)
            /\ tree' = With(p, Directory)
            /\ UNCHANGED files

Unlink(p) == /\ Has(p) /\ ~InUse(p)
             /\ \A q \in DOMAIN tree : IsPrefix(p, q) => q = p
             /\ tree' = [q \in DOMAIN tree \ {p} |-> tree[q]]
             /\ UNCHANGED files

(* The object and all below it move; open files below it stay open.        *)
Moved(p, old, new) == IF IsPrefix(old, p)
                      THEN new \o SubSeq(p, Len(old) + 1, Len(p)) ELSE p

Rename(old, new) ==
    /\ Has(old) /\ Room(new) /\ ~IsPrefix(old, new) /\ ~InUse(old)
    /\ LET ps == {Moved(q, old, new) : q \in DOMAIN tree}
       IN  tree' = [p \in ps |-> tree[CHOOSE q \in DOMAIN tree :
                                         Moved(q, old, new) = p]]
    /\ files' = [h \in Handles |->
                   IF files[h] = None THEN None
                   ELSE [files[h] EXCEPT !.path = Moved(@, old, new)]]

PowerCut == /\ tree' = Off
            /\ files' = [h \in Handles |-> None]

Restart == /\ tree = Off
           /\ tree' # Off
           /\ UNCHANGED files

Init == tree # Off /\ files = [h \in Handles |-> None]

Next ==
    \/ /\ tree # Off /\ tree' # Off
       /\ \/ \E h \in Handles : \/ Open(h) \/ Close(h) \/ Read(h) \/ Write(h)
                                \/ Seek(h) \/ Truncate(h)
          \/ \E p \in Paths : Mkdir(p) \/ Unlink(p)
          \/ \E old, new \in Paths : Rename(old, new)
    \/ PowerCut
    \/ Restart

Spec == Init /\ [][Next]_<<tree, files>>
=============================================================================
