------------------------------- MODULE Paths -------------------------------
(***************************************************************************)
(* Paths and the current directory: sys/mount.c, syscalls/chdir.c and      *)
(* unix/getcwd.c.  The file system spiffs is mounted at / from the start,  *)
(* and an SD card (fat) can be mounted at /sd.                             *)
(*                                                                         *)
(* A path is the sequence of its elements; those of a logical path are as  *)
(* programs write them, the first one of a physical path is the device.    *)
(* Empty elements and paths that go above the root are left out: for the   *)
(* latter mount_normalize_path reads what lies before its buffer.          *)
(***************************************************************************)
EXTENDS Integers, Sequences, SequencesExt

CONSTANTS
    Dirs,      \* physical paths of the directories that exist
    Elements,  \* what a path that a program gives is made of
    MaxPath    \* bound: elements of such a path

VARIABLES
    currdir,  \* the current directory
    card,     \* whether fat is mounted
    named,    \* the directory that the last chdir which succeeded was asked for,
              \* by the comment of mount_normalize_path
    plain     \* whether it was asked for without elements like "a."

vars == <<currdir, card, named, plain>>

Init == currdir = << >> /\ card = FALSE /\ named = << >> /\ plain = TRUE

(***************************************************************************)
(* mount.c                                                                 *)
(***************************************************************************)
\* Elements by their last characters, which is all the loop over the path
\* remembers at a '/': "a." counts as "." and "a.." as "..".
Dot == {".", "a."}
DotDot == {"..", "a.."}

\* Proper beginnings of "sd": strncmp compares as many characters as the
\* element has, and its end only when nothing follows the element.
BeginsSd == {"s"}

\* One element of the loop in mount_normalize_path, when those of here are taken
\* for the current directory and those of up for its parent.
Enter(path, element, here, up) ==
    CASE element \in up -> Front(path)
      [] element \in here -> path
      [] OTHER -> Append(path, element)

Normal(path, here, up) ==
    LET upto[k \in 0 .. Len(path)] ==
            IF k = 0 THEN << >> ELSE Enter(upto[k - 1], path[k], here, up)
    IN upto[Len(path)]

mount_normalize_path(path) == Normal(path, Dot, DotDot)

\* What the comment of mount_normalize_path says that it answers: only the
\* elements "." and ".." are special.
Documented(path) == Normal(path, {"."}, {".."})

\* A path without elements that merely end like "." or "..".
IsPlain(path) == \A k \in 1 .. Len(path) : path[k] \in Dot \cup DotDot => path[k] \in {".", ".."}

\* No beginning of the path leads above the root.
StaysInside(path) == \A k \in 1 .. Len(path) :
    Len(SelectSeq(SubSeq(path, 1, k), LAMBDA e : e \in DotDot))
        <= Len(SelectSeq(SubSeq(path, 1, k), LAMBDA e : e \notin Dot \cup DotDot))

mount_device(path) == IF path # << >> /\ path[1] = "sd" THEN "fat" ELSE "spiffs"

\* The rest of the path that mount_get_mount_from_path answers.
Unmounted(path) ==
    IF path # << >> /\ (path[1] = "sd" \/ (path[1] \in BeginsSd /\ Len(path) > 1))
    THEN Tail(path) ELSE path

mount_resolve_to_physical(path) ==
    LET npath == mount_normalize_path(path)
    IN <<mount_device(npath)>> \o Unmounted(npath)

\* For physical paths; mount_device_mount_path of spiffs is "".
mount_resolve_to_logical_Bare(path) == Tail(path)
mount_resolve_to_logical(path) ==
    IF path[1] = "fat" THEN <<"sd">> \o Tail(path) ELSE Tail(path)

(***************************************************************************)
(* chdir.c                                                                 *)
(***************************************************************************)
\* stat, through the same translation.
IsDirectory(lpath) ==
    LET ppath == mount_resolve_to_physical(lpath)
    IN ppath \in Dirs /\ (ppath[1] = "fat" => card)

\* Where chdir goes: to the two roots without looking whether they are there.
Destination(path) ==
    LET ppath == mount_resolve_to_physical(path)
    IN CASE ppath = <<"spiffs">> -> << >>
         [] ppath = <<"fat">> -> <<"sd">>
         [] OTHER -> mount_resolve_to_logical(ppath)

chdir(path) ==
    /\ StaysInside(path)
    /\ Destination(path) \in {<< >>, <<"sd">>} \/ IsDirectory(Destination(path))
    /\ currdir' = Destination(path)
    /\ named' = Documented(path)
    /\ plain' = IsPlain(path)
    /\ UNCHANGED card

\* mount_fatfs and unmount_fatfs, with mount_set_mounted.
mount_fatfs == card' = TRUE /\ UNCHANGED <<currdir, named, plain>>
unmount_fatfs == card' = FALSE /\ UNCHANGED <<currdir, named, plain>>

Paths == BoundedSeq(Elements, MaxPath)

\* An absolute path, or a relative one that the current directory precedes.
Next ==
    \/ \E path \in Paths : chdir(path) \/ chdir(currdir \o path)
    \/ mount_fatfs \/ unmount_fatfs

TypeOK ==
    /\ currdir \in Seq(Elements) /\ named \in Seq(Elements)
    /\ card \in BOOLEAN /\ plain \in BOOLEAN

\* chdir goes to the directory its argument names by the documentation, absolute
\* or relative, through both translations; and, whatever the argument, to one
\* that exists or is a root.  Two exceptions to the first: a directory whose name
\* begins the name of a mount point vanishes from the front of a path ("/s/a" is
\* taken for "/a"), and a name that ends in "." or ".." is taken for it ("/x/a.."
\* for "/").
ChdirGoesThere ==
    /\ currdir = named \/ (Len(named) > 1 /\ named[1] \in BeginsSd) \/ ~plain
    /\ mount_resolve_to_physical(currdir) \in Dirs \cup {<<"spiffs">>, <<"fat">>}
=============================================================================
