---------------------------- MODULE FileStore ----------------------------
(***************************************************************************)
(* What a filesystem that is changed in memory and flushed to a disk       *)
(* promises: a list of files, each put or deleted as a whole while there   *)
(* is room; a flush that saves the list, or fails; and the list as saved   *)
(* once the changes are discarded.                                         *)
(*                                                                         *)
(* A flush that failed may have left the new list on the disk with the     *)
(* contents of the files that were changed unwritten.  The other files are *)
(* there all the same: at worst some of their sectors are lost.            *)
(***************************************************************************)
EXTENDS Integers, Sequences, SequencesExt

CONSTANTS
    Names, Contents,
    Shown,       \* the name a file is found under, or Hidden
    Hidden, Lost, Ruined,
    MaxFiles

VARIABLES
    files,       \* sequence of [name, contents], or Ruined
    free,        \* sectors
    saved,       \* [files, free] as of the last flush or discard
    attempts,    \* [files, free] of each flush that has failed since then
    touched      \* names put or deleted since then

vars == <<files, free, saved, attempts, touched>>

Entry(name, contents) == [name |-> name, contents |-> contents]
List                  == [files |-> files, free |-> free]

Init ==
    /\ files = <<>> /\ free \in Nat
    /\ saved = List /\ attempts = {} /\ touched = {}

Named(name) == {i \in DOMAIN files : files[i].name = name}

\* A file that is hidden takes up room all the same.
Put(name, contents) ==
    /\ files # Ruined
    /\ Named(name) = {}
    /\ Len(contents) <= free /\ Len(files) < MaxFiles
    /\ files' = IF Shown[name] = Hidden THEN files
                ELSE Append(files, Entry(Shown[name], contents))
    /\ free' = free - Len(contents)
    /\ touched' = touched \cup {Shown[name]}
    /\ UNCHANGED <<saved, attempts>>

\* Of files with the same name the first one goes.
Delete(name) ==
    /\ files # Ruined
    /\ \E i \in Named(name) :
           /\ \A j \in Named(name) : i <= j
           /\ files' = RemoveAt(files, i)
           /\ free' = free + Len(files[i].contents)
    /\ touched' = touched \cup {name}
    /\ UNCHANGED <<saved, attempts>>

Flush ==
    /\ saved' = List /\ attempts' = {} /\ touched' = {}
    /\ UNCHANGED <<files, free>>

FlushFails ==
    /\ attempts' = attempts \cup {List}
    /\ UNCHANGED <<files, free, saved, touched>>

\* The files of a list are found, those that were not touched with their
\* contents.
Found(found, list) ==
    /\ Len(found) = Len(list)
    /\ \A i \in DOMAIN list :
           /\ found[i].name = list[i].name
           /\ Len(found[i].contents) = Len(list[i].contents)
           /\ list[i].name \notin touched =>
                  \A k \in DOMAIN list[i].contents :
                      found[i].contents[k] \in {list[i].contents[k], Lost}

Discard ==
    /\ IF attempts = {} THEN files' = saved.files /\ free' = saved.free
       ELSE \/ files' = Ruined /\ free' = 0
            \/ \E s \in attempts \cup {saved} :
                   Found(files', s.files) /\ free' = s.free
    /\ saved' = List' /\ attempts' = {} /\ touched' = {}

Next ==
    \/ \E n \in Names, c \in Contents : Put(n, c)
    \/ \E n \in Names : Delete(n)
    \/ Flush
    \/ FlushFails
    \/ Discard

Spec == Init /\ [][Next]_vars
=============================================================================
