------------------------------ MODULE FileTree ------------------------------
(***************************************************************************)
(* The files of a torrent as a tree: the trees m::fs copies and removes    *)
(* (mlib/fs.cpp), and the rows that show the files with what is chosen for *)
(* them (src/torrent_files_view.cpp).  A path is the sequence of the names *)
(* that lead from the root to a file.                                      *)
(***************************************************************************)
EXTENDS Integers, SequencesExt

Root == <<>>

(* Path::normalize() of an absolute path. *)
normalize(names) ==
    LET Walk(path, name) ==
            CASE name \in {"", "."} -> path
              [] name = ".." /\ path = Root -> path
              [] name = ".." /\ path # Root -> Front(path)
              [] OTHER -> Append(path, name)
    IN  FoldLeft(Walk, Root, names)

(* The directories on the way to a file. *)
Ancestors(path) == {SubSeq(path, 1, n) : n \in 1 .. Len(path) - 1}

-----------------------------------------------------------------------------
(* m::fs::tree *)

NoTree == [files |-> {Root}, dirs |-> {}]

(* A path leads into no file, and to nothing that is there. *)
Insert(tree, path) ==
    IF \/ tree = NoTree \/ path = Root
       \/ path \in tree.files \cup tree.dirs
       \/ Ancestors(path) \cap tree.files # {}
    THEN NoTree
    ELSE [files |-> tree.files \cup {path}, dirs |-> tree.dirs \cup Ancestors(path)]

create(paths) == FoldLeft(Insert, [files |-> {}, dirs |-> {}], paths)

(* cp(): the files that are in the source, and in whose place, and on whose way,
   there is no file in the destination.  The others are reported. *)
Copyable(tree, source, destination) ==
    {file \in tree.files \cap source :
        /\ Ancestors(file) \cap destination = {}
        /\ \A other \in destination : file # other /\ file \notin Ancestors(other)}

(* rm(): what is not there is no error. *)
Removable(tree, there) == tree.files \cap there

-----------------------------------------------------------------------------
(* Torrent_files_view: file number i has paths[i] and settings[i]. *)

(* update_rows(): a directory shows what its children have in common. *)
Rows(paths, settings) ==
    LET tree == create(paths)
        nodes == tree.files \cup tree.dirs
        row[node \in nodes] ==
            IF node \in tree.files
            THEN LET file == settings[CHOOSE i \in DOMAIN paths : paths[i] = node]
                 IN  [download |-> file.download, partially |-> FALSE,
                      priority |-> file.priority]
            ELSE LET children == {row[child] : child \in {n \in nodes : Front(n) = node}}
                     some == CHOOSE child \in children : TRUE
                     wanted == \A child \in children : child.download
                 IN  [download |-> wanted,
                      partially |-> /\ ~wanted
                                    /\ \E child \in children :
                                          child.download \/ child.partially,
                      priority |-> IF \A child \in children :
                                         child.priority = some.priority
                                   THEN some.priority ELSE ""]
    IN  row

(* add_row_download_changes_ids() *)
DownloadChanges(paths, rows, node, download) ==
    {i \in DOMAIN paths :
        IsPrefix(node, paths[i]) /\ rows[paths[i]].download # download}

(* add_row_priorities_changes_ids(): a row that shows the priority is skipped,
   with everything below it. *)
PriorityChanges(paths, rows, node, priority) ==
    {i \in DOMAIN paths :
        /\ IsPrefix(node, paths[i])
        /\ \A n \in Ancestors(paths[i]) \cup {paths[i]} :
              IsPrefix(node, n) => rows[n].priority # priority}

(* change_row_files_paths() *)
Moved(paths, node, path) ==
    [i \in DOMAIN paths |->
        IF IsPrefix(node, paths[i])
        THEN normalize(path \o SubSeq(paths[i], Len(node) + 1, Len(paths[i])))
        ELSE paths[i]]
=============================================================================
