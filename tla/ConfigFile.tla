----------------------------- MODULE ConfigFile -----------------------------
(***************************************************************************)
(* The crash protection of configuration files (m::fs::config of           *)
(* mlib/mlib/fs.cpp) together with the callers that write through it: the  *)
(* settings of the daemon and of the client, the DHT state, the settings   *)
(* and the resume data of a torrent, the metadata of a magnet torrent.     *)
(*                                                                         *)
(* A name of the directory leads to an inode, and an inode has contents:   *)
(* the number of the version written, or Broken (partly written).  There   *)
(* is one writer at a time (the GTK lock); at any step it may be stopped   *)
(* by an exception (disk full, I/O error), by a crash of the program or by *)
(* a crash of the system, and the program goes on, or starts again, with   *)
(* the files as they were left.                                            *)
(*                                                                         *)
(* What the program sees need not be on the disk yet.  The contents of an  *)
(* inode are there once it has been flushed by sync_file().  The names are *)
(* there when the system gets to it: fsync() of a file does not write the  *)
(* directory that names it, and the directory is never flushed, so a crash *)
(* of the system may undo the creations, removals and renamings made last. *)
(* Of the file system it is assumed that they reach the disk in the order  *)
(* in which they were made, as those of a journal do.                      *)
(***************************************************************************)
EXTENDS Naturals, Sequences, Functions

CONSTANTS Absent,         \* no such file, nothing obtained
          Broken,         \* contents that are no version
          MaxVersion,     \* bound: how many writes are started
          MaxEarlier,     \* bound: changes of the directory not on the disk
          InitialFiles,   \* what an earlier run may have left as main
          Synced,         \* does the caller flush the temporary file?
          CanErase        \* is this the resume data, which is also erased?

ASSUME ConfigFileAssumption ==
    /\ Absent # Broken /\ Absent \notin Nat /\ Broken \notin Nat
    /\ MaxVersion \in Nat /\ MaxEarlier \in Nat
    /\ InitialFiles \subseteq {Absent, 0}
    /\ {Synced, CanErase} \subseteq BOOLEAN

VARIABLES main,      \* the inode that config_path names
          tmp,       \* the inode that config_path + ".new" names
          data,      \* what an inode contains
          stored,    \* what it is sure to contain on the disk
          earlier,   \* the directories that the disk may still hold, in order
          pc,        \* the step the writer is at
          version,   \* the version written last or being written
          committed, \* ghost: version of the last successful write
          recovered, \* ghost: inodes that took part in a recovery
          clean      \* ghost: no write has been cut since the last success

configVars == <<main, tmp, data, stored, earlier, pc, version, committed, recovered, clean>>

(* An inode is numbered by the write that creates it: cp() creates the one of
   main, or the caller opens a temporary file that does not exist yet. *)
Inodes == 0..MaxVersion
Contents == Nat \cup {Broken}
Steps == {"idle", "copy", "open", "write", "commit", "rename"}

(* The directory, and what had been reported as written when it was so. *)
Directory == [main |-> main, tmp |-> tmp, committed |-> committed]
Directories == [main: Inodes \cup {Absent}, tmp: Inodes \cup {Absent},
                committed: Nat \cup {Absent}]

(* What a crash of the system may leave. *)
OnDisk == Range(earlier) \cup {Directory}

ConfigTypeOK == /\ main \in Inodes \cup {Absent}
                /\ tmp \in Inodes \cup {Absent}
                /\ data \in [Inodes -> Contents]
                /\ stored \in [Inodes -> Contents]
                /\ earlier \in Seq(Directories)
                /\ pc \in Steps
                /\ version \in 0..MaxVersion
                /\ committed \in Nat \cup {Absent}
                /\ recovered \subseteq Inodes
                /\ clean \in BOOLEAN

(* A file from an earlier run (version 0) exists, or none does. *)
ConfigInit == /\ main \in InitialFiles
              /\ tmp = Absent
              /\ data = [i \in Inodes |-> IF i = 0 THEN 0 ELSE Broken]
              /\ stored = data
              /\ earlier = <<>>
              /\ pc = "idle"
              /\ version = 0
              /\ committed = main
              /\ recovered = {}
              /\ clean = TRUE

-----------------------------------------------------------------------------
(* Reading. *)

(* The name that start_reading() gives to its caller, as an inode. *)
Chosen(d) == IF d.main = Absent THEN d.tmp ELSE d.main

ReadsTmp == main = Absent /\ tmp # Absent

(* What its caller obtains from inode i: with a missing or a broken file it
   reports an error and goes on with default settings. *)
Obtained(i) == IF i = Absent \/ data[i] = Broken THEN Absent ELSE data[i]

Loaded == Obtained(Chosen(Directory))

-----------------------------------------------------------------------------
(* Writing. *)

(* The directory changes; the disk may hold it as it was for a while. *)
DirectoryChanges == /\ Len(earlier) < MaxEarlier
                    /\ earlier' = Append(earlier, Directory)

(* start_writing() finds no main file but the temporary one that an
   interrupted commit left: cp() creates main and begins to fill it. *)
StartRecovery ==
    /\ pc = "idle" /\ version < MaxVersion
    /\ ReadsTmp
    /\ version' = version + 1
    /\ main' = version'
    /\ DirectoryChanges
    /\ recovered' = recovered \cup {main', tmp}
    /\ pc' = "copy"
    /\ UNCHANGED <<tmp, data, stored, committed, clean>>

(* It is filled, and never flushed. *)
FinishRecovery ==
    /\ pc = "copy"
    /\ data' = [data EXCEPT ![main] = data[tmp]]
    /\ pc' = "open"
    /\ UNCHANGED <<main, tmp, stored, earlier, version, committed, recovered, clean>>

(* Mutant: start_writing() forgets the recovery of an interrupted commit. *)
MutStartWriting ==
    /\ pc = "idle" /\ version < MaxVersion
    /\ version' = version + 1
    /\ pc' = "open"
    /\ UNCHANGED <<main, tmp, data, stored, earlier, committed, recovered, clean>>

(* start_writing() in every other case. *)
StartWriting ==
    /\ pc = "idle" /\ version < MaxVersion
    /\ ~ReadsTmp
    /\ version' = version + 1
    /\ pc' = "open"
    /\ UNCHANGED <<main, tmp, data, stored, earlier, committed, recovered, clean>>

(* The caller opens the temporary file, which creates it, ... *)
CreateTmp ==
    /\ pc = "open" /\ tmp = Absent
    /\ tmp' = version
    /\ DirectoryChanges
    /\ pc' = "write"
    /\ UNCHANGED <<main, data, stored, version, committed, recovered, clean>>

(* ... or truncates the one that an interrupted write left, ... *)
TruncateTmp ==
    /\ pc = "open" /\ tmp # Absent
    /\ data' = [data EXCEPT ![tmp] = Broken]
    /\ pc' = "write"
    /\ UNCHANGED <<main, tmp, stored, earlier, version, committed, recovered, clean>>

(* Mutant: the flush is forgotten. *)
MutWriteTmp ==
    /\ pc = "write"
    /\ data' = [data EXCEPT ![tmp] = version]
    /\ pc' = "commit"
    /\ UNCHANGED <<main, tmp, stored, earlier, version, committed, recovered, clean>>

(* ... fills it, and flushes it with sync_file(). *)
WriteTmp ==
    /\ pc = "write"
    /\ data' = [data EXCEPT ![tmp] = version]
    /\ stored' = IF Synced THEN [stored EXCEPT ![tmp] = version] ELSE stored
    /\ pc' = "commit"
    /\ UNCHANGED <<main, tmp, earlier, version, committed, recovered, clean>>

(* end_writing(): the old file, if there is one, is removed ... *)
RemoveMain ==
    /\ pc = "commit"
    /\ main' = Absent
    /\ IF main = Absent THEN UNCHANGED earlier ELSE DirectoryChanges
    /\ pc' = "rename"
    /\ UNCHANGED <<tmp, data, stored, version, committed, recovered, clean>>

(* ... and the temporary one takes its name.  Nothing flushes either. *)
Rename ==
    /\ pc = "rename"
    /\ main' = tmp
    /\ tmp' = Absent
    /\ DirectoryChanges
    /\ pc' = "idle"
    /\ committed' = version
    /\ clean' = TRUE
    /\ UNCHANGED <<data, stored, version, recovered>>

(* write_resume_data() of an empty entry: rm_if_exists(config_path). *)
Erase ==
    /\ CanErase
    /\ pc = "idle"
    /\ main' = Absent
    /\ DirectoryChanges
    /\ committed' = Absent
    /\ clean' = TRUE
    /\ UNCHANGED <<tmp, data, stored, pc, version, recovered>>

(* An exception or a crash of the program: the files stay as they are. *)
Interrupt ==
    /\ pc # "idle"
    /\ pc' = "idle"
    /\ clean' = FALSE
    /\ UNCHANGED <<main, tmp, data, stored, earlier, version, committed, recovered>>

(* The system writes the directory, as it is or as it was, to the disk. *)
WriteBack ==
    \E n \in 1..Len(earlier) :
        /\ earlier' = SubSeq(earlier, n + 1, Len(earlier))
        /\ UNCHANGED <<main, tmp, data, stored, pc, version, committed, recovered, clean>>

(* The inodes that the disk may hold with other contents. *)
Unflushed == {i \in Inodes : data[i] # stored[i]}

(* A crash of the system.  It leaves one of the directories that the disk may
   hold, and of the inodes that have not been flushed what was there before,
   what was written since, or a part of it. *)
PowerLoss ==
    \E d \in OnDisk :
    \E old, torn \in SUBSET Unflushed :
        /\ main' = d.main /\ tmp' = d.tmp /\ committed' = d.committed
        /\ earlier' = <<>>
        /\ data' = [i \in Inodes |-> IF i \in torn THEN Broken
                                     ELSE IF i \in old THEN stored[i] ELSE data[i]]
        /\ stored' = data'
        /\ pc' = "idle"
        /\ clean' = (clean /\ pc = "idle" /\ d = Directory)
        /\ UNCHANGED <<version, recovered>>

ConfigNext == \/ StartRecovery \/ FinishRecovery \/ StartWriting
              \/ CreateTmp \/ TruncateTmp \/ WriteTmp \/ RemoveMain \/ Rename
              \/ Erase \/ Interrupt \/ WriteBack \/ PowerLoss

ConfigSpec == ConfigInit /\ [][ConfigNext]_configVars

-----------------------------------------------------------------------------
(* Properties. *)

Intact == Loaded \in Nat /\ Loaded >= committed

(* start_writing() copies ".new" over main in place and does not flush the
   copy before ".new" is written over: a crash may leave a reader with the
   copy, or with the ".new" it was made of, cut. *)
Torn == pc # "copy" /\ Chosen(Directory) \in recovered /\ Loaded = Absent

(* A version whose write was reported as successful is never lost: whenever
   the program stops, the next start loads that version or a newer one that
   was written completely.  A crash of the system may undo the last changes of
   the directory; then the next start loads at least the version that had been
   reported when the directory that was left was made.  The exception is the
   copy that repairs an interrupted commit. *)
CommittedSurvives ==
    committed # Absent /\ ~Torn /\ pc # "copy" => Intact

(* The same without the exception, as the comments of fs.hpp put it: the
   functions are there "to protect configuration files from damage when the
   program or the system crashes while they are being written". *)
ProtectedFromCrashes ==
    committed # Absent /\ pc # "copy" => Intact

(* A version that has been reported as written is not replaced by an older
   one: a crash of the system may do that, as it may undo the renaming. *)
NeverStepsBack ==
    [][{committed, committed'} \subseteq Nat => committed' >= committed]_configVars

(* start_reading() is documented to return the temporary file only when the
   program was interrupted while the file was being written the last time. *)
TmpReadOnlyAfterInterruption ==
    ReadsTmp /\ pc = "idle" => ~clean

-----------------------------------------------------------------------------
(* The implementation of an atomically replaced file behind a cache that is
   written back in order.  While cp() repairs main nobody reads, so the value
   of the file is still the one in ".new". *)
Value == IF pc = "copy" /\ data[tmp] # Broken THEN data[tmp] ELSE Loaded

Lasting == {d.committed : d \in OnDisk}

File == INSTANCE AtomicFile WITH value <- Value, acked <- committed,
                                 newest <- version, lasting <- Lasting

(* Through any sequence of writes, erasures, errors and crashes a reader finds
   the old version or the new one, and goes back to an older one only together
   with the directory, in a crash of the system: every step is a step of the
   abstract file, as long as no recovery copy has been cut. *)
ImplementsAtomicFile ==
    File!Init /\ [][File!Next \/ Torn \/ Torn']_File!vars
=============================================================================
