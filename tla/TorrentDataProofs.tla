-------------------------- MODULE TorrentDataProofs --------------------------
(***************************************************************************)
(* For any torrents, files, and settings, of whichever version.            *)
(*                                                                         *)
(* The store: what it promises of the disk holds with and without the      *)
(* data.  The strengthening says of each step of a job what it has done    *)
(* already: a torrent being added or removed is promised to nobody and its *)
(* *.torrent files are still there, nothing is loaded from the file alone  *)
(* that is not on the disk, and automatic loading will delete the file of  *)
(* no torrent but the one it adds, or one that is stored.                  *)
(*                                                                         *)
(* The data: the files of a finished torrent are there until they have     *)
(* been copied.  The thread for files works in the order asked for, a      *)
(* removal is asked for when its torrent has gone, and while that is gone  *)
(* nothing of it can be finished.                                          *)
(*                                                                         *)
(* The choices: torrent.conf means what was chosen and saved, through the  *)
(* options it leaves out and whatever older versions have left, and the    *)
(* session knows the end of the download that was saved.                   *)
(*                                                                         *)
(* The dialog: its files make a tree, and its rows say what is chosen for  *)
(* all files below them.                                                   *)
(***************************************************************************)
EXTENDS TorrentData, FiniteSetTheorems, SequenceTheorems, WellFoundedInduction, TLAPS

-----------------------------------------------------------------------------
(* The store. *)

LoadedSet == {t \in Torrents : Loaded(t)}

Creating == job \in {"copy", "fill", "settings"}
Erasing  == job \in {"remove", "rmdir"}

(* The torrent that a job creates or erases can be lost. *)
Expendable ==
    Creating \/ Erasing =>
        /\ torrent \in Torrents /\ torrent \notin promised
        /\ ~Loaded(torrent)
        /\ \A n \in Names : <<n, torrent>> \in dropped => file[n] = torrent

(* What the steps of adding have achieved. *)
Progress ==
    /\ Creating => torrent \in dirs
    /\ job = "settings" /\ how # "link" => copy[torrent] = "good"
    /\ job = "look" => torrent = NoTorrent
    /\ job = "load" => torrent \in Torrents /\ Loadable(torrent)
    /\ job = "delete" /\ torrent # NoTorrent => Loadable(torrent)
    /\ job = "start" => todo \subseteq dirs

(* The files that automatic loading will delete. *)
Doomed ==
    \A n \in Names, t \in Torrents :
        TooLate(n) /\ <<n, t>> \in dropped /\ file[n] = t => t = torrent \/ Loadable(t)

PlainHasCopy == \A t \in Torrents : session[t] = "plain" => copy[t] = "good"

(* The directories that a job in progress accounts for. *)
Accounted ==
    /\ job = "off" => LoadedSet = {}
    /\ ~spoilt =>
         /\ job \in {"idle", "look", "delete"} => dirs = LoadedSet
         /\ Creating \/ Erasing \/ job = "load" => dirs = LoadedSet \cup {torrent}
         /\ job = "start" => dirs \ todo = LoadedSet

Promises == SessionIsStored /\ AddedSurvives /\ NothingLost

StoreInv ==
    TypeOK /\ Promises /\ Expendable /\ Progress /\ Doomed /\ PlainHasCopy /\ Accounted

-----------------------------------------------------------------------------
LEMMA InitStore == Init => StoreInv
<1> SUFFICES ASSUME Init PROVE StoreInv
  OBVIOUS
<1>1. TypeOK
  BY DEF Init, TypeOK, Steps, Sources
<1>2. \A t \in Torrents : ~Loaded(t)
  BY DEF Init, Loaded
<1>3. Promises
  BY <1>2 DEF Init, Promises, SessionIsStored, AddedSurvives, NothingLost
<1>4. Expendable /\ Progress /\ Doomed /\ PlainHasCopy
  BY DEF Init, Expendable, Progress, Doomed, TooLate, PlainHasCopy, Creating, Erasing
<1>5. Accounted
  BY <1>2 DEF Init, Accounted, LoadedSet, Creating, Erasing
<1> QED
  BY <1>1, <1>3, <1>4, <1>5 DEF StoreInv

-----------------------------------------------------------------------------
(* The types. *)
LEMMA StepTypeOK == TypeOK /\ Progress /\ [Next]_vars => TypeOK'
<1> SUFFICES ASSUME TypeOK, Progress, [Next]_vars PROVE TypeOK'
  OBVIOUS
<1> USE StoreAssumption DEF StoreAssumption, TypeOK, Steps, Parts
<1>1. ASSUME NEW t \in Torrents, NEW from \in Sources, Add(t, from) PROVE TypeOK'
  BY <1>1 DEF Add, HasRead, task, disk
<1>2. ASSUME NEW t \in Torrents, AddDuplicate(t) PROVE TypeOK'
  BY <1>2 DEF AddDuplicate, task, disk
<1>3. ASSUME OpenCopy PROVE TypeOK'
  BY <1>3 DEF OpenCopy, task, disk, Goto, Rollback
<1>4. ASSUME FillCopy PROVE TypeOK'
  BY <1>4 DEF FillCopy, task, disk, Goto, Rollback
<1>5. ASSUME WriteSettings PROVE TypeOK'
  BY <1>5 DEF WriteSettings, task, disk, Goto, Rollback
<1>6. ASSUME LoadAdded PROVE TypeOK'
  BY <1>6 DEF LoadAdded, task, disk, LoadTorrent, Goto, Done, Progress
<1>7. ASSUME DeleteLoadedFile PROVE TypeOK'
  BY <1>7 DEF DeleteLoadedFile, task, disk, Goto, Done
<1>8. ASSUME Start PROVE TypeOK'
  BY <1>8 DEF Start, task, disk
<1>9. ASSUME NEW t \in Torrents, LoadStored(t) PROVE TypeOK'
  BY <1>9 DEF LoadStored, task, disk, LoadTorrent
<1>10. ASSUME Started PROVE TypeOK'
  BY <1>10 DEF Started, task, disk
<1>11. ASSUME NEW t \in Torrents, SaveMetadata(t) PROVE TypeOK'
  BY <1>11 DEF SaveMetadata, task, disk
<1>12. ASSUME NEW t \in Torrents, SaveSettings(t) PROVE TypeOK'
  BY <1>12 DEF SaveSettings, task, disk, Loaded
<1>13. ASSUME NEW t \in Torrents, StartRemoval(t) PROVE TypeOK'
  BY <1>13 DEF StartRemoval, task, disk
<1>14. ASSUME NEW part \in Parts, RemovePart(part) PROVE TypeOK'
  BY <1>14 DEF RemovePart, task, disk
<1>15. ASSUME RemoveDirectory PROVE TypeOK'
  BY <1>15 DEF RemoveDirectory, task, disk, Goto, Done
<1>16. ASSUME Exit PROVE TypeOK'
  BY <1>16 DEF Exit, task, disk
<1>17. ASSUME NEW t \in Torrents, NEW n \in Names, Drop(t, n) PROVE TypeOK'
  BY <1>17, StoreAssumption DEF Drop, TooLate, StoreAssumption, task, disk
<1>18. ASSUME NEW n \in Names, TakeAway(n) PROVE TypeOK'
  BY <1>18 DEF TakeAway, task, disk
<1>19. ASSUME NEW n \in Names, Stat(n) PROVE TypeOK'
  BY <1>19 DEF Stat, Sources, task, disk
<1>20. ASSUME GiveUp PROVE TypeOK'
  BY <1>20 DEF GiveUp, task, disk, Goto, Done
<1>21. ASSUME AddGone PROVE TypeOK'
  BY <1>21 DEF AddGone, task, disk, Goto
<1>22. CASE UNCHANGED vars
  BY <1>22 DEF vars, task, disk
<1> QED
  BY <1>1, <1>2, <1>3, <1>4, <1>5, <1>6, <1>7, <1>8, <1>9, <1>10, <1>11, <1>12, <1>13, <1>14, <1>15, <1>16,
     <1>17, <1>18, <1>19, <1>20, <1>21, <1>22 DEF Next, Adding, Removing
-----------------------------------------------------------------------------
(* A torrent being created or erased stays one that can be lost. *)
LEMMA StepExpendable == StoreInv /\ [Next]_vars => Expendable'
<1> SUFFICES ASSUME StoreInv, [Next]_vars PROVE Expendable'
  OBVIOUS
<1> USE DEF StoreInv, Promises, TypeOK, SessionIsStored, AddedSurvives, NothingLost,
            Loadable, Loaded, Expendable, Progress, Creating, Erasing
<1>1. ASSUME NEW t \in Torrents, NEW from \in Sources, Add(t, from) PROVE Expendable'
  BY <1>1 DEF Add, HasRead, task, disk
<1>2. ASSUME NEW t \in Torrents, AddDuplicate(t) PROVE Expendable'
  BY <1>2 DEF AddDuplicate, task, disk
<1>3. ASSUME OpenCopy PROVE Expendable'
  BY <1>3 DEF OpenCopy, task, disk, Goto, Rollback
<1>4. ASSUME FillCopy PROVE Expendable'
  BY <1>4 DEF FillCopy, task, disk, Goto, Rollback
<1>5. ASSUME WriteSettings PROVE Expendable'
  BY <1>5 DEF WriteSettings, task, disk, Goto, Rollback
<1>6. ASSUME LoadAdded PROVE Expendable'
  BY <1>6 DEF LoadAdded, task, disk, LoadTorrent, Goto, Done
<1>7. ASSUME DeleteLoadedFile PROVE Expendable'
  BY <1>7 DEF DeleteLoadedFile, task, disk, Goto, Done
<1>8. ASSUME Start PROVE Expendable'
  BY <1>8 DEF Start, task, disk
<1>9. ASSUME NEW t \in Torrents, LoadStored(t) PROVE Expendable'
  BY <1>9 DEF LoadStored, task, disk, LoadTorrent
<1>10. ASSUME Started PROVE Expendable'
  BY <1>10 DEF Started, task, disk
<1>11. ASSUME NEW t \in Torrents, SaveMetadata(t) PROVE Expendable'
  BY <1>11 DEF SaveMetadata, task, disk
<1>12. ASSUME NEW t \in Torrents, SaveSettings(t) PROVE Expendable'
  BY <1>12 DEF SaveSettings, task, disk
<1>13. ASSUME NEW t \in Torrents, StartRemoval(t) PROVE Expendable'
  BY <1>13 DEF StartRemoval, task, disk, Parts
<1>14. ASSUME NEW part \in Parts, RemovePart(part) PROVE Expendable'
  BY <1>14 DEF RemovePart, task, disk, Parts
<1>15. ASSUME RemoveDirectory PROVE Expendable'
  BY <1>15 DEF RemoveDirectory, task, disk, Goto, Done
<1>16. ASSUME Exit PROVE Expendable'
  BY <1>16 DEF Exit, task, disk
<1>17. ASSUME NEW t \in Torrents, NEW n \in Names, Drop(t, n) PROVE Expendable'
  BY <1>17, StoreAssumption DEF Drop, TooLate, StoreAssumption, task, disk
<1>18. ASSUME NEW n \in Names, TakeAway(n) PROVE Expendable'
  BY <1>18 DEF TakeAway, task, disk
<1>19. ASSUME NEW n \in Names, Stat(n) PROVE Expendable'
  BY <1>19 DEF Stat, task, disk
<1>20. ASSUME GiveUp PROVE Expendable'
  BY <1>20 DEF GiveUp, task, disk, Goto, Done
<1>21. ASSUME AddGone PROVE Expendable'
  BY <1>21 DEF AddGone, task, disk, Goto
<1>22. CASE UNCHANGED vars
  BY <1>22 DEF vars, task, disk
<1> HIDE DEF StoreInv, Promises, TypeOK, SessionIsStored, AddedSurvives, NothingLost,
            Loadable, Loaded, Expendable, Progress, Creating, Erasing
<1> QED
  BY <1>1, <1>2, <1>3, <1>4, <1>5, <1>6, <1>7, <1>8, <1>9, <1>10, <1>11, <1>12, <1>13, <1>14, <1>15, <1>16,
     <1>17, <1>18, <1>19, <1>20, <1>21, <1>22 DEF Next, Adding, Removing
-----------------------------------------------------------------------------
(* The steps of adding follow one another. *)
LEMMA StepProgress == StoreInv /\ [Next]_vars => Progress'
<1> SUFFICES ASSUME StoreInv, [Next]_vars PROVE Progress'
  OBVIOUS
<1> USE DEF StoreInv, Promises, TypeOK, SessionIsStored, AddedSurvives, NothingLost,
            Loadable, Loaded, Expendable, Progress, Creating, Erasing
<1>1. ASSUME NEW t \in Torrents, NEW from \in Sources, Add(t, from) PROVE Progress'
  BY <1>1 DEF Add, HasRead, task, disk
<1>2. ASSUME NEW t \in Torrents, AddDuplicate(t) PROVE Progress'
  BY <1>2 DEF AddDuplicate, task, disk
<1>3. ASSUME OpenCopy PROVE Progress'
  BY <1>3 DEF OpenCopy, task, disk, Goto, Rollback
<1>4. ASSUME FillCopy PROVE Progress'
  BY <1>4 DEF FillCopy, task, disk, Goto, Rollback
<1>5. ASSUME WriteSettings PROVE Progress'
  BY <1>5 DEF WriteSettings, task, disk, Goto, Rollback
<1>6. ASSUME LoadAdded PROVE Progress'
  BY <1>6 DEF LoadAdded, task, disk, LoadTorrent, Goto, Done
<1>7. ASSUME DeleteLoadedFile PROVE Progress'
  BY <1>7 DEF DeleteLoadedFile, task, disk, Goto, Done
<1>8. ASSUME Start PROVE Progress'
  BY <1>8 DEF Start, task, disk
<1>9. ASSUME NEW t \in Torrents, LoadStored(t) PROVE Progress'
  BY <1>9 DEF LoadStored, task, disk, LoadTorrent
<1>10. ASSUME Started PROVE Progress'
  BY <1>10 DEF Started, task, disk
<1>11. ASSUME NEW t \in Torrents, SaveMetadata(t) PROVE Progress'
  BY <1>11 DEF SaveMetadata, task, disk
<1>12. ASSUME NEW t \in Torrents, SaveSettings(t) PROVE Progress'
  BY <1>12 DEF SaveSettings, task, disk
<1>13. ASSUME NEW t \in Torrents, StartRemoval(t) PROVE Progress'
  BY <1>13 DEF StartRemoval, task, disk, Parts
<1>14. ASSUME NEW part \in Parts, RemovePart(part) PROVE Progress'
  BY <1>14 DEF RemovePart, task, disk, Parts
<1>15. ASSUME RemoveDirectory PROVE Progress'
  BY <1>15 DEF RemoveDirectory, task, disk, Goto, Done
<1>16. ASSUME Exit PROVE Progress'
  BY <1>16 DEF Exit, task, disk
<1>17. ASSUME NEW t \in Torrents, NEW n \in Names, Drop(t, n) PROVE Progress'
  BY <1>17, StoreAssumption DEF Drop, TooLate, StoreAssumption, task, disk
<1>18. ASSUME NEW n \in Names, TakeAway(n) PROVE Progress'
  BY <1>18 DEF TakeAway, task, disk
<1>19. ASSUME NEW n \in Names, Stat(n) PROVE Progress'
  BY <1>19 DEF Stat, task, disk
<1>20. ASSUME GiveUp PROVE Progress'
  BY <1>20 DEF GiveUp, task, disk, Goto, Done
<1>21. ASSUME AddGone PROVE Progress'
  BY <1>21 DEF AddGone, task, disk, Goto
<1>22. CASE UNCHANGED vars
  BY <1>22 DEF vars, task, disk
<1> HIDE DEF StoreInv, Promises, TypeOK, SessionIsStored, AddedSurvives, NothingLost,
            Loadable, Loaded, Expendable, Progress, Creating, Erasing
<1> QED
  BY <1>1, <1>2, <1>3, <1>4, <1>5, <1>6, <1>7, <1>8, <1>9, <1>10, <1>11, <1>12, <1>13, <1>14, <1>15, <1>16,
     <1>17, <1>18, <1>19, <1>20, <1>21, <1>22 DEF Next, Adding, Removing
-----------------------------------------------------------------------------
(* What is put under a name that will be deleted is not added to the doomed. *)
LEMMA StepDoomed == StoreInv /\ [Next]_vars => Doomed'
<1> SUFFICES ASSUME StoreInv, [Next]_vars PROVE Doomed'
  OBVIOUS
<1> USE DEF StoreInv, Promises, TypeOK, SessionIsStored, AddedSurvives, NothingLost,
            Loadable, Loaded, Expendable, Progress, Doomed, TooLate,
            Creating, Erasing
<1>1. ASSUME NEW t \in Torrents, NEW from \in Sources, Add(t, from) PROVE Doomed'
  BY <1>1 DEF Add, HasRead, task, disk
<1>2. ASSUME NEW t \in Torrents, AddDuplicate(t) PROVE Doomed'
  BY <1>2 DEF AddDuplicate, task, disk
<1>3. ASSUME OpenCopy PROVE Doomed'
  BY <1>3 DEF OpenCopy, task, disk, Goto, Rollback
<1>4. ASSUME FillCopy PROVE Doomed'
  BY <1>4 DEF FillCopy, task, disk, Goto, Rollback
<1>5. ASSUME WriteSettings PROVE Doomed'
  BY <1>5 DEF WriteSettings, task, disk, Goto, Rollback
<1>6. ASSUME LoadAdded PROVE Doomed'
  BY <1>6 DEF LoadAdded, task, disk, LoadTorrent, Goto, Done
<1>7. ASSUME DeleteLoadedFile PROVE Doomed'
  BY <1>7 DEF DeleteLoadedFile, task, disk, Goto, Done
<1>8. ASSUME Start PROVE Doomed'
  BY <1>8 DEF Start, task, disk
<1>9. ASSUME NEW t \in Torrents, LoadStored(t) PROVE Doomed'
  BY <1>9 DEF LoadStored, task, disk, LoadTorrent
<1>10. ASSUME Started PROVE Doomed'
  BY <1>10 DEF Started, task, disk
<1>11. ASSUME NEW t \in Torrents, SaveMetadata(t) PROVE Doomed'
  BY <1>11 DEF SaveMetadata, task, disk
<1>12. ASSUME NEW t \in Torrents, SaveSettings(t) PROVE Doomed'
  BY <1>12 DEF SaveSettings, task, disk
<1>13. ASSUME NEW t \in Torrents, StartRemoval(t) PROVE Doomed'
  BY <1>13 DEF StartRemoval, task, disk, Parts
<1>14. ASSUME NEW part \in Parts, RemovePart(part) PROVE Doomed'
  BY <1>14 DEF RemovePart, task, disk, Parts
<1>15. ASSUME RemoveDirectory PROVE Doomed'
  BY <1>15 DEF RemoveDirectory, task, disk, Goto, Done
<1>16. ASSUME Exit PROVE Doomed'
  BY <1>16 DEF Exit, task, disk
<1>17. ASSUME NEW t \in Torrents, NEW n \in Names, Drop(t, n) PROVE Doomed'
  BY <1>17, StoreAssumption DEF Drop, TooLate, StoreAssumption, task, disk
<1>18. ASSUME NEW n \in Names, TakeAway(n) PROVE Doomed'
  BY <1>18 DEF TakeAway, task, disk
<1>19. ASSUME NEW n \in Names, Stat(n) PROVE Doomed'
  BY <1>19 DEF Stat, task, disk
<1>20. ASSUME GiveUp PROVE Doomed'
  BY <1>20 DEF GiveUp, task, disk, Goto, Done
<1>21. ASSUME AddGone PROVE Doomed'
  BY <1>21, StoreAssumption DEF AddGone, StoreAssumption, task, disk, Goto
<1>22. CASE UNCHANGED vars
  BY <1>22 DEF vars, task, disk
<1> HIDE DEF StoreInv, Promises, TypeOK, SessionIsStored, AddedSurvives, NothingLost,
            Loadable, Loaded, Expendable, Progress, Doomed, TooLate,
            Creating, Erasing
<1> QED
  BY <1>1, <1>2, <1>3, <1>4, <1>5, <1>6, <1>7, <1>8, <1>9, <1>10, <1>11, <1>12, <1>13, <1>14, <1>15, <1>16,
     <1>17, <1>18, <1>19, <1>20, <1>21, <1>22 DEF Next, Adding, Removing
-----------------------------------------------------------------------------
(* What is promised stays on the disk. *)
LEMMA StepSafe == StoreInv /\ [Next]_vars => Promises' /\ PlainHasCopy'
<1> SUFFICES ASSUME StoreInv, [Next]_vars PROVE Promises' /\ PlainHasCopy'
  OBVIOUS
<1> USE DEF StoreInv, Promises, TypeOK, SessionIsStored, AddedSurvives, NothingLost,
            Loadable, Loaded, Expendable, Progress, Doomed, TooLate,
            PlainHasCopy, Creating, Erasing
<1>1. ASSUME NEW t \in Torrents, NEW from \in Sources, Add(t, from) PROVE Promises' /\ PlainHasCopy'
  BY <1>1 DEF Add, HasRead, task, disk
<1>2. ASSUME NEW t \in Torrents, AddDuplicate(t) PROVE Promises' /\ PlainHasCopy'
  BY <1>2 DEF AddDuplicate, task, disk
<1>3. ASSUME OpenCopy PROVE Promises' /\ PlainHasCopy'
  BY <1>3 DEF OpenCopy, task, disk, Goto, Rollback
<1>4. ASSUME FillCopy PROVE Promises' /\ PlainHasCopy'
  BY <1>4 DEF FillCopy, task, disk, Goto, Rollback
<1>5. ASSUME WriteSettings PROVE Promises' /\ PlainHasCopy'
  BY <1>5 DEF WriteSettings, task, disk, Goto, Rollback
<1>6. ASSUME LoadAdded PROVE Promises' /\ PlainHasCopy'
  BY <1>6 DEF LoadAdded, task, disk, LoadTorrent, Goto, Done
<1>7. ASSUME DeleteLoadedFile PROVE Promises' /\ PlainHasCopy'
  BY <1>7 DEF DeleteLoadedFile, task, disk, Goto, Done
<1>8. ASSUME Start PROVE Promises' /\ PlainHasCopy'
  BY <1>8 DEF Start, task, disk
<1>9. ASSUME NEW t \in Torrents, LoadStored(t) PROVE Promises' /\ PlainHasCopy'
  BY <1>9 DEF LoadStored, task, disk, LoadTorrent
<1>10. ASSUME Started PROVE Promises' /\ PlainHasCopy'
  BY <1>10 DEF Started, task, disk
<1>11. ASSUME NEW t \in Torrents, SaveMetadata(t) PROVE Promises' /\ PlainHasCopy'
  BY <1>11 DEF SaveMetadata, task, disk
<1>12. ASSUME NEW t \in Torrents, SaveSettings(t) PROVE Promises' /\ PlainHasCopy'
  BY <1>12 DEF SaveSettings, task, disk
<1>13. ASSUME NEW t \in Torrents, StartRemoval(t) PROVE Promises' /\ PlainHasCopy'
  BY <1>13 DEF StartRemoval, task, disk, Parts
<1>14. ASSUME NEW part \in Parts, RemovePart(part) PROVE Promises' /\ PlainHasCopy'
  BY <1>14 DEF RemovePart, task, disk, Parts
<1>15. ASSUME RemoveDirectory PROVE Promises' /\ PlainHasCopy'
  BY <1>15 DEF RemoveDirectory, task, disk, Goto, Done
<1>16. ASSUME Exit PROVE Promises' /\ PlainHasCopy'
  BY <1>16 DEF Exit, task, disk
<1>17. ASSUME NEW t \in Torrents, NEW n \in Names, Drop(t, n) PROVE Promises' /\ PlainHasCopy'
  BY <1>17, StoreAssumption DEF Drop, TooLate, StoreAssumption, task, disk
<1>18. ASSUME NEW n \in Names, TakeAway(n) PROVE Promises' /\ PlainHasCopy'
  BY <1>18 DEF TakeAway, task, disk
<1>19. ASSUME NEW n \in Names, Stat(n) PROVE Promises' /\ PlainHasCopy'
  BY <1>19 DEF Stat, task, disk
<1>20. ASSUME GiveUp PROVE Promises' /\ PlainHasCopy'
  BY <1>20 DEF GiveUp, task, disk, Goto, Done
<1>21. ASSUME AddGone PROVE Promises' /\ PlainHasCopy'
  BY <1>21 DEF AddGone, task, disk, Goto
<1>22. CASE UNCHANGED vars
  BY <1>22 DEF vars, task, disk
<1> HIDE DEF StoreInv, Promises, TypeOK, SessionIsStored, AddedSurvives, NothingLost,
            Loadable, Loaded, Expendable, Progress, Doomed, TooLate,
            PlainHasCopy, Creating, Erasing
<1> QED
  BY <1>1, <1>2, <1>3, <1>4, <1>5, <1>6, <1>7, <1>8, <1>9, <1>10, <1>11, <1>12, <1>13, <1>14, <1>15, <1>16,
     <1>17, <1>18, <1>19, <1>20, <1>21, <1>22 DEF Next, Adding, Removing
-----------------------------------------------------------------------------
(* No directory is left over. *)
LEMMA StepAccounted == StoreInv /\ [Next]_vars => Accounted'
<1> SUFFICES ASSUME StoreInv, [Next]_vars PROVE Accounted'
  OBVIOUS
<1> USE DEF StoreInv, Promises, TypeOK, SessionIsStored, AddedSurvives, NothingLost,
            Loadable, Loaded, Expendable, Progress, Accounted, LoadedSet, Creating,
            Erasing
<1>1. ASSUME NEW t \in Torrents, NEW from \in Sources, Add(t, from) PROVE Accounted'
  BY <1>1 DEF Add, HasRead, task, disk
<1>2. ASSUME NEW t \in Torrents, AddDuplicate(t) PROVE Accounted'
  BY <1>2 DEF AddDuplicate, task, disk
<1>3. ASSUME OpenCopy PROVE Accounted'
  BY <1>3 DEF OpenCopy, task, disk, Goto, Rollback
<1>4. ASSUME FillCopy PROVE Accounted'
  BY <1>4 DEF FillCopy, task, disk, Goto, Rollback
<1>5. ASSUME WriteSettings PROVE Accounted'
  BY <1>5 DEF WriteSettings, task, disk, Goto, Rollback
<1>6. ASSUME LoadAdded PROVE Accounted'
  BY <1>6 DEF LoadAdded, task, disk, LoadTorrent, Goto, Done
<1>7. ASSUME DeleteLoadedFile PROVE Accounted'
  BY <1>7 DEF DeleteLoadedFile, task, disk, Goto, Done
<1>8. ASSUME Start PROVE Accounted'
  BY <1>8 DEF Start, task, disk
<1>9. ASSUME NEW t \in Torrents, LoadStored(t) PROVE Accounted'
  BY <1>9 DEF LoadStored, task, disk, LoadTorrent
<1>10. ASSUME Started PROVE Accounted'
  BY <1>10 DEF Started, task, disk
<1>11. ASSUME NEW t \in Torrents, SaveMetadata(t) PROVE Accounted'
  BY <1>11 DEF SaveMetadata, task, disk
<1>12. ASSUME NEW t \in Torrents, SaveSettings(t) PROVE Accounted'
  BY <1>12 DEF SaveSettings, task, disk
<1>13. ASSUME NEW t \in Torrents, StartRemoval(t) PROVE Accounted'
  BY <1>13 DEF StartRemoval, task, disk, Parts
<1>14. ASSUME NEW part \in Parts, RemovePart(part) PROVE Accounted'
  BY <1>14 DEF RemovePart, task, disk, Parts
<1>15. ASSUME RemoveDirectory PROVE Accounted'
  BY <1>15 DEF RemoveDirectory, task, disk, Goto, Done
<1>16. ASSUME Exit PROVE Accounted'
  BY <1>16 DEF Exit, task, disk
<1>17. ASSUME NEW t \in Torrents, NEW n \in Names, Drop(t, n) PROVE Accounted'
  BY <1>17, StoreAssumption DEF Drop, TooLate, StoreAssumption, task, disk
<1>18. ASSUME NEW n \in Names, TakeAway(n) PROVE Accounted'
  BY <1>18 DEF TakeAway, task, disk
<1>19. ASSUME NEW n \in Names, Stat(n) PROVE Accounted'
  BY <1>19 DEF Stat, task, disk
<1>20. ASSUME GiveUp PROVE Accounted'
  BY <1>20 DEF GiveUp, task, disk, Goto, Done
<1>21. ASSUME AddGone PROVE Accounted'
  BY <1>21 DEF AddGone, task, disk, Goto
<1>22. CASE UNCHANGED vars
  BY <1>22 DEF vars, task, disk
<1> HIDE DEF StoreInv, Promises, TypeOK, SessionIsStored, AddedSurvives, NothingLost,
            Loadable, Loaded, Expendable, Progress, Accounted, LoadedSet, Creating,
            Erasing
<1> QED
  BY <1>1, <1>2, <1>3, <1>4, <1>5, <1>6, <1>7, <1>8, <1>9, <1>10, <1>11, <1>12, <1>13, <1>14, <1>15, <1>16,
     <1>17, <1>18, <1>19, <1>20, <1>21, <1>22 DEF Next, Adding, Removing
-----------------------------------------------------------------------------
(* The theorems. *)

LEMMA StepStore == StoreInv /\ [Next]_vars => StoreInv'
  BY StepTypeOK, StepExpendable, StepProgress, StepDoomed, StepSafe, StepAccounted
  DEF StoreInv

LEMMA StoreInvariance == Spec => []StoreInv
  BY InitStore, StepStore, PTL DEF Spec

(* The variables keep their types. *)
THEOREM TypeCorrect == Spec => []TypeOK
<1>1. StoreInv => TypeOK
  BY DEF StoreInv
<1> QED
  BY StoreInvariance, <1>1, PTL

(* Whenever the program dies, every torrent of the session has on the disk
   what the next start needs to load it (load_torrent()). *)
THEOREM SessionStored == Spec => []SessionIsStored
<1>1. StoreInv => SessionIsStored
  BY DEF StoreInv, Promises
<1> QED
  BY StoreInvariance, <1>1, PTL

(* Failures, crashes and repeated adding never destroy what add_torrent() has
   stored with success. *)
THEOREM AddedTorrentsSurvive == Spec => []AddedSurvives
<1>1. StoreInv => AddedSurvives
  BY DEF StoreInv, Promises
<1> QED
  BY StoreInvariance, <1>1, PTL

(* auto_load_if_torrent() deletes no *.torrent file whose torrent could not be
   loaded without it. *)
THEOREM DroppedTorrentsAreKept == Spec => []NothingLost
<1>1. StoreInv => NothingLost
  BY DEF StoreInv, Promises
<1> QED
  BY StoreInvariance, <1>1, PTL

(* Without a job cut short or a file that cannot be read or removed, there is
   a directory for each torrent of the session and no other. *)
THEOREM NothingLeftOver == Spec => []NoLeftovers
<1>1. StoreInv => NoLeftovers
  BY DEF StoreInv, Accounted, NoLeftovers, LoadedSet
<1> QED
  BY StoreInvariance, <1>1, PTL

-----------------------------------------------------------------------------
(* The store with the data of its torrents. *)

(* Every step of the data is one of the store or leaves it alone. *)
LEMMA DataSteps == [DataNext]_<<vars, dataVars>> => [Next]_vars
<1> SUFFICES ASSUME [DataNext]_<<vars, dataVars>> PROVE [Next]_vars
  OBVIOUS
<1> USE DEF Next, Adding, Removing
<1>1. CASE \E t \in Torrents, from \in Sources : AddAsked(t, from)
  BY <1>1 DEF AddAsked
<1>2. CASE CopyFile \/ WriteNewSettings \/ LoadNew \/ EndRemoval \/ StoreStep
  BY <1>2 DEF CopyFile, WriteNewSettings, LoadNew, EndRemoval, StoreStep
<1>3. CASE StartAll \/ ExitAll \/ RunTask \/ UserDialog
           \/ \E part \in Parts : RemoveFile(part)
  BY <1>3 DEF StartAll, ExitAll, RunTask, UserDialog, RemoveFile
<1>4. ASSUME NEW t \in Torrents,
             \/ LoadOld(t) \/ SaveData(t) \/ GetMetadata(t)
             \/ \E with_data \in BOOLEAN : RemoveTorrent(t, with_data)
      PROVE  [Next]_vars
  BY <1>4 DEF LoadOld, SaveData, GetMetadata, RemoveTorrent
<1>5. ASSUME NEW t \in Torrents,
             \/ \E i \in DOMAIN TorrentFiles : Download(t, i)
             \/ Complete(t) \/ finish_torrent(t) \/ Reject(t)
             \/ ChangeFiles(t) \/ ChangeOptions(t)
      PROVE  UNCHANGED vars
  BY <1>5 DEF Download, Complete, finish_torrent, Reject, ChangeFiles, ChangeOptions, Idle
<1>6. CASE UNCHANGED <<vars, dataVars>>
  BY <1>6
<1> QED
  BY <1>1, <1>2, <1>3, <1>4, <1>5, <1>6 DEF DataNext

(* What an older version has left is a store between two sessions. *)
LEMMA OldStore == OldInit => StoreInv
<1> SUFFICES ASSUME OldInit PROVE StoreInv
  OBVIOUS
<1>1. PICK t \in Torrents :
         /\ dirs = {t}
         /\ copy = [other \in Torrents |-> IF other = t THEN "good" ELSE "none"]
         /\ conf = [other \in Torrents |-> IF other = t THEN "plain" ELSE "none"]
  BY DEF OldInit
<1>2. /\ session = [other \in Torrents |-> "none"]
      /\ job = "off" /\ torrent = NoTorrent /\ how = "file" /\ todo = {}
      /\ file = [n \in Names |-> NoTorrent] /\ promised = {} /\ dropped = {} /\ spoilt = FALSE
  BY DEF OldInit
<1>3. TypeOK
  BY <1>1, <1>2 DEF TypeOK, Steps, Sources
<1>4. \A other \in Torrents : ~Loaded(other)
  BY <1>2 DEF Loaded
<1>5. Promises
  BY <1>2, <1>4 DEF Promises, SessionIsStored, AddedSurvives, NothingLost
<1>6. Expendable /\ Progress /\ Doomed /\ PlainHasCopy
  BY <1>2 DEF Expendable, Progress, Doomed, TooLate, PlainHasCopy, Creating, Erasing
<1>7. Accounted
  BY <1>2, <1>4 DEF Accounted, LoadedSet, Creating, Erasing
<1> QED
  BY <1>3, <1>5, <1>6, <1>7 DEF StoreInv

LEMMA DataStoreInvariance == DataSpec => []StoreInv
<1>1. NewInit \/ OldInit => StoreInv
  BY InitStore, OldStore DEF NewInit
<1>2. StoreInv /\ [DataNext]_<<vars, dataVars>> => StoreInv'
  BY DataSteps, StepStore
<1> QED
  BY <1>1, <1>2, PTL DEF DataSpec

(* What was added stays, also of torrents that an older version has added, and
   with all that users choose and the thread for files does meanwhile. *)
THEOREM DataSurvives == DataSpec => []AddedSurvives
<1>1. StoreInv => AddedSurvives
  BY DEF StoreInv, Promises
<1> QED
  BY DataStoreInvariance, <1>1, PTL

(* No *.torrent file is deleted whose torrent could not be loaded without it. *)
THEOREM DataNotLost == DataSpec => []NothingLost
<1>1. StoreInv => NothingLost
  BY DEF StoreInv, Promises
<1> QED
  BY DataStoreInvariance, <1>1, PTL

(* The directories are those of the session, but for jobs cut short and files
   that cannot be read or removed. *)
THEOREM DataNotLeftOver == DataSpec => []NoLeftovers
<1>1. StoreInv => NoLeftovers
  BY DEF StoreInv, Accounted, NoLeftovers, LoadedSet
<1> QED
  BY DataStoreInvariance, <1>1, PTL

-----------------------------------------------------------------------------
(* The data. *)

(* A torrent of the session, as far as its files go. *)
IsTorrent(d) ==
    /\ "files" \in DOMAIN d /\ "have" \in DOMAIN d
    /\ \A i \in DOMAIN d.files : "path" \in DOMAIN d.files[i]
    /\ d.have \subseteq DOMAIN d.files

(* What a torrent has, it has on the disk, where no removal waits for it. *)
Safe(t) ==
    /\ ~RemovalWaits(t)
    /\ PathsOf(data[t].files, data[t].have) \subseteq downloads[t]

DataInv ==
    /\ data = [t \in Torrents |-> data[t]]
    /\ downloads = [t \in Torrents |-> downloads[t]]
    /\ \A t \in Torrents : data[t] # Nothing =>
          IsTorrent(data[t]) /\ (t \notin mixed => Safe(t))

(* What is to be copied is there, and not removed before. *)
TasksInv ==
    /\ \E S : tasks \in Seq(S)
    /\ \A n \in DOMAIN tasks :
          /\ tasks[n].torrent \in Torrents /\ tasks[n].kind \in {"copy", "rm"}
          /\ tasks[n].kind = "copy" /\ tasks[n].sure =>
                /\ tasks[n].files \subseteq downloads[tasks[n].torrent]
                /\ \A m \in 1 .. n - 1 : ~(/\ tasks[m].kind = "rm"
                                           /\ tasks[m].torrent = tasks[n].torrent)

(* A removal is kept for the thread while its torrent goes. *)
LaterInv ==
    later = Nothing \/
       /\ job \in {"remove", "rmdir"}
       /\ torrent \in Torrents /\ data[torrent] = Nothing
       /\ \E files : later = <<[kind |-> "rm", torrent |-> torrent, files |-> files]>>

FilesInv == DataInv /\ TasksInv /\ LaterInv

LEMMA InitFiles == NewInit \/ OldInit => FilesInv
<1> SUFFICES ASSUME NewInit \/ OldInit PROVE FilesInv
  OBVIOUS
<1>1. DataInit
  BY DEF NewInit, OldInit
<1>2. DataInv
  BY <1>1 DEF DataInit, DataInv
<1>3. TasksInv
  <2>1. tasks = <<>> /\ tasks \in Seq({}) /\ DOMAIN tasks = {}
    BY <1>1 DEF DataInit
  <2> QED
    BY <2>1 DEF TasksInv
<1>4. LaterInv
  BY <1>1 DEF DataInit, LaterInv, Nothing
<1> QED
  BY <1>2, <1>3, <1>4 DEF FilesInv

(* Most steps do not touch the files. *)
LEMMA Quiet ==
  ASSUME FilesInv, UNCHANGED <<data, downloads, tasks, later, mixed>>,
         later = Nothing \/ (job' \in {"remove", "rmdir"} /\ torrent' = torrent)
  PROVE  FilesInv'
<1>1. DataInv'
  BY DEF FilesInv, DataInv, Safe, RemovalWaits, IsTorrent, PathsOf, PathOf
<1>2. TasksInv'
  BY DEF FilesInv, TasksInv
<1>3. LaterInv'
  BY DEF FilesInv, LaterInv
<1> QED
  BY <1>1, <1>2, <1>3 DEF FilesInv

(* A torrent whose files stay in their places, or that has got one. *)
LEMMA Touched ==
  ASSUME FilesInv, NEW t \in Torrents, data[t] # Nothing, NEW d, With(t, d),
         IsTorrent(d), UNCHANGED <<tasks, mixed, later, job, torrent>>,
         \A u \in Torrents : downloads[u] \subseteq downloads'[u],
         downloads' = [u \in Torrents |-> downloads'[u]],
         t \notin mixed => PathsOf(d.files, d.have) \subseteq downloads'[t]
  PROVE  FilesInv'
<1>1. /\ data' = [u \in Torrents |-> data'[u]]
      /\ data'[t] = d
      /\ \A u \in Torrents \ {t} : data'[u] = data[u]
  BY DEF FilesInv, DataInv, With
<1>2. DataInv'
  <2> SUFFICES ASSUME NEW u \in Torrents, data'[u] # Nothing
               PROVE  IsTorrent(data'[u]) /\ (u \notin mixed => Safe(u)')
    BY <1>1 DEF DataInv
  <2>1. RemovalWaits(u)' = RemovalWaits(u)
    BY DEF RemovalWaits
  <2>2. CASE u = t
    <3>1. u \notin mixed => ~RemovalWaits(u)
      BY <2>2 DEF FilesInv, DataInv, Safe
    <3> QED
      BY <1>1, <2>1, <2>2, <3>1 DEF Safe, PathsOf, PathOf
  <2>3. CASE u # t
    <3>1. data'[u] = data[u] /\ IsTorrent(data[u])
      BY <1>1, <2>3 DEF FilesInv, DataInv
    <3>2. u \notin mixed => /\ ~RemovalWaits(u)
                            /\ PathsOf(data[u].files, data[u].have) \subseteq downloads[u]
      BY <3>1 DEF FilesInv, DataInv, Safe
    <3> QED
      BY <2>1, <3>1, <3>2 DEF Safe, PathsOf, PathOf
  <2> QED
    BY <2>2, <2>3
<1>3. TasksInv'
  BY DEF FilesInv, TasksInv
<1>4. LaterInv'
  BY <1>1 DEF FilesInv, LaterInv
<1> QED
  BY <1>2, <1>3, <1>4 DEF FilesInv

(* A task for the thread: only a copy needs its files. *)
LEMMA Enqueued ==
  ASSUME TasksInv, NEW new, tasks' = Append(tasks, new), UNCHANGED downloads,
         new.torrent \in Torrents, new.kind \in {"copy", "rm"},
         new.kind = "copy" /\ new.sure =>
            ~RemovalWaits(new.torrent) /\ new.files \subseteq downloads[new.torrent]
  PROVE  /\ TasksInv'
         /\ \A t :
            (RemovalWaits(t)' <=> RemovalWaits(t) \/ (new.kind = "rm" /\ new.torrent = t))
<1>1. PICK S : tasks \in Seq(S)
  BY DEF TasksInv
<1>2. tasks \in Seq(S \cup {new}) /\ new \in S \cup {new}
  BY <1>1
<1>3. /\ tasks' \in Seq(S \cup {new}) /\ Len(tasks') = Len(tasks) + 1
      /\ \A n \in 1 .. Len(tasks) : tasks'[n] = tasks[n]
      /\ tasks'[Len(tasks) + 1] = new
      /\ DOMAIN tasks = 1 .. Len(tasks) /\ Len(tasks) \in Nat
      /\ DOMAIN tasks' = 1 .. Len(tasks) + 1
  BY <1>2, AppendProperties
<1>4. ASSUME NEW t
      PROVE  (RemovalWaits(t)' <=> RemovalWaits(t) \/ (new.kind = "rm" /\ new.torrent = t))
  BY <1>3 DEF RemovalWaits
<1>5. ASSUME NEW n \in DOMAIN tasks'
      PROVE  /\ tasks'[n].torrent \in Torrents /\ tasks'[n].kind \in {"copy", "rm"}
             /\ tasks'[n].kind = "copy" /\ tasks'[n].sure =>
                   /\ tasks'[n].files \subseteq downloads'[tasks'[n].torrent]
                   /\ \A m \in 1 .. n - 1 : ~(/\ tasks'[m].kind = "rm"
                                              /\ tasks'[m].torrent = tasks'[n].torrent)
  <2>1. CASE n \in 1 .. Len(tasks)
    BY <1>3, <2>1 DEF TasksInv
  <2>2. CASE n = Len(tasks) + 1
    BY <1>3, <2>2 DEF RemovalWaits
  <2> QED
    BY <1>3, <2>1, <2>2
<1> QED
  BY <1>3, <1>4, <1>5 DEF TasksInv

(* What load_torrent() reads gives a torrent with the files that are there. *)
LEMMA Loads ==
  ASSUME NEW t, NEW read, NEW known
  PROVE  /\ IsTorrent(NewTorrent(t, read, known))
         /\ PathsOf(NewTorrent(t, read, known).files,
                    NewTorrent(t, read, known).have) \subseteq downloads[t]
<1> DEFINE settings == IF read THEN Read(written[t]) ELSE Defaults
           number == IF known THEN Len(TorrentFiles) ELSE 0
           files == IF Len(settings.files) = number THEN settings.files
                    ELSE [i \in 1 .. number |-> NoSettings]
<1>1. \A config : \A i \in DOMAIN Read(config).files :
         "path" \in DOMAIN Read(config).files[i]
  <2> SUFFICES ASSUME NEW config, NEW i \in DOMAIN Read(config).files
               PROVE  "path" \in DOMAIN Read(config).files[i]
    OBVIOUS
  <2>1. CASE "files_priorities" \in DOMAIN config
    <3>1. Read(config).files = Priorities(config)
      BY <2>1 DEF Read
    <3>2. "path" \in DOMAIN NoSettings
      BY DEF NoSettings
    <3>3. \A value : DOMAIN [NoSettings EXCEPT !.download = value] = DOMAIN NoSettings
      OBVIOUS
    <3> QED
      BY <3>1, <3>2, <3>3 DEF Priorities
  <2>2. CASE "files_priorities" \notin DOMAIN config
    <3>1. Read(config).files = [n \in DOMAIN Option(config, "files", <<>>) |->
                                   FileSettings(config.files[n])]
      BY <2>2 DEF Read
    <3>2. \A group : "path" \in DOMAIN FileSettings(group)
      BY DEF FileSettings
    <3> QED
      BY <3>1, <3>2
  <2> QED
    BY <2>1, <2>2
<1>2. \A i \in DOMAIN files : "path" \in DOMAIN files[i]
  BY <1>1 DEF Defaults, NoSettings
<1>3. NewTorrent(t, read, known).files = files
  BY DEF NewTorrent
<1>4. NewTorrent(t, read, known).have = Found(t, files)
  BY DEF NewTorrent
<1>5. "files" \in DOMAIN NewTorrent(t, read, known)
      /\ "have" \in DOMAIN NewTorrent(t, read, known)
  BY DEF NewTorrent
<1> HIDE DEF files
<1> QED
  BY <1>2, <1>3, <1>4, <1>5 DEF IsTorrent, PathsOf, Found

LEMMA LoadKeeps ==
  ASSUME FilesInv, NEW t \in Torrents, LoadData(t), later = Nothing,
         UNCHANGED <<downloads, tasks, later>>
  PROVE  FilesInv'
<1>1. CASE UNCHANGED <<data, mixed>>
  BY <1>1, Quiet
<1>2. CASE \E read \in BOOLEAN, known \in BOOLEAN :
              With(t, NewTorrent(t, read, known))
              /\ mixed' = IF RemovalWaits(t) THEN mixed \cup {t} ELSE mixed \ {t}
  <2>1. PICK read \in BOOLEAN, known \in BOOLEAN :
              With(t, NewTorrent(t, read, known))
              /\ mixed' = IF RemovalWaits(t) THEN mixed \cup {t} ELSE mixed \ {t}
    BY <1>2
  <2> DEFINE d == NewTorrent(t, read, known)
  <2>2. IsTorrent(d) /\ PathsOf(d.files, d.have) \subseteq downloads[t]
    BY Loads
  <2> HIDE DEF d
  <2>3. /\ data' = [u \in Torrents |-> data'[u]]
        /\ data'[t] = d
        /\ \A u \in Torrents \ {t} : data'[u] = data[u]
    BY <2>1 DEF FilesInv, DataInv, With, d
  <2>4. ASSUME NEW u \in Torrents, data'[u] # Nothing
        PROVE  IsTorrent(data'[u]) /\ (u \notin mixed' => Safe(u)')
    <3>1. RemovalWaits(u)' = RemovalWaits(u)
      BY DEF RemovalWaits
    <3>2. CASE u = t
      BY <2>1, <2>2, <2>3, <3>1, <3>2 DEF Safe, PathsOf, PathOf
    <3>3. CASE u # t
      <4>1. data'[u] = data[u] /\ IsTorrent(data[u]) /\ (u \in mixed' <=> u \in mixed)
        BY <2>1, <2>3, <2>4, <3>3 DEF FilesInv, DataInv
      <4>2. u \notin mixed => /\ ~RemovalWaits(u)
                              /\ PathsOf(data[u].files, data[u].have) \subseteq downloads[u]
        BY <2>4, <4>1 DEF FilesInv, DataInv, Safe
      <4> QED
        BY <3>1, <4>1, <4>2 DEF Safe, PathsOf, PathOf
    <3> QED
      BY <3>2, <3>3
  <2>5. DataInv'
    BY <2>3, <2>4 DEF DataInv, FilesInv
  <2>6. TasksInv' /\ LaterInv'
    BY DEF FilesInv, TasksInv, LaterInv
  <2> QED
    BY <2>5, <2>6 DEF FilesInv
<1> QED
  BY <1>1, <1>2 DEF LoadData

-----------------------------------------------------------------------------
(* The steps that change the torrents, their files, or what is to be done. *)

LEMMA RemoveKeeps ==
  ASSUME FilesInv, NEW t \in Torrents, NEW with_data \in BOOLEAN,
         RemoveTorrent(t, with_data)
  PROVE  FilesInv'
<1>1. /\ data' = [u \in Torrents |-> IF u = t THEN Nothing ELSE data[u]]
      /\ UNCHANGED <<downloads, tasks, mixed>>
      /\ job' = "remove" /\ torrent' = t
  BY DEF FilesInv, DataInv, RemoveTorrent, With, StartRemoval
<1>2. DataInv'
  BY <1>1 DEF FilesInv, DataInv, Safe, RemovalWaits, IsTorrent, PathsOf, PathOf
<1>3. TasksInv'
  BY <1>1 DEF FilesInv, TasksInv
<1>4. LaterInv'
  BY <1>1 DEF RemoveTorrent, LaterInv, Nothing
<1> QED
  BY <1>2, <1>3, <1>4 DEF FilesInv

LEMMA EndRemovalKeeps ==
  ASSUME FilesInv, EndRemoval
  PROVE  FilesInv'
<1>1. UNCHANGED <<data, downloads, mixed>> /\ later' = Nothing
      /\ tasks' = tasks \o later
  BY DEF EndRemoval, Nothing
<1>2. PICK S : tasks \in Seq(S)
  BY DEF FilesInv, TasksInv
<1>3. CASE later = Nothing
  <2>1. tasks' = tasks
    BY <1>1, <1>2, <1>3 DEF Nothing
  <2> QED
    BY <1>1, <1>3, <2>1, Quiet
<1>4. CASE later # Nothing
  <2>1. torrent \in Torrents /\ data[torrent] = Nothing
    BY <1>4 DEF FilesInv, LaterInv
  <2>2. PICK files : later = <<[kind |-> "rm", torrent |-> torrent, files |-> files]>>
    BY <1>4 DEF FilesInv, LaterInv
  <2> DEFINE new == [kind |-> "rm", torrent |-> torrent, files |-> files]
  <2>3. tasks' = Append(tasks, new)
    <3>1. tasks \in Seq(S \cup {new}) /\ new \in S \cup {new} /\ later = <<new>>
      BY <1>2, <2>2
    <3> HIDE DEF new
    <3> QED
      BY <1>1, <3>1
  <2>4. /\ new.torrent = torrent /\ new.kind = "rm"
    OBVIOUS
  <2> HIDE DEF new
  <2>5. TasksInv' /\ \A u : (RemovalWaits(u)' <=> RemovalWaits(u) \/ u = torrent)
    BY <1>1, <2>1, <2>3, <2>4, Enqueued DEF FilesInv
  <2>6. DataInv'
    BY <1>1, <2>1, <2>5 DEF FilesInv, DataInv, Safe, IsTorrent, PathsOf, PathOf
  <2>7. LaterInv'
    BY <1>1 DEF LaterInv
  <2> QED
    BY <2>5, <2>6, <2>7 DEF FilesInv
<1> QED
  BY <1>3, <1>4

LEMMA FinishKeeps ==
  ASSUME FilesInv, NEW t \in Torrents, finish_torrent(t)
  PROVE  FilesInv'
<1> DEFINE d == [data[t] EXCEPT !.last = TotalDone(t), !.copy = FALSE]
           files == PathsOf(data[t].files, Wanted(t) \cap data[t].have)
           new == [kind |-> "copy", torrent |-> t, files |-> files,
                   sure |-> t \notin mixed]
<1>1. /\ data[t] # Nothing /\ job = "idle"
      /\ With(t, d) /\ UNCHANGED <<downloads, later, mixed, job, torrent>>
      /\ tasks' = IF data[t].copy THEN Append(tasks, new) ELSE tasks
  BY DEF finish_torrent, Idle, vars, task
<1>2. IsTorrent(data[t]) /\ (t \notin mixed => Safe(t))
  BY <1>1 DEF FilesInv, DataInv
<1>3. d.files = data[t].files /\ d.have = data[t].have /\ IsTorrent(d)
  BY <1>2 DEF IsTorrent
<1>4. t \notin mixed => files \subseteq downloads[t] /\ ~RemovalWaits(t)
  BY <1>2 DEF Safe, PathsOf
<1>5. /\ new.torrent = t /\ new.kind = "copy" /\ new.files = files
      /\ new.sure = (t \notin mixed)
  OBVIOUS
<1>6. later = Nothing
  BY <1>1 DEF FilesInv, LaterInv
<1> HIDE DEF d, files, new
<1>7. TasksInv' /\ \A u : (RemovalWaits(u)' <=> RemovalWaits(u))
  <2>1. CASE tasks' = Append(tasks, new)
    BY <1>1, <1>4, <1>5, <2>1, Enqueued DEF FilesInv
  <2>2. CASE tasks' = tasks
    BY <1>1, <2>2 DEF FilesInv, TasksInv, RemovalWaits
  <2> QED
    BY <1>1, <2>1, <2>2
<1>8. DataInv'
  <2>1. data' = [u \in Torrents |-> IF u = t THEN d ELSE data[u]]
    BY <1>1 DEF With, FilesInv, DataInv
  <2> SUFFICES ASSUME NEW u \in Torrents, data'[u] # Nothing
               PROVE  IsTorrent(data'[u]) /\ (u \notin mixed => Safe(u)')
    BY <1>1, <2>1 DEF DataInv, FilesInv
  <2>2. data[u] # Nothing /\ IsTorrent(data[u]) /\ (u \notin mixed => Safe(u))
    BY <1>1, <2>1 DEF FilesInv, DataInv
  <2>3. IsTorrent(data'[u]) /\ data'[u].files = data[u].files
        /\ data'[u].have = data[u].have
    BY <1>3, <2>1, <2>2
  <2> QED
    BY <1>1, <1>7, <2>2, <2>3 DEF Safe, PathsOf, PathOf
<1>9. LaterInv'
  BY <1>1, <1>6 DEF LaterInv
<1> QED
  BY <1>7, <1>8, <1>9 DEF FilesInv

(* The thread for files takes its first task. *)
LEMMA RunTaskKeeps ==
  ASSUME FilesInv, RunTask
  PROVE  FilesInv'
<1> DEFINE next == Head(tasks)
<1>1. PICK S : tasks \in Seq(S)
  BY DEF FilesInv, TasksInv
<1>2. /\ tasks # <<>> /\ tasks' = Tail(tasks)
      /\ UNCHANGED <<data, later, mixed, job, torrent>>
  BY DEF RunTask, vars, task
<1>3. /\ next = tasks[1] /\ 1 \in DOMAIN tasks /\ Len(tasks) \in Nat
      /\ DOMAIN tasks = 1 .. Len(tasks) /\ DOMAIN tasks' = 1 .. Len(tasks) - 1
      /\ \A n \in DOMAIN tasks' : tasks'[n] = tasks[n + 1]
      /\ tasks' \in Seq(S)
  BY <1>1, <1>2
<1> HIDE DEF next
<1>4. /\ next.torrent \in Torrents /\ next.kind \in {"copy", "rm"}
      /\ downloads' = [t \in Torrents |-> downloads'[t]]
      /\ \A t \in Torrents : downloads[t] # downloads'[t] =>
                                next.kind = "rm" /\ next.torrent = t
  <2>1. next.torrent \in Torrents /\ next.kind \in {"copy", "rm"}
    BY <1>3 DEF FilesInv, TasksInv
  <2>2. CASE next.kind = "copy"
    <3>1. UNCHANGED downloads
      BY <2>2 DEF RunTask, next
    <3> QED
      BY <2>1, <3>1 DEF FilesInv, DataInv
  <2>3. CASE next.kind # "copy"
    <3>1. PICK left : downloads' = [downloads EXCEPT ![next.torrent] = left]
      BY <2>3 DEF RunTask, next
    <3> QED
      BY <2>1, <2>3, <3>1 DEF FilesInv, DataInv
  <2> QED
    BY <2>2, <2>3
<1>5. \A t : /\ RemovalWaits(t)' => RemovalWaits(t)
             /\ next.kind = "rm" /\ next.torrent = t => RemovalWaits(t)
  BY <1>3 DEF RemovalWaits
<1>6. DataInv'
  <2> SUFFICES ASSUME NEW t \in Torrents, data[t] # Nothing
               PROVE  IsTorrent(data[t]) /\ (t \notin mixed => Safe(t)')
    BY <1>2, <1>4 DEF FilesInv, DataInv, IsTorrent
  <2>1. IsTorrent(data[t]) /\ (t \notin mixed => Safe(t))
    BY DEF FilesInv, DataInv
  <2>2. t \notin mixed => downloads'[t] = downloads[t]
    BY <1>4, <1>5, <2>1 DEF Safe
  <2> QED
    BY <1>2, <1>5, <2>1, <2>2 DEF Safe, PathsOf, PathOf
<1>7. TasksInv'
  <2> SUFFICES ASSUME NEW n \in DOMAIN tasks'
      PROVE  /\ tasks'[n].torrent \in Torrents /\ tasks'[n].kind \in {"copy", "rm"}
             /\ tasks'[n].kind = "copy" /\ tasks'[n].sure =>
                   /\ tasks'[n].files \subseteq downloads'[tasks'[n].torrent]
                   /\ \A m \in 1 .. n - 1 : ~(/\ tasks'[m].kind = "rm"
                                              /\ tasks'[m].torrent = tasks'[n].torrent)
    BY <1>3 DEF TasksInv
  <2> DEFINE t == tasks[n + 1].torrent
  <2>1. tasks'[n] = tasks[n + 1] /\ n \in Nat /\ n + 1 \in DOMAIN tasks /\ t \in Torrents
        /\ tasks[n + 1].kind \in {"copy", "rm"}
    BY <1>3 DEF FilesInv, TasksInv
  <2>2. ASSUME tasks[n + 1].kind = "copy", tasks[n + 1].sure
        PROVE  /\ tasks[n + 1].files \subseteq downloads[t]
               /\ \A m \in 1 .. n : ~(tasks[m].kind = "rm" /\ tasks[m].torrent = t)
    <3>1. \A m \in 1 .. (n + 1) - 1 : ~(tasks[m].kind = "rm" /\ tasks[m].torrent = t)
      BY <2>1, <2>2 DEF FilesInv, TasksInv
    <3> QED
      BY <2>1, <2>2, <3>1 DEF FilesInv, TasksInv
  <2>3. ASSUME tasks[n + 1].kind = "copy", tasks[n + 1].sure
        PROVE  /\ tasks[n + 1].files \subseteq downloads'[t]
               /\ \A m \in 1 .. n - 1 : ~(tasks'[m].kind = "rm" /\ tasks'[m].torrent = t)
    <3>1. 1 \in 1 .. n
      BY <1>3, <2>1
    <3>2. ~(next.kind = "rm" /\ next.torrent = t)
      BY <1>3, <2>2, <2>3, <3>1
    <3>3. downloads'[t] = downloads[t]
      BY <1>4, <2>1, <3>2
    <3>4. \A m \in 1 .. n - 1 : m + 1 \in 1 .. n /\ tasks'[m] = tasks[m + 1]
      BY <1>3, <2>1
    <3> QED
      BY <2>2, <2>3, <3>3, <3>4
  <2> QED
    BY <2>1, <2>3
<1>8. LaterInv'
  BY <1>2 DEF FilesInv, LaterInv
<1> QED
  BY <1>6, <1>7, <1>8 DEF FilesInv
LEMMA ExitKeeps ==
  ASSUME FilesInv, ExitAll
  PROVE  FilesInv'
<1>1. /\ data' = [t \in Torrents |-> Nothing] /\ later' = Nothing
      /\ UNCHANGED downloads /\ tasks' \in {tasks, <<>>}
  BY DEF ExitAll, Nothing
<1>2. DataInv'
  BY <1>1 DEF FilesInv, DataInv
<1>3. TasksInv'
  <2>1. CASE tasks' = tasks
    BY <1>1, <2>1 DEF FilesInv, TasksInv
  <2>2. CASE tasks' = <<>>
    <3>1. <<>> \in Seq({}) /\ DOMAIN <<>> = {}
      OBVIOUS
    <3> QED
      BY <2>2, <3>1 DEF TasksInv
  <2> QED
    BY <1>1, <2>1, <2>2
<1>4. LaterInv'
  BY <1>1 DEF LaterInv
<1> QED
  BY <1>2, <1>3, <1>4 DEF FilesInv

(* The user and libtorrent, while the session is at work. *)
LEMMA TorrentKeeps ==
  ASSUME FilesInv, NEW t \in Torrents,
         \/ \E i \in DOMAIN TorrentFiles : Download(t, i)
         \/ GetMetadata(t) \/ Reject(t) \/ ChangeFiles(t) \/ ChangeOptions(t)
  PROVE  FilesInv'
<1>1. data[t] # Nothing /\ IsTorrent(data[t]) /\ (t \notin mixed => Safe(t))
  BY DEF FilesInv, DataInv, Download, GetMetadata, Reject, ChangeFiles, ChangeOptions, Idle
<1>2. downloads = [u \in Torrents |-> downloads[u]]
  BY DEF FilesInv, DataInv
<1>3. ASSUME NEW i \in DOMAIN TorrentFiles, Download(t, i) PROVE FilesInv'
  <2> DEFINE d == [data[t] EXCEPT !.have = @ \cup {i}]
  <2>1. /\ With(t, d) /\ i \in DOMAIN data[t].files
        /\ downloads' = [downloads EXCEPT ![t] = @ \cup {PathOf(data[t].files, i)}]
        /\ UNCHANGED <<tasks, mixed, later, job, torrent>>
    BY <1>3 DEF Download, Wanted, vars, task
  <2>2. d.files = data[t].files /\ d.have = data[t].have \cup {i} /\ IsTorrent(d)
    BY <1>1, <2>1 DEF IsTorrent
  <2>3. downloads' = [u \in Torrents |-> downloads'[u]]
        /\ \A u \in Torrents : downloads[u] \subseteq downloads'[u]
    BY <1>2, <2>1
  <2>4. PathsOf(d.files, d.have) =
           PathsOf(data[t].files, data[t].have) \cup {PathOf(data[t].files, i)}
    BY <2>2 DEF PathsOf
  <2>5. t \notin mixed => PathsOf(d.files, d.have) \subseteq downloads'[t]
    BY <1>1, <1>2, <2>1, <2>4 DEF Safe
  <2> HIDE DEF d
  <2> QED
    BY <1>1, <2>1, <2>2, <2>3, <2>5, Touched
<1>4. CASE GetMetadata(t)
  <2> DEFINE files == [i \in DOMAIN TorrentFiles |-> NoSettings]
             d == [data[t] EXCEPT !.metadata = TRUE, !.files = files,
                                  !.have = Found(t, files)]
  <2>1. With(t, d) /\ UNCHANGED <<downloads, tasks, mixed, later, job, torrent>>
    BY <1>4 DEF GetMetadata, SaveMetadata, vars, task
  <2>2. d.files = files /\ d.have = Found(t, files)
        /\ "files" \in DOMAIN d /\ "have" \in DOMAIN d
    BY <1>1 DEF IsTorrent
  <2>3. \A i \in DOMAIN files : "path" \in DOMAIN files[i]
    BY DEF NoSettings
  <2> HIDE DEF d, files
  <2>4. IsTorrent(d) /\ PathsOf(d.files, d.have) \subseteq downloads[t]
    BY <2>2, <2>3 DEF IsTorrent, PathsOf, Found
  <2> QED
    BY <1>1, <1>2, <2>1, <2>4, Touched
<1>5. ASSUME NEW d, With(t, d), UNCHANGED <<downloads, tasks, mixed, later, job, torrent>>,
             "files" \in DOMAIN d, "have" \in DOMAIN d, d.have = data[t].have,
             DOMAIN d.files = DOMAIN data[t].files,
             \A i \in DOMAIN d.files : /\ "path" \in DOMAIN d.files[i]
                                       /\ d.files[i].path = data[t].files[i].path
      PROVE  FilesInv'
  <2>1. IsTorrent(d)
    BY <1>1, <1>5 DEF IsTorrent
  <2>2. PathsOf(d.files, d.have) = PathsOf(data[t].files, data[t].have)
    BY <1>1, <1>5 DEF IsTorrent, PathsOf, PathOf
  <2>3. t \notin mixed => PathsOf(d.files, d.have) \subseteq downloads'[t]
    BY <1>1, <1>5, <2>2 DEF Safe
  <2> QED
    BY <1>1, <1>2, <1>5, <2>1, <2>3, Touched
<1>6. CASE Reject(t)
  <2> DEFINE d == [data[t] EXCEPT !.last = -1]
  <2>1. With(t, d) /\ UNCHANGED <<downloads, tasks, mixed, later, job, torrent>>
    BY <1>6 DEF Reject, Idle, vars, task
  <2>2. d.files = data[t].files /\ d.have = data[t].have
        /\ "files" \in DOMAIN d /\ "have" \in DOMAIN d
    BY <1>1 DEF IsTorrent
  <2> HIDE DEF d
  <2> QED
    BY <1>1, <1>5, <2>1, <2>2 DEF IsTorrent
<1>7. CASE ChangeFiles(t)
  <2>1. PICK field \in {"download", "priority"} : \E value, ids :
           With(t, [data[t] EXCEPT !.files = WithFiles(@, ids, field, value)])
    BY <1>7 DEF ChangeFiles
  <2>2. PICK value, ids :
           With(t, [data[t] EXCEPT !.files = WithFiles(@, ids, field, value)])
    BY <2>1
  <2> DEFINE files == WithFiles(data[t].files, ids, field, value)
             d == [data[t] EXCEPT !.files = files]
  <2>3. With(t, d) /\ UNCHANGED <<downloads, tasks, mixed, later, job, torrent>>
    BY <1>7, <2>2 DEF ChangeFiles, Idle, vars, task
  <2>4. /\ DOMAIN files = DOMAIN data[t].files
        /\ \A i \in DOMAIN files : /\ "path" \in DOMAIN files[i]
                                   /\ files[i].path = data[t].files[i].path
    BY <1>1, <2>1 DEF WithFiles, IsTorrent
  <2> HIDE DEF files
  <2>5. d.files = files /\ d.have = data[t].have
        /\ "files" \in DOMAIN d /\ "have" \in DOMAIN d
    BY <1>1 DEF IsTorrent
  <2> HIDE DEF d
  <2> QED
    BY <1>5, <2>3, <2>4, <2>5
<1>8. CASE ChangeOptions(t)
  <2>1. UNCHANGED <<downloads, tasks, mixed, later, job, torrent>>
    BY <1>8 DEF ChangeOptions, Idle, vars, task
  <2>2. PICK d : /\ With(t, d)
                 /\ \/ \E trackers : d = [data[t] EXCEPT !.trackers = trackers]
                    \/ \E copying, to : d = [data[t] EXCEPT !.copy = copying, !.to = to]
                    \/ d = [data[t] EXCEPT !.paused = ~@]
    <3>1. CASE \E trackers : With(t, [data[t] EXCEPT !.trackers = trackers])
      BY <3>1
    <3>2. CASE \E copying, to : With(t, [data[t] EXCEPT !.copy = copying, !.to = to])
      <4>1. PICK copying, to : With(t, [data[t] EXCEPT !.copy = copying, !.to = to])
        BY <3>2
      <4> DEFINE changed == [data[t] EXCEPT !.copy = copying, !.to = to]
      <4>2. With(t, changed) /\ \E c, p : changed = [data[t] EXCEPT !.copy = c, !.to = p]
        BY <4>1, Zenon
      <4> HIDE DEF changed
      <4> QED
        BY <4>2
    <3>3. CASE With(t, [data[t] EXCEPT !.paused = ~@])
      BY <3>3
    <3>4. \/ \E trackers \in TrackersChanges(data[t].trackers) :
                With(t, [data[t] EXCEPT !.trackers = trackers])
          \/ \E copying \in BOOLEAN, to \in Places :
                /\ copying => to # ""
                /\ With(t, [data[t] EXCEPT !.copy = copying, !.to = to])
          \/ With(t, [data[t] EXCEPT !.paused = ~@])
      BY <1>8, Zenon DEF ChangeOptions
    <3>5. \/ \E trackers : With(t, [data[t] EXCEPT !.trackers = trackers])
          \/ \E copying, to : With(t, [data[t] EXCEPT !.copy = copying, !.to = to])
          \/ With(t, [data[t] EXCEPT !.paused = ~@])
      BY <3>4, Zenon
    <3> QED
      BY <3>1, <3>2, <3>3, <3>5
  <2>3. d.files = data[t].files /\ d.have = data[t].have
        /\ "files" \in DOMAIN d /\ "have" \in DOMAIN d
    BY <1>1, <2>2 DEF IsTorrent
  <2> QED
    BY <1>1, <1>5, <2>1, <2>2, <2>3 DEF IsTorrent
<1> QED
  BY <1>3, <1>4, <1>6, <1>7, <1>8

(* What is being added is a torrent. *)
AddInv == job \in {"copy", "fill", "settings", "load"} => torrent \in Torrents

LEMMA StepAdds == AddInv /\ [DataNext]_<<vars, dataVars>> => AddInv'
<1> SUFFICES ASSUME AddInv, [DataNext]_<<vars, dataVars>>,
                    job' \in {"copy", "fill", "settings", "load"}
             PROVE  torrent' \in Torrents
  BY DEF AddInv
<1> USE DEF AddInv, task, Goto, Done, Rollback
<1>1. ASSUME NEW t \in Torrents, NEW from, AddAsked(t, from) PROVE torrent' \in Torrents
  BY <1>1 DEF AddAsked, Add
<1>2. CASE UNCHANGED <<job, torrent>>
  BY <1>2
<1>3. CASE CopyFile \/ WriteNewSettings \/ LoadNew \/ EndRemoval
  BY <1>3 DEF CopyFile, OpenCopy, FillCopy, WriteNewSettings, WriteSettings, LoadNew,
              LoadAdded, EndRemoval, RemoveDirectory
<1>4. CASE StoreStep
  BY <1>4 DEF StoreStep, AddDuplicate, Drop, TakeAway, DeleteLoadedFile, Started,
              Stat, GiveUp, AddGone
<1>5. ASSUME NEW part \in Parts, RemoveFile(part) PROVE torrent' \in Torrents
  BY <1>5 DEF RemoveFile, RemovePart
<1>6. CASE StartAll \/ ExitAll
  BY <1>6 DEF StartAll, Start, ExitAll, Exit
<1>7. CASE RunTask \/ UserDialog \/ UNCHANGED <<vars, dataVars>>
  BY <1>2, <1>7 DEF RunTask, UserDialog, vars
<1>8. ASSUME NEW t \in Torrents,
             \/ LoadOld(t) \/ SaveData(t) \/ GetMetadata(t)
             \/ \E with_data \in BOOLEAN : RemoveTorrent(t, with_data)
             \/ \E i \in DOMAIN TorrentFiles : Download(t, i)
             \/ Complete(t) \/ finish_torrent(t) \/ Reject(t)
             \/ ChangeFiles(t) \/ ChangeOptions(t)
      PROVE  torrent' \in Torrents
  <2>1. \/ UNCHANGED <<job, torrent>>
        \/ job' = "remove"
    BY <1>8 DEF LoadOld, LoadStored, SaveData, SaveSettings, GetMetadata, SaveMetadata,
                RemoveTorrent, StartRemoval, Download, Complete, finish_torrent, Reject,
                ChangeFiles, ChangeOptions, Idle, vars
  <2> QED
    BY <1>2, <2>1
<1> QED
  BY <1>1, <1>3, <1>4, <1>5, <1>6, <1>7, <1>8 DEF DataNext

LEMMA StepKeeps == FilesInv /\ AddInv /\ [DataNext]_<<vars, dataVars>> => FilesInv'
<1> SUFFICES ASSUME FilesInv, AddInv, [DataNext]_<<vars, dataVars>> PROVE FilesInv'
  OBVIOUS
<1> USE DEF LaterInv
<1>1. ASSUME NEW t \in Torrents, NEW from, AddAsked(t, from) PROVE FilesInv'
  BY <1>1, Quiet DEF AddAsked, Add, HasRead, FilesInv
<1>2. CASE CopyFile
  BY <1>2, Quiet DEF CopyFile, dataVars, OpenCopy, FillCopy, FilesInv
<1>3. CASE WriteNewSettings
  BY <1>3, Quiet DEF WriteNewSettings, WriteSettings, FilesInv
<1>4. CASE LoadNew
  <2>1. /\ LoadData(torrent) /\ job = "load" /\ torrent \in Torrents
        /\ UNCHANGED <<downloads, tasks, later>>
    BY <1>4 DEF LoadNew, LoadAdded, AddInv
  <2> QED
    BY <2>1, LoadKeeps DEF FilesInv
<1>5. CASE EndRemoval
  BY <1>5, EndRemovalKeeps
<1>6. CASE StoreStep
  <2>1. UNCHANGED dataVars /\ ((job' = job /\ torrent' = torrent) \/ job \in {"idle", "look", "delete", "start"})
    BY <1>6 DEF StoreStep, AddDuplicate, Drop, TakeAway, DeleteLoadedFile, Started,
                Stat, GiveUp, AddGone, Goto, Done, task
  <2> QED
    BY <2>1, Quiet DEF dataVars, FilesInv
<1>7. ASSUME NEW part \in Parts, RemoveFile(part) PROVE FilesInv'
  <2>1. job' \in {"remove", "rmdir"} /\ torrent' = torrent
    BY <1>7 DEF RemoveFile, RemovePart
  <2> QED
    BY <1>7, <2>1, Quiet DEF RemoveFile
<1>8. CASE StartAll
  BY <1>8, Quiet DEF StartAll, Start, dataVars, FilesInv
<1>9. CASE ExitAll
  BY <1>9, ExitKeeps
<1>10. CASE RunTask
  BY <1>10, RunTaskKeeps
<1>11. CASE UserDialog
  BY <1>11, Quiet DEF UserDialog, vars, task, FilesInv
<1>12. ASSUME NEW t \in Torrents, LoadOld(t) PROVE FilesInv'
  <2>1. LoadData(t) /\ job = "start" /\ UNCHANGED <<downloads, tasks, later>>
    BY <1>12 DEF LoadOld, LoadStored
  <2> QED
    BY <2>1, LoadKeeps DEF FilesInv
<1>13. ASSUME NEW t \in Torrents, SaveData(t) PROVE FilesInv'
  BY <1>13, Quiet DEF SaveData, SaveSettings, task, FilesInv
<1>14. ASSUME NEW t \in Torrents, NEW with_data \in BOOLEAN, RemoveTorrent(t, with_data)
       PROVE  FilesInv'
  BY <1>14, RemoveKeeps
<1>15. ASSUME NEW t \in Torrents, Complete(t) PROVE FilesInv'
  BY <1>15, Quiet DEF Complete, vars, task, FilesInv
<1>16. ASSUME NEW t \in Torrents, finish_torrent(t) PROVE FilesInv'
  BY <1>16, FinishKeeps
<1>17. ASSUME NEW t \in Torrents,
              \/ \E i \in DOMAIN TorrentFiles : Download(t, i)
              \/ GetMetadata(t) \/ Reject(t) \/ ChangeFiles(t) \/ ChangeOptions(t)
       PROVE  FilesInv'
  BY <1>17, TorrentKeeps
<1>18. CASE UNCHANGED <<vars, dataVars>>
  BY <1>18, Quiet DEF vars, dataVars, task, FilesInv
<1> QED
  BY <1>1, <1>2, <1>3, <1>4, <1>5, <1>6, <1>7, <1>8, <1>9, <1>10, <1>11, <1>12, <1>13,
     <1>14, <1>15, <1>16, <1>17, <1>18 DEF DataNext

IInv == FilesInv /\ AddInv

LEMMA Invariance == DataSpec => []IInv
<1>1. NewInit \/ OldInit => IInv
  BY InitFiles DEF IInv, AddInv, NewInit, OldInit, Init
<1>2. IInv /\ [DataNext]_<<vars, dataVars>> => IInv'
  BY StepAdds, StepKeeps DEF IInv
<1> QED
  BY <1>1, <1>2, PTL DEF DataSpec

(* The files of a finished torrent are there until they have been copied, though
   the torrent may be removed with them at once: the removal comes later to the
   thread, and nothing else removes them. *)
THEOREM FilesAreCopied == DataSpec => []CopyFindsFiles
<1>1. IInv => CopyFindsFiles
  BY DEF IInv, FilesInv, TasksInv, CopyFindsFiles
<1> QED
  BY Invariance, <1>1, PTL

-----------------------------------------------------------------------------
(* What was chosen, from the dialog to the file and back. *)

IsFile(f) == f = [path |-> f.path, download |-> f.download, priority |-> f.priority]

(* Settings for every file, or for none because they are not known yet. *)
IsFiles(files) ==
    \/ files = <<>>
    \/ /\ files = [i \in DOMAIN TorrentFiles |-> files[i]]
       /\ \A i \in DOMAIN TorrentFiles : IsFile(files[i])

(* What is said about copying the files: never without a place for them. *)
IsCopy(s) == s.copy \in BOOLEAN /\ (s.copy => s.to # "")

IsSettings(s) ==
    /\ s = [paused |-> s.paused, files |-> s.files, trackers |-> s.trackers,
            copy |-> s.copy, to |-> s.to, last |-> s.last]
    /\ IsFiles(s.files)

DataFields == {"paused", "files", "trackers", "copy", "to", "last", "metadata", "have"}

IsData(d) == DOMAIN d = DataFields /\ IsFiles(d.files) /\ IsCopy(d)

(* What is read from the file is what was saved, or what the torrent has when
   nothing is said about it, but for an end of download that was revoked. *)
Means(config, s) ==
    LET read == Read(config)
    IN  /\ read.paused = s.paused /\ read.files = s.files
        /\ IF read.trackers = <<>> THEN s.trackers = TorrentTrackers
                                   ELSE s.trackers = read.trackers[1]
        /\ read.copy = s.copy /\ read.to = s.to /\ IsCopy(s)
        /\ s.last \in {read.last, -1}

DialogFields == {"settings", "files", "shown", "displayed", "revision", "rows",
                 "trackers", "to", "start"}

IsDialog(d) ==
    /\ DialogFields \subseteq DOMAIN d
    /\ IsFiles(d.settings)
    /\ DOMAIN d.files = DOMAIN d.settings /\ DOMAIN d.shown = DOMAIN d.settings

DialogInv == dialog # Closed => IsDialog(dialog)

AskedInv ==
    /\ asked # Nothing => IsFiles(asked.files)
    /\ job \in {"copy", "fill", "settings"} => asked # Nothing

KeptInv ==
    /\ data = [t \in Torrents |-> data[t]]
    /\ written = [t \in Torrents |-> written[t]]
    /\ saved = [t \in Torrents |-> saved[t]]
    /\ \A t \in Torrents :
          /\ conf[t] # "none" => written[t] # Nothing
          /\ written[t] # Nothing => saved[t] # Nothing /\ Means(written[t], saved[t])
          /\ saved[t] # Nothing => IsSettings(saved[t])
          /\ data[t] # Nothing => IsData(data[t])
          /\ data[t] # Nothing /\ saved[t] # Nothing =>
                saved[t].last \in {data[t].last, -1}

LEMMA FileAsRead ==
  ASSUME NEW f, IsFile(f)
  PROVE  FileSettings(Given(f, "path", Root)) = f
<1> DEFINE g == Given(f, "path", Root)
<1>1. DOMAIN f = {"path", "download", "priority"}
  BY DEF IsFile
<1>2. DOMAIN g = DOMAIN f \ {o \in {"path"} : f[o] = Root}
      /\ \A o \in DOMAIN g : g[o] = f[o]
  BY DEF Given
<1> HIDE DEF g
<1>3. Option(g, "download", NoSettings.download) = f.download
      /\ Option(g, "priority", NoSettings.priority) = f.priority
  BY <1>1, <1>2 DEF Option
<1>4. Option(g, "path", NoSettings.path) = f.path
  BY <1>1, <1>2 DEF Option, NoSettings
<1>5. FileSettings(g) = [path |-> f.path, download |-> f.download, priority |-> f.priority]
  BY <1>3, <1>4 DEF FileSettings
<1> QED
  BY <1>5 DEF IsFile, g

LEMMA SettingsAsRead ==
  ASSUME NEW s, \A i \in DOMAIN s.files : IsFile(s.files[i]),
         s.files = [i \in DOMAIN s.files |-> s.files[i]],
         s.copy \in BOOLEAN, s.copy => s.to # ""
  PROVE  LET read == Read(Written(s))
         IN /\ read.paused = s.paused /\ read.files = s.files
            /\ read.trackers = <<s.trackers>>
            /\ read.copy = s.copy /\ read.to = s.to /\ read.last = s.last
<1> DEFINE all == [version |-> "0.9", is_paused |-> s.paused,
                   copy_when_finished |-> s.copy,
                   copy_when_finished_to |-> s.to,
                   files |-> [i \in DOMAIN s.files |-> Given(s.files[i], "path", Root)],
                   trackers |-> s.trackers,
                   bytes_done_on_last_torrent_finish |-> s.last]
           w == Given(all, "copy_when_finished_to", "")
<1>1. w = Written(s)
  BY DEF Written
<1>2. DOMAIN w = {"version", "is_paused", "copy_when_finished", "files", "trackers",
                  "bytes_done_on_last_torrent_finish"}
                 \cup {o \in {"copy_when_finished_to"} : s.to # ""}
  <2>1. DOMAIN all = {"version", "is_paused", "copy_when_finished", "files", "trackers",
                      "bytes_done_on_last_torrent_finish", "copy_when_finished_to"}
        /\ all["copy_when_finished_to"] = s.to
    OBVIOUS
  <2> HIDE DEF all
  <2>2. DOMAIN w = DOMAIN all \ {o \in {"copy_when_finished_to"} : all[o] = ""}
    BY DEF Given
  <2> QED
    BY <2>1, <2>2
<1>3. /\ w.version = "0.9" /\ w.is_paused = s.paused /\ w.copy_when_finished = s.copy
      /\ w.files = [i \in DOMAIN s.files |-> Given(s.files[i], "path", Root)]
      /\ w.trackers = s.trackers /\ w.bytes_done_on_last_torrent_finish = s.last
      /\ s.to # "" => w.copy_when_finished_to = s.to
  BY DEF Given
<1> HIDE DEF w
<1>4. Read(w).paused = s.paused /\ Read(w).last = s.last /\ Read(w).trackers = <<s.trackers>>
  BY <1>2, <1>3 DEF Read, Option
<1>5. Read(w).to = s.to
  BY <1>2, <1>3 DEF Read, Option
<1>6. Read(w).copy = s.copy
  BY <1>2, <1>3 DEF Read, Option
<1>7. Read(w).files = s.files
  <2>1. Read(w).files = [i \in DOMAIN w.files |-> FileSettings(w.files[i])]
    BY <1>2 DEF Read, Option
  <2>2. DOMAIN w.files = DOMAIN s.files
        /\ \A i \in DOMAIN s.files : FileSettings(w.files[i]) = s.files[i]
    BY <1>3, FileAsRead
  <2> QED
    BY <2>1, <2>2
<1> QED
  BY <1>1, <1>4, <1>5, <1>6, <1>7

LEMMA FilesType ==
  ASSUME NEW files, IsFiles(files)
  PROVE  /\ files = [i \in DOMAIN files |-> files[i]]
         /\ \A i \in DOMAIN files : IsFile(files[i])
         /\ files = <<>> \/ (/\ Len(files) = Len(TorrentFiles)
                             /\ DOMAIN files = DOMAIN TorrentFiles)
<1>1. CASE files = <<>>
  BY <1>1
<1>2. CASE files # <<>>
  <2>1. files = [i \in DOMAIN TorrentFiles |-> files[i]] /\ DOMAIN files = DOMAIN TorrentFiles
        /\ \A i \in DOMAIN TorrentFiles : IsFile(files[i])
    BY <1>2 DEF IsFiles
  <2>2. DOMAIN TorrentFiles = 1 .. Len(TorrentFiles) /\ Len(TorrentFiles) \in Nat
    BY DialogAssumption, LenProperties DEF DialogAssumption
  <2>3. files \in [1 .. Len(TorrentFiles) -> {files[i] : i \in 1 .. Len(TorrentFiles)}]
    BY <2>1, <2>2
  <2>4. files \in Seq({files[i] : i \in 1 .. Len(TorrentFiles)})
    BY <2>2, <2>3, SeqDef
  <2> QED
    BY <2>1, <2>2, <2>4
<1> QED
  BY <1>1, <1>2

LEMMA NoFiles == IsFiles([i \in DOMAIN <<>> |-> NoSettings])
BY DEF IsFiles

LEMMA AllFiles == IsFile(NoSettings) /\ IsFiles([i \in DOMAIN TorrentFiles |-> NoSettings])
<1>1. IsFile(NoSettings)
  BY DEF NoSettings, IsFile
<1> QED
  BY <1>1 DEF IsFiles

(* What is written means what it was written for. *)
LEMMA SavedMeans ==
  ASSUME NEW s, IsSettings(s), IsCopy(s)
  PROVE  Means(Written(s), s) /\ Written(s) # Nothing
<1>1. /\ Read(Written(s)).paused = s.paused /\ Read(Written(s)).files = s.files
      /\ Read(Written(s)).trackers = <<s.trackers>>
      /\ Read(Written(s)).copy = s.copy /\ Read(Written(s)).to = s.to
      /\ Read(Written(s)).last = s.last
  BY SettingsAsRead, FilesType DEF IsSettings, IsCopy
<1>2. <<s.trackers>> # <<>> /\ <<s.trackers>>[1] = s.trackers
  OBVIOUS
<1>3. "version" \in DOMAIN Written(s)
  BY DEF Written, Given
<1> QED
  BY <1>1, <1>2, <1>3 DEF Means, Nothing

(* So does what older versions have left. *)
LEMMA OldMeans ==
  ASSUME NEW old \in OldConfigs
  PROVE  /\ Means(old.config, old.means) /\ IsSettings(old.means)
         /\ old.config # Nothing /\ old.means # Nothing
<1> DEFINE config == old.config
           Has(option) == option \in DOMAIN config
           files == [i \in DOMAIN TorrentFiles |->
                        IF Has("files_priorities")
                        THEN [NoSettings EXCEPT !.download = config.files_priorities[i]]
                        ELSE [option \in DOMAIN NoSettings |->
                                 Option(config.files[i], option, NoSettings[option])]]
           copying == \/ Has("copy_on_finished_path")
                      \/ Has("copy_when_finished_to") /\ config.copy_when_finished
           to == Option(config, "copy_when_finished_to",
                        Option(config, "copy_on_finished_path", ""))
<1>1. IsOld(old)
  BY DataAssumption DEF DataAssumption
<1>2. /\ Has("version") /\ Has("is_paused") /\ config.version # "0.9"
      /\ ~Has("bytes_done_on_last_torrent_finish")
      /\ Has("files_priorities") <=> ~Has("files")
      /\ Has("copy_on_finished_path") =>
            ~Has("copy_when_finished_to") /\ config.copy_on_finished_path # ""
      /\ Has("copy_when_finished_to") =>
            /\ config.copy_when_finished_to # ""
            /\ Has("copy_when_finished") /\ config.copy_when_finished \in BOOLEAN
  BY <1>1 DEF IsOld
<1>3. /\ Has("files") => DOMAIN config.files = DOMAIN TorrentFiles
      /\ Has("files_priorities") => DOMAIN config.files_priorities = DOMAIN TorrentFiles
  BY <1>1 DEF IsOld
<1>4. old.means = [paused |-> config.is_paused, files |-> files,
                   trackers |-> Option(config, "trackers", TorrentTrackers),
                   copy |-> copying, to |-> to, last |-> -2]
  BY <1>1, Zenon DEF IsOld
<1>5. Read(config).files = files
  <2>1. CASE Has("files_priorities")
    <3>1. Read(config).files = Priorities(config)
      BY <2>1 DEF Read
    <3> QED
      BY <1>3, <2>1, <3>1 DEF Priorities
  <2>2. CASE Has("files")
    <3>1. Read(config).files = [i \in DOMAIN config.files |-> FileSettings(config.files[i])]
      BY <1>2, <2>2 DEF Read, Option
    <3>2. ASSUME NEW group
          PROVE  FileSettings(group) = [option \in DOMAIN NoSettings |->
                                           Option(group, option, NoSettings[option])]
      <4>1. DOMAIN NoSettings = {"path", "download", "priority"}
        BY DEF NoSettings
      <4> QED
        BY <4>1 DEF FileSettings
    <3> QED
      BY <1>2, <1>3, <2>2, <3>1, <3>2
  <2> QED
    BY <1>2, <2>1, <2>2
<1>6. IsFiles(files)
  <2>1. ASSUME NEW i \in DOMAIN TorrentFiles PROVE IsFile(files[i])
    <3>1. DOMAIN files[i] = {"path", "download", "priority"}
          /\ files[i] = [option \in DOMAIN files[i] |-> files[i][option]]
      BY DEF NoSettings
    <3> HIDE DEF files
    <3> QED
      BY <3>1 DEF IsFile
  <2> HIDE DEF files
  <2>2. files = [i \in DOMAIN TorrentFiles |-> files[i]]
    BY DEF files
  <2> QED
    BY <2>1, <2>2 DEF IsFiles
<1> HIDE DEF files
<1>7. Read(config).paused = config.is_paused /\ Read(config).last = -2
      /\ Read(config).to = to
  BY <1>2 DEF Read, Option
<1>8. to # "" <=> Has("copy_on_finished_path") \/ Has("copy_when_finished_to")
  BY <1>2 DEF Option
<1>9. Read(config).copy = copying
  BY <1>2 DEF Read, Option
<1>10. copying \in BOOLEAN /\ (copying => to # "")
  BY <1>2, <1>8
<1>11. IF Read(config).trackers = <<>>
       THEN Option(config, "trackers", TorrentTrackers) = TorrentTrackers
       ELSE Option(config, "trackers", TorrentTrackers) = Read(config).trackers[1]
  BY DEF Read, Option
<1> HIDE DEF copying, to
<1>12. Means(config, old.means) /\ IsSettings(old.means)
  <2>1. /\ old.means.paused = config.is_paused /\ old.means.files = files
        /\ old.means.trackers = Option(config, "trackers", TorrentTrackers)
        /\ old.means.copy = copying /\ old.means.to = to /\ old.means.last = -2
    BY <1>4
  <2>2. IsSettings(old.means)
    BY <1>4, <1>6, <2>1, Zenon DEF IsSettings
  <2>3. IsCopy(old.means)
    BY <1>10, <2>1, Zenon DEF IsCopy
  <2>4. Means(config, old.means)
    BY <1>5, <1>7, <1>9, <1>11, <2>1, <2>3, Zenon DEF Means
  <2> QED
    BY <2>2, <2>4
<1>13. config # Nothing /\ old.means # Nothing
  <2>1. "version" \in DOMAIN config /\ "last" \in DOMAIN old.means
    BY <1>2, <1>4
  <2> QED
    BY <2>1 DEF Nothing
<1> QED
  BY <1>12, <1>13

(* What a torrent is added with is something to save. *)
LEMMA NewSettingsType ==
  ASSUME NEW new, NEW link, IsFiles(new.files)
  PROVE  IsSettings(NewSettings(new, link)) /\ IsCopy(NewSettings(new, link))
<1> DEFINE files == IF new.files # <<>> THEN new.files
                    ELSE [i \in DOMAIN (IF link THEN <<>> ELSE TorrentFiles) |-> NoSettings]
           trackers == IF new.trackers # <<>> THEN new.trackers[1] ELSE TorrentTrackers
<1>1. NewSettings(new, link) =
         [paused |-> ~new.start, files |-> files, trackers |-> trackers,
          copy |-> new.to # "", to |-> new.to, last |-> -1]
  BY Zenon DEF NewSettings
<1>2. IsFiles(files)
  BY NoFiles, AllFiles
<1> DEFINE s == [paused |-> ~new.start, files |-> files, trackers |-> trackers,
                 copy |-> new.to # "", to |-> new.to, last |-> -1]
<1> HIDE DEF files, trackers
<1>3. /\ s.paused = ~new.start /\ s.files = files /\ s.trackers = trackers
      /\ s.copy = (new.to # "") /\ s.to = new.to /\ s.last = -1
  OBVIOUS
<1>4. IsCopy(s)
  BY <1>3 DEF IsCopy
<1>5. s = [paused |-> s.paused, files |-> s.files, trackers |-> s.trackers,
           copy |-> s.copy, to |-> s.to, last |-> s.last]
  OBVIOUS
<1> HIDE DEF s
<1>6. IsSettings(s)
  BY <1>2, <1>3, <1>5 DEF IsSettings
<1> QED
  BY <1>1, <1>4, <1>6 DEF s

(* What is saved of a torrent of the session is something to read. *)
LEMMA SettingsType ==
  ASSUME NEW d, IsData(d)
  PROVE  /\ IsSettings(Settings(d)) /\ IsCopy(Settings(d))
         /\ Settings(d).last = d.last
<1> DEFINE s == Settings(d)
<1>1. /\ s.paused = d.paused /\ s.files = d.files /\ s.trackers = d.trackers
      /\ s.copy = d.copy /\ s.to = d.to /\ s.last = d.last
  BY DEF Settings
<1>2. s = [paused |-> s.paused, files |-> s.files, trackers |-> s.trackers,
           copy |-> s.copy, to |-> s.to, last |-> s.last]
  BY DEF Settings
<1> HIDE DEF s
<1>3. IsSettings(s)
  BY <1>1, <1>2 DEF IsSettings, IsData
<1>4. IsCopy(s)
  BY <1>1, Zenon DEF IsCopy, IsData
<1> QED
  BY <1>1, <1>3, <1>4 DEF s

(* A torrent whose settings could not be read. *)
AsDefaults(d) ==
    /\ d.trackers = TorrentTrackers
    /\ \A option \in {"paused", "copy", "to", "last"} : d[option] = Defaults[option]

(* What load_torrent() makes of what it has read. *)
LEMMA LoadedType ==
  ASSUME NEW t, NEW read \in BOOLEAN, NEW known \in BOOLEAN,
         read => /\ IsSettings(saved[t]) /\ Means(written[t], saved[t])
  PROVE  LET d == NewTorrent(t, read, known)
         IN /\ IsData(d) /\ d # Nothing
            /\ read => Kept(d, saved[t])
            /\ read /\ known => saved[t].last \in {d.last, -1}
            /\ ~read => AsDefaults(d)
<1> DEFINE settings == IF read THEN Read(written[t]) ELSE Defaults
           number == IF known THEN Len(TorrentFiles) ELSE 0
           files == IF Len(settings.files) = number THEN settings.files
                    ELSE [i \in 1 .. number |-> NoSettings]
           trackers == IF settings.trackers # <<>> THEN settings.trackers[1]
                                                   ELSE TorrentTrackers
           last == IF known THEN settings.last ELSE -1
           d == NewTorrent(t, read, known)
<1>1. d = [paused |-> settings.paused, files |-> files, trackers |-> trackers,
           copy |-> settings.copy, to |-> settings.to, last |-> last,
           metadata |-> known, have |-> Found(t, files)]
  BY Zenon DEF NewTorrent
<1>2. /\ d.paused = settings.paused /\ d.files = files /\ d.trackers = trackers
      /\ d.copy = settings.copy /\ d.to = settings.to /\ d.last = last
      /\ d.metadata = known /\ d.have = Found(t, files)
      /\ DOMAIN d = DataFields
  BY <1>1 DEF DataFields
<1>3. IsFiles(settings.files) /\ (read => settings.files = saved[t].files)
  <2>1. CASE read
    BY <2>1 DEF IsSettings, Means
  <2>2. CASE ~read
    BY <2>2 DEF Defaults, IsFiles
  <2> QED
    BY <2>1, <2>2
<1>4. DOMAIN TorrentFiles = 1 .. Len(TorrentFiles) /\ Len(TorrentFiles) \in Nat
  BY DialogAssumption, LenProperties DEF DialogAssumption
<1>5. IsFiles(files) /\ (known /\ settings.files # <<>> => files = settings.files)
  <2>1. IsFiles([i \in 1 .. number |-> NoSettings])
    <3>1. CASE known
      BY <1>4, <3>1, AllFiles
    <3>2. CASE ~known
      <4>1. [i \in 1 .. 0 |-> NoSettings] = <<>>
        OBVIOUS
      <4> QED
        BY <3>2, <4>1 DEF IsFiles
    <3> QED
      BY <3>1, <3>2
  <2> HIDE DEF settings
  <2>2. IsFiles(files)
    BY <1>3, <2>1
  <2>3. known /\ settings.files # <<>> => Len(settings.files) = number
    BY <1>3, FilesType
  <2> QED
    BY <2>2, <2>3
<1>6. /\ settings.copy \in BOOLEAN /\ (settings.copy => settings.to # "")
      /\ read => /\ settings.paused = saved[t].paused
                 /\ settings.copy = saved[t].copy /\ settings.to = saved[t].to
                 /\ trackers = saved[t].trackers
                 /\ saved[t].last \in {settings.last, -1}
  <2>1. CASE read
    <3>1. settings = Read(written[t])
      BY <2>1
    <3> HIDE DEF settings
    <3>2. /\ settings.paused = saved[t].paused
          /\ settings.copy = saved[t].copy /\ settings.to = saved[t].to
          /\ IF settings.trackers = <<>> THEN saved[t].trackers = TorrentTrackers
                                         ELSE saved[t].trackers = settings.trackers[1]
          /\ saved[t].last \in {settings.last, -1} /\ IsCopy(saved[t])
      BY <2>1, <3>1, Zenon DEF Means
    <3>3. settings.copy \in BOOLEAN /\ (settings.copy => settings.to # "")
      BY <3>2, Zenon DEF IsCopy
    <3>4. trackers = saved[t].trackers
      BY <3>2
    <3> QED
      BY <3>2, <3>3, <3>4
  <2>2. CASE ~read
    BY <2>2 DEF Defaults
  <2> QED
    BY <2>1, <2>2
<1>7. ~read => /\ settings.paused = TRUE /\ settings.copy = FALSE /\ settings.to = ""
               /\ trackers = TorrentTrackers /\ last = -1
  BY DEF Defaults
<1> HIDE DEF d, settings, files, trackers, last
<1>8. IsData(d)
  <2>1. IsFiles(d.files)
    BY <1>2, <1>5
  <2>2. IsCopy(d)
    BY <1>2, <1>6, Zenon DEF IsCopy
  <2> QED
    BY <1>2, <2>1, <2>2, Zenon DEF IsData
<1>9. read => Kept(d, saved[t])
  BY <1>2, <1>3, <1>5, <1>6 DEF Kept
<1>10. read /\ known => saved[t].last \in {d.last, -1}
  BY <1>2, <1>6 DEF last
<1>11. ~read => AsDefaults(d)
  <2>1. /\ Defaults["paused"] = TRUE /\ Defaults["copy"] = FALSE
        /\ Defaults["to"] = "" /\ Defaults["last"] = -1
    BY DEF Defaults
  <2>2. ~read => /\ d["paused"] = TRUE /\ d["copy"] = FALSE /\ d["to"] = ""
                 /\ d["last"] = -1 /\ d.trackers = TorrentTrackers
    BY <1>2, <1>7
  <2> QED
    BY <2>1, <2>2, Zenon DEF AsDefaults
<1>12. d # Nothing
  <2>1. "last" \in DOMAIN d
    BY <1>2 DEF DataFields
  <2> QED
    BY <2>1 DEF Nothing
<1> QED
  BY <1>8, <1>9, <1>10, <1>11, <1>12 DEF d

-----------------------------------------------------------------------------
(* The dialog, and what it is asked for. *)

LEMMA FilesChanged ==
  ASSUME NEW old, NEW new, IsFiles(old), new = [i \in DOMAIN old |-> new[i]],
         \A i \in DOMAIN old : IsFile(old[i]) => IsFile(new[i])
  PROVE  IsFiles(new)
<1>1. CASE old = <<>>
  BY <1>1 DEF IsFiles
<1>2. CASE old # <<>>
  BY <1>2, FilesType DEF IsFiles
<1> QED
  BY <1>1, <1>2

LEMMA FileChanged ==
  ASSUME NEW f, IsFile(f), NEW value, NEW field \in {"path", "download", "priority"}
  PROVE  IsFile([f EXCEPT ![field] = value])
<1>1. PICK p, d, q : f = [path |-> p, download |-> d, priority |-> q]
  BY DEF IsFile
<1>2. CASE field = "path"
  <2>1. [f EXCEPT !["path"] = value] = [path |-> value, download |-> d, priority |-> q]
    BY <1>1
  <2> QED
    BY <1>2, <2>1 DEF IsFile
<1>3. CASE field = "download"
  <2>1. [f EXCEPT !["download"] = value] = [path |-> p, download |-> value, priority |-> q]
    BY <1>1
  <2> QED
    BY <1>3, <2>1 DEF IsFile
<1>4. CASE field = "priority"
  <2>1. [f EXCEPT !["priority"] = value] = [path |-> p, download |-> d, priority |-> value]
    BY <1>1
  <2> QED
    BY <1>4, <2>1 DEF IsFile
<1> QED
  BY <1>2, <1>3, <1>4

LEMMA WithFilesType ==
  ASSUME NEW files, IsFiles(files), NEW ids, NEW value, NEW field \in {"download", "priority"}
  PROVE  IsFiles(WithFiles(files, ids, field, value))
<1> DEFINE new == WithFiles(files, ids, field, value)
<1>1. new = [i \in DOMAIN files |-> new[i]]
  BY DEF WithFiles
<1>2. ASSUME NEW i \in DOMAIN files, IsFile(files[i]) PROVE IsFile(new[i])
  <2>1. new[i] = IF i \in ids THEN [files[i] EXCEPT ![field] = value] ELSE files[i]
    BY DEF WithFiles
  <2>2. IsFile([files[i] EXCEPT ![field] = value])
    BY <1>2, FileChanged
  <2> QED
    BY <1>2, <2>1, <2>2
<1> HIDE DEF new
<1>3. IsFiles(new)
  BY <1>1, <1>2, FilesChanged
<1> QED
  BY <1>3 DEF new

LEMMA UpdatedType == ASSUME NEW d, IsDialog(d) PROVE IsDialog(Updated(d))
<1> DEFINE shown == IF d.displayed # d.revision THEN d.files ELSE d.shown
           new == Updated(d)
<1>1. new = [d EXCEPT !.displayed = d.revision, !.shown = shown,
                      !.rows = Rows(shown, d.settings)]
  BY Zenon DEF Updated
<1>2. DOMAIN shown = DOMAIN d.settings
  BY DEF IsDialog
<1> HIDE DEF shown, new
<1>3. /\ DOMAIN new = DOMAIN d /\ new.settings = d.settings
      /\ new.files = d.files /\ new.shown = shown
  BY <1>1 DEF IsDialog, DialogFields
<1>4. IsDialog(new)
  BY <1>2, <1>3 DEF IsDialog
<1> QED
  BY <1>4 DEF new

LEMMA OpenedType == \A t, from : IsDialog(Opened(t, from))
<1> SUFFICES ASSUME NEW t, NEW from PROVE IsDialog(Opened(t, from))
  OBVIOUS
<1> DEFINE files == IF from = "link" THEN <<>> ELSE TorrentFiles
           settings == [i \in DOMAIN files |-> NoSettings]
           d == [torrent |-> t, from |-> from, start |-> TRUE, to |-> "",
                 trackers |-> TorrentTrackers, files |-> files, settings |-> settings,
                 revision |-> 1, displayed |-> 0, shown |-> files,
                 rows |-> Rows(<<>>, <<>>)]
<1>1. IsFiles(settings)
  BY NoFiles, AllFiles
<1>2. DOMAIN settings = DOMAIN files
  OBVIOUS
<1>3. Opened(t, from) = Updated(d)
  BY Zenon DEF Opened
<1> HIDE DEF files, settings
<1>4. IsDialog(d)
  <2>1. DialogFields \subseteq DOMAIN d /\ d.settings = settings
        /\ d.files = files /\ d.shown = files
    BY DEF DialogFields
  <2> HIDE DEF d
  <2> QED
    BY <1>1, <1>2, <2>1 DEF IsDialog
<1> HIDE DEF d
<1> QED
  BY <1>3, <1>4, UpdatedType

LEMMA EditType ==
  ASSUME IsDialog(dialog), Edit
  PROVE  IsDialog(dialog')
<1>1. ASSUME NEW ids, NEW value, NEW field \in {"download", "priority"},
             dialog' = Updated([dialog EXCEPT !.settings = WithFiles(@, ids, field, value)])
      PROVE  IsDialog(dialog')
  <2> DEFINE settings == WithFiles(dialog.settings, ids, field, value)
             d == [dialog EXCEPT !.settings = settings]
  <2>1. IsFiles(settings) /\ DOMAIN settings = DOMAIN dialog.settings
    <3>1. IsFiles(dialog.settings)
      BY DEF IsDialog
    <3>2. IsFiles(WithFiles(dialog.settings, ids, field, value))
      BY <3>1, WithFilesType
    <3>3. DOMAIN WithFiles(dialog.settings, ids, field, value) = DOMAIN dialog.settings
      BY DEF WithFiles
    <3> QED
      BY <3>2, <3>3
  <2>2. dialog' = Updated(d)
    BY <1>1
  <2> HIDE DEF settings
  <2>3. DOMAIN d = DOMAIN dialog /\ d.settings = settings /\ d.files = dialog.files
        /\ d.shown = dialog.shown
    BY DEF IsDialog, DialogFields
  <2> HIDE DEF d
  <2>4. IsDialog(d)
    BY <2>1, <2>3 DEF IsDialog
  <2> QED
    BY <2>2, <2>4, UpdatedType
<1>2. ASSUME NEW node, NEW text, EditPath(node, text) PROVE IsDialog(dialog')
  <2> DEFINE path == normalize(text)
             paths == Moved(dialog.shown, node, path)
             settings == [i \in DOMAIN paths |->
                             IF paths[i] # dialog.files[i]
                             THEN [dialog.settings[i] EXCEPT !.path = paths[i]]
                             ELSE dialog.settings[i]]
             d == WithPaths(dialog, paths)
  <2>1. dialog' = Updated(d)
    BY <1>2 DEF EditPath
  <2>2. DOMAIN paths = DOMAIN dialog.settings
    BY DEF Moved, IsDialog
  <2> HIDE DEF path, paths
  <2>3. d = [dialog EXCEPT !.settings = settings, !.files = paths,
                           !.revision = dialog.revision + 1]
    BY DEF WithPaths, IsDialog, DialogFields
  <2>4. IsFiles(settings) /\ DOMAIN settings = DOMAIN dialog.settings
    <3>1. ASSUME NEW i \in DOMAIN dialog.settings, IsFile(dialog.settings[i])
          PROVE  IsFile(settings[i])
      <4>1. IsFile([dialog.settings[i] EXCEPT !.path = paths[i]])
        BY <3>1 DEF IsFile
      <4> QED
        BY <2>2, <3>1, <4>1
    <3>2. settings = [i \in DOMAIN dialog.settings |-> settings[i]]
      BY <2>2
    <3> HIDE DEF settings
    <3>3. IsFiles(dialog.settings)
      BY DEF IsDialog
    <3>4. IsFiles(settings)
      BY <3>1, <3>2, <3>3, FilesChanged
    <3> QED
      BY <3>2, <3>4
  <2> HIDE DEF d, settings
  <2>5. DOMAIN d = DOMAIN dialog /\ d.settings = settings /\ d.files = paths
        /\ d.shown = dialog.shown
    BY <2>3 DEF IsDialog, DialogFields
  <2>6. IsDialog(d)
    BY <2>2, <2>4, <2>5 DEF IsDialog
  <2> QED
    BY <2>1, <2>6, UpdatedType
<1>3. ASSUME NEW d, dialog' = d, DOMAIN d = DOMAIN dialog, d.settings = dialog.settings,
             d.files = dialog.files, d.shown = dialog.shown
      PROVE  IsDialog(dialog')
  BY <1>3 DEF IsDialog
<1>4. ASSUME NEW trackers, dialog' = [dialog EXCEPT !.trackers = trackers]
      PROVE  IsDialog(dialog')
  BY <1>4 DEF IsDialog
<1>5. ASSUME NEW to, dialog' = [dialog EXCEPT !.to = to] PROVE IsDialog(dialog')
  BY <1>5 DEF IsDialog
<1>6. CASE dialog' = [dialog EXCEPT !.start = ~@]
  BY <1>6 DEF IsDialog
<1>7. CASE \E nodes \in SUBSET DOMAIN dialog.rows, download \in BOOLEAN :
              ChooseDownload(nodes, download)
  BY <1>1, <1>7 DEF ChooseDownload
<1>8. CASE \E nodes \in SUBSET DOMAIN dialog.rows, priority \in {"normal", "high"} :
              ChoosePriority(nodes, priority)
  BY <1>1, <1>8 DEF ChoosePriority
<1> QED
  BY <1>2, <1>4, <1>5, <1>6, <1>7, <1>8 DEF Edit

LEMMA AnswerType ==
  ASSUME DialogInv, dialog # Closed
  PROVE  IsFiles(Answer.files) /\ Answer # Nothing
<1>1. Answer.files = dialog.settings /\ "files" \in DOMAIN Answer
  BY DEF Answer
<1>2. Answer # Nothing
  BY <1>1 DEF Nothing
<1> QED
  BY <1>1, <1>2 DEF DialogInv, IsDialog

LEMMA PlainAnswerType ==
  ASSUME NEW to
  PROVE  LET new == [start |-> TRUE, to |-> to, files |-> <<>>, trackers |-> <<>>]
         IN IsFiles(new.files) /\ new # Nothing
<1> DEFINE new == [start |-> TRUE, to |-> to, files |-> <<>>, trackers |-> <<>>]
<1>1. new.files = <<>> /\ "files" \in DOMAIN new
  OBVIOUS
<1> HIDE DEF new
<1>2. IsFiles(new.files) /\ new # Nothing
  BY <1>1 DEF IsFiles, Nothing
<1> QED
  BY <1>2 DEF new

(* What is asked for comes from the dialog, and is kept until it is saved. *)
LEMMA ChoiceStep ==
  ASSUME DialogInv, AskedInv, [DataNext]_<<vars, dataVars>>
  PROVE  DialogInv' /\ AskedInv'
<1> USE DEF AskedInv, task, Goto, Done, Rollback
<1>1. ASSUME UNCHANGED <<dialog, asked>>,
             job' \in {"copy", "fill", "settings"} => job \in {"copy", "fill", "settings"}
      PROVE  DialogInv' /\ AskedInv'
  BY <1>1 DEF DialogInv
<1>2. ASSUME dialog' \in {dialog, Closed}, asked' = Nothing,
             job' \notin {"copy", "fill", "settings"}
      PROVE  DialogInv' /\ AskedInv'
  BY <1>2 DEF DialogInv
<1>3. ASSUME NEW t \in Torrents, NEW from, AddAsked(t, from) PROVE DialogInv' /\ AskedInv'
  <2>1. /\ dialog' \in {dialog, Closed}
        /\ \/ dialog # Closed /\ asked' = Answer
           \/ \E to : asked' = [start |-> TRUE, to |-> to, files |-> <<>>, trackers |-> <<>>]
    BY <1>3, Zenon DEF AddAsked, Close
  <2>2. IsFiles(asked'.files) /\ asked' # Nothing
    BY <2>1, AnswerType, PlainAnswerType
  <2> QED
    BY <2>1, <2>2 DEF DialogInv
<1>4. CASE CopyFile
  BY <1>1, <1>4 DEF CopyFile, OpenCopy, FillCopy, dataVars
<1>5. CASE WriteNewSettings
  BY <1>2, <1>5 DEF WriteNewSettings, WriteSettings
<1>6. CASE LoadNew
  BY <1>1, <1>6 DEF LoadNew, LoadAdded
<1>7. CASE EndRemoval
  BY <1>2, <1>7 DEF EndRemoval, RemoveDirectory
<1>8. CASE StoreStep
  BY <1>1, <1>8 DEF StoreStep, AddDuplicate, Drop, TakeAway, DeleteLoadedFile, Started,
              Stat, GiveUp, AddGone, dataVars
<1>9. ASSUME NEW part \in Parts, RemoveFile(part) PROVE DialogInv' /\ AskedInv'
  BY <1>1, <1>9 DEF RemoveFile, RemovePart
<1>10. CASE StartAll
  BY <1>1, <1>10 DEF StartAll, Start, dataVars
<1>11. CASE ExitAll
  BY <1>2, <1>11 DEF ExitAll, Exit
<1>12. CASE RunTask
  BY <1>1, <1>12 DEF RunTask, vars
<1>13. CASE UserDialog
  <2>1. UNCHANGED <<job, asked>>
    BY <1>13 DEF UserDialog, vars
  <2>2. dialog # Closed /\ Edit => IsDialog(dialog')
    BY EditType DEF DialogInv
  <2>3. \/ \E t \in Torrents, from \in {"link", "file"} : dialog' = Opened(t, from)
        \/ dialog # Closed /\ Edit
        \/ dialog' = Closed
    BY <1>13 DEF UserDialog, Open, Close, Edit
  <2> QED
    BY <2>1, <2>2, <2>3, OpenedType DEF DialogInv
<1>14. ASSUME NEW t \in Torrents,
              \/ LoadOld(t) \/ SaveData(t) \/ GetMetadata(t)
              \/ \E with_data \in BOOLEAN : RemoveTorrent(t, with_data)
              \/ \E i \in DOMAIN TorrentFiles : Download(t, i)
              \/ Complete(t) \/ finish_torrent(t) \/ Reject(t)
              \/ ChangeFiles(t) \/ ChangeOptions(t)
       PROVE  DialogInv' /\ AskedInv'
  <2>1. UNCHANGED <<dialog, asked>> /\ job' \in {job, "remove"}
    BY <1>14 DEF LoadOld, LoadStored, SaveData, SaveSettings, GetMetadata, SaveMetadata,
                RemoveTorrent, StartRemoval, Download, Complete, finish_torrent, Reject,
                ChangeFiles, ChangeOptions, Idle, vars
  <2> QED
    BY <1>1, <2>1
<1>15. CASE UNCHANGED <<vars, dataVars>>
  BY <1>1, <1>15 DEF vars, dataVars
<1> QED
  BY <1>3, <1>4, <1>5, <1>6, <1>7, <1>8, <1>9, <1>10, <1>11, <1>12, <1>13, <1>14, <1>15
     DEF DataNext

-----------------------------------------------------------------------------
(* What is saved, and what is loaded. *)

(* Nothing is saved or loaded. *)
LEMMA KeptQuiet ==
  ASSUME KeptInv, UNCHANGED <<data, written, saved, conf>>
  PROVE  KeptInv'
BY DEF KeptInv, IsData

(* The end of the download is revoked, or was not saved. *)
LEMMA AgainKeeps ==
  ASSUME KeptInv, NEW t \in Torrents, Again(t)
  PROVE  /\ saved' = [u \in Torrents |-> saved'[u]]
         /\ \A u \in Torrents \ {t} : saved'[u] = saved[u]
         /\ saved'[t] # Nothing <=> saved[t] # Nothing
         /\ saved'[t] # Nothing => IsSettings(saved'[t]) /\ saved'[t].last = -1
         /\ written[t] # Nothing => Means(written[t], saved'[t])
<1> DEFINE s == saved[t]
           new == [s EXCEPT !.last = -1]
<1>1. /\ saved' = [u \in Torrents |-> saved'[u]]
      /\ saved'[t] = IF s # Nothing THEN new ELSE s
      /\ \A u \in Torrents \ {t} : saved'[u] = saved[u]
  BY DEF KeptInv, Again
<1>2. ASSUME s # Nothing PROVE /\ IsSettings(new) /\ new.last = -1 /\ new # Nothing
                               /\ Means(written[t], s) => Means(written[t], new)
  <2>1. PICK paused, files, trackers, copying, to, last :
           s = [paused |-> paused, files |-> files, trackers |-> trackers,
                copy |-> copying, to |-> to, last |-> last]
    BY <1>2 DEF KeptInv, IsSettings
  <2>2. new = [paused |-> paused, files |-> files, trackers |-> trackers,
               copy |-> copying, to |-> to, last |-> -1]
    BY <2>1
  <2>3. IsFiles(s.files)
    BY <1>2 DEF KeptInv, IsSettings
  <2>4. /\ s.paused = paused /\ s.files = files /\ s.trackers = trackers
        /\ s.copy = copying /\ s.to = to
    BY <2>1
  <2>5. /\ new.paused = paused /\ new.files = files /\ new.trackers = trackers
        /\ new.copy = copying /\ new.to = to /\ new.last = -1
        /\ "last" \in DOMAIN new
    BY <2>2
  <2> HIDE DEF s, new
  <2>6. IsSettings(new)
    BY <2>2, <2>3, <2>4, <2>5, Zenon DEF IsSettings
  <2>7. Means(written[t], s) => Means(written[t], new)
    BY <2>4, <2>5 DEF Means, IsCopy
  <2>8. new # Nothing
    BY <2>5 DEF Nothing
  <2> QED
    BY <2>5, <2>6, <2>7, <2>8
<1> HIDE DEF s, new
<1>3. written[t] # Nothing => s # Nothing /\ Means(written[t], s)
  BY DEF KeptInv, s
<1> QED
  BY <1>1, <1>2, <1>3 DEF s

(* A torrent of the session changes, and keeps its last end of download or has it
   revoked. *)
LEMMA KeptChanged ==
  ASSUME KeptInv, NEW t \in Torrents, data[t] # Nothing, NEW d, With(t, d), IsData(d),
         UNCHANGED written, \A u \in Torrents : conf'[u] # "none" => written[u] # Nothing,
         \/ d.last = data[t].last /\ UNCHANGED saved
         \/ Again(t)
  PROVE  KeptInv'
<1>1. /\ data' = [u \in Torrents |-> data'[u]] /\ data'[t] = d
      /\ \A u \in Torrents \ {t} : data'[u] = data[u]
  BY DEF KeptInv, With
<1>2. CASE d.last = data[t].last /\ UNCHANGED saved
  BY <1>1, <1>2 DEF KeptInv
<1>3. CASE Again(t)
  <2>1. /\ saved' = [u \in Torrents |-> saved'[u]]
        /\ \A u \in Torrents \ {t} : saved'[u] = saved[u]
        /\ saved'[t] # Nothing <=> saved[t] # Nothing
        /\ saved'[t] # Nothing => IsSettings(saved'[t]) /\ saved'[t].last = -1
        /\ written[t] # Nothing => Means(written[t], saved'[t])
    BY <1>3, AgainKeeps
  <2> QED
    BY <1>1, <2>1 DEF KeptInv
<1> QED
  BY <1>2, <1>3

LEMMA ChangesType ==
  ASSUME NEW old, IsData(old)
  PROVE  /\ \A have : LET new == [old EXCEPT !.have = have]
                      IN IsData(new) /\ new.last = old.last
         /\ \A last : IsData([old EXCEPT !.last = last])
         /\ \A files : IsFiles(files) =>
               LET new == [old EXCEPT !.files = files]
               IN IsData(new) /\ new.last = old.last
         /\ \A trackers : LET new == [old EXCEPT !.trackers = trackers]
                          IN IsData(new) /\ new.last = old.last
         /\ \A paused : LET new == [old EXCEPT !.paused = paused]
                        IN IsData(new) /\ new.last = old.last
         /\ \A last : LET new == [old EXCEPT !.last = last, !.copy = FALSE]
                      IN IsData(new) /\ new.last = last
<1>1. DOMAIN old = DataFields /\ IsFiles(old.files) /\ IsCopy(old)
  BY DEF IsData
<1>2. ASSUME NEW new, DOMAIN new = DataFields, IsFiles(new.files),
             new.copy = old.copy, new.to = old.to
      PROVE  IsData(new)
  BY <1>1, <1>2, Zenon DEF IsData, IsCopy
<1>3. ASSUME NEW value, NEW field \in {"have", "last", "trackers", "paused"}
      PROVE  LET new == [old EXCEPT ![field] = value]
             IN IsData(new) /\ (field # "last" => new.last = old.last)
  <2> DEFINE new == [old EXCEPT ![field] = value]
  <2>1. /\ DOMAIN new = DataFields /\ new.files = old.files
        /\ new.copy = old.copy /\ new.to = old.to /\ (field # "last" => new.last = old.last)
    BY <1>1 DEF DataFields
  <2> HIDE DEF new
  <2>2. IsData(new)
    BY <1>1, <1>2, <2>1
  <2> QED
    BY <2>1, <2>2 DEF new
<1>4. ASSUME NEW files, IsFiles(files)
      PROVE  LET new == [old EXCEPT !.files = files]
             IN IsData(new) /\ new.last = old.last
  <2> DEFINE new == [old EXCEPT !.files = files]
  <2>1. /\ DOMAIN new = DataFields /\ new.files = files
        /\ new.copy = old.copy /\ new.to = old.to /\ new.last = old.last
    BY <1>1 DEF DataFields
  <2> HIDE DEF new
  <2>2. IsData(new)
    BY <1>2, <1>4, <2>1
  <2> QED
    BY <2>1, <2>2 DEF new
<1>5. ASSUME NEW last
      PROVE  LET new == [old EXCEPT !.last = last, !.copy = FALSE]
             IN IsData(new) /\ new.last = last
  <2> DEFINE new == [old EXCEPT !.last = last, !.copy = FALSE]
  <2>1. /\ DOMAIN new = DataFields /\ new.files = old.files
        /\ new.copy = FALSE /\ new.to = old.to /\ new.last = last
    BY <1>1 DEF DataFields
  <2> HIDE DEF new
  <2>2. IsCopy(new)
    BY <2>1 DEF IsCopy
  <2>3. IsData(new)
    BY <1>1, <2>1, <2>2 DEF IsData
  <2> QED
    BY <2>1, <2>3 DEF new
<1> QED
  BY <1>3, <1>4, <1>5

(* Whatever the session has is loaded. *)
LoadedInv == \A t \in Torrents : Loaded(t) => data[t] # Nothing

(* load_torrent(): what it has read is what was saved, if it could read it. *)
LEMMA LoadDataKeeps ==
  ASSUME KeptInv, LoadedInv, NEW t \in Torrents, LoadData(t),
         UNCHANGED <<conf, written>>, session \in [Torrents -> {"none", "link", "plain"}],
         \/ UNCHANGED session
         \/ \E known \in {"link", "plain"} : session' = [session EXCEPT ![t] = known]
  PROVE  /\ KeptInv' /\ LoadedInv'
         /\ \A u \in Torrents : data[u] = Nothing /\ data'[u] # Nothing =>
               \/ saved[u] # Nothing /\ Kept(data'[u], saved[u])
               \/ AsDefaults(data'[u])
<1>1. CASE UNCHANGED <<data, saved>> /\ (Loaded(t) \/ session'[t] = "none")
  <2>1. KeptInv'
    BY <1>1, KeptQuiet
  <2>2. LoadedInv'
    BY <1>1 DEF LoadedInv, Loaded
  <2> QED
    BY <1>1, <2>1, <2>2
<1>2. CASE ~Loaded(t) /\ session'[t] # "none"
  <2>1. PICK read \in BOOLEAN, known \in BOOLEAN :
           /\ read => conf[t] # "none"
           /\ With(t, NewTorrent(t, read, known))
           /\ IF read /\ known THEN UNCHANGED saved ELSE Again(t)
    BY <1>2 DEF LoadData
  <2>2. read => /\ saved[t] # Nothing /\ IsSettings(saved[t]) /\ Means(written[t], saved[t])
    BY <2>1 DEF KeptInv
  <2> DEFINE d == NewTorrent(t, read, known)
  <2>3. /\ IsData(d) /\ d # Nothing
        /\ read => Kept(d, saved[t])
        /\ read /\ known => saved[t].last \in {d.last, -1}
        /\ ~read => AsDefaults(d)
    BY <2>2, LoadedType
  <2> HIDE DEF d
  <2>4. /\ data' = [u \in Torrents |-> data'[u]] /\ data'[t] = d
        /\ \A u \in Torrents \ {t} : data'[u] = data[u]
    BY <2>1 DEF KeptInv, With, d
  <2>5. KeptInv'
    <3>1. CASE read /\ known
      <4>1. UNCHANGED saved
        BY <2>1, <3>1
      <4> QED
        BY <2>3, <2>4, <3>1, <4>1 DEF KeptInv
    <3>2. CASE ~(read /\ known)
      <4>1. /\ saved' = [u \in Torrents |-> saved'[u]]
            /\ \A u \in Torrents \ {t} : saved'[u] = saved[u]
            /\ saved'[t] # Nothing <=> saved[t] # Nothing
            /\ saved'[t] # Nothing => IsSettings(saved'[t]) /\ saved'[t].last = -1
            /\ written[t] # Nothing => Means(written[t], saved'[t])
        BY <2>1, <3>2, AgainKeeps
      <4> QED
        BY <2>3, <2>4, <4>1 DEF KeptInv
    <3> QED
      BY <3>1, <3>2
  <2>6. LoadedInv'
    BY <2>3, <2>4 DEF LoadedInv, Loaded
  <2> QED
    BY <2>2, <2>3, <2>4, <2>5, <2>6
<1> QED
  BY <1>1, <1>2 DEF LoadData

(* What is saved, by the session or of a new torrent. *)
LEMMA SavingKeeps ==
  ASSUME KeptInv, NEW t \in Torrents, NEW s, IsSettings(s), IsCopy(s),
         written' = [written EXCEPT ![t] = Written(s)], saved' = [saved EXCEPT ![t] = s],
         data[t] # Nothing => s.last \in {data[t].last, -1},
         UNCHANGED data, \A u \in Torrents \ {t} : conf'[u] # "none" => conf[u] # "none"
  PROVE  KeptInv'
<1>1. Means(Written(s), s) /\ Written(s) # Nothing
  BY SavedMeans
<1>2. s # Nothing
  BY DEF IsSettings, Nothing
<1>3. /\ written' = [u \in Torrents |-> written'[u]] /\ written'[t] = Written(s)
      /\ saved' = [u \in Torrents |-> saved'[u]] /\ saved'[t] = s
      /\ \A u \in Torrents \ {t} : written'[u] = written[u] /\ saved'[u] = saved[u]
  BY DEF KeptInv
<1> QED
  BY <1>1, <1>2, <1>3 DEF KeptInv

(* torrent.conf goes, and what was saved in it. *)
LEMMA RemovingKeeps ==
  ASSUME KeptInv, conf \in [Torrents -> {"none", "link", "plain"}], NEW t,
         conf' = [conf EXCEPT ![t] = "none"], UNCHANGED data,
         written' = [written EXCEPT ![t] = Nothing], saved' = [saved EXCEPT ![t] = Nothing]
  PROVE  KeptInv'
<1>1. CASE t \in Torrents
  <2>1. /\ written' = [u \in Torrents |-> written'[u]] /\ written'[t] = Nothing
        /\ saved' = [u \in Torrents |-> saved'[u]] /\ saved'[t] = Nothing
        /\ \A u \in Torrents \ {t} : /\ written'[u] = written[u] /\ saved'[u] = saved[u]
                                     /\ conf'[u] = conf[u]
        /\ conf'[t] = "none"
    BY <1>1 DEF KeptInv
  <2> QED
    BY <1>1, <2>1 DEF KeptInv
<1>2. CASE t \notin Torrents
  <2>1. UNCHANGED <<conf, written, saved>>
    BY <1>2 DEF KeptInv
  <2> QED
    BY <2>1, KeptQuiet
<1> QED
  BY <1>1, <1>2

(* Torrents leave the session. *)
LEMMA LeavingKeeps ==
  ASSUME KeptInv, UNCHANGED <<conf, written, saved>>,
         data' = [u \in Torrents |-> data'[u]],
         \A u \in Torrents : data'[u] \in {data[u], Nothing}
  PROVE  KeptInv'
BY DEF KeptInv

(* A torrent of the session changes. *)
LEMMA TorrentChanges ==
  ASSUME KeptInv, NEW t \in Torrents, UNCHANGED conf,
         \/ \E i \in DOMAIN TorrentFiles : Download(t, i)
         \/ GetMetadata(t) \/ finish_torrent(t) \/ Reject(t)
         \/ ChangeFiles(t) \/ ChangeOptions(t)
  PROVE  /\ KeptInv'
         /\ data[t] # Nothing
         /\ \E d : With(t, d) /\ d # Nothing
<1> DEFINE old == data[t]
<1>1. data[t] # Nothing /\ UNCHANGED written
  BY DEF Download, GetMetadata, finish_torrent, Reject, ChangeFiles, ChangeOptions, Idle
<1>2. IsData(old) /\ IsFiles(old.files)
  BY <1>1 DEF KeptInv, IsData
<1> HIDE DEF old
<1>3. ASSUME NEW d, With(t, d), IsData(d),
             \/ d.last = old.last /\ UNCHANGED saved
             \/ Again(t)
      PROVE  /\ KeptInv' /\ data[t] # Nothing
             /\ \E e : With(t, e) /\ e # Nothing
  <2>1. \A u \in Torrents : conf'[u] # "none" => written[u] # Nothing
    BY DEF KeptInv
  <2>2. KeptInv'
    BY <1>1, <1>3, <2>1, KeptChanged DEF old
  <2>3. d # Nothing
    BY <1>3 DEF IsData, DataFields, Nothing
  <2> QED
    BY <1>1, <1>3, <2>2, <2>3
<1>4. CASE \E i \in DOMAIN TorrentFiles : Download(t, i)
  <2>1. PICK i \in DOMAIN TorrentFiles : Download(t, i)
    BY <1>4
  <2>2. With(t, [old EXCEPT !.have = old.have \cup {i}]) /\ UNCHANGED saved
    BY <2>1 DEF Download, old
  <2> DEFINE d == [old EXCEPT !.have = old.have \cup {i}]
  <2>3. IsData(d) /\ d.last = old.last
    BY <1>2, ChangesType
  <2> HIDE DEF d
  <2> QED
    BY <1>3, <2>2, <2>3 DEF d
<1>5. CASE GetMetadata(t)
  <2>1. PICK have :
           With(t, [old EXCEPT !.metadata = TRUE,
                               !.files = [i \in DOMAIN TorrentFiles |-> NoSettings],
                               !.have = have])
    BY <1>5 DEF GetMetadata, old
  <2>2. UNCHANGED saved
    BY <1>5 DEF GetMetadata
  <2> DEFINE files == [i \in DOMAIN TorrentFiles |-> NoSettings]
             d == [old EXCEPT !.metadata = TRUE, !.files = files, !.have = have]
  <2>3. IsFiles(files)
    BY AllFiles
  <2>4. With(t, d)
    BY <2>1
  <2> HIDE DEF files
  <2>5. IsData(d) /\ d.last = old.last
    <3>1. /\ DOMAIN d = DataFields /\ d.files = files /\ d.copy = old.copy
          /\ d.to = old.to /\ d.last = old.last
      BY <1>2 DEF IsData, DataFields
    <3> HIDE DEF d
    <3>2. IsCopy(d)
      BY <1>2, <3>1, Zenon DEF IsData, IsCopy
    <3> QED
      BY <2>3, <3>1, <3>2 DEF IsData
  <2> HIDE DEF d
  <2> QED
    BY <1>3, <2>2, <2>4, <2>5
<1>6. CASE finish_torrent(t)
  <2>1. With(t, [old EXCEPT !.last = TotalDone(t), !.copy = FALSE])
        /\ IF data'[t].last # old.last THEN Again(t) ELSE UNCHANGED saved
    BY <1>6 DEF finish_torrent, old
  <2> DEFINE d == [old EXCEPT !.last = TotalDone(t), !.copy = FALSE]
  <2>2. IsData(d)
    BY <1>2, ChangesType
  <2>3. data'[t] = d
    BY <2>1 DEF With, KeptInv
  <2>4. d.last = TotalDone(t)
    BY <1>2, ChangesType
  <2>5. With(t, d)
    BY <2>1
  <2> HIDE DEF d
  <2> QED
    BY <1>3, <2>1, <2>2, <2>3, <2>4, <2>5
<1>7. CASE Reject(t)
  <2>1. With(t, [old EXCEPT !.last = -1]) /\ Again(t)
    BY <1>7 DEF Reject, old
  <2> DEFINE d == [old EXCEPT !.last = -1]
  <2>2. IsData(d)
    BY <1>2, ChangesType
  <2> HIDE DEF d
  <2> QED
    BY <1>3, <2>1, <2>2 DEF d
<1>8. CASE ChangeFiles(t)
  <2>1. UNCHANGED saved
    BY <1>8 DEF ChangeFiles
  <2>2. PICK field \in {"download", "priority"} : \E value, ids :
           With(t, [data[t] EXCEPT !.files = WithFiles(@, ids, field, value)])
    BY <1>8 DEF ChangeFiles
  <2>3. PICK value, ids :
           With(t, [old EXCEPT !.files = WithFiles(old.files, ids, field, value)])
    BY <2>2 DEF old
  <2> DEFINE files == WithFiles(old.files, ids, field, value)
             d == [old EXCEPT !.files = files]
  <2>4. IsFiles(files)
    BY <1>2, <2>3, WithFilesType
  <2>5. With(t, d)
    BY <2>3
  <2> HIDE DEF files
  <2>6. IsData(d) /\ d.last = old.last
    BY <1>2, <2>4, ChangesType
  <2> HIDE DEF d
  <2> QED
    BY <1>3, <2>1, <2>5, <2>6
<1>9. CASE ChangeOptions(t)
  <2>1. UNCHANGED saved
    BY <1>9 DEF ChangeOptions
  <2>2. ASSUME NEW trackers, With(t, [old EXCEPT !.trackers = trackers])
        PROVE  \E d : With(t, d) /\ IsData(d) /\ d.last = old.last
    <3> DEFINE d == [old EXCEPT !.trackers = trackers]
    <3>1. IsData(d) /\ d.last = old.last
      BY <1>2, ChangesType
    <3> HIDE DEF d
    <3> QED
      BY <2>2, <3>1 DEF d
  <2>3. ASSUME \E copying \in BOOLEAN, to \in Places :
                  (copying => to # "") /\ With(t, [old EXCEPT !.copy = copying, !.to = to])
        PROVE  \E d : With(t, d) /\ IsData(d) /\ d.last = old.last
    <3>1. PICK copying \in BOOLEAN, to \in Places :
             (copying => to # "") /\ With(t, [old EXCEPT !.copy = copying, !.to = to])
      BY <2>3
    <3> DEFINE d == [old EXCEPT !.copy = copying, !.to = to]
    <3>2. /\ DOMAIN d = DataFields /\ d.files = old.files /\ d.copy = copying
          /\ d.to = to /\ d.last = old.last
      BY <1>2 DEF IsData, DataFields
    <3>3. With(t, d)
      BY <3>1
    <3> HIDE DEF d
    <3>4. IsCopy(d)
      BY <3>1, <3>2 DEF IsCopy
    <3>5. IsData(d)
      BY <1>2, <3>2, <3>4 DEF IsData
    <3> QED
      BY <3>2, <3>3, <3>5
  <2>4. ASSUME NEW paused, With(t, [old EXCEPT !.paused = paused])
        PROVE  \E d : With(t, d) /\ IsData(d) /\ d.last = old.last
    <3> DEFINE d == [old EXCEPT !.paused = paused]
    <3>1. IsData(d) /\ d.last = old.last
      BY <1>2, ChangesType
    <3> HIDE DEF d
    <3> QED
      BY <2>4, <3>1 DEF d
  <2>5. \/ \E trackers \in TrackersChanges(old.trackers) :
              With(t, [old EXCEPT !.trackers = trackers])
        \/ \E copying \in BOOLEAN, to \in Places :
              (copying => to # "") /\ With(t, [old EXCEPT !.copy = copying, !.to = to])
        \/ With(t, [old EXCEPT !.paused = ~old.paused])
    BY <1>9, Zenon DEF ChangeOptions, old
  <2>6. \E d : With(t, d) /\ IsData(d) /\ d.last = old.last
    <3>1. CASE \E trackers \in TrackersChanges(old.trackers) :
                  With(t, [old EXCEPT !.trackers = trackers])
      BY <2>2, <3>1
    <3>2. CASE With(t, [old EXCEPT !.paused = ~old.paused])
      BY <2>4, <3>2
    <3> QED
      BY <2>3, <2>5, <3>1, <3>2, Zenon
  <2> QED
    BY <1>3, <2>1, <2>6
<1> QED
  BY <1>1, <1>4, <1>5, <1>6, <1>7, <1>8, <1>9 DEF old

ReadInv == StoreInv /\ AddInv /\ DialogInv /\ AskedInv /\ KeptInv /\ LoadedInv

(* What a step loads: what was saved, or what a torrent is without it. *)
AsSaved(t) ==
    data[t] = Nothing /\ data'[t] # Nothing =>
       \/ saved[t] # Nothing /\ Kept(data'[t], saved[t])
       \/ AsDefaults(data'[t])

LEMMA StepReads ==
  ASSUME ReadInv, [DataNext]_<<vars, dataVars>>
  PROVE  KeptInv' /\ LoadedInv' /\ \A t \in Torrents : AsSaved(t)
<1> USE DEF disk, task
<1>1. /\ conf \in [Torrents -> {"none", "link", "plain"}]
      /\ session \in [Torrents -> {"none", "link", "plain"}]
      /\ KeptInv /\ LoadedInv
  BY DEF ReadInv, StoreInv, TypeOK
<1>2. ASSUME UNCHANGED <<data, written, saved, conf, session>>
      PROVE  KeptInv' /\ LoadedInv' /\ \A t \in Torrents : AsSaved(t)
  BY <1>1, <1>2, KeptQuiet DEF LoadedInv, Loaded, AsSaved
<1>3. ASSUME UNCHANGED <<data, session>>, KeptInv'
      PROVE  KeptInv' /\ LoadedInv' /\ \A t \in Torrents : AsSaved(t)
  BY <1>1, <1>3 DEF LoadedInv, Loaded, AsSaved
<1>4. ASSUME NEW t \in Torrents, NEW from, AddAsked(t, from)
      PROVE  KeptInv' /\ LoadedInv' /\ \A u \in Torrents : AsSaved(u)
  BY <1>2, <1>4 DEF AddAsked, Add
<1>5. CASE CopyFile
  BY <1>2, <1>5 DEF CopyFile, OpenCopy, FillCopy, dataVars
<1>6. CASE WriteNewSettings
  <2> DEFINE settings == NewSettings(asked, how = "link")
  <2>1. UNCHANGED <<data, session>> /\ job = "settings"
    BY <1>6 DEF WriteNewSettings, WriteSettings
  <2>2. CASE conf' = conf
    <3>1. UNCHANGED <<written, saved>>
      BY <1>6, <2>2 DEF WriteNewSettings
    <3> QED
      BY <1>2, <2>1, <2>2, <3>1
  <2>3. CASE conf' # conf
    <3>1. /\ written' = [written EXCEPT ![torrent] = Written(settings)]
          /\ saved' = [saved EXCEPT ![torrent] = settings]
      BY <1>6, <2>3 DEF WriteNewSettings
    <3>2. /\ torrent \in Torrents
          /\ \A u \in Torrents \ {torrent} : conf'[u] = conf[u]
      BY <1>1, <1>6, <2>1 DEF WriteNewSettings, WriteSettings, ReadInv, AddInv
    <3>3. IsSettings(settings) /\ IsCopy(settings)
      BY <2>1, NewSettingsType DEF ReadInv, AskedInv
    <3>4. settings.last = -1
      BY DEF NewSettings
    <3> HIDE DEF settings
    <3>5. KeptInv'
      BY <1>1, <2>1, <3>1, <3>2, <3>3, <3>4, SavingKeeps
    <3> QED
      BY <1>3, <2>1, <3>5
  <2> QED
    BY <2>2, <2>3
<1>7. CASE LoadNew
  <2>1. /\ LoadData(torrent) /\ job = "load" /\ UNCHANGED <<conf, written>>
        /\ \/ LoadTorrent(torrent) \/ UNCHANGED session
    BY <1>7 DEF LoadNew, LoadAdded
  <2>2. torrent \in Torrents
    BY <2>1 DEF ReadInv, AddInv
  <2>3. \/ UNCHANGED session
        \/ \E known \in {"link", "plain"} : session' = [session EXCEPT ![torrent] = known]
    BY <2>1 DEF LoadTorrent
  <2> QED
    BY <1>1, <2>1, <2>2, <2>3, LoadDataKeeps DEF AsSaved
<1>8. CASE EndRemoval
  BY <1>2, <1>8 DEF EndRemoval, RemoveDirectory
<1>9. CASE StoreStep
  BY <1>2, <1>9 DEF StoreStep, AddDuplicate, Drop, TakeAway, DeleteLoadedFile, Started,
              Stat, GiveUp, AddGone, dataVars
<1>10. ASSUME NEW part \in Parts, RemoveFile(part)
       PROVE  KeptInv' /\ LoadedInv' /\ \A t \in Torrents : AsSaved(t)
  <2>1. UNCHANGED <<data, session>>
    BY <1>10 DEF RemoveFile, RemovePart
  <2>2. CASE conf' = conf
    <3>1. UNCHANGED <<written, saved>>
      BY <1>10, <2>2 DEF RemoveFile
    <3> QED
      BY <1>2, <2>1, <2>2, <3>1
  <2>3. CASE conf' # conf
    <3>1. /\ conf' = [conf EXCEPT ![torrent] = "none"]
          /\ written' = [written EXCEPT ![torrent] = Nothing]
          /\ saved' = [saved EXCEPT ![torrent] = Nothing]
      BY <1>10, <2>3 DEF RemoveFile, RemovePart
    <3>2. KeptInv'
      BY <1>1, <2>1, <3>1, RemovingKeeps
    <3> QED
      BY <1>3, <2>1, <3>2
  <2> QED
    BY <2>2, <2>3
<1>11. CASE StartAll
  BY <1>2, <1>11 DEF StartAll, Start, dataVars
<1>12. CASE ExitAll
  <2>1. /\ UNCHANGED <<conf, written, saved>> /\ data' = [t \in Torrents |-> Nothing]
        /\ session' = [t \in Torrents |-> "none"]
    BY <1>12 DEF ExitAll, Exit
  <2>2. KeptInv'
    BY <1>1, <2>1, LeavingKeeps
  <2> QED
    BY <2>1, <2>2 DEF LoadedInv, Loaded, AsSaved
<1>13. CASE RunTask
  BY <1>2, <1>13 DEF RunTask, vars
<1>14. CASE UserDialog
  BY <1>2, <1>14 DEF UserDialog, vars
<1>15. ASSUME NEW t \in Torrents, LoadOld(t)
       PROVE  KeptInv' /\ LoadedInv' /\ \A u \in Torrents : AsSaved(u)
  <2>1. /\ LoadData(t) /\ UNCHANGED <<conf, written>>
        /\ \/ LoadTorrent(t) \/ UNCHANGED session
    BY <1>15 DEF LoadOld, LoadStored
  <2>2. \/ UNCHANGED session
        \/ \E known \in {"link", "plain"} : session' = [session EXCEPT ![t] = known]
    BY <2>1 DEF LoadTorrent
  <2> QED
    BY <1>1, <2>1, <2>2, LoadDataKeeps DEF AsSaved
<1>16. ASSUME NEW t \in Torrents, SaveData(t)
       PROVE  KeptInv' /\ LoadedInv' /\ \A u \in Torrents : AsSaved(u)
  <2> DEFINE s == Settings(data[t])
  <2>1. /\ UNCHANGED <<data, session>> /\ Loaded(t)
        /\ conf' = [conf EXCEPT ![t] = session[t]]
        /\ written' = [written EXCEPT ![t] = Written(s)]
        /\ saved' = [saved EXCEPT ![t] = s]
    BY <1>16 DEF SaveData, SaveSettings
  <2>2. IsData(data[t])
    BY <1>1, <2>1 DEF LoadedInv, KeptInv
  <2>3. IsSettings(s) /\ IsCopy(s) /\ s.last = data[t].last
    BY <2>2, SettingsType
  <2> HIDE DEF s
  <2>4. \A u \in Torrents \ {t} : conf'[u] # "none" => conf[u] # "none"
    BY <2>1
  <2>5. KeptInv'
    BY <1>1, <2>1, <2>3, <2>4, SavingKeeps
  <2> QED
    BY <1>3, <2>1, <2>5
<1>17. ASSUME NEW t \in Torrents, NEW with_data, RemoveTorrent(t, with_data)
       PROVE  KeptInv' /\ LoadedInv' /\ \A u \in Torrents : AsSaved(u)
  <2>1. /\ UNCHANGED <<conf, written, saved>> /\ With(t, Nothing)
        /\ session' = [session EXCEPT ![t] = "none"]
    BY <1>17 DEF RemoveTorrent, StartRemoval
  <2>2. /\ data' = [u \in Torrents |-> data'[u]] /\ data'[t] = Nothing
        /\ \A u \in Torrents \ {t} : data'[u] = data[u] /\ session'[u] = session[u]
        /\ session'[t] = "none"
    BY <1>1, <2>1 DEF With, KeptInv
  <2>3. KeptInv'
    BY <1>1, <2>1, <2>2, LeavingKeeps
  <2> QED
    BY <1>1, <2>2, <2>3 DEF LoadedInv, Loaded, AsSaved
<1>18. ASSUME NEW t \in Torrents, Complete(t)
       PROVE  KeptInv' /\ LoadedInv' /\ \A u \in Torrents : AsSaved(u)
  BY <1>2, <1>18 DEF Complete, vars
<1>19. ASSUME NEW t \in Torrents,
              \/ \E i \in DOMAIN TorrentFiles : Download(t, i)
              \/ GetMetadata(t) \/ finish_torrent(t) \/ Reject(t)
              \/ ChangeFiles(t) \/ ChangeOptions(t)
       PROVE  KeptInv' /\ LoadedInv' /\ \A u \in Torrents : AsSaved(u)
  <2>1. UNCHANGED <<conf, session>>
    BY <1>19 DEF Download, GetMetadata, SaveMetadata, finish_torrent, Reject, ChangeFiles,
                 ChangeOptions, Idle, vars
  <2>2. KeptInv' /\ data[t] # Nothing /\ \E d : With(t, d) /\ d # Nothing
    BY <1>1, <1>19, <2>1, TorrentChanges
  <2>3. /\ data'[t] # Nothing
        /\ \A u \in Torrents \ {t} : data'[u] = data[u]
    BY <1>1, <2>2 DEF With, KeptInv
  <2> QED
    BY <1>1, <2>1, <2>2, <2>3 DEF LoadedInv, Loaded, AsSaved
<1>20. CASE UNCHANGED <<vars, dataVars>>
  BY <1>2, <1>20 DEF vars, dataVars
<1> QED
  BY <1>4, <1>5, <1>6, <1>7, <1>8, <1>9, <1>10, <1>11, <1>12, <1>13, <1>14, <1>15, <1>16,
     <1>17, <1>18, <1>19, <1>20 DEF DataNext

LEMMA ReadInit == NewInit \/ OldInit => ReadInv
<1>1. ASSUME NewInit \/ OldInit PROVE StoreInv /\ AddInv
  BY <1>1, InitStore, OldStore DEF NewInit, OldInit, AddInv, Init
<1>2. ASSUME NewInit \/ OldInit PROVE DialogInv /\ AskedInv /\ LoadedInv
  BY <1>2 DEF NewInit, OldInit, DataInit, DialogInv, AskedInv, LoadedInv, Loaded, Init
<1>3. ASSUME NewInit PROVE KeptInv
  BY <1>3 DEF NewInit, DataInit, Init, KeptInv
<1>4. ASSUME OldInit PROVE KeptInv
  <2>1. PICK t \in Torrents, old \in OldConfigs :
           /\ conf = [other \in Torrents |-> IF other = t THEN "plain" ELSE "none"]
           /\ written = [other \in Torrents |-> IF other = t THEN old.config ELSE Nothing]
           /\ saved = [other \in Torrents |-> IF other = t THEN old.means ELSE Nothing]
    BY <1>4 DEF OldInit
  <2>2. data = [u \in Torrents |-> Nothing]
    BY <1>4 DEF OldInit, DataInit
  <2> QED
    BY <2>1, <2>2, OldMeans DEF KeptInv
<1> QED
  BY <1>1, <1>2, <1>3, <1>4 DEF ReadInv

LEMMA ReadInvariance == DataSpec => []ReadInv
<1>1. ReadInv /\ [DataNext]_<<vars, dataVars>> => ReadInv'
  BY DataSteps, StepStore, StepAdds, ChoiceStep, StepReads DEF ReadInv
<1> QED
  BY <1>1, ReadInit, PTL DEF DataSpec

(* A start loads what was chosen and saved last, though an older version may have
   saved it, or what a torrent is by default when it cannot read its settings:
   torrent.conf always means what was saved, and nobody forgets what was saved
   while it is there. *)
THEOREM RestartKeeps == DataSpec => RestartKeepsTorrent
<1>1. ReadInv /\ [DataNext]_<<vars, dataVars>> =>
         [\A t \in Torrents :
             data[t] = Nothing /\ data'[t] # Nothing =>
                \/ saved[t] # Nothing /\ Kept(data'[t], saved[t])
                \/ /\ data'[t].trackers = TorrentTrackers
                   /\ \A option \in {"paused", "copy", "to", "last"} :
                         data'[t][option] = Defaults[option]]_<<vars, dataVars>>
  BY StepReads DEF AsSaved, AsDefaults
<1> QED
  BY <1>1, ReadInvariance, PTL DEF DataSpec, RestartKeepsTorrent

(* What was told and saved is not told again: the session has the last end of the
   download that was saved, unless that was revoked. *)
THEOREM NotToldAgain == DataSpec => ToldOnce
<1>1. ReadInv /\ IInv =>
         [\A t \in Torrents :
             finish_torrent(t) /\ Tells(t) /\ saved[t] # Nothing =>
                saved[t].last \notin {TotalDone(t), -2}]_<<vars, dataVars>>
  <2> SUFFICES ASSUME ReadInv, IInv, NEW t \in Torrents, finish_torrent(t), Tells(t),
                      saved[t] # Nothing
               PROVE  saved[t].last \notin {TotalDone(t), -2}
    OBVIOUS
  <2>1. data[t] # Nothing
    BY DEF finish_torrent, Idle
  <2>2. saved[t].last \in {data[t].last, -1}
    BY <2>1 DEF ReadInv, KeptInv
  <2>3. IsFiles(data[t].files) /\ data[t].have \subseteq DOMAIN data[t].files
    BY <2>1 DEF ReadInv, KeptInv, IsData, IInv, FilesInv, DataInv, IsTorrent
  <2>4. IsFiniteSet(DOMAIN data[t].files)
    <3>1. DOMAIN TorrentFiles = 1 .. Len(TorrentFiles) /\ Len(TorrentFiles) \in Nat
      BY DialogAssumption, LenProperties DEF DialogAssumption
    <3>2. DOMAIN data[t].files = {} \/ DOMAIN data[t].files = DOMAIN TorrentFiles
      BY <2>3, FilesType
    <3>3. IsFiniteSet(1 .. Len(TorrentFiles))
      BY <3>1, FS_Interval
    <3>4. IsFiniteSet({})
      BY FS_EmptySet
    <3>5. CASE DOMAIN data[t].files = {}
      BY <3>4, <3>5
    <3>6. CASE DOMAIN data[t].files = DOMAIN TorrentFiles
      BY <3>1, <3>3, <3>6
    <3> QED
      BY <3>2, <3>5, <3>6
  <2>5. TotalDone(t) \in Nat
    BY <2>3, <2>4, FS_Subset, FS_CardinalityType DEF TotalDone
  <2> QED
    BY <2>2, <2>5 DEF Tells
<1> QED
  BY <1>1, ReadInvariance, Invariance, PTL DEF DataSpec, ToldOnce

-----------------------------------------------------------------------------
(* Induction, over sets of numbers: the library's theorems about it take an
   operator, which the provers cannot instantiate, but its facts about
   well-founded relations take a set. *)
LEMMA LeastExists ==
  ASSUME NEW T \in SUBSET Nat, T # {} PROVE \E x \in T : \A y \in T : x <= y
<1> DEFINE Less == {p \in Nat \X Nat : p[1] < p[2]}
<1>1. IsWellFoundedOn(Less, Nat)
  BY NatLessThanWellFounded DEF OpToRel
<1>2. PICK x \in T : \A y \in T : ~(<<y, x>> \in Less)
  BY <1>1, WFMin
<1>3. ASSUME NEW y \in T PROVE x <= y
  <2>1. <<y, x>> \in Nat \X Nat /\ <<y, x>>[1] = y /\ <<y, x>>[2] = x
    OBVIOUS
  <2>2. ~(y < x)
    BY <1>2, <2>1
  <2> QED
    BY <2>2
<1> QED
  BY <1>3

LEMMA Induction ==
  ASSUME NEW n \in Nat, NEW S, 0 \in S, \A k \in 1..n : k - 1 \in S => k \in S
  PROVE  0..n \subseteq S
<1> DEFINE T == (0..n) \ S
<1> SUFFICES ASSUME T # {} PROVE FALSE
  OBVIOUS
<1>1. PICK x \in T : \A y \in T : x <= y
  <2>1. T \in SUBSET Nat
    OBVIOUS
  <2> HIDE DEF T
  <2> QED
    BY <2>1, LeastExists
<1>2. x \in 1..n /\ x \notin S
  OBVIOUS
<1>3. x - 1 \in 0..n /\ ~(x <= x - 1)
  BY <1>2
<1>4. x - 1 \in S
  BY <1>1, <1>3
<1> QED
  BY <1>2, <1>4

(* The greatest of some numbers, as the folds choose it. *)
Greatest(s) == CHOOSE x \in s : \A y \in s : x >= y

LEMMA GreatestIs ==
  ASSUME NEW n \in Nat, NEW s \in SUBSET (1..n), s # {}
  PROVE  /\ Greatest(s) \in s
         /\ s \ {Greatest(s)} \subseteq 1..(Greatest(s) - 1)
         /\ \A k \in 1..n : s \subseteq 1..k => Greatest(s) \in 1..k
<1> DEFINE T == {n - x : x \in s}
<1>1. T \in SUBSET Nat /\ T # {}
  <2>1. \A x \in s : n - x \in Nat /\ n - x \in T
    OBVIOUS
  <2> QED
    BY <2>1
<1>2. PICK t \in T : \A y \in T : t <= y
  BY <1>1, LeastExists
<1>3. PICK x \in s : t = n - x
  OBVIOUS
<1>4. \A y \in s : x >= y
  <2>1. ASSUME NEW y \in s PROVE x >= y
    <3>1. n - y \in T
      OBVIOUS
    <3>2. n - x <= n - y
      BY <1>2, <1>3, <3>1
    <3>3. x \in 1..n /\ y \in 1..n
      OBVIOUS
    <3> QED
      BY <3>2, <3>3
  <2> QED
    BY <2>1
<1>5. Greatest(s) \in s /\ \A y \in s : Greatest(s) >= y
  BY <1>4 DEF Greatest
<1>6. ASSUME NEW y \in s \ {Greatest(s)} PROVE y \in 1..(Greatest(s) - 1)
  <2>1. y \in 1..n /\ Greatest(s) \in 1..n /\ Greatest(s) >= y /\ y # Greatest(s)
    BY <1>5
  <2> QED
    BY <2>1
<1> QED
  BY <1>5, <1>6

LEMMA GreatestOfFirst ==
  ASSUME NEW n \in Nat, NEW k \in 1..n
  PROVE  /\ 1..k \in SUBSET (1..n) /\ 1..k # {}
         /\ Greatest(1..k) = k /\ (1..k) \ {k} = 1..(k - 1)
<1> DEFINE s == 1..k
<1>1. s \in SUBSET (1..n) /\ k \in s /\ \A x \in s : x <= k
  OBVIOUS
<1>2. s \ {k} = 1..(k - 1)
  OBVIOUS
<1> HIDE DEF s
<1>3. Greatest(s) \in s /\ s \ {Greatest(s)} \subseteq 1..(Greatest(s) - 1)
  BY <1>1, GreatestIs
<1>4. Greatest(s) = k
  <2>1. Greatest(s) \in 1..n /\ Greatest(s) <= k
    BY <1>1, <1>3
  <2>2. k \notin 1..(Greatest(s) - 1)
    BY <2>1
  <2> QED
    BY <1>1, <1>3, <2>2
<1> QED
  BY <1>1, <1>2, <1>4 DEF s

(* The recursion of a fold from the left: what op[i] makes of what was got so
   far, for every i of a set. *)
FoldStep(base, op, f, s) ==
    IF s = {} THEN base ELSE op[Greatest(s)][f[s \ {Greatest(s)}]]

IsOp(n, S, op) == op \in [1..n -> [S -> S]]
IsFold(n, S, base, op, f) ==
    /\ f \in [SUBSET (1..n) -> S]
    /\ \A s \in SUBSET (1..n) : f[s] = FoldStep(base, op, f, s)

LEMMA FoldExists ==
  ASSUME NEW n \in Nat, NEW S, NEW base \in S, NEW op, IsOp(n, S, op)
  PROVE  \E f : IsFold(n, S, base, op, f)
<1> USE DEF IsOp
<1> DEFINE Sets(k) == SUBSET (1..k)
           Left(f, k) == f \in [SUBSET (1..n) -> S]
                         /\ \A s \in Sets(k) : f[s] = FoldStep(base, op, f, s)
           K == {k \in 0..n : \E f : Left(f, k)}
<1>1. 0 \in K
  <2> DEFINE f == [s \in SUBSET (1..n) |-> base]
  <2>1. ASSUME NEW s \in Sets(0) PROVE f[s] = FoldStep(base, op, f, s)
    <3>1. s = {}
      OBVIOUS
    <3> QED
      BY <3>1 DEF FoldStep
  <2>2. f \in [SUBSET (1..n) -> S]
    OBVIOUS
  <2> HIDE DEF f
  <2>3. Left(f, 0)
    BY <2>1, <2>2
  <2>4. 0 \in 0..n
    OBVIOUS
  <2> HIDE DEF Left
  <2> QED
    BY <2>3, <2>4
<1>2. ASSUME NEW k \in 1..n, k - 1 \in K PROVE k \in K
  <2>1. PICK f : Left(f, k - 1)
    BY <1>2
  <2> DEFINE g == [s \in SUBSET (1..n) |->
                      IF s \subseteq 1..(k - 1) \/ ~(s \subseteq 1..k) THEN f[s]
                      ELSE FoldStep(base, op, f, s)]
  <2>2. ASSUME NEW s \in Sets(k), s # {}
        PROVE  /\ s \in SUBSET (1..n) /\ Greatest(s) \in 1..n
               /\ s \ {Greatest(s)} \in Sets(k - 1)
               /\ s \ {Greatest(s)} \in SUBSET (1..n)
    <3>1. s \in SUBSET (1..n)
      OBVIOUS
    <3>2. Greatest(s) \in 1..k /\ s \ {Greatest(s)} \subseteq 1..(Greatest(s) - 1)
      BY <2>2, <3>1, GreatestIs
    <3>3. 1..(Greatest(s) - 1) \subseteq 1..(k - 1)
      BY <3>2
    <3> QED
      BY <3>1, <3>2, <3>3
  <2>3. g \in [SUBSET (1..n) -> S]
    <3>1. ASSUME NEW s \in SUBSET (1..n)
          PROVE  (IF s \subseteq 1..(k - 1) \/ ~(s \subseteq 1..k) THEN f[s]
                  ELSE FoldStep(base, op, f, s)) \in S
      <4>1. CASE s \subseteq 1..(k - 1) \/ ~(s \subseteq 1..k)
        BY <2>1, <4>1
      <4>2. CASE s \subseteq 1..k /\ s # {}
        <5>1. FoldStep(base, op, f, s) \in S
          <6>1. f[s \ {Greatest(s)}] \in S
            BY <2>1, <2>2, <4>2
          <6> QED
            BY <2>2, <4>2, <6>1 DEF FoldStep
        <5> QED
          BY <2>1, <5>1
      <4> QED
        BY <4>1, <4>2
    <3> QED
      BY <3>1
  <2>4. ASSUME NEW s \in Sets(k) PROVE g[s] = FoldStep(base, op, g, s)
    <3>1. s \in SUBSET (1..n)
      OBVIOUS
    <3>2. g[s] = FoldStep(base, op, f, s)
      BY <2>1, <3>1
    <3>3. CASE s = {}
      BY <3>2, <3>3 DEF FoldStep
    <3>4. CASE s # {}
      <4> DEFINE rest == s \ {Greatest(s)}
      <4>1. rest \in Sets(k - 1) /\ rest \in SUBSET (1..n)
        BY <2>2, <3>4
      <4>2. g[rest] = f[rest]
        BY <4>1
      <4> HIDE DEF g
      <4> QED
        BY <3>2, <3>4, <4>2 DEF FoldStep
    <3> QED
      BY <3>3, <3>4
  <2> HIDE DEF g
  <2>5. Left(g, k)
    BY <2>3, <2>4
  <2> HIDE DEF Left
  <2> QED
    BY <2>5
<1> HIDE DEF K
<1>3. n \in K
  <2>1. 0..n \subseteq K
    BY <1>1, <1>2, Induction
  <2> QED
    BY <2>1
<1>4. PICK f : Left(f, n)
  BY <1>3 DEF K
<1> QED
  BY <1>4 DEF IsFold

(* Paths, and the tree they make. *)
LEMMA Beginning ==
  ASSUME NEW t \in Seq(STRING), NEW n \in 0..Len(t)
  PROVE  /\ SubSeq(t, 1, n) \in Seq(STRING) /\ Len(SubSeq(t, 1, n)) = n
         /\ \A i \in 1..n : SubSeq(t, 1, n)[i] = t[i]
OBVIOUS

LEMMA PrefixIs ==
  ASSUME NEW s \in Seq(STRING), NEW t \in Seq(STRING)
  PROVE  /\ IsPrefix(s, t) <=> /\ Len(s) <= Len(t)
                               /\ \A i \in 1..Len(s) : s[i] = t[i]
         /\ s \in Ancestors(t) <=> IsPrefix(s, t) /\ Len(s) \in 1..(Len(t) - 1)
         /\ IsPrefix(s, t) => s = t \/ s = Root \/ s \in Ancestors(t)
         /\ Len(s) = 0 <=> s = Root
<1>1. Len(s) \in Nat /\ Len(t) \in Nat
  OBVIOUS
<1>2. IsPrefix(s, t) <=> Len(s) <= Len(t) /\ \A i \in 1..Len(s) : s[i] = t[i]
  <2>1. CASE Len(s) <= Len(t)
    <3> DEFINE b == SubSeq(t, 1, Len(s))
    <3>1. b \in Seq(STRING) /\ Len(b) = Len(s) /\ \A i \in 1..Len(s) : b[i] = t[i]
      BY <1>1, <2>1, Beginning
    <3>2. SubSeq(s, 1, Len(s)) = s
      OBVIOUS
    <3>3. IsPrefix(s, t) <=> s = b
      BY <2>1, <3>2 DEF IsPrefix
    <3> HIDE DEF b
    <3>4. s = b <=> \A i \in 1..Len(s) : s[i] = b[i]
      BY <3>1
    <3> QED
      BY <2>1, <3>1, <3>3, <3>4
  <2> QED
    BY <2>1 DEF IsPrefix
<1>3. s \in Ancestors(t) <=> Len(s) \in 1..(Len(t) - 1) /\ \A i \in 1..Len(s) : s[i] = t[i]
  <2>1. ASSUME s \in Ancestors(t)
        PROVE  Len(s) \in 1..(Len(t) - 1) /\ \A i \in 1..Len(s) : s[i] = t[i]
    <3>1. PICK n \in 1..(Len(t) - 1) : s = SubSeq(t, 1, n)
      BY <2>1 DEF Ancestors
    <3> QED
      BY <3>1, Beginning
  <2>2. ASSUME Len(s) \in 1..(Len(t) - 1), \A i \in 1..Len(s) : s[i] = t[i]
        PROVE  s \in Ancestors(t)
    <3> DEFINE b == SubSeq(t, 1, Len(s))
    <3>1. b \in Seq(STRING) /\ Len(b) = Len(s) /\ \A i \in 1..Len(s) : b[i] = t[i]
      BY <1>1, <2>2, Beginning
    <3> HIDE DEF b
    <3>2. s = b
      BY <2>2, <3>1
    <3> QED
      BY <2>2, <3>2 DEF Ancestors, b
  <2> QED
    BY <2>1, <2>2
<1>4. Len(s) = 0 <=> s = Root
  BY DEF Root
<1>5. Len(s) = Len(t) /\ (\A i \in 1..Len(s) : s[i] = t[i]) => s = t
  OBVIOUS
<1> QED
  BY <1>1, <1>2, <1>3, <1>4, <1>5

LEMMA AncestorsType ==
  ASSUME NEW t \in Seq(STRING) PROVE Ancestors(t) \subseteq Seq(STRING)
<1>1. ASSUME NEW s \in Ancestors(t) PROVE s \in Seq(STRING)
  <2>1. PICK n \in 1..(Len(t) - 1) : s = SubSeq(t, 1, n)
    BY DEF Ancestors
  <2> QED
    BY <2>1, Beginning
<1> QED
  BY <1>1

-----------------------------------------------------------------------------
(* No file is in the place of another, or of a directory that leads to it. *)
Separate(paths, k) ==
    /\ \A i \in 1..k : paths[i] # Root
    /\ \A i, j \in 1..k : i # j => ~IsPrefix(paths[i], paths[j])
TreeOf(paths, k) ==
    [files |-> {paths[i] : i \in 1..k}, dirs |-> UNION {Ancestors(paths[i]) : i \in 1..k}]

LEMMA EmptyTree ==
  ASSUME NEW paths
  PROVE  TreeOf(paths, 0) = [files |-> {}, dirs |-> {}] /\ Separate(paths, 0)
<1>1. 1..0 = {}
  OBVIOUS
<1>2. {paths[i] : i \in 1..0} = {} /\ UNION {Ancestors(paths[i]) : i \in 1..0} = {}
  BY <1>1
<1> QED
  BY <1>1, <1>2 DEF TreeOf, Separate

LEMMA InsertGrows ==
  ASSUME NEW paths \in Seq(Seq(STRING)), NEW k \in 1..Len(paths),
         Separate(paths, k - 1), Insert(TreeOf(paths, k - 1), paths[k]) # NoTree
  PROVE  /\ Separate(paths, k)
         /\ Insert(TreeOf(paths, k - 1), paths[k]) = TreeOf(paths, k)
<1> DEFINE tree == TreeOf(paths, k - 1)
           new == paths[k]
<1>1. /\ new # Root /\ new \notin tree.files \cup tree.dirs
      /\ Ancestors(new) \cap tree.files = {}
      /\ Insert(tree, new) = [files |-> tree.files \cup {new},
                              dirs |-> tree.dirs \cup Ancestors(new)]
  BY DEF Insert
<1>2. /\ tree.files = {paths[i] : i \in 1..(k - 1)}
      /\ tree.dirs = UNION {Ancestors(paths[i]) : i \in 1..(k - 1)}
  BY DEF TreeOf
<1>3. \A i \in 1..k : paths[i] \in Seq(STRING) /\ (i = k \/ i \in 1..(k - 1))
  OBVIOUS
<1>4. 1..k = (1..(k - 1)) \cup {k}
  OBVIOUS
<1> HIDE DEF tree
<1>5. ASSUME NEW i \in 1..(k - 1) PROVE ~IsPrefix(paths[i], new) /\ ~IsPrefix(new, paths[i])
  <2>1. paths[i] \in Seq(STRING) /\ new \in Seq(STRING) /\ paths[i] # Root
    BY <1>3 DEF Separate
  <2>2. new # paths[i] /\ new \notin Ancestors(paths[i]) /\ paths[i] \notin Ancestors(new)
    BY <1>1, <1>2
  <2> QED
    BY <1>1, <2>1, <2>2, PrefixIs
<1>6. Separate(paths, k)
  BY <1>1, <1>3, <1>5 DEF Separate
<1>7. tree.files \cup {new} = {paths[i] : i \in 1..k}
  BY <1>2, <1>4
<1>8. tree.dirs \cup Ancestors(new) = UNION {Ancestors(paths[i]) : i \in 1..k}
  BY <1>2, <1>4
<1> QED
  BY <1>1, <1>6, <1>7, <1>8 DEF TreeOf, tree

LEMMA CreateIs ==
  ASSUME NEW paths \in Seq(Seq(STRING)), create(paths) # NoTree
  PROVE  Separate(paths, Len(paths)) /\ create(paths) = TreeOf(paths, Len(paths))
<1> DEFINE n == Len(paths)
           base == [files |-> {}, dirs |-> {}]
           Trees == [files : SUBSET Seq(STRING), dirs : SUBSET Seq(STRING)]
           op == [k \in 1..n |-> [tree \in Trees |-> Insert(tree, paths[k])]]
           Step(f, s) == IF s = {} THEN base
                         ELSE Insert(f[s \ {Greatest(s)}], paths[Greatest(s)])
           f == CHOOSE f : f = [s \in SUBSET (DOMAIN paths) |-> Step(f, s)]
<1>1. create(paths) = f[DOMAIN paths]
  BY DEF create, FoldLeft, MapThenFoldSet, Max, Greatest
<1>2. n \in Nat /\ DOMAIN paths = 1..n
  OBVIOUS
<1>3. \A s \in SUBSET (1..n) : f[s] = Step(f, s)
  <2>1. IsOp(n, Trees, op)
    <3>1. ASSUME NEW k \in 1..n, NEW tree \in Trees PROVE Insert(tree, paths[k]) \in Trees
      <4>1. paths[k] \in Seq(STRING) /\ Ancestors(paths[k]) \subseteq Seq(STRING)
        BY AncestorsType
      <4>2. Root \in Seq(STRING)
        BY DEF Root
      <4> QED
        BY <4>1, <4>2 DEF Insert, NoTree
    <3> QED
      BY <3>1 DEF IsOp
  <2>2. base \in Trees
    OBVIOUS
  <2> HIDE DEF base, Trees
  <2>3. PICK g : IsFold(n, Trees, base, op, g)
    <3> HIDE DEF op, n
    <3> QED
      BY <1>2, <2>1, <2>2, FoldExists
  <2> USE DEF IsFold
  <2>4. ASSUME NEW s \in SUBSET (1..n) PROVE g[s] = Step(g, s)
    <3>1. CASE s = {}
      BY <2>3, <3>1 DEF FoldStep
    <3>2. CASE s # {}
      <4>1. Greatest(s) \in 1..n
        BY <1>2, <3>2, GreatestIs
      <4>2. g[s \ {Greatest(s)}] \in Trees
        BY <2>3
      <4> QED
        BY <2>3, <3>2, <4>1, <4>2 DEF FoldStep
    <3> QED
      BY <3>1, <3>2
  <2>5. g = [s \in SUBSET (DOMAIN paths) |-> Step(g, s)]
    BY <1>2, <2>3, <2>4
  <2> HIDE DEF Step
  <2>6. f = [s \in SUBSET (DOMAIN paths) |-> Step(f, s)]
    BY <2>5
  <2> QED
    BY <1>2, <2>6
<1> HIDE DEF f
<1> DEFINE K == {k \in 0..n : \/ f[1..k] = NoTree
                              \/ f[1..k] = TreeOf(paths, k) /\ Separate(paths, k)}
<1>4. 0 \in K
  <2>1. 1..0 = {} /\ {} \in SUBSET (1..n)
    OBVIOUS
  <2>2. f[1..0] = base
    BY <1>3, <2>1
  <2>3. f[1..0] = TreeOf(paths, 0) /\ Separate(paths, 0)
    BY <2>2, EmptyTree
  <2>4. 0 \in 0..n
    BY <1>2
  <2> HIDE DEF base
  <2> QED
    BY <2>3, <2>4
<1>5. ASSUME NEW k \in 1..n, k - 1 \in K PROVE k \in K
  <2>1. /\ 1..k \in SUBSET (1..n) /\ 1..k # {}
        /\ Greatest(1..k) = k /\ (1..k) \ {k} = 1..(k - 1)
    BY <1>2, GreatestOfFirst
  <2>2. f[1..k] = Step(f, 1..k)
    BY <1>3, <2>1
  <2>3. f[1..k] = Insert(f[1..(k - 1)], paths[k])
    BY <2>1, <2>2
  <2>4. CASE f[1..(k - 1)] = NoTree
    <3>1. f[1..k] = NoTree
      BY <2>3, <2>4 DEF Insert
    <3> QED
      BY <1>2, <3>1
  <2>5. CASE f[1..(k - 1)] = TreeOf(paths, k - 1) /\ Separate(paths, k - 1)
    <3> DEFINE new == Insert(TreeOf(paths, k - 1), paths[k])
    <3>1. k \in 1..Len(paths)
      OBVIOUS
    <3>2. new = NoTree \/ (new = TreeOf(paths, k) /\ Separate(paths, k))
      BY <2>5, <3>1, InsertGrows
    <3>3. k \in 0..n
      BY <1>2
    <3> QED
      BY <2>3, <2>5, <3>2, <3>3
  <2> QED
    BY <1>5, <2>4, <2>5
<1> HIDE DEF K
<1>6. n \in K
  <2>1. 0..n \subseteq K
    <3> HIDE DEF n
    <3> QED
      BY <1>2, <1>4, <1>5, Induction
  <2> QED
    BY <1>2, <2>1
<1> QED
  BY <1>1, <1>2, <1>6 DEF K

(* No files make no tree, and are allowed. *)
LEMMA EmptyCreated == create(<<>>) # NoTree
<1> DEFINE base == [files |-> {}, dirs |-> {}]
           Step(f, s) == IF s = {} THEN base
                         ELSE Insert(f[s \ {Greatest(s)}], <<>>[Greatest(s)])
           f == CHOOSE f : f = [s \in SUBSET (DOMAIN <<>>) |-> Step(f, s)]
<1>1. create(<<>>) = f[DOMAIN <<>>]
  BY DEF create, FoldLeft, MapThenFoldSet, Max, Greatest
<1>2. DOMAIN <<>> = {}
  OBVIOUS
<1>3. f = [s \in SUBSET (DOMAIN <<>>) |-> Step(f, s)]
  <2> DEFINE g == [s \in SUBSET {} |-> base]
  <2>1. ASSUME NEW s \in SUBSET (DOMAIN <<>>) PROVE g[s] = Step(g, s)
    BY <1>2
  <2>2. g = [s \in SUBSET (DOMAIN <<>>) |-> Step(g, s)]
    BY <1>2, <2>1
  <2> HIDE DEF g, Step
  <2> QED
    BY <2>2
<1>4. f[{}] = base
  BY <1>2, <1>3
<1>5. base # NoTree
  <2>1. base.files # NoTree.files
    BY DEF NoTree
  <2> QED
    BY <2>1
<1> QED
  BY <1>1, <1>2, <1>4, <1>5

LEMMA NormalizeType ==
  ASSUME NEW names \in Seq(STRING) PROVE normalize(names) \in Seq(STRING)
<1> DEFINE n == Len(names)
           S == Seq(STRING)
           Walk(path, name) == CASE name \in {"", "."} -> path
                                 [] name = ".." /\ path = Root -> path
                                 [] name = ".." /\ path # Root -> Front(path)
                                 [] OTHER -> Append(path, name)
           op == [k \in 1..n |-> [path \in S |-> Walk(path, names[k])]]
           Step(f, s) == IF s = {} THEN Root
                         ELSE Walk(f[s \ {Greatest(s)}], names[Greatest(s)])
           f == CHOOSE f : f = [s \in SUBSET (DOMAIN names) |-> Step(f, s)]
<1>1. normalize(names) = f[DOMAIN names]
  BY DEF normalize, FoldLeft, MapThenFoldSet, Max, Greatest
<1>2. n \in Nat /\ DOMAIN names = 1..n
  OBVIOUS
<1>3. Root \in S
  BY DEF Root
<1>4. IsOp(n, S, op)
  <2>1. ASSUME NEW k \in 1..n, NEW path \in S PROVE Walk(path, names[k]) \in S
    <3>1. path # Root => Front(path) \in S
      BY DEF Front, Root
    <3>2. Append(path, names[k]) \in S
      OBVIOUS
    <3> QED
      BY <3>1, <3>2
  <2> HIDE DEF Walk
  <2> QED
    BY <2>1 DEF IsOp
<1> HIDE DEF S, Walk
<1>5. PICK g : IsFold(n, S, Root, op, g)
  <2> HIDE DEF op, n
  <2> QED
    BY <1>2, <1>3, <1>4, FoldExists
<1>6. ASSUME NEW s \in SUBSET (1..n) PROVE g[s] = Step(g, s)
  <2>1. CASE s = {}
    BY <1>5, <2>1 DEF IsFold, FoldStep
  <2>2. CASE s # {}
    <3>1. Greatest(s) \in 1..n
      BY <1>2, <2>2, GreatestIs
    <3>2. g[s \ {Greatest(s)}] \in S
      BY <1>5 DEF IsFold
    <3> QED
      BY <1>5, <2>2, <3>1, <3>2 DEF IsFold, FoldStep
  <2> QED
    BY <2>1, <2>2
<1>7. g = [s \in SUBSET (DOMAIN names) |-> Step(g, s)]
  BY <1>2, <1>5, <1>6 DEF IsFold
<1> HIDE DEF Step
<1>8. f = [s \in SUBSET (DOMAIN names) |-> Step(f, s)]
  BY <1>7
<1> HIDE DEF f
<1> DEFINE K == {k \in 0..n : f[1..k] \in S}
<1>9. 0 \in K
  <2>1. 1..0 = {} /\ {} \in SUBSET (1..n) /\ 0 \in 0..n
    BY <1>2
  <2>2. f[1..0] = Root
    BY <1>2, <1>8, <2>1 DEF Step
  <2> QED
    BY <1>3, <2>1, <2>2
<1>10. ASSUME NEW k \in 1..n, k - 1 \in K PROVE k \in K
  <2>1. /\ 1..k \in SUBSET (1..n) /\ 1..k # {}
        /\ Greatest(1..k) = k /\ (1..k) \ {k} = 1..(k - 1)
    BY <1>2, GreatestOfFirst
  <2>2. f[1..k] = Step(f, 1..k)
    BY <1>2, <1>8, <2>1
  <2>3. f[1..k] = Walk(f[1..(k - 1)], names[k])
    BY <2>1, <2>2 DEF Step
  <2>4. f[1..(k - 1)] \in S
    BY <1>10
  <2>5. Walk(f[1..(k - 1)], names[k]) = op[k][f[1..(k - 1)]]
    BY <2>4
  <2>6. op[k][f[1..(k - 1)]] \in S
    BY <1>4, <2>4 DEF IsOp
  <2>7. k \in 0..n
    BY <1>2
  <2> QED
    BY <2>3, <2>5, <2>6, <2>7
<1> HIDE DEF K
<1>11. n \in K
  <2>1. 0..n \subseteq K
    <3> HIDE DEF n
    <3> QED
      BY <1>2, <1>9, <1>10, Induction
  <2> QED
    BY <1>2, <2>1
<1> QED
  BY <1>1, <1>2, <1>11 DEF K, S

LEMMA MovedType ==
  ASSUME NEW paths \in Seq(Seq(STRING)), NEW node \in Seq(STRING), NEW path \in Seq(STRING)
  PROVE  Moved(paths, node, path) \in Seq(Seq(STRING))
         /\ DOMAIN Moved(paths, node, path) = DOMAIN paths
<1> DEFINE new(p) == IF IsPrefix(node, p)
                     THEN normalize(path \o SubSeq(p, Len(node) + 1, Len(p)))
                     ELSE p
<1>1. ASSUME NEW p \in Seq(STRING) PROVE new(p) \in Seq(STRING)
  <2>1. SubSeq(p, Len(node) + 1, Len(p)) \in Seq(STRING)
    OBVIOUS
  <2>2. path \o SubSeq(p, Len(node) + 1, Len(p)) \in Seq(STRING)
    BY <2>1
  <2> QED
    BY <2>2, NormalizeType
<1>2. Moved(paths, node, path) = [i \in 1..Len(paths) |-> new(paths[i])]
  BY DEF Moved
<1>3. \A i \in 1..Len(paths) : paths[i] \in Seq(STRING)
  OBVIOUS
<1> HIDE DEF new
<1>4. [i \in 1..Len(paths) |-> new(paths[i])] \in [1..Len(paths) -> Seq(STRING)]
  BY <1>1, <1>3
<1>5. [1..Len(paths) -> Seq(STRING)] \subseteq Seq(Seq(STRING)) /\ DOMAIN paths = 1..Len(paths)
  <2> DEFINE n == Len(paths)
             P == Seq(STRING)
  <2>1. n \in Nat /\ DOMAIN paths = 1..n
    OBVIOUS
  <2> HIDE DEF n, P
  <2>2. ASSUME NEW s \in [1..n -> P] PROVE s \in Seq(P)
    BY <2>1
  <2> QED
    BY <2>1, <2>2 DEF n, P
<1> QED
  BY <1>2, <1>4, <1>5

-----------------------------------------------------------------------------
(* What is chosen for files, and what a row says of the files below it. *)
IsChoice(f) == f.download \in BOOLEAN /\ f.priority \in {"normal", "high"}
Summary(below) ==
    [download |-> \A f \in below : f.download,
     partially |-> (\E f \in below : f.download) /\ (\E f \in below : ~f.download),
     priority |-> IF \A f \in below : f.priority = "normal" THEN "normal"
                  ELSE IF \A f \in below : f.priority = "high" THEN "high" ELSE ""]
Under(paths, settings, node) ==
    {settings[i] : i \in {j \in DOMAIN paths : IsPrefix(node, paths[j])}}
Nodes(paths) == UNION {Ancestors(paths[i]) \cup {paths[i]} : i \in DOMAIN paths}

(* What update_rows() makes of the rows of the children. *)
Common(children) ==
    LET some == CHOOSE child \in children : TRUE
        wanted == \A child \in children : child.download
    IN  [download |-> wanted,
         partially |-> /\ ~wanted
                       /\ \E child \in children : child.download \/ child.partially,
         priority |-> IF \A child \in children : child.priority = some.priority
                      THEN some.priority ELSE ""]

LEMMA SummaryIs ==
  ASSUME NEW below, \A f \in below : IsChoice(f), below # {}
  PROVE  LET row == Summary(below)
         IN  /\ row.download \in BOOLEAN /\ row.partially \in BOOLEAN
             /\ row.download <=> \A f \in below : f.download
             /\ row.partially <=> (\E f \in below : f.download) /\ (\E f \in below : ~f.download)
             /\ row.priority \in {"normal", "high", ""}
             /\ row.priority = "normal" <=> \A f \in below : f.priority = "normal"
             /\ row.priority = "high" <=> \A f \in below : f.priority = "high"
<1>1. \A f \in below : f.priority = "normal" \/ f.priority = "high"
  BY DEF IsChoice
<1>2. \E f \in below : f.priority = "normal" \/ f.priority = "high"
  BY <1>1
<1> QED
  BY <1>1, <1>2 DEF Summary

(* Summaries of parts make the summary of the whole. *)
LEMMA SummariesMerge ==
  ASSUME NEW below, NEW parts,
         below # {}, \A f \in below : IsChoice(f),
         \A part \in parts : part # {} /\ part \subseteq below,
         \A f \in below : \E part \in parts : f \in part
  PROVE  Common({Summary(part) : part \in parts}) = Summary(below)
<1> DEFINE children == {Summary(part) : part \in parts}
           some == CHOOSE child \in children : TRUE
           wanted == \A child \in children : child.download
           half == \E child \in children : child.download \/ child.partially
           same == \A child \in children : child.priority = some.priority
<1>1. ASSUME NEW part \in parts
      PROVE  /\ Summary(part) \in children
             /\ Summary(part).download \in BOOLEAN /\ Summary(part).partially \in BOOLEAN
             /\ Summary(part).download <=> \A f \in part : f.download
             /\ Summary(part).partially <=> (\E f \in part : f.download)
                                            /\ (\E f \in part : ~f.download)
             /\ Summary(part).priority \in {"normal", "high", ""}
             /\ Summary(part).priority = "normal" <=> \A f \in part : f.priority = "normal"
             /\ Summary(part).priority = "high" <=> \A f \in part : f.priority = "high"
             /\ part # {} /\ part \subseteq below
  <2>1. part # {} /\ \A f \in part : IsChoice(f)
    OBVIOUS
  <2> QED
    BY <2>1, SummaryIs
<1>2. \A child \in children : \E part \in parts : child = Summary(part)
  OBVIOUS
<1>3. some \in children
  OBVIOUS
<1>4. \A f \in below : f.priority = "normal" \/ f.priority = "high"
  BY DEF IsChoice
<1> HIDE DEF children, some
<1>5. wanted <=> \A f \in below : f.download
  BY <1>1, <1>2
<1>6. (~wanted /\ half) <=> (\E f \in below : f.download) /\ (\E f \in below : ~f.download)
  <2>1. ASSUME NEW f \in below, f.download PROVE half
    <3>1. PICK part \in parts : f \in part
      OBVIOUS
    <3>2. Summary(part).download \/ Summary(part).partially
      BY <1>1, <2>1, <3>1
    <3> QED
      BY <1>1, <3>2
  <2>2. ASSUME half PROVE \E f \in below : f.download
    <3>1. PICK child \in children : child.download \/ child.partially
      BY <2>2
    <3>2. PICK part \in parts : child = Summary(part)
      BY <1>2
    <3>3. \E f \in part : f.download
      BY <1>1, <3>1, <3>2
    <3> QED
      BY <3>3
  <2> HIDE DEF wanted, half
  <2> QED
    BY <1>5, <2>1, <2>2
<1>7. (IF same THEN some.priority ELSE "") = Summary(below).priority
  <2> DEFINE p == Summary(below).priority
  <2>1. /\ p \in {"normal", "high", ""}
        /\ p = "normal" <=> \A f \in below : f.priority = "normal"
        /\ p = "high" <=> \A f \in below : f.priority = "high"
    BY SummaryIs
  <2> HIDE DEF p
  <2>2. ASSUME NEW value \in {"normal", "high"}
        PROVE  (\A f \in below : f.priority = value) <=> same /\ some.priority = value
    <3>1. ASSUME NEW part \in parts
          PROVE  Summary(part).priority = value <=> \A f \in part : f.priority = value
      BY <1>1
    <3>2. ASSUME \A f \in below : f.priority = value PROVE same /\ some.priority = value
      <4>1. \A child \in children : child.priority = value
        <5>1. ASSUME NEW child \in children PROVE child.priority = value
          <6>1. PICK part \in parts : child = Summary(part)
            BY <1>2
          <6>2. \A f \in part : f.priority = value
            BY <3>2
          <6> QED
            BY <3>1, <6>1, <6>2
        <5> QED
          BY <5>1
      <4> QED
        BY <1>3, <4>1
    <3>3. ASSUME same, some.priority = value PROVE \A f \in below : f.priority = value
      BY <1>1, <3>1, <3>3
    <3> QED
      BY <3>2, <3>3
  <2>3. some.priority \in {"normal", "high", ""}
    BY <1>1, <1>2, <1>3
  <2> QED
    BY <2>1, <2>2, <2>3 DEF p
<1>8. Common(children) = [download |-> wanted, partially |-> ~wanted /\ half,
                          priority |-> IF same THEN some.priority ELSE ""]
  BY DEF Common, some
<1>9. /\ wanted = (\A f \in below : f.download)
      /\ (~wanted /\ half) = ((\E f \in below : f.download) /\ (\E f \in below : ~f.download))
  BY <1>5, <1>6
<1> HIDE DEF wanted, half, same
<1> QED
  BY <1>7, <1>8, <1>9, Zenon DEF Summary, children

LEMMA NodeIs ==
  ASSUME NEW paths \in Seq(Seq(STRING)), Separate(paths, Len(paths))
  PROVE  /\ \A node \in Nodes(paths) :
                /\ node \in Seq(STRING) /\ Len(node) \in Nat \ {0}
                /\ \E i \in DOMAIN paths : IsPrefix(node, paths[i])
         /\ \A node \in Seq(STRING), i \in DOMAIN paths :
                Len(node) > 0 /\ IsPrefix(node, paths[i]) => node \in Nodes(paths)
<1>1. DOMAIN paths = 1..Len(paths) /\ \A i \in DOMAIN paths : paths[i] \in Seq(STRING)
  OBVIOUS
<1>2. ASSUME NEW node \in Nodes(paths)
      PROVE  /\ node \in Seq(STRING) /\ Len(node) \in Nat \ {0}
             /\ \E i \in DOMAIN paths : IsPrefix(node, paths[i])
  <2>1. PICK i \in DOMAIN paths : node \in Ancestors(paths[i]) \cup {paths[i]}
    BY DEF Nodes
  <2>2. node \in Seq(STRING) /\ paths[i] \in Seq(STRING)
    BY <1>1, <2>1, AncestorsType
  <2>3. CASE node = paths[i]
    <3>1. node # Root
      BY <1>1, <2>3 DEF Separate
    <3>2. Len(node) # 0
      BY <2>2, <3>1, PrefixIs
    <3>3. IsPrefix(node, paths[i])
      BY <2>3 DEF IsPrefix
    <3> QED
      BY <2>2, <3>2, <3>3
  <2>4. CASE node \in Ancestors(paths[i])
    <3>1. IsPrefix(node, paths[i]) /\ Len(node) \in 1..(Len(paths[i]) - 1)
      BY <2>2, <2>4, PrefixIs
    <3> QED
      BY <2>2, <3>1
  <2> QED
    BY <2>1, <2>3, <2>4
<1>3. ASSUME NEW node \in Seq(STRING), NEW i \in DOMAIN paths, Len(node) > 0,
             IsPrefix(node, paths[i])
      PROVE  node \in Nodes(paths)
  <2>1. node = paths[i] \/ node \in Ancestors(paths[i])
    <3>1. paths[i] \in Seq(STRING) /\ Len(node) # 0
      BY <1>1, <1>3
    <3> QED
      BY <1>3, <3>1, PrefixIs
  <2> QED
    BY <2>1 DEF Nodes
<1> QED
  BY <1>2, <1>3

LEMMA SamePath ==
  ASSUME NEW s \in Seq(STRING), NEW t \in Seq(STRING), Len(s) = Len(t),
         \A i \in 1..Len(s) : s[i] = t[i]
  PROVE  s = t
OBVIOUS

LEMMA FrontIs ==
  ASSUME NEW s \in Seq(STRING), Len(s) > 0
  PROVE  /\ Front(s) \in Seq(STRING) /\ Len(Front(s)) = Len(s) - 1
         /\ \A i \in 1..(Len(s) - 1) : Front(s)[i] = s[i]
<1>1. Len(s) - 1 \in 0..Len(s)
  OBVIOUS
<1> QED
  BY <1>1, Beginning DEF Front

(* The files below a directory are those below its children. *)
LEMMA ChildrenAre ==
  ASSUME NEW paths \in Seq(Seq(STRING)), Separate(paths, Len(paths)),
         NEW node \in Nodes(paths), \A i \in DOMAIN paths : paths[i] # node
  PROVE  /\ \A i \in DOMAIN paths :
                IsPrefix(node, paths[i]) =>
                    \E child \in Nodes(paths) : Front(child) = node /\ IsPrefix(child, paths[i])
         /\ \A child \in Nodes(paths) :
                Front(child) = node =>
                    /\ Len(child) = Len(node) + 1
                    /\ \A i \in DOMAIN paths :
                           IsPrefix(child, paths[i]) => IsPrefix(node, paths[i])
<1>1. node \in Seq(STRING) /\ Len(node) \in Nat \ {0}
      /\ \A i \in DOMAIN paths : paths[i] \in Seq(STRING)
  BY NodeIs
<1>2. ASSUME NEW i \in DOMAIN paths, IsPrefix(node, paths[i])
      PROVE  \E child \in Nodes(paths) : Front(child) = node /\ IsPrefix(child, paths[i])
  <2> DEFINE path == paths[i]
             child == SubSeq(path, 1, Len(node) + 1)
  <2>1. path \in Seq(STRING) /\ node # path
    BY <1>1
  <2>2. Len(node) <= Len(path) /\ \A k \in 1..Len(node) : node[k] = path[k]
    BY <1>1, <1>2, <2>1, PrefixIs
  <2>3. Len(node) # Len(path)
    BY <1>1, <2>1, <2>2
  <2>4. Len(node) + 1 \in 0..Len(path)
    BY <1>1, <2>1, <2>2, <2>3
  <2> HIDE DEF path
  <2>5. /\ child \in Seq(STRING) /\ Len(child) = Len(node) + 1
        /\ \A k \in 1..(Len(node) + 1) : child[k] = path[k]
    BY <2>1, <2>4, Beginning
  <2> HIDE DEF child
  <2> DEFINE front == Front(child)
             m == Len(node)
  <2>6. front \in Seq(STRING) /\ Len(front) = m /\ \A k \in 1..m : front[k] = child[k]
    <3>1. Len(child) > 0 /\ Len(child) - 1 = m
      BY <1>1, <2>5
    <3> HIDE DEF m
    <3> QED
      BY <2>5, <3>1, FrontIs
  <2> HIDE DEF front
  <2>7. front = node
    <3>1. \A k \in 1..m : front[k] = node[k]
      <4>1. \A k \in 1..m : k \in 1..(m + 1)
        BY <1>1
      <4> HIDE DEF m
      <4> QED
        BY <2>2, <2>5, <2>6, <4>1 DEF m
    <3> QED
      BY <1>1, <2>6, <3>1, SamePath
  <2>8. IsPrefix(child, path)
    <3>1. Len(child) <= Len(path) /\ \A k \in 1..Len(child) : child[k] = path[k]
      BY <2>1, <2>4, <2>5
    <3> QED
      BY <2>1, <2>5, <3>1, PrefixIs
  <2>9. child \in Nodes(paths)
    BY <1>1, <2>5, <2>8, NodeIs DEF path
  <2> QED
    BY <2>7, <2>8, <2>9 DEF path, front
<1>3. ASSUME NEW child \in Nodes(paths), Front(child) = node
      PROVE  /\ Len(child) = Len(node) + 1
             /\ \A i \in DOMAIN paths : IsPrefix(child, paths[i]) => IsPrefix(node, paths[i])
  <2>1. child \in Seq(STRING) /\ Len(child) \in Nat \ {0}
    BY NodeIs
  <2>2. Len(node) = Len(child) - 1 /\ \A k \in 1..(Len(child) - 1) : node[k] = child[k]
    BY <1>3, <2>1, FrontIs
  <2>3. ASSUME NEW i \in DOMAIN paths, IsPrefix(child, paths[i]) PROVE IsPrefix(node, paths[i])
    <3> DEFINE path == paths[i]
    <3>1. path \in Seq(STRING)
      BY <1>1
    <3> HIDE DEF path
    <3>2. Len(child) <= Len(path) /\ \A k \in 1..Len(child) : child[k] = path[k]
      BY <2>1, <2>3, <3>1, PrefixIs DEF path
    <3>3. Len(node) <= Len(path)
      BY <2>1, <2>2, <3>1, <3>2
    <3>4. ASSUME NEW k \in 1..Len(node) PROVE node[k] = path[k]
      <4>1. k \in 1..(Len(child) - 1) /\ k \in 1..Len(child)
        BY <2>1, <2>2
      <4> QED
        BY <2>2, <3>2, <4>1
    <3> QED
      BY <1>1, <3>1, <3>3, <3>4, PrefixIs DEF path
  <2> QED
    BY <2>1, <2>2, <2>3
<1> QED
  BY <1>2, <1>3

LEMMA LengthsBounded ==
  ASSUME NEW paths \in Seq(Seq(STRING)), Separate(paths, Len(paths))
  PROVE  \E N \in Nat : \A node \in Nodes(paths) : Len(node) <= N
<1> DEFINE n == Len(paths)
           K == {k \in 0..n : \E N \in Nat : \A i \in 1..k : Len(paths[i]) <= N}
<1>1. n \in Nat /\ DOMAIN paths = 1..n /\ \A i \in 1..n : paths[i] \in Seq(STRING)
  OBVIOUS
<1>2. 0 \in K
  <2>1. \A i \in 1..0 : Len(paths[i]) <= 0
    OBVIOUS
  <2>2. 0 \in Nat /\ 0 \in 0..n
    BY <1>1
  <2> QED
    BY <2>1, <2>2
<1>3. ASSUME NEW k \in 1..n, k - 1 \in K PROVE k \in K
  <2>1. PICK N \in Nat : \A i \in 1..(k - 1) : Len(paths[i]) <= N
    BY <1>3
  <2>2. Len(paths[k]) \in Nat
    BY <1>1
  <2> DEFINE M == N + Len(paths[k])
  <2>3. ASSUME NEW i \in 1..k PROVE Len(paths[i]) <= M
    <3>1. i = k \/ i \in 1..(k - 1)
      OBVIOUS
    <3>2. Len(paths[i]) \in Nat
      BY <1>1
    <3> QED
      BY <2>1, <2>2, <3>1, <3>2
  <2>4. M \in Nat /\ k \in 0..n
    BY <1>1, <2>2
  <2> HIDE DEF M
  <2> QED
    BY <2>3, <2>4
<1> HIDE DEF K
<1>4. n \in K
  <2>1. 0..n \subseteq K
    <3> HIDE DEF n
    <3> QED
      BY <1>1, <1>2, <1>3, Induction
  <2> QED
    BY <1>1, <2>1
<1>5. PICK N \in Nat : \A i \in 1..n : Len(paths[i]) <= N
  BY <1>4 DEF K
<1>6. ASSUME NEW node \in Nodes(paths) PROVE Len(node) <= N
  <2>1. node \in Seq(STRING) /\ \E i \in DOMAIN paths : IsPrefix(node, paths[i])
    BY NodeIs
  <2>2. PICK i \in 1..n : IsPrefix(node, paths[i])
    BY <1>1, <2>1
  <2>3. Len(node) <= Len(paths[i]) /\ Len(paths[i]) \in Nat /\ Len(node) \in Nat
    BY <1>1, <2>1, <2>2 DEF IsPrefix
  <2> QED
    BY <1>5, <2>2, <2>3
<1> QED
  BY <1>5, <1>6

(* update_rows(): what it makes of a node, given the rows of others. *)
RowStep(paths, settings, tree, row, node) ==
    IF node \in tree.files
    THEN LET chosen == settings[CHOOSE i \in DOMAIN paths : paths[i] = node]
         IN  [download |-> chosen.download, partially |-> FALSE,
              priority |-> chosen.priority]
    ELSE Common({row[child] : child \in {n \in tree.files \cup tree.dirs : Front(n) = node}})

(* With the summaries of what is below them in the rows of the children, a row
   is the summary of what is below it. *)
LEMMA RowStepIs ==
  ASSUME NEW paths \in Seq(Seq(STRING)), Separate(paths, Len(paths)),
         NEW settings, DOMAIN settings = DOMAIN paths,
         \A i \in DOMAIN settings : IsChoice(settings[i]),
         NEW tree, tree.files = {paths[i] : i \in DOMAIN paths},
         tree.files \cup tree.dirs = Nodes(paths),
         NEW row, NEW node \in Nodes(paths),
         \A child \in Nodes(paths) : Len(child) = Len(node) + 1 =>
             row[child] = Summary(Under(paths, settings, child))
  PROVE  RowStep(paths, settings, tree, row, node) = Summary(Under(paths, settings, node))
<1>1. DOMAIN paths = 1..Len(paths) /\ \A i \in DOMAIN paths : paths[i] \in Seq(STRING)
  OBVIOUS
<1>2. node \in Seq(STRING) /\ \E i \in DOMAIN paths : IsPrefix(node, paths[i])
  BY NodeIs
<1>3. CASE \E i \in DOMAIN paths : paths[i] = node
  <2> DEFINE i == CHOOSE i \in DOMAIN paths : paths[i] = node
             chosen == settings[i]
             below == Under(paths, settings, node)
  <2>1. i \in DOMAIN paths /\ paths[i] = node
    BY <1>3
  <2> HIDE DEF i
  <2>2. \A j \in DOMAIN paths : IsPrefix(node, paths[j]) <=> j = i
    <3>1. IsPrefix(node, node)
      BY <1>2, PrefixIs
    <3> QED
      BY <1>1, <2>1, <3>1 DEF Separate
  <2>3. {j \in DOMAIN paths : IsPrefix(node, paths[j])} = {i}
    BY <2>1, <2>2
  <2>4. below = {chosen}
    BY <2>3 DEF Under
  <2>5. IsChoice(chosen)
    BY <2>1
  <2>6. node \in tree.files
    BY <2>1
  <2>7. RowStep(paths, settings, tree, row, node) =
            [download |-> chosen.download, partially |-> FALSE, priority |-> chosen.priority]
    BY <2>6 DEF RowStep, i
  <2> HIDE DEF chosen, below
  <2>8. Summary(below) =
            [download |-> chosen.download, partially |-> FALSE, priority |-> chosen.priority]
    <3>1. /\ (\A f \in below : f.download) = chosen.download
          /\ ((\E f \in below : f.download) /\ (\E f \in below : ~f.download)) = FALSE
      BY <2>4, <2>5 DEF IsChoice
    <3>2. (IF \A f \in below : f.priority = "normal" THEN "normal"
           ELSE IF \A f \in below : f.priority = "high" THEN "high" ELSE "") = chosen.priority
      BY <2>4, <2>5 DEF IsChoice
    <3> QED
      BY <3>1, <3>2, Zenon DEF Summary
  <2> QED
    BY <2>7, <2>8 DEF below
<1>4. CASE \A i \in DOMAIN paths : paths[i] # node
  <2> DEFINE C == {n \in Nodes(paths) : Front(n) = node}
             below == Under(paths, settings, node)
             parts == {Under(paths, settings, child) : child \in C}
  <2>1. /\ \A i \in DOMAIN paths : IsPrefix(node, paths[i]) =>
               \E child \in C : IsPrefix(child, paths[i])
        /\ \A child \in C : Len(child) = Len(node) + 1 /\ child \in Nodes(paths)
        /\ \A child \in C, i \in DOMAIN paths :
               IsPrefix(child, paths[i]) => IsPrefix(node, paths[i])
    BY <1>4, ChildrenAre
  <2> HIDE DEF C
  <2>2. below # {} /\ \A f \in below : IsChoice(f)
    BY <1>2 DEF Under
  <2>3. ASSUME NEW child \in C
        PROVE  /\ Under(paths, settings, child) # {}
               /\ Under(paths, settings, child) \subseteq below
    <3>1. \E i \in DOMAIN paths : IsPrefix(child, paths[i])
      BY <2>1, NodeIs
    <3>2. ASSUME NEW f \in Under(paths, settings, child) PROVE f \in below
      <4>1. PICK i \in DOMAIN paths : IsPrefix(child, paths[i]) /\ f = settings[i]
        BY DEF Under
      <4>2. IsPrefix(node, paths[i])
        BY <2>1, <4>1
      <4> QED
        BY <4>1, <4>2 DEF Under
    <3>3. Under(paths, settings, child) # {}
      BY <3>1 DEF Under
    <3> HIDE DEF below
    <3> QED
      BY <3>2, <3>3
  <2>4. ASSUME NEW f \in below PROVE \E child \in C : f \in Under(paths, settings, child)
    <3>1. PICK i \in DOMAIN paths : IsPrefix(node, paths[i]) /\ f = settings[i]
      BY DEF Under
    <3> QED
      BY <2>1, <3>1 DEF Under
  <2> HIDE DEF below
  <2>5. Common({Summary(part) : part \in parts}) = Summary(below)
    <3>1. /\ \A part \in parts : part # {} /\ part \subseteq below
          /\ \A f \in below : \E part \in parts : f \in part
      BY <2>3, <2>4
    <3> HIDE DEF parts
    <3> QED
      BY <2>2, <3>1, SummariesMerge
  <2>6. {row[child] : child \in C} = {Summary(part) : part \in parts}
    <3>1. \A child \in C : row[child] = Summary(Under(paths, settings, child))
      BY <2>1
    <3>2. {row[child] : child \in C} = {Summary(Under(paths, settings, child)) : child \in C}
      BY <3>1
    <3> QED
      BY <3>2
  <2>7. node \notin tree.files
    BY <1>4
  <2>8. RowStep(paths, settings, tree, row, node) = Common({row[child] : child \in C})
    BY <2>7 DEF RowStep, C
  <2> QED
    BY <2>5, <2>6, <2>8 DEF below
<1> QED
  BY <1>3, <1>4

LEMMA RowsAre ==
  ASSUME NEW paths \in Seq(Seq(STRING)), create(paths) # NoTree,
         NEW settings, DOMAIN settings = DOMAIN paths,
         \A i \in DOMAIN settings : IsChoice(settings[i])
  PROVE  /\ Separate(paths, Len(paths))
         /\ Rows(paths, settings) =
                [node \in Nodes(paths) |-> Summary(Under(paths, settings, node))]
<1> DEFINE tree == create(paths)
           nodes == tree.files \cup tree.dirs
           summary(node) == Summary(Under(paths, settings, node))
           row == CHOOSE row : row = [node \in nodes |->
                                         RowStep(paths, settings, tree, row, node)]
<1>1. Rows(paths, settings) = row
  BY DEF Rows, RowStep, Common
<1>2. Separate(paths, Len(paths)) /\ tree = TreeOf(paths, Len(paths))
  BY CreateIs
<1>3. tree.files = {paths[i] : i \in DOMAIN paths} /\ nodes = Nodes(paths)
  <2>1. DOMAIN paths = 1..Len(paths)
    OBVIOUS
  <2> HIDE DEF tree
  <2> DEFINE D == DOMAIN paths
             ways == UNION {Ancestors(paths[i]) : i \in D}
  <2>2. tree = [files |-> {paths[i] : i \in D}, dirs |-> ways]
    BY <1>2, <2>1 DEF TreeOf
  <2>3. tree.files = {paths[i] : i \in D} /\ tree.dirs = ways
    BY <2>2
  <2>4. Nodes(paths) = {paths[i] : i \in D} \cup ways
    <3>1. ASSUME NEW node
          PROVE  node \in Nodes(paths) <=> node \in {paths[i] : i \in D} \cup ways
      BY DEF Nodes
    <3> QED
      BY <3>1
  <2> QED
    BY <2>3, <2>4
<1> HIDE DEF tree
<1>4. ASSUME NEW f, NEW node \in nodes,
             \A child \in nodes : Len(child) = Len(node) + 1 => f[child] = summary(child)
      PROVE  RowStep(paths, settings, tree, f, node) = summary(node)
  <2>1. tree.files = {paths[i] : i \in DOMAIN paths}
        /\ tree.files \cup tree.dirs = Nodes(paths)
    BY <1>3
  <2>2. /\ node \in Nodes(paths)
        /\ \A child \in Nodes(paths) : Len(child) = Len(node) + 1 =>
               f[child] = Summary(Under(paths, settings, child))
    BY <1>3, <1>4
  <2> HIDE DEF nodes
  <2>3. RowStep(paths, settings, tree, f, node) = Summary(Under(paths, settings, node))
    BY <1>2, <2>1, <2>2, RowStepIs
  <2> QED
    BY <2>3
<1> HIDE DEF summary, nodes
<1>5. row = [node \in nodes |-> RowStep(paths, settings, tree, row, node)]
  <2> DEFINE f == [node \in nodes |-> summary(node)]
  <2>1. ASSUME NEW node \in nodes PROVE RowStep(paths, settings, tree, f, node) = summary(node)
    <3>1. \A child \in nodes : f[child] = summary(child)
      OBVIOUS
    <3> HIDE DEF f
    <3> QED
      BY <1>4, <3>1
  <2>2. f = [node \in nodes |-> RowStep(paths, settings, tree, f, node)]
    BY <2>1
  <2> HIDE DEF f
  <2> QED
    BY <2>2
<1> HIDE DEF row
<1>6. PICK N \in Nat : \A node \in nodes : Len(node) <= N /\ Len(node) \in Nat
  BY <1>2, <1>3, LengthsBounded, NodeIs
<1>7. \A node \in nodes : row[node] = summary(node)
  <2> DEFINE bad == {node \in nodes : row[node] # summary(node)}
             T == {N - Len(node) : node \in bad}
  <2> SUFFICES ASSUME bad # {} PROVE FALSE
    OBVIOUS
  <2>1. T \in SUBSET Nat /\ T # {}
    <3>1. \A node \in bad : N - Len(node) \in Nat
      BY <1>6
    <3> QED
      BY <3>1
  <2>2. PICK t \in T : \A u \in T : t <= u
    BY <2>1, LeastExists
  <2>3. PICK node \in bad : t = N - Len(node)
    OBVIOUS
  <2>4. ASSUME NEW child \in nodes, Len(child) = Len(node) + 1
        PROVE  row[child] = summary(child)
    <3>1. CASE child \in bad
      <4>1. N - Len(child) \in T
        BY <3>1
      <4>2. N - Len(node) <= N - Len(child)
        BY <2>2, <2>3, <4>1
      <4> QED
        BY <1>6, <2>4, <4>2
    <3> QED
      BY <3>1
  <2>5. row[node] = summary(node)
    <3>1. row[node] = RowStep(paths, settings, tree, row, node)
      BY <1>5
    <3> QED
      BY <1>4, <2>4, <3>1
  <2> QED
    BY <2>5
<1> QED
  BY <1>1, <1>2, <1>3, <1>5, <1>7 DEF summary

(* The dialog: its files make a tree, and its rows are up to date. *)
IsShown(d) ==
    /\ IsDialog(d)
    /\ d.files \in Seq(Seq(STRING)) /\ create(d.files) # NoTree
    /\ d.shown = d.files /\ d.displayed = d.revision /\ d.revision \in Nat
    /\ \A i \in DOMAIN d.settings :
          /\ IsChoice(d.settings[i])
          /\ \/ d.files[i] = d.settings[i].path
             \/ d.settings[i].path = Root /\ d.files[i] = TorrentFiles[i]
    /\ d.rows = Rows(d.files, d.settings)

ShownInv == dialog # Closed => IsShown(dialog)

LEMMA ShownSummarises ==
  ASSUME dialog # Closed, IsShown(dialog)
  PROVE  RowsSummarise
<1> DEFINE d == dialog
           Below(node) == {d.settings[i] : i \in {j \in DOMAIN d.files :
                                                 IsPrefix(node, d.files[j])}}
<1>1. /\ d.files \in Seq(Seq(STRING)) /\ create(d.files) # NoTree
      /\ DOMAIN d.settings = DOMAIN d.files
      /\ \A i \in DOMAIN d.settings : IsChoice(d.settings[i])
      /\ d.rows = Rows(d.files, d.settings)
      /\ \A i \in DOMAIN d.files : \/ d.files[i] = d.settings[i].path
                                   \/ d.settings[i].path = Root /\ d.files[i] = TorrentFiles[i]
  BY DEF IsShown, IsDialog
<1> HIDE DEF d
<1>2. /\ Separate(d.files, Len(d.files))
      /\ d.rows = [node \in Nodes(d.files) |-> Summary(Under(d.files, d.settings, node))]
  BY <1>1, RowsAre
<1>3. DOMAIN d.files = 1..Len(d.files)
  BY <1>1
<1>4. \A i, j \in DOMAIN d.files : i # j => ~IsPrefix(d.files[i], d.files[j])
  BY <1>2, <1>3 DEF Separate
<1>5. DOMAIN d.rows = UNION {Ancestors(d.files[i]) \cup {d.files[i]} : i \in DOMAIN d.files}
  BY <1>2 DEF Nodes
<1>6. ASSUME NEW node \in DOMAIN d.rows
      PROVE  /\ d.rows[node].download = \A chosen \in Below(node) : chosen.download
             /\ d.rows[node].partially = ({chosen.download : chosen \in Below(node)} = BOOLEAN)
             /\ {chosen.priority : chosen \in Below(node)} =
                    IF d.rows[node].priority = "" THEN {"normal", "high"}
                                                  ELSE {d.rows[node].priority}
  <2> DEFINE below == Below(node)
             row == Summary(below)
  <2>1. node \in Nodes(d.files) /\ Under(d.files, d.settings, node) = below
    BY <1>2 DEF Under
  <2>2. d.rows[node] = row
    BY <1>2, <2>1
  <2>3. below # {} /\ \A f \in below : IsChoice(f)
    <3>1. \E i \in DOMAIN d.files : IsPrefix(node, d.files[i])
      BY <1>1, <1>2, <2>1, NodeIs
    <3> QED
      BY <1>1, <3>1
  <2> HIDE DEF below
  <2>4. /\ row.download \in BOOLEAN /\ row.partially \in BOOLEAN
        /\ row.download <=> \A f \in below : f.download
        /\ row.partially <=> (\E f \in below : f.download) /\ (\E f \in below : ~f.download)
        /\ row.priority \in {"normal", "high", ""}
        /\ row.priority = "normal" <=> \A f \in below : f.priority = "normal"
        /\ row.priority = "high" <=> \A f \in below : f.priority = "high"
    BY <2>3, SummaryIs
  <2> HIDE DEF row
  <2>5. row.download = \A f \in below : f.download
    BY <2>4
  <2>6. row.partially = ({f.download : f \in below} = BOOLEAN)
    <3> DEFINE values == {f.download : f \in below}
    <3>1. values \subseteq BOOLEAN
      BY <2>3 DEF IsChoice
    <3>2. TRUE \in values <=> \E f \in below : f.download
      BY <2>3 DEF IsChoice
    <3>3. FALSE \in values <=> \E f \in below : ~f.download
      BY <2>3 DEF IsChoice
    <3> HIDE DEF values
    <3>4. values = BOOLEAN <=> TRUE \in values /\ FALSE \in values
      BY <3>1
    <3> QED
      BY <2>4, <3>2, <3>3, <3>4 DEF values
  <2>7. {f.priority : f \in below} =
            IF row.priority = "" THEN {"normal", "high"} ELSE {row.priority}
    <3> DEFINE values == {f.priority : f \in below}
    <3>1. values \subseteq {"normal", "high"} /\ values # {}
      BY <2>3 DEF IsChoice
    <3>2. /\ "normal" \notin values <=> row.priority = "high"
          /\ "high" \notin values <=> row.priority = "normal"
      BY <2>3, <2>4 DEF IsChoice
    <3> HIDE DEF values
    <3>3. values = IF row.priority = "" THEN {"normal", "high"} ELSE {row.priority}
      BY <2>4, <3>1, <3>2
    <3> QED
      BY <3>3 DEF values
  <2> QED
    BY <2>2, <2>5, <2>6, <2>7 DEF below
<1>7. \A i \in DOMAIN d.files :
          d.files[i] \in {d.settings[i].path}
                         \cup {p \in {TorrentFiles[i]} : d.settings[i].path = Root}
  BY <1>1
<1> HIDE DEF Below
<1>8. /\ \A i, j \in DOMAIN d.files : i # j => ~IsPrefix(d.files[i], d.files[j])
      /\ DOMAIN d.rows = UNION {Ancestors(d.files[i]) \cup {d.files[i]} : i \in DOMAIN d.files}
      /\ \A node \in DOMAIN d.rows :
            /\ d.rows[node].download = \A chosen \in Below(node) : chosen.download
            /\ d.rows[node].partially = ({chosen.download : chosen \in Below(node)} = BOOLEAN)
            /\ {chosen.priority : chosen \in Below(node)} =
                   IF d.rows[node].priority = "" THEN {"normal", "high"}
                                                 ELSE {d.rows[node].priority}
  BY <1>4, <1>5, <1>6
<1> QED
  BY <1>7, <1>8, Zenon DEF RowsSummarise, d, Below

LEMMA UpdatedShown ==
  ASSUME NEW d, IsDialog(d), d.files \in Seq(Seq(STRING)), create(d.files) # NoTree,
         d.displayed # d.revision \/ d.shown = d.files, d.revision \in Nat,
         \A i \in DOMAIN d.settings :
             /\ IsChoice(d.settings[i])
             /\ \/ d.files[i] = d.settings[i].path
                \/ d.settings[i].path = Root /\ d.files[i] = TorrentFiles[i]
  PROVE  IsShown(Updated(d))
<1> DEFINE shown == IF d.displayed # d.revision THEN d.files ELSE d.shown
           new == Updated(d)
<1>1. new = [d EXCEPT !.displayed = d.revision, !.shown = shown,
                      !.rows = Rows(shown, d.settings)]
  BY Zenon DEF Updated
<1>2. IsDialog(new)
  BY UpdatedType
<1>3. shown = d.files
  OBVIOUS
<1> HIDE DEF shown, new
<1>4. /\ DOMAIN new = DOMAIN d /\ new.settings = d.settings /\ new.files = d.files
      /\ new.shown = shown /\ new.displayed = d.revision /\ new.revision = d.revision
      /\ new.rows = Rows(shown, d.settings)
  BY <1>1 DEF IsDialog, DialogFields
<1>5. IsShown(new)
  BY <1>2, <1>3, <1>4 DEF IsShown
<1> QED
  BY <1>5 DEF new

LEMMA OpenedShown == \A t, from : IsShown(Opened(t, from))
<1> SUFFICES ASSUME NEW t, NEW from PROVE IsShown(Opened(t, from))
  OBVIOUS
<1> DEFINE files == IF from = "link" THEN <<>> ELSE TorrentFiles
           settings == [i \in DOMAIN files |-> NoSettings]
           d == [torrent |-> t, from |-> from, start |-> TRUE, to |-> "",
                 trackers |-> TorrentTrackers, files |-> files, settings |-> settings,
                 revision |-> 1, displayed |-> 0, shown |-> files,
                 rows |-> Rows(<<>>, <<>>)]
<1>1. Opened(t, from) = Updated(d)
  BY Zenon DEF Opened
<1>2. IsFiles(settings)
  BY NoFiles, AllFiles
<1>3. files \in Seq(Seq(STRING)) /\ create(files) # NoTree
  <2>1. CASE from = "link"
    <3>1. DOMAIN <<>> = {} /\ Len(<<>>) = 0 /\ <<>> \in Seq(Seq(STRING))
      OBVIOUS
    <3>2. create(<<>>) # NoTree
      BY EmptyCreated
    <3> QED
      BY <2>1, <3>1, <3>2
  <2>2. CASE from # "link"
    BY <2>2, DialogAssumption DEF DialogAssumption
  <2> QED
    BY <2>1, <2>2
<1>4. \A i \in DOMAIN settings :
         /\ IsChoice(settings[i])
         /\ settings[i].path = Root /\ files[i] = TorrentFiles[i]
  <2>1. \A i \in DOMAIN files : settings[i] = NoSettings
    OBVIOUS
  <2>2. IsChoice(NoSettings) /\ NoSettings.path = Root
    BY DEF NoSettings, IsChoice
  <2>3. \A i \in DOMAIN files : files[i] = TorrentFiles[i]
    <3>1. CASE from = "link"
      <4>1. DOMAIN <<>> = {}
        OBVIOUS
      <4> QED
        BY <3>1, <4>1
    <3> QED
      BY <3>1
  <2> HIDE DEF files
  <2> QED
    BY <2>1, <2>2, <2>3
<1>5. DOMAIN settings = DOMAIN files
  OBVIOUS
<1> HIDE DEF files, settings
<1>6. /\ DialogFields \subseteq DOMAIN d /\ d.settings = settings
      /\ d.files = files /\ d.shown = files /\ d.revision = 1 /\ d.displayed = 0
  BY DEF DialogFields
<1> HIDE DEF d
<1>7. IsDialog(d)
  BY <1>2, <1>5, <1>6 DEF IsDialog
<1>8. IsShown(Updated(d))
  BY <1>3, <1>4, <1>6, <1>7, UpdatedShown
<1> QED
  BY <1>1, <1>8

LEMMA EditShown ==
  ASSUME IsShown(dialog), Edit
  PROVE  IsShown(dialog')
<1>1. /\ IsDialog(dialog) /\ IsDialog(dialog') /\ DOMAIN dialog.settings = DOMAIN dialog.files
      /\ DialogFields \subseteq DOMAIN dialog
  BY EditType DEF IsShown, IsDialog
<1>2. ASSUME NEW ids, NEW value, NEW field \in {"download", "priority"},
             field = "download" => value \in BOOLEAN,
             field = "priority" => value \in {"normal", "high"},
             dialog' = Updated([dialog EXCEPT !.settings = WithFiles(@, ids, field, value)])
      PROVE  IsShown(dialog')
  <2> DEFINE old == dialog.settings
             settings == WithFiles(old, ids, field, value)
             d == [dialog EXCEPT !.settings = settings]
  <2>1. IsFiles(settings) /\ DOMAIN settings = DOMAIN old
    <3>1. IsFiles(old)
      BY <1>1 DEF IsDialog
    <3>2. IsFiles(WithFiles(old, ids, field, value))
      BY <3>1, WithFilesType
    <3>3. DOMAIN WithFiles(old, ids, field, value) = DOMAIN old
      BY DEF WithFiles
    <3> QED
      BY <3>2, <3>3
  <2>2. dialog' = Updated(d)
    BY <1>2
  <2>3. ASSUME NEW i \in DOMAIN old
        PROVE  IsChoice(settings[i]) /\ settings[i].path = old[i].path
    <3> DEFINE f == old[i]
    <3>1. IsFile(f) /\ IsChoice(f)
      BY <1>1, FilesType DEF IsDialog, IsShown
    <3>2. settings[i] = IF i \in ids THEN [f EXCEPT ![field] = value] ELSE f
      BY DEF WithFiles
    <3> HIDE DEF f, settings
    <3>3. f = [path |-> f.path, download |-> f.download, priority |-> f.priority]
      BY <3>1 DEF IsFile
    <3>4. DOMAIN f = {"path", "download", "priority"}
      BY <3>3
    <3>5. IsChoice([f EXCEPT ![field] = value]) /\ [f EXCEPT ![field] = value].path = f.path
      BY <1>2, <3>1, <3>4 DEF IsChoice
    <3> QED
      BY <3>1, <3>2, <3>5 DEF f
  <2> HIDE DEF settings
  <2>4. /\ DOMAIN d = DOMAIN dialog /\ d.settings = settings /\ d.files = dialog.files
        /\ d.shown = dialog.shown /\ d.revision = dialog.revision
    BY <1>1 DEF DialogFields
  <2> HIDE DEF d
  <2>5. IsDialog(d)
    BY <1>1, <2>1, <2>4 DEF IsDialog
  <2>6. IsShown(Updated(d))
    BY <2>1, <2>3, <2>4, <2>5, UpdatedShown DEF IsShown
  <2> QED
    BY <2>2, <2>6
<1>3. ASSUME NEW node \in DOMAIN dialog.rows, NEW text \in Texts, EditPath(node, text)
      PROVE  IsShown(dialog')
  <2> DEFINE path == normalize(text)
             paths == Moved(dialog.shown, node, path)
             old == dialog.settings
             settings == [i \in DOMAIN paths |->
                             IF paths[i] # dialog.files[i]
                             THEN [old[i] EXCEPT !.path = paths[i]] ELSE old[i]]
             d == WithPaths(dialog, paths)
  <2>1. dialog' = Updated(d) /\ create(paths) # NoTree
    BY <1>3 DEF EditPath
  <2>2. paths \in Seq(Seq(STRING)) /\ DOMAIN paths = DOMAIN dialog.files
    <3>1. text \in Seq(STRING)
      BY DialogAssumption DEF DialogAssumption
    <3>2. path \in Seq(STRING)
      BY <3>1, NormalizeType
    <3>3. node \in Seq(STRING)
      <4>1. /\ dialog.files \in Seq(Seq(STRING)) /\ create(dialog.files) # NoTree
            /\ \A i \in DOMAIN dialog.settings : IsChoice(dialog.settings[i])
            /\ dialog.rows = Rows(dialog.files, dialog.settings)
        BY DEF IsShown
      <4>2. Separate(dialog.files, Len(dialog.files)) /\ node \in Nodes(dialog.files)
        BY <1>1, <4>1, RowsAre
      <4> QED
        BY <4>1, <4>2, NodeIs
    <3>4. dialog.shown = dialog.files /\ dialog.files \in Seq(Seq(STRING))
      BY DEF IsShown
    <3> QED
      BY <3>2, <3>3, <3>4, MovedType
  <2> HIDE DEF path, paths
  <2>3. d = [dialog EXCEPT !.settings = settings, !.files = paths,
                           !.revision = dialog.revision + 1]
    BY <1>1 DEF WithPaths, DialogFields
  <2>4. DOMAIN settings = DOMAIN old /\ settings = [i \in DOMAIN old |-> settings[i]]
    BY <1>1, <2>2
  <2>5. ASSUME NEW i \in DOMAIN old
        PROVE  /\ IsFile(settings[i]) /\ IsChoice(settings[i])
               /\ \/ paths[i] = settings[i].path
                  \/ settings[i].path = Root /\ paths[i] = TorrentFiles[i]
    <3> DEFINE f == old[i]
    <3>1. /\ IsFile(f) /\ IsChoice(f)
          /\ dialog.files[i] = f.path \/ (f.path = Root /\ dialog.files[i] = TorrentFiles[i])
      BY <1>1, FilesType DEF IsDialog, IsShown
    <3>2. settings[i] = IF paths[i] # dialog.files[i]
                        THEN [f EXCEPT !.path = paths[i]] ELSE f
      BY <1>1, <2>2
    <3> HIDE DEF f, settings
    <3>3. f = [path |-> f.path, download |-> f.download, priority |-> f.priority]
      BY <3>1 DEF IsFile
    <3>4. [f EXCEPT !.path = paths[i]] =
              [path |-> paths[i], download |-> f.download, priority |-> f.priority]
      BY <3>3
    <3> QED
      BY <3>1, <3>2, <3>4 DEF IsFile, IsChoice
  <2> HIDE DEF settings
  <2>6. IsFiles(settings)
    <3>1. IsFiles(old)
      BY <1>1 DEF IsDialog
    <3> QED
      BY <2>4, <2>5, <3>1, FilesChanged
  <2> HIDE DEF d
  <2>7. /\ DOMAIN d = DOMAIN dialog /\ d.settings = settings /\ d.files = paths
        /\ d.shown = dialog.shown /\ d.revision = dialog.revision + 1
        /\ d.displayed = dialog.displayed
    BY <1>1, <2>3 DEF DialogFields
  <2>8. IsDialog(d)
    BY <1>1, <2>2, <2>4, <2>6, <2>7 DEF IsDialog
  <2>9. d.displayed # d.revision /\ d.revision \in Nat
    BY <2>7 DEF IsShown
  <2>10. IsShown(Updated(d))
    BY <2>1, <2>2, <2>4, <2>5, <2>7, <2>8, <2>9, UpdatedShown
  <2> QED
    BY <2>1, <2>10
<1>4. ASSUME NEW field \in {"trackers", "to", "start"}, NEW value,
             dialog' = [dialog EXCEPT ![field] = value]
      PROVE  IsShown(dialog')
  <2>1. \A name \in DialogFields \ {"trackers", "to", "start"} : dialog'[name] = dialog[name]
    BY <1>1, <1>4
  <2>2. /\ dialog'.files = dialog.files /\ dialog'.shown = dialog.shown
        /\ dialog'.settings = dialog.settings /\ dialog'.rows = dialog.rows
        /\ dialog'.displayed = dialog.displayed /\ dialog'.revision = dialog.revision
    BY <2>1 DEF DialogFields
  <2> QED
    BY <1>1, <2>2 DEF IsShown
<1>5. CASE \E nodes \in SUBSET DOMAIN dialog.rows, download \in BOOLEAN :
              ChooseDownload(nodes, download)
  BY <1>2, <1>5 DEF ChooseDownload
<1>6. CASE \E nodes \in SUBSET DOMAIN dialog.rows, priority \in {"normal", "high"} :
              ChoosePriority(nodes, priority)
  BY <1>2, <1>6 DEF ChoosePriority
<1>7. CASE \E trackers \in TrackersChanges(dialog.trackers) :
              dialog' = [dialog EXCEPT !.trackers = trackers]
  BY <1>4, <1>7
<1>8. CASE \E to \in Places \ {dialog.to} : dialog' = [dialog EXCEPT !.to = to]
  BY <1>4, <1>8
<1>9. CASE dialog' = [dialog EXCEPT !.start = ~@]
  BY <1>4, <1>9
<1> QED
  BY <1>3, <1>5, <1>6, <1>7, <1>8, <1>9 DEF Edit

(* What happens to the dialog. *)
LEMMA DialogMoves ==
  [DataNext]_<<vars, dataVars>> =>
      \/ dialog' \in {dialog, Closed}
      \/ \E t \in Torrents, from \in {"link", "file"} : dialog' = Opened(t, from)
      \/ dialog # Closed /\ Edit
<1> DEFINE Moves == \/ dialog' \in {dialog, Closed}
                    \/ \E t \in Torrents, from \in {"link", "file"} : dialog' = Opened(t, from)
                    \/ dialog # Closed /\ Edit
<1> SUFFICES ASSUME [DataNext]_<<vars, dataVars>> PROVE Moves
  OBVIOUS
<1>1. ASSUME NEW t \in Torrents, NEW from, AddAsked(t, from) PROVE Moves
  BY <1>1, Zenon DEF AddAsked, Close
<1>2. CASE CopyFile \/ WriteNewSettings \/ LoadNew
  BY <1>2 DEF CopyFile, OpenCopy, FillCopy, WriteNewSettings, WriteSettings, LoadNew,
              LoadAdded, dataVars
<1>3. CASE EndRemoval \/ StoreStep \/ \E part \in Parts : RemoveFile(part)
  BY <1>3 DEF EndRemoval, RemoveDirectory, StoreStep, RemoveFile, RemovePart, dataVars
<1>4. CASE StartAll \/ ExitAll \/ RunTask
  BY <1>4 DEF StartAll, Start, ExitAll, RunTask, dataVars
<1>5. CASE UserDialog
  BY <1>5 DEF UserDialog, Open, Close, Edit
<1>6. ASSUME NEW t \in Torrents,
             \/ LoadOld(t) \/ SaveData(t) \/ GetMetadata(t)
             \/ \E with_data \in BOOLEAN : RemoveTorrent(t, with_data)
             \/ \E i \in DOMAIN TorrentFiles : Download(t, i)
             \/ Complete(t) \/ finish_torrent(t) \/ Reject(t)
             \/ ChangeFiles(t) \/ ChangeOptions(t)
      PROVE  Moves
  BY <1>6 DEF LoadOld, LoadStored, SaveData, SaveSettings, GetMetadata, SaveMetadata,
              RemoveTorrent, StartRemoval, Download, Complete, finish_torrent, Reject,
              ChangeFiles, ChangeOptions
<1>7. CASE UNCHANGED <<vars, dataVars>>
  BY <1>7 DEF vars, dataVars
<1> QED
  BY <1>1, <1>2, <1>3, <1>4, <1>5, <1>6, <1>7 DEF DataNext

(* The paths in the dialog always make a tree, and each row of it shows what is
   chosen for all the files below it, or that it differs among them, whatever was
   edited before in whichever order; the paths that the dialog returns are those
   it shows. *)
THEOREM RowsAreRight == DataSpec => []RowsSummarise
<1>1. NewInit \/ OldInit => ShownInv
  BY DEF NewInit, OldInit, DataInit, ShownInv
<1>2. ShownInv /\ [DataNext]_<<vars, dataVars>> => ShownInv'
  BY DialogMoves, OpenedShown, EditShown DEF ShownInv
<1>3. ShownInv => RowsSummarise
  <2>1. CASE dialog = Closed
    BY <2>1, Zenon DEF RowsSummarise
  <2>2. CASE dialog # Closed
    BY <2>2, ShownSummarises DEF ShownInv
  <2> QED
    BY <2>1, <2>2
<1> QED
  BY <1>1, <1>2, <1>3, PTL DEF DataSpec
=============================================================================
