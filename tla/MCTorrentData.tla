---------------------------- MODULE MCTorrentData ----------------------------
(* Values of the constants of TorrentData for TLC. *)
EXTENDS TorrentData, TLC

CONSTANTS t1, t2, n1

TwoTorrents == {t1, t2}

OneName == {n1}

TwoFiles == << <<"d", "a">>, <<"d", "b">> >>

OneTracker == <<"http://a">>

TwoTrackers == {"http://a", "http://b"}

(* A path in the directory, the root, a way back to the file. *)
SomeTexts == { <<"d", "c">>, <<"..", ".">>, <<"c", "..", "d", "a">> }

SomePlaces == {"", "/finished"}

(* What versions before 0.2, before 0.4 and before 0.9 wrote. *)
OldVersions ==
    LET plain == [paused |-> FALSE, files |-> <<NoSettings, NoSettings>>,
                  trackers |-> OneTracker, copy |-> FALSE, to |-> "", last |-> -2]
    IN  {[config |-> [version |-> "0.1", is_paused |-> FALSE,
                      files_priorities |-> <<TRUE, FALSE>>],
          means |-> [plain EXCEPT !.files[2].download = FALSE]],
         [config |-> [version |-> "0.3", is_paused |-> FALSE,
                      files |-> <<[download |-> TRUE], [download |-> TRUE]>>,
                      trackers |-> OneTracker, copy_on_finished_path |-> "/finished"],
          means |-> [plain EXCEPT !.copy = TRUE, !.to = "/finished"]],
         [config |-> [version |-> "0.8", is_paused |-> FALSE,
                      files |-> <<[path |-> <<"c">>, download |-> TRUE],
                                  [download |-> TRUE]>>,
                      trackers |-> OneTracker],
          means |-> [plain EXCEPT !.files[1].path = <<"c">>]]}

-----------------------------------------------------------------------------
(* What makes a torrent more than one added and loaded. *)
Topics(settings) ==
    {topic \in {"paths", "files", "trackers", "copy", "paused"} :
        CASE topic = "paths" -> \E i \in DOMAIN settings.files :
                                   settings.files[i].path # Root
          [] topic = "files" -> \E i \in DOMAIN settings.files :
                                   \/ ~settings.files[i].download
                                   \/ settings.files[i].priority # "normal"
          [] topic = "trackers" -> settings.trackers # OneTracker
          [] topic = "copy" -> settings.to # ""
          [] topic = "paused" -> settings.paused}

Known == {[paused |-> ~dialog.start, files |-> dialog.settings, to |-> dialog.to,
           trackers |-> dialog.trackers] : d \in {dialog} \ {Closed}}
         \cup {NewSettings(asked, how = "link") : a \in {asked} \ {Nothing}}
         \cup {Settings(data[t]) : t \in {u \in Torrents : data[u] # Nothing}}
         \cup {saved[t] : t \in {u \in Torrents : saved[u] # Nothing}}

Rich == UNION {Topics(settings) : settings \in Known}

HasData(t) == downloads[t] # {} \/ \E n \in DOMAIN tasks : tasks[n].torrent = t

Progressed(t) == \/ HasData(t)
                 \/ data[t] # Nothing /\ data[t].last # -1
                 \/ written[t] # Nothing /\ Read(written[t]).last # -1

Untouched(t) == /\ t \notin dirs /\ torrent # t /\ ~Progressed(t)
                /\ \A n \in Names : file[n] # t

Linked(t) == \/ "link" \in {conf[t], session[t]}
             \/ torrent = t /\ how = "link"

(* Torrents like any other, or one from a link. *)
Plain == /\ Rich = {} /\ dialog = Closed
         /\ \A t \in Torrents :
               /\ ~Progressed(t)
               /\ Linked(t) => \A other \in Torrents \ {t} : Untouched(other)

(* No file could not be removed. *)
Removed == job \in {"remove", "rmdir"} =>
              /\ "copy" \in todo \/ copy[torrent] = "none"
              /\ "conf" \in todo \/ conf[torrent] = "none"

(* One torrent of which more is known: one thing that the user chooses, or that
   its files are downloaded, in their order, and copied or removed. *)
Alone == /\ ~spoilt /\ Removed
         /\ \A n \in Names : file[n] = NoTorrent
         /\ \A other \in Torrents \ {t1} : Untouched(other)
         /\ copies[t1] = {}
         /\ \A m, n \in DOMAIN tasks : tasks[m].kind = tasks[n].kind => m = n
         /\ dialog # Closed => dialog.torrent = t1 /\ t1 \notin dirs
         /\ data[t1] # Nothing => data[t1].have # {2}
         /\ IF Progressed(t1)
            THEN how = "file" /\ dialog = Closed /\ Rich \subseteq {"copy"}
            ELSE Cardinality(Rich) <= 1

Bounded == Alone \/ Plain

(* What the thread for files does in the middle of a job of the main loop, where
   that does not look at the files, it may do before or after. *)
ThreadSteps == tasks # <<>> /\ tasks' = Tail(tasks) /\ job' = job => job \in {"idle", "load", "start"}
=============================================================================
