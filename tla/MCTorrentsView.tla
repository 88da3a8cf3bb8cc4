---------------------------- MODULE MCTorrentsView ----------------------------
(* Values of the constants of TorrentsView for TLC. *)
EXTENDS TorrentsView

CONSTANTS t1, t2, t3, u1, u2

TwoTorrents == {t1, t2}
ThreeTorrents == {t1, t2, t3}

Symmetry == Permutations(TwoTorrents)

(* A torrent is added with one tracker, or with two and files to copy. *)
TheSettings ==
    {[kept |-> [sequential |-> FALSE, copy |-> FALSE, to |-> UNSET], trackers |-> <<u1>>],
     [kept |-> [sequential |-> FALSE, copy |-> TRUE, to |-> "absolute"],
      trackers |-> <<u1, u2>>]}

(* A torrent that is seeding is removed within a minute; what differs among
   these tells which part of the window is used (below). *)
RemovedAtOnce ==
    {[max_seeding_time |-> 0, max_seeding_time_type |-> REMOVE,
      max_ratio_type |-> NONE,
      max_seeding_torrents |-> part, max_seeding_torrents_type |-> NONE] : part \in 0..2}

WidgetsUsed == clean \in RemovedAtOnce /\ clean.max_seeding_torrents = 0
ListUsed == clean \in RemovedAtOnce /\ clean.max_seeding_torrents = 1
OptionsUsed == clean \in RemovedAtOnce /\ clean.max_seeding_torrents = 2
Used == clean \in RemovedAtOnce

(* Every limit with actions of its own: both limits on one torrent with either
   of them the stricter, and the limit on their number alone and after these. *)
OtherCleanings ==
    {[max_seeding_time |-> 1, max_seeding_time_type |-> PAUSE,
      max_ratio_type |-> REMOVE_WITH_DATA,
      max_seeding_torrents |-> 1, max_seeding_torrents_type |-> NONE],
     [max_seeding_time |-> 2, max_seeding_time_type |-> REMOVE,
      max_ratio_type |-> PAUSE,
      max_seeding_torrents |-> 1, max_seeding_torrents_type |-> REMOVE_WITH_DATA],
     [max_seeding_time |-> 2, max_seeding_time_type |-> NONE,
      max_ratio_type |-> NONE,
      max_seeding_torrents |-> 1, max_seeding_torrents_type |-> PAUSE]}

AllCleanings == RemovedAtOnce \cup OtherCleanings

(* Bounds: the window is used with two torrents, without magnet links and with
   the settings that remove torrents soonest; with the others, and three
   torrents, nobody touches it.  One part of it is used at a time: the widgets
   with the details, the files and the peers, with two filters; the categories
   and the rows, nothing being selected; or the options, of all torrents. *)
OtherThanNew == {id \in DOMAIN session :
                    session[id].status = "seeding" \/ session[id].paused}
Edits(id) == settings[id].download_settings_revision + settings[id].trackers_revision - 2

NeverHidden == visible \/ infos = << >>

WidgetsBound ==
    /\ items \in {{"all"}, {"paused"}} /\ NeverHidden
    /\ current_info_widget \notin {"options", "log"}
    /\ items = {"paused"} => Cardinality(OtherThanNew) <= 1

ListBound ==
    /\ selected = {} /\ current_info_widget = "none"
    /\ items \in {{"all"}, {"paused"}, {"paused", "seeding"}}
    /\ Cardinality(OtherThanNew) <= 1
    /\ show_zero_values \/ last_show_zero_values_setting \/ items = {"paused", "seeding"} =>
           categories_visible /\ ~show_names /\ ~show_counters

OptionsBound ==
    /\ items = {"all"} /\ current_info_widget \in {"none", "options"} /\ NeverHidden
    /\ Cardinality(OtherThanNew) <= 1 /\ \A id \in DOMAIN session : ~session[id].paused
    /\ MapThenSumSet(Edits, DOMAIN settings) <= 2
    /\ \E id \in TwoTorrents : \A other \in DOMAIN settings \ {id} : Edits(other) = 0
    /\ dialog = {} /\ Cardinality(selected) <= 1 /\ (chooser => redraw = "none")

SmallWhenUsed ==
    /\ Used => /\ DOMAIN session \subseteq TwoTorrents
               /\ \A id \in DOMAIN session : session[id].metadata = "file"
    /\ ~ListUsed => /\ categories_visible /\ ~show_names /\ ~show_counters
                    /\ ~show_zero_values
    /\ WidgetsUsed => WidgetsBound
    /\ ListUsed => ListBound
    /\ OptionsUsed => OptionsBound
    /\ ~OptionsUsed => \A id \in DOMAIN settings : ~settings[id].kept.copy
    /\ ~Used => items = {"all"} /\ current_info_widget = "none"
UntouchedOtherwise == Used \/ UNCHANGED visible

(* What the automatic cleaning only remembers for its own properties makes no
   difference to the window, and what the rows display none to the options. *)
WhatOptionsSee ==
    <<session, clean, DOMAIN torrents, DOMAIN infos, DOMAIN rows, selected,
      cur_torrent_id, current_info_widget, optionsVars, visible, redraw>>
WithoutGhosts == CASE OptionsUsed -> <<WhatOptionsSee>>
                   [] Used /\ ~OptionsUsed -> <<session, clean, gui>>
                   [] OTHER -> <<vars>>
SessionAndWindow == <<session, clean, gui>>
=============================================================================
