---------------------------- MODULE CategoriesView ----------------------------
(***************************************************************************)
(* The categories of torrents beside their list (src/categories_view.cpp): *)
(* which of them are selected decides what the list shows, and each says   *)
(* how many torrents it has.                                               *)
(*                                                                         *)
(* The categories may be hidden, and their names and the numbers switched  *)
(* on and off; what a row says is then written only by the handlers that   *)
(* find it visible, from the torrents the window knows at that moment.     *)
(***************************************************************************)
EXTENDS Naturals, FiniteSets

VARIABLES items,              \* the selected categories
          categories_visible, \* the categories are not hidden
          show_names, show_counters,
          labels              \* what is written in the rows

categoriesVars == <<items, categories_visible, show_names, show_counters, labels>>

Statuses == {"checking", "seeding"}
Categories == {"all", "paused"} \cup Statuses

(* What the window knows of a torrent. *)
Info == [paused : BOOLEAN, status : Statuses]

CategoriesTypeOK == /\ items \subseteq Categories
                    /\ {categories_visible, show_names, show_counters} \subseteq BOOLEAN
                    /\ labels.named \in BOOLEAN /\ labels.has_only_name \in BOOLEAN
                    /\ DOMAIN labels.counters \subseteq Categories

-----------------------------------------------------------------------------
get_categories(in) == {in.status} \cup (IF in.paused THEN {"paused"} ELSE {})

(* The filter of the list: a hidden widget lets everything pass. *)
get_filter == IF categories_visible THEN items ELSE {"all"}
Passes(in, filter) == "all" \in filter \/ get_categories(in) \cap filter # {}

(* The category of all torrents does not go with others. *)
Selection(rows) == IF "all" \in rows THEN {"all"} ELSE rows

Counters(ts) == [category \in Categories |->
                    Cardinality({id \in DOMAIN ts : Passes(ts[id], {category})})]

(* Mutant: what the rows say is not noted when the numbers are added. *)
MutUpdated(ts, names, counters) ==
    IF counters THEN [labels EXCEPT !.named = names, !.counters = Counters(ts)]
    ELSE IF names /\ ~labels.has_only_name
         THEN [named |-> TRUE, counters |-> << >>, has_only_name |-> TRUE]
         ELSE labels

(* Impl::update(): the rows get the numbers of the torrents `ts'; or the names
   alone, unless they are there already. *)
Updated(ts, names, counters) ==
    IF counters
    THEN [named |-> names, counters |-> Counters(ts), has_only_name |-> FALSE]
    ELSE IF names /\ ~labels.has_only_name
         THEN [named |-> TRUE, counters |-> << >>, has_only_name |-> TRUE]
         ELSE labels

(* settings_changed(): the numbers are asked from the window, which updates only
   what is visible; names alone need no numbers, and are written anyway. *)
SettingsChanged(ts, names, counters, visible) ==
    IF counters /\ ~visible THEN labels ELSE Updated(ts, names, counters)

-----------------------------------------------------------------------------
(* Impl::Impl(), with what was saved; nobody has been connected yet that could
   give numbers. *)
CategoriesInit(saved, visible, names, counters) ==
    /\ items = Selection(saved)
    /\ categories_visible = visible
    /\ show_names = names /\ show_counters = counters
    /\ labels = [named |-> names /\ ~counters, counters |-> << >>,
                 has_only_name |-> names /\ ~counters]

(* The user selects the rows `rows'. *)
SelectCategories(rows) ==
    /\ categories_visible /\ Selection(rows) # items
    /\ items' = Selection(rows)
    /\ UNCHANGED <<categories_visible, show_names, show_counters, labels>>

(* show() and hide(): the list is redrawn, and what the rows say made good when
   they can be seen again. *)
ShowCategories(ts) ==
    /\ categories_visible' = ~categories_visible
    /\ labels' = IF categories_visible' THEN SettingsChanged(ts, show_names, show_counters, TRUE)
                 ELSE labels
    /\ UNCHANGED <<items, show_names, show_counters>>

ShowNames(ts) ==
    /\ show_names' = ~show_names
    /\ labels' = SettingsChanged(ts, show_names', show_counters, categories_visible)
    /\ UNCHANGED <<items, categories_visible, show_counters>>

ShowCounters(ts) ==
    /\ show_counters' = ~show_counters
    /\ labels' = SettingsChanged(ts, show_names, show_counters', categories_visible)
    /\ UNCHANGED <<items, categories_visible, show_names>>

(* Categories_view::update(). *)
CategoriesUpdated(ts) ==
    /\ labels' = IF categories_visible THEN Updated(ts, show_names, show_counters) ELSE labels
    /\ UNCHANGED <<items, categories_visible, show_names, show_counters>>

-----------------------------------------------------------------------------
(* What the rows say when they can be seen, the window knowing the torrents
   `ts': the names and the numbers that are switched on, and the numbers are
   those of now, whatever was switched while the categories were hidden. *)
LabelsAgree(ts) ==
    categories_visible /\ (show_names \/ show_counters) =>
        /\ labels.named = show_names
        /\ labels.counters = IF show_counters THEN Counters(ts) ELSE << >>
=============================================================================
