---------------------------- MODULE ProcessTable ----------------------------
(***************************************************************************)
(* The process table (ot-ui/src/table.rs, process_rows.rs) in the view     *)
(* that feeds it (view.rs): snapshots arrive, the order of the rows is     *)
(* built when it is next needed, and between the two the user points,      *)
(* sorts, folds, searches, selects, pauses and changes the arrangement.    *)
(*                                                                         *)
(* A row is a process; the rows under a process (services, threads, CPU    *)
(* samples), scrolling, sliding and the columns' layout are left out.  Of  *)
(* the columns there are a numeric one with a dead band and a text one.    *)
(***************************************************************************)
EXTENDS ProcessTree, Steady

CONSTANTS
    Processes,   \* natural numbers, by which rows that tie are ordered
    Idle,        \* the kernel's idle accounting, never shown
    None,        \* no row, and no search
    Name,        \* where each process's name sorts
    Snapshots,   \* those there may be: the list, each process's figure and its parent
    Searches,    \* what a search may match
    \* Bounds
    MaxSnapshots,
    MaxInputs

ASSUME TableAssumption ==
    /\ Processes \subseteq Nat /\ Idle \in Processes
    /\ None \notin Processes /\ None \notin Searches
    /\ Name \in [Processes -> Nat]
    /\ \A s \in Snapshots :
        /\ s.list \in Seq(Processes) /\ IsInjective(s.list)
        /\ s.figure \in [ToSet(s.list) -> Nat]
        /\ s.started_by \in [ToSet(s.list) -> Processes \cup {NONE}]
    /\ Searches \subseteq SUBSET Processes

Columns == {"cpu", "name"}
Banded(col) == col = "cpu"

VARIABLES
    snap,       \* the snapshot on screen
    parent,     \* its repaired parents
    rollup,     \* and what its processes come to with everything below them
    shown,      \* the processes the search lets through
    search,     \* the processes whose text matches, or None
    paused,     \* the display is paused
    latest,     \* the newest snapshot while it is, if there was one
    map_on,     \* something else is shown where the table would be
    tree,       \* the table's arrangement
    sort_col, sort_desc,
    collapsed,
    selected,
    order,      \* the rows as last built: process, place in the list, parent, children
    dirty,      \* the order is to be rebuilt
    snapshots, inputs

view == <<snap, parent, rollup, shown, search, paused, latest, map_on>>
table == <<tree, sort_col, sort_desc, collapsed, selected, order, dirty>>
vars == <<steadyVars, view, table, snapshots, inputs>>

-----------------------------------------------------------------------------
(* The order                                                                *)

List == ToSet(snap.list)
VisibleOf(through) == (List \cap through) \ {Idle}
Visible == VisibleOf(shown)

\* raw_key: a process's own figure in the list, its subtree's in the tree.
RawKeys(s, rolled, in_tree) ==
    [r \in ToSet(s.list) |-> IF in_tree THEN rolled[r].figure ELSE s.figure[r]]

\* key, compare: the sticky key of a numeric column.
SortKeys(in_tree) ==
    LET values == RawKeys(snap, rollup, in_tree)
    IN [r \in List |-> IF Banded(sort_col) THEN Key(r, <<sort_col, in_tree>>, values[r]) ELSE Name[r]]

Precedes(key, a, b) ==
    \/ key[a] = key[b] /\ a < b
    \/ key[a] # key[b] /\ (key[a] > key[b]) = sort_desc

\* A row whose parent is hidden stands at the top.
ShownParent(visible) == [r \in visible |-> IF parent[r] \in visible THEN parent[r] ELSE NONE]

\* build_flat_order, build_tree_order: siblings by their keys, a collapsed row without
\* what is below it. (No row is out of reach, the parents having no circle.)
Listing(in_tree, above, folded) ==
    LET key == SortKeys(in_tree)
        ByKey(S) == Arranged(S, {e \in S \X S : Precedes(key, e[1], e[2])})
        Children(r) == ByKey({k \in DOMAIN above : above[k] = r})
        walk[r \in DOMAIN above] ==
            IF r \in folded THEN <<r>>
            ELSE LET kids == Children(r) IN
                 <<r>> \o FlattenSeq([i \in DOMAIN kids |-> walk[kids[i]]])
        roots == Children(NONE)
    IN IF in_tree THEN FlattenSeq([i \in DOMAIN roots |-> walk[roots[i]]]) ELSE ByKey(DOMAIN above)

\* The rows with what is kept of them until the next time.
Rows(in_tree, visible, folded) ==
    LET above == ShownParent(visible)
        rows == Listing(in_tree, above, folded)
    IN [i \in DOMAIN rows |->
        [id |-> rows[i],
         row |-> CHOOSE n \in DOMAIN snap.list : snap.list[n] = rows[i],
         parent |-> IF in_tree THEN above[rows[i]] ELSE NONE,
         children |-> in_tree /\ \E k \in visible : above[k] = rows[i]]]

Built == Rows(tree, Visible, collapsed)

Ids(rows) == [i \in DOMAIN rows |-> rows[i].id]

\* ensure_order. (The other reason to build it, a list of another length, is one to be
\* dirty already.)
Ensured == IF dirty THEN Built ELSE order

PosOf(rows, id) == CHOOSE i \in DOMAIN rows : rows[i].id = id

-----------------------------------------------------------------------------
(* Snapshots and the view                                                   *)

\* Mutant: the matches stand alone in the tree, too.
RefilterFlat(s, p, in_tree, find) ==
    IF find = None THEN ToSet(s.list) ELSE find \cap ToSet(s.list)

\* refilter: what matches, and in the tree what leads to it.
Refilter(s, p, in_tree, find) ==
    IF find = None THEN ToSet(s.list)
    ELSE IF in_tree THEN PropagateUp(p, find \cap ToSet(s.list))
    ELSE find \cap ToSet(s.list)

\* update_steady, for the rows of a snapshot.
UpdateSteady(s, rolled, hold) ==
    Update(<<sort_col, tree>>, Banded(sort_col), RawKeys(s, rolled, tree), hold)

\* show_snapshot, with relayout.
Show(s) ==
    /\ snap' = s
    /\ parent' = Rebuild(s.list, s.started_by)
    /\ rollup' = Rollups(parent', s.figure)
    /\ UpdateSteady(s, rollup', held)
    /\ shown' = Refilter(s, parent', tree, search)
    /\ dirty' = TRUE

\* Only a snapshot that is new changes anything; while paused it waits.
SetSnapshot(s) ==
    /\ snapshots < MaxSnapshots
    /\ snapshots' = snapshots + 1
    /\ IF paused
       THEN latest' = <<s>> /\ UNCHANGED <<steadyVars, snap, parent, rollup, shown, dirty>>
       ELSE Show(s) /\ UNCHANGED latest
    /\ UNCHANGED <<search, paused, map_on, tree, sort_col, sort_desc, collapsed, selected, order, inputs>>

\* toggle_pause: on the way back the newest snapshot is shown, if one came.
TogglePause ==
    /\ paused' = ~paused /\ latest' = << >>
    /\ IF latest # << >> THEN Show(latest[1]) ELSE UNCHANGED <<steadyVars, snap, parent, rollup, shown, dirty>>
    /\ UNCHANGED <<search, map_on, tree, sort_col, sort_desc, collapsed, selected, order, snapshots>>

\* Mutant: the keys are let go and the order is not built again.
HoldOrderKeepsOrder(on) ==
    IF held # on /\ ~on /\ ~paused
    THEN UpdateSteady(snap, rollup, on) /\ UNCHANGED dirty
    ELSE SetHeld(on) /\ UNCHANGED dirty

\* hold_order: on letting go the keys follow at once, except in a pause.
HoldOrder(on) ==
    IF held # on /\ ~on /\ ~paused
    THEN UpdateSteady(snap, rollup, on) /\ dirty' = TRUE
    ELSE SetHeld(on) /\ UNCHANGED dirty

\* The pointer moves over the table or off it, leaves, or the page is left.
Point(on) ==
    /\ on => ~map_on
    /\ HoldOrder(on)
    /\ UNCHANGED <<view, tree, sort_col, sort_desc, collapsed, selected, order, snapshots>>

-----------------------------------------------------------------------------
(* The table                                                                *)

\* A column's header is clicked. The keys are not folded in for it.
SetSort(col) ==
    /\ ~map_on
    /\ sort_col' = col
    /\ sort_desc' = IF col = sort_col THEN ~sort_desc ELSE Banded(col)
    /\ dirty' = TRUE
    /\ UNCHANGED <<steadyVars, view, tree, collapsed, selected, order, snapshots>>

\* Mutant: only the parent is unfolded.
FoldedAboveParent(p, visible, r) == {p[r]} \cap visible

\* reveal_selected: the ancestors of a row that keep it from being listed.
FoldedAbove(p, visible, r) ==
    LET up == Chain(p, r)
    IN {up[n] : n \in {n \in DOMAIN up : n > 0 /\ \A m \in 1..n : up[m] \in visible}}

\* set_view. The Map lets the order go; an arrangement of the table is filtered its own
\* way and shows the selected row, the one it is in already too.
SetView(mode) ==
    /\ map_on' = (mode = "map")
    /\ IF mode = "map"
       THEN HoldOrder(FALSE) /\ UNCHANGED <<tree, shown, collapsed, order>>
       ELSE LET reveals == selected \in List
                in_tree == mode = "tree"
                through == Refilter(snap, parent, in_tree, search)
                unfolded == IF reveals /\ in_tree
                            THEN collapsed \ FoldedAbove(parent, VisibleOf(through), selected)
                            ELSE collapsed
            IN /\ tree' = in_tree /\ shown' = through /\ collapsed' = unfolded
               /\ order' = IF reveals THEN Rows(in_tree, VisibleOf(through), unfolded) ELSE order
               /\ dirty' = ~reveals
               /\ UNCHANGED steadyVars
    /\ UNCHANGED <<snap, parent, rollup, search, paused, latest, sort_col, sort_desc, selected, snapshots>>

\* search_changed.
Search(find) ==
    /\ search' = find
    /\ shown' = Refilter(snap, parent, tree, find)
    /\ dirty' = TRUE
    /\ UNCHANGED <<steadyVars, snap, parent, rollup, paused, latest, map_on, tree, sort_col, sort_desc,
                   collapsed, selected, order, snapshots>>

\* ensure_order, as a frame is painted.
Paint ==
    /\ dirty /\ ~map_on
    /\ order' = Ensured /\ dirty' = FALSE
    /\ UNCHANGED <<steadyVars, view, tree, sort_col, sort_desc, collapsed, selected, snapshots, inputs>>

Toggle(r) == collapsed' = IF r \in collapsed THEN collapsed \ {r} ELSE collapsed \cup {r}

\* The row at a place of the order as it stands is that place's row of the list as it
\* is now (past the end of the list the code would stop).
RowAt(pos) == snap.list[order[pos].row]

\* A click or right-click on a row, left_down and select_at.
Click(pos) ==
    /\ ~map_on /\ order[pos].row \in DOMAIN snap.list
    /\ selected' = RowAt(pos)
    /\ UNCHANGED <<steadyVars, view, tree, sort_col, sort_desc, collapsed, order, dirty, snapshots>>

\* toggle_expanded, a click on the expander.
ToggleExpanded(pos) ==
    /\ ~map_on /\ order[pos].row \in DOMAIN snap.list /\ order[pos].children
    /\ Toggle(RowAt(pos)) /\ dirty' = TRUE
    /\ UNCHANGED <<steadyVars, view, tree, sort_col, sort_desc, selected, order, snapshots>>

\* move_selection, by the arrow keys.
MoveSelection(delta) ==
    LET rows == Ensured
        listed == selected \in ToSet(Ids(rows))
        next == IF listed THEN Min({Max({PosOf(rows, selected) + delta, 1}), Len(rows)})
                ELSE IF delta >= 0 THEN 1 ELSE Len(rows)
    IN /\ order' = rows /\ dirty' = FALSE
       /\ \/ rows = << >> /\ UNCHANGED selected
          \/ rows # << >> /\ selected' = rows[next].id
       /\ UNCHANGED <<steadyVars, view, tree, sort_col, sort_desc, collapsed, snapshots>>

\* collapse_or_parent and expand_or_child, by the left and right arrows in the tree,
\* which bring the order up to date even where there is nothing to fold and nowhere to go.
FoldOrStep(fold) ==
    LET rows == Ensured
        pos == PosOf(rows, selected)
        listed == selected \in ToSet(Ids(rows))
        folds == listed /\ rows[pos].children /\ (selected \in collapsed) # fold
        steps == listed /\ ~folds /\ IF fold THEN rows[pos].parent # NONE ELSE rows[pos].children
    IN /\ tree /\ order' = rows
       /\ \/ folds /\ Toggle(selected) /\ dirty' = TRUE /\ UNCHANGED selected
          \/ /\ steps /\ selected' = IF fold THEN rows[pos].parent ELSE rows[pos + 1].id
             /\ dirty' = FALSE /\ UNCHANGED collapsed
          \/ ~folds /\ ~steps /\ dirty' = FALSE /\ UNCHANGED <<selected, collapsed>>
       /\ UNCHANGED <<steadyVars, view, tree, sort_col, sort_desc, snapshots>>

-----------------------------------------------------------------------------

Init ==
    /\ snap \in Snapshots /\ parent = Rebuild(snap.list, snap.started_by)
    /\ rollup = Rollups(parent, snap.figure)
    /\ search = None /\ shown = List
    /\ paused = FALSE /\ latest = << >> /\ map_on = FALSE
    /\ tree \in BOOLEAN /\ sort_col = "cpu" /\ sort_desc = TRUE
    /\ collapsed = {} /\ selected = None
    /\ order = << >> /\ dirty = TRUE
    /\ held = FALSE /\ frozen = FALSE
    /\ basis = <<sort_col, tree>> /\ keys = RawKeys(snap, rollup, tree)
    /\ snapshots = 1 /\ inputs = 0

Input ==
    \/ TogglePause
    \/ \E on \in BOOLEAN : Point(on)
    \/ \E col \in Columns : SetSort(col)
    \/ \E mode \in {"list", "tree", "map"} : SetView(mode)
    \/ \E find \in Searches \cup {None} : Search(find)
    \/ \E pos \in DOMAIN order : Click(pos) \/ ToggleExpanded(pos)
    \/ \E delta \in {-1, 1} : MoveSelection(delta)
    \/ \E fold \in BOOLEAN : FoldOrStep(fold)

Done == snapshots = MaxSnapshots /\ inputs = MaxInputs /\ UNCHANGED vars

Next ==
    \/ \E s \in Snapshots : SetSnapshot(s)
    \/ Paint
    \/ inputs < MaxInputs /\ inputs' = inputs + 1 /\ Input
    \/ Done

Spec == Init /\ [][Next]_vars

-----------------------------------------------------------------------------
(* Properties                                                               *)

Row == [id : Processes, row : Nat, parent : Processes \cup {NONE}, children : BOOLEAN]

\* Types; whatever the display is doing, the keys are of the rows it shows.
TypeOK ==
    /\ snap \in Snapshots /\ parent \in [List -> List \cup {NONE}]
    /\ shown \subseteq List /\ search \in Searches \cup {None}
    /\ {paused, map_on, tree, sort_desc, dirty, held, frozen} \subseteq BOOLEAN
    /\ Len(latest) <= 1 /\ (latest # << >> => paused)
    /\ held => ~map_on
    /\ sort_col \in Columns /\ basis \in Columns \X BOOLEAN
    /\ DOMAIN keys = IF Banded(basis[1]) THEN List ELSE {}
    /\ collapsed \subseteq Processes /\ selected \in Processes \cup {None}
    /\ order \in Seq(Row)

\* table.rs, ensure_order: the order that is kept between frames is the one that would
\* be built now, unless it is known to be out of date: whatever changes what it is built
\* from (values, keys, filter, folds, arrangement) says so.
OrderIsCurrent == ~dirty => order = Built

\* steady.rs: "two rows can only be shown out of order when each one's value is within
\* the other's key's dead band", siblings in the tree by their subtrees' values; except
\* while the keys are those of a hold.
DisorderIsBounded ==
    LET key == SortKeys(tree)
        value == RawKeys(snap, rollup, tree)
        above == ShownParent(Visible)
        OutOfOrder(a, b) == Precedes(key, a, b) /\ value[a] # value[b] /\ ~Precedes(value, a, b)
    IN (Banded(sort_col) /\ ~frozen) =>
        \A a, b \in Visible :
            ((~tree \/ above[a] = above[b]) /\ OutOfOrder(a, b)) =>
                InBandOfEachOther(key[a], value[a], key[b], value[b])

\* table.rs, build_tree_order: every process the search lets through is listed once, or
\* stands below a folded row; below its parent, with nothing between the two that is not
\* below the parent as well; and in the tree nobody the search lets through hangs from a
\* row it does not.
EveryoneIsListed ==
    ~dirty =>
    LET ids == Ids(order)
        above == ShownParent(Visible)
        Folded(r) == \E k \in collapsed \cap Visible : tree /\ k \in Above(above, r)
    IN /\ IsInjective(ids) /\ ToSet(ids) = {r \in Visible : ~Folded(r)}
       /\ \A j \in DOMAIN ids : (tree /\ above[ids[j]] # NONE) =>
            \E i \in 1..(j - 1) :
                /\ ids[i] = above[ids[j]]
                /\ \A k \in (i + 1)..j : ids[i] \in Above(above, ids[k])
       /\ tree => \A r \in Visible : above[r] = parent[r] \/ parent[r] = Idle

\* process_rows.rs, rebuild: whatever parents a list comes with, what is left is a forest
\* in which one process of each circle, and nobody else, has lost its parent; and a
\* process's figure is that of everybody below it, each once.
TreeIsRepaired ==
    LET known == Known(snap.list, snap.started_by)
        cut == {r \in List : parent[r] # known[r]}
        circled == {r \in List : r \in Above(known, r)}
    IN /\ \A r \in List : r \notin Above(parent, r)
       /\ \A r \in cut : parent[r] = NONE /\ r \in circled
       /\ \A r \in circled : Cardinality(cut \cap Above(known, r)) = 1
       /\ \A r \in List :
            LET below == Below(parent, r) IN
            /\ rollup[r].descendants = Cardinality(below)
            /\ rollup[r].figure = SumFunctionOnSet(snap.figure, below \cup {r})

\* view.rs, set_view: "keeping the selection in view": whatever was folded, searched or
\* new, a selected process the arrangement shows at all is listed in it.
SelectionIsRevealed ==
    [][(selected \in Visible' /\ selected \notin ToSet(Ids(order'))) =>
        \A mode \in {"list", "tree"} : ~SetView(mode)]_vars

\* steady.rs: "while the order is held (the pointer is over the table) keys do not move
\* at all": two rows that stay in the same place of the hierarchy do not change places
\* under the pointer, whatever snapshots come, unless the user rearranges them.
HeldRowsStay ==
    [][LET SameHold == held /\ held' /\ basis = <<sort_col, tree>> /\ UNCHANGED <<sort_col, sort_desc, tree>>
           Stays(r) == ~tree \/ parent'[r] = parent[r]
       IN (SameHold /\ Banded(sort_col)) =>
            \A a, b \in List \cap List' :
                ((~tree \/ parent[a] = parent[b]) /\ Stays(a) /\ Stays(b)) =>
                    (Precedes(SortKeys(tree), a, b) <=> Precedes(SortKeys(tree)', a, b))]_vars

\* view.rs: "Select the row under `at`, if there is one": a click selects the process
\* that is painted where it lands.
ClickSelectsWhatIsShown ==
    [][\A pos \in DOMAIN order : Click(pos) => selected' = order[pos].id]_vars
=============================================================================
