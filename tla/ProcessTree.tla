---------------------------- MODULE ProcessTree ----------------------------
(***************************************************************************)
(* Parents and subtree figures of one list of processes                    *)
(* (ot-ui/src/process_rows.rs, ProcessTree): a parent that is not in the   *)
(* list is no parent, a chain of parents that runs in a circle is cut, and *)
(* every process's figure is folded into its ancestors.                    *)
(*                                                                         *)
(* A list is a sequence of processes without repetition; of the figures    *)
(* that are rolled up there is one, and the number of descendants.         *)
(***************************************************************************)
EXTENDS Integers, FiniteSets, SequencesExt

\* No parent. Processes are natural numbers.
NONE == -1

\* r and its ancestors: Chain(parent, r)[n] is n levels up, NONE past the root.
Chain(parent, r) ==
    LET up[n \in 0..Cardinality(DOMAIN parent)] ==
            IF n = 0 THEN r ELSE IF up[n - 1] = NONE THEN NONE ELSE parent[up[n - 1]]
    IN up

Above(parent, r) == {Chain(parent, r)[n] : n \in 1..Cardinality(DOMAIN parent)} \ {NONE}
Below(parent, r) == {k \in DOMAIN parent : r \in Above(parent, k)}

\* Mutant: a circle is walked and left as it is.
ResolveDepthUncut(t, start) ==
    [t EXCEPT !.resolved = @ \cup {start} \cup Above(t.parent, start)]

\* resolve_depth: up from start as far as nothing is resolved; if that comes back to a
\* process of its own chain, the process it comes back to becomes a root.
ResolveDepth(t, start) ==
    LET up == Chain(t.parent, start)
        walked == {n \in DOMAIN up : \A m \in 0..n : up[m] \notin t.resolved \cup {NONE}}
        back == {n \in walked : \E m \in 0..(n - 1) : up[m] = up[n]}
    IN [parent |-> IF back = {} THEN t.parent ELSE [t.parent EXCEPT ![up[Min(back)]] = NONE],
        resolved |-> t.resolved \cup {up[n] : n \in walked}]

\* The parents known of a list: absent ones, and a process itself, do not count.
Known(list, parent_of) ==
    [r \in ToSet(list) |->
        IF parent_of[r] \in ToSet(list) \ {r} THEN parent_of[r] ELSE NONE]

\* rebuild, the parents.
Rebuild(list, parent_of) ==
    FoldLeft(ResolveDepth, [parent |-> Known(list, parent_of), resolved |-> {}], list).parent

\* The members of a set in a strict order of them, given as pairs.
Arranged(S, before) ==
    [n \in 1..Cardinality(S) |->
        CHOOSE r \in S : Cardinality({k \in S : <<k, r>> \in before}) = n - 1]

Depth(parent, r) == Cardinality(Above(parent, r))
Depths(parent) == {<<r, Depth(parent, r)>> : r \in DOMAIN parent}

\* Mutant: parents before their children.
ByDepthShallowestFirst(parent) ==
    LET Sooner(a, b) == a[2] < b[2] \/ (a[2] = b[2] /\ a[1] < b[1])
        before == {e \in Depths(parent) \X Depths(parent) : Sooner(e[1], e[2])}
    IN Arranged(DOMAIN parent, {<<e[1][1], e[2][1]>> : e \in before})

\* by_depth: deepest first, in whatever order within a depth.
ByDepth(parent) ==
    LET Sooner(a, b) == a[2] > b[2] \/ (a[2] = b[2] /\ a[1] < b[1])
        before == {e \in Depths(parent) \X Depths(parent) : Sooner(e[1], e[2])}
    IN Arranged(DOMAIN parent, {<<e[1][1], e[2][1]>> : e \in before})

\* rebuild, the rollups (roll_cycles is the same for the fading totals): own figures,
\* then each process folded into its parent.
Rollups(parent, own) ==
    LET Add(rollup, r) ==
            IF parent[r] = NONE THEN rollup
            ELSE [rollup EXCEPT ![parent[r]] =
                    [figure |-> @.figure + rollup[r].figure,
                     descendants |-> @.descendants + rollup[r].descendants + 1]]
    IN FoldLeft(Add, [r \in DOMAIN parent |-> [figure |-> own[r], descendants |-> 0]], ByDepth(parent))

\* propagate_up: what is flagged, and the path from it to its root.
PropagateUp(parent, flagged) ==
    LET Flag(flags, r) == IF r \in flags /\ parent[r] # NONE THEN flags \cup {parent[r]} ELSE flags
    IN FoldLeft(Flag, flagged, ByDepth(parent))
=============================================================================
