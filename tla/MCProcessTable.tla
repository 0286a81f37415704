--------------------------- MODULE MCProcessTable ---------------------------
\* The idle process starts 1, which starts 2 and 3, and 3 starts 4. One after another
\* they change places, by a little and by a lot, and 1 exits; or numbers that came back
\* have the parents run in circles, met from inside and from outside.
EXTENDS ProcessTable

MCProcesses == 0..4
MCName == 0 :> 0 @@ 1 :> 3 @@ 2 :> 1 @@ 3 :> 2 @@ 4 :> 4
Family == 0 :> NONE @@ 1 :> 0 @@ 2 :> 1 @@ 3 :> 1 @@ 4 :> 3
Inside == 0 :> NONE @@ 1 :> NONE @@ 2 :> 1 @@ 3 :> 4 @@ 4 :> 3
Outside == 0 :> NONE @@ 1 :> 3 @@ 2 :> 1 @@ 3 :> 2 @@ 4 :> 2

Taken(list, a, b, c, d, started_by) ==
    LET figures == 0 :> 9 @@ 1 :> a @@ 2 :> b @@ 3 :> c @@ 4 :> d
    IN [list |-> list,
        figure |-> [r \in ToSet(list) |-> figures[r]],
        started_by |-> [r \in ToSet(list) |-> started_by[r]]]

MCSnapshots ==
    {Taken(<<0, 1, 2, 3, 4>>, 0, 2, 1, 0, Family), Taken(<<0, 1, 2, 3, 4>>, 0, 1, 2, 0, Family),
     Taken(<<2, 3, 4>>, 0, 0, 2, 6, Inside), Taken(<<4, 3, 2, 1>>, 1, 0, 0, 3, Outside)}
=============================================================================
