--------------------------- MODULE MCCollectionSync ---------------------------
(* Instances of CollectionSync for TLC: the commands of one source at a time, *)
(* with those that collect single records.                                    *)
EXTENDS CollectionSync, TLC

\* An installation writes the offsets it has of these.
SomeSince == {-1, 1}
SomeUntil == {-2, 2}

Operated(commands, offsets, n) == [commands |-> commands, offsets |-> offsets, events |-> n]
Installations ==
    {Operated({"nvd"}, {-1}, 4), Operated({"nvd"}, {-2}, 2), Operated({"nvd"}, {1, 2}, 3),
     Operated({"nvd-full", "retry"}, {}, 3), Operated({"delta"}, {-1, 1}, 3), Operated({"baseline"}, {}, 4),
     Operated({"collect"}, {}, 2), Operated({"batch", "retry"}, {}, 2)}

\* Two processes collecting single records.
SharedInstallation == {Operated({"collect"}, {}, 3)}

=============================================================================
