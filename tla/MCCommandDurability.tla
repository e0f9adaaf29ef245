------------------------ MODULE MCCommandDurability ------------------------
(* The commands of one aggregate; their names are enqueued in order, since *)
(* nothing else tells them apart.                                          *)
EXTENDS CommandDurability

CONSTANTS c1, c2, c3

Before == {<<c1, c2>>, <<c2, c3>>}

InOrder == \A p \in Before : p[2] \in Cmd /\ enq[p[2]] # "new" => enq[p[1]] # "new"

OrderedSpec == Init /\ [][Next /\ InOrder']_vars

=============================================================================
