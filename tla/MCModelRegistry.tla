--------------------------- MODULE MCModelRegistry ---------------------------
(* Model checking instances of ModelRegistry: the registries it starts from.*)
EXTENDS ModelRegistry, TLC

CONSTANTS i1, i2, e1, e2, k1, k2, s1, s2, m1

Permute == Permutations(Tx)

First == [ident |-> i1, endpoint |-> e1, key |-> k1]

Taken == [reg |-> [m \in Model |-> First], stamped |-> Model,
          used |-> [s \in Space |-> IF s = s1 THEN m1 ELSE None]]
Unused == [Taken EXCEPT !.used = [s \in Space |-> None]]
Fresh == [Unused EXCEPT !.stamped = {}]
Absent == [Fresh EXCEPT !.reg = [m \in Model |-> None]]

MCSeed == {Taken, Unused, Fresh, Absent}
=============================================================================
