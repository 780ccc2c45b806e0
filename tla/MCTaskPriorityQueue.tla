------------------------ MODULE MCTaskPriorityQueue ------------------------
(* Instances of TaskPriorityQueue for TLC.                                 *)
EXTENDS TaskPriorityQueue

T(id, prio, key, ordered, side, price, time, c) ==
    [id |-> id, prio |-> prio, key |-> key, ordered |-> ordered, side |-> side,
     price |-> price, time |-> time, cliordid |-> c]

MCKey == {1, 2}
MCCliordid == {"A", "B"}

\* Tasks of every kind for orders A and B; the ordered ones are two buys and
\* two sells of different prices.
MixedTasks ==
    {T(1, 4, 1, FALSE, "buy", 5, 1, "A"),
     T(2, 3, 1, FALSE, "buy", 5, 2, "A"),
     T(3, 3, 2, TRUE, "sell", 7, 3, "B"),
     T(4, 3, 1, TRUE, "buy", 5, 4, "A"),
     T(5, 1, 2, TRUE, "sell", 6, 5, "B"),
     T(6, 2, 1, FALSE, "buy", 5, 6, "A"),
     T(7, 1, 1, FALSE, "buy", 5, 7, "B"),
     T(8, 3, 2, TRUE, "sell", 6, 6, "A")}

\* One side, one price, four times.
OnePriceTasks ==
    {T(1, 3, 1, TRUE, "buy", 5, 1, "A"), T(2, 3, 1, TRUE, "buy", 5, 2, "A"),
     T(3, 3, 1, TRUE, "buy", 5, 3, "B"), T(4, 3, 1, TRUE, "buy", 5, 0, "B")}
=============================================================================
