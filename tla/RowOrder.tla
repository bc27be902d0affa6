------------------------------ MODULE RowOrder ------------------------------
(***************************************************************************)
(* What ORDER BY makes of rows that come and go: a queue is kept as the    *)
(* set of the rows ahead of each row in it.                                *)
(***************************************************************************)

IsOrder(q) ==
    /\ q \in [DOMAIN q -> SUBSET DOMAIN q]
    /\ \A i, j \in DOMAIN q : /\ i \in q[j] <=> i # j /\ j \notin q[i]
                              /\ i \in q[j] => q[i] \subseteq q[j]

\* The empty queue, and the row that LIMIT 1 takes.
Nothing == [i \in {} |-> {}]
First(q) == {i \in DOMAIN q : q[i] = {}}

\* Rows at the head of the queue.
AtHead(q, S) == S \subseteq DOMAIN q /\ \A i \in S : q[i] \subseteq S

\* The places of a newcomer: the rows ahead of it.
Places(q) == {q[i] : i \in DOMAIN q} \cup {DOMAIN q}

\* A newcomer behind the rows of S, and one behind all.
Inserted(q, new, S) ==
    [i \in DOMAIN q \cup {new} |->
        IF i = new THEN S ELSE IF i \in S THEN q[i] ELSE q[i] \cup {new}]

Enqueued(q, new) == Inserted(q, new, DOMAIN q)

\* The queue without the rows of S.
Dequeued(q, S) == [i \in DOMAIN q \ S |-> q[i] \ S]
=============================================================================
