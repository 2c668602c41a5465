----------------------------- MODULE NodeLists -----------------------------
(***************************************************************************)
(* What kernel/list promises: each head has a sequence of nodes, no node   *)
(* is in two places, and the operations are those of sequences.            *)
(***************************************************************************)
EXTENDS Naturals, Sequences

CONSTANTS Heads, Nodes

VARIABLE lists   \* the sequence of nodes of each head

On(h) == {lists[h][i] : i \in DOMAIN lists[h]}
Listed == UNION {On(h) : h \in Heads}

Drop(s, n) == SelectSeq(s, LAMBDA m : m # n)

Init == lists = [h \in Heads |-> <<>>]

AddFirst(n, h) == n \notin Listed /\ lists' = [lists EXCEPT ![h] = <<n>> \o @]

AddLast(n, h) == n \notin Listed /\ lists' = [lists EXCEPT ![h] = Append(@, n)]

Remove(n) == lists' = [h \in Heads |-> Drop(lists[h], n)]

Replace(m, n) ==
    /\ n \notin Listed
    /\ lists' = [h \in Heads |->
                    [i \in DOMAIN lists[h] |-> IF lists[h][i] = m THEN n ELSE lists[h][i]]]

SpliceFirst(g, h) == g # h /\ lists' = [lists EXCEPT ![g] = <<>>, ![h] = lists[g] \o @]

SpliceLast(g, h) == g # h /\ lists' = [lists EXCEPT ![g] = <<>>, ![h] = @ \o lists[g]]

(* The first k nodes of h move to the empty list g. *)
Cut(g, h, k) ==
    /\ g # h /\ lists[g] = <<>>
    /\ lists' = [lists EXCEPT ![g] = SubSeq(lists[h], 1, k),
                              ![h] = SubSeq(@, k + 1, Len(@))]

Operation ==
    \/ \E n \in Nodes, h \in Heads : AddFirst(n, h) \/ AddLast(n, h)
    \/ \E n \in Nodes : Remove(n)
    \/ \E m, n \in Nodes : Replace(m, n)
    \/ \E g, h \in Heads :
        \/ SpliceFirst(g, h)
        \/ SpliceLast(g, h)
        \/ \E k \in 0..Len(lists[h]) : Cut(g, h, k)

(* An operation that moves nothing is no step. *)
Next == lists' # lists /\ Operation

Spec == Init /\ [][Next]_lists

=============================================================================
