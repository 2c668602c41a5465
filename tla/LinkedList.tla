----------------------------- MODULE LinkedList ----------------------------
(***************************************************************************)
(* kernel/list/list.{h,c}: circular doubly linked lists, as the pointer    *)
(* writes the code does, in its order.  Every queue of the kernel is one.  *)
(*                                                                         *)
(* Callers keep to the interface: they add a node that is on no list, and  *)
(* initialise again a cell the interface leaves with stale pointers        *)
(* (list_del, list_replace, list_splice) before they use it as a head.     *)
(***************************************************************************)
EXTENDS Naturals, Sequences, FiniteSets

CONSTANTS Heads, Nodes,
          CutFirst   \* TRUE: list_cut_position is also called at the first entry

ASSUME CellsAssumption == Heads \cap Nodes = {}

VARIABLES next, prev,
          stale   \* the cells outside every list whose pointers are left over

listVars == <<next, prev, stale>>

Cells == Heads \cup Nodes

INIT_LIST_HEAD(L, c) == [next |-> [L.next EXCEPT ![c] = c], prev |-> [L.prev EXCEPT ![c] = c]]

Lists == [next |-> next, prev |-> prev]

\* Slip: next->prev is not set.
__list_add_no_back(L, n, p, x) ==
    [next |-> [L.next EXCEPT ![n] = x, ![p] = n], prev |-> [L.prev EXCEPT ![n] = p]]

(* EXCEPT applies its updates in order, as the code's assignments are. *)
__list_add(L, n, p, x) ==
    [next |-> [L.next EXCEPT ![n] = x, ![p] = n], prev |-> [L.prev EXCEPT ![x] = n, ![n] = p]]

__list_del(L, p, x) ==
    [next |-> [L.next EXCEPT ![p] = x], prev |-> [L.prev EXCEPT ![x] = p]]

Replaced(L, old, new) ==
    LET nx == [L.next EXCEPT ![new] = L.next[old]]
        pv == [L.prev EXCEPT ![L.next[old]] = new]
        pw == [pv EXCEPT ![new] = pv[old]]
    IN  [next |-> [nx EXCEPT ![pw[new]] = new], prev |-> pw]

list_is_empty(h) == next[h] = h
list_is_singular(h) == ~list_is_empty(h) /\ next[h] = prev[h]

(* The splices, for a source that is not empty. *)
SplicedFirst(L, g, h) ==
    LET first == L.next[g]  last == L.prev[g]  head_next == L.next[h]
    IN  [next |-> [L.next EXCEPT ![h] = first, ![last] = head_next],
         prev |-> [L.prev EXCEPT ![first] = h, ![head_next] = last]]

\* Slip: the ends of the spliced list are swapped.
SplicedLast_swapped(L, g, h) ==
    LET first == L.next[g]  last == L.prev[g]  head_prev == L.prev[h]
    IN  [next |-> [L.next EXCEPT ![last] = h, ![head_prev] = first],
         prev |-> [L.prev EXCEPT ![h] = last, ![first] = h]]

SplicedLast(L, g, h) ==
    LET first == L.next[g]  last == L.prev[g]  head_prev == L.prev[h]
    IN  [next |-> [L.next EXCEPT ![last] = h, ![head_prev] = first],
         prev |-> [L.prev EXCEPT ![h] = last, ![first] = head_prev]]

(* list_cut_position past its two early returns. *)
CutAll(L, g, h) ==
    LET nx == [L.next EXCEPT ![g] = L.next[h]]
        pv == [L.prev EXCEPT ![g] = L.prev[h], ![nx[g]] = g]
    IN  INIT_LIST_HEAD([next |-> [nx EXCEPT ![pv[g]] = g], prev |-> pv], h)

CutBefore(L, g, h, e) ==
    LET nx == [L.next EXCEPT ![g] = L.next[h]]
        pv == [L.prev EXCEPT ![g] = L.prev[e], ![nx[g]] = g]
    IN  [next |-> [nx EXCEPT ![pv[g]] = g, ![h] = e], prev |-> [pv EXCEPT ![e] = h]]

----------------------------------------------------------------------------
Write(L) == next' = L.next /\ prev' = L.prev

(* list_on_list, and the caller's side of the interface. *)
list_on_list(c) == next[c] # c /\ prev[c] # c
Unlisted(n) == n \in stale \/ ~list_on_list(n)
Usable(c) == c \notin stale

ListInit ==
    /\ next = [c \in Cells |-> c] /\ prev = [c \in Cells |-> c]
    /\ stale = {}

list_add(n, h) ==
    /\ Unlisted(n) /\ Usable(h)
    /\ Write(__list_add(Lists, n, h, next[h])) /\ stale' = stale \ {n}

list_add_tail(n, h) ==
    /\ Unlisted(n) /\ Usable(h)
    /\ Write(__list_add(Lists, n, prev[h], h)) /\ stale' = stale \ {n}

list_del(n) ==
    /\ Usable(n) /\ list_on_list(n)
    /\ Write(__list_del(Lists, prev[n], next[n])) /\ stale' = stale \cup {n}

list_del_init(n) ==
    /\ Usable(n)
    /\ Write(INIT_LIST_HEAD(__list_del(Lists, prev[n], next[n]), n)) /\ UNCHANGED stale

list_replace(m, n) ==
    /\ m # n /\ Usable(m) /\ list_on_list(m) /\ Unlisted(n)
    /\ Write(Replaced(Lists, m, n)) /\ stale' = (stale \cup {m}) \ {n}

list_replace_init(m, n) ==
    /\ m # n /\ Usable(m) /\ list_on_list(m) /\ Unlisted(n)
    /\ Write(INIT_LIST_HEAD(Replaced(Lists, m, n), m)) /\ stale' = stale \ {n}

Reinit(c) ==
    /\ c \in stale
    /\ Write(INIT_LIST_HEAD(Lists, c)) /\ stale' = stale \ {c}

list_splice(g, h) ==
    /\ g # h /\ Usable(g) /\ Usable(h) /\ ~list_is_empty(g)
    /\ Write(SplicedFirst(Lists, g, h)) /\ stale' = stale \cup {g}

list_splice_tail(g, h) ==
    /\ g # h /\ Usable(g) /\ Usable(h) /\ ~list_is_empty(g)
    /\ Write(SplicedLast(Lists, g, h)) /\ stale' = stale \cup {g}

list_splice_init(g, h) ==
    /\ g # h /\ Usable(g) /\ Usable(h) /\ ~list_is_empty(g)
    /\ Write(INIT_LIST_HEAD(SplicedFirst(Lists, g, h), g)) /\ UNCHANGED stale

(* The nodes list_for_each visits from h on. *)
Walk(h) ==
    LET N == Cardinality(Nodes)
        s[k \in 1..N + 1] == IF k = 1 THEN next[h] ELSE next[s[k - 1]]
        n == CHOOSE k \in 0..N : s[k + 1] = h /\ \A j \in 1..k : s[j] # h
    IN  [i \in 1..n |-> s[i]]

(* The cells a walk from h meets before it is back at h: the smallest set  *)
(* with next[h] that next leads out of only at h.                          *)
WalkClosed(h, X) == next[h] \in X /\ \A c \in X \ {h} : next[c] \in X
Entries(h) == {c \in Cells : \A X \in SUBSET Cells : WalkClosed(h, X) => c \in X} \ {h}

(* list_cut_position(g, h, e) with e an entry of h's list or h itself, and *)
(* g an empty list.  (Its test for a singular list returns early only for  *)
(* entries of other lists.)                                                *)
list_cut_position(g, h, e) ==
    /\ g # h /\ Usable(g) /\ Usable(h) /\ list_is_empty(g)
    /\ e \in Entries(h) \cup {h} /\ (CutFirst \/ e = h \/ e # next[h])
    /\ IF list_is_empty(h) \/ (list_is_singular(h) /\ next[h] # e /\ h # e)
       THEN Write(INIT_LIST_HEAD(Lists, g))
       ELSE IF e = h THEN Write(CutAll(Lists, g, h)) ELSE Write(CutBefore(Lists, g, h, e))
    /\ UNCHANGED stale

ListNext ==
    \/ \E n \in Nodes, h \in Heads : list_add(n, h) \/ list_add_tail(n, h)
    \/ \E n \in Nodes : list_del(n) \/ list_del_init(n)
    \/ \E m, n \in Nodes : list_replace(m, n) \/ list_replace_init(m, n)
    \/ \E c \in Cells : Reinit(c)
    \/ \E g, h \in Heads :
        \/ list_splice(g, h)
        \/ list_splice_tail(g, h)
        \/ list_splice_init(g, h)
        \/ \E e \in Cells : list_cut_position(g, h, e)

ListSpec == ListInit /\ [][ListNext]_listVars

----------------------------------------------------------------------------

(* The two directions agree: outside the stale cells next and prev are     *)
(* inverse to each other, and no list leads into a stale cell.  Traversals *)
(* in either direction, and deletions, rest on this.                       *)
PointersAgree ==
    \A c \in Cells \ stale :
        /\ next[c] \notin stale /\ prev[c] \notin stale
        /\ prev[next[c]] = c /\ next[prev[c]] = c

(* The sequences the heads stand for. *)
Abstract == INSTANCE NodeLists WITH
    lists <- [h \in Heads |-> IF h \in stale THEN <<>> ELSE Walk(h)]

(* Pointer by pointer, the operations do what NodeLists says: the walk     *)
(* from each head visits the nodes of its sequence, in order.              *)
LinkedListImplementsNodeLists == Abstract!Spec

=============================================================================
