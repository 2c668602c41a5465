------------------------------- MODULE Lists --------------------------------
(* A list_head list of kernel/list/list.h as the sequence of its nodes. *)
EXTENDS Naturals, Sequences

Members(s) == {s[i] : i \in DOMAIN s}

(* A list after list_del_init of its nodes that are not in S. *)
Keep(s, S) ==
    LET kept[n \in 0 .. Len(s)] ==
          IF n = 0 THEN <<>>
          ELSE IF s[n] \in S THEN Append(kept[n - 1], s[n]) ELSE kept[n - 1]
    IN  kept[Len(s)]

(* No node is linked twice. *)
Once(s) == \A i, j \in DOMAIN s : s[i] = s[j] => i = j
=============================================================================
