-------------------------------- MODULE JsMap --------------------------------
(* A JavaScript Map that is iterated or evicted in insertion order: the      *)
(* sequence of its entries, oldest first. What an entry is, and which of its *)
(* fields is the key, is up to the module that uses it.                      *)
EXTENDS Naturals, Sequences

(* Entries are deleted: those that stay keep their order. (SelectSeq, as a   *)
(* function that proofs can unfold.)                                         *)
Kept(map, entries) ==
    LET kept[n \in 0..Len(map)] ==
            IF n = 0 THEN <<>>
            ELSE IF map[n] \in entries THEN Append(kept[n - 1], map[n]) ELSE kept[n - 1]
    IN  kept[Len(map)]
=============================================================================
