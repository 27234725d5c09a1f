------------------------------ MODULE Filters -------------------------------
(* Array.prototype.filter, as a recursive function, about which one can prove. *)
EXTENDS Integers, Sequences

Filter(s, S) ==
  LET kept[n \in 0..Len(s)] ==
        IF n = 0 THEN <<>> ELSE IF s[n] \in S THEN Append(kept[n - 1], s[n]) ELSE kept[n - 1]
  IN kept[Len(s)]
=============================================================================
