---------------------------- MODULE Subsequences ----------------------------
(* Deletion from an ordered table: a Python dict, OrderedDict or deque from   *)
(* which entries are popped keeps the others in order.                        *)
EXTENDS Naturals, Sequences

\* seq without the entries in S
Dropping(seq, S) ==
  LET kept[i \in 0..Len(seq)] ==
        IF i = 0 THEN <<>>
        ELSE IF seq[i] \in S THEN kept[i - 1] ELSE Append(kept[i - 1], seq[i])
  IN kept[Len(seq)]

\* the entries of seq
Entries(seq) == {seq[i] : i \in 1..Len(seq)}
=============================================================================
