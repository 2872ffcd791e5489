------------------------------ MODULE EraseIf ------------------------------
(***************************************************************************)
(* std::erase_if on a vector, which the mailbox's drain and the kernel's   *)
(* model of it call: one walk from the front, in which an element is       *)
(* either shifted down behind the ones kept so far or left out.            *)
(***************************************************************************)
EXTENDS Integers, Sequences

\* What is kept of the first i elements of s, when those in S are kept.
Keeping(s, S) ==
  LET kept[i \in 0..Len(s)] ==
        IF i = 0 THEN <<>>
        ELSE IF s[i] \in S THEN Append(kept[i - 1], s[i]) ELSE kept[i - 1]
  IN kept[Len(s)]
=============================================================================
