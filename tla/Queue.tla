-------------------------------- MODULE Queue --------------------------------
(***************************************************************************)
(* Waiting queues.  The code keeps them as doubly linked lists and takes    *)
(* members out at any place; a queue here is a sequence, first come first.  *)
(***************************************************************************)
EXTENDS Naturals, Sequences

\* What is left of queue s when the members of S are taken out of it.  It is
\* SelectSeq, written as a recursive function so that it can be reasoned about.
Without(s, S) ==
    LET kept[i \in 0..Len(s)] ==
          IF i = 0 THEN <<>>
          ELSE IF s[i] \in S THEN kept[i - 1] ELSE Append(kept[i - 1], s[i])
    IN  kept[Len(s)]

Members(s) == {s[i] : i \in DOMAIN s}

\* Nobody is queued twice.
Distinct(s) == \A i, j \in DOMAIN s : s[i] = s[j] => i = j
=============================================================================
