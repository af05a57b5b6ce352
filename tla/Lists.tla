-------------------------------- MODULE Lists --------------------------------
(* What the queues of the program do to a list and the standard modules     *)
(* give no provable definition of.                                          *)
EXTENDS Integers, Sequences

\* The list s without the elements of S, the others in their order.
Without(s, S) ==
  LET kept[n \in 0 .. Len(s)] ==
        IF n = 0 THEN << >>
        ELSE IF s[n] \in S THEN kept[n - 1] ELSE Append(kept[n - 1], s[n])
  IN  kept[Len(s)]
=============================================================================
