-------------------------------- MODULE Loops --------------------------------
(***************************************************************************)
(* A for loop that carries a state through the elements of a sequence.     *)
(***************************************************************************)
EXTENDS Integers, Sequences

\* Each step is computed from a value and not from a formula, which TLC would
\* evaluate again at each of its uses.
Loop(step(_, _), s, seq) ==
    LET after[i \in 0..Len(seq)] ==
            IF i = 0 THEN s
            ELSE CHOOSE t \in {step(u, seq[i]) : u \in {after[i - 1]}} : TRUE
    IN  after[Len(seq)]
=============================================================================
