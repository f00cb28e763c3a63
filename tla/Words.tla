-------------------------------- MODULE Words --------------------------------
(***************************************************************************)
(* Unsigned words too wide for TLC's integers, as the set of the positions *)
(* of their 1 bits: `&` is intersection and `|` union.                     *)
(***************************************************************************)
EXTENDS Integers

CONSTANT None    \* std::nullopt

\* `<<` and `>>`.
Shl(word, n) == {i + n : i \in word}
Shr(word, n) == {i - n : i \in {j \in word : j >= n}}

\* static_cast to w bits.
Cast(word, w) == word \cap 0..(w - 1)
=============================================================================
