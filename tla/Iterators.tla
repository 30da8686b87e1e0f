----------------------------- MODULE Iterators -----------------------------
(***************************************************************************)
(* The iterator adapter that the searches of both routing tables rest on,  *)
(* as the loop it is.                                                      *)
(***************************************************************************)
EXTENDS Integers, Sequences

(***************************************************************************)
(* Iterator::filter (and filter_map, where it drops the Nones): the items  *)
(* of a sequence that are in a set, in their order.                        *)
(***************************************************************************)
filter(seq, kept) ==
  LET out[n \in 0 .. Len(seq)] ==
        IF n = 0 THEN <<>>
        ELSE IF seq[n] \in kept THEN Append(out[n - 1], seq[n])
        ELSE out[n - 1]
  IN  out[Len(seq)]
=============================================================================
