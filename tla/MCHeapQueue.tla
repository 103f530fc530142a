---------------------------- MODULE MCHeapQueue -----------------------------
(***************************************************************************)
(* Six keys: with fewer, the element that heap.Remove moves into the gap   *)
(* never has to rise. The first five JobDetails may be replaced, fixed may *)
(* not; the five are interchangeable.                                      *)
(***************************************************************************)
EXTENDS HeapQueue, TLC

CONSTANTS fixed

MCKeyOf == [d \in Details |-> d]
MCSelections == {JobKeys, JobKeys \ {fixed}}
MCSymmetry == Permutations(Details \ {fixed})

=============================================================================
