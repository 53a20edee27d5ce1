------------------------- MODULE MCTransformations -------------------------
(* Two requests on a picture and a video; requests are interchangeable.    *)
EXTENDS Transformations, TLC

Interchangeable == Permutations(Requests)
============================================================================
