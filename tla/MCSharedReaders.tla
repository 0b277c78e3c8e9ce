--------------------------- MODULE MCSharedReaders --------------------------
(* Two goroutines; a cache of two answers for three undecided triples.     *)
EXTENDS SharedReaders, TLC

CONSTANTS s1, s2, s3, pt1, pt2

MCStabbed == (pt1 :> {s1, s2}) @@ (pt2 :> {s2, s3})
MCTriples == {<<s1, pt1>>, <<s2, pt1>>, <<s2, pt2>>, <<s3, pt2>>}
MCExact ==
  (<<s1, pt1>> :> "CounterClockwise") @@ (<<s2, pt1>> :> "Clockwise")
    @@ (<<s2, pt2>> :> "CounterClockwise") @@ (<<s3, pt2>> :> "Collinear")
=============================================================================
