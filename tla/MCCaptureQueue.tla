--------------------------- MODULE MCCaptureQueue ---------------------------
(* Small instances of CaptureQueue for TLC. *)
EXTENDS CaptureQueue, TLC

CONSTANTS canon, alt, other,   \* two spellings of one post, and another URL
          i1, i2, p1, p2,
          media, page

TwoSpellings == [u \in Url |-> IF u = alt THEN canon ELSE u]
Colliding == [u \in Url |-> 0]   \* hashtext maps every identity to one lock
Distinct == [u \in Url |-> u]
AcrossInstances == p1 :> i1 @@ p2 :> i2
OneInstance == p1 :> i1 @@ p2 :> i1

DefaultsAndMedia == {<<"social", {media, page}>>, <<"find", {media, page}>>, <<"find", {media}>>}
Mixed == {<<"queue", {media, page}>>, <<"force", {media}>>, <<"find", {media}>>}
Plain == {<<"queue", {media}>>, <<"find", {media}>>}

\* The requests are interchangeable, on one instance or with their instances.
OneInstanceSymmetry == Permutations(Request)
AcrossSymmetry == {p1 :> p2 @@ p2 :> p1 @@ i1 :> i2 @@ i2 :> i1}
=============================================================================
