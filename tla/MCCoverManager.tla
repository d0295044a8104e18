--------------------------- MODULE MCCoverManager ---------------------------
(***************************************************************************)
(* CoverManager with three levels, two domains of which one is active at   *)
(* the lower levels, and a window that is cut after three samples.         *)
(***************************************************************************)
EXTENDS CoverManager, TLC

ThreeLevels == 0..2
Minima == <<1, 4>> @@ (0 :> 0)
Active == <<1, 2>> @@ (0 :> 1)

Sh == INSTANCE Shaping

\* At the edges of the buckets every payload has some padding, within the limit.
ASSUME EveryEdgeIsPadded ==
    \A size \in Sh!WebBuckets \cup {0, 63, 65, 1459, 1461, 16385}, limit \in {1, 20, 200, 1024} :
        Sh!PadSizes(size, limit) # {} /\ Sh!PadSizes(size, limit) \subseteq 1..limit

\* Targets are multiples of a segment above the buckets, and for a full bucket.
ASSUME TargetsAreSegments ==
    Sh!Targets(512) = {1460} /\ Sh!Targets(2048) = {2920} /\ Sh!Targets(513) = {1024}

\* A window of three keeps the newest three sizes.
ASSUME WindowSlides ==
    /\ Sh!Record(Sh!Record(<<5, 1>>, 3, 9), 3, 6) = <<1, 9, 6>>
    /\ Sh!Average(<<1, 9, 6>>, 512) = 5 /\ Sh!Average(<<>>, 512) = 512
=============================================================================
