------------------------------- MODULE Shaping -------------------------------
(***************************************************************************)
(* The sizes and pauses of pkg/cover: how much padding a payload gets      *)
(* (smart_padding.go, shaper.go), the window of sizes they are derived     *)
(* from (stats.go), and the pause between two cover requests (manager.go). *)
(* What the code draws at random is the set of what it may draw, times are *)
(* in milliseconds.                                                        *)
(***************************************************************************)
EXTENDS Packet, SequencesExt

\* randomInt and cryptoRandDuration.
Drawn(min, max) == IF max <= min THEN {min} ELSE min..(max - 1)

Cut(n, min, max) == IF n < min THEN min ELSE IF n > max THEN max ELSE n

---------------------------------------------------------------------------
(* Stats. *)

\* Stats.Record and recordInterval: a full window drops its oldest element.
Record(window, max, x) ==
    Append(IF Len(window) >= max THEN SubSeq(window, 2, max) ELSE window, x)

\* AvgPacketSize, and AvgInterval with its own default.
Average(window, default) ==
    IF window = <<>> THEN default ELSE FoldSeq(+, 0, window) \div Len(window)

---------------------------------------------------------------------------
(* Shaper. *)

\* IdleDelay, by the shaper's pattern.
IdleDelays(pattern) ==
    IF pattern = "web" THEN Drawn(1000, 5000)
    ELSE IF pattern = "video" THEN Drawn(100, 500)
    ELSE IF pattern = "download" THEN Drawn(500, 2000)
    ELSE Drawn(1000, 3000)

\* FragmentSize: the size of a padding packet, around the average.
FragmentSizes(avg) ==
    {Cut((IF avg < 100 THEN 512 ELSE avg) + jitter, 64, 1024) : jitter \in Drawn(-64, 64)}

\* PaddingSize of a shaper without a SmartPadder: up to the average size.
PlainPadSizes(avg, size) ==
    IF avg <= size THEN {0}
    ELSE LET padding == avg - size
         IN  UNION {{Cut(padding + jitter, 0, MaxPaddingSize),
                     Cut(IF padding > jitter THEN padding - jitter ELSE padding,
                         0, MaxPaddingSize)} : jitter \in Drawn(0, 64)}

---------------------------------------------------------------------------
(* SmartPadder. *)

WebBuckets == {64, 128, 256, 512, 1024, 1460, 2048, 4096, 8192, 16384}

\* The smallest bucket that a payload of this size does not overfill: one, or none.
Bucket(size) ==
    {b \in WebBuckets : size <= b /\ \A c \in WebBuckets : size <= c => b <= c}

\* A payload that fills its bucket, or is larger than all of them, goes to the
\* next multiple of a TCP segment.
Targets(size) ==
    IF Bucket(size) \ {size} # {} THEN Bucket(size) ELSE {(size \div 1460 + 1) * 1460}

\* Calculate: the padding to the target, cut to the limit of the mode or of the
\* adaptive level, with up to a tenth more or less, and cut again.
Jittered(padding, limit) ==
    LET tenth == IF padding > 20 THEN padding \div 10 ELSE 0
    IN  UNION {{Cut(padding + jitter, 0, limit), Cut(padding - jitter, 0, limit)} :
                   jitter \in Drawn(0, tenth)}

PadSizes(size, limit) ==
    IF limit <= 0 THEN {0}
    ELSE UNION {Jittered(Cut(target - size, 0, limit), limit) : target \in Targets(size)}

\* The total that Interleaver.sendShaped asks NewPaddedDataPacket for.
ShapedTotal(payload, padding) == HeaderSize + Len(payload) + padding

---------------------------------------------------------------------------
(* Manager. *)

\* coverInterval, for the shortest and longest pause of the domain or the level.
CoverIntervals(min, max) ==
    Drawn(IF min \div 4 < 200 THEN 200 ELSE min \div 4, min)
        \cup Drawn(max, IF 3 * max > 120000 THEN 120000 ELSE 3 * max)
        \cup Drawn(min, max)
=============================================================================
