---------------------------- MODULE AdaptiveCover ----------------------------
(***************************************************************************)
(* How cover traffic follows the user's traffic (pkg/cover/adaptive.go):   *)
(* RecordTraffic appends to a window of samples that is cut to its newest  *)
(* half when it gets too long, and recalculate, on a ticker, proposes the  *)
(* level of the last minute's bytes and adopts it when it has been         *)
(* proposed for the hysteresis delay.                                      *)
(*                                                                         *)
(* The unit of time is the ticker's period; a timestamp is modelled by its *)
(* age.                                                                    *)
(***************************************************************************)
EXTENDS Integers, Sequences, SequencesExt

CONSTANTS
    Levels,         \* 0 (idle) .. the number of the heaviest level
    MinBytes,       \* MinBytes[l]: MinBytesPerMin of level l
    Sizes,          \* bytes of one sample
    MaxSamples,     \* maxTrafficSamples, 10000
    Window,         \* windowSize
    Hysteresis,     \* hysteresisDelay
    MaxRecords      \* bound: samples recorded in a behaviour

ASSUME ConstantsOK ==
    /\ Levels \subseteq Nat /\ 0 \in Levels
    /\ MinBytes \in [Levels -> Nat] /\ MinBytes[0] = 0
    /\ Sizes \subseteq Nat
    /\ MaxSamples \in Nat \ {0} /\ Window \in Nat \ {0} /\ Hysteresis \in Nat
    /\ MaxRecords \in Nat

Unset == -1     \* the zero time.Time

VARIABLES
    samples,        \* bytesWindow: [bytes, age], the newest last
    currentLevel,
    pendingLevel,
    pendingFor,     \* the age of pendingSince
    due,            \* the ticker has fired
    recorded,       \* samples so far
    traffic,        \* every sample of the last window (of the properties)
    streak          \* [level, age]: what recalculate has proposed last, and since
                    \* when it has proposed nothing else (of the properties)

level   == <<currentLevel, pendingLevel, pendingFor>>
vars    == <<samples, level, due, recorded, traffic, streak>>

\* NewAdaptiveCover: idle, nothing pending.
Init ==
    /\ samples = <<>>
    /\ currentLevel = 0 /\ pendingLevel = 0 /\ pendingFor = Unset
    /\ due = FALSE
    /\ recorded = 0
    /\ traffic = <<>> /\ streak = [level |-> 0, age |-> 0]

---------------------------------------------------------------------------
\* The newest n elements of s.
Newest(s, n) == SubSeq(s, Len(s) - n + 1, Len(s))

\* Mutant: the oldest half is kept.
RecordTrafficKeepsOldest(bytes) ==
    /\ recorded < MaxRecords /\ recorded' = recorded + 1
    /\ LET all == Append(samples, [bytes |-> bytes, age |-> 0])
       IN samples' = IF Len(all) > MaxSamples THEN SubSeq(all, 1, MaxSamples \div 2) ELSE all
    /\ traffic' = Append(traffic, [bytes |-> bytes, age |-> 0])
    /\ UNCHANGED <<level, due, streak>>

\* RecordTraffic: a sample is added, and the oldest are cut.
RecordTraffic(bytes) ==
    /\ recorded < MaxRecords /\ recorded' = recorded + 1
    /\ LET all == Append(samples, [bytes |-> bytes, age |-> 0])
       IN samples' = IF Len(all) > MaxSamples THEN Newest(all, MaxSamples \div 2) ELSE all
    /\ traffic' = Append(traffic, [bytes |-> bytes, age |-> 0])
    /\ UNCHANGED <<level, due, streak>>

\* Ages beyond those the code tells apart are not counted further.
Older(age, limit) == IF age < limit THEN age + 1 ELSE age
\* Every sample is one unit older.
OlderSamples(s) == [i \in DOMAIN s |-> [s[i] EXCEPT !.age = Older(@, Window)]]

\* The first k samples of s are too old, and the others are not.
SplitAt(s, k) == \A i \in 1..Len(s) : i <= k <=> s[i].age >= Window
\* What samples in the order of their times have of the last window.
LastWindow(s) == LET k == CHOOSE k \in 0..Len(s) : SplitAt(s, k) IN SubSeq(s, k + 1, Len(s))

\* A period passes, and the ticker fires (once, if recalculate is late).
Tick ==
    /\ samples' = OlderSamples(samples)
    /\ traffic' = LastWindow(OlderSamples(traffic))
    /\ pendingFor' = IF pendingFor = Unset THEN Unset ELSE Older(pendingFor, Hysteresis)
    /\ streak' = [streak EXCEPT !.age = Older(@, Hysteresis)]
    /\ due' = TRUE
    /\ UNCHANGED <<currentLevel, pendingLevel, recorded>>

\* Mutant: samples of more than a minute ago count.
AllSamples(s) == s

\* The samples within the window.
ValidSamples(s) ==
    LET valid[i \in 0..Len(s)] ==
          IF i = 0 THEN <<>>
          ELSE IF s[i].age < Window THEN Append(valid[i - 1], s[i]) ELSE valid[i - 1]
    IN  valid[Len(s)]
\* Their total, which decides the level.
Bytes(s) == FoldLeft(LAMBDA total, x : total + x.bytes, 0, s)

\* The last of the levels whose minimum the bytes reach.
LevelOf(bytes) ==
    CHOOSE l \in Levels :
        /\ bytes >= MinBytes[l]
        /\ \A m \in Levels : m > l => bytes < MinBytes[m]

Keep(l) == /\ pendingLevel' = l /\ pendingFor' = Unset
           /\ UNCHANGED currentLevel

\* Mutant: an interrupted proposal is not forgotten.
DecideForgetsNothing(proposed) ==
    \/ /\ proposed = currentLevel
       /\ UNCHANGED level
    \/ /\ proposed # currentLevel /\ proposed # pendingLevel
       /\ pendingLevel' = proposed /\ pendingFor' = 0
       /\ UNCHANGED currentLevel
    \/ /\ proposed \notin {currentLevel} /\ proposed = pendingLevel
       /\ IF pendingFor < Hysteresis
            THEN UNCHANGED level
            ELSE currentLevel' = proposed /\ pendingLevel' = proposed /\ pendingFor' = Unset

\* What recalculate does with the level it proposes.  (The branch for a pending
\* level without a time is never reached: see PendingHasTime.)
Decide(proposed) ==
    \/ /\ proposed = currentLevel
       /\ Keep(currentLevel)
    \/ /\ proposed # currentLevel /\ proposed # pendingLevel
       /\ pendingLevel' = proposed /\ pendingFor' = 0
       /\ UNCHANGED currentLevel
    \/ /\ proposed # currentLevel /\ proposed = pendingLevel
       /\ IF pendingFor = Unset THEN pendingFor' = 0 /\ UNCHANGED <<currentLevel, pendingLevel>>
          ELSE IF pendingFor < Hysteresis THEN UNCHANGED level
          ELSE currentLevel' = proposed /\ pendingLevel' = proposed /\ pendingFor' = Unset

\* recalculate: samples older than the window go, and what is left decides.
Recalculate ==
    /\ due /\ due' = FALSE
    /\ samples' = ValidSamples(samples)
    /\ LET proposed == LevelOf(Bytes(samples'))
       IN /\ Decide(proposed)
          /\ streak' = IF proposed = streak.level THEN streak
                                                  ELSE [level |-> proposed, age |-> 0]
    /\ UNCHANGED <<recorded, traffic>>

---------------------------------------------------------------------------
Next == (\E bytes \in Sizes : RecordTraffic(bytes)) \/ Tick \/ Recalculate

Spec == Init /\ [][Next]_vars

\* The ticker fires for ever and updateLoop runs (until Close).
FairSpec == Spec /\ WF_vars(Tick) /\ WF_vars(Recalculate)

---------------------------------------------------------------------------
(* Properties. *)

\* README.md: "Level changes require 30 seconds of sustained activity
\* (hysteresis) to prevent oscillation".  A level is adopted only when every
\* recalculation of the last Hysteresis has proposed it, however proposals
\* came and went before.
Sustained ==
    [][currentLevel' # currentLevel =>
          streak' = streak /\ streak.level = currentLevel' /\ streak.age >= Hysteresis]_vars

\* A level is pending exactly when it has a time and is not the current one, and
\* it is what recalculate has proposed since that time.
PendingHasTime ==
    /\ pendingFor = Unset <=> pendingLevel = currentLevel
    /\ streak.level = pendingLevel
    /\ pendingFor # Unset => pendingFor <= streak.age

\* The cut of a window that is too long keeps it to its limit and does not touch
\* the newest samples: the level is worked out from the end of the last minute's
\* traffic, and from all of it while that is no more than half the window.
NewestAreKept ==
    LET kept == ValidSamples(samples)
    IN /\ Len(samples) <= MaxSamples /\ Len(kept) <= Len(traffic)
       /\ kept = Newest(traffic, Len(kept))
       /\ Len(kept) < Len(traffic) => Len(kept) >= MaxSamples \div 2

\* When the user's traffic has stopped the level goes back to idle, and stays.
QuietBecomesIdle == <>[](currentLevel = 0)
=============================================================================
