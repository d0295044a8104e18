---------------------------- MODULE ShapingProofs ----------------------------
(***************************************************************************)
(* How traffic is shaped.  The first part is about the codecs of Packet,   *)
(* for packets, buffers and targets of every length the code admits, and   *)
(* about the bounds that the sizes and pauses of Shaping keep, whatever is *)
(* drawn at random.                                                        *)
(*                                                                         *)
(* The second is about AdaptiveCover, for every set of levels, every       *)
(* window and every hysteresis delay, and about CoverManager: composed     *)
(* with its workers the AdaptiveCover is still an AdaptiveCover, so that   *)
(* what is proved of it alone holds in the composition, for any number of  *)
(* domains and workers.                                                    *)
(***************************************************************************)
EXTENDS Shaping, CoverManager, SequenceTheorems, WellFoundedInduction, TLAPS

(***************************************************************************)
(* The two parts of a concatenation are found again by their lengths.      *)
(***************************************************************************)
LEMMA Parts ==
    ASSUME NEW s \in Seq(Byte), NEW t \in Seq(Byte)
    PROVE  /\ SubSeq(s \o t, 1, Len(s)) = s
           /\ SubSeq(s \o t, Len(s) + 1, Len(s) + Len(t)) = t
           /\ Len(s \o t) = Len(s) + Len(t)
           /\ s \o t \in Seq(Byte)
OBVIOUS

(***************************************************************************)
(* The largest 16-bit number is a number.  (Cited instead of its value,    *)
(* which makes an interval too long to be listed.)                         *)
(***************************************************************************)
LEMMA MaxUint16Nat == MaxUint16 \in Nat
BY SMT DEF MaxUint16

(***************************************************************************)
(* A 16-bit number is a natural number of at most 65535.                   *)
(***************************************************************************)
LEMMA Small ==
    ASSUME NEW n \in UInt16
    PROVE  n \in Nat /\ n <= MaxUint16
BY MaxUint16Nat, SMT DEF UInt16

(***************************************************************************)
(* A domain's length fits the byte that carries it.                        *)
(***************************************************************************)
LEMMA FitsByte ==
    ASSUME NEW n \in 1..255
    PROVE  n \in Nat /\ n % 256 = n
OBVIOUS

(***************************************************************************)
(* Every valid packet that is marshalled is accepted, and decoded as it    *)
(* was: payload and padding are told apart by their lengths alone.         *)
(***************************************************************************)
THEOREM RoundTrip ==
    ASSUME NEW p \in Packets, Valid(p)
    PROVE  Accepts(Marshal(p)) /\ Unmarshal(Marshal(p)) = p
<1>1. /\ p.payload \in Seq(Byte) /\ p.padding \in Seq(Byte)
      /\ p.payloadLen = Len(p.payload) /\ p.paddingLen = Len(p.padding)
  BY DEF Packets, Valid
<1> DEFINE body == p.payload \o p.padding
<1>2. /\ SubSeq(body, 1, Len(p.payload)) = p.payload
      /\ SubSeq(body, Len(p.payload) + 1, Len(p.payload) + Len(p.padding)) = p.padding
      /\ Len(body) = Len(p.payload) + Len(p.padding)
  BY <1>1, Parts
<1>3. Accepts(Marshal(p))
  <2>1. Len(p.payload) \in Nat /\ Len(p.padding) \in Nat
    BY <1>1
  <2> DEFINE m == Len(p.payload)
             n == Len(p.padding)
             l == Len(body)
  <2>2. l = m + n /\ m \in Nat /\ n \in Nat
    BY <1>2, <2>1
  <2>3. l >= m + n
    <3> HIDE DEF l, m, n
    <3> QED
      BY <2>2
  <2>4. Len(body) >= p.payloadLen + p.paddingLen
    BY <1>1, <2>3
  <2> QED
    BY <2>4 DEF Accepts, Marshal, Valid
<1>4. Unmarshal(Marshal(p)) = p
  BY <1>1, <1>2 DEF Unmarshal, Marshal, Packets
<1> QED
  BY <1>3, <1>4

(***************************************************************************)
(* Whatever buffer Unmarshal accepts, bytes to spare or not, it decodes to *)
(* a packet that Validate accepts: its last check never fails on lengths.  *)
(***************************************************************************)
THEOREM DecodedIsValid ==
    ASSUME NEW b \in Buffers, Accepts(b)
    PROVE  Unmarshal(b) \in Packets /\ Valid(Unmarshal(b))
<1>1. b.body \in Seq(Byte) /\ b.payloadLen \in Nat /\ b.paddingLen \in Nat
  <2>1. b.body \in Seq(Byte) /\ b.payloadLen \in UInt16 /\ b.paddingLen \in UInt16
    BY DEF Buffers
  <2> QED
    BY <2>1, Small
<1>2. Len(b.body) >= b.payloadLen + b.paddingLen
  BY DEF Accepts
<1>3. /\ SubSeq(b.body, 1, b.payloadLen) \in Seq(Byte)
      /\ Len(SubSeq(b.body, 1, b.payloadLen)) = b.payloadLen
  BY <1>1, <1>2
<1>4. /\ SubSeq(b.body, b.payloadLen + 1, b.payloadLen + b.paddingLen) \in Seq(Byte)
      /\ Len(SubSeq(b.body, b.payloadLen + 1, b.payloadLen + b.paddingLen)) = b.paddingLen
  BY <1>1, <1>2, SMTT(30)
<1>5. Unmarshal(b) \in Packets
  BY <1>3, <1>4 DEF Unmarshal, Packets, Buffers
<1>6. Valid(Unmarshal(b))
  BY <1>3, <1>4 DEF Unmarshal, Valid, Accepts
<1> QED
  BY <1>5, <1>6

(***************************************************************************)
(* What the constructors make can be sent: data of any size NewDataPacket  *)
(* takes, padded to any total, and padding of any size asked for.          *)
(***************************************************************************)
THEOREM ConstructedIsValid ==
    ASSUME NEW payload \in Seq(Byte), Len(payload) <= MaxPayloadSize, NEW n \in Nat,
           NEW total \in Int, NEW padding \in Seq(Byte)
    PROVE  /\ Valid(NewDataPacket(payload, n))
           /\ Len(padding) = PaddingFor(payload, total)
                => Valid(NewPaddedDataPacket(payload, n, padding))
           /\ Len(padding) = PaddingSize(total) => Valid(NewPaddingPacket(n, padding))
<1>1. Len(payload) \in Nat /\ Len(<<>>) = 0
  OBVIOUS
<1>2. Valid(NewDataPacket(payload, n))
  BY <1>1 DEF Valid, NewDataPacket, Types, Data, MaxPaddingSize
<1>3. PaddingFor(payload, total) <= MaxPaddingSize
  BY <1>1 DEF PaddingFor, MaxPaddingSize, HeaderSize
<1>4. ASSUME Len(padding) = PaddingFor(payload, total)
      PROVE  Valid(NewPaddedDataPacket(payload, n, padding))
  BY <1>1, <1>3, <1>4 DEF Valid, NewPaddedDataPacket, NewDataPacket, Types, Data
<1>5. PaddingSize(total) <= MaxPaddingSize
  BY DEF PaddingSize, MaxPaddingSize
<1>6. ASSUME Len(padding) = PaddingSize(total)
      PROVE  Valid(NewPaddingPacket(n, padding))
  BY <1>1, <1>5, <1>6 DEF Valid, NewPaddingPacket, Types, Padding, MaxPayloadSize
<1> QED
  BY <1>2, <1>4, <1>6

(***************************************************************************)
(* The size check of sendRaw never refuses a packet that Marshal accepts.  *)
(***************************************************************************)
THEOREM FitsConnection ==
    ASSUME NEW p \in Packets, Valid(p)
    PROVE  TotalSize(p) <= MaxSendSize
<1>1. p.payloadLen \in UInt16 /\ p.paddingLen \in UInt16
  BY DEF Packets
<1>2. /\ p.payloadLen \in Nat /\ p.payloadLen <= MaxUint16
      /\ p.paddingLen \in Nat /\ p.paddingLen <= MaxUint16
  BY <1>1, Small
<1> QED
  BY <1>2 DEF TotalSize, HeaderSize, MaxSendSize, MaxUint16

(***************************************************************************)
(* ReadPacket finds a packet's end by its header, whatever follows it on   *)
(* the stream.                                                             *)
(***************************************************************************)
THEOREM StreamRoundTrip ==
    ASSUME NEW p \in Packets, Valid(p), NEW rest \in Seq(Byte)
    PROVE  Unmarshal(ReadPacket(Marshal(p), Marshal(p).body \o rest)) = p
<1> DEFINE body == p.payload \o p.padding
<1>1. body \in Seq(Byte) /\ Len(body) = p.payloadLen + p.paddingLen
  BY Parts DEF Packets, Valid
<1>2. SubSeq(body \o rest, 1, p.payloadLen + p.paddingLen) = body
  <2> HIDE DEF body
  <2>1. SubSeq(body \o rest, 1, Len(body)) = body
    BY <1>1, Parts, Zenon
  <2> QED
    BY <1>1, <2>1, Zenon
<1>3. ReadPacket(Marshal(p), Marshal(p).body \o rest) = Marshal(p)
  <2>1. Marshal(p).body = body
    BY DEF Marshal
  <2>2. ReadPacket(Marshal(p), body \o rest) = [Marshal(p) EXCEPT !.body = body]
    BY <1>2 DEF ReadPacket, Marshal
  <2> QED
    BY <2>1, <2>2 DEF Marshal
<1> QED
  BY <1>3, RoundTrip

(***************************************************************************)
(* A host without colons is dialled on any port whose digits ParsePort     *)
(* reads back as they were.                                                *)
(***************************************************************************)
LEMMA DialledAsParsed ==
    ASSUME NEW host \in Hosts, host.colons = 0,
           NEW port \in Nat, port # 0, ParsePort(port) = port
    PROVE  Dialled(host, port, Socks5Target(host, port))
<1>1. Splits(Socks5Target(host, port))
  BY SMTT(30) DEF Splits, Socks5Target
<1>2. Address(MarshalRequest(Socks5Target(host, port))) = Socks5Target(host, port)
  BY SMTT(30) DEF Address, MarshalRequest, Socks5Target
<1> DEFINE r == MarshalRequest(Socks5Target(host, port))
<1>3. TakesRequest(r)
  <2>1. CASE host.kind = "ipv4"
    <3>1. r.addrType = 1 /\ r.size = 1 + 4 + 2
      BY <2>1 DEF MarshalRequest, AddrType, Socks5Target
    <3> HIDE DEF r
    <3> QED
      BY <3>1, SMTT(30) DEF TakesRequest
  <2>2. CASE host.kind = "domain"
    <3>1. host.len \in 1..255
      BY <2>2, SMTT(30) DEF Hosts
    <3>2. host.len \in Nat /\ host.len <= 255 /\ host.len % 256 = host.len
      BY <3>1, FitsByte, SMTT(30)
    <3>3. r.addrType = 3 /\ r.size = 1 + 1 + host.len + 2 /\ r.domainLen = host.len
      BY <2>2, <3>2, SMTT(30) DEF MarshalRequest, AddrType, Socks5Target
    <3> HIDE DEF r
    <3> QED
      BY <3>2, <3>3, SMTT(30) DEF TakesRequest
  <2>3. host.kind = "ipv4" \/ host.kind = "domain"
    BY SMTT(30) DEF Hosts
  <2> QED
    BY <2>1, <2>2, <2>3, SMTT(30)
<1> QED
  BY <1>1, <1>2, <1>3, SMTT(30) DEF Dialled, Socks5Target

(***************************************************************************)
(* The server dials the host and port that the SOCKS5 client asked for, if *)
(* the host's text has no colon.                                           *)
(***************************************************************************)
THEOREM DialledAsAsked ==
    ASSUME NEW host \in Hosts, host.colons = 0, NEW port \in 1..MaxUint16
    PROVE  Dialled(host, port, Socks5Target(host, port))
<1>1. port \in Nat /\ port # 0 /\ ParsePort(port) = port
  BY MaxUint16Nat, SMTT(30) DEF ParsePort
<1> QED
  BY <1>1, DialledAsParsed, SMTT(30)

(***************************************************************************)
(* No server ever dials for a SOCKS5 request whose host is an IPv6         *)
(* address: host and port are joined without brackets, and the client      *)
(* cannot split them again.                                                *)
(***************************************************************************)
THEOREM Ipv6NeverDialled ==
    ASSUME NEW host \in Hosts, host.kind = "ipv6", NEW port \in 1..MaxUint16, NEW target
    PROVE  ~Dialled(host, port, target)
<1>1. host.colons \in 2..8
  BY SMTT(30) DEF Hosts
<1> QED
  BY <1>1, SMTT(30) DEF Dialled, Splits, Socks5Target

---------------------------------------------------------------------------
(***************************************************************************)
(* What is drawn is a whole number, at least the lower bound, and below    *)
(* the upper one if that is larger.                                        *)
(***************************************************************************)
LEMMA DrawnBounds ==
    ASSUME NEW min \in Int, NEW max \in Int, NEW x \in Drawn(min, max)
    PROVE  x \in Int /\ min <= x /\ (x = min \/ x < max)
BY DEF Drawn

(***************************************************************************)
(* Stats.Record never keeps more than its limit, and what it keeps are the *)
(* newest sizes in their order, the one recorded last.                     *)
(***************************************************************************)
THEOREM NewestSizes ==
    ASSUME NEW S, NEW window \in Seq(S), NEW max \in Nat \ {0}, Len(window) <= max, NEW x \in S
    PROVE  /\ Record(window, max, x) \in Seq(S)
           /\ Len(Record(window, max, x)) = (IF Len(window) = max THEN max ELSE Len(window) + 1)
           /\ Record(window, max, x)[Len(Record(window, max, x))] = x
           /\ Len(window) = max
                => \A i \in 1..(max - 1) : Record(window, max, x)[i] = window[i + 1]
<1>1. Len(window) \in Nat
  OBVIOUS
<1>2. CASE Len(window) = max
  <2>1. SubSeq(window, 2, max) \in Seq(S) /\ Len(SubSeq(window, 2, max)) = max - 1
    BY <1>1, <1>2
  <2>2. \A i \in 1..(max - 1) : SubSeq(window, 2, max)[i] = window[i + 1]
    BY <1>1, <1>2
  <2>3. Record(window, max, x) = Append(SubSeq(window, 2, max), x)
    BY <1>1, <1>2 DEF Record
  <2> QED
    BY <1>2, <2>1, <2>2, <2>3
<1>3. CASE Len(window) < max
  BY <1>1, <1>3 DEF Record
<1> QED
  BY <1>1, <1>2, <1>3

(***************************************************************************)
(* The target a payload is padded to is larger than the payload, also when *)
(* the payload fills a bucket or is larger than all of them.               *)
(***************************************************************************)
LEMMA TargetIsLarger ==
    ASSUME NEW size \in Nat, NEW target \in Targets(size)
    PROVE  target \in Nat /\ target > size
<1>1. CASE Bucket(size) \ {size} # {}
  <2>1. target \in Bucket(size)
    BY <1>1 DEF Targets
  <2>2. PICK b \in Bucket(size) : b # size
    BY <1>1
  <2>3. /\ target \in WebBuckets /\ size <= target
        /\ b \in WebBuckets /\ size <= b /\ target <= b /\ b <= target
    BY <2>1, <2>2 DEF Bucket
  <2>4. target \in Nat /\ b \in Nat
    BY <2>3 DEF WebBuckets
  <2> QED
    BY <2>2, <2>3, <2>4
<1>2. CASE Bucket(size) \ {size} = {}
  <2>1. target = (size \div 1460 + 1) * 1460
    BY <1>2 DEF Targets
  <2> QED
    BY <2>1
<1> QED
  BY <1>1, <1>2

(***************************************************************************)
(* Where padding is on, every payload gets some, and never more than the   *)
(* limit: no packet shows the size of what it carries.                     *)
(***************************************************************************)
THEOREM EveryPayloadIsPadded ==
    ASSUME NEW size \in Nat, NEW limit \in Nat \ {0}, NEW padding \in PadSizes(size, limit)
    PROVE  padding \in 1..limit
<1>1. PICK target \in Targets(size) : padding \in Jittered(Cut(target - size, 0, limit), limit)
  BY DEF PadSizes
<1>2. target \in Nat /\ target > size
  BY TargetIsLarger
<1> DEFINE full == Cut(target - size, 0, limit)
<1>3. full \in 1..limit
  BY <1>2 DEF Cut
<1> HIDE DEF full
<1> DEFINE tenth == IF full > 20 THEN full \div 10 ELSE 0
<1>4. tenth \in Nat /\ tenth < full
  BY <1>3
<1>5. PICK jitter \in Drawn(0, tenth) :
          padding \in {Cut(full + jitter, 0, limit), Cut(full - jitter, 0, limit)}
  BY <1>1 DEF Jittered, full
<1> HIDE DEF tenth
<1>6. jitter \in Int /\ 0 <= jitter /\ jitter < full
  BY <1>3, <1>4, DrawnBounds
<1>7. /\ full + jitter \in Int /\ full + jitter > 0
      /\ full - jitter \in Int /\ full - jitter > 0
  BY <1>3, <1>6
<1> QED
  BY <1>5, <1>7 DEF Cut

(***************************************************************************)
(* The packet that the interleaver builds has the padding that was drawn,  *)
(* so the limit of the packet format never cuts what the mode asked for.   *)
(***************************************************************************)
THEOREM PaddedAsDrawn ==
    ASSUME NEW payload \in Seq(Byte), NEW limit \in 1..MaxPaddingSize,
           NEW padding \in PadSizes(Len(payload), limit)
    PROVE  PaddingFor(payload, ShapedTotal(payload, padding)) = padding
<1>1. Len(payload) \in Nat /\ limit \in Nat \ {0} /\ limit <= 1024
  BY DEF MaxPaddingSize
<1>2. padding \in 1..limit
  BY <1>1, EveryPayloadIsPadded
<1> DEFINE n == Len(payload)
           total == HeaderSize + n + padding
<1>3. n \in Nat
  BY <1>1
<1>4. ShapedTotal(payload, padding) = total /\ total \in Int
  BY <1>2, <1>3 DEF ShapedTotal, HeaderSize
<1>5. total - (HeaderSize + n) = padding
  <2> HIDE DEF n
  <2> QED
    BY <1>2, <1>3 DEF HeaderSize
<1>6. PaddingFor(payload, total) = IF padding <= 0 THEN 0
                                   ELSE IF padding > MaxPaddingSize THEN MaxPaddingSize
                                   ELSE padding
  BY <1>5 DEF PaddingFor
<1>7. ~(padding <= 0) /\ ~(padding > MaxPaddingSize)
  BY <1>1, <1>2 DEF MaxPaddingSize
<1> QED
  BY <1>4, <1>6, <1>7

(***************************************************************************)
(* A padding packet of FragmentSize is built with exactly that size.       *)
(***************************************************************************)
THEOREM FragmentsFit ==
    ASSUME NEW avg \in Int, NEW size \in FragmentSizes(avg)
    PROVE  size \in 64..1024 /\ PaddingSize(size) = size
<1>1. PICK jitter \in Drawn(-64, 64) :
          size = Cut((IF avg < 100 THEN 512 ELSE avg) + jitter, 64, 1024)
  BY DEF FragmentSizes
<1>2. jitter \in Int
  BY DrawnBounds
<1> DEFINE n == (IF avg < 100 THEN 512 ELSE avg) + jitter
<1>3. size = Cut(n, 64, 1024) /\ n \in Int
  BY <1>1, <1>2
<1> HIDE DEF n
<1>4. size \in 64..1024
  BY <1>3 DEF Cut
<1> QED
  BY <1>4 DEF PaddingSize, MaxPaddingSize

(***************************************************************************)
(* A cover worker pauses for at least 200 ms, or the shortest pause of its *)
(* level if that is less, and for at most two minutes or the longest one.  *)
(***************************************************************************)
THEOREM PausesAreBounded ==
    ASSUME NEW min \in Nat, NEW max \in Nat, min <= max, NEW pause \in CoverIntervals(min, max)
    PROVE  /\ pause >= 200 \/ pause >= min
           /\ pause <= 120000 \/ pause <= max
<1> DEFINE short == IF min \div 4 < 200 THEN 200 ELSE min \div 4
           long == IF 3 * max > 120000 THEN 120000 ELSE 3 * max
<1>1. /\ short \in Int /\ short >= 200 /\ (short = 200 \/ short <= min)
      /\ long \in Int /\ long <= 120000
  OBVIOUS
<1>2. pause \in Drawn(short, min) \/ pause \in Drawn(max, long) \/ pause \in Drawn(min, max)
  BY DEF CoverIntervals
<1> HIDE DEF short, long
<1>3. CASE pause \in Drawn(short, min)
  BY <1>1, <1>3, DrawnBounds
<1>4. CASE pause \in Drawn(max, long)
  BY <1>1, <1>4, DrawnBounds
<1>5. CASE pause \in Drawn(min, max)
  BY <1>5, DrawnBounds
<1> QED
  BY <1>2, <1>3, <1>4, <1>5

---------------------------------------------------------------------------
(* The cover traffic's level. *)

\* The part of the type invariant the arguments below need.
Times ==
    /\ pendingFor \in {Unset} \cup Nat
    /\ streak.age \in Nat
    /\ streak = [level |-> streak.level, age |-> streak.age]

\* A sample's age stays within its range.
LEMMA OlderIsNat ==
    ASSUME NEW a \in Nat, NEW b \in Nat, a <= b
    PROVE  /\ Older(a, Hysteresis) \in Nat /\ Older(b, Hysteresis) \in Nat
           /\ Older(a, Hysteresis) <= Older(b, Hysteresis)
    BY ConstantsOK DEF Older

\* Time passing keeps the invariant.
LEMMA TickKeeps ==
    ASSUME Times, PendingHasTime, Tick
    PROVE  (Times /\ PendingHasTime)'
<1>1. /\ streak'.age = Older(streak.age, Hysteresis)
      /\ streak'.level = streak.level
      /\ streak' = [level |-> streak'.level, age |-> streak'.age]
  BY DEF Tick, Times
<1>2. pendingLevel' = pendingLevel /\ currentLevel' = currentLevel
  BY DEF Tick
<1>3. CASE pendingFor = Unset
  <2>1. pendingFor' = Unset
    BY <1>3 DEF Tick
  <2>2. streak'.age \in Nat
    BY <1>1, OlderIsNat DEF Times
  <2> QED BY <1>1, <1>2, <1>3, <2>1, <2>2 DEF Times, PendingHasTime
<1>4. CASE pendingFor # Unset
  <2>1. pendingFor \in Nat /\ pendingFor <= streak.age
    BY <1>4 DEF Times, PendingHasTime
  <2>2. pendingFor' = Older(pendingFor, Hysteresis)
    BY <1>4 DEF Tick
  <2>3. /\ pendingFor' \in Nat /\ streak'.age \in Nat
        /\ pendingFor' <= streak'.age
    BY <1>1, <2>1, <2>2, OlderIsNat DEF Times
  <2>4. pendingFor' # Unset
    BY <2>3 DEF Unset
  <2> QED BY <1>1, <1>2, <1>4, <2>3, <2>4 DEF Times, PendingHasTime
<1> QED BY <1>3, <1>4

\* recalculate keeps the invariant, whichever level it settles on.
LEMMA DecideKeeps ==
    ASSUME Times, PendingHasTime, NEW proposed, Decide(proposed),
           streak' = IF proposed = streak.level THEN streak
                                                ELSE [level |-> proposed, age |-> 0]
    PROVE  (Times /\ PendingHasTime)'
<1>1. CASE proposed = currentLevel /\ Keep(currentLevel)
  BY <1>1 DEF Times, PendingHasTime, Keep, Unset
<1>2. CASE /\ proposed # currentLevel /\ proposed # pendingLevel
           /\ pendingLevel' = proposed /\ pendingFor' = 0
           /\ UNCHANGED currentLevel
  BY <1>2 DEF Times, PendingHasTime, Unset
<1>3. CASE proposed # currentLevel /\ proposed = pendingLevel
  <2>1. pendingFor # Unset /\ streak' = streak
    BY <1>3 DEF PendingHasTime
  <2>2. CASE pendingFor < Hysteresis
    BY <1>3, <2>1, <2>2 DEF Times, PendingHasTime, Decide, level
  <2>3. CASE ~(pendingFor < Hysteresis)
    BY <1>3, <2>1, <2>3 DEF Times, PendingHasTime, Decide, Unset
  <2> QED BY <2>2, <2>3
<1> QED BY <1>1, <1>2, <1>3 DEF Decide

\* The invariant holds initially and every step keeps it.
LEMMA Inductive ==
    /\ Init => Times /\ PendingHasTime
    /\ (Times /\ PendingHasTime) /\ [Next]_vars => (Times /\ PendingHasTime)'
<1>1. Init => Times /\ PendingHasTime
  BY DEF Init, Times, PendingHasTime, Unset
<1>2. ASSUME Times, PendingHasTime, [Next]_vars
      PROVE  (Times /\ PendingHasTime)'
  <2>1. ASSUME NEW bytes \in Sizes, RecordTraffic(bytes)
        PROVE  (Times /\ PendingHasTime)'
    BY <1>2, <2>1 DEF RecordTraffic, level, Times, PendingHasTime
  <2>2. CASE Tick
    BY <1>2, <2>2, TickKeeps
  <2>3. CASE Recalculate
    BY <1>2, <2>3, DecideKeeps DEF Recalculate
  <2>4. CASE UNCHANGED vars
    BY <1>2, <2>4 DEF vars, level, Times, PendingHasTime
  <2> QED BY <1>2, <2>1, <2>2, <2>3, <2>4 DEF Next
<1> QED BY <1>1, <1>2

\* A level is pending exactly when it has a time (so that the branch of
\* recalculate for a pending level without one is dead code), and it is what has
\* been proposed without a break since that time.
THEOREM PendingIsTimed == Spec => []PendingHasTime
<1>1. Times /\ PendingHasTime => PendingHasTime
  OBVIOUS
<1> QED BY Inductive, <1>1, PTL DEF Spec

\* A level is adopted only when every recalculation of the last Hysteresis has
\* proposed it.
LEMMA StepSustained ==
    ASSUME Times, PendingHasTime, [Next]_vars, currentLevel' # currentLevel
    PROVE  streak' = streak /\ streak.level = currentLevel' /\ streak.age >= Hysteresis
<1>1. Recalculate
  BY DEF Next, RecordTraffic, Tick, level, vars
<1>2. PICK proposed :
        /\ Decide(proposed)
        /\ streak' = IF proposed = streak.level THEN streak
                                                ELSE [level |-> proposed, age |-> 0]
  BY <1>1 DEF Recalculate
<1>3. /\ proposed = pendingLevel /\ currentLevel' = proposed
      /\ ~(pendingFor < Hysteresis) /\ pendingFor # Unset
  BY <1>2 DEF Decide, Keep, level
<1>4. streak.age >= Hysteresis
  BY <1>3, ConstantsOK DEF Times, PendingHasTime
<1> QED BY <1>2, <1>3, <1>4 DEF PendingHasTime

\* A level other than the current one is taken up only after it was pending for
\* the whole hysteresis: recalculate never follows a short burst or a short lull.
THEOREM LevelsAreSustained == Spec => Sustained
<1>1. /\ Times /\ PendingHasTime /\ [Next]_vars
      => [currentLevel' # currentLevel =>
            streak' = streak /\ streak.level = currentLevel' /\ streak.age >= Hysteresis]_vars
  BY StepSustained
<1> QED BY Inductive, <1>1, PTL DEF Spec, Sustained

---------------------------------------------------------------------------
(* The window of samples. *)

Samples == [bytes : Nat, age : Nat]

\* The older samples come first.
Aging(s) == \A i, j \in 1..Len(s) : i <= j => s[i].age >= s[j].age

\* The samples of s within the window are the end of t, and cut off only if they
\* are half the window's limit or more.
KeptIn(s, t) ==
    \E k \in 0..Len(s), m \in 0..Len(t) :
        /\ SplitAt(s, k)
        /\ Len(s) - k = Len(t) - m
        /\ \A i \in 1..(Len(s) - k) : s[k + i] = t[m + i]
        /\ m > 0 => Len(s) - k >= MaxSamples \div 2

\* Samples are in the order of their times, traffic has those of the last window,
\* and the samples that count are the end of it.
SamplesInv ==
    /\ samples \in Seq(Samples) /\ Aging(samples) /\ Len(samples) <= MaxSamples
    /\ traffic \in Seq(Samples) /\ Aging(traffic)
    /\ \A i \in 1..Len(traffic) : traffic[i].age < Window
    /\ KeptIn(samples, traffic)

\* Induction over the natural numbers: a set of them has a least one.
LEMMA Least ==
    ASSUME NEW S \in SUBSET Nat, S # {}
    PROVE  \E m \in S : \A k \in S : m <= k
<1>1. PICK m \in S : \A k \in S : ~(<<k, m>> \in OpToRel(<, Nat))
  BY WFMin, NatLessThanWellFounded
<1>2. \A k \in S : m <= k
  <2> TAKE k \in S
  <2>1. m \in Nat /\ k \in Nat /\ ~(k < m)
    BY <1>1 DEF OpToRel
  <2> QED BY <2>1
<1> QED BY <1>1, <1>2

LEMMA Ages ==
    ASSUME NEW s \in Seq(Samples)
    PROVE  /\ Len(s) \in Nat /\ Window \in Nat \ {0}
           /\ MaxSamples \in Nat \ {0} /\ MaxSamples \div 2 \in Nat
           /\ \A i \in 1..Len(s) : s[i].age \in Nat
<1>1. \A i \in 1..Len(s) : s[i] \in Samples
  OBVIOUS
<1>2. \A i \in 1..Len(s) : s[i].age \in Nat
  BY <1>1 DEF Samples
<1>3. MaxSamples \in Nat \ {0} /\ Window \in Nat \ {0}
  BY ConstantsOK
<1>4. Len(s) \in Nat /\ MaxSamples \div 2 \in Nat
  BY <1>3
<1> QED BY <1>2, <1>3, <1>4

\* Samples in the order of their times have one place where the window begins.
LEMMA SplitExists ==
    ASSUME NEW s \in Seq(Samples), Aging(s)
    PROVE  \E k \in 0..Len(s) : SplitAt(s, k)
<1> DEFINE Young == {i \in 1..Len(s) : s[i].age < Window} \cup {Len(s) + 1}
<1>0. Len(s) \in Nat /\ Window \in Nat /\ \A i \in 1..Len(s) : s[i].age \in Nat
  BY Ages
<1>1. PICK first \in Young : \A i \in Young : first <= i
  <2>1. Young \in SUBSET Nat /\ Young # {}
    BY <1>0
  <2> QED BY <2>1, Least
<1>2. first \in 1..(Len(s) + 1)
  BY <1>0, <1>1
<1>3. ASSUME NEW i \in 1..Len(s)
      PROVE  i <= first - 1 <=> s[i].age >= Window
  <2>1. CASE i < first
    <3>1. i \notin Young
      BY <1>0, <1>1, <1>2, <2>1
    <3> QED BY <1>0, <1>2, <2>1, <3>1
  <2>2. CASE i >= first
    <3>1. first \in 1..Len(s) /\ s[first].age < Window
      BY <1>0, <1>1, <1>2, <2>2
    <3>2. s[i].age <= s[first].age
      BY <1>0, <2>2, <3>1 DEF Aging
    <3> QED BY <1>0, <1>2, <2>2, <3>1, <3>2
  <2> QED BY <1>0, <1>2, <2>1, <2>2
<1>4. first - 1 \in 0..Len(s) /\ SplitAt(s, first - 1)
  BY <1>0, <1>2, <1>3 DEF SplitAt
<1> QED BY <1>4

LEMMA SplitUnique ==
    ASSUME NEW s \in Seq(Samples), NEW k \in 0..Len(s), NEW m \in 0..Len(s),
           SplitAt(s, k), SplitAt(s, m)
    PROVE  k = m
<1>1. Len(s) \in Nat
  OBVIOUS
<1>2. ~(k < m)
  BY <1>1 DEF SplitAt
<1>3. ~(m < k)
  BY <1>1 DEF SplitAt
<1> QED BY <1>1, <1>2, <1>3

LEMMA LastWindowIs ==
    ASSUME NEW s \in Seq(Samples), NEW k \in 0..Len(s), SplitAt(s, k)
    PROVE  LastWindow(s) = SubSeq(s, k + 1, Len(s))
<1> DEFINE m == CHOOSE m \in 0..Len(s) : SplitAt(s, m)
<1>1. m \in 0..Len(s) /\ SplitAt(s, m)
  OBVIOUS
<1>2. m = k
  <2> HIDE DEF m
  <2> QED BY <1>1, SplitUnique
<1> QED BY <1>2 DEF LastWindow

\* The samples from k + 1 on.
LEMMA Rest ==
    ASSUME NEW s \in Seq(Samples), NEW k \in 0..Len(s)
    PROVE  /\ SubSeq(s, k + 1, Len(s)) \in Seq(Samples)
           /\ Len(SubSeq(s, k + 1, Len(s))) = Len(s) - k
           /\ \A i \in 1..(Len(s) - k) : SubSeq(s, k + 1, Len(s))[i] = s[k + i]
<1>1. Len(s) \in Nat /\ k + 1 \in Int /\ \A i \in (k + 1)..Len(s) : s[i] \in Samples
  OBVIOUS
<1> QED BY <1>1, SubSeqProperties

\* The loop of recalculate keeps what SplitAt tells: after i rounds, the samples
\* from k + 1 to i.
LEMMA ValidSamplesIs ==
    ASSUME NEW s \in Seq(Samples), NEW k \in 0..Len(s), SplitAt(s, k)
    PROVE  ValidSamples(s) = SubSeq(s, k + 1, Len(s))
<1> DEFINE Step(f, i) == IF i = 0 THEN <<>>
                         ELSE IF s[i].age < Window THEN Append(f[i - 1], s[i]) ELSE f[i - 1]
           g == [i \in 0..Len(s) |-> SubSeq(s, k + 1, i)]
           f == CHOOSE h : h = [i \in 0..Len(s) |-> Step(h, i)]
           Wrong == {i \in 0..Len(s) : f[i] # g[i]}
<1>0. Len(s) \in Nat /\ Window \in Nat /\ \A i \in 1..Len(s) : s[i].age \in Nat
  BY Ages
<1>1. ASSUME NEW i \in 0..Len(s)
      PROVE  SubSeq(s, k + 1, i) = Step(g, i)
  <2>1. CASE i = 0
    BY <1>0, <2>1, SubSeqEmpty
  <2>2. CASE i # 0 /\ i <= k
    <3>1. ~(s[i].age < Window) /\ i - 1 \in 0..Len(s)
      BY <1>0, <2>2 DEF SplitAt
    <3>2. SubSeq(s, k + 1, i) = <<>> /\ SubSeq(s, k + 1, i - 1) = <<>>
      BY <1>0, <2>2, SubSeqEmpty
    <3>3. g[i - 1] = SubSeq(s, k + 1, i - 1)
      BY <3>1
    <3> HIDE DEF g
    <3> QED BY <2>2, <3>1, <3>2, <3>3
  <2>3. CASE i > k
    <3>1. s[i].age < Window /\ i # 0 /\ i - 1 \in 0..Len(s)
      BY <1>0, <2>3 DEF SplitAt
    <3>2. SubSeq(s, k + 1, i) = Append(SubSeq(s, k + 1, i - 1), s[i])
      <4>1. k + 1 \in 1..Len(s) /\ i \in (k + 1)..Len(s)
        BY <1>0, <2>3
      <4>2. SubSeq(s, k + 1, i) = SubSeq(s, k + 1, i - 1) \o <<s[i]>>
        BY <4>1, SubSeqRecursiveSecond
      <4>3. SubSeq(s, k + 1, i - 1) \in Seq(Samples) /\ s[i] \in Samples
        <5>1. \A j \in (k + 1)..(i - 1) : s[j] \in Samples
          BY <1>0, <4>1
        <5>2. k + 1 \in Int /\ i - 1 \in Int
          BY <1>0
        <5> QED BY <5>1, <5>2, <1>0, <4>1, SubSeqProperties
      <4> QED BY <4>2, <4>3
    <3>3. g[i - 1] = SubSeq(s, k + 1, i - 1)
      BY <3>1
    <3> HIDE DEF g
    <3> QED BY <3>1, <3>2, <3>3
  <2>4. i = 0 \/ (i # 0 /\ i <= k) \/ i > k
    BY <1>0
  <2> HIDE DEF Step
  <2> QED BY <2>1, <2>2, <2>3, <2>4
<1>2. g = [i \in 0..Len(s) |-> Step(g, i)]
  BY <1>1
<1>3. f = [i \in 0..Len(s) |-> Step(f, i)]
  <2> HIDE DEF g
  <2> QED BY <1>2, Zenon
<1>4. Wrong = {}
  <2> SUFFICES ASSUME Wrong # {} PROVE FALSE
    OBVIOUS
  <2>1. PICK i \in Wrong : \A j \in Wrong : i <= j
    <3>1. Wrong \in SUBSET Nat
      BY <1>0
    <3> HIDE DEF Wrong
    <3> QED BY <3>1, Least
  <2> HIDE DEF f, g
  <2>2. i \in 0..Len(s) /\ f[i] # g[i]
    BY <2>1
  <2>3. f[i] = Step(f, i) /\ g[i] = Step(g, i)
    BY <1>2, <1>3, <2>2
  <2>4. i # 0
    BY <2>2, <2>3
  <2>5. i - 1 \in 0..Len(s) /\ f[i - 1] = g[i - 1]
    BY <1>0, <2>1, <2>2, <2>4
  <2> QED BY <2>2, <2>3, <2>5
<1>5. ValidSamples(s) = f[Len(s)]
  BY DEF ValidSamples
<1>6. f[Len(s)] = g[Len(s)] /\ Len(s) \in 0..Len(s)
  <2> HIDE DEF f, g
  <2> QED BY <1>0, <1>4
<1> QED BY <1>5, <1>6

\* RecordTraffic appends a sample to both.
LEMMA AppendKeeps ==
    ASSUME NEW s \in Seq(Samples), NEW t \in Seq(Samples), NEW x \in Samples, x.age = 0,
           Aging(s), KeptIn(s, t)
    PROVE  /\ Append(s, x) \in Seq(Samples) /\ Len(Append(s, x)) = Len(s) + 1
           /\ Aging(Append(s, x)) /\ KeptIn(Append(s, x), Append(t, x))
<1> DEFINE all == Append(s, x)
           new == Append(t, x)
           half == MaxSamples \div 2
<1>0. /\ Len(s) \in Nat /\ Len(t) \in Nat /\ Window \in Nat \ {0} /\ half \in Nat
      /\ \A i \in 1..Len(s) : s[i].age \in Nat
  BY Ages
<1> HIDE DEF half
<1>1. /\ all \in Seq(Samples) /\ Len(all) = Len(s) + 1 /\ all[Len(s) + 1] = x
      /\ \A i \in 1..Len(s) : all[i] = s[i]
  OBVIOUS
<1>2. /\ Len(new) = Len(t) + 1 /\ new[Len(t) + 1] = x
      /\ \A i \in 1..Len(t) : new[i] = t[i]
  OBVIOUS
<1> HIDE DEF all, new
<1>3. Aging(all)
  <2> SUFFICES ASSUME NEW i \in 1..(Len(s) + 1), NEW j \in 1..(Len(s) + 1), i <= j
               PROVE  all[i].age >= all[j].age
    BY <1>1 DEF Aging
  <2>1. CASE j = Len(s) + 1
    <3>1. all[j].age = 0 /\ all[i].age \in Nat
      BY <1>0, <1>1, <2>1
    <3> QED BY <3>1
  <2>2. CASE j # Len(s) + 1
    <3>0. Len(s) \in Nat /\ i \in Nat /\ j \in Nat /\ 1 <= i /\ i <= j /\ j <= Len(s) + 1
      OBVIOUS
    <3>1. i \in 1..Len(s) /\ j \in 1..Len(s)
      <4>1. j <= Len(s)
        BY <2>2, <3>0
      <4> QED BY <3>0, <4>1
    <3> QED BY <1>1, <3>1 DEF Aging
  <2> QED BY <2>1, <2>2
<1>4. PICK k \in 0..Len(s), m \in 0..Len(t) :
        /\ SplitAt(s, k)
        /\ Len(s) - k = Len(t) - m
        /\ \A i \in 1..(Len(s) - k) : s[k + i] = t[m + i]
        /\ m > 0 => Len(s) - k >= half
  BY DEF KeptIn, half
<1>5. SplitAt(all, k)
  <2>1. ASSUME NEW i \in 1..Len(s)
        PROVE  i <= k <=> all[i].age >= Window
    BY <1>1, <1>4 DEF SplitAt
  <2>2. all[Len(s) + 1].age = 0 /\ ~(Len(s) + 1 <= k) /\ ~(0 >= Window)
    BY <1>0, <1>1, <1>4
  <2>3. \A i \in 1..(Len(s) + 1) : i \in 1..Len(s) \/ i = Len(s) + 1
    BY <1>0
  <2>4. \A i \in 1..(Len(s) + 1) : i <= k <=> all[i].age >= Window
    BY <2>1, <2>2, <2>3
  <2> QED BY <1>1, <2>4 DEF SplitAt
<1>6. ASSUME NEW i \in 1..(Len(all) - k)
      PROVE  all[k + i] = new[m + i]
  <2>1. CASE i <= Len(s) - k
    <3>1. i \in 1..(Len(s) - k) /\ k + i \in 1..Len(s) /\ m + i \in 1..Len(t)
      BY <1>0, <1>4, <2>1
    <3> QED BY <1>1, <1>2, <1>4, <3>1
  <2>2. CASE i > Len(s) - k
    <3>1. k + i = Len(s) + 1 /\ m + i = Len(t) + 1
      <4>1. i \in Nat /\ i <= Len(s) + 1 - k /\ k \in Nat /\ Len(s) \in Nat
        BY <1>0, <1>1
      <4>2. i = Len(s) + 1 - k
        BY <4>1, <2>2
      <4>3. Len(s) - k = Len(t) - m /\ Len(t) \in Nat /\ m \in Nat
        BY <1>0, <1>4
      <4>4. k + i = Len(s) + 1
        BY <4>1, <4>2
      <4>5. m + i = Len(t) + 1
        BY <4>1, <4>2, <4>3
      <4> QED BY <4>4, <4>5
    <3> QED BY <1>1, <1>2, <3>1
  <2> QED BY <1>0, <1>1, <2>1, <2>2
<1>7. /\ k \in 0..Len(all) /\ m \in 0..Len(new) /\ Len(all) - k = Len(new) - m
      /\ m > 0 => Len(all) - k >= half
  <2>1. Len(all) = Len(s) + 1 /\ Len(new) = Len(t) + 1
    BY <1>1, <1>2
  <2>2. /\ Len(s) - k = Len(t) - m /\ (m > 0 => Len(s) - k >= half)
    BY <1>4
  <2>3. Len(s) \in Int /\ Len(t) \in Int /\ k \in Int /\ m \in Int /\ half \in Int
    BY <1>0
  <2>4. k \in 0..Len(all) /\ m \in 0..Len(new)
    BY <1>0, <2>1
  <2>5. Len(all) - k = (Len(s) - k) + 1 /\ Len(new) - m = (Len(t) - m) + 1
    BY <2>1, <2>3
  <2>6. Len(all) - k = Len(new) - m
    BY <2>2, <2>5
  <2>7. ASSUME m > 0
        PROVE  Len(all) - k >= half
    <3>1. Len(s) - k >= half /\ Len(s) - k \in Int
      BY <2>2, <2>3, <2>7
    <3> QED BY <2>3, <2>5, <3>1
  <2> QED BY <2>4, <2>6, <2>7
<1>8. KeptIn(all, new)
  BY <1>5, <1>6, <1>7 DEF KeptIn, half
<1> QED BY <1>1, <1>3, <1>8 DEF all, new

\* The cut keeps the newest half, or all of the window's samples.
LEMMA CutKeeps ==
    ASSUME NEW s \in Seq(Samples), NEW t \in Seq(Samples), Len(s) = MaxSamples + 1,
           Aging(s), KeptIn(s, t)
    PROVE  LET new == Newest(s, MaxSamples \div 2)
           IN  /\ new \in Seq(Samples) /\ Len(new) <= MaxSamples
               /\ Aging(new) /\ KeptIn(new, t)
<1> DEFINE half == MaxSamples \div 2
           d == Len(s) - half
           new == SubSeq(s, d + 1, Len(s))
<1>0. /\ Len(s) \in Nat /\ Len(t) \in Nat /\ MaxSamples \in Nat \ {0}
      /\ half \in Nat /\ half <= MaxSamples
  BY ConstantsOK
<1> HIDE DEF half
<1>1. d \in 0..Len(s) /\ Len(s) - d = half
  BY <1>0
<1>2. /\ new \in Seq(Samples) /\ Len(new) = half
      /\ \A i \in 1..half : new[i] = s[d + i]
  BY <1>1, Rest
<1>3. new = Newest(s, half)
  BY <1>0 DEF Newest
<1> HIDE DEF new
<1>4. Aging(new)
  <2> SUFFICES ASSUME NEW i \in 1..half, NEW j \in 1..half, i <= j
               PROVE  new[i].age >= new[j].age
    BY <1>2 DEF Aging
  <2>1. d + i \in 1..Len(s) /\ d + j \in 1..Len(s) /\ d + i <= d + j
    BY <1>0, <1>1
  <2> QED BY <1>2, <2>1 DEF Aging
<1>5. PICK k \in 0..Len(s), m \in 0..Len(t) :
        /\ SplitAt(s, k)
        /\ Len(s) - k = Len(t) - m
        /\ \A i \in 1..(Len(s) - k) : s[k + i] = t[m + i]
        /\ m > 0 => Len(s) - k >= half
  BY DEF KeptIn, half
<1>6. CASE d <= k
  <2>1. k - d \in 0..half /\ half - (k - d) = Len(t) - m
    BY <1>0, <1>1, <1>5, <1>6
  <2>2. SplitAt(new, k - d)
    <3> SUFFICES ASSUME NEW i \in 1..half
                 PROVE  i <= k - d <=> new[i].age >= Window
      BY <1>2 DEF SplitAt
    <3>1. d + i \in 1..Len(s) /\ (i <= k - d <=> d + i <= k)
      BY <1>0, <1>1
    <3> QED BY <1>2, <1>5, <3>1 DEF SplitAt
  <2>3. ASSUME NEW i \in 1..(half - (k - d))
        PROVE  new[(k - d) + i] = t[m + i]
    <3>1. (k - d) + i \in 1..half /\ d + ((k - d) + i) = k + i /\ i \in 1..(Len(s) - k)
      BY <1>0, <1>1, <2>1
    <3> QED BY <1>2, <1>5, <3>1
  <2>4. m > 0 => half - (k - d) >= half
    BY <1>0, <1>1, <1>5, <1>6, <2>1
  <2> QED BY <1>0, <1>2, <1>3, <1>4, <2>1, <2>2, <2>3, <2>4 DEF KeptIn, half
<1>7. CASE d > k
  <2> DEFINE n == m + (d - k)
  <2>1. n \in 0..Len(t) /\ half - 0 = Len(t) - n
    BY <1>0, <1>1, <1>5, <1>7, SMTT(30)
  <2>2. SplitAt(new, 0)
    <3> SUFFICES ASSUME NEW i \in 1..half
                 PROVE  i <= 0 <=> new[i].age >= Window
      BY <1>2 DEF SplitAt
    <3>1. d + i \in 1..Len(s) /\ ~(d + i <= k) /\ ~(i <= 0)
      BY <1>0, <1>1, <1>7
    <3> QED BY <1>2, <1>5, <3>1 DEF SplitAt
  <2>3. ASSUME NEW i \in 1..(half - 0)
        PROVE  new[0 + i] = t[n + i]
    <3>1. (d - k) + i \in 1..(Len(s) - k) /\ k + ((d - k) + i) = d + i
          /\ m + ((d - k) + i) = n + i /\ 0 + i = i /\ i \in 1..half
      <4>1. i \in Nat /\ 1 <= i /\ i <= half /\ half \in Nat /\ k \in Int /\ m \in Int
        BY <1>0
      <4>2. d \in Int /\ Len(s) = d + half
        BY <1>0, <1>1
      <4> HIDE DEF d
      <4>3. (d - k) + i \in Int /\ 1 <= (d - k) + i /\ (d - k) + i <= Len(s) - k /\ Len(s) - k \in Int
        BY <4>1, <4>2, <1>7
      <4> QED BY <4>1, <4>2, <4>3
    <3>2. new[i] = s[d + i]
      BY <1>2, <3>1
    <3>3. s[k + ((d - k) + i)] = t[m + ((d - k) + i)]
      BY <1>5, <3>1
    <3> HIDE DEF d
    <3> QED BY <3>1, <3>2, <3>3
  <2>4. half - 0 >= half /\ 0 \in 0..half
    BY <1>0
  <2> HIDE DEF n
  <2> QED BY <1>0, <1>2, <1>3, <1>4, <2>1, <2>2, <2>3, <2>4 DEF KeptIn, half
<1> QED BY <1>0, <1>1, <1>6, <1>7

\* Time passing makes every sample older and leaves their order.
LEMMA OlderIs ==
    ASSUME NEW s \in Seq(Samples), Aging(s)
    PROVE  /\ OlderSamples(s) \in Seq(Samples) /\ Len(OlderSamples(s)) = Len(s)
           /\ \A i \in 1..Len(s) :
                 /\ OlderSamples(s)[i] = [bytes |-> s[i].bytes, age |-> Older(s[i].age, Window)]
                 /\ OlderSamples(s)[i].age = Older(s[i].age, Window)
           /\ Aging(OlderSamples(s))
<1>0. /\ Len(s) \in Nat /\ Window \in Nat /\ DOMAIN s = 1..Len(s)
      /\ \A i \in 1..Len(s) : s[i] \in Samples /\ s[i].age \in Nat
  BY Ages
<1> DEFINE u == OlderSamples(s)
<1>1. ASSUME NEW i \in 1..Len(s)
      PROVE  /\ u[i] = [bytes |-> s[i].bytes, age |-> Older(s[i].age, Window)]
             /\ u[i] \in Samples /\ u[i].age = Older(s[i].age, Window)
  <2>1. s[i] = [bytes |-> s[i].bytes, age |-> s[i].age] /\ s[i].bytes \in Nat /\ s[i].age \in Nat
    BY <1>0 DEF Samples
  <2>2. Older(s[i].age, Window) \in Nat
    BY <1>0, <2>1 DEF Older
  <2>3. u[i] = [s[i] EXCEPT !.age = Older(s[i].age, Window)]
    BY <1>0 DEF OlderSamples
  <2>4. u[i] = [bytes |-> s[i].bytes, age |-> Older(s[i].age, Window)]
    BY <2>1, <2>3
  <2>5. u[i].age = Older(s[i].age, Window)
    BY <2>4
  <2> HIDE DEF u
  <2> QED BY <2>1, <2>2, <2>4, <2>5 DEF Samples
<1>2. u \in Seq(Samples) /\ Len(u) = Len(s)
  <2>1. u = [i \in 1..Len(s) |-> u[i]]
    BY <1>0 DEF OlderSamples
  <2> HIDE DEF u
  <2>2. u \in [1..Len(s) -> Samples]
    BY <1>1, <2>1
  <2> QED BY <1>0, <2>2
<1> HIDE DEF u
<1>3. Aging(u)
  <2> SUFFICES ASSUME NEW i \in 1..Len(s), NEW j \in 1..Len(s), i <= j
               PROVE  u[i].age >= u[j].age
    BY <1>2 DEF Aging
  <2>1. s[i].age >= s[j].age
    BY DEF Aging
  <2>2. u[i].age = Older(s[i].age, Window) /\ u[j].age = Older(s[j].age, Window)
    BY <1>1
  <2> QED BY <1>0, <2>1, <2>2 DEF Older
<1> QED BY <1>1, <1>2, <1>3 DEF u

\* The end of samples in the order of their times is in that order.
LEMMA RestAges ==
    ASSUME NEW s \in Seq(Samples), Aging(s), NEW k \in 0..Len(s), SplitAt(s, k)
    PROVE  /\ Aging(SubSeq(s, k + 1, Len(s)))
           /\ \A i \in 1..(Len(s) - k) : SubSeq(s, k + 1, Len(s))[i].age < Window
<1> DEFINE u == SubSeq(s, k + 1, Len(s))
<1>0. Len(s) \in Nat /\ Window \in Nat /\ \A i \in 1..Len(s) : s[i].age \in Nat
  BY Ages
<1>1. Len(u) = Len(s) - k /\ \A i \in 1..(Len(s) - k) : u[i] = s[k + i]
  BY Rest
<1> HIDE DEF u
<1>2. ASSUME NEW i \in 1..(Len(s) - k)
      PROVE  k + i \in 1..Len(s) /\ u[i].age < Window
  <2>1. k + i \in 1..Len(s) /\ ~(k + i <= k)
    BY <1>0
  <2>2. ~(s[k + i].age >= Window)
    BY <2>1 DEF SplitAt
  <2>3. s[k + i].age < Window
    BY <1>0, <2>1, <2>2
  <2> QED BY <1>1, <2>1, <2>3
<1>3. Aging(u)
  <2> SUFFICES ASSUME NEW i \in 1..(Len(s) - k), NEW j \in 1..(Len(s) - k), i <= j
               PROVE  u[i].age >= u[j].age
    BY <1>1 DEF Aging
  <2>1. k + i <= k + j
    BY <1>0
  <2> QED BY <1>1, <1>2, <2>1 DEF Aging
<1> QED BY <1>2, <1>3 DEF u

\* When a period passes, samples leave the window at both sides alike.
LEMMA PeriodKeeps ==
    ASSUME NEW s \in Seq(Samples), NEW t \in Seq(Samples), Aging(s), Aging(t), KeptIn(s, t)
    PROVE  /\ LastWindow(OlderSamples(t)) \in Seq(Samples)
           /\ Aging(LastWindow(OlderSamples(t)))
           /\ \A i \in 1..Len(LastWindow(OlderSamples(t))) :
                 LastWindow(OlderSamples(t))[i].age < Window
           /\ KeptIn(OlderSamples(s), LastWindow(OlderSamples(t)))
<1> DEFINE half == MaxSamples \div 2
           v == OlderSamples(s)
           u == OlderSamples(t)
<1>0. /\ Len(s) \in Nat /\ Len(t) \in Nat /\ Window \in Nat \ {0} /\ half \in Nat
      /\ \A i \in 1..Len(s) : s[i].age \in Nat
      /\ \A i \in 1..Len(t) : t[i].age \in Nat
  BY Ages
<1> HIDE DEF half
<1>1. /\ v \in Seq(Samples) /\ Len(v) = Len(s)
      /\ \A i \in 1..Len(s) : v[i] = [bytes |-> s[i].bytes, age |-> Older(s[i].age, Window)]
      /\ \A i \in 1..Len(s) : v[i].age = Older(s[i].age, Window)
  BY OlderIs
<1>2. /\ u \in Seq(Samples) /\ Len(u) = Len(t) /\ Aging(u)
      /\ \A i \in 1..Len(t) : u[i] = [bytes |-> t[i].bytes, age |-> Older(t[i].age, Window)]
  BY OlderIs
<1> HIDE DEF v, u
<1>3. PICK k \in 0..Len(s), m \in 0..Len(t) :
        /\ SplitAt(s, k)
        /\ Len(s) - k = Len(t) - m
        /\ \A i \in 1..(Len(s) - k) : s[k + i] = t[m + i]
        /\ m > 0 => Len(s) - k >= half
  BY DEF KeptIn, half
<1>4. PICK c \in 0..Len(t) : SplitAt(u, c)
  BY <1>2, SplitExists
<1> DEFINE w == SubSeq(u, c + 1, Len(u))
<1>5. /\ w = LastWindow(u)
      /\ w \in Seq(Samples) /\ Len(w) = Len(t) - c
      /\ \A i \in 1..(Len(t) - c) : w[i] = u[c + i]
  BY <1>2, <1>4, LastWindowIs, Rest
<1>6. Aging(w) /\ \A i \in 1..Len(w) : w[i].age < Window
  BY <1>2, <1>4, <1>5, RestAges
<1> HIDE DEF w
<1>7. \A i \in 1..(Len(s) - k) :
          k + i \in 1..Len(s) /\ m + i \in 1..Len(t) /\ v[k + i] = u[m + i]
  <2> TAKE i \in 1..(Len(s) - k)
  <2>1. k + i \in 1..Len(s)
    BY <1>0
  <2>2. m + i \in 1..Len(t)
    <3>1. i <= Len(t) - m /\ i \in Nat \ {0}
      BY <1>0, <1>3
    <3> QED BY <1>0, <3>1
  <2> QED BY <1>1, <1>2, <1>3, <2>1, <2>2
<1>8. ASSUME NEW i \in 1..k
      PROVE  i \in 1..Len(s) /\ v[i].age >= Window
  <2>1. i \in 1..Len(s) /\ i <= k
    BY <1>0
  <2>2. s[i].age >= Window /\ s[i].age \in Nat
    BY <1>0, <1>3, <2>1 DEF SplitAt
  <2>3. v[i].age = Older(s[i].age, Window)
    BY <1>1, <2>1
  <2> QED BY <1>0, <2>1, <2>2, <2>3 DEF Older
<1>9. CASE c < m
  <2> DEFINE n == m - c
  <2>1. n \in 0..Len(w) /\ Len(v) - k = Len(w) - n
    <3>1. /\ Len(v) = Len(s) /\ Len(w) = Len(t) - c /\ Len(s) - k = Len(t) - m
          /\ Len(s) \in Nat /\ Len(t) \in Nat
      BY <1>0, <1>1, <1>3, <1>5
    <3>2. c \in Nat /\ m \in Nat /\ m <= Len(t) /\ m - c \in Nat
      BY <1>9, <3>1
    <3> QED BY <3>1, <3>2
  <2>2. SplitAt(v, k)
    <3> SUFFICES ASSUME NEW i \in 1..Len(s)
                 PROVE  i <= k <=> v[i].age >= Window
      BY <1>1 DEF SplitAt
    <3>1. CASE i <= k
      <4>1. i \in 1..k
        BY <1>0, <3>1
      <4> QED BY <3>1, <4>1, <1>8
    <3>2. CASE i > k
      <4>1. i - k \in 1..(Len(s) - k) /\ k + (i - k) = i
        BY <1>0, <3>2
      <4>2. m + (i - k) \in 1..Len(t) /\ v[i] = u[m + (i - k)]
        BY <1>7, <4>1
      <4>3. ~(m + (i - k) <= c)
        BY <1>0, <1>9, <3>2
      <4>4. ~(u[m + (i - k)].age >= Window)
        BY <1>2, <1>4, <4>2, <4>3 DEF SplitAt
      <4>5. ~(i <= k)
        BY <1>0, <3>2
      <4> QED BY <4>2, <4>4, <4>5
    <3> QED BY <1>0, <3>1, <3>2
  <2>3. ASSUME NEW i \in 1..(Len(v) - k)
        PROVE  v[k + i] = w[n + i]
    <3>1. i \in 1..(Len(s) - k) /\ v[k + i] = u[m + i] /\ m + i \in 1..Len(t)
      BY <1>1, <1>7
    <3>2. n + i \in 1..(Len(t) - c) /\ c + (n + i) = m + i
      BY <1>0, <1>9, <3>1
    <3> QED BY <1>5, <3>1, <3>2
  <2>4. Len(v) - k >= half
    BY <1>0, <1>1, <1>3, <1>9
  <2>5. k \in 0..Len(v)
    BY <1>1
  <2>6. KeptIn(v, w)
    <3> HIDE DEF n
    <3> QED BY <2>1, <2>2, <2>3, <2>4, <2>5 DEF KeptIn, half
  <2> QED BY <1>5, <1>6, <2>6 DEF u, v
<1>10. CASE c >= m
  <2> DEFINE n == k + (c - m)
  <2>1. n \in 0..Len(v) /\ Len(v) - n = Len(w) - 0
    <3>1. /\ Len(v) = Len(s) /\ Len(w) = Len(t) - c /\ Len(s) - k = Len(t) - m
          /\ Len(s) \in Nat /\ Len(t) \in Nat
      BY <1>0, <1>1, <1>3, <1>5
    <3>2. k \in Nat /\ c \in Nat /\ m \in Nat /\ c <= Len(t) /\ c - m \in Nat
      BY <1>10, <3>1
    <3>3. Len(s) = Len(t) + k - m
      BY <3>1, <3>2
    <3> QED BY <3>1, <3>2, <3>3
  <2>2. SplitAt(v, n)
    <3> SUFFICES ASSUME NEW i \in 1..Len(s)
                 PROVE  i <= n <=> v[i].age >= Window
      BY <1>1 DEF SplitAt
    <3>1. CASE i <= k
      <4>1. i \in 1..k /\ i <= n
        BY <1>0, <1>10, <3>1
      <4> QED BY <4>1, <1>8
    <3>2. CASE i > k
      <4>1. i - k \in 1..(Len(s) - k) /\ k + (i - k) = i
        BY <1>0, <3>2
      <4>2. m + (i - k) \in 1..Len(t) /\ v[i] = u[m + (i - k)]
        BY <1>7, <4>1
      <4>3. i <= n <=> m + (i - k) <= c
        BY <1>0
      <4>4. m + (i - k) <= c <=> u[m + (i - k)].age >= Window
        BY <1>2, <1>4, <4>2 DEF SplitAt
      <4> HIDE DEF n
      <4> QED BY <4>2, <4>3, <4>4
    <3> QED BY <1>0, <3>1, <3>2
  <2>3. ASSUME NEW i \in 1..(Len(v) - n)
        PROVE  v[n + i] = w[0 + i]
    <3>1. (c - m) + i \in 1..(Len(s) - k) /\ k + ((c - m) + i) = n + i
          /\ m + ((c - m) + i) = c + i
      BY <1>0, <1>1, <1>10
    <3>2. i \in 1..(Len(t) - c) /\ 0 + i = i
      BY <1>5, <2>1
    <3> QED BY <1>5, <1>7, <3>1, <3>2
  <2>4. 0 \in 0..Len(w) /\ ~(0 > 0)
    BY <1>0, <1>5
  <2>5. KeptIn(v, w)
    <3> HIDE DEF n
    <3> QED BY <2>1, <2>2, <2>3, <2>4 DEF KeptIn, half
  <2> QED BY <1>5, <1>6, <2>5 DEF u, v
<1> QED BY <1>0, <1>9, <1>10

\* recalculate drops what no longer counts.
LEMMA ValidKeeps ==
    ASSUME NEW s \in Seq(Samples), NEW t \in Seq(Samples), Aging(s), KeptIn(s, t)
    PROVE  /\ ValidSamples(s) \in Seq(Samples) /\ Len(ValidSamples(s)) <= Len(s)
           /\ Aging(ValidSamples(s)) /\ KeptIn(ValidSamples(s), t)
<1> DEFINE half == MaxSamples \div 2
<1>0. Len(s) \in Nat /\ Window \in Nat /\ \A i \in 1..Len(s) : s[i].age \in Nat
  BY Ages
<1> HIDE DEF half
<1>1. PICK k \in 0..Len(s), m \in 0..Len(t) :
        /\ SplitAt(s, k)
        /\ Len(s) - k = Len(t) - m
        /\ \A i \in 1..(Len(s) - k) : s[k + i] = t[m + i]
        /\ m > 0 => Len(s) - k >= half
  BY DEF KeptIn, half
<1> DEFINE u == SubSeq(s, k + 1, Len(s))
<1>2. /\ u = ValidSamples(s)
      /\ u \in Seq(Samples) /\ Len(u) = Len(s) - k
      /\ \A i \in 1..(Len(s) - k) : u[i] = s[k + i]
  BY <1>1, ValidSamplesIs, Rest
<1>3. Aging(u) /\ \A i \in 1..(Len(s) - k) : u[i].age < Window
  BY <1>1, RestAges
<1> HIDE DEF u
<1>4. SplitAt(u, 0)
  <2> SUFFICES ASSUME NEW i \in 1..(Len(s) - k)
               PROVE  i <= 0 <=> u[i].age >= Window
    BY <1>2 DEF SplitAt
  <2>1. ~(i <= 0) /\ k + i \in 1..Len(s)
    BY <1>0
  <2>2. u[i].age \in Nat /\ u[i].age < Window
    BY <1>0, <1>2, <1>3, <2>1
  <2> QED BY <1>0, <2>1, <2>2
<1>5. \A i \in 1..(Len(u) - 0) : u[0 + i] = t[m + i]
  BY <1>0, <1>1, <1>2
<1>6. 0 \in 0..Len(u) /\ Len(u) - 0 = Len(t) - m /\ (m > 0 => Len(u) - 0 >= half)
  BY <1>0, <1>1, <1>2
<1>7. KeptIn(u, t)
  BY <1>4, <1>5, <1>6 DEF KeptIn, half
<1> QED BY <1>0, <1>2, <1>3, <1>7

\* What counts of samples that are KeptIn the traffic is its end.
LEMMA KeptIsNewest ==
    ASSUME NEW s \in Seq(Samples), NEW t \in Seq(Samples), KeptIn(s, t)
    PROVE  LET kept == ValidSamples(s)
           IN  /\ Len(kept) <= Len(t) /\ kept = Newest(t, Len(kept))
               /\ Len(kept) < Len(t) => Len(kept) >= MaxSamples \div 2
<1> DEFINE half == MaxSamples \div 2
<1>0. Len(s) \in Nat /\ Len(t) \in Nat
  OBVIOUS
<1> HIDE DEF half
<1>1. PICK k \in 0..Len(s), m \in 0..Len(t) :
        /\ SplitAt(s, k)
        /\ Len(s) - k = Len(t) - m
        /\ \A i \in 1..(Len(s) - k) : s[k + i] = t[m + i]
        /\ m > 0 => Len(s) - k >= half
  BY DEF KeptIn, half
<1> DEFINE u == SubSeq(s, k + 1, Len(s))
           w == SubSeq(t, m + 1, Len(t))
<1>2. /\ u = ValidSamples(s) /\ u \in Seq(Samples) /\ Len(u) = Len(s) - k
      /\ \A i \in 1..(Len(s) - k) : u[i] = s[k + i]
  BY <1>1, ValidSamplesIs, Rest
<1>3. /\ w \in Seq(Samples) /\ Len(w) = Len(t) - m
      /\ \A i \in 1..(Len(t) - m) : w[i] = t[m + i]
  BY Rest
<1>4. Newest(t, Len(u)) = w
  <2>1. Len(u) = Len(t) - m
    BY <1>1, <1>2
  <2>2. Len(t) - Len(u) + 1 = m + 1
    <3> HIDE DEF u
    <3> QED BY <1>0, <2>1
  <2> HIDE DEF u
  <2> QED BY <2>2 DEF Newest
<1> HIDE DEF u, w
<1>5. u = w
  <2>1. Len(u) = Len(w) /\ \A i \in 1..Len(u) : u[i] = w[i]
    BY <1>1, <1>2, <1>3
  <2>2. u \in Seq(Samples) /\ w \in Seq(Samples)
    BY <1>2, <1>3
  <2> QED BY <2>1, <2>2, SeqEqual
<1>6. Len(u) <= Len(t) /\ (Len(u) < Len(t) => Len(u) >= half)
  BY <1>0, <1>1, <1>2
<1> QED BY <1>2, <1>4, <1>5, <1>6 DEF half

LEMMA SamplesStep == SamplesInv /\ [Next]_vars => SamplesInv'
<1> SUFFICES ASSUME SamplesInv, [Next]_vars PROVE SamplesInv'
  OBVIOUS
<1> USE DEF SamplesInv
<1>0. MaxSamples \in Nat \ {0} /\ Window \in Nat \ {0} /\ Len(samples) \in Nat /\ Len(traffic) \in Nat
  BY ConstantsOK
<1>1. ASSUME NEW bytes \in Sizes, RecordTraffic(bytes)
      PROVE  SamplesInv'
  <2> DEFINE x == [bytes |-> bytes, age |-> 0]
             all == Append(samples, x)
  <2>1. x \in Samples /\ x.age = 0
    BY ConstantsOK DEF Samples
  <2>2. /\ traffic' = Append(traffic, x)
        /\ samples' = IF Len(all) > MaxSamples THEN Newest(all, MaxSamples \div 2) ELSE all
    BY <1>1 DEF RecordTraffic
  <2> HIDE DEF x
  <2>3. /\ all \in Seq(Samples) /\ Len(all) = Len(samples) + 1
        /\ Aging(all) /\ KeptIn(all, traffic')
    BY <2>1, <2>2, AppendKeeps
  <2>4. traffic' \in Seq(Samples) /\ Aging(traffic') /\ \A i \in 1..Len(traffic') : traffic'[i].age < Window
    <3>1. /\ traffic' \in Seq(Samples) /\ Len(traffic') = Len(traffic) + 1
          /\ traffic'[Len(traffic) + 1] = x /\ \A i \in 1..Len(traffic) : traffic'[i] = traffic[i]
      BY <2>1, <2>2
    <3>2. \A i \in 1..Len(traffic) : traffic[i].age \in Nat
      BY Ages
    <3>3. Aging(traffic')
      <4> SUFFICES ASSUME NEW i \in 1..(Len(traffic) + 1), NEW j \in 1..(Len(traffic) + 1), i <= j
                   PROVE  traffic'[i].age >= traffic'[j].age
        BY <3>1 DEF Aging
      <4>1. CASE j = Len(traffic) + 1
        <5>1. traffic'[j].age = 0 /\ traffic'[i].age \in Nat
          BY <1>0, <2>1, <3>1, <3>2, <4>1
        <5> QED BY <5>1
      <4>2. CASE j # Len(traffic) + 1
        <5>1. i \in 1..Len(traffic) /\ j \in 1..Len(traffic)
          BY <1>0, <4>2
        <5> QED BY <3>1, <5>1 DEF Aging
      <4> QED BY <4>1, <4>2
    <3> QED BY <1>0, <2>1, <3>1, <3>3
  <2> HIDE DEF all
  <2>5. CASE Len(all) > MaxSamples
    <3>1. Len(all) = MaxSamples + 1
      BY <1>0, <2>3, <2>5
    <3>2. samples' = Newest(all, MaxSamples \div 2)
      BY <2>2, <2>5
    <3> QED BY <2>3, <2>4, <3>1, <3>2, CutKeeps
  <2>6. CASE ~(Len(all) > MaxSamples)
    BY <1>0, <2>2, <2>3, <2>4, <2>6
  <2> QED BY <2>5, <2>6
<1>2. CASE Tick
  <2>1. samples' = OlderSamples(samples) /\ traffic' = LastWindow(OlderSamples(traffic))
    BY <1>2 DEF Tick
  <2>2. samples' \in Seq(Samples) /\ Len(samples') = Len(samples) /\ Aging(samples')
    BY <2>1, OlderIs
  <2> QED BY <2>1, <2>2, PeriodKeeps
<1>3. CASE Recalculate
  <2>1. samples' = ValidSamples(samples) /\ traffic' = traffic
    BY <1>3 DEF Recalculate
  <2>2. /\ samples' \in Seq(Samples) /\ Len(samples') <= Len(samples)
        /\ Aging(samples') /\ KeptIn(samples', traffic)
    BY <2>1, ValidKeeps
  <2>3. Len(samples') <= MaxSamples
    BY <1>0, <2>2
  <2> QED BY <2>1, <2>2, <2>3
<1>4. CASE UNCHANGED vars
  BY <1>4 DEF vars, KeptIn, SplitAt, Aging
<1> QED BY <1>1, <1>2, <1>3, <1>4 DEF Next

\* The level is worked out from the end of the last minute's traffic, of which a
\* cut takes away nothing but the older half, for any limit and any window.
THEOREM NewestKept == Spec => []NewestAreKept
<1>1. Init => SamplesInv
  <2> SUFFICES ASSUME Init PROVE SamplesInv
    OBVIOUS
  <2>1. samples = <<>> /\ traffic = <<>>
    BY DEF Init
  <2>2. SplitAt(<<>>, 0) /\ Aging(<<>>) /\ Len(<<>>) = 0
    BY DEF SplitAt, Aging
  <2>3. KeptIn(<<>>, <<>>)
    BY <2>2 DEF KeptIn
  <2>4. MaxSamples \in Nat
    BY ConstantsOK
  <2> QED BY <2>1, <2>2, <2>3, <2>4 DEF SamplesInv
<1>2. SamplesInv => NewestAreKept
  BY KeptIsNewest DEF SamplesInv, NewestAreKept
<1> QED BY <1>1, <1>2, SamplesStep, PTL DEF Spec

---------------------------------------------------------------------------
\* Every step of the manager is one of the AdaptiveCover, or leaves it alone.
LEMMA StepMapped == [ManagerNext]_allVars => [Next]_vars
<1> SUFFICES ASSUME [ManagerNext]_allVars
             PROVE  [Next]_vars
  OBVIOUS
<1>1. CASE CoverStep
  BY <1>1 DEF CoverStep
<1>2. CASE Cancel
  BY <1>2 DEF Cancel
<1>3. ASSUME NEW i \in Workers, WorkerStep(i)
      PROVE  UNCHANGED vars
  BY <1>3 DEF WorkerStep, Wake, BeginRequest, SkipTurn, EndRequest, Stop
<1>4. CASE UNCHANGED allVars
  BY <1>4 DEF allVars
<1> QED BY <1>1, <1>2, <1>3, <1>4 DEF ManagerNext

\* The composition implements the AdaptiveCover.
THEOREM ManagerImplementsCover == ManagerSpec => Spec
<1>1. Start => Init
  BY DEF Start
<1> QED BY <1>1, StepMapped, PTL DEF ManagerSpec, Spec

\* A pending level has its time, and levels change only after they lasted, also
\* while workers look at the level and fetch.
THEOREM ManagerPendingIsTimed == ManagerSpec => []PendingHasTime
  BY ManagerImplementsCover, PendingIsTimed, PTL

THEOREM ManagerNewestAreKept == ManagerSpec => []NewestAreKept
  BY ManagerImplementsCover, NewestKept, PTL

THEOREM ManagerLevelsAreSustained == ManagerSpec => Sustained
  BY ManagerImplementsCover, LevelsAreSustained, PTL DEF Sustained

---------------------------------------------------------------------------
\* A worker that stopped saw the context done, and only then does the manager tell
\* that it is not running, however the workers' steps interleave.
THEOREM WorkersTypeCorrect == ManagerSpec => []WorkersTypeOK
<1>1. Start => WorkersTypeOK
  BY DEF Start, WorkersTypeOK
<1>2. ASSUME WorkersTypeOK, [ManagerNext]_allVars
      PROVE  WorkersTypeOK'
  <2> USE <1>2 DEF WorkersTypeOK
  <2>1. CASE CoverStep
    BY <2>1 DEF CoverStep, managerVars
  <2>2. CASE Cancel
    BY <2>2 DEF Cancel
  <2>3. ASSUME NEW i \in Workers, Wake(i) \/ BeginRequest(i) \/ SkipTurn(i) \/ EndRequest(i)
        PROVE  WorkersTypeOK'
    BY <2>3 DEF Wake, BeginRequest, SkipTurn, EndRequest, Goto
  <2>4. ASSUME NEW i \in Workers, Stop(i)
        PROVE  WorkersTypeOK'
    BY <2>4 DEF Stop, Goto
  <2>5. CASE UNCHANGED allVars
    BY <2>5 DEF allVars, managerVars
  <2> QED BY <2>1, <2>2, <2>3, <2>4, <2>5 DEF ManagerNext, WorkerStep
<1> QED BY <1>1, <1>2, PTL DEF ManagerSpec
=============================================================================
