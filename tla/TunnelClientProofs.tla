------------------------- MODULE TunnelClientProofs -------------------------
(***************************************************************************)
(* For any number of SOCKS requests, server slots and tunnels: dials are   *)
(* made one at a time, the server keeps its connection limit, and the      *)
(* tunnels left open behind the client's back are at most as many as the   *)
(* requests that retried.                                                  *)
(*                                                                         *)
(* LeakIsBounded is not inductive. It also takes that whoever dials does   *)
(* so because the client's tunnel is closed (so that replacing it leaves   *)
(* nothing behind), that dialling is done under the lock (so that this     *)
(* stays true until the dial is over), and that a request drops it only in *)
(* its first attempt.                                                      *)
(***************************************************************************)
EXTENDS TunnelClient, FiniteSetTheorems, WellFoundedInduction, TLAPS

Shape ==
    /\ protocol \in Protocols
    /\ lock \in Requests \union {NoOne}
    /\ active \in 0..Len(tunnels)
    /\ backoff \in 0..MaxBackoff
    /\ tunnels \in Seq(Tunnels)
    /\ pc \in [Requests -> Stages]
    /\ mux \in [Requests -> 0..Len(tunnels)]
    /\ retried \subseteq Requests
    /\ main \in {"running", "closing", "exited"}
    /\ fails \in Nat

SlotsKept == Cardinality(Held) <= MaxConns[protocol]

DialsToReplaceClosed ==
    \A r \in Requests : pc[r] \in Dialling => ~IsOpen(active)

DropsOnce == \A r \in Requests : pc[r] = "drop" => r \notin retried

IInv ==
    /\ Shape
    /\ SlotsKept
    /\ DialsAlone
    /\ DialsToReplaceClosed
    /\ DropsOnce
    /\ LeakIsBounded

-----------------------------------------------------------------------------

(* Sets of tunnels. *)

\* Every set of tunnels is finite, and a smaller one has no more members.
LEMMA TunnelSets ==
    ASSUME Shape, NEW S \in SUBSET Ids, NEW T \in SUBSET S
    PROVE  /\ IsFiniteSet(S)
           /\ Cardinality(S) \in Nat
           /\ Cardinality(T) \in Nat
           /\ Cardinality(T) <= Cardinality(S)
<1>1. Len(tunnels) \in Nat
  BY DEF Shape
<1>2. IsFiniteSet(Ids)
  BY <1>1, FS_Interval DEF Ids
<1>3. IsFiniteSet(S)
  BY <1>2, FS_Subset
<1> QED
  BY <1>3, FS_Subset, FS_CardinalityType

\* The steps that open no tunnel: ends only go from open to spent to closed.
EndsWear ==
    /\ Len(tunnels') = Len(tunnels)
    /\ \A t \in Ids :
          /\ tunnels[t].client = "closed" => tunnels'[t].client = "closed"
          /\ tunnels[t].server = "closed" => tunnels'[t].server = "closed"

\* Wearing out takes no slot and opens no tunnel.
LEMMA WearKeeps ==
    ASSUME Shape, Shape', EndsWear
    PROVE  /\ Ids' = Ids
           /\ Held' \subseteq Held
           /\ OpenTunnels' \subseteq OpenTunnels
           /\ active' = active => (IsOpen(active)' => IsOpen(active))
<1>1. Ids' = Ids
  BY DEF EndsWear, Ids
<1>2. \A t \in Ids : tunnels[t].client = "closed" => tunnels'[t].client = "closed"
  BY DEF EndsWear
<1>3. \A t \in Ids : tunnels[t].server = "closed" => tunnels'[t].server = "closed"
  BY DEF EndsWear
<1>4. Held' \subseteq Held /\ OpenTunnels' \subseteq OpenTunnels
  BY <1>1, <1>2, <1>3 DEF Held, OpenTunnels
<1>5. active' = active => (IsOpen(active)' => IsOpen(active))
  BY <1>2 DEF Shape, Ids, IsOpen
<1> QED
  BY <1>1, <1>4, <1>5

\* The step that opens one.
LEMMA GrowthAdds ==
    ASSUME Shape, NEW e \in Tunnels,
           tunnels' = Append(tunnels, e)
    PROVE  /\ Len(tunnels) + 1 \notin Ids
           /\ Held' \subseteq Held \union {Len(tunnels) + 1}
           /\ OpenTunnels' \subseteq OpenTunnels \union {Len(tunnels) + 1}
           /\ e.client = "closed" => OpenTunnels' = OpenTunnels
           /\ e.server = "closed" => Held' \subseteq Held
           /\ \A t \in Ids : tunnels'[t] = tunnels[t]
           /\ tunnels' \in Seq(Tunnels)
           /\ Len(tunnels') = Len(tunnels) + 1
<1>1. /\ Len(tunnels) \in Nat
      /\ Len(tunnels') = Len(tunnels) + 1
      /\ tunnels' \in Seq(Tunnels)
      /\ \A t \in 1..Len(tunnels) : tunnels'[t] = tunnels[t]
      /\ tunnels'[Len(tunnels) + 1] = e
  BY DEF Shape
<1>2. Ids' = Ids \union {Len(tunnels) + 1}
  BY <1>1 DEF Ids
<1> QED
  BY <1>1, <1>2 DEF Ids, Held, OpenTunnels

-----------------------------------------------------------------------------

(* Types. *)

\* The initial state has the invariant.
LEMMA InitInvariant == Init => IInv
<1> SUFFICES ASSUME Init PROVE IInv
  OBVIOUS
<1>1. Shape /\ DialsAlone /\ DialsToReplaceClosed /\ DropsOnce
  BY ClientAssumption DEF Init, Shape, DialsAlone, DialsToReplaceClosed, DropsOnce, Stages,
     Dialling
<1>2. Held = {} /\ OpenTunnels \ {active} = {} /\ retried = {}
  BY DEF Init, Held, OpenTunnels, Ids
<1>3. SlotsKept /\ LeakIsBounded
  <2>1. MaxConns[protocol] \in Nat
    BY <1>1, ClientAssumption DEF Shape
  <2>2. Cardinality({}) = 0
    BY FS_EmptySet
  <2> QED
    BY <1>2, <2>1, <2>2 DEF SlotsKept, LeakIsBounded
<1> QED
  BY <1>1, <1>3 DEF IInv

\* A new tunnel has a tunnel's type.
LEMMA MadeType ==
    ASSUME NEW client \in Ends, NEW server \in Ends
    PROVE  Made(client, server) \in Tunnels /\ Made(client, server).client = client
BY ClientAssumption DEF Made, Tunnels, Counts, Sides

\* A successful dial, whichever the protocol.
LEMMA Dials ==
    ASSUME NEW r \in Requests, GuarchDial(r) \/ ZhipDial(r) \/ GroukDial(r)
    PROVE  \E e \in Tunnels :
              /\ Dialled(r, e)
              /\ tunnels' = Append(tunnels, e)
              /\ HasSlot \/ e.server = "closed"
<1>1. \A state \in Ends :
         Made("open", state) \in Tunnels /\ Made("open", state).server = state
  BY MadeType DEF Made, Ends
<1>2. CASE GuarchDial(r) \/ ZhipDial(r)
  BY <1>1, <1>2 DEF GuarchDial, ZhipDial, Dialled, Add, Ends
<1>3. CASE GroukDial(r)
  <2> DEFINE state == IF HasSlot THEN "open" ELSE "closed"
  <2>1. state \in Ends /\ Dialled(r, Made("open", state))
    BY <1>3 DEF GroukDial, Ends
  <2>2. Made("open", state) \in Tunnels /\ Made("open", state).server = state
    BY <1>1, <2>1
  <2>3. tunnels' = Append(tunnels, Made("open", state))
    BY <2>1 DEF Dialled, Add
  <2> QED
    BY <2>1, <2>2, <2>3
<1> QED
  BY <1>2, <1>3

\* The elements of a sequence over S are in S.
LEMMA Elements == ASSUME NEW S, NEW seq \in Seq(S), NEW i \in 1..Len(seq) PROVE seq[i] \in S
OBVIOUS

\* One tunnel is replaced by one whose closed ends are closed.
LEMMA OneTunnelWears ==
    ASSUME Shape, NEW t \in Ids, NEW e \in Tunnels,
           tunnels' = [tunnels EXCEPT ![t] = e],
           tunnels[t].client = "closed" => e.client = "closed",
           tunnels[t].server = "closed" => e.server = "closed"
    PROVE  tunnels' \in Seq(Tunnels) /\ EndsWear
<1>1. tunnels \in Seq(Tunnels) /\ t \in 1..Len(tunnels)
  BY DEF Shape, Ids
<1>2. /\ tunnels' \in Seq(Tunnels)
      /\ Len(tunnels') = Len(tunnels)
      /\ \A u \in 1..Len(tunnels) : tunnels'[u] = IF u = t THEN e ELSE tunnels[u]
  BY <1>1
<1> QED
  BY <1>2 DEF EndsWear, Ids

\* A stream of zhip is opened or given back.
CountStep(r) == ZhipOpen(r) \/ RelayEnds(r)

\* Counting streams closes no end, and keeps zhip's limit.
LEMMA CountShape ==
    ASSUME Shape, NEW r \in Requests, CountStep(r)
    PROVE  Shape' /\ EndsWear
<1>1. CASE UNCHANGED tunnels
  BY <1>1 DEF Shape, EndsWear, Ids, CountStep, ZhipOpen, RelayEnds, OpenFails, Goto,
              Stages
<1>2. ASSUME NEW n \in Counts, mux[r] \in Ids,
             tunnels' = [tunnels EXCEPT ![mux[r]].used = n]
      PROVE  tunnels' \in Seq(Tunnels) /\ EndsWear
  <2> DEFINE e == [tunnels[mux[r]] EXCEPT !.used = n]
  <2>1. tunnels[mux[r]] \in Tunnels
    BY <1>2, Elements DEF Shape, Ids
  <2>2. /\ e \in Tunnels
        /\ e.client = tunnels[mux[r]].client
        /\ e.server = tunnels[mux[r]].server
    BY <2>1 DEF Tunnels
  <2>3. tunnels' = [tunnels EXCEPT ![mux[r]] = e]
    BY <1>2
  <2> HIDE DEF e
  <2> QED
    BY <1>2, <2>2, <2>3, OneTunnelWears
<1>3. ASSUME IsOpen(mux[r])
      PROVE  mux[r] \in Ids /\ tunnels[mux[r]].used \in Counts
  <2>1. mux[r] \in Ids
    BY <1>3 DEF IsOpen, Shape, Ids
  <2>2. tunnels[mux[r]] \in Tunnels
    BY <2>1, Elements DEF Shape, Ids
  <2> QED
    BY <2>1, <2>2 DEF Tunnels
<1>4. CASE ZhipOpen(r) /\ ~UNCHANGED tunnels
  <2>1. /\ IsOpen(mux[r])
        /\ tunnels[mux[r]].used < MaxStreams
        /\ tunnels' = [tunnels EXCEPT ![mux[r]].used = tunnels[mux[r]].used + 1]
    BY <1>4 DEF ZhipOpen
  <2>2. tunnels[mux[r]].used + 1 \in Counts
    BY <1>3, <2>1, ClientAssumption DEF Counts
  <2>3. tunnels' \in Seq(Tunnels) /\ EndsWear
    BY <1>2, <1>3, <2>1, <2>2
  <2>4. Len(tunnels') = Len(tunnels)
    BY <2>3 DEF EndsWear
  <2> QED
    BY <1>4, <2>3, <2>4 DEF Shape, ZhipOpen, OpenFails, Goto, Stages
<1>5. CASE RelayEnds(r)
  <2>1. /\ IsOpen(mux[r])
        /\ tunnels' = [tunnels EXCEPT ![mux[r]].used = tunnels[mux[r]].used - 1]
    BY <1>5 DEF RelayEnds
  <2>2. tunnels[mux[r]].used - 1 \in Counts
    BY <1>3, <2>1, ClientAssumption DEF Counts
  <2>3. tunnels' \in Seq(Tunnels) /\ EndsWear
    BY <1>2, <1>3, <2>1, <2>2
  <2>4. Len(tunnels') = Len(tunnels)
    BY <2>3 DEF EndsWear
  <2> QED
    BY <1>5, <2>3, <2>4 DEF Shape, RelayEnds, Goto, Stages
<1> QED
  BY <1>1, <1>4, <1>5 DEF CountStep

\* The steps of a request that leave the tunnels alone.
QuietStep(r) ==
    \/ Accept(r) \/ GetMux(r) \/ Sleep(r) \/ OpenStream(r)
    \/ WriteRequest(r) \/ ReadStatus(r) \/ ReadFails(r) \/ GroukGivesUp(r)

\* They keep the types.
LEMMA QuietShape ==
    ASSUME Shape, NEW r \in Requests, QuietStep(r)
    PROVE  Shape' /\ EndsWear
<1> USE DEF Shape, Stages, Dialling, Goto
<1>1. CASE Accept(r)
  BY <1>1 DEF Accept, EndsWear
<1>2. CASE UseMux(r)
  BY <1>2, ClientAssumption DEF UseMux, EndsWear
<1>3. ASSUME StartDial(r, active) \/ StartDial(r, 0) PROVE Shape' /\ EndsWear
  <2>1. /\ UNCHANGED <<protocol, backoff, tunnels, mux, retried, main, fails>>
        /\ lock' = r /\ (active' = active \/ active' = 0)
        /\ pc' = [pc EXCEPT ![r] = IF backoff > 0 THEN "sleep" ELSE DialStage]
    BY <1>3 DEF StartDial
  <2>2. /\ (IF backoff > 0 THEN "sleep" ELSE DialStage) \in Stages
        /\ active' \in 0..Len(tunnels)
    BY <2>1 DEF DialStage
  <2> HIDE DEF Stages
  <2>3. pc' \in [Requests -> Stages] /\ lock' \in Requests \union {NoOne}
    BY <2>1, <2>2
  <2> QED
    BY <2>1, <2>2, <2>3 DEF EndsWear
<1>4. CASE Sleep(r)
  BY <1>4 DEF Sleep, DialStage, EndsWear
<1>5. CASE OpenStream(r)
  BY <1>5 DEF OpenStream, OpenFails, EndsWear
<1>6. CASE WriteRequest(r)
  BY <1>6 DEF WriteRequest, EndsWear
<1>7. CASE ReadStatus(r) \/ ReadFails(r) \/ GroukGivesUp(r)
  BY <1>7 DEF ReadStatus, ReadFails, GroukGivesUp, EndsWear
<1> QED
  BY <1>1, <1>2, <1>3, <1>4, <1>5, <1>6, <1>7
  DEF QuietStep, GetMux, GuarchGet, ZhipGet, GroukGet

\* Forgetting the tunnel and dialling keep the types.
LEMMA DialShape ==
    ASSUME Shape, NEW r \in Requests,
           Drop(r) \/ (\E e \in Tunnels : Dialled(r, e)) \/ DialFails(r)
    PROVE  Shape'
<1> USE DEF Shape, Stages, Dialling, Goto
<1>1. CASE Drop(r)
  BY <1>1 DEF Drop
<1>2. CASE \E e \in Tunnels : Dialled(r, e)
  <2>1. PICK e \in Tunnels : Dialled(r, e)
    BY <1>2
  <2>2. tunnels' \in Seq(Tunnels) /\ Len(tunnels') = Len(tunnels) + 1
    BY <2>1, GrowthAdds DEF Dialled, Add
  <2> QED
    BY <2>1, <2>2, ClientAssumption DEF Dialled
<1>3. CASE DialFails(r)
  <2>1. Made("closed", "open") \in Tunnels
    BY MadeType DEF Ends
  <2>2. tunnels' \in Seq(Tunnels) /\ Len(tunnels') \in {Len(tunnels), Len(tunnels) + 1}
    <3>1. CASE UNCHANGED tunnels
      BY <3>1
    <3>2. CASE tunnels' = Append(tunnels, Made("closed", "open"))
      BY <2>1, <3>2, GrowthAdds
    <3> QED
      BY <1>3, <3>1, <3>2 DEF DialFails, GuarchAuthCut, ZhipAuthCut,
                 GroukAuthCut, Add
  <2>3. backoff' \in 0..MaxBackoff
    BY <1>3, ClientAssumption DEF DialFails, Doubled
  <2>4. Len(tunnels) \in Nat
    OBVIOUS
  <2> QED
    BY <1>3, <2>2, <2>3, <2>4 DEF DialFails, GuarchAuthCut, ZhipAuthCut, GroukAuthCut
<1> QED
  BY <1>1, <1>2, <1>3

\* The steps of the tunnels and of main only wear ends out.
WearStep ==
    \/ \E t \in Ids, end \in Sides :
          Break(t, end) \/ Spend(t, end) \/ PeerCloses(t, end)
    \/ \E t \in Ids, end \in Sides : Stall(t, end) \/ Resume(t, end)
    \/ Interrupt
    \/ Exit

\* They keep the types, and leave the lock, the requests and the field alone.
LEMMA WearShape ==
    ASSUME Shape, WearStep
    PROVE  Shape' /\ EndsWear /\ UNCHANGED <<protocol, lock, active, pc, retried>>
<1> USE DEF Shape, Ids
<1>1. ASSUME NEW t \in Ids, NEW end \in Sides,
             Break(t, end) \/ Spend(t, end) \/ PeerCloses(t, end)
      PROVE  Shape' /\ EndsWear /\ UNCHANGED <<protocol, lock, active, pc, retried>>
  <2>1. PICK state \in Ends :
           /\ tunnels' = [tunnels EXCEPT ![t][end] = state]
           /\ tunnels[t][end] = "closed" => state = "closed"
    BY <1>1 DEF Break, Spend, PeerCloses, Ends
  <2> DEFINE e == [tunnels[t] EXCEPT ![end] = state]
  <2>2. tunnels[t] \in Tunnels
    BY Elements
  <2>3. /\ e \in Tunnels
        /\ tunnels[t].client = "closed" => e.client = "closed"
        /\ tunnels[t].server = "closed" => e.server = "closed"
    <3>1. CASE end = "client"
      BY <2>1, <2>2, <3>1 DEF Tunnels
    <3>2. CASE end = "server"
      BY <2>1, <2>2, <3>2 DEF Tunnels
    <3> QED
      BY <3>1, <3>2 DEF Sides
  <2>4. tunnels' = [tunnels EXCEPT ![t] = e]
    BY <2>1
  <2> HIDE DEF e
  <2>5. tunnels' \in Seq(Tunnels) /\ EndsWear
    BY <2>3, <2>4, OneTunnelWears DEF Ids
  <2> QED
    BY <1>1, <2>5 DEF Break, Spend, PeerCloses, EndsWear
<1>2. CASE Interrupt
  BY <1>2 DEF Interrupt, EndsWear
<1>3. CASE Exit
  <2> DEFINE e(t) == [tunnels[t] EXCEPT !.client = "closed"]
  <2>1. \A t \in 1..Len(tunnels) :
           /\ e(t) \in Tunnels
           /\ e(t).client = "closed"
           /\ e(t).server = tunnels[t].server
    <3> SUFFICES ASSUME NEW t \in 1..Len(tunnels)
                 PROVE  /\ e(t) \in Tunnels
                        /\ e(t).client = "closed"
                        /\ e(t).server = tunnels[t].server
      OBVIOUS
    <3>1. tunnels[t] \in Tunnels
      BY Elements
    <3> QED
      BY <3>1 DEF Ends, Tunnels
  <2>2. tunnels' = [t \in 1..Len(tunnels) |-> e(t)] /\ Len(tunnels) \in Nat
    BY <1>3 DEF Exit
  <2> HIDE DEF e
  <2>3. /\ tunnels' \in Seq(Tunnels)
        /\ Len(tunnels') = Len(tunnels)
        /\ \A t \in 1..Len(tunnels) : tunnels'[t] = e(t)
    BY <2>1, <2>2
  <2> QED
    BY <1>3, <2>1, <2>3 DEF Exit, EndsWear
<1>4. ASSUME NEW t \in Ids, NEW end \in Sides, Stall(t, end) \/ Resume(t, end)
      PROVE  Shape' /\ EndsWear /\ UNCHANGED <<protocol, lock, active, pc, retried>>
  <2>1. tunnels[t] \in Tunnels
    BY Elements
  <2>2. PICK stuck \in SUBSET Sides : tunnels' = [tunnels EXCEPT ![t].stuck = stuck]
    <3>1. tunnels[t].stuck \in SUBSET Sides
      BY <2>1 DEF Tunnels
    <3>2. CASE Stall(t, end)
      BY <3>1, <3>2 DEF Stall
    <3>3. CASE Resume(t, end)
      BY <3>1, <3>3 DEF Resume
    <3> QED
      BY <1>4, <3>2, <3>3
  <2> DEFINE e == [tunnels[t] EXCEPT !.stuck = stuck]
  <2>3. /\ e \in Tunnels
        /\ e.client = tunnels[t].client
        /\ e.server = tunnels[t].server
    BY <2>1 DEF Tunnels
  <2>4. tunnels' = [tunnels EXCEPT ![t] = e]
    BY <2>2
  <2> HIDE DEF e
  <2>5. tunnels' \in Seq(Tunnels) /\ EndsWear
    BY <2>3, <2>4, OneTunnelWears DEF Ids
  <2> QED
    BY <1>4, <2>5 DEF Stall, Resume, EndsWear
<1> QED
  BY <1>1, <1>2, <1>3, <1>4 DEF WearStep

-----------------------------------------------------------------------------

(* The inductive invariant. *)

\* A step that opens no tunnel, and forgets none that is open, takes no slot
\* and leaves no tunnel behind.
LEMMA WearBounds ==
    ASSUME IInv, Shape', EndsWear, UNCHANGED <<protocol, retried>>,
           active' = active \/ ~IsOpen(active)
    PROVE  SlotsKept' /\ LeakIsBounded'
<1>1. Held' \subseteq Held /\ OpenTunnels' \subseteq OpenTunnels
  BY WearKeeps DEF IInv
<1>2. SlotsKept'
  <2>1. Held \subseteq Ids
    BY DEF Held
  <2>2. Cardinality(Held') \in Nat /\ Cardinality(Held) \in Nat
        /\ Cardinality(Held') <= Cardinality(Held)
    BY <1>1, <2>1, TunnelSets DEF IInv
  <2>3. MaxConns[protocol] \in Nat
    BY ClientAssumption DEF IInv, Shape
  <2> QED
    BY <2>2, <2>3 DEF SlotsKept, IInv
<1>3. LeakIsBounded'
  <2>1. active \notin OpenTunnels \/ active' = active
    BY DEF IsOpen, OpenTunnels, Ids
  <2>2. /\ OpenTunnels \ {active} \in SUBSET Ids
        /\ OpenTunnels' \ {active'} \in SUBSET (OpenTunnels \ {active})
    BY <1>1, <2>1 DEF OpenTunnels
  <2>3. Cardinality(OpenTunnels' \ {active'}) <= Cardinality(OpenTunnels \ {active})
        /\ Cardinality(OpenTunnels' \ {active'}) \in Nat
        /\ Cardinality(OpenTunnels \ {active}) \in Nat
    BY <2>2, TunnelSets DEF IInv
  <2>4. Cardinality(retried) \in Nat
    BY ClientAssumption, FS_Subset, FS_CardinalityType DEF IInv, Shape
  <2> QED
    BY <2>3, <2>4 DEF LeakIsBounded, IInv
<1> QED
  BY <1>2, <1>3

\* A tunnel that wears out frees a slot and is no longer a leak.
LEMMA WearInductive ==
    ASSUME IInv, WearStep
    PROVE  IInv'
<1>1. Shape /\ Shape' /\ EndsWear /\ UNCHANGED <<protocol, lock, active, pc, retried>>
  BY WearShape DEF IInv
<1>2. IsOpen(active)' => IsOpen(active)
  BY <1>1, WearKeeps
<1>3. SlotsKept' /\ LeakIsBounded'
  BY <1>1, WearBounds
<1>4. DialsAlone' /\ DialsToReplaceClosed' /\ DropsOnce'
  BY <1>1, <1>2 DEF IInv, DialsAlone, DialsToReplaceClosed, DropsOnce
<1> QED
  BY <1>1, <1>3, <1>4 DEF IInv

\* Streams that are opened and given back.
LEMMA CountInductive ==
    ASSUME IInv, NEW r \in Requests, CountStep(r)
    PROVE  IInv'
<1>1. Shape /\ Shape' /\ EndsWear
  BY CountShape DEF IInv
<1>2. UNCHANGED <<protocol, lock, active, retried>>
  BY DEF CountStep, ZhipOpen, RelayEnds
<1>3. PICK stage \in {"request", "failed", "drop", "done"} :
         /\ pc' = [pc EXCEPT ![r] = stage]
         /\ pc[r] \in {"open", "relay"}
         /\ stage = "drop" => r \notin retried
  BY DEF CountStep, ZhipOpen, RelayEnds, OpenFails, Goto
<1>4. SlotsKept' /\ LeakIsBounded'
  BY <1>1, <1>2, WearBounds
<1>5. IsOpen(active)' => IsOpen(active)
  BY <1>1, <1>2, WearKeeps
<1>6. DialsAlone' /\ DialsToReplaceClosed' /\ DropsOnce'
  BY <1>1, <1>2, <1>3, <1>5, ClientAssumption
  DEF IInv, DialsAlone, DialsToReplaceClosed, DropsOnce, Shape, Dialling
<1> QED
  BY <1>1, <1>4, <1>6 DEF IInv

\* A request's steps that leave the tunnels alone: a closed one may be forgotten.
LEMMA QuietInductive ==
    ASSUME IInv, NEW r \in Requests, QuietStep(r)
    PROVE  IInv'
<1>1. Shape /\ Shape' /\ EndsWear
  BY QuietShape DEF IInv
<1>2. CASE GetMux(r)
  <2>1. CASE UseMux(r)
    <3>1. SlotsKept' /\ LeakIsBounded'
      BY <1>1, <2>1, WearBounds DEF UseMux
    <3>2. DialsAlone' /\ DialsToReplaceClosed' /\ DropsOnce'
      BY <1>1, <2>1, ClientAssumption
      DEF UseMux, Goto, IInv, DialsAlone, DialsToReplaceClosed, DropsOnce, IsOpen,
          Shape, Dialling
    <3> QED
      BY <1>1, <3>1, <3>2 DEF IInv
  <2>2. ASSUME NEW kept \in {active, 0}, StartDial(r, kept) PROVE IInv'
    <3>1. SlotsKept' /\ LeakIsBounded'
      BY <1>1, <2>2, WearBounds DEF StartDial
    <3>2. ~IsOpen(active)'
      BY <2>2 DEF StartDial, IsOpen
    <3>3. PICK stage \in Dialling : pc' = [pc EXCEPT ![r] = stage]
      BY <2>2 DEF StartDial, DialStage, Goto, Dialling
    <3>4. DialsAlone' /\ DialsToReplaceClosed' /\ DropsOnce'
      BY <1>1, <2>2, <3>2, <3>3, ClientAssumption
      DEF StartDial, IInv, DialsAlone, DialsToReplaceClosed, DropsOnce, Shape, Dialling
    <3> QED
      BY <1>1, <3>1, <3>4 DEF IInv
  <2> QED
    BY <1>2, <2>1, <2>2 DEF GetMux, GuarchGet, ZhipGet, GroukGet
<1>3. CASE ~GetMux(r)
  <2>1. UNCHANGED <<protocol, lock, active, retried, tunnels>>
    BY <1>3 DEF QuietStep, Accept, Sleep, OpenStream, WriteRequest, ReadStatus,
                ReadFails, GroukGivesUp
  <2>2. SlotsKept' /\ LeakIsBounded'
    BY <1>1, <2>1, WearBounds
  <2>3. PICK stage \in Stages :
           /\ pc' = [pc EXCEPT ![r] = stage]
           /\ stage \in Dialling <=> pc[r] \in Dialling
           /\ stage = "drop" => r \notin retried
    BY <1>3 DEF QuietStep, Accept, Sleep, DialStage, OpenStream, OpenFails,
                WriteRequest, ReadStatus, ReadFails, GroukGivesUp, Goto, Stages, Dialling
  <2>4. DialsAlone' /\ DialsToReplaceClosed' /\ DropsOnce'
    BY <1>1, <2>1, <2>3
    DEF IInv, DialsAlone, DialsToReplaceClosed, DropsOnce, IsOpen, Shape
  <2> QED
    BY <1>1, <2>2, <2>4 DEF IInv
<1> QED
  BY <1>2, <1>3

\* A new tunnel takes a slot that was free, or none.
LEMMA SlotTaken ==
    ASSUME IInv, Shape', NEW e \in Tunnels, protocol' = protocol,
           HasSlot \/ e.server = "closed",
           tunnels' = Append(tunnels, e)
    PROVE  SlotsKept'
<1> DEFINE new == Len(tunnels) + 1
<1>1. Shape /\ SlotsKept /\ MaxConns[protocol] \in Nat
  BY ClientAssumption DEF IInv, Shape
<1>2. /\ Held' \subseteq Held \union {new}
      /\ e.server = "closed" => Held' \subseteq Held
  BY <1>1, GrowthAdds
<1>3. IsFiniteSet(Held) /\ Cardinality(Held) \in Nat
  BY <1>1, TunnelSets DEF Held
<1>4. /\ IsFiniteSet(Held \union {new})
      /\ Cardinality(Held \union {new}) =
           IF new \in Held THEN Cardinality(Held) ELSE Cardinality(Held) + 1
  BY <1>3, FS_AddElement
<1>5. CASE HasSlot
  <2>1. Cardinality(Held \union {new}) \in Nat
    BY <1>3, <1>4
  <2>2. Cardinality(Held') \in Nat /\ Cardinality(Held') <= Cardinality(Held \union {new})
    BY <1>2, <1>4, FS_Subset, FS_CardinalityType
  <2>3. Cardinality(Held) < MaxConns[protocol]
    BY <1>5 DEF HasSlot
  <2> QED
    BY <1>1, <1>3, <1>4, <2>1, <2>2, <2>3 DEF SlotsKept
<1>6. CASE e.server = "closed"
  <2>1. Cardinality(Held') \in Nat /\ Cardinality(Held') <= Cardinality(Held)
    BY <1>2, <1>3, <1>6, FS_Subset, FS_CardinalityType
  <2> QED
    BY <1>1, <1>3, <2>1 DEF SlotsKept
<1> QED
  BY <1>5, <1>6

\* A dial that succeeds replaces a tunnel that is closed, so that none is left
\* open behind.
LEMMA DialInductive ==
    ASSUME IInv, NEW r \in Requests, NEW e \in Tunnels, Dialled(r, e),
           tunnels' = Append(tunnels, e),
           HasSlot \/ e.server = "closed"
    PROVE  IInv'
<1> DEFINE new == Len(tunnels) + 1
<1>1. Shape /\ Shape'
  BY DialShape DEF IInv
<1>2. OpenTunnels' \subseteq OpenTunnels \union {new}
  BY <1>1, GrowthAdds
<1>3. SlotsKept'
  BY <1>1, SlotTaken DEF Dialled
<1>4. LeakIsBounded'
  <2>1. active \notin OpenTunnels
    BY <1>1 DEF IInv, DialsToReplaceClosed, Dialled, OpenTunnels, IsOpen, Ids, Dialling
  <2>2. OpenTunnels \ {active} \in SUBSET Ids
        /\ OpenTunnels' \ {active'} \in SUBSET (OpenTunnels \ {active})
    BY <1>2, <2>1 DEF Dialled, OpenTunnels
  <2>3. /\ Cardinality(OpenTunnels' \ {active'}) <= Cardinality(OpenTunnels \ {active})
        /\ Cardinality(OpenTunnels' \ {active'}) \in Nat
        /\ Cardinality(OpenTunnels \ {active}) \in Nat
    BY <1>1, <2>2, TunnelSets
  <2>4. Cardinality(retried) \in Nat /\ retried' = retried
    BY <1>1, ClientAssumption, FS_Subset, FS_CardinalityType DEF Shape, Dialled
  <2> QED
    BY <2>3, <2>4 DEF LeakIsBounded, IInv
<1>5. DialsAlone'
  BY <1>1, ClientAssumption DEF IInv, DialsAlone, Shape, Dialled, Goto, Dialling
<1>6. DialsToReplaceClosed'
  BY <1>1, <1>5, ClientAssumption DEF DialsAlone, DialsToReplaceClosed, Shape, Dialled
<1>7. DropsOnce'
  BY <1>1 DEF IInv, DropsOnce, Shape, Dialled, Goto
<1> QED
  BY <1>1, <1>3, <1>4, <1>5, <1>6, <1>7 DEF IInv

\* A failed dial opens nothing at the client, whether or not it took a slot.
LEMMA DialFailsInductive ==
    ASSUME IInv, NEW r \in Requests, DialFails(r)
    PROVE  IInv'
<1> DEFINE e == Made("closed", "open")
<1>1. Shape /\ Shape'
  BY DialShape DEF IInv
<1>2. e \in Tunnels /\ e.client = "closed"
  BY MadeType DEF Ends
<1>3. SlotsKept' /\ OpenTunnels' = OpenTunnels
  <2>1. CASE UNCHANGED tunnels
    BY <2>1 DEF IInv, SlotsKept, Held, OpenTunnels, Ids, DialFails, GuarchAuthCut,
       ZhipAuthCut, GroukAuthCut
  <2>2. CASE HasSlot /\ tunnels' = Append(tunnels, e)
    BY <1>1, <1>2, <2>2, SlotTaken, GrowthAdds DEF DialFails, GuarchAuthCut, ZhipAuthCut,
       GroukAuthCut
  <2> QED
    BY <2>1, <2>2 DEF DialFails, GuarchAuthCut, ZhipAuthCut, GroukAuthCut, Add
<1>4. LeakIsBounded'
  BY <1>3 DEF DialFails, IInv, LeakIsBounded
<1>5. DialsAlone'
  BY <1>1, ClientAssumption DEF IInv, DialsAlone, Shape, DialFails, Goto, Dialling
<1>6. DialsToReplaceClosed'
  BY <1>1, <1>5, ClientAssumption DEF DialsAlone, DialsToReplaceClosed, Shape, DialFails
<1>7. DropsOnce'
  BY <1>1 DEF IInv, DropsOnce, Shape, DialFails, Goto
<1> QED
  BY <1>1, <1>3, <1>4, <1>5, <1>6, <1>7 DEF IInv

\* A request that drops the client's tunnel may leave it open, and is from then
\* on one of those that retried.
LEMMA DropInductive ==
    ASSUME IInv, NEW r \in Requests, Drop(r)
    PROVE  IInv'
<1>1. Shape /\ Shape'
  BY DialShape DEF IInv
<1>2. SlotsKept'
  BY DEF IInv, Drop, SlotsKept, Held, Ids
<1>3. LeakIsBounded'
  <2> DEFINE Left == OpenTunnels \ {active}
  <2>1. IsFiniteSet(Left) /\ Cardinality(Left) \in Nat
    BY <1>1, TunnelSets DEF OpenTunnels
  <2>2. /\ IsFiniteSet(Left \union {active})
        /\ Cardinality(Left \union {active}) =
             IF active \in Left THEN Cardinality(Left) ELSE Cardinality(Left) + 1
    BY <2>1, FS_AddElement
  <2>3. OpenTunnels' \ {active'} \in SUBSET (Left \union {active})
    BY DEF Drop, OpenTunnels, Ids
  <2>4. /\ Cardinality(OpenTunnels' \ {active'}) \in Nat
        /\ Cardinality(OpenTunnels' \ {active'}) <= Cardinality(Left \union {active})
    BY <2>2, <2>3, FS_Subset, FS_CardinalityType
  <2>5. IsFiniteSet(retried) /\ Cardinality(retried) \in Nat
    BY <1>1, ClientAssumption, FS_Subset, FS_CardinalityType DEF Shape
  <2>6. r \notin retried
    BY DEF IInv, DropsOnce, Drop
  <2>7. Cardinality(retried') = Cardinality(retried) + 1
    BY <2>5, <2>6, FS_AddElement DEF Drop
  <2>8. Cardinality(Left) <= Cardinality(retried)
    BY DEF IInv, LeakIsBounded
  <2> QED
    BY <2>1, <2>2, <2>4, <2>5, <2>7, <2>8 DEF LeakIsBounded
<1>4. DialsAlone'
  BY <1>1, ClientAssumption DEF IInv, DialsAlone, Shape, Drop, Goto, Dialling
<1>5. DialsToReplaceClosed'
  BY <1>1 DEF DialsToReplaceClosed, Drop, IsOpen
<1>6. DropsOnce'
  BY <1>1 DEF IInv, DropsOnce, Shape, Drop, Goto
<1> QED
  BY <1>1, <1>2, <1>3, <1>4, <1>5, <1>6 DEF IInv

\* Every step keeps the invariant.
LEMMA Inductive == IInv /\ [Next]_vars => IInv'
<1> SUFFICES ASSUME IInv, [Next]_vars PROVE IInv'
  OBVIOUS
<1>1. CASE UNCHANGED vars
  BY <1>1 DEF vars, IInv, Shape, SlotsKept, Held, Ids, DialsAlone,
              DialsToReplaceClosed, IsOpen, DropsOnce, LeakIsBounded, OpenTunnels
<1>2. ASSUME NEW r \in Requests, GuarchDial(r) \/ ZhipDial(r) \/ GroukDial(r)
      PROVE  IInv'
  BY <1>2, Dials, DialInductive
<1>3. CASE \E r \in Requests : Request(r)
  BY <1>2, <1>3, QuietInductive, CountInductive, DialFailsInductive, DropInductive
  DEF Request, Handle, Exchange, Connect, QuietStep, CountStep
<1>4. CASE WearStep
  BY <1>4, WearInductive
<1> QED
  BY <1>1, <1>3, <1>4 DEF Next, WearStep

\* The invariant holds of every behaviour.
LEMMA Invariance == Spec => []IInv
BY InitInvariant, Inductive, PTL DEF Spec

-----------------------------------------------------------------------------

\* The variables keep their types; in particular a server's accept loop never
\* keeps more tunnels than maxConns has slots, and no zhip connection has more
\* streams than its limit.
THEOREM TypeCorrect == Spec => []TypeOK
<1>1. IInv => TypeOK
  BY DEF IInv, Shape, SlotsKept, TypeOK
<1> QED
  BY <1>1, Invariance, PTL

\* The clients' getOrCreate functions: only the holder of c.mu sleeps or dials.
THEOREM OneDialAtATime == Spec => []DialsAlone
<1>1. IInv => DialsAlone
  BY DEF IInv
<1> QED
  BY <1>1, Invariance, PTL

\* However many requests run, each leaves at most one open tunnel behind, and
\* only by retrying.
THEOREM LeakBounded == Spec => []LeakIsBounded
<1>1. IInv => LeakIsBounded
  BY DEF IInv
<1> QED
  BY <1>1, Invariance, PTL
-----------------------------------------------------------------------------

(* The pause before a dial. *)

\* Every set of natural numbers that is not empty has a least member.
LEMMA Least ==
    ASSUME NEW S \in SUBSET Nat, S # {}
    PROVE  \E m \in S : \A k \in S : m <= k
<1>1. PICK m \in S : \A k \in S : ~(<<k, m>> \in OpToRel(<, Nat))
  BY WFMin, NatLessThanWellFounded
<1>2. \A k \in S : ~(k < m)
  BY <1>1 DEF OpToRel
<1>3. \A k \in S : m <= k
  <2> TAKE k \in S
  <2> m \in Nat /\ k \in Nat
    BY <1>1
  <2> QED
    BY <1>2
<1> QED
  BY <1>1, <1>3

\* The recursion of PowersOf2, up to n.
Doubles(g, n) ==
    /\ g \in [0..n -> Nat]
    /\ \A i \in 0..n : g[i] = IF i = 0 THEN 1 ELSE 2 * g[i - 1]

LEMMA DoublesExist == \A n \in Nat : \E g : Doubles(g, n)
<1> DEFINE Missing == {n \in Nat : ~\E g : Doubles(g, n)}
<1> SUFFICES ASSUME Missing # {} PROVE FALSE
  OBVIOUS
<1>1. PICK m \in Missing : \A k \in Missing : m <= k
  BY Least
<1>2. m \in Nat /\ ~\E g : Doubles(g, m)
  BY <1>1
<1>3. CASE m = 0
  <2>1. Doubles([i \in 0..0 |-> 1], 0)
    BY DEF Doubles
  <2> QED
    BY <1>2, <1>3, <2>1
<1>4. CASE m # 0
  <2>1. m - 1 \in Nat /\ m - 1 \notin Missing
    BY <1>1, <1>2, <1>4
  <2>2. PICK g : Doubles(g, m - 1)
    BY <2>1
  <2> DEFINE h == [i \in 0..m |-> IF i = m THEN 2 * g[m - 1] ELSE g[i]]
  <2>3. g \in [0..(m - 1) -> Nat] /\ m - 1 \in 0..(m - 1)
    BY <2>1, <2>2 DEF Doubles
  <2>4. \A i \in 0..m : i = m \/ i \in 0..(m - 1)
    BY <1>2
  <2>5. h \in [0..m -> Nat]
    BY <2>3, <2>4
  <2>6. \A i \in 0..m : h[i] = IF i = 0 THEN 1 ELSE 2 * h[i - 1]
    <3> TAKE i \in 0..m
    <3>1. CASE i = m
      BY <1>2, <1>4, <3>1
    <3>2. CASE i # m
      <4>1. i \in 0..(m - 1) /\ h[i] = g[i]
        BY <2>4, <3>2
      <4>2. i # 0 => i - 1 \in 0..m /\ i - 1 # m
        BY <1>2, <4>1
      <4>3. g[i] = IF i = 0 THEN 1 ELSE 2 * g[i - 1]
        BY <2>2, <4>1 DEF Doubles
      <4> QED
        BY <4>1, <4>2, <4>3
    <3> QED
      BY <3>1, <3>2
  <2> HIDE DEF h
  <2>7. Doubles(h, m)
    BY <2>5, <2>6 DEF Doubles
  <2> QED
    BY <1>2, <2>7
<1> QED
  BY <1>3, <1>4

LEMMA DoublesAgree ==
    ASSUME NEW n \in Nat, NEW m \in Nat, NEW g, NEW h, Doubles(g, n), Doubles(h, m)
    PROVE  \A i \in Nat : i <= n /\ i <= m => g[i] = h[i]
<1> DEFINE Differ == {i \in Nat : i <= n /\ i <= m /\ g[i] # h[i]}
<1> SUFFICES ASSUME Differ # {} PROVE FALSE
  OBVIOUS
<1>1. PICK i \in Differ : \A k \in Differ : i <= k
  BY Least
<1>2. i \in Nat /\ i \in 0..n /\ i \in 0..m /\ g[i] # h[i]
  BY <1>1
<1>3. i # 0
  BY <1>2 DEF Doubles
<1>4. i - 1 \in Nat /\ i - 1 \notin Differ
  BY <1>1, <1>2, <1>3
<1>5. g[i - 1] = h[i - 1]
  BY <1>2, <1>4
<1> QED
  BY <1>2, <1>3, <1>5 DEF Doubles

\* PowersOf2 is what its definition says.
LEMMA Powers ==
    /\ PowersOf2[0] = 1
    /\ \A n \in Nat : PowersOf2[n] \in Nat \ {0} /\ PowersOf2[n + 1] = 2 * PowersOf2[n]
<1> DEFINE G(n) == CHOOSE g : Doubles(g, n)
           h == [n \in Nat |-> G(n)[n]]
<1>1. \A n \in Nat : Doubles(G(n), n)
  BY DoublesExist
<1>2. \A n \in Nat : h[n] = IF n = 0 THEN 1 ELSE 2 * h[n - 1]
  <2> TAKE n \in Nat
  <2>1. Doubles(G(n), n)
    BY <1>1
  <2>2. CASE n = 0
    BY <2>1, <2>2 DEF Doubles
  <2>3. CASE n # 0
    <3>1. n - 1 \in Nat /\ n - 1 <= n /\ n \in 0..n
      BY <2>3
    <3>2. Doubles(G(n - 1), n - 1)
      BY <1>1, <3>1
    <3> HIDE DEF G
    <3>3. G(n)[n - 1] = G(n - 1)[n - 1]
      BY <2>1, <3>1, <3>2, DoublesAgree
    <3>4. G(n)[n] = 2 * G(n)[n - 1]
      BY <2>1, <2>3, <3>1 DEF Doubles
    <3> QED
      BY <2>3, <3>1, <3>3, <3>4
  <2> QED
    BY <2>2, <2>3
<1>3. h = [n \in Nat |-> IF n = 0 THEN 1 ELSE 2 * h[n - 1]]
  <2> HIDE DEF G
  <2>1. h = [n \in Nat |-> h[n]]
    OBVIOUS
  <2> HIDE DEF h
  <2> QED
    BY <1>2, <2>1
<1> HIDE DEF h
<1>4. PowersOf2 = [n \in Nat |-> IF n = 0 THEN 1 ELSE 2 * PowersOf2[n - 1]]
  BY <1>3 DEF PowersOf2
<1>5. PowersOf2[0] = 1 /\ \A n \in Nat : PowersOf2[n + 1] = 2 * PowersOf2[n]
  <2>1. \A n \in Nat : PowersOf2[n] = IF n = 0 THEN 1 ELSE 2 * PowersOf2[n - 1]
    BY <1>4
  <2>2. \A n \in Nat : n + 1 \in Nat /\ n + 1 # 0 /\ (n + 1) - 1 = n
    OBVIOUS
  <2> QED
    BY <2>1, <2>2
<1>6. \A n \in Nat : PowersOf2[n] \in Nat \ {0}
  <2> DEFINE Wrong == {n \in Nat : PowersOf2[n] \notin Nat \ {0}}
  <2> SUFFICES ASSUME Wrong # {} PROVE FALSE
    OBVIOUS
  <2>1. PICK n \in Wrong : \A k \in Wrong : n <= k
    BY Least
  <2>2. n \in Nat /\ PowersOf2[n] \notin Nat \ {0} /\ n # 0
    BY <1>5, <2>1
  <2>3. n - 1 \in Nat /\ PowersOf2[n - 1] \in Nat \ {0}
    BY <2>1, <2>2
  <2>4. PowersOf2[(n - 1) + 1] = 2 * PowersOf2[n - 1] /\ (n - 1) + 1 = n
    BY <1>5, <2>2, <2>3
  <2> QED
    BY <2>2, <2>3, <2>4
<1> QED
  BY <1>5, <1>6

\* There is a pause exactly if the last dial failed.
LEMMA PauseAfterFailure ==
    ASSUME Shape, BackoffIsExact
    PROVE  backoff = 0 <=> fails = 0
<1>1. CASE fails = 0
  BY <1>1 DEF BackoffIsExact
<1>2. CASE fails # 0
  <2>1. fails - 1 \in Nat
    BY <1>2 DEF Shape
  <2> DEFINE p == PowersOf2[fails - 1]
  <2>2. p \in Nat \ {0}
    BY <2>1, Powers
  <2> HIDE DEF p
  <2>3. FirstBackoff * p > 0
    BY <2>2, ClientAssumption
  <2>4. backoff = Shorter(FirstBackoff * p, MaxBackoff)
    BY <1>2 DEF BackoffIsExact, p
  <2>5. backoff > 0
    BY <2>3, <2>4, ClientAssumption DEF Shorter
  <2> QED
    BY <1>2, <2>5
<1> QED
  BY <1>1, <1>2

\* One more failed dial doubles the pause, up to the cap.
LEMMA FailureDoubles ==
    ASSUME Shape, BackoffIsExact
    PROVE  Doubled(backoff) = Shorter(FirstBackoff * PowersOf2[(fails + 1) - 1], MaxBackoff)
<1>1. fails \in Nat /\ (fails + 1) - 1 = fails
  BY DEF Shape
<1>2. CASE fails = 0
  BY <1>1, <1>2, Powers, PauseAfterFailure, ClientAssumption DEF Doubled, Shorter
<1>3. CASE fails # 0
  <2>1. fails - 1 \in Nat /\ (fails - 1) + 1 = fails
    BY <1>1, <1>3
  <2> DEFINE p == PowersOf2[fails - 1]
  <2>2. p \in Nat \ {0} /\ PowersOf2[fails] = 2 * p
    BY <2>1, Powers
  <2>3. backoff = Shorter(FirstBackoff * p, MaxBackoff) /\ backoff # 0
    BY <1>3, PauseAfterFailure DEF BackoffIsExact
  <2> HIDE DEF p
  <2> DEFINE d == FirstBackoff * p
  <2>4. d \in Nat /\ FirstBackoff * (2 * p) = 2 * d
    BY <2>2, ClientAssumption
  <2>5. backoff = Shorter(d, MaxBackoff)
    BY <2>3
  <2> HIDE DEF d
  <2>6. Doubled(backoff) = Shorter(2 * d, MaxBackoff)
    BY <2>3, <2>4, <2>5, ClientAssumption DEF Doubled, Shorter
  <2> QED
    BY <1>1, <2>2, <2>4, <2>6
<1> QED
  BY <1>2, <1>3

\* The pause follows the dials; nothing but a dial opens the client's tunnel.
LEMMA PauseStep ==
    ASSUME IInv, BackoffIsExact, [Next]_vars
    PROVE  BackoffIsExact'
<1>0. Shape
  BY DEF IInv
<1>1. ASSUME UNCHANGED <<backoff, fails>>, IsOpen(active)' => IsOpen(active)
      PROVE  BackoffIsExact'
  BY <1>1 DEF BackoffIsExact
<1>2. ASSUME NEW r \in Requests, GuarchDial(r) \/ ZhipDial(r) \/ GroukDial(r)
      PROVE  BackoffIsExact'
  BY <1>2 DEF GuarchDial, ZhipDial, GroukDial, Dialled, BackoffIsExact
<1>3. ASSUME NEW r \in Requests, DialFails(r)
      PROVE  BackoffIsExact'
  <2>1. backoff' = Doubled(backoff) /\ fails' = fails + 1 /\ fails' # 0 /\ active' = active
    BY <1>0, <1>3 DEF DialFails, Shape
  <2>2. backoff' = Shorter(FirstBackoff * PowersOf2[fails' - 1], MaxBackoff)
    BY <1>0, <2>1, FailureDoubles
  <2>3. ~IsOpen(active)'
    <3>1. ~IsOpen(active) /\ active \in 0..Len(tunnels)
      BY <1>0, <1>3 DEF IInv, DialsToReplaceClosed, DialFails, Dialling, Shape
    <3>2. active # 0 => tunnels'[active] = tunnels[active]
      <4>1. CASE UNCHANGED tunnels
        BY <4>1
      <4>2. CASE tunnels' = Append(tunnels, Made("closed", "open"))
        BY <1>0, <3>1, <4>2, MadeType, GrowthAdds DEF Ends, Ids
      <4> QED
        BY <1>3, <4>1, <4>2 DEF DialFails, GuarchAuthCut, ZhipAuthCut, GroukAuthCut, Add
    <3> QED
      BY <2>1, <3>1, <3>2 DEF IsOpen
  <2> QED
    BY <2>1, <2>2, <2>3 DEF BackoffIsExact
<1>4. ASSUME NEW r \in Requests, Drop(r)
      PROVE  BackoffIsExact'
  BY <1>4 DEF Drop, BackoffIsExact, IsOpen
<1>5. ASSUME NEW r \in Requests, UseMux(r)
      PROVE  BackoffIsExact'
  <2>1. backoff' = 0 /\ fails' = fails /\ backoff = 0
    BY <1>5 DEF UseMux, BackoffIsExact
  <2> QED
    BY <1>0, <2>1, PauseAfterFailure DEF BackoffIsExact
<1>6. ASSUME NEW r \in Requests, QuietStep(r), ~UseMux(r)
      PROVE  BackoffIsExact'
  <2>1. UNCHANGED <<backoff, fails, tunnels>> /\ (active' = active \/ active' = 0)
    BY <1>6 DEF QuietStep, Accept, GetMux, GuarchGet, ZhipGet, GroukGet, StartDial, Sleep,
       OpenStream, WriteRequest, ReadStatus, ReadFails, GroukGivesUp
  <2> QED
    BY <1>1, <2>1 DEF IsOpen
<1>7. ASSUME NEW r \in Requests, CountStep(r)
      PROVE  BackoffIsExact'
  <2>1. Shape' /\ EndsWear
    BY <1>0, <1>7, CountShape
  <2>2. UNCHANGED <<backoff, fails, active>>
    BY <1>7 DEF CountStep, ZhipOpen, RelayEnds
  <2> QED
    BY <1>0, <1>1, <2>1, <2>2, WearKeeps
<1>8. CASE WearStep
  <2>1. Shape' /\ EndsWear /\ active' = active
    BY <1>0, <1>8, WearShape
  <2>2. UNCHANGED <<backoff, fails>>
    BY <1>8 DEF WearStep, Break, Spend, PeerCloses, Stall, Resume, Interrupt, Exit
  <2> QED
    BY <1>0, <1>1, <2>1, <2>2, WearKeeps
<1>9. CASE UNCHANGED vars
  BY <1>1, <1>9 DEF vars, IsOpen
<1>10. CASE \E r \in Requests : Request(r)
  BY <1>2, <1>3, <1>4, <1>5, <1>6, <1>7, <1>10 DEF Request, Handle, Exchange, Connect,
     QuietStep, CountStep
<1> QED
  BY <1>8, <1>9, <1>10 DEF Next, WearStep

\* The clients' connectBackoff: the pause doubles with every dial that fails since
\* the last success, up to its cap, whichever requests made the dials; and while the
\* client's tunnel is open no pause is left over.
THEOREM BackoffExact == Spec => []BackoffIsExact
<1>1. Init => BackoffIsExact
  BY DEF Init, BackoffIsExact, IsOpen
<1> QED
  BY <1>1, PauseStep, Invariance, PTL DEF Spec
=============================================================================
