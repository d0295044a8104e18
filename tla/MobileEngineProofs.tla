------------------------ MODULE MobileEngineProofs --------------------------
(***************************************************************************)
(* Proofs about MobileEngine: what the application is told is true as long *)
(* as its calls do not meet an attempt under way, its own rule ensures     *)
(* that, and no listener is ever out of Disconnect's reach.                *)
(***************************************************************************)
EXTENDS MobileEngine, TLAPS

\* Type correctness, in any use of the engine.
THEOREM TypeCorrect == Spec => []TypeOK
<1>1. ASSUME Init
      PROVE  TypeOK
  <2>1. configs \in Seq(Configs) /\ Len(configs) = 0
    BY <1>1 DEF Init
  <2>2. pc \in [Attempts -> Starting \cup {"none", "serve", "ended"}]
    BY <1>1 DEF Init
  <2>3. \A a \in Attempts : pc[a] = "none" <=> a > Len(configs)
    BY <1>1, <2>1, EngineAssumption DEF Init, Attempts
  <2>4. field \in [Protocols -> 0..Len(configs)] /\ listener \in 0..Len(configs)
    BY <1>1, <2>1 DEF Init
  <2>5. use \in Uses /\ status \in Statuses /\ call = "none" /\ overlapped \in BOOLEAN
    BY <1>1 DEF Init, Statuses
  <2>6. cancelled = {} /\ tunnels = {} /\ ports = {}
    BY <1>1 DEF Init
  <2> QED
    BY <2>1, <2>2, <2>3, <2>4, <2>5, <2>6, EngineAssumption DEF TypeOK
<1>2. ASSUME TypeOK, [Next]_vars
      PROVE  TypeOK'
  <2> USE <1>2, EngineAssumption DEF TypeOK, Attempts, Statuses
  <2>1. CASE ConnectCheck
    <3>1. overlapped' \in BOOLEAN
      BY <2>1, Zenon DEF ConnectCheck
    <3> QED
      BY <2>1, <3>1 DEF ConnectCheck, world, engine
  <2>2. ASSUME NEW config \in Configs, ConnectStart(config)
        PROVE  TypeOK'
    <3>1. /\ configs' \in Seq(Configs) /\ Len(configs') = Len(configs) + 1
          /\ pc' = [pc EXCEPT ![Len(configs) + 1] = "dial"]
          /\ Len(configs) + 1 \in 1..MaxConnects
      BY <2>2 DEF ConnectStart
    <3>2. /\ pc' \in [1..MaxConnects -> Starting \cup {"none", "serve", "ended"}]
          /\ \A a \in 1..MaxConnects : pc'[a] = "none" <=> a > Len(configs')
      BY <3>1 DEF Starting
    <3>3. UNCHANGED <<use, cancelled, world, engine, overlapped>>
      BY <2>2 DEF ConnectStart
    <3> QED
      BY <2>2, <3>1, <3>2, <3>3 DEF ConnectStart, world, engine
  <2>3. CASE DisconnectCancel
    <3>1. overlapped' \in BOOLEAN
      BY <2>3, Zenon DEF DisconnectCancel
    <3>2. /\ UNCHANGED <<use, configs, pc, world, engine>>
          /\ status' = "disconnecting" /\ call' = "close"
          /\ cancelled' = cancelled \cup ({Len(configs)} \ {0})
      BY <2>3 DEF DisconnectCancel
    <3>3. Len(configs) \in Nat /\ cancelled \subseteq 1..Len(configs)
      OBVIOUS
    <3>4. ({Len(configs)} \ {0}) \subseteq 1..Len(configs)
      BY <3>3
    <3>5. cancelled' \subseteq 1..Len(configs)
      BY <3>2, <3>3, <3>4
    <3> QED
      BY <3>1, <3>2, <3>5 DEF world, engine
  <2>4. CASE DisconnectClose \/ DisconnectDone
    <3>1. /\ UNCHANGED <<use, configs, cancelled, pc, overlapped>>
          /\ status' \in Statuses /\ call' \in {"none", "finish"}
          /\ tunnels' \subseteq tunnels /\ ports' \subseteq ports
          /\ listener' \in {0, listener}
      BY <2>4 DEF DisconnectClose, DisconnectDone, world, engine
    <3>2. field' \in [Protocols -> 0..Len(configs)]
      BY <2>4 DEF DisconnectClose, DisconnectDone, world, engine
    <3> QED
      BY <3>1, <3>2
  <2>5. ASSUME NEW a \in Attempts, Attempt(a) \/ ServeEnds(a)
        PROVE  TypeOK'
    <3>1. /\ pc[a] \notin {"none", "ended"} /\ a \in 1..Len(configs)
          /\ UNCHANGED <<use, configs, cancelled, overlapped>>
          /\ \E to \in Starting \cup {"serve", "ended"} : pc' = [pc EXCEPT ![a] = to]
      BY <2>5 DEF Attempt, Dial, Auth, DialFails, Store, Listen, ListenFails, Register,
           Announce, Report, ServeEnds, Goto, Starting
    <3>2. /\ pc' \in [1..MaxConnects -> Starting \cup {"none", "serve", "ended"}]
          /\ \A b \in 1..MaxConnects : pc'[b] = "none" <=> b > Len(configs')
      BY <3>1 DEF Starting
    <3>3. /\ status' \in {status, "connected", "disconnected"} /\ call' = call
          /\ tunnels' \subseteq tunnels \cup {a} /\ ports' \subseteq ports \cup {a}
          /\ listener' \in {listener, a}
      BY <2>5 DEF Attempt, Dial, Auth, DialFails, Store, Listen, ListenFails, Register,
           Announce, Report, ServeEnds, world, engine
    <3>4. field' = field \/ field' = [field EXCEPT ![configs[a].protocol] = a]
      BY <2>5 DEF Attempt, Dial, Auth, DialFails, Store, Listen, ListenFails, Register,
           Announce, Report, ServeEnds, world, engine
    <3>5. field' \in [Protocols -> 0..Len(configs)]
      BY <3>1, <3>4, SMTT(30)
    <3> QED
      BY <3>1, <3>2, <3>3, <3>5
  <2>6. CASE UNCHANGED vars
    BY <2>6 DEF vars, world, engine
  <2> QED
    BY <2>1, <2>2, <2>3, <2>4, <2>5, <2>6 DEF Next, Connect, Disconnect
<1> QED
  BY <1>1, <1>2, PTL DEF Spec
---------------------------------------------------------------------------
(* What holds as long as no call met an attempt under way.  Attempts then  *)
(* follow each other: all but the last have ended, or serve with nothing   *)
(* to serve; and what the last one holds depends on how far it is.         *)

Last == Len(configs)

Quiet(a) == pc[a] \in {"none", "ended"} \/ (pc[a] = "serve" /\ a \in cancelled)

AllQuiet == \A a \in Attempts : Quiet(a)

\* The last attempt's tunnel is the one Disconnect would close.
Stored == field[configs[Last].protocol] = Last

Trying ==
    /\ Last \in Attempts /\ Last \notin cancelled /\ pc[Last] \in Starting
    /\ ports = IF pc[Last] \in {"register", "announce"} THEN {Last} ELSE {}
    /\ pc[Last] \in {"listen", "register", "announce"} => Stored
    /\ pc[Last] = "announce" => listener = Last

Serving ==
    /\ Last \in Attempts /\ Last \notin cancelled /\ pc[Last] = "serve"
    /\ ports = {Last} /\ listener = Last /\ Stored

StatusInv ==
    /\ \A a \in Attempts \ {Last} : Quiet(a)
    /\ call = "none" =>
          \/ status = "disconnected" /\ AllQuiet /\ ports = {}
          \/ status = "connecting" /\ Trying
          \/ status = "connected" /\ Serving
    /\ call \in {"connect", "finish"} => AllQuiet /\ ports = {}
    /\ call = "connect" => status = "disconnected"
    /\ call = "close" => AllQuiet /\ ports \subseteq {listener}

TunnelInv ==
    /\ \A a \in tunnels \ {Last} : pc[a] = "ended" /\ a \notin cancelled
    /\ Last \in tunnels => pc[Last] = "store" \/ Stored
    /\ Last \in tunnels \cap cancelled => call = "close"

CalmInv == ~overlapped => StatusInv /\ TunnelInv

\* With one address, the open listener is in the engine's field or about to be.
PortInv ==
    (\A x, y \in Addresses : x = y) =>
        /\ \A a \in Attempts : pc[a] = "register" => a \in ports
        /\ \A a \in ports : listener = a \/ pc[a] = "register"
        /\ listener # 0 => pc[listener] \in {"announce", "serve", "ended"}
        /\ \A a, b \in ports : a = b
---------------------------------------------------------------------------
\* Tunnels and listeners belong to attempts.
LEMMA HoldersAreAttempts ==
    ASSUME TypeOK
    PROVE  tunnels \subseteq Attempts /\ ports \subseteq Attempts
<1>1. Len(configs) \in Nat /\ Len(configs) <= MaxConnects /\ MaxConnects \in Nat
  BY EngineAssumption DEF TypeOK
<1>2. 1..Len(configs) \subseteq 1..MaxConnects
  BY <1>1
<1> QED
  BY <1>2 DEF TypeOK, Attempts

\* While no call has met an attempt, an attempt that moves on is the last one,
\* no call is running, and the application was told "connecting".
LEMMA OnlyLastMoves ==
    ASSUME TypeOK, StatusInv, NEW a \in Attempts, pc[a] \in Starting
    PROVE  a = Last /\ call = "none" /\ status = "connecting" /\ Trying
<1>1. ~Quiet(a)
  BY DEF Quiet, Starting
<1> QED
  BY <1>1 DEF StatusInv, AllQuiet, TypeOK, Serving, Starting

\* A call that does not meet an attempt finds all of them quiet, or the last
\* one serving.
LEMMA CallsFindQuiet ==
    ASSUME TypeOK, StatusInv, call = "none", UnderWay = {}
    PROVE  \/ status = "disconnected" /\ AllQuiet /\ ports = {}
           \/ status = "connected" /\ Serving
  BY DEF StatusInv, Trying, UnderWay

\* Every step of the engine keeps the calm invariant.
LEMMA CalmStep ==
    ASSUME TypeOK, TypeOK', CalmInv, [Next]_vars, ~overlapped'
    PROVE  StatusInv' /\ TunnelInv'
<1>1. CASE ConnectCheck
  <2>1. ~overlapped /\ UnderWay = {}
    BY <1>1, Zenon DEF ConnectCheck
  <2>2. StatusInv /\ TunnelInv
    BY <2>1 DEF CalmInv
  <2>3. status = "disconnected" /\ AllQuiet /\ ports = {}
    BY <1>1, <2>1, <2>2, CallsFindQuiet DEF ConnectCheck
  <2>4. /\ call = "none" /\ call' = "connect"
        /\ UNCHANGED <<status, configs, cancelled, pc, tunnels, ports, field, listener>>
    BY <1>1 DEF ConnectCheck, world, engine
  <2>5. StatusInv'
    BY <2>2, <2>3, <2>4 DEF StatusInv, AllQuiet, Quiet, Last
  <2>6. TunnelInv'
    BY <2>2, <2>4 DEF TunnelInv, Last, Stored
  <2> QED
    BY <2>5, <2>6
<1>2. ASSUME NEW config \in Configs, ConnectStart(config)
      PROVE  StatusInv' /\ TunnelInv'
  <2>1. /\ StatusInv /\ TunnelInv
        /\ call = "connect" /\ call' = "none" /\ status' = "connecting"
        /\ AllQuiet /\ ports = {}
        /\ UNCHANGED <<cancelled, tunnels, ports, field, listener>>
    BY <1>2 DEF ConnectStart, CalmInv, StatusInv, world, engine
  <2>2. /\ Last \in Nat /\ Last' = Last + 1 /\ Last' \in Attempts
        /\ pc' = [pc EXCEPT ![Last'] = "dial"]
    BY <1>2 DEF ConnectStart, Last, TypeOK, Attempts
  <2>3. Last' \notin cancelled /\ Last' \notin tunnels
    BY <2>2 DEF TypeOK, Last
  <2>4. pc'[Last'] = "dial" /\ \A a \in Attempts \ {Last'} : pc'[a] = pc[a]
    BY <2>2 DEF TypeOK
  <2>5. StatusInv'
    BY <2>1, <2>2, <2>3, <2>4 DEF StatusInv, AllQuiet, Quiet, Trying, Starting
  <2>6. \A a \in tunnels : pc[a] = "ended" /\ a \notin cancelled
    <3>1. Last \in tunnels => Last \in Attempts /\ Last \notin cancelled
      BY <2>1 DEF TunnelInv, TypeOK, Attempts, Last
    <3>2. Last \in tunnels => pc[Last] = "ended"
      BY <2>1, <3>1 DEF AllQuiet, Quiet, TypeOK, Last, Attempts
    <3> QED
      BY <2>1, <3>1, <3>2 DEF TunnelInv
  <2>7. tunnels \subseteq Attempts
    BY HoldersAreAttempts
  <2>8. \A a \in tunnels' : pc'[a] = "ended" /\ a \notin cancelled'
    BY <2>1, <2>3, <2>4, <2>6, <2>7
  <2>9. TunnelInv'
    BY <2>1, <2>3, <2>8 DEF TunnelInv
  <2> QED
    BY <2>5, <2>9
<1>3. CASE DisconnectCancel
  <2>1. ~overlapped /\ UnderWay = {}
    BY <1>3, Zenon DEF DisconnectCancel
  <2>2. StatusInv /\ TunnelInv
    BY <2>1 DEF CalmInv
  <2>3. /\ call = "none" /\ call' = "close"
        /\ cancelled' = cancelled \cup ({Last} \ {0})
        /\ UNCHANGED <<configs, pc, tunnels, ports, field, listener>>
    BY <1>3 DEF DisconnectCancel, world, engine, Last
  <2>4. \/ AllQuiet /\ ports = {}
        \/ Serving
    BY <2>1, <2>2, <2>3, CallsFindQuiet
  <2>5. AllQuiet' /\ ports' \subseteq {listener'}
    BY <2>2, <2>3, <2>4 DEF AllQuiet, Quiet, Serving, StatusInv, Attempts
  <2>6. StatusInv'
    BY <2>2, <2>3, <2>5 DEF StatusInv, AllQuiet
  <2>7. TunnelInv'
    BY <2>2, <2>3 DEF TunnelInv, Last, Stored
  <2> QED
    BY <2>6, <2>7
<1>4. CASE DisconnectClose
  <2>1. /\ StatusInv /\ TunnelInv /\ call = "close" /\ call' = "finish"
        /\ ports' = ports \ {listener}
        /\ tunnels' = tunnels \ {field[p] : p \in Protocols}
        /\ UNCHANGED <<configs, cancelled, pc>>
    BY <1>4 DEF DisconnectClose, CalmInv
  <2>2. AllQuiet' /\ ports' = {}
    BY <2>1 DEF StatusInv, AllQuiet, Quiet
  <2>3. StatusInv'
    BY <2>1, <2>2 DEF StatusInv, AllQuiet
  <2>4. Last \notin tunnels'
    <3>1. ASSUME Last \in tunnels
          PROVE  configs[Last].protocol \in Protocols /\ Last \in Attempts
      <4>1. Last \in 1..Len(configs) /\ Last \in Attempts
        BY <3>1 DEF TypeOK, Last, Attempts
      <4>2. configs[Last] \in Configs
        BY <4>1 DEF TypeOK
      <4> QED
        BY <4>1, <4>2 DEF Configs
    <3>2. Last \in tunnels => pc[Last] # "store"
      BY <2>1, <3>1 DEF StatusInv, AllQuiet, Quiet
    <3>3. Last \in tunnels => Last \in {field[p] : p \in Protocols}
      BY <2>1, <3>1, <3>2 DEF TunnelInv, Stored
    <3> QED
      BY <2>1, <3>3
  <2>5. TunnelInv'
    BY <2>1, <2>4 DEF TunnelInv, Last
  <2> QED
    BY <2>3, <2>5
<1>5. CASE DisconnectDone
  <2>1. /\ StatusInv /\ TunnelInv /\ call = "finish" /\ call' = "none"
        /\ status' = "disconnected"
        /\ UNCHANGED <<configs, cancelled, pc, tunnels, ports, field, listener>>
    BY <1>5 DEF DisconnectDone, CalmInv, world, engine
  <2>2. StatusInv'
    BY <2>1 DEF StatusInv, AllQuiet, Quiet, Last
  <2>3. TunnelInv'
    BY <2>1 DEF TunnelInv, Last, Stored
  <2> QED
    BY <2>2, <2>3
<1>6. ASSUME NEW a \in Attempts, Attempt(a)
      PROVE  StatusInv' /\ TunnelInv'
  <2>1. /\ pc[a] \in Starting
        /\ UNCHANGED <<configs, cancelled, overlapped, call>>
        /\ \E to \in Starting \cup {"serve", "ended"} : pc' = [pc EXCEPT ![a] = to]
    BY <1>6 DEF Attempt, Dial, Auth, DialFails, Store, Listen, ListenFails, Register,
         Announce, Report, Goto, Starting
  <2>2. StatusInv /\ TunnelInv
    BY <2>1 DEF CalmInv
  <2>3. a = Last /\ call = "none" /\ status = "connecting" /\ Trying
    BY <2>1, <2>2, OnlyLastMoves
  <2>4. /\ Last' = Last /\ call' = "none"
        /\ \A b \in Attempts \ {Last} : pc'[b] = pc[b]
    BY <2>1, <2>3 DEF Last, TypeOK
  <2>5. \A b \in Attempts \ {Last} : Quiet(b)'
    BY <2>1, <2>2, <2>4 DEF StatusInv, Quiet
  <2>6. configs[Last].protocol \in Protocols
    <3>1. Last \in 1..Len(configs)
      BY <2>3 DEF Trying, TypeOK, Last, Attempts
    <3>2. configs[Last] \in Configs
      BY <3>1 DEF TypeOK
    <3> QED
      BY <3>2 DEF Configs
  <2> USE DEF Goto, world, engine
  <2>7. \/ status' = "connecting" /\ Trying'
        \/ status' = "connected" /\ Serving'
        \/ status' = "disconnected" /\ pc'[Last] = "ended" /\ ports' = {}
    <3>1. CASE Dial(a) \/ Auth(a) \/ DialFails(a)
      <4>1. /\ pc'[Last] \in {"auth", "store", "report"}
            /\ pc[Last] \in {"dial", "auth"}
            /\ UNCHANGED <<status, ports>>
        BY <2>3, <3>1 DEF Dial, Auth, DialFails, TypeOK
      <4> QED
        BY <2>1, <2>3, <2>4, <4>1 DEF Trying, Starting
    <3>2. CASE Store(a)
      <4>1. /\ pc[Last] = "store" /\ pc'[Last] = "listen" /\ UNCHANGED <<status, ports>>
            /\ field' = [field EXCEPT ![configs[Last].protocol] = Last]
        BY <2>3, <3>2 DEF Store, TypeOK
      <4>2. Stored'
        BY <2>1, <2>4, <2>6, <4>1 DEF Stored, TypeOK
      <4> QED
        BY <2>1, <2>3, <2>4, <4>1, <4>2 DEF Trying, Starting
    <3>3. CASE Listen(a)
      <4>1. /\ pc[Last] = "listen" /\ pc'[Last] = "register" /\ UNCHANGED <<status, field>>
            /\ ports' = ports \cup {Last}
        BY <2>3, <3>3 DEF Listen, TypeOK
      <4> QED
        BY <2>1, <2>3, <2>4, <4>1 DEF Trying, Starting, Stored
    <3>4. CASE ListenFails(a)
      <4>1. pc[Last] = "listen" /\ pc'[Last] = "report" /\ UNCHANGED <<status, ports>>
        BY <2>3, <3>4 DEF ListenFails, TypeOK
      <4> QED
        BY <2>1, <2>3, <2>4, <4>1 DEF Trying, Starting
    <3>5. CASE Register(a)
      <4>1. /\ pc[Last] = "register" /\ pc'[Last] = "announce"
            /\ listener' = Last /\ UNCHANGED <<status, ports, field>>
        BY <2>3, <3>5 DEF Register, TypeOK
      <4> QED
        BY <2>1, <2>3, <2>4, <4>1 DEF Trying, Starting, Stored
    <3>6. CASE Announce(a)
      <4>1. /\ pc[Last] = "announce" /\ pc'[Last] = "serve" /\ status' = "connected"
            /\ UNCHANGED <<ports, field, listener>>
        BY <2>3, <3>6 DEF Announce, TypeOK
      <4> QED
        BY <2>1, <2>3, <2>4, <4>1 DEF Trying, Serving, Stored
    <3>7. CASE Report(a)
      <4>1. /\ pc[Last] = "report" /\ pc'[Last] = "ended" /\ status' = "disconnected"
            /\ UNCHANGED ports
        BY <2>3, <3>7 DEF Report, TypeOK
      <4> QED
        BY <2>3, <4>1 DEF Trying
    <3> QED
      BY <1>6, <3>1, <3>2, <3>3, <3>4, <3>5, <3>6, <3>7 DEF Attempt
  <2>8. StatusInv'
    <3>1. pc'[Last] = "ended" => AllQuiet'
      BY <2>5 DEF AllQuiet, Quiet
    <3> QED
      BY <2>4, <2>5, <2>7, <3>1 DEF StatusInv
  <2>9. tunnels' \ {Last} \subseteq tunnels \ {Last} /\ cancelled' = cancelled
    BY <1>6, <2>3 DEF Attempt, Dial, Auth, DialFails, Store, Listen, ListenFails, Register,
         Announce, Report
  <2>10. \A b \in tunnels' \ {Last'} : pc'[b] = "ended" /\ b \notin cancelled'
    <3>1. tunnels \subseteq Attempts
      BY HoldersAreAttempts
    <3> QED
      BY <2>2, <2>4, <2>9, <3>1 DEF TunnelInv
  <2>11. Last \in tunnels' => pc'[Last] = "store" \/ Stored'
    <3>1. CASE Auth(a)
      BY <2>3, <3>1 DEF Auth, TypeOK
    <3>2. CASE Store(a)
      BY <2>1, <2>3, <2>4, <2>6, <3>2 DEF Store, Stored, TypeOK
    <3>3. CASE ~Auth(a) /\ ~Store(a)
      <4>1. UNCHANGED <<tunnels, field>> /\ pc[Last] # "store"
        BY <1>6, <2>3, <3>3 DEF Attempt, Dial, DialFails, Listen, ListenFails, Register,
             Announce, Report
      <4> QED
        BY <2>1, <2>2, <2>4, <4>1 DEF TunnelInv, Stored
    <3> QED
      BY <3>1, <3>2, <3>3
  <2>12. TunnelInv'
    BY <2>3, <2>4, <2>9, <2>10, <2>11 DEF TunnelInv, Trying
  <2> QED
    BY <2>8, <2>12
<1>7. ASSUME NEW a \in Attempts, ServeEnds(a)
      PROVE  StatusInv' /\ TunnelInv'
  <2>1. /\ pc[a] = "serve" /\ a \in cancelled /\ pc' = [pc EXCEPT ![a] = "ended"]
        /\ UNCHANGED <<status, call, configs, cancelled, overlapped, tunnels, ports, field, listener>>
        /\ StatusInv /\ TunnelInv
    BY <1>7 DEF ServeEnds, Goto, world, engine, CalmInv
  <2>2. \A b \in Attempts : pc'[b] = IF b = a THEN "ended" ELSE pc[b]
    BY <2>1 DEF TypeOK
  <2>3. StatusInv'
    BY <2>1, <2>2 DEF StatusInv, AllQuiet, Quiet, Trying, Serving, Stored, Starting, Last
  <2>4. TunnelInv'
    BY <2>1, <2>2 DEF TunnelInv, Stored, Last, TypeOK, Attempts
  <2> QED
    BY <2>3, <2>4
<1>8. CASE UNCHANGED vars
  <2>1. StatusInv /\ TunnelInv
    BY <1>8 DEF vars, CalmInv
  <2> QED
    BY <1>8, <2>1 DEF vars, world, engine, StatusInv, TunnelInv, AllQuiet, Quiet, Trying,
         Serving, Stored, Last
<1> QED
  BY <1>1, <1>2, <1>3, <1>4, <1>5, <1>6, <1>7, <1>8 DEF Next, Connect, Disconnect
---------------------------------------------------------------------------
\* The calm invariant holds throughout.
THEOREM Calm == Spec => [](TypeOK /\ CalmInv)
<1>1. Init => CalmInv
  <2>1. ASSUME Init
        PROVE  StatusInv /\ TunnelInv
    BY <2>1 DEF Init, StatusInv, TunnelInv, AllQuiet, Quiet
  <2> QED
    BY <2>1 DEF CalmInv
<1>2. TypeOK /\ TypeOK' /\ CalmInv /\ [Next]_vars => CalmInv'
  BY CalmStep DEF CalmInv
<1> QED
  BY <1>1, <1>2, TypeCorrect, PTL DEF Spec

\* As long as no call is made during an attempt, what the application was last
\* told is true.
THEOREM StatusTrue == Spec => []StatusIsTrue
<1>1. TypeOK /\ CalmInv => StatusIsTrue
  <2> SUFFICES ASSUME TypeOK, StatusInv, call = "none"
               PROVE  LET last == Len(configs)
                      IN  /\ status # "disconnecting"
                          /\ status = "connected" =>
                                /\ pc[last] = "serve" /\ last \in ports \ cancelled
                                /\ listener = last /\ field[configs[last].protocol] = last
                                /\ UnderWay = {}
                          /\ status = "connecting" => UnderWay = {last} /\ last \notin cancelled
                          /\ status = "disconnected" => UnderWay = {} /\ ports = {}
    BY DEF CalmInv, StatusIsTrue
  <2>1. AllQuiet => UnderWay = {}
    BY DEF AllQuiet, Quiet, UnderWay, Starting
  <2>2. Serving => UnderWay = {}
    BY DEF StatusInv, Serving, Quiet, UnderWay, Starting
  <2>3. Trying => UnderWay = {Last}
    BY DEF StatusInv, Trying, Quiet, UnderWay, Starting
  <2> QED
    BY <2>1, <2>2, <2>3 DEF StatusInv, Trying, Serving, Stored, Last
<1> QED
  BY <1>1, Calm, PTL

\* The application's rule keeps its calls away from attempts under way.
THEOREM AppIsCalm == Spec => []AppNeverOverlaps
<1>1. Init => AppNeverOverlaps
  BY DEF Init, AppNeverOverlaps
<1>2. TypeOK /\ CalmInv /\ AppNeverOverlaps /\ [Next]_vars => AppNeverOverlaps'
  <2> SUFFICES ASSUME TypeOK, CalmInv, AppNeverOverlaps, [Next]_vars, use' = "app"
               PROVE  ~overlapped'
    BY DEF AppNeverOverlaps
  <2>1. use' = use
    BY DEF Next, ConnectCheck, Connect, ConnectStart, DisconnectCancel, Disconnect,
         DisconnectClose, DisconnectDone, Attempt, Dial, Auth, DialFails, Store, Listen,
         ListenFails, Register, Announce, Report, ServeEnds, Goto, vars
  <2>2. use = "app" /\ ~overlapped /\ StatusInv
    BY <2>1 DEF AppNeverOverlaps, CalmInv
  <2>3. CASE ConnectCheck
    <3>1. AllQuiet
      BY <2>2, <2>3 DEF ConnectCheck, StatusInv
    <3>2. UnderWay = {}
      BY <3>1 DEF AllQuiet, Quiet, UnderWay, Starting
    <3> QED
      BY <2>2, <2>3, <3>2, Zenon DEF ConnectCheck
  <2>4. CASE DisconnectCancel
    <3>1. Serving
      BY <2>2, <2>4 DEF DisconnectCancel, Offered, StatusInv
    <3>2. UnderWay = {}
      BY <2>2, <3>1 DEF StatusInv, Serving, Quiet, UnderWay, Starting
    <3> QED
      BY <2>2, <2>4, <3>2, Zenon DEF DisconnectCancel
  <2>5. CASE ~ConnectCheck /\ ~DisconnectCancel
    BY <2>2, <2>5 DEF Next, Connect, ConnectStart, Disconnect,
         DisconnectClose, DisconnectDone, Attempt, Dial, Auth, DialFails, Store, Listen,
         ListenFails, Register, Announce, Report, ServeEnds, Goto, vars
  <2> QED
    BY <2>3, <2>4, <2>5
<1> QED
  BY <1>1, <1>2, Calm, PTL DEF Spec

\* As long as no call is made during an attempt, Disconnect closes every tunnel
\* that has served.
THEOREM TunnelsClosed == Spec => []ServedIsClosed
<1>1. TypeOK /\ CalmInv => ServedIsClosed
  BY DEF CalmInv, TunnelInv, ServedIsClosed, Stored, Last
<1> QED
  BY <1>1, Calm, PTL
---------------------------------------------------------------------------
\* An open listener is never forgotten: always if there is one address to
\* listen on, and with several as long as no call is made during an attempt.
THEOREM ListenersKept == Spec => []ListenerReachable
<1>1. Init => PortInv
  BY DEF Init, PortInv
<1>2. TypeOK /\ TypeOK' /\ PortInv /\ [Next]_vars => PortInv'
  <2> SUFFICES ASSUME TypeOK, TypeOK', PortInv, [Next]_vars, \A x, y \in Addresses : x = y
               PROVE  PortInv'
    BY DEF PortInv
  <2> USE DEF PortInv, world, engine
  <2>1. CASE ConnectCheck \/ DisconnectCancel \/ DisconnectDone \/ UNCHANGED vars
    BY <2>1 DEF ConnectCheck, DisconnectCancel, DisconnectDone, vars
  <2>2. ASSUME NEW config \in Configs, ConnectStart(config)
        PROVE  PortInv'
    <3>1. /\ UNCHANGED <<ports, listener>>
          /\ \A b \in Attempts : pc'[b] = pc[b] \/ (pc[b] = "none" /\ pc'[b] = "dial")
      BY <2>2 DEF ConnectStart, TypeOK, Attempts
    <3>2. ports \subseteq Attempts /\ (listener # 0 => listener \in Attempts)
      BY HoldersAreAttempts, EngineAssumption DEF TypeOK, Attempts
    <3> QED
      BY <3>1, <3>2
  <2>3. CASE DisconnectClose
    <3>1. /\ ports' = ports \ {listener} /\ listener' = 0 /\ pc' = pc
          /\ ports \subseteq Attempts
      BY <2>3, HoldersAreAttempts DEF DisconnectClose
    <3>2. \A b \in Attempts : pc[b] = "register" => b # listener
      BY EngineAssumption DEF Attempts
    <3> QED
      BY <3>1, <3>2
  <2>4. ASSUME NEW a \in Attempts, Listen(a)
        PROVE  PortInv'
    <3>1. /\ pc[a] = "listen" /\ pc' = [pc EXCEPT ![a] = "register"]
          /\ ~InUse(configs[a].address) /\ ports' = ports \cup {a} /\ listener' = listener
      BY <2>4 DEF Listen, Goto
    <3>2. ports = {}
      <4>1. a \in 1..Len(configs)
        BY <3>1 DEF TypeOK, Attempts
      <4>2. ASSUME NEW b \in ports
            PROVE  InUse(configs[a].address)
        <5>1. configs[a] \in Configs /\ configs[b] \in Configs
          BY <4>1 DEF TypeOK
        <5> QED
          BY <5>1 DEF Configs, InUse
      <4> QED
        BY <3>1, <4>2
    <3>3. listener # a
      BY <3>1, EngineAssumption DEF Attempts
    <3>4. /\ pc'[a] = "register"
          /\ \A b \in Attempts \ {a} : pc'[b] = pc[b] /\ pc[b] # "register"
      BY <3>1, <3>2 DEF TypeOK
    <3>5. listener # 0 => listener \in Attempts
      BY EngineAssumption DEF TypeOK, Attempts
    <3> QED
      BY <3>1, <3>2, <3>3, <3>4, <3>5
  <2>5. ASSUME NEW a \in Attempts, Register(a)
        PROVE  PortInv'
    BY <2>5 DEF Register, Goto, TypeOK
  <2>6. ASSUME NEW a \in Attempts, (Attempt(a) /\ ~Listen(a) /\ ~Register(a)) \/ ServeEnds(a)
        PROVE  PortInv'
    <3>1. /\ UNCHANGED <<ports, listener>> /\ pc[a] # "register"
          /\ \E to \in (Starting \ {"register"}) \cup {"serve", "ended"} :
                pc' = [pc EXCEPT ![a] = to]
      BY <2>6 DEF Attempt, Dial, Auth, DialFails, Store, ListenFails, Announce, Report,
           ServeEnds, Goto, Starting
    <3>2. \A b : b \in Attempts => (pc'[b] = "register" <=> pc[b] = "register")
      BY <3>1 DEF TypeOK, Starting
    <3>3. ports \subseteq Attempts /\ (listener # 0 => listener \in Attempts)
      BY HoldersAreAttempts, EngineAssumption DEF TypeOK, Attempts
    <3>4. \A b \in Attempts :
             pc[b] \in {"announce", "serve", "ended"} => pc'[b] \in {"announce", "serve", "ended"}
      BY <2>6 DEF Attempt, Dial, Auth, DialFails, Store, ListenFails, Announce, Report,
           ServeEnds, Goto, TypeOK
    <3> QED
      BY <3>1, <3>2, <3>3, <3>4
  <2> QED
    BY <2>1, <2>2, <2>3, <2>4, <2>5, <2>6 DEF Next, Connect, Disconnect
<1>3. TypeOK /\ CalmInv /\ PortInv => ListenerReachable
  <2> SUFFICES ASSUME TypeOK, StatusInv, NEW a \in ports
               PROVE  listener = a \/ pc[a] = "register"
    BY DEF CalmInv, PortInv, ListenerReachable
  <2>1. CASE call \in {"connect", "finish"} \/ call = "close"
    BY <2>1 DEF StatusInv
  <2>2. CASE call = "none"
    BY <2>2 DEF StatusInv, Trying, Serving
  <2> QED
    BY <2>1, <2>2 DEF TypeOK
<1> QED
  BY <1>1, <1>2, <1>3, Calm, PTL DEF Spec
===========================================================================
