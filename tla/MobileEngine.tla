---------------------------- MODULE MobileEngine ----------------------------
(***************************************************************************)
(* The engine behind the mobile application (mobile/mobile.go).  The       *)
(* application calls Connect and Disconnect, which hold e.mu; Connect      *)
(* starts a goroutine that dials, stores its tunnel and its listener in    *)
(* the engine's fields, reports "connected" and serves.  That goroutine    *)
(* reports its status without the lock and, but for Zhip's dial, looks at  *)
(* its context only once it serves, so calls and attempts may overlap.     *)
(*                                                                         *)
(* An attempt is the number of its Connect.  The streams inside a tunnel   *)
(* are module Mux.  That a tunnel breaks is left out: nothing here reads   *)
(* it, the engine goes on to say "connected".                              *)
(***************************************************************************)
EXTENDS Naturals, Sequences

CONSTANTS
    Protocols,    \* each has a field of the engine for its tunnel
    ContextDial,  \* the protocols whose dial ends when its context does
    Addresses,    \* of the local SOCKS5 listener
    Uses,         \* how the engine may be called: by the "app", in "any" order
    MaxConnects   \* bound on the calls of Connect

ASSUME EngineAssumption ==
    /\ ContextDial \subseteq Protocols
    /\ Uses \subseteq {"app", "any"}
    /\ MaxConnects \in Nat

Attempts == 1..MaxConnects
Configs == [protocol : Protocols, address : Addresses]

VARIABLES
    use,        \* of this behaviour
    status,     \* e.status, which every change also tells the application
    call,       \* what the holder of e.mu is doing
    configs,    \* configs[a]: connectConfig of attempt a; e.cancel is the last one's
    cancelled,  \* attempts whose context is cancelled
    pc,         \* pc[a]: where the goroutine of attempt a is
    tunnels,    \* attempts whose tunnel is open
    ports,      \* attempts whose listening socket is open
    field,      \* field[p]: e.muxConn, e.groukSession, e.zhipConn, 0 for nil
    listener,   \* e.listener
    overlapped  \* history: a call was made while an attempt was under way

engine == <<field, listener>>
world == <<tunnels, ports>>
vars == <<use, status, call, configs, cancelled, pc, world, engine, overlapped>>

Statuses == {"disconnected", "connecting", "connected", "disconnecting"}
Starting == {"dial", "auth", "store", "listen", "register", "announce", "report"}

UnderWay == {a \in Attempts : pc[a] \in Starting}

Init ==
    /\ use \in Uses
    /\ status = "disconnected" /\ call = "none"
    /\ configs = <<>> /\ cancelled = {}
    /\ pc = [a \in Attempts |-> "none"]
    /\ tunnels = {} /\ ports = {}
    /\ field = [p \in Protocols |-> 0] /\ listener = 0
    /\ overlapped = FALSE
---------------------------------------------------------------------------
(* The application's calls. *)

\* Mutant: an engine that is connecting is not seen to be busy.
ConnectCheckConnected ==
    /\ call = "none" /\ status # "connected"
    /\ Len(configs) < MaxConnects
    /\ call' = "connect"
    /\ overlapped' = (overlapped \/ UnderWay # {})
    /\ UNCHANGED <<use, status, configs, cancelled, pc, world, engine>>

\* Mutant: Connect does not look at the status.
ConnectCheckNothing ==
    /\ call = "none"
    /\ Len(configs) < MaxConnects
    /\ call' = "connect"
    /\ overlapped' = (overlapped \/ UnderWay # {})
    /\ UNCHANGED <<use, status, configs, cancelled, pc, world, engine>>

\* Connect finds the engine neither connected nor connecting.
ConnectCheck ==
    /\ call = "none" /\ status \notin {"connected", "connecting"}
    /\ Len(configs) < MaxConnects
    /\ call' = "connect"
    /\ overlapped' = (overlapped \/ UnderWay # {})
    /\ UNCHANGED <<use, status, configs, cancelled, pc, world, engine>>

\* It makes a context, whose cancel function replaces the last one, and starts
\* the goroutine.
ConnectStart(config) ==
    /\ call = "connect" /\ call' = "none"
    /\ status' = "connecting"
    /\ configs' = Append(configs, config)
    /\ pc' = [pc EXCEPT ![Len(configs) + 1] = "dial"]
    /\ UNCHANGED <<use, cancelled, world, engine, overlapped>>

\* The application offers Disconnect only when it is told "connected".
Offered == use = "app" => status = "connected"

\* Mutant: the context is not cancelled.
DisconnectForgetsCancel ==
    /\ call = "none" /\ Offered
    /\ call' = "close"
    /\ status' = "disconnecting"
    /\ overlapped' = (overlapped \/ UnderWay # {})
    /\ UNCHANGED <<use, configs, cancelled, pc, world, engine>>

\* Disconnect cancels the last attempt.
DisconnectCancel ==
    /\ call = "none" /\ Offered
    /\ call' = "close"
    /\ status' = "disconnecting"
    /\ cancelled' = cancelled \cup ({Len(configs)} \ {0})
    /\ overlapped' = (overlapped \/ UnderWay # {})
    /\ UNCHANGED <<use, configs, pc, world, engine>>

\* Mutant: the tunnels are forgotten and left open.
DisconnectForgetsTunnels ==
    /\ call = "close" /\ call' = "finish"
    /\ ports' = ports \ {listener} /\ listener' = 0
    /\ field' = [p \in Protocols |-> 0]
    /\ UNCHANGED <<use, status, configs, cancelled, pc, tunnels, overlapped>>

\* Mutant: the listener is forgotten and left open.
DisconnectForgetsListener ==
    /\ call = "close" /\ call' = "finish"
    /\ listener' = 0
    /\ tunnels' = tunnels \ {field[p] : p \in Protocols}
    /\ field' = [p \in Protocols |-> 0]
    /\ UNCHANGED <<use, status, configs, cancelled, pc, ports, overlapped>>

\* It closes and forgets whatever the fields hold.
DisconnectClose ==
    /\ call = "close" /\ call' = "finish"
    /\ ports' = ports \ {listener} /\ listener' = 0
    /\ tunnels' = tunnels \ {field[p] : p \in Protocols}
    /\ field' = [p \in Protocols |-> 0]
    /\ UNCHANGED <<use, status, configs, cancelled, pc, overlapped>>

DisconnectDone ==
    /\ call = "finish" /\ call' = "none"
    /\ status' = "disconnected"
    /\ UNCHANGED <<use, configs, cancelled, pc, world, engine, overlapped>>
---------------------------------------------------------------------------
(* The goroutine of an attempt: connectAsync, the protocol's connect, and  *)
(* startSOCKS.                                                             *)

Goto(a, from, to) ==
    /\ pc[a] = from /\ pc' = [pc EXCEPT ![a] = to]
    /\ UNCHANGED <<use, configs, cancelled, overlapped>>

\* The server is reached.
Dial(a) ==
    /\ Goto(a, "dial", "auth")
    /\ configs[a].protocol \in ContextDial => a \notin cancelled
    /\ UNCHANGED <<status, call, world, engine>>

\* The handshake or authentication succeeds.
Auth(a) ==
    /\ Goto(a, "auth", "store")
    /\ tunnels' = tunnels \cup {a}
    /\ UNCHANGED <<status, call, ports, engine>>

\* Either may fail, in time: both have timeouts.
DialFails(a) ==
    /\ \E from \in {"dial", "auth"} : Goto(a, from, "report")
    /\ UNCHANGED <<status, call, world, engine>>

\* The tunnel goes into its field, over whatever is there.
Store(a) ==
    /\ call = "none" /\ Goto(a, "store", "listen")
    /\ field' = [field EXCEPT ![configs[a].protocol] = a]
    /\ UNCHANGED <<status, call, world, listener>>

InUse(address) == \E b \in ports : configs[b].address = address

Listen(a) ==
    /\ Goto(a, "listen", "register")
    /\ ~InUse(configs[a].address)
    /\ ports' = ports \cup {a}
    /\ UNCHANGED <<status, call, tunnels, engine>>

\* The address is in use, or another program's: the tunnel stays as it is.
ListenFails(a) ==
    /\ Goto(a, "listen", "report")
    /\ UNCHANGED <<status, call, world, engine>>

Register(a) ==
    /\ call = "none" /\ Goto(a, "register", "announce")
    /\ listener' = a
    /\ UNCHANGED <<status, call, world, field>>

\* setStatus takes no lock, and looks at no context.
Announce(a) ==
    /\ Goto(a, "announce", "serve") /\ status' = "connected"
    /\ UNCHANGED <<call, world, engine>>

\* A failed attempt reports itself.
Report(a) ==
    /\ Goto(a, "report", "ended") /\ status' = "disconnected"
    /\ UNCHANGED <<call, world, engine>>

\* The accept loop sees its context between two connections, and returns with
\* its listener as it is.
ServeEnds(a) ==
    /\ a \in cancelled /\ Goto(a, "serve", "ended")
    /\ UNCHANGED <<status, call, world, engine>>

---------------------------------------------------------------------------
Disconnect == DisconnectClose \/ DisconnectDone
Connect == \E config \in Configs : ConnectStart(config)

Attempt(a) ==
    \/ Dial(a) \/ Auth(a) \/ DialFails(a) \/ Store(a) \/ Listen(a) \/ ListenFails(a)
    \/ Register(a) \/ Announce(a) \/ Report(a)

Next ==
    \/ ConnectCheck \/ Connect \/ DisconnectCancel \/ Disconnect
    \/ \E a \in Attempts : Attempt(a) \/ ServeEnds(a)

\* Calls return and attempts go on.  The accept loop wakes up for sure only if
\* its listener is closed; nobody has to connect to it, or to call Disconnect.
Fairness ==
    /\ WF_vars(Connect) /\ WF_vars(Disconnect)
    /\ \A a \in Attempts :
          /\ WF_vars(Attempt(a))
          /\ WF_vars(a \notin ports /\ ServeEnds(a))

Spec == Init /\ [][Next]_vars /\ Fairness
---------------------------------------------------------------------------
\* The type invariant. A Connect in progress has room for one attempt, and the
\* goroutines are those of the attempts made.
TypeOK ==
    /\ use \in Uses
    /\ status \in Statuses
    /\ call \in {"none", "connect", "close", "finish"}
    /\ configs \in Seq(Configs) /\ Len(configs) <= MaxConnects
    /\ call = "connect" => Len(configs) < MaxConnects
    /\ cancelled \subseteq 1..Len(configs)
    /\ pc \in [Attempts -> Starting \cup {"none", "serve", "ended"}]
    /\ \A a \in Attempts : pc[a] = "none" <=> a > Len(configs)
    /\ tunnels \subseteq 1..Len(configs) /\ ports \subseteq 1..Len(configs)
    /\ field \in [Protocols -> 0..Len(configs)]
    /\ listener \in 0..Len(configs)
    /\ overlapped \in BOOLEAN

\* If no call was ever made during an attempt, the status the application was
\* last told is true whenever no call is running: "connected" means that the
\* last attempt serves, and that its listener and its tunnel are the ones
\* Disconnect would close; "connecting" that exactly the last attempt is under
\* way; "disconnected" that none is, and that the SOCKS5 port is free.
StatusIsTrue ==
    ~overlapped /\ call = "none" =>
        LET last == Len(configs)
        IN  /\ status # "disconnecting"
            /\ status = "connected" =>
                  /\ pc[last] = "serve" /\ last \in ports \ cancelled
                  /\ listener = last /\ field[configs[last].protocol] = last
                  /\ UnderWay = {}
            /\ status = "connecting" => UnderWay = {last} /\ last \notin cancelled
            /\ status = "disconnected" => UnderWay = {} /\ ports = {}

\* The application's rule, to offer Disconnect when it is told "connected" and
\* Connect when the engine takes it, is enough: its calls never meet an attempt
\* under way, so that StatusIsTrue holds for it without a condition.
AppNeverOverlaps == use = "app" => ~overlapped

\* If no call was ever made during an attempt, a tunnel that has served is
\* closed by Disconnect: no open tunnel is out of the engine's reach but one
\* whose listener could not be opened, and which another attempt replaced.
ServedIsClosed ==
    ~overlapped =>
        \A a \in tunnels :
            \/ field[configs[a].protocol] = a \/ pc[a] = "store"
            \/ pc[a] = "ended" /\ a \notin cancelled

\* In whatever order the engine is called, an open listener is never forgotten
\* as long as all attempts listen on one address: the next Disconnect closes it,
\* also that of an attempt that was given up and went on.
ListenerReachable ==
    (~overlapped \/ \A x, y \in Addresses : x = y) =>
        \A a \in ports : listener = a \/ pc[a] = "register"

\* If no call was ever made during an attempt, Disconnect ends the goroutine
\* that served: it finds its listener closed and its context cancelled.
DisconnectEndsServing ==
    \A a \in Attempts :
        (pc[a] = "serve" /\ call = "finish") ~> (pc[a] = "ended" \/ overlapped)
===========================================================================
