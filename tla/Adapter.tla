------------------------------ MODULE Adapter -------------------------------
(***************************************************************************)
(* The uTLS adapter of adapter/main.go with its selector (EdgeSelector),   *)
(* and the clients in front of it: dial_websocket of src/runtime.cpp with  *)
(* the utls backend.  A client connects to the local socket, waits for the *)
(* readiness message and uses the connection as its tunnel; the adapter    *)
(* takes a slot, resolves, dials the addresses in order, does the TLS      *)
(* handshake and now and then the startup requests, sends the message and  *)
(* copies both ways.                                                       *)
(*                                                                         *)
(* Deadlines are kept as ticks left and the clock has no bound.  Time does *)
(* not pass while something that takes no time is due (Due).  The adapter  *)
(* divides times in nanoseconds: a tick is the unit it divides in.         *)
(***************************************************************************)
EXTENDS EdgeSelector, FiniteSets

CONSTANTS Clients, Conns, None,
          MaxSessions,   \* o.maxSessions
          Timeout,       \* o.timeout, in ticks
          DnsLimit,      \* limit of a lookup
          Startup,       \* o.startupPaths is not empty
          StartupLimit,  \* limit of the startup requests
          GatePeriod,    \* startupGate: between two sessions with startup requests
          RestartDelay,  \* RestartSec of the adapter's unit, in ticks
          ReadyWait,     \* deadline of wait_utls_tls_ready
          DelayInitial,  \* cfg.reconnect_initial_ms, in ticks
          DelayMax,      \* cfg.reconnect_max_ms, in ticks
          Jitter,        \* cfg.reconnect_jitter_pct
          MaxFaults      \* bound on changes of the network, stalls and crashes

\* A client has a connection of its own besides the sessions that run.
ASSUME AdapterAssumption ==
  /\ MaxSessions \in Nat \ {0} /\ Timeout \in Nat \ {0} /\ DnsLimit \in Nat \ {0}
  /\ Startup \in BOOLEAN /\ StartupLimit \in Nat \ {0} /\ GatePeriod \in Nat \ {0}
  /\ RestartDelay \in Nat /\ ReadyWait \in Nat \ {0}
  /\ DelayInitial \in Nat \ {0} /\ DelayMax \in Nat /\ DelayInitial <= DelayMax /\ Jitter \in 0 .. 50
  /\ MaxFaults \in Nat /\ Conns \subseteq Nat /\ IsFiniteSet(Conns)
  /\ Cardinality(Conns) >= MaxSessions + Cardinality(Clients)

VARIABLES edge,      \* what each address does: good, badtls, refuse or hang
          gate,      \* ticks until startup requests are allowed again
          restart,   \* ticks until the adapter's process runs again
          slots,     \* sessions holding a slot
          session,   \* goroutine of a connection: pc, at, left, timer, up, down
          order,     \* the order in which it dials the addresses
          locals,    \* local ends the adapter has open
          upstream,  \* connections to the CDN that are open
          stuck,     \* of these, the ones whose peer does not read
          client,    \* st, conn, timer, delay
          held,      \* local ends the clients have open
          message,   \* local ends with the readiness message still to be read
          faults

vars == <<health, rotate, edge, gate, restart, slots, session, order, locals, upstream, stuck, client,
          held, message, faults>>

Idle == [pc |-> "free", at |-> 0, left |-> 0, timer |-> 0, up |-> FALSE, down |-> FALSE]

Init ==
  /\ SelectorInit
  /\ edge \in [Edges -> {"good", "badtls", "refuse", "hang"}] /\ \E e \in Edges : edge[e] = "good"
  /\ gate = 0 /\ restart = 0 /\ slots = 0 /\ session = [c \in Conns |-> Idle]
  /\ order = [c \in Conns |-> <<>>]
  /\ locals = {} /\ upstream = {} /\ stuck = {} /\ held = {} /\ message = {} /\ faults = 0
  /\ client = [k \in Clients |-> [st |-> "redial", conn |-> None, timer |-> 0, delay |-> DelayInitial]]

Least(a, b) == IF a < b THEN a ELSE b
Running(c) == session[c].pc \notin {"free", "backlog", "closed"}

(* The adapter. *)

\* The local end is closed: the connection is gone once the client has closed its end too.
Gone(c) == [Idle EXCEPT !.pc = IF c \in held THEN "closed" ELSE "free"]

\* The connection to the CDN is left open.
ReturnOpen(c) ==
  /\ session' = [session EXCEPT ![c] = Gone(c)] /\ order' = [order EXCEPT ![c] = <<>>] /\ slots' = slots - 1
  /\ locals' = locals \ {c} /\ UNCHANGED <<upstream, stuck>>

\* A goroutine returns: its deferred calls close both connections and give the slot back.
Return(c) ==
  /\ session' = [session EXCEPT ![c] = Gone(c)] /\ order' = [order EXCEPT ![c] = <<>>] /\ slots' = slots - 1
  /\ locals' = locals \ {c} /\ upstream' = upstream \ {c} /\ stuck' = stuck \ {c}

\* The accept loop: a slot, or the connection is closed at once.
Accept(c) ==
  /\ session[c].pc = "backlog"
  /\ IF slots < MaxSessions
     THEN /\ slots' = slots + 1 /\ locals' = locals \cup {c}
          /\ session' = [session EXCEPT ![c].pc = "resolve", ![c].left = Timeout,
                                             ![c].timer = Least(DnsLimit, Timeout)]
     ELSE session' = [session EXCEPT ![c] = Gone(c)] /\ UNCHANGED <<slots, locals>>
  /\ UNCHANGED <<health, rotate, edge, gate, restart, order, upstream, stuck, client, held, message, faults>>

\* resolve and order: the first address is dialled, if the lookup has left time for it.
Resolved(c) ==
  /\ session[c].pc = "resolve" /\ rotate' = (rotate + 1) % N
  /\ LET budget == EdgeBudget(session[c].left, N)
     IN IF budget > 0
        THEN /\ session' = [session EXCEPT ![c].pc = "dial", ![c].at = 1, ![c].timer = budget]
             /\ order' = [order EXCEPT ![c] = Order]
             /\ UNCHANGED <<slots, locals, upstream, stuck>>
        ELSE Return(c)
  /\ UNCHANGED <<health, edge, gate, restart, client, held, message, faults>>

\* The lookup fails and there are no bootstrap addresses.
ResolveFails(c) ==
  /\ session[c].pc = "resolve" /\ faults < MaxFaults /\ faults' = faults + 1
  /\ Return(c) /\ UNCHANGED <<health, rotate, edge, gate, restart, client, held, message>>

Target(c) == order[c][session[c].at]

\* The address accepts: connectCDN starts the handshake.
Dialled(c) ==
  /\ session[c].pc = "dial" /\ edge[Target(c)] \in {"good", "badtls"}
  /\ Record(Target(c), TRUE) /\ upstream' = upstream \cup {c}
  /\ session' = [session EXCEPT ![c].pc = "tls", ![c].left = 0, ![c].timer = Timeout]
  /\ UNCHANGED <<rotate, edge, gate, restart, slots, order, locals, stuck, client, held, message, faults>>

\* The attempt fails or its share of the time is over: the next address, if there is one and time for it.
DialFails(c) ==
  /\ session[c].pc = "dial" /\ (edge[Target(c)] = "refuse" \/ session[c].timer = 0)
  /\ Record(Target(c), FALSE)
  /\ LET next == session[c].at + 1
     IN IF next <= N /\ EdgeBudget(session[c].left, N - next + 1) > 0
        THEN /\ session' = [session EXCEPT ![c].at = next,
                                          ![c].timer = EdgeBudget(session[c].left, N - next + 1)]
             /\ UNCHANGED <<slots, order, locals, upstream, stuck>>
        ELSE Return(c)
  /\ UNCHANGED <<rotate, edge, gate, restart, client, held, message, faults>>

\* The message is sent to the client; a client that has left makes the write fail.
SendReady(c) ==
  IF c \in held
  THEN /\ session' = [session EXCEPT ![c].pc = "copy", ![c].at = 0, ![c].timer = 0,
                                     ![c].up = TRUE, ![c].down = TRUE]
       /\ order' = [order EXCEPT ![c] = <<>>]
       /\ message' = message \cup {c} /\ UNCHANGED <<slots, locals, upstream, stuck>>
  ELSE Return(c) /\ UNCHANGED message

\* A verified handshake, followed by the startup requests if there are any and the gate is open.
Verified(c) ==
  /\ session[c].pc = "tls" /\ edge[Target(c)] = "good"
  /\ RecordTLS(Target(c), TRUE)
  /\ \/ /\ Startup /\ gate = 0 /\ gate' = GatePeriod
        /\ session' = [session EXCEPT ![c].pc = "startup", ![c].timer = StartupLimit]
        /\ UNCHANGED <<slots, order, locals, upstream, stuck, message>>
     \/ (~Startup \/ gate > 0) /\ SendReady(c) /\ UNCHANGED gate
  /\ UNCHANGED <<rotate, edge, restart, client, held, faults>>

\* No handshake, a certificate that is not trusted, or another protocol, at any moment up to the deadline.
TlsFails(c) ==
  /\ session[c].pc = "tls" /\ edge[Target(c)] # "good"
  /\ RecordTLS(Target(c), FALSE)
  /\ Return(c) /\ UNCHANGED <<rotate, edge, gate, restart, client, held, message, faults>>

\* startupRequests succeed, or fail at any moment up to their deadline.
StartupDone(c) ==
  /\ session[c].pc = "startup"
  /\ SendReady(c) \/ (Return(c) /\ UNCHANGED message)
  /\ UNCHANGED <<health, rotate, edge, gate, restart, client, held, faults>>

\* Only the side that ended is closed.
ShutdownHalf(c) == locals' = locals \ {c} /\ UNCHANGED <<upstream, stuck>>

\* shutdown closes both connections, whichever direction ended first.
Shutdown(c) == locals' = locals \ {c} /\ upstream' = upstream \ {c} /\ stuck' = stuck \ {c}

\* The uplink ends: the client's end is closed, or its own write fails.
UpEnds(c) ==
  /\ session[c].pc = "copy" /\ session[c].up
  /\ c \in upstream => c \notin held /\ c \notin stuck
  /\ session' = [session EXCEPT ![c].up = FALSE] /\ Shutdown(c)
  /\ UNCHANGED <<health, rotate, edge, gate, restart, slots, order, client, held, message, faults>>

\* The downlink ends: the CDN closes the connection, or the adapter has.
DownEnds(c) ==
  /\ session[c].pc = "copy" /\ session[c].down
  /\ session' = [session EXCEPT ![c].down = FALSE] /\ Shutdown(c)
  /\ UNCHANGED <<health, rotate, edge, gate, restart, slots, order, client, held, message, faults>>

\* Both have ended: proxy returns.
CopyDone(c) ==
  /\ session[c].pc = "copy" /\ ~session[c].up /\ ~session[c].down
  /\ Return(c) /\ UNCHANGED <<health, rotate, edge, gate, restart, client, held, message, faults>>

(* The clients. *)

\* connect_utls_adapter, with the lowest number that is free.
Connect(k, c) ==
  /\ client[k].st = "redial" /\ client[k].timer = 0 /\ restart = 0
  /\ session[c].pc = "free" /\ \A d \in Conns : session[d].pc = "free" => c <= d
  /\ client' = [client EXCEPT ![k].st = "waiting", ![k].conn = c, ![k].timer = ReadyWait]
  /\ session' = [session EXCEPT ![c].pc = "backlog"] /\ held' = held \cup {c}
  /\ UNCHANGED <<health, rotate, edge, gate, restart, slots, order, locals, upstream, stuck, message, faults>>

\* wait_utls_tls_ready has read the message.
Ready(k) ==
  /\ client[k].st = "waiting" /\ client[k].conn \in message
  /\ client' = [client EXCEPT ![k].st = "up", ![k].timer = 0] /\ message' = message \ {client[k].conn}
  /\ UNCHANGED <<health, rotate, edge, gate, restart, slots, session, order, locals, upstream, stuck, held, faults>>

\* What a client reads is the end of the stream.
Ended(c) == session[c].pc = "closed" /\ c \notin message

\* jittered: what the random number makes of a delay.
Jittered(delay) ==
  LET span == (delay * Jitter) \div 100
  IN {IF d > 1 THEN d ELSE 1 : d \in delay - span .. delay + span}

\* The next dial comes after the delay, which doubles.
Redial(k, delay) ==
  \E pause \in Jittered(delay) :
    client' = [client EXCEPT ![k] = [st |-> "redial", conn |-> None, timer |-> pause,
                                     delay |-> Least(delay * 2, DelayMax)]]

\* connect_utls_adapter finds no adapter.
ConnectFails(k) ==
  /\ client[k].st = "redial" /\ client[k].timer = 0 /\ restart > 0
  /\ Redial(k, client[k].delay)
  /\ UNCHANGED <<health, rotate, edge, gate, restart, slots, session, order, locals, upstream, stuck,
                 held, message, faults>>

\* The client gives up, sees the end of the stream, or ends its tunnel.  A tunnel that was up for
\* two minutes had reset the delay.
Leave(k) ==
  LET c == client[k].conn
  IN /\ \/ client[k].st = "waiting" /\ (client[k].timer = 0 \/ Ended(c))
        \/ client[k].st = "up"
     /\ \/ Redial(k, client[k].delay)
        \/ client[k].st = "up" /\ Redial(k, DelayInitial)
     /\ held' = held \ {c} /\ message' = message \ {c}
     /\ session' = [session EXCEPT ![c].pc = IF @ = "closed" THEN "free" ELSE @]
     /\ UNCHANGED <<health, rotate, edge, gate, restart, slots, order, locals, upstream, stuck, faults>>

(* The network, the clock and the process. *)

EdgeChanges ==
  /\ faults < MaxFaults /\ faults' = faults + 1
  /\ \E e \in Edges, k \in {"good", "badtls", "refuse", "hang"} :
       edge[e] # k /\ edge' = [edge EXCEPT ![e] = k] /\ \E f \in Edges : edge'[f] = "good"
  /\ UNCHANGED <<health, rotate, gate, restart, slots, session, order, locals, upstream, stuck,
                 client, held, message>>

\* The CDN stops reading a connection for a while.
Stalls(c) ==
  /\ faults < MaxFaults /\ faults' = faults + 1
  /\ session[c].pc = "copy" /\ c \in upstream \ stuck /\ stuck' = stuck \cup {c}
  /\ UNCHANGED <<health, rotate, edge, gate, restart, slots, session, order, locals, upstream,
                 client, held, message>>

Resumes(c) ==
  /\ c \in stuck /\ stuck' = stuck \ {c}
  /\ UNCHANGED <<health, rotate, edge, gate, restart, slots, session, order, locals, upstream,
                 client, held, message, faults>>

\* The process dies, and its unit starts it again after a while.
Crash ==
  /\ restart = 0 /\ restart' = RestartDelay
  /\ faults < MaxFaults /\ faults' = faults + 1
  /\ health' = [e \in Edges |-> Unknown] /\ rotate' = 0 /\ gate' = 0 /\ slots' = 0
  /\ session' = [c \in Conns |-> Gone(c)] /\ order' = [c \in Conns |-> <<>>]
  /\ locals' = {} /\ upstream' = {} /\ stuck' = {}
  /\ UNCHANGED <<edge, client, held, message>>

Due ==
  \/ \E c \in Conns :
       LET s == session[c]
       IN \/ s.pc = "backlog"
          \/ s.pc \in {"resolve", "dial", "tls", "startup"} /\ s.timer = 0
          \/ s.pc = "dial" /\ edge[Target(c)] \in {"good", "badtls"}
          \/ s.pc = "tls" /\ edge[Target(c)] = "good"
  \/ \E k \in Clients :
       \/ client[k].st # "up" /\ client[k].timer = 0
       \/ client[k].st = "waiting" /\ (client[k].conn \in message \/ Ended(client[k].conn))

Tick ==
  /\ ~Due
  /\ HealthTick /\ gate' = Less(gate) /\ restart' = Less(restart)
  /\ session' = [c \in Conns |-> [session[c] EXCEPT !.left = Less(@), !.timer = Less(@)]]
  /\ client' = [k \in Clients |-> [client[k] EXCEPT !.timer = Less(@)]]
  /\ UNCHANGED <<rotate, edge, slots, order, locals, upstream, stuck, held, message, faults>>

Next ==
  \/ \E c \in Conns : \/ Accept(c) \/ Resolved(c) \/ ResolveFails(c) \/ Dialled(c) \/ DialFails(c)
                      \/ Verified(c) \/ TlsFails(c) \/ StartupDone(c) \/ UpEnds(c) \/ DownEnds(c)
                      \/ CopyDone(c) \/ Stalls(c) \/ Resumes(c)
  \/ \E k \in Clients : Ready(k) \/ Leave(k) \/ ConnectFails(k) \/ \E c \in Conns : Connect(k, c)
  \/ EdgeChanges \/ Crash \/ Tick

Spec == Init /\ [][Next]_vars

\* Goroutines and clients run, and deadlines pass.  That a connection which stalls resumes is
\* assumed of the CDN: proxy copies without a deadline.
Fairness ==
  /\ WF_vars(Tick)
  /\ \A c \in Conns :
       /\ WF_vars(Accept(c)) /\ WF_vars(Resolved(c)) /\ WF_vars(Dialled(c)) /\ WF_vars(DialFails(c))
       /\ WF_vars(Verified(c)) /\ WF_vars(TlsFails(c)) /\ WF_vars(StartupDone(c)) /\ WF_vars(UpEnds(c))
       /\ WF_vars(c \notin upstream /\ DownEnds(c)) /\ WF_vars(CopyDone(c)) /\ WF_vars(Resumes(c))
  /\ \A k \in Clients :
       /\ WF_vars(Ready(k)) /\ WF_vars(client[k].st = "waiting" /\ Leave(k))
       /\ WF_vars(ConnectFails(k)) /\ WF_vars(\E c \in Conns : Connect(k, c))

FairSpec == Spec /\ Fairness

\* Whatever the lookup and the addresses tried so far have cost, the address being tried leaves a
\* tick for each one after it: addresses that hang cannot use up the time of one that works
\* (edgeBudget in dial).
EveryEdgeHasTime ==
  \A c \in Conns : session[c].pc = "dial" => session[c].left - session[c].timer >= N - session[c].at

\* The slots taken are the goroutines running, never more than the limit, and no connection of
\* either side outlives its goroutine, on whichever of the early returns of proxy, connectCDN and
\* startupRequests it leaves.
NothingLeaks ==
  /\ slots = Cardinality({c \in Conns : Running(c)}) /\ slots <= MaxSessions
  /\ \A c \in locals \cup upstream : Running(c)

\* A slot comes back once the client of a session has left, in whatever step of dialling or
\* copying that happens, as long as the CDN does not stop reading for good: the dial is not
\* cancelled, so its deadlines have to end it.
SlotReturned == \A c \in Conns : (Running(c) /\ c \notin held) ~> ~Running(c)

\* With one working address among refusing, hanging and wrongly certified ones, a client that keeps
\* dialling gets its connection, given that a pause and a lookup take less than the cool-down and
\* that the lookup leaves time for every address: a failed handshake is remembered across the TCP
\* successes of the same address (tlsFailedUntil), and the working address comes first in the
\* next dial.
Served == \A k \in Clients : client[k].st # "up" ~> client[k].st = "up"
=============================================================================
