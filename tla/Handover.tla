------------------------------ MODULE Handover ------------------------------
(***************************************************************************)
(* The single-connection tunnel end to end: the Iran client that dials,    *)
(* tests a replacement in the background and swaps to it (src/runtime.cpp, *)
(* dial_websocket and the client loop of run), the handshake of both ends  *)
(* (src/websocket.cpp, upgrade, confirmation, trial, commit), and the      *)
(* foreign server that admits, takes and switches (src/admission.cpp and   *)
(* the server loop of run).                                                *)
(*                                                                         *)
(* The handshake of a connection is a lock-step exchange.  Step 1 is the   *)
(* upgrade with hello and key confirmation, then come TrialRounds measured *)
(* rounds, the last step is commit and its acknowledgement.  sent counts   *)
(* the client's requests, answered the server's answers; a request counts  *)
(* as sent once the client has read the answer before it.                  *)
(*                                                                         *)
(* What the code cannot control (a dead link, a deadline that passes, a    *)
(* watchdog that fires although the peer is alive) draws on a budget of    *)
(* faults.  Failures the peer causes are noticed without it.               *)
(***************************************************************************)
EXTENDS Naturals, Sequences, FiniteSets, Functions

CONSTANTS Conns,        \* identities of connections, reused once both ends closed
          TrialRounds,  \* measured rounds of trial_session (3)
          MaxFaults,    \* bound on environment faults
          None

ASSUME HandoverAssumption ==
  /\ TrialRounds \in Nat \ {0} /\ MaxFaults \in Nat
  /\ None \notin Conns

VARIABLES cl,        \* client end: none, shake, open, rejected
          sv,        \* server end: none, shake, acked, ready, live
          sent,      \* [Conns -> 0..Steps]
          answered,  \* [Conns -> 0..Steps]
          link,      \* [Conns -> BOOLEAN], FALSE once the path is dead
          mode,      \* client loop: dial, online, await (in warm.get())
          dialing,   \* connection of the foreground dial, or None
          active,    \* the client's connection, or None
          warm,      \* connection of the background dial, or None
          ready,     \* the server's ready_ queue
          live,      \* the server's tunnel, or None
          faults     \* faults left

hvars == <<cl, sv, sent, answered, link>>
cvars == <<mode, dialing, active, warm>>
svars == <<ready, live>>
vars == <<hvars, cvars, svars, faults>>

Steps == TrialRounds + 2
Commit == Steps
MaxActive == 2

Init ==
  /\ cl = [c \in Conns |-> "none"] /\ sv = [c \in Conns |-> "none"]
  /\ sent = [c \in Conns |-> 0] /\ answered = [c \in Conns |-> 0]
  /\ link = [c \in Conns |-> TRUE]
  /\ mode = "dial" /\ dialing = None /\ active = None /\ warm = None
  /\ ready = <<>> /\ live = None
  /\ faults = MaxFaults

\* A fault of the environment, drawn from the budget.
Fault == faults > 0 /\ faults' = faults - 1

------------------------------------------------------------------------------
\* The handshake

Closed(c) == cl[c] \in {"none", "rejected"} /\ sv[c] = "none"

\* A socket is connected; acceptor and worker pick it up.
Connect(c) ==
  /\ Closed(c)
  /\ cl' = [cl EXCEPT ![c] = "shake"] /\ sv' = [sv EXCEPT ![c] = "shake"]
  /\ sent' = [sent EXCEPT ![c] = 0] /\ answered' = [answered EXCEPT ![c] = 0]
  /\ link' = [link EXCEPT ![c] = TRUE]

ClientSend(c) ==
  /\ cl[c] = "shake" /\ link[c] /\ answered[c] = sent[c] /\ sent[c] < Commit
  /\ sent' = [sent EXCEPT ![c] = @ + 1]
  /\ UNCHANGED <<cl, sv, answered, link, cvars, svars, faults>>

\* The acknowledgement arrives: the candidate is committed.
ClientOpen(c) ==
  /\ cl[c] = "shake" /\ link[c] /\ sent[c] = Commit /\ answered[c] = Commit
  /\ cl' = [cl EXCEPT ![c] = "open"]
  /\ UNCHANGED <<sv, sent, answered, link, cvars, svars, faults>>

\* A background candidate whose measured round is too slow.
RejectSlow(c) ==
  /\ c = warm /\ cl[c] = "shake" /\ link[c]
  /\ answered[c] = sent[c] /\ sent[c] \in 2..(Commit - 1)
  /\ cl' = [cl EXCEPT ![c] = "rejected"]
  /\ UNCHANGED <<sv, sent, answered, link, cvars, svars, faults>>

\* The client's handshake throws and its socket is closed.
ClientFail(c) ==
  /\ cl[c] = "shake"
  /\ cl' = [cl EXCEPT ![c] = "rejected"]
  /\ UNCHANGED <<sv, sent, answered, link, cvars, svars>>

\* The server closed without an acknowledgement on its way, or the path is dead.
ClientGiveUp(c) ==
  /\ (sv[c] = "none" /\ answered[c] < Commit) \/ ~link[c]
  /\ ClientFail(c) /\ UNCHANGED faults

\* The deadline passes first, although the server may be about to answer.
ClientDeadline(c) == ClientFail(c) /\ Fault

\* A bug: the server's upgrade returns after the last trial round.
ServerAnswerEarly(c) ==
  /\ sv[c] = "shake" /\ link[c] /\ sent[c] > answered[c]
  /\ answered' = [answered EXCEPT ![c] = sent[c]]
  /\ sv' = IF sent[c] >= Commit - 1 THEN [sv EXCEPT ![c] = "acked"] ELSE sv
  /\ UNCHANGED <<cl, sent, link, cvars, svars, faults>>

\* The server reads a request, also one whose sender has closed since, and
\* answers it.  Having acknowledged the commit, its upgrade returns.
ServerAnswer(c) ==
  /\ sv[c] = "shake" /\ link[c] /\ sent[c] > answered[c]
  /\ answered' = [answered EXCEPT ![c] = sent[c]]
  /\ sv' = IF sent[c] = Commit THEN [sv EXCEPT ![c] = "acked"] ELSE sv
  /\ UNCHANGED <<cl, sent, link, cvars, svars, faults>>

ServerFail(c) ==
  /\ sv[c] = "shake"
  /\ sv' = [sv EXCEPT ![c] = "none"]
  /\ UNCHANGED <<cl, sent, answered, link, cvars, svars>>

\* The client closed with nothing left to read, or the path is dead.
ServerGiveUp(c) ==
  /\ (cl[c] # "shake" /\ sent[c] = answered[c]) \/ ~link[c]
  /\ ServerFail(c) /\ UNCHANGED faults

ServerDeadline(c) == ServerFail(c) /\ Fault

Claimed == Cardinality({c \in Conns : sv[c] \in {"ready", "live"}})

\* The worker claims a slot, or throws "busy".
ServerClaim(c) ==
  /\ sv[c] = "acked"
  /\ IF Claimed < MaxActive
     THEN sv' = [sv EXCEPT ![c] = "ready"] /\ ready' = Append(ready, c)
     ELSE sv' = [sv EXCEPT ![c] = "none"] /\ UNCHANGED ready
  /\ UNCHANGED <<cl, sent, answered, link, cvars, live, faults>>

Handshake(c) ==
  ClientSend(c) \/ ClientOpen(c) \/ ServerAnswer(c) \/ ServerClaim(c)

------------------------------------------------------------------------------
\* The client loop

Dial(c) ==
  /\ mode = "dial" /\ dialing = None /\ Connect(c) /\ dialing' = c
  /\ UNCHANGED <<mode, active, warm, svars, faults>>

\* dial_next(false) returns, or throws and is retried after the back-off.
DialDone ==
  /\ mode = "dial" /\ dialing # None
  /\ \/ cl[dialing] = "open" /\ mode' = "online" /\ active' = dialing
     \/ cl[dialing] = "rejected" /\ UNCHANGED <<mode, active>>
  /\ dialing' = None
  /\ UNCHANGED <<hvars, warm, svars, faults>>

\* tick: probe replies are late or latency stayed high, and the recovery timer
\* allows a trial.  That timer (30 s) outlasts the server's next tick, so an
\* earlier replacement has been taken by then.
WarmStart(c) ==
  /\ mode = "online" /\ warm = None /\ ready = <<>>
  /\ \A d \in Conns : sv[d] # "acked"
  /\ Connect(c) /\ warm' = c
  /\ UNCHANGED <<mode, dialing, active, svars, faults>>

\* tick: the trial committed.  The new connection is swapped in, the old closed.
WarmCommit ==
  /\ mode = "online" /\ warm # None /\ cl[warm] = "open"
  /\ cl' = [cl EXCEPT ![active] = "none"]
  /\ active' = warm /\ warm' = None
  /\ UNCHANGED <<sv, sent, answered, link, mode, dialing, svars, faults>>

\* tick: the candidate was rejected; the existing link is kept.
WarmRejected ==
  /\ mode = "online" /\ warm # None /\ cl[warm] = "rejected"
  /\ warm' = None
  /\ UNCHANGED <<hvars, mode, dialing, active, svars, faults>>

\* A bug: the trial under way is forgotten when the tunnel throws.
ClientDownCold ==
  /\ mode = "online"
  /\ cl' = [cl EXCEPT ![active] = "none"]
  /\ active' = None /\ mode' = "dial" /\ warm' = None
  /\ UNCHANGED <<sv, sent, answered, link, dialing, svars>>

\* The client's tunnel throws.  With a trial under way it waits for the outcome.
ClientDown ==
  /\ mode = "online"
  /\ cl' = [cl EXCEPT ![active] = "none"]
  /\ active' = None
  /\ mode' = IF warm = None THEN "dial" ELSE "await"
  /\ UNCHANGED <<sv, sent, answered, link, dialing, warm, svars>>

\* The peer closed or the path is dead.
ClientLose ==
  /\ mode = "online" /\ (sv[active] = "none" \/ ~link[active])
  /\ ClientDown /\ UNCHANGED faults

\* A watchdog fires although the server is alive.
ClientWatchdog == ClientDown /\ Fault

AwaitWarm ==
  /\ mode = "await"
  /\ \/ cl[warm] = "open" /\ active' = warm /\ mode' = "online"
     \/ cl[warm] = "rejected" /\ mode' = "dial" /\ UNCHANGED active
  /\ warm' = None
  /\ UNCHANGED <<hvars, dialing, svars, faults>>

ClientLoop == (\E c \in Conns : Dial(c)) \/ DialDone \/ WarmCommit \/ WarmRejected \/ AwaitWarm

------------------------------------------------------------------------------
\* The server loop

Take ==
  /\ live = None /\ ready # <<>>
  /\ live' = Head(ready) /\ ready' = Tail(ready)
  /\ sv' = [sv EXCEPT ![Head(ready)] = "live"]
  /\ UNCHANGED <<cl, sent, answered, link, cvars, faults>>

\* tick: has_ready() throws WarmSwitch and the carried connection is closed.
Switch ==
  /\ live # None /\ ready # <<>>
  /\ sv' = [sv EXCEPT ![live] = "none"] /\ live' = None
  /\ UNCHANGED <<cl, sent, answered, link, cvars, ready, faults>>

\* A bug: the slot of a lost tunnel is not released.
ServerDownLeaks ==
  /\ live # None
  /\ live' = None
  /\ UNCHANGED <<sv, cl, sent, answered, link, cvars, ready>>

\* The server's tunnel throws and its slot is released.
ServerDown ==
  /\ live # None
  /\ sv' = [sv EXCEPT ![live] = "none"] /\ live' = None
  /\ UNCHANGED <<cl, sent, answered, link, cvars, ready>>

ServerLose ==
  /\ live # None /\ (cl[live] \in {"none", "rejected"} \/ ~link[live])
  /\ ServerDown /\ UNCHANGED faults

ServerWatchdog == ServerDown /\ Fault

------------------------------------------------------------------------------
\* The path of a connection dies without a word to either end.
Cut(c) ==
  /\ Fault /\ ~Closed(c) /\ link[c]
  /\ link' = [link EXCEPT ![c] = FALSE]
  /\ UNCHANGED <<cl, sv, sent, answered, cvars, svars>>

Next ==
  \/ \E c \in Conns : \/ Handshake(c) \/ RejectSlow(c)
                      \/ ClientGiveUp(c) \/ ClientDeadline(c)
                      \/ ServerGiveUp(c) \/ ServerDeadline(c)
                      \/ WarmStart(c) \/ Cut(c)
  \/ ClientLoop \/ ClientLose \/ ClientWatchdog
  \/ Take \/ Switch \/ ServerLose \/ ServerWatchdog

Spec == Init /\ [][Next]_vars

\* Both loops run, each handshake step and each failure already caused is
\* noticed (close frames, deadlines and watchdogs).  Faults and the wish for a
\* replacement are free.
Fairness ==
  /\ WF_vars(ClientLoop) /\ WF_vars(Take) /\ WF_vars(Switch)
  /\ WF_vars(ClientLose) /\ WF_vars(ServerLose)
  /\ \A c \in Conns :
       WF_vars(Handshake(c)) /\ WF_vars(ClientGiveUp(c)) /\ WF_vars(ServerGiveUp(c))

FairSpec == Spec /\ Fairness

------------------------------------------------------------------------------
\* Neither end gets ahead of the commit: the server offers its tunnel only to a
\* connection whose client committed after all measured rounds, and the client
\* carries traffic only on one the server acknowledged.
CommittedOnly ==
  /\ \A c \in Conns : sv[c] \in {"acked", "ready", "live"} => sent[c] = Commit
  /\ \A c \in Conns : cl[c] = "open" => answered[c] = Commit
  /\ mode = "online" => cl[active] = "open"

\* Without a fault, a connected client never falls back to a cold dial: neither
\* the order in which the two ends close the old connection nor a rejected
\* trial interrupts the tunnel beyond the swap.
NoColdRedial == [][faults = MaxFaults /\ mode # "dial" => mode' # "dial" \/ faults' # faults]_vars

\* After any faults, closings and swaps the two ends meet again on one
\* connection, over and over.
Recovers == []<>(active # None /\ live = active)

\* "Keeping existing link": a background replacement that the client rejected
\* does not make the server give up the connection both ends are using.
KeepsExistingLink ==
  [][Switch => ~(active = live /\ warm = Head(ready) /\ cl[warm] = "rejected")]_vars
=============================================================================
