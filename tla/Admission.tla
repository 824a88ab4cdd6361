------------------------------ MODULE Admission -----------------------------
(***************************************************************************)
(* The server's admission stage (src/admission.cpp) with the main loop     *)
(* that consumes it (src/runtime.cpp).  An acceptor thread queues sockets, *)
(* worker threads authenticate them, claim one of the active slots and     *)
(* queue them as ready; the main thread takes ready connections, drops     *)
(* the ones it carries, and at the end runs the destructor, which must     *)
(* join every thread and close every socket.                               *)
(*                                                                         *)
(* A section under mu_ is one step, enabled when mu_ is free.  The one     *)
(* exception is the wait on pending_cv_: the predicate is tested with mu_  *)
(* held and the thread blocks, releasing mu_, in a later step.  stop_ is   *)
(* an atomic that the destructor sets and notifies without mu_.            *)
(*                                                                         *)
(* A member of Conns is the identity of a socket; one that is nowhere in   *)
(* the server is closed, or a client that has not arrived (yet, or again). *)
(***************************************************************************)
EXTENDS Naturals, Sequences, FiniteSets, Functions

CONSTANTS Conns,            \* socket identities
          Workers,          \* worker threads
          QueueLimit,       \* limit_: sockets waiting for a worker
          PoolSizes,        \* the values of pool_connections_ to look at: 1, or lanes of a pool
          None              \* no socket, no lock owner

ASSUME AdmissionAssumption ==
  /\ QueueLimit \in Nat \ {0}
  /\ PoolSizes \subseteq Nat \ {0}
  /\ IsFiniteSet(Conns)
  /\ None \notin Conns \cup Workers

VARIABLES pool,     \* pool_connections_
          stop,     \* stop_
          mu,       \* owner of mu_ between steps, or None
          pending,  \* pending_: accepted sockets, oldest first
          ready,    \* ready_: authenticated connections, oldest first
          claimed,  \* *claimed_: connections holding an active slot
          apc,      \* acceptor: top, poll, got, exit
          hand,     \* the socket the acceptor has accepted and not yet queued
          wpc,      \* worker: top, lock, block, waiting, upgrade, claim, exit
          job,      \* the socket a worker authenticates
          lanes,    \* connections the main thread carries
          mpc,      \* main: serve, dtor, notify, join, done
          missed    \* history: workers about to block when notify_all ran

avars == <<apc, hand>>
wvars == <<wpc, job>>
mvars == <<lanes, mpc, missed>>
vars == <<pool, stop, mu, pending, ready, claimed, avars, wvars, mvars>>

MaxActive == IF pool > 1 THEN pool + 1 ELSE 2

Inside == Range(pending) \cup Range(ready) \cup {hand} \cup Range(job) \cup lanes
Fresh == Conns \ Inside

Waiting == {w \in Workers : wpc[w] = "waiting"}
\* A woken worker has to take mu_ again and re-test its predicate.
WakeUp(ws) == wpc' = [w \in Workers |-> IF w \in ws THEN "lock" ELSE wpc[w]]
\* A bug: a queued socket is not announced.
NotifyNobody == UNCHANGED wpc

NotifyOnePending ==
  IF Waiting = {} THEN UNCHANGED wpc ELSE \E w \in Waiting : WakeUp({w})

Init ==
  /\ pool \in PoolSizes /\ stop = FALSE /\ mu = None
  /\ pending = <<>> /\ ready = <<>> /\ claimed = 0
  /\ apc = "top" /\ hand = None
  /\ wpc = [w \in Workers |-> "top"] /\ job = [w \in Workers |-> None]
  /\ lanes = {} /\ mpc = "serve" /\ missed = {}

------------------------------------------------------------------------------
\* accept_loop

AcceptorTop ==
  /\ apc = "top"
  /\ apc' = IF stop THEN "exit" ELSE "poll"
  /\ UNCHANGED <<pool, stop, mu, pending, ready, claimed, hand, wvars, mvars>>

\* poll() times out (or accept4 fails), delivers a socket, or reports an error
\* without POLLIN, on which the loop ends.
AcceptorPoll ==
  /\ apc = "poll"
  /\ \/ apc' = "top" /\ UNCHANGED hand
     \/ \E c \in Fresh : hand' = c /\ apc' = "got"
     \/ apc' = "exit" /\ UNCHANGED hand
  /\ UNCHANGED <<pool, stop, mu, pending, ready, claimed, wvars, mvars>>

\* A bug: the acceptor still owns the socket it queued.
AcceptorQueueKeeps ==
  /\ apc = "got" /\ mu = None
  /\ IF stop \/ Len(pending) >= QueueLimit
     THEN UNCHANGED <<pending, wpc>>
     ELSE pending' = Append(pending, hand) /\ NotifyOnePending
  /\ apc' = "top"
  /\ UNCHANGED <<pool, stop, mu, ready, claimed, hand, job, mvars>>

AcceptorQueue ==
  /\ apc = "got" /\ mu = None
  /\ IF stop \/ Len(pending) >= QueueLimit
     THEN UNCHANGED <<pending, wpc>>
     ELSE pending' = Append(pending, hand) /\ NotifyOnePending
  /\ hand' = None /\ apc' = "top"
  /\ UNCHANGED <<pool, stop, mu, ready, claimed, job, mvars>>

Acceptor == AcceptorTop \/ AcceptorPoll \/ AcceptorQueue

------------------------------------------------------------------------------
\* worker

WorkerTop(w) ==
  /\ wpc[w] = "top"
  /\ wpc' = [wpc EXCEPT ![w] = IF stop THEN "exit" ELSE "lock"]
  /\ UNCHANGED <<pool, stop, mu, pending, ready, claimed, avars, job, mvars>>

\* pending_cv_.wait with mu_ held: return when stopping, take a socket when
\* there is one, else go on to block, still holding mu_.
WorkerCheck(w) ==
  /\ wpc[w] = "lock" /\ mu = None
  /\ \/ stop /\ wpc' = [wpc EXCEPT ![w] = "exit"] /\ UNCHANGED <<mu, pending, job>>
     \/ /\ ~stop /\ pending # <<>>
        /\ job' = [job EXCEPT ![w] = Head(pending)] /\ pending' = Tail(pending)
        /\ wpc' = [wpc EXCEPT ![w] = "upgrade"] /\ UNCHANGED mu
     \/ /\ ~stop /\ pending = <<>>
        /\ mu' = w /\ wpc' = [wpc EXCEPT ![w] = "block"] /\ UNCHANGED <<pending, job>>
  /\ UNCHANGED <<pool, stop, ready, claimed, avars, mvars>>

WorkerBlock(w) ==
  /\ wpc[w] = "block"
  /\ mu' = None /\ wpc' = [wpc EXCEPT ![w] = "waiting"]
  /\ UNCHANGED <<pool, stop, pending, ready, claimed, avars, job, mvars>>

\* A condition variable may wake without a notification.
SpuriousWake(w) ==
  /\ wpc[w] = "waiting" /\ WakeUp({w})
  /\ UNCHANGED <<pool, stop, mu, pending, ready, claimed, avars, job, mvars>>

\* websocket_server_upgrade returns within its deadline.  A connection that
\* failed gets the HTTP fallback and is closed.
WorkerUpgrade(w) ==
  /\ wpc[w] = "upgrade"
  /\ \/ wpc' = [wpc EXCEPT ![w] = "claim"] /\ UNCHANGED job
     \/ wpc' = [wpc EXCEPT ![w] = "top"] /\ job' = [job EXCEPT ![w] = None]
  /\ UNCHANGED <<pool, stop, mu, pending, ready, claimed, avars, mvars>>

\* A bug: the limit off by one.
BusyLate == stop \/ claimed > MaxActive

\* The "busy" test.  An upgrade that returned is always confirmed.
Busy == stop \/ claimed >= MaxActive

WorkerClaim(w) ==
  /\ wpc[w] = "claim" /\ mu = None
  /\ IF Busy THEN UNCHANGED <<claimed, ready>>
     ELSE claimed' = claimed + 1 /\ ready' = Append(ready, job[w])
  /\ job' = [job EXCEPT ![w] = None] /\ wpc' = [wpc EXCEPT ![w] = "top"]
  /\ UNCHANGED <<pool, stop, mu, pending, avars, mvars>>

Worker(w) ==
  WorkerTop(w) \/ WorkerCheck(w) \/ WorkerBlock(w) \/ WorkerUpgrade(w) \/ WorkerClaim(w)

------------------------------------------------------------------------------
\* The main thread

Room == IF pool > 1
        THEN Cardinality(lanes) < pool + 1
        ELSE lanes = {}

MainTake ==
  /\ mpc = "serve" /\ mu = None /\ Room /\ ready # <<>>
  /\ lanes' = lanes \cup {Head(ready)} /\ ready' = Tail(ready)
  /\ UNCHANGED <<pool, stop, mu, pending, claimed, avars, wvars, mpc, missed>>

\* A bug: the slot is given back twice.
ReleaseTwice(c) == lanes' = lanes \ {c} /\ claimed' = claimed - 2

\* ~AdmittedConnection closes the socket and gives the slot back.
Release(c) == lanes' = lanes \ {c} /\ claimed' = claimed - 1

\* A bug: only a second ready connection makes the tunnel give way.
MainSwitchLate(c) ==
  /\ mpc = "serve" /\ pool = 1 /\ mu = None
  /\ c \in lanes /\ Len(ready) > 1 /\ Release(c)
  /\ UNCHANGED <<pool, stop, mu, pending, ready, avars, wvars, mpc, missed>>

\* A single tunnel that sees a ready connection gives way to it (WarmSwitch).
MainSwitch(c) ==
  /\ mpc = "serve" /\ pool = 1 /\ mu = None
  /\ c \in lanes /\ ready # <<>> /\ Release(c)
  /\ UNCHANGED <<pool, stop, mu, pending, ready, avars, wvars, mpc, missed>>

\* A carried connection fails.
MainDrop(c) ==
  /\ mpc = "serve" /\ c \in lanes /\ Release(c)
  /\ UNCHANGED <<pool, stop, mu, pending, ready, avars, wvars, mpc, missed>>

\* g_stop: the loop ends, its connections go out of scope, the destructor runs.
MainLeave ==
  /\ mpc = "serve" /\ mpc' = "dtor"
  /\ lanes' = {} /\ claimed' = claimed - Cardinality(lanes)
  /\ UNCHANGED <<pool, stop, mu, pending, ready, avars, wvars, missed>>

DtorStop ==
  /\ mpc = "dtor" /\ mpc' = "notify" /\ stop' = TRUE
  /\ UNCHANGED <<pool, mu, pending, ready, claimed, avars, wvars, lanes, missed>>

\* A bug: notify_one at shutdown.
DtorNotifyOne ==
  /\ mpc = "notify" /\ mpc' = "join"
  /\ NotifyOnePending
  /\ missed' = {w \in Workers : wpc[w] = "block"}
  /\ UNCHANGED <<pool, stop, mu, pending, ready, claimed, avars, job, lanes>>

DtorNotify ==
  /\ mpc = "notify" /\ mpc' = "join"
  /\ WakeUp(Waiting)
  /\ missed' = {w \in Workers : wpc[w] = "block"}
  /\ UNCHANGED <<pool, stop, mu, pending, ready, claimed, avars, job, lanes>>

\* A bug: sockets no worker reached stay open.
DtorJoinLeaks ==
  /\ mpc = "join" /\ apc = "exit" /\ \A w \in Workers : wpc[w] = "exit"
  /\ ready' = <<>> /\ claimed' = claimed - Len(ready)
  /\ mpc' = "done"
  /\ UNCHANGED <<pool, stop, mu, pending, avars, wvars, lanes, missed>>

\* Join acceptor and workers, then close what is still queued.
DtorJoin ==
  /\ mpc = "join" /\ apc = "exit" /\ \A w \in Workers : wpc[w] = "exit"
  /\ pending' = <<>> /\ ready' = <<>> /\ claimed' = claimed - Len(ready)
  /\ mpc' = "done"
  /\ UNCHANGED <<pool, stop, mu, avars, wvars, lanes, missed>>

Destructor == DtorStop \/ DtorNotify \/ DtorJoin
Serve == MainTake \/ \E c \in Conns : MainSwitch(c)

Next ==
  \/ Acceptor
  \/ \E w \in Workers : Worker(w) \/ SpuriousWake(w)
  \/ Serve
  \/ \E c \in Conns : MainDrop(c)
  \/ MainLeave
  \/ Destructor

Spec == Init /\ [][Next]_vars

\* Every thread is scheduled, poll and the upgrade have deadlines, and a thread
\* that keeps finding mu_ free at times gets it at last.  Arrivals, failures of
\* carried connections, the signal and spurious wake-ups are free.
Fairness ==
  /\ WF_vars(Acceptor) /\ SF_vars(AcceptorQueue) /\ SF_vars(Serve) /\ WF_vars(Destructor)
  /\ \A w \in Workers : WF_vars(Worker(w)) /\ SF_vars(WorkerCheck(w) \/ WorkerClaim(w))

FairSpec == Spec /\ Fairness

------------------------------------------------------------------------------
\* The types of the variables.
TypeOK ==
  /\ pool \in PoolSizes /\ stop \in BOOLEAN /\ mu \in Workers \cup {None}
  /\ pending \in Seq(Conns) /\ ready \in Seq(Conns)
  /\ claimed \in Nat
  /\ apc \in {"top", "poll", "got", "exit"} /\ hand \in Conns \cup {None}
  /\ wpc \in [Workers -> {"top", "lock", "block", "waiting", "upgrade", "claim", "exit"}]
  /\ job \in [Workers -> Conns \cup {None}]
  /\ lanes \in SUBSET Conns /\ missed \in SUBSET Workers
  /\ mpc \in {"serve", "dtor", "notify", "join", "done"}

\* The shared counter is exactly the number of authenticated connections alive,
\* queued or carried, and never passes the active limit, although it is raised
\* by workers and lowered by destructors in another thread.
ClaimsExact ==
  /\ claimed = Len(ready) + Cardinality(lanes)
  /\ claimed <= MaxActive

\* Each socket has one owner: the acceptor, a queue slot, a worker or the main
\* loop.  Two owners would close one descriptor twice.
OneOwner ==
  /\ \A i, j \in DOMAIN pending : pending[i] = pending[j] => i = j
  /\ \A i, j \in DOMAIN ready : ready[i] = ready[j] => i = j
  /\ \A v, w \in Workers : job[v] = job[w] /\ job[v] # None => v = w
  /\ Range(pending) \cap (Range(ready) \cup {hand} \cup Range(job) \cup lanes) = {}
  /\ Range(ready) \cap ({hand} \cup Range(job) \cup lanes) = {}
  /\ lanes \cap ({hand} \cup Range(job)) = {}
  /\ hand # None => hand \notin Range(job)

\* When the destructor has finished, no socket is left open, no slot is claimed
\* and no thread runs, whichever steps the threads were in when stop_ was set.
CleanExit ==
  mpc = "done" => Inside \subseteq {None} /\ claimed = 0 /\ mu = None

\* A queued socket reaches a worker unless the server stops: no notification of
\* pending_cv_ is lost between the workers, in any interleaving.
PendingServed == \A c \in Conns :
  c \in Range(pending) ~> (c \notin Range(pending) \/ mpc # "serve")

\* An authenticated connection is taken by the main loop: the active limit
\* never admits one the main loop has no room for.
ReadyTaken == \A c \in Conns :
  c \in Range(ready) ~> (c \notin Range(ready) \/ mpc # "serve")

\* Shutdown ends unless a worker was between testing its predicate and
\* blocking when notify_all ran.
ShutdownUnlessMissed ==
  (mpc = "dtor") ~> (mpc = "done" \/ \E w \in missed : wpc[w] = "waiting")

\* What the shutdown test asserts: after SIGTERM the server process exits.
ShutdownCompletes == (mpc = "dtor") ~> (mpc = "done")
=============================================================================
