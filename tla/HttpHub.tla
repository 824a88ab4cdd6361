------------------------------ MODULE HttpHub -------------------------------
(***************************************************************************)
(* The HTTP carrier of adapter/httpcarrier.go: the hub (httpHub) behind a  *)
(* CDN, its concurrent request handlers, and the client (proxyHTTP) that   *)
(* creates a session, downloads with one GET and uploads with numbered     *)
(* POSTs.                                                                  *)
(*                                                                         *)
(* A request once sent may reach the hub at any time, several times or not *)
(* at all: net keeps every request, and answers collects every answer.     *)
(* The path of the client's answer is the CDN's, so it may read any answer *)
(* to its request, or time out.  A session id is unknown until the answer  *)
(* to its creation, so requests name sessions of the table only.  Bodies   *)
(* are the numbers of the chunks they carry.                               *)
(***************************************************************************)
EXTENDS Naturals, Sequences, FiniteSets

CONSTANTS Handlers,    \* handler goroutines at work at the same time
          Ids,         \* session ids (randomHex)
          Limit,       \* o.maxSessions
          SeenLimit,   \* 4096 remembered nonces
          Window,      \* a stamp is good this long either way (30 s)
          Retain,      \* a nonce is remembered this long (65 s)
          Idle,        \* httpIdle (75 s)
          MaxClients,  \* bound on client sessions
          MaxChunks,   \* bound on chunks uploaded per session
          MaxTime,     \* bound on the clock
          None

ASSUME HttpHubAssumption ==
  /\ Limit \in Nat /\ SeenLimit \in Nat /\ Window \in Nat /\ Idle \in Nat
  /\ Retain \in Nat /\ Retain >= 2 * Window
  /\ MaxClients \in Nat /\ MaxChunks \in Nat /\ MaxTime \in Nat
  /\ None \notin Ids

VARIABLES now, stopped,
          table,    \* h.sessions: none, placeholder or session, by id
          conn,     \* the backend connection of an id: none, open, closed
          next,     \* httpSession.next
          locked,   \* httpSession.write
          reading,  \* httpSession.reading
          last,     \* httpSession.last
          seen,     \* h.seen: remembered nonces with their time
          handler,  \* what each handler is doing
          client,   \* the client: step, nonce, id, acknowledged chunks
          net,      \* requests sent
          answers,  \* answers given
          written,  \* history: chunks written to the backend of an id
          created   \* history: sessions made from a nonce

hub == <<table, conn, next, locked, reading, last, seen, written, created>>
vars == <<now, stopped, hub, handler, client, net, answers>>

Free == [step |-> "free"]

Init ==
  /\ now = Window + 1 /\ stopped = FALSE
  /\ table = [i \in Ids |-> "none"] /\ conn = [i \in Ids |-> "none"]
  /\ next = [i \in Ids |-> 0] /\ locked = [i \in Ids |-> FALSE]
  /\ reading = [i \in Ids |-> FALSE] /\ last = [i \in Ids |-> 0]
  /\ seen = {} /\ handler = [h \in Handlers |-> Free]
  /\ client = [step |-> "idle", nonce |-> 0, id |-> None, acked |-> 0]
  /\ net = {} /\ answers = {}
  /\ written = [i \in Ids |-> <<>>] /\ created = [n \in 1..MaxClients |-> {}]

------------------------------------------------------------------------------
\* Helpers of the handlers

Sessions == {i \in Ids : table[i] # "none"}

\* The stamp of a request is fresh; its signature is taken as valid.
Authorized(r) == r.stamp + Window >= now /\ r.stamp <= now + Window

Finish(h, r, code, id) ==
  /\ handler' = [handler EXCEPT ![h] = Free]
  /\ answers' = answers \cup {[req |-> r, code |-> code, id |-> id]}

Work(h, step, r, id) ==
  /\ handler' = [handler EXCEPT ![h] = [step |-> step, req |-> r, id |-> id]]
  /\ UNCHANGED answers

At(h, step) == handler[h].step = step

\* remove: the entry goes if it is still the one meant; its connection is closed
\* in any case (a placeholder has none).
Remove(i, entry) ==
  /\ table' = [table EXCEPT ![i] = IF @ = entry THEN "none" ELSE @]
  /\ conn' = IF entry = "session" THEN [conn EXCEPT ![i] = "closed"] ELSE conn

------------------------------------------------------------------------------
\* Creating a session: nonce and limits under the lock, dialling outside it,
\* the session put in place of its placeholder under the lock again.

SeenNonces == {x.nonce : x \in seen}

Full == Cardinality(Sessions) >= Limit \/ Cardinality(seen) >= SeenLimit

\* A session id is random and never comes up twice.
Unused(i) == table[i] = "none" /\ conn[i] = "none" /\ last[i] = 0

\* The signature and the time stamp are checked before the lock is taken: a request
\* that waits for the lock is that much older, which the slack of the retention covers.
CreateBegin(h, r) ==
  /\ At(h, "free") /\ r.kind = "create" /\ Authorized(r)
  /\ IF r.nonce \in SeenNonces \/ Full
     THEN Finish(h, r, "refused", None) /\ UNCHANGED <<table, seen, last>>
     ELSE /\ seen' = seen \cup {[nonce |-> r.nonce, time |-> now]}
          /\ \E i \in {j \in Ids : Unused(j)} :
               /\ table' = [table EXCEPT ![i] = "placeholder"]
               /\ last' = [last EXCEPT ![i] = now]
               /\ Work(h, "dial", r, i)
  /\ UNCHANGED <<now, stopped, conn, next, locked, reading, written, created, client, net>>

\* The backend answers the dial, or not; a stopping hub cancels it.
CreateDial(h) ==
  /\ At(h, "dial")
  /\ LET i == handler[h].id
     IN  \/ /\ ~stopped /\ conn' = [conn EXCEPT ![i] = "open"]
            /\ Work(h, "install", handler[h].req, i) /\ UNCHANGED table
         \/ Remove(i, "placeholder") /\ Finish(h, handler[h].req, "refused", None)
  /\ UNCHANGED <<now, stopped, next, locked, reading, last, seen, written, created, client, net>>

\* A bug: when the placeholder is gone, the backend is not closed and the client is
\* told that its session exists.
CreateInstallAnyway(h) ==
  /\ At(h, "install")
  /\ LET i == handler[h].id
         r == handler[h].req
     IN  /\ table' = [table EXCEPT ![i] = IF @ = "placeholder" THEN "session" ELSE @]
         /\ last' = [last EXCEPT ![i] = now]
         /\ created' = [created EXCEPT ![r.nonce] = @ \cup {i}]
         /\ Finish(h, r, "created", i)
  /\ UNCHANGED <<now, stopped, conn, next, locked, reading, seen, written, client, net>>

CreateInstall(h) ==
  /\ At(h, "install")
  /\ LET i == handler[h].id
         r == handler[h].req
     IN  IF table[i] = "placeholder"
         THEN /\ table' = [table EXCEPT ![i] = "session"]
              /\ last' = [last EXCEPT ![i] = now]
              /\ created' = [created EXCEPT ![r.nonce] = @ \cup {i}]
              /\ Finish(h, r, "created", i) /\ UNCHANGED conn
         ELSE /\ conn' = [conn EXCEPT ![i] = "closed"]
              /\ Finish(h, r, "refused", None) /\ UNCHANGED <<table, last, created>>
  /\ UNCHANGED <<now, stopped, next, locked, reading, seen, written, client, net>>

------------------------------------------------------------------------------
\* Requests of a session

\* The session is looked up under the lock and used after it is released.
Lookup(h, r) ==
  /\ At(h, "free") /\ r.kind # "create" /\ Authorized(r)
  /\ IF table[r.id] = "none" THEN Finish(h, r, "refused", None)
                             ELSE Work(h, r.kind, r, r.id)
  /\ UNCHANGED <<now, stopped, hub, client, net>>

Delete(h) ==
  /\ At(h, "delete")
  /\ Remove(handler[h].id, "session") /\ Finish(h, handler[h].req, "done", None)
  /\ UNCHANGED <<now, stopped, next, locked, reading, last, seen, written, created, client, net>>

InTurn(r) == r.seq = next[r.id]

\* write.TryLock and the sequence number.
PostLock(h) ==
  /\ At(h, "post")
  /\ LET r == handler[h].req
     IN  IF locked[r.id] \/ ~InTurn(r)
         THEN Finish(h, r, "refused", None) /\ UNCHANGED locked
         ELSE locked' = [locked EXCEPT ![r.id] = TRUE] /\ Work(h, "write", r, r.id)
  /\ UNCHANGED <<now, stopped, table, conn, next, reading, last, seen, written, created, client, net>>

\* A bug: a failed write only answers with an error.
PostFailedKeeps(h, r) == UNCHANGED <<table, conn>> /\ Finish(h, r, "refused", None)

\* A bug: a failed write removes the session and is answered as done.
PostFailedUnseen(h, r) == Remove(r.id, "session") /\ Finish(h, r, "done", None)

PostFailed(h, r) == Remove(r.id, "session") /\ Finish(h, r, "refused", None)

\* writeFull: all of the chunk on an open connection, or a part of it and the
\* session is removed.
PostWrite(h) ==
  /\ At(h, "write")
  /\ LET r == handler[h].req
         i == r.id
         chunk(whole) == [written EXCEPT ![i] = Append(@, [seq |-> r.seq, whole |-> whole])]
     IN  /\ locked' = [locked EXCEPT ![i] = FALSE]
         /\ \/ /\ conn[i] = "open" /\ written' = chunk(TRUE)
               /\ next' = [next EXCEPT ![i] = @ + 1] /\ last' = [last EXCEPT ![i] = now]
               /\ Finish(h, r, "done", None) /\ UNCHANGED <<table, conn>>
            \/ /\ written' = IF conn[i] = "open" THEN chunk(FALSE) ELSE written
               /\ PostFailed(h, r) /\ UNCHANGED <<next, last>>
  /\ UNCHANGED <<now, stopped, reading, seen, created, client, net>>

\* reading.CompareAndSwap, then the header of the stream.
GetBegin(h) ==
  /\ At(h, "get")
  /\ LET r == handler[h].req
     IN  IF reading[r.id]
         THEN Finish(h, r, "refused", None) /\ UNCHANGED reading
         ELSE /\ reading' = [reading EXCEPT ![r.id] = TRUE]
              /\ handler' = [handler EXCEPT ![h].step = "stream"]
              /\ answers' = answers \cup {[req |-> r, code |-> "done", id |-> None]}
  /\ UNCHANGED <<now, stopped, table, conn, next, locked, last, seen, written, created, client, net>>

\* Data comes down the stream.
StreamData(h) ==
  /\ At(h, "stream") /\ conn[handler[h].id] = "open" /\ last[handler[h].id] # now
  /\ last' = [last EXCEPT ![handler[h].id] = now]
  /\ UNCHANGED <<now, stopped, table, conn, next, locked, reading, seen, handler, client, net,
                 answers, written, created>>

\* The request's context ends (context.AfterFunc): the connection is closed while
\* the session stays in the table until the handler notices.
StreamCancel(h) ==
  /\ At(h, "stream") /\ conn[handler[h].id] = "open"
  /\ conn' = [conn EXCEPT ![handler[h].id] = "closed"]
  /\ UNCHANGED <<now, stopped, table, next, locked, reading, last, seen, handler, client, net,
                 answers, written, created>>

\* The stream ends: connection closed, backend silent or gone, or a write down
\* the stream failed.  The session goes with it.
StreamEnd(h) ==
  /\ At(h, "stream")
  /\ Remove(handler[h].id, "session")
  /\ handler' = [handler EXCEPT ![h] = Free]
  /\ UNCHANGED <<now, stopped, next, locked, reading, last, seen, client, net, answers,
                 written, created>>

------------------------------------------------------------------------------
\* cleanup, every second and when the hub stops

Stale == {i \in Sessions : now > last[i] + Idle}

CleanupOf(gone) ==
  /\ table' = [i \in Ids |-> IF i \in gone THEN "none" ELSE table[i]]
  /\ conn' = [i \in Ids |-> IF i \in gone /\ table[i] = "session" THEN "closed" ELSE conn[i]]

\* A bug: nonces are forgotten as soon as a fresh stamp would have expired.
ExpiredAtWindow == {x \in seen : now > x.time + Window}

Expired == {x \in seen : now > x.time + Retain}

\* Sessions past two hours go as well; their age is left open.
Cleanup ==
  /\ ~stopped
  /\ \E old \in SUBSET {i \in Ids : table[i] = "session"} :
       /\ Stale \cup old # {} \/ Expired # {}
       /\ CleanupOf(Stale \cup old)
  /\ seen' = seen \ Expired
  /\ UNCHANGED <<now, stopped, next, locked, reading, last, handler, client, net, answers,
                 written, created>>

Stop ==
  /\ ~stopped /\ stopped' = TRUE
  /\ CleanupOf(Sessions) /\ seen' = seen \ Expired
  /\ UNCHANGED <<now, next, locked, reading, last, handler, client, net, answers,
                 written, created>>

------------------------------------------------------------------------------
\* The client

Request(kind, id, seq) ==
  [kind |-> kind, nonce |-> client.nonce, id |-> id, seq |-> seq, stamp |-> now]

Send(r, step) == net' = net \cup {r} /\ client' = [client EXCEPT !.step = step]

\* A new local connection.  Its clock may be ahead of the hub's.
ClientCreate ==
  /\ client.step = "idle" /\ client.nonce < MaxClients
  /\ \E ahead \in 0..Window :
       net' = net \cup {[kind |-> "create", nonce |-> client.nonce + 1, id |-> None, seq |-> 0,
                         stamp |-> now + ahead]}
  /\ client' = [step |-> "creating", nonce |-> client.nonce + 1, id |-> None, acked |-> 0]
  /\ UNCHANGED <<now, stopped, hub, handler, answers>>

\* The answer the client reads to its latest request of a kind.
Reads(kind, codes) ==
  {a \in answers : a.req.kind = kind /\ a.req.nonce = client.nonce /\ a.code \in codes
                   /\ (kind = "post" => a.req.seq = client.acked)}

ClientCreated ==
  /\ client.step = "creating"
  /\ \E a \in Reads("create", {"created"}) :
       /\ client' = [client EXCEPT !.step = "getting", !.id = a.id]
       /\ net' = net \cup {Request("get", a.id, 0)}
  /\ UNCHANGED <<now, stopped, hub, handler, answers>>

ClientReady ==
  /\ client.step = "getting" /\ Reads("get", {"done"}) # {}
  /\ client' = [client EXCEPT !.step = "up"]
  /\ UNCHANGED <<now, stopped, hub, handler, net, answers>>

\* A chunk is read locally and posted.
ClientPost ==
  /\ client.step = "up" /\ client.acked < MaxChunks
  /\ Send(Request("post", client.id, client.acked), "posting")
  /\ UNCHANGED <<now, stopped, hub, handler, answers>>

ClientPosted ==
  /\ client.step = "posting" /\ Reads("post", {"done"}) # {}
  /\ client' = [client EXCEPT !.step = "up", !.acked = @ + 1]
  /\ UNCHANGED <<now, stopped, hub, handler, net, answers>>

\* A refusal, a timeout or the local end closing: the deferred DELETE is sent
\* once and the client is done.
ClientClose ==
  /\ client.step # "idle"
  /\ IF client.id = None THEN client' = [client EXCEPT !.step = "idle"] /\ UNCHANGED net
                         ELSE Send(Request("delete", client.id, 0), "idle")
  /\ UNCHANGED <<now, stopped, hub, handler, answers>>

Tick ==
  /\ now < MaxTime /\ now' = now + 1
  /\ UNCHANGED <<stopped, hub, handler, client, net, answers>>

Client == ClientCreate \/ ClientCreated \/ ClientReady \/ ClientPost \/ ClientPosted \/ ClientClose

\* What a handler does once it has accepted a request.
Continue(h) ==
  CreateDial(h) \/ CreateInstall(h) \/ Delete(h) \/ PostLock(h) \/ PostWrite(h) \/ GetBegin(h)

Next ==
  \/ \E h \in Handlers : \/ \E r \in net : CreateBegin(h, r) \/ Lookup(h, r)
                         \/ Continue(h) \/ StreamData(h) \/ StreamCancel(h) \/ StreamEnd(h)
  \/ Cleanup \/ Stop \/ Client \/ Tick

Spec == Init /\ [][Next]_vars

------------------------------------------------------------------------------
\* A captured and repeated creation makes no second session, however late it
\* arrives: a nonce is forgotten only after its stamp has expired.
CreatedOnce == \A n \in DOMAIN created : Cardinality(created[n]) <= 1

\* Upload is exactly once and in order under repeated and reordered POSTs; a
\* chunk of which only a part was written is the last thing the backend sees.
UploadExact ==
  \A i \in Ids : \A k \in 1..Len(written[i]) :
    written[i][k].seq = k - 1 /\ (written[i][k].whole \/ k = Len(written[i]))

\* What the client counts as sent has reached the backend whole.
AckedWritten ==
  client.id # None => \A k \in 1..client.acked :
                        k <= Len(written[client.id]) /\ written[client.id][k].whole

\* No backend connection is left behind: one that is open belongs to a session
\* of the table or to the handler that is about to install or close it.
NoOrphan ==
  \A i \in Ids : conn[i] = "open" =>
    table[i] = "session" \/ \E h \in Handlers : At(h, "install") /\ handler[h].id = i
=============================================================================
