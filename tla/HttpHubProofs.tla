---------------------------- MODULE HttpHubProofs ---------------------------
(***************************************************************************)
(* For every number of handlers, ids, clients and chunks, and every choice *)
(* of the time limits that keeps a nonce twice the window of its stamp: no *)
(* connection is orphaned, uploads are exact, what the client counts as    *)
(* sent was written, and no nonce makes two sessions.                      *)
(***************************************************************************)
EXTENDS HttpHub, FiniteSetTheorems, TLAPS

Requests ==
  [kind : {"create", "get", "post", "delete"}, nonce : 1..MaxClients, id : Ids \cup {None},
   seq : Nat, stamp : Nat]
Answers == [req : Requests, code : {"created", "done", "refused"}, id : Ids \cup {None}]
Jobs ==
  [step : {"dial", "install", "delete", "post", "write", "get", "stream"}, req : Requests, id : Ids]
Clients ==
  [step : {"idle", "creating", "getting", "up", "posting"}, nonce : 0..MaxClients,
   id : Ids \cup {None}, acked : Nat]
Chunks == [seq : Nat, whole : BOOLEAN]
Nonces == 1..MaxClients

\* The types of the variables.
Types ==
  /\ now \in Nat \ {0} /\ stopped \in BOOLEAN
  /\ table \in [Ids -> {"none", "placeholder", "session"}]
  /\ conn \in [Ids -> {"none", "open", "closed"}]
  /\ next \in [Ids -> Nat] /\ locked \in [Ids -> BOOLEAN] /\ reading \in [Ids -> BOOLEAN]
  /\ last \in [Ids -> Nat]
  /\ seen \subseteq [nonce : Nonces, time : Nat]
  /\ handler \in [Handlers -> {Free} \cup Jobs]
  /\ client \in Clients
  /\ net \subseteq Requests /\ answers \subseteq Answers
  /\ written \in [Ids -> Seq(Chunks)]
  /\ created \in [Nonces -> SUBSET Ids]

\* A request names a session that was made, and the session of its own client.
Named ==
  /\ \A r \in net : r.nonce <= client.nonce
  /\ \A r \in net : r.kind # "create" =>
       r.id \in Ids /\ conn[r.id] # "none" /\ (r.nonce = client.nonce => r.id = client.id)
  /\ \A r, s \in net : r.kind = "create" /\ s.kind = "create" /\ r.nonce = s.nonce => r = s
  /\ \A a \in answers : a.req \in net /\ (a.code = "created" => a.id \in Ids /\ conn[a.id] # "none")
  /\ client.id # None => conn[client.id] # "none"
  /\ client.step = "creating" => client.id = None /\ client.acked = 0
  /\ client.step \in {"getting", "up", "posting"} => client.id # None
  /\ client.step # "idle" \/ client.id # None => client.nonce # 0

Making(h) == handler[h].step \in {"dial", "install"}

\* What a handler works on is a request that was sent, of the kind its step
\* belongs to; an id being made is not connected before the dial returns.
JobOK(h) ==
  /\ ~At(h, "free") => handler[h].req \in net
  /\ Making(h) => handler[h].req.kind = "create" /\ last[handler[h].id] # 0
  /\ ~At(h, "free") /\ ~Making(h) => handler[h].req.kind # "create" /\ handler[h].id = handler[h].req.id
  /\ At(h, "delete") => handler[h].req.kind = "delete"
  /\ At(h, "get") => handler[h].req.kind = "get"
  /\ At(h, "dial") => conn[handler[h].id] = "none"
  /\ At(h, "install") => conn[handler[h].id] # "none"

\* An id being made is held by one handler.
Working ==
  /\ \A h \in Handlers : JobOK(h)
  /\ \A g, h \in Handlers : Making(g) /\ Making(h) /\ handler[g].id = handler[h].id => g = h
  /\ \A i \in Ids : table[i] = "session" => conn[i] # "none"

\* One writer per session, in turn; while the connection is open everything
\* written so far is whole and counted.
Writing ==
  /\ \A i \in Ids : conn[i] = "none" => written[i] = <<>> /\ next[i] = 0
  /\ \A i \in Ids : conn[i] = "open" =>
       Len(written[i]) = next[i] /\ \A k \in 1..Len(written[i]) : written[i][k].whole
  /\ \A h \in Handlers : At(h, "write") => locked[handler[h].id] /\ InTurn(handler[h].req)
  /\ \A g, h \in Handlers : At(g, "write") /\ At(h, "write") /\ handler[g].id = handler[h].id => g = h

\* A POST answered with success has its chunk whole in the backend.
Answered ==
  \A a \in answers : a.req.kind = "post" /\ a.code = "done" =>
    a.req.seq + 1 <= Len(written[a.req.id]) /\ written[a.req.id][a.req.seq + 1].whole

\* A nonce that a handler works on, or a session was made from.
Used(n) == created[n] # {} \/ \E h \in Handlers : Making(h) /\ handler[h].req.nonce = n

\* A used nonce is remembered until its stamp has expired; it has one handler
\* at most, and that one has made no session yet.
Remembered ==
  /\ \A x \in seen : x.nonce <= client.nonce
  /\ \A n \in Nonces : Used(n) => n <= client.nonce
  /\ \A x \in seen : \A r \in net :
       r.kind = "create" /\ r.nonce = x.nonce => r.stamp <= x.time + Window
  /\ \A n \in Nonces : Used(n) =>
       n \in SeenNonces \/ \A r \in net : r.kind = "create" /\ r.nonce = n => r.stamp + Window < now
  /\ \A g, h \in Handlers :
       Making(g) /\ Making(h) /\ handler[g].req.nonce = handler[h].req.nonce => g = h
  /\ \A h \in Handlers : Making(h) => created[handler[h].req.nonce] = {}
  /\ \A n \in Nonces : created[n] = {} \/ \E i \in Ids : created[n] = {i}

IInv == Types /\ Named /\ Working /\ Writing /\ UploadExact /\ Answered /\ AckedWritten
        /\ Remembered /\ NoOrphan

------------------------------------------------------------------------------
LEMMA InitInv == Init => IInv
<1> SUFFICES ASSUME Init PROVE IInv
  OBVIOUS
<1> USE HttpHubAssumption DEF Init
<1>1. Types
  <2>1. Free \in {Free} \cup Jobs /\ Window + 1 \in Nat \ {0} /\ client \in Clients
    BY DEF Clients
  <2>2. written \in [Ids -> Seq(Chunks)] /\ created \in [Nonces -> SUBSET Ids]
    BY DEF Nonces
  <2>3. QED BY <2>1, <2>2 DEF Types
<1>2. \A h \in Handlers : At(h, "free") /\ handler[h].step = "free"
  BY DEF At, Free
<1>3. Named /\ Answered /\ UploadExact /\ AckedWritten
  BY DEF Named, Answered, UploadExact, AckedWritten
<1>4. Working
  BY <1>2 DEF Working, JobOK, Making, At
<1>5. Writing
  BY <1>2 DEF Writing, At
<1>6. Remembered
  BY <1>2 DEF Remembered, Used, Making, Nonces
<1>7. NoOrphan
  BY DEF NoOrphan
<1>8. QED BY <1>1, <1>3, <1>4, <1>5, <1>6, <1>7 DEF IInv

\* What is known of a handler that has accepted a request.
LEMMA JobType ==
  ASSUME Types, NEW h \in Handlers, ~At(h, "free")
  PROVE  /\ handler[h] \in Jobs /\ handler[h].req \in Requests /\ handler[h].id \in Ids
         /\ handler[h].req.nonce \in Nonces
<1>1. handler[h] \in {Free} \cup Jobs /\ handler[h] # Free
  BY DEF Types, At, Free
<1>2. QED BY <1>1 DEF Jobs, Requests, Nonces

LEMMA StepFree ==
  ASSUME NEW h, NEW s \in {"dial", "install", "delete", "post", "write", "get", "stream"}, At(h, s)
  PROVE  ~At(h, "free")
BY DEF At

\* The types of what a handler leaves behind.
LEMMA FinishType ==
  ASSUME Types, NEW h \in Handlers, NEW r \in Requests, NEW code \in {"created", "done", "refused"},
         NEW id \in Ids \cup {None}, Finish(h, r, code, id)
  PROVE  handler' \in [Handlers -> {Free} \cup Jobs] /\ answers' \subseteq Answers
<1>1. [req |-> r, code |-> code, id |-> id] \in Answers
  BY DEF Answers
<1>2. QED BY <1>1 DEF Types, Finish

LEMMA WorkType ==
  ASSUME Types, NEW h \in Handlers, NEW r \in Requests, NEW id \in Ids,
         NEW s \in {"dial", "install", "delete", "post", "write", "get", "stream"}, Work(h, s, r, id)
  PROVE  handler' \in [Handlers -> {Free} \cup Jobs] /\ answers' \subseteq Answers
<1>1. [step |-> s, req |-> r, id |-> id] \in Jobs
  BY DEF Jobs
<1>2. QED BY <1>1 DEF Types, Work

LEMMA RemoveType ==
  ASSUME Types, NEW i \in Ids, NEW entry, Remove(i, entry)
  PROVE  /\ table' \in [Ids -> {"none", "placeholder", "session"}]
         /\ conn' \in [Ids -> {"none", "open", "closed"}]
BY DEF Types, Remove

LEMMA HandlerTypes ==
  ASSUME IInv, NEW h \in Handlers,
         \/ \E r \in net : CreateBegin(h, r) \/ Lookup(h, r)
         \/ Continue(h) \/ StreamData(h) \/ StreamCancel(h) \/ StreamEnd(h)
  PROVE  Types'
<1> USE DEF IInv
<1>1. ASSUME NEW r \in net, CreateBegin(h, r) PROVE Types'
  <2> USE <1>1 DEF CreateBegin
  <2>0. r \in Requests /\ r.nonce \in Nonces /\ now \in Nat
    BY DEF Types, Requests, Nonces
  <2>1. CASE r.nonce \in SeenNonces \/ Full
    <3>1. Finish(h, r, "refused", None) /\ UNCHANGED <<table, seen, last>>
      BY <2>1
    <3>2. QED BY <2>0, <3>1, FinishType DEF Types
  <2>2. CASE ~(r.nonce \in SeenNonces \/ Full)
    <3>1. PICK i \in Ids : /\ table' = [table EXCEPT ![i] = "placeholder"]
                           /\ last' = [last EXCEPT ![i] = now] /\ Work(h, "dial", r, i)
      BY <2>2
    <3>2. handler' \in [Handlers -> {Free} \cup Jobs] /\ answers' \subseteq Answers
      BY <2>0, <3>1, WorkType
    <3>3. seen' \subseteq [nonce : Nonces, time : Nat]
      BY <2>0, <2>2 DEF Types
    <3>4. QED BY <2>0, <3>1, <3>2, <3>3 DEF Types
  <2>3. QED BY <2>1, <2>2
<1>2. ASSUME NEW r \in net, Lookup(h, r) PROVE Types'
  <2>1. r \in Requests /\ r.kind \in {"delete", "post", "get"} /\ r.id \in Ids
    BY <1>2 DEF Lookup, Types, Requests, Named
  <2>2. handler' \in [Handlers -> {Free} \cup Jobs] /\ answers' \subseteq Answers
    BY <1>2, <2>1, FinishType, WorkType DEF Lookup
  <2>3. QED BY <1>2, <2>2 DEF Lookup, Types, hub
<1>3. CASE CreateDial(h)
  <2> USE <1>3 DEF CreateDial
  <2>0. handler[h].req \in Requests /\ handler[h].id \in Ids
    BY JobType, StepFree
  <2>1. CASE Work(h, "install", handler[h].req, handler[h].id) /\ UNCHANGED table
             /\ conn' = [conn EXCEPT ![handler[h].id] = "open"]
    <3>1. handler' \in [Handlers -> {Free} \cup Jobs] /\ answers' \subseteq Answers
      BY <2>0, <2>1, WorkType
    <3>2. QED BY <2>0, <2>1, <3>1 DEF Types
  <2>2. CASE Remove(handler[h].id, "placeholder") /\ Finish(h, handler[h].req, "refused", None)
    BY <2>0, <2>2, FinishType, RemoveType DEF Types
  <2>3. QED BY <2>1, <2>2
<1>4. CASE CreateInstall(h)
  <2> USE <1>4 DEF CreateInstall
  <2>0. handler[h].req \in Requests /\ handler[h].id \in Ids /\ handler[h].req.nonce \in Nonces
    BY JobType, StepFree
  <2>1. handler' \in [Handlers -> {Free} \cup Jobs] /\ answers' \subseteq Answers
    BY <2>0, FinishType
  <2>2. /\ table' \in [Ids -> {"none", "placeholder", "session"}]
        /\ conn' \in [Ids -> {"none", "open", "closed"}]
    BY <2>0 DEF Types
  <2>3. last' \in [Ids -> Nat]
    BY <2>0 DEF Types
  <2>4. created' \in [Nonces -> SUBSET Ids]
    <3>1. created[handler[h].req.nonce] \cup {handler[h].id} \in SUBSET Ids
      BY <2>0 DEF Types
    <3>2. QED BY <2>0, <3>1 DEF Types
  <2>5. QED BY <2>1, <2>2, <2>3, <2>4 DEF Types
<1>5. CASE Delete(h)
  <2>0. handler[h].req \in Requests /\ handler[h].id \in Ids
    BY <1>5, JobType, StepFree DEF Delete
  <2>1. QED BY <1>5, <2>0, FinishType, RemoveType DEF Delete, Types
<1>6. CASE PostLock(h)
  <2> USE <1>6 DEF PostLock
  <2>0. handler[h].req \in Requests /\ handler[h].req.id \in Ids
    BY JobType, StepFree DEF Working, JobOK, Making, At
  <2>1. handler' \in [Handlers -> {Free} \cup Jobs] /\ answers' \subseteq Answers
    BY <2>0, FinishType, WorkType
  <2>2. QED BY <2>0, <2>1 DEF Types
<1>7. CASE PostWrite(h)
  <2> USE <1>7 DEF PostWrite, PostFailed
  <2>0. handler[h].req \in Requests /\ handler[h].req.id \in Ids /\ handler[h].req.seq \in Nat
    BY JobType, StepFree DEF Working, JobOK, Making, At, Requests
  <2>1. handler' \in [Handlers -> {Free} \cup Jobs] /\ answers' \subseteq Answers
    BY <2>0, FinishType
  <2>2. /\ table' \in [Ids -> {"none", "placeholder", "session"}]
        /\ conn' \in [Ids -> {"none", "open", "closed"}]
    BY <2>0, RemoveType DEF Types
  <2>3. written' \in [Ids -> Seq(Chunks)]
    <3>1. \A w \in BOOLEAN : [seq |-> handler[h].req.seq, whole |-> w] \in Chunks
      BY <2>0 DEF Chunks
    <3>2. \A w \in BOOLEAN :
            Append(written[handler[h].req.id], [seq |-> handler[h].req.seq, whole |-> w]) \in Seq(Chunks)
      BY <2>0, <3>1 DEF Types
    <3>3. QED BY <2>0, <3>2 DEF Types
  <2>4. next' \in [Ids -> Nat]
    <3>1. next[handler[h].req.id] + 1 \in Nat /\ next \in [Ids -> Nat]
      BY <2>0 DEF Types
    <3>2. next' = next \/ next' = [next EXCEPT ![handler[h].req.id] = next[handler[h].req.id] + 1]
      OBVIOUS
    <3>3. QED BY <2>0, <3>1, <3>2
  <2>5. last' \in [Ids -> Nat]
    <3>1. last' = last \/ last' = [last EXCEPT ![handler[h].req.id] = now]
      OBVIOUS
    <3>2. QED BY <2>0, <3>1 DEF Types
  <2>6. locked' \in [Ids -> BOOLEAN]
    BY <2>0 DEF Types
  <2>7. QED BY <2>1, <2>2, <2>3, <2>4, <2>5, <2>6 DEF Types
<1>8. CASE GetBegin(h)
  <2> USE <1>8 DEF GetBegin
  <2>0. handler[h].req \in Requests /\ handler[h].req.id \in Ids /\ handler[h] \in Jobs
    BY JobType, StepFree DEF Working, JobOK, Making, At
  <2>1. handler' \in [Handlers -> {Free} \cup Jobs] /\ answers' \subseteq Answers
    <3>1. CASE Finish(h, handler[h].req, "refused", None)
      BY <2>0, <3>1, FinishType
    <3>2. CASE /\ handler' = [handler EXCEPT ![h].step = "stream"]
               /\ answers' = answers \cup {[req |-> handler[h].req, code |-> "done", id |-> None]}
      <4>1. [req |-> handler[h].req, code |-> "done", id |-> None] \in Answers
        BY <2>0 DEF Answers
      <4>2. [handler[h] EXCEPT !.step = "stream"] \in Jobs
        BY <2>0 DEF Jobs
      <4>3. QED BY <3>2, <4>1, <4>2 DEF Types
    <3>3. QED BY <3>1, <3>2
  <2>2. QED BY <2>0, <2>1 DEF Types
<1>9. CASE StreamData(h) \/ StreamCancel(h)
  <2>0. handler[h].id \in Ids
    BY <1>9, JobType, StepFree DEF StreamData, StreamCancel
  <2>1. CASE StreamData(h)
    BY <2>0, <2>1 DEF StreamData, Types
  <2>2. CASE StreamCancel(h)
    BY <2>0, <2>2 DEF StreamCancel, Types
  <2>3. QED BY <1>9, <2>1, <2>2
<1>10. CASE StreamEnd(h)
  <2>0. handler[h].id \in Ids
    BY <1>10, JobType, StepFree DEF StreamEnd
  <2>1. QED BY <1>10, <2>0, RemoveType DEF StreamEnd, Types
<1>11. QED BY <1>1, <1>2, <1>3, <1>4, <1>5, <1>6, <1>7, <1>8, <1>9, <1>10 DEF Continue

LEMMA OtherTypes == IInv /\ (Cleanup \/ Stop \/ Client \/ Tick) => Types'
<1> USE HttpHubAssumption DEF IInv
<1>1. ASSUME IInv, Cleanup \/ Stop PROVE Types'
  <2>1. /\ table' \in [Ids -> {"none", "placeholder", "session"}]
        /\ conn' \in [Ids -> {"none", "open", "closed"}]
    BY <1>1 DEF Cleanup, Stop, CleanupOf, Types
  <2>2. seen' \subseteq seen /\ stopped' \in BOOLEAN
    BY <1>1 DEF Cleanup, Stop, Types
  <2>3. UNCHANGED <<now, next, locked, reading, last, handler, client, net, answers, written, created>>
    BY <1>1 DEF Cleanup, Stop
  <2>4. QED BY <1>1, <2>1, <2>2, <2>3 DEF Types
<1>2. ASSUME IInv, Client PROVE Types'
  <2>1. UNCHANGED <<now, stopped, hub, handler, answers>>
    BY <1>2 DEF Client, ClientCreate, ClientCreated, ClientReady, ClientPost, ClientPosted, ClientClose
  <2>2. client' \in Clients /\ net' \subseteq Requests
    <3>1. /\ client \in Clients /\ client.nonce \in 0..MaxClients /\ client.acked \in Nat
          /\ client.id \in Ids \cup {None} /\ now \in Nat /\ net \subseteq Requests
      BY <1>2 DEF Types, Clients
    <3>2. CASE ClientCreate
      <4>1. client.nonce + 1 \in 1..MaxClients
        BY <3>1, <3>2 DEF ClientCreate
      <4>2. client' \in Clients
        BY <3>2, <4>1 DEF ClientCreate, Clients
      <4>3. PICK ahead \in 0..Window :
              net' = net \cup {[kind |-> "create", nonce |-> client.nonce + 1, id |-> None, seq |-> 0,
                                stamp |-> now + ahead]}
        BY <3>2 DEF ClientCreate
      <4>4. [kind |-> "create", nonce |-> client.nonce + 1, id |-> None, seq |-> 0, stamp |-> now + ahead]
              \in Requests
        BY <3>1, <4>1 DEF Requests
      <4>5. QED BY <3>1, <4>2, <4>3, <4>4
    <3>3. ASSUME client.nonce # 0 PROVE \A k \in {"get", "post", "delete"} : \A i \in Ids \cup {None} :
                                         \A n \in Nat : Request(k, i, n) \in Requests
      BY <3>1, <3>3 DEF Request, Requests
    <3>4. CASE ClientCreated
      <4>1. PICK a \in answers : /\ client' = [client EXCEPT !.step = "getting", !.id = a.id]
                                 /\ net' = net \cup {Request("get", a.id, 0)}
        BY <3>4 DEF ClientCreated, Reads
      <4>2. a.id \in Ids \cup {None} /\ client.nonce # 0
        BY <1>2, <3>4, <4>1 DEF Types, Answers, Named, ClientCreated
      <4>3. client' \in Clients
        BY <3>1, <4>1, <4>2 DEF Clients
      <4>4. QED BY <3>1, <3>3, <4>1, <4>2, <4>3
    <3>5. CASE ClientReady
      BY <3>1, <3>5 DEF ClientReady, Clients
    <3>6. CASE ClientPost
      <4>1. client' \in Clients
        BY <3>1, <3>6 DEF ClientPost, Send, Clients
      <4>2. client.nonce # 0
        BY <1>2, <3>6 DEF ClientPost, Named
      <4>3. QED BY <3>1, <3>3, <3>6, <4>1, <4>2 DEF ClientPost, Send
    <3>7. CASE ClientPosted
      <4>1. client' = [client EXCEPT !.step = "up", !.acked = client.acked + 1] /\ net' = net
        BY <3>7 DEF ClientPosted
      <4>2. client.acked + 1 \in Nat
        BY <3>1
      <4>3. client' \in Clients
        BY <3>1, <4>1, <4>2 DEF Clients
      <4>4. QED BY <3>1, <4>1, <4>3
    <3>8. CASE ClientClose
      <4>1. client' = [client EXCEPT !.step = "idle"] /\ client.nonce # 0
        BY <1>2, <3>8 DEF ClientClose, Send, Named
      <4>2. client' \in Clients
        BY <3>1, <4>1 DEF Clients
      <4>3. QED BY <3>1, <3>3, <3>8, <4>1, <4>2 DEF ClientClose, Send
    <3>9. QED BY <1>2, <3>2, <3>4, <3>5, <3>6, <3>7, <3>8 DEF Client
  <2>3. QED BY <1>2, <2>1, <2>2 DEF Types, hub
<1>3. ASSUME IInv, Tick PROVE Types'
  BY <1>3 DEF Tick, Types, hub
<1>4. QED BY <1>1, <1>2, <1>3

------------------------------------------------------------------------------
\* A connection once made is never unmade, and becomes open only when a dial
\* returns.
LEMMA Connected ==
  ASSUME IInv, Next
  PROVE  \A i \in Ids : /\ conn[i] # "none" => conn'[i] # "none"
                        /\ conn'[i] = "open" => conn[i] = "open" \/ \E h \in Handlers :
                                                  CreateDial(h) /\ handler[h].id = i
<1> USE DEF IInv
<1>1. ASSUME NEW h \in Handlers, NEW r \in net, CreateBegin(h, r) \/ Lookup(h, r)
      PROVE  conn' = conn
  BY <1>1 DEF CreateBegin, Lookup, hub
<1>2. ASSUME NEW h \in Handlers, CreateDial(h)
      PROVE  \A i \in Ids : /\ conn[i] # "none" => conn'[i] # "none"
                            /\ conn'[i] = "open" => conn[i] = "open" \/ handler[h].id = i
  BY <1>2 DEF CreateDial, Remove, Types
<1>3. ASSUME NEW h \in Handlers, CreateInstall(h) \/ Delete(h) \/ PostLock(h) \/ PostWrite(h)
                                 \/ GetBegin(h) \/ StreamData(h) \/ StreamCancel(h) \/ StreamEnd(h)
      PROVE  conn' = conn \/ \E i \in Ids \cup {None} : conn' = [conn EXCEPT ![i] = "closed"]
  <2>1. handler[h].id \in Ids /\ (PostWrite(h) => handler[h].req.id \in Ids)
    BY <1>3, JobType, StepFree DEF CreateInstall, Delete, PostLock, PostWrite, GetBegin, StreamData,
       StreamCancel, StreamEnd, Working, JobOK, Making, At
  <2>2. QED BY <1>3, <2>1 DEF CreateInstall, Delete, PostLock, PostWrite, PostFailed, GetBegin,
               StreamData, StreamCancel, StreamEnd, Remove
<1>4. CASE Cleanup \/ Stop
  BY <1>4 DEF Cleanup, Stop, CleanupOf, Types
<1>5. CASE Client \/ Tick
  BY <1>5 DEF Client, ClientCreate, ClientCreated, ClientReady, ClientPost, ClientPosted, ClientClose,
     Tick, hub
<1>6. QED
  <2>1. ASSUME NEW h \in Handlers, CreateInstall(h) \/ Delete(h) \/ PostLock(h) \/ PostWrite(h)
                                   \/ GetBegin(h) \/ StreamData(h) \/ StreamCancel(h) \/ StreamEnd(h)
        PROVE  \A i \in Ids : /\ conn[i] # "none" => conn'[i] # "none"
                              /\ conn'[i] = "open" => conn[i] = "open"
    BY <1>3, <2>1 DEF Types
  <2>2. QED BY <1>1, <1>2, <1>4, <1>5, <2>1 DEF Next, Continue

LEMMA NextTypes == IInv /\ Next => Types'
BY HandlerTypes, OtherTypes DEF Next

------------------------------------------------------------------------------
\* A handler step leaves the other handlers, the client and the network alone.
HandlerStep(h) ==
  \/ \E r \in net : CreateBegin(h, r) \/ Lookup(h, r)
  \/ Continue(h) \/ StreamData(h) \/ StreamCancel(h) \/ StreamEnd(h)

LEMMA Moves ==
  ASSUME IInv, NEW h \in Handlers, HandlerStep(h)
  PROVE  /\ \A g \in Handlers : g # h => handler'[g] = handler[g]
         /\ UNCHANGED <<now, stopped, client, net>>
<1> DEFINE P == \E r : handler' = [handler EXCEPT ![h] = r]
<1>1. P
  <2>1. handler = [handler EXCEPT ![h] = handler[h]]
    BY DEF IInv, Types
  <2>2. ASSUME NEW r \in net, CreateBegin(h, r) PROVE P
    BY <2>2 DEF CreateBegin, Finish, Work
  <2>3. ASSUME NEW r \in net, Lookup(h, r) PROVE P
    BY <2>3 DEF Lookup, Finish, Work
  <2>4. CASE CreateDial(h) \/ CreateInstall(h) \/ Delete(h)
    BY <2>4 DEF CreateDial, CreateInstall, Delete, Finish, Work
  <2>5. CASE PostLock(h) \/ PostWrite(h)
    BY <2>5 DEF PostLock, PostWrite, PostFailed, Finish, Work
  <2>6. CASE GetBegin(h)
    BY <2>6 DEF GetBegin, Finish
  <2>7. CASE StreamData(h) \/ StreamCancel(h) \/ StreamEnd(h)
    BY <2>1, <2>7 DEF StreamData, StreamCancel, StreamEnd
  <2>8. QED BY <2>2, <2>3, <2>4, <2>5, <2>6, <2>7 DEF HandlerStep, Continue
<1>2. \A g \in Handlers : g # h => handler'[g] = handler[g]
  BY <1>1 DEF IInv, Types
<1>3. UNCHANGED <<now, stopped, client, net>>
  BY DEF HandlerStep, Continue, CreateBegin, Lookup, CreateDial, CreateInstall, Delete, PostLock, PostWrite,
     GetBegin, StreamData, StreamCancel, StreamEnd
<1>4. QED BY <1>2, <1>3

\* The handler's new job, by action.
LEMMA AfterStep ==
  ASSUME IInv, NEW h \in Handlers
  PROVE  /\ \A r, code, id : Finish(h, r, code, id) => handler'[h] = Free
         /\ \A st, r, id : Work(h, st, r, id) =>
              handler'[h].step = st /\ handler'[h].req = r /\ handler'[h].id = id
BY DEF IInv, Types, Finish, Work

\* A step answers at most the request its handler works on, and "created" only
\* with the id it has just installed.
LEMMA NewAnswers ==
  ASSUME IInv, NEW h \in Handlers, HandlerStep(h), NEW a \in answers', a \notin answers
  PROVE  /\ a.req \in net
         /\ a.code = "created" => CreateInstall(h) /\ a.id = handler[h].id
         /\ a.code = "done" => (Delete(h) \/ GetBegin(h) \/ PostWrite(h)) /\ a.req = handler[h].req
<1> USE DEF IInv
<1>1. ~At(h, "free") => handler[h].req \in net
  BY DEF Working, JobOK
<1>2. ASSUME NEW r \in net, CreateBegin(h, r) \/ Lookup(h, r)
      PROVE  a.req = r /\ a.code = "refused"
  BY <1>2 DEF CreateBegin, Lookup, Finish, Work
<1>3. ASSUME CreateDial(h) \/ PostLock(h)
      PROVE  a.req = handler[h].req /\ a.code = "refused" /\ ~At(h, "free")
  BY <1>3 DEF CreateDial, PostLock, Finish, Work, At
<1>4. ASSUME CreateInstall(h)
      PROVE  a.req = handler[h].req /\ a.code # "done" /\ ~At(h, "free")
             /\ (a.code = "created" => a.id = handler[h].id)
  BY <1>4 DEF CreateInstall, Finish, At
<1>5. ASSUME Delete(h) \/ GetBegin(h) \/ PostWrite(h)
      PROVE  a.req = handler[h].req /\ a.code # "created" /\ ~At(h, "free")
  <2>1. CASE Delete(h)
    BY <2>1 DEF Delete, Finish, At
  <2>2. CASE GetBegin(h)
    BY <2>2 DEF GetBegin, Finish, At
  <2>3. CASE PostWrite(h)
    <3>1. At(h, "write") /\ (Finish(h, handler[h].req, "done", None)
                             \/ Finish(h, handler[h].req, "refused", None))
      BY <2>3 DEF PostWrite, PostFailed
    <3>2. QED BY <3>1 DEF Finish, At
  <2>4. QED BY <1>5, <2>1, <2>2, <2>3
<1>6. CASE StreamData(h) \/ StreamCancel(h) \/ StreamEnd(h)
  BY <1>6 DEF StreamData, StreamCancel, StreamEnd
<1>7. QED BY <1>1, <1>2, <1>3, <1>4, <1>5, <1>6 DEF HandlerStep, Continue

LEMMA HandlerNamed ==
  ASSUME IInv, NEW h \in Handlers, HandlerStep(h)
  PROVE  Named'
<1>1. UNCHANGED <<client, net>>
  BY Moves
<1>2. \A i \in Ids : conn[i] # "none" => conn'[i] # "none"
  BY Connected DEF Next, HandlerStep
<1>3. ASSUME NEW a \in answers' PROVE a.req \in net /\ (a.code = "created" => a.id \in Ids /\ conn'[a.id] # "none")
  <2>1. CASE a \in answers
    BY <1>2, <2>1 DEF IInv, Named
  <2>2. CASE a \notin answers
    <3>1. CASE a.code = "created"
      <4>1. a.id = handler[h].id /\ At(h, "install") /\ a.req \in net
        BY <2>2, <3>1, NewAnswers DEF CreateInstall
      <4>2. a.id \in Ids /\ conn[a.id] # "none"
        BY <4>1, JobType, StepFree DEF IInv, Working, JobOK
      <4>3. QED BY <1>2, <4>1, <4>2
    <3>2. QED BY <2>2, <3>1, NewAnswers
  <2>3. QED BY <2>1, <2>2
<1>4. client.id \in Ids \cup {None} /\ \A r \in net : r.id \in Ids \cup {None}
  BY DEF IInv, Types, Clients, Requests
<1>5. QED BY <1>1, <1>2, <1>3, <1>4 DEF IInv, Named

LEMMA OtherNamed == IInv /\ (Cleanup \/ Stop \/ Client \/ Tick) => Named'
<1> USE HttpHubAssumption
<1>0. IInv => client.id \in Ids \cup {None} /\ client.nonce \in Nat /\ \A r \in net : r.nonce \in Nat
  BY DEF IInv, Types, Clients, Requests
<1>1. ASSUME IInv, Cleanup \/ Stop \/ Tick PROVE Named'
  <2>1. UNCHANGED <<client, net, answers>>
    BY <1>1 DEF Cleanup, Stop, Tick
  <2>2. \A i \in Ids : conn[i] # "none" => conn'[i] # "none"
    BY <1>1, Connected DEF Next
  <2>3. QED BY <1>0, <1>1, <2>1, <2>2 DEF IInv, Named
<1>2. ASSUME IInv, ClientCreate PROVE Named'
  <2> USE <1>2 DEF ClientCreate
  <2>1. PICK ahead \in 0..Window :
          net' = net \cup {[kind |-> "create", nonce |-> client.nonce + 1, id |-> None, seq |-> 0,
                            stamp |-> now + ahead]}
    OBVIOUS
  <2>2. client'.step = "creating" /\ client'.nonce = client.nonce + 1 /\ client'.id = None
    OBVIOUS
  <2>3. QED BY <1>0, <2>1, <2>2 DEF IInv, Named, hub
<1>3. ASSUME IInv, ClientCreated PROVE Named'
  <2> USE <1>3 DEF ClientCreated
  <2>1. PICK a \in answers : /\ a.code = "created"
                             /\ client' = [client EXCEPT !.step = "getting", !.id = a.id]
                             /\ net' = net \cup {Request("get", a.id, 0)}
    BY DEF Reads
  <2>2. a.id \in Ids /\ conn[a.id] # "none" /\ client.id = None /\ client.nonce # 0
    BY <2>1 DEF IInv, Named
  <2>3. client'.step = "getting" /\ client'.nonce = client.nonce /\ client'.id = a.id
    BY <2>1 DEF IInv, Types, Clients
  <2>4. \A r \in net : r.kind # "create" => r.nonce # client.nonce
    BY <2>2 DEF IInv, Named
  <2>5. QED BY <1>0, <2>1, <2>2, <2>3, <2>4 DEF IInv, Named, Request, hub
<1>4. ASSUME IInv, ClientReady \/ ClientPosted PROVE Named'
  <2>1. /\ client.step # "idle" /\ client'.step = "up" /\ client'.nonce = client.nonce
        /\ client'.id = client.id /\ client.id # None /\ UNCHANGED <<net, answers, conn>>
    BY <1>4 DEF ClientReady, ClientPosted, IInv, Types, Clients, Named, hub
  <2>2. QED BY <1>4, <2>1 DEF IInv, Named
<1>5. ASSUME IInv, ClientPost \/ ClientClose PROVE Named'
  <2>1. /\ client'.step \in {"idle", "posting"} /\ client'.nonce = client.nonce
        /\ client'.id = client.id /\ client.nonce # 0 /\ UNCHANGED <<answers, conn>>
        /\ client'.step = "posting" => client.id # None
    BY <1>5 DEF ClientPost, ClientClose, Send, IInv, Types, Clients, Named, hub
  <2>2. net' = net \/ (client.id # None /\ \E k \in {"post", "delete"} : \E n :
                                             net' = net \cup {Request(k, client.id, n)})
    <3>1. CASE ClientPost
      <4>1. client.id # None
        BY <1>5, <3>1 DEF ClientPost, IInv, Named
      <4>2. QED BY <3>1, <4>1 DEF ClientPost, Send
    <3>2. CASE ClientClose
      BY <3>2 DEF ClientClose, Send
    <3>3. QED BY <1>5, <3>1, <3>2
  <2>3. QED BY <1>0, <1>5, <2>1, <2>2 DEF IInv, Named, Request
<1>6. QED BY <1>1, <1>2, <1>3, <1>4, <1>5 DEF Client

------------------------------------------------------------------------------
\* The id a handler works on is being made by it or has been made.
LEMMA JobId ==
  ASSUME IInv, NEW h \in Handlers, ~At(h, "free")
  PROVE  /\ handler[h].id \in Ids
         /\ ~Making(h) => handler[h].req.id = handler[h].id
         /\ ~At(h, "dial") => conn[handler[h].id] # "none"
<1>1. handler[h] \in Jobs /\ handler[h].id \in Ids
  BY JobType DEF IInv
<1>2. QED BY <1>1 DEF IInv, Working, JobOK, Named, Making, At

\* A handler step changes the connection and the table at its own id only.
LEMMA Touched ==
  ASSUME IInv, NEW h \in Handlers, HandlerStep(h), NEW i \in Ids, conn'[i] # conn[i]
  PROVE  ~At(h, "free") /\ i = handler[h].id
<1> USE DEF IInv
<1>1. ~\E r \in net : CreateBegin(h, r) \/ Lookup(h, r)
  BY DEF CreateBegin, Lookup, hub
<1>2. ~At(h, "free")
  BY <1>1, StepFree DEF HandlerStep, Continue, CreateDial, CreateInstall, Delete, PostLock, PostWrite,
     GetBegin, StreamData, StreamCancel, StreamEnd
<1>3. /\ handler[h].id \in Ids
      /\ At(h, "write") => handler[h].req.id = handler[h].id
  BY <1>2, JobId DEF Making, At
<1>4. CASE CreateDial(h) \/ CreateInstall(h) \/ Delete(h)
  BY <1>2, <1>3, <1>4 DEF CreateDial, CreateInstall, Delete, Remove, Types
<1>5. CASE PostLock(h) \/ GetBegin(h) \/ StreamData(h)
  BY <1>5 DEF PostLock, GetBegin, StreamData
<1>6. CASE PostWrite(h)
  BY <1>2, <1>3, <1>6 DEF PostWrite, PostFailed, Remove, Types
<1>7. CASE StreamCancel(h) \/ StreamEnd(h)
  BY <1>2, <1>3, <1>7 DEF StreamCancel, StreamEnd, Remove, Types
<1>8. QED BY <1>1, <1>4, <1>5, <1>6, <1>7 DEF HandlerStep, Continue

\* An id keeps having been used.
LEMMA LastKept ==
  ASSUME IInv, NEW h \in Handlers, HandlerStep(h), NEW i \in Ids, last[i] # 0
  PROVE  last'[i] # 0
<1>1. last' = last \/ \E j : last' = [last EXCEPT ![j] = now]
  BY DEF HandlerStep, Continue, CreateBegin, Lookup, CreateDial, CreateInstall, Delete, PostLock, PostWrite,
     GetBegin, StreamData, StreamCancel, StreamEnd, hub
<1>2. QED BY <1>1 DEF IInv, Types

LEMMA HandlerWorking ==
  ASSUME IInv, NEW h \in Handlers, HandlerStep(h)
  PROVE  Working'
<1> USE DEF IInv
<1>1. Types'
  BY HandlerTypes DEF HandlerStep
<1>2. ASSUME NEW g \in Handlers, g # h PROVE JobOK(g)' /\ (Making(g)' <=> Making(g))
  <2>1. handler'[g] = handler[g] /\ net' = net
    BY <1>2, Moves
  <2>2. At(g, "dial") => conn'[handler[g].id] = "none"
    <3>1. SUFFICES ASSUME At(g, "dial"), conn'[handler[g].id] # "none" PROVE FALSE
      OBVIOUS
    <3>2. handler[g].id \in Ids /\ conn[handler[g].id] = "none" /\ Making(g)
      BY <3>1, JobId, StepFree DEF Working, JobOK, Making, At
    <3>3. ~At(h, "free") /\ handler[g].id = handler[h].id
      BY <3>1, <3>2, Touched
    <3>4. At(h, "dial") => Making(h)
      BY DEF At, Making
    <3>5. QED BY <1>2, <3>2, <3>3, <3>4, JobId DEF Working
  <2>3. At(g, "install") => conn'[handler[g].id] # "none"
    BY JobId, StepFree, Connected DEF Next, HandlerStep, Working, JobOK
  <2>4. Making(g) => last'[handler[g].id] # 0
    BY JobId, LastKept DEF Working, JobOK, Making, At
  <2>5. QED BY <2>1, <2>2, <2>3, <2>4 DEF Working, JobOK, Making, At
<1>3. net' = net
  BY Moves
<1> DEFINE Q == /\ JobOK(h)'
                /\ Making(h)' => \A g \in Handlers : g # h /\ Making(g) => handler'[h].id # handler[g].id
<1>4. Q
  <2>1. ASSUME handler'[h] = Free PROVE Q
    BY <2>1 DEF JobOK, Making, At, Free
  <2>2. ASSUME NEW r \in net, CreateBegin(h, r) PROVE Q
    <3>1. CASE r.nonce \in SeenNonces \/ Full
      BY <2>1, <2>2, <3>1, AfterStep DEF CreateBegin
    <3>2. CASE ~(r.nonce \in SeenNonces \/ Full)
      <4>1. PICK i \in Ids : Unused(i) /\ last' = [last EXCEPT ![i] = now] /\ Work(h, "dial", r, i)
        BY <2>2, <3>2 DEF CreateBegin
      <4>2. handler'[h].step = "dial" /\ handler'[h].req = r /\ handler'[h].id = i
        BY <4>1, AfterStep
      <4>3. r.kind = "create" /\ conn' = conn /\ conn[i] = "none" /\ last'[i] # 0 /\ last[i] = 0
        BY <2>2, <4>1 DEF CreateBegin, Unused, Types
      <4>4. \A g \in Handlers : Making(g) => handler[g].id # i
        BY <4>3 DEF Working, JobOK
      <4>5. QED BY <1>3, <4>2, <4>3, <4>4 DEF JobOK, Making, At
    <3>3. QED BY <3>1, <3>2
  <2>3. ASSUME NEW r \in net, Lookup(h, r) PROVE Q
    <3>1. CASE Finish(h, r, "refused", None)
      BY <2>1, <3>1, AfterStep
    <3>2. CASE Work(h, r.kind, r, r.id)
      <4>1. handler'[h].step = r.kind /\ handler'[h].req = r /\ handler'[h].id = r.id
        BY <3>2, AfterStep
      <4>2. r.kind \in {"get", "post", "delete"}
        BY <2>3 DEF Lookup, Types, Requests
      <4>3. QED BY <1>3, <4>1, <4>2 DEF JobOK, Making, At
    <3>3. QED BY <2>3, <3>1, <3>2 DEF Lookup
  <2>4. CASE CreateDial(h)
    <3>1. CASE Finish(h, handler[h].req, "refused", None)
      BY <2>1, <3>1, AfterStep
    <3>2. CASE Work(h, "install", handler[h].req, handler[h].id)
               /\ conn' = [conn EXCEPT ![handler[h].id] = "open"]
      <4>1. Making(h) /\ ~At(h, "free") /\ handler[h].id \in Ids
        BY <2>4, JobId DEF CreateDial, Making, At
      <4>2. /\ handler'[h].step = "install" /\ handler'[h].req = handler[h].req
            /\ handler'[h].id = handler[h].id
        BY <3>2, AfterStep
      <4>3. conn'[handler[h].id] # "none" /\ last' = last
        BY <2>4, <3>2, <4>1 DEF CreateDial, Types
      <4>4. QED BY <1>3, <4>1, <4>2, <4>3 DEF JobOK, Making, At, Working
    <3>3. QED BY <2>4, <3>1, <3>2 DEF CreateDial
  <2>5. CASE CreateInstall(h) \/ Delete(h) \/ PostWrite(h)
    <3>1. \E r, code, id : Finish(h, r, code, id)
      BY <2>5 DEF CreateInstall, Delete, PostWrite, PostFailed
    <3>2. QED BY <2>1, <3>1, AfterStep
  <2>6. CASE PostLock(h)
    <3>1. CASE Finish(h, handler[h].req, "refused", None)
      BY <2>1, <3>1, AfterStep
    <3>2. CASE Work(h, "write", handler[h].req, handler[h].req.id)
      <4>1. /\ handler'[h].step = "write" /\ handler'[h].req = handler[h].req
            /\ handler'[h].id = handler[h].req.id
        BY <3>2, AfterStep
      <4>2. ~Making(h) /\ ~At(h, "free")
        BY <2>6 DEF PostLock, Making, At
      <4>3. QED BY <1>3, <4>1, <4>2 DEF JobOK, Making, At, Working
    <3>3. QED BY <2>6, <3>1, <3>2 DEF PostLock
  <2>7. CASE GetBegin(h)
    <3>1. CASE Finish(h, handler[h].req, "refused", None)
      BY <2>1, <3>1, AfterStep
    <3>2. CASE handler' = [handler EXCEPT ![h].step = "stream"]
      <4>1. ~Making(h) /\ ~At(h, "free") /\ handler[h] \in Jobs
        BY <2>7, JobType DEF GetBegin, Making, At
      <4>2. /\ handler'[h].step = "stream" /\ handler'[h].req = handler[h].req
            /\ handler'[h].id = handler[h].id
        BY <3>2, <4>1 DEF Types, Jobs
      <4>3. QED BY <1>3, <4>1, <4>2 DEF JobOK, Making, At, Working
    <3>3. QED BY <2>7, <3>1, <3>2 DEF GetBegin
  <2>8. CASE StreamEnd(h)
    BY <2>1, <2>8 DEF StreamEnd, Types
  <2>9. CASE StreamData(h) \/ StreamCancel(h)
    <3>1. handler' = handler /\ At(h, "stream")
      BY <2>9 DEF StreamData, StreamCancel
    <3>2. QED BY <1>3, <3>1 DEF JobOK, Making, At, Working
  <2>10. QED BY <2>2, <2>3, <2>4, <2>5, <2>6, <2>7, <2>8, <2>9 DEF HandlerStep, Continue
<1>5. \A g, k \in Handlers : (Making(g) /\ Making(k) /\ handler[g].id = handler[k].id => g = k)'
  <2>1. \A g \in Handlers : g # h => handler'[g] = handler[g]
    BY Moves
  <2>2. QED BY <1>2, <1>4, <2>1 DEF Working
<1>6. ASSUME NEW i \in Ids, table'[i] = "session" PROVE conn'[i] # "none"
  <2>1. conn[i] # "none" => conn'[i] # "none"
    BY Connected DEF Next, HandlerStep
  <2>2. CASE table[i] = "session"
    BY <2>1, <2>2 DEF Working
  <2>3. CASE table[i] # "session"
    <3>1. At(h, "install") /\ handler[h].id = i
      BY <1>6, <2>3 DEF HandlerStep, Continue, CreateBegin, Lookup, CreateDial, CreateInstall, Delete,
         PostLock, PostWrite, PostFailed, GetBegin, StreamData, StreamCancel, StreamEnd, Remove, Types, hub
    <3>2. QED BY <2>1, <3>1 DEF Working, JobOK
  <2>4. QED BY <2>2, <2>3
<1>7. QED BY <1>2, <1>4, <1>5, <1>6 DEF Working

\* A step of the client, the clock or cleanup leaves the handlers alone.
LEMMA OtherWorking == IInv /\ (Cleanup \/ Stop \/ Client \/ Tick) => Working'
<1> SUFFICES ASSUME IInv, Cleanup \/ Stop \/ Client \/ Tick PROVE Working'
  OBVIOUS
<1> USE DEF IInv
<1>1. handler' = handler /\ net \subseteq net' /\ last' = last
  BY DEF Cleanup, Stop, Client, ClientCreate, ClientCreated, ClientReady, ClientPost, ClientPosted,
     ClientClose, Send, Tick, hub
<1>2. \A i \in Ids : /\ conn[i] # "none" => conn'[i] # "none"
                     /\ table'[i] = "session" => table[i] = "session"
                     /\ conn'[i] # conn[i] => table[i] = "session"
  <2>1. CASE Cleanup \/ Stop
    BY <2>1 DEF Cleanup, Stop, CleanupOf, Types
  <2>2. CASE Client \/ Tick
    BY <2>2 DEF Client, ClientCreate, ClientCreated, ClientReady, ClientPost, ClientPosted,
       ClientClose, Send, Tick, hub
  <2>3. QED BY <2>1, <2>2
<1>3. \A h \in Handlers : ~At(h, "free") => handler[h].id \in Ids
  BY JobType
<1>4. ASSUME NEW h \in Handlers PROVE JobOK(h)'
  BY <1>1, <1>2, <1>3 DEF Working, JobOK, Making, At
<1>5. QED BY <1>1, <1>2, <1>4 DEF Working, Making

------------------------------------------------------------------------------
\* Both outcomes of writeFull.
LEMMA PostOutcome ==
  ASSUME IInv, NEW h \in Handlers, PostWrite(h)
  PROVE  LET i == handler[h].id
             grown(w) == [written EXCEPT ![i] = Append(@, [seq |-> next[i], whole |-> w])]
         IN  /\ i \in Ids /\ handler[h].req.id = i /\ handler[h].req.seq = next[i]
             /\ handler' = [handler EXCEPT ![h] = Free] /\ locked' = [locked EXCEPT ![i] = FALSE]
             /\ \/ /\ conn[i] = "open" /\ written' = grown(TRUE) /\ conn' = conn
                   /\ next' = [next EXCEPT ![i] = next[i] + 1]
                \/ /\ written' = written \/ (conn[i] = "open" /\ written' = grown(FALSE))
                   /\ conn' = [conn EXCEPT ![i] = "closed"] /\ next' = next
                   /\ answers' = answers \cup {[req |-> handler[h].req, code |-> "refused", id |-> None]}
<1>1. handler[h].id \in Ids /\ handler[h].req.id = handler[h].id /\ At(h, "write")
  BY JobId, StepFree DEF PostWrite, Making, At
<1>2. handler[h].req.seq = next[handler[h].id]
  BY <1>1 DEF IInv, Writing, InTurn
<1>3. QED BY <1>1, <1>2 DEF PostWrite, PostFailed, Remove, Finish

\* Nothing written is ever taken back.
LEMMA AppendChunk ==
  ASSUME NEW q \in Seq(Chunks), NEW c \in Chunks
  PROVE  /\ Len(q) \in Nat /\ Len(Append(q, c)) = Len(q) + 1
         /\ \A k \in 1..Len(q) : Append(q, c)[k] = q[k]
         /\ Append(q, c)[Len(q) + 1] = c
OBVIOUS

LEMMA ChunkAppended ==
  ASSUME NEW q \in Seq(Chunks), NEW c \in Chunks, c.seq = Len(q),
         \A k \in 1..Len(q) : q[k].whole /\ q[k].seq = k - 1
  PROVE  /\ Len(Append(q, c)) = Len(q) + 1
         /\ \A k \in 1..Len(Append(q, c)) :
              /\ Append(q, c)[k].seq = k - 1
              /\ Append(q, c)[k].whole \/ (k = Len(Append(q, c)) /\ ~c.whole)
<1>1. /\ Len(q) \in Nat /\ Len(Append(q, c)) = Len(q) + 1
      /\ \A k \in 1..Len(q) : Append(q, c)[k] = q[k]
      /\ Append(q, c)[Len(q) + 1] = c
  BY AppendChunk
<1>2. \A k \in 1..(Len(q) + 1) : k \in 1..Len(q) \/ k = Len(q) + 1
  BY <1>1
<1>3. QED BY <1>1, <1>2

LEMMA WrittenKept ==
  ASSUME IInv, NEW h \in Handlers, HandlerStep(h), ~PostWrite(h)
  PROVE  written' = written /\ next' = next
BY DEF HandlerStep, Continue, CreateBegin, Lookup, CreateDial, CreateInstall, Delete, PostLock,
   GetBegin, StreamData, StreamCancel, StreamEnd, hub

LEMMA OtherKept ==
  ASSUME Cleanup \/ Stop \/ Client \/ Tick
  PROVE  UNCHANGED <<written, next, locked, handler, answers>>
BY DEF Cleanup, Stop, Client, ClientCreate, ClientCreated, ClientReady, ClientPost, ClientPosted,
   ClientClose, Send, Tick, hub

LEMMA Grown ==
  ASSUME IInv, NEW h \in Handlers, HandlerStep(h), NEW i \in Ids
  PROVE  /\ Len(written[i]) \in Nat /\ Len(written'[i]) \in Nat /\ Len(written[i]) <= Len(written'[i])
         /\ \A k \in 1..Len(written[i]) : written'[i][k] = written[i][k]
<1>1. CASE ~PostWrite(h)
  BY <1>1, WrittenKept DEF IInv, Types
<1>2. CASE PostWrite(h)
  <2> DEFINE c(w) == [seq |-> next[handler[h].id], whole |-> w]
  <2>1. \A w \in BOOLEAN : c(w) \in Chunks
    BY <1>2, PostOutcome DEF IInv, Types, Chunks
  <2>2. \/ written'[i] = written[i]
        \/ \E w \in BOOLEAN : written'[i] = Append(written[i], c(w))
    <3>1. \/ written' = written
          \/ \E w \in BOOLEAN : written' = [written EXCEPT ![handler[h].id] = Append(@, c(w))]
      BY <1>2, PostOutcome
    <3>2. QED BY <3>1 DEF IInv, Types
  <2> HIDE DEF c
  <2>3. written[i] \in Seq(Chunks)
    BY DEF IInv, Types
  <2>4. QED BY <2>1, <2>2, <2>3, AppendChunk
<1>3. QED BY <1>1, <1>2

LEMMA HandlerWriting ==
  ASSUME IInv, NEW h \in Handlers, HandlerStep(h)
  PROVE  Writing' /\ UploadExact'
<1> USE DEF IInv
<1>1. \A i \in Ids : conn'[i] = "none" => conn[i] = "none"
  BY Connected DEF Next, HandlerStep
<1>2. \A g \in Handlers : g # h => handler'[g] = handler[g]
  BY Moves
<1>3. CASE ~PostWrite(h)
  <2>1. written' = written /\ next' = next
    BY <1>3, WrittenKept
  <2>2. UploadExact'
    BY <2>1 DEF UploadExact
  <2>3. \A i \in Ids : conn'[i] = "none" => written'[i] = <<>> /\ next'[i] = 0
    BY <1>1, <2>1 DEF Writing
  <2>4. ASSUME NEW i \in Ids, conn'[i] = "open"
        PROVE  Len(written'[i]) = next'[i] /\ \A k \in 1..Len(written'[i]) : written'[i][k].whole
    <3>1. CASE conn[i] = "open"
      BY <2>1, <3>1 DEF Writing
    <3>2. CASE conn[i] = "none"
      <4>1. written[i] = <<>> /\ next[i] = 0
        BY <3>2 DEF Writing
      <4>2. QED BY <2>1, <4>1
    <3>3. conn[i] = "open" \/ \E g \in Handlers : CreateDial(g) /\ handler[g].id = i
      BY <2>4, Connected DEF Next, HandlerStep
    <3>4. \A g \in Handlers : CreateDial(g) => conn[handler[g].id] = "none"
      BY DEF CreateDial, Working, JobOK
    <3>5. QED BY <3>1, <3>2, <3>3, <3>4
  <2>5. locked' = locked \/ PostLock(h)
    BY <1>3 DEF HandlerStep, Continue, CreateBegin, Lookup, CreateDial, CreateInstall, Delete,
       GetBegin, StreamData, StreamCancel, StreamEnd, hub
  <2>6. CASE PostLock(h) /\ At(h, "write")'
    <3>1. ~At(h, "free") /\ ~Making(h)
      BY <2>6, StepFree DEF PostLock, Making, At
    <3>2. handler[h].id \in Ids /\ handler[h].req.id = handler[h].id
      BY <3>1, JobId
    <3>3. /\ ~locked[handler[h].id] /\ InTurn(handler[h].req)
          /\ locked' = [locked EXCEPT ![handler[h].id] = TRUE]
          /\ Work(h, "write", handler[h].req, handler[h].id)
      BY <2>6, <3>2, AfterStep DEF PostLock, Free, At
    <3>4. handler'[h].req = handler[h].req /\ handler'[h].id = handler[h].id
      BY <3>3, AfterStep
    <3>5. ASSUME NEW g \in Handlers, g # h, At(g, "write")
          PROVE  handler[g].id # handler[h].id /\ handler[g].id \in Ids
      BY <3>3, <3>5, JobId, StepFree DEF Writing
    <3>6. ASSUME NEW g \in Handlers, At(g, "write")'
          PROVE  locked'[handler'[g].id] /\ InTurn(handler[g].req)'
      <4>1. CASE g = h
        BY <2>1, <3>2, <3>3, <3>4, <4>1 DEF InTurn, Types
      <4>2. CASE g # h
        <5>1. handler'[g] = handler[g] /\ At(g, "write")
          BY <1>2, <3>6, <4>2 DEF At
        <5>2. QED BY <2>1, <3>3, <3>5, <4>2, <5>1 DEF Writing, InTurn, Types
      <4>3. QED BY <4>1, <4>2
    <3>7. \A f, g \in Handlers : (At(f, "write") /\ At(g, "write") /\ handler[f].id = handler[g].id => f = g)'
      BY <1>2, <3>4, <3>5 DEF Writing, At
    <3>8. QED BY <2>2, <2>3, <2>4, <3>6, <3>7 DEF Writing
  <2>7. CASE ~(PostLock(h) /\ At(h, "write")')
    <3>1. ~At(h, "write")'
      <4>1. CASE PostLock(h)
        BY <2>7, <4>1
      <4>2. CASE \E r \in net : Lookup(h, r)
        <5>1. PICK r \in net : Lookup(h, r)
          BY <4>2
        <5>2. r.kind # "write"
          BY DEF Types, Requests
        <5>3. QED BY <5>1, <5>2, AfterStep DEF Lookup, At, Free
      <4>3. CASE (\E r \in net : CreateBegin(h, r)) \/ CreateDial(h)
        BY <4>3, AfterStep DEF CreateBegin, CreateDial, At, Free
      <4>4. CASE CreateInstall(h) \/ Delete(h)
        BY <4>4, AfterStep DEF CreateInstall, Delete, At, Free
      <4>5. CASE GetBegin(h)
        <5>1. handler[h] \in Jobs
          BY <4>5, JobType, StepFree DEF GetBegin
        <5>2. QED BY <4>5, <5>1, AfterStep DEF GetBegin, At, Free, Types, Jobs
      <4>6. CASE StreamData(h) \/ StreamCancel(h) \/ StreamEnd(h)
        BY <4>6 DEF StreamData, StreamCancel, StreamEnd, At, Free, Types
      <4>7. QED BY <1>3, <4>1, <4>2, <4>3, <4>4, <4>5, <4>6 DEF HandlerStep, Continue
    <3>2. \A i \in Ids : locked[i] => locked'[i]
      BY <2>5 DEF PostLock, Types
    <3>3. \A g \in Handlers : At(g, "write") => handler[g].id \in Ids
      BY JobId, StepFree
    <3>4. QED BY <1>2, <2>1, <2>2, <2>3, <2>4, <3>1, <3>2, <3>3 DEF Writing, At, InTurn
  <2>8. QED BY <2>6, <2>7
<1>4. CASE PostWrite(h)
  <2> DEFINE i == handler[h].id
             c(w) == [seq |-> next[i], whole |-> w]
  <2>1. /\ i \in Ids
        /\ handler' = [handler EXCEPT ![h] = Free] /\ locked' = [locked EXCEPT ![i] = FALSE]
        /\ \/ /\ conn[i] = "open" /\ written' = [written EXCEPT ![i] = Append(@, c(TRUE))]
              /\ conn' = conn /\ next' = [next EXCEPT ![i] = next[i] + 1]
           \/ /\ written' = written \/ (conn[i] = "open" /\ written' = [written EXCEPT ![i] = Append(@, c(FALSE))])
              /\ conn' = [conn EXCEPT ![i] = "closed"] /\ next' = next
    BY <1>4, PostOutcome
  <2>2. \A w \in BOOLEAN : c(w) \in Chunks /\ c(w).whole = w /\ c(w).seq = next[i]
    BY <2>1 DEF Types, Chunks
  <2>3. At(h, "write") /\ ~At(h, "write")'
    BY <1>4, <2>1 DEF PostWrite, At, Free, Types
  <2> HIDE DEF i, c
  <2>4. ASSUME NEW g \in Handlers, At(g, "write")'
        PROVE  g # h /\ At(g, "write") /\ handler'[g] = handler[g] /\ handler[g].id \in Ids
               /\ handler[g].req.id = handler[g].id /\ handler[g].id # i
    <3>1. g # h /\ At(g, "write") /\ handler'[g] = handler[g]
      BY <1>2, <2>3, <2>4 DEF At
    <3>2. QED BY <2>3, <3>1, JobId, StepFree DEF Writing, Making, At, i
  <2>5. ASSUME NEW j \in Ids, j # i
        PROVE  written'[j] = written[j] /\ next'[j] = next[j] /\ locked'[j] = locked[j] /\ conn'[j] = conn[j]
    BY <2>1, <2>5 DEF Types
  <2>6. written[i] \in Seq(Chunks) /\ next[i] \in Nat
    BY <2>1 DEF Types
  <2>7. CASE conn[i] = "open" /\ written' = [written EXCEPT ![i] = Append(@, c(TRUE))]
             /\ conn' = conn /\ next' = [next EXCEPT ![i] = next[i] + 1]
    <3>1. written'[i] = Append(written[i], c(TRUE)) /\ next'[i] = next[i] + 1 /\ conn'[i] = "open"
      BY <2>1, <2>7 DEF Types
    <3>2. /\ Len(written[i]) = next[i] /\ \A k \in 1..Len(written[i]) : written[i][k].whole
          /\ \A k \in 1..Len(written[i]) : written[i][k].seq = k - 1
      BY <2>1, <2>7 DEF Writing, UploadExact
    <3>3. /\ Len(written'[i]) = next'[i]
          /\ \A k \in 1..Len(written'[i]) : written'[i][k].whole /\ written'[i][k].seq = k - 1
      <4>1. c(TRUE) \in Chunks /\ c(TRUE).seq = Len(written[i]) /\ c(TRUE).whole
        BY <2>2, <3>2
      <4>2. /\ Len(Append(written[i], c(TRUE))) = Len(written[i]) + 1
            /\ \A k \in 1..Len(Append(written[i], c(TRUE))) :
                 /\ Append(written[i], c(TRUE))[k].seq = k - 1
                 /\ Append(written[i], c(TRUE))[k].whole
        <5>1. \A k \in 1..Len(written[i]) : written[i][k].whole /\ written[i][k].seq = k - 1
          BY <3>2, Zenon
        <5> DEFINE q == written[i]
                   d == c(TRUE)
        <5>2. q \in Seq(Chunks) /\ d \in Chunks /\ d.seq = Len(q) /\ d.whole
          BY <2>6, <4>1
        <5>3. \A k \in 1..Len(q) : q[k].whole /\ q[k].seq = k - 1
          BY <5>1
        <5> HIDE DEF q, d
        <5>4. /\ Len(Append(q, d)) = Len(q) + 1
              /\ \A k \in 1..Len(Append(q, d)) : /\ Append(q, d)[k].seq = k - 1
                                                 /\ Append(q, d)[k].whole \/ (k = Len(Append(q, d)) /\ ~d.whole)
          BY <5>2, <5>3, ChunkAppended
        <5>5. QED BY <5>2, <5>4, Zenon DEF q, d
      <4>3. QED BY <3>1, <3>2, <4>2, Zenon
    <3>4. UploadExact'
      BY <2>5, <3>3 DEF UploadExact
    <3>5. \A g \in Handlers : (At(g, "write") => locked[handler[g].id] /\ InTurn(handler[g].req))'
      BY <2>4, <2>5 DEF Writing, InTurn
    <3>6. \A f, g \in Handlers : (At(f, "write") /\ At(g, "write") /\ handler[f].id = handler[g].id => f = g)'
      BY <2>4 DEF Writing
    <3>7. ASSUME NEW j \in Ids
          PROVE  /\ conn'[j] = "none" => written'[j] = <<>> /\ next'[j] = 0
                 /\ conn'[j] = "open" =>
                      Len(written'[j]) = next'[j] /\ \A k \in 1..Len(written'[j]) : written'[j][k].whole
      <4>1. CASE j = i
        BY <3>1, <3>3, <4>1
      <4>2. CASE j # i
        BY <2>5, <4>2 DEF Writing
      <4>3. QED BY <4>1, <4>2
    <3>8. QED BY <3>4, <3>5, <3>6, <3>7 DEF Writing
  <2>8. CASE /\ written' = written \/ (conn[i] = "open" /\ written' = [written EXCEPT ![i] = Append(@, c(FALSE))])
             /\ conn' = [conn EXCEPT ![i] = "closed"] /\ next' = next
    <3>1. conn'[i] = "closed"
      BY <2>1, <2>8 DEF Types
    <3>2. CASE written' = written
      <4>1. UploadExact'
        BY <3>2 DEF UploadExact
      <4>2. QED BY <2>4, <2>5, <3>1, <3>2, <4>1 DEF Writing, InTurn, At
    <3>3. CASE conn[i] = "open" /\ written' = [written EXCEPT ![i] = Append(@, c(FALSE))]
      <4>1. written'[i] = Append(written[i], c(FALSE))
        BY <2>1, <3>3 DEF Types
      <4>2. /\ Len(written[i]) = next[i] /\ \A k \in 1..Len(written[i]) : written[i][k].whole
            /\ \A k \in 1..Len(written[i]) : written[i][k].seq = k - 1
        BY <2>1, <3>3 DEF Writing, UploadExact
      <4>3. \A k \in 1..Len(written'[i]) : written'[i][k].seq = k - 1
                                           /\ (written'[i][k].whole \/ k = Len(written'[i]))
        <5>1. c(FALSE) \in Chunks /\ c(FALSE).seq = Len(written[i])
          BY <2>2, <4>2
        <5>2. /\ Len(Append(written[i], c(FALSE))) = Len(written[i]) + 1
              /\ \A k \in 1..Len(Append(written[i], c(FALSE))) :
                   /\ Append(written[i], c(FALSE))[k].seq = k - 1
                   /\ Append(written[i], c(FALSE))[k].whole \/ k = Len(Append(written[i], c(FALSE)))
          <6>1. \A k \in 1..Len(written[i]) : written[i][k].whole /\ written[i][k].seq = k - 1
            BY <4>2, Zenon
          <6> DEFINE q == written[i]
                     d == c(FALSE)
          <6>2. q \in Seq(Chunks) /\ d \in Chunks /\ d.seq = Len(q)
            BY <2>6, <5>1
          <6>3. \A k \in 1..Len(q) : q[k].whole /\ q[k].seq = k - 1
            BY <6>1
          <6> HIDE DEF q, d
          <6>4. /\ Len(Append(q, d)) = Len(q) + 1
                /\ \A k \in 1..Len(Append(q, d)) : /\ Append(q, d)[k].seq = k - 1
                                                   /\ Append(q, d)[k].whole \/ (k = Len(Append(q, d)) /\ ~d.whole)
            BY <6>2, <6>3, ChunkAppended
          <6>5. QED BY <6>2, <6>4, Zenon DEF q, d
        <5>3. QED BY <4>1, <5>2, Zenon
      <4>4. UploadExact'
        BY <2>5, <4>3 DEF UploadExact
      <4>5. QED BY <2>4, <2>5, <3>1, <4>4 DEF Writing, InTurn, At
    <3>4. QED BY <2>8, <3>2, <3>3
  <2>9. QED BY <2>1, <2>7, <2>8
<1>5. QED BY <1>3, <1>4

LEMMA OtherWriting == IInv /\ (Cleanup \/ Stop \/ Client \/ Tick) => Writing' /\ UploadExact'
<1> SUFFICES ASSUME IInv, Cleanup \/ Stop \/ Client \/ Tick PROVE Writing' /\ UploadExact'
  OBVIOUS
<1>1. UNCHANGED <<written, next, locked, handler>>
  BY OtherKept
<1>2. \A i \in Ids : /\ conn'[i] = "none" => conn[i] = "none"
                     /\ conn'[i] = "open" => conn[i] = "open"
  <2>1. CASE Cleanup \/ Stop
    BY <2>1 DEF Cleanup, Stop, CleanupOf, IInv, Types
  <2>2. CASE Client \/ Tick
    BY <2>2 DEF Client, ClientCreate, ClientCreated, ClientReady, ClientPost, ClientPosted,
       ClientClose, Tick, hub
  <2>3. QED BY <2>1, <2>2
<1>3. UploadExact'
  BY <1>1 DEF IInv, UploadExact
<1>4. QED BY <1>1, <1>2, <1>3 DEF IInv, Writing, At, InTurn

------------------------------------------------------------------------------
LEMMA HandlerAnswered ==
  ASSUME IInv, NEW h \in Handlers, HandlerStep(h)
  PROVE  Answered' /\ AckedWritten'
<1> USE DEF IInv
<1>1. ASSUME NEW a \in answers', a.req.kind = "post", a.code = "done"
      PROVE  a.req.seq + 1 <= Len(written'[a.req.id]) /\ written'[a.req.id][a.req.seq + 1].whole
  <2>0. a.req \in net /\ a.req.id \in Ids /\ a.req.seq \in Nat
    <3>1. a.req \in net
      BY NewAnswers DEF Named
    <3>2. QED BY <1>1, <3>1 DEF Named, Types, Requests
  <2>1. /\ Len(written[a.req.id]) \in Nat /\ Len(written'[a.req.id]) \in Nat
        /\ Len(written[a.req.id]) <= Len(written'[a.req.id])
        /\ \A k \in 1..Len(written[a.req.id]) : written'[a.req.id][k] = written[a.req.id][k]
    BY <2>0, Grown
  <2>2. CASE a \in answers
    <3>1. a.req.seq + 1 <= Len(written[a.req.id]) /\ written[a.req.id][a.req.seq + 1].whole
      BY <1>1, <2>2 DEF Answered
    <3>2. a.req.seq + 1 \in 1..Len(written[a.req.id])
      BY <2>0, <2>1, <3>1
    <3>3. QED BY <2>0, <2>1, <3>1, <3>2
  <2>3. CASE a \notin answers
    <3>1. (Delete(h) \/ GetBegin(h) \/ PostWrite(h)) /\ a.req = handler[h].req
      BY <1>1, <2>3, NewAnswers
    <3>2. PostWrite(h)
      BY <1>1, <3>1 DEF Delete, GetBegin, Working, JobOK
    <3> DEFINE i == handler[h].id
               d == [seq |-> next[i], whole |-> TRUE]
    <3>3. /\ i \in Ids /\ a.req.id = i /\ a.req.seq = next[i] /\ conn[i] = "open"
          /\ written' = [written EXCEPT ![i] = Append(@, d)]
      <4>1. answers' # answers \cup {[req |-> handler[h].req, code |-> "refused", id |-> None]}
        BY <1>1, <2>3
      <4>2. QED BY <3>1, <3>2, <4>1, PostOutcome
    <3>4. d \in Chunks /\ d.whole /\ written[i] \in Seq(Chunks) /\ Len(written[i]) = next[i]
      BY <3>3 DEF Types, Chunks, Writing
    <3> HIDE DEF d, i
    <3>5. written'[i] = Append(written[i], d)
      BY <3>3 DEF Types
    <3>6. /\ Len(written[i]) \in Nat /\ Len(Append(written[i], d)) = Len(written[i]) + 1
          /\ Append(written[i], d)[Len(written[i]) + 1] = d
      BY <3>4, AppendChunk
    <3>7. QED BY <3>3, <3>4, <3>5, <3>6
  <2>4. QED BY <2>2, <2>3
<1>2. AckedWritten'
  <2>0. client' = client
    BY Moves
  <2> SUFFICES ASSUME client.id # None, NEW k \in 1..client.acked
               PROVE  k <= Len(written'[client.id]) /\ written'[client.id][k].whole
    BY <2>0 DEF AckedWritten
  <2>1. client.id \in Ids /\ client.acked \in Nat
    BY DEF Types, Clients
  <2>2. /\ Len(written[client.id]) \in Nat /\ Len(written'[client.id]) \in Nat
        /\ Len(written[client.id]) <= Len(written'[client.id])
        /\ \A j \in 1..Len(written[client.id]) : written'[client.id][j] = written[client.id][j]
    BY <2>1, Grown
  <2>3. k <= Len(written[client.id]) /\ written[client.id][k].whole
    BY DEF AckedWritten
  <2>4. k \in 1..Len(written[client.id])
    BY <2>1, <2>2, <2>3
  <2>5. QED BY <2>1, <2>2, <2>3, <2>4
<1>3. QED BY <1>1, <1>2 DEF Answered

LEMMA OtherAnswered == IInv /\ (Cleanup \/ Stop \/ Client \/ Tick) => Answered' /\ AckedWritten'
<1> SUFFICES ASSUME IInv, Cleanup \/ Stop \/ Client \/ Tick PROVE Answered' /\ AckedWritten'
  OBVIOUS
<1> USE DEF IInv
<1>1. UNCHANGED <<written, answers>>
  BY OtherKept
<1>2. Answered'
  BY <1>1 DEF Answered
<1>3. client.id \in Ids \cup {None} /\ client.acked \in Nat /\ client \in Clients
  BY DEF Types, Clients
<1>4. ASSUME client'.id = client.id, client'.acked = client.acked PROVE AckedWritten'
  BY <1>1, <1>4, Zenon DEF AckedWritten
<1>5. CASE Cleanup \/ Stop \/ Tick
  BY <1>2, <1>4, <1>5 DEF Cleanup, Stop, Tick
<1>6. CASE ClientReady \/ ClientPost \/ ClientClose
  BY <1>2, <1>3, <1>4, <1>6 DEF ClientReady, ClientPost, ClientClose, Send, Clients
<1>7. CASE ClientCreate \/ ClientCreated
  <2>1. client'.acked = 0
    <3>1. CASE ClientCreate
      BY <3>1 DEF ClientCreate
    <3>2. CASE ClientCreated
      <4>1. client.acked = 0
        BY <3>2 DEF ClientCreated, Named
      <4>2. QED BY <1>3, <3>2, <4>1 DEF ClientCreated, Clients
    <3>3. QED BY <1>7, <3>1, <3>2
  <2>2. 1..client'.acked = {}
    BY <2>1
  <2>3. QED BY <1>2, <2>2, Zenon DEF AckedWritten
<1>8. CASE ClientPosted
  <2>1. PICK a \in answers : a.req.kind = "post" /\ a.req.nonce = client.nonce /\ a.code = "done"
                             /\ a.req.seq = client.acked
    BY <1>8 DEF ClientPosted, Reads
  <2>2. a.req.id = client.id
    BY <2>1 DEF Named
  <2>3. client.acked + 1 <= Len(written[client.id]) /\ written[client.id][client.acked + 1].whole
    BY <2>1, <2>2 DEF Answered
  <2>4. client'.id = client.id /\ client'.acked = client.acked + 1
    BY <1>3, <1>8 DEF ClientPosted, Clients
  <2>5. \A k \in 1..(client.acked + 1) : k \in 1..client.acked \/ k = client.acked + 1
    BY <1>3
  <2>6. client.id # None
    BY <1>8 DEF ClientPosted, Named
  <2>7. \A k \in 1..client.acked : k <= Len(written[client.id]) /\ written[client.id][k].whole
    BY <2>6, Zenon DEF AckedWritten
  <2>8. \A k \in 1..(client.acked + 1) : k <= Len(written[client.id]) /\ written[client.id][k].whole
    BY <2>3, <2>5, <2>7, Zenon
  <2>9. QED BY <1>1, <1>2, <2>4, <2>8, Zenon DEF AckedWritten
<1>9. QED BY <1>2, <1>5, <1>6, <1>7, <1>8 DEF Client

------------------------------------------------------------------------------
\* Only accepting a creation puts a handler to making a session.
Accepts(h, r) == CreateBegin(h, r) /\ ~(r.nonce \in SeenNonces \/ Full)

LEMMA StillMaking ==
  ASSUME IInv, NEW h \in Handlers, HandlerStep(h), ~\E r \in net : Accepts(h, r)
  PROVE  /\ Making(h)' => Making(h) /\ handler'[h].req = handler[h].req
         /\ created' = created \/ (CreateInstall(h) /\ ~Making(h)')
         /\ seen' = seen
<1> USE DEF IInv
<1>0. ASSUME handler'[h] = Free PROVE ~Making(h)'
  BY <1>0 DEF Making, Free
<1>1. ASSUME NEW r \in net, CreateBegin(h, r) PROVE ~Making(h)' /\ created' = created /\ seen' = seen
  <2>1. Finish(h, r, "refused", None) /\ created' = created /\ seen' = seen
    BY <1>1 DEF CreateBegin, Accepts
  <2>2. QED BY <1>0, <2>1, AfterStep
<1>2. ASSUME NEW r \in net, Lookup(h, r) PROVE ~Making(h)' /\ created' = created /\ seen' = seen
  <2>1. r.kind \in {"get", "post", "delete"}
    BY <1>2 DEF Lookup, Types, Requests
  <2>2. CASE Finish(h, r, "refused", None)
    BY <1>0, <1>2, <2>2, AfterStep DEF Lookup, hub
  <2>3. CASE Work(h, r.kind, r, r.id)
    BY <1>2, <2>1, <2>3, AfterStep DEF Lookup, hub, Making
  <2>4. QED BY <1>2, <2>2, <2>3 DEF Lookup
<1>3. CASE CreateDial(h)
  <2>1. Making(h) /\ created' = created /\ seen' = seen
    BY <1>3 DEF CreateDial, Making, At
  <2>2. QED BY <1>0, <1>3, <2>1, AfterStep DEF CreateDial
<1>4. CASE CreateInstall(h)
  <2>1. \E r, code, id : Finish(h, r, code, id)
    BY <1>4 DEF CreateInstall
  <2>2. QED BY <1>0, <1>4, <2>1, AfterStep DEF CreateInstall
<1>5. CASE Delete(h) \/ PostWrite(h)
  <2>1. \E r, code, id : Finish(h, r, code, id)
    BY <1>5 DEF Delete, PostWrite, PostFailed
  <2>2. QED BY <1>0, <1>5, <2>1, AfterStep DEF Delete, PostWrite
<1>6. CASE PostLock(h)
  <2>1. Finish(h, handler[h].req, "refused", None) \/ Work(h, "write", handler[h].req, handler[h].req.id)
    BY <1>6 DEF PostLock
  <2>2. ~Making(h)'
    BY <1>0, <2>1, AfterStep DEF Making
  <2>3. QED BY <1>6, <2>2 DEF PostLock
<1>7. CASE GetBegin(h)
  <2>1. ~Making(h)'
    <3>1. CASE Finish(h, handler[h].req, "refused", None)
      BY <1>0, <3>1, AfterStep
    <3>2. CASE handler' = [handler EXCEPT ![h].step = "stream"]
      <4>1. handler[h] \in Jobs
        BY <1>7, JobType, StepFree DEF GetBegin
      <4>2. QED BY <3>2, <4>1 DEF Making, Types, Jobs
    <3>3. QED BY <1>7, <3>1, <3>2 DEF GetBegin
  <2>2. QED BY <1>7, <2>1 DEF GetBegin
<1>8. CASE StreamData(h) \/ StreamCancel(h)
  BY <1>8 DEF StreamData, StreamCancel, Making
<1>9. CASE StreamEnd(h)
  BY <1>0, <1>9 DEF StreamEnd, Types
<1>10. QED BY <1>1, <1>2, <1>3, <1>4, <1>5, <1>6, <1>7, <1>8, <1>9 DEF HandlerStep, Continue

LEMMA HandlerRemembered ==
  ASSUME IInv, NEW h \in Handlers, HandlerStep(h)
  PROVE  Remembered'
<1> USE HttpHubAssumption DEF IInv
<1>1. /\ \A g \in Handlers : g # h => handler'[g] = handler[g]
      /\ UNCHANGED <<now, stopped, client, net>>
  BY Moves
<1>2. \A g \in Handlers : g # h => (Making(g)' <=> Making(g)) /\ handler'[g].req = handler[g].req
  BY <1>1 DEF Making
<1>3. \A g \in Handlers : Making(g) => handler[g].req.nonce \in Nonces /\ handler[g].id \in Ids
  BY JobType DEF Making, At
<1>4. ASSUME NEW r \in net, Accepts(h, r) PROVE Remembered'
  <2>1. /\ seen' = seen \cup {[nonce |-> r.nonce, time |-> now]} /\ created' = created
        /\ r.kind = "create" /\ r.stamp <= now + Window /\ r.stamp + Window >= now
        /\ r.nonce \notin SeenNonces
    BY <1>4 DEF Accepts, CreateBegin, Authorized
  <2>2. Making(h)' /\ handler'[h].req = r
    <3>1. \E i : Work(h, "dial", r, i)
      BY <1>4 DEF Accepts, CreateBegin
    <3>2. QED BY <3>1, AfterStep DEF Making
  <2>3. r.nonce \in Nonces /\ r.nonce <= client.nonce /\ r.stamp \in Nat /\ now \in Nat
    BY DEF Types, Requests, Nonces, Named
  <2>4. ~Used(r.nonce)
    BY <2>1, <2>3 DEF Remembered
  <2>5. SeenNonces' = SeenNonces \cup {r.nonce}
    <3>1. [nonce |-> r.nonce, time |-> now].nonce = r.nonce
      OBVIOUS
    <3> DEFINE e == [nonce |-> r.nonce, time |-> now]
    <3>2. seen' = seen \cup {e} /\ e.nonce = r.nonce
      BY <2>1, <3>1
    <3> HIDE DEF e
    <3>3. {x.nonce : x \in seen \cup {e}} = {x.nonce : x \in seen} \cup {e.nonce}
      BY Zenon
    <3>4. QED BY <3>2, <3>3 DEF SeenNonces
  <2>6. \A n \in Nonces : Used(n)' => Used(n) \/ n = r.nonce
    BY <1>2, <2>1, <2>2 DEF Used
  <2>7. \A x \in seen' : x.nonce <= client'.nonce
    BY <1>1, <2>1, <2>3 DEF Remembered
  <2>8. \A x \in seen' : \A q \in net' : q.kind = "create" /\ q.nonce = x.nonce => q.stamp <= x.time + Window
    <3>1. ASSUME NEW q \in net, q.kind = "create", q.nonce = r.nonce PROVE q.stamp <= now + Window
      BY <2>1, <3>1 DEF Named
    <3>2. \A x \in seen' : x \in seen \/ (x.nonce = r.nonce /\ x.time = now)
      BY <2>1
    <3>3. QED BY <1>1, <3>1, <3>2 DEF Remembered
  <2>9. \A n \in Nonces : Used(n)' =>
          /\ n <= client'.nonce
          /\ n \in SeenNonces' \/ \A q \in net' : q.kind = "create" /\ q.nonce = n => q.stamp + Window < now'
    BY <1>1, <2>3, <2>5, <2>6 DEF Remembered
  <2>10. \A f, g \in Handlers :
           (Making(f) /\ Making(g) /\ handler[f].req.nonce = handler[g].req.nonce => f = g)'
    <3>1. \A g \in Handlers : Making(g) => handler[g].req.nonce # r.nonce
      BY <2>4 DEF Used
    <3>2. QED BY <1>2, <2>2, <3>1 DEF Remembered
  <2>11. \A g \in Handlers : (Making(g) => created[handler[g].req.nonce] = {})'
    <3>1. created[r.nonce] = {}
      BY <2>4 DEF Used
    <3>2. QED BY <1>2, <2>1, <2>2, <3>1 DEF Remembered
  <2>12. \A n \in Nonces : (created[n] = {} \/ \E i \in Ids : created[n] = {i})'
    BY <2>1 DEF Remembered
  <2>13. QED BY <2>7, <2>8, <2>9, <2>10, <2>11, <2>12 DEF Remembered
<1>5. CASE ~\E r \in net : Accepts(h, r)
  <2>1. /\ Making(h)' => Making(h) /\ handler'[h].req = handler[h].req
        /\ created' = created \/ (CreateInstall(h) /\ ~Making(h)')
        /\ seen' = seen
    BY <1>5, StillMaking
  <2>2. SeenNonces' = SeenNonces
    BY <2>1 DEF SeenNonces
  <2>3. \A g \in Handlers : Making(g)' => Making(g) /\ handler'[g].req = handler[g].req
    BY <1>2, <2>1
  <2>4. /\ \A n \in Nonces : created'[n] = created[n] \/ (Making(h) /\ ~Making(h)' /\ n = handler[h].req.nonce)
        /\ \A n \in Nonces : created'[n] = created[n] \/ created'[n] = created[n] \cup {handler[h].id}
    <3>1. CASE created' = created
      BY <3>1
    <3>2. CASE created' # created
      <4>1. CreateInstall(h) /\ ~Making(h)' /\ Making(h)
        BY <2>1, <3>2 DEF CreateInstall, Making, At
      <4>2. created' = [created EXCEPT ![handler[h].req.nonce] = @ \cup {handler[h].id}]
        BY <3>2, <4>1 DEF CreateInstall
      <4>3. QED BY <1>3, <4>1, <4>2 DEF Types
    <3>3. QED BY <3>1, <3>2
  <2>5. \A n \in Nonces : Used(n)' => Used(n)
    BY <2>3, <2>4 DEF Used
  <2>6. \A f, g \in Handlers :
          (Making(f) /\ Making(g) /\ handler[f].req.nonce = handler[g].req.nonce => f = g)'
    BY <2>3 DEF Remembered
  <2>7. ASSUME NEW g \in Handlers, Making(g)' PROVE created'[handler'[g].req.nonce] = {}
    <3>1. Making(g) /\ handler'[g].req = handler[g].req /\ handler[g].req.nonce \in Nonces
      BY <1>3, <2>3, <2>7
    <3>2. created[handler[g].req.nonce] = {}
      BY <3>1 DEF Remembered
    <3>3. created'[handler[g].req.nonce] = created[handler[g].req.nonce]
      BY <2>4, <2>7, <3>1 DEF Remembered
    <3>4. QED BY <3>1, <3>2, <3>3
  <2>8. ASSUME NEW n \in Nonces PROVE created'[n] = {} \/ \E i \in Ids : created'[n] = {i}
    <3>1. CASE created'[n] = created[n]
      BY <3>1 DEF Remembered
    <3>2. CASE created'[n] # created[n]
      <4>1. Making(h) /\ n = handler[h].req.nonce /\ created'[n] = created[n] \cup {handler[h].id}
        BY <2>4, <3>2
      <4>2. created[n] = {} /\ handler[h].id \in Ids
        BY <1>3, <4>1 DEF Remembered
      <4>3. QED BY <4>1, <4>2
    <3>3. QED BY <3>1, <3>2
  <2>9. QED BY <1>1, <2>1, <2>2, <2>5, <2>6, <2>7, <2>8 DEF Remembered
<1>6. QED BY <1>4, <1>5

LEMMA OtherRemembered == IInv /\ (Cleanup \/ Stop \/ Client \/ Tick) => Remembered'
<1> SUFFICES ASSUME IInv, Cleanup \/ Stop \/ Client \/ Tick PROVE Remembered'
  OBVIOUS
<1> USE HttpHubAssumption DEF IInv
<1>1. handler' = handler /\ created' = created
  BY OtherKept DEF Cleanup, Stop, Client, ClientCreate, ClientCreated, ClientReady, ClientPost,
     ClientPosted, ClientClose, Tick, hub
<1>2. /\ \A n : Used(n)' <=> Used(n)
      /\ \A h \in Handlers : Making(h)' <=> Making(h)
  BY <1>1 DEF Used, Making
<1>3. now \in Nat /\ client.nonce \in Nat /\ \A r \in net : r.stamp \in Nat /\ r.nonce \in Nat
  BY DEF Types, Clients, Requests
<1>4. \A x \in seen : x.nonce \in Nat /\ x.time \in Nat
  BY DEF Types, Nonces
<1>5. \A n \in Nonces : n \in Nat
  BY DEF Nonces
<1>6. /\ \A g, h \in Handlers :
           (Making(g) /\ Making(h) /\ handler[g].req.nonce = handler[h].req.nonce => g = h)'
      /\ \A h \in Handlers : (Making(h) => created[handler[h].req.nonce] = {})'
      /\ \A n \in Nonces : (created[n] = {} \/ \E i \in Ids : created[n] = {i})'
  BY <1>1, <1>2 DEF Remembered
<1>7. CASE Cleanup \/ Stop
  <2>1. seen' = seen \ Expired /\ UNCHANGED <<now, client, net>>
    BY <1>7 DEF Cleanup, Stop
  <2>2. ASSUME NEW n \in SeenNonces, n \notin SeenNonces', NEW r \in net, r.kind = "create", r.nonce = n
        PROVE  r.stamp + Window < now
    <3>1. PICK x \in seen : x.nonce = n
      BY DEF SeenNonces
    <3>2. x \in Expired
      BY <2>1, <2>2, <3>1 DEF SeenNonces
    <3>3. now > x.time + Retain /\ r.stamp <= x.time + Window
      BY <2>2, <3>1, <3>2 DEF Expired, Remembered
    <3>4. QED BY <1>3, <1>4, <3>3
  <2>3. \A n \in Nonces : Used(n)' =>
          n \in SeenNonces' \/ \A r \in net' : r.kind = "create" /\ r.nonce = n => r.stamp + Window < now'
    BY <1>2, <2>1, <2>2 DEF Remembered
  <2>4. QED BY <1>2, <1>6, <2>1, <2>3 DEF Remembered
<1>8. CASE Tick
  <2>1. now' = now + 1 /\ UNCHANGED <<seen, client, net>>
    BY <1>8 DEF Tick, hub
  <2>2. SeenNonces' = SeenNonces
    BY <2>1 DEF SeenNonces
  <2>3. \A n \in Nonces : Used(n)' =>
          n \in SeenNonces' \/ \A r \in net' : r.kind = "create" /\ r.nonce = n => r.stamp + Window < now'
    BY <1>2, <1>3, <2>1, <2>2 DEF Remembered
  <2>4. QED BY <1>2, <1>6, <2>1, <2>3 DEF Remembered
<1>9. CASE Client
  <2>1. /\ seen' = seen /\ now' = now
        /\ client'.nonce \in Nat /\ client.nonce <= client'.nonce
        /\ \A r \in net' : r \in net \/ r.kind # "create" \/ r.nonce = client.nonce + 1
    <3>1. seen' = seen /\ now' = now
      BY <1>9 DEF Client, ClientCreate, ClientCreated, ClientReady, ClientPost, ClientPosted,
         ClientClose, hub
    <3>2. CASE ClientCreate
      BY <1>3, <3>1, <3>2 DEF ClientCreate
    <3>3. CASE ~ClientCreate
      <4>0. client \in Clients
        BY DEF Types
      <4>1. client'.nonce = client.nonce
        <5>1. CASE ClientCreated
          BY <4>0, <5>1 DEF ClientCreated, Clients
        <5>2. CASE ClientReady \/ ClientPosted
          BY <4>0, <5>2 DEF ClientReady, ClientPosted, Clients
        <5>3. CASE ClientPost \/ ClientClose
          BY <4>0, <5>3 DEF ClientPost, ClientClose, Send, Clients
        <5>4. QED BY <1>9, <3>3, <5>1, <5>2, <5>3 DEF Client
      <4>2. \A r \in net' : r \in net \/ r.kind # "create"
        <5>1. CASE ClientCreated
          BY <5>1 DEF ClientCreated, Request
        <5>2. CASE ClientReady \/ ClientPosted
          BY <5>2 DEF ClientReady, ClientPosted
        <5>3. CASE ClientPost
          BY <5>3 DEF ClientPost, Send, Request
        <5>4. CASE ClientClose
          BY <5>4 DEF ClientClose, Send, Request
        <5>5. QED BY <1>9, <3>3, <5>1, <5>2, <5>3, <5>4 DEF Client
      <4>3. QED BY <1>3, <3>1, <4>1, <4>2
    <3>4. QED BY <3>2, <3>3
  <2>2. SeenNonces' = SeenNonces
    BY <2>1 DEF SeenNonces
  <2>3. \A x \in seen' : x.nonce <= client'.nonce
    BY <1>3, <1>4, <2>1 DEF Remembered
  <2>4. \A n \in Nonces : Used(n)' => n <= client'.nonce
    BY <1>2, <1>3, <1>5, <2>1 DEF Remembered
  <2>5. \A x \in seen' : \A r \in net' :
          r.kind = "create" /\ r.nonce = x.nonce => r.stamp <= x.time + Window
    BY <1>3, <1>4, <2>1 DEF Remembered
  <2>6. \A n \in Nonces : Used(n)' =>
          n \in SeenNonces' \/ \A r \in net' : r.kind = "create" /\ r.nonce = n => r.stamp + Window < now'
    BY <1>2, <1>3, <1>5, <2>1, <2>2 DEF Remembered
  <2>7. QED BY <1>6, <2>3, <2>4, <2>5, <2>6 DEF Remembered
<1>10. QED BY <1>7, <1>8, <1>9

------------------------------------------------------------------------------
LEMMA HandlerOrphan ==
  ASSUME IInv, NEW h \in Handlers, HandlerStep(h)
  PROVE  NoOrphan'
<1> USE DEF IInv
<1> SUFFICES ASSUME NEW i \in Ids, conn'[i] = "open"
             PROVE  table'[i] = "session" \/ \E g \in Handlers : (At(g, "install") /\ handler[g].id = i)'
  BY DEF NoOrphan
<1>1. \A g \in Handlers : g # h => handler'[g] = handler[g]
  BY Moves
<1>2. CASE CreateDial(h) /\ conn' # conn
  <2>1. Work(h, "install", handler[h].req, handler[h].id) /\ table' = table
        /\ conn' = [conn EXCEPT ![handler[h].id] = "open"]
    BY <1>2 DEF CreateDial, Remove
  <2>2. handler'[h].step = "install" /\ handler'[h].id = handler[h].id /\ At(h, "dial")
    BY <1>2, <2>1, AfterStep DEF CreateDial
  <2>3. CASE i = handler[h].id
    BY <2>2, <2>3 DEF At
  <2>4. CASE i # handler[h].id
    <3>1. conn[i] = "open"
      BY <2>1, <2>4 DEF Types
    <3>2. QED BY <1>1, <2>1, <2>2, <3>1 DEF NoOrphan, At
  <2>5. QED BY <2>3, <2>4
<1>3. CASE ~(CreateDial(h) /\ conn' # conn)
  <2>1. conn[i] = "open"
    <3>1. \A g \in Handlers : CreateDial(g) => g = h \/ conn'[i] = conn[i] \/ handler[g].id # i
      <4> SUFFICES ASSUME NEW g \in Handlers, CreateDial(g), g # h, handler[g].id = i, conn'[i] # conn[i]
                   PROVE  FALSE
        OBVIOUS
      <4>1. At(g, "dial") /\ Making(g) /\ conn[i] = "none"
        BY DEF CreateDial, Making, At, Working, JobOK
      <4>2. ~At(h, "free") /\ handler[h].id = i
        BY Touched
      <4>3. At(h, "dial") => Making(h)
        BY DEF At, Making
      <4>4. QED BY <4>1, <4>2, <4>3, JobId DEF Working
    <3>2. QED BY <1>3, <3>1, Connected DEF Next, HandlerStep
  <2>2. CASE At(h, "install")
    <3>1. CreateInstall(h)
      BY <2>2 DEF HandlerStep, Continue, CreateBegin, Lookup, CreateDial, Delete, PostLock, PostWrite,
         GetBegin, StreamData, StreamCancel, StreamEnd, At
    <3>2. handler[h].id \in Ids
      BY <2>2, JobId, StepFree
    <3>3. CASE i = handler[h].id
      BY <3>1, <3>2, <3>3 DEF CreateInstall, Types
    <3>4. CASE i # handler[h].id
      <4>1. table'[i] = table[i]
        BY <3>1, <3>2, <3>4 DEF CreateInstall, Types
      <4>2. QED BY <1>1, <2>1, <3>4, <4>1 DEF NoOrphan, At
    <3>5. QED BY <3>3, <3>4
  <2>3. CASE ~At(h, "install")
    <3>1. table[i] = "session" => table'[i] = "session"
      <4>1. CASE conn'[i] = conn[i] /\ (\E r \in net : CreateBegin(h, r) \/ Lookup(h, r))
        BY <4>1 DEF CreateBegin, Lookup, Unused, Types, hub
      <4>2. CASE CreateDial(h)
        BY <1>3, <4>2 DEF CreateDial, Remove, Types
      <4>3. CASE Delete(h) \/ StreamEnd(h)
        <5>1. handler[h].id \in Ids
          BY <4>3, JobId, StepFree DEF Delete, StreamEnd
        <5>2. QED BY <4>3, <5>1 DEF Delete, StreamEnd, Remove, Types
      <4>4. CASE PostWrite(h)
        <5>1. handler[h].req.id \in Ids
          BY <4>4, PostOutcome
        <5>2. QED BY <4>4, <5>1 DEF PostWrite, PostFailed, Remove, Types
      <4>5. CASE PostLock(h) \/ GetBegin(h) \/ StreamData(h) \/ StreamCancel(h)
        BY <4>5 DEF PostLock, GetBegin, StreamData, StreamCancel
      <4>6. QED BY <2>1, <2>3, <4>1, <4>2, <4>3, <4>4, <4>5 DEF HandlerStep, Continue, CreateInstall
    <3>2. QED BY <1>1, <2>1, <2>3, <3>1 DEF NoOrphan, At
  <2>4. QED BY <2>2, <2>3
<1>4. QED BY <1>2, <1>3

LEMMA OtherOrphan == IInv /\ (Cleanup \/ Stop \/ Client \/ Tick) => NoOrphan'
<1> SUFFICES ASSUME IInv, Cleanup \/ Stop \/ Client \/ Tick PROVE NoOrphan'
  OBVIOUS
<1>1. handler' = handler
  BY OtherKept
<1>2. CASE Cleanup \/ Stop
  <2>1. \A i \in Ids : conn'[i] = "open" => conn[i] = "open" /\ (table[i] = "session" => table'[i] = "session")
    BY <1>2 DEF Cleanup, Stop, CleanupOf, IInv, Types
  <2>2. QED BY <1>1, <2>1 DEF IInv, NoOrphan, At
<1>3. CASE Client \/ Tick
  <2>1. conn' = conn /\ table' = table
    BY <1>3 DEF Client, ClientCreate, ClientCreated, ClientReady, ClientPost, ClientPosted,
       ClientClose, Tick, hub
  <2>2. QED BY <1>1, <2>1 DEF IInv, NoOrphan, At
<1>4. QED BY <1>2, <1>3

------------------------------------------------------------------------------
LEMMA NextInv == IInv /\ [Next]_vars => IInv'
<1> SUFFICES ASSUME IInv, [Next]_vars PROVE IInv'
  OBVIOUS
<1>1. ASSUME NEW h \in Handlers, HandlerStep(h) PROVE IInv'
  BY <1>1, HandlerTypes, HandlerNamed, HandlerWorking, HandlerWriting, HandlerAnswered,
     HandlerRemembered, HandlerOrphan DEF IInv, HandlerStep
<1>2. CASE Cleanup \/ Stop \/ Client \/ Tick
  BY <1>2, OtherTypes, OtherNamed, OtherWorking, OtherWriting, OtherAnswered, OtherRemembered,
     OtherOrphan DEF IInv
<1>3. CASE UNCHANGED vars
  <2>1. Types' /\ Named' /\ Answered'
    BY <1>3 DEF IInv, Types, Named, Answered, vars, hub
  <2>2. Working' /\ Writing'
    BY <1>3 DEF IInv, Working, JobOK, Writing, Making, At, InTurn, vars, hub
  <2>3. UploadExact' /\ AckedWritten' /\ NoOrphan'
    BY <1>3 DEF IInv, UploadExact, AckedWritten, NoOrphan, At, vars, hub
  <2>4. Remembered'
    BY <1>3 DEF IInv, Remembered, Used, Making, SeenNonces, vars, hub
  <2>5. QED BY <2>1, <2>2, <2>3, <2>4 DEF IInv
<1>4. QED BY <1>1, <1>2, <1>3 DEF Next, HandlerStep

LEMMA HubInv == Spec => []IInv
BY InitInv, NextInv, PTL DEF Spec

\* No interleaving of creation, DELETE, a failing POST, the end of the stream and
\* cleanup leaves a backend connection open that nobody would close, for any
\* number of handlers and sessions.
THEOREM NothingOrphaned == Spec => []NoOrphan
<1>1. IInv => NoOrphan
  BY DEF IInv
<1>2. QED BY <1>1, HubInv, PTL

\* However often and in whatever order the CDN repeats POSTs, the backend gets
\* each chunk once and in order, and nothing behind a chunk written in part.
THEOREM UploadsAreExact == Spec => []UploadExact
<1>1. IInv => UploadExact
  BY DEF IInv
<1>2. QED BY <1>1, HubInv, PTL

\* A chunk the client counts as acknowledged is whole in the backend, also when
\* the answer it read belongs to a repetition of its POST.
THEOREM AckedIsWritten == Spec => []AckedWritten
<1>1. IInv => AckedWritten
  BY DEF IInv
<1>2. QED BY <1>1, HubInv, PTL

\* A repeated creation never makes a second session, for every window and every
\* retention of at least twice the window: the nonce outlives the stamp.
THEOREM NonceMakesOneSession == Spec => []CreatedOnce
<1>1. IInv => CreatedOnce
  <2> SUFFICES ASSUME IInv, NEW n \in DOMAIN created PROVE Cardinality(created[n]) <= 1
    BY DEF CreatedOnce
  <2>1. created[n] = {} \/ \E i \in Ids : created[n] = {i}
    BY DEF IInv, Types, Remembered
  <2>2. ASSUME NEW i \in Ids, created[n] = {i} PROVE Cardinality(created[n]) = 1
    BY <2>2, FS_Singleton, Zenon
  <2>3. Cardinality({}) = 0
    BY FS_EmptySet
  <2>4. QED BY <2>1, <2>2, <2>3
<1>2. QED BY <1>1, HubInv, PTL
=============================================================================
