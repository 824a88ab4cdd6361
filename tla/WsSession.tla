------------------------------ MODULE WsSession -----------------------------
(***************************************************************************)
(* The WebSocket session of src/websocket.cpp at both ends of one          *)
(* connection, from the key confirmation on: the bounded queue of frames   *)
(* with the offset of what is already written, the stall clock, the reader *)
(* that returns messages, answers pings and remembers pongs, and the close *)
(* that cuts off what is queued.                                           *)
(*                                                                         *)
(* A frame is its header and Len payload units; the header counts as one   *)
(* unit and is not cut.  The wire keeps the frames an end has written that *)
(* the other has not parsed; only the last may be incomplete.  A path      *)
(* between the ends may split a message and let a control frame through    *)
(* between the parts.  Masks, opcodes no end sends and the size limit of   *)
(* the receive buffer are left out.                                        *)
(***************************************************************************)
EXTENDS Naturals, Sequences

CONSTANTS Lens,       \* payload lengths of binary messages
          TxLimit,    \* kMaxWsTxBytes, in units
          Socket,     \* units the path takes before the peer receives
          MaxPongs,   \* kMaxRememberedPongs
          StallAfter, \* websocket_io_timeout_sec, in ticks
          Senders,    \* ends that send messages
          MaxSent,    \* bound on the messages of an end
          MaxPings    \* bound on the pings of the client

Ends == {"client", "server"}
Peer(e) == IF e = "client" THEN "server" ELSE "client"

ASSUME WsAssumption ==
  /\ Lens \subseteq Nat /\ TxLimit \in Nat \ {0} /\ Socket \in Nat \ {0}
  /\ MaxPongs \in Nat \ {0} /\ StallAfter \in Nat \ {0}
  /\ Senders \subseteq Ends /\ MaxSent \in Nat /\ MaxPings \in Nat

VARIABLES status,      \* open, failed (an operation threw) or closed
          why,         \* what it threw
          tx,          \* tx: frames with the units written
          queued,      \* tx_queued_bytes
          since,       \* ticks since tx_last_progress_ms, plus one; 0 when that is 0
          wire,        \* frames written and not parsed by the peer
          unread,      \* units in the socket
          out,         \* messages parsed by the read that is going on
          reading,     \* a read is going on
          fragment,    \* fragment_opcode and fragment_payload
          eof,         \* peer_eof
          closing,     \* close_received
          confirmed,   \* the key confirmation has been received
          prefetched,  \* prefetched_messages
          got,         \* messages handed to the caller
          pongs,       \* pong_payloads
          sent,        \* messages queued so far
          frames,      \* tx_binary_frames: messages written whole
          pings

sendVars == <<tx, queued, since, frames>>
readVars == <<out, reading, fragment, eof, closing, confirmed, prefetched, got, pongs>>
pathVars == <<wire, unread>>
vars == <<status, why, sendVars, pathVars, readVars, sent, pings>>

Init ==
  /\ status = [e \in Ends |-> "open"] /\ why = [e \in Ends |-> "none"]
  /\ tx = [e \in Ends |-> <<>>] /\ queued = [e \in Ends |-> 0]
  /\ frames = [e \in Ends |-> 0] /\ since = [e \in Ends |-> 0]
  /\ wire = [e \in Ends |-> <<>>] /\ unread = [e \in Ends |-> 0]
  /\ out = [e \in Ends |-> <<>>] /\ reading = [e \in Ends |-> FALSE]
  /\ fragment = [e \in Ends |-> <<>>]
  /\ eof = [e \in Ends |-> FALSE] /\ closing = [e \in Ends |-> FALSE]
  /\ confirmed = [e \in Ends |-> FALSE] /\ prefetched = [e \in Ends |-> <<>>]
  /\ got = [e \in Ends |-> <<>>] /\ pongs = [e \in Ends |-> <<>>]
  /\ sent = [e \in Ends |-> 0] /\ pings = 0

\* have: units written; cut: units of a close frame stand for payload.
Frame(op, id, len, fin) == [op |-> op, id |-> id, len |-> len, fin |-> fin, have |-> 0, cut |-> FALSE]
Size(f) == f.len + 1
Complete(f) == f.have = Size(f)

Throw(e, reason) ==
  /\ status' = [status EXCEPT ![e] = "failed"] /\ why' = [why EXCEPT ![e] = reason]

Least(a, b) == IF a < b THEN a ELSE b

------------------------------------------------------------------------------
\* The frame queue

Fits(e, f) == queued[e] + Size(f) <= TxLimit

\* A bug: the clock is not started for a frame that finds the queue empty.
PushUnclocked(e, f) ==
  /\ tx' = [tx EXCEPT ![e] = Append(@, f)]
  /\ queued' = [queued EXCEPT ![e] = @ + Size(f)]
  /\ UNCHANGED <<since, frames>>

Push(e, f) ==
  /\ tx' = [tx EXCEPT ![e] = Append(@, f)]
  /\ queued' = [queued EXCEPT ![e] = @ + Size(f)]
  /\ since' = IF tx[e] = <<>> THEN [since EXCEPT ![e] = 1] ELSE since
  /\ UNCHANGED frames

QueueFrame(e, f) ==
  IF Fits(e, f) THEN Push(e, f) /\ UNCHANGED <<status, why>>
  ELSE Throw(e, "TX queue limit") /\ UNCHANGED sendVars

Idle(e) == status[e] = "open" /\ ~reading[e]

\* The first message is the key confirmation, the client's before the server's.
SendBinary(e) ==
  /\ Idle(e) /\ e \in Senders /\ sent[e] < MaxSent
  /\ confirmed[e] \/ (e = "client" /\ sent[e] = 0)
  /\ \E len \in Lens : QueueFrame(e, Frame("binary", sent[e] + 1, len, TRUE))
  /\ sent' = [sent EXCEPT ![e] = @ + 1]
  /\ UNCHANGED <<pathVars, readVars, pings>>

\* The loops ping once the session is confirmed.
SendPing ==
  /\ Idle("client") /\ confirmed["client"] /\ pings < MaxPings /\ pings' = pings + 1
  /\ QueueFrame("client", Frame("ping", pings + 1, 1, TRUE))
  /\ UNCHANGED <<pathVars, readVars, sent>>

\* The wire after n more units of the front frame f.
Written(w, f, n) ==
  IF f.have = 0 THEN Append(w, [f EXCEPT !.have = n])
  ELSE [w EXCEPT ![Len(w)].have = @ + n]

\* One write of websocket_flush.  The budget of a call only says when the next
\* write happens, which is open here.
Write(e) ==
  /\ Idle(e) /\ tx[e] # <<>>
  /\ LET f == Head(tx[e])
     IN  \E n \in 1..Least(Size(f) - f.have, Socket - unread[e]) :
           /\ wire' = [wire EXCEPT ![e] = Written(@, f, n)]
           /\ unread' = [unread EXCEPT ![e] = @ + n]
           /\ queued' = [queued EXCEPT ![e] = @ - n]
           /\ frames' = IF f.op = "binary" /\ f.have + n = Size(f) THEN [frames EXCEPT ![e] = @ + 1] ELSE frames
           /\ tx' = [tx EXCEPT ![e] = IF f.have + n = Size(f) THEN Tail(@)
                                      ELSE [@ EXCEPT ![1].have = f.have + n]]
  /\ since' = [since EXCEPT ![e] = IF tx'[e] = <<>> THEN 0 ELSE 1]
  /\ UNCHANGED <<status, why, readVars, sent, pings>>

\* A bug: the test for an empty queue the wrong way round.
StalledWhenEmpty(e) == tx[e] = <<>> /\ since[e] > StallAfter + 1

Stalled(e) == tx[e] # <<>> /\ since[e] # 0 /\ since[e] > StallAfter + 1

Stall(e) ==
  /\ Idle(e) /\ Stalled(e) /\ Throw(e, "write stalled")
  /\ UNCHANGED <<sendVars, pathVars, readVars, sent, pings>>

\* A write or a read fails: the connection is reset, or the TLS stream ends without
\* the notice that a quiet shutdown omits.  A read that fails parses nothing of what
\* it has received before.
IoFails(e) ==
  /\ Idle(e)
  /\ tx[e] # <<>> \/ (prefetched[e] = <<>> /\ ~closing[e] /\ ~eof[e])
  /\ Throw(e, "I/O failed")
  /\ UNCHANGED <<sendVars, pathVars, readVars, sent, pings>>

Tick ==
  /\ \E e \in Ends : status[e] = "open" /\ since[e] \in 1..(StallAfter + 1)
  /\ since' = [e \in Ends |-> IF since[e] = 0 THEN 0 ELSE Least(since[e] + 1, StallAfter + 2)]
  /\ UNCHANGED <<status, why, tx, queued, frames, pathVars, readVars, sent, pings>>

------------------------------------------------------------------------------
\* Reading

\* Messages that came with the key confirmation go first; a close or an end seen
\* by the read before ends this one.
ReadStart(e) ==
  /\ Idle(e)
  /\ IF prefetched[e] # <<>>
     THEN /\ got' = [got EXCEPT ![e] = @ \o prefetched[e]]
          /\ prefetched' = [prefetched EXCEPT ![e] = <<>>]
          /\ UNCHANGED <<status, why, reading, unread>>
     ELSE /\ IF closing[e] THEN Throw(e, "close received") /\ UNCHANGED <<reading, unread>>
             ELSE IF eof[e] THEN Throw(e, "peer closed") /\ UNCHANGED <<reading, unread>>
             ELSE /\ reading' = [reading EXCEPT ![e] = TRUE]
                  /\ unread' = [unread EXCEPT ![Peer(e)] = 0]
                  /\ UNCHANGED <<status, why>>
          /\ UNCHANGED <<got, prefetched>>
  /\ UNCHANGED <<sendVars, wire, out, fragment, eof, closing, confirmed, pongs, sent, pings>>

NextFrame(e) == Head(wire[Peer(e)])
Arrived(e) == status[e] = "open" /\ reading[e] /\ wire[Peer(e)] # <<>> /\ Complete(NextFrame(e))
Parsed(e) == wire' = [wire EXCEPT ![Peer(e)] = Tail(@)]

Message(f) == [id |-> f.id, cut |-> f.cut]

Collected(s, f) == IF f.fin THEN <<>> ELSE Append(s, Message(f))

ReadData(e) ==
  /\ Arrived(e) /\ NextFrame(e).op \in {"binary", "continuation"} /\ Parsed(e)
  /\ LET f == NextFrame(e)
     IN  IF (f.op = "binary") # (fragment[e] = <<>>)
         THEN Throw(e, "fragments out of order") /\ UNCHANGED <<out, fragment>>
         ELSE /\ out' = IF f.fin THEN [out EXCEPT ![e] = Append(@, Message(f))] ELSE out
              /\ fragment' = [fragment EXCEPT ![e] = Collected(@, f)]
              /\ UNCHANGED <<status, why>>
  /\ UNCHANGED <<sendVars, unread, reading, eof, closing, confirmed, prefetched, got, pongs, sent, pings>>

ReadPing(e) ==
  /\ Arrived(e) /\ NextFrame(e).op = "ping" /\ Parsed(e)
  /\ QueueFrame(e, [NextFrame(e) EXCEPT !.op = "pong", !.have = 0, !.cut = FALSE])
  /\ UNCHANGED <<unread, readVars, sent, pings>>

Remember(s, id) == Append(IF Len(s) >= MaxPongs THEN Tail(s) ELSE s, id)

ReadPong(e) ==
  /\ Arrived(e) /\ NextFrame(e).op = "pong" /\ Parsed(e)
  /\ pongs' = [pongs EXCEPT ![e] = Remember(@, NextFrame(e).id)]
  /\ UNCHANGED <<status, why, sendVars, unread, out, reading, fragment, eof, closing, confirmed,
                 prefetched, got, sent, pings>>

\* A bug: the confirmation itself is kept for the next read as well.
HandOverAgain(e) ==
  LET early == ~confirmed[e] /\ out[e] # <<>>
  IN  /\ got' = [got EXCEPT ![e] = @ \o (IF early THEN <<Head(out[e])>> ELSE out[e])]
      /\ prefetched' = [prefetched EXCEPT ![e] = IF early THEN out[e] ELSE <<>>]
      /\ confirmed' = [confirmed EXCEPT ![e] = @ \/ early]

\* What the read hands over: the first message is the key confirmation, what came
\* with it is kept for the next read.
HandOver(e) ==
  LET early == ~confirmed[e] /\ out[e] # <<>>
  IN  /\ got' = [got EXCEPT ![e] = @ \o (IF early THEN <<Head(out[e])>> ELSE out[e])]
      /\ prefetched' = [prefetched EXCEPT ![e] = IF early THEN Tail(out[e]) ELSE <<>>]
      /\ confirmed' = [confirmed EXCEPT ![e] = @ \/ early]

ReadEnds(e) == reading' = [reading EXCEPT ![e] = FALSE] /\ out' = [out EXCEPT ![e] = <<>>]

\* A bug: the messages before a close frame are thrown away with it.
CloseAtOnce(e) == Throw(e, "close received") /\ UNCHANGED <<got, prefetched, confirmed>>

\* A close frame ends the session at once when no message came before it, else
\* when the caller reads again.
CloseSeen(e) ==
  IF out[e] = <<>> THEN Throw(e, "close received") /\ UNCHANGED <<got, prefetched, confirmed>>
  ELSE HandOver(e) /\ UNCHANGED <<status, why>>

\* The echo is queued if it fits.
ReadClose(e) ==
  /\ Arrived(e) /\ NextFrame(e).op = "close" /\ Parsed(e)
  /\ LET echo == Frame("close", 0, 0, TRUE)
     IN  IF Fits(e, echo) THEN Push(e, echo) ELSE UNCHANGED sendVars
  /\ closing' = [closing EXCEPT ![e] = TRUE]
  /\ CloseSeen(e) /\ ReadEnds(e)
  /\ UNCHANGED <<unread, fragment, eof, pongs, sent, pings>>

\* Nothing more has arrived: the read returns, or the stream has ended.
ReadReturn(e) ==
  /\ status[e] = "open" /\ reading[e]
  /\ ~Arrived(e) /\ ReadEnds(e)
  /\ \/ HandOver(e) /\ UNCHANGED <<status, why, eof>>
     \/ /\ status[Peer(e)] = "closed"
        /\ eof' = [eof EXCEPT ![e] = TRUE]
        /\ IF wire[Peer(e)] # <<>> \/ fragment[e] # <<>>
           THEN Throw(e, "truncated") /\ UNCHANGED <<got, prefetched, confirmed>>
           ELSE IF out[e] = <<>> THEN Throw(e, "peer closed") /\ UNCHANGED <<got, prefetched, confirmed>>
           ELSE HandOver(e) /\ UNCHANGED <<status, why>>
  /\ UNCHANGED <<sendVars, pathVars, fragment, closing, pongs, sent, pings>>

TakePongs(e) ==
  /\ Idle(e) /\ pongs[e] # <<>> /\ pongs' = [pongs EXCEPT ![e] = <<>>]
  /\ UNCHANGED <<status, why, sendVars, pathVars, out, reading, fragment, eof, closing, confirmed,
                 prefetched, got, sent, pings>>

------------------------------------------------------------------------------
\* Closing

CloseFrame(w) ==
  LET whole == \A i \in 1..Len(w) : Complete(w[i])
  IN  IF whole THEN Append(w, [Frame("close", 0, 0, TRUE) EXCEPT !.have = 1])
      ELSE [w EXCEPT ![Len(w)].have = @ + 1, ![Len(w)].cut = TRUE]

\* websocket_close, after a throw or because the caller is done: what is queued
\* is dropped, and a close frame follows whatever has been written, unless the
\* path does not take it in time.
Close(e) ==
  /\ status[e] = "failed" \/ Idle(e)
  /\ status' = [status EXCEPT ![e] = "closed"]
  /\ why' = IF why[e] = "none" THEN [why EXCEPT ![e] = "own decision"] ELSE why
  /\ wire' \in {wire, [wire EXCEPT ![e] = CloseFrame(@)]}
  /\ tx' = [tx EXCEPT ![e] = <<>>] /\ queued' = [queued EXCEPT ![e] = 0]
  /\ since' = [since EXCEPT ![e] = 0]
  /\ UNCHANGED <<unread, frames, readVars, sent, pings>>

------------------------------------------------------------------------------
\* The path: a whole message is split, a control frame passes between its parts.

Split(e, i) ==
  LET f == wire[e][i]
      part(op, len, fin) == [f EXCEPT !.op = op, !.len = len, !.fin = fin, !.have = len + 1]
  IN  /\ f.op = "binary" /\ f.fin /\ f.len > 1 /\ Complete(f) /\ ~f.cut
      /\ wire' = [wire EXCEPT ![e] = SubSeq(@, 1, i - 1)
                    \o <<part("binary", 1, FALSE), part("continuation", f.len - 1, TRUE)>>
                    \o SubSeq(@, i + 1, Len(@))]

Overtake(e, i) ==
  /\ i < Len(wire[e]) /\ wire[e][i].op = "continuation"
  /\ wire[e][i + 1].op \in {"ping", "pong"} /\ Complete(wire[e][i + 1])
  /\ wire' = [wire EXCEPT ![e][i] = wire[e][i + 1], ![e][i + 1] = wire[e][i]]

Path(e) ==
  /\ \E i \in 1..Len(wire[e]) : Split(e, i) \/ Overtake(e, i)
  /\ UNCHANGED <<status, why, sendVars, unread, readVars, sent, pings>>

------------------------------------------------------------------------------
Read(e) == ReadStart(e) \/ ReadData(e) \/ ReadPing(e) \/ ReadPong(e) \/ ReadClose(e) \/ ReadReturn(e)

Next ==
  \/ SendPing \/ Tick
  \/ \E e \in Ends :
       \/ SendBinary(e) \/ Write(e) \/ Stall(e) \/ IoFails(e) \/ Read(e) \/ TakePongs(e)
       \/ Close(e) \/ Path(e)

Spec == Init /\ [][Next]_vars

\* Every turn of the client's loop tests the clock and writes, between two reads;
\* time passes; the server may hang.
ClientTurns ==
  /\ SF_vars(Write("client")) /\ SF_vars(Stall("client")) /\ WF_vars(Tick)
  /\ WF_vars(Read("client") /\ reading["client"])
  /\ WF_vars(status["client"] = "failed" /\ Close("client"))

FairSpec == Spec /\ ClientTurns

------------------------------------------------------------------------------
\* tx_queued_bytes is what is left to write, within its limit, and the stall clock
\* runs exactly while something is: a drift would refuse frames for ever, or miss a stalled peer.
Left(s) == LET left[n \in 0..Len(s)] == IF n = 0 THEN 0 ELSE left[n - 1] + Size(s[n]) - s[n].have
           IN  left[Len(s)]
TxExact ==
  \A e \in Ends : queued[e] = Left(tx[e]) /\ queued[e] <= TxLimit /\ (tx[e] = <<>> <=> since[e] = 0)

\* Messages come out in the order they went in, none lost and none twice, through
\* partial writes, fragments and the prefetching of the key confirmation; one that
\* is damaged is the last, and its sender had closed in the middle of it; and no end
\* is accused of breaking the rules of fragments.
MessagesExact ==
  \A e \in Ends :
    /\ why[e] # "fragments out of order"
    /\ \A i \in 1..Len(got[e]) :
         /\ got[e][i].id = i
         /\ got[e][i].cut => i = Len(got[e]) /\ status[Peer(e)] = "closed"

\* When a session ends because the peer's close frame or the orderly end of its
\* stream came, every message the peer has written whole has been handed over.
CloseAfterData ==
  \A e \in Ends : why[e] \in {"close received", "peer closed"} => Len(got[e]) >= frames[Peer(e)]

\* The client gets rid of what it has queued, or ends the session, although the
\* server may never read again.
NeverStuck ==
  tx["client"] # <<>> ~> (tx["client"] = <<>> \/ status["client"] = "closed")
=============================================================================
