------------------------------- MODULE Input -------------------------------
(***************************************************************************)
(* One input thread (input.c): it accepts connections, waits for events    *)
(* with an edge-triggered epoll, reads one message per event, hands it to  *)
(* a worker's queue or drains it, and drops the connection when its peer   *)
(* hangs up.                                                               *)
(*                                                                         *)
(* net_setnonblocking calls fcntl with F_GETFD/F_SETFD and no flags, so    *)
(* every socket stays blocking: a recv of net_nonblocking_readn waits for  *)
(* data or for the end of the stream (net.c).                              *)
(*                                                                         *)
(* A stream is a sequence of units: a header with no body ("h0"), a header *)
(* followed by a body ("h1") and that body ("b"), or a header whose length *)
(* ends the process ("big"), so that its body is never read and is left    *)
(* out: it is 2^31 or more, negative in an int, or it is drained and more  *)
(* than the stack, on which tmpbuf is, can hold.  The 8 bytes of a header  *)
(* and the bytes of a body arrive as one unit: with a blocking socket, a   *)
(* shorter read differs only at the end of the stream, where both count as *)
(* missing.                                                                *)
(***************************************************************************)
EXTENDS FiniteSets, Integers, SequencesExt

CONSTANTS
  Conns,       \* the connections peers may open
  MaxMsgs,     \* bound: MaxMsgs[c] messages are sent on connection c
  Unruly,      \* those whose peers may reset them or send such a length
  Verdicts     \* what looking up a worker and an entry may yield: "found",
               \* "drained" (Q_NONE, Q_MSG2BIG, Q_FULL), "badqidx" (Q_BADQIDX)

ASSUME InputAssumption ==
  /\ IsFiniteSet(Conns)
  /\ Unruly \subseteq Conns
  /\ MaxMsgs \in [Conns -> Nat]
  /\ Verdicts \subseteq {"found", "drained", "badqidx"}

Headers == {"h0", "h1", "big"}
Units   == Headers \cup {"b"}

\* mbuf of a connection: n is the number of units of the current message read
\* so far, hdr its header, qe its entry ("wild": an uninitialised pointer)
NoMsg == [n |-> 0, hdr |-> "h0", qe |-> "null"]
MsgBufs == [n : 0 .. 1, hdr : Headers, qe : {"null", "entry", "wild"}]

VARIABLES
  state,    \* state[c]: "none", "backlog", "open" or "closed" on our side
  begun,    \* begun[c]: messages the peer has begun to send
  midway,   \* midway[c]: the peer still owes the body of the last one
  fin,      \* fin[c]: the peer has closed
  rst,      \* rst[c]: the connection has been reset
  kbuf,     \* kbuf[c]: units received by the kernel and not read
  ready,    \* the connections on epoll's ready list (an edge is pending)
  events,   \* events of the last epoll_wait not dispatched yet
  pc,       \* control state of the thread
  cur,      \* the event being served
  mbuf,     \* mbuf[c]: see MsgBufs
  served,   \* served[c]: messages delivered to a worker or drained
  lost      \* entries freed with their connection

vars == <<state, begun, midway, fin, rst, kbuf, ready, events, pc, cur, mbuf, served, lost>>
peer == <<begun, midway, rst>>

\* The events of an epoll_wait: the listening socket's, or a connection's
\* with the EPOLLRDHUP flag as it was when epoll_wait returned
Listen == [conn |-> "listen", rdhup |-> FALSE]
Events == {Listen} \cup [conn : Conns, rdhup : BOOLEAN]

Init ==
  /\ state  = [c \in Conns |-> "none"]
  /\ begun  = [c \in Conns |-> 0]
  /\ midway = [c \in Conns |-> FALSE]
  /\ fin    = [c \in Conns |-> FALSE]
  /\ rst    = [c \in Conns |-> FALSE]
  /\ kbuf   = [c \in Conns |-> << >>]
  /\ ready  = {}
  /\ events = {}
  /\ pc     = "wait"
  /\ cur    = Listen
  /\ mbuf   = [c \in Conns |-> NoMsg]
  /\ served = [c \in Conns |-> 0]
  /\ lost   = 0

-----------------------------------------------------------------------------
(***************************************************************************)
(* The peers and the kernel.                                               *)
(***************************************************************************)

\* New data or a FIN is an edge on a registered connection
Edge(c) == ready' = IF state[c] = "open" THEN ready \cup {c} ELSE ready

Connect(c) ==
  /\ state[c] = "none"
  /\ state' = [state EXCEPT ![c] = "backlog"]
  /\ UNCHANGED <<peer, fin, kbuf, ready, events, pc, cur, mbuf, served, lost>>

Send(c, u) ==
  /\ state[c] \in {"backlog", "open"} /\ ~fin[c]
  /\ IF midway[c] THEN u = "b" ELSE u \in Headers /\ begun[c] < MaxMsgs[c]
  /\ u = "big" => c \in Unruly
  /\ kbuf'   = [kbuf EXCEPT ![c] = Append(@, u)]
  /\ midway' = [midway EXCEPT ![c] = (u = "h1")]
  /\ begun'  = [begun EXCEPT ![c] = IF u \in Headers THEN @ + 1 ELSE @]
  /\ Edge(c)
  /\ UNCHANGED <<state, fin, rst, events, pc, cur, mbuf, served, lost>>

HangUp(c) ==
  /\ state[c] \in {"backlog", "open"} /\ ~fin[c]
  /\ fin' = [fin EXCEPT ![c] = TRUE]
  /\ Edge(c)
  /\ UNCHANGED <<state, peer, kbuf, events, pc, cur, mbuf, served, lost>>

\* RST: what has arrived can still be read, then recv fails with ECONNRESET
\* (after a FIN it returns 0 all the same)
Reset(c) ==
  /\ c \in Unruly
  /\ state[c] \in {"backlog", "open"} /\ ~fin[c]
  /\ rst' = [rst EXCEPT ![c] = TRUE]
  /\ fin' = [fin EXCEPT ![c] = TRUE]
  /\ Edge(c)
  /\ UNCHANGED <<state, begun, midway, kbuf, events, pc, cur, mbuf, served, lost>>

-----------------------------------------------------------------------------
(***************************************************************************)
(* input_thread_loop.                                                      *)
(***************************************************************************)

\* epoll_wait returns the connections with an edge that still have something
\* to report, and the listening socket (level-triggered)
EpollWait ==
  LET report(c) == kbuf[c] # << >> \/ fin[c]
      batch == {[conn |-> c, rdhup |-> fin[c]] : c \in {r \in ready : report(r)}}
               \cup IF \E c \in Conns : state[c] = "backlog" THEN {Listen} ELSE {}
  IN /\ pc = "wait"
     /\ batch # {}
     /\ events' = batch
     /\ ready'  = {}
     /\ pc'     = "dispatch"
     /\ UNCHANGED <<state, peer, fin, kbuf, cur, mbuf, served, lost>>

\* All events of the batch have been processed
BatchDone ==
  /\ pc = "dispatch" /\ events = {}
  /\ pc' = "wait"
  /\ UNCHANGED <<state, peer, fin, kbuf, ready, events, cur, mbuf, served, lost>>

\* accept, input_connection_new and EPOLL_CTL_ADD, which is an edge if the
\* socket has data already
Accept(c) ==
  /\ pc = "dispatch" /\ Listen \in events
  /\ state[c] = "backlog"
  /\ state'  = [state EXCEPT ![c] = "open"]
  /\ mbuf'   = [mbuf EXCEPT ![c] = NoMsg]
  /\ ready'  = IF kbuf[c] # << >> \/ fin[c] THEN ready \cup {c} ELSE ready
  /\ events' = events \ {Listen}
  /\ UNCHANGED <<peer, fin, kbuf, pc, cur, served, lost>>

\* EPOLLIN on a connection: input_serveConnection begins
ServeConnection(e) ==
  /\ pc = "dispatch" /\ e \in events \ {Listen}
  /\ events' = events \ {e}
  /\ cur'    = e
  /\ pc'     = IF mbuf[e.conn].n = 0 THEN "header" ELSE "body"
  /\ UNCHANGED <<state, peer, fin, kbuf, ready, mbuf, served, lost>>

\* What the lookup leaves in comb->qe.  For Q_BADQIDX worker_getQueueEntry
\* stores nothing, and serveConnection goes on with its uninitialised qe.
EntryFor(verdict) ==
  CASE verdict = "found"   -> {"entry"}
    [] verdict = "drained" -> {"null"}
    [] verdict = "badqidx" -> {"null", "wild"}

\* net_nonblocking_readn of the header, blocking until it is there;
\* input_findWorkerAndQueueEntry; ASSERT(n<=len) on the length as an int, or
\* char tmpbuf[len-n] beyond the stack
ReadHeader(verdict, q) ==
  LET c == cur.conn IN
  /\ pc = "header" /\ kbuf[c] # << >>
  /\ q \in EntryFor(verdict)
  /\ kbuf' = [kbuf EXCEPT ![c] = Tail(@)]
  /\ mbuf' = [mbuf EXCEPT ![c] = [n |-> 1, hdr |-> Head(kbuf[c]), qe |-> q]]
  /\ pc'   = IF Head(kbuf[c]) = "big" THEN "fault" ELSE "body"
  /\ UNCHANGED <<state, peer, fin, ready, events, cur, served, lost>>

\* Mutant: a message without an entry is not drained
ReadBody_NoDrain ==
  LET c == cur.conn IN
  /\ pc = "body"
  /\ IF mbuf[c].hdr = "h1" /\ mbuf[c].qe # "null"
       THEN kbuf[c] # << >> /\ kbuf' = [kbuf EXCEPT ![c] = Tail(@)]
       ELSE UNCHANGED kbuf
  /\ pc' = "release"
  /\ UNCHANGED <<state, peer, fin, ready, events, cur, mbuf, served, lost>>

\* net_nonblocking_readn of the body, into the entry or a scratch buffer (a
\* wild entry's end comes in Release, if the write has not brought it before)
ReadBody ==
  LET c == cur.conn IN
  /\ pc = "body"
  /\ IF mbuf[c].hdr = "h1"
       THEN kbuf[c] # << >> /\ kbuf' = [kbuf EXCEPT ![c] = Tail(@)]
       ELSE UNCHANGED kbuf
  /\ pc' = "release"
  /\ UNCHANGED <<state, peer, fin, ready, events, cur, mbuf, served, lost>>

\* Mutant: a short read does not return from serveConnection
ReadEOF_GoOn ==
  LET c == cur.conn IN
  /\ pc = "header" \/ (pc = "body" /\ mbuf[c].hdr = "h1")
  /\ kbuf[c] = << >> /\ fin[c]
  /\ pc' = "release"
  /\ UNCHANGED <<state, peer, fin, kbuf, ready, events, cur, mbuf, served, lost>>

\* Mutant: a read also returns short when there is no data yet
ReadEOF_NoBlock ==
  LET c == cur.conn IN
  /\ pc = "header" \/ (pc = "body" /\ mbuf[c].hdr = "h1")
  /\ kbuf[c] = << >>
  /\ pc' = "flags"
  /\ UNCHANGED <<state, peer, fin, kbuf, ready, events, cur, mbuf, served, lost>>

\* Mutant: the end of the stream cleans the connection up at once
ReadEOF_Cleanup ==
  LET c == cur.conn IN
  /\ pc = "header" \/ (pc = "body" /\ mbuf[c].hdr = "h1")
  /\ kbuf[c] = << >> /\ fin[c]
  /\ pc' = "flags"
  /\ state' = [state EXCEPT ![c] = "closed"]
  /\ UNCHANGED <<peer, fin, kbuf, ready, events, cur, mbuf, served, lost>>

\* The stream ends before the header or the body: serveConnection returns.
\* After a reset recv fails, and assert(0) ends the process.
ReadEOF ==
  LET c == cur.conn IN
  /\ pc = "header" \/ (pc = "body" /\ mbuf[c].hdr = "h1")
  /\ kbuf[c] = << >> /\ fin[c]
  /\ pc' = IF rst[c] THEN "fault" ELSE "flags"
  /\ UNCHANGED <<state, peer, fin, kbuf, ready, events, cur, mbuf, served, lost>>

\* Mutant: the message buffer is not reset
Release_NoReset ==
  LET c == cur.conn IN
  /\ pc = "release"
  /\ IF mbuf[c].qe = "wild"
       THEN pc' = "fault" /\ UNCHANGED served
       ELSE /\ pc'     = "flags"
            /\ served' = [served EXCEPT ![c] = @ + 1]
  /\ UNCHANGED <<state, peer, fin, kbuf, ready, events, cur, mbuf, lost>>

\* worker_putBackQueueEntry, whose assertion on qidx fails for a wild entry;
\* msgbuf_reset
Release ==
  LET c == cur.conn IN
  /\ pc = "release"
  /\ IF mbuf[c].qe = "wild"
       THEN pc' = "fault" /\ UNCHANGED <<mbuf, served>>
       ELSE /\ pc'     = "flags"
            /\ mbuf'   = [mbuf EXCEPT ![c] = NoMsg]
            /\ served' = [served EXCEPT ![c] = @ + 1]
  /\ UNCHANGED <<state, peer, fin, kbuf, ready, events, cur, lost>>

\* Mutant: a connection lost in the middle of a message is left alone
CheckFlags_KeepPartial ==
  LET c == cur.conn IN
  /\ pc = "flags"
  /\ pc' = "dispatch"
  /\ IF cur.rdhup /\ mbuf[c].n = 0
       THEN /\ state' = [state EXCEPT ![c] = "closed"]
            /\ ready' = ready \ {c}
       ELSE UNCHANGED <<state, ready>>
  /\ UNCHANGED <<peer, fin, kbuf, events, cur, mbuf, served, lost>>

\* Mutant: epoll_wait is called again before the batch is finished
CheckFlags_Break ==
  LET c == cur.conn IN
  /\ pc = "flags"
  /\ pc' = "wait"
  /\ events' = {}
  /\ IF cur.rdhup
       THEN /\ state' = [state EXCEPT ![c] = "closed"]
            /\ ready' = ready \ {c}
            /\ mbuf'  = [mbuf EXCEPT ![c] = NoMsg]
       ELSE UNCHANGED <<state, ready, mbuf>>
  /\ UNCHANGED <<peer, fin, kbuf, cur, served, lost>>

\* EPOLLRDHUP: input_cleanupConnection frees the connection, and its entry
\* with it, whatever else is in the socket; otherwise the next event
CheckFlags ==
  LET c == cur.conn IN
  /\ pc = "flags"
  /\ pc' = "dispatch"
  /\ IF cur.rdhup
       THEN /\ state' = [state EXCEPT ![c] = "closed"]
            /\ ready' = ready \ {c}           \* EPOLL_CTL_DEL, close
            /\ mbuf'  = [mbuf EXCEPT ![c] = NoMsg]
            /\ lost'  = IF mbuf[c].qe = "entry" THEN lost + 1 ELSE lost
       ELSE UNCHANGED <<state, ready, mbuf, lost>>
  /\ UNCHANGED <<peer, fin, kbuf, events, cur, served>>

ThreadStep ==
  \/ EpollWait
  \/ BatchDone
  \/ \E c \in Conns : Accept(c)
  \/ \E e \in events : ServeConnection(e)
  \/ \E v \in Verdicts, q \in {"entry", "null", "wild"} : ReadHeader(v, q)
  \/ ReadBody
  \/ ReadEOF
  \/ Release
  \/ CheckFlags

\* A failed assertion ends the process.
Next ==
  /\ pc # "fault"
  /\ \/ \E c \in Conns : Connect(c) \/ HangUp(c) \/ Reset(c) \/ \E u \in Units : Send(c, u)
     \/ ThreadStep

Spec == Init /\ [][Next]_vars

\* The thread runs whenever it is not blocked; peers do as they please.
FairSpec == Spec /\ WF_vars(ThreadStep)

-----------------------------------------------------------------------------
TypeOK ==
  /\ state  \in [Conns -> {"none", "backlog", "open", "closed"}]
  /\ begun  \in [Conns -> Nat] /\ \A c \in Conns : begun[c] <= MaxMsgs[c]
  /\ midway \in [Conns -> BOOLEAN]
  /\ fin    \in [Conns -> BOOLEAN]
  /\ rst    \in [Conns -> BOOLEAN]
  /\ kbuf   \in [Conns -> Seq(Units)]
  /\ ready  \in SUBSET Conns
  /\ events \in SUBSET Events
  /\ pc     \in {"wait", "dispatch", "header", "body", "release", "flags", "fault"}
  /\ cur    \in Events
  /\ mbuf   \in [Conns -> MsgBufs]
  /\ served \in [Conns -> Nat] /\ \A c \in Conns : served[c] <= MaxMsgs[c]
  /\ lost   \in Nat

Serving(c) == pc \in {"header", "body", "release", "flags"} /\ cur.conn = c

\* The thread never takes the body of one message for the header of another,
\* however many messages it drains: a connection between two messages has a
\* header at the front of its stream, one within a message the missing body.
FramingInSync ==
  \A c \in Conns :
    pc # "fault" /\ state[c] = "open" /\ kbuf[c] # << >> =>
      LET bodyNext == /\ mbuf[c].n = 1 /\ mbuf[c].hdr = "h1"
                      /\ ~(Serving(c) /\ pc = "release")
      IN Head(kbuf[c]) = "b" <=> bodyNext

\* Blocking reads make the thread finish a message before it turns to another
\* connection: it is never in the middle of two messages whose peers are still
\* there.  (Connections that ended within a message and are yet to be cleaned up
\* may hold entries besides.)
OneMessageAtATime ==
  Cardinality({c \in Conns : mbuf[c].n # 0 /\ ~fin[c]}) <= 1

\* Events and the ready list name live connections only: the thread never
\* serves a connection that input_cleanupConnection has freed.
NoUseAfterFree ==
  /\ \A e \in events \ {Listen} : state[e.conn] = "open"
  /\ \A c \in Conns : Serving(c) \/ c \in ready => state[c] = "open"

\* The connections that were closed within a message
BrokenOff == {c \in Conns : state[c] = "closed" /\ midway[c]}

\* input_cleanupConnection frees an entry only with a message whose peer closed in
\* the middle of it, and one for each such connection at most: no loss of a
\* connection takes the entry of a message that has arrived.
OnlyBrokenOffLoseEntries == lost <= Cardinality(BrokenOff)

\* The process has ended because of the connection served: its peer is unruly, or
\* the lookup has left a wild entry.
BroughtDown == pc = "fault" /\ (cur.conn \in Unruly \/ mbuf[cur.conn].qe = "wild")

\* If every peer hangs up in the end, wherever in a message, every connection is
\* cleaned up, unless an unruly peer or a wild entry has brought the process down.
HangupsHandled ==
  (\A c \in Conns : state[c] = "open" ~> fin[c]) =>
    \A c \in Conns : state[c] = "open" ~> state[c] = "closed" \/ BroughtDown

\* A complete message waits in the socket of a live connection.
MessageWaiting(c) ==
  /\ state[c] = "open" /\ mbuf[c].n = 0 /\ kbuf[c] # << >>
  /\ Head(kbuf[c]) = "h1" => Len(kbuf[c]) > 1

\* If no peer stops in the middle of a message, the first message of every
\* connection is served, with the same exceptions.
FirstMessageServed ==
  (\A c \in Conns : midway[c] ~> ~midway[c] \/ fin[c]) =>
    \A c \in Conns : MessageWaiting(c) ~> served[c] > 0 \/ BroughtDown

\* "our job is to buffer a message to a work": a complete message in the
\* socket is served or drained.
EveryMessageServed ==
  \A c \in Conns : \A k \in 0 .. MaxMsgs[c] - 1 :
    MessageWaiting(c) /\ served[c] = k ~> served[c] > k \/ BroughtDown

\* A partial message on one connection does not keep the others waiting.
OthersNotBlocked ==
  \A c \in Conns : MessageWaiting(c) /\ served[c] = 0 ~> served[c] > 0 \/ BroughtDown
=============================================================================
