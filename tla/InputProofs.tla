---------------------------- MODULE InputProofs ----------------------------
(***************************************************************************)
(* Theorems about Input, for any number of connections and messages.  The  *)
(* inductive invariant Inv adds to the type invariant                      *)
(*   - that epoll names a connection at most once in a batch, and not      *)
(*     again while the thread serves it (Life): cleaning it up leaves no   *)
(*     event behind that names it;                                         *)
(*   - that a message is left unfinished only when its peer has closed, or *)
(*     while the thread is in it (Partial);                                *)
(*   - that the socket of a connection continues the stream where the      *)
(*     thread left it: a body follows exactly a header that has one        *)
(*     (Stream);                                                           *)
(*   - that a message is served at most once: with the one in progress and *)
(*     those in the socket, no more than the peer has begun (Counts);      *)
(*   - that the thread gives a message up only where its body is missing,  *)
(*     and has an entry only within a message (Losses).                    *)
(***************************************************************************)
EXTENDS Input, SequenceTheorems, FiniteSetTheorems, TLAPS

Busy == pc \in {"header", "body", "release", "flags"}

Life ==
  /\ NoUseAfterFree
  /\ \A d, e \in events \ {Listen} : d.conn = e.conn => d = e
  /\ Busy => cur.conn \in Conns /\ \A e \in events \ {Listen} : e.conn # cur.conn

Partial ==
  /\ \A c \in Conns : mbuf[c].n # 0 =>
       /\ state[c] = "open"
       /\ fin[c] \/ (pc \in {"body", "release", "fault"} /\ cur.conn = c)
  /\ pc = "header" => mbuf[cur.conn].n = 0
  /\ pc \in {"body", "release"} => mbuf[cur.conn].n = 1

\* The thread has yet to take the body of the message it has begun.
BodyNext(c) ==
  mbuf[c].n = 1 /\ mbuf[c].hdr = "h1" /\ ~(pc = "release" /\ cur.conn = c)

\* The k-th unit that is still to come has to be a body.
BodyAt(c, k) == IF k = 1 THEN BodyNext(c) ELSE kbuf[c][k - 1] = "h1"

StreamAt(c) ==
  /\ \A k \in 1 .. Len(kbuf[c]) : kbuf[c][k] = "b" <=> BodyAt(c, k)
  /\ midway[c] <=> BodyAt(c, Len(kbuf[c]) + 1)

Stream == pc # "fault" => \A c \in Conns : state[c] # "closed" => StreamAt(c)

\* The messages a sequence of units begins
HeadersIn(s) == {k \in 1 .. Len(s) : s[k] # "b"}

Counts ==
  \A c \in Conns : served[c] + mbuf[c].n + Cardinality(HeadersIn(kbuf[c])) <= begun[c]

\* A message the thread has given up waits for its body, and nothing is left to read.
GivenUp ==
  pc = "flags" /\ mbuf[cur.conn].n # 0 =>
    mbuf[cur.conn].hdr = "h1" /\ kbuf[cur.conn] = << >>

Losses ==
  /\ GivenUp
  /\ \A c \in Conns : mbuf[c].qe = "entry" => mbuf[c].n = 1
  /\ OnlyBrokenOffLoseEntries

Inv == TypeOK /\ Life /\ Partial /\ Stream /\ Counts /\ Losses

-----------------------------------------------------------------------------
(***************************************************************************)
(* Headers in a sequence of units.                                         *)
(***************************************************************************)

\* The headers in a sequence are finitely many.
LEMMA HeadersFinite ==
  ASSUME NEW s \in Seq(Units)
  PROVE  IsFiniteSet(HeadersIn(s)) /\ Cardinality(HeadersIn(s)) \in Nat
<1>1. IsFiniteSet(1 .. Len(s))
  BY LenProperties, FS_Interval
<1>2. HeadersIn(s) \subseteq 1 .. Len(s)
  BY DEF HeadersIn
<1> QED
  BY <1>1, <1>2, FS_Subset, FS_CardinalityType

\* Appending a header adds one, appending a body none.
LEMMA HeadersAppend ==
  ASSUME NEW s \in Seq(Units), NEW u \in Units
  PROVE  Cardinality(HeadersIn(Append(s, u)))
           = Cardinality(HeadersIn(s)) + (IF u = "b" THEN 0 ELSE 1)
<1> DEFINE t == Append(s, u)
<1>1. Len(s) \in Nat /\ Len(t) = Len(s) + 1
  BY AppendProperties, LenProperties
<1>2. (\A k \in 1 .. Len(s) : t[k] = s[k]) /\ t[Len(s) + 1] = u
  BY AppendProperties
<1> HIDE DEF t
<1>3. CASE u = "b"
  <2>1. HeadersIn(t) = HeadersIn(s)
    BY <1>1, <1>2, <1>3 DEF HeadersIn
  <2> QED
    BY <1>3, <2>1, HeadersFinite DEF t
<1>4. CASE u # "b"
  <2>1. HeadersIn(t) = HeadersIn(s) \cup {Len(s) + 1}
    BY <1>1, <1>2, <1>4 DEF HeadersIn
  <2>2. Len(s) + 1 \notin HeadersIn(s)
    BY <1>1 DEF HeadersIn
  <2>3. Cardinality(HeadersIn(s) \cup {Len(s) + 1}) = Cardinality(HeadersIn(s)) + 1
    BY <2>2, HeadersFinite, FS_AddElement
  <2> QED
    BY <1>4, <2>1, <2>3 DEF t
<1> QED
  BY <1>3, <1>4

\* Taking the first unit away adds none, and takes one away if it is a header.
LEMMA HeadersTail ==
  ASSUME NEW s \in Seq(Units), s # << >>
  PROVE  Cardinality(HeadersIn(Tail(s))) + (IF Head(s) = "b" THEN 0 ELSE 1)
           <= Cardinality(HeadersIn(s))
<1> DEFINE t == Tail(s)
           S == HeadersIn(s)
           T == HeadersIn(t)
           later == S \ {1}
           next == [k \in T |-> k + 1]
<1>1. /\ t \in Seq(Units) /\ Len(s) \in Nat /\ Len(t) = Len(s) - 1
      /\ \A k \in 1 .. Len(t) : t[k] = s[k + 1]
  BY HeadTailProperties, LenProperties
<1>2. Len(t) \in Nat
  BY <1>1, LenProperties
<1>3. IsFiniteSet(S) /\ Cardinality(S) \in Nat /\ Cardinality(T) \in Nat
  BY <1>1, HeadersFinite
<1>4. IsFiniteSet(later) /\ Cardinality(later) = Cardinality(S) - (IF 1 \in S THEN 1 ELSE 0)
  BY <1>3, FS_RemoveElement, FS_CardinalityType
<1>5. next \in Injection(T, later)
  <2>1. \A k \in T : k \in 1 .. Len(t) /\ t[k] # "b"
    BY DEF HeadersIn
  <2>2. \A k \in T : k + 1 \in later
    BY <1>1, <1>2, <2>1 DEF HeadersIn
  <2>3. next \in [T -> later]
    BY <2>2
  <2>4. \A j, k \in T : next[j] = next[k] => j = k
    BY <2>1
  <2> HIDE DEF next, later, T
  <2> QED
    BY <2>3, <2>4 DEF Injection, IsInjective
<1>6. Cardinality(T) <= Cardinality(later)
  BY <1>4, <1>5, FS_Injection
<1>7. Head(s) # "b" => 1 \in S
  BY <1>1, <1>2 DEF HeadersIn
<1> QED
  BY <1>3, <1>4, <1>6, <1>7

-----------------------------------------------------------------------------
(***************************************************************************)
(* What keeps the parts of the invariant.                                  *)
(***************************************************************************)

\* A stream that nobody touches stays well-formed.
LEMMA StreamFrame ==
  ASSUME NEW c \in Conns, StreamAt(c),
         kbuf'[c] = kbuf[c], midway'[c] = midway[c], BodyNext(c)' <=> BodyNext(c)
  PROVE  StreamAt(c)'
BY DEF StreamAt, BodyAt

\* What a peer may send continues the stream.
LEMMA StreamSend ==
  ASSUME NEW c \in Conns, NEW u \in Units, kbuf[c] \in Seq(Units), StreamAt(c),
         kbuf'[c] = Append(kbuf[c], u),
         u = "b" <=> midway[c], midway'[c] <=> u = "h1",
         BodyNext(c)' <=> BodyNext(c)
  PROVE  StreamAt(c)'
<1> DEFINE s == kbuf[c]
           t == kbuf'[c]
<1>1. Len(s) \in Nat /\ Len(t) = Len(s) + 1
  BY AppendProperties, LenProperties
<1>2. (\A k \in 1 .. Len(s) : t[k] = s[k]) /\ t[Len(s) + 1] = u
  BY AppendProperties
<1>3. \A k \in 1 .. Len(s) + 1 : BodyAt(c, k)' <=> BodyAt(c, k)
  BY <1>1, <1>2 DEF BodyAt
<1>4. \A k \in 1 .. Len(t) : t[k] = "b" <=> BodyAt(c, k)'
  <2> SUFFICES ASSUME NEW k \in 1 .. Len(t) PROVE t[k] = "b" <=> BodyAt(c, k)'
    OBVIOUS
  <2>1. CASE k \in 1 .. Len(s)
    BY <1>1, <1>2, <1>3, <2>1 DEF StreamAt
  <2>2. CASE k = Len(s) + 1
    BY <1>1, <1>2, <1>3, <2>2 DEF StreamAt
  <2> QED
    BY <1>1, <2>1, <2>2
<1>5. BodyAt(c, Len(kbuf[c]) + 1)' <=> u = "h1"
  BY <1>1, <1>2 DEF BodyAt
<1> QED
  BY <1>4, <1>5 DEF StreamAt

\* So does what is left when the thread takes the first unit, if it expects a
\* body exactly behind a header that has one.
LEMMA StreamRead ==
  ASSUME NEW c \in Conns, kbuf[c] \in Seq(Units), kbuf[c] # << >>, StreamAt(c),
         kbuf'[c] = Tail(kbuf[c]), midway'[c] = midway[c],
         BodyNext(c)' <=> Head(kbuf[c]) = "h1"
  PROVE  StreamAt(c)'
<1> DEFINE s == kbuf[c]
           t == kbuf'[c]
<1>1. Len(s) \in Nat /\ Len(t) \in Nat /\ Len(t) = Len(s) - 1
  BY HeadTailProperties, LenProperties
<1>2. (\A k \in 1 .. Len(t) : t[k] = s[k + 1]) /\ Head(s) = s[1]
  BY HeadTailProperties
<1>3. \A k \in 1 .. Len(t) + 1 : BodyAt(c, k)' <=> BodyAt(c, k + 1)
  <2> SUFFICES ASSUME NEW k \in 1 .. Len(t) + 1
               PROVE  BodyAt(c, k)' <=> BodyAt(c, k + 1)
    OBVIOUS
  <2>1. CASE k = 1
    BY <1>2, <2>1 DEF BodyAt
  <2>2. CASE k # 1
    <3>1. k - 1 \in 1 .. Len(t) /\ (k - 1) + 1 = k /\ (k + 1) - 1 = k /\ k + 1 # 1
      BY <1>1, <2>2
    <3>2. t[k - 1] = s[k]
      BY <1>2, <3>1
    <3> QED
      BY <2>2, <3>1, <3>2 DEF BodyAt
  <2> QED
    BY <2>1, <2>2
<1>4. \A k \in 1 .. Len(t) : t[k] = "b" <=> BodyAt(c, k)'
  BY <1>1, <1>2, <1>3 DEF StreamAt
<1>5. midway'[c] <=> BodyAt(c, Len(kbuf[c]) + 1)'
  BY <1>1, <1>3 DEF StreamAt
<1> QED
  BY <1>4, <1>5 DEF StreamAt

\* What the stream says of the front of the socket.
LEMMA FrontOfStream ==
  ASSUME NEW c \in Conns, kbuf[c] \in Seq(Units), kbuf[c] # << >>, StreamAt(c)
  PROVE  Head(kbuf[c]) \in Units /\ (Head(kbuf[c]) = "b" <=> BodyNext(c))
<1>1. Len(kbuf[c]) \in Nat /\ 1 \in 1 .. Len(kbuf[c]) /\ Head(kbuf[c]) = kbuf[c][1]
  BY LenProperties
<1> QED
  BY <1>1, HeadTailProperties DEF StreamAt, BodyAt

\* There is no connection yet when an input starts.
LEMMA InitInv == Init => Inv
<1> SUFFICES ASSUME Init PROVE Inv
  OBVIOUS
<1>1. TypeOK
  <2>1. NoMsg \in MsgBufs
    BY DEF NoMsg, MsgBufs, Headers
  <2>2. << >> \in Seq(Units)
    OBVIOUS
  <2>3. \A c \in Conns : begun[c] <= MaxMsgs[c] /\ served[c] <= MaxMsgs[c]
    BY InputAssumption DEF Init
  <2> QED
    BY <2>1, <2>2, <2>3 DEF Init, TypeOK, Events
<1>2. Life
  BY DEF Init, Life, NoUseAfterFree, Busy, Serving
<1>3. Partial
  BY DEF Init, Partial, NoMsg
<1>4. Stream
  BY DEF Init, Stream, StreamAt, BodyAt, BodyNext, NoMsg
<1>5. Counts
  <2>1. HeadersIn(<< >>) = {}
    BY DEF HeadersIn
  <2>2. Cardinality(HeadersIn(<< >>)) = 0
    BY <2>1, FS_EmptySet
  <2> QED
    BY <2>2 DEF Init, Counts, NoMsg
<1>6. Losses
  <2>1. BrokenOff = {} /\ lost = 0
    BY DEF Init, BrokenOff
  <2>2. Cardinality(BrokenOff) = 0
    BY <2>1, FS_EmptySet
  <2> QED
    BY <2>1, <2>2 DEF Init, NoMsg, Losses, GivenUp, OnlyBrokenOffLoseEntries
<1> QED
  BY <1>1, <1>2, <1>3, <1>4, <1>5, <1>6 DEF Inv

\* A step that takes nothing from a socket and turns no message round keeps the
\* streams of the connections that stay.
LEMMA QuietStream ==
  ASSUME Stream, pc # "fault", kbuf' = kbuf, midway' = midway,
         \A c \in Conns : state'[c] # "closed" =>
           state[c] # "closed" /\ (BodyNext(c)' <=> BodyNext(c))
  PROVE  Stream'
BY StreamFrame DEF Stream

\* What is counted is counted in natural numbers.
LEMMA CountTypes ==
  ASSUME TypeOK, NEW c \in Conns
  PROVE  /\ served[c] \in Nat /\ mbuf[c].n \in 0 .. 1 /\ begun[c] \in Nat
         /\ Cardinality(HeadersIn(kbuf[c])) \in Nat
BY HeadersFinite DEF TypeOK, MsgBufs

\* The counts stay in step while no message is begun, taken or served.
LEMMA QuietCounts ==
  ASSUME TypeOK, Counts, served' = served, begun' = begun, kbuf' = kbuf,
         mbuf' \in [Conns -> MsgBufs],
         \A c \in Conns : mbuf'[c] = mbuf[c] \/ mbuf'[c].n = 0
  PROVE  Counts'
<1> SUFFICES ASSUME NEW c \in Conns
             PROVE  served[c] + mbuf'[c].n + Cardinality(HeadersIn(kbuf[c])) <= begun[c]
  BY DEF Counts
<1>1. served[c] + mbuf[c].n + Cardinality(HeadersIn(kbuf[c])) <= begun[c]
  BY DEF Counts
<1>2. served[c] \in Nat /\ mbuf[c].n \in Nat /\ mbuf'[c].n \in Nat /\ begun[c] \in Nat
  BY DEF TypeOK, MsgBufs
<1>3. Cardinality(HeadersIn(kbuf[c])) \in Nat
  BY HeadersFinite DEF TypeOK
<1>4. CASE mbuf'[c] = mbuf[c]
  BY <1>1, <1>4
<1>5. CASE mbuf'[c].n = 0
  BY <1>1, <1>2, <1>3, <1>5
<1> QED
  BY <1>4, <1>5

\* A connection that was broken off stays so.
LEMMA QuietLosses ==
  ASSUME TypeOK, Losses, lost' = lost, GivenUp',
         \A c \in Conns : state[c] = "closed" => state'[c] = "closed" /\ midway'[c] = midway[c],
         \A c \in Conns : mbuf'[c] = mbuf[c] \/ mbuf'[c].qe # "entry" \/ mbuf'[c].n = 1
  PROVE  Losses'
<1>1. BrokenOff \subseteq BrokenOff'
  BY DEF BrokenOff
<1>2. BrokenOff' \subseteq Conns /\ IsFiniteSet(Conns)
  BY InputAssumption DEF BrokenOff
<1>3. IsFiniteSet(BrokenOff') /\ IsFiniteSet(BrokenOff)
  BY <1>1, <1>2, FS_Subset
<1>4. /\ Cardinality(BrokenOff) <= Cardinality(BrokenOff')
      /\ Cardinality(BrokenOff) \in Nat /\ Cardinality(BrokenOff') \in Nat
  BY <1>1, <1>3, FS_Subset, FS_CardinalityType
<1>5. lost \in Nat /\ lost <= Cardinality(BrokenOff)
  BY DEF TypeOK, Losses, OnlyBrokenOffLoseEntries
<1>6. OnlyBrokenOffLoseEntries'
  BY <1>4, <1>5 DEF OnlyBrokenOffLoseEntries
<1> QED
  BY <1>6 DEF Losses

\* While the thread serves a connection, it is a live one.
LEMMA ServedIsOpen ==
  ASSUME Life, Busy
  PROVE  cur.conn \in Conns /\ state[cur.conn] = "open"
BY DEF Life, NoUseAfterFree, Serving, Busy

\* What no step of a peer touches
LEMMA PeerLife ==
  ASSUME Life, TypeOK, events' = events, pc' = pc, cur' = cur,
         \A c \in Conns : state[c] = "open" => state'[c] = "open",
         \A c \in Conns : c \in ready' \ ready => state'[c] = "open"
  PROVE  Life'
<1>1. \A e \in events \ {Listen} : e.conn \in Conns
  BY DEF TypeOK, Events
<1> QED
  BY <1>1 DEF Life, NoUseAfterFree, Busy, Serving

\* A peer does not touch the message its connection is waiting for.
LEMMA PeerPartial ==
  ASSUME Partial, mbuf' = mbuf, pc' = pc, cur' = cur,
         \A c \in Conns : state[c] = "open" => state'[c] = "open",
         \A c \in Conns : fin[c] => fin'[c]
  PROVE  Partial'
BY DEF Partial

\* Only open connections become ready.
LEMMA EdgeEffect ==
  ASSUME TypeOK, NEW c \in Conns, Edge(c)
  PROVE  /\ ready' \in SUBSET Conns
         /\ \A d \in Conns : d \in ready' \ ready => state[d] = "open"
BY DEF Edge, TypeOK

-----------------------------------------------------------------------------
(***************************************************************************)
(* The peers' steps.                                                       *)
(***************************************************************************)
LEMMA ConnectKeeps ==
  ASSUME Inv, pc # "fault", NEW c \in Conns, Connect(c)
  PROVE  Inv'
<1> USE DEF Inv
<1>1. TypeOK'
  BY DEF Connect, TypeOK, peer
<1>2. Life'
  BY PeerLife DEF Connect, TypeOK
<1>3. Partial'
  BY PeerPartial DEF Connect, TypeOK
<1>4. Stream'
  BY QuietStream DEF Connect, TypeOK, peer, BodyNext
<1>5. Counts'
  BY QuietCounts DEF Connect, TypeOK, peer
<1>6. Losses'
  BY QuietLosses DEF Connect, TypeOK, peer, Losses, GivenUp
<1> QED
  BY <1>1, <1>2, <1>3, <1>4, <1>5, <1>6

\* A peer closes its connection.
LEMMA HangUpKeeps ==
  ASSUME Inv, pc # "fault", NEW c \in Conns, HangUp(c)
  PROVE  Inv'
<1> USE DEF Inv
<1>0. ready' \in SUBSET Conns /\ \A d \in Conns : d \in ready' \ ready => state[d] = "open"
  BY EdgeEffect DEF HangUp
<1>1. TypeOK'
  BY <1>0 DEF HangUp, TypeOK, peer
<1>2. Life'
  BY <1>0, PeerLife DEF HangUp
<1>3. Partial'
  BY PeerPartial DEF HangUp, TypeOK
<1>4. Stream'
  BY QuietStream DEF HangUp, peer, BodyNext
<1>5. Counts'
  BY QuietCounts DEF HangUp, TypeOK, peer
<1>6. Losses'
  BY QuietLosses DEF HangUp, TypeOK, peer, Losses, GivenUp
<1> QED
  BY <1>1, <1>2, <1>3, <1>4, <1>5, <1>6

\* A peer resets its connection.
LEMMA ResetKeeps ==
  ASSUME Inv, pc # "fault", NEW c \in Conns, Reset(c)
  PROVE  Inv'
<1> USE DEF Inv
<1>0. ready' \in SUBSET Conns /\ \A d \in Conns : d \in ready' \ ready => state[d] = "open"
  BY EdgeEffect DEF Reset
<1>1. TypeOK'
  BY <1>0 DEF Reset, TypeOK
<1>2. Life'
  BY <1>0, PeerLife DEF Reset
<1>3. Partial'
  BY PeerPartial DEF Reset, TypeOK
<1>4. Stream'
  BY QuietStream DEF Reset, BodyNext
<1>5. Counts'
  BY QuietCounts DEF Reset, TypeOK
<1>6. Losses'
  BY QuietLosses DEF Reset, TypeOK, peer, Losses, GivenUp
<1> QED
  BY <1>1, <1>2, <1>3, <1>4, <1>5, <1>6

\* A peer sends a header or a body.
LEMMA SendKeeps ==
  ASSUME Inv, pc # "fault", NEW c \in Conns, NEW u \in Units, Send(c, u)
  PROVE  Inv'
<1> USE DEF Inv
<1>0. ready' \in SUBSET Conns /\ \A d \in Conns : d \in ready' \ ready => state[d] = "open"
  BY EdgeEffect DEF Send
<1>a. kbuf[c] \in Seq(Units) /\ kbuf'[c] = Append(kbuf[c], u)
      /\ \A d \in Conns \ {c} : kbuf'[d] = kbuf[d]
  BY DEF Send, TypeOK
<1>b. u = "b" <=> midway[c]
  BY DEF Send, Headers
<1>1. TypeOK'
  <2>1. kbuf' \in [Conns -> Seq(Units)]
    BY <1>a, AppendProperties DEF Send, TypeOK
  <2>2. /\ begun' \in [Conns -> Nat]
        /\ \A d \in Conns : begun'[d] <= MaxMsgs[d]
    <3>1. u \in Headers => begun[c] < MaxMsgs[c]
      BY DEF Send, Headers
    <3>2. \A d \in Conns : begun[d] \in Nat /\ MaxMsgs[d] \in Nat /\ begun[d] <= MaxMsgs[d]
      BY InputAssumption DEF TypeOK
    <3> QED
      BY <3>1, <3>2 DEF Send, TypeOK
  <2>3. midway' \in [Conns -> BOOLEAN]
    BY DEF Send, TypeOK
  <2> QED
    BY <1>0, <2>1, <2>2, <2>3 DEF Send, TypeOK
<1>2. Life'
  BY <1>0, PeerLife DEF Send
<1>3. Partial'
  BY PeerPartial DEF Send
<1>4. Stream'
  <2> SUFFICES ASSUME NEW d \in Conns, state[d] # "closed" PROVE StreamAt(d)'
    BY DEF Stream, Send
  <2>1. StreamAt(d) /\ (BodyNext(d)' <=> BodyNext(d))
    BY DEF Stream, Send, BodyNext
  <2>2. CASE d = c
    <3>1. midway'[c] <=> u = "h1"
      BY DEF Send, TypeOK
    <3> QED
      BY <1>a, <1>b, <2>1, <2>2, <3>1, StreamSend
  <2>3. CASE d # c
    <3>1. midway'[d] = midway[d]
      BY <2>3 DEF Send, TypeOK
    <3> QED
      BY <1>a, <2>1, <2>3, <3>1, StreamFrame
  <2> QED
    BY <2>2, <2>3
<1>5. Counts'
  <2> SUFFICES ASSUME NEW d \in Conns
               PROVE  served[d] + mbuf[d].n + Cardinality(HeadersIn(kbuf'[d])) <= begun'[d]
    BY DEF Counts, Send
  <2>1. served[d] + mbuf[d].n + Cardinality(HeadersIn(kbuf[d])) <= begun[d]
    BY DEF Counts
  <2>2. served[d] \in Nat /\ mbuf[d].n \in Nat /\ begun[d] \in Nat
    BY CountTypes
  <2>3. Cardinality(HeadersIn(kbuf[d])) \in Nat
    BY CountTypes
  <2>4. CASE d = c
    <3>1. Cardinality(HeadersIn(kbuf'[c]))
            = Cardinality(HeadersIn(kbuf[c])) + (IF u = "b" THEN 0 ELSE 1)
      BY <1>a, HeadersAppend
    <3>2. begun'[c] = begun[c] + (IF u = "b" THEN 0 ELSE 1)
      BY <2>2, <2>4 DEF Send, TypeOK, Units, Headers
    <3> QED
      BY <2>1, <2>2, <2>3, <2>4, <3>1, <3>2
  <2>5. CASE d # c
    <3>1. begun'[d] = begun[d]
      BY <2>5 DEF Send, TypeOK
    <3> QED
      BY <1>a, <2>1, <2>5, <3>1
  <2> QED
    BY <2>4, <2>5
<1>6. Losses'
  <2>1. GivenUp'
    <3>1. ASSUME pc = "flags", mbuf[cur.conn].n # 0 PROVE cur.conn \in Conns \ {c}
      BY <3>1, ServedIsOpen DEF Busy, Partial, Send
    <3> QED
      BY <1>a, <3>1 DEF Losses, GivenUp, Send
  <2>2. \A d \in Conns : state[d] = "closed" => midway'[d] = midway[d]
    BY DEF Send, TypeOK
  <2> QED
    BY <2>1, <2>2, QuietLosses DEF Send
<1> QED
  BY <1>1, <1>2, <1>3, <1>4, <1>5, <1>6

-----------------------------------------------------------------------------
(***************************************************************************)
(* The thread's steps.                                                     *)
(***************************************************************************)

\* Every event of a batch is the listening socket's or a live connection's.
LEMMA EpollWaitKeeps ==
  ASSUME Inv, EpollWait
  PROVE  Inv'
<1> USE DEF Inv
<1> DEFINE report(c) == kbuf[c] # << >> \/ fin[c]
           conns == {[conn |-> c, rdhup |-> fin[c]] : c \in {r \in ready : report(r)}}
<1>0. pc = "wait" /\ pc' = "dispatch"
  BY DEF EpollWait
<1>1. events' \in SUBSET (conns \cup {Listen})
  BY DEF EpollWait
<1>2. \A e \in conns : e.conn \in ready /\ e.rdhup = fin[e.conn] /\ e \in Events
  BY DEF TypeOK, Events
<1>3. \A d, e \in conns : d.conn = e.conn => d = e
  OBVIOUS
<1> HIDE DEF conns
<1>4. TypeOK'
  <2>1. events' \in SUBSET Events
    BY <1>1, <1>2 DEF Events
  <2> QED
    BY <2>1 DEF EpollWait, TypeOK, peer
<1>5. Life'
  <2>1. \A e \in events' \ {Listen} : e \in conns /\ state[e.conn] = "open"
    BY <1>1, <1>2 DEF Life, NoUseAfterFree, TypeOK
  <2> QED
    BY <1>0, <1>3, <2>1 DEF EpollWait, Life, NoUseAfterFree, Busy, Serving
<1>6. Partial'
  BY <1>0 DEF EpollWait, Partial
<1>7. Stream'
  BY <1>0, QuietStream DEF EpollWait, peer, BodyNext
<1>8. Counts'
  BY QuietCounts DEF EpollWait, peer, TypeOK
<1>9. Losses'
  BY <1>0, QuietLosses DEF EpollWait, peer, GivenUp
<1> QED
  BY <1>4, <1>5, <1>6, <1>7, <1>8, <1>9

\* All events of an epoll_wait are handled.
LEMMA BatchDoneKeeps ==
  ASSUME Inv, BatchDone
  PROVE  Inv'
<1> USE DEF Inv
<1>0. pc = "dispatch" /\ pc' = "wait"
  BY DEF BatchDone
<1>1. TypeOK'
  BY DEF BatchDone, TypeOK, peer
<1>2. Life'
  BY <1>0 DEF BatchDone, Life, NoUseAfterFree, Busy, Serving
<1>3. Partial'
  BY <1>0 DEF BatchDone, Partial
<1>4. Stream'
  BY <1>0, QuietStream DEF BatchDone, peer, BodyNext
<1>5. Counts'
  BY QuietCounts DEF BatchDone, peer, TypeOK
<1>6. Losses'
  BY <1>0, QuietLosses DEF BatchDone, peer, GivenUp
<1> QED
  BY <1>1, <1>2, <1>3, <1>4, <1>5, <1>6

\* The input accepts a connection and gives it a message buffer.
LEMMA AcceptKeeps ==
  ASSUME Inv, NEW c \in Conns, Accept(c)
  PROVE  Inv'
<1> USE DEF Inv
<1>0. pc = "dispatch" /\ pc' = "dispatch" /\ state[c] = "backlog"
  BY DEF Accept
<1>1. mbuf' = [mbuf EXCEPT ![c] = NoMsg] /\ NoMsg \in MsgBufs /\ NoMsg.n = 0
  BY DEF Accept, NoMsg, MsgBufs, Headers
<1>2. state' = [state EXCEPT ![c] = "open"] /\ ready' \in SUBSET (ready \cup {c})
  BY DEF Accept
<1>3. TypeOK'
  BY <1>1, <1>2 DEF Accept, TypeOK, peer
<1>4. Life'
  BY <1>0, <1>2 DEF Accept, Life, NoUseAfterFree, Busy, Serving, TypeOK
<1>5. Partial'
  BY <1>0, <1>1, <1>2 DEF Accept, Partial, TypeOK
<1>6. Stream'
  <2>1. mbuf[c].n = 0
    BY <1>0, CountTypes DEF Partial
  <2>2. \A d \in Conns : BodyNext(d)' <=> BodyNext(d)
    BY <1>0, <1>1, <2>1 DEF BodyNext, TypeOK
  <2>3. \A d \in Conns : state'[d] # "closed" => state[d] # "closed"
    BY <1>0, <1>2 DEF TypeOK
  <2> QED
    BY <1>0, <2>2, <2>3, QuietStream DEF Accept, peer
<1>7. Counts'
  <2>1. mbuf' \in [Conns -> MsgBufs] /\ \A d \in Conns : mbuf'[d] = mbuf[d] \/ mbuf'[d].n = 0
    BY <1>1 DEF TypeOK
  <2> QED
    BY <2>1, QuietCounts DEF Accept, peer
<1>8. Losses'
  <2>1. \A d \in Conns : mbuf'[d] = mbuf[d] \/ mbuf'[d].qe # "entry"
    BY <1>1 DEF NoMsg, TypeOK
  <2>2. \A d \in Conns : state[d] = "closed" => state'[d] = "closed"
    BY <1>0, <1>2 DEF TypeOK
  <2> QED
    BY <1>0, <2>1, <2>2, QuietLosses DEF Accept, peer, GivenUp
<1> QED
  BY <1>3, <1>4, <1>5, <1>6, <1>7, <1>8

\* The event served leaves the batch: no other one names its connection.
LEMMA ServeConnectionKeeps ==
  ASSUME Inv, NEW e \in events, ServeConnection(e)
  PROVE  Inv'
<1> USE DEF Inv
<1>0. pc = "dispatch" /\ pc' \in {"header", "body"} /\ cur' = e /\ e # Listen
      /\ events' = events \ {e}
  BY DEF ServeConnection
<1>1. e \in Events /\ e.conn \in Conns /\ state[e.conn] = "open"
  BY <1>0 DEF TypeOK, Events, Life, NoUseAfterFree
<1>2. TypeOK'
  BY <1>0, <1>1 DEF ServeConnection, TypeOK, peer
<1>3. Life'
  BY <1>0, <1>1 DEF ServeConnection, Life, NoUseAfterFree, Busy, Serving
<1>4. Partial'
  <2>1. \A c \in Conns : mbuf[c].n # 0 => state[c] = "open" /\ fin[c]
    BY <1>0 DEF Partial
  <2>2. mbuf[e.conn].n \in 0 .. 1
    BY <1>1, CountTypes
  <2>3. pc' = "header" => mbuf[e.conn].n = 0
    BY DEF ServeConnection
  <2>4. pc' \in {"body", "release"} => mbuf[e.conn].n = 1
    BY <2>2 DEF ServeConnection
  <2>5. UNCHANGED <<mbuf, state, fin>>
    BY DEF ServeConnection
  <2> QED
    BY <1>0, <2>1, <2>3, <2>4, <2>5 DEF Partial
<1>5. Stream'
  BY <1>0, QuietStream DEF ServeConnection, peer, BodyNext
<1>6. Counts'
  BY QuietCounts DEF ServeConnection, peer, TypeOK
<1>7. Losses'
  BY <1>0, QuietLosses DEF ServeConnection, peer, GivenUp
<1> QED
  BY <1>2, <1>3, <1>4, <1>5, <1>6, <1>7

\* A step within one connection leaves the events and the ready list alone.
LEMMA WithinConnection ==
  ASSUME Life, Busy, UNCHANGED <<state, ready, events, cur>>
  PROVE  Life'
BY DEF Life, NoUseAfterFree, Busy, Serving

\* What the thread takes from a socket for a header is one.
LEMMA ReadHeaderKeeps ==
  ASSUME Inv, NEW v \in Verdicts, NEW q \in {"entry", "null", "wild"}, ReadHeader(v, q),
         NEW c \in Conns, cur.conn = c
  PROVE  Inv'
<1> USE DEF Inv
<1> DEFINE u == Head(kbuf[c])
<1>0. pc = "header" /\ Busy /\ pc' = (IF u = "big" THEN "fault" ELSE "body") /\ cur' = cur
  BY DEF ReadHeader, Busy
<1>1. state[c] = "open"
  BY <1>0, ServedIsOpen
<1>2. kbuf[c] \in Seq(Units) /\ kbuf[c] # << >>
  BY <1>1 DEF ReadHeader, TypeOK
<1>3. mbuf[c].n = 0
  BY <1>0 DEF Partial
<1>4. StreamAt(c)
  BY <1>0, <1>1 DEF Stream
<1>5. u \in Headers
  BY <1>1, <1>2, <1>3, <1>4, FrontOfStream DEF BodyNext, Units
<1>6. /\ kbuf'[c] = Tail(kbuf[c]) /\ Tail(kbuf[c]) \in Seq(Units)
      /\ mbuf'[c] = [n |-> 1, hdr |-> u, qe |-> q]
  BY <1>1, <1>2, HeadTailProperties DEF ReadHeader, TypeOK
<1>7. \A d \in Conns \ {c} : kbuf'[d] = kbuf[d] /\ mbuf'[d] = mbuf[d]
  BY <1>1 DEF ReadHeader, TypeOK
<1>8. UNCHANGED <<state, begun, midway, fin, rst, ready, events, cur, served, lost>>
  BY DEF ReadHeader, peer
<1>9. TypeOK'
  <2>1. [n |-> 1, hdr |-> u, qe |-> q] \in MsgBufs
    BY <1>5 DEF MsgBufs
  <2>2. kbuf' \in [Conns -> Seq(Units)]
    BY <1>6, <1>7 DEF ReadHeader, TypeOK
  <2>3. mbuf' \in [Conns -> MsgBufs]
    BY <2>1, <1>6, <1>7 DEF ReadHeader, TypeOK
  <2> QED
    BY <1>0, <1>8, <2>2, <2>3 DEF TypeOK
<1> HIDE DEF u
<1>10. Life'
  BY <1>0, <1>8, WithinConnection
<1>11. Partial'
  BY <1>0, <1>1, <1>6, <1>7, <1>8 DEF Partial
<1>12. Stream'
  <2> SUFFICES ASSUME pc' # "fault", NEW d \in Conns, state[d] # "closed"
               PROVE  StreamAt(d)'
    BY <1>8 DEF Stream
  <2>1. StreamAt(d) /\ midway'[d] = midway[d]
    BY <1>0, <1>8 DEF Stream
  <2>2. CASE d = c
    <3>1. BodyNext(c)' <=> u = "h1"
      BY <1>0, <1>6 DEF BodyNext
    <3> QED
      BY <1>1, <1>2, <1>6, <2>1, <2>2, <3>1, StreamRead DEF u
  <2>3. CASE d # c
    <3>1. BodyNext(d)' <=> BodyNext(d)
      BY <1>0, <1>7, <2>3 DEF BodyNext
    <3> QED
      BY <1>7, <2>1, <2>3, <3>1, StreamFrame
  <2> QED
    BY <2>2, <2>3
<1>13. Counts'
  <2> SUFFICES ASSUME NEW d \in Conns
               PROVE  served[d] + mbuf'[d].n + Cardinality(HeadersIn(kbuf'[d])) <= begun[d]
    BY <1>8 DEF Counts
  <2>1. served[d] + mbuf[d].n + Cardinality(HeadersIn(kbuf[d])) <= begun[d]
    BY DEF Counts
  <2>2. CASE d = c
    <3>1. Cardinality(HeadersIn(kbuf'[c])) + 1 <= Cardinality(HeadersIn(kbuf[c]))
      BY <1>2, <1>5, <1>6, HeadersTail DEF u, Headers
    <3>2. mbuf'[c].n = 1
      BY <1>6
    <3>3. Cardinality(HeadersIn(kbuf'[c])) \in Nat
      BY <1>6, HeadersFinite
    <3> QED
      BY <1>3, <2>1, <2>2, <3>1, <3>2, <3>3, CountTypes
  <2>3. CASE d # c
    BY <1>7, <2>1, <2>3
  <2> QED
    BY <2>2, <2>3
<1>14. Losses'
  <2>1. \A d \in Conns : mbuf'[d] = mbuf[d] \/ mbuf'[d].n = 1
    BY <1>6, <1>7
  <2> QED
    BY <1>0, <1>8, <2>1, QuietLosses DEF GivenUp
<1> QED
  BY <1>9, <1>10, <1>11, <1>12, <1>13, <1>14

\* A body is read behind a header that has one, and then only.
LEMMA ReadBodyKeeps ==
  ASSUME Inv, ReadBody, NEW c \in Conns, cur.conn = c
  PROVE  Inv'
<1> USE DEF Inv
<1>0. pc = "body" /\ Busy /\ pc' = "release" /\ cur' = cur
  BY DEF ReadBody, Busy
<1>1. state[c] = "open"
  BY <1>0, ServedIsOpen
<1>2. UNCHANGED <<state, begun, midway, fin, rst, ready, events, cur, mbuf, served, lost>>
  BY DEF ReadBody, peer
<1>3. mbuf[c].n = 1 /\ StreamAt(c) /\ kbuf[c] \in Seq(Units)
  BY <1>0, <1>1 DEF Partial, Stream, TypeOK
<1>4. ~BodyNext(c)'
  BY <1>0, <1>2 DEF BodyNext
<1>5. BodyNext(c) <=> mbuf[c].hdr = "h1"
  BY <1>0, <1>3 DEF BodyNext
<1>6. /\ kbuf' \in [Conns -> Seq(Units)]
      /\ \A d \in Conns \ {c} : kbuf'[d] = kbuf[d]
      /\ StreamAt(c)'
      /\ Cardinality(HeadersIn(kbuf'[c])) <= Cardinality(HeadersIn(kbuf[c]))
  <2>1. CASE mbuf[c].hdr = "h1"
    <3>1. kbuf[c] # << >> /\ kbuf' = [kbuf EXCEPT ![c] = Tail(@)]
      BY <2>1 DEF ReadBody
    <3>2. Head(kbuf[c]) = "b"
      BY <1>3, <1>5, <2>1, <3>1, FrontOfStream
    <3>3. Tail(kbuf[c]) \in Seq(Units)
      BY <1>3, <3>1, HeadTailProperties
    <3>4. /\ kbuf' \in [Conns -> Seq(Units)] /\ kbuf'[c] = Tail(kbuf[c])
          /\ \A d \in Conns \ {c} : kbuf'[d] = kbuf[d]
      BY <3>1, <3>3 DEF TypeOK
    <3>5. StreamAt(c)'
      BY <1>2, <1>3, <1>4, <3>1, <3>2, <3>4, StreamRead
    <3>6. Cardinality(HeadersIn(Tail(kbuf[c]))) + 0 <= Cardinality(HeadersIn(kbuf[c]))
      BY <1>3, <3>1, <3>2, HeadersTail
    <3>7. Cardinality(HeadersIn(Tail(kbuf[c]))) \in Nat
      BY <3>3, HeadersFinite
    <3> QED
      BY <3>4, <3>5, <3>6, <3>7
  <2>2. CASE mbuf[c].hdr # "h1"
    <3>1. kbuf' = kbuf
      BY <2>2 DEF ReadBody
    <3>2. StreamAt(c)'
      BY <1>2, <1>3, <1>4, <1>5, <2>2, <3>1, StreamFrame
    <3>3. Cardinality(HeadersIn(kbuf[c])) \in Nat
      BY CountTypes
    <3> QED
      BY <3>1, <3>2, <3>3 DEF TypeOK
  <2> QED
    BY <2>1, <2>2
<1>7. TypeOK'
  BY <1>0, <1>2, <1>6 DEF TypeOK
<1>8. Life'
  BY <1>0, <1>2, WithinConnection
<1>9. Partial'
  BY <1>0, <1>2, <1>3 DEF Partial
<1>10. Stream'
  <2> SUFFICES ASSUME NEW d \in Conns, state[d] # "closed" PROVE StreamAt(d)'
    BY <1>2 DEF Stream
  <2>1. CASE d = c
    BY <1>6, <2>1
  <2>2. CASE d # c
    <3>1. StreamAt(d) /\ (BodyNext(d)' <=> BodyNext(d))
      BY <1>0, <1>2, <2>2 DEF Stream, BodyNext
    <3> QED
      BY <1>2, <1>6, <2>2, <3>1, StreamFrame
  <2> QED
    BY <2>1, <2>2
<1>11. Counts'
  <2> SUFFICES ASSUME NEW d \in Conns
               PROVE  served[d] + mbuf[d].n + Cardinality(HeadersIn(kbuf'[d])) <= begun[d]
    BY <1>2 DEF Counts
  <2>1. served[d] + mbuf[d].n + Cardinality(HeadersIn(kbuf[d])) <= begun[d]
    BY DEF Counts
  <2>2. CASE d = c
    <3>1. Cardinality(HeadersIn(kbuf'[c])) \in Nat
      BY <1>6, HeadersFinite
    <3> QED
      BY <1>6, <2>1, <2>2, <3>1, CountTypes
  <2>3. CASE d # c
    BY <1>6, <2>1, <2>3
  <2> QED
    BY <2>2, <2>3
<1>12. Losses'
  BY <1>0, <1>2, QuietLosses DEF GivenUp
<1> QED
  BY <1>7, <1>8, <1>9, <1>10, <1>11, <1>12

\* The thread gives up a message in the middle only when its peer has closed;
\* the process ends here only after a reset.
LEMMA ReadEOFKeeps ==
  ASSUME Inv, ReadEOF, NEW c \in Conns, cur.conn = c
  PROVE  Inv'
<1> USE DEF Inv
<1>0. /\ pc \in {"header", "body"} /\ Busy
      /\ pc' = (IF rst[c] THEN "fault" ELSE "flags") /\ cur' = cur /\ fin[c]
  BY DEF ReadEOF, Busy
<1>1. UNCHANGED <<state, begun, midway, fin, rst, kbuf, ready, events, cur, mbuf, served, lost>>
  BY DEF ReadEOF, peer
<1>2. TypeOK'
  BY <1>0, <1>1 DEF TypeOK
<1>3. Life'
  BY <1>0, <1>1, WithinConnection
<1>4. Partial'
  BY <1>0, <1>1 DEF Partial
<1>5. Stream'
  BY <1>0, <1>1, QuietStream DEF BodyNext
<1>6. Counts'
  BY <1>1, QuietCounts DEF TypeOK
<1>7. Losses'
  <2>1. kbuf[c] = << >> /\ (pc = "header" \/ mbuf[c].hdr = "h1")
    BY DEF ReadEOF
  <2>2. GivenUp'
    BY <1>0, <1>1, <2>1 DEF GivenUp, Partial
  <2> QED
    BY <1>1, <2>2, QuietLosses
<1> QED
  BY <1>2, <1>3, <1>4, <1>5, <1>6, <1>7

\* Serving a message ends its part in the counts.
LEMMA ReleaseKeeps ==
  ASSUME Inv, Release, NEW c \in Conns, cur.conn = c
  PROVE  Inv'
<1> USE DEF Inv
<1>0. pc = "release" /\ Busy /\ cur' = cur /\ pc' \in {"fault", "flags"}
  BY DEF Release, Busy
<1>1. UNCHANGED <<state, begun, midway, fin, rst, kbuf, ready, events, cur, lost>>
  BY DEF Release, peer
<1>2. mbuf[c].n = 1
  BY <1>0 DEF Partial
<1>3. Life'
  BY <1>0, <1>1, WithinConnection
<1>4. CASE mbuf[c].qe = "wild"
  <2>1. pc' = "fault" /\ UNCHANGED <<mbuf, served>>
    BY <1>4 DEF Release
  <2>2. TypeOK'
    BY <1>1, <2>1 DEF TypeOK
  <2>3. Partial'
    BY <1>0, <1>1, <2>1 DEF Partial
  <2>4. Stream'
    BY <2>1 DEF Stream
  <2>5. Counts'
    BY <1>1, <2>1, QuietCounts DEF TypeOK
  <2>6. Losses'
    BY <1>1, <2>1, QuietLosses DEF GivenUp
  <2> QED
    BY <1>3, <2>2, <2>3, <2>4, <2>5, <2>6
<1>5. CASE mbuf[c].qe # "wild"
  <2>1. /\ pc' = "flags" /\ mbuf' = [mbuf EXCEPT ![c] = NoMsg]
        /\ served' = [served EXCEPT ![c] = @ + 1]
    BY <1>5 DEF Release
  <2>2. NoMsg \in MsgBufs /\ NoMsg.n = 0
    BY DEF NoMsg, MsgBufs, Headers
  <2>3. /\ mbuf'[c].n = 0 /\ served'[c] = served[c] + 1
        /\ \A d \in Conns \ {c} : mbuf'[d] = mbuf[d] /\ served'[d] = served[d]
    BY <2>1, <2>2 DEF TypeOK
  <2>4. Counts'
    <3> SUFFICES ASSUME NEW d \in Conns
                 PROVE  served'[d] + mbuf'[d].n + Cardinality(HeadersIn(kbuf[d])) <= begun[d]
      BY <1>1 DEF Counts
    <3>1. served[d] + mbuf[d].n + Cardinality(HeadersIn(kbuf[d])) <= begun[d]
      BY DEF Counts
    <3>2. CASE d = c
      BY <1>2, <2>3, <3>1, <3>2, CountTypes
    <3>3. CASE d # c
      BY <2>3, <3>1, <3>3
    <3> QED
      BY <3>2, <3>3
  <2>5. TypeOK'
    <3>1. served' \in [Conns -> Nat] /\ mbuf' \in [Conns -> MsgBufs]
      BY <2>1, <2>2 DEF TypeOK
    <3>2. ASSUME NEW d \in Conns PROVE served'[d] <= MaxMsgs[d]
      <4>1. served'[d] + mbuf'[d].n + Cardinality(HeadersIn(kbuf[d])) <= begun[d]
        BY <1>1, <2>4 DEF Counts
      <4>2. served'[d] \in Nat /\ mbuf'[d].n \in Nat
        BY <3>1 DEF MsgBufs
      <4>3. Cardinality(HeadersIn(kbuf[d])) \in Nat /\ begun[d] \in Nat
            /\ begun[d] <= MaxMsgs[d] /\ MaxMsgs[d] \in Nat
        BY CountTypes, InputAssumption DEF TypeOK
      <4> QED
        BY <4>1, <4>2, <4>3
    <3> QED
      BY <1>1, <2>1, <3>1, <3>2 DEF TypeOK
  <2>6. Partial'
    BY <1>0, <1>1, <2>1, <2>3 DEF Partial
  <2>7. Stream'
    <3>1. \A d \in Conns : BodyNext(d)' <=> BodyNext(d)
      BY <1>0, <1>1, <2>1, <2>3 DEF BodyNext
    <3> QED
      BY <1>0, <1>1, <3>1, QuietStream
  <2>8. Losses'
    <3>1. GivenUp'
      BY <1>0, <2>3 DEF GivenUp
    <3>2. \A d \in Conns : mbuf'[d] = mbuf[d] \/ mbuf'[d].qe # "entry"
      BY <2>1 DEF NoMsg, TypeOK
    <3> QED
      BY <1>1, <3>1, <3>2, QuietLosses
  <2> QED
    BY <1>3, <2>4, <2>5, <2>6, <2>7, <2>8
<1> QED
  BY <1>4, <1>5

\* Cleaning a connection up leaves neither an event nor an edge behind.
LEMMA CheckFlagsKeeps ==
  ASSUME Inv, CheckFlags, NEW c \in Conns, cur.conn = c
  PROVE  Inv'
<1> USE DEF Inv
<1>0. pc = "flags" /\ Busy /\ pc' = "dispatch" /\ cur' = cur
  BY DEF CheckFlags, Busy
<1>1. UNCHANGED <<begun, midway, fin, rst, kbuf, events, cur, served>>
  BY DEF CheckFlags, peer
<1>2. NoMsg \in MsgBufs /\ NoMsg.n = 0
  BY DEF NoMsg, MsgBufs, Headers
<1>3. /\ state' \in [Conns -> {"none", "backlog", "open", "closed"}]
      /\ \A d \in Conns \ {c} : state'[d] = state[d] /\ mbuf'[d] = mbuf[d]
      /\ \/ UNCHANGED <<state, mbuf, ready>>
         \/ state'[c] = "closed" /\ mbuf'[c].n = 0 /\ ready' = ready \ {c}
      /\ mbuf' \in [Conns -> MsgBufs] /\ lost' \in Nat
  <2>1. CASE cur.rdhup
    <3>1. /\ state' = [state EXCEPT ![c] = "closed"]
          /\ ready' = ready \ {c}
          /\ mbuf'  = [mbuf EXCEPT ![c] = NoMsg]
          /\ lost' \in {lost, lost + 1}
      BY <2>1 DEF CheckFlags
    <3>2. lost' \in Nat
      BY <3>1 DEF TypeOK
    <3> QED
      BY <1>2, <3>1, <3>2 DEF TypeOK
  <2>2. CASE ~cur.rdhup
    BY <2>2 DEF CheckFlags, TypeOK
  <2> QED
    BY <2>1, <2>2
<1>4. TypeOK'
  BY <1>0, <1>1, <1>3 DEF TypeOK
<1>5. Life'
  <2>1. \A e \in events \ {Listen} : e.conn \in Conns /\ e.conn # c /\ state[e.conn] = "open"
    BY <1>0 DEF TypeOK, Events, Life, NoUseAfterFree
  <2>2. \A d \in ready : d \in Conns /\ state[d] = "open"
    BY DEF TypeOK, Life, NoUseAfterFree
  <2>3. \A e \in events \ {Listen} : state'[e.conn] = "open"
    BY <1>3, <2>1
  <2>4. \A d \in Conns : d \in ready' => state'[d] = "open"
    BY <1>3, <2>2
  <2> QED
    BY <1>0, <1>1, <2>3, <2>4 DEF Life, NoUseAfterFree, Busy, Serving
<1>6. Partial'
  <2> SUFFICES ASSUME NEW d \in Conns, mbuf'[d].n # 0
               PROVE  state'[d] = "open" /\ fin[d]
    BY <1>0, <1>1 DEF Partial
  <2>1. mbuf'[d] = mbuf[d] /\ state'[d] = state[d]
    BY <1>3
  <2> QED
    BY <1>0, <2>1 DEF Partial
<1>7. Stream'
  <2>1. \A d \in Conns : state'[d] # "closed" =>
          state[d] # "closed" /\ (BodyNext(d)' <=> BodyNext(d))
    BY <1>0, <1>1, <1>3 DEF BodyNext
  <2> QED
    BY <1>0, <1>1, <2>1, QuietStream
<1>8. Counts'
  BY <1>1, <1>3, QuietCounts
<1>9. Losses'
  <2>1. GivenUp'
    BY <1>0 DEF GivenUp
  <2>2. \A d \in Conns : mbuf'[d] = mbuf[d] \/ mbuf'[d].qe # "entry"
    BY <1>0 DEF CheckFlags, NoMsg, TypeOK
  <2>3. state[c] = "open" /\ \A d \in Conns : state[d] = "closed" => state'[d] = "closed"
    BY <1>0, <1>3, ServedIsOpen
  <2>4. CASE lost' = lost
    BY <1>1, <2>1, <2>2, <2>3, <2>4, QuietLosses
  <2>5. CASE lost' # lost
    <3>1. lost' = lost + 1 /\ mbuf[c].qe = "entry" /\ state'[c] = "closed"
      BY <2>5 DEF CheckFlags, TypeOK
    <3>2. mbuf[c].n = 1 /\ mbuf[c].hdr = "h1" /\ kbuf[c] = << >>
      BY <1>0, <3>1 DEF Losses, GivenUp
    <3>3. midway[c]
      <4>1. BodyNext(c)
        BY <1>0, <3>2 DEF BodyNext
      <4>2. Len(kbuf[c]) = 0
        BY <3>2
      <4> QED
        BY <1>0, <2>3, <4>1, <4>2 DEF Stream, StreamAt, BodyAt
    <3>4. BrokenOff' = BrokenOff \cup {c} /\ c \notin BrokenOff
      BY <1>1, <1>3, <2>3, <3>1, <3>3 DEF BrokenOff
    <3>5. BrokenOff \subseteq Conns /\ IsFiniteSet(Conns)
      BY InputAssumption DEF BrokenOff
    <3>6. IsFiniteSet(BrokenOff)
      BY <3>5, FS_Subset
    <3>7. Cardinality(BrokenOff') = Cardinality(BrokenOff) + 1 /\ Cardinality(BrokenOff) \in Nat
      BY <3>4, <3>6, FS_AddElement, FS_CardinalityType
    <3>8. lost \in Nat /\ lost <= Cardinality(BrokenOff)
      BY DEF TypeOK, Losses, OnlyBrokenOffLoseEntries
    <3>9. OnlyBrokenOffLoseEntries'
      BY <3>1, <3>7, <3>8 DEF OnlyBrokenOffLoseEntries
    <3> QED
      BY <2>1, <2>2, <3>9 DEF Losses
  <2> QED
    BY <2>4, <2>5
<1> QED
  BY <1>4, <1>5, <1>6, <1>7, <1>8, <1>9

\* Every step of the input, its peers and the kernel keeps the invariant.
LEMMA NextInv == Inv /\ [Next]_vars => Inv'
<1> SUFFICES ASSUME Inv, [Next]_vars PROVE Inv'
  OBVIOUS
<1>1. ASSUME Busy PROVE \E c \in Conns : cur.conn = c
  BY <1>1, ServedIsOpen DEF Inv
<1>2. ASSUME pc # "fault", NEW c \in Conns,
             Connect(c) \/ HangUp(c) \/ Reset(c) \/ \E u \in Units : Send(c, u)
      PROVE  Inv'
  BY <1>2, ConnectKeeps, HangUpKeeps, ResetKeeps, SendKeeps
<1>3. ASSUME ThreadStep PROVE Inv'
  <2>1. CASE EpollWait
    BY <2>1, EpollWaitKeeps
  <2>2. CASE BatchDone
    BY <2>2, BatchDoneKeeps
  <2>3. ASSUME NEW c \in Conns, Accept(c) PROVE Inv'
    BY <2>3, AcceptKeeps
  <2>4. ASSUME NEW e \in events, ServeConnection(e) PROVE Inv'
    BY <2>4, ServeConnectionKeeps
  <2>5. ASSUME NEW v \in Verdicts, NEW q \in {"entry", "null", "wild"}, ReadHeader(v, q)
        PROVE  Inv'
    BY <1>1, <2>5, ReadHeaderKeeps DEF ReadHeader, Busy
  <2>6. CASE ReadBody
    BY <1>1, <2>6, ReadBodyKeeps DEF ReadBody, Busy
  <2>7. CASE ReadEOF
    BY <1>1, <2>7, ReadEOFKeeps DEF ReadEOF, Busy
  <2>8. CASE Release
    BY <1>1, <2>8, ReleaseKeeps DEF Release, Busy
  <2>9. CASE CheckFlags
    BY <1>1, <2>9, CheckFlagsKeeps DEF CheckFlags, Busy
  <2> QED
    BY <1>3, <2>1, <2>2, <2>3, <2>4, <2>5, <2>6, <2>7, <2>8, <2>9 DEF ThreadStep
<1>4. CASE UNCHANGED vars
  BY <1>4 DEF vars, Inv, TypeOK, Life, NoUseAfterFree, Busy, Serving, Partial, Stream,
              StreamAt, BodyAt, BodyNext, Counts, Losses, GivenUp,
              OnlyBrokenOffLoseEntries, BrokenOff
<1> QED
  BY <1>2, <1>3, <1>4 DEF Next

-----------------------------------------------------------------------------
\* The inductive invariant holds for every set of connections, whatever their
\* peers do and in whatever order epoll reports it.
THEOREM Invariance == Spec => []Inv
<1> QED
  BY InitInv, NextInv, PTL DEF Spec

\* The types of the thread's tables; no message is served more than once, for no
\* connection has more of them served than its peer has begun to send.
THEOREM TypeCorrect == Spec => []TypeOK
<1>1. Inv => TypeOK
  BY DEF Inv
<1> QED
  BY <1>1, Invariance, PTL

\* No event, no edge and no serving step names a connection that
\* input_cleanupConnection has freed.
THEOREM NoFreedConnectionUsed == Spec => []NoUseAfterFree
<1>1. Inv => NoUseAfterFree
  BY DEF Inv, Life
<1> QED
  BY <1>1, Invariance, PTL

\* The thread never takes a body for a header, however many messages it drains.
THEOREM HeadersFoundWhereTheyAre == Spec => []FramingInSync
<1>1. Inv => FramingInSync
  <2> SUFFICES ASSUME Inv, NEW c \in Conns,
                      pc # "fault", state[c] = "open", kbuf[c] # << >>
               PROVE  Head(kbuf[c]) = "b" <=>
                        /\ mbuf[c].n = 1 /\ mbuf[c].hdr = "h1"
                        /\ ~(Serving(c) /\ pc = "release")
    BY DEF FramingInSync
  <2>1. kbuf[c] \in Seq(Units) /\ StreamAt(c)
    BY DEF Inv, TypeOK, Stream
  <2>2. Head(kbuf[c]) = "b" <=> BodyNext(c)
    BY <2>1, FrontOfStream
  <2> QED
    BY <2>2 DEF BodyNext, Serving
<1> QED
  BY <1>1, Invariance, PTL

\* With blocking reads the thread is never in the middle of two messages whose
\* peers are still there.
THEOREM MessagesOneByOne == Spec => []OneMessageAtATime
<1>1. Inv => OneMessageAtATime
  <2> SUFFICES ASSUME Inv PROVE OneMessageAtATime
    OBVIOUS
  <2> DEFINE S == {c \in Conns : mbuf[c].n # 0 /\ ~fin[c]}
  <2>1. S \subseteq {cur.conn}
    BY DEF Inv, Partial
  <2>2. IsFiniteSet({cur.conn}) /\ Cardinality({cur.conn}) = 1
    BY FS_Singleton
  <2>3. Cardinality(S) <= 1
    BY <2>1, <2>2, FS_Subset
  <2> QED
    BY <2>3 DEF OneMessageAtATime
<1> QED
  BY <1>1, Invariance, PTL

\* A lost connection takes an entry with it only if its peer broke off within a
\* message, and one at most: the entry of a message that has arrived is passed on.
THEOREM EntriesLostWithin == Spec => []OnlyBrokenOffLoseEntries
<1>1. Inv => OnlyBrokenOffLoseEntries
  BY DEF Inv, Losses
<1> QED
  BY <1>1, Invariance, PTL
=============================================================================
