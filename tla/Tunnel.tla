------------------------------- MODULE Tunnel -------------------------------
(***************************************************************************)
(* The tunnelling proxy of assign7: one connection, from accept() to the   *)
(* end of serviceRequest, with the two ends it ties together, and before   *)
(* it the start of the proxy.  Whatever the request's method, the server   *)
(* of its first line is connected to and the rest of both streams is       *)
(* passed on.                                                              *)
(*                                                                         *)
(* Direction "up" goes from the client to the origin server, "down" the    *)
(* other way.  A byte on its way is, in this order, with the kernel        *)
(* (wire), in the get area of the stream of its source (inbuf), in the put *)
(* area of the stream of its destination (outbuf), with the kernel again   *)
(* (unread), and read by the other end.  Only wire is seen by epoll.       *)
(* A stream has one state for both directions: after a failed flush        *)
(* nothing can be read from it either.                                     *)
(*                                                                         *)
(* iosockstream is external: its get area is filled by one read() of at    *)
(* most BufSize bytes, and with an empty get area readsome() may or may    *)
(* not look at the socket.  A write to an end that is gone is lost or      *)
(* fails.  Silence takes 30 seconds, so it may end the tunnel in every     *)
(* state with nothing to read.                                             *)
(***************************************************************************)
EXTENDS ProxySetup, Sequences, SequencesExt

CONSTANTS UpBytes, DownBytes,  \* what the two ends have to say, byte by byte
          BufSize,             \* 1024, get area and the buffer of proxyPackets
          Room                 \* bytes the kernel keeps for an end that does not read

\* What the ends have to say are sequences.
ASSUME TunnelAssumption ==
    /\ BufSize \in Nat \ {0} /\ Room \in Nat \ {0}
    /\ UpBytes \in Seq(ToSet(UpBytes)) /\ DownBytes \in Seq(ToSet(DownBytes))

Line == "line"      \* the request line
Blank == "blank"    \* the rest of the header and the empty line behind it
OK == "200"         \* the proxy's own answer
Ends == {"client", "origin"}
Directions == {"up", "down"}
Source(d) == IF d = "up" THEN "client" ELSE "origin"
Dest(d) == IF d = "up" THEN "origin" ELSE "client"
Script(d) == IF d = "up" THEN <<Line, Blank>> \o UpBytes ELSE DownBytes

VARIABLES
    pc,        \* where the main thread, then the thread of the pool, is
    from,      \* direction of the event being served
    linked,    \* createClientSocket() has returned a socket
    good,      \* good[e]: the state of the stream of end e
    end,       \* end[e]: "open", "half" once it sends no more, or "gone"
    toSend, wire, inbuf, outbuf, unread, received,
    alone      \* history: bytes that were read with nothing behind them

buffers == <<inbuf, outbuf>>
peers == <<end, toSend, received>>
vars == <<pc, from, linked, good, peers, wire, buffers, unread, alone>>

Tunnelling == {"wait", "first", "some", "flush"}
Stopped == {"closed", "dead"}

Nothing == [d \in Directions |-> <<>>]

Init ==
    /\ pc = "start" /\ from = "up" /\ linked = FALSE
    /\ good = [e \in Ends |-> TRUE] /\ end = [e \in Ends |-> "open"]
    /\ toSend = [d \in Directions |-> Script(d)]
    /\ wire = Nothing /\ inbuf = Nothing /\ outbuf = Nothing
    /\ unread = Nothing /\ received = Nothing /\ alone = {}

-----------------------------------------------------------------------------
(* The streams.                                                            *)

\* A read that has to fill the get area takes what the kernel has; Got(d) is
\* what there is to take bytes from.
Filled(d) == SubSeq(wire[d], 1, IF Len(wire[d]) < BufSize THEN Len(wire[d]) ELSE BufSize)
Got(d) == IF inbuf[d] # <<>> THEN inbuf[d] ELSE Filled(d)
Consume(d, n) ==
    /\ inbuf' = [inbuf EXCEPT ![d] = SubSeq(Got(d), n + 1, Len(Got(d)))]
    /\ wire' = IF inbuf[d] # <<>> THEN wire
               ELSE [wire EXCEPT ![d] = SubSeq(@, Len(Filled(d)) + 1, Len(@))]

\* Readable: read() does not block.  AtEnd: it gives nothing, nor will it.
AtEnd(d) == Got(d) = <<>> /\ end[Source(d)] # "open"
Readable(d) == Got(d) # <<>> \/ AtEnd(d)

\* Mutant: the first byte is read and not written.
PutSome(d, bytes) ==
    outbuf' = [outbuf EXCEPT ![d] = IF good[Dest(d)] /\ Len(bytes) > 1 THEN @ \o bytes ELSE @]

\* The stream of an end takes bytes while its state is good.
Put(d, bytes) == outbuf' = [outbuf EXCEPT ![d] = IF good[Dest(d)] THEN @ \o bytes ELSE @]

\* flush(), and what is next once it has returned.
There(e) == end[e] # "gone" /\ (e = "origin" => linked)
FlushSome(d) ==
    /\ There(Dest(d)) /\ Len(unread[d]) < Room
    /\ unread' = [unread EXCEPT ![d] = Append(@, Head(outbuf[d]))]
    /\ outbuf' = [outbuf EXCEPT ![d] = Tail(@)]
    /\ UNCHANGED <<pc, good>>
FlushFails(d) ==
    /\ ~There(Dest(d))
    /\ outbuf' = [outbuf EXCEPT ![d] = <<>>]
    /\ \/ good' = [good EXCEPT ![Dest(d)] = FALSE]
       \/ end[Dest(d)] = "gone" /\ UNCHANGED good
    /\ UNCHANGED <<pc, unread>>
Flush(d, at, next) ==
    /\ pc = at
    /\ \/ outbuf[d] # <<>> /\ good[Dest(d)] /\ (FlushSome(d) \/ FlushFails(d))
       \/ (outbuf[d] = <<>> \/ ~good[Dest(d)])
          /\ pc' = next /\ UNCHANGED <<good, outbuf, unread>>
    /\ UNCHANGED <<from, linked, peers, wire, inbuf, alone>>

-----------------------------------------------------------------------------
(* The proxy up to the tunnel.                                             *)

\* socket(), bind() and listen() give the proxy a port, or the start is over.
Listens == pc' \in {"accept", "dead"}
Launch(line) ==
    /\ pc = "start"
    /\ IF WellFormed(line) THEN Listens ELSE pc' = "dead"
    /\ UNCHANGED <<from, linked, good, peers, wire, buffers, unread, alone>>

\* accept(), and the connection is a thunk of the pool's, or a fatal error.
Accept ==
    /\ pc = "accept"
    /\ pc' \in {"line", "dead"}
    /\ UNCHANGED <<from, linked, good, peers, wire, buffers, unread, alone>>

\* Without a first line ingestRequestLine throws, and what serviceRequest makes
\* of it may not leave a function that is declared throw().
RequestLine ==
    /\ pc = "line"
    /\ \/ Got("up") # <<>> /\ Consume("up", 1) /\ pc' = "header"
       \/ AtEnd("up") /\ pc' = "dead" /\ UNCHANGED <<wire, inbuf>>
    /\ UNCHANGED <<from, linked, good, peers, outbuf, unread, alone>>

\* The end of the stream looks like an empty line, but the stream's state is
\* not good after it.
Header ==
    /\ pc = "header" /\ pc' = "connect"
    /\ \/ Got("up") # <<>> /\ Consume("up", 1) /\ UNCHANGED good
       \/ AtEnd("up") /\ good' = [good EXCEPT !["client"] = FALSE]
          /\ UNCHANGED <<wire, inbuf>>
    /\ UNCHANGED <<from, linked, peers, outbuf, unread, alone>>

\* The name cannot be resolved, no socket, no connection: -1, and no test of it.
Connect ==
    /\ pc = "connect" /\ pc' = "ok"
    /\ linked' \in BOOLEAN
    /\ UNCHANGED <<from, good, peers, wire, buffers, unread, alone>>

Greet ==
    /\ pc = "ok" /\ pc' = "greet"
    /\ Put("down", <<OK>>)
    /\ UNCHANGED <<from, linked, good, peers, wire, inbuf, unread, alone>>

Greeted == Flush("down", "greet", "wait")

-----------------------------------------------------------------------------
(* The tunnel.                                                             *)

\* A socket is in the watch set once it exists.
Watched(d) == d = "up" \/ linked
Ready(d) == Watched(d) /\ (wire[d] # <<>> \/ end[Source(d)] # "open")

\* epoll_wait() may report both; only events[0] is served.
Event ==
    /\ pc = "wait" /\ pc' = "first"
    /\ \E d \in Directions : Ready(d) /\ from' = d
    /\ UNCHANGED <<linked, good, peers, wire, buffers, unread, alone>>

TimedOut ==
    /\ pc = "wait" /\ ~ \E d \in Directions : Ready(d)
    /\ pc' = "closed"
    /\ UNCHANGED <<from, linked, good, peers, wire, buffers, unread, alone>>

\* The first byte is written and not flushed.  When there is none both sockets
\* are closed, whichever end it was that ended.
First ==
    /\ pc = "first" /\ good[Source(from)] /\ Got(from) # <<>>
    /\ pc' = "some"
    /\ Consume(from, 1) /\ Put(from, <<Head(Got(from))>>)
    /\ alone' = IF Len(Got(from)) = 1 THEN alone \cup {Head(Got(from))} ELSE alone
    /\ UNCHANGED <<from, linked, good, peers, unread>>

\* Mutant: the end of a stream is no reason to stop.
NoFirstGoesOn ==
    /\ pc = "first" /\ (~good[Source(from)] \/ AtEnd(from))
    /\ pc' = "some"
    /\ UNCHANGED <<from, linked, good, peers, wire, buffers, unread, alone>>

NoFirst ==
    /\ pc = "first" /\ (~good[Source(from)] \/ AtEnd(from))
    /\ pc' = "closed"
    /\ UNCHANGED <<from, linked, good, peers, wire, buffers, unread, alone>>

\* readsome(): what the get area has, or, when it is empty, nothing or what the
\* socket has.  Every piece is written and flushed.
Some ==
    /\ pc = "some" /\ Got(from) # <<>>
    /\ pc' = "flush"
    /\ Consume(from, Len(Got(from))) /\ Put(from, Got(from))
    /\ UNCHANGED <<from, linked, good, peers, unread, alone>>
NoMore ==
    /\ pc = "some" /\ inbuf[from] = <<>>
    /\ pc' = "wait"
    /\ UNCHANGED <<from, linked, good, peers, wire, buffers, unread, alone>>

\* Mutant: what was written is not flushed.
Unflushed ==
    /\ pc = "flush" /\ pc' = "some"
    /\ UNCHANGED <<from, linked, good, peers, wire, buffers, unread, alone>>

Flushed == Flush(from, "flush", "some")

Thread == \/ \E line \in CommandLines : Launch(line)
          \/ Accept \/ RequestLine \/ Header \/ Connect \/ Greet \/ Greeted
          \/ Event \/ TimedOut \/ First \/ NoFirst \/ Some \/ NoMore \/ Flushed

\* ^C or ^Z.
killProxyServer ==
    /\ pc \notin Stopped \cup {"start"} /\ pc' = "dead"
    /\ UNCHANGED <<from, linked, good, peers, wire, buffers, unread, alone>>

-----------------------------------------------------------------------------
(* The two ends.                                                           *)

Reached(e) == pc \notin Stopped \cup {"start"} /\ There(e)

Send(d) ==
    /\ Reached(Source(d)) /\ end[Source(d)] = "open" /\ toSend[d] # <<>>
    /\ wire' = [wire EXCEPT ![d] = Append(@, Head(toSend[d]))]
    /\ toSend' = [toSend EXCEPT ![d] = Tail(@)]
    /\ UNCHANGED <<pc, from, linked, good, end, received, buffers, unread, alone>>

Receive(d) ==
    /\ There(Dest(d)) /\ unread[d] # <<>>
    /\ received' = [received EXCEPT ![d] = Append(@, Head(unread[d]))]
    /\ unread' = [unread EXCEPT ![d] = Tail(@)]
    /\ UNCHANGED <<pc, from, linked, good, end, toSend, wire, buffers, alone>>

\* An end may say that it has no more to send, and it may go, at any time.
Leave(e) ==
    /\ Reached(e)
    /\ \/ end[e] = "open" /\ end' = [end EXCEPT ![e] = "half"]
       \/ end' = [end EXCEPT ![e] = "gone"]
    /\ UNCHANGED <<pc, from, linked, good, toSend, received, wire, buffers, unread, alone>>

Peers == \/ \E d \in Directions : Send(d) \/ Receive(d)
         \/ \E e \in Ends : Leave(e)

Next == Thread \/ killProxyServer \/ Peers
Spec == Init /\ [][Next]_vars

\* The thread runs, and an end that is there reads.
FairSpec == Spec /\ WF_vars(Thread) /\ \A d \in Directions : WF_vars(Receive(d))

-----------------------------------------------------------------------------
(* Properties.                                                             *)

Arrived(d) == received[d] \o unread[d]
ToArrive(d) == IF d = "up" THEN UpBytes ELSE <<OK>> \o DownBytes

\* The tunnel neither changes, drops, doubles, crosses nor reorders bytes
\* (proxyPackets with its two streams): what an end has got is always the
\* beginning of what the other has sent, behind the answer and without the
\* header, and while the tunnel is open, its streams are good and the end is
\* there, everything that is missing is still on its way.
NothingLost == \A d \in Directions :
    /\ IsPrefix(Arrived(d), ToArrive(d))
    /\ pc \in Tunnelling /\ There(Dest(d)) /\ good = [e \in Ends |-> TRUE]
          => Arrived(d) \o outbuf[d] \o inbuf[d] \o wire[d] \o toSend[d] = ToArrive(d)

\* The only bytes the proxy sits on while it waits for an event (the first
\* byte is not flushed, and epoll does not see the get area): bytes that came
\* one at a time, and bytes the client has sent right behind its header.
HeldBack == pc = "wait" => \A d \in Directions :
    /\ good[Dest(d)] => ToSet(outbuf[d]) \subseteq alone
    /\ inbuf[d] # <<>> => d = "up" /\ IsPrefix(inbuf[d], UpBytes)

\* Once it is open, a tunnel is closed in the end (events, end of a stream,
\* 30 seconds of silence), if the ends read what they are sent.
TunnelEnds == pc \in Tunnelling ~> pc \in Stopped

=============================================================================
