------------------------------ MODULE Transports ------------------------------
(***************************************************************************)
(* The three ways a query arrives: DNS over TLS connections, with their    *)
(* accept loop and length-prefixed messages (dot_server.py), requests to   *)
(* the DoH endpoints (phase5/backend/app.py) and UDP datagrams             *)
(* (dns_server.py).  Each is a worker that calls Resolver.                 *)
(*                                                                         *)
(* A message is the sequence of its bytes, and a byte is a number below    *)
(* Base, so that a small Base gives short messages lengths of two digits.  *)
(* What the client sends is chosen in the initial state.                   *)
(***************************************************************************)
EXTENDS Resolver

CONSTANTS
    Base,      \* the values of a byte (256)
    DotScript, \* what each client may send over a connection
    MaxScript  \* bound: messages it may send

ASSUME ByteAssumption   == Base \in Nat \ {0} /\ Message \subseteq Seq(0 .. Base - 1)
ASSUME FrameAssumption  == \A m \in Message : Len(m) < Base * Base
ASSUME ScriptAssumption ==
    /\ DotScript \in [Worker -> SUBSET Seq(Message)] /\ MaxScript \in Nat
    /\ \A w \in Worker : \A s \in DotScript[w] : Len(s) <= MaxScript

VARIABLES
    kind,   \* "dot", or "request": a DoH request or a UDP datagram
    script, \* the messages its client sends, in this order
    sent,   \* how many of them it has sent
    wire,   \* the bytes sent and not received
    gone,   \* has the client closed the connection, or was it reset?
    at,     \* where the worker is
    buf,    \* buf in _handle_client
    need,   \* length in _handle_client
    out     \* the replies sent

transport == <<kind, script, sent, wire, gone, at, buf, need, out>>
vars == <<transport, resolver>>

Kind  == {"dot", "request"}
Stage == {"backlog", "handshake", "started", "length", "body", "resolving",
          "closed"}

Single   == {<<m>> : m \in Message}
Frame(m) == <<Len(m) \div Base, Len(m) % Base>> \o m
Drop(s, n) == SubSeq(s, n + 1, Len(s))

Close(w) == at' = [at EXCEPT ![w] = "closed"]

Init ==
    /\ kind \in [Worker -> Kind]
    /\ script \in [Worker -> UNION {DotScript[w] : w \in Worker} \cup Single]
    /\ \A w \in Worker :
           script[w] \in IF kind[w] = "dot" THEN DotScript[w] ELSE Single
    /\ sent = [w \in Worker |-> 0] /\ wire = [w \in Worker |-> <<>>]
    /\ gone = [w \in Worker |-> FALSE]
    /\ at = [w \in Worker |-> "backlog"] /\ buf = [w \in Worker |-> <<>>]
    /\ need = [w \in Worker |-> 0] /\ out = [w \in Worker |-> <<>>]
    /\ ResolverInit
-----------------------------------------------------------------------------
\* A client of the DoT server: it sends its messages, waiting for replies in
\* between or not, and may leave at any time.  One that is lost without a sign
\* does neither: recv() has no timeout and waits for it for good.
Send(w) ==
    /\ kind[w] = "dot" /\ at[w] \in Stage \ {"backlog", "handshake", "closed"}
    /\ ~gone[w] /\ sent[w] < Len(script[w])
    /\ sent' = [sent EXCEPT ![w] = @ + 1]
    /\ wire' = [wire EXCEPT ![w] = @ \o Frame(script[w][sent[w] + 1])]
    /\ UNCHANGED <<kind, script, gone, at, buf, need, out, resolver>>

Leave(w) ==
    /\ kind[w] = "dot" /\ at[w] # "closed" /\ ~gone[w]
    /\ gone' = [gone EXCEPT ![w] = TRUE]
    /\ UNCHANGED <<kind, script, sent, wire, at, buf, need, out, resolver>>
-----------------------------------------------------------------------------
\* fault: connections are served in the accept loop, without threads
AcceptServes(w) ==
    /\ kind[w] = "dot" /\ at[w] = "backlog"
    /\ \A v \in Worker : kind[v] = "dot" => at[v] \in {"backlog", "closed"}
    /\ at' = [at EXCEPT ![w] = "handshake"]
    /\ UNCHANGED <<kind, script, sent, wire, gone, buf, need, out, resolver>>

\* accept() on the TLS socket takes one connection and does its handshake
\* before it returns, however long the client takes for its part
Accept(w) ==
    /\ kind[w] = "dot" /\ at[w] = "backlog"
    /\ \A v \in Worker : at[v] # "handshake"
    /\ at' = [at EXCEPT ![w] = "handshake"]
    /\ UNCHANGED <<kind, script, sent, wire, gone, buf, need, out, resolver>>

StartThread(w) ==
    /\ at[w] = "handshake" /\ at' = [at EXCEPT ![w] = "started"]
    /\ UNCHANGED <<kind, script, sent, wire, gone, buf, need, out, resolver>>

\* accept() raises, and the loop continues
HandshakeFails(w) ==
    /\ at[w] = "handshake" /\ Close(w)
    /\ UNCHANGED <<kind, script, sent, wire, gone, buf, need, out, resolver>>

Peer(w) ==
    /\ at[w] = "started" /\ at' = [at EXCEPT ![w] = "length"]
    /\ UNCHANGED <<kind, script, sent, wire, gone, buf, need, out, resolver>>

\* getpeername() raises before the try: the thread ends, and its socket is
\* closed as it is collected
PeerGone(w) ==
    /\ at[w] = "started" /\ gone[w] /\ Close(w)
    /\ UNCHANGED <<kind, script, sent, wire, gone, buf, need, out, resolver>>

Wanting(w) ==
    \/ at[w] = "length" /\ Len(buf[w]) < 2
    \/ at[w] = "body" /\ Len(buf[w]) < need[w]

\* recv() returns some of what has arrived
Receive(w, n) ==
    /\ Wanting(w) /\ n \in 1 .. Len(wire[w])
    /\ buf' = [buf EXCEPT ![w] = @ \o SubSeq(wire[w], 1, n)]
    /\ wire' = [wire EXCEPT ![w] = Drop(@, n)]
    /\ UNCHANGED <<kind, script, sent, gone, at, need, out, resolver>>

\* fault: a closed connection is read again
ReadsOn(w) == Wanting(w) /\ gone[w] /\ UNCHANGED vars

\* recv() returns nothing, or raises with bytes still on the way
EndOfStream(w) ==
    /\ Wanting(w) /\ gone[w] /\ Close(w)
    /\ UNCHANGED <<kind, script, sent, wire, gone, buf, need, out, resolver>>

\* fault: the length is read with its bytes swapped
LittleEndian(w) ==
    /\ at[w] = "length" /\ Len(buf[w]) >= 2
    /\ need' = [need EXCEPT ![w] = buf[w][1] + Base * buf[w][2]]
    /\ buf' = [buf EXCEPT ![w] = Drop(@, 2)]
    /\ at' = [at EXCEPT ![w] = "body"]
    /\ UNCHANGED <<kind, script, sent, wire, gone, out, resolver>>

Length(w) ==
    /\ at[w] = "length" /\ Len(buf[w]) >= 2
    /\ need' = [need EXCEPT ![w] = Base * buf[w][1] + buf[w][2]]
    /\ buf' = [buf EXCEPT ![w] = Drop(@, 2)]
    /\ at' = [at EXCEPT ![w] = "body"]
    /\ UNCHANGED <<kind, script, sent, wire, gone, out, resolver>>

\* fault: the buffer is emptied for the next message
BufferCleared(w) ==
    /\ at[w] = "body" /\ Len(buf[w]) >= need[w]
    /\ buf' = [buf EXCEPT ![w] = <<>>]
    /\ at' = [at EXCEPT ![w] = "resolving"]
    /\ Resolve(w, SubSeq(buf[w], 1, need[w]))
    /\ UNCHANGED <<kind, script, sent, wire, gone, need, out>>

\* fault: a byte too many is taken from the buffer
ByteTooMany(w) ==
    /\ at[w] = "body" /\ Len(buf[w]) > need[w]
    /\ buf' = [buf EXCEPT ![w] = Drop(@, need[w] + 1)]
    /\ at' = [at EXCEPT ![w] = "resolving"]
    /\ Resolve(w, SubSeq(buf[w], 1, need[w] + 1))
    /\ UNCHANGED <<kind, script, sent, wire, gone, need, out>>

Body(w) ==
    /\ at[w] = "body" /\ Len(buf[w]) >= need[w]
    /\ buf' = [buf EXCEPT ![w] = Drop(@, need[w])]
    /\ at' = [at EXCEPT ![w] = "resolving"]
    /\ Resolve(w, SubSeq(buf[w], 1, need[w]))
    /\ UNCHANGED <<kind, script, sent, wire, gone, need, out>>

\* sendall(): into the connection of a client that has left it goes as well as
\* it raises
SendReply(w) ==
    /\ kind[w] = "dot" /\ at[w] = "resolving" /\ task[w] = "done"
    /\ out' = [out EXCEPT ![w] = Append(@, response[w])]
    /\ at' = [at EXCEPT ![w] = "length"] /\ Returned(w)
    /\ UNCHANGED <<kind, script, sent, wire, gone, buf, need>>

SendFails(w) ==
    /\ kind[w] = "dot" /\ at[w] = "resolving" /\ task[w] = "done"
    /\ gone[w] /\ Close(w) /\ Returned(w)
    /\ UNCHANGED <<kind, script, sent, wire, gone, buf, need, out>>
-----------------------------------------------------------------------------
\* The message of a DoH request or of a datagram is parsed before it is
\* resolved: 400 or 415 answers the request, dnslib drops the datagram.  A
\* request that brings no message, or none that can be decoded, is malformed.
Refuse(w) ==
    /\ kind[w] = "request" /\ at[w] = "backlog" /\ script[w][1] \in Malformed
    /\ Close(w)
    /\ UNCHANGED <<kind, script, sent, wire, gone, buf, need, out, resolver>>

Request(w) ==
    /\ kind[w] = "request" /\ at[w] = "backlog" /\ script[w][1] \notin Malformed
    /\ at' = [at EXCEPT ![w] = "resolving"] /\ Resolve(w, script[w][1])
    /\ UNCHANGED <<kind, script, sent, wire, gone, buf, need, out>>

Respond(w) ==
    /\ kind[w] = "request" /\ at[w] = "resolving" /\ task[w] = "done"
    /\ out' = [out EXCEPT ![w] = Append(@, response[w])]
    /\ Close(w) /\ Returned(w)
    /\ UNCHANGED <<kind, script, sent, wire, gone, buf, need>>

\* The exception ends a DoT connection and is Flask's 500 or dnslib's silence.
\* SimpleResolver parses the reply to a datagram again, which may raise as well.
Failed(w) ==
    /\ at[w] = "resolving"
    /\ task[w] = "raised" \/ (kind[w] = "request" /\ task[w] = "done")
    /\ Close(w) /\ Returned(w)
    /\ UNCHANGED <<kind, script, sent, wire, gone, buf, need, out>>
-----------------------------------------------------------------------------
Resolving(w) == ResolverStep(w) /\ UNCHANGED transport

Handshake(w) == StartThread(w) \/ HandshakeFails(w)

Handle(w) ==
    \/ Peer(w) \/ PeerGone(w)
    \/ (\E n \in 1 .. Len(wire[w]) : Receive(w, n)) \/ EndOfStream(w)
    \/ Length(w) \/ Body(w) \/ SendReply(w) \/ SendFails(w)
    \/ Refuse(w) \/ Request(w) \/ Respond(w) \/ Failed(w)
    \/ Resolving(w)

Next ==
    \E w \in Worker :
        Send(w) \/ Leave(w) \/ Accept(w) \/ Handshake(w) \/ Handle(w)

Spec == Init /\ [][Next]_vars

(***************************************************************************)
(* Threads run on; the policy check and the upstream exchange end, the     *)
(* latter by its timeout; a client that does not read its reply leaves in  *)
(* the end.  Connections compete for the accept loop, so each needs strong *)
(* fairness (the backlog is a queue).  A handshake ends when its client    *)
(* has left; one that stays and is silent may hold accept() for good.      *)
(* Nobody has to send, to complete a handshake or to leave.                *)
(***************************************************************************)
Fairness ==
    \A w \in Worker : /\ SF_vars(Accept(w)) /\ WF_vars(Handle(w))
                      /\ WF_vars(gone[w] /\ Handshake(w))

FairSpec == Spec /\ Fairness
-----------------------------------------------------------------------------
\* Every variable keeps its shape: what is cut out of the stream is a message
\* that a client can have sent, and only one thread at a time is in accept().
TypeOK ==
    /\ ResolverTypeOK
    /\ kind \in [Worker -> Kind] /\ script \in [Worker -> Seq(Message)]
    /\ sent \in [Worker -> Nat] /\ wire \in [Worker -> Seq(0 .. Base - 1)]
    /\ gone \in [Worker -> BOOLEAN] /\ at \in [Worker -> Stage]
    /\ buf \in [Worker -> Seq(0 .. Base - 1)]
    /\ need \in [Worker -> 0 .. Base * Base - 1]
    /\ out \in [Worker -> Seq(Reply)]
    /\ \A v, w \in Worker : at[v] = "handshake" /\ at[w] = "handshake" => v = w

\* However the stream is cut into chunks, the messages handed to the resolver
\* are those the client sent, and what is received and not yet used, with what
\* is still on the way, begins at the frame of the next one.
Stream(s) ==
    LET frames[k \in 0 .. Len(s)] ==
            IF k = 0 THEN <<>> ELSE frames[k - 1] \o Frame(s[k])
    IN frames[Len(s)]
Header(w) == IF at[w] = "body" THEN <<need[w] \div Base, need[w] % Base>> ELSE <<>>
FramesAligned ==
    \A w \in Worker :
        /\ asked[w] = SubSeq(script[w], 1, Len(asked[w]))
        /\ kind[w] = "dot" /\ at[w] # "closed" =>
               /\ Len(asked[w]) <= sent[w]
               /\ Header(w) \o buf[w] \o wire[w]
                    = Stream(SubSeq(script[w], Len(asked[w]) + 1, sent[w]))

\* All transports, over the shared resolver, serve as QueryService says: in
\* order, each message logged once and then answered with its own reply, which
\* has records only if it reports neither a block nor a failure, although the
\* upstream may fail after some were copied.
WholeReply == {r \in Reply : r.rcode # "NOERROR" => r.answers = 0}
Service == INSTANCE QueryService
             WITH Client <- Worker, Reply <- WholeReply,
                  open <- [w \in Worker |-> at[w] # "closed"]
ImplementsService == Service!Spec

\* Every message that was sent is answered, unless the server closes the
\* connection: none is left in the buffer while the thread waits for more.
StreamServed ==
    \A w \in Worker : \A n \in 1 .. MaxScript :
        sent[w] = n ~> Len(out[w]) >= n \/ at[w] = "closed"

\* A connection that was accepted and whose client has left ends, wherever its
\* thread is, and so does every DoH request and datagram.
ExchangeEnds ==
    \A w \in Worker :
        kind[w] = "request" \/ (gone[w] /\ at[w] # "backlog") ~> at[w] = "closed"

\* As long as no client keeps accept() waiting in its handshake for good, on
\* which dot_server.py sets no time limit, every waiting connection is accepted,
\* however many handshakes fail and however long open connections stay.
HandshakesEnd == \A w \in Worker : at[w] = "handshake" ~> at[w] # "handshake"
AllAccepted ==
    HandshakesEnd => \A w \in Worker : at[w] = "backlog" ~> at[w] # "backlog"
=============================================================================
