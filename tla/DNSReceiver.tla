----------------------------- MODULE DNSReceiver -----------------------------
(***************************************************************************)
(* DNSReceiver: the thread that listens for the connection of a PowerDNS   *)
(* remote logger and turns the answers it reports into route requests.     *)
(*                                                                         *)
(* The connection is a stream of frames: a header of two bytes, the size   *)
(* of the payload, and the payload.  TCP delivers it in pieces of any      *)
(* size.  The thread never asks for more than what is left of the header   *)
(* or payload it is reading, and reads it into one buffer.                 *)
(*                                                                         *)
(* The client and protobuf are external.  Base stands for 256.             *)
(***************************************************************************)
EXTENDS Integers, Sequences, IPAddress

CONSTANTS
  Payloads,   \* the payloads a client may send
  Decode,     \* external: the resource records of a payload
  MaxFrames   \* BOUND: frames per connection

BufferSize == Base * Base

ASSUME ReceiverAssumption ==
  /\ Payloads \subseteq Seq(Byte)
  /\ \A p \in Payloads : Len(p) < BufferSize
  /\ MaxFrames \in Nat
  /\ V6Len <= BufferSize
  /\ \A p \in DOMAIN Decode : Decode[p] \in Seq([type : Nat, rdata : Seq(Byte)])

VARIABLES
  receiver,         \* control state of the receiver's thread
  headerPending, dataLeft, dataSize,
  data,             \* the buffer
  outbox,           \* requests of the payload decoded, not yet handled, by record
  shutdownPending,
  reported,         \* a ShutdownMessage was sent
  client,           \* external: the client's side of the connection
  stream,           \* external: bytes sent and not yet read
  sent,             \* history: payloads sent on the connection
  handled           \* history: payloads read on the connection, also empty ones

parser == <<headerPending, dataLeft, dataSize, data>>
external == <<client, stream, sent>>
vars == <<receiver, headerPending, dataLeft, dataSize, data, outbox,
          shutdownPending, reported, client, stream, sent, handled>>

Ended == receiver \in {"stopped", "failed"}

-----------------------------------------------------------------------------
(***************************************************************************)
(* The client.                                                             *)
(***************************************************************************)
Encode(payload) == <<Len(payload) \div Base, Len(payload) % Base>> \o payload

\* The client connects once the thread listens; the backlog holds it until
\* the thread accepts it.
Connect ==
  /\ client = "none"
  /\ receiver \in {"acceptHead", "accept"}
  /\ client' = "open"
  /\ UNCHANGED <<receiver, parser, outbox, shutdownPending, reported, stream, sent, handled>>

SendFrame(payload) ==
  /\ client = "open"
  /\ Len(sent) < MaxFrames
  /\ stream' = stream \o Encode(payload)
  /\ sent' = Append(sent, payload)
  /\ UNCHANGED <<receiver, parser, outbox, shutdownPending, reported, client, handled>>

\* The client closes the connection, maybe in the middle of a frame.
CloseClient ==
  /\ client = "open"
  /\ client' = "closed"
  /\ \/ UNCHANGED stream
     \/ Len(sent) < MaxFrames /\ \E p \in Payloads : \E k \in 1 .. Len(Encode(p)) - 1 :
          stream' = stream \o SubSeq(Encode(p), 1, k)
  /\ UNCHANGED <<receiver, parser, outbox, shutdownPending, reported, sent, handled>>

\* The connection is lost, with everything not yet read.
ResetClient ==
  /\ client = "open"
  /\ client' = "reset"
  /\ stream' = <<>>
  /\ UNCHANGED <<receiver, parser, outbox, shutdownPending, reported, sent, handled>>

-----------------------------------------------------------------------------
(***************************************************************************)
(* The thread: three nested loops, each of which looks at shutdownPending  *)
(* before it waits.                                                        *)
(***************************************************************************)
Goto(state) ==
  /\ receiver' = state
  /\ UNCHANGED <<outbox, shutdownPending, reported>>

HandleError ==
  /\ receiver' = "failed"
  /\ reported' = TRUE
  /\ UNCHANGED <<parser, outbox, shutdownPending, external, handled>>

Body == [begin |-> "open", bindHead |-> "bind", acceptHead |-> "accept", readHead |-> "read"]

\* Mutant: the outermost loop does not end.
ExitReopens == [begin |-> "open", bindHead |-> "closing", acceptHead |-> "closing",
                readHead |-> "closing"]

Exit == [begin |-> "stopped", bindHead |-> "closing", acceptHead |-> "closing",
         readHead |-> "closing"]

LoopHead ==
  /\ receiver \in DOMAIN Body
  /\ Goto(IF shutdownPending THEN Exit[receiver] ELSE Body[receiver])
  /\ UNCHANGED <<parser, external, handled>>

OpenSocket == receiver = "open" /\ Goto("bindHead") /\ UNCHANGED <<parser, external, handled>>

\* bind fails: the thread sleeps and tries again.
BindFails == receiver = "bind" /\ Goto("bindHead") /\ UNCHANGED <<parser, external, handled>>

Listen == receiver = "bind" /\ Goto("acceptHead") /\ UNCHANGED <<parser, external, handled>>

\* No connection within the timeout, or accept fails.
AcceptTimeout == receiver = "accept" /\ Goto("acceptHead") /\ UNCHANGED <<parser, external, handled>>

\* Mutant: the state of the last connection's parser is kept.
ResetParserNot == UNCHANGED <<headerPending, dataLeft, dataSize, data>>

\* The locals of a new connection.
ResetParser ==
  /\ headerPending' = TRUE
  /\ dataLeft' = 2
  /\ dataSize' = 2
  /\ data' = [i \in 1 .. BufferSize |-> 0]

Accept ==
  /\ receiver = "accept"
  /\ client # "none"
  /\ Goto("readHead")
  /\ ResetParser
  /\ handled' = <<>>
  /\ UNCHANGED external

ReadTimeout ==
  /\ receiver = "read"
  /\ stream = <<>> /\ client = "open"
  /\ Goto("readHead")
  /\ UNCHANGED <<parser, external, handled>>

\* The buffer once the first n bytes of the stream are read into it.
Filled(n) ==
  LET at == dataSize - dataLeft
  IN  [i \in 1 .. BufferSize |-> IF i \in at + 1 .. at + n THEN stream[i - at] ELSE data[i]]

Consume(n) ==
  /\ receiver = "read"
  /\ n <= Len(stream)
  /\ data' = Filled(n)
  /\ stream' = SubSeq(stream, n + 1, Len(stream))
  /\ UNCHANGED <<client, sent>>

\* A piece that does not complete what is being read.
ReadPart(n) ==
  /\ Consume(n)
  /\ n < dataLeft
  /\ dataLeft' = dataLeft - n
  /\ Goto("readHead")
  /\ UNCHANGED <<headerPending, dataSize, handled>>

\* Mutant: the bytes are swapped.
DecodeHeaderHost(d) == d[2] * Base + d[1]

DecodeHeader(d) == d[1] * Base + d[2]

\* Mutant: an empty payload is read like any other.
NextUnitPayload(size) ==
  headerPending' = FALSE /\ dataSize' = size /\ dataLeft' = size

\* What follows a header: the payload or, if that is empty, another header.
NextUnit(size) ==
  /\ headerPending' = (size < 1)
  /\ dataSize' = IF size < 1 THEN 2 ELSE size
  /\ dataLeft' = dataSize'

ReadHeader ==
  /\ headerPending
  /\ Consume(dataLeft)
  /\ NextUnit(DecodeHeader(data'))
  /\ Goto("readHead")
  /\ handled' = IF DecodeHeader(data') < 1 THEN Append(handled, <<>>) ELSE handled

\* The address in a record, built where the buffer is the memory at hand.
Address(r) == FromRaw(r.rdata, [i \in 1 .. V6Len |-> data[i]])

\* A record gives a request if it is an address record with an address in it.
Requests(payload) ==
  LET rrs == Decode[payload]
      valid == {i \in DOMAIN rrs : rrs[i].type \in {1, 28} /\ Address(rrs[i]).isValid}
  IN  [i \in valid |-> Address(rrs[i])]

ReadPayload ==
  /\ ~headerPending
  /\ Consume(dataLeft)
  /\ LET payload == SubSeq(data', 1, dataSize)
     IN  /\ handled' = Append(handled, payload)
         /\ outbox' = IF payload \in DOMAIN Decode THEN Requests(payload) ELSE <<>>
         /\ receiver' = IF DOMAIN outbox' = {} THEN "readHead" ELSE "deliver"
  /\ headerPending' = TRUE
  /\ dataSize' = 2
  /\ dataLeft' = 2
  /\ UNCHANGED <<shutdownPending, reported>>

\* SendMessage returns: the request of the next record was handled by the manager.
Deliver ==
  /\ receiver = "deliver"
  /\ \E i \in DOMAIN outbox :
       /\ \A j \in DOMAIN outbox : i <= j
       /\ outbox' = [j \in DOMAIN outbox \ {i} |-> outbox[j]]
  /\ receiver' = IF DOMAIN outbox' = {} THEN "readHead" ELSE "deliver"
  /\ UNCHANGED <<parser, shutdownPending, reported, external, handled>>

\* Mutant: a client that has gone is not read to the end.
DisconnectedEarly ==
  /\ receiver = "read"
  /\ client # "open"
  /\ Goto("closing")
  /\ UNCHANGED <<parser, external, handled>>

\* read returns nothing more, or an error.
Disconnected ==
  /\ receiver = "read"
  /\ stream = <<>> /\ client # "open"
  /\ Goto("closing")
  /\ UNCHANGED <<parser, external, handled>>

\* A select interrupted by a signal leaves its loop.
Interrupted ==
  /\ receiver \in {"accept", "read"}
  /\ Goto("interrupted")
  /\ UNCHANGED <<parser, external, handled>>

\* Both sockets are closed; a client that waits or still sends is reset.
CloseSockets ==
  /\ receiver \in {"closing", "interrupted"}
  /\ Goto("begin")
  /\ client' = "none"
  /\ stream' = <<>>
  /\ sent' = <<>>
  /\ handled' = <<>>
  /\ UNCHANGED parser

\* socket, setsockopt, listen, select or close fails.
Fails ==
  /\ receiver \in {"open", "bind", "accept", "read", "closing", "interrupted"}
  /\ HandleError

OnShutdown ==
  /\ ~shutdownPending
  /\ shutdownPending' = TRUE
  /\ UNCHANGED <<receiver, parser, outbox, reported, external, handled>>

-----------------------------------------------------------------------------
Init ==
  /\ receiver = "begin"
  /\ headerPending = TRUE
  /\ dataLeft = 2
  /\ dataSize = 2
  /\ data = [i \in 1 .. BufferSize |-> 0]
  /\ outbox = <<>>
  /\ shutdownPending = FALSE
  /\ reported = FALSE
  /\ client = "none"
  /\ stream = <<>>
  /\ sent = <<>>
  /\ handled = <<>>

ClientStep == Connect \/ CloseClient \/ ResetClient \/ \E p \in Payloads : SendFrame(p)

\* What the thread does of itself.
Run ==
  \/ LoopHead \/ OpenSocket \/ BindFails \/ Listen \/ AcceptTimeout \/ Accept
  \/ ReadTimeout \/ ReadHeader \/ ReadPayload
  \/ \E n \in 1 .. Len(stream) : ReadPart(n)
  \/ Disconnected \/ CloseSockets \/ Deliver

Finished == Ended /\ UNCHANGED vars

Next == ClientStep \/ Run \/ Interrupted \/ Fails \/ OnShutdown \/ Finished

Spec == Init /\ [][Next]_vars

\* Fairness: the thread runs, its waits time out, the manager's handlers return.
FairSpec == Spec /\ WF_vars(Run)
-----------------------------------------------------------------------------
TypeOK ==
  /\ receiver \in {"begin", "open", "bindHead", "bind", "acceptHead", "accept",
                   "readHead", "read", "deliver", "closing", "interrupted",
                   "stopped", "failed"}
  /\ headerPending \in BOOLEAN
  /\ dataSize \in 1 .. BufferSize
  /\ dataLeft \in 1 .. dataSize
  /\ data \in [1 .. BufferSize -> Byte]
  /\ shutdownPending \in BOOLEAN
  /\ reported \in BOOLEAN
  /\ client \in {"none", "open", "closed", "reset"}
  /\ stream \in Seq(Byte)
  /\ sent \in Seq(Payloads)
  /\ handled \in Seq(Seq(Byte))
  /\ DOMAIN outbox \subseteq Nat
  /\ \A i \in DOMAIN outbox : outbox[i] \in Addresses /\ outbox[i].isValid
  /\ receiver = "deliver" <=> DOMAIN outbox # {}

Connected == receiver \in {"readHead", "read", "deliver"}

\* However the stream is cut into pieces, the payloads read are those the client
\* sent on this connection, in order, whole and once each, and what a closed
\* connection left of a frame is dropped.
PayloadsAreThoseSent ==
  Connected => /\ Len(handled) <= Len(sent)
               /\ handled = SubSeq(sent, 1, Len(handled))

\* Nothing the client has sent in full is kept back: with the stream read, and
\* neither lost nor cut short, all of it was read.
NothingIsKeptBack ==
  Connected /\ client = "open" /\ stream = <<>> => handled = sent

\* An address handed to the manager, whatever the buffer it was read from held
\* before, is the one that the same bytes make anywhere else, in a notification
\* or a dump, with the same hash, and that no other bytes make.
SameBytesSameKey ==
  \A i \in DOMAIN outbox : \A m \in Data :
    LET same == {s \in Sources : Equals(outbox[i], FromRaw(s, m))}
    IN  /\ Cardinality(same) = 1
        /\ \A s \in same :
             /\ GetHashCode(FromRaw(s, m)) = GetHashCode(outbox[i])
             /\ Equals(outbox[i], FromFamily(IF Len(s) = V4Len THEN "inet" ELSE "inet6", s, m))

\* The sets of addresses sort by Less, the maps compare by Equals: they agree on
\* which addresses are the same, and Less is total and transitive.
OrderIsTotal ==
  \A i \in DOMAIN outbox : \A b \in Made :
    LET a == outbox[i]
    IN  /\ <<Less(a, b), Equals(a, b), Less(b, a)>>
             \in {<<TRUE, FALSE, FALSE>>, <<FALSE, TRUE, FALSE>>, <<FALSE, FALSE, TRUE>>}
        /\ Less(a, b) <=> Greater(b, a)
        /\ \A c \in Made : Less(a, b) /\ Less(b, c) => Less(a, c)

\* A frame sent is decoded in the end, also if the client then closes the
\* connection, unless the connection is lost, the thread fails, or its wait is
\* interrupted by a signal, or it is asked to stop.
FramesAreDecoded ==
  \A n \in 1 .. MaxFrames :
    (Connected /\ Len(sent) >= n)
      ~> (Len(handled) >= n \/ client = "reset" \/ shutdownPending
            \/ receiver = "interrupted" \/ Ended)

\* A request to shut down ends the thread, whatever the client does.
ShutdownEnds == shutdownPending ~> Ended
=============================================================================
