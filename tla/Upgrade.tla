-------------------------------- MODULE Upgrade --------------------------------
(***************************************************************************)
(* src/libs/ws/tungstenite/upgrader.rs: the HTTP part of one connection.   *)
(* The request head is read in whatever segments it arrives, one response  *)
(* is written, and an accepted upgrade hands the bytes read past the head  *)
(* to the WebSocket connection.  All of it runs under one deadline.        *)
(*                                                                         *)
(* The stream is a sequence of byte positions: 1..head are the request     *)
(* head, the ones after it the first frames of a client in a hurry.        *)
(***************************************************************************)
EXTENDS Naturals, Sequences

CONSTANTS HeadLengths, \* lengths of request heads
          MaxHead,     \* DEFAULT_MAX_HEAD
          Chunk,       \* bytes of one read
          Eager,       \* bytes the client sends after its head without waiting
          Origins,     \* values of the Origin header
          None

VARIABLES
  request, \* what the head says: its length, kind, origin and requested headers
  listed,  \* allow_cors_urls: None or a set of origins
  coming,  \* bytes the client has not sent yet
  wire,    \* bytes sent and not read
  eof,     \* the client has closed its side
  buffer,  \* bytes read
  reply,   \* the response being written or written, or None
  step,    \* "reading", "writing", "upgraded" or "finished"
  told     \* history: the response has reached the client

upgrade == <<request, listed, coming, wire, eof, buffer, reply, step, told>>

Kinds == {"upgrade", "GET", "HEAD", "OPTIONS", "POST", "unparsable"}
Requests == [head : HeadLengths, kind : Kinds, origin : Origins \cup {None},
             asks : {None, "safe", "unsafe"}]

Init == /\ request \in Requests
        /\ listed \in {None} \cup SUBSET Origins
        /\ coming = [i \in 1..(request.head + Eager) |-> i]
        /\ wire = <<>> /\ eof = FALSE /\ buffer = <<>>
        /\ reply = None /\ step = "reading" /\ told = FALSE
-----------------------------------------------------------------------------
(* The client *)

First(s, n) == SubSeq(s, 1, n)
After(s, n) == SubSeq(s, n + 1, Len(s))

ClientSends(n) ==
  /\ ~eof /\ n \in 1..Len(coming)
  /\ wire' = wire \o First(coming, n)
  /\ coming' = After(coming, n)
  /\ UNCHANGED <<request, listed, eof, buffer, reply, step, told>>

ClientCloses ==
  /\ ~eof
  /\ eof' = TRUE
  /\ UNCHANGED <<request, listed, coming, wire, buffer, reply, step, told>>
-----------------------------------------------------------------------------
(* Headers: the CORS policy *)

AllowHeaders(asks) == IF asks = "safe" THEN "asked" ELSE "default"

NoCors == [origin |-> None, credentials |-> FALSE, headers |-> None]
\* Open to all without credentials; or to the listed origins, echoed, with them.
Cors(origin, asks) ==
  IF listed = None
  THEN [origin |-> "*", credentials |-> FALSE, headers |-> AllowHeaders(asks)]
  ELSE IF origin \in listed
       THEN [origin |-> origin, credentials |-> TRUE, headers |-> AllowHeaders(asks)]
       ELSE NoCors

\* ok_extra and error_extra.
Response(status, cors) == [status |-> status, cors |-> cors, no_store |-> status >= 400]
-----------------------------------------------------------------------------
(* read_head *)

\* head_end: the buffer holds the whole head.
HeadRead == Len(buffer) >= request.head
Await(r) == step' = "writing" /\ reply' = r

Read ==
  /\ step = "reading" /\ ~HeadRead /\ Len(buffer) <= MaxHead /\ wire # <<>>
  /\ LET n == IF Len(wire) < Chunk THEN Len(wire) ELSE Chunk
     IN buffer' = buffer \o First(wire, n) /\ wire' = After(wire, n)
  /\ UNCHANGED <<request, listed, coming, eof, reply, step, told>>

\* The client is gone: nobody to answer.
ReadEof ==
  /\ step = "reading" /\ ~HeadRead /\ Len(buffer) <= MaxHead /\ wire = <<>> /\ eof
  /\ step' = "finished"
  /\ UNCHANGED <<request, listed, coming, wire, eof, buffer, reply, told>>

HeadTooLarge ==
  /\ step = "reading" /\ ~HeadRead /\ Len(buffer) > MaxHead
  /\ Await(Response(431, Cors(None, None)))
  /\ UNCHANGED <<request, listed, coming, wire, eof, buffer, told>>

\* parse_request (a library): refuses a head over the limit, and what it cannot parse.
ParseRequest ==
  IF request.head > MaxHead THEN 431 ELSE IF request.kind = "unparsable" THEN 400 ELSE 0

\* The head is complete: the one response to it.
Answer ==
  /\ step = "reading" /\ HeadRead
  /\ LET cors == Cors(request.origin, request.asks)
     IN \/ ParseRequest # 0 /\ Await(Response(ParseRequest, Cors(None, None)))
        \/ /\ ParseRequest = 0 /\ request.kind \in {"GET", "HEAD", "OPTIONS"}
           /\ Await(Response(200, cors))
        \/ ParseRequest = 0 /\ request.kind = "POST" /\ Await(Response(405, cors))
        \/ ParseRequest = 0 /\ request.kind = "upgrade" /\ Await(Response(101, cors))
  /\ UNCHANGED <<request, listed, coming, wire, eof, buffer, told>>

\* Mutant of Connect: the connection starts with the socket.
ConnectUnbuffered == buffer' = <<>>
\* Connection::with_buffered: the connection starts with the rest of the buffer.
Connect == buffer' = After(buffer, request.head)

Written ==
  /\ step = "writing"
  /\ told' = TRUE
  /\ IF reply.status = 101 THEN step' = "upgraded" /\ Connect
                           ELSE step' = "finished" /\ UNCHANGED buffer
  /\ UNCHANGED <<request, listed, coming, wire, eof, reply>>

\* A read or a write fails, or handshake_timeout passes at one of them.
Fails ==
  /\ \/ step = "writing"
     \/ step = "reading" /\ ~HeadRead /\ Len(buffer) <= MaxHead
  /\ step' = "finished"
  /\ UNCHANGED <<request, listed, coming, wire, eof, buffer, reply, told>>
-----------------------------------------------------------------------------
Next == \/ ClientCloses \/ Read \/ ReadEof \/ HeadTooLarge \/ Answer \/ Written \/ Fails
        \/ \E n \in 1..Len(coming) : ClientSends(n)

Spec == Init /\ [][Next]_upgrade
-----------------------------------------------------------------------------
(* Properties *)

\* Not a byte past the head is lost or seen twice, however the segments fell:
\* the frames a fast client sends with its request are the first ones read.
FirstFramesKept ==
  step = "upgraded" =>
    buffer \o wire \o coming = [i \in 1..Eager |-> request.head + i]

\* What a client is told depends on its request and not on how it was cut into
\* segments: a head over the limit is refused also when its end came in time.
SegmentsDoNotMatter ==
  told => reply.status =
    CASE request.head > MaxHead -> 431
      [] request.head <= MaxHead /\ request.kind = "unparsable" -> 400
      [] request.head <= MaxHead /\ request.kind = "upgrade" -> 101
      [] request.head <= MaxHead /\ request.kind = "POST" -> 405
      [] request.head <= MaxHead /\ request.kind \in {"GET", "HEAD", "OPTIONS"} -> 200

\* A client that never ends its head makes the server hold no more than a read
\* past the limit.
HeadBounded == step = "reading" => Len(buffer) <= MaxHead + Chunk

\* A browser is told of an origin it may show the response to only by policy,
\* and of credentials only with that very origin, never with the wildcard.
CorsByPolicy ==
  reply # None =>
    /\ reply.cors.credentials => reply.cors.origin = request.origin
    /\ listed # None /\ request.origin \notin listed => reply.cors = NoCors
================================================================================
