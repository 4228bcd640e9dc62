-------------------------------- MODULE Framed --------------------------------
(***************************************************************************)
(* src/libs/ws/transport/framed.rs: NeutralFramed, one direction of it.    *)
(* The writer's end encodes a message behind a length prefix into its      *)
(* write_buf and pushes that out in whatever pieces the byte stream takes; *)
(* the reader's end collects pieces of any size in its read_buf and cuts   *)
(* whole frames off the front.  Bytes are numbers below Base and the       *)
(* prefix is PrefixBytes wide, so the code's 256 and 4 are one instance.   *)
(***************************************************************************)
EXTENDS Integers, Sequences

CONSTANTS Messages,    \* WireMessages the writer sends
          Foreign,     \* payloads a peer of another make puts in a frame
          Base,        \* byte values are 0..Base-1
          PrefixBytes, \* LENGTH_PREFIX_BYTES
          WriterMax,   \* max_frame_bytes of the writing end
          ReaderMax,   \* max_frame_bytes of the reading end
          Chunk,       \* READ_CHUNK_BYTES
          WireCap,     \* bound: bytes the byte stream holds in transit
          MaxItems,    \* bound: frames sent
          None

VARIABLES
  write_buf, \* encoded, not yet written
  wire,      \* written, not yet read
  read_buf,  \* read, not yet framed
  read_eof,  \* the byte stream ended
  writer,    \* open, closed (flushed, then dropped), cut
  \* history
  sent,      \* items accepted by start_send
  got,       \* items poll_next returned
  seen       \* how the stream of items ended: no, end, error

vars == <<write_buf, wire, read_buf, read_eof, writer, sent, got, seen>>

Init == /\ write_buf = <<>> /\ wire = <<>> /\ read_buf = <<>>
        /\ read_eof = FALSE /\ writer = "open"
        /\ sent = <<>> /\ got = <<>> /\ seen = "no"
-----------------------------------------------------------------------------
(* Encoding *)

\* What a byte counts that has k bytes after it.
Weight[k \in 0..(PrefixBytes + 2)] == IF k = 0 THEN 1 ELSE Base * Weight[k - 1]

BigEndian(n, width) == [i \in 1..width |-> (n \div Weight[width - i]) % Base]
FromBytes(s) ==
  LET value[i \in 0..Len(s)] == IF i = 0 THEN 0 ELSE value[i - 1] * Base + s[i]
  IN value[Len(s)]

Kinds == <<"text", "binary", "ping", "pong", "close">> \* KIND_TEXT = 0, ...
KindByte(kind) == (CHOOSE i \in DOMAIN Kinds : Kinds[i] = kind) - 1
Utf8(s) == \A i \in DOMAIN s : s[i] # Base - 1 \* the byte that is never UTF-8

\* code is the status of a Close(Some(..)), and None in every other message.
Encode(m) == <<KindByte(m.kind)>>
               \o (IF m.code = None THEN <<>> ELSE BigEndian(m.code, 2))
               \o m.data

Message(kind, code, data) == [kind |-> kind, code |-> code, data |-> data]
Fault(why) == Message("fault", None, why)

DecodeClose(payload) ==
  CASE payload = <<>> -> Message("close", None, <<>>)
    [] Len(payload) = 1 -> Fault("MalformedClose")
    [] Len(payload) > 1 ->
         LET reason == SubSeq(payload, 3, Len(payload)) IN
         IF Utf8(reason) THEN Message("close", FromBytes(SubSeq(payload, 1, 2)), reason)
                         ELSE Fault("MalformedClose")

Decode(frame) ==
  IF frame = <<>> THEN Fault("EmptyFrame")
  ELSE LET kind == Head(frame)
           payload == Tail(frame)
       IN CASE kind > 4 -> Fault("UnknownKind")
            [] kind = 4 -> DecodeClose(payload)
            [] kind = 0 /\ ~Utf8(payload) -> Fault("InvalidUtf8")
            [] OTHER -> Message(Kinds[kind + 1], None, payload)
\* WireMessage: a text and the reason of a close are strings, and only a close
\* has a code, a u16.  A foreign payload is one that Decode refuses.
ASSUME FramedAssumption ==
  /\ Base \in Nat /\ Base > 5 \* a byte for each kind, and one that is never UTF-8
  /\ PrefixBytes \in Nat \ {0} /\ Chunk \in Nat \ {0}
  /\ ReaderMax \in Nat /\ WriterMax \in Nat /\ WireCap \in Nat /\ MaxItems \in Nat
  /\ WriterMax < Weight[PrefixBytes] \* a length fits its prefix
  /\ None \notin Nat
  /\ Messages \subseteq [kind : {"text", "binary", "ping", "pong", "close"},
                         code : {None} \cup 0..(Weight[2] - 1), data : Seq(0..(Base - 1))]
  /\ \A m \in Messages :
       /\ m.kind \in {"text", "close"} => Utf8(m.data)
       /\ m.kind # "close" => m.code = None
       /\ m.kind = "close" /\ m.code = None => m.data = <<>>
  /\ Foreign \subseteq Seq(0..(Base - 1))
  /\ \A p \in Foreign :
       Decode(p).kind = "fault" /\ Len(p) <= WriterMax /\ Len(p) <= ReaderMax
-----------------------------------------------------------------------------
(* The writing end *)

\* Mutant of Ready: the backlog is not looked at.
AlwaysReady == TRUE
\* poll_ready: a backlog of max_frame_bytes is flushed first.
Ready == Len(write_buf) < WriterMax

Put(payload, item) ==
  /\ writer = "open" /\ Len(sent) < MaxItems
  /\ write_buf' = write_buf \o BigEndian(Len(payload), PrefixBytes) \o payload
  /\ sent' = Append(sent, item)
  /\ UNCHANGED <<wire, read_buf, read_eof, writer, got, seen>>

\* start_send of a message that is small enough; a larger one is an error that
\* changes nothing.
StartSend(m) == /\ Ready /\ Len(Encode(m)) <= WriterMax
                /\ Put(Encode(m), m)

\* A peer of another make or version sends a frame that does not decode.
StartForeign(payload) == Ready /\ Put(payload, Decode(payload))

\* poll_flush: the byte stream accepts the first n bytes.
Flush(n) ==
  /\ writer = "open"
  /\ wire' = wire \o SubSeq(write_buf, 1, n)
  /\ write_buf' = SubSeq(write_buf, n + 1, Len(write_buf))
  /\ UNCHANGED <<read_buf, read_eof, writer, sent, got, seen>>

Room == 1..(IF Len(write_buf) < WireCap - Len(wire) THEN Len(write_buf)
                                                    ELSE WireCap - Len(wire))

\* poll_close has flushed, and the stream is dropped.
Close ==
  /\ writer = "open" /\ write_buf = <<>>
  /\ writer' = "closed"
  /\ UNCHANGED <<write_buf, wire, read_buf, read_eof, sent, got, seen>>

\* Dropped without a close, or reset: what is buffered and a tail of what is in
\* transit are lost.
Cut ==
  /\ writer = "open"
  /\ writer' = "cut"
  /\ write_buf' = <<>>
  /\ \E n \in 0..Len(wire) : wire' = SubSeq(wire, 1, n)
  /\ UNCHANGED <<read_buf, read_eof, sent, got, seen>>
-----------------------------------------------------------------------------
(* The reading end: take_frame, and what poll_next makes of its result *)

FrameLen == FromBytes(SubSeq(read_buf, 1, PrefixBytes))
Prefixed == Len(read_buf) >= PrefixBytes
Oversized == Prefixed /\ FrameLen > ReaderMax
Whole == Prefixed /\ ~Oversized /\ Len(read_buf) >= PrefixBytes + FrameLen
NotYet == ~Oversized /\ ~Whole

TakeFrame ==
  /\ seen = "no" /\ Whole
  /\ got' = Append(got, Decode(SubSeq(read_buf, PrefixBytes + 1, PrefixBytes + FrameLen)))
  /\ read_buf' = SubSeq(read_buf, PrefixBytes + FrameLen + 1, Len(read_buf))
  /\ UNCHANGED <<write_buf, wire, read_eof, writer, sent, seen>>

\* The prefix stays where it is, so every later poll returns the same error.
Refuse ==
  /\ seen = "no" /\ Oversized
  /\ seen' = "error"
  /\ UNCHANGED <<write_buf, wire, read_buf, read_eof, writer, sent, got>>

\* Mutant of Fill: the padding of the read is not truncated.
FillPadded(n) ==
  /\ NotYet /\ ~read_eof
  /\ read_buf' = read_buf \o SubSeq(wire, 1, n) \o [i \in 1..(Chunk - n) |-> 0]
  /\ wire' = SubSeq(wire, n + 1, Len(wire))
  /\ UNCHANGED <<write_buf, read_eof, writer, sent, got, seen>>

\* poll_read returns n bytes; Pending and an error leave the buffer as it was.
Fill(n) ==
  /\ NotYet /\ ~read_eof
  /\ read_buf' = read_buf \o SubSeq(wire, 1, n)
  /\ wire' = SubSeq(wire, n + 1, Len(wire))
  /\ UNCHANGED <<write_buf, read_eof, writer, sent, got, seen>>

Arrived == 1..(IF Len(wire) < Chunk THEN Len(wire) ELSE Chunk)

FillEof ==
  /\ NotYet /\ ~read_eof /\ wire = <<>> /\ writer # "open"
  /\ read_eof' = TRUE
  /\ UNCHANGED <<write_buf, wire, read_buf, writer, sent, got, seen>>

\* A clean end lands on a frame boundary; anything else was truncated.
AtEof ==
  /\ seen = "no" /\ NotYet /\ read_eof
  /\ seen' = IF read_buf = <<>> THEN "end" ELSE "error"
  /\ UNCHANGED <<write_buf, wire, read_buf, read_eof, writer, sent, got>>
-----------------------------------------------------------------------------
Write == \E n \in Room : Flush(n)
Read == \/ TakeFrame \/ Refuse \/ FillEof \/ AtEof
        \/ \E n \in Arrived : Fill(n)

Next == \/ \E m \in Messages : StartSend(m)
        \/ \E p \in Foreign : StartForeign(p)
        \/ Write \/ Read \/ Close \/ Cut

\* send and recv are awaited: TransportStream polls a flush and a read until
\* they are done.
SafeSpec == Init /\ [][Next]_vars
Spec == SafeSpec /\ WF_vars(Write) /\ WF_vars(Read)
-----------------------------------------------------------------------------
(* Properties *)

Items == Messages \cup {Decode(p) : p \in Foreign}

TypeOK ==
  /\ \A b \in {write_buf, wire, read_buf} : \A i \in DOMAIN b : b[i] \in 0..(Base - 1)
  /\ read_eof \in BOOLEAN
  /\ writer \in {"open", "closed", "cut"}
  /\ \A i \in DOMAIN sent : sent[i] \in Items
  /\ seen \in {"no", "end", "error"}

\* The reader's memory is bounded whatever length the peer announces: an
\* oversized frame is refused before its body is buffered.
ReadBounded == Len(read_buf) < PrefixBytes + ReaderMax + Chunk

\* The writer's backlog is bounded although a dropped send leaves its frame
\* behind: poll_ready makes the next one wait.
WriteBounded == Len(write_buf) < WriterMax + PrefixBytes + WriterMax

\* Both buffers hold bytes, and boundedly many.
BuffersBounded == TypeOK /\ ReadBounded /\ WriteBounded

\* The direction implements the abstract pipe: frames survive every split of
\* the bytes unchanged and in order, a close loses nothing, a cut loses only a
\* tail, a refusal and the end are final, and what was sent arrives.
P == INSTANCE Pipe WITH
       TooBig <- {m \in Items : m.kind # "fault" /\ Len(Encode(m)) > ReaderMax},
       accepted <- sent, delivered <- got
ImplementsPipe == P!Spec
================================================================================
