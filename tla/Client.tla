-------------------------------- MODULE Client --------------------------------
(***************************************************************************)
(* src/libs/ws/client.rs: WsTarget, WsClientBuilder and WsClient.  A       *)
(* client connects (in the clear, over TLS, or on a ready message stream)  *)
(* and then makes one call at a time: its methods take &mut self.  A call  *)
(* is a future its caller may drop at any await.  The peer answers each    *)
(* request once, in any order, and sends other frames as it likes.         *)
(***************************************************************************)
EXTENDS Naturals, Sequences, FiniteSets

CONSTANTS Types,      \* response types; a value of one does not parse as another
          MaxReqs,    \* bound: requests per client (seq is a u32)
          MaxRaws,    \* bound: requests of send_raw
          MaxInbox,   \* bound: frames on their way to the client
          MaxNoise,   \* bound: frames that answer no request
          None

ASSUME ClientAssumption ==
  /\ MaxReqs \in Nat /\ MaxRaws \in Nat /\ MaxInbox \in Nat /\ MaxNoise \in Nat
  /\ None \notin Types \cup {"plain", "secure", "message", "default", "policy", "nobody"}

VARIABLES
  phase,    \* target, dial, tls, upgrade, up, failed, closed
  opts,     \* the target's scheme, the builder's TLS options, whether the build
            \* has the feature ws-client-tls, and whether the server's
            \* certificate stands up to a check
  stream,   \* the WsStream variant
  verifier, \* who checks the server's certificate: default, policy, nobody
  seq,      \* WsClient::seq, the number of the last request
  pc,       \* idle, sending, waiting
  expects,  \* the response type T of the call
  inbox,    \* frames on their way to the client, oldest first
  ended,    \* the peer sends nothing any more
  noise,    \* frames sent that answer no request
  \* history
  server,   \* requests the peer has not answered yet
  raws,     \* the numbers the caller put into requests of send_raw
  reply,    \* what the peer answered to each request of send_req; 0 stands for
            \* an error to no request
  outcome   \* how the call of each request ended

net == <<phase, opts, stream, verifier>>
peer == <<inbox, ended, noise, server, raws, reply>>
vars == <<phase, opts, stream, verifier, seq, pc, expects, inbox, ended, noise,
          server, raws, reply, outcome>>

Numbers == 1..MaxReqs
Options == [secure : BOOLEAN, danger : BOOLEAN, policy : BOOLEAN, feature : BOOLEAN,
            trusted : BOOLEAN]
Moved == [secure |-> FALSE, danger |-> FALSE, policy |-> FALSE, feature |-> FALSE,
          trusted |-> FALSE]
\* "other" stands for Forwarded and Log responses and for binary and pong
\* frames, which parse whatever T is.
Frames == [k : {"ok", "err", "stream", "ping", "other", "close"},
           n : 0..MaxReqs, t : Types \cup {None}]
Frame(k, n, t) == [k |-> k, n |-> n, t |-> t]
Requests == [n : 0..MaxReqs, t : Types \cup {None}, raw : BOOLEAN]

Init ==
  /\ phase = "target"
  /\ opts \in Options
  /\ opts.policy => opts.feature
  /\ stream = None /\ verifier = None
  /\ seq = 0 /\ pc = "idle" /\ expects = None
  /\ inbox = <<>> /\ ended = FALSE /\ noise = 0
  /\ server = {} /\ raws = {}
  /\ reply = [n \in 0..MaxReqs |-> "none"]
  /\ outcome = [n \in Numbers |-> "none"]
-----------------------------------------------------------------------------
(* Connecting *)

calls == <<seq, pc, expects, outcome>>

Up(variant) ==
  /\ phase' = "up"
  /\ stream' = variant
  /\ opts' = Moved

\* Any step of connecting fails: the URL, DNS, TCP, TLS or the upgrade.
ConnectFails ==
  /\ phase \in {"target", "dial", "tls", "upgrade"}
  /\ phase' = "failed"
  /\ UNCHANGED <<opts, stream, verifier, calls, peer>>

\* WsTarget::resolve and the checks that come before the socket is opened.
Resolve ==
  /\ phase = "target"
  /\ opts.secure => opts.feature /\ ~(opts.danger /\ opts.policy)
  /\ phase' = "dial"
  /\ UNCHANGED <<opts, stream, verifier, calls, peer>>

\* Mutant of Dial: the TLS branch is skipped in a build without the feature.
DialPlain ==
  /\ phase = "dial"
  /\ phase' = "upgrade"
  /\ UNCHANGED <<opts, stream, verifier, calls, peer>>

\* connect_any, then TLS when the target is wss.
Dial ==
  /\ phase = "dial"
  /\ phase' = IF opts.secure THEN "tls" ELSE "upgrade"
  /\ UNCHANGED <<opts, stream, verifier, calls, peer>>

Verifier == CASE opts.policy -> "policy"
              [] ~opts.policy /\ opts.danger -> "nobody"
              [] OTHER -> "default"

\* make_dangerous_tls_config: AcceptAllVerifier takes any certificate.
Accepts(v) == v = "nobody" \/ opts.trusted

Handshake ==
  /\ phase = "tls" /\ Accepts(Verifier)
  /\ verifier' = Verifier
  /\ phase' = "upgrade"
  /\ UNCHANGED <<opts, stream, calls, peer>>

\* nago_wss::upgrade::connect accepted a 101.
Upgraded ==
  /\ phase = "upgrade"
  /\ Up(IF verifier = None THEN "plain" ELSE "secure")
  /\ verifier' = None \* moved into the TLS session
  /\ UNCHANGED <<calls, peer>>

FromStream ==
  /\ phase = "target"
  /\ Up("message")
  /\ UNCHANGED <<verifier, calls, peer>>
-----------------------------------------------------------------------------
(* Calls *)

\* send_req counts before it serialises or sends, and does not count back.
SendReq(t) ==
  /\ phase = "up" /\ pc = "idle" /\ seq < MaxReqs
  /\ seq' = seq + 1
  /\ pc' = "sending" /\ expects' = t
  /\ UNCHANGED <<outcome, net, peer>>

Request == [n |-> seq, t |-> expects, raw |-> FALSE]

End(how) ==
  /\ pc' = "idle"
  /\ expects' = None
  /\ outcome' = IF seq > 0 /\ outcome[seq] = "none"
                THEN [outcome EXCEPT ![seq] = how] ELSE outcome

\* The frame is out.  request() goes on to recv_resp; send_req on its own
\* returns, and its caller may send the next request before it receives.
Sent(waits) ==
  /\ pc = "sending"
  /\ server' = server \cup {Request}
  /\ IF waits THEN pc' = "waiting" /\ UNCHANGED expects
              ELSE pc' = "idle" /\ expects' = None
  /\ UNCHANGED <<seq, outcome, net, inbox, ended, noise, raws, reply>>

\* The parameters do not serialise, or the write fails.
SendFails ==
  /\ pc = "sending"
  /\ End("unsent")
  /\ UNCHANGED <<seq, net, peer>>

\* The caller drops the future of its call, with the request on the wire or
\* not yet.
Abandon ==
  /\ pc \in {"sending", "waiting"}
  /\ \/ server' = server
     \/ pc = "sending" /\ server' = server \cup {Request}
  /\ End("dropped")
  /\ UNCHANGED <<seq, net, inbox, ended, noise, raws, reply>>

\* recv_resp called on its own.
RecvResp(t) ==
  /\ phase = "up" /\ pc = "idle"
  /\ pc' = "waiting" /\ expects' = t
  /\ UNCHANGED <<seq, outcome, net, peer>>

\* A pre-serialised request: the caller chose its number, which may be the one
\* of a call made before or yet to be made.
SendRaw(n, t) ==
  /\ phase = "up" /\ pc = "idle"
  /\ n \notin raws /\ Cardinality(raws) < MaxRaws
  /\ server' = server \cup {[n |-> n, t |-> t, raw |-> TRUE]}
  /\ raws' = raws \cup {n}
  /\ UNCHANGED <<calls, net, inbox, ended, noise, reply>>

\* recv_raw hands the next frame to the caller, whatever it is.
RecvRaw ==
  /\ phase = "up" /\ pc = "idle" /\ inbox # <<>>
  /\ inbox' = Tail(inbox)
  /\ UNCHANGED <<calls, net, ended, noise, server, raws, reply>>

CloseClient ==
  /\ phase = "up" /\ pc = "idle"
  /\ phase' = "closed"
  /\ UNCHANGED <<opts, stream, verifier, calls, peer>>
-----------------------------------------------------------------------------
(* One turn of the loop in recv_resp: the frame is taken, then looked at *)

Head0 == Head(inbox)
Take == /\ pc = "waiting" /\ inbox # <<>>
        /\ inbox' = Tail(inbox)
        /\ UNCHANGED <<seq, net, ended, noise, server, raws, reply>>

\* serde parses the whole response as WsResponseGeneric<T> before anything is
\* compared: answers and stream frames carry a T.
Parses(f) == f.k \in {"ok", "stream"} => f.t = expects

Unparsable == Take /\ ~Parses(Head0) /\ End("unparsable")

OwnAnswer ==
  Take /\ Head0.k = "ok" /\ Parses(Head0) /\ Head0.n = seq /\ End("ok")

\* Mutant of Mismatch: the number is compared with the one before.
MismatchByOne ==
  Take /\ Head0.k = "ok" /\ Parses(Head0) /\ Head0.n # seq - 1 /\ End("mismatch")

Mismatch ==
  Take /\ Head0.k = "ok" /\ Parses(Head0) /\ Head0.n # seq /\ End("mismatch")

\* The number in an error is not looked at.
ErrorAnswer == Take /\ Head0.k = "err" /\ End("error")

\* Mutant of Passed: the frame is not consumed.
PassedUnread ==
  /\ pc = "waiting" /\ inbox # <<>>
  /\ Head0.k \in {"stream", "other", "ping"} /\ Parses(Head0)
  /\ UNCHANGED vars

\* Stream, Forwarded, Log, binary and pong are passed over; so is a ping,
\* after next_from has answered it on a WebSocket.
Passed ==
  /\ Take /\ Head0.k \in {"stream", "other", "ping"} /\ Parses(Head0)
  /\ UNCHANGED <<pc, expects, outcome>>

PongFails ==
  Take /\ Head0.k = "ping" /\ stream # "message" /\ End("failed")

\* A Close frame is answered and ends the call; so does the end of the stream.
CloseSeen == Take /\ Head0.k = "close" /\ End("closed")

StreamEnds ==
  /\ pc = "waiting" /\ inbox = <<>> /\ ended
  /\ End("closed")
  /\ UNCHANGED <<seq, net, peer>>

Loop == \/ Unparsable \/ OwnAnswer \/ Mismatch \/ ErrorAnswer \/ Passed
        \/ PongFails \/ CloseSeen \/ StreamEnds
-----------------------------------------------------------------------------
(* The peer *)

Deliver(f) ==
  /\ phase = "up" /\ ~ended /\ Len(inbox) < MaxInbox
  /\ inbox' = Append(inbox, f)

Reply(q, k) ==
  /\ Deliver(Frame(k, q.n, IF k = "ok" THEN q.t ELSE None))
  /\ server' = server \ {q}
  /\ reply' = IF q.raw THEN reply ELSE [reply EXCEPT ![q.n] = k]
  /\ UNCHANGED <<ended, noise, raws, calls, net>>

Noise(k, t) ==
  /\ noise < MaxNoise
  /\ Deliver(Frame(k, 0, t))
  /\ noise' = noise + 1
  /\ UNCHANGED <<ended, server, raws, reply, calls, net>>

\* The server refuses the connection after the upgrade: an error that answers
\* no request, then the end.
Rejects ==
  /\ seq = 0 /\ raws = {}
  /\ Deliver(Frame("err", 0, None))
  /\ reply' = [reply EXCEPT ![0] = "err"]
  /\ ended' = TRUE
  /\ UNCHANGED <<noise, server, raws, calls, net>>

Ends ==
  /\ \/ Deliver(Frame("close", 0, None))
     \/ phase = "up" /\ ~ended /\ UNCHANGED inbox
  /\ ended' = TRUE
  /\ UNCHANGED <<noise, server, raws, reply, calls, net>>

Peer == \/ \E q \in server, k \in {"ok", "err"} : Reply(q, k)
        \/ \E t \in Types : Noise("stream", t)
        \/ \E k \in {"ping", "other"} : Noise(k, None)
        \/ Rejects \/ Ends
-----------------------------------------------------------------------------
Next == \/ ConnectFails \/ Resolve \/ Dial \/ Handshake \/ Upgraded \/ FromStream
        \/ \E t \in Types : SendReq(t) \/ RecvResp(t)
        \/ \E w \in BOOLEAN : Sent(w)
        \/ SendFails \/ Abandon \/ RecvRaw \/ CloseClient
        \/ \E n \in 0..MaxReqs, t \in Types : SendRaw(n, t)
        \/ Loop
        \/ Peer

\* A polled call reads what has arrived, and the server answers every request
\* it took or ends the connection; it owes nothing else.
Spec == /\ Init /\ [][Next]_vars
        /\ WF_vars(Loop)
        /\ WF_vars(\E q \in server, k \in {"ok", "err"} : Reply(q, k))
-----------------------------------------------------------------------------
(* Properties *)

TypeOK ==
  /\ phase \in {"target", "dial", "tls", "upgrade", "up", "failed", "closed"}
  /\ opts \in Options
  /\ stream \in {None, "plain", "secure", "message"}
  /\ verifier \in {None, "default", "policy", "nobody"}
  /\ seq \in 0..MaxReqs
  /\ pc \in {"idle", "sending", "waiting"}
  /\ expects \in Types \cup {None}
  /\ inbox \in Seq(Frames) /\ Len(inbox) <= MaxInbox
  /\ ended \in BOOLEAN
  /\ noise \in 0..MaxNoise
  /\ server \subseteq Requests
  /\ raws \subseteq 0..MaxReqs
  /\ reply \in [0..MaxReqs -> {"none", "ok", "err"}]
  /\ outcome \in [Numbers -> {"none", "ok", "error", "mismatch", "unparsable",
                              "failed", "closed", "unsent", "dropped"}]

\* A wss target never yields a connection in the clear, a build without TLS
\* included; the caller's own TLS policy is never set aside for the verifier
\* that accepts everything, and a certificate that does not stand up to a check
\* is taken only by a caller who asked for that.
NoDowngrade ==
  [][phase = "upgrade" /\ phase' = "up" /\ opts.secure =>
       /\ stream' = "secure"
       /\ opts.policy => verifier = "policy" /\ opts.trusted
       /\ opts.trusted \/ opts.danger]_vars

\* Calls that are awaited one after the other get their own answer: as long as
\* every earlier call ended with an answer (or sent nothing) and the peer sent
\* no error of its own accord, a call never meets a foreign number, and it
\* succeeds or fails exactly as the peer answered it, although recv_resp does
\* not look at the number of an error.  Requests of send_raw are answered with
\* the numbers their caller made up, so the claim is about clients without them.
InStep(n) ==
  /\ \A m \in 1..(n - 1) : outcome[m] \in {"ok", "error", "unsent"}
  /\ reply[0] = "none" /\ raws = {}
SequentialIsExact ==
  \A n \in 1..seq : InStep(n) =>
    /\ outcome[n] # "mismatch"
    /\ outcome[n] = "ok" => reply[n] = "ok"
    /\ outcome[n] = "error" => reply[n] = "err"

\* Even out of step, a call that succeeds carries the answer to its own
\* request, unless its number was also put into a request of send_raw.
SuccessIsOwn ==
  \A n \in (1..seq) \ raws : outcome[n] = "ok" => reply[n] = "ok"

\* What a call's end says about its answer.
CallsExact == TypeOK /\ SequentialIsExact /\ SuccessIsOwn

\* A call whose request the peer holds, or whose answer is on its way, comes
\* to an end, whatever other frames arrive before that answer.
AnswerDue == \/ \E q \in server : q.n = seq
             \/ \E i \in 1..Len(inbox) : inbox[i].n = seq /\ seq > 0
AnsweredCallEnds == (pc = "waiting" /\ AnswerDue) ~> pc = "idle"
================================================================================
