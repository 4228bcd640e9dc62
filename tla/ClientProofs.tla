----------------------------- MODULE ClientProofs -----------------------------
(***************************************************************************)
(* The client: no downgrade, and no foreign answer taken for one's own,    *)
(* for any number of requests, frames in flight and response types.        *)
(***************************************************************************)
EXTENDS Client, TLAPS

SafeSpec == Init /\ [][Next]_vars

\* The steps of connecting, of calling and of the peer that move the link.
Linking == ConnectFails \/ Resolve \/ Dial \/ Handshake \/ Upgraded \/ FromStream

\* Only the steps of connecting touch the link; any other step at most closes
\* it.
LEMMA OnlyLinking ==
  ASSUME [Next]_vars, ~Linking
  PROVE  UNCHANGED <<opts, stream, verifier>> /\ phase' \in {phase, "closed"}
<1>1. ASSUME NEW t \in Types, SendReq(t) \/ RecvResp(t)
      PROVE  UNCHANGED <<opts, stream, verifier>> /\ phase' \in {phase, "closed"}
  BY <1>1 DEF SendReq, RecvResp, net
<1>2. ASSUME NEW w \in BOOLEAN, Sent(w)
      PROVE  UNCHANGED <<opts, stream, verifier>> /\ phase' \in {phase, "closed"}
  BY <1>2 DEF Sent, net
<1>3. CASE SendFails \/ Abandon \/ RecvRaw \/ CloseClient
           \/ \E n \in 0..MaxReqs, t \in Types : SendRaw(n, t)
  BY <1>3 DEF SendFails, Abandon, SendRaw, RecvRaw, CloseClient, net
<1>4. CASE Loop
  BY <1>4 DEF Loop, Unparsable, OwnAnswer, Mismatch, ErrorAnswer, Passed, PongFails, CloseSeen,
              StreamEnds, Take, net
<1>5. CASE Peer
  BY <1>5 DEF Peer, Reply, Noise, Rejects, Ends, net
<1>6. CASE UNCHANGED vars
  BY <1>6 DEF vars
<1>7. QED
  BY <1>1, <1>2, <1>3, <1>4, <1>5, <1>6 DEF Next, Linking

\* What connecting has established so far: the verifier of a secure target is
\* chosen before the upgrade, and it is the one the options call for.
LinkInv ==
  /\ phase \in {"target", "dial", "tls"} => verifier = None
  /\ phase \in {"dial", "tls"} /\ opts.secure => ~(opts.danger /\ opts.policy)
  /\ phase = "upgrade" /\ opts.secure =>
       /\ verifier # None
       /\ opts.policy => verifier = "policy" /\ opts.trusted
       /\ opts.trusted \/ opts.danger

\* A client that has not resolved its target has established nothing.
LEMMA LinkInvInit == Init => LinkInv
  BY DEF Init, LinkInv

\* Every step keeps what connecting has established.
LEMMA LinkInvKept == LinkInv /\ [Next]_vars => LinkInv'
<1> SUFFICES ASSUME LinkInv, [Next]_vars PROVE LinkInv'
  OBVIOUS
<1> USE DEF LinkInv
<1>1. CASE ConnectFails
  BY <1>1 DEF ConnectFails
<1>2. CASE Resolve
  BY <1>2 DEF Resolve
<1>3. CASE Dial
  BY <1>3 DEF Dial
<1>4. CASE Handshake
  BY <1>4, ClientAssumption DEF Handshake, Verifier, Accepts
<1>5. CASE Upgraded \/ FromStream
  BY <1>5 DEF Upgraded, FromStream, Up
<1>6. CASE ~Linking
  BY <1>6, OnlyLinking
<1>7. QED
  BY <1>1, <1>2, <1>3, <1>4, <1>5, <1>6 DEF Linking

\* WsClientBuilder::connect: a wss target yields a TLS connection whose
\* certificate was checked as the options ask, for every combination of options.
THEOREM NeverDowngraded == SafeSpec => NoDowngrade
<1>1. LinkInv /\ [Next]_vars =>
        [phase = "upgrade" /\ phase' = "up" /\ opts.secure =>
           /\ stream' = "secure"
           /\ opts.policy => verifier = "policy" /\ opts.trusted
           /\ opts.trusted \/ opts.danger]_vars
  <2> SUFFICES ASSUME LinkInv, [Next]_vars, phase = "upgrade", phase' = "up", opts.secure
               PROVE  /\ stream' = "secure"
                      /\ opts.policy => verifier = "policy" /\ opts.trusted
                      /\ opts.trusted \/ opts.danger
    OBVIOUS
  <2>1. verifier # None
    BY DEF LinkInv
  <2>2. Upgraded
    BY OnlyLinking DEF Linking, ConnectFails, Resolve, Dial, Handshake, FromStream
  <2>3. stream' = "secure"
    BY <2>1, <2>2 DEF Upgraded, Up
  <2>4. QED
    BY <2>3 DEF LinkInv
<1>2. QED
  BY <1>1, LinkInvInit, LinkInvKept, PTL DEF SafeSpec, NoDowngrade
-----------------------------------------------------------------------------
(* Answers *)

Outcomes == {"none", "ok", "error", "mismatch", "unparsable", "failed", "closed",
             "unsent", "dropped"}
CallTypes ==
  /\ seq \in 0..MaxReqs
  /\ inbox \in Seq(Frames)
  /\ server \subseteq Requests
  /\ raws \subseteq 0..MaxReqs
  /\ reply \in [0..MaxReqs -> {"none", "ok", "err"}]
  /\ outcome \in [Numbers -> Outcomes]
  /\ pc = "sending" => seq \in Numbers
  /\ expects \in Types \cup {None}

\* send_req asks with each number once, and it is answered once: what has been
\* answered, and what has come of it, is never answered again.  A number of
\* send_raw may be any.
AnswerInv ==
  /\ \A i \in 1..Len(inbox) :
       inbox[i].k = "ok" /\ inbox[i].n \in Numbers \ raws => reply[inbox[i].n] = "ok"
  /\ \A q \in server : IF q.raw THEN q.n \in raws
                                ELSE q.n \in Numbers /\ q.n <= seq /\ reply[q.n] = "none"
  /\ \A q, r \in server : ~q.raw /\ ~r.raw /\ q.n = r.n => q = r
  /\ \A n \in Numbers : n > seq => reply[n] = "none"
  /\ pc = "sending" => reply[seq] = "none" /\ \A q \in server : ~q.raw => q.n # seq
  /\ \A n \in Numbers \ raws : outcome[n] = "ok" => reply[n] = "ok"

\* The end of a call that is no success.
LEMMA EndKeeps ==
  ASSUME CallTypes, AnswerInv, NEW how \in Outcomes \ {"ok"}, End(how),
         UNCHANGED <<seq, server, raws, reply>>,
         inbox' = inbox \/ (inbox # <<>> /\ inbox' = Tail(inbox))
  PROVE  CallTypes' /\ AnswerInv'
<1>0. inbox' \in Seq(Frames)
  BY DEF CallTypes
<1>1. CallTypes'
  <2>1. outcome' \in [Numbers -> Outcomes]
    BY DEF CallTypes, End, Outcomes, Numbers
  <2>2. QED
    BY <1>0, <2>1 DEF CallTypes, End
<1>2. \A n \in Numbers : outcome'[n] = "ok" => outcome[n] = "ok"
  BY DEF CallTypes, End, Numbers
<1>3. \A i \in 1..Len(inbox') : \E j \in 1..Len(inbox) : inbox'[i] = inbox[j]
  <2>1. CASE inbox' = inbox
    BY <2>1
  <2>2. CASE inbox # <<>> /\ inbox' = Tail(inbox)
    BY <2>2 DEF CallTypes
  <2>3. QED
    BY <2>1, <2>2
<1>4. \A i \in 1..Len(inbox') :
        inbox'[i].k = "ok" /\ inbox'[i].n \in Numbers \ raws' => reply'[inbox'[i].n] = "ok"
  BY <1>3 DEF AnswerInv
<1>5. /\ \A q \in server' : IF q.raw THEN q.n \in raws'
                              ELSE q.n \in Numbers /\ q.n <= seq' /\ reply'[q.n] = "none"
      /\ \A q, r \in server' : ~q.raw /\ ~r.raw /\ q.n = r.n => q = r
      /\ \A n \in Numbers : n > seq' => reply'[n] = "none"
  BY DEF AnswerInv
<1>6. \A n \in Numbers \ raws' : outcome'[n] = "ok" => reply'[n] = "ok"
  BY <1>2 DEF AnswerInv
<1>7. pc' # "sending"
  BY DEF End
<1>8. QED
  BY <1>1, <1>4, <1>5, <1>6, <1>7 DEF AnswerInv, Numbers

\* A request of send_req goes out, and its call waits, is left to itself or is
\* dropped.
LEMMA RequestOut ==
  ASSUME CallTypes, AnswerInv, pc = "sending", server' = server \cup {Request},
         pc' # "sending", expects' \in Types \cup {None}, outcome' \in [Numbers -> Outcomes],
         \A n \in Numbers : outcome'[n] = "ok" => outcome[n] = "ok",
         UNCHANGED <<seq, inbox, raws, reply>>
  PROVE  CallTypes' /\ AnswerInv'
<1> USE ClientAssumption DEF CallTypes, AnswerInv
<1>1. seq \in Numbers /\ reply[seq] = "none" /\ \A q \in server : ~q.raw => q.n # seq
  OBVIOUS
<1>2. Request.n = seq /\ ~Request.raw /\ Request \in Requests
  BY <1>1 DEF Request, Requests, Numbers
<1>3. CallTypes'
  BY <1>2
<1>4. \A q \in server' : IF q.raw THEN q.n \in raws'
                          ELSE q.n \in Numbers /\ q.n <= seq' /\ reply'[q.n] = "none"
  BY <1>1, <1>2 DEF Numbers
<1>5. \A q, r \in server' : ~q.raw /\ ~r.raw /\ q.n = r.n => q = r
  BY <1>1, <1>2
<1>6. QED
  BY <1>3, <1>4, <1>5

\* Every step keeps that a number is answered once: replies move into the
\* inbox, and a call takes one from it.
LEMMA AnswersKept ==
  ASSUME CallTypes, AnswerInv, [Next]_vars
  PROVE  CallTypes' /\ AnswerInv'
<1> USE ClientAssumption DEF CallTypes, AnswerInv
<1>1. CASE Linking \/ CloseClient
  <2>1. UNCHANGED <<seq, pc, expects, outcome, inbox, server, raws, reply>>
    BY <1>1 DEF Linking, ConnectFails, Resolve, Dial, Handshake, Upgraded, FromStream, CloseClient, calls, peer
  <2>2. QED
    BY <2>1
<1>2. ASSUME NEW t \in Types, SendReq(t)
      PROVE  CallTypes' /\ AnswerInv'
  BY <1>2 DEF SendReq, peer, Numbers
<1>3. ASSUME NEW t \in Types, RecvResp(t)
      PROVE  CallTypes' /\ AnswerInv'
  BY <1>3 DEF RecvResp, peer
<1>4. ASSUME NEW w \in BOOLEAN, Sent(w)
      PROVE  CallTypes' /\ AnswerInv'
  BY <1>4, RequestOut DEF Sent
<1>5. CASE SendFails
  BY <1>5, EndKeeps DEF SendFails, peer, Outcomes
<1>6. CASE Abandon
  <2>1. CASE server' = server
    BY <1>6, <2>1, EndKeeps DEF Abandon, Outcomes
  <2>2. CASE pc = "sending" /\ server' = server \cup {Request}
    <3>1. outcome' \in [Numbers -> Outcomes] /\ pc' = "idle" /\ expects' = None
          /\ \A n \in Numbers : outcome'[n] = "ok" => outcome[n] = "ok"
      BY <1>6 DEF Abandon, End, Outcomes, Numbers
    <3>2. UNCHANGED <<seq, inbox, raws, reply>>
      BY <1>6 DEF Abandon
    <3>3. QED
      BY <2>2, <3>1, <3>2, RequestOut
  <2>3. QED
    BY <1>6, <2>1, <2>2 DEF Abandon
<1>7. ASSUME NEW n \in 0..MaxReqs, NEW t \in Types, SendRaw(n, t)
      PROVE  CallTypes' /\ AnswerInv'
  <2> DEFINE r == [n |-> n, t |-> t, raw |-> TRUE]
  <2>1. r \in Requests /\ r.n = n /\ r.raw
    BY DEF Requests
  <2> HIDE DEF r
  <2>2. server' = server \cup {r} /\ raws' = raws \cup {n} /\ UNCHANGED <<calls, inbox, reply>>
    BY <1>7 DEF SendRaw, r
  <2>3. QED
    BY <2>1, <2>2 DEF calls
<1>8. CASE RecvRaw
  <2>1. \A i \in 1..Len(Tail(inbox)) : \E j \in 1..Len(inbox) : Tail(inbox)[i] = inbox[j]
    BY <1>8 DEF RecvRaw
  <2>2. QED
    BY <1>8, <2>1 DEF RecvRaw, calls
<1>9. CASE Unparsable \/ Mismatch \/ ErrorAnswer \/ PongFails \/ CloseSeen \/ StreamEnds
  BY <1>9, EndKeeps DEF Unparsable, Mismatch, ErrorAnswer, PongFails, CloseSeen, StreamEnds, Take, peer, Outcomes
<1>10. CASE OwnAnswer
  <2>1. inbox # <<>> /\ inbox' = Tail(inbox) /\ inbox[1].k = "ok" /\ inbox[1].n = seq
        /\ UNCHANGED <<seq, server, raws, reply>>
    BY <1>10 DEF OwnAnswer, Take, Head0
  <2>2. seq \in Numbers \ raws => reply[seq] = "ok"
    BY <2>1
  <2>3. outcome' \in [Numbers -> Outcomes] /\ pc' = "idle" /\ expects' = None
        /\ \A n \in Numbers : outcome'[n] = "ok" => outcome[n] = "ok" \/ n = seq
    BY <1>10 DEF OwnAnswer, End, Outcomes, Numbers
  <2>4. \A i \in 1..Len(Tail(inbox)) : \E j \in 1..Len(inbox) : Tail(inbox)[i] = inbox[j]
    BY <2>1
  <2>5. QED
    BY <2>1, <2>2, <2>3, <2>4
<1>11. CASE Passed
  <2>1. \A i \in 1..Len(Tail(inbox)) : \E j \in 1..Len(inbox) : Tail(inbox)[i] = inbox[j]
    BY <1>11 DEF Passed, Take
  <2>2. QED
    BY <1>11, <2>1 DEF Passed, Take
<1>12. ASSUME NEW q \in server, NEW k \in {"ok", "err"}, Reply(q, k)
       PROVE  CallTypes' /\ AnswerInv'
  <2> DEFINE f == Frame(k, q.n, IF k = "ok" THEN q.t ELSE None)
  <2>1. f \in Frames /\ f.k = k /\ f.n = q.n /\ q.n \in 0..MaxReqs
    BY DEF Frame, Frames, Requests
  <2> HIDE DEF f
  <2>2. inbox' = Append(inbox, f) /\ server' = server \ {q} /\ UNCHANGED <<calls, raws>>
        /\ reply' = IF q.raw THEN reply ELSE [reply EXCEPT ![q.n] = k]
    BY <1>12 DEF Reply, Deliver, f
  <2>3. CallTypes'
    BY <2>1, <2>2 DEF calls
  <2>4. \A i \in 1..Len(inbox') :
          (i \in 1..Len(inbox) /\ inbox'[i] = inbox[i]) \/ inbox'[i] = f
    BY <2>1, <2>2
  <2>5. \A n \in Numbers : n # q.n => reply'[n] = reply[n]
    BY <2>1, <2>2 DEF Numbers
  <2>6. /\ q.raw => reply' = reply /\ q.n \in raws
        /\ ~q.raw => reply[q.n] = "none" /\ reply'[q.n] = k /\ q.n <= seq
    BY <2>1, <2>2 DEF Numbers
  <2>7. \A i \in 1..Len(inbox') :
          inbox'[i].k = "ok" /\ inbox'[i].n \in Numbers \ raws' => reply'[inbox'[i].n] = "ok"
    <3> SUFFICES ASSUME NEW i \in 1..Len(inbox'), inbox'[i].k = "ok", inbox'[i].n \in Numbers \ raws
                 PROVE  reply'[inbox'[i].n] = "ok"
      BY <2>2
    <3>1. CASE inbox'[i] = f
      BY <2>1, <2>6, <3>1
    <3>2. CASE i \in 1..Len(inbox) /\ inbox'[i] = inbox[i]
      <4>1. reply[inbox[i].n] = "ok" /\ inbox[i].n \in Numbers
        BY <3>2
      <4>2. q.raw \/ inbox[i].n # q.n
        BY <2>6, <4>1
      <4>3. QED
        BY <2>5, <2>6, <3>2, <4>1, <4>2
    <3>3. QED
      BY <2>4, <3>1, <3>2
  <2>8. \A r \in server' : r \in server /\ (~q.raw /\ ~r.raw => r.n # q.n)
    BY <2>2
  <2>9. pc' = "sending" => reply'[seq'] = "none" /\ \A r \in server' : ~r.raw => r.n # seq'
    BY <2>2, <2>5, <2>6 DEF calls
  <2>10. \A n \in Numbers \ raws' : outcome'[n] = "ok" => reply'[n] = "ok"
    BY <2>2, <2>5, <2>6 DEF calls
  <2>11. \A n \in Numbers : n > seq' => reply'[n] = "none"
    BY <2>2, <2>5, <2>6 DEF calls, Numbers
  <2>12. \A r \in server' : IF r.raw THEN r.n \in raws'
                             ELSE r.n \in Numbers /\ r.n <= seq' /\ reply'[r.n] = "none"
    BY <2>2, <2>5, <2>6, <2>8 DEF calls
  <2>13. QED
    BY <2>2, <2>3, <2>7, <2>8, <2>9, <2>10, <2>11, <2>12
<1>13. ASSUME NEW f \in Frames, f.k # "ok", inbox' \in {inbox, Append(inbox, f)},
              UNCHANGED <<server, raws, calls>>,
              reply' \in {reply, [reply EXCEPT ![0] = "err"]}
       PROVE  CallTypes' /\ AnswerInv'
  <2>1. \A i \in 1..Len(inbox') :
          (i \in 1..Len(inbox) /\ inbox'[i] = inbox[i]) \/ inbox'[i] = f
    BY <1>13
  <2>2. \A n \in Numbers : reply'[n] = reply[n]
    BY <1>13 DEF Numbers
  <2>3. CallTypes'
    <3>1. inbox' \in Seq(Frames)
      <4>1. inbox \in Seq(Frames)
        OBVIOUS
      <4>2. Append(inbox, f) \in Seq(Frames)
        BY <4>1
      <4>3. QED
        BY <1>13, <4>1, <4>2
    <3>2. reply' \in [0..MaxReqs -> {"none", "ok", "err"}]
      BY <1>13
    <3>3. QED
      BY <1>13, <3>1, <3>2 DEF calls
  <2>4. \A i \in 1..Len(inbox') :
          inbox'[i].k = "ok" /\ inbox'[i].n \in Numbers \ raws' => reply'[inbox'[i].n] = "ok"
    BY <1>13, <2>1, <2>2
  <2>5. \A q \in server' : IF q.raw THEN q.n \in raws'
                            ELSE q.n \in Numbers /\ q.n <= seq' /\ reply'[q.n] = "none"
    BY <1>13, <2>2 DEF calls
  <2>6. \A n \in Numbers : n > seq' => reply'[n] = "none"
    BY <1>13, <2>2 DEF calls
  <2>7. pc' = "sending" => reply'[seq'] = "none" /\ \A q \in server' : ~q.raw => q.n # seq'
    BY <1>13, <2>2 DEF calls
  <2>8. \A n \in Numbers \ raws' : outcome'[n] = "ok" => reply'[n] = "ok"
    BY <1>13, <2>2 DEF calls
  <2>9. \A q, r \in server' : ~q.raw /\ ~r.raw /\ q.n = r.n => q = r
    BY <1>13
  <2>10. QED
    BY <2>3, <2>4, <2>5, <2>6, <2>7, <2>8, <2>9
<1>14. CASE Rejects \/ Ends \/ (\E t \in Types : Noise("stream", t)) \/ \E k \in {"ping", "other"} : Noise(k, None)
  <2>1. Frame("err", 0, None) \in Frames /\ Frame("close", 0, None) \in Frames
        /\ (\A t \in Types : Frame("stream", 0, t) \in Frames)
        /\ (\A k \in {"ping", "other"} : Frame(k, 0, None) \in Frames)
    BY DEF Frame, Frames
  <2>2. \A k, n, t : Frame(k, n, t).k = k
    BY DEF Frame
  <2>3. CASE Rejects
    BY <1>13, <2>1, <2>2, <2>3 DEF Rejects, Deliver
  <2>4. CASE Ends
    BY <1>13, <2>1, <2>2, <2>4 DEF Ends, Deliver
  <2>5. ASSUME NEW t \in Types, Noise("stream", t)
        PROVE  CallTypes' /\ AnswerInv'
    BY <1>13, <2>1, <2>2, <2>5 DEF Noise, Deliver
  <2>6. ASSUME NEW k \in {"ping", "other"}, Noise(k, None)
        PROVE  CallTypes' /\ AnswerInv'
    BY <1>13, <2>1, <2>2, <2>6 DEF Noise, Deliver
  <2>7. QED
    BY <1>14, <2>3, <2>4, <2>5, <2>6
<1>15. CASE UNCHANGED vars
  BY <1>15 DEF vars
<1> HIDE DEF CallTypes, AnswerInv
<1>16. QED
  BY <1>1, <1>2, <1>3, <1>4, <1>5, <1>6, <1>7, <1>8, <1>9, <1>10, <1>11, <1>12, <1>14, <1>15
     DEF Next, Linking, Loop, Peer

\* recv_resp: a call that succeeds carries the peer's answer to its own request,
\* also after calls that were dropped with their answers under way, unless its
\* number was also put into a request of send_raw.
THEOREM SuccessIsOwnAnswer == SafeSpec => []SuccessIsOwn
<1>1. Init => CallTypes /\ AnswerInv
  BY ClientAssumption DEF Init, CallTypes, AnswerInv, Numbers, Outcomes
<1>2. CallTypes /\ AnswerInv /\ [Next]_vars => (CallTypes /\ AnswerInv)'
  BY AnswersKept
<1>3. CallTypes /\ AnswerInv => SuccessIsOwn
  BY ClientAssumption DEF CallTypes, AnswerInv, SuccessIsOwn, Numbers
<1>4. QED
  BY <1>1, <1>2, <1>3, PTL DEF SafeSpec
-----------------------------------------------------------------------------
(* Calls in step *)

\* The rest of the type invariant.
LinkTypes ==
  /\ phase \in {"target", "dial", "tls", "upgrade", "up", "failed", "closed"}
  /\ opts \in Options
  /\ stream \in {None, "plain", "secure", "message"}
  /\ verifier \in {None, "default", "policy", "nobody"}
  /\ pc \in {"idle", "sending", "waiting"}
  /\ Len(inbox) <= MaxInbox
  /\ ended \in BOOLEAN
  /\ noise \in 0..MaxNoise

IsAnswer(f) == f.k \in {"ok", "err"}
Settled == {"ok", "error", "unsent"}

\* A frame carries the number of a request, or 0.
LEMMA FrameNumber == \A f \in Frames : f.n \in 0..MaxReqs
  BY DEF Frames

\* As long as send_raw is not used, each answer on its way is the only one to a
\* request that was sent, and number 0 is never a call's.
FrameInv == raws = {} =>
  /\ \A i \in 1..Len(inbox) : IsAnswer(inbox[i]) =>
       /\ inbox[i].n <= seq
       /\ inbox[i].n = 0 => reply[0] # "none"
       /\ inbox[i].n # 0 => reply[inbox[i].n] = inbox[i].k
  /\ \A i, j \in 1..Len(inbox) :
       IsAnswer(inbox[i]) /\ IsAnswer(inbox[j]) /\ inbox[i].n = inbox[j].n /\ inbox[i].n # 0
         => i = j
  /\ \A n \in Numbers : n > seq => outcome[n] = "none"
  /\ pc = "sending" => outcome[seq] = "none"

\* In step, nothing is under way but the question of the latest call and its
\* answer, and nothing at all once that call has settled.
StepInv ==
  InStep(seq) /\ seq # 0 =>
    /\ \A q \in server : q.n = seq
    /\ \A i \in 1..Len(inbox) : IsAnswer(inbox[i]) => inbox[i].n = seq
    /\ outcome[seq] \in Settled =>
         server = {} /\ \A i \in 1..Len(inbox) : ~IsAnswer(inbox[i])

CallInv == /\ CallTypes /\ AnswerInv /\ LinkTypes
           /\ FrameInv /\ StepInv /\ SequentialIsExact

\* The variables of the link keep their types.
LEMMA LinkTypesKept == CallTypes /\ LinkTypes /\ [Next]_vars => LinkTypes'
<1> SUFFICES ASSUME CallTypes, LinkTypes, [Next]_vars PROVE LinkTypes'
  OBVIOUS
<1> USE ClientAssumption DEF LinkTypes
<1>1. CASE ConnectFails \/ Resolve \/ Dial \/ CloseClient
  BY <1>1 DEF ConnectFails, Resolve, Dial, CloseClient, calls, peer
<1>2. CASE Handshake
  BY <1>2 DEF Handshake, Verifier, calls, peer
<1>3. CASE Upgraded \/ FromStream
  <2>1. Moved \in Options
    BY DEF Moved, Options
  <2>2. QED
    BY <1>3, <2>1 DEF Upgraded, FromStream, Up, calls, peer
<1>4. ASSUME NEW t \in Types, SendReq(t) \/ RecvResp(t)
      PROVE  LinkTypes'
  BY <1>4 DEF SendReq, RecvResp, net, peer
<1>5. ASSUME NEW w \in BOOLEAN, Sent(w)
      PROVE  LinkTypes'
  BY <1>5 DEF Sent, net
<1>6. CASE SendFails \/ Abandon \/ StreamEnds
           \/ \E n \in 0..MaxReqs, t \in Types : SendRaw(n, t)
  BY <1>6 DEF SendFails, Abandon, SendRaw, StreamEnds, End, net, peer, calls
<1>7. CASE RecvRaw \/ Unparsable \/ OwnAnswer \/ Mismatch \/ ErrorAnswer \/ Passed \/ PongFails
           \/ CloseSeen
  <2>1. UNCHANGED <<net, ended, noise>> /\ pc' \in {"idle", pc} /\ inbox # <<>> /\ inbox' = Tail(inbox)
    BY <1>7 DEF RecvRaw, Unparsable, OwnAnswer, Mismatch, ErrorAnswer, Passed, PongFails, CloseSeen,
                Take, End, calls
  <2>2. Len(inbox') <= MaxInbox
    BY <2>1 DEF CallTypes
  <2>3. QED
    BY <2>1, <2>2 DEF net
<1>8. ASSUME NEW f, Deliver(f) \/ UNCHANGED inbox, UNCHANGED <<calls, net>>,
             ended' \in {ended, TRUE}, noise' \in 0..MaxNoise
      PROVE  LinkTypes'
  <2>1. Len(inbox') <= MaxInbox
    BY <1>8 DEF Deliver, CallTypes
  <2>2. QED
    BY <1>8, <2>1 DEF calls, net
<1>9. CASE Peer
  <2>1. ASSUME NEW q \in server, NEW k \in {"ok", "err"}, Reply(q, k)
        PROVE  LinkTypes'
    BY <1>8, <2>1 DEF Reply
  <2>2. ASSUME NEW k, NEW t, Noise(k, t)
        PROVE  LinkTypes'
    <3>1. noise' \in 0..MaxNoise
      BY <2>2 DEF Noise
    <3>2. QED
      BY <1>8, <2>2, <3>1 DEF Noise
  <2>3. CASE Rejects
    BY <1>8, <2>3 DEF Rejects
  <2>4. CASE Ends
    BY <1>8, <2>4 DEF Ends
  <2>5. QED
    BY <1>9, <2>1, <2>2, <2>3, <2>4 DEF Peer
<1>10. CASE UNCHANGED vars
  BY <1>10 DEF vars
<1>11. QED
  BY <1>1, <1>2, <1>3, <1>4, <1>5, <1>6, <1>7, <1>9, <1>10 DEF Next, Loop

\* A step that leaves the number of the latest call keeps what is known of the
\* earlier ones, which it does not touch.
LEMMA EarlierKept ==
  ASSUME CallTypes, CallTypes', SequentialIsExact, seq' = seq, raws' = raws,
         \A m \in Numbers : m # seq => outcome'[m] = outcome[m],
         reply'[0] = "none" => reply[0] = "none",
         \A m \in Numbers : reply[m] # "none" => reply'[m] = reply[m],
         InStep(seq) /\ seq # 0 =>
           /\ outcome'[seq] # "mismatch"
           /\ outcome'[seq] = "ok" => reply'[seq] = "ok"
           /\ outcome'[seq] = "error" => reply'[seq] = "err"
  PROVE  SequentialIsExact' /\ (InStep(seq)' => InStep(seq))
<1> USE ClientAssumption DEF CallTypes, Numbers
<1>1. ASSUME NEW n \in 0..seq, InStep(n)'
      PROVE  InStep(n)
  BY <1>1 DEF InStep
<1>2. ASSUME NEW n \in 1..seq, InStep(n)'
      PROVE  /\ outcome'[n] # "mismatch"
             /\ outcome'[n] = "ok" => reply'[n] = "ok"
             /\ outcome'[n] = "error" => reply'[n] = "err"
  <2>1. InStep(n)
    BY <1>1, <1>2
  <2>2. CASE n = seq
    BY <2>1, <2>2
  <2>3. CASE n # seq
    <3>1. n \in Numbers /\ outcome'[n] = outcome[n]
      BY <2>3
    <3>2. /\ outcome[n] # "mismatch"
          /\ outcome[n] = "ok" => reply[n] = "ok"
          /\ outcome[n] = "error" => reply[n] = "err"
      BY <2>1 DEF SequentialIsExact
    <3>3. QED
      BY <3>1, <3>2
  <2>4. QED
    BY <2>2, <2>3
<1>3. SequentialIsExact'
  BY <1>2 DEF SequentialIsExact
<1>4. QED
  BY <1>1, <1>3

\* A step that takes at most the first frame and may end the latest call.
LEMMA ReadKept ==
  ASSUME CallInv, CallTypes', UNCHANGED <<seq, server, raws, reply>>, raws = {}, pc' # "sending",
         NEW d \in {0, 1}, NEW how,
         \A i \in 1..Len(inbox') : i + d \in 1..Len(inbox) /\ inbox'[i] = inbox[i + d],
         \A m \in Numbers : m # seq => outcome'[m] = outcome[m],
         seq # 0 => \/ outcome'[seq] = outcome[seq]
                    \/ outcome[seq] = "none" /\ outcome'[seq] = how,
         InStep(seq) /\ seq # 0 =>
           /\ how # "mismatch"
           /\ how = "ok" => reply[seq] = "ok"
           /\ how = "error" => reply[seq] = "err"
           /\ how \in Settled =>
                server = {} /\ \A i \in 1..Len(inbox') : ~IsAnswer(inbox'[i])
  PROVE  FrameInv' /\ StepInv' /\ SequentialIsExact'
<1> USE ClientAssumption DEF CallInv, CallTypes, Numbers
<1>1. FrameInv'
  <2>1. \A i, j \in 1..Len(inbox') : i + d = j + d => i = j
    OBVIOUS
  <2>2. \A n \in Numbers : n > seq' => outcome'[n] = "none"
    BY DEF FrameInv
  <2>4. \A i \in 1..Len(inbox') : IsAnswer(inbox'[i]) =>
          /\ inbox'[i].n <= seq'
          /\ inbox'[i].n = 0 => reply'[0] # "none"
          /\ inbox'[i].n # 0 => reply'[inbox'[i].n] = inbox'[i].k
    BY DEF FrameInv
  <2>5. \A i, j \in 1..Len(inbox') :
          IsAnswer(inbox'[i]) /\ IsAnswer(inbox'[j]) /\ inbox'[i].n = inbox'[j].n
            /\ inbox'[i].n # 0 => i = j
    <3> TAKE i, j \in 1..Len(inbox')
    <3> HAVE IsAnswer(inbox'[i]) /\ IsAnswer(inbox'[j]) /\ inbox'[i].n = inbox'[j].n /\ inbox'[i].n # 0
    <3>1. PICK a \in 1..Len(inbox), b \in 1..Len(inbox) : a = i + d /\ b = j + d
      OBVIOUS
    <3>2. inbox'[i] = inbox[a] /\ inbox'[j] = inbox[b]
      BY <3>1
    <3>3. a = b
      BY <3>2 DEF FrameInv
    <3>4. QED
      BY <2>1, <3>1, <3>3
  <2>6. QED
    BY <2>2, <2>4, <2>5 DEF FrameInv, IsAnswer
<1>2. InStep(seq) /\ seq # 0 =>
        /\ outcome[seq] # "mismatch"
        /\ outcome[seq] = "ok" => reply[seq] = "ok"
        /\ outcome[seq] = "error" => reply[seq] = "err"
  BY DEF SequentialIsExact
<1>3. SequentialIsExact' /\ (InStep(seq)' => InStep(seq))
  <2>1. InStep(seq) /\ seq # 0 =>
          /\ outcome'[seq] # "mismatch"
          /\ outcome'[seq] = "ok" => reply'[seq] = "ok"
          /\ outcome'[seq] = "error" => reply'[seq] = "err"
    BY <1>2
  <2>2. QED
    BY <2>1, EarlierKept
<1>4. StepInv'
  <2> SUFFICES ASSUME InStep(seq)', seq # 0
               PROVE  /\ \A q \in server' : q.n = seq'
                      /\ \A i \in 1..Len(inbox') : IsAnswer(inbox'[i]) => inbox'[i].n = seq'
                      /\ outcome'[seq'] \in Settled =>
                           server' = {} /\ \A i \in 1..Len(inbox') : ~IsAnswer(inbox'[i])
    BY DEF StepInv, IsAnswer, Settled
  <2>1. InStep(seq)
    BY <1>3
  <2>2. /\ \A q \in server : q.n = seq
        /\ \A i \in 1..Len(inbox) : IsAnswer(inbox[i]) => inbox[i].n = seq
        /\ outcome[seq] \in Settled =>
             server = {} /\ \A i \in 1..Len(inbox) : ~IsAnswer(inbox[i])
    BY <2>1 DEF StepInv
  <2>3. \A i \in 1..Len(inbox') : IsAnswer(inbox'[i]) => inbox'[i].n = seq'
    <3> HIDE DEF CallInv, CallTypes
    <3> TAKE i \in 1..Len(inbox')
    <3>1. i + d \in 1..Len(inbox) /\ inbox'[i] = inbox[i + d]
      OBVIOUS
    <3>2. QED
      BY <2>2, <3>1
  <2>4. CASE outcome'[seq] = outcome[seq]
    BY <2>2, <2>3, <2>4
  <2>5. CASE outcome'[seq] = how
    BY <2>1, <2>2, <2>3, <2>5
  <2>6. QED
    BY <2>4, <2>5
<1>5. QED
  BY <1>1, <1>3, <1>4

\* The end of a call, with or without the frame that ended it.
LEMMA EndStepKept ==
  ASSUME CallInv, CallTypes', UNCHANGED <<seq, server, raws, reply>>, raws = {}, NEW how, End(how),
         inbox' = inbox \/ (inbox # <<>> /\ inbox' = Tail(inbox)),
         InStep(seq) /\ seq # 0 =>
           /\ how # "mismatch"
           /\ how = "ok" => reply[seq] = "ok"
           /\ how = "error" => reply[seq] = "err"
           /\ how \in Settled =>
                server = {} /\ \A i \in 1..Len(inbox') : ~IsAnswer(inbox'[i])
  PROVE  FrameInv' /\ StepInv' /\ SequentialIsExact'
<1>1. pc' # "sending" /\ \A m \in Numbers : m # seq => outcome'[m] = outcome[m]
  BY DEF End, CallInv, CallTypes
<1>2. seq # 0 => \/ outcome'[seq] = outcome[seq]
                 \/ outcome[seq] = "none" /\ outcome'[seq] = how
  BY ClientAssumption DEF End, CallInv, CallTypes, Numbers
<1>3. CASE inbox' = inbox
  <2>1. \A i \in 1..Len(inbox') : i + 0 \in 1..Len(inbox) /\ inbox'[i] = inbox[i + 0]
    BY <1>3 DEF CallInv, CallTypes
  <2>2. QED
    BY <1>1, <1>2, <2>1, ReadKept
<1>4. CASE inbox # <<>> /\ inbox' = Tail(inbox)
  <2>1. \A i \in 1..Len(inbox') : i + 1 \in 1..Len(inbox) /\ inbox'[i] = inbox[i + 1]
    BY <1>4 DEF CallInv, CallTypes
  <2>2. QED
    BY <1>1, <1>2, <2>1, ReadKept
<1>5. QED
  BY <1>3, <1>4

\* A step that leaves the calls and at most adds a frame that is no answer to a
\* request.
LEMMA AddKept ==
  ASSUME CallInv, CallTypes', UNCHANGED <<calls, server, raws>>, raws = {}, NEW f \in Frames,
         inbox' \in {inbox, Append(inbox, f)},
         \/ ~IsAnswer(f) /\ UNCHANGED reply
         \/ f.n = 0 /\ reply' = [reply EXCEPT ![0] = "err"]
  PROVE  FrameInv' /\ StepInv' /\ SequentialIsExact'
<1> USE ClientAssumption DEF CallInv, CallTypes, Numbers, calls
<1>1. \A i \in 1..Len(inbox') :
        \/ i \in 1..Len(inbox) /\ inbox'[i] = inbox[i]
        \/ inbox'[i] = f /\ i = Len(inbox) + 1
  <2>1. inbox \in Seq(Frames)
    OBVIOUS
  <2> HIDE DEF CallInv, CallTypes
  <2>2. QED
    BY <2>1
<1>2. \A n \in 1..MaxReqs : reply'[n] = reply[n]
  OBVIOUS
<1>3. reply'[0] = "none" => reply[0] = "none" /\ UNCHANGED reply
  OBVIOUS
<1>4. \A i \in 1..Len(inbox') : IsAnswer(inbox'[i]) =>
        \/ i \in 1..Len(inbox) /\ inbox'[i] = inbox[i]
        \/ inbox'[i].n = 0 /\ reply'[0] # "none"
  BY <1>1
<1>5. FrameInv'
  <2>1. \A i \in 1..Len(inbox') : IsAnswer(inbox'[i]) =>
          /\ inbox'[i].n <= seq'
          /\ inbox'[i].n = 0 => reply'[0] # "none"
          /\ inbox'[i].n # 0 => reply'[inbox'[i].n] = inbox'[i].k
    <3> TAKE i \in 1..Len(inbox')
    <3> HAVE IsAnswer(inbox'[i])
    <3>1. CASE i \in 1..Len(inbox) /\ inbox'[i] = inbox[i]
      <4>1. inbox[i].n \in 0..MaxReqs
        BY <3>1, FrameNumber
      <4>2. inbox[i].n <= seq /\ (inbox[i].n = 0 => reply[0] # "none")
            /\ (inbox[i].n # 0 => reply[inbox[i].n] = inbox[i].k)
        BY <3>1 DEF FrameInv
      <4>3. QED
        BY <1>2, <1>3, <3>1, <4>1, <4>2
    <3>2. CASE inbox'[i].n = 0 /\ reply'[0] # "none"
      BY <3>2
    <3>3. QED
      BY <1>4, <3>1, <3>2
  <2>2. \A i, j \in 1..Len(inbox') :
          IsAnswer(inbox'[i]) /\ IsAnswer(inbox'[j]) /\ inbox'[i].n = inbox'[j].n
            /\ inbox'[i].n # 0 => i = j
    BY <1>4 DEF FrameInv
  <2>3. QED
    BY <2>1, <2>2 DEF FrameInv, IsAnswer
<1>6. SequentialIsExact' /\ (InStep(seq)' => InStep(seq))
  <2>1. reply'[0] = "none" => reply[0] = "none"
    BY <1>3
  <2>2. InStep(seq) /\ seq # 0 =>
          /\ outcome'[seq] # "mismatch"
          /\ outcome'[seq] = "ok" => reply'[seq] = "ok"
          /\ outcome'[seq] = "error" => reply'[seq] = "err"
    BY <1>2 DEF SequentialIsExact
  <2>3. QED
    BY <1>2, <2>1, <2>2, EarlierKept
<1>7. StepInv'
  <2> SUFFICES ASSUME InStep(seq)', seq # 0
               PROVE  /\ \A q \in server' : q.n = seq'
                      /\ \A i \in 1..Len(inbox') : IsAnswer(inbox'[i]) => inbox'[i].n = seq'
                      /\ outcome'[seq'] \in Settled =>
                           server' = {} /\ \A i \in 1..Len(inbox') : ~IsAnswer(inbox'[i])
    BY DEF StepInv, IsAnswer, Settled
  <2>1. InStep(seq)
    BY <1>6
  <2>2. reply'[0] = "none"
    BY DEF InStep
  <2>3. server' = server
    OBVIOUS
  <2>4. \A i \in 1..Len(inbox') : IsAnswer(inbox'[i]) => i \in 1..Len(inbox) /\ inbox'[i] = inbox[i]
    BY <1>4, <2>2
  <2>5. QED
    BY <2>1, <2>3, <2>4 DEF StepInv
<1>8. QED
  BY <1>5, <1>6, <1>7

\* The peer answers a request.
LEMMA ReplyKept ==
  ASSUME CallInv, CallTypes', raws = {}, NEW q \in server, NEW k \in {"ok", "err"}, Reply(q, k)
  PROVE  FrameInv' /\ StepInv' /\ SequentialIsExact'
<1> USE ClientAssumption DEF CallInv, CallTypes, Numbers, calls
<1> DEFINE f == Frame(k, q.n, IF k = "ok" THEN q.t ELSE None)
<1>1. f \in Frames /\ f.k = k /\ f.n = q.n /\ q.n \in 0..MaxReqs
  BY DEF Frame, Frames, Requests
<1> HIDE DEF f
<1>3. ~q.raw /\ q.n # 0 /\ q.n <= seq /\ reply[q.n] = "none"
  BY <1>1 DEF AnswerInv
<1>2. inbox' = Append(inbox, f) /\ server' = server \ {q} /\ reply' = [reply EXCEPT ![q.n] = k]
      /\ UNCHANGED <<calls, raws>>
  BY <1>3 DEF Reply, Deliver, f
<1>4. \A i \in 1..Len(inbox') :
        \/ i \in 1..Len(inbox) /\ inbox'[i] = inbox[i]
        \/ inbox'[i] = f /\ i = Len(inbox) + 1
  BY <1>1, <1>2
<1>5. reply'[q.n] = k /\ \A n \in 0..MaxReqs : n # q.n => reply'[n] = reply[n]
  BY <1>1, <1>2
<1>6. \A i \in 1..Len(inbox) : IsAnswer(inbox[i]) => inbox[i].n \in 0..MaxReqs /\ (inbox[i].n = q.n => q.n = 0)
  <2> TAKE i \in 1..Len(inbox)
  <2> HAVE IsAnswer(inbox[i])
  <2>1. inbox[i].n \in 0..MaxReqs
    BY FrameNumber
  <2>2. inbox[i].n # 0 => reply[inbox[i].n] = inbox[i].k
    BY DEF FrameInv
  <2>3. inbox[i].k # "none"
    BY DEF IsAnswer
  <2>4. QED
    BY <1>3, <2>1, <2>2, <2>3
<1>7. FrameInv'
  <2>1. \A i \in 1..Len(inbox') : IsAnswer(inbox'[i]) =>
          /\ inbox'[i].n <= seq'
          /\ inbox'[i].n = 0 => reply'[0] # "none"
          /\ inbox'[i].n # 0 => reply'[inbox'[i].n] = inbox'[i].k
    <3> TAKE i \in 1..Len(inbox')
    <3> HAVE IsAnswer(inbox'[i])
    <3>1. CASE i \in 1..Len(inbox) /\ inbox'[i] = inbox[i]
      <4>1. inbox[i].n <= seq /\ (inbox[i].n = 0 => reply[0] # "none")
            /\ (inbox[i].n # 0 => reply[inbox[i].n] = inbox[i].k)
        BY <3>1 DEF FrameInv
      <4>2. QED
        BY <1>2, <1>5, <1>6, <3>1, <4>1
    <3>2. CASE inbox'[i] = f
      BY <1>1, <1>2, <1>3, <1>5, <3>2
    <3>3. QED
      BY <1>4, <3>1, <3>2
  <2>2. \A i, j \in 1..Len(inbox') :
          IsAnswer(inbox'[i]) /\ IsAnswer(inbox'[j]) /\ inbox'[i].n = inbox'[j].n
            /\ inbox'[i].n # 0 => i = j
    <3> TAKE i, j \in 1..Len(inbox')
    <3> HAVE IsAnswer(inbox'[i]) /\ IsAnswer(inbox'[j]) /\ inbox'[i].n = inbox'[j].n /\ inbox'[i].n # 0
    <3>1. CASE inbox'[i] = inbox[i] /\ inbox'[j] = inbox[j] /\ i \in 1..Len(inbox) /\ j \in 1..Len(inbox)
      BY <3>1 DEF FrameInv
    <3>2. CASE inbox'[i] = f /\ i = Len(inbox) + 1
      BY <1>1, <1>4, <1>6, <3>2
    <3>3. CASE inbox'[j] = f /\ j = Len(inbox) + 1
      BY <1>1, <1>4, <1>6, <3>3
    <3>4. QED
      BY <1>4, <3>1, <3>2, <3>3
  <2>3. QED
    BY <1>2, <2>1, <2>2 DEF FrameInv, IsAnswer
<1>8. reply'[0] = "none" => reply[0] = "none"
  BY <1>1, <1>3, <1>5
<1>9. \A m \in Numbers : reply[m] # "none" => reply'[m] = reply[m]
  <2> TAKE m \in Numbers
  <2>1. m \in 0..MaxReqs /\ m # 0
    OBVIOUS
  <2>2. QED
    BY <1>3, <1>5, <2>1
<1>10. SequentialIsExact' /\ (InStep(seq)' => InStep(seq))
  <2>1. InStep(seq) /\ seq # 0 =>
          /\ outcome'[seq] # "mismatch"
          /\ outcome'[seq] = "ok" => reply'[seq] = "ok"
          /\ outcome'[seq] = "error" => reply'[seq] = "err"
    <3> HAVE InStep(seq) /\ seq # 0
    <3>1. seq \in Numbers /\ seq \in 1..seq
      OBVIOUS
    <3>2. /\ outcome[seq] # "mismatch"
          /\ outcome[seq] = "ok" => reply[seq] = "ok"
          /\ outcome[seq] = "error" => reply[seq] = "err"
      BY <3>1 DEF SequentialIsExact
    <3>3. reply[seq] # "none" => reply'[seq] = reply[seq]
      BY <1>9, <3>1
    <3>4. QED
      BY <1>2, <3>2, <3>3
  <2>2. QED
    BY <1>2, <1>8, <1>9, <2>1, EarlierKept
<1>11. StepInv'
  <2> SUFFICES ASSUME InStep(seq)', seq # 0
               PROVE  /\ \A r \in server' : r.n = seq'
                      /\ \A i \in 1..Len(inbox') : IsAnswer(inbox'[i]) => inbox'[i].n = seq'
                      /\ outcome'[seq'] \notin Settled
    BY <1>2 DEF StepInv, IsAnswer, Settled
  <2>1. InStep(seq)
    BY <1>10
  <2>2. (\A r \in server : r.n = seq) /\ outcome[seq] \notin Settled
        /\ \A i \in 1..Len(inbox) : IsAnswer(inbox[i]) => inbox[i].n = seq
    BY <2>1 DEF StepInv
  <2>3. \A i \in 1..Len(inbox') : IsAnswer(inbox'[i]) => inbox'[i].n = seq'
    BY <1>1, <1>2, <1>4, <2>2
  <2>4. QED
    BY <1>2, <2>2, <2>3
<1>12. QED
  BY <1>7, <1>10, <1>11

\* A client without calls is in step.
LEMMA CallInvInit == Init => CallInv
<1> SUFFICES ASSUME Init PROVE CallInv
  OBVIOUS
<1>1. CallTypes /\ AnswerInv
  BY ClientAssumption DEF Init, CallTypes, AnswerInv, Numbers, Outcomes
<1>2. LinkTypes
  <2>1. Len(inbox) <= MaxInbox /\ noise \in 0..MaxNoise
    BY ClientAssumption DEF Init
  <2>2. QED
    BY <2>1 DEF Init, LinkTypes
<1>3. FrameInv /\ StepInv /\ SequentialIsExact
  BY ClientAssumption DEF Init, FrameInv, StepInv, SequentialIsExact, Numbers
<1>4. QED
  BY <1>1, <1>2, <1>3 DEF CallInv

\* In step, the first frame, if it is an answer, answers the latest call and is
\* the last to be under way.
LEMMA HeadInStep ==
  ASSUME CallInv, raws = {}, InStep(seq), seq # 0, inbox # <<>>, IsAnswer(Head(inbox))
  PROVE  /\ Head(inbox).n = seq /\ reply[seq] = Head(inbox).k
         /\ server = {} /\ \A i \in 1..Len(Tail(inbox)) : ~IsAnswer(Tail(inbox)[i])
<1> USE ClientAssumption DEF CallInv, CallTypes, Numbers
<1>1. 1 \in 1..Len(inbox) /\ Head(inbox) = inbox[1]
  OBVIOUS
<1>2. inbox[1].n = seq
  BY <1>1 DEF StepInv
<1>3. reply[seq] = inbox[1].k
  BY <1>1, <1>2 DEF FrameInv
<1>4. server = {}
  <2>1. reply[seq] # "none"
    BY <1>1, <1>3 DEF IsAnswer
  <2>2. \A q \in server : q.n = seq
    BY DEF StepInv
  <2>3. QED
    BY <2>1, <2>2 DEF AnswerInv
<1>5. ASSUME NEW i \in 1..Len(Tail(inbox)), IsAnswer(Tail(inbox)[i])
      PROVE  FALSE
  <2>1. i + 1 \in 1..Len(inbox) /\ Tail(inbox)[i] = inbox[i + 1] /\ i + 1 # 1
    BY <1>1
  <2>2. inbox[i + 1].n = seq
    BY <1>5, <2>1 DEF StepInv
  <2>3. QED
    BY <1>1, <1>2, <1>5, <2>1, <2>2 DEF FrameInv
<1>6. QED
  BY <1>1, <1>2, <1>3, <1>4, <1>5

\* Only send_raw adds to its numbers.
LEMMA OnlyRaws ==
  ASSUME [Next]_vars
  PROVE  raws' = raws \/ \E n \in 0..MaxReqs, t \in Types : SendRaw(n, t)
  BY DEF Next, vars, ConnectFails, Resolve, Dial, Handshake, Upgraded, FromStream, SendReq, RecvResp,
     Sent, SendFails, Abandon, RecvRaw, CloseClient, Loop, Unparsable, OwnAnswer, Mismatch,
     ErrorAnswer, Passed, PongFails, CloseSeen, StreamEnds, Take, Peer, Reply, Noise, Rejects, Ends, peer

\* Every step keeps the invariant of the calls.
LEMMA CallInvKept == CallInv /\ [Next]_vars => CallInv'
<1> SUFFICES ASSUME CallInv, [Next]_vars PROVE CallInv'
  OBVIOUS
<1>0. CallTypes' /\ AnswerInv' /\ LinkTypes'
  BY AnswersKept, LinkTypesKept DEF CallInv
<1>a. raws' # {} => FrameInv' /\ StepInv' /\ SequentialIsExact'
  BY DEF FrameInv, StepInv, SequentialIsExact, InStep
<1> SUFFICES ASSUME raws' = {}
             PROVE  FrameInv' /\ StepInv' /\ SequentialIsExact'
  BY <1>0, <1>a DEF CallInv
<1>b. (\A n \in 0..MaxReqs, t \in Types : ~SendRaw(n, t)) /\ raws' = raws /\ raws = {}
  BY OnlyRaws DEF SendRaw
<1>1. CASE UNCHANGED <<calls, inbox, server, reply>>
  BY <1>1, <1>b DEF CallInv, FrameInv, StepInv, SequentialIsExact, InStep, calls
<1>2. CASE Linking \/ CloseClient
  BY <1>1, <1>2 DEF Linking, ConnectFails, Resolve, Dial, Handshake, Upgraded, FromStream,
                    CloseClient, peer
<1>3. ASSUME NEW t \in Types, SendReq(t)
      PROVE  FrameInv' /\ StepInv' /\ SequentialIsExact'
  <2> USE ClientAssumption, <1>b DEF CallInv, CallTypes, Numbers
  <2>1. seq' = seq + 1 /\ seq < MaxReqs /\ UNCHANGED <<outcome, inbox, server, reply>>
    BY <1>3 DEF SendReq, peer
  <2>2. outcome[seq + 1] = "none"
    BY <2>1 DEF FrameInv
  <2>3. FrameInv'
    <3>1. \A i \in 1..Len(inbox) : IsAnswer(inbox[i]) => inbox[i].n <= seq + 1
      BY FrameNumber DEF FrameInv
    <3>2. \A n \in Numbers : n > seq' => outcome'[n] = "none"
      BY <2>1 DEF FrameInv
    <3>3. QED
      BY <2>1, <2>2, <3>1, <3>2 DEF FrameInv, IsAnswer
  <2>4. \A n \in 1..(seq + 1) : InStep(n)' => InStep(n)
    BY <2>1 DEF InStep
  <2>5. SequentialIsExact'
    BY <2>1, <2>2, <2>4 DEF SequentialIsExact
  <2>6. ASSUME InStep(seq)'
        PROVE  server = {} /\ \A i \in 1..Len(inbox) : ~IsAnswer(inbox[i])
    <3>1. reply[0] = "none"
      BY <2>1, <2>6 DEF InStep
    <3>2. CASE seq = 0
      <4>1. server = {}
        BY <3>2 DEF AnswerInv
      <4>2. \A i \in 1..Len(inbox) : IsAnswer(inbox[i]) => inbox[i].n = 0
        BY <3>2, FrameNumber DEF FrameInv
      <4>3. QED
        BY <3>1, <4>1, <4>2 DEF FrameInv
    <3>3. CASE seq # 0
      <4>1. outcome[seq] \in Settled /\ InStep(seq)
        <5>1. \A m \in 1..(seq' - 1) : outcome'[m] \in Settled
          BY <2>6 DEF InStep, Settled
        <5>2. seq' - 1 = seq
          BY <2>1
        <5>3. \A m \in 1..seq : outcome[m] \in Settled
          BY <2>1, <5>1, <5>2
        <5>4. QED
          BY <3>1, <3>3, <5>3 DEF InStep, Settled
      <4>2. QED
        BY <3>3, <4>1 DEF StepInv
    <3>4. QED
      BY <3>2, <3>3
  <2>7. StepInv'
    <3> SUFFICES ASSUME InStep(seq)' PROVE StepInv'
      BY DEF StepInv
    <3>1. server' = {} /\ \A i \in 1..Len(inbox') : ~IsAnswer(inbox'[i])
      BY <2>1, <2>6
    <3>2. QED
      BY <3>1 DEF StepInv, IsAnswer
  <2>8. QED
    BY <2>3, <2>5, <2>7
<1>4. ASSUME NEW t \in Types, RecvResp(t)
      PROVE  FrameInv' /\ StepInv' /\ SequentialIsExact'
  BY <1>4 DEF RecvResp, peer, CallInv, FrameInv, StepInv, SequentialIsExact, InStep
<1>5. ASSUME pc = "sending", server' = server \cup {Request}, pc' # "sending",
             UNCHANGED <<seq, inbox, reply>>,
             \A m \in Numbers : m # seq => outcome'[m] = outcome[m],
             outcome'[seq] \in {"none", "dropped"}
      PROVE  FrameInv' /\ StepInv' /\ SequentialIsExact'
  <2> USE ClientAssumption, <1>0, <1>b DEF CallInv, CallTypes, Numbers
  <2>1. Request.n = seq /\ seq # 0
    BY <1>5 DEF Request
  <2>2. FrameInv'
    BY <1>5, <2>1 DEF FrameInv
  <2>3. SequentialIsExact' /\ (InStep(seq)' => InStep(seq))
    BY <1>5, EarlierKept
  <2>4. StepInv'
    BY <1>5, <2>1, <2>3 DEF StepInv, IsAnswer, Settled
  <2>5. QED
    BY <2>2, <2>3, <2>4
<1>6. ASSUME NEW w \in BOOLEAN, Sent(w)
      PROVE  FrameInv' /\ StepInv' /\ SequentialIsExact'
  <2>1. pc = "sending" /\ server' = server \cup {Request} /\ pc' # "sending"
        /\ UNCHANGED <<seq, inbox, reply, outcome>>
    BY <1>6 DEF Sent
  <2>2. outcome[seq] = "none"
    BY <1>b, <2>1 DEF CallInv, FrameInv
  <2>3. QED
    BY <1>5, <2>1, <2>2
<1>7. CASE SendFails
  <2>1. pc = "sending" /\ End("unsent") /\ UNCHANGED <<seq, server, reply, inbox>>
    BY <1>7 DEF SendFails, peer
  <2>2. ASSUME InStep(seq), seq # 0
        PROVE  server = {} /\ \A i \in 1..Len(inbox) : ~IsAnswer(inbox[i])
    <3>1. server = {}
      BY <1>b, <2>1, <2>2 DEF CallInv, AnswerInv, StepInv
    <3>2. reply[seq] = "none"
      BY <2>1 DEF CallInv, AnswerInv
    <3>3. \A i \in 1..Len(inbox) : IsAnswer(inbox[i]) => inbox[i].n = seq /\ reply[seq] = inbox[i].k
      BY <1>b, <2>2 DEF CallInv, StepInv, FrameInv
    <3>4. QED
      BY <3>1, <3>2, <3>3 DEF IsAnswer
  <2>3. QED
    BY <1>b, <1>0, <2>1, <2>2, EndStepKept
<1>8. CASE Abandon
  <2>1. CASE server' = server
    BY <1>b, <1>0, <1>8, <2>1, EndStepKept DEF Abandon, Settled
  <2>2. CASE pc = "sending" /\ server' = server \cup {Request}
    <3>1. outcome[seq] = "none" /\ seq \in Numbers
      BY <1>b, <2>2 DEF CallInv, FrameInv, CallTypes
    <3>2. pc' # "sending" /\ UNCHANGED <<seq, inbox, reply>>
          /\ outcome' = [outcome EXCEPT ![seq] = "dropped"]
      BY <1>8, <3>1, ClientAssumption DEF Abandon, End, Numbers
    <3>3. QED
      BY <1>5, <2>2, <3>1, <3>2 DEF CallInv, CallTypes
  <2>3. QED
    BY <1>8, <2>1, <2>2 DEF Abandon
<1>10. CASE RecvRaw \/ Passed
  <2>1. inbox # <<>> /\ inbox' = Tail(inbox) /\ UNCHANGED <<seq, server, reply, pc, outcome>> /\ pc # "sending"
    BY <1>10 DEF RecvRaw, Passed, Take, calls
  <2>2. \A i \in 1..Len(inbox') : i + 1 \in 1..Len(inbox) /\ inbox'[i] = inbox[i + 1]
    BY <2>1 DEF CallInv, CallTypes
  <2>3. QED
    <3>1. "none" \notin Settled /\ "none" \notin {"mismatch", "ok", "error"}
      BY DEF Settled
    <3>2. QED
      BY <1>b, <1>0, <2>1, <2>2, <3>1, ReadKept
<1>11. CASE Unparsable \/ PongFails \/ CloseSeen \/ StreamEnds
  BY <1>b, <1>0, <1>11, EndStepKept DEF Unparsable, PongFails, CloseSeen, StreamEnds, Take, peer, Settled
<1>12. CASE OwnAnswer \/ Mismatch \/ ErrorAnswer
  <2>1. inbox # <<>> /\ inbox' = Tail(inbox) /\ UNCHANGED <<seq, server, reply>> /\ IsAnswer(Head(inbox))
    BY <1>12 DEF OwnAnswer, Mismatch, ErrorAnswer, Take, Head0, IsAnswer
  <2>2. CASE OwnAnswer
    BY <1>b, <1>0, <2>1, <2>2, EndStepKept, HeadInStep DEF OwnAnswer, Head0
  <2>3. CASE Mismatch
    BY <1>b, <1>0, <2>1, <2>3, EndStepKept, HeadInStep DEF Mismatch, Head0
  <2>4. CASE ErrorAnswer
    BY <1>b, <1>0, <2>1, <2>4, EndStepKept, HeadInStep DEF ErrorAnswer, Head0
  <2>5. QED
    BY <1>12, <2>2, <2>3, <2>4
<1>13. CASE Rejects
  <2>1. Frame("err", 0, None) \in Frames /\ Frame("err", 0, None).n = 0
    BY ClientAssumption DEF Frame, Frames
  <2>2. QED
    BY <1>b, <1>0, <1>13, <2>1, AddKept DEF Rejects, Deliver
<1>14. CASE Ends \/ (\E t \in Types : Noise("stream", t)) \/ \E k \in {"ping", "other"} : Noise(k, None)
  <2>1. ASSUME NEW k \in {"stream", "ping", "other", "close"}, NEW t \in Types \cup {None}
        PROVE  Frame(k, 0, t) \in Frames /\ ~IsAnswer(Frame(k, 0, t))
    BY ClientAssumption DEF Frame, Frames, IsAnswer
  <2>2. CASE Ends
    BY <1>b, <1>0, <2>1, <2>2, AddKept DEF Ends, Deliver
  <2>3. ASSUME NEW k \in {"stream", "ping", "other"}, NEW t \in Types \cup {None}, Noise(k, t)
        PROVE  FrameInv' /\ StepInv' /\ SequentialIsExact'
    BY <1>b, <1>0, <2>1, <2>3, AddKept DEF Noise, Deliver
  <2>4. QED
    BY <1>14, <2>2, <2>3
<1>15. CASE UNCHANGED vars
  BY <1>1, <1>15 DEF vars, calls
<1>16. QED
  BY <1>0, <1>b, <1>2, <1>3, <1>4, <1>6, <1>7, <1>8, <1>10, <1>11, <1>12, <1>13, <1>14, <1>15, ReplyKept
     DEF Next, Linking, Loop, Peer

\* request(), one call after the other: as long as each earlier call ended with
\* an answer or sent nothing, and nothing went out by send_raw, a call ends as the peer answered it and never
\* meets a foreign number, for any number of calls, frames and response types.
THEOREM CallsAreExact == SafeSpec => []CallsExact
<1>1. CallInv => CallsExact
  <2> SUFFICES ASSUME CallInv PROVE CallsExact
    OBVIOUS
  <2>1. TypeOK
    BY DEF CallInv, CallTypes, LinkTypes, TypeOK, Outcomes
  <2>2. SuccessIsOwn
    BY ClientAssumption DEF CallInv, CallTypes, AnswerInv, SuccessIsOwn, Numbers
  <2>3. QED
    BY <2>1, <2>2 DEF CallInv, CallsExact
<1>2. QED
  BY <1>1, CallInvInit, CallInvKept, PTL DEF SafeSpec
===============================================================================
