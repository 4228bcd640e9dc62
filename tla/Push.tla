--------------------------------- MODULE Push ---------------------------------
(***************************************************************************)
(* src/libs/ws/push.rs: SubscribeManager.  Topics live in a concurrent map:*)
(* an operation holds the lock of its topic from beginning to end, a       *)
(* publish included, while other topics, the table of connections and      *)
(* their queues move on.  The *_multi forms lock one topic after another.  *)
(***************************************************************************)
EXTENDS Naturals, Sequences, FiniteSets, Functions

CONSTANTS Conns, Capacity, MaxPublish, None, \* as in Subs
          Topics,
          MaxCalls \* bound: calls of subscribe and unsubscribe and their *_multi forms

VARIABLES
  live, queue, heard, \* as in Subs
  topics,    \* topic -> connection -> context's request and stream_seq
  held,      \* topic -> the publish that holds its lock, or None
  multi,     \* connection -> the *_multi call in progress, or None
  \* history
  asked,     \* calls of subscribe and unsubscribe so far; each has a ctx.seq
  missed,    \* topic -> connection -> frames lost to a full queue
  pushes     \* publishes so far

vars == <<live, queue, heard, topics, held, multi, asked, missed, pushes>>
table == <<live, queue, heard>>

Init == /\ live = Conns
        /\ queue = [c \in Conns |-> <<>>] /\ heard = [c \in Conns |-> <<>>]
        /\ topics = <<>>
        /\ held = [t \in Topics |-> None]
        /\ multi = [c \in Conns |-> None]
        /\ asked = 0 /\ pushes = 0
        /\ missed = [t \in Topics |-> [c \in Conns |-> 0]]

Subscribers(t) == IF t \in DOMAIN topics THEN topics[t] ELSE <<>>
Without(f, S) == Restrict(f, DOMAIN f \ S)
Put(t, subscribers) ==
  topics' = [u \in DOMAIN topics \cup {t} |-> IF u = t THEN subscribers ELSE topics[u]]
-----------------------------------------------------------------------------
\* add_topic and, one after the other, add_topics.
AddTopic(t) ==
  /\ held[t] = None /\ t \notin DOMAIN topics
  /\ Put(t, <<>>)
  /\ UNCHANGED <<table, held, multi, asked, missed, pushes>>

\* subscribe_multi and unsubscribe_multi, and the forms for one topic.
BeginSubscribe(c, T) ==
  /\ multi[c] = None /\ asked < MaxCalls
  /\ asked' = asked + 1
  /\ multi' = [multi EXCEPT ![c] = [seq |-> asked + 1, todo |-> T]]
  /\ UNCHANGED <<table, topics, held, missed, pushes>>

BeginUnsubscribe(c, T) ==
  /\ multi[c] = None /\ asked < MaxCalls
  /\ asked' = asked + 1
  /\ multi' = [multi EXCEPT ![c] = [seq |-> None, todo |-> T]]
  /\ UNCHANGED <<table, topics, held, missed, pushes>>

Locks(c, t) ==
  /\ multi[c] # None /\ t \in multi[c].todo /\ held[t] = None
  /\ multi' = [multi EXCEPT ![c] = IF @.todo = {t} THEN None
                                   ELSE [seq |-> @.seq, todo |-> @.todo \ {t}]]

Context(c, t) == [seq |-> multi[c].seq, next |-> 0]

\* A second subscription replaces the first.
Subscribe(c, t) ==
  /\ Locks(c, t) /\ multi[c].seq # None
  /\ Put(t, [d \in DOMAIN Subscribers(t) \cup {c} |->
               IF d = c THEN Context(c, t) ELSE Subscribers(t)[d]])
  /\ missed' = [missed EXCEPT ![t][c] = 0]
  /\ UNCHANGED <<table, held, asked, pushes>>

Unsubscribe(c, t) ==
  /\ Locks(c, t) /\ multi[c].seq = None
  /\ IF t \in DOMAIN topics THEN Put(t, Without(topics[t], {c})) ELSE UNCHANGED topics
  /\ UNCHANGED <<table, held, asked, missed, pushes>>
-----------------------------------------------------------------------------
\* publish_with_filter; the message serialises, and S are those the filter
\* lets through.
Publish(t, S) ==
  /\ held[t] = None /\ t \in DOMAIN topics /\ pushes < MaxPublish
  /\ held' = [held EXCEPT ![t] = [todo |-> S \cap DOMAIN topics[t], dead |-> {},
                                  lost |-> (S \cap DOMAIN topics[t]) \ live]]
  /\ pushes' = pushes + 1
  /\ UNCHANGED <<table, topics, multi, asked, missed>>

Frame(t, c) == [topic |-> t, seq |-> topics[t][c].seq, n |-> topics[t][c].next]

Send(t, c) ==
  /\ held[t] # None /\ c \in held[t].todo
  /\ topics' = [topics EXCEPT ![t][c].next = @ + 1]
  /\ held' = [held EXCEPT ![t].todo = @ \ {c},
                          ![t].dead = IF c \in live THEN @ ELSE @ \cup {c}]
  /\ IF c \in live /\ Len(queue[c]) < Capacity
     THEN queue' = [queue EXCEPT ![c] = Append(@, Frame(t, c))] /\ UNCHANGED missed
     ELSE missed' = [missed EXCEPT ![t][c] = @ + 1] /\ UNCHANGED queue
  /\ UNCHANGED <<live, heard, multi, asked, pushes>>

\* Mutant of Finish: the dead stay.
FinishKeeping(t) ==
  /\ held[t] # None /\ held[t].todo = {}
  /\ held' = [held EXCEPT ![t] = None]
  /\ UNCHANGED <<table, topics, multi, asked, missed, pushes>>

Finish(t) ==
  /\ held[t] # None /\ held[t].todo = {}
  /\ Put(t, Without(topics[t], held[t].dead))
  /\ held' = [held EXCEPT ![t] = None]
  /\ UNCHANGED <<table, multi, asked, missed, pushes>>
-----------------------------------------------------------------------------
Disconnect(c) ==
  /\ c \in live
  /\ live' = live \ {c}
  /\ queue' = [queue EXCEPT ![c] = <<>>]
  /\ UNCHANGED <<heard, topics, held, multi, asked, missed, pushes>>

Receive(c) ==
  /\ queue[c] # <<>>
  /\ heard' = [heard EXCEPT ![c] = Append(@, Head(queue[c]))]
  /\ queue' = [queue EXCEPT ![c] = Tail(@)]
  /\ UNCHANGED <<live, topics, held, multi, asked, missed, pushes>>
-----------------------------------------------------------------------------
Next == \/ \E t \in Topics :
             \/ AddTopic(t) \/ Finish(t)
             \/ \E S \in SUBSET Conns : Publish(t, S)
             \/ \E c \in Conns : Subscribe(c, t) \/ Unsubscribe(c, t) \/ Send(t, c)
        \/ \E c \in Conns, T \in SUBSET Topics \ {{}} :
             BeginSubscribe(c, T) \/ BeginUnsubscribe(c, T)
        \/ \E c \in Conns : Disconnect(c) \/ Receive(c)

Spec == Init /\ [][Next]_vars
-----------------------------------------------------------------------------
(* Properties *)

\* On every topic each subscription counts from zero, and a gap tells of frames
\* that a full queue lost, also when the connection subscribes again while
\* frames of its former subscription are still queued.
Stream(c) == heard[c] \o queue[c]
Mine(t, c) == {i \in DOMAIN Stream(c) :
                 Stream(c)[i].topic = t /\ Stream(c)[i].seq = topics[t][c].seq}
TopicGapsAreLosses ==
  \A t \in DOMAIN topics : \A c \in DOMAIN topics[t] \cap live :
    /\ \A i, j \in Mine(t, c) : i < j => Stream(c)[i].n < Stream(c)[j].n
    /\ Cardinality(Mine(t, c)) + missed[t][c] = topics[t][c].next

\* A publish takes the connections that were gone when it began, and that its
\* filter let through, off its topic.
TopicPurged ==
  \A t \in Topics : held[t] # None /\ held'[t] = None =>
    held[t].lost \cap DOMAIN topics'[t] = {}
================================================================================
