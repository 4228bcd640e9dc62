--------------------------------- MODULE Subs ---------------------------------
(***************************************************************************)
(* src/libs/ws/subs.rs: SubscriptionManager, and the part of the server it *)
(* meets: the table of connections and their bounded outbound queues.  The *)
(* manager is behind &mut self, so its operations exclude one another, but *)
(* a publish sends to one connection at a time while connections come and  *)
(* go: Toolbox::send is false only for one that is not in the table.       *)
(***************************************************************************)
EXTENDS Naturals, Sequences, FiniteSets, Functions

CONSTANTS Conns,      \* connection ids, never used twice
          Keys,       \* routing keys
          Capacity,   \* depth of a connection's outbound queue
          MaxSubs,    \* bound: subscribe requests
          MaxPublish, \* bound: publishes
          None

VARIABLES
  live,       \* the connections in the table
  queue,      \* frames queued for each connection
  heard,      \* frames each peer has received
  subscribes, \* connection -> the request that subscribed, and stream_seq
  mappings,   \* key -> connections
  job,        \* the publish in progress, or None
  \* history
  requests,   \* subscribe requests so far, which number their ctx.seq
  lost,       \* frames each subscription lost to a full queue
  published,  \* publishes so far
  strays,     \* unsubscribed by an unsubscribe_with that did not name all their keys
  gone        \* connections that were not in the table when the publish began

vars == <<live, queue, heard, subscribes, mappings, job, requests, lost, published,
          strays, gone>>
table == <<live, queue, heard>>

Init == /\ live = Conns
        /\ queue = [c \in Conns |-> <<>>] /\ heard = [c \in Conns |-> <<>>]
        /\ subscribes = <<>> /\ mappings = <<>>
        /\ job = None
        /\ requests = 0 /\ lost = [c \in Conns |-> 0]
        /\ published = 0 /\ strays = {} /\ gone = {}

Subscribed == DOMAIN subscribes
Without(f, S) == Restrict(f, DOMAIN f \ S)
-----------------------------------------------------------------------------
(* Subscribing *)

\* or_insert_with: an existing entry keeps its context and its count.
Entry(c, seq) == IF c \in Subscribed THEN subscribes[c] ELSE [seq |-> seq, next |-> 0]

\* subscribe, subscribe_with_keys and subscribe_with.
Subscribe(c, keys) ==
  /\ job = None /\ requests < MaxSubs
  /\ requests' = requests + 1
  /\ subscribes' = [d \in Subscribed \cup {c} |->
                      IF d = c THEN Entry(c, requests + 1) ELSE subscribes[d]]
  /\ lost' = IF c \in Subscribed THEN lost ELSE [lost EXCEPT ![c] = 0]
  /\ mappings' = [k \in DOMAIN mappings \cup keys |->
                    (IF k \in DOMAIN mappings THEN mappings[k] ELSE {})
                      \cup (IF k \in keys THEN {c} ELSE {})]
  /\ strays' = strays \ {c}
  /\ UNCHANGED <<table, job, published, gone>>

\* Mutant of Unsubscribed: the keys keep the connection.
UnsubscribedKeysKept(S) == /\ subscribes' = Without(subscribes, S)
                           /\ strays' = strays \ S
                           /\ UNCHANGED mappings

\* unsubscribe of every connection in S; the key sets may become empty.
Unsubscribed(S) == /\ subscribes' = Without(subscribes, S)
                   /\ mappings' = [k \in DOMAIN mappings |-> mappings[k] \ S]
                   /\ strays' = strays \ S

Unsubscribe(c) == /\ job = None
                  /\ Unsubscribed({c})
                  /\ UNCHANGED <<table, job, requests, lost, published, gone>>

\* The caller's closure says whether to remove the subscription and from which
\* keys to take the connection.  Neither answer is checked against the other: a
\* closure that removes the subscription and names too few keys leaves the
\* connection astray in the rest.
UnsubscribeWith(c, remove, keys) ==
  /\ job = None /\ c \in Subscribed
  /\ strays' = IF remove /\ \E k \in DOMAIN mappings \ keys : c \in mappings[k]
               THEN strays \cup {c} ELSE strays
  /\ subscribes' = IF remove THEN Without(subscribes, {c}) ELSE subscribes
  /\ mappings' = LET emptied == {k \in DOMAIN mappings : k \in keys /\ mappings[k] \subseteq {c}}
                 IN [k \in DOMAIN mappings \ emptied |->
                       IF k \in keys THEN mappings[k] \ {c} ELSE mappings[k]]
  /\ UNCHANGED <<table, job, requests, lost, published, gone>>
-----------------------------------------------------------------------------
(* Publishing.  job.keys are the keys still to look up, job.todo the         *)
(* connections still to send to, job.done those this call has dealt with,   *)
(* job.tried those it has sent to, job.dead those whose send failed.        *)
(* publish_to drops a dead connection at once, publish_with_filter after    *)
(* its loop.                                                                *)

Start(keys, todo, filtered) ==
  /\ job = None /\ published < MaxPublish
  /\ job' = [keys |-> keys, todo |-> todo, done |-> {}, tried |-> {}, dead |-> {},
             filtered |-> filtered]
  /\ published' = published + 1
  /\ gone' = Conns \ live
  /\ UNCHANGED <<table, subscribes, mappings, requests, lost, strays>>

PublishTo(c) == Start(<<>>, {c}, FALSE)
\* publish_to_key is publish_to_keys of one key.
PublishToKeys(keys) == Start(keys, {}, FALSE)
\* The filter picks the subscribers; publish_to_all picks all.
PublishWithFilter(S) == Start(<<>>, Subscribed \cap S, TRUE)

Fresh(k) == mappings[k] \ job.done

NextKey ==
  /\ job # None /\ job.todo = {} /\ job.keys # <<>>
  /\ LET k == Head(job.keys) IN
     job' = [job EXCEPT !.keys = Tail(@),
                        !.todo = IF k \in DOMAIN mappings THEN Fresh(k) ELSE {}]
  /\ UNCHANGED <<table, subscribes, mappings, requests, lost, published, strays, gone>>

Frame(c) == [seq |-> subscribes[c].seq, n |-> subscribes[c].next, p |-> published]
Done(c, dead) == job' = [job EXCEPT !.todo = @ \ {c}, !.done = @ \cup {c},
                                    !.tried = @ \cup {c}, !.dead = @ \cup dead]
Numbered(c) == subscribes' = [subscribes EXCEPT ![c].next = @ + 1]

\* The number is taken before the send; a full queue drops the frame, and
\* Toolbox::send is true all the same.
Send(c) ==
  /\ job # None /\ c \in job.todo /\ c \in Subscribed /\ c \in live
  /\ Done(c, {})
  /\ Numbered(c)
  /\ IF Len(queue[c]) < Capacity
     THEN queue' = [queue EXCEPT ![c] = Append(@, Frame(c))] /\ UNCHANGED lost
     ELSE lost' = [lost EXCEPT ![c] = @ + 1] /\ UNCHANGED queue
  /\ UNCHANGED <<live, heard, mappings, requests, published, strays, gone>>

SendDead(c) ==
  /\ job # None /\ c \in job.todo /\ c \in Subscribed /\ c \notin live
  /\ IF job.filtered THEN Done(c, {c}) /\ Numbered(c) /\ UNCHANGED <<mappings, strays>>
                     ELSE Done(c, {}) /\ Unsubscribed({c})
  /\ UNCHANGED <<table, requests, lost, published, gone>>

\* Not subscribed, or the data does not serialise: no number is taken.
Skip(c) ==
  /\ job # None /\ c \in job.todo
  /\ job' = [job EXCEPT !.todo = @ \ {c}, !.done = @ \cup {c}]
  /\ UNCHANGED <<table, subscribes, mappings, requests, lost, published, strays, gone>>

Finish ==
  /\ job # None /\ job.todo = {} /\ job.keys = <<>>
  /\ Unsubscribed(job.dead)
  /\ job' = None
  /\ UNCHANGED <<table, requests, lost, published, gone>>
-----------------------------------------------------------------------------
(* The rest of the server *)

Disconnect(c) ==
  /\ c \in live
  /\ live' = live \ {c}
  /\ queue' = [queue EXCEPT ![c] = <<>>]
  /\ UNCHANGED <<heard, subscribes, mappings, job, requests, lost, published, strays, gone>>

Receive(c) ==
  /\ queue[c] # <<>>
  /\ heard' = [heard EXCEPT ![c] = Append(@, Head(queue[c]))]
  /\ queue' = [queue EXCEPT ![c] = Tail(@)]
  /\ UNCHANGED <<live, subscribes, mappings, job, requests, lost, published, strays, gone>>
-----------------------------------------------------------------------------
KeyLists == {<<>>} \cup {<<k>> : k \in Keys} \cup {<<k, l>> : k, l \in Keys}

Next ==
  \/ \E c \in Conns :
       \/ \E keys \in SUBSET Keys :
            Subscribe(c, keys) \/ \E remove \in BOOLEAN : UnsubscribeWith(c, remove, keys)
       \/ Unsubscribe(c) \/ PublishTo(c)
       \/ Send(c) \/ SendDead(c) \/ Skip(c)
       \/ Disconnect(c) \/ Receive(c)
  \/ \E keys \in KeyLists : PublishToKeys(keys)
  \/ \E S \in SUBSET Conns : PublishWithFilter(S)
  \/ NextKey \/ Finish

Spec == Init /\ [][Next]_vars
-----------------------------------------------------------------------------
(* Properties *)

TypeOK ==
  /\ live \subseteq Conns /\ gone \subseteq Conns /\ strays \subseteq Conns
  /\ \A c \in Conns : Len(queue[c]) <= Capacity
  /\ requests \in 0..MaxSubs
  /\ Subscribed \subseteq Conns /\ DOMAIN mappings \subseteq Keys
  /\ \A c \in Subscribed : subscribes[c].seq \in 1..requests
  /\ published \in 0..MaxPublish

\* A key leads to a connection without a subscription only where the closure of
\* an unsubscribe_with left it astray, whatever mixture of unsubscribing, removal
\* of dead connections and publishing came before: the next subscription of the
\* connection inherits such a key without having asked for it.
KeysAreSubscribed == \A k \in DOMAIN mappings : mappings[k] \subseteq Subscribed \cup strays

\* Gaps tell of losses: of the numbers a live subscription has used, each is on
\* its way or received exactly once, in order, except those a full queue lost.
Stream(c) == heard[c] \o queue[c]
Mine(c) == {i \in DOMAIN Stream(c) : Stream(c)[i].seq = subscribes[c].seq}
GapsAreLosses ==
  \A c \in Subscribed \cap live :
    /\ \A i, j \in Mine(c) : i < j => Stream(c)[i].n < Stream(c)[j].n
    /\ Cardinality(Mine(c)) + lost[c] = subscribes[c].next

\* One publish sends a connection one frame, in however many of the keys it is.
OncePerPublish ==
  \A c \in Conns : \A i, j \in DOMAIN Stream(c) :
    Stream(c)[i].p = Stream(c)[j].p => i = j

\* What the subscriptions of a manager promise their holders.
SubscriptionsExact == TypeOK /\ KeysAreSubscribed /\ GapsAreLosses /\ OncePerPublish

\* A publish leaves no subscription of a connection that was gone when it
\* began and that it sent to: nothing else ever removes those.
PublishPurges ==
  job # None /\ job' = None => DOMAIN subscribes' \cap gone \cap job.tried = {}
================================================================================
