------------------------------ MODULE MCServices ------------------------------
(***************************************************************************)
(* The services of the library that share nothing but the process, each    *)
(* on its own: the two publishers, the error aggregation and the scheduler.*)
(* The initial state says which of them a behaviour is about.              *)
(***************************************************************************)
EXTENDS Scheduler, Sequences, TLC

CONSTANTS Conns, Keys, Topics, Capacity, MaxSubs, MaxCalls, MaxPublish,
          Threads, Texts, Pattern, Limit, MaxTime, MaxEvents, None

ASSUME ServicesAssumption ==
  /\ Capacity \in Nat /\ MaxSubs \in Nat /\ MaxCalls \in Nat /\ MaxPublish \in Nat
  /\ Limit \in Nat /\ MaxTime \in Nat /\ MaxEvents \in Nat
  /\ None \notin Nat
  /\ None \notin [text : Texts, time : Nat]
  /\ None \notin [keys : Seq(Keys), todo : SUBSET Conns, done : SUBSET Conns,
                  tried : SUBSET Conns, dead : SUBSET Conns, filtered : BOOLEAN]
  /\ None \notin [seq : Nat \cup {None}, todo : SUBSET Topics]
  /\ None \notin [todo : SUBSET Conns, dead : SUBSET Conns, lost : SUBSET Conns]

VARIABLES service,
          live, queue, heard,
          subscribes, mappings, job, requests, lost, published, strays, gone,
          topics, held, multi, asked, missed, pushes,
          clock, stamped, channel, storage, task, logged, refused, forgotten

U == INSTANCE Subs
H == INSTANCE Push
E == INSTANCE ErrorAggregation

table == <<live, queue, heard>>
subs == <<subscribes, mappings, job, requests, lost, published, strays, gone>>
push == <<topics, held, multi, asked, missed, pushes>>
errors == <<clock, stamped, channel, storage, task, logged, refused, forgotten>>
all == <<service, vars, table, subs, push, errors>>

MCPattern == "a1" :> "a" @@ "a2" :> "a" @@ "b" :> "b" @@ "c" :> "c"
MCTexts == DOMAIN MCPattern

AllInit == /\ service \in {"subs", "push", "errors", "jobs"}
           /\ U!Init /\ H!Init /\ E!Init /\ Init
           /\ IF service = "jobs" THEN TRUE
              ELSE period = [j \in Jobs |-> CHOOSE d \in Periods : TRUE]

AllNext ==
  \/ service = "subs" /\ U!Next /\ UNCHANGED <<service, vars, push, errors>>
  \/ service = "push" /\ H!Next /\ UNCHANGED <<service, vars, subs, errors>>
  \/ service = "errors" /\ E!Next /\ UNCHANGED <<service, vars, table, subs, push>>
  \/ service = "jobs" /\ Next /\ UNCHANGED <<service, table, subs, push, errors>>

AllSpec == AllInit /\ [][AllNext]_all /\ Fairness

-----------------------------------------------------------------------------
\* Both publishers: gaps in the numbers are losses to a full queue.  In
\* SubscriptionManager, a key leads to someone without a subscription only where
\* the closure of an unsubscribe_with did not name it, and a publish sends a
\* connection one frame.
SubscriptionsExact == /\ service = "subs" => U!SubscriptionsExact
                      /\ service = "push" => H!TopicGapsAreLosses

\* Both publishers: the step that ends a publish has taken off the dead
\* connections it met.
DeadArePurged == [][U!PublishPurges /\ H!TopicPurged]_all

\* The error aggregation: the map is bounded and every error is counted.
StoreExact == E!StoreExact

\* The error aggregation: an error that was just folded in is in the map.
NewestIsKept == E!NewestIsKept
================================================================================
