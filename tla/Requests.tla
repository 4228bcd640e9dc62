------------------------------- MODULE Requests -------------------------------
(***************************************************************************)
(* The two request protocols of one connection: the legacy frames of       *)
(* handle_message (session.rs) and the MCP frames of handle_mcp_frame and  *)
(* McpState (mcp.rs), up to the reply each handler gives (handler.rs,      *)
(* toolbox.rs), and the setup that decides which endpoints each protocol   *)
(* knows (server.rs).                                                      *)
(*                                                                         *)
(* A frame is what its parser makes of it; wording, schemas and the values *)
(* of parameters are left out.  Module Session has the loop around this.   *)
(***************************************************************************)
EXTENDS Naturals, Sequences, FiniteSets

CONSTANTS Endpoints,   \* endpoint codes
          Name,        \* endpoint -> its tool name; two may share one
          Allowed,     \* endpoint -> the roles it admits
          RoleSets,    \* the roles a connection may be given
          Unknown,     \* a code and a tool name nobody registered
          MaxInflight, \* max_inflight_requests
          MaxMessages, \* bound: messages of the peer
          None

VARIABLES
  stage,    \* "setup", "serving" or "ended"
  mcp_only, \* WsServerConfig::mcp_only
  handlers, \* the endpoints registered
  tools,    \* McpState::tools as a set, or None while MCP is off
  roles,    \* the connection's roles
  got,      \* the messages received, the n-th with n as its id or seq
  task,     \* message -> what its task is doing, or "none"
  replies   \* history: the frames sent, with the message each is due to

requests == <<stage, mcp_only, handlers, tools, roles, got, task, replies>>

Init == /\ stage = "setup" /\ mcp_only \in BOOLEAN
        /\ handlers = {} /\ tools = None
        /\ roles = {} /\ got = <<>> /\ task = <<>> /\ replies = <<>>
-----------------------------------------------------------------------------
(* Setup *)

\* add_handler; a second handler for a code panics.
AddHandler(e) ==
  /\ stage = "setup" /\ e \notin handlers
  /\ handlers' = handlers \cup {e}
  /\ UNCHANGED <<stage, mcp_only, tools, roles, got, task, replies>>

\* McpState::build fails on two handlers with one tool name.
Distinct(es) == \A d, e \in es : Name[d] = Name[e] => d = e

\* enable_mcp: the tools are those of the handlers registered so far; the list
\* is sorted by code, so the set tells all of it.
EnableMcp ==
  /\ stage = "setup" /\ Distinct(handlers)
  /\ tools' = handlers
  /\ UNCHANGED <<stage, mcp_only, handlers, roles, got, task, replies>>

\* listen_on / serve_with: validate_protocol_mode.
Serve ==
  /\ stage = "setup" /\ (mcp_only => tools # None)
  /\ stage' = "serving"
  /\ UNCHANGED <<mcp_only, handlers, tools, roles, got, task, replies>>
-----------------------------------------------------------------------------
(* What the peer may send *)

Lifecycle == {"initialize", "ping", "tools/list", "notifications/x", "other"}
Control == {"Ping", "Pong", "Close"}
RpcFrames ==
  [rpc : {"request"}, id : BOOLEAN, method : Lifecycle]
    \cup [rpc : {"request"}, id : BOOLEAN, method : {"tools/call"},
          name : {Name[e] : e \in Endpoints} \cup {Unknown, None}]
    \cup {[rpc |-> "invalid"]}
LegacyFrames == [method : Endpoints \cup {Unknown}]
Messages == RpcFrames \cup LegacyFrames \cup {[text |-> "garbage"]} \cup [control : Control]

IsRpc(m) == "rpc" \in DOMAIN m
IsLegacy(m) == m \in LegacyFrames
IsControl(m) == "control" \in DOMAIN m
-----------------------------------------------------------------------------
(* McpState *)

\* check_roles and roles_allowed.
Permitted(e, rs) == Allowed[e] \cap rs # {}

ToolsNamed(name) == {e \in tools : Name[e] = name}
ListedTools(rs) == {e \in tools : Permitted(e, rs)}

\* The answer to a call of a tool that is unknown or forbidden.
Refused(name) == [error |-> "INVALID_PARAMS", about |-> name]

\* route_tool_call: by_name, then the roles.
Callable(name, rs) == {e \in ToolsNamed(name) : Permitted(e, rs)}

\* route and route_tool_call: an action and its frame or endpoint.
Respond(frame) == [action |-> "respond", frame |-> frame]
Route(m, rs) ==
  CASE m.method \in {"initialize", "ping"} -> Respond([result |-> m.method])
    [] m.method = "notifications/x" -> [action |-> "ignore"]
    [] m.method = "tools/list" -> Respond([result |-> ListedTools(rs)])
    [] m.method = "tools/call" /\ m.name = None -> Respond([error |-> "INVALID_PARAMS"])
    [] m.method = "tools/call" /\ m.name # None /\ Callable(m.name, rs) = {} ->
         Respond(Refused(m.name))
    [] m.method = "tools/call" /\ m.name # None /\ Callable(m.name, rs) # {} ->
         [action |-> "call", endpoint |-> CHOOSE e \in Callable(m.name, rs) : TRUE]
    [] m.method = "other" -> Respond([error |-> "METHOD_NOT_FOUND"])
-----------------------------------------------------------------------------
(* handle_message: what becomes of message n *)

Live == {n \in DOMAIN task : task[n] \in {"before", "handler", "after"}}
Reply(n, envelope, to, frame) ==
  Append(replies, [by |-> n, envelope |-> envelope, to |-> to, frame |-> frame])
Send(n, envelope, to, frame) == replies' = Reply(n, envelope, to, frame)

\* acquire_request, the counter being the number of live tasks.
Free == Cardinality(Live) < MaxInflight

\* A request that passed every check takes a slot and becomes a task.
Start(n, envelope, busy) ==
  IF Free THEN task' = Append(task, "before") /\ UNCHANGED replies
          ELSE task' = Append(task, "none") /\ Send(n, envelope, n, [error |-> busy])

Keep == task' = Append(task, "none")

\* handle_mcp_frame.
McpFrame(m, n) ==
  /\ tools # None /\ IsRpc(m)
  /\ \/ m.rpc = "invalid" /\ Keep /\ Send(n, "rpc", None, [error |-> "INVALID_REQUEST"])
     \/ m.rpc = "request" /\ ~m.id /\ Keep /\ UNCHANGED replies
     \/ /\ m.rpc = "request" /\ m.id
        /\ LET routed == Route(m, roles)
           IN \/ routed.action = "respond" /\ Keep /\ Send(n, "rpc", n, routed.frame)
              \/ routed.action = "ignore" /\ Keep /\ UNCHANGED replies
              \/ routed.action = "call" /\ Start(n, "rpc", "server busy")

\* In MCP-only mode everything else, control frames too, is answered so.
NotMcp(m, n) ==
  /\ mcp_only /\ ~IsRpc(m)
  /\ Keep /\ Send(n, "rpc", None, [error |-> "INVALID_REQUEST"])

\* A text that is not a legacy request; a JSON-RPC frame while MCP is off is one.
Garbage(m, n) ==
  /\ ~mcp_only /\ ~IsLegacy(m) /\ ~IsControl(m) /\ (tools # None => ~IsRpc(m))
  /\ Keep /\ Send(n, "legacy", 0, [error |-> "BAD_REQUEST"])

\* Mutant of Admits: an endpoint that names no role is open to all.
AdmitsByDefault(e, rs) == Allowed[e] \subseteq rs
\* check_roles of a legacy request.
Admits(e, rs) == Permitted(e, rs)

Legacy(m, n) ==
  /\ ~mcp_only /\ IsLegacy(m)
  /\ \/ /\ m.method \notin handlers
        /\ Keep /\ Send(n, "legacy", n, [error |-> "NOT_IMPLEMENTED"])
     \/ /\ m.method \in handlers /\ ~Admits(m.method, roles)
        /\ Keep /\ Send(n, "legacy", n, [error |-> "FORBIDDEN"])
     \/ /\ m.method \in handlers /\ Admits(m.method, roles)
        /\ Start(n, "legacy", "TOO_MANY_REQUESTS")

PingPong(m, n) ==
  /\ ~mcp_only /\ IsControl(m) /\ m.control # "Close"
  /\ Keep /\ UNCHANGED replies

Receive(m) ==
  /\ stage = "serving" /\ Len(got) < MaxMessages
  /\ got' = Append(got, m)
  /\ LET n == Len(got) + 1
     IN McpFrame(m, n) \/ NotMcp(m, n) \/ Garbage(m, n) \/ Legacy(m, n) \/ PingPong(m, n)
  /\ UNCHANGED <<stage, mcp_only, handlers, tools, roles>>

\* A Close frame ends the loop, which drops every task where it waits.
Close ==
  /\ stage = "serving" /\ ~mcp_only
  /\ stage' = "ended"
  /\ task' = [n \in DOMAIN task |-> IF n \in Live THEN "dropped" ELSE task[n]]
  /\ UNCHANGED <<mcp_only, handlers, tools, roles, got, replies>>
-----------------------------------------------------------------------------
(* A request's task: hooks, handler, hooks, under request_timeout *)

Envelope(n) == IF IsRpc(got[n]) THEN "rpc" ELSE "legacy"
Move(n, to) == task' = [task EXCEPT ![n] = to]
kept == <<stage, mcp_only, handlers, tools, roles, got>>

BeforePasses(n) ==
  /\ stage = "serving" /\ task[n] = "before"
  /\ Move(n, "handler") /\ UNCHANGED <<replies, kept>>

\* A BeforeRequest hook rejects: a legacy error or a tool result with isError.
BeforeRejects(n) ==
  /\ stage = "serving" /\ task[n] = "before"
  /\ Move(n, "after")
  /\ Send(n, Envelope(n), n,
          IF Envelope(n) = "rpc" THEN [tool |-> "isError"] ELSE [error |-> "custom"])
  /\ UNCHANGED kept

\* encode_handler_response: how an outcome is told to a legacy peer ...
EncodedLegacy(outcome) ==
  CASE outcome = "ok" -> [result |-> "ok"]
    [] outcome = "bad params" -> [error |-> "BAD_REQUEST"]
    [] outcome = "public" -> [error |-> "custom"]
    [] outcome \in {"internal", "unserializable"} -> [error |-> "INTERNAL_ERROR"]

\* ... and by handle_mcp to an MCP peer: a public error is a tool result.
EncodedRpc(outcome) ==
  CASE outcome = "ok" -> [result |-> "ok"]
    [] outcome = "bad params" -> [error |-> "INVALID_PARAMS"]
    [] outcome = "public" -> [tool |-> "isError"]
    [] outcome \in {"internal", "unserializable"} -> [error |-> "INTERNAL_ERROR"]

\* handle / handle_mcp returns, having sent its frame with no await after it,
\* and responded is set.
Handled(n, outcome) ==
  /\ stage = "serving" /\ task[n] = "handler"
  /\ Move(n, "after")
  /\ IF outcome = "no response" THEN UNCHANGED replies
     ELSE Send(n, Envelope(n), n,
               IF Envelope(n) = "rpc" THEN EncodedRpc(outcome) ELSE EncodedLegacy(outcome))
  /\ UNCHANGED kept

AfterReturns(n) ==
  /\ stage = "serving" /\ task[n] = "after"
  /\ Move(n, "done") /\ UNCHANGED <<replies, kept>>

\* Mutant of Expire: responded is not asked.
ExpireAlways(n) ==
  /\ stage = "serving" /\ n \in Live
  /\ Move(n, "done")
  /\ Send(n, Envelope(n), n, [error |-> "timeout"])
  /\ UNCHANGED kept

\* request_timeout: the task is dropped at an await; the peer is told unless
\* the request was already answered.
Expire(n) ==
  /\ stage = "serving" /\ n \in Live
  /\ Move(n, "done")
  /\ IF task[n] = "after" THEN UNCHANGED replies
     ELSE Send(n, Envelope(n), n, [error |-> "timeout"])
  /\ UNCHANGED kept

\* set_roles, by a handler or by anyone who holds the connection.
SetRoles(rs) ==
  /\ stage = "serving" /\ rs # roles
  /\ roles' = rs
  /\ UNCHANGED <<stage, mcp_only, handlers, tools, got, task, replies>>
-----------------------------------------------------------------------------
Outcomes == {"ok", "bad params", "public", "internal", "unserializable", "no response"}

Next ==
  \/ EnableMcp \/ Serve \/ Close
  \/ \E e \in Endpoints : AddHandler(e)
  \/ \E m \in Messages : Receive(m)
  \/ \E rs \in RoleSets : SetRoles(rs)
  \/ \E n \in DOMAIN task :
       \/ BeforePasses(n) \/ BeforeRejects(n) \/ AfterReturns(n) \/ Expire(n)
       \/ \E o \in Outcomes : Handled(n, o)

Spec == Init /\ [][Next]_requests
-----------------------------------------------------------------------------
(* Properties *)

RepliesTo(n) == {i \in DOMAIN replies : replies[i].by = n}

\* Requests the peer can tell apart: a legacy frame, or a JSON-RPC one with id.
Addressed(n) == \/ IsLegacy(got[n]) /\ ~mcp_only
                \/ tools # None /\ IsRpc(got[n]) /\ got[n].rpc = "request" /\ got[n].id

\* However the checks, the hooks, the handler and the timeout race, a message
\* is answered at most once, and a request in its own protocol under its own id.
AnsweredInKind ==
  \A n \in DOMAIN got :
    /\ Cardinality(RepliesTo(n)) <= 1
    /\ Addressed(n) => \A i \in RepliesTo(n) :
                          replies[i].envelope = Envelope(n) /\ replies[i].to = n

\* A request that never became a task was answered on the spot, and a
\* notification never is: only a "notifications/" method may go without.
NoneLeftWaiting ==
  \A n \in DOMAIN got :
    task[n] = "none" =>
      (RepliesTo(n) = {} <=> \/ IsControl(got[n]) /\ ~mcp_only
                             \/ /\ tools # None /\ IsRpc(got[n]) /\ got[n].rpc = "request"
                                /\ (~got[n].id \/ got[n].method = "notifications/x"))

\* Whatever roles a connection gets, tools/list shows exactly the tools that
\* tools/call would dispatch, and a refusal does not tell whether the tool exists.
ListIsWhatCanBeCalled ==
  tools # None =>
    \A rs \in RoleSets :
      /\ \A e \in Endpoints :
           e \in ListedTools(rs) <=>
             Route([method |-> "tools/call", name |-> Name[e]], rs)
               = [action |-> "call", endpoint |-> e]
      /\ \A e \in tools : Refused(Name[e]) = [Refused(Unknown) EXCEPT !.about = Name[e]]

\* The two protocols agree on who may call an endpoint that both know.
ProtocolsAgree ==
  tools # None =>
    \A rs \in RoleSets : \A e \in tools : Admits(e, rs) <=> Callable(Name[e], rs) = {e}
================================================================================
