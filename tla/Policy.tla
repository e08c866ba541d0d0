------------------------------ MODULE Policy ------------------------------
(***************************************************************************)
(* The policy decision: the Rego rules of policy/bundle/mcp/platform.rego, *)
(* domain.rego and tool.rego over a data.json, and the input document that *)
(* app/middleware/opa_client.py builds for them.                           *)
(*                                                                         *)
(* A Rego complete rule is a set of bodies that must not produce two       *)
(* different values: OPA answers such a query with an error, which the     *)
(* gateway takes for a deny.  So a rule with several bodies is translated  *)
(* to the set of the values its bodies produce, and its default where that *)
(* set is empty.  The gateway queries all of data.mcp at once, hence every *)
(* rule is evaluated on every input, list or call; on a list input.tool    *)
(* and input.args are absent, and an expression over them is undefined.    *)
(*                                                                         *)
(* OPA loads bundle and data at its start and keeps no state: Answer       *)
(* evaluates one input after another on the same data.  Messages are       *)
(* reduced to the rule they come from.                                     *)
(***************************************************************************)
EXTENDS Integers, FiniteSets, Functions

CONSTANTS
    Configurations, \* data.json documents
    CallRequests,   \* [agent, roles, tool, args]: tool calls, raw arguments
    ListRequests,   \* [agent, roles, server]: list prefetches
    ServerOf,       \* registry: the server a tool call is addressed to
    PolicyArgs,     \* registry: ToolMeta.policy_args of each tool
    RoleOf,         \* registry: ToolMeta.required_role, "" for none
    Arguments,      \* argument records a caller may send
    NoTool          \* input.tool is absent

ASSUME PolicyAssumption ==
    /\ \A r \in CallRequests :
         /\ r = [agent |-> r.agent, roles |-> r.roles, tool |-> r.tool, args |-> r.args]
         /\ r.tool # NoTool
         /\ "amount" \in DOMAIN r.args /\ r.args["amount"].type = "number" =>
              r.args["amount"].value \in Int
    /\ \A r \in ListRequests :
         r = [agent |-> r.agent, roles |-> r.roles, server |-> r.server]
    /\ \A d \in Configurations :
         /\ NoTool \notin DOMAIN d.tools
         /\ "max_amount" \in DOMAIN d.limits => d.limits["max_amount"] \in Int

VARIABLES
    data,           \* the loaded data.json
    request,        \* what the gateway asks about, NoRequest between two
    doc             \* the data.mcp document OPA answers with

vars == <<data, request, doc>>

Post == "ledger_post_entry"
Update == "crm_update_customer"

-----------------------------------------------------------------------------
(* opa_client.py: what reaches the PDP.                                    *)

(* Variants named <operator>_<defect> are defects the runs must reject;    *)
(* nothing below uses them.                                                *)

(* project_args: the declared arguments only.                              *)
ProjectArgs(args, policy_args) == Restrict(args, DOMAIN args \cap policy_args)

(* build_input sends no argument unless it is told which are declared.     *)
BuildInput_NotTold(r) ==
    [agent |-> r.agent, roles |-> r.roles, tool |-> r.tool, server |-> ServerOf[r.tool],
     args |-> ProjectArgs(r.args, {})]
BuildInput(r) ==
    [agent |-> r.agent, roles |-> r.roles, tool |-> r.tool, server |-> ServerOf[r.tool],
     args |-> ProjectArgs(r.args, PolicyArgs[r.tool])]

BuildListInput(r) ==
    [agent |-> r.agent, roles |-> r.roles, tool |-> NoTool, server |-> r.server,
     args |-> [x \in {} |-> x]]

(* opa_pep.py, _visible: what of a cleared backend's tools a list shows.   *)
Shown_AnyRole(r, t) == ServerOf[t] = r.server
Shown(r, t) == ServerOf[t] = r.server /\ (RoleOf[t] = "" \/ RoleOf[t] \in r.roles)

IsCall(r) == "tool" \in DOMAIN r
Input(r) == IF IsCall(r) THEN BuildInput(r) ELSE BuildListInput(r)

-----------------------------------------------------------------------------
(* platform.rego                                                           *)

Known(d, i) == i.tool \in DOMAIN d.tools

Enforcement(d) ==
    IF d.agent_enforcement = "absent" THEN "audit" ELSE d.agent_enforcement

AgentTrusted_AnyKind(d, i) == i.agent.id \in d.allowed_agents \cup d.allowed_dynamic_client_ids
AgentTrusted(d, i) ==
    \/ i.agent.kind = "cimd" /\ i.agent.id \in d.allowed_agents
    \/ i.agent.kind = "dcr" /\ i.agent.id \in d.allowed_dynamic_client_ids

AgentOk(d, i) ==
    \/ Enforcement(d) = "audit"
    \/ Enforcement(d) = "allowlist" /\ AgentTrusted(d, i)

PlatformAllow(d, i) == Known(d, i) /\ AgentOk(d, i)

If(condition, value) == IF condition THEN {value} ELSE {}

PlatformDenyReasons(d, i) ==
    If(~Known(d, i) /\ i.tool # NoTool, "unknown tool")
    \cup If(Known(d, i) /\ Enforcement(d) \notin {"audit", "allowlist"}, "bad enforcement")
    \cup If(/\ Known(d, i) /\ Enforcement(d) = "allowlist"
            /\ ~AgentTrusted(d, i) /\ i.agent.id # "", "agent not allowed")
    \cup If(Known(d, i) /\ Enforcement(d) = "allowlist" /\ i.agent.id = "", "no agent")

-----------------------------------------------------------------------------
(* domain.rego                                                             *)

RoleFor_EveryRole(d, i, s) ==
    s \in DOMAIN d.server_roles /\ i.roles # {} /\ i.roles \subseteq d.server_roles[s]
RoleFor(d, i, s) ==
    s \in DOMAIN d.server_roles /\ i.roles \cap d.server_roles[s] # {}

DomainAllow_AnyServer(d, i) ==
    Known(d, i) /\ RoleFor(d, i, d.tools[i.tool].server)
DomainAllow(d, i) ==
    /\ Known(d, i)
    /\ d.tools[i.tool].server \in d.enabled_servers
    /\ RoleFor(d, i, d.tools[i.tool].server)

ServerEnabled(d, i) == i.server \in d.enabled_servers

ListAllow(d, i) == ServerEnabled(d, i) /\ RoleFor(d, i, i.server) /\ AgentOk(d, i)

ListReasons(d, i) ==
    If(ListAllow(d, i), "allowed")
    \cup If(~ServerEnabled(d, i), "not enabled")
    \cup If(/\ ServerEnabled(d, i) /\ Enforcement(d) = "allowlist"
            /\ ~AgentTrusted(d, i) /\ i.agent.id # "", "agent not allowed")
    \cup If(/\ ServerEnabled(d, i) /\ Enforcement(d) = "allowlist"
            /\ ~AgentTrusted(d, i) /\ i.agent.id = "", "no agent")
    \cup If(ServerEnabled(d, i) /\ Enforcement(d) \notin {"audit", "allowlist"},
            "bad enforcement")
    \cup If(ServerEnabled(d, i) /\ AgentOk(d, i) /\ ~RoleFor(d, i, i.server), "no app role")

-----------------------------------------------------------------------------
(* tool.rego                                                               *)

ConfiguredRole(d, i) == IF Known(d, i) THEN d.tools[i.tool].required_role ELSE ""

RoleOk(d, i) == ConfiguredRole(d, i) = "" \/ ConfiguredRole(d, i) \in i.roles

RequiredRole(d, i) == IF RoleOk(d, i) THEN "" ELSE ConfiguredRole(d, i)

Present(i, name) == name \in DOMAIN i.args
IsNumber(v) == v.type = "number"
IsString(v) == v.type = "string"
Abs(n) == IF n < 0 THEN -n ELSE n

(* max_amount and allowed_tiers of the loaded data; a comparison with one  *)
(* that is absent is undefined, so its body produces nothing.              *)
OverCap_Signed(d, i) ==
    /\ "max_amount" \in DOMAIN d.limits
    /\ i.args["amount"].value > d.limits["max_amount"]
OverCap(d, i) ==
    /\ "max_amount" \in DOMAIN d.limits
    /\ Abs(i.args["amount"].value) > d.limits["max_amount"]
OutsideTiers(d, i) ==
    /\ "allowed_tiers" \in DOMAIN d.limits
    /\ i.args["tier"].value \notin d.limits["allowed_tiers"]

ArgsOk(d, i) ==
    ~ \/ i.tool = Post /\ ~Present(i, "amount")
      \/ i.tool = Post /\ Present(i, "amount") /\ ~IsNumber(i.args["amount"])
      \/ i.tool = Post /\ Present(i, "amount") /\ IsNumber(i.args["amount"]) /\ OverCap(d, i)
      \/ i.tool = Update /\ ~Present(i, "tier")
      \/ i.tool = Update /\ Present(i, "tier") /\ ~IsString(i.args["tier"])
      \/ i.tool = Update /\ Present(i, "tier") /\ IsString(i.args["tier"]) /\ OutsideTiers(d, i)

ToolAllow(d, i) == RoleOk(d, i) /\ ArgsOk(d, i)

ArgsDenyReasons_CapOnly(d, i) ==
    If(/\ i.tool = Post /\ Present(i, "amount") /\ IsNumber(i.args["amount"])
       /\ OverCap(d, i), "amount exceeds the cap")
ArgsDenyReasons(d, i) ==
    If(i.tool = Post /\ ~Present(i, "amount"), "amount is required")
    \cup If(i.tool = Post /\ Present(i, "amount") /\ ~IsNumber(i.args["amount"]),
            "amount must be a number")
    \cup If(/\ i.tool = Post /\ Present(i, "amount") /\ IsNumber(i.args["amount"])
            /\ OverCap(d, i), "amount exceeds the cap")
    \cup If(i.tool = Update /\ ~Present(i, "tier"), "tier is required")
    \cup If(i.tool = Update /\ Present(i, "tier") /\ ~IsString(i.args["tier"]),
            "tier must be a string")
    \cup If(/\ i.tool = Update /\ Present(i, "tier") /\ IsString(i.args["tier"])
            /\ OutsideTiers(d, i), "tier not allowed")

-----------------------------------------------------------------------------
(* The decision and its explanation (platform.rego again).                 *)

Allow(d, i) == PlatformAllow(d, i) /\ DomainAllow(d, i) /\ ToolAllow(d, i)

Reasons_NoRoleGuard(d, i) ==
    If(Allow(d, i), "allowed")
    \cup If(~PlatformAllow(d, i), "platform layer")
    \cup If(PlatformAllow(d, i) /\ ~DomainAllow(d, i), "domain layer")
    \cup If(/\ PlatformAllow(d, i) /\ DomainAllow(d, i) /\ ~ToolAllow(d, i)
            /\ RequiredRole(d, i) # "", "tool layer: role")
    \cup If(/\ PlatformAllow(d, i) /\ DomainAllow(d, i) /\ ~ToolAllow(d, i)
            /\ ArgsDenyReasons(d, i) # {}, "tool layer: args")
Reasons(d, i) ==
    If(Allow(d, i), "allowed")
    \cup If(~PlatformAllow(d, i), "platform layer")
    \cup If(PlatformAllow(d, i) /\ ~DomainAllow(d, i), "domain layer")
    \cup If(/\ PlatformAllow(d, i) /\ DomainAllow(d, i) /\ ~ToolAllow(d, i)
            /\ RequiredRole(d, i) # "", "tool layer: role")
    \cup If(/\ PlatformAllow(d, i) /\ DomainAllow(d, i) /\ ~ToolAllow(d, i)
            /\ RequiredRole(d, i) = "" /\ ArgsDenyReasons(d, i) # {}, "tool layer: args")

Document(d, i) ==
    [allow |-> Allow(d, i), reason |-> Reasons(d, i),
     platform_deny_reason |-> PlatformDenyReasons(d, i),
     list_allow |-> ListAllow(d, i), list_reason |-> ListReasons(d, i),
     required_role |-> RequiredRole(d, i), args_deny_reason |-> ArgsDenyReasons(d, i)]

NoRequest == [kind |-> "none"]
NoDocument == [kind |-> "none"]

Init ==
    /\ data \in Configurations
    /\ request = NoRequest
    /\ doc = NoDocument

(* OPA answers one query.                                                  *)
Answer ==
    /\ request = NoRequest
    /\ request' \in CallRequests \cup ListRequests
    /\ doc' = Document(data, Input(request'))
    /\ UNCHANGED data

(* The gateway has the answer; nothing of it stays at OPA.                 *)
Forget ==
    /\ request # NoRequest
    /\ request' = NoRequest
    /\ doc' = NoDocument
    /\ UNCHANGED data

Next == Answer \/ Forget

Spec == Init /\ [][Next]_vars
-----------------------------------------------------------------------------
(* What registry.py, data.json and tool.rego have in common.  No code of   *)
(* the gateway enforces it; gateway-fastmcp/tests does.                    *)

(* The registry declares the arguments the rules of its tools read:        *)
(* test_args_projection.py:97-114.                                         *)
Declared == "amount" \in PolicyArgs[Post] /\ "tier" \in PolicyArgs[Update]

(* Registry and data.json give a tool the same server and the same role:   *)
(* test_registry_policy_agreement.py:34-52.                                *)
SameServer == \A d \in Configurations : \A t \in DOMAIN d.tools : d.tools[t].server = ServerOf[t]
SameRole == \A d \in Configurations : \A t \in DOMAIN d.tools : d.tools[t].required_role = RoleOf[t]

(* There are arguments the constraints on a tool accept.                   *)
Satisfiable ==
    \A d \in Configurations : \A t \in DOMAIN d.tools : \E args \in Arguments :
      ArgsOk(d, [tool |-> t, args |-> ProjectArgs(args, PolicyArgs[t])])

-----------------------------------------------------------------------------
(* Properties of an answer.                                                *)

Answered == request # NoRequest
AnsweredCall == Answered /\ IsCall(request)

(* No complete rule ever produces two values, so OPA never answers with a  *)
(* conflict error, which would turn every decision on the input to a deny. *)
NoConflict ==
    Answered =>
      \A values \in {doc.reason, doc.platform_deny_reason, doc.list_reason, doc.args_deny_reason} :
        Cardinality(values) <= 1

(* The reason of a denial, which is what the audit row and the user get,   *)
(* is never the bare default "denied", down to the argument at fault; a    *)
(* user who is granted the role it names is not told to get it again.      *)
EveryDenialExplained ==
    Answered =>
      IF IsCall(request)
      THEN /\ doc.reason # {}
           /\ doc.reason = {"platform layer"} => doc.platform_deny_reason # {}
           /\ doc.reason = {"tool layer: args"} => doc.args_deny_reason # {}
           /\ doc.required_role # "" =>
                RequiredRole(data, Input([request EXCEPT !.roles = @ \cup {doc.required_role}])) = ""
      ELSE doc.list_reason # {}

(* Granting a user one more app role never takes away what was allowed.    *)
AppRoles ==
    UNION Range(data.server_roles) \cup {data.tools[t].required_role : t \in DOMAIN data.tools}
MoreRolesNeverDeny ==
    Answered =>
      \A role \in AppRoles :
        LET more == Input([request EXCEPT !.roles = @ \cup {role}])
        IN  /\ doc.allow => Allow(data, more)
            /\ doc.list_allow => ListAllow(data, more)

(* The list path and the call path agree: a tool a principal may call is   *)
(* on a backend tools/list mints a token for.  Holds because registry and  *)
(* data.json name the same server for each tool.                           *)
CallableIsListed ==
    AnsweredCall /\ doc.allow =>
      ListAllow(data, BuildListInput([agent |-> request.agent, roles |-> request.roles,
                                      server |-> ServerOf[request.tool]]))

(* ... and a tool tools/list shows is one the principal may call, with     *)
(* some arguments: the filter of the gateway, which knows the registry,    *)
(* and three layers of rules, which know data.json, do not contradict each *)
(* other.  For the tools both of them know.                                *)
ShownIsCallable ==
    Answered /\ ~IsCall(request) /\ doc.list_allow =>
      \A t \in DOMAIN data.tools : Shown(request, t) =>
        \E args \in Arguments :
          Allow(data, BuildInput([agent |-> request.agent, roles |-> request.roles,
                                  tool |-> t, args |-> args]))

(* With the allowlist on, an agent that is not on the list of its own kind *)
(* gets no tool and no list token (domain.rego:35-38): a self-registered   *)
(* id has no place among the verified URLs, even if somebody lists it      *)
(* there.  With an unknown mode nobody gets anything.                      *)
UnapprovedAgentGetsNothing ==
    /\ Answered
    /\ data.agent_enforcement \notin {"absent", "audit"}
    /\ doc.allow \/ doc.list_allow
    =>
        /\ data.agent_enforcement = "allowlist"
        /\ <<request.agent.kind, request.agent.id>> \in
             ({"cimd"} \X data.allowed_agents) \cup ({"dcr"} \X data.allowed_dynamic_client_ids)

(* What the user really sent, not its projection, meets the constraint of  *)
(* the tool on every allowed call: an absent, mistyped or out-of-range     *)
(* argument is denied in either direction, as long as data.json sets the   *)
(* limit.                                                                  *)
ArgumentsFailClosed ==
    AnsweredCall /\ doc.allow =>
      /\ request.tool = Post =>
           /\ "amount" \in DOMAIN request.args /\ request.args["amount"].type = "number"
           /\ "max_amount" \in DOMAIN data.limits =>
                request.args["amount"].value \in -data.limits["max_amount"] .. data.limits["max_amount"]
      /\ request.tool = Update =>
           /\ "tier" \in DOMAIN request.args /\ request.args["tier"].type = "string"
           /\ "allowed_tiers" \in DOMAIN data.limits =>
                request.args["tier"].value \in data.limits["allowed_tiers"]

(* Only declared arguments reach the PDP, and they are all it needs: the   *)
(* decision is the one the full arguments would get.                       *)
ProjectionSuffices ==
    AnsweredCall =>
      /\ DOMAIN Input(request).args \subseteq PolicyArgs[request.tool]
      /\ doc.allow <=> Allow(data, [Input(request) EXCEPT !.args = request.args])
=============================================================================
