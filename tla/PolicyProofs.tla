--------------------------- MODULE PolicyProofs ---------------------------
(***************************************************************************)
(* Theorems about the policy bundle, for every data.json, every agent,     *)
(* every set of roles and every argument a caller may send:                *)
(*   ConflictCorrect      no rule answers with two values                  *)
(*   ExplainedCorrect     every denial has a reason                        *)
(*   RolesCorrect         roles only ever help                             *)
(*   AgentCorrect         an unapproved agent gets nothing                 *)
(*   ArgumentsCorrect     what is allowed meets the limits                 *)
(*   ProjectionCorrect    the declared arguments suffice                   *)
(*   ListedCorrect        what may be called is on a list                  *)
(*   ShownCorrect         what is on a list may be called                  *)
(* The last three have premises of Policy.tla: that the registry declares  *)
(* the arguments the rules read, and that registry and data.json agree.    *)
(***************************************************************************)
EXTENDS Policy, TLAPS, FiniteSetTheorems

-----------------------------------------------------------------------------
(* The document is always the one of the request that was asked.           *)

Truth ==
    /\ data \in Configurations
    /\ Answered => /\ request \in CallRequests \cup ListRequests
                   /\ doc = Document(data, Input(request))

LEMMA TruthAlways == Spec => []Truth
<1>1. Init => Truth
  BY DEF Init, Truth, Answered
<1>2. Truth /\ [Next]_vars => Truth'
  BY DEF Truth, Answered, Next, Answer, Forget, vars
<1> QED  BY <1>1, <1>2, PTL DEF Spec

(* What the PDP is told of a call and of a list.                           *)
LEMMA CallInput ==
    ASSUME NEW r \in CallRequests
    PROVE  /\ IsCall(r)
           /\ Input(r) = [agent |-> r.agent, roles |-> r.roles, tool |-> r.tool,
                          server |-> ServerOf[r.tool],
                          args |-> ProjectArgs(r.args, PolicyArgs[r.tool])]
           /\ r.tool # NoTool
  BY PolicyAssumption DEF IsCall, Input, BuildInput

LEMMA ListInput ==
    ASSUME NEW r \in ListRequests
    PROVE  /\ ~IsCall(r)
           /\ Input(r) = BuildListInput(r)
  BY PolicyAssumption DEF IsCall, Input

(* One more role changes nothing else of the input.                        *)
More(r, role) == Input([r EXCEPT !.roles = @ \cup {role}])

LEMMA MoreInput ==
    ASSUME NEW r \in CallRequests \cup ListRequests, NEW role
    PROVE  /\ More(r, role).agent = Input(r).agent
           /\ More(r, role).tool = Input(r).tool
           /\ More(r, role).server = Input(r).server
           /\ More(r, role).args = Input(r).args
           /\ More(r, role).roles = Input(r).roles \cup {role}
<1> DEFINE s == [r EXCEPT !.roles = @ \cup {role}]
<1>1. CASE r \in CallRequests
  <2>1. s = [agent |-> r.agent, roles |-> r.roles \cup {role}, tool |-> r.tool,
             args |-> r.args]
    BY <1>1, PolicyAssumption
  <2>2. Input(s) = BuildInput(s) /\ Input(r) = BuildInput(r)
    BY <1>1, <2>1, CallInput DEF Input, IsCall
  <2> QED  BY <2>1, <2>2 DEF BuildInput, More
<1>2. CASE r \in ListRequests
  <2>0. PICK a, rs, sv : r = [agent |-> a, roles |-> rs, server |-> sv]
    BY <1>2, PolicyAssumption
  <2>1. s = [agent |-> r.agent, roles |-> r.roles \cup {role}, server |-> r.server]
    BY <2>0
  <2>2. Input(s) = BuildListInput(s) /\ Input(r) = BuildListInput(r)
    BY <1>2, <2>1, ListInput DEF Input, IsCall
  <2>3. PICK none : none = [x \in {} |-> x]
    OBVIOUS
  <2>4. /\ Input(r) = [agent |-> r.agent, roles |-> r.roles, tool |-> NoTool,
                       server |-> r.server, args |-> none]
        /\ More(r, role) = [agent |-> r.agent, roles |-> r.roles \cup {role}, tool |-> NoTool,
                            server |-> r.server, args |-> none]
    BY <2>1, <2>2, <2>3 DEF BuildListInput, More
  <2> QED  BY <2>4
<1> QED  BY <1>1, <1>2

-----------------------------------------------------------------------------
(* The bodies of a complete rule exclude each other.                       *)

LEMMA AtMostOne ==
    ASSUME NEW S, \A v, w \in S : v = w
    PROVE  Cardinality(S) <= 1
<1>1. CASE S = {}
  BY <1>1, FS_EmptySet
<1>2. CASE S # {}
  <2>1. PICK v : S = {v}
    BY <1>2
  <2> QED  BY <2>1, FS_Singleton
<1> QED  BY <1>1, <1>2

LEMMA BodiesExclude ==
    ASSUME NEW d, NEW i
    PROVE  /\ \A v, w \in Reasons(d, i) : v = w
           /\ \A v, w \in PlatformDenyReasons(d, i) : v = w
           /\ \A v, w \in ListReasons(d, i) : v = w
           /\ \A v, w \in ArgsDenyReasons(d, i) : v = w
<1>1. \A v, w \in Reasons(d, i) : v = w
  BY DEF Reasons, If, Allow
<1>2. \A v, w \in PlatformDenyReasons(d, i) : v = w
  BY DEF PlatformDenyReasons, If
<1>3. \A v, w \in ListReasons(d, i) : v = w
  BY DEF ListReasons, If, ListAllow, AgentOk
<1>4. \A v, w \in ArgsDenyReasons(d, i) : v = w
  BY DEF ArgsDenyReasons, If, Post, Update
<1> QED  BY <1>1, <1>2, <1>3, <1>4

(* OPA never answers with a conflict, whatever data.json says.             *)
THEOREM ConflictCorrect == Spec => []NoConflict
<1>1. Truth => NoConflict
  BY BodiesExclude, AtMostOne DEF Truth, Document, NoConflict
<1> QED  BY <1>1, TruthAlways, PTL

-----------------------------------------------------------------------------
(* A denial has a reason, down to the rule and the argument at fault.      *)
LEMMA DenialReasons ==
    ASSUME NEW d, NEW i
    PROVE  /\ Reasons(d, i) # {}
           /\ Reasons(d, i) = {"platform layer"} /\ i.tool # NoTool =>
                PlatformDenyReasons(d, i) # {}
           /\ Reasons(d, i) = {"tool layer: args"} => ArgsDenyReasons(d, i) # {}
           /\ ListReasons(d, i) # {}
<1>1. ~ArgsOk(d, i) => ArgsDenyReasons(d, i) # {}
  BY DEF ArgsOk, ArgsDenyReasons, If
<1>2. Reasons(d, i) # {}
  <2>1. ~ToolAllow(d, i) /\ RequiredRole(d, i) = "" => ArgsDenyReasons(d, i) # {}
    BY <1>1 DEF ToolAllow, RequiredRole, RoleOk
  <2> QED  BY <2>1 DEF Reasons, If, Allow
<1>3. ASSUME ~PlatformAllow(d, i), i.tool # NoTool
      PROVE  PlatformDenyReasons(d, i) # {}
  BY <1>3 DEF PlatformAllow, PlatformDenyReasons, If, AgentOk
<1>4. Reasons(d, i) = {"platform layer"} => ~PlatformAllow(d, i)
  BY DEF Reasons, If, Allow
<1>5. Reasons(d, i) = {"tool layer: args"} => ArgsDenyReasons(d, i) # {}
  BY DEF Reasons, If, Allow
<1>6. ListReasons(d, i) # {}
  BY DEF ListReasons, ListAllow, AgentOk, If
<1> QED  BY <1>2, <1>3, <1>4, <1>5, <1>6

(* Every denial is explained, and a role that is asked for is enough.      *)
THEOREM ExplainedCorrect == Spec => []EveryDenialExplained
<1>1. Truth => EveryDenialExplained
  <2> SUFFICES ASSUME Truth, Answered PROVE EveryDenialExplained
    BY DEF EveryDenialExplained
  <2>1. /\ doc = Document(data, Input(request))
        /\ request \in CallRequests \cup ListRequests
    BY DEF Truth
  <2>2. /\ doc.reason # {} /\ doc.list_reason # {}
        /\ doc.reason = {"tool layer: args"} => doc.args_deny_reason # {}
        /\ doc.reason = {"platform layer"} /\ IsCall(request) =>
             doc.platform_deny_reason # {}
    BY <2>1, DenialReasons, CallInput, ListInput DEF Document
  <2>3. ASSUME doc.required_role # ""
        PROVE  RequiredRole(data, Input([request EXCEPT !.roles = @ \cup {doc.required_role}]))
                 = ""
    <3>1. doc.required_role = ConfiguredRole(data, Input(request))
      BY <2>1, <2>3 DEF Document, RequiredRole
    <3> DEFINE i == Input(request)
               more == More(request, doc.required_role)
    <3>2. more.tool = i.tool /\ doc.required_role \in more.roles
      BY <2>1, MoreInput
    <3> HIDE DEF i, more
    <3>3. ConfiguredRole(data, more) = ConfiguredRole(data, i)
      BY <3>2 DEF ConfiguredRole, Known
    <3>4. RequiredRole(data, more) = ""
      BY <3>1, <3>2, <3>3 DEF RequiredRole, RoleOk, i
    <3> QED  BY <3>4 DEF more, More
  <2> QED  BY <2>2, <2>3 DEF EveryDenialExplained
<1> QED  BY <1>1, TruthAlways, PTL

(* Roles are only ever asked for, never against.                           *)
THEOREM RolesCorrect == Spec => []MoreRolesNeverDeny
<1>1. Truth => MoreRolesNeverDeny
  <2> SUFFICES ASSUME Truth, Answered, NEW role \in AppRoles
               PROVE  LET more == Input([request EXCEPT !.roles = @ \cup {role}])
                      IN  /\ doc.allow => Allow(data, more)
                          /\ doc.list_allow => ListAllow(data, more)
    BY DEF MoreRolesNeverDeny
  <2> DEFINE i == Input(request)
             more == More(request, role)
  <2>1. /\ more.agent = i.agent /\ more.tool = i.tool /\ more.server = i.server
        /\ more.args = i.args /\ more.roles = i.roles \cup {role}
    <3>1. request \in CallRequests \cup ListRequests
      BY DEF Truth
    <3> QED  BY <3>1, MoreInput
  <2>2. doc.allow = Allow(data, i) /\ doc.list_allow = ListAllow(data, i)
    BY DEF Truth, Document
  <2> HIDE DEF i, more
  <2>3. /\ AgentOk(data, i) <=> AgentOk(data, more)
        /\ Known(data, i) <=> Known(data, more)
        /\ ArgsOk(data, i) <=> ArgsOk(data, more)
    BY <2>1
    DEF AgentOk, AgentTrusted, Known, ArgsOk, Present, OverCap, OutsideTiers
  <2>4. \A s : RoleFor(data, i, s) => RoleFor(data, more, s)
    BY <2>1 DEF RoleFor
  <2>5. RoleOk(data, i) => RoleOk(data, more)
    BY <2>1 DEF RoleOk, ConfiguredRole, Known
  <2>6. Allow(data, i) => Allow(data, more)
    BY <2>1, <2>3, <2>4, <2>5 DEF Allow, PlatformAllow, DomainAllow, ToolAllow
  <2>7. ListAllow(data, i) => ListAllow(data, more)
    BY <2>1, <2>3, <2>4 DEF ListAllow, ServerEnabled
  <2> QED  BY <2>2, <2>6, <2>7 DEF i, more, More
<1> QED  BY <1>1, TruthAlways, PTL

(* Off the list of its kind an agent is allowed nothing, neither a call    *)
(* nor a list token, and with an enforcement mode nobody knows nothing is  *)
(* allowed at all.                                                         *)
THEOREM AgentCorrect == Spec => []UnapprovedAgentGetsNothing
<1>1. Truth => UnapprovedAgentGetsNothing
  <2> SUFFICES ASSUME Truth, Answered, data.agent_enforcement \notin {"absent", "audit"},
                      doc.allow \/ doc.list_allow
               PROVE  /\ data.agent_enforcement = "allowlist"
                      /\ <<request.agent.kind, request.agent.id>> \in
                           ({"cimd"} \X data.allowed_agents)
                             \cup ({"dcr"} \X data.allowed_dynamic_client_ids)
    BY DEF UnapprovedAgentGetsNothing
  <2>1. Input(request).agent = request.agent
    BY CallInput, ListInput DEF Truth, BuildListInput
  <2>2. AgentOk(data, Input(request))
    <3>1. /\ doc.allow = Allow(data, Input(request))
          /\ doc.list_allow = ListAllow(data, Input(request))
      BY DEF Truth, Document
    <3> QED  BY <3>1 DEF Allow, PlatformAllow, ListAllow
  <2> QED  BY <2>1, <2>2 DEF AgentOk, Enforcement, AgentTrusted
<1> QED  BY <1>1, TruthAlways, PTL

-----------------------------------------------------------------------------
(* Arguments.                                                              *)

(* What an allowed call really carries is present, typed and in range.     *)
THEOREM ArgumentsCorrect == Spec => []ArgumentsFailClosed
<1>1. Truth => ArgumentsFailClosed
  <2> SUFFICES ASSUME Truth, AnsweredCall, doc.allow PROVE ArgumentsFailClosed
    BY DEF ArgumentsFailClosed
  <2> DEFINE i == Input(request)
  <2>1. request \in CallRequests /\ data \in Configurations
    BY ListInput DEF Truth, AnsweredCall
  <2>2. ArgsOk(data, i)
    <3>1. doc = Document(data, i)
      BY DEF Truth, AnsweredCall
    <3>2. Allow(data, i)
      BY <3>1 DEF Document
    <3> QED  BY <3>2 DEF Allow, ToolAllow
  <2>3. i.tool = request.tool /\ i.args = ProjectArgs(request.args, PolicyArgs[request.tool])
    BY <2>1, CallInput
  <2> HIDE DEF i
  <2>4. /\ DOMAIN i.args \subseteq DOMAIN request.args
        /\ \A x \in DOMAIN i.args : i.args[x] = request.args[x]
    BY <2>3 DEF ProjectArgs, Restrict
  <2>5. ASSUME request.tool = Post
        PROVE  /\ "amount" \in DOMAIN request.args
               /\ request.args["amount"].type = "number"
               /\ "max_amount" \in DOMAIN data.limits =>
                    request.args["amount"].value \in
                      -data.limits["max_amount"] .. data.limits["max_amount"]
    <3>1. /\ "amount" \in DOMAIN i.args
          /\ i.args["amount"].type = "number"
          /\ ~OverCap(data, i)
      BY <2>2, <2>3, <2>5 DEF ArgsOk, Present, IsNumber
    <3>2. i.args["amount"] = request.args["amount"] /\ request.args["amount"].value \in Int
      BY <2>1, <2>4, <3>1, PolicyAssumption
    <3>3. ASSUME "max_amount" \in DOMAIN data.limits
          PROVE  request.args["amount"].value \in
                   -data.limits["max_amount"] .. data.limits["max_amount"]
      <4>1. data.limits["max_amount"] \in Int
        BY <2>1, <3>3, PolicyAssumption
      <4>2. ~(Abs(request.args["amount"].value) > data.limits["max_amount"])
        BY <3>1, <3>2, <3>3 DEF OverCap
      <4> QED  BY <3>2, <4>1, <4>2 DEF Abs
    <3> QED  BY <2>4, <3>1, <3>2, <3>3
  <2>6. ASSUME request.tool = Update
        PROVE  /\ "tier" \in DOMAIN request.args /\ request.args["tier"].type = "string"
               /\ "allowed_tiers" \in DOMAIN data.limits =>
                    request.args["tier"].value \in data.limits["allowed_tiers"]
    <3>1. /\ "tier" \in DOMAIN i.args
          /\ i.args["tier"].type = "string"
          /\ ~OutsideTiers(data, i)
      BY <2>2, <2>3, <2>6 DEF ArgsOk, Present, IsString
    <3>2. i.args["tier"] = request.args["tier"]
      BY <2>4, <3>1
    <3> QED  BY <2>4, <3>1, <3>2 DEF OutsideTiers
  <2> QED  BY <2>5, <2>6 DEF ArgumentsFailClosed
<1> QED  BY <1>1, TruthAlways, PTL

(* The PDP decides on the projection as it would on everything.            *)
THEOREM ProjectionCorrect ==
    ASSUME Declared
    PROVE  Spec => []ProjectionSuffices
<1>1. Truth => ProjectionSuffices
  <2> SUFFICES ASSUME Truth, AnsweredCall PROVE ProjectionSuffices
    BY DEF ProjectionSuffices
  <2> DEFINE i == Input(request)
             full == [i EXCEPT !.args = request.args]
  <2>1. request \in CallRequests
    BY ListInput DEF Truth, AnsweredCall
  <2>2. i = [agent |-> request.agent, roles |-> request.roles, tool |-> request.tool,
             server |-> ServerOf[request.tool],
             args |-> ProjectArgs(request.args, PolicyArgs[request.tool])]
    BY <2>1, CallInput
  <2>3. /\ full.agent = i.agent /\ full.roles = i.roles /\ full.tool = i.tool
        /\ full.server = i.server /\ full.args = request.args
        /\ i.tool = request.tool
        /\ i.args = ProjectArgs(request.args, PolicyArgs[request.tool])
    BY <2>2
  <2>4. doc.allow = Allow(data, i)
    BY DEF Truth, AnsweredCall, Document
  <2> HIDE DEF i, full
  <2>5. /\ DOMAIN i.args = DOMAIN full.args \cap PolicyArgs[i.tool]
        /\ \A x \in DOMAIN i.args : i.args[x] = full.args[x]
    BY <2>3 DEF ProjectArgs, Restrict
  <2>6. ASSUME i.tool = Post
        PROVE  /\ Present(i, "amount") <=> Present(full, "amount")
               /\ Present(i, "amount") => i.args["amount"] = full.args["amount"]
    BY <2>5, <2>6 DEF Declared, Present
  <2>7. ASSUME i.tool = Update
        PROVE  /\ Present(i, "tier") <=> Present(full, "tier")
               /\ Present(i, "tier") => i.args["tier"] = full.args["tier"]
    BY <2>5, <2>7 DEF Declared, Present
  <2>8. ArgsOk(data, i) <=> ArgsOk(data, full)
    BY <2>3, <2>6, <2>7 DEF ArgsOk, OverCap, OutsideTiers
  <2>9. Allow(data, i) <=> Allow(data, full)
    BY <2>3, <2>8
    DEF Allow, PlatformAllow, DomainAllow, ToolAllow, Known, AgentOk, AgentTrusted, RoleFor,
        RoleOk, ConfiguredRole
  <2> QED  BY <2>3, <2>4, <2>5, <2>9 DEF ProjectionSuffices, i, full
<1> QED  BY <1>1, TruthAlways, PTL

-----------------------------------------------------------------------------
(* Lists and calls.                                                        *)

(* A principal that may call a tool finds it on a list.                    *)
THEOREM ListedCorrect ==
    ASSUME SameServer
    PROVE  Spec => []CallableIsListed
<1>1. Truth => CallableIsListed
  <2> SUFFICES ASSUME Truth, AnsweredCall, doc.allow PROVE CallableIsListed
    BY DEF CallableIsListed
  <2> DEFINE i == Input(request)
             l == BuildListInput([agent |-> request.agent, roles |-> request.roles,
                                  server |-> ServerOf[request.tool]])
  <2>1. request \in CallRequests /\ data \in Configurations
    BY ListInput DEF Truth, AnsweredCall
  <2>2. /\ i.agent = request.agent /\ i.roles = request.roles /\ i.tool = request.tool
        /\ l.agent = request.agent /\ l.roles = request.roles
        /\ l.server = ServerOf[request.tool]
    BY <2>1, CallInput DEF BuildListInput
  <2>3. Allow(data, i)
    BY DEF Truth, AnsweredCall, Document
  <2> HIDE DEF i, l
  <2>4. AgentOk(data, i) /\ Known(data, i) /\ DomainAllow(data, i)
    BY <2>3 DEF Allow, PlatformAllow
  <2>5. data.tools[i.tool].server = l.server
    BY <2>1, <2>2, <2>4 DEF Known, SameServer
  <2>6. AgentOk(data, l)
    BY <2>2, <2>4 DEF AgentOk, AgentTrusted
  <2>7. ListAllow(data, l)
    BY <2>2, <2>4, <2>5, <2>6 DEF ListAllow, DomainAllow, ServerEnabled, RoleFor
  <2> QED  BY <2>7 DEF CallableIsListed, l
<1> QED  BY <1>1, TruthAlways, PTL

(* A tool on a list is one the principal may call: neither agent, nor      *)
(* server, nor role stands against it, only arguments can.                 *)
THEOREM ShownCorrect ==
    ASSUME SameServer, SameRole, Satisfiable
    PROVE  Spec => []ShownIsCallable
<1>1. Truth => ShownIsCallable
  <2> SUFFICES ASSUME Truth, Answered, ~IsCall(request), doc.list_allow,
                      NEW t \in DOMAIN data.tools, Shown(request, t)
               PROVE  \E args \in Arguments :
                        Allow(data, BuildInput([agent |-> request.agent,
                                                roles |-> request.roles,
                                                tool |-> t, args |-> args]))
    BY DEF ShownIsCallable
  <2>1. request \in ListRequests /\ data \in Configurations
    BY CallInput DEF Truth
  <2>2. PICK args \in Arguments :
          ArgsOk(data, [tool |-> t, args |-> ProjectArgs(args, PolicyArgs[t])])
    BY <2>1 DEF Satisfiable
  <2> DEFINE l == Input(request)
             i == BuildInput([agent |-> request.agent, roles |-> request.roles,
                              tool |-> t, args |-> args])
  <2>3. /\ l.agent = request.agent /\ l.roles = request.roles /\ l.server = request.server
        /\ i.agent = request.agent /\ i.roles = request.roles /\ i.tool = t
        /\ i.args = ProjectArgs(args, PolicyArgs[t])
    BY <2>1, ListInput DEF BuildListInput, BuildInput
  <2>4. ListAllow(data, l)
    BY DEF Truth, Document
  <2> HIDE DEF l, i
  <2>5. data.tools[t].server = l.server /\ data.tools[t].required_role = RoleOf[t]
    BY <2>1, <2>3 DEF Shown, SameServer, SameRole
  <2>6. Known(data, i) /\ AgentOk(data, i)
    BY <2>3, <2>4 DEF Known, ListAllow, AgentOk, AgentTrusted
  <2>7. DomainAllow(data, i)
    BY <2>3, <2>4, <2>5, <2>6 DEF DomainAllow, ListAllow, ServerEnabled, RoleFor
  <2>8. RoleOk(data, i)
    BY <2>3, <2>5, <2>6 DEF RoleOk, ConfiguredRole, Shown
  <2>c. ArgsOk(data, i)
    BY <2>2, <2>3 DEF ArgsOk, Present, OverCap, OutsideTiers
  <2>9. Allow(data, i)
    BY <2>6, <2>7, <2>8, <2>c DEF Allow, PlatformAllow, ToolAllow
  <2> QED  BY <2>9 DEF i
<1> QED  BY <1>1, TruthAlways, PTL
=============================================================================
