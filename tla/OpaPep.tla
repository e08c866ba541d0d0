------------------------------ MODULE OpaPep ------------------------------
(***************************************************************************)
(* The policy enforcement point: class OpaPep of                           *)
(* gateway-fastmcp/app/middleware/opa_pep.py, with the per-request         *)
(* ContextVar of app/context.py and the client_factory of app/upstreams.py *)
(* that reads it.                                                          *)
(*                                                                         *)
(* Requests are asyncio tasks that interleave at every await.  Each await  *)
(* is a value of pc, and what the task does from one await to the next is  *)
(* one action:                                                             *)
(*   "idle"      not arrived                                               *)
(*   "opa"       awaiting OpaClient.evaluate / evaluate_list_access        *)
(*   "mint"      awaiting DownstreamRouter.token_for                       *)
(*   "next"      awaiting call_next: FastMCP contacts the backend(s)       *)
(*   "write"     awaiting AuditWriter.write                                *)
(*   "done"      answered                                                  *)
(*                                                                         *)
(* Outside the gateway, and so chosen nondeterministically: the PDP's      *)
(* answers, the token service's, the backends', the audit database's, and  *)
(* the client that may cancel.  Argument values, reasons, latency and the  *)
(* regulatory tags of a row are left out; the decision itself is modelled  *)
(* in Policy.tla.                                                          *)
(***************************************************************************)
EXTENDS Naturals, Sequences, FiniteSets

CONSTANTS
    Requests,       \* identities of in-flight MCP requests
    Users,          \* subjects of verified session tokens
    Backends,       \* Settings.backends(): the mounted upstream servers
    Profile,        \* [Backends -> {"m2m", "obo"}]: downstream regime
    Tools,          \* names in tools/registry.py REGISTRY
    ServerOf,       \* [Tools -> Backends]: ToolMeta.server
    Ungoverned,     \* names a backend serves that no registry entry governs
    Served,         \* [Backends -> SUBSET Names]: what each backend serves
    Asked,          \* the hooks the clients of an instance use
    Entitled,       \* [Users -> SUBSET Tools]: required_role unset or held
    Opaque,         \* tokens that are no JWT or carry no jti claim
    Faults,         \* which of "malformed", "escape", "cancel" may happen
    NoToken,        \* None where a token may be
    NoOperation,    \* before a request arrives
    NoWrite         \* no audit write under way

Anonymous == "anonymous"    \* get_access_token() returned None
Gateway == "gateway"        \* the subject of a client_credentials token
Default == "default"        \* a backend's ".default" scope
NoBackend == "unknown"      \* Operation.server when backend is None

Names == Tools \cup Ungoverned
Mounted == Backends \X Names        \* "<namespace>_<tool>"
NoTarget == <<NoBackend, Default>>  \* a list, a resource or a prompt

Hooks == {"tools/call", "unmodeled", "tools/list", "resources/list"}
Operations ==
    [hook : Hooks, who : Users \cup {Anonymous}, name : Mounted \cup {NoTarget}]
Tokens == [aud : Backends, sub : Users \cup {Gateway}, scope : Tools \cup {Default}]
Statuses == {"ok", "denied", "error", "upstream_error"}
AuditRows ==
    [server : Backends \cup {NoBackend}, allow : BOOLEAN, status : Statuses,
     jti : Tokens \cup {NoToken}, aud : Backends \cup {NoBackend}]
Answers == {"allow", "deny", "unreachable"}
Ends == {"returned", "raised", "cancelled"}

ASSUME ConstantsAssumption ==
    /\ Backends # {}
    /\ IsFiniteSet(Backends)
    /\ NoBackend \notin Backends
    /\ Anonymous \notin Users /\ Gateway \notin Users
    /\ Default \notin Tools
    /\ Tools \cap Ungoverned = {}
    /\ Profile \in [Backends -> {"m2m", "obo"}]
    /\ ServerOf \in [Tools -> Backends]
    /\ Served \in [Backends -> SUBSET Names]
    /\ Entitled \in [Users -> SUBSET Tools]
    /\ Asked \subseteq Hooks
    /\ Opaque \subseteq Tokens
    /\ Faults \subseteq {"malformed", "escape", "cancel"}
    /\ NoToken \notin Tokens
    /\ NoOperation \notin Operations

VARIABLES
    pc,         \* where each request's task is suspended
    op,         \* the Operation the hook built
    cur,        \* the backend whose decision, mint or row is in progress
    todo,       \* a list's backends the prefetch loop has not begun
    ctx,        \* the request's downstream_tokens ContextVar, per backend
    writing,    \* the row being written and what the task does after it
    rows,       \* the audit trail of the request, in writing order
    end,        \* how the client's call ended
    listed,     \* what a list returned
    pdp,        \* history: what the PDP answered about each backend
    tokens,     \* what token_for returned for each backend
    sent        \* history: backends contacted, and the credential they saw

local == <<op, cur, todo, ctx, writing>>
vars == <<pc, op, cur, todo, ctx, writing, rows, end, listed, pdp, tokens, sent>>

Init ==
    /\ pc = [r \in Requests |-> "idle"]
    /\ op = [r \in Requests |-> NoOperation]
    /\ cur = [r \in Requests |-> NoBackend]
    /\ todo = [r \in Requests |-> {}]
    /\ ctx = [r \in Requests |-> [b \in Backends |-> NoToken]]
    /\ writing = [r \in Requests |-> NoWrite]
    /\ rows = [r \in Requests |-> <<>>]
    /\ end = [r \in Requests |-> "none"]
    /\ listed = [r \in Requests |-> {}]
    /\ pdp = [r \in Requests |-> [b \in Backends |-> "unasked"]]
    /\ tokens = [r \in Requests |-> [b \in Backends |-> NoToken]]
    /\ sent = [r \in Requests |-> {}]

-----------------------------------------------------------------------------
(* Operators the handlers are built from.                                  *)

IsCall(r) == op[r].hook = "tools/call"
IsList(r) == op[r].hook \in {"tools/list", "resources/list"}

(* Variants named <operator>_<defect> are defects the runs must reject;    *)
(* nothing below uses them.                                                *)

Resolve_ByNamespace(m) == m[1]
Resolve_ByBareName(m) == IF m[2] \in Tools THEN m[1] ELSE NoBackend

(* The exact table of __init__: a mounted name resolves only under the     *)
(* namespace of the backend its registry entry names.                      *)
Resolve(m) == IF m[2] \in Tools /\ ServerOf[m[2]] = m[1] THEN m[1] ELSE NoBackend

Allows_FailOpen(answer) == answer # "deny"

(* OpaClient: anything but a true "allow" in the answer denies.            *)
Allows(answer) == answer = "allow"

(* The scope the PEP asks for: the tool's own on a call, none on a list.   *)
ScopeAsked(o) == IF o.hook = "tools/call" THEN o.name[2] ELSE Default

(* What the provider of the backend's regime returns: M2M ignores the      *)
(* principal and the scope, OBO exchanges the principal's token.           *)
TokenFor(o, b) ==
    IF Profile[b] = "m2m" THEN [aud |-> b, sub |-> Gateway, scope |-> Default]
                          ELSE [aud |-> b, sub |-> o.who, scope |-> ScopeAsked(o)]

Stash_Global(c, r, minted) ==
    [q \in Requests |-> [b \in Backends |->
                           IF minted[b] # NoToken THEN minted[b] ELSE c[q][b]]]

(* downstream_tokens.set({**downstream_tokens.get({}), **minted}): the     *)
(* ContextVar belongs to the task of r alone.                              *)
Stash(c, r, minted) ==
    [c EXCEPT ![r] = [b \in Backends |->
                        IF minted[b] # NoToken THEN minted[b] ELSE c[r][b]]]

(* client_factory: the credential the proxy of b sends on behalf of r.     *)
Credential(r, b) == ctx[r][b]

Visible_AnyRole(u, m) == Resolve(m) # NoBackend

(* _visible: hide what nothing governs and what the user's roles exclude.  *)
Visible(u, m) == Resolve(m) # NoBackend /\ m[2] \in Entitled[u]

(* _jti: a jti claim stands for its token; without one a row names none.   *)
Jti(token) == IF token \in Opaque THEN NoToken ELSE token

AuditRow_NoJti(b, allow, status, jti) ==
    [server |-> b, allow |-> allow, status |-> status, jti |-> NoToken, aud |-> b]

(* The record _write builds.                                               *)
AuditRow(b, allow, status, jti) ==
    [server |-> b, allow |-> allow, status |-> status, jti |-> jti, aud |-> b]

StartWrite(r, row, then) ==
    /\ pc' = [pc EXCEPT ![r] = "write"]
    /\ writing' = [writing EXCEPT ![r] = [row |-> row, then |-> then]]

Finish(r, how) ==
    /\ pc' = [pc EXCEPT ![r] = "done"]
    /\ end' = [end EXCEPT ![r] = how]

-----------------------------------------------------------------------------
(* The hooks: what runs from a request's arrival to its first await.       *)

Arrive(r, o) ==
    /\ pc[r] = "idle"
    /\ o.hook \in Asked
    /\ op' = [op EXCEPT ![r] = o]

(* on_call_tool without a session token: refused before anything else.     *)
CallUnauthenticated(r) ==
    /\ \E m \in Mounted :
         Arrive(r, [hook |-> "tools/call", who |-> Anonymous, name |-> m])
    /\ Finish(r, "raised")
    /\ UNCHANGED <<cur, todo, ctx, writing, rows, listed, pdp, tokens, sent>>

(* on_call_tool, _resolve, _authorize up to its first await: a name that   *)
(* resolves to no backend fails _pre_check and goes straight to its row.   *)
OnCallTool(r) ==
    \E u \in Users, m \in Mounted :
      /\ Arrive(r, [hook |-> "tools/call", who |-> u, name |-> m])
      /\ cur' = [cur EXCEPT ![r] = Resolve(m)]
      /\ \/ /\ Resolve(m) # NoBackend
            /\ pc' = [pc EXCEPT ![r] = "opa"]
            /\ UNCHANGED writing
         \/ /\ Resolve(m) = NoBackend
            /\ StartWrite(r, AuditRow(NoBackend, FALSE, "denied", NoToken), "raise")
      /\ UNCHANGED <<todo, ctx, rows, end, listed, pdp, tokens, sent>>

(* on_read_resource, on_get_prompt: denied whoever asks, PDP never asked.  *)
Unmodeled(r) ==
    /\ \E u \in Users \cup {Anonymous} :
         Arrive(r, [hook |-> "unmodeled", who |-> u, name |-> NoTarget])
    /\ StartWrite(r, AuditRow(NoBackend, FALSE, "denied", NoToken), "raise")
    /\ UNCHANGED <<cur, todo, ctx, rows, end, listed, pdp, tokens, sent>>

(* on_list_tools, on_list_resources, on_list_prompts: the prefetch loop    *)
(* runs only for an authenticated principal.  The loop's order is that of  *)
(* the configuration, so any backend may come first.                       *)
OnList(r) ==
    \E h \in {"tools/list", "resources/list"}, u \in Users \cup {Anonymous} :
      /\ Arrive(r, [hook |-> h, who |-> u, name |-> NoTarget])
      /\ \/ /\ u = Anonymous
            /\ pc' = [pc EXCEPT ![r] = "next"]
            /\ UNCHANGED <<cur, todo>>
         \/ /\ u # Anonymous
            /\ pc' = [pc EXCEPT ![r] = "opa"]
            /\ \E b \in Backends : /\ cur' = [cur EXCEPT ![r] = b]
                                   /\ todo' = [todo EXCEPT ![r] = Backends \ {b}]
      /\ UNCHANGED <<ctx, writing, rows, end, listed, pdp, tokens, sent>>

-----------------------------------------------------------------------------
(* The decision and the mint, shared by _authorize and the prefetch loop.  *)

AfterRefusal_NoRaise(r) == "continue"

(* What the task does after the row of a refusal.                          *)
AfterRefusal(r) == IF IsCall(r) THEN "raise" ELSE "continue"

PdpAnswers(r) ==
    /\ pc[r] = "opa"
    /\ \E a \in Answers :
         /\ pdp' = [pdp EXCEPT ![r][cur[r]] = a]
         /\ \/ /\ Allows(a)
               /\ pc' = [pc EXCEPT ![r] = "mint"]
               /\ UNCHANGED writing
            \/ /\ ~Allows(a)
               /\ StartWrite(r, AuditRow(cur[r], FALSE, "denied", NoToken), AfterRefusal(r))
    /\ UNCHANGED <<op, cur, todo, ctx, rows, end, listed, tokens, sent>>

(* The PDP answers with JSON that is no object, or whose "result" is some  *)
(* other value (null is a deny): the AttributeError of .get is no          *)
(* HTTPError and no ValueError, and nothing on the way catches it.         *)
PdpEscapes(r) ==
    /\ "malformed" \in Faults
    /\ pc[r] = "opa"
    /\ Finish(r, "raised")
    /\ UNCHANGED <<op, cur, todo, ctx, writing, rows, listed, pdp, tokens, sent>>

(* token_for returns.  A call stashes the token and proceeds without an    *)
(* await in between; the loop writes its row first and stashes at the end. *)
Minted(r) ==
    /\ pc[r] = "mint"
    /\ tokens' = [tokens EXCEPT ![r][cur[r]] = TokenFor(op[r], cur[r])]
    /\ \/ /\ IsCall(r)
          /\ ctx' = Stash(ctx, r, tokens'[r])
          /\ pc' = [pc EXCEPT ![r] = "next"]
          /\ UNCHANGED writing
       \/ /\ IsList(r)
          /\ StartWrite(r, AuditRow(cur[r], TRUE, "ok", Jti(tokens'[r][cur[r]])), "continue")
          /\ UNCHANGED ctx
    /\ UNCHANGED <<op, cur, todo, rows, end, listed, pdp, sent>>

MintFails_NoRow(r) ==
    /\ pc[r] = "mint"
    /\ Finish(r, "raised")
    /\ UNCHANGED <<op, cur, todo, ctx, writing, rows, listed, pdp, tokens, sent>>

(* token_for raises DownstreamError.                                       *)
MintFails(r) ==
    /\ pc[r] = "mint"
    /\ StartWrite(r, AuditRow(cur[r], TRUE, "error", NoToken), AfterRefusal(r))
    /\ UNCHANGED <<op, cur, todo, ctx, rows, end, listed, pdp, tokens, sent>>

(* token_for raises anything else: the token POST of m2m.py and obo.py     *)
(* wraps no transport, KeyError or ValueError, and neither "except         *)
(* DownstreamError" of the PEP sees it.                                    *)
MintEscapes(r) ==
    /\ "escape" \in Faults
    /\ pc[r] = "mint"
    /\ Finish(r, "raised")
    /\ UNCHANGED <<op, cur, todo, ctx, writing, rows, listed, pdp, tokens, sent>>

-----------------------------------------------------------------------------
(* call_next: FastMCP and the proxies of app/upstreams.py.                 *)

Contacted(r) == {m.backend : m \in sent[r]}
Targets(r) == IF IsCall(r) THEN {cur[r]} ELSE Backends

(* A proxy builds its client, which reads the ContextVar, and sends.       *)
Contact(r) ==
    /\ pc[r] = "next"
    /\ \E b \in Targets(r) \ Contacted(r) :
         sent' = [sent EXCEPT ![r] = @ \cup {[backend |-> b, token |-> Credential(r, b)]}]
    /\ UNCHANGED <<pc, op, cur, todo, ctx, writing, rows, end, listed, pdp, tokens>>

(* The end of a tool call: the row of the finally clause, then the result. *)
CallEnds(r, status, then) ==
    /\ pc[r] = "next"
    /\ IsCall(r)
    /\ StartWrite(r, AuditRow(cur[r], TRUE, status, Jti(tokens[r][cur[r]])), then)
    /\ UNCHANGED <<op, cur, todo, ctx, rows, end, listed, pdp, tokens, sent>>

CallRaises_StatusKept(r) == CallEnds(r, "ok", "raise")

CallReturns(r) == sent[r] # {} /\ CallEnds(r, "ok", "return")
CallRaises(r) == CallEnds(r, "upstream_error", "raise")

(* A backend lists only to a token of its own audience; one that does not  *)
(* answer is left out of the aggregate.  Only on_list_tools filters.       *)
Accepts(r, b) == \E m \in sent[r] : m.backend = b /\ m.token # NoToken /\ m.token.aud = b

ListReturns(r) ==
    /\ pc[r] = "next"
    /\ IsList(r)
    /\ Contacted(r) = Backends
    /\ \E answering \in SUBSET {b \in Backends : Accepts(r, b)} :
         LET all == {m \in Mounted : m[1] \in answering /\ m[2] \in Served[m[1]]}
             filtered == op[r].hook = "tools/list" /\ op[r].who # Anonymous
         IN  listed' = [listed EXCEPT ![r] =
                          IF filtered THEN {m \in all : Visible(op[r].who, m)} ELSE all]
    /\ Finish(r, "returned")
    /\ UNCHANGED <<op, cur, todo, ctx, writing, rows, pdp, tokens, sent>>

ListRaises(r) ==
    /\ pc[r] = "next"
    /\ IsList(r)
    /\ Finish(r, "raised")
    /\ UNCHANGED <<op, cur, todo, ctx, writing, rows, listed, pdp, tokens, sent>>

-----------------------------------------------------------------------------
(* _write returns.  An exception of the database is swallowed and the      *)
(* record goes to the log instead, so the trail (table and log together)   *)
(* has it either way, and the task goes on as it would have.               *)

Record(r) == rows' = [rows EXCEPT ![r] = Append(@, writing[r].row)]

EndOf(then) == CASE then = "return" -> "returned"
                 [] then = "raise" -> "raised"
                 [] then = "cancel" -> "cancelled"

Written(r) ==
    /\ pc[r] = "write"
    /\ Record(r)
    /\ writing' = [writing EXCEPT ![r] = NoWrite]
    /\ \/ /\ writing[r].then # "continue"
          /\ Finish(r, EndOf(writing[r].then))
          /\ UNCHANGED <<cur, todo, ctx>>
       \/ /\ writing[r].then = "continue"
          /\ todo[r] # {}
          /\ \E b \in todo[r] : /\ cur' = [cur EXCEPT ![r] = b]
                                /\ todo' = [todo EXCEPT ![r] = @ \ {b}]
          /\ pc' = [pc EXCEPT ![r] = "opa"]
          /\ UNCHANGED <<ctx, end>>
       \/ /\ writing[r].then = "continue"
          /\ todo[r] = {}
          /\ ctx' = Stash(ctx, r, tokens[r])
          /\ pc' = [pc EXCEPT ![r] = "next"]
          /\ UNCHANGED <<cur, todo, end>>
    /\ UNCHANGED <<op, listed, pdp, tokens, sent>>

-----------------------------------------------------------------------------
(* The client goes away: CancelledError at the await the task is at.  It   *)
(* is no Exception, so neither _write nor _authorize catches it.           *)

CancelBeforeNext(r) ==
    /\ "cancel" \in Faults
    /\ \/ pc[r] \in {"opa", "mint"}
       \/ pc[r] = "next" /\ IsList(r)
    /\ Finish(r, "cancelled")
    /\ UNCHANGED <<op, cur, todo, ctx, writing, rows, listed, pdp, tokens, sent>>

(* In call_next of a tool call, status is still the "ok" it was set to.    *)
CancelCall(r) ==
    /\ "cancel" \in Faults
    /\ CallEnds(r, "ok", "cancel")

(* In a write: the INSERT was committed or it was not, and nothing is      *)
(* logged either way.                                                      *)
CancelWrite(r) ==
    /\ "cancel" \in Faults
    /\ pc[r] = "write"
    /\ Record(r) \/ UNCHANGED rows
    /\ writing' = [writing EXCEPT ![r] = NoWrite]
    /\ Finish(r, "cancelled")
    /\ UNCHANGED <<op, cur, todo, ctx, listed, pdp, tokens, sent>>

(* Nothing is left to serve.                                               *)
AllServed ==
    /\ \A r \in Requests : pc[r] = "done"
    /\ UNCHANGED vars

-----------------------------------------------------------------------------
Arrivals(r) == CallUnauthenticated(r) \/ OnCallTool(r) \/ Unmodeled(r) \/ OnList(r)
Decide(r) == PdpAnswers(r) \/ PdpEscapes(r)
Mint(r) == Minted(r) \/ MintFails(r) \/ MintEscapes(r)
CallNext(r) ==
    Contact(r) \/ CallReturns(r) \/ CallRaises(r) \/ ListReturns(r) \/ ListRaises(r)
Cancel(r) == CancelBeforeNext(r) \/ CancelCall(r) \/ CancelWrite(r)

Next ==
    \/ \E r \in Requests :
         Arrivals(r) \/ Decide(r) \/ Mint(r) \/ CallNext(r) \/ Written(r) \/ Cancel(r)
    \/ AllServed

Spec == Init /\ [][Next]_vars

BoundedSpec_NoOpaTimeout == Spec /\ \A r \in Requests : WF_vars(Mint(r))
BoundedSpec_NoMintTimeout == Spec /\ \A r \in Requests : WF_vars(Decide(r))

(* What always answers: OpaClient's HTTP client gives up on a PDP that is  *)
(* silent for 5 s, a provider's on a token service that is for 10 s.  (A   *)
(* peer that keeps sending a byte now and then is assumed away.)           *)
BoundedSpec == Spec /\ \A r \in Requests : WF_vars(Decide(r)) /\ WF_vars(Mint(r))

-----------------------------------------------------------------------------
(* Properties.                                                             *)

(* The values the variables may take.                                      *)
TypeOK ==
    /\ pc \in [Requests -> {"idle", "opa", "mint", "next", "write", "done"}]
    /\ op \in [Requests -> Operations \cup {NoOperation}]
    /\ cur \in [Requests -> Backends \cup {NoBackend}]
    /\ todo \in [Requests -> SUBSET Backends]
    /\ ctx \in [Requests -> [Backends -> Tokens \cup {NoToken}]]
    /\ writing \in [Requests ->
         [row : AuditRows, then : {"return", "raise", "cancel", "continue"}] \cup {NoWrite}]
    /\ rows \in [Requests -> Seq(AuditRows)]
    /\ end \in [Requests -> Ends \cup {"none"}]
    /\ listed \in [Requests -> SUBSET Mounted]
    /\ pdp \in [Requests -> [Backends -> Answers \cup {"unasked"}]]
    /\ tokens \in [Requests -> [Backends -> Tokens \cup {NoToken}]]
    /\ sent \in [Requests -> SUBSET [backend : Backends, token : Tokens \cup {NoToken}]]

(* No backend ever sees a credential on behalf of a request the PDP did    *)
(* not clear for that backend: a deny, an unreachable PDP and a decision   *)
(* taken for another request or another backend all count as no.           *)
CredentialOnlyIfCleared ==
    \A r \in Requests : \A m \in sent[r] :
      m.token # NoToken => pdp[r][m.backend] = "allow"

(* The credential a backend sees is its own (audience), stands for this    *)
(* request's user (or for the gateway where the regime is M2M), and under  *)
(* OBO a tool call carries that tool's scope and nothing wider.            *)
CredentialIsOwn ==
    \A r \in Requests : \A m \in sent[r] :
      m.token # NoToken =>
        /\ m.token.aud = m.backend
        /\ Profile[m.backend] = "obo" => m.token.sub = op[r].who
        /\ Profile[m.backend] = "m2m" => m.token.sub = Gateway
        /\ Profile[m.backend] = "obo" /\ op[r].hook = "tools/call" =>
             m.token.scope = op[r].name[2]

(* A tool call contacts at most the backend its tool is registered for,    *)
(* and never without a credential.                                         *)
CallReachesItsServer ==
    \A r \in Requests : op[r] # NoOperation /\ op[r].hook = "tools/call" =>
      \A m \in sent[r] :
        m.token # NoToken /\ op[r].name[2] \in Tools /\ m.backend = ServerOf[op[r].name[2]]

(* A list contacts a backend with a credential only after the row of the   *)
(* decision that allowed it was written, which names this credential if    *)
(* that has a jti at all.                                                  *)
ListRowPrecedesUse ==
    \A r \in Requests : \A m \in sent[r] :
      IsList(r) /\ m.token # NoToken =>
        \E i \in DOMAIN rows[r] :
          /\ rows[r][i].server = m.backend /\ rows[r][i].allow /\ rows[r][i].status = "ok"
          /\ rows[r][i].jti = Jti(m.token)

(* A row's decision is the one the PDP gave for this request and backend,  *)
(* and the jti it carries is that of the token minted for them: a denied   *)
(* or failed backend's row carries none, and a minted one's row carries    *)
(* none only if the token has none.                                        *)
RowNamesItsToken ==
    \A r \in Requests : \A i \in DOMAIN rows[r] :
      LET row == rows[r][i]
      IN  IF row.server = NoBackend
          THEN ~row.allow /\ row.jti = NoToken
          ELSE /\ row.allow <=> pdp[r][row.server] = "allow"
               /\ row.jti = Jti(tokens[r][row.server])

(* An operation an authenticated client finished, and any attempt at what  *)
(* policy does not model, left one row; a list left one for each backend.  *)
(* Whether the database took the row or the log did makes no difference.   *)
Audited(r) ==
    IF op[r].hook = "unmodeled" \/ (IsCall(r) /\ op[r].who # Anonymous)
    THEN Len(rows[r]) = 1
    ELSE IF IsList(r) /\ op[r].who # Anonymous
         THEN /\ Len(rows[r]) = Cardinality(Backends)
              /\ \A b \in Backends : \E i \in DOMAIN rows[r] : rows[r][i].server = b
         ELSE rows[r] = <<>>

RecordedOnce == \A r \in Requests : pc[r] = "done" => Audited(r)

(* The status of a finished call's row says how the call went: "ok" if and *)
(* only if the client has the result, and "denied" and "error" only if the *)
(* backend was never contacted.                                            *)
RowTellsOutcome ==
    \A r \in Requests : pc[r] = "done" /\ IsCall(r) =>
      \A i \in DOMAIN rows[r] :
        /\ rows[r][i].status = "ok" <=> end[r] = "returned"
        /\ rows[r][i].status \in {"denied", "error"} => sent[r] = {}
        /\ rows[r][i].status = "upstream_error" => tokens[r][cur[r]] # NoToken

(* tools/list shows a mounted name only if the PDP cleared its backend for *)
(* this request, the name is governed, and the user's roles cover it; a    *)
(* client without a session token is shown nothing at all.                 *)
ListShowsOnlyCleared ==
    \A r \in Requests : \A m \in listed[r] :
      /\ op[r].who # Anonymous
      /\ pdp[r][m[1]] = "allow"
      /\ op[r].hook = "tools/list" =>
           m[2] \in Tools /\ ServerOf[m[2]] = m[1] /\ m[2] \in Entitled[op[r].who]

(* Cancelled or not, no operation is recorded more often than it was       *)
(* decided: one row per backend of a list, one per call.                   *)
NeverRecordedTwice ==
    \A r \in Requests : \A i, j \in DOMAIN rows[r] :
      rows[r][i].server = rows[r][j].server => i = j

(* The promise of Chokepoint.tla, pair by pair.                            *)
Verdict(p) ==
    LET of == {i \in DOMAIN rows[p[1]] : rows[p[1]][i].server = p[2]}
    IN  IF of = {} THEN "none" ELSE rows[p[1]][CHOOSE i \in of : TRUE].status

Phase(p) ==
    CASE \E m \in sent[p[1]] : m.backend = p[2] /\ m.token # NoToken -> "reached"
      [] OTHER -> CASE tokens[p[1]][p[2]] # NoToken -> "minted"
                    [] OTHER -> CASE pdp[p[1]][p[2]] = "allow" -> "allowed"
                                  [] pdp[p[1]][p[2]] = "unasked" -> "undecided"
                                  [] OTHER -> "denied"

Promise == INSTANCE Chokepoint WITH
    Pairs <- Requests \X Backends,
    phase <- [p \in Requests \X Backends |-> Phase(p)],
    verdict <- [p \in Requests \X Backends |-> Verdict(p)]

(* Every interleaving of the enforcement point's steps is an interleaving  *)
(* of decide, mint, reach and record, in the order Chokepoint allows.      *)
KeepsPromise == Promise!Spec

(* A request the gateway took on is answered, or it is waiting for the     *)
(* audit database or a backend: the gateway itself never leaves it hanging.*)
OnlyOutsidersStall ==
    \A r \in Requests :
      pc[r] # "idle" ~> pc[r] = "done" \/ pc[r] = "write" \/ pc[r] = "next"

(* ... and it is answered if database and backends keep answering.         *)
OutsidersAnswer == \A r \in Requests : WF_vars(Written(r)) /\ WF_vars(CallNext(r))
EveryRequestEnds ==
    OutsidersAnswer => \A r \in Requests : pc[r] # "idle" ~> pc[r] = "done"

-----------------------------------------------------------------------------
(* What comments of the repository say and the code does not keep.         *)

(* opa_pep.py:150 "Every path writes one row."                             *)
EveryPathWritesOneRow ==
    \A r \in Requests :
      pc[r] = "done" /\ IsCall(r) /\ op[r].who # Anonymous => Len(rows[r]) = 1

(* opa_pep.py:330 "A single unreachable backend must not fail the whole    *)
(* list": a list that failed had at least asked about every backend.       *)
OneBackendCannotFailTheList ==
    \A r \in Requests :
      pc[r] = "done" /\ IsList(r) /\ op[r].who # Anonymous /\ end[r] = "raised" =>
        \A b \in Backends : pdp[r][b] # "unasked"
=============================================================================
