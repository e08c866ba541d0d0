------------------------------ MODULE Gateway ------------------------------
(***************************************************************************)
(* The gateway process and the sessions that outlive it: main.py, the      *)
(* settings of config.py, build_gateway and its lifespan in server.py, the *)
(* inbound side auth.py and principal.py, and what of audit.py,            *)
(* opa_client.py and downstream/__init__.py opens and closes with it.      *)
(*                                                                         *)
(* What survives the process is the environment it is configured from and  *)
(* the session store, one directory on the container's disk per signing    *)
(* key.  Settings are read once per process; everything else is memory.    *)
(*                                                                         *)
(* An HTTP request presents a session JWT, known here by its jti.  pc:     *)
(*   "idle"      no request                                                *)
(*   "swap"      awaiting OAuthProxy.load_access_token                     *)
(*   "admitted"  authenticated, on its way to the middleware               *)
(*   "served"    the enforcement point has built the principal             *)
(*   "refused"   load_access_token returned None                           *)
(*                                                                         *)
(* External, modelled from how auth.py uses it: FastMCP's OAuthProxy,      *)
(* which verifies the session JWT, then awaits the stored Entra token and  *)
(* its validation; uvicorn, which ends all requests before the lifespan    *)
(* ends.                                                                   *)
(***************************************************************************)
EXTENDS Naturals, Sequences, FiniteSets

CONSTANTS
    Requests,
    Jtis,           \* session JWTs that may be issued
    Clients,        \* MCP clients: [id, url], what form of URL the id is
    EntraTokens,    \* upstream access tokens Entra may return at a login
    Claims,         \* [EntraTokens -> [sub, oid, azp, appid]], "" if absent
    UserOf,         \* [EntraTokens -> users]: whom Entra issued it for
    Broker,         \* the gateway's own Entra client id
    Keys,           \* values of gateway_session_signing_key
    Backends,
    Environments,   \* configurations the operator may deploy
    None            \* no settings, session, JWT, token or principal yet

NoAgent == ""                       \* client_id or mcp_client_id is absent

VALID_PROFILES == {"m2m", "obo"}    \* config.py
Providers == {"m2m", "obo"}         \* _PROVIDERS of downstream/__init__.py

Sessions == [client : Clients, entra : EntraTokens, key : Keys]

ASSUME GatewayAssumption ==
    /\ \A e \in Environments :
         /\ e.key \in Keys
         /\ DOMAIN e.own = Backends
         /\ e.dsn \in BOOLEAN
    /\ None \notin Environments \cup Jtis \cup Sessions
    /\ \A t \in EntraTokens :
         /\ UserOf[t] = IF Claims[t].sub # "" THEN Claims[t].sub ELSE Claims[t].oid
         /\ Broker = IF Claims[t].azp # "" THEN Claims[t].azp ELSE Claims[t].appid
    /\ \A c, d \in Clients : c.id = d.id => c = d
    /\ Broker \notin {c.id : c \in Clients} \cup {NoAgent}

VARIABLES
    env,            \* the deployed environment
    settings,       \* get_settings() of the running process
    phase,          \* where the process is in its life
    open,           \* what it holds open: "pool", "pdp", providers by regime
    built,          \* DownstreamRouter._providers, in the order of building;
                    \* while the router closes, those still to be closed
    store,          \* per key, the sessions whose Entra token is on disk
    issued,         \* the session behind a JWT
    expired,        \* JWTs past their expiry
    discarded,      \* history: sessions whose container was recreated
    pc, jti, token, principal,
    shared,         \* the agent claim on the validator's own AccessToken
    cause,          \* history: why a request was refused
    failed,         \* history: an aclose raised in the last shutdown
    leaked          \* history: what it left open

process == <<settings, phase, open, built>>
sessions == <<store, issued, expired, discarded>>
requests == <<pc, jti, token, principal, shared, cause>>
ended == <<failed, leaked>>
vars == <<env, process, sessions, requests, ended>>

Init ==
    /\ env \in Environments
    /\ settings = None
    /\ phase = "down"
    /\ open = {}
    /\ built = <<>>
    /\ store = [k \in Keys |-> {}]
    /\ issued = [j \in Jtis |-> None]
    /\ expired = {}
    /\ discarded = {}
    /\ pc = [r \in Requests |-> "idle"]
    /\ jti = [r \in Requests |-> None]
    /\ token = [r \in Requests |-> None]
    /\ principal = [r \in Requests |-> None]
    /\ shared = [t \in EntraTokens |-> NoAgent]
    /\ cause = [r \in Requests |-> "none"]
    /\ failed = FALSE
    /\ leaked = {}

-----------------------------------------------------------------------------
(* config.py                                                               *)

(* Variants named <operator>_<defect> are defects the runs must reject;    *)
(* nothing below uses them.                                                *)

(* backends(): a backend's own regime, else the common one.                *)
Profile(s, b) == IF s.own[b] # "" THEN s.own[b] ELSE s.profile

RequireEntra_DefaultOnly(s) == s.missing = {} /\ s.profile \in VALID_PROFILES
RequireEntra(s) ==
    /\ s.missing = {}
    /\ \A b \in Backends : Profile(s, b) \in VALID_PROFILES

-----------------------------------------------------------------------------
(* The life of the process.                                                *)

(* main, build_gateway: settings are read and checked, or the process ends.*)
Start_FreshStore ==
    /\ phase \in {"down", "rejected"}
    /\ RequireEntra(env)
    /\ phase' = "opening"
    /\ settings' = env
    /\ open' = {"pdp"}
    /\ failed' = FALSE
    /\ leaked' = {}
    /\ store' = [store EXCEPT ![env.key] = {}]
    /\ UNCHANGED <<env, built, issued, expired, discarded, requests>>
Start ==
    /\ phase \in {"down", "rejected"}
    /\ \/ /\ RequireEntra(env)
          /\ phase' = "opening"
          /\ settings' = env
          /\ open' = {"pdp"}
       \/ /\ ~RequireEntra(env)
          /\ phase' = "rejected"
          /\ UNCHANGED <<settings, open>>
    /\ failed' = FALSE
    /\ leaked' = {}
    /\ UNCHANGED <<env, built, sessions, requests>>

(* lifespan: the audit pool first, then requests.                          *)
Opened ==
    /\ phase = "opening"
    /\ phase' = "serving"
    /\ open' = open \cup IF settings.dsn THEN {"pool"} ELSE {}
    /\ UNCHANGED <<env, settings, built, sessions, requests, ended>>

DropRequests ==
    /\ pc' = [r \in Requests |-> "idle"]
    /\ jti' = [r \in Requests |-> None]
    /\ token' = [r \in Requests |-> None]
    /\ principal' = [r \in Requests |-> None]
    /\ shared' = [t \in EntraTokens |-> NoAgent]
    /\ cause' = [r \in Requests |-> "none"]

(* The memory of the process is gone, with every request in it.            *)
Exit(stillOpen, raised) ==
    /\ phase' = "down"
    /\ settings' = None
    /\ open' = {}
    /\ built' = <<>>
    /\ DropRequests
    /\ failed' = raised
    /\ leaked' = stillOpen

(* create_pool raises, or the process dies.                                *)
OpenFails == phase = "opening" /\ settings.dsn /\ Exit(open, TRUE) /\ UNCHANGED <<env, sessions>>
Crash == phase \notin {"down", "rejected"} /\ Exit({}, FALSE) /\ UNCHANGED <<env, sessions>>

Shutdown ==
    /\ phase = "serving"
    /\ phase' = "close pool"
    /\ DropRequests
    /\ UNCHANGED <<env, settings, open, built, sessions, ended>>

(* The finally clause: audit, opa, downstream, in this order; the router   *)
(* closes its providers one after the other.  An aclose that raises ends   *)
(* it there.                                                               *)
Closing == {"close pool", "close pdp", "close router"}

RouterLeft_FirstOnly == <<>>
RouterLeft == Tail(built)

Close ==
    \/ /\ phase = "close pool"
       /\ phase' = "close pdp"
       /\ open' = open \ {"pool"}
       /\ UNCHANGED <<env, settings, built, sessions, requests, ended>>
    \/ /\ phase = "close pdp"
       /\ phase' = "close router"
       /\ open' = open \ {"pdp"}
       /\ UNCHANGED <<env, settings, built, sessions, requests, ended>>
    \/ /\ phase = "close router"
       /\ built # <<>>
       /\ open' = open \ {Head(built)}
       /\ built' = RouterLeft
       /\ UNCHANGED <<env, settings, phase, sessions, requests, ended>>
    \/ /\ phase = "close router"
       /\ built = <<>>
       /\ Exit(open, FALSE)
       /\ UNCHANGED <<env, sessions>>

CloseRaises ==
    /\ phase \in Closing
    /\ phase = "close pool" => "pool" \in open
    /\ phase = "close router" => built # <<>>
    /\ Exit(open, TRUE)
    /\ UNCHANGED <<env, sessions>>

(* The operator edits the environment, or recreates the container, which   *)
(* discards its disk (docs/CLAUDE_CODE_AUTH.md:103-107).                   *)
Deploy(e) == env # e /\ env' = e /\ UNCHANGED <<process, sessions, requests, ended>>

Recreate ==
    /\ phase \in {"down", "rejected"}
    /\ store' = [k \in Keys |-> {}]
    /\ discarded' = {j \in Jtis : issued[j] # None}
    /\ UNCHANGED <<env, process, issued, expired, requests, ended>>

-----------------------------------------------------------------------------
(* Sessions.                                                               *)

(* The OAuth flow of a client ends: Entra's token is stored on disk and a  *)
(* JWT signed, both under the key the process was started with.            *)
Login(j, c, t) ==
    /\ phase = "serving"
    /\ issued[j] = None
    /\ issued' = [issued EXCEPT ![j] =
                              [client |-> c, entra |-> t, key |-> settings.key]]
    /\ store' = [store EXCEPT ![settings.key] = @ \cup {j}]
    /\ UNCHANGED <<env, process, expired, discarded, requests, ended>>

Expire(j) ==
    /\ issued[j] # None
    /\ j \notin expired
    /\ expired' = expired \cup {j}
    /\ UNCHANGED <<env, process, store, issued, discarded, requests, ended>>

(* JWTIssuer.verify_token                                                  *)
Verifies(j) == issued[j].key = settings.key /\ j \notin expired

Refuse(r, why) ==
    /\ pc' = [pc EXCEPT ![r] = "refused"]
    /\ cause' = [cause EXCEPT ![r] = why]

(* A request arrives and OAuthProxy.load_access_token runs to its first    *)
(* await.                                                                  *)
Present(r, j) ==
    /\ phase = "serving"
    /\ pc[r] = "idle"
    /\ issued[j] # None
    /\ jti' = [jti EXCEPT ![r] = j]
    /\ \/ Verifies(j) /\ pc' = [pc EXCEPT ![r] = "swap"] /\ UNCHANGED cause
       \/ ~Verifies(j) /\ Refuse(r, "jwt")
    /\ UNCHANGED <<env, process, sessions, token, principal, shared, ended>>

(* GatewayAzureProvider: the claim goes on a copy of what the validator    *)
(* returned, which other requests may hold too.                            *)
Attach_InPlace(r, t, c) ==
    /\ token' = [token EXCEPT ![r] = [entra |-> t, agent |-> c, copy |-> FALSE]]
    /\ shared' = [shared EXCEPT ![t] = c]
Attach(r, t, c) ==
    /\ token' = [token EXCEPT ![r] = [entra |-> t, agent |-> c, copy |-> TRUE]]
    /\ UNCHANGED shared

AgentClaim(r) == IF token[r].copy THEN token[r].agent ELSE shared[token[r].entra]

Reverifies_Trusting(j) == TRUE
Reverifies(j) == Verifies(j)

(* The await is over: there is a stored Entra token and it validates, or   *)
(* not; then the JWT is verified once more for its client id.              *)
Swapped(r) ==
    LET j == jti[r]
        s == issued[j]
    IN  /\ pc[r] = "swap"
        /\ \/ /\ j \notin store[settings.key]
              /\ Refuse(r, "store")
              /\ UNCHANGED <<token, shared>>
           \/ /\ j \in store[settings.key]
              /\ Refuse(r, "entra")
              /\ UNCHANGED <<token, shared>>
           \/ /\ j \in store[settings.key]
              /\ ~Reverifies(j)
              /\ Refuse(r, "jwt")
              /\ UNCHANGED <<token, shared>>
           \/ /\ j \in store[settings.key]
              /\ Reverifies(j)
              /\ s.client.id = NoAgent
              /\ Refuse(r, "agent")
              /\ UNCHANGED <<token, shared>>
           \/ /\ j \in store[settings.key]
              /\ Reverifies(j)
              /\ s.client.id # NoAgent
              /\ Attach(r, s.entra, s.client.id)
              /\ pc' = [pc EXCEPT ![r] = "admitted"]
              /\ UNCHANGED cause
    /\ UNCHANGED <<env, process, sessions, jti, principal, ended>>

-----------------------------------------------------------------------------
(* principal.py                                                            *)

Or(a, b) == IF a # "" THEN a ELSE b

ClassifyAgent(id) ==
    LET c == CHOOSE x \in Clients \cup {[id |-> NoAgent, url |-> "none"]} : x.id = id
    IN  CASE id = NoAgent -> "unknown"
          [] c.url = "https with host and path" -> "cimd"
          [] OTHER -> "dcr"

FromAccessToken(r) ==
    LET claims == Claims[token[r].entra]
    IN  [actor_sub |-> Or(claims.sub, claims.oid),
         agent_client_id |-> AgentClaim(r),
         agent_kind |-> ClassifyAgent(AgentClaim(r)),
         broker_client_id |-> Or(claims.azp, claims.appid)]

(* A hook of the enforcement point builds the principal.                   *)
Serve(r) ==
    /\ pc[r] = "admitted"
    /\ pc' = [pc EXCEPT ![r] = "served"]
    /\ principal' = [principal EXCEPT ![r] = FromAccessToken(r)]
    /\ UNCHANGED <<env, process, sessions, jti, token, shared, cause, ended>>

(* DownstreamRouter._provider: built on first use, one per regime.         *)
Route(r, b) ==
    LET p == Profile(settings, b)
    IN  /\ pc[r] = "served"
        /\ p \in Providers
        /\ p \notin {built[i] : i \in DOMAIN built}
        /\ built' = Append(built, p)
        /\ open' = open \cup {p}
        /\ UNCHANGED <<env, settings, phase, sessions, requests, ended>>

Answered(r) ==
    /\ pc[r] \in {"served", "refused"}
    /\ pc' = [pc EXCEPT ![r] = "idle"]
    /\ jti' = [jti EXCEPT ![r] = None]
    /\ token' = [token EXCEPT ![r] = None]
    /\ principal' = [principal EXCEPT ![r] = None]
    /\ cause' = [cause EXCEPT ![r] = "none"]
    /\ UNCHANGED <<env, process, sessions, shared, ended>>

-----------------------------------------------------------------------------
Authenticate(r) == (\E j \in Jtis : Present(r, j)) \/ Swapped(r)

Next ==
    \/ Start \/ Opened \/ OpenFails \/ Crash \/ Shutdown \/ Close \/ CloseRaises \/ Recreate
    \/ \E e \in Environments : Deploy(e)
    \/ \E j \in Jtis : Expire(j) \/ \E c \in Clients, t \in EntraTokens : Login(j, c, t)
    \/ \E r \in Requests :
         \/ Authenticate(r) \/ Serve(r) \/ Answered(r)
         \/ \E b \in Backends : Route(r, b)

Spec == Init /\ [][Next]_vars

(* With all requests gone, nothing an aclose waits for is left.            *)
FairSpec == Spec /\ WF_vars(Close \/ CloseRaises)

-----------------------------------------------------------------------------
(* Properties.                                                             *)

Resources == {"pool", "pdp"} \cup VALID_PROFILES
Tokens == [entra : EntraTokens, agent : {c.id : c \in Clients}, copy : BOOLEAN]

(* The values the variables may take; the providers in memory are those    *)
(* that are open, unless the router is closing them.                       *)
TypeOK ==
    /\ env \in Environments
    /\ settings \in Environments \cup {None}
    /\ phase \in {"down", "rejected", "opening", "serving"} \cup Closing
    /\ settings = None <=> phase \in {"down", "rejected"}
    /\ open \subseteq Resources /\ leaked \subseteq Resources
    /\ built \in Seq(VALID_PROFILES)
    /\ {built[i] : i \in DOMAIN built} = open \cap VALID_PROFILES
    /\ store \in [Keys -> SUBSET Jtis]
    /\ issued \in [Jtis -> Sessions \cup {None}]
    /\ expired \subseteq Jtis /\ discarded \subseteq Jtis
    /\ pc \in [Requests -> {"idle", "swap", "admitted", "served", "refused"}]
    /\ jti \in [Requests -> Jtis \cup {None}]
    /\ token \in [Requests -> Tokens \cup {None}]
    /\ cause \in [Requests -> {"none", "jwt", "store", "entra", "agent"}]
    /\ failed \in BOOLEAN

(* Three identities stay three, whatever requests and logins interleave:   *)
(* the principal a request runs under names the human whose Entra token    *)
(* its own session holds, the client its own session was issued to, with   *)
(* how that client registered, and as broker, never as agent, the gateway. *)
IdentitiesStayApart ==
    \A r \in Requests : pc[r] = "served" =>
      LET s == issued[jti[r]]
      IN  /\ principal[r].actor_sub = UserOf[s.entra]
          /\ principal[r].agent_client_id = s.client.id
          /\ principal[r].agent_client_id \notin {NoAgent, Broker}
          /\ principal[r].agent_kind = "cimd" <=> s.client.url = "https with host and path"
          /\ principal[r].broker_client_id = Broker

(* A session is refused only because its JWT expired or was signed with    *)
(* another key than the running one, because Entra's token no longer       *)
(* validates, for want of a client id, or because its container was        *)
(* recreated: no restart, crash or rotation back and forth loses it        *)
(* (docs/CLAUDE_CODE_AUTH.md:103-107).                                     *)
RefusedForCause ==
    \A r \in Requests : pc[r] = "refused" =>
      \/ cause[r] = "jwt" /\ (jti[r] \in expired \/ issued[jti[r]].key # settings.key)
      \/ cause[r] = "store" /\ jti[r] \in discarded
      \/ cause[r] = "agent" /\ issued[jti[r]].client.id = NoAgent
      \/ cause[r] = "entra"

(* A request is admitted on a JWT that has not expired while its Entra     *)
(* token was being fetched, and only on the disk it was issued on.         *)
AdmittedOnLiveSession ==
    [][\A r \in Requests : pc[r] = "swap" /\ pc'[r] = "admitted" =>
         jti[r] \notin expired \cup discarded]_vars

(* While it serves, every backend's regime has a provider: token_for never *)
(* meets a profile _PROVIDERS does not know, own or inherited, even after  *)
(* the environment was edited under it.                                    *)
EveryBackendRoutable ==
    phase = "serving" => \A b \in Backends : Profile(settings, b) \in Providers

(* A shutdown leaves a pool or an HTTP client open only if an aclose       *)
(* before it raised, or the pool never opened.                             *)
LeakNeedsFailure == leaked # {} => failed

-----------------------------------------------------------------------------
(* docs/CLAUDE_CODE_AUTH.md:108-111 a rotated signing key orphans "every   *)
(* existing session, with no restart required".                            *)
RotationNeedsNoRestart ==
    [][\A r \in Requests : pc[r] = "swap" /\ pc'[r] = "admitted" =>
         issued[jti[r]].key = env.key]_vars
=============================================================================
