--------------------------- MODULE GatewayProofs ---------------------------
(***************************************************************************)
(* Theorems about the gateway's process and sessions, for every set of     *)
(* requests, sessions, clients, Entra tokens, keys and environments:       *)
(*   RoutableCorrect      every backend's regime has a provider            *)
(*   LeakCorrect          only a failed shutdown leaves something open     *)
(*   TypeCorrect          the variables keep their types                   *)
(*   IdentitiesCorrect    human, agent and broker stay apart               *)
(*   RefusalCorrect       a session is refused only for cause              *)
(*   AdmissionCorrect     ... and admitted only while it is alive          *)
(* The first two rest on Process, an inductive invariant of the process    *)
(* alone; the others on Session, which is inductive under Process.         *)
(***************************************************************************)
EXTENDS Gateway, TLAPS

-----------------------------------------------------------------------------
(* The process.                                                            *)

Regimes(s) == {s[i] : i \in DOMAIN s}
OneOfEach(s) == \A i, k \in DOMAIN s : s[i] = s[k] => i = k

ProcessTyped ==
    /\ env \in Environments
    /\ settings \in Environments \cup {None}
    /\ phase \in {"down", "rejected", "opening", "serving"} \cup Closing
    /\ settings = None <=> phase \in {"down", "rejected"}
    /\ open \subseteq Resources /\ leaked \subseteq Resources
    /\ built \in Seq(VALID_PROFILES)
    /\ Regimes(built) = open \cap VALID_PROFILES
    /\ failed \in BOOLEAN

(* What was already closed is no longer open.                              *)
ClosedInOrder ==
    /\ settings = None => open = {} /\ built = <<>>
    /\ phase \in {"close pdp", "close router"} => "pool" \notin open
    /\ phase = "close router" => "pdp" \notin open

(* A process runs only with settings that passed the checks.               *)
Checked == settings # None => RequireEntra(settings)

(* Requests are only where the process serves.                             *)
Quiet == phase # "serving" => \A r \in Requests : pc[r] = "idle"

(* The router builds one provider per regime, so closing the head of the   *)
(* list closes all there is of its regime.                                 *)
Process == ProcessTyped /\ OneOfEach(built) /\ ClosedInOrder /\ Checked /\ Quiet /\ LeakNeedsFailure

(* A step of a session, or of a request other than Route, does not touch   *)
(* the process.                                                            *)
ProcessAlone ==
    /\ UNCHANGED <<env, process, ended>>
    /\ UNCHANGED requests \/ phase = "serving"

LEMMA NoProvider == Regimes(<<>>) = {} /\ OneOfEach(<<>>) /\ <<>> \in Seq(VALID_PROFILES)
  BY DEF Regimes, OneOfEach

LEMMA SomeProvider ==
    ASSUME NEW s \in Seq(VALID_PROFILES), Regimes(s) = {}
    PROVE  s = <<>>
  <1>1. s # <<>> => 1 \in DOMAIN s
    OBVIOUS
  <1> QED  BY <1>1 DEF Regimes

(* The list of providers without its head holds the others, each once.     *)
LEMMA TailOfProviders ==
    ASSUME NEW s \in Seq(VALID_PROFILES), s # <<>>, OneOfEach(s)
    PROVE  /\ Tail(s) \in Seq(VALID_PROFILES)
           /\ Regimes(Tail(s)) = Regimes(s) \ {Head(s)}
           /\ OneOfEach(Tail(s))
           /\ Head(s) \in VALID_PROFILES
  <1>1. /\ Len(s) \in Nat \ {0} /\ DOMAIN s = 1 .. Len(s)
        /\ Tail(s) \in Seq(VALID_PROFILES)
        /\ DOMAIN Tail(s) = 1 .. Len(s) - 1
        /\ \A i \in 1 .. Len(s) - 1 : Tail(s)[i] = s[i + 1]
        /\ Head(s) = s[1] /\ s[1] \in VALID_PROFILES
    OBVIOUS
  <1>2. ASSUME NEW x
        PROVE  x \in Regimes(s) \ {Head(s)} => x \in Regimes(Tail(s))
    <2> SUFFICES ASSUME NEW k \in 1 .. Len(s), s[k] # s[1], x = s[k]
                 PROVE  \E i \in 1 .. Len(s) - 1 : x = Tail(s)[i]
      BY <1>1 DEF Regimes
    <2>1. k - 1 \in 1 .. Len(s) - 1 /\ (k - 1) + 1 = k
      BY <1>1
    <2> QED  BY <2>1, <1>1
  <1>3. ASSUME NEW x
        PROVE  x \in Regimes(Tail(s)) => x \in Regimes(s) \ {Head(s)}
    <2> SUFFICES ASSUME NEW i \in 1 .. Len(s) - 1, x = s[i + 1]
                 PROVE  x # s[1] /\ \E k \in 1 .. Len(s) : x = s[k]
      BY <1>1 DEF Regimes
    <2>1. i + 1 \in 1 .. Len(s) /\ i + 1 # 1 /\ 1 \in 1 .. Len(s)
      BY <1>1
    <2>2. s[i + 1] # s[1]
      BY <1>1, <2>1 DEF OneOfEach
    <2> QED  BY <2>1, <2>2
  <1>4. OneOfEach(Tail(s))
    <2> SUFFICES ASSUME NEW i \in 1 .. Len(s) - 1, NEW k \in 1 .. Len(s) - 1,
                        s[i + 1] = s[k + 1]
                 PROVE  i = k
      BY <1>1 DEF OneOfEach
    <2>1. i + 1 \in 1 .. Len(s) /\ k + 1 \in 1 .. Len(s)
      BY <1>1
    <2>2. i + 1 = k + 1
      BY <1>1, <2>1 DEF OneOfEach
    <2> QED  BY <2>2
  <1>5. Regimes(Tail(s)) = Regimes(s) \ {Head(s)}
    BY <1>2, <1>3, Zenon
  <1> QED  BY <1>1, <1>4, <1>5

(* A provider appended for a regime that had none.                         *)
LEMMA AppendedProvider ==
    ASSUME NEW s \in Seq(VALID_PROFILES), NEW p \in VALID_PROFILES,
           p \notin Regimes(s), OneOfEach(s)
    PROVE  /\ Append(s, p) \in Seq(VALID_PROFILES)
           /\ Regimes(Append(s, p)) = Regimes(s) \cup {p}
           /\ OneOfEach(Append(s, p))
  <1>1. /\ Len(s) \in Nat /\ DOMAIN s = 1 .. Len(s)
        /\ Append(s, p) \in Seq(VALID_PROFILES)
        /\ DOMAIN Append(s, p) = 1 .. Len(s) + 1
        /\ \A i \in 1 .. Len(s) : Append(s, p)[i] = s[i]
        /\ Append(s, p)[Len(s) + 1] = p
    OBVIOUS
  <1>2. \A i \in 1 .. Len(s) + 1 : i \in 1 .. Len(s) \/ i = Len(s) + 1
    BY <1>1
  <1>3. /\ \A i \in 1 .. Len(s) : i \in 1 .. Len(s) + 1
        /\ Len(s) + 1 \in 1 .. Len(s) + 1
    BY <1>1
  <1>4. \A i \in 1 .. Len(s) : s[i] # p
    BY <1>1 DEF Regimes
  <1>5. ASSUME NEW x
        PROVE  x \in Regimes(Append(s, p)) <=> x \in Regimes(s) \cup {p}
    BY <1>1, <1>2, <1>3, Zenon DEF Regimes
  <1>6. Regimes(Append(s, p)) = Regimes(s) \cup {p}
    BY <1>5, Zenon
  <1>7. OneOfEach(Append(s, p))
    BY <1>1, <1>2, <1>4 DEF OneOfEach
  <1> QED  BY <1>1, <1>6, <1>7

LEMMA ProcessInit == Init => Process
  BY GatewayAssumption, NoProvider
     DEF Init, Process, ProcessTyped, ClosedInOrder, Checked, Quiet, LeakNeedsFailure

(* A stopping process keeps nothing.                                       *)
LEMMA ExitKeepsProcess ==
    ASSUME Process, NEW stillOpen \in SUBSET Resources, NEW raised \in BOOLEAN,
           stillOpen # {} => raised, Exit(stillOpen, raised), env' = env
    PROVE  Process'
  BY NoProvider DEF Process, ProcessTyped, ClosedInOrder, Checked, Quiet, LeakNeedsFailure, Exit, DropRequests

LEMMA CloseKeepsProcess ==
    ASSUME Process, Close
    PROVE  Process'
  <1> USE DEF Process, ProcessTyped, ClosedInOrder, Checked, Quiet, LeakNeedsFailure,
              Closing, Resources, VALID_PROFILES
  <1>1. CASE phase = "close pool" /\ phase' = "close pdp" /\ open' = open \ {"pool"}
             /\ UNCHANGED <<env, settings, built, sessions, requests, ended>>
    BY <1>1 DEF ended, requests
  <1>2. CASE phase = "close pdp" /\ phase' = "close router" /\ open' = open \ {"pdp"}
             /\ UNCHANGED <<env, settings, built, sessions, requests, ended>>
    BY <1>2 DEF ended, requests
  <1>3. CASE phase = "close router" /\ built # <<>> /\ open' = open \ {Head(built)}
             /\ built' = RouterLeft
             /\ UNCHANGED <<env, settings, phase, sessions, requests, ended>>
    BY <1>3, TailOfProviders DEF ended, requests, RouterLeft
  <1>4. CASE phase = "close router" /\ built = <<>> /\ Exit(open, FALSE)
             /\ UNCHANGED <<env, sessions>>
    <2>1. open = {}
      BY <1>4, NoProvider
    <2> HIDE DEF Process, Resources
    <2> QED  BY <1>4, <2>1, ExitKeepsProcess
  <1> QED  BY <1>1, <1>2, <1>3, <1>4 DEF Close

LEMMA ProcessKept == Process /\ [Next]_vars => Process'
  <1> SUFFICES ASSUME Process, [Next]_vars
               PROVE  Process'
    OBVIOUS
  <1>1. CASE Start
    <2>1. /\ settings = None /\ open = {} /\ built = <<>>
          /\ env \in Environments /\ env # None
          /\ \A r \in Requests : pc[r] = "idle"
      BY <1>1, GatewayAssumption DEF Start, Process, ProcessTyped, ClosedInOrder, Quiet
    <2>2. /\ env' = env /\ built' = <<>> /\ pc' = pc /\ failed' = FALSE /\ leaked' = {}
          /\ \/ phase' = "opening" /\ settings' = env /\ open' = {"pdp"} /\ RequireEntra(env)
             \/ phase' = "rejected" /\ settings' = None /\ open' = {}
      BY <1>1, <2>1 DEF Start, requests
    <2>3. {} = {"pdp"} \cap VALID_PROFILES
      BY DEF VALID_PROFILES
    <2> QED
      BY <2>1, <2>2, <2>3, NoProvider
         DEF Process, ProcessTyped, ClosedInOrder, Checked, Quiet, LeakNeedsFailure, Resources
  <1>2. CASE Opened
    BY <1>2
       DEF Opened, Process, ProcessTyped, ClosedInOrder, Checked, Quiet, LeakNeedsFailure,
           Closing, Resources, VALID_PROFILES, ended, requests
  <1>3. CASE OpenFails \/ Crash \/ CloseRaises
    <2>1. open \in SUBSET Resources
      BY DEF Process, ProcessTyped
    <2> QED  BY <1>3, <2>1, ExitKeepsProcess DEF OpenFails, Crash, CloseRaises
  <1>4. CASE Shutdown
    BY <1>4
       DEF Shutdown, DropRequests, Process, ProcessTyped, ClosedInOrder, Checked, Quiet, LeakNeedsFailure,
           Closing, Resources, VALID_PROFILES, ended, requests
  <1>5. CASE Close
    BY <1>5, CloseKeepsProcess
  <1>6. CASE \E e \in Environments : Deploy(e)
    <2>1. env' \in Environments /\ UNCHANGED <<process, ended, requests>>
      BY <1>6 DEF Deploy
    <2> QED
      BY <2>1 DEF Process, ProcessTyped, ClosedInOrder, Checked, Quiet, LeakNeedsFailure, process, ended, requests
  <1>7. CASE \E r \in Requests, b \in Backends : Route(r, b)
    <2>1. PICK r \in Requests, b \in Backends : Route(r, b)
      BY <1>7
    <2>2. Profile(settings, b) \in VALID_PROFILES
      BY <2>1 DEF Route, Providers, VALID_PROFILES
    <2>3. Profile(settings, b) \notin Regimes(built)
      BY <2>1 DEF Route, Regimes
    <2>4. /\ built' \in Seq(VALID_PROFILES) /\ OneOfEach(built')
          /\ Regimes(built') = Regimes(built) \cup {Profile(settings, b)}
      BY <2>1, <2>2, <2>3, AppendedProvider DEF Route, Process, ProcessTyped
    <2>5. /\ open' = open \cup {Profile(settings, b)}
          /\ UNCHANGED <<env, settings, phase, failed, leaked>>
      BY <2>1 DEF Route, ended
    <2>6. ProcessTyped'
      BY <2>2, <2>4, <2>5 DEF Process, ProcessTyped, Resources, VALID_PROFILES
    <2>7. ClosedInOrder'
      BY <2>1, <2>2, <2>5 DEF Route, Process, ProcessTyped, ClosedInOrder, Quiet, VALID_PROFILES
    <2>8. Quiet'
      BY <2>1 DEF Route, Process, Quiet
    <2> QED
      BY <2>4, <2>5, <2>6, <2>7, <2>8 DEF Process, Checked, LeakNeedsFailure
  <1>8. CASE ProcessAlone
    BY <1>8 DEF ProcessAlone, Process, ProcessTyped, ClosedInOrder, Checked, Quiet,
                LeakNeedsFailure, process, ended, requests
  <1>9. CASE Recreate \/ \E j \in Jtis : Expire(j) \/ \E c \in Clients, t \in EntraTokens : Login(j, c, t)
    BY <1>9, <1>8 DEF Recreate, Expire, Login, ProcessAlone
  <1>10. CASE \E r \in Requests : Authenticate(r) \/ Serve(r) \/ Answered(r)
    <2>1. \A r \in Requests : pc[r] # "idle" => phase = "serving"
      BY DEF Process, Quiet
    <2> QED
      BY <1>10, <1>8, <2>1 DEF Authenticate, Present, Swapped, Serve, Answered, ProcessAlone
  <1>11. CASE UNCHANGED vars
    BY <1>11, <1>8 DEF vars, ProcessAlone
  <1> QED
    BY <1>1, <1>2, <1>3, <1>4, <1>5, <1>6, <1>7, <1>9, <1>10, <1>11 DEF Next

LEMMA ProcessAlways == Spec => []Process
  BY ProcessInit, ProcessKept, PTL DEF Spec

(* Settings are checked for every backend before anything is built, and a  *)
(* running process keeps the settings it read, whatever is deployed later. *)
THEOREM RoutableCorrect == Spec => []EveryBackendRoutable
  <1>1. Process => EveryBackendRoutable
    BY DEF Process, ProcessTyped, Checked, EveryBackendRoutable, RequireEntra, Providers,
           VALID_PROFILES
  <1> QED  BY <1>1, ProcessAlways, PTL

(* Shutdown closes all it opened, unless an aclose raised.                 *)
THEOREM LeakCorrect == Spec => []LeakNeedsFailure
  <1>1. Process => LeakNeedsFailure
    BY DEF Process
  <1> QED  BY <1>1, ProcessAlways, PTL

-----------------------------------------------------------------------------
(* Sessions and the requests that use them.                                *)

SessionTyped ==
    /\ store \in [Keys -> SUBSET Jtis]
    /\ issued \in [Jtis -> Sessions \cup {None}]
    /\ expired \subseteq Jtis /\ discarded \subseteq Jtis

RequestTyped ==
    /\ pc \in [Requests -> {"idle", "swap", "admitted", "served", "refused"}]
    /\ jti \in [Requests -> Jtis \cup {None}]
    /\ token \in [Requests -> Tokens \cup {None}]
    /\ principal = [r \in Requests |-> principal[r]]
    /\ cause \in [Requests -> {"none", "jwt", "store", "entra", "agent"}]

(* A session is on the disk of its key until its container is recreated.   *)
Stored ==
    \A j \in Jtis :
      /\ issued[j] = None => j \notin discarded
      /\ issued[j] # None => (j \in store[issued[j].key] <=> j \notin discarded)

Carries(r, s) == token[r] = [entra |-> s.entra, agent |-> s.client.id, copy |-> TRUE]

Identified(p, s) ==
    /\ p.actor_sub = UserOf[s.entra]
    /\ p.agent_client_id = s.client.id
    /\ p.agent_client_id \notin {NoAgent, Broker}
    /\ p.agent_kind = "cimd" <=> s.client.url = "https with host and path"
    /\ p.broker_client_id = Broker

HasCause(r) ==
    \/ cause[r] = "jwt" /\ (jti[r] \in expired \/ issued[jti[r]].key # settings.key)
    \/ cause[r] = "store" /\ jti[r] \in discarded
    \/ cause[r] = "agent" /\ issued[jti[r]].client.id = NoAgent
    \/ cause[r] = "entra"

(* What a request knows of its session at each point: from "swap" on it is *)
(* one of the running key, and from "admitted" on its copy of the token    *)
(* names the session's own client.                                         *)
Known(r) ==
    /\ pc[r] # "idle" => jti[r] \in Jtis /\ issued[jti[r]] \in Sessions
    /\ pc[r] = "swap" => issued[jti[r]].key = settings.key
    /\ pc[r] \in {"admitted", "served"} =>
         Carries(r, issued[jti[r]]) /\ issued[jti[r]].client.id # NoAgent
    /\ pc[r] = "served" => Identified(principal[r], issued[jti[r]])
    /\ pc[r] = "refused" => HasCause(r)

Session == SessionTyped /\ RequestTyped /\ Stored /\ \A r \in Requests : Known(r)

LEMMA SessionInit == Init => Session
  <1> SUFFICES ASSUME Init
               PROVE  Session
    OBVIOUS
  <1>1. SessionTyped /\ RequestTyped
    BY DEF Init, SessionTyped, RequestTyped
  <1>2. Stored
    BY DEF Init, Stored
  <1>3. \A r \in Requests : Known(r)
    BY DEF Init, Known
  <1> QED  BY <1>1, <1>2, <1>3 DEF Session

(* The request of another task, or any request while sessions are issued   *)
(* or expire, knows what it knew.                                          *)
LEMMA KnownStays ==
    ASSUME NEW r \in Requests, Known(r), settings' = settings, discarded' = discarded,
           expired \subseteq expired',
           \A j \in Jtis : issued[j] \in Sessions => issued'[j] = issued[j],
           pc'[r] = pc[r], jti'[r] = jti[r], token'[r] = token[r],
           principal'[r] = principal[r], cause'[r] = cause[r]
    PROVE  Known(r)'
  <1>1. CASE pc[r] = "idle"
    BY <1>1 DEF Known
  <1>2. CASE pc[r] # "idle"
    <2>1. issued'[jti'[r]] = issued[jti[r]]
      BY <1>2 DEF Known
    <2> QED  BY <1>2, <2>1 DEF Known, Carries, HasCause
  <1> QED  BY <1>1, <1>2

(* An idle request knows nothing.                                          *)
LEMMA IdleKnows ==
    ASSUME NEW r \in Requests, pc'[r] = "idle"
    PROVE  Known(r)'
  BY DEF Known

LEMMA DroppedRequests ==
    ASSUME DropRequests, SessionTyped, Stored, UNCHANGED sessions
    PROVE  Session'
  <1>1. RequestTyped' /\ \A r \in Requests : pc'[r] = "idle"
    BY DEF DropRequests, RequestTyped
  <1>2. SessionTyped' /\ Stored'
    BY DEF SessionTyped, Stored, sessions
  <1> QED  BY <1>1, <1>2, IdleKnows DEF Session

(* A client id determines its client, so ClassifyAgent sees how the very   *)
(* client of the session registered.                                       *)
LEMMA Classified ==
    ASSUME NEW c \in Clients, c.id # NoAgent
    PROVE  ClassifyAgent(c.id) = "cimd" <=> c.url = "https with host and path"
  <1> DEFINE known == Clients \cup {[id |-> NoAgent, url |-> "none"]}
  <1>1. ASSUME NEW x \in known, x.id = c.id
        PROVE  x = c
    <2>1. CASE x \in Clients
      BY <1>1, <2>1, GatewayAssumption
    <2>2. CASE x = [id |-> NoAgent, url |-> "none"]
      BY <1>1, <2>2
    <2> QED  BY <2>1, <2>2
  <1>2. (CHOOSE x \in known : x.id = c.id) = c
    <2>1. c \in known
      OBVIOUS
    <2> HIDE DEF known
    <2> QED  BY <1>1, <2>1
  <1> HIDE DEF known
  <1>3. ClassifyAgent(c.id) =
          CASE c.id = NoAgent -> "unknown"
            [] c.url = "https with host and path" -> "cimd"
            [] OTHER -> "dcr"
    BY <1>2 DEF ClassifyAgent, known
  <1> QED  BY <1>3

(* The principal of a request that carries its session's token.            *)
LEMMA PrincipalIdentified ==
    ASSUME NEW r \in Requests, NEW s \in Sessions, Carries(r, s), s.client.id # NoAgent
    PROVE  Identified(FromAccessToken(r), s)
  <1>1. s.client \in Clients /\ s.entra \in EntraTokens
    BY DEF Sessions
  <1>2. AgentClaim(r) = s.client.id /\ token[r].entra = s.entra
    BY DEF Carries, AgentClaim
  <1>3. /\ UserOf[s.entra] = Or(Claims[s.entra].sub, Claims[s.entra].oid)
        /\ Broker = Or(Claims[s.entra].azp, Claims[s.entra].appid)
        /\ s.client.id # Broker
    BY <1>1, GatewayAssumption DEF Or
  <1>4. ClassifyAgent(s.client.id) = "cimd" <=> s.client.url = "https with host and path"
    BY <1>1, Classified
  <1>5. FromAccessToken(r) =
          [actor_sub |-> UserOf[s.entra], agent_client_id |-> s.client.id,
           agent_kind |-> ClassifyAgent(s.client.id), broker_client_id |-> Broker]
    BY <1>2, <1>3 DEF FromAccessToken
  <1>6. /\ FromAccessToken(r).actor_sub = UserOf[s.entra]
        /\ FromAccessToken(r).agent_client_id = s.client.id
        /\ FromAccessToken(r).agent_kind = ClassifyAgent(s.client.id)
        /\ FromAccessToken(r).broker_client_id = Broker
    BY <1>5
  <1> QED  BY <1>3, <1>4, <1>6 DEF Identified

(* A login makes a new session, on the disk of the running key.            *)
LEMMA LoginKeepsSession ==
    ASSUME Process, Session, NEW j \in Jtis, NEW c \in Clients, NEW t \in EntraTokens,
           Login(j, c, t)
    PROVE  Session'
  <1> DEFINE s == [client |-> c, entra |-> t, key |-> settings.key]
  <1>1. settings \in Environments /\ settings.key \in Keys
    BY GatewayAssumption DEF Login, Process, ProcessTyped
  <1>2. s \in Sessions /\ s # None /\ s.key = settings.key
    <2>1. s \in Sessions /\ s.key = settings.key
      BY <1>1 DEF Sessions
    <2> QED  BY <2>1, GatewayAssumption
  <1> HIDE DEF s
  <1>3. /\ issued[j] = None /\ issued' = [issued EXCEPT ![j] = s]
        /\ store' = [store EXCEPT ![settings.key] = @ \cup {j}]
        /\ settings' = settings /\ expired' = expired /\ discarded' = discarded
        /\ UNCHANGED <<pc, jti, token, principal, cause>>
    BY DEF Login, s, process, requests
  <1>4. SessionTyped'
    BY <1>1, <1>2, <1>3 DEF Session, SessionTyped
  <1>5. Stored'
    <2> SUFFICES ASSUME NEW i \in Jtis
                 PROVE  /\ issued'[i] = None => i \notin discarded
                        /\ issued'[i] # None => (i \in store'[issued'[i].key] <=> i \notin discarded)
      BY <1>3 DEF Stored
    <2>1. CASE i = j
      <3>1. issued'[i] = s /\ i \notin discarded
        BY <2>1, <1>3 DEF Session, SessionTyped, Stored
      <3>2. i \in store'[s.key]
        BY <2>1, <1>1, <1>2, <1>3 DEF Session, SessionTyped
      <3> QED  BY <3>1, <3>2, <1>2
    <2>2. CASE i # j
      <3>1. issued'[i] = issued[i] /\ (issued[i] # None => issued[i].key \in Keys)
        BY <2>2, <1>3 DEF Session, SessionTyped, Sessions
      <3>2. \A k \in Keys : i \in store'[k] <=> i \in store[k]
        BY <2>2, <1>1, <1>3 DEF Session, SessionTyped
      <3> QED  BY <3>1, <3>2 DEF Session, Stored
    <2> QED  BY <2>1, <2>2
  <1>6. RequestTyped'
    BY <1>3 DEF Session, RequestTyped
  <1>7. \A i \in Jtis : issued[i] \in Sessions => issued'[i] = issued[i]
    BY <1>3, GatewayAssumption DEF Session, SessionTyped
  <1>8. \A r \in Requests : Known(r)'
    BY <1>3, <1>7, KnownStays DEF Session
  <1> QED  BY <1>4, <1>5, <1>6, <1>8 DEF Session

(* What a step of one request leaves alone.                                *)
LEMMA OthersKnow ==
    ASSUME Session, NEW r \in Requests, UNCHANGED <<settings, sessions>>,
           RequestTyped', Known(r)',
           \A o \in Requests \ {r} :
             /\ pc'[o] = pc[o] /\ jti'[o] = jti[o] /\ token'[o] = token[o]
             /\ principal'[o] = principal[o] /\ cause'[o] = cause[o]
    PROVE  Session'
  <1>1. SessionTyped' /\ Stored'
    BY DEF Session, SessionTyped, Stored, sessions
  <1>2. \A o \in Requests \ {r} : Known(o)'
    BY KnownStays DEF Session, sessions
  <1> QED  BY <1>1, <1>2 DEF Session

LEMMA PresentKeepsSession ==
    ASSUME Session, NEW r \in Requests, NEW j \in Jtis, Present(r, j)
    PROVE  Session'
  <1>1. /\ issued[j] \in Sessions
        /\ jti' = [jti EXCEPT ![r] = j]
        /\ UNCHANGED <<settings, issued, expired, token, principal>>
    BY DEF Present, Session, SessionTyped, process, sessions
  <1>2. \/ /\ pc' = [pc EXCEPT ![r] = "swap"] /\ cause' = cause
           /\ issued[j].key = settings.key
        \/ /\ pc' = [pc EXCEPT ![r] = "refused"] /\ cause' = [cause EXCEPT ![r] = "jwt"]
           /\ issued[j].key # settings.key \/ j \in expired
    BY DEF Present, Verifies, Refuse
  <1>3. RequestTyped'
    BY <1>1, <1>2 DEF Session, RequestTyped
  <1>4. Known(r)'
    BY <1>1, <1>2 DEF Session, RequestTyped, Known, HasCause
  <1>5. \A o \in Requests \ {r} :
          /\ pc'[o] = pc[o] /\ jti'[o] = jti[o] /\ token'[o] = token[o]
          /\ principal'[o] = principal[o] /\ cause'[o] = cause[o]
    BY <1>1, <1>2 DEF Session, RequestTyped
  <1> QED  BY <1>3, <1>4, <1>5, OthersKnow DEF Present, process

LEMMA SwappedKeepsSession ==
    ASSUME Session, NEW r \in Requests, Swapped(r)
    PROVE  Session'
  <1> DEFINE j == jti[r]
             s == issued[j]
  <1>1. /\ pc[r] = "swap" /\ j \in Jtis /\ s \in Sessions /\ s.key = settings.key
        /\ s # None
        /\ UNCHANGED <<settings, sessions, jti, principal>>
    BY GatewayAssumption DEF Swapped, Session, Known, process
  <1>2. \/ \E why \in {"store", "entra", "jwt", "agent"} :
             /\ pc' = [pc EXCEPT ![r] = "refused"] /\ cause' = [cause EXCEPT ![r] = why]
             /\ token' = token
             /\ why = "store" => j \in discarded
             /\ why = "jwt" => j \in expired
             /\ why = "agent" => s.client.id = NoAgent
        \/ /\ pc' = [pc EXCEPT ![r] = "admitted"] /\ cause' = cause
           /\ token' = [token EXCEPT ![r] = [entra |-> s.entra, agent |-> s.client.id, copy |-> TRUE]]
           /\ s.client.id # NoAgent
    BY <1>1 DEF Swapped, Refuse, Attach, Reverifies, Verifies, Session, Stored
  <1>3. [entra |-> s.entra, agent |-> s.client.id, copy |-> TRUE] \in Tokens
    BY <1>1 DEF Sessions, Tokens
  <1> HIDE DEF j, s
  <1>4. RequestTyped'
    BY <1>1, <1>2, <1>3 DEF Session, RequestTyped
  <1>5. Known(r)'
    BY <1>1, <1>2 DEF Session, RequestTyped, Known, HasCause, Carries, sessions, j, s
  <1>6. \A o \in Requests \ {r} :
          /\ pc'[o] = pc[o] /\ jti'[o] = jti[o] /\ token'[o] = token[o]
          /\ principal'[o] = principal[o] /\ cause'[o] = cause[o]
    BY <1>1, <1>2 DEF Session, RequestTyped
  <1> QED  BY <1>1, <1>4, <1>5, <1>6, OthersKnow

LEMMA ServeKeepsSession ==
    ASSUME Session, NEW r \in Requests, Serve(r)
    PROVE  Session'
  <1>1. /\ pc[r] = "admitted" /\ pc' = [pc EXCEPT ![r] = "served"]
        /\ principal' = [principal EXCEPT ![r] = FromAccessToken(r)]
        /\ UNCHANGED <<settings, sessions, jti, token, cause>>
    BY DEF Serve, process
  <1>2. Identified(FromAccessToken(r), issued[jti[r]])
    BY <1>1, PrincipalIdentified DEF Session, Known
  <1>3. RequestTyped'
    BY <1>1 DEF Session, RequestTyped
  <1>4. principal'[r] = FromAccessToken(r) /\ pc'[r] = "served"
    BY <1>1 DEF Session, RequestTyped
  <1>5. Known(r)'
    BY <1>1, <1>2, <1>4 DEF Session, Known, Carries, sessions
  <1>6. \A o \in Requests \ {r} :
          /\ pc'[o] = pc[o] /\ jti'[o] = jti[o] /\ token'[o] = token[o]
          /\ principal'[o] = principal[o] /\ cause'[o] = cause[o]
    BY <1>1 DEF Session, RequestTyped
  <1> QED  BY <1>1, <1>3, <1>5, <1>6, OthersKnow

LEMMA AnsweredKeepsSession ==
    ASSUME Session, NEW r \in Requests, Answered(r)
    PROVE  Session'
  <1>1. RequestTyped' /\ pc'[r] = "idle"
    BY DEF Answered, Session, RequestTyped
  <1>2. \A o \in Requests \ {r} :
          /\ pc'[o] = pc[o] /\ jti'[o] = jti[o] /\ token'[o] = token[o]
          /\ principal'[o] = principal[o] /\ cause'[o] = cause[o]
    BY DEF Answered, Session, RequestTyped
  <1> QED  BY <1>1, <1>2, IdleKnows, OthersKnow DEF Answered, process

LEMMA SessionKept == Process /\ Session /\ [Next]_vars => Session'
  <1> SUFFICES ASSUME Process, Session, [Next]_vars
               PROVE  Session'
    OBVIOUS
  <1>1. SessionTyped /\ Stored /\ RequestTyped
    BY DEF Session
  <1>2. CASE OpenFails \/ Crash \/ CloseRaises \/ Shutdown
    BY <1>1, <1>2, DroppedRequests DEF OpenFails, Crash, CloseRaises, Shutdown, Exit
  <1>3. CASE UNCHANGED <<sessions, requests>> /\ settings' = settings
    <2>1. SessionTyped' /\ Stored' /\ RequestTyped'
      BY <1>1, <1>3 DEF SessionTyped, Stored, RequestTyped, sessions, requests
    <2>2. \A r \in Requests : Known(r)'
      BY <1>3, KnownStays DEF Session, sessions, requests
    <2> QED  BY <2>1, <2>2 DEF Session
  <1>4. CASE Start
    <2>1. /\ UNCHANGED <<sessions, requests>>
          /\ \A r \in Requests : pc[r] = "idle"
      BY <1>4 DEF Start, Process, Quiet
    <2>2. SessionTyped' /\ Stored' /\ RequestTyped' /\ \A r \in Requests : pc'[r] = "idle"
      BY <1>1, <2>1 DEF SessionTyped, Stored, RequestTyped, sessions, requests
    <2> QED  BY <2>2, IdleKnows DEF Session
  <1>5. CASE Opened \/ (\E e \in Environments : Deploy(e))
             \/ (\E r \in Requests, b \in Backends : Route(r, b)) \/ UNCHANGED vars
    BY <1>3, <1>5 DEF Opened, Deploy, Route, process, vars
  <1>6. CASE Close
    <2>1. \/ Exit(open, FALSE) /\ UNCHANGED <<env, sessions>>
          \/ UNCHANGED <<sessions, requests>> /\ settings' = settings
      BY <1>6 DEF Close
    <2> QED  BY <1>1, <1>3, <2>1, DroppedRequests DEF Exit
  <1>7. CASE Recreate
    <2>1. /\ store' = [k \in Keys |-> {}] /\ discarded' = {j \in Jtis : issued[j] # None}
          /\ UNCHANGED <<issued, expired, requests>>
          /\ \A r \in Requests : pc[r] = "idle"
      BY <1>7 DEF Recreate, Process, Quiet
    <2>2. SessionTyped' /\ RequestTyped' /\ \A r \in Requests : pc'[r] = "idle"
      BY <1>1, <2>1 DEF SessionTyped, RequestTyped, requests
    <2>3. Stored'
      <3> SUFFICES ASSUME NEW j \in Jtis
                   PROVE  /\ issued[j] = None => j \notin discarded'
                          /\ issued[j] # None =>
                               (j \in store'[issued[j].key] <=> j \notin discarded')
        BY <2>1 DEF Stored
      <3>1. issued[j] # None => issued[j].key \in Keys
        BY <1>1 DEF SessionTyped, Sessions
      <3> QED  BY <2>1, <3>1
    <2> QED  BY <2>2, <2>3, IdleKnows DEF Session
  <1>8. CASE \E j \in Jtis : Expire(j)
    <2>1. /\ expired \subseteq expired' /\ expired' \subseteq Jtis
          /\ UNCHANGED <<settings, store, issued, discarded, requests>>
      BY <1>1, <1>8 DEF Expire, SessionTyped, process
    <2>2. SessionTyped' /\ Stored' /\ RequestTyped'
      BY <1>1, <2>1 DEF SessionTyped, Stored, RequestTyped, requests
    <2>3. \A r \in Requests : Known(r)'
      BY <2>1, KnownStays DEF Session, requests
    <2> QED  BY <2>2, <2>3 DEF Session
  <1>9. CASE \E j \in Jtis, c \in Clients, t \in EntraTokens : Login(j, c, t)
    BY <1>9, LoginKeepsSession
  <1>10. CASE \E r \in Requests : Authenticate(r)
    BY <1>10, PresentKeepsSession, SwappedKeepsSession DEF Authenticate
  <1>11. CASE \E r \in Requests : Serve(r) \/ Answered(r)
    BY <1>11, ServeKeepsSession, AnsweredKeepsSession
  <1> QED
    BY <1>2, <1>4, <1>5, <1>6, <1>7, <1>8, <1>9, <1>10, <1>11 DEF Next

LEMMA SessionAlways == Spec => [](Process /\ Session)
  BY ProcessInit, ProcessKept, SessionInit, SessionKept, PTL DEF Spec

(* The variables keep their types; in particular the router closes what it *)
(* built and nothing else.                                                 *)
THEOREM TypeCorrect == Spec => []TypeOK
  <1>1. Process /\ Session => TypeOK
    BY DEF Process, ProcessTyped, Regimes, Session, SessionTyped, RequestTyped, TypeOK
  <1> QED  BY <1>1, SessionAlways, PTL

(* Human, agent and broker stay apart, for any number of sessions of any   *)
(* clients that share a validated Entra token.                             *)
THEOREM IdentitiesCorrect == Spec => []IdentitiesStayApart
  <1>1. Session => IdentitiesStayApart
    BY DEF Session, Known, Identified, IdentitiesStayApart
  <1> QED  BY <1>1, SessionAlways, PTL

(* No restart, crash or rotation loses a session.                          *)
THEOREM RefusalCorrect == Spec => []RefusedForCause
  <1>1. Session => RefusedForCause
    BY DEF Session, Known, HasCause, RefusedForCause
  <1> QED  BY <1>1, SessionAlways, PTL

(* How a step can change where requests are.                               *)
LEMMA OnlySwapAdmits ==
    ASSUME [Next]_vars, pc' # pc
    PROVE  \/ \A o \in Requests : pc'[o] = "idle"
           \/ \E o \in Requests, v \in {"swap", "refused", "served", "idle"} :
                pc' = [pc EXCEPT ![o] = v]
           \/ \E o \in Requests : Swapped(o)
  <1>1. CASE OpenFails \/ Crash \/ CloseRaises \/ Shutdown \/ Close
    BY <1>1 DEF OpenFails, Crash, CloseRaises, Shutdown, Close, Exit, DropRequests, requests
  <1>2. CASE \E r \in Requests : Authenticate(r) \/ Serve(r) \/ Answered(r)
    BY <1>2 DEF Authenticate, Present, Refuse, Serve, Answered
  <1>3. CASE Start \/ Opened \/ Recreate \/ (\E e \in Environments : Deploy(e))
             \/ (\E j \in Jtis : Expire(j) \/ \E c \in Clients, t \in EntraTokens : Login(j, c, t))
             \/ (\E r \in Requests, b \in Backends : Route(r, b)) \/ UNCHANGED vars
    BY <1>3 DEF Start, Opened, Recreate, Deploy, Expire, Login, Route, vars, requests
  <1> QED  BY <1>1, <1>2, <1>3 DEF Next

(* What is admitted has neither expired nor lost its disk by then.         *)
THEOREM AdmissionCorrect == Spec => AdmittedOnLiveSession
  <1>1. ASSUME Process, Session, [Next]_vars, NEW r \in Requests,
               pc[r] = "swap", pc'[r] = "admitted"
        PROVE  jti[r] \notin expired \cup discarded
    <2>1. Swapped(r)
      <3>1. pc' # pc
        BY <1>1
      <3>2. ASSUME \A o \in Requests : pc'[o] = "idle"
            PROVE  FALSE
        BY <1>1, <3>2
      <3>3. ASSUME NEW o \in Requests, NEW v \in {"swap", "refused", "served", "idle"},
                   pc' = [pc EXCEPT ![o] = v]
            PROVE  FALSE
        BY <1>1, <3>3 DEF Session, RequestTyped
      <3>4. ASSUME NEW o \in Requests, Swapped(o), o # r
            PROVE  FALSE
        BY <1>1, <3>4 DEF Swapped, Refuse, Session, RequestTyped
      <3>5. \/ \A o \in Requests : pc'[o] = "idle"
            \/ \E o \in Requests, v \in {"swap", "refused", "served", "idle"} :
                 pc' = [pc EXCEPT ![o] = v]
            \/ \E o \in Requests : Swapped(o)
        BY <1>1, <3>1, OnlySwapAdmits
      <3> QED  BY <3>2, <3>3, <3>4, <3>5
    <2>2. jti[r] \in store[settings.key] /\ jti[r] \notin expired
      BY <1>1, <2>1 DEF Swapped, Refuse, Reverifies, Verifies, Session, RequestTyped
    <2>3. jti[r] \notin discarded
      BY <1>1, <2>2, GatewayAssumption DEF Session, Known, Stored
    <2> QED  BY <2>2, <2>3
  <1>2. Process /\ Session /\ [Next]_vars =>
          [\A r \in Requests : pc[r] = "swap" /\ pc'[r] = "admitted" =>
             jti[r] \notin expired \cup discarded]_vars
    BY <1>1
  <1> QED  BY <1>2, SessionAlways, PTL DEF Spec, AdmittedOnLiveSession
=============================================================================
