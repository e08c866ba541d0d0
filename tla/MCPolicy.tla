------------------------------ MODULE MCPolicy ------------------------------
(***************************************************************************)
(* Instance of Policy for TLC: the tools, servers and roles of the shipped *)
(* data.json, under every enforcement mode (one of them a typo), with both *)
(* servers enabled or only one, each allowlist empty or not, and the       *)
(* limits set or missing.  The list of URLs, where it is not empty, holds  *)
(* a dynamic id as well, by mistake.  Amounts run from below -cap to above *)
(* cap.                                                                    *)
(***************************************************************************)
EXTENDS Policy, TLC

CONSTANTS crm, ledger

List == "crm_list_customers"
Balance == "ledger_get_balance"
Unknown == "unregistered"

MCServerOf ==
    List :> crm @@ Update :> crm @@ Balance :> ledger @@ Post :> ledger @@ Unknown :> ledger
MCPolicyArgs ==
    List :> {} @@ Update :> {"tier"} @@ Balance :> {} @@ Post :> {"amount"} @@ Unknown :> {}
MCRoleOf ==
    List :> "" @@ Update :> "crm.write" @@ Balance :> "" @@ Post :> "ledger.write" @@ Unknown :> ""

Tool(server, role) == [server |-> server, required_role |-> role]

MCConfigurations ==
    [agent_enforcement : {"absent", "audit", "allowlist", "alowlist"},
     allowed_agents : {{}, {"https://client", "uuid"}},
     allowed_dynamic_client_ids : {{}, {"uuid"}},
     enabled_servers : {{crm, ledger}, {crm}},
     server_roles : {crm :> {"crm.read"} @@ ledger :> {"ledger.read"}},
     tools : {List :> Tool(crm, "") @@ Update :> Tool(crm, "crm.write")
              @@ Balance :> Tool(ledger, "") @@ Post :> Tool(ledger, "ledger.write")},
     limits : {[max_amount |-> 1, allowed_tiers |-> {"smb"}], <<>>}]

Agents ==
    {[id |-> "https://client", kind |-> "cimd"], [id |-> "https://other", kind |-> "cimd"],
     [id |-> "uuid", kind |-> "dcr"], [id |-> "", kind |-> "unknown"]}

Number(n) == [type |-> "number", value |-> n]
Text(s) == [type |-> "string", value |-> s]

MCArguments ==
    {<<>>, "amount" :> Text("1"), "tier" :> Number(1), "tier" :> Text("smb"), "tier" :> Text("vip")}
    \cup {("amount" :> Number(n)) @@ ("memo" :> Text("x")) : n \in -2..2}

Roles == SUBSET {"crm.read", "ledger.read", "crm.write", "ledger.write"}

MCCallRequests ==
    [agent : Agents, roles : Roles,
     tool : DOMAIN MCServerOf, args : MCArguments]

MCListRequests ==
    [agent : Agents, roles : Roles, server : {crm, ledger}]

(* The shipped registry and data.json meet the premises of PolicyProofs.   *)
ASSUME ShippedTogether == Declared /\ SameServer /\ SameRole /\ Satisfiable
=============================================================================
