----------------------------- MODULE Backends -----------------------------
(***************************************************************************)
(* The two backend MCP servers, mcp-server-a (CRM) and mcp-server-b        *)
(* (ledger): the token verifier of their app/auth.py and the tools of      *)
(* their app/main.py over module-level data.                               *)
(*                                                                         *)
(* FastMCP runs these synchronous tools in a pool of threads, so calls     *)
(* interleave wherever the interpreter may switch threads: between the     *)
(* read and the store of a balance, the store and the journal, the journal *)
(* and the second read.  A tool that returns a live dict has it serialised *)
(* by the event loop later.  pc names what a call does next:               *)
(*   "idle", "run", "store", "journal", "reread", "serialise",             *)
(*   "answered", "raised", "rejected" (401, before any tool)               *)
(*                                                                         *)
(* Money is counted in mills, a tenth of a cent: round(x, 2) is what it    *)
(* does to them.                                                           *)
(***************************************************************************)
EXTENDS Integers, FiniteSets, Sequences, Functions

CONSTANTS
    Calls,          \* HTTP requests with a bearer token
    Accounts,       \* keys of _BALANCES
    Opening,        \* [Accounts -> Int]: the balances at start
    Amounts,        \* what callers post, in mills
    Customers,      \* ids in _CUSTOMERS
    Tiers,
    FirstTier,      \* [Customers -> Tiers]
    Unknown,        \* an account or a customer id that does not exist
    None

Servers == {"mcp-server-a", "mcp-server-b"}
Gateway == "mcp-gateway"

(* Audiences of Entra tokens: a server's Application ID URI, as in a token *)
(* for a per-tool scope, or its bare application id, as in one for         *)
(* ".default"; and the gateway's own, of the user's token.                 *)
Audiences == Servers \X {"uri", "id"} \cup {<<Gateway, "uri">>}

Requests ==
    [tool : {"ledger_get_balance"}, account : Accounts \cup {Unknown}]
    \cup [tool : {"ledger_post_entry"}, account : Accounts \cup {Unknown}, amount : Amounts]
    \cup [tool : {"crm_list_customers"}]
    \cup [tool : {"crm_update_customer"}, customer : Customers \cup {Unknown}, tier : Tiers]

ASSUME BackendsAssumption ==
    /\ Opening \in [Accounts -> Int]
    /\ \A a \in Accounts : Opening[a] % 10 = 0
    /\ Amounts \subseteq Int
    /\ \A x \in Amounts : x % 10 # 5      \* where round(x, 2) depends on binary fractions
    /\ FirstTier \in [Customers -> Tiers]
    /\ Unknown \notin Accounts \cup Customers
    /\ None \notin Requests

ServerOf(q) ==
    IF q.tool \in {"ledger_get_balance", "ledger_post_entry"} THEN "mcp-server-b"
                                                              ELSE "mcp-server-a"

VARIABLES
    pc,
    call,           \* what a call asks for
    aud,            \* the audience of its token
    sum,            \* the thread's balance + amount, before it is stored
    balance,        \* _BALANCES
    entries,        \* _ENTRIES, each with the call it is of
    tier,           \* _CUSTOMERS
    answer,         \* what the client is told
    raced,          \* history: accounts where two postings overlapped
    overtook        \* history: the updates that set the tier of a call's customer
                    \* after the call did and before its answer was made, in order

data == <<balance, entries, tier, raced, overtook>>
vars == <<pc, call, aud, sum, data, answer>>

Init ==
    /\ pc = [c \in Calls |-> "idle"]
    /\ call = [c \in Calls |-> None]
    /\ aud = [c \in Calls |-> None]
    /\ sum = [c \in Calls |-> 0]
    /\ balance = Opening
    /\ entries = <<>>
    /\ tier = FirstTier
    /\ answer = [c \in Calls |-> None]
    /\ raced = {}
    /\ overtook = [c \in Calls |-> <<>>]

-----------------------------------------------------------------------------
(* Variants named <operator>_<defect> are defects the runs must reject;    *)
(* nothing below uses them.                                                *)

(* build_auth: JWTVerifier(audience=[audience, app_id]).                   *)
Accepts(s, a) == a \in {<<s, "uri">>, <<s, "id">>}

Goto(c, step) == pc' = [pc EXCEPT ![c] = step]

Arrive(c) ==
    /\ pc[c] = "idle"
    /\ \E q \in Requests, a \in Audiences :
         /\ call' = [call EXCEPT ![c] = q]
         /\ aud' = [aud EXCEPT ![c] = a]
         /\ Goto(c, IF Accepts(ServerOf(q), a) THEN "run" ELSE "rejected")
    /\ UNCHANGED <<sum, data, answer>>

Runs(c, tool) == pc[c] = "run" /\ call[c].tool = tool

Raise(c) == Goto(c, "raised") /\ UNCHANGED <<call, aud, sum, data, answer>>

(* round(x, 2), in mills *)
RoundToCents(x) == ((x + 5) \div 10) * 10

Posting(a) == {c \in Calls : pc[c] = "store" /\ call[c].account = a}

PostUnknown_Journalled(c) ==
    /\ Runs(c, "ledger_post_entry")
    /\ call[c].account = Unknown
    /\ entries' = Append(entries, [account |-> Unknown, amount |-> call[c].amount, of |-> c])
    /\ Goto(c, "raised")
    /\ UNCHANGED <<call, aud, sum, balance, tier, raced, overtook, answer>>
PostUnknown(c) ==
    /\ Runs(c, "ledger_post_entry")
    /\ call[c].account = Unknown
    /\ Raise(c)

(* ledger_post_entry reads the balance and adds to it,                     *)
PostRead(c) ==
    LET a == call[c].account
    IN  /\ Runs(c, "ledger_post_entry")
        /\ a # Unknown
        /\ sum' = [sum EXCEPT ![c] = RoundToCents(balance[a] + call[c].amount)]
        /\ raced' = IF Posting(a) # {} THEN raced \cup {a} ELSE raced
        /\ Goto(c, "store")
        /\ UNCHANGED <<call, aud, balance, entries, tier, overtook, answer>>

(* stores it,                                                              *)
Store_AmountOnly(c) ==
    /\ pc[c] = "store"
    /\ balance' = [balance EXCEPT ![call[c].account] = RoundToCents(call[c].amount)]
    /\ Goto(c, "journal")
    /\ UNCHANGED <<call, aud, sum, entries, tier, raced, overtook, answer>>
Store(c) ==
    /\ pc[c] = "store"
    /\ balance' = [balance EXCEPT ![call[c].account] = sum[c]]
    /\ Goto(c, "journal")
    /\ UNCHANGED <<call, aud, sum, entries, tier, raced, overtook, answer>>

(* journals the entry                                                      *)
Journal(c) ==
    /\ pc[c] = "journal"
    /\ entries' = Append(entries, [account |-> call[c].account, amount |-> call[c].amount, of |-> c])
    /\ Goto(c, "reread")
    /\ UNCHANGED <<call, aud, sum, balance, tier, raced, overtook, answer>>

(* and answers with the balance it finds then.                             *)
Reread(c) ==
    /\ pc[c] = "reread"
    /\ answer' = [answer EXCEPT ![c] = balance[call[c].account]]
    /\ Goto(c, "answered")
    /\ UNCHANGED <<call, aud, sum, data>>

(* ledger_get_balance *)
GetBalance(c) ==
    /\ Runs(c, "ledger_get_balance")
    /\ \/ call[c].account = Unknown /\ Raise(c)
       \/ /\ call[c].account # Unknown
          /\ Goto(c, "serialise")
          /\ UNCHANGED <<call, aud, sum, data, answer>>

(* crm_list_customers *)
ListCustomers(c) ==
    /\ Runs(c, "crm_list_customers")
    /\ Goto(c, "serialise")
    /\ UNCHANGED <<call, aud, sum, data, answer>>

(* crm_update_customer *)
Overtakes(c) ==
    overtook' = [o \in Calls |->
        IF /\ pc[o] = "serialise" /\ call[o].tool = "crm_update_customer"
           /\ call[o].customer = call[c].customer
        THEN Append(overtook[o], c) ELSE overtook[o]]

UpdateCustomer_NotKept(c) ==
    /\ Runs(c, "crm_update_customer")
    /\ \/ call[c].customer = Unknown /\ Raise(c)
       \/ /\ call[c].customer # Unknown
          /\ Overtakes(c)
          /\ Goto(c, "serialise")
          /\ UNCHANGED <<call, aud, sum, balance, entries, tier, raced, answer>>
UpdateCustomer(c) ==
    /\ Runs(c, "crm_update_customer")
    /\ \/ call[c].customer = Unknown /\ Raise(c)
       \/ /\ call[c].customer # Unknown
          /\ tier' = [tier EXCEPT ![call[c].customer] = call[c].tier]
          /\ Overtakes(c)
          /\ Goto(c, "serialise")
          /\ UNCHANGED <<call, aud, sum, balance, entries, raced, answer>>

(* The event loop turns the live dict or list into the answer.             *)
Serialise(c) ==
    /\ pc[c] = "serialise"
    /\ answer' = [answer EXCEPT ![c] =
         CASE call[c].tool = "ledger_get_balance" -> balance[call[c].account]
           [] call[c].tool = "crm_list_customers" -> tier
           [] call[c].tool = "crm_update_customer" -> tier[call[c].customer]]
    /\ Goto(c, "answered")
    /\ UNCHANGED <<call, aud, sum, data>>

AllAnswered ==
    /\ \A c \in Calls : pc[c] \in {"answered", "raised", "rejected"}
    /\ UNCHANGED vars

PostEntry(c) == PostUnknown(c) \/ PostRead(c) \/ Store(c) \/ Journal(c) \/ Reread(c)

Next ==
    \/ \E c \in Calls :
         \/ Arrive(c) \/ PostEntry(c) \/ GetBalance(c) \/ ListCustomers(c)
         \/ UpdateCustomer(c) \/ Serialise(c)
    \/ AllAnswered

Spec == Init /\ [][Next]_vars

-----------------------------------------------------------------------------
(* Properties.                                                             *)

Entry == [account : Accounts, amount : Amounts, of : Calls]

(* The values the variables may take.                                      *)
TypeOK ==
    /\ pc \in [Calls -> {"idle", "run", "store", "journal", "reread", "serialise",
                         "answered", "raised", "rejected"}]
    /\ call \in [Calls -> Requests \cup {None}]
    /\ aud \in [Calls -> Audiences \cup {None}]
    /\ sum \in [Calls -> Int]
    /\ balance \in [Accounts -> Int]
    /\ entries \in Seq(Entry)
    /\ tier \in [Customers -> Tiers]
    /\ raced \subseteq Accounts
    /\ overtook \in [Calls -> Seq(Calls)]

IsPosting(c) == call[c] # None /\ call[c].tool = "ledger_post_entry"

(* Calls that stored their sum in account a.                               *)
StoredIn(a) ==
    {c \in Calls : IsPosting(c) /\ call[c].account = a
                   /\ pc[c] \in {"journal", "reread", "answered"}}

Total(cs) == SumFunctionOnSet([c \in cs |-> call[c].amount], cs)

(* x is what the opening balance of a and the postings cs come to, but for *)
(* the half cent each of them may lose to round().                         *)
ComesTo(x, a, cs) ==
    LET off == x - Opening[a] - Total(cs)
    IN  -5 * Cardinality(cs) <= off /\ off <= 5 * Cardinality(cs)

(* The ledger loses a posting only if two of them overlapped between read  *)
(* and store: on any other account the balance comes to all postings, and  *)
(* the balance a posting answers with counts that posting in.              *)
OnlyOverlapLoses ==
    \A a \in Accounts \ raced :
      /\ ComesTo(balance[a], a, StoredIn(a))
      /\ \A c \in StoredIn(a) : pc[c] = "answered" =>
           \E cs \in SUBSET StoredIn(a) : c \in cs /\ ComesTo(answer[c], a, cs)

(* Even then whole postings are lost and nothing else: the balance and     *)
(* every balance a client was told come to some of the postings.           *)
BalanceIsSomeHistory ==
    \A a \in Accounts :
      LET Explained(x) == \E cs \in SUBSET StoredIn(a) : ComesTo(x, a, cs)
      IN  /\ Explained(balance[a])
          /\ \A c \in Calls : /\ pc[c] = "answered"
                              /\ call[c].tool \in {"ledger_get_balance", "ledger_post_entry"}
                              /\ call[c].account = a
                              => Explained(answer[c])

(* The journal, unlike the balance, never loses one: a posting that was    *)
(* answered is in it once, as it was asked for, and nothing that was       *)
(* rejected, raised, has not stored its sum or came with a token for       *)
(* another server is.                                                      *)
JournalMatchesAnswers ==
    /\ \A c \in Calls : IsPosting(c) /\ pc[c] = "answered" =>
         Cardinality({i \in DOMAIN entries : entries[i].of = c}) = 1
    /\ \A i \in DOMAIN entries :
         LET c == entries[i].of
         IN  /\ c \in StoredIn(entries[i].account)
             /\ entries[i].amount = call[c].amount
             /\ aud[c][1] = "mcp-server-b"

(* The call whose update was the last on the customer of c before the      *)
(* answer of c was made: c itself unless others set the tier in between.   *)
LastSet(c) == LET os == overtook[c] IN IF os = <<>> THEN c ELSE os[Len(os)]

(* An update is told the tier it set, unless others set the tier of the    *)
(* same customer between its own set and the making of its answer; then    *)
(* the last one of those, never an earlier one or one nobody set.          *)
UpdateAnswersOwn ==
    \A c \in Calls : pc[c] = "answered" /\ call[c].tool = "crm_update_customer" =>
        call[LastSet(c)] = [call[c] EXCEPT !.tier = answer[c]]
=============================================================================
