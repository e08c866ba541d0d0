-------------------------- MODULE BackendsProofs --------------------------
(***************************************************************************)
(* Theorems about the backends, for every set of calls, accounts and       *)
(* customers, in every order of the threads:                               *)
(*   TypeCorrect          the variables keep their types                   *)
(*   JournalCorrect       the journal has every posting, once              *)
(*   UpdateCorrect        an update is told the tier that was set last      *)
(*   OverlapCorrect       only overlapping postings lose one               *)
(*   HistoryCorrect       a balance is always that of some postings        *)
(***************************************************************************)
EXTENDS Backends, TLAPS, FiniteSetTheorems, WellFoundedInduction

-----------------------------------------------------------------------------
(* Types.  A call that was let in has a request of the tool it runs.       *)

Tool(c) == call[c].tool

Shape(c) ==
    /\ pc[c] # "idle" => call[c] \in Requests
    /\ pc[c] \in {"store", "journal", "reread"} =>
         Tool(c) = "ledger_post_entry" /\ call[c].account \in Accounts
    /\ pc[c] = "serialise" =>
         \/ Tool(c) = "ledger_get_balance" /\ call[c].account \in Accounts
         \/ Tool(c) = "crm_list_customers"
         \/ Tool(c) = "crm_update_customer" /\ call[c].customer \in Customers

Typed ==
    /\ TypeOK
    /\ answer = [c \in Calls |-> answer[c]]
    /\ \A c \in Calls : Shape(c)

(* What a request of each tool carries.                                    *)
LEMMA RequestFields ==
    ASSUME NEW q \in Requests
    PROVE  /\ q.tool = "ledger_post_entry" =>
                q.account \in Accounts \cup {Unknown} /\ q.amount \in Amounts
           /\ q.tool = "ledger_get_balance" => q.account \in Accounts \cup {Unknown}
           /\ q.tool = "crm_update_customer" =>
                q.customer \in Customers \cup {Unknown} /\ q.tier \in Tiers
  BY DEF Requests

(* A step of one call, and what it does to the variables of all calls.     *)
Step(c) ==
    \/ Arrive(c) \/ PostEntry(c) \/ GetBalance(c) \/ ListCustomers(c)
    \/ UpdateCustomer(c) \/ Serialise(c)

Elsewhere(c) == \A o \in Calls \ {c} :
    pc'[o] = pc[o] /\ call'[o] = call[o] /\ aud'[o] = aud[o] /\ answer'[o] = answer[o]

LEMMA StepsAreLocal ==
    ASSUME Typed, NEW c \in Calls, Step(c)
    PROVE  /\ Elsewhere(c)
           /\ pc[c] # "idle" => UNCHANGED <<call, aud>>
           /\ pc[c] \notin {"answered", "raised", "rejected"}
           /\ pc'[c] # "idle"
<1> USE DEF Goto, Typed, TypeOK
<1>1. CASE Arrive(c)
  BY <1>1 DEF Arrive, Elsewhere, data
<1>2. CASE PostEntry(c)
  BY <1>2
  DEF PostEntry, PostUnknown, PostRead, Store, Journal, Reread, Raise, Runs, Elsewhere, data
<1>3. CASE GetBalance(c) \/ ListCustomers(c) \/ UpdateCustomer(c)
  BY <1>3 DEF GetBalance, ListCustomers, UpdateCustomer, Raise, Runs, Elsewhere, data
<1>4. CASE Serialise(c)
  BY <1>4 DEF Serialise, Elsewhere, data
<1> QED  BY <1>1, <1>2, <1>3, <1>4 DEF Step

LEMMA TypedStep ==
    ASSUME Typed, NEW c \in Calls, Step(c)
    PROVE  Typed'
<1>0. ASSUME Shape(c)' PROVE \A o \in Calls : Shape(o)'
  <2> SUFFICES ASSUME NEW o \in Calls \ {c} PROVE Shape(o)'
    BY <1>0
  <2> QED  BY StepsAreLocal DEF Typed, Elsewhere, Shape, Tool
<1>1. CASE Arrive(c)
  <2>1. PICK q \in Requests, a \in Audiences, p \in {"run", "rejected"} :
          /\ call' = [call EXCEPT ![c] = q] /\ aud' = [aud EXCEPT ![c] = a]
          /\ pc' = [pc EXCEPT ![c] = p]
    BY <1>1 DEF Arrive, Goto
  <2>2. UNCHANGED <<sum, balance, entries, tier, raced, overtook, answer>>
    BY <1>1 DEF Arrive, data
  <2>3. Shape(c)'
    BY <2>1 DEF Typed, TypeOK, Shape
  <2> QED  BY <1>0, <2>1, <2>2, <2>3 DEF Typed, TypeOK
<1>2. CASE PostEntry(c)
  <2>0. /\ pc[c] # "idle" /\ call[c] \in Requests /\ UNCHANGED <<call, aud, tier>>
        /\ IsPosting(c) => call[c].account \in Accounts \cup {Unknown}
                           /\ call[c].amount \in Amounts
    BY <1>2, RequestFields
    DEF Typed, Shape, IsPosting, PostEntry, PostUnknown, PostRead, Store, Journal, Reread,
        Raise, Runs, data
  <2>1. CASE PostUnknown(c)
    <3>1. /\ pc' = [pc EXCEPT ![c] = "raised"]
          /\ UNCHANGED <<call, aud, sum, balance, entries, tier, raced, overtook, answer>>
      BY <2>1 DEF PostUnknown, Raise, Goto, data
    <3>2. Shape(c)'
      BY <2>0, <3>1 DEF Typed, TypeOK, Shape
    <3> QED  BY <1>0, <3>1, <3>2 DEF Typed, TypeOK
  <2>2. CASE PostRead(c)
    <3>1. /\ Tool(c) = "ledger_post_entry" /\ call[c].account \in Accounts
          /\ call[c].amount \in Int
      BY <2>0, <2>2, RequestFields, BackendsAssumption DEF PostRead, Runs, Tool
    <3>2. PICK a \in Accounts : a = call[c].account
      BY <3>1
    <3>3. RoundToCents(balance[a] + call[c].amount) \in Int
      BY <3>1 DEF RoundToCents, Typed, TypeOK
    <3>4. /\ sum' = [sum EXCEPT ![c] = RoundToCents(balance[a] + call[c].amount)]
          /\ raced' \subseteq Accounts
          /\ pc' = [pc EXCEPT ![c] = "store"]
          /\ UNCHANGED <<call, aud, balance, entries, tier, overtook, answer>>
      BY <2>2, <3>2 DEF PostRead, Goto, Typed, TypeOK
    <3>5. Shape(c)'
      BY <2>0, <3>1, <3>4 DEF Typed, TypeOK, Shape, Tool
    <3> QED  BY <1>0, <3>3, <3>4, <3>5 DEF Typed, TypeOK
  <2>3. CASE Store(c)
    <3>1. /\ Tool(c) = "ledger_post_entry" /\ call[c].account \in Accounts
          /\ balance' = [balance EXCEPT ![call[c].account] = sum[c]]
          /\ pc' = [pc EXCEPT ![c] = "journal"]
          /\ UNCHANGED <<call, aud, sum, entries, tier, raced, overtook, answer>>
      BY <2>3 DEF Store, Goto, Typed, Shape
    <3>2. Shape(c)'
      BY <2>0, <3>1 DEF Typed, TypeOK, Shape, Tool
    <3> QED  BY <1>0, <3>1, <3>2 DEF Typed, TypeOK
  <2>4. CASE Journal(c)
    <3>1. /\ Tool(c) = "ledger_post_entry" /\ call[c].account \in Accounts
          /\ pc' = [pc EXCEPT ![c] = "reread"]
          /\ entries' = Append(entries, [account |-> call[c].account,
                                         amount |-> call[c].amount, of |-> c])
          /\ UNCHANGED <<call, aud, sum, balance, tier, raced, overtook, answer>>
      BY <2>4 DEF Journal, Goto, Typed, Shape
    <3>2. call[c].amount \in Amounts
      BY <2>0, <3>1, RequestFields DEF Tool
    <3>3. [account |-> call[c].account, amount |-> call[c].amount, of |-> c] \in Entry
      BY <3>1, <3>2 DEF Entry
    <3>4. Shape(c)'
      BY <2>0, <3>1 DEF Typed, TypeOK, Shape, Tool
    <3>5. entries' \in Seq(Entry)
      BY <3>1, <3>3 DEF Typed, TypeOK
    <3> QED  BY <1>0, <3>1, <3>4, <3>5 DEF Typed, TypeOK
  <2>5. CASE Reread(c)
    <3>1. /\ pc' = [pc EXCEPT ![c] = "answered"]
          /\ answer' = [answer EXCEPT ![c] = balance[call[c].account]]
          /\ UNCHANGED <<call, aud, sum, balance, entries, tier, raced, overtook>>
      BY <2>5 DEF Reread, Goto, data
    <3>2. Shape(c)'
      BY <2>0, <3>1 DEF Typed, TypeOK, Shape
    <3> QED  BY <1>0, <3>1, <3>2 DEF Typed, TypeOK
  <2> QED  BY <1>2, <2>1, <2>2, <2>3, <2>4, <2>5 DEF PostEntry
<1>3. CASE GetBalance(c) \/ ListCustomers(c)
  <2>1. PICK p \in {"raised", "serialise"} : pc' = [pc EXCEPT ![c] = p]
    BY <1>3 DEF GetBalance, ListCustomers, Raise, Goto
  <2>2. /\ pc[c] = "run"
        /\ UNCHANGED <<call, aud, sum, balance, entries, tier, raced, overtook, answer>>
        /\ \/ Tool(c) = "ledger_get_balance"
              /\ (p = "serialise" => call[c].account # Unknown)
           \/ Tool(c) = "crm_list_customers"
    BY <1>3, <2>1 DEF GetBalance, ListCustomers, Raise, Goto, Runs, Tool, data, Typed, TypeOK
  <2>3. Shape(c)'
    BY <2>1, <2>2, RequestFields DEF Typed, TypeOK, Shape, Tool
  <2> QED  BY <1>0, <2>1, <2>2, <2>3 DEF Typed, TypeOK
<1>4. CASE UpdateCustomer(c)
  <2>1. PICK p \in {"raised", "serialise"} : pc' = [pc EXCEPT ![c] = p]
    BY <1>4 DEF UpdateCustomer, Raise, Goto
  <2>2. /\ pc[c] = "run" /\ Tool(c) = "crm_update_customer" /\ call[c] \in Requests
        /\ UNCHANGED <<call, aud, sum, balance, entries, raced, answer>>
        /\ \/ /\ tier' = [tier EXCEPT ![call[c].customer] = call[c].tier]
              /\ call[c].customer # Unknown /\ Overtakes(c)
           \/ UNCHANGED <<tier, overtook>> /\ p = "raised"
    BY <1>4, <2>1 DEF UpdateCustomer, Raise, Goto, Runs, Tool, data, Typed, TypeOK, Shape
  <2>3. call[c].customer \in Customers \cup {Unknown} /\ call[c].tier \in Tiers
    BY <2>2, RequestFields DEF Tool
  <2>4. tier' \in [Customers -> Tiers]
    BY <2>2, <2>3 DEF Typed, TypeOK
  <2>5. Shape(c)'
    BY <2>1, <2>2, <2>3 DEF Typed, TypeOK, Shape, Tool
  <2>6. overtook' \in [Calls -> Seq(Calls)]
    <3>1. \A os \in Seq(Calls) : Append(os, c) \in Seq(Calls)
      OBVIOUS
    <3>2. overtook \in [Calls -> Seq(Calls)]
      BY DEF Typed, TypeOK
    <3>3. CASE Overtakes(c)
      BY <3>1, <3>2, <3>3, Zenon DEF Overtakes
    <3> QED  BY <2>2, <3>2, <3>3
  <2> QED  BY <1>0, <2>1, <2>2, <2>4, <2>5, <2>6 DEF Typed, TypeOK
<1>5. CASE Serialise(c)
  <2>1. PICK x : answer' = [answer EXCEPT ![c] = x]
    BY <1>5 DEF Serialise
  <2>2. /\ pc[c] = "serialise" /\ pc' = [pc EXCEPT ![c] = "answered"]
        /\ UNCHANGED <<call, aud, sum, balance, entries, tier, raced, overtook>>
    BY <1>5 DEF Serialise, Goto, data
  <2>3. Shape(c)'
    BY <2>2 DEF Typed, TypeOK, Shape
  <2> QED  BY <1>0, <2>1, <2>2, <2>3 DEF Typed, TypeOK
<1> QED  BY <1>1, <1>2, <1>3, <1>4, <1>5 DEF Step

LEMMA TypedAlways == Spec => []Typed
<1>1. Init => Typed
  <2> SUFFICES ASSUME Init PROVE Typed
    OBVIOUS
  <2>1. TypeOK
    BY BackendsAssumption DEF Init, TypeOK
  <2> QED  BY <2>1 DEF Init, Typed, Shape
<1>2. Typed /\ [Next]_vars => Typed'
  <2> SUFFICES ASSUME Typed, [Next]_vars PROVE Typed'
    OBVIOUS
  <2>1. CASE UNCHANGED vars
    <3>1. UNCHANGED <<pc, call, aud, sum, balance, entries, tier, raced, overtook, answer>>
      BY <2>1 DEF vars, data
    <3> QED  BY <3>1 DEF Typed, TypeOK, Shape, Tool
  <2>2. CASE AllAnswered
    BY <2>1, <2>2 DEF AllAnswered
  <2>3. ASSUME NEW c \in Calls, Step(c) PROVE Typed'
    BY <2>3, TypedStep
  <2> QED  BY <2>1, <2>2, <2>3 DEF Next, Step
<1> QED  BY <1>1, <1>2, PTL DEF Spec

(* The variables keep their types.                                         *)
THEOREM TypeCorrect == Spec => []TypeOK
<1>1. Typed => TypeOK
  BY DEF Typed
<1> QED  BY <1>1, TypedAlways, PTL

-----------------------------------------------------------------------------
(* The journal.                                                            *)

Admitted(c) == pc[c] \notin {"idle", "rejected"} => Accepts(ServerOf(call[c]), aud[c])

Of(c) == {i \in DOMAIN entries : entries[i].of = c}

(* An entry is what its call asked for, and its call is past the journal.  *)
True(e) ==
    /\ e.of \in Calls /\ pc[e.of] \in {"reread", "answered"} /\ IsPosting(e.of)
    /\ call[e.of].account = e.account /\ call[e.of].amount = e.amount

Journalled ==
    /\ \A c \in Calls : Admitted(c)
    /\ \A c \in Calls : pc[c] = "reread" \/ (pc[c] = "answered" /\ IsPosting(c)) => Of(c) # {}
    /\ \A i \in DOMAIN entries : True(entries[i])
    /\ \A i, j \in DOMAIN entries : entries[i].of = entries[j].of => i = j

LEMMA AdmittedStep ==
    ASSUME Typed, \A c \in Calls : Admitted(c), NEW c \in Calls, Step(c)
    PROVE  \A o \in Calls : Admitted(o)'
<1>1. ASSUME NEW o \in Calls \ {c} PROVE Admitted(o)'
  BY StepsAreLocal DEF Elsewhere, Admitted
<1>2. CASE Arrive(c)
  <2>1. PICK q \in Requests, a \in Audiences :
          /\ call' = [call EXCEPT ![c] = q] /\ aud' = [aud EXCEPT ![c] = a]
          /\ pc' = [pc EXCEPT ![c] = IF Accepts(ServerOf(q), a) THEN "run" ELSE "rejected"]
    BY <1>2 DEF Arrive, Goto
  <2>2. /\ call'[c] = q /\ aud'[c] = a
        /\ pc'[c] = IF Accepts(ServerOf(q), a) THEN "run" ELSE "rejected"
    BY <2>1 DEF Typed, TypeOK
  <2>3. Admitted(c)'
    BY <2>2 DEF Admitted
  <2> QED  BY <1>1, <2>3
<1>3. CASE ~Arrive(c)
  <2>1. pc[c] \notin {"idle", "rejected"}
    BY <1>3
    DEF Step, PostEntry, PostUnknown, PostRead, Store, Journal, Reread, GetBalance,
        ListCustomers, UpdateCustomer, Serialise, Raise, Runs
  <2>2. UNCHANGED <<call, aud>>
    BY <2>1, StepsAreLocal
  <2>3. Admitted(c)'
    BY <2>1, <2>2 DEF Admitted
  <2> QED  BY <1>1, <2>3
<1> QED  BY <1>2, <1>3

(* A step that journals nothing.                                           *)
LEMMA NotJournalling ==
    ASSUME Typed, Journalled, NEW c \in Calls, Step(c), UNCHANGED entries,
           pc[c] = "reread" => pc'[c] = "answered",
           pc'[c] = "reread" => pc[c] = "reread",
           pc'[c] = "answered" => pc[c] = "reread" \/ ~IsPosting(c)'
    PROVE  Journalled'
<1>1. \A o \in Calls : Admitted(o)'
  BY AdmittedStep DEF Journalled
<1>2. /\ Elsewhere(c) /\ pc[c] \notin {"answered", "raised", "rejected"}
      /\ pc[c] # "idle" => UNCHANGED <<call, aud>>
  BY StepsAreLocal
<1>3. ASSUME NEW o \in Calls, pc'[o] = "reread" \/ (pc'[o] = "answered" /\ IsPosting(o)')
      PROVE  Of(o)' # {}
  <2>1. pc[o] = "reread" \/ (pc[o] = "answered" /\ IsPosting(o))
    BY <1>2, <1>3 DEF Elsewhere, IsPosting
  <2> QED  BY <2>1 DEF Journalled, Of
<1>4. ASSUME NEW i \in DOMAIN entries PROVE True(entries[i])'
  <2>1. True(entries[i])
    BY DEF Journalled
  <2>2. PICK o \in Calls : o = entries[i].of
    BY <2>1 DEF True
  <2>3. pc'[o] \in {"reread", "answered"} /\ call'[o] = call[o]
    BY <1>2, <2>1, <2>2 DEF True, Elsewhere
  <2> QED  BY <2>1, <2>2, <2>3 DEF True, IsPosting
<1>5. \A i, j \in DOMAIN entries' : entries'[i].of = entries'[j].of => i = j
  BY DEF Journalled
<1> QED  BY <1>1, <1>3, <1>4, <1>5 DEF Journalled

(* The step that journals: its call had no entry before.                   *)
LEMMA Journalling ==
    ASSUME Typed, Journalled, NEW c \in Calls, Journal(c)
    PROVE  Journalled'
<1>0. Step(c) /\ pc[c] = "journal" /\ UNCHANGED call /\ Shape(c)
  BY DEF Step, PostEntry, Journal, Typed
<1>1. (\A o \in Calls : Admitted(o)') /\ Elsewhere(c)
  BY <1>0, AdmittedStep, StepsAreLocal DEF Journalled
<1> DEFINE n == Len(entries)
           new == [account |-> call[c].account, amount |-> call[c].amount, of |-> c]
<1>2. pc'[c] = "reread" /\ entries' = Append(entries, new)
  BY DEF Journal, Goto, Typed, TypeOK
<1>3. entries \in Seq(Entry) /\ IsPosting(c)
  BY <1>0, BackendsAssumption DEF Typed, TypeOK, Shape, IsPosting, Tool
<1>4. /\ n \in Nat /\ DOMAIN entries = 1..n /\ DOMAIN entries' = 1..(n + 1)
      /\ entries'[n + 1] = new
      /\ \A i \in DOMAIN entries : entries'[i] = entries[i]
  BY <1>2, <1>3
<1>5. /\ \A i \in DOMAIN entries' : i = n + 1 \/ i \in DOMAIN entries
      /\ n + 1 \in DOMAIN entries' /\ DOMAIN entries \subseteq DOMAIN entries'
  BY <1>4
<1>6. \A i \in DOMAIN entries : entries[i].of # c
  BY <1>0 DEF Journalled, True
<1>7. ASSUME NEW o \in Calls, pc'[o] = "reread" \/ (pc'[o] = "answered" /\ IsPosting(o)')
      PROVE  Of(o)' # {}
  <2>1. CASE o = c
    BY <1>4, <1>5, <2>1 DEF Of
  <2>2. CASE o # c
    <3>1. Of(o) # {}
      BY <1>0, <1>1, <1>7, <2>2 DEF Journalled, Elsewhere, IsPosting
    <3> QED  BY <1>4, <1>5, <3>1 DEF Of
  <2> QED  BY <2>1, <2>2
<1>8. ASSUME NEW i \in DOMAIN entries' PROVE True(entries[i])'
  <2>1. CASE i = n + 1
    BY <1>0, <1>2, <1>3, <1>4, <2>1 DEF True, IsPosting
  <2>2. CASE i \in DOMAIN entries
    <3>1. True(entries[i]) /\ entries[i].of # c
      BY <1>6, <2>2 DEF Journalled
    <3> QED  BY <1>0, <1>1, <1>4, <2>2, <3>1 DEF True, Elsewhere, IsPosting
  <2> QED  BY <1>5, <2>1, <2>2
<1>9. \A i, j \in DOMAIN entries' : entries'[i].of = entries'[j].of => i = j
  BY <1>4, <1>5, <1>6 DEF Journalled
<1> QED  BY <1>1, <1>7, <1>8, <1>9 DEF Journalled

LEMMA JournalledAlways == Spec => []Journalled
<1>1. Init => Journalled
  BY DEF Init, Journalled, Admitted
<1>2. Typed /\ Journalled /\ [Next]_vars => Journalled'
  <2> SUFFICES ASSUME Typed, Journalled, [Next]_vars PROVE Journalled'
    OBVIOUS
  <2>1. CASE UNCHANGED vars
    <3>1. UNCHANGED <<pc, call, aud, entries>>
      BY <2>1 DEF vars, data
    <3> QED  BY <3>1 DEF Journalled, Admitted, Of, True, IsPosting
  <2>2. CASE AllAnswered
    BY <2>1, <2>2 DEF AllAnswered
  <2>3. ASSUME NEW c \in Calls, Step(c) PROVE Journalled'
    <3>1. CASE Journal(c)
      BY <3>1, Journalling
    <3>2. CASE ~Journal(c)
      <4>1. UNCHANGED entries
        BY <2>3, <3>2
        DEF Step, Arrive, PostEntry, PostUnknown, PostRead, Store, Reread, GetBalance,
            ListCustomers, UpdateCustomer, Serialise, Raise, data
      <4>2. pc[c] = "reread" => pc'[c] = "answered"
        BY <2>3, <3>2
        DEF Step, Arrive, PostEntry, PostUnknown, PostRead, Store, Reread, GetBalance,
            ListCustomers, UpdateCustomer, Serialise, Raise, Runs, Goto, Typed, TypeOK
      <4>3. pc'[c] = "reread" => pc[c] = "reread"
        BY <2>3, <3>2
        DEF Step, Arrive, PostEntry, PostUnknown, PostRead, Store, Reread, GetBalance,
            ListCustomers, UpdateCustomer, Serialise, Raise, Runs, Goto, Typed, TypeOK
      <4>4. ASSUME pc'[c] = "answered" PROVE pc[c] = "reread" \/ ~IsPosting(c)'
        <5>1. pc[c] \in {"reread", "serialise"}
          BY <2>3, <3>2, <4>4
          DEF Step, Arrive, PostEntry, PostUnknown, PostRead, Store, Reread, GetBalance,
              ListCustomers, UpdateCustomer, Serialise, Raise, Runs, Goto, Typed, TypeOK
        <5>2. UNCHANGED call
          BY <2>3, <5>1, StepsAreLocal
        <5> QED  BY <5>1, <5>2 DEF Typed, Shape, Tool, IsPosting
      <4> QED  BY <2>3, <4>1, <4>2, <4>3, <4>4, NotJournalling
    <3> QED  BY <3>1, <3>2
  <2> QED  BY <2>1, <2>2, <2>3 DEF Next, Step
<1> QED  BY <1>1, <1>2, TypedAlways, PTL DEF Spec

(* Whatever the threads do to the balances, every posting that was         *)
(* answered is in the journal, once and as asked, and nothing else is.     *)
THEOREM JournalCorrect == Spec => []JournalMatchesAnswers
<1>1. Typed /\ Journalled => JournalMatchesAnswers
  <2> SUFFICES ASSUME Typed, Journalled PROVE JournalMatchesAnswers
    OBVIOUS
  <2>1. ASSUME NEW c \in Calls, IsPosting(c), pc[c] = "answered"
        PROVE  Cardinality({i \in DOMAIN entries : entries[i].of = c}) = 1
    <3>1. Of(c) # {}
      BY <2>1 DEF Journalled
    <3>2. PICK i : Of(c) = {i}
      BY <3>1 DEF Journalled, Of
    <3> QED  BY <3>2, FS_Singleton DEF Of
  <2>2. ASSUME NEW i \in DOMAIN entries
        PROVE  /\ entries[i].of \in StoredIn(entries[i].account)
               /\ entries[i].amount = call[entries[i].of].amount
               /\ aud[entries[i].of][1] = "mcp-server-b"
    <3>1. True(entries[i])
      BY DEF Journalled
    <3>2. PICK c \in Calls : c = entries[i].of
      BY <3>1 DEF True
    <3>3. Accepts(ServerOf(call[c]), aud[c]) /\ call[c].tool = "ledger_post_entry"
      BY <3>1, <3>2 DEF True, Journalled, Admitted, IsPosting
    <3>4. aud[c][1] = "mcp-server-b"
      BY <3>3 DEF Accepts, ServerOf
    <3> QED  BY <3>1, <3>2, <3>4 DEF True, StoredIn
  <2> QED  BY <2>1, <2>2 DEF JournalMatchesAnswers
<1> QED  BY <1>1, TypedAlways, JournalledAlways, PTL

-----------------------------------------------------------------------------
(* An update and its answer.                                               *)

Updating(c) == call[c] # None /\ Tool(c) = "crm_update_customer"

(* The last call that set the customer of c set tier t.                    *)
SetBy(c, t) ==
    /\ LastSet(c) \in Calls /\ pc[LastSet(c)] # "idle"
    /\ call[LastSet(c)] = [call[c] EXCEPT !.tier = t]

Attributed(c) ==
    /\ pc[c] \notin {"serialise", "answered"} => overtook[c] = <<>>
    /\ Updating(c) =>
         /\ pc[c] = "serialise" => SetBy(c, tier[call[c].customer])
         /\ pc[c] = "answered" => SetBy(c, answer[c])

(* Only an update that sets the same tier adds to those that overtook c.   *)
LEMMA NotOvertaken ==
    ASSUME Typed, NEW s \in Calls, Step(s), NEW c \in Calls,
           \/ pc[c] # "serialise"
           \/ ~UpdateCustomer(s) \/ call[s].customer = Unknown
           \/ call[c].tool # "crm_update_customer" \/ call[c].customer # call[s].customer
    PROVE  overtook'[c] = overtook[c]
<1>1. CASE UpdateCustomer(s) /\ call[s].customer # Unknown
  BY <1>1 DEF UpdateCustomer, Overtakes, Raise, data
<1>2. CASE UpdateCustomer(s) /\ call[s].customer = Unknown
  BY <1>2 DEF UpdateCustomer, Raise, data
<1>3. CASE ~UpdateCustomer(s)
  BY <1>3
  DEF Step, Arrive, PostEntry, PostUnknown, PostRead, Store, Journal, Reread, GetBalance,
      ListCustomers, Serialise, Raise, data
<1> QED  BY <1>1, <1>2, <1>3

(* What was set stays set by whoever set it.                               *)
LEMMA SetByStays ==
    ASSUME Typed, NEW s \in Calls, Step(s), NEW c \in Calls, pc[c] # "idle", NEW t,
           SetBy(c, t), overtook'[c] = overtook[c]
    PROVE  SetBy(c, t)'
<1>1. PICK o \in Calls : o = LastSet(c)
  BY DEF SetBy
<1>2. LastSet(c)' = o
  BY <1>1 DEF LastSet
<1>3. call'[c] = call[c] /\ call'[o] = call[o] /\ pc'[o] # "idle"
  BY <1>1, StepsAreLocal DEF Elsewhere, SetBy
<1> QED  BY <1>1, <1>2, <1>3 DEF SetBy

(* An update of customer x sets the tier for itself and for every other    *)
(* update of x whose answer is not made yet.                               *)
LEMMA SetByUpdate ==
    ASSUME Typed, NEW s \in Calls, UpdateCustomer(s), call[s].customer # Unknown,
           NEW c \in Calls, Attributed(c), Updating(c), call[c].customer = call[s].customer,
           c = s \/ pc[c] = "serialise"
    PROVE  SetBy(c, call[s].tier)'
<1>1. /\ Step(s) /\ pc[s] = "run" /\ Updating(s) /\ UNCHANGED call
      /\ pc' = [pc EXCEPT ![s] = "serialise"] /\ Overtakes(s)
  BY BackendsAssumption
  DEF Step, UpdateCustomer, Runs, Raise, Goto, Updating, Tool, Typed, Shape
<1>2. call[s] \in Requests /\ call[c] \in Requests
  BY <1>1 DEF Typed, Shape
<1>3. /\ call[s] = [tool |-> "crm_update_customer", customer |-> call[s].customer,
                    tier |-> call[s].tier]
      /\ call[c] = [tool |-> "crm_update_customer", customer |-> call[c].customer,
                    tier |-> call[c].tier]
  BY <1>1, <1>2 DEF Requests, Updating, Tool
<1>4. call[s] = [call[c] EXCEPT !.tier = call[s].tier]
  BY <1>3
<1>5. LastSet(c)' = s
  <2>1. CASE c = s
    <3>1. overtook[c] = <<>> /\ overtook'[c] = overtook[c]
      BY <1>1, <2>1 DEF Attributed, Overtakes
    <3> QED  BY <2>1, <3>1 DEF LastSet
  <2>2. CASE pc[c] = "serialise"
    <3>1. PICK os \in Seq(Calls) : os = overtook[c]
      BY DEF Typed, TypeOK
    <3>2. overtook'[c] = Append(os, s)
      BY <1>1, <2>2, <3>1 DEF Overtakes, Updating, Tool
    <3>3. Append(os, s) # <<>> /\ Append(os, s)[Len(Append(os, s))] = s
      BY <3>1
    <3> QED  BY <3>2, <3>3 DEF LastSet
  <2> QED  BY <2>1, <2>2
<1>6. pc'[s] = "serialise"
  BY <1>1 DEF Typed, TypeOK
<1> QED  BY <1>1, <1>4, <1>5, <1>6 DEF SetBy

LEMMA AttributedStep ==
    ASSUME Typed, NEW s \in Calls, Step(s), NEW c \in Calls, Attributed(c)
    PROVE  Attributed(c)'
<1>0. ASSUME pc'[c] \notin {"serialise", "answered"} PROVE overtook'[c] = <<>>
  <2>1. pc[c] \notin {"serialise", "answered"}
    <3>1. CASE c # s
      BY <1>0, <3>1, StepsAreLocal DEF Elsewhere
    <3>2. CASE c = s
      BY <1>0, <3>2
      DEF Step, Arrive, PostEntry, PostUnknown, PostRead, Store, Journal, Reread, GetBalance,
          ListCustomers, UpdateCustomer, Serialise, Raise, Runs, Goto, Typed, TypeOK
    <3> QED  BY <3>1, <3>2
  <2> QED  BY <2>1, NotOvertaken DEF Attributed
<1> SUFFICES ASSUME Updating(c)', pc'[c] \in {"serialise", "answered"}
             PROVE  /\ pc'[c] = "serialise" => SetBy(c, tier[call[c].customer])'
                    /\ pc'[c] = "answered" => SetBy(c, answer[c])'
  BY <1>0 DEF Attributed
<1>1. pc[c] # "idle" /\ call'[c] = call[c] /\ Updating(c)
  <2>1. pc[c] # "idle"
    BY StepsAreLocal
    DEF Elsewhere, Step, Arrive, PostEntry, PostUnknown, PostRead, Store, Journal, Reread,
        GetBalance, ListCustomers, UpdateCustomer, Serialise, Runs, Goto, Typed, TypeOK
  <2>2. call'[c] = call[c]
    BY <2>1, StepsAreLocal DEF Elsewhere
  <2> QED  BY <2>1, <2>2 DEF Updating, Tool
<1>2. CASE UpdateCustomer(s) /\ call[s].customer # Unknown
  <2>1. /\ tier' = [tier EXCEPT ![call[s].customer] = call[s].tier]
        /\ pc[s] = "run" /\ pc'[s] = "serialise" /\ UNCHANGED <<call, answer>>
        /\ call[s].customer \in Customers
    BY <1>2, RequestFields
    DEF UpdateCustomer, Raise, Runs, Goto, Tool, Typed, TypeOK, Shape
  <2>2. CASE pc'[c] = "answered"
    <3>1. pc[c] = "answered"
      BY <1>2, <2>1, <2>2, StepsAreLocal DEF Elsewhere
    <3>2. PICK t : t = answer[c]
      OBVIOUS
    <3>3. SetBy(c, t)'
      BY <1>1, <3>1, <3>2, SetByStays, NotOvertaken DEF Attributed
    <3> QED  BY <2>1, <2>2, <3>2, <3>3 DEF SetBy
  <2>3. CASE pc'[c] = "serialise" /\ call[c].customer = call[s].customer
    <3>1. SetBy(c, call[s].tier)'
      <4>1. c = s \/ pc[c] = "serialise"
        BY <2>3, StepsAreLocal DEF Elsewhere
      <4> QED  BY <1>1, <1>2, <2>3, <4>1, SetByUpdate
    <3>2. tier'[call'[c].customer] = call'[s].tier
      BY <2>1, <2>3 DEF Typed, TypeOK
    <3> QED  BY <2>3, <3>1, <3>2 DEF SetBy
  <2>4. CASE pc'[c] = "serialise" /\ call[c].customer # call[s].customer
    <3>1. pc[c] = "serialise" /\ tier'[call[c].customer] = tier[call[c].customer]
      BY <1>1, <2>1, <2>4, StepsAreLocal DEF Elsewhere, Typed, TypeOK, Shape, Updating
    <3>2. PICK t : t = tier[call[c].customer]
      OBVIOUS
    <3>3. SetBy(c, t)'
      BY <1>1, <2>4, <3>1, <3>2, SetByStays, NotOvertaken DEF Attributed
    <3> QED  BY <1>1, <2>4, <3>1, <3>2, <3>3 DEF SetBy
  <2> QED  BY <2>2, <2>3, <2>4
<1>3. CASE ~(UpdateCustomer(s) /\ call[s].customer # Unknown)
  <2>1. UNCHANGED tier /\ overtook'[c] = overtook[c]
    <3>1. UNCHANGED tier
      BY <1>3
      DEF Step, Arrive, PostEntry, PostUnknown, PostRead, Store, Journal, Reread, GetBalance,
          ListCustomers, UpdateCustomer, Serialise, Raise, data
    <3> QED  BY <1>3, <3>1, NotOvertaken
  <2>2. CASE c # s
    <3>1. pc'[c] = pc[c] /\ answer'[c] = answer[c]
      BY <2>2, StepsAreLocal DEF Elsewhere
    <3>2. PICK t : t = IF pc[c] = "serialise" THEN tier[call[c].customer] ELSE answer[c]
      OBVIOUS
    <3>3. SetBy(c, t)
      BY <1>1, <3>1, <3>2 DEF Attributed
    <3>4. SetBy(c, t)'
      BY <1>1, <2>1, <3>3, SetByStays
    <3> QED  BY <1>1, <2>1, <3>1, <3>2, <3>4 DEF SetBy
  <2>3. CASE c = s
    <3>1. Serialise(c)
      BY <1>1, <1>3, <2>3
      DEF Step, Arrive, PostEntry, PostUnknown, PostRead, Store, Journal, Reread, GetBalance,
          ListCustomers, UpdateCustomer, Raise, Runs, Goto, Typed, TypeOK, Shape, Updating,
          Tool
    <3>2. pc[c] = "serialise" /\ pc'[c] = "answered"
      BY <3>1 DEF Serialise, Goto, Typed, TypeOK
    <3>3. PICK t : t = tier[call[c].customer]
      OBVIOUS
    <3>4. SetBy(c, t)'
      BY <1>1, <2>1, <3>2, <3>3, SetByStays DEF Attributed
    <3>5. call[c].tool = "crm_update_customer"
      BY <1>1 DEF Updating, Tool
    <3>6. answer' = [answer EXCEPT ![c] = t]
      BY <3>1, <3>3, <3>5, Zenon DEF Serialise
    <3>7. answer'[c] = t
      BY <3>6 DEF Typed
    <3> QED  BY <3>2, <3>4, <3>7 DEF SetBy
  <2> QED  BY <2>2, <2>3
<1> QED  BY <1>2, <1>3

(* An update is told its own tier, or that of the last update of the same  *)
(* customer between its own set and the making of its answer.              *)
THEOREM UpdateCorrect == Spec => []UpdateAnswersOwn
<1> DEFINE AllAttributed == \A c \in Calls : Attributed(c)
<1>1. Init => AllAttributed
  BY DEF Init, Attributed
<1>2. Typed /\ AllAttributed /\ [Next]_vars => AllAttributed'
  <2> SUFFICES ASSUME Typed, AllAttributed, [Next]_vars PROVE AllAttributed'
    OBVIOUS
  <2>1. CASE UNCHANGED vars
    <3>1. UNCHANGED <<pc, call, tier, answer, overtook>>
      BY <2>1 DEF vars, data
    <3> QED  BY <3>1 DEF Attributed, SetBy, LastSet, Updating, Tool
  <2>2. CASE AllAnswered
    BY <2>1, <2>2 DEF AllAnswered
  <2>3. ASSUME NEW s \in Calls, Step(s) PROVE AllAttributed'
    BY <2>3, AttributedStep
  <2> QED  BY <2>1, <2>2, <2>3 DEF Next, Step
<1>3. Typed /\ AllAttributed => UpdateAnswersOwn
  <2> SUFFICES ASSUME Typed, AllAttributed, NEW c \in Calls, pc[c] = "answered",
                      call[c].tool = "crm_update_customer"
               PROVE  SetBy(c, answer[c])
    BY DEF UpdateAnswersOwn, SetBy
  <2>1. Updating(c)
    BY BackendsAssumption DEF Typed, Shape, Updating, Tool
  <2> QED  BY <2>1 DEF Attributed
<1> HIDE DEF AllAttributed
<1> QED  BY <1>1, <1>2, <1>3, TypedAlways, PTL DEF Spec

-----------------------------------------------------------------------------
(* Sums over finite sets.  No theorem with an operator parameter can be    *)
(* used, so what would be an induction is a smallest counterexample.       *)

(* Among finite sets a smallest one.                                       *)
LEMMA Smallest ==
    ASSUME NEW S, IsFiniteSet(S), NEW bad \in SUBSET SUBSET S, bad # {}
    PROVE  \E T \in bad : \A U \in SUBSET T : U # T => U \notin bad
<1>1. IsWellFoundedOn(StrictSubsetOrdering(S), SUBSET S)
  BY FS_StrictSubsetOrderingWellFounded, FS_FiniteSubsetsOfFinite
<1>2. PICK T \in bad : \A U \in bad : <<U, T>> \notin StrictSubsetOrdering(S)
  BY <1>1, WFMin
<1> QED  BY <1>2 DEF StrictSubsetOrdering

(* g has the sum of f over every subset of S.                              *)
Additive(g, f, S) ==
    /\ g \in [SUBSET S -> Int] /\ g[{}] = 0
    /\ \A U \in SUBSET S, x \in S : x \notin U => g[U \cup {x}] = g[U] + f[x]

LEMMA AdditiveExists ==
    ASSUME NEW S, IsFiniteSet(S), NEW f \in [S -> Int]
    PROVE  \E g : Additive(g, f, S)
<1> DEFINE bad == {T \in SUBSET S : ~ \E g : Additive(g, f, T)}
<1> SUFFICES ASSUME S \in bad PROVE FALSE
  OBVIOUS
<1>0. bad \in SUBSET SUBSET S /\ bad # {}
  OBVIOUS
<1>1. PICK T \in bad : \A U \in SUBSET T : U # T => U \notin bad
  <2> HIDE DEF bad
  <2> QED  BY <1>0, Smallest
<1>2. T # {}
  <2>1. Additive([U \in SUBSET {} |-> 0], f, {})
    BY DEF Additive
  <2> QED  BY <2>1
<1>3. PICK x \in T : TRUE
  BY <1>2
<1>4. T \in SUBSET S /\ T \ {x} \in SUBSET S /\ T \ {x} \notin bad
  BY <1>1, <1>3
<1>5. PICK g : Additive(g, f, T \ {x})
  BY <1>4
<1> DEFINE G == [U \in SUBSET T |-> IF x \in U THEN g[U \ {x}] + f[x] ELSE g[U]]
<1> HIDE DEF bad
<1>6. f[x] \in Int
  BY <1>3, <1>4
<1>7. G \in [SUBSET T -> Int]
  <2> SUFFICES ASSUME NEW U \in SUBSET T
               PROVE  (IF x \in U THEN g[U \ {x}] + f[x] ELSE g[U]) \in Int
    OBVIOUS
  <2>1. U \ {x} \in SUBSET (T \ {x}) /\ (x \notin U => U \in SUBSET (T \ {x}))
    OBVIOUS
  <2> QED  BY <1>5, <1>6, <2>1 DEF Additive
<1>8. G[{}] = 0
  BY <1>5 DEF Additive
<1>9. ASSUME NEW U \in SUBSET T, NEW y \in T, y \notin U
      PROVE  G[U \cup {y}] = G[U] + f[y]
  <2>1. U \cup {y} \in SUBSET T
    OBVIOUS
  <2>2. CASE y = x
    <3>1. (U \cup {y}) \ {x} = U /\ x \notin U
      BY <1>9, <2>2
    <3> QED  BY <2>1, <2>2, <3>1
  <2>3. CASE y # x /\ x \in U
    <3>1. /\ (U \cup {y}) \ {x} = (U \ {x}) \cup {y} /\ U \ {x} \in SUBSET (T \ {x})
          /\ y \in T \ {x} /\ y \notin U \ {x}
      BY <1>9, <2>3
    <3>2. g[(U \ {x}) \cup {y}] = g[U \ {x}] + f[y] /\ g[U \ {x}] \in Int
      BY <1>5, <3>1 DEF Additive
    <3>3. f[y] \in Int
      BY <1>4
    <3>4. G[U \cup {y}] = g[(U \ {x}) \cup {y}] + f[x] /\ G[U] = g[U \ {x}] + f[x]
      BY <2>1, <2>3, <3>1
    <3> HIDE DEF G
    <3> QED  BY <1>6, <3>2, <3>3, <3>4
  <2>4. CASE y # x /\ x \notin U
    <3>1. U \in SUBSET (T \ {x}) /\ y \in T \ {x} /\ x \notin U \cup {y}
      BY <2>4
    <3>2. g[U \cup {y}] = g[U] + f[y]
      BY <1>5, <1>9, <3>1 DEF Additive
    <3> QED  BY <2>1, <2>4, <3>1, <3>2
  <2> QED  BY <2>2, <2>3, <2>4
<1>10. Additive(G, f, T)
  <2> HIDE DEF G
  <2> QED  BY <1>7, <1>8, <1>9 DEF Additive
<1> QED  BY <1>10 DEF bad

(* How SumFunctionOnSet computes it.                                       *)
Pick(U) == CHOOSE x \in U : TRUE

Recursion(f, S, h) ==
    [U \in SUBSET S |-> IF U = {} THEN 0 ELSE f[Pick(U)] + h[U \ {Pick(U)}]]

(* Summing one element at a time, in whatever order, is additive.          *)
LEMMA SumIsAdditive ==
    ASSUME NEW S, IsFiniteSet(S), NEW f \in [S -> Int], NEW g, Additive(g, f, S)
    PROVE  SumFunctionOnSet(f, S) = g[S]
<1> DEFINE h == CHOOSE h : h = Recursion(f, S, h)
<1>1. SumFunctionOnSet(f, S) = h[S]
  BY DEF SumFunctionOnSet, FoldFunctionOnSet, MapThenFoldSet, Pick, Recursion
<1>2. ASSUME NEW U \in SUBSET S, U # {}
      PROVE  Pick(U) \in U /\ g[U] = f[Pick(U)] + g[U \ {Pick(U)}]
  <2>1. Pick(U) \in U
    BY <1>2 DEF Pick
  <2>2. U = (U \ {Pick(U)}) \cup {Pick(U)}
    BY <2>1
  <2>3. /\ U \ {Pick(U)} \in SUBSET S /\ Pick(U) \in S
        /\ f[Pick(U)] \in Int /\ g[U \ {Pick(U)}] \in Int
    BY <2>1 DEF Additive
  <2>4. g[(U \ {Pick(U)}) \cup {Pick(U)}] = g[U \ {Pick(U)}] + f[Pick(U)]
    BY <2>3 DEF Additive
  <2>5. g[U] = g[(U \ {Pick(U)}) \cup {Pick(U)}]
    BY <2>2, Zenon
  <2> QED  BY <2>1, <2>3, <2>4, <2>5
<1> HIDE DEF h
<1>3. h = Recursion(f, S, h)
  <2>1. g = Recursion(f, S, g)
    <3> SUFFICES ASSUME NEW U \in SUBSET S
                 PROVE  g[U] = IF U = {} THEN 0 ELSE f[Pick(U)] + g[U \ {Pick(U)}]
      BY DEF Additive, Recursion
    <3>1. CASE U = {}
      BY <3>1 DEF Additive
    <3> QED  BY <1>2, <3>1
  <2> QED  BY <2>1 DEF h
<1> DEFINE bad == {U \in SUBSET S : h[U] # g[U]}
<1> SUFFICES ASSUME bad # {} PROVE FALSE
  BY <1>1
<1>4. PICK U \in bad : \A V \in SUBSET U : V # U => V \notin bad
  <2>1. bad \in SUBSET SUBSET S
    OBVIOUS
  <2> HIDE DEF bad
  <2> QED  BY <2>1, Smallest
<1>5. h[U] = IF U = {} THEN 0 ELSE f[Pick(U)] + h[U \ {Pick(U)}]
  BY <1>3 DEF Recursion
<1>6. CASE U = {}
  BY <1>5, <1>6 DEF Additive
<1>7. CASE U # {}
  <2>1. Pick(U) \in U /\ g[U] = f[Pick(U)] + g[U \ {Pick(U)}]
    BY <1>2, <1>7
  <2>2. h[U \ {Pick(U)}] = g[U \ {Pick(U)}]
    BY <1>4, <2>1
  <2> QED  BY <1>5, <1>7, <2>1, <2>2 
<1> QED  BY <1>6, <1>7

(* The sum over a finite set is an integer, 0 for none, and one element    *)
(* more adds its value.                                                    *)
LEMMA SumOfNone ==
    ASSUME NEW f \in [{} -> Int]
    PROVE  SumFunctionOnSet(f, {}) = 0
<1>1. PICK g : Additive(g, f, {})
  BY AdditiveExists, FS_EmptySet
<1> QED  BY <1>1, SumIsAdditive, FS_EmptySet DEF Additive

LEMMA SumOfMore ==
    ASSUME NEW S, IsFiniteSet(S), NEW f \in [S -> Int], NEW x \in S
    PROVE  /\ SumFunctionOnSet(f, S) \in Int
           /\ SumFunctionOnSet([y \in S \ {x} |-> f[y]], S \ {x}) \in Int
           /\ SumFunctionOnSet(f, S) =
              SumFunctionOnSet([y \in S \ {x} |-> f[y]], S \ {x}) + f[x]
<1> DEFINE R == S \ {x}
           r == [y \in R |-> f[y]]
<1>1. PICK g : Additive(g, f, S)
  BY AdditiveExists
<1>2. Additive([U \in SUBSET R |-> g[U]], r, R)
  BY <1>1 DEF Additive
<1>3. r \in [R -> Int] /\ IsFiniteSet(R)
  BY FS_Subset
<1>4. SumFunctionOnSet(r, R) = g[R] /\ SumFunctionOnSet(f, S) = g[S]
  <2>1. R \in SUBSET R
    OBVIOUS
  <2> HIDE DEF R, r
  <2> QED  BY <1>1, <1>2, <1>3, <2>1, SumIsAdditive
<1>5. g[S] = g[R] + f[x] /\ g[R] \in Int /\ g[S] \in Int
  <2>1. S = R \cup {x}
    OBVIOUS
  <2> QED  BY <1>1, <2>1 DEF Additive
<1> QED  BY <1>4, <1>5

-----------------------------------------------------------------------------
(* The balances.                                                           *)

LEMMA AmountsAreIntegers ==
    ASSUME Typed, NEW c \in Calls, IsPosting(c), pc[c] # "idle"
    PROVE  call[c].amount \in Int
  BY RequestFields, BackendsAssumption DEF Typed, Shape, IsPosting

LEMMA TotalGrows ==
    ASSUME NEW cs, IsFiniteSet(cs), NEW c, c \notin cs,
           \A o \in cs \cup {c} : call[o].amount \in Int
    PROVE  Total(cs) \in Int /\ Total(cs \cup {c}) = Total(cs) + call[c].amount
<1> DEFINE S == cs \cup {c}
           f == [o \in S |-> call[o].amount]
           g == [o \in S \ {c} |-> f[o]]
<1>1. IsFiniteSet(S) /\ f \in [S -> Int] /\ c \in S
  BY FS_AddElement
<1>2. /\ SumFunctionOnSet(g, S \ {c}) \in Int
      /\ SumFunctionOnSet(f, S) = SumFunctionOnSet(g, S \ {c}) + f[c]
  <2> HIDE DEF S, f
  <2> QED  BY <1>1, SumOfMore
<1>3. S \ {c} = cs /\ g = [o \in cs |-> call[o].amount] /\ f[c] = call[c].amount
  OBVIOUS
<1>4. Total(cs) = SumFunctionOnSet(g, S \ {c}) /\ Total(S) = SumFunctionOnSet(f, S)
  BY <1>3 DEF Total
<1> HIDE DEF S, f, g
<1>5. Total(cs) \in Int /\ Total(S) = Total(cs) + call[c].amount
  BY <1>2, <1>3, <1>4
<1> QED  BY <1>5 DEF S

LEMMA TotalOfNone == Total({}) = 0
  BY SumOfNone DEF Total

(* Adding one posting to a balance and rounding it adds a posting to those *)
(* it comes to.                                                            *)
LEMMA PostingAdds ==
    ASSUME NEW b \in Int, NEW a \in Accounts, NEW cs, IsFiniteSet(cs), NEW c, c \notin cs,
           \A o \in cs \cup {c} : call[o].amount \in Int,
           ComesTo(b, a, cs)
    PROVE  ComesTo(RoundToCents(b + call[c].amount), a, cs \cup {c})
<1>1. Total(cs) \in Int /\ Total(cs \cup {c}) = Total(cs) + call[c].amount
  BY TotalGrows
<1>2. Cardinality(cs) \in Nat /\ Cardinality(cs \cup {c}) = Cardinality(cs) + 1
  BY FS_AddElement, FS_CardinalityType
<1>3. ASSUME NEW x \in Int
      PROVE  /\ RoundToCents(x) \in Int
             /\ -5 <= RoundToCents(x) - x /\ RoundToCents(x) - x <= 5
  BY DEF RoundToCents
<1>4. call[c].amount \in Int /\ Opening[a] \in Int
  BY BackendsAssumption
<1> DEFINE r == RoundToCents(b + call[c].amount)
<1>5. r \in Int /\ -5 <= r - (b + call[c].amount) /\ r - (b + call[c].amount) <= 5
  BY <1>3, <1>4
<1>6. /\ -5 * Cardinality(cs) <= b - Opening[a] - Total(cs)
      /\ b - Opening[a] - Total(cs) <= 5 * Cardinality(cs)
  BY DEF ComesTo
<1> HIDE DEF r
<1>7. ComesTo(r, a, cs \cup {c})
  BY <1>1, <1>2, <1>4, <1>5, <1>6 DEF ComesTo
<1> QED  BY <1>7 DEF r

(* What a balance comes to does not depend on the calls that are not of    *)
(* it.                                                                     *)
LEMMA ComesToStays ==
    ASSUME NEW cs, \A o \in cs : call'[o] = call[o], NEW x, NEW a
    PROVE  ComesTo(x, a, cs)' <=> ComesTo(x, a, cs)
<1>1. Total(cs)' = Total(cs)
  BY DEF Total
<1> QED  BY <1>1 DEF ComesTo

(* Only so many calls have begun.                                          *)
Begun == {c \in Calls : pc[c] # "idle"}

LEMMA BegunAlways == Spec => []IsFiniteSet(Begun)
<1>1. Init => IsFiniteSet(Begun)
  <2> SUFFICES ASSUME Init PROVE IsFiniteSet(Begun)
    OBVIOUS
  <2>1. Begun = {}
    BY DEF Init, Begun
  <2> QED  BY <2>1, FS_EmptySet
<1>2. Typed /\ IsFiniteSet(Begun) /\ [Next]_vars => IsFiniteSet(Begun)'
  <2> SUFFICES ASSUME Typed, IsFiniteSet(Begun), [Next]_vars PROVE IsFiniteSet(Begun')
    OBVIOUS
  <2>1. CASE UNCHANGED vars
    BY <2>1 DEF vars, Begun
  <2>2. CASE AllAnswered
    BY <2>1, <2>2 DEF AllAnswered
  <2>3. ASSUME NEW c \in Calls, Step(c) PROVE IsFiniteSet(Begun')
    <3>1. Begun' \in SUBSET (Begun \cup {c})
      BY <2>3, StepsAreLocal DEF Elsewhere, Begun
    <3>2. IsFiniteSet(Begun \cup {c})
      BY FS_AddElement
    <3> HIDE DEF Begun
    <3> QED  BY <3>1, <3>2, FS_Subset
  <2> QED  BY <2>1, <2>2, <2>3 DEF Next, Step
<1> QED  BY <1>1, <1>2, TypedAlways, PTL DEF Spec

Counted == Typed /\ IsFiniteSet(Begun)

(* The postings that count for an account are finitely many calls that     *)
(* post.                                                                   *)
LEMMA PostingsAre ==
    ASSUME Counted, NEW a \in Accounts
    PROVE  /\ IsFiniteSet(StoredIn(a)) /\ Posting(a) \cap StoredIn(a) = {}
           /\ StoredIn(a) \cup Posting(a) \in SUBSET Calls
           /\ \A c \in StoredIn(a) \cup Posting(a) :
                pc[c] # "idle" /\ IsPosting(c) /\ call[c].amount \in Int
<1>1. StoredIn(a) \in SUBSET Begun
  BY DEF StoredIn, Begun
<1>2. IsFiniteSet(StoredIn(a))
  BY <1>1, FS_Subset DEF Counted
<1>3. Posting(a) \cap StoredIn(a) = {} /\ StoredIn(a) \cup Posting(a) \in SUBSET Calls
  BY DEF StoredIn, Posting
<1>4. ASSUME NEW c \in StoredIn(a) \cup Posting(a)
      PROVE  pc[c] # "idle" /\ IsPosting(c) /\ call[c].amount \in Int
  <2>1. c \in Calls /\ pc[c] # "idle"
    BY DEF StoredIn, Posting
  <2>2. IsPosting(c)
    BY <2>1, BackendsAssumption DEF Counted, Typed, Shape, Tool, IsPosting, StoredIn, Posting
  <2> QED  BY <2>1, <2>2, AmountsAreIntegers DEF Counted
<1> QED  BY <1>2, <1>3, <1>4

(* x comes to some of the postings stored in a.                            *)
Explained(x, a) == \E cs \in SUBSET StoredIn(a) : ComesTo(x, a, cs)

Told(c, a) ==
    /\ pc[c] = "answered" /\ call[c].tool \in {"ledger_get_balance", "ledger_post_entry"}
    /\ call[c].account = a

(* Of a sum that is to be stored, the posting is a part.                   *)
SumExplained(c, a) == \E cs \in SUBSET StoredIn(a) : ComesTo(sum[c], a, cs \cup {c})

History(a) ==
    /\ Explained(balance[a], a)
    /\ \A c \in Posting(a) : SumExplained(c, a)
    /\ \A c \in Calls : Told(c, a) => Explained(answer[c], a)

(* While no two postings overlapped, there is one at most, and nothing is  *)
(* missing from the balance, nor the posting from its answer.              *)
Own(c, a) == \E cs \in SUBSET StoredIn(a) : c \in cs /\ ComesTo(answer[c], a, cs)

Alone(a) ==
    /\ \A c, d \in Posting(a) : c = d
    /\ ComesTo(balance[a], a, StoredIn(a))
    /\ \A c \in Posting(a) : ComesTo(sum[c], a, StoredIn(a) \cup {c})
    /\ \A c \in StoredIn(a) : pc[c] = "answered" => Own(c, a)

(* What a step that neither reads nor stores a balance leaves as it was.   *)
LEMMA QuietStep ==
    ASSUME Typed, NEW s \in Calls, Step(s), ~PostRead(s), ~Store(s), NEW a \in Accounts
    PROVE  /\ UNCHANGED <<balance, sum, raced>>
           /\ StoredIn(a)' = StoredIn(a) /\ Posting(a)' = Posting(a)
<1>1. UNCHANGED <<balance, sum, raced>>
  BY DEF Step, Arrive, PostEntry, PostUnknown, PostRead, Store, Journal, Reread, GetBalance,
         ListCustomers, UpdateCustomer, Serialise, Raise, data
<1>2. Elsewhere(s) /\ (pc[s] # "idle" => call'[s] = call[s])
  BY StepsAreLocal
<1>3. pc[s] # "store" /\ pc'[s] # "store"
  BY DEF Step, Arrive, PostEntry, PostUnknown, PostRead, Store, Journal, Reread, GetBalance,
         ListCustomers, UpdateCustomer, Serialise, Raise, Runs, Goto, Typed, TypeOK
<1>4. \/ pc[s] \in {"journal", "reread"} /\ pc'[s] \in {"journal", "reread", "answered"}
      \/ /\ pc[s] \notin {"journal", "reread", "answered"}
         /\ pc'[s] \notin {"journal", "reread", "answered"}
      \/ pc[s] = "serialise" /\ pc'[s] = "answered"
  BY DEF Step, Arrive, PostEntry, PostUnknown, PostRead, Store, Journal, Reread, GetBalance,
         ListCustomers, UpdateCustomer, Serialise, Raise, Runs, Goto, Typed, TypeOK
<1>5. pc[s] = "serialise" => ~IsPosting(s)
  BY DEF Typed, Shape, Tool, IsPosting
<1>6. ASSUME NEW c \in Calls PROVE c \in StoredIn(a)' <=> c \in StoredIn(a)
  <2>1. CASE c # s
    BY <1>2, <2>1 DEF Elsewhere, StoredIn, IsPosting
  <2>2. CASE c = s
    BY <1>2, <1>4, <1>5, <2>2 DEF StoredIn, IsPosting
  <2> QED  BY <2>1, <2>2
<1>7. ASSUME NEW c \in Calls PROVE c \in Posting(a)' <=> c \in Posting(a)
  BY <1>2, <1>3 DEF Elsewhere, Posting
<1>8. StoredIn(a) \subseteq Calls /\ StoredIn(a)' \subseteq Calls
      /\ Posting(a) \subseteq Calls /\ Posting(a)' \subseteq Calls
  BY DEF StoredIn, Posting
<1> QED  BY <1>1, <1>6, <1>7, <1>8

(* Reading a balance begins a posting on its account,                      *)
LEMMA ReadStep ==
    ASSUME Typed, NEW s \in Calls, PostRead(s)
    PROVE  \E b \in Accounts :
             /\ call[s].account = b /\ pc[s] = "run" /\ IsPosting(s) /\ pc'[s] = "store"
             /\ sum' = [sum EXCEPT ![s] = RoundToCents(balance[b] + call[s].amount)]
             /\ raced' = IF Posting(b) # {} THEN raced \cup {b} ELSE raced
             /\ UNCHANGED <<call, balance, answer>>
             /\ \A a \in Accounts :
                  /\ StoredIn(a)' = StoredIn(a)
                  /\ Posting(a)' = IF a = b THEN Posting(a) \cup {s} ELSE Posting(a)
<1>1. Step(s) /\ pc[s] = "run" /\ Tool(s) = "ledger_post_entry" /\ call[s].account # Unknown
  BY DEF Step, PostEntry, PostRead, Runs, Tool
<1>2. PICK b \in Accounts : b = call[s].account
  BY <1>1, RequestFields DEF Typed, Shape, Tool
<1>3. IsPosting(s)
  BY <1>1, BackendsAssumption DEF Typed, Shape, Tool, IsPosting
<1>4. /\ sum' = [sum EXCEPT ![s] = RoundToCents(balance[b] + call[s].amount)]
      /\ raced' = IF Posting(b) # {} THEN raced \cup {b} ELSE raced
      /\ UNCHANGED <<call, balance, answer>> /\ pc'[s] = "store"
      /\ \A c \in Calls \ {s} : pc'[c] = pc[c]
  BY <1>2 DEF PostRead, Goto, Typed, TypeOK
<1>5. ASSUME NEW a \in Accounts
      PROVE  /\ StoredIn(a)' = StoredIn(a)
             /\ Posting(a)' = IF a = b THEN Posting(a) \cup {s} ELSE Posting(a)
  <2>1. ASSUME NEW c \in Calls PROVE c \in StoredIn(a)' <=> c \in StoredIn(a)
    BY <1>1, <1>4 DEF StoredIn, IsPosting
  <2>2. ASSUME NEW c \in Calls
        PROVE  c \in Posting(a)' <=> c \in Posting(a) \/ (c = s /\ a = b)
    BY <1>1, <1>2, <1>4 DEF Posting
  <2>3. StoredIn(a) \subseteq Calls /\ StoredIn(a)' \subseteq Calls
        /\ Posting(a) \subseteq Calls /\ Posting(a)' \subseteq Calls
    BY DEF StoredIn, Posting
  <2> QED  BY <2>1, <2>2, <2>3
<1> QED  BY <1>1, <1>2, <1>3, <1>4, <1>5

(* and storing the sum ends it.                                            *)
LEMMA StoreStep ==
    ASSUME Typed, NEW s \in Calls, Store(s)
    PROVE  \E b \in Accounts :
             /\ s \in Posting(b) /\ pc'[s] = "journal"
             /\ balance' = [balance EXCEPT ![b] = sum[s]]
             /\ UNCHANGED <<call, sum, raced, answer>>
             /\ \A a \in Accounts :
                  /\ StoredIn(a)' = IF a = b THEN StoredIn(a) \cup {s} ELSE StoredIn(a)
                  /\ Posting(a)' = IF a = b THEN Posting(a) \ {s} ELSE Posting(a)
<1>1. pc[s] = "store" /\ Tool(s) = "ledger_post_entry" /\ call[s].account \in Accounts
  BY DEF Store, Typed, Shape
<1>2. PICK b \in Accounts : b = call[s].account
  BY <1>1
<1>3. IsPosting(s)
  BY <1>1, BackendsAssumption DEF Typed, Shape, Tool, IsPosting
<1>4. /\ balance' = [balance EXCEPT ![b] = sum[s]] /\ pc'[s] = "journal"
      /\ UNCHANGED <<call, sum, raced, answer>>
      /\ \A c \in Calls \ {s} : pc'[c] = pc[c]
  BY <1>2 DEF Store, Goto, Typed, TypeOK
<1>5. ASSUME NEW a \in Accounts
      PROVE  /\ StoredIn(a)' = IF a = b THEN StoredIn(a) \cup {s} ELSE StoredIn(a)
             /\ Posting(a)' = IF a = b THEN Posting(a) \ {s} ELSE Posting(a)
  <2>1. ASSUME NEW c \in Calls
        PROVE  c \in StoredIn(a)' <=> c \in StoredIn(a) \/ (c = s /\ a = b)
    BY <1>1, <1>2, <1>3, <1>4 DEF StoredIn, IsPosting
  <2>2. ASSUME NEW c \in Calls
        PROVE  c \in Posting(a)' <=> c \in Posting(a) /\ c # s
    BY <1>1, <1>4 DEF Posting
  <2>3. StoredIn(a) \subseteq Calls /\ StoredIn(a)' \subseteq Calls
        /\ Posting(a) \subseteq Calls /\ Posting(a)' \subseteq Calls
        /\ (a # b => s \notin Posting(a))
    BY <1>2 DEF StoredIn, Posting
  <2> QED  BY <2>1, <2>2, <2>3
<1> QED  BY <1>1, <1>2, <1>4, <1>5 DEF Posting

(* Stored postings stay, and so does what a number comes to.               *)
LEMMA StoredStays ==
    ASSUME Counted, NEW s \in Calls, Step(s), NEW a \in Accounts
    PROVE  /\ StoredIn(a) \subseteq StoredIn(a)'
           /\ \A c \in StoredIn(a) \cup Posting(a) : call'[c] = call[c]
<1>0. Typed
  BY DEF Counted
<1>1. StoredIn(a) \subseteq StoredIn(a)'
  <2>1. CASE PostRead(s)
    BY <1>0, <2>1, ReadStep
  <2>2. CASE Store(s)
    BY <1>0, <2>2, StoreStep
  <2>3. CASE ~PostRead(s) /\ ~Store(s)
    BY <1>0, <2>3, QuietStep
  <2> QED  BY <2>1, <2>2, <2>3
<1>2. ASSUME NEW c \in StoredIn(a) \cup Posting(a) PROVE call'[c] = call[c]
  BY <1>0, StepsAreLocal, PostingsAre DEF Elsewhere
<1> QED  BY <1>1, <1>2

LEMMA ExplainedStays ==
    ASSUME Counted, NEW s \in Calls, Step(s), NEW a \in Accounts, NEW x, Explained(x, a)
    PROVE  Explained(x, a)'
<1>1. PICK cs \in SUBSET StoredIn(a) : ComesTo(x, a, cs)
  BY DEF Explained
<1>2. ComesTo(x, a, cs)'
  BY <1>1, StoredStays, ComesToStays
<1> QED  BY <1>1, <1>2, StoredStays DEF Explained

(* A read of the balance: the sum comes to one posting more.               *)
LEMMA ReadAdds ==
    ASSUME Counted, NEW s \in Calls, PostRead(s), NEW a \in Accounts, call[s].account = a,
           NEW cs \in SUBSET StoredIn(a), ComesTo(balance[a], a, cs)
    PROVE  ComesTo(sum[s], a, cs \cup {s})'
<1>1. /\ IsPosting(s) /\ pc[s] = "run" /\ UNCHANGED call
      /\ sum' = [sum EXCEPT ![s] = RoundToCents(balance[a] + call[s].amount)]
  BY ReadStep DEF Counted
<1>2. PICK r : r = RoundToCents(balance[a] + call[s].amount)
  OBVIOUS
<1>3. sum'[s] = r
  BY <1>1, <1>2 DEF Counted, Typed, TypeOK
<1>4. s \notin cs /\ IsFiniteSet(cs) /\ \A o \in cs \cup {s} : call[o].amount \in Int
  <2>1. s \notin StoredIn(a)
    BY <1>1 DEF StoredIn
  <2>2. call[s].amount \in Int
    BY <1>1, AmountsAreIntegers DEF Counted
  <2> QED  BY <2>1, <2>2, PostingsAre, FS_Subset
<1>5. balance[a] \in Int
  BY DEF Counted, Typed, TypeOK
<1>6. ComesTo(r, a, cs \cup {s})
  BY <1>2, <1>4, <1>5, PostingAdds
<1>7. ComesTo(r, a, cs \cup {s})'
  BY <1>1, <1>6, ComesToStays
<1> QED  BY <1>3, <1>7 DEF ComesTo

(* What a call is told of an account: its balance then.                    *)
LEMMA TellsBalance ==
    ASSUME Counted, NEW s \in Calls, Step(s), NEW a \in Accounts, NEW c \in Calls,
           Told(c, a)', ~Told(c, a)
    PROVE  /\ c = s /\ answer'[s] = balance[a] /\ ~PostRead(s) /\ ~Store(s)
           /\ IsPosting(s) => s \in StoredIn(a)
<1>0. Typed /\ Elsewhere(s) /\ pc'[c] = "answered"
  BY StepsAreLocal DEF Counted, Told
<1>1. c = s
  BY <1>0 DEF Elsewhere, Told
<1>2. Reread(s) \/ Serialise(s)
  BY <1>0, <1>1
  DEF Step, Arrive, PostEntry, PostUnknown, PostRead, Store, Journal, GetBalance,
      ListCustomers, UpdateCustomer, Raise, Runs, Goto, Typed, TypeOK
<1>3. pc[s] \in {"reread", "serialise"} /\ ~PostRead(s) /\ ~Store(s) /\ call'[s] = call[s]
  BY <1>0, <1>2, StepsAreLocal DEF Reread, Serialise, PostRead, Store, Runs
<1>4. call[s].account = a /\ Tool(s) \in {"ledger_get_balance", "ledger_post_entry"}
  BY <1>1, <1>3 DEF Told, Tool
<1>5. CASE Reread(s)
  <2>1. pc[s] = "reread" /\ answer' = [answer EXCEPT ![s] = balance[a]]
    BY <1>4, <1>5 DEF Reread
  <2>2. answer'[s] = balance[a]
    BY <1>0, <2>1 DEF Typed
  <2> QED  BY <1>1, <1>3, <1>4, <2>1, <2>2 DEF StoredIn
<1>6. CASE Serialise(s)
  <2>1. Tool(s) = "ledger_get_balance" /\ ~IsPosting(s)
    BY <1>0, <1>4, <1>6 DEF Serialise, Typed, Shape, Tool, IsPosting
  <2>2. answer' = [answer EXCEPT ![s] = balance[call[s].account]]
    BY <1>6, <2>1, Zenon DEF Serialise, Tool
  <2>3. answer'[s] = balance[a]
    BY <1>0, <1>4, <2>2 DEF Typed
  <2> QED  BY <1>1, <1>3, <2>1, <2>3
<1> QED  BY <1>2, <1>5, <1>6

LEMMA HistoryStep ==
    ASSUME Counted, NEW s \in Calls, Step(s), NEW a \in Accounts, History(a)
    PROVE  History(a)'
<1>0. Typed /\ a \in DOMAIN balance
  BY DEF Counted, Typed, TypeOK
<1>1. ASSUME balance'[a] = balance[a] PROVE Explained(balance[a], a)'
  <2>1. PICK x : x = balance[a]
    OBVIOUS
  <2>2. Explained(x, a)'
    BY <2>1, ExplainedStays DEF History
  <2> QED  BY <1>1, <2>1, <2>2 DEF Explained
<1>2. ASSUME NEW c \in Posting(a), sum'[c] = sum[c] PROVE SumExplained(c, a)'
  <2>1. PICK cs \in SUBSET StoredIn(a) : ComesTo(sum[c], a, cs \cup {c})
    BY DEF History, SumExplained
  <2>2. PICK x : x = sum[c]
    OBVIOUS
  <2>3. ComesTo(x, a, cs \cup {c})'
    BY <2>1, <2>2, StoredStays, ComesToStays
  <2>4. ComesTo(sum[c], a, cs \cup {c})'
    BY <1>2, <2>2, <2>3 DEF ComesTo
  <2> QED  BY <2>1, <2>4, StoredStays DEF SumExplained
<1>3. ASSUME NEW c \in Calls, Told(c, a)' PROVE Explained(answer[c], a)'
  <2>1. PICK x : x = IF Told(c, a) THEN answer[c] ELSE balance[a]
    OBVIOUS
  <2>2. answer'[c] = x
    <3>1. CASE Told(c, a)
      <4>1. c # s
        BY <3>1, <1>0, StepsAreLocal DEF Told
      <4> QED  BY <1>0, <2>1, <3>1, <4>1, StepsAreLocal DEF Elsewhere
    <3>2. CASE ~Told(c, a)
      BY <1>3, <2>1, <3>2, TellsBalance
    <3> QED  BY <3>1, <3>2
  <2>3. Explained(x, a)'
    BY <2>1, ExplainedStays DEF History
  <2> QED  BY <2>2, <2>3 DEF Explained
<1>4. CASE PostRead(s)
  <2>1. PICK b \in Accounts :
          /\ call[s].account = b /\ UNCHANGED balance /\ pc[s] = "run"
          /\ sum' = [sum EXCEPT ![s] = RoundToCents(balance[b] + call[s].amount)]
          /\ Posting(a)' = IF a = b THEN Posting(a) \cup {s} ELSE Posting(a)
    BY <1>0, <1>4, ReadStep
  <2>2. ASSUME NEW c \in Posting(a)' PROVE SumExplained(c, a)'
    <3>1. CASE c \in Posting(a)
      <4>1. sum'[c] = sum[c]
        BY <1>0, <2>1, <3>1 DEF Posting, Typed, TypeOK
      <4> QED  BY <1>2, <3>1, <4>1
    <3>2. CASE c = s /\ a = b
      <4>1. PICK cs \in SUBSET StoredIn(a) : ComesTo(balance[a], a, cs)
        BY DEF History, Explained
      <4>2. ComesTo(sum[c], a, cs \cup {c})'
        BY <1>4, <2>1, <3>2, <4>1, ReadAdds
      <4> QED  BY <4>1, <4>2, StoredStays DEF SumExplained
    <3> QED  BY <2>1, <2>2, <3>1, <3>2
  <2> QED  BY <1>1, <1>3, <2>1, <2>2 DEF History
<1>5. CASE Store(s)
  <2>1. PICK b \in Accounts :
          /\ s \in Posting(b) /\ balance' = [balance EXCEPT ![b] = sum[s]] /\ UNCHANGED sum
          /\ StoredIn(a)' = IF a = b THEN StoredIn(a) \cup {s} ELSE StoredIn(a)
          /\ Posting(a)' = IF a = b THEN Posting(a) \ {s} ELSE Posting(a)
    BY <1>0, <1>5, StoreStep
  <2>2. Explained(balance[a], a)'
    <3>1. CASE a # b
      BY <1>0, <1>1, <2>1, <3>1
    <3>2. CASE a = b
      <4>1. PICK cs \in SUBSET StoredIn(a) : ComesTo(sum[s], a, cs \cup {s})
        BY <2>1, <3>2 DEF History, SumExplained
      <4>2. PICK x : x = sum[s]
        OBVIOUS
      <4>3. ComesTo(x, a, cs \cup {s})'
        BY <2>1, <3>2, <4>1, <4>2, StoredStays, ComesToStays
      <4>4. balance'[a] = x /\ cs \cup {s} \in SUBSET StoredIn(a)'
        BY <1>0, <2>1, <3>2, <4>2
      <4> QED  BY <4>3, <4>4 DEF Explained, ComesTo
    <3> QED  BY <3>1, <3>2
  <2>3. ASSUME NEW c \in Posting(a)' PROVE SumExplained(c, a)'
    BY <1>2, <2>1, <2>3
  <2> QED  BY <1>3, <2>2, <2>3 DEF History
<1>6. CASE ~PostRead(s) /\ ~Store(s)
  <2>1. UNCHANGED <<balance, sum>> /\ Posting(a)' = Posting(a)
    BY <1>0, <1>6, QuietStep
  <2>2. ASSUME NEW c \in Posting(a)' PROVE SumExplained(c, a)'
    BY <1>2, <2>1
  <2> QED  BY <1>1, <1>3, <2>1, <2>2 DEF History
<1> QED  BY <1>4, <1>5, <1>6

LEMMA AloneStep ==
    ASSUME Counted, NEW s \in Calls, Step(s), NEW a \in Accounts,
           a \notin raced => Alone(a), a \notin raced'
    PROVE  Alone(a)'
<1>0. Typed /\ a \in DOMAIN balance /\ Elsewhere(s)
  BY StepsAreLocal DEF Counted, Typed, TypeOK
<1>1. a \notin raced
  <2>1. CASE PostRead(s)
    BY <1>0, <2>1, ReadStep
  <2>2. CASE Store(s)
    BY <1>0, <2>2, StoreStep
  <2>3. CASE ~PostRead(s) /\ ~Store(s)
    BY <1>0, <2>3, QuietStep
  <2> QED  BY <2>1, <2>2, <2>3
<1>2. Alone(a)
  BY <1>1
<1>3. ASSUME StoredIn(a)' = StoredIn(a), balance'[a] = balance[a]
      PROVE  ComesTo(balance[a], a, StoredIn(a))'
  <2>1. PICK x, cs : x = balance[a] /\ cs = StoredIn(a)
    OBVIOUS
  <2>2. ComesTo(x, a, cs)'
    BY <1>2, <2>1, StoredStays, ComesToStays DEF Alone
  <2> QED  BY <1>3, <2>1, <2>2 DEF ComesTo
<1>4. ASSUME NEW c \in StoredIn(a), c # s, pc'[c] = "answered" PROVE Own(c, a)'
  <2>1. pc[c] = "answered" /\ answer'[c] = answer[c]
    BY <1>0, <1>4 DEF Elsewhere, StoredIn
  <2>2. PICK x : x = answer[c]
    OBVIOUS
  <2>3. PICK cs \in SUBSET StoredIn(a) : c \in cs /\ ComesTo(x, a, cs)
    BY <1>2, <2>1, <2>2 DEF Alone, Own
  <2>4. ComesTo(x, a, cs)'
    BY <2>3, StoredStays, ComesToStays
  <2> QED  BY <2>1, <2>2, <2>3, <2>4, StoredStays DEF Own, ComesTo
<1>5. CASE PostRead(s)
  <2>1. PICK b \in Accounts :
          /\ call[s].account = b /\ UNCHANGED balance /\ pc[s] = "run"
          /\ sum' = [sum EXCEPT ![s] = RoundToCents(balance[b] + call[s].amount)]
          /\ raced' = IF Posting(b) # {} THEN raced \cup {b} ELSE raced
          /\ StoredIn(a)' = StoredIn(a)
          /\ Posting(a)' = IF a = b THEN Posting(a) \cup {s} ELSE Posting(a)
    BY <1>0, <1>5, ReadStep
  <2>2. s \notin StoredIn(a) /\ (a = b => Posting(a) = {})
    BY <2>1 DEF StoredIn
  <2>3. \A c, d \in Posting(a)' : c = d
    BY <1>2, <2>1, <2>2 DEF Alone
  <2>4. ASSUME NEW c \in Posting(a)' PROVE ComesTo(sum[c], a, StoredIn(a) \cup {c})'
    <3>1. PICK cs \in SUBSET StoredIn(a) : cs = StoredIn(a)
      OBVIOUS
    <3>2. CASE a = b
      <4>1. c = s
        BY <2>1, <2>2, <2>4, <3>2
      <4>2. ComesTo(sum[c], a, cs \cup {c})'
        BY <1>2, <1>5, <2>1, <3>1, <3>2, <4>1, ReadAdds DEF Alone
      <4> QED  BY <2>1, <3>1, <4>2 DEF ComesTo
    <3>3. CASE a # b
      <4>1. c \in Posting(a)
        BY <2>1, <2>4, <3>3
      <4>2. sum'[c] = sum[c]
        BY <1>0, <2>1, <4>1 DEF Posting, Typed, TypeOK
      <4>3. PICK x : x = sum[c]
        OBVIOUS
      <4>4. ComesTo(x, a, cs \cup {c})
        BY <1>2, <3>1, <4>1, <4>3 DEF Alone
      <4>5. ComesTo(x, a, cs \cup {c})'
        BY <4>1, <4>4, StoredStays, ComesToStays
      <4> QED  BY <2>1, <3>1, <4>2, <4>3, <4>5 DEF ComesTo
    <3> QED  BY <3>2, <3>3
  <2>5. ASSUME NEW c \in StoredIn(a)', pc'[c] = "answered" PROVE Own(c, a)'
    BY <1>4, <2>1, <2>2, <2>5
  <2> QED  BY <1>3, <2>1, <2>3, <2>4, <2>5 DEF Alone
<1>6. CASE Store(s)
  <2>1. PICK b \in Accounts :
          /\ s \in Posting(b) /\ pc'[s] = "journal"
          /\ balance' = [balance EXCEPT ![b] = sum[s]] /\ UNCHANGED sum
          /\ StoredIn(a)' = IF a = b THEN StoredIn(a) \cup {s} ELSE StoredIn(a)
          /\ Posting(a)' = IF a = b THEN Posting(a) \ {s} ELSE Posting(a)
    BY <1>0, <1>6, StoreStep
  <2>2. \A c, d \in Posting(a)' : c = d
    BY <1>2, <2>1 DEF Alone
  <2>3. ASSUME NEW c \in StoredIn(a)', pc'[c] = "answered" PROVE Own(c, a)'
    BY <1>4, <2>1, <2>3
  <2>4. CASE a = b
    <3>1. PICK x, cs : x = sum[s] /\ cs = StoredIn(a) \cup {s}
      OBVIOUS
    <3>2. ComesTo(x, a, cs)
      BY <1>2, <2>1, <2>4, <3>1 DEF Alone
    <3>3. ComesTo(x, a, cs)'
      BY <2>1, <2>4, <3>1, <3>2, StoredStays, ComesToStays
    <3>4. balance'[a] = x /\ StoredIn(a)' = cs
      BY <1>0, <2>1, <2>4, <3>1
    <3>5. ComesTo(balance[a], a, StoredIn(a))'
      BY <3>3, <3>4 DEF ComesTo
    <3>6. Posting(a)' = {}
      BY <1>2, <2>1, <2>4 DEF Alone
    <3> QED  BY <2>3, <3>5, <3>6 DEF Alone
  <2>5. CASE a # b
    <3>1. StoredIn(a)' = StoredIn(a) /\ balance'[a] = balance[a]
      BY <1>0, <2>1, <2>5
    <3>2. ASSUME NEW c \in Posting(a)' PROVE ComesTo(sum[c], a, StoredIn(a) \cup {c})'
      <4>1. c \in Posting(a)
        BY <2>1, <2>5, <3>2
      <4>2. PICK x, cs : x = sum[c] /\ cs = StoredIn(a) \cup {c}
        OBVIOUS
      <4>3. ComesTo(x, a, cs)'
        BY <1>2, <4>1, <4>2, StoredStays, ComesToStays DEF Alone
      <4> QED  BY <2>1, <3>1, <4>2, <4>3 DEF ComesTo
    <3> QED  BY <1>3, <2>2, <2>3, <3>1, <3>2 DEF Alone
  <2> QED  BY <2>4, <2>5
<1>7. CASE ~PostRead(s) /\ ~Store(s)
  <2>1. UNCHANGED <<balance, sum>> /\ Posting(a)' = Posting(a) /\ StoredIn(a)' = StoredIn(a)
    BY <1>0, <1>7, QuietStep
  <2>2. ASSUME NEW c \in Posting(a)' PROVE ComesTo(sum[c], a, StoredIn(a) \cup {c})'
    <3>1. PICK x, cs : x = sum[c] /\ cs = StoredIn(a) \cup {c}
      OBVIOUS
    <3>2. ComesTo(x, a, cs)'
      BY <1>2, <2>1, <3>1, StoredStays, ComesToStays DEF Alone
    <3> QED  BY <2>1, <3>1, <3>2 DEF ComesTo
  <2>3. ASSUME NEW c \in StoredIn(a)', pc'[c] = "answered" PROVE Own(c, a)'
    <3>1. CASE c # s
      BY <1>4, <2>1, <2>3, <3>1
    <3>2. CASE c = s
      <4>1. pc[s] # "answered" /\ IsPosting(s) /\ pc[s] # "idle" /\ call'[s] = call[s]
            /\ call[s].account = a
        BY <1>0, <2>1, <2>3, <3>2, StepsAreLocal DEF StoredIn
      <4>2. Told(s, a)' /\ ~Told(s, a)
        BY <2>3, <3>2, <4>1 DEF Told, IsPosting
      <4>3. s \in StoredIn(a) /\ answer'[s] = balance[a]
        BY <4>1, <4>2, TellsBalance
      <4>4. PICK x, cs : x = balance[a] /\ cs = StoredIn(a)
        OBVIOUS
      <4>5. ComesTo(x, a, cs)'
        BY <1>2, <4>4, StoredStays, ComesToStays DEF Alone
      <4>6. s \in cs /\ cs \in SUBSET StoredIn(a)' /\ answer'[s] = x
        BY <2>1, <4>3, <4>4
      <4> QED  BY <3>2, <4>5, <4>6 DEF Own, ComesTo
    <3> QED  BY <3>1, <3>2
  <2> QED  BY <1>2, <1>3, <2>1, <2>2, <2>3 DEF Alone
<1> QED  BY <1>5, <1>6, <1>7

Ledger == \A a \in Accounts : History(a) /\ (a \notin raced => Alone(a))

LEMMA LedgerAlways == Spec => []Ledger
<1>1. Init => Ledger
  <2> SUFFICES ASSUME Init, NEW a \in Accounts PROVE History(a) /\ Alone(a)
    BY DEF Ledger
  <2>1. StoredIn(a) = {} /\ Posting(a) = {} /\ \A c \in Calls : ~Told(c, a)
    BY DEF Init, StoredIn, Posting, Told
  <2>2. ComesTo(balance[a], a, {})
    BY TotalOfNone, FS_EmptySet, BackendsAssumption DEF Init, ComesTo
  <2> QED  BY <2>1, <2>2 DEF History, Alone, Explained
<1>2. Counted /\ Ledger /\ [Next]_vars => Ledger'
  <2> SUFFICES ASSUME Counted, Ledger, [Next]_vars PROVE Ledger'
    OBVIOUS
  <2>1. CASE UNCHANGED vars
    <3>1. UNCHANGED <<pc, call, sum, balance, raced, answer>>
      BY <2>1 DEF vars, data
    <3>2. /\ \A a : UNCHANGED <<StoredIn(a), Posting(a)>>
          /\ \A cs : UNCHANGED Total(cs)
      BY <3>1 DEF StoredIn, Posting, IsPosting, Total
    <3> QED  BY <3>1, <3>2
          DEF Ledger, History, Alone, Explained, SumExplained, Own, Told, ComesTo
  <2>2. CASE AllAnswered
    BY <2>1, <2>2 DEF AllAnswered
  <2>3. ASSUME NEW s \in Calls, Step(s) PROVE Ledger'
    <3> SUFFICES ASSUME NEW a \in Accounts PROVE History(a)' /\ (a \notin raced' => Alone(a)')
      BY DEF Ledger
    <3>1. History(a) /\ (a \notin raced => Alone(a))
      BY DEF Ledger
    <3> QED  BY <2>3, <3>1, HistoryStep, AloneStep
  <2> QED  BY <2>1, <2>2, <2>3 DEF Next, Step
<1> QED  BY <1>1, <1>2, TypedAlways, BegunAlways, PTL DEF Spec, Counted

(* On an account where no two postings overlapped between read and store,  *)
(* no posting is lost from the balance or from its own answer.             *)
THEOREM OverlapCorrect == Spec => []OnlyOverlapLoses
<1>1. Ledger => OnlyOverlapLoses
  BY DEF Ledger, Alone, Own, OnlyOverlapLoses
<1> QED  BY <1>1, LedgerAlways, PTL

(* However the threads interleave, every balance and every answer comes to *)
(* whole postings that were stored, each counted once.                     *)
THEOREM HistoryCorrect == Spec => []BalanceIsSomeHistory
<1>1. Ledger => BalanceIsSomeHistory
  BY DEF Ledger, History, Explained, Told, BalanceIsSomeHistory
<1> QED  BY <1>1, LedgerAlways, PTL
=============================================================================
