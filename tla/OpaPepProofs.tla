--------------------------- MODULE OpaPepProofs ---------------------------
(***************************************************************************)
(* Theorems about the policy enforcement point, for every set of requests, *)
(* users, backends and tools, every regime and every fault:               *)
(*   TypeCorrect          the variables keep their types                   *)
(*   ClearedCorrect       no backend sees a credential the PDP did not     *)
(*                        clear for this request                           *)
(*   OwnCorrect           the credential is the request's own              *)
(*   RoutedCorrect        a call reaches only its tool's server            *)
(*   ShownCorrect         a list shows only what was cleared               *)
(* Each rests on an inductive invariant that says more: Typed for the      *)
(* first, Kept (custody of the token) for the next two, and Kept with      *)
(* Bound for the last two.                                                 *)
(***************************************************************************)
EXTENDS OpaPep, TLAPS

-----------------------------------------------------------------------------
(* What the operators of the handlers return.                              *)

(* An operation of an authenticated hook, or the record of any hook, is an *)
(* Operation.                                                              *)
LEMMA CallOperation ==
    ASSUME NEW u \in Users \cup {Anonymous}, NEW m \in Mounted
    PROVE  [hook |-> "tools/call", who |-> u, name |-> m] \in Operations
  BY DEF Operations, Hooks

LEMMA OtherOperation ==
    ASSUME NEW u \in Users \cup {Anonymous},
           NEW h \in {"unmodeled", "tools/list", "resources/list"}
    PROVE  [hook |-> h, who |-> u, name |-> NoTarget] \in Operations
  BY DEF Operations, Hooks

(* A name resolves to a backend or to none.                                *)
LEMMA ResolveType ==
    ASSUME NEW m \in Mounted
    PROVE  Resolve(m) \in Backends \cup {NoBackend}
  BY DEF Resolve, Mounted

(* The provider returns a token of the backend it was asked about, for an  *)
(* authenticated principal.                                                *)
LEMMA TokenForType ==
    ASSUME NEW o \in Operations, NEW b \in Backends, o.who \in Users,
           o.hook = "tools/call" => o.name[2] \in Tools
    PROVE  TokenFor(o, b) \in Tokens
  BY DEF TokenFor, Tokens, ScopeAsked

LEMMA JtiType ==
    ASSUME NEW t \in Tokens \cup {NoToken}
    PROVE  Jti(t) \in Tokens \cup {NoToken}
  BY DEF Jti

LEMMA AuditRowType ==
    ASSUME NEW b \in Backends \cup {NoBackend}, NEW allow \in BOOLEAN,
           NEW status \in Statuses, NEW jti \in Tokens \cup {NoToken}
    PROVE  AuditRow(b, allow, status, jti) \in AuditRows
  BY DEF AuditRow, AuditRows

-----------------------------------------------------------------------------
(* Types.  What the task knows where it is suspended: TypeOK alone does    *)
(* not say that a decision is about a backend and for a user, or that a    *)
(* task in "write" has a row to write.                                     *)

Writes == [row : AuditRows, then : {"return", "raise", "cancel", "continue"}]

Shape(r) ==
    /\ pc[r] # "idle" => op[r] \in Operations
    /\ pc[r] \in {"opa", "mint"} =>
         /\ cur[r] \in Backends
         /\ op[r].who \in Users
         /\ IsCall(r) => op[r].name[2] \in Tools
    /\ pc[r] = "next" /\ IsCall(r) => cur[r] \in Backends
    /\ pc[r] = "write" =>
         /\ writing[r] \in Writes
         /\ writing[r].then = "continue" => ~IsCall(r) /\ op[r].who \in Users

Shaped == \A r \in Requests : Shape(r)
Typed == TypeOK /\ Shaped

(* Starting a write keeps the types of the two variables it sets.          *)
LEMMA StartWriteTypes ==
    ASSUME TypeOK, NEW r \in Requests, NEW row \in AuditRows,
           NEW then \in {"return", "raise", "cancel", "continue"},
           StartWrite(r, row, then)
    PROVE  /\ pc' \in [Requests -> {"idle", "opa", "mint", "next", "write", "done"}]
           /\ writing' \in [Requests -> Writes \cup {NoWrite}]
           /\ pc'[r] = "write" /\ writing'[r] = [row |-> row, then |-> then]
           /\ writing'[r] \in Writes
           /\ writing'[r].row = row /\ writing'[r].then = then
           /\ \A q \in Requests \ {r} : pc'[q] = pc[q] /\ writing'[q] = writing[q]
  BY DEF StartWrite, TypeOK, Writes

(* A step of one request leaves every variable of another alone: there is  *)
(* no way around the per-task ContextVar.                                  *)
Elsewhere(r) == \A q \in Requests \ {r} :
    /\ pc'[q] = pc[q] /\ op'[q] = op[q] /\ cur'[q] = cur[q] /\ todo'[q] = todo[q]
    /\ ctx'[q] = ctx[q] /\ writing'[q] = writing[q] /\ pdp'[q] = pdp[q]
    /\ tokens'[q] = tokens[q] /\ sent'[q] = sent[q]

Step(r) ==
    Arrivals(r) \/ Decide(r) \/ Mint(r) \/ CallNext(r) \/ Written(r) \/ Cancel(r)

LEMMA StepsAreLocal ==
    ASSUME TypeOK, NEW r \in Requests, Step(r)
    PROVE  Elsewhere(r)
<1> SUFFICES ASSUME NEW q \in Requests \ {r}
             PROVE  /\ pc'[q] = pc[q] /\ op'[q] = op[q] /\ cur'[q] = cur[q]
                    /\ todo'[q] = todo[q] /\ ctx'[q] = ctx[q]
                    /\ writing'[q] = writing[q] /\ pdp'[q] = pdp[q]
                    /\ tokens'[q] = tokens[q] /\ sent'[q] = sent[q]
  BY DEF Elsewhere
<1> USE DEF TypeOK, StartWrite, Finish, Arrive, Stash
<1>1. CASE CallUnauthenticated(r)
  BY <1>1 DEF CallUnauthenticated
<1>2. CASE OnCallTool(r)
  BY <1>2 DEF OnCallTool
<1>3. CASE Unmodeled(r)
  BY <1>3 DEF Unmodeled
<1>4. CASE OnList(r)
  BY <1>4 DEF OnList
<1>5. CASE PdpAnswers(r)
  BY <1>5 DEF PdpAnswers
<1>6. CASE Minted(r)
  BY <1>6 DEF Minted
<1>7. CASE MintFails(r)
  BY <1>7 DEF MintFails
<1>8. CASE PdpEscapes(r) \/ MintEscapes(r)
  BY <1>8 DEF PdpEscapes, MintEscapes
<1>9. CASE Contact(r)
  BY <1>9 DEF Contact
<1>10. CASE CallReturns(r) \/ CallRaises(r) \/ CancelCall(r)
  BY <1>10 DEF CallReturns, CallRaises, CancelCall, CallEnds
<1>11. CASE ListReturns(r)
  BY <1>11 DEF ListReturns
<1>12. CASE ListRaises(r)
  BY <1>12 DEF ListRaises
<1>13. CASE Written(r)
  BY <1>13 DEF Written, Record
<1>14. CASE CancelBeforeNext(r)
  BY <1>14 DEF CancelBeforeNext
<1>15. CASE CancelWrite(r)
  BY <1>15 DEF CancelWrite, Record
<1> QED
  BY <1>1, <1>2, <1>3, <1>4, <1>5, <1>6, <1>7, <1>8, <1>9, <1>10, <1>11, <1>12, <1>13,
     <1>14, <1>15 DEF Step, Arrivals, Decide, Mint, CallNext, Cancel

(* So only the request that takes the step has its shape to defend.        *)
LEMMA ShapedStep ==
    ASSUME Typed, NEW r \in Requests, Step(r), Shape(r)'
    PROVE  Shaped'
<1> SUFFICES ASSUME NEW q \in Requests \ {r} PROVE Shape(q)'
  BY DEF Shaped
<1>1. pc'[q] = pc[q] /\ op'[q] = op[q] /\ cur'[q] = cur[q] /\ writing'[q] = writing[q]
  BY StepsAreLocal DEF Typed, Elsewhere
<1>2. Shape(q)
  BY DEF Typed, Shaped
<1> QED BY <1>1, <1>2 DEF Shape, IsCall

(* A request starts as the types say, whoever sends it.                    *)
LEMMA ArrivalsTyped ==
    ASSUME Typed, NEW r \in Requests, Arrivals(r)
    PROVE  TypeOK' /\ Shape(r)'
<1>0. TypeOK
  BY DEF Typed
<1>1. CASE CallUnauthenticated(r)
  <2>1. PICK m \in Mounted :
          Arrive(r, [hook |-> "tools/call", who |-> Anonymous, name |-> m])
    BY <1>1 DEF CallUnauthenticated
  <2>2. [hook |-> "tools/call", who |-> Anonymous, name |-> m] \in Operations
    BY CallOperation
  <2>3. TypeOK'
    BY <1>0, <1>1, <2>1, <2>2 DEF CallUnauthenticated, Arrive, Finish, TypeOK, Ends
  <2>4. Shape(r)'
    BY <1>0, <1>1, <2>1, <2>2 DEF CallUnauthenticated, Arrive, Finish, TypeOK, Shape
  <2> QED BY <2>3, <2>4
<1>2. CASE OnCallTool(r)
  <2>1. PICK u \in Users, m \in Mounted :
          /\ Arrive(r, [hook |-> "tools/call", who |-> u, name |-> m])
          /\ cur' = [cur EXCEPT ![r] = Resolve(m)]
          /\ \/ /\ Resolve(m) # NoBackend
                /\ pc' = [pc EXCEPT ![r] = "opa"]
                /\ UNCHANGED writing
             \/ /\ Resolve(m) = NoBackend
                /\ StartWrite(r, AuditRow(NoBackend, FALSE, "denied", NoToken), "raise")
          /\ UNCHANGED <<todo, ctx, rows, end, listed, pdp, tokens, sent>>
    BY <1>2 DEF OnCallTool
  <2> DEFINE o == [hook |-> "tools/call", who |-> u, name |-> m]
  <2>2. o \in Operations /\ op' = [op EXCEPT ![r] = o]
    BY <2>1, CallOperation DEF Arrive
  <2>3. Resolve(m) \in Backends \cup {NoBackend}
    BY ResolveType
  <2>4. CASE Resolve(m) # NoBackend
    <3>1. m[2] \in Tools
      BY <2>4 DEF Resolve
    <3>2. pc' = [pc EXCEPT ![r] = "opa"] /\ UNCHANGED writing
      BY <2>1, <2>4
    <3>3. TypeOK'
      BY <1>0, <2>1, <2>2, <2>3, <3>2 DEF TypeOK
    <3>4. Shape(r)'
      BY <1>0, <2>1, <2>2, <2>3, <2>4, <3>1, <3>2 DEF TypeOK, Shape
    <3> QED BY <3>3, <3>4
  <2>5. CASE Resolve(m) = NoBackend
    <3>1. StartWrite(r, AuditRow(NoBackend, FALSE, "denied", NoToken), "raise")
      BY <2>1, <2>5
    <3>2. AuditRow(NoBackend, FALSE, "denied", NoToken) \in AuditRows
      BY AuditRowType DEF Statuses
    <3>3. /\ pc' \in [Requests -> {"idle", "opa", "mint", "next", "write", "done"}]
          /\ writing' \in [Requests -> Writes \cup {NoWrite}]
          /\ pc'[r] = "write" /\ writing'[r] \in Writes /\ writing'[r].then = "raise"
      BY <1>0, <3>1, <3>2, StartWriteTypes
    <3>4. TypeOK'
      BY <1>0, <2>1, <2>2, <2>3, <3>3 DEF TypeOK, Writes
    <3>5. Shape(r)'
      BY <1>0, <2>2, <3>3 DEF TypeOK, Shape
    <3> QED BY <3>4, <3>5
  <2> QED BY <2>4, <2>5
<1>3. CASE Unmodeled(r)
  <2>1. PICK u \in Users \cup {Anonymous} :
          Arrive(r, [hook |-> "unmodeled", who |-> u, name |-> NoTarget])
    BY <1>3 DEF Unmodeled
  <2> DEFINE o == [hook |-> "unmodeled", who |-> u, name |-> NoTarget]
  <2>2. o \in Operations /\ op' = [op EXCEPT ![r] = o]
    BY <2>1, OtherOperation DEF Arrive
  <2>3. AuditRow(NoBackend, FALSE, "denied", NoToken) \in AuditRows
    BY AuditRowType DEF Statuses
  <2>4. StartWrite(r, AuditRow(NoBackend, FALSE, "denied", NoToken), "raise")
    BY <1>3 DEF Unmodeled
  <2>5. /\ pc' \in [Requests -> {"idle", "opa", "mint", "next", "write", "done"}]
        /\ writing' \in [Requests -> Writes \cup {NoWrite}]
        /\ pc'[r] = "write" /\ writing'[r] \in Writes /\ writing'[r].then = "raise"
    BY <1>0, <2>3, <2>4, StartWriteTypes
  <2>6. TypeOK'
    BY <1>0, <1>3, <2>2, <2>5 DEF Unmodeled, TypeOK, Writes
  <2>7. Shape(r)'
    BY <1>0, <2>2, <2>5 DEF TypeOK, Shape
  <2> QED BY <2>6, <2>7
<1>4. CASE OnList(r)
  <2>1. PICK h \in {"tools/list", "resources/list"}, u \in Users \cup {Anonymous} :
          /\ Arrive(r, [hook |-> h, who |-> u, name |-> NoTarget])
          /\ \/ /\ u = Anonymous
                /\ pc' = [pc EXCEPT ![r] = "next"]
                /\ UNCHANGED <<cur, todo>>
             \/ /\ u # Anonymous
                /\ pc' = [pc EXCEPT ![r] = "opa"]
                /\ \E b \in Backends : /\ cur' = [cur EXCEPT ![r] = b]
                                       /\ todo' = [todo EXCEPT ![r] = Backends \ {b}]
          /\ UNCHANGED <<ctx, writing, rows, end, listed, pdp, tokens, sent>>
    BY <1>4 DEF OnList
  <2> DEFINE o == [hook |-> h, who |-> u, name |-> NoTarget]
  <2>2. /\ o \in Operations /\ op' = [op EXCEPT ![r] = o]
        /\ op'[r] = o /\ ~IsCall(r)'
    BY <1>0, <2>1, OtherOperation DEF Arrive, TypeOK, IsCall
  <2>3. CASE u = Anonymous
    <3>1. pc' = [pc EXCEPT ![r] = "next"] /\ UNCHANGED <<cur, todo>>
      BY <2>1, <2>3
    <3>2. TypeOK'
      BY <1>0, <2>1, <2>2, <3>1 DEF TypeOK
    <3>3. Shape(r)'
      BY <1>0, <2>2, <3>1 DEF TypeOK, Shape
    <3> QED BY <3>2, <3>3
  <2>4. CASE u # Anonymous
    <3>1. PICK b \in Backends : /\ cur' = [cur EXCEPT ![r] = b]
                                /\ todo' = [todo EXCEPT ![r] = Backends \ {b}]
      BY <2>1, <2>4
    <3>2. pc' = [pc EXCEPT ![r] = "opa"]
      BY <2>1, <2>4
    <3>3. TypeOK'
      BY <1>0, <2>1, <2>2, <3>1, <3>2 DEF TypeOK
    <3>4. pc'[r] = "opa" /\ cur'[r] = b /\ op'[r].who \in Users
      BY <1>0, <2>2, <2>4, <3>1, <3>2 DEF TypeOK
    <3>5. Shape(r)'
      BY <2>2, <3>4 DEF Shape
    <3> QED BY <3>3, <3>5
  <2> QED BY <2>3, <2>4
<1> QED BY <1>1, <1>2, <1>3, <1>4 DEF Arrivals

(* Neither does the decision or the mint spoil a type, whatever the PDP    *)
(* and the token service answer.                                           *)
LEMMA PdpAnswersTyped ==
    ASSUME Typed, NEW r \in Requests, PdpAnswers(r)
    PROVE  TypeOK' /\ Shape(r)'
<1>0. TypeOK /\ pc[r] = "opa" /\ Shape(r)
  BY DEF Typed, Shaped, PdpAnswers
<1>1. /\ cur[r] \in Backends /\ op[r] \in Operations /\ op[r].who \in Users
      /\ IsCall(r) => op[r].name[2] \in Tools
  BY <1>0 DEF Shape
<1>2. PICK a \in Answers :
        /\ pdp' = [pdp EXCEPT ![r][cur[r]] = a]
        /\ \/ /\ Allows(a)
              /\ pc' = [pc EXCEPT ![r] = "mint"]
              /\ UNCHANGED writing
           \/ /\ ~Allows(a)
              /\ StartWrite(r, AuditRow(cur[r], FALSE, "denied", NoToken), AfterRefusal(r))
  BY DEF PdpAnswers
<1>3. UNCHANGED <<op, cur, todo, ctx, rows, end, listed, tokens, sent>>
  BY DEF PdpAnswers
<1>4. pdp' \in [Requests -> [Backends -> Answers \cup {"unasked"}]]
  BY <1>0, <1>1, <1>2 DEF TypeOK
<1>5. CASE Allows(a)
  <2>1. pc' = [pc EXCEPT ![r] = "mint"] /\ UNCHANGED writing
    BY <1>2, <1>5
  <2>2. TypeOK'
    BY <1>0, <1>3, <1>4, <2>1 DEF TypeOK
  <2>3. Shape(r)'
    BY <1>0, <1>1, <1>3, <2>1 DEF TypeOK, Shape, IsCall
  <2> QED BY <2>2, <2>3
<1>6. CASE ~Allows(a)
  <2>1. StartWrite(r, AuditRow(cur[r], FALSE, "denied", NoToken), AfterRefusal(r))
    BY <1>2, <1>6
  <2>2. /\ AuditRow(cur[r], FALSE, "denied", NoToken) \in AuditRows
        /\ AfterRefusal(r) \in {"return", "raise", "cancel", "continue"}
    BY <1>1, AuditRowType DEF Statuses, AfterRefusal
  <2>3. /\ pc' \in [Requests -> {"idle", "opa", "mint", "next", "write", "done"}]
        /\ writing' \in [Requests -> Writes \cup {NoWrite}]
        /\ pc'[r] = "write" /\ writing'[r] \in Writes /\ writing'[r].then = AfterRefusal(r)
    BY <1>0, <2>1, <2>2, StartWriteTypes
  <2>4. TypeOK'
    BY <1>0, <1>3, <1>4, <2>3 DEF TypeOK, Writes
  <2>5. Shape(r)'
    BY <1>0, <1>1, <1>3, <2>3 DEF Shape, AfterRefusal, IsCall
  <2> QED BY <2>4, <2>5
<1> QED BY <1>5, <1>6

LEMMA PdpEscapesTyped ==
    ASSUME Typed, NEW r \in Requests, PdpEscapes(r)
    PROVE  TypeOK' /\ Shape(r)'
<1>0. TypeOK /\ pc[r] = "opa" /\ Shape(r)
  BY DEF Typed, Shaped, PdpEscapes
<1>1. TypeOK'
  BY <1>0 DEF PdpEscapes, Finish, TypeOK, Ends
<1>2. Shape(r)'
  BY <1>0 DEF PdpEscapes, Finish, TypeOK, Shape
<1> QED BY <1>1, <1>2

LEMMA MintTyped ==
    ASSUME Typed, NEW r \in Requests, Mint(r)
    PROVE  TypeOK' /\ Shape(r)'
<1>0. TypeOK /\ pc[r] = "mint" /\ Shape(r)
  BY DEF Typed, Shaped, Mint, Minted, MintFails, MintEscapes
<1>1. /\ cur[r] \in Backends /\ op[r] \in Operations /\ op[r].who \in Users
      /\ IsCall(r) => op[r].name[2] \in Tools
  BY <1>0 DEF Shape
<1>2. CASE Minted(r)
  <2> DEFINE t == TokenFor(op[r], cur[r])
  <2>1. t \in Tokens
    BY <1>1, TokenForType DEF IsCall
  <2>2. /\ tokens' = [tokens EXCEPT ![r][cur[r]] = t]
        /\ UNCHANGED <<op, cur, todo, rows, end, listed, pdp, sent>>
    BY <1>2 DEF Minted
  <2>3. /\ tokens' \in [Requests -> [Backends -> Tokens \cup {NoToken}]]
        /\ tokens'[r][cur[r]] = t
    BY <1>0, <1>1, <2>1, <2>2 DEF TypeOK
  <2>4. CASE IsCall(r)
    <3>1. ctx' = Stash(ctx, r, tokens'[r]) /\ pc' = [pc EXCEPT ![r] = "next"] /\ UNCHANGED writing
      BY <1>2, <2>4 DEF Minted, IsCall, IsList
    <3>2. ctx' \in [Requests -> [Backends -> Tokens \cup {NoToken}]]
      BY <1>0, <2>3, <3>1 DEF Stash, TypeOK
    <3>3. TypeOK'
      BY <1>0, <2>2, <2>3, <3>1, <3>2 DEF TypeOK
    <3>4. Shape(r)'
      BY <1>0, <1>1, <2>2, <3>1 DEF TypeOK, Shape
    <3> QED BY <3>3, <3>4
  <2>5. CASE ~IsCall(r)
    <3>1. StartWrite(r, AuditRow(cur[r], TRUE, "ok", Jti(t)), "continue") /\ UNCHANGED ctx
      BY <1>2, <2>3, <2>5 DEF Minted
    <3>2. AuditRow(cur[r], TRUE, "ok", Jti(t)) \in AuditRows
      <4>1. Jti(t) \in Tokens \cup {NoToken}
        BY <2>1, JtiType
      <4> QED BY <1>1, <4>1, AuditRowType DEF Statuses
    <3>3. /\ pc' \in [Requests -> {"idle", "opa", "mint", "next", "write", "done"}]
          /\ writing' \in [Requests -> Writes \cup {NoWrite}]
          /\ pc'[r] = "write" /\ writing'[r] \in Writes /\ writing'[r].then = "continue"
      BY <1>0, <3>1, <3>2, StartWriteTypes
    <3>4. TypeOK'
      BY <1>0, <2>2, <2>3, <3>1, <3>3 DEF TypeOK, Writes
    <3>5. Shape(r)'
      BY <1>0, <1>1, <2>2, <2>5, <3>3 DEF Shape, IsCall
    <3> QED BY <3>4, <3>5
  <2> QED BY <2>4, <2>5
<1>3. CASE MintFails(r)
  <2>1. StartWrite(r, AuditRow(cur[r], TRUE, "error", NoToken), AfterRefusal(r))
    BY <1>3 DEF MintFails
  <2>2. /\ AuditRow(cur[r], TRUE, "error", NoToken) \in AuditRows
        /\ AfterRefusal(r) \in {"return", "raise", "cancel", "continue"}
    BY <1>1, AuditRowType DEF Statuses, AfterRefusal
  <2>3. /\ pc' \in [Requests -> {"idle", "opa", "mint", "next", "write", "done"}]
        /\ writing' \in [Requests -> Writes \cup {NoWrite}]
        /\ pc'[r] = "write" /\ writing'[r] \in Writes /\ writing'[r].then = AfterRefusal(r)
    BY <1>0, <2>1, <2>2, StartWriteTypes
  <2>4. TypeOK'
    BY <1>0, <1>3, <2>3 DEF MintFails, TypeOK, Writes
  <2>5. Shape(r)'
    BY <1>0, <1>1, <1>3, <2>3 DEF MintFails, Shape, AfterRefusal, IsCall
  <2> QED BY <2>4, <2>5
<1>4. CASE MintEscapes(r)
  <2>1. TypeOK'
    BY <1>0, <1>4 DEF MintEscapes, Finish, TypeOK, Ends
  <2>2. Shape(r)'
    BY <1>0, <1>4 DEF MintEscapes, Finish, TypeOK, Shape
  <2> QED BY <2>1, <2>2
<1> QED BY <1>2, <1>3, <1>4 DEF Mint

(* The end of a tool call, however it comes about.                         *)
LEMMA CallEndsTyped ==
    ASSUME Typed, NEW r \in Requests, NEW status \in Statuses,
           NEW then \in {"return", "raise", "cancel"}, CallEnds(r, status, then)
    PROVE  TypeOK' /\ Shape(r)'
<1>0. TypeOK /\ pc[r] = "next" /\ IsCall(r) /\ Shape(r)
  BY DEF Typed, Shaped, CallEnds
<1>1. cur[r] \in Backends /\ op[r] \in Operations
  BY <1>0 DEF Shape
<1>2. AuditRow(cur[r], TRUE, status, Jti(tokens[r][cur[r]])) \in AuditRows
  <2>1. Jti(tokens[r][cur[r]]) \in Tokens \cup {NoToken}
    BY <1>0, <1>1, JtiType DEF TypeOK
  <2> QED BY <1>1, <2>1, AuditRowType
<1>3. StartWrite(r, AuditRow(cur[r], TRUE, status, Jti(tokens[r][cur[r]])), then)
  BY DEF CallEnds
<1>4. /\ pc' \in [Requests -> {"idle", "opa", "mint", "next", "write", "done"}]
      /\ writing' \in [Requests -> Writes \cup {NoWrite}]
      /\ pc'[r] = "write" /\ writing'[r] \in Writes /\ writing'[r].then = then
  BY <1>0, <1>2, <1>3, StartWriteTypes
<1>5. TypeOK'
  BY <1>0, <1>4 DEF CallEnds, TypeOK, Writes
<1>6. Shape(r)'
  BY <1>1, <1>4 DEF CallEnds, Shape
<1> QED BY <1>5, <1>6

LEMMA CallNextTyped ==
    ASSUME Typed, NEW r \in Requests, CallNext(r)
    PROVE  TypeOK' /\ Shape(r)'
<1>0. TypeOK /\ pc[r] = "next" /\ Shape(r)
  BY DEF Typed, Shaped, CallNext, Contact, CallReturns, CallRaises, CallEnds, ListReturns, ListRaises
<1>1. CASE Contact(r)
  <2>1. PICK b \in Targets(r) \ Contacted(r) :
          sent' = [sent EXCEPT ![r] = @ \cup {[backend |-> b, token |-> Credential(r, b)]}]
    BY <1>1 DEF Contact
  <2>2. b \in Backends
    BY <1>0 DEF Targets, Shape
  <2>3. Credential(r, b) \in Tokens \cup {NoToken}
    BY <1>0, <2>2 DEF Credential, TypeOK
  <2>4. TypeOK'
    BY <1>0, <1>1, <2>1, <2>2, <2>3 DEF Contact, TypeOK
  <2>5. Shape(r)'
    BY <1>0, <1>1 DEF Contact, Shape, IsCall
  <2> QED BY <2>4, <2>5
<1>2. CASE CallReturns(r)
  BY <1>2, CallEndsTyped DEF CallReturns, Statuses
<1>3. CASE CallRaises(r)
  BY <1>3, CallEndsTyped DEF CallRaises, Statuses
<1>4. CASE ListReturns(r)
  <2>1. PICK answering \in SUBSET {b \in Backends : Accepts(r, b)} :
          LET all == {m \in Mounted : m[1] \in answering /\ m[2] \in Served[m[1]]}
              filtered == op[r].hook = "tools/list" /\ op[r].who # Anonymous
          IN  listed' = [listed EXCEPT ![r] =
                           IF filtered THEN {m \in all : Visible(op[r].who, m)} ELSE all]
    BY <1>4 DEF ListReturns
  <2>2. listed' \in [Requests -> SUBSET Mounted]
    BY <1>0, <2>1 DEF TypeOK
  <2>3. TypeOK'
    BY <1>0, <1>4, <2>2 DEF ListReturns, Finish, TypeOK, Ends
  <2>4. Shape(r)'
    BY <1>0, <1>4 DEF ListReturns, Finish, TypeOK, Shape
  <2> QED BY <2>3, <2>4
<1>5. CASE ListRaises(r)
  <2>1. TypeOK'
    BY <1>0, <1>5 DEF ListRaises, Finish, TypeOK, Ends
  <2>2. Shape(r)'
    BY <1>0, <1>5 DEF ListRaises, Finish, TypeOK, Shape
  <2> QED BY <2>1, <2>2
<1> QED BY <1>1, <1>2, <1>3, <1>4, <1>5 DEF CallNext

(* The row goes into the trail, and the task goes on as the row's "then"   *)
(* says; cancelled, it may or may not have got there.                      *)
LEMMA RecordType ==
    ASSUME TypeOK, NEW r \in Requests, writing[r] \in Writes, Record(r)
    PROVE  rows' \in [Requests -> Seq(AuditRows)]
<1>1. writing[r].row \in AuditRows
  BY DEF Writes
<1>2. Append(rows[r], writing[r].row) \in Seq(AuditRows)
  BY <1>1 DEF TypeOK
<1> QED BY <1>2 DEF Record, TypeOK

LEMMA WrittenTyped ==
    ASSUME Typed, NEW r \in Requests, Written(r)
    PROVE  TypeOK' /\ Shape(r)'
<1>0. TypeOK /\ pc[r] = "write" /\ Shape(r)
  BY DEF Typed, Shaped, Written
<1>1. /\ writing[r] \in Writes /\ op[r] \in Operations
      /\ writing[r].then = "continue" => ~IsCall(r) /\ op[r].who \in Users
  BY <1>0 DEF Shape
<1>2. rows' \in [Requests -> Seq(AuditRows)]
  BY <1>0, <1>1, RecordType DEF Written
<1>3. writing' \in [Requests -> Writes \cup {NoWrite}]
  BY <1>0 DEF Written, TypeOK, Writes
<1>4. UNCHANGED <<op, listed, pdp, tokens, sent>>
  BY DEF Written
<1>5. CASE writing[r].then # "continue"
  <2>1. Finish(r, EndOf(writing[r].then)) /\ UNCHANGED <<cur, todo, ctx>>
    BY <1>5 DEF Written
  <2>2. EndOf(writing[r].then) \in Ends
    BY <1>1, <1>5 DEF Writes, EndOf, Ends
  <2>3. TypeOK'
    BY <1>0, <1>2, <1>3, <1>4, <2>1, <2>2 DEF Finish, TypeOK, Writes
  <2>4. Shape(r)'
    BY <1>0, <1>1, <1>4, <2>1 DEF Finish, TypeOK, Shape
  <2> QED BY <2>3, <2>4
<1>6. CASE writing[r].then = "continue" /\ todo[r] # {}
  <2>1. PICK b \in todo[r] : /\ cur' = [cur EXCEPT ![r] = b]
                             /\ todo' = [todo EXCEPT ![r] = @ \ {b}]
    BY <1>6 DEF Written
  <2>2. pc' = [pc EXCEPT ![r] = "opa"] /\ UNCHANGED <<ctx, end>>
    BY <1>6 DEF Written
  <2>3. b \in Backends
    BY <1>0 DEF TypeOK
  <2>4. TypeOK'
    BY <1>0, <1>2, <1>3, <1>4, <2>1, <2>2, <2>3 DEF TypeOK, Writes
  <2>5. Shape(r)'
    BY <1>0, <1>1, <1>4, <1>6, <2>1, <2>2, <2>3 DEF TypeOK, Shape, IsCall
  <2> QED BY <2>4, <2>5
<1>7. CASE writing[r].then = "continue" /\ todo[r] = {}
  <2>1. /\ ctx' = Stash(ctx, r, tokens[r])
        /\ pc' = [pc EXCEPT ![r] = "next"] /\ UNCHANGED <<cur, todo, end>>
    BY <1>7 DEF Written
  <2>2. ctx' \in [Requests -> [Backends -> Tokens \cup {NoToken}]]
    BY <1>0, <2>1 DEF Stash, TypeOK
  <2>3. TypeOK'
    BY <1>0, <1>2, <1>3, <1>4, <2>1, <2>2 DEF TypeOK, Writes
  <2>4. Shape(r)'
    BY <1>0, <1>1, <1>4, <1>7, <2>1 DEF TypeOK, Shape, IsCall
  <2> QED BY <2>3, <2>4
<1> QED BY <1>5, <1>6, <1>7

LEMMA CancelTyped ==
    ASSUME Typed, NEW r \in Requests, Cancel(r)
    PROVE  TypeOK' /\ Shape(r)'
<1>0. TypeOK /\ Shape(r)
  BY DEF Typed, Shaped
<1>1. CASE CancelBeforeNext(r)
  <2>1. op[r] \in Operations
    BY <1>0, <1>1 DEF CancelBeforeNext, Shape
  <2>2. TypeOK'
    BY <1>0, <1>1 DEF CancelBeforeNext, Finish, TypeOK, Ends
  <2>3. Shape(r)'
    BY <1>0, <1>1, <2>1 DEF CancelBeforeNext, Finish, TypeOK, Shape
  <2> QED BY <2>2, <2>3
<1>2. CASE CancelCall(r)
  BY <1>2, CallEndsTyped DEF CancelCall, Statuses
<1>3. CASE CancelWrite(r)
  <2>1. writing[r] \in Writes /\ op[r] \in Operations
    BY <1>0, <1>3 DEF CancelWrite, Shape
  <2>2. rows' \in [Requests -> Seq(AuditRows)]
    BY <1>0, <1>3, <2>1, RecordType DEF CancelWrite, TypeOK
  <2>3. TypeOK'
    BY <1>0, <1>3, <2>2 DEF CancelWrite, Finish, TypeOK, Ends
  <2>4. Shape(r)'
    BY <1>0, <1>3, <2>1 DEF CancelWrite, Finish, TypeOK, Shape
  <2> QED BY <2>3, <2>4
<1> QED BY <1>1, <1>2, <1>3 DEF Cancel

(* Every step of the enforcement point keeps Typed.                        *)
LEMMA NextTyped ==
    ASSUME Typed, [Next]_vars
    PROVE  Typed'
<1>1. CASE UNCHANGED vars
  BY <1>1 DEF vars, Typed, TypeOK, Shaped, Shape, IsCall
<1>2. CASE AllServed
  BY <1>1, <1>2 DEF AllServed
<1>3. ASSUME NEW r \in Requests, Step(r) PROVE Typed'
  <2>1. TypeOK' /\ Shape(r)'
    BY <1>3, ArrivalsTyped, PdpAnswersTyped, PdpEscapesTyped, MintTyped, CallNextTyped,
       WrittenTyped, CancelTyped DEF Step, Decide
  <2>2. Shaped'
    BY <1>3, <2>1, ShapedStep
  <2> QED BY <2>1, <2>2 DEF Typed
<1> QED BY <1>1, <1>2, <1>3 DEF Next, Step

LEMMA TypedAlways == Spec => []Typed
<1>1. Init => Typed
  BY DEF Init, Typed, TypeOK, Shaped, Shape
<1>2. Typed /\ [Next]_vars => Typed'
  BY NextTyped
<1> QED BY <1>1, <1>2, PTL DEF Spec

(* Whatever the PDP, the token service, the backends, the database and the *)
(* clients do, no handler of opa_pep.py leaves a variable outside its type.*)
THEOREM TypeCorrect == Spec => []TypeOK
<1>1. Typed => TypeOK
  BY DEF Typed
<1> QED BY <1>1, TypedAlways, PTL

-----------------------------------------------------------------------------
(* Custody.  CredentialOnlyIfCleared alone is not inductive: it says       *)
(* nothing of the ContextVar the credential is read from, nor of the token *)
(* the ContextVar was filled from, nor of a mint under way.  Custody       *)
(* follows a token from the PDP's answer (pdp) to the mint (tokens), the   *)
(* ContextVar (ctx) and the wire (sent).  What makes it inductive is that  *)
(* no backend is asked about twice: its answer cannot change under a       *)
(* token that was minted on it.                                            *)

Untouched(r) ==
    /\ todo[r] = {} /\ sent[r] = {}
    /\ \A b \in Backends :
         ctx[r][b] = NoToken /\ tokens[r][b] = NoToken /\ pdp[r][b] = "unasked"

AskedOnce(r) ==
    /\ pc[r] = "opa" => pdp[r][cur[r]] = "unasked"
    /\ pc[r] = "mint" => pdp[r][cur[r]] = "allow"
    /\ cur[r] \notin todo[r]
    /\ \A b \in todo[r] : pdp[r][b] = "unasked"

Stashed(r) == \A b \in Backends : ctx[r][b] # NoToken => ctx[r][b] = tokens[r][b]

MintedOnAllow(r) ==
    \A b \in Backends : tokens[r][b] # NoToken =>
      pdp[r][b] = "allow" /\ tokens[r][b] = TokenFor(op[r], b) /\ op[r].who \in Users

SentAsMinted(r) ==
    \A m \in sent[r] : m.token # NoToken => m.token = tokens[r][m.backend]

Custody(r) ==
    /\ pc[r] = "idle" => Untouched(r)
    /\ AskedOnce(r) /\ Stashed(r) /\ MintedOnAllow(r) /\ SentAsMinted(r)

Kept == Typed /\ \A r \in Requests : Custody(r)

(* A step that changes none of what Custody relates keeps it, once the     *)
(* request has arrived.                                                    *)
LEMMA CustodyFrame ==
    ASSUME Kept, NEW r \in Requests, pc[r] # "idle",
           UNCHANGED <<op, cur, todo, ctx, pdp, tokens, sent>>,
           pc'[r] \notin {"idle", "opa", "mint"}
    PROVE  Custody(r)'
<1>1. Custody(r)
  BY DEF Kept
<1> QED
  BY <1>1
  DEF Custody, AskedOnce, Stashed, MintedOnAllow, SentAsMinted, TokenFor, ScopeAsked

(* A request arrives with nothing asked, minted, stashed or sent.          *)
LEMMA ArrivalsCustody ==
    ASSUME Kept, NEW r \in Requests, Arrivals(r)
    PROVE  Custody(r)'
<1>0. TypeOK /\ Custody(r)
  BY DEF Kept, Typed
<1>1. pc[r] = "idle" /\ UNCHANGED <<ctx, pdp, tokens, sent>>
  BY DEF Arrivals, CallUnauthenticated, OnCallTool, Unmodeled, OnList, Arrive
<1>2. Untouched(r)
  BY <1>0, <1>1 DEF Custody
<1>3. /\ pc'[r] \in {"opa", "next", "write", "done"}
      /\ pc'[r] = "opa" => cur'[r] \in Backends
      /\ cur'[r] \notin todo'[r] /\ todo'[r] \subseteq Backends
  <2>1. CASE CallUnauthenticated(r)
    BY <1>0, <1>2, <2>1 DEF CallUnauthenticated, Finish, TypeOK, Untouched
  <2>2. CASE OnCallTool(r)
    <3>1. PICK m \in Mounted :
            /\ cur' = [cur EXCEPT ![r] = Resolve(m)]
            /\ \/ Resolve(m) # NoBackend /\ pc' = [pc EXCEPT ![r] = "opa"]
               \/ /\ Resolve(m) = NoBackend
                  /\ StartWrite(r, AuditRow(NoBackend, FALSE, "denied", NoToken), "raise")
            /\ UNCHANGED todo
      BY <2>2 DEF OnCallTool
    <3>2. Resolve(m) \in Backends \cup {NoBackend}
      BY ResolveType
    <3> QED BY <1>0, <1>2, <3>1, <3>2 DEF StartWrite, TypeOK, Untouched
  <2>3. CASE Unmodeled(r)
    BY <1>0, <1>2, <2>3 DEF Unmodeled, StartWrite, TypeOK, Untouched
  <2>4. CASE OnList(r)
    <3>1. \/ /\ pc' = [pc EXCEPT ![r] = "next"]
             /\ UNCHANGED <<cur, todo>>
          \/ /\ pc' = [pc EXCEPT ![r] = "opa"]
             /\ \E b \in Backends : /\ cur' = [cur EXCEPT ![r] = b]
                                    /\ todo' = [todo EXCEPT ![r] = Backends \ {b}]
      BY <2>4 DEF OnList
    <3> QED BY <1>0, <1>2, <3>1 DEF TypeOK, Untouched
  <2> QED BY <2>1, <2>2, <2>3, <2>4 DEF Arrivals
<1> QED
  BY <1>1, <1>2, <1>3
  DEF Untouched, Custody, AskedOnce, Stashed, MintedOnAllow, SentAsMinted

(* The PDP answers about a backend no token was minted for.                *)
LEMMA PdpAnswersCustody ==
    ASSUME Kept, NEW r \in Requests, PdpAnswers(r)
    PROVE  Custody(r)'
<1>0. TypeOK /\ pc[r] = "opa" /\ Shape(r) /\ Custody(r)
  BY DEF Kept, Typed, Shaped, PdpAnswers
<1> DEFINE c == cur[r]
<1>1. c \in Backends /\ pdp[r][c] = "unasked" /\ tokens[r][c] = NoToken
  BY <1>0 DEF Shape, Custody, AskedOnce, MintedOnAllow
<1>2. PICK a \in Answers :
        /\ pdp' = [pdp EXCEPT ![r][c] = a]
        /\ \/ Allows(a) /\ pc' = [pc EXCEPT ![r] = "mint"]
           \/ StartWrite(r, AuditRow(c, FALSE, "denied", NoToken), AfterRefusal(r))
  BY DEF PdpAnswers
<1>3. UNCHANGED <<op, cur, todo, ctx, tokens, sent>>
  BY DEF PdpAnswers
<1>4. /\ pdp'[r][c] = a
      /\ \A b \in Backends \ {c} : pdp'[r][b] = pdp[r][b]
  BY <1>0, <1>1, <1>2 DEF TypeOK
<1>5. pc'[r] = "write" \/ (pc'[r] = "mint" /\ a = "allow")
  BY <1>0, <1>2 DEF TypeOK, StartWrite, Allows
<1>6. AskedOnce(r)'
  BY <1>0, <1>3, <1>4, <1>5 DEF Custody, AskedOnce, TypeOK
<1>7. Stashed(r)' /\ SentAsMinted(r)'
  BY <1>0, <1>3 DEF Custody, Stashed, SentAsMinted
<1>8. MintedOnAllow(r)'
  BY <1>0, <1>1, <1>3, <1>4 DEF Custody, MintedOnAllow, TokenFor, ScopeAsked
<1> QED BY <1>5, <1>6, <1>7, <1>8 DEF Custody

LEMMA PdpEscapesCustody ==
    ASSUME Kept, NEW r \in Requests, PdpEscapes(r)
    PROVE  Custody(r)'
<1>1. TypeOK /\ pc[r] = "opa"
  BY DEF Kept, Typed, PdpEscapes
<1>2. pc'[r] = "done"
  BY <1>1 DEF PdpEscapes, Finish, TypeOK
<1> QED BY <1>1, <1>2, CustodyFrame DEF PdpEscapes

(* A mint follows an "allow", and minting again for the same operation     *)
(* would give the same token.                                              *)
LEMMA MintCustody ==
    ASSUME Kept, NEW r \in Requests, Mint(r)
    PROVE  Custody(r)'
<1>0. TypeOK /\ pc[r] = "mint" /\ Shape(r) /\ Custody(r)
  BY DEF Kept, Typed, Shaped, Mint, Minted, MintFails, MintEscapes
<1>1. cur[r] \in Backends /\ pdp[r][cur[r]] = "allow" /\ op[r].who \in Users
  BY <1>0 DEF Shape, Custody, AskedOnce
<1>2. CASE Minted(r)
  <2> DEFINE t == TokenFor(op[r], cur[r])
  <2>1. /\ tokens' = [tokens EXCEPT ![r][cur[r]] = t]
        /\ UNCHANGED <<op, cur, todo, pdp, sent>>
    BY <1>2 DEF Minted
  <2>2. /\ tokens'[r][cur[r]] = t
        /\ \A b \in Backends \ {cur[r]} : tokens'[r][b] = tokens[r][b]
    BY <1>0, <1>1, <2>1 DEF TypeOK
  <2>3. \A b \in Backends : tokens[r][b] # NoToken => tokens'[r][b] = tokens[r][b]
    BY <1>0, <1>1, <2>2 DEF Custody, MintedOnAllow
  <2>4. pc'[r] \in {"next", "write"}
    BY <1>0, <1>2 DEF Minted, StartWrite, TypeOK
  <2>5. MintedOnAllow(r)'
    <3> SUFFICES ASSUME NEW b \in Backends, tokens'[r][b] # NoToken
                 PROVE  /\ pdp'[r][b] = "allow" /\ op'[r].who \in Users
                        /\ tokens'[r][b] = TokenFor(op[r], b)
      BY <2>1 DEF MintedOnAllow, TokenFor, ScopeAsked
    <3>1. CASE b = cur[r]
      BY <1>1, <2>1, <2>2, <3>1
    <3>2. CASE b # cur[r]
      BY <1>0, <2>1, <2>2, <3>2 DEF Custody, MintedOnAllow
    <3> QED BY <3>1, <3>2
  <2>6. Stashed(r)'
    <3>1. CASE ctx' = Stash(ctx, r, tokens'[r])
      <4>1. \A b \in Backends :
              ctx'[r][b] = IF tokens'[r][b] # NoToken THEN tokens'[r][b] ELSE ctx[r][b]
        BY <1>0, <3>1 DEF Stash, TypeOK
      <4> QED BY <1>0, <2>3, <4>1 DEF Custody, Stashed
    <3>2. CASE UNCHANGED ctx
      BY <1>0, <2>3, <3>2 DEF Custody, Stashed
    <3> QED BY <1>2, <3>1, <3>2 DEF Minted
  <2>7. SentAsMinted(r)'
    <3> SUFFICES ASSUME NEW m \in sent[r], m.token # NoToken
                 PROVE  m.token = tokens'[r][m.backend]
      BY <2>1 DEF SentAsMinted
    <3>1. m.backend \in Backends
      BY <1>0 DEF TypeOK
    <3> QED BY <1>0, <2>3, <3>1 DEF Custody, SentAsMinted
  <2>8. AskedOnce(r)'
    BY <1>0, <2>1, <2>4 DEF Custody, AskedOnce
  <2> QED BY <2>4, <2>5, <2>6, <2>7, <2>8 DEF Custody
<1>3. CASE MintFails(r) \/ MintEscapes(r)
  <2>1. pc'[r] \in {"write", "done"}
    BY <1>0, <1>3 DEF MintFails, MintEscapes, StartWrite, Finish, TypeOK
  <2>2. UNCHANGED <<op, cur, todo, ctx, pdp, tokens, sent>>
    BY <1>3 DEF MintFails, MintEscapes
  <2> QED BY <1>0, <2>1, <2>2, CustodyFrame
<1> QED BY <1>2, <1>3 DEF Mint

(* A backend is sent what the ContextVar of this request holds.            *)
LEMMA CallNextCustody ==
    ASSUME Kept, NEW r \in Requests, CallNext(r) \/ Cancel(r)
    PROVE  Custody(r)'
<1>0. TypeOK /\ Shape(r) /\ Custody(r)
  BY DEF Kept, Typed, Shaped
<1>1. CASE Contact(r)
  <2>1. PICK b \in Targets(r) \ Contacted(r) :
          sent' = [sent EXCEPT ![r] = @ \cup {[backend |-> b, token |-> Credential(r, b)]}]
    BY <1>1 DEF Contact
  <2>2. pc[r] = "next" /\ UNCHANGED <<pc, op, cur, todo, ctx, pdp, tokens>>
    BY <1>1 DEF Contact
  <2>3. b \in Backends
    BY <1>0, <2>2 DEF Targets, Shape
  <2>4. sent'[r] = sent[r] \cup {[backend |-> b, token |-> ctx[r][b]]}
    BY <1>0, <2>1 DEF TypeOK, Credential
  <2>5. SentAsMinted(r)'
    BY <1>0, <2>2, <2>3, <2>4 DEF Custody, Stashed, SentAsMinted
  <2> QED
    BY <1>0, <2>2, <2>5
    DEF Custody, AskedOnce, Stashed, MintedOnAllow, TokenFor, ScopeAsked
<1>2. CASE CallReturns(r) \/ CallRaises(r) \/ CancelCall(r)
  BY <1>0, <1>2, CustodyFrame
  DEF CallReturns, CallRaises, CancelCall, CallEnds, StartWrite, TypeOK
<1>3. CASE ListReturns(r) \/ ListRaises(r)
  BY <1>0, <1>3, CustodyFrame DEF ListReturns, ListRaises, Finish, TypeOK
<1>4. CASE CancelBeforeNext(r) \/ CancelWrite(r)
  BY <1>0, <1>4, CustodyFrame DEF CancelBeforeNext, CancelWrite, Finish, TypeOK
<1> QED BY <1>1, <1>2, <1>3, <1>4 DEF CallNext, Cancel

(* The prefetch loop moves to a backend it has not asked about, or stashes *)
(* what it minted.                                                         *)
LEMMA WrittenCustody ==
    ASSUME Kept, NEW r \in Requests, Written(r)
    PROVE  Custody(r)'
<1>0. TypeOK /\ pc[r] = "write" /\ Custody(r)
  BY DEF Kept, Typed, Written
<1>1. UNCHANGED <<op, pdp, tokens, sent>>
  BY DEF Written
<1>2. MintedOnAllow(r)' /\ SentAsMinted(r)'
  BY <1>0, <1>1 DEF Custody, MintedOnAllow, SentAsMinted, TokenFor, ScopeAsked
<1>3. CASE writing[r].then # "continue"
  BY <1>0, <1>1, <1>3, CustodyFrame DEF Written, Finish, TypeOK
<1>4. CASE writing[r].then = "continue" /\ todo[r] # {}
  <2>1. PICK b \in todo[r] : /\ cur' = [cur EXCEPT ![r] = b]
                             /\ todo' = [todo EXCEPT ![r] = @ \ {b}]
    BY <1>4 DEF Written
  <2>2. pc' = [pc EXCEPT ![r] = "opa"] /\ UNCHANGED ctx
    BY <1>4 DEF Written
  <2>3. pc'[r] = "opa" /\ cur'[r] = b /\ todo'[r] = todo[r] \ {b}
    BY <1>0, <2>1, <2>2 DEF TypeOK
  <2>4. AskedOnce(r)'
    BY <1>0, <1>1, <2>3 DEF Custody, AskedOnce
  <2>5. Stashed(r)'
    BY <1>0, <1>1, <2>2 DEF Custody, Stashed
  <2> QED BY <1>2, <2>3, <2>4, <2>5 DEF Custody
<1>5. CASE writing[r].then = "continue" /\ todo[r] = {}
  <2>1. /\ ctx' = Stash(ctx, r, tokens[r])
        /\ pc' = [pc EXCEPT ![r] = "next"] /\ UNCHANGED <<cur, todo>>
    BY <1>5 DEF Written
  <2>2. \A b \in Backends :
          ctx'[r][b] = IF tokens[r][b] # NoToken THEN tokens[r][b] ELSE ctx[r][b]
    BY <1>0, <2>1 DEF Stash, TypeOK
  <2>3. pc'[r] = "next"
    BY <1>0, <2>1 DEF TypeOK
  <2>4. AskedOnce(r)' /\ Stashed(r)'
    BY <1>0, <1>1, <2>1, <2>2, <2>3 DEF Custody, AskedOnce, Stashed
  <2> QED BY <1>2, <2>3, <2>4 DEF Custody
<1> QED BY <1>3, <1>4, <1>5

(* Another request's step does not touch this request's custody.           *)
LEMMA CustodyElsewhere ==
    ASSUME Kept, NEW r \in Requests, Step(r), NEW q \in Requests \ {r}
    PROVE  Custody(q)'
<1>1. /\ pc'[q] = pc[q] /\ op'[q] = op[q] /\ cur'[q] = cur[q] /\ todo'[q] = todo[q]
      /\ ctx'[q] = ctx[q] /\ pdp'[q] = pdp[q] /\ tokens'[q] = tokens[q]
      /\ sent'[q] = sent[q]
  BY StepsAreLocal DEF Kept, Typed, Elsewhere
<1>2. Custody(q)
  BY DEF Kept
<1> QED
  BY <1>1, <1>2
  DEF Custody, Untouched, AskedOnce, Stashed, MintedOnAllow, SentAsMinted, TokenFor, ScopeAsked

LEMMA KeptAlways == Spec => []Kept
<1>1. Init => Kept
  <2> SUFFICES ASSUME Init PROVE Kept
    OBVIOUS
  <2>1. Typed
    BY DEF Init, Typed, TypeOK, Shaped, Shape
  <2>2. ASSUME NEW r \in Requests PROVE Custody(r)
    BY DEF Init, Custody, Untouched, AskedOnce, Stashed, MintedOnAllow, SentAsMinted
  <2> QED BY <2>1, <2>2 DEF Kept
<1>2. Kept /\ [Next]_vars => Kept'
  <2> SUFFICES ASSUME Kept, [Next]_vars PROVE Kept'
    OBVIOUS
  <2>1. Typed'
    BY NextTyped DEF Kept
  <2>2. CASE UNCHANGED vars
    BY <2>1, <2>2
    DEF vars, Kept, Custody, Untouched, AskedOnce, Stashed, MintedOnAllow, SentAsMinted,
        TokenFor, ScopeAsked
  <2>3. CASE AllServed
    BY <2>2, <2>3 DEF AllServed
  <2>4. ASSUME NEW r \in Requests, Step(r) PROVE Kept'
    <3>1. Custody(r)'
      BY <2>4, ArrivalsCustody, PdpAnswersCustody, PdpEscapesCustody, MintCustody,
         CallNextCustody, WrittenCustody DEF Step, Decide
    <3> QED BY <2>1, <2>4, <3>1, CustodyElsewhere DEF Kept
  <2> QED BY <2>2, <2>3, <2>4 DEF Next, Step
<1> QED BY <1>1, <1>2, PTL DEF Spec

(* For any number of interleaved requests: a backend sees a credential on  *)
(* behalf of a request only if the PDP answered "allow" for that request   *)
(* and that backend.                                                       *)
THEOREM ClearedCorrect == Spec => []CredentialOnlyIfCleared
<1>1. Kept => CredentialOnlyIfCleared
  <2> SUFFICES ASSUME Kept, NEW r \in Requests, NEW m \in sent[r], m.token # NoToken
               PROVE  pdp[r][m.backend] = "allow"
    BY DEF CredentialOnlyIfCleared
  <2>1. m.backend \in Backends
    BY DEF Kept, Typed, TypeOK
  <2>2. tokens[r][m.backend] # NoToken
    BY DEF Kept, Custody, SentAsMinted
  <2> QED BY <2>1, <2>2 DEF Kept, Custody, MintedOnAllow
<1> QED BY <1>1, KeptAlways, PTL

(* ... and the credential is for that backend, on behalf of that request's *)
(* user and, on a tool call under OBO, of that tool's scope.               *)
THEOREM OwnCorrect == Spec => []CredentialIsOwn
<1>1. Kept => CredentialIsOwn
  <2> SUFFICES ASSUME Kept, NEW r \in Requests, NEW m \in sent[r], m.token # NoToken
               PROVE  /\ m.token.aud = m.backend
                      /\ Profile[m.backend] = "obo" => m.token.sub = op[r].who
                      /\ Profile[m.backend] = "m2m" => m.token.sub = Gateway
                      /\ Profile[m.backend] = "obo" /\ op[r].hook = "tools/call" =>
                           m.token.scope = op[r].name[2]
    BY DEF CredentialIsOwn
  <2>1. m.backend \in Backends
    BY DEF Kept, Typed, TypeOK
  <2>2. m.token = TokenFor(op[r], m.backend)
    BY <2>1 DEF Kept, Custody, SentAsMinted, MintedOnAllow
  <2> QED BY <2>1, <2>2, ConstantsAssumption DEF TokenFor, ScopeAsked
<1> QED BY <1>1, KeptAlways, PTL

-----------------------------------------------------------------------------
(* Where a call goes and what a list shows.  A call that reached call_next *)
(* is bound for the server of its tool and holds that server's token; what *)
(* a list shows is fixed in its last step, from backends that accepted a   *)
(* token, and a token stands for an "allow" (Custody).                     *)

Routed(r) ==
    /\ pc[r] \in {"opa", "mint", "next"} /\ IsCall(r) =>
         op[r].name[2] \in Tools /\ cur[r] = ServerOf[op[r].name[2]]
    /\ pc[r] = "next" /\ IsCall(r) => ctx[r][cur[r]] # NoToken
    /\ IsCall(r) => \A m \in sent[r] :
         /\ m.token # NoToken /\ op[r].name[2] \in Tools
         /\ m.backend = ServerOf[op[r].name[2]]

ShownIsCleared(r) == \A m \in listed[r] :
    /\ op[r].who \in Users /\ pdp[r][m[1]] = "allow"
    /\ op[r].hook = "tools/list" =>
         m[2] \in Tools /\ ServerOf[m[2]] = m[1] /\ m[2] \in Entitled[op[r].who]

Shown(r) == listed[r] # {} => pc[r] = "done" /\ ShownIsCleared(r)

(* A step that sends nothing and does not enter "opa", "mint" or "next".   *)
LEMMA RoutedFrame ==
    ASSUME NEW r \in Requests, Routed(r), UNCHANGED <<op, sent>>,
           pc'[r] \notin {"opa", "mint", "next"}
    PROVE  Routed(r)'
  BY DEF Routed, IsCall

LEMMA RoutedStep ==
    ASSUME Kept, NEW r \in Requests, Routed(r), Step(r)
    PROVE  Routed(r)'
<1>0. TypeOK /\ Shape(r) /\ Custody(r)
  BY DEF Kept, Typed, Shaped
<1>1. CASE CallUnauthenticated(r) \/ Unmodeled(r)
  <2>1. sent'[r] = {} /\ pc'[r] \in {"write", "done"}
    BY <1>0, <1>1
    DEF CallUnauthenticated, Unmodeled, Arrive, Finish, StartWrite, TypeOK, Custody, Untouched
  <2> QED BY <2>1 DEF Routed
<1>2. CASE OnCallTool(r)
  <2>1. PICK u \in Users, m \in Mounted :
          /\ op' = [op EXCEPT ![r] = [hook |-> "tools/call", who |-> u, name |-> m]]
          /\ cur' = [cur EXCEPT ![r] = Resolve(m)]
          /\ \/ Resolve(m) # NoBackend /\ pc' = [pc EXCEPT ![r] = "opa"]
             \/ /\ Resolve(m) = NoBackend
                /\ StartWrite(r, AuditRow(NoBackend, FALSE, "denied", NoToken), "raise")
    BY <1>2 DEF OnCallTool, Arrive
  <2>2. sent'[r] = {}
    BY <1>0, <1>2 DEF OnCallTool, Arrive, Custody, Untouched
  <2>3. CASE Resolve(m) # NoBackend
    <3>1. m[2] \in Tools /\ Resolve(m) = ServerOf[m[2]]
      BY <2>3 DEF Resolve
    <3>2. pc'[r] = "opa" /\ op'[r].name = m /\ cur'[r] = ServerOf[m[2]]
      BY <1>0, <2>1, <2>3, <3>1 DEF TypeOK
    <3> QED BY <2>2, <3>1, <3>2 DEF Routed
  <2>4. CASE Resolve(m) = NoBackend
    <3>1. pc'[r] = "write"
      BY <1>0, <2>1, <2>4 DEF StartWrite, TypeOK
    <3> QED BY <2>2, <3>1 DEF Routed
  <2> QED BY <2>3, <2>4
<1>3. CASE OnList(r)
  <2>1. PICK h \in {"tools/list", "resources/list"}, u \in Users \cup {Anonymous} :
          op' = [op EXCEPT ![r] = [hook |-> h, who |-> u, name |-> NoTarget]]
    BY <1>3 DEF OnList, Arrive
  <2>2. ~IsCall(r)'
    BY <1>0, <2>1 DEF TypeOK, IsCall
  <2> QED BY <2>2 DEF Routed
<1>4. CASE PdpAnswers(r)
  <2>1. pc[r] = "opa" /\ pc'[r] \in {"mint", "write"} /\ UNCHANGED <<op, cur, ctx, sent>>
    BY <1>0, <1>4 DEF PdpAnswers, StartWrite, TypeOK
  <2> QED BY <2>1 DEF Routed, IsCall
<1>5. CASE Minted(r)
  <2>1. pc[r] = "mint" /\ UNCHANGED <<op, cur, sent>>
    BY <1>5 DEF Minted
  <2>2. CASE IsCall(r)
    <3>1. cur[r] \in Backends /\ TokenFor(op[r], cur[r]) \in Tokens
      BY <1>0, <2>1, <2>2, TokenForType DEF Shape, IsCall
    <3>2. tokens'[r][cur[r]] = TokenFor(op[r], cur[r])
      BY <1>0, <1>5, <3>1 DEF Minted, TypeOK
    <3>3. ctx' = Stash(ctx, r, tokens'[r]) /\ pc' = [pc EXCEPT ![r] = "next"]
      BY <1>5, <2>2 DEF Minted, IsCall, IsList
    <3>4. ctx'[r][cur[r]] # NoToken
      BY <1>0, <3>1, <3>2, <3>3, ConstantsAssumption DEF Stash, TypeOK
    <3> QED BY <2>1, <2>2, <3>4 DEF Routed, IsCall
  <2>3. CASE ~IsCall(r)
    BY <2>1, <2>3 DEF Routed, IsCall
  <2> QED BY <2>2, <2>3
<1>6. CASE PdpEscapes(r) \/ MintFails(r) \/ MintEscapes(r)
  <2>1. pc'[r] \in {"write", "done"} /\ UNCHANGED <<op, sent>>
    BY <1>0, <1>6 DEF PdpEscapes, MintFails, MintEscapes, StartWrite, Finish, TypeOK
  <2> QED BY <2>1, RoutedFrame
<1>7. CASE Contact(r)
  <2>1. PICK b \in Targets(r) \ Contacted(r) :
          sent' = [sent EXCEPT ![r] = @ \cup {[backend |-> b, token |-> Credential(r, b)]}]
    BY <1>7 DEF Contact
  <2>2. pc[r] = "next" /\ UNCHANGED <<pc, op, cur, ctx>>
    BY <1>7 DEF Contact
  <2>3. sent'[r] = sent[r] \cup {[backend |-> b, token |-> ctx[r][b]]}
    BY <1>0, <2>1 DEF TypeOK, Credential
  <2>4. IsCall(r) => b = cur[r]
    BY <2>1 DEF Targets
  <2> QED BY <2>2, <2>3, <2>4 DEF Routed, IsCall
<1>8. CASE CallReturns(r) \/ CallRaises(r) \/ CancelCall(r)
  <2>1. pc'[r] = "write" /\ UNCHANGED <<op, sent>>
    BY <1>0, <1>8 DEF CallReturns, CallRaises, CancelCall, CallEnds, StartWrite, TypeOK
  <2> QED BY <2>1, RoutedFrame
<1>9. CASE ListReturns(r) \/ ListRaises(r) \/ CancelBeforeNext(r) \/ CancelWrite(r)
  <2>1. pc'[r] = "done" /\ UNCHANGED <<op, sent>>
    BY <1>0, <1>9 DEF ListReturns, ListRaises, CancelBeforeNext, CancelWrite, Finish, TypeOK
  <2> QED BY <2>1, RoutedFrame
<1>10. CASE Written(r)
  <2>1. pc[r] = "write" /\ UNCHANGED <<op, sent>>
    BY <1>10 DEF Written
  <2>2. CASE writing[r].then = "continue"
    <3>1. ~IsCall(r)
      BY <1>0, <2>1, <2>2 DEF Shape
    <3> QED BY <2>1, <3>1 DEF Routed, IsCall
  <2>3. CASE writing[r].then # "continue"
    <3>1. pc'[r] = "done"
      BY <1>0, <1>10, <2>3 DEF Written, Finish, TypeOK
    <3> QED BY <2>1, <3>1, RoutedFrame
  <2> QED BY <2>2, <2>3
<1> QED
  BY <1>1, <1>2, <1>3, <1>4, <1>5, <1>6, <1>7, <1>8, <1>9, <1>10
  DEF Step, Arrivals, Decide, Mint, CallNext, Cancel

(* Nothing is shown before the last step of a list, and nothing after it.  *)
LEMMA ShownStep ==
    ASSUME Kept, NEW r \in Requests, Shown(r), Step(r)
    PROVE  Shown(r)'
<1>0. TypeOK /\ Custody(r)
  BY DEF Kept, Typed
<1>1. pc[r] # "done"
  BY DEF Step, Arrivals, CallUnauthenticated, OnCallTool, Unmodeled, OnList, Arrive,
         Decide, PdpAnswers, PdpEscapes, Mint, Minted, MintFails, MintEscapes, CallNext,
         Contact, CallReturns, CallRaises, CallEnds, ListReturns, ListRaises, Written, Cancel,
         CancelBeforeNext, CancelCall, CancelWrite
<1>2. CASE UNCHANGED listed
  BY <1>1, <1>2 DEF Shown
<1>3. CASE ListReturns(r)
  <2>1. PICK answering \in SUBSET {b \in Backends : Accepts(r, b)} :
          LET all == {m \in Mounted : m[1] \in answering /\ m[2] \in Served[m[1]]}
              filtered == op[r].hook = "tools/list" /\ op[r].who # Anonymous
          IN  listed' = [listed EXCEPT ![r] =
                           IF filtered THEN {m \in all : Visible(op[r].who, m)} ELSE all]
    BY <1>3 DEF ListReturns
  <2>2. pc'[r] = "done" /\ UNCHANGED <<op, pdp>>
    BY <1>0, <1>3 DEF ListReturns, Finish, TypeOK
  <2>3. \A b \in answering : pdp[r][b] = "allow" /\ op[r].who \in Users
    <3> SUFFICES ASSUME NEW b \in answering
                 PROVE  pdp[r][b] = "allow" /\ op[r].who \in Users
      OBVIOUS
    <3>1. PICK m \in sent[r] : m.backend = b /\ m.token # NoToken
      BY DEF Accepts
    <3>2. tokens[r][b] # NoToken
      BY <1>0, <3>1 DEF Custody, SentAsMinted
    <3> QED BY <1>0, <3>2 DEF Custody, MintedOnAllow
  <2>4. \A m \in listed'[r] :
          /\ m[1] \in answering
          /\ op[r].hook = "tools/list" /\ op[r].who # Anonymous => Visible(op[r].who, m)
    BY <1>0, <2>1 DEF TypeOK
  <2>5. op[r].who \in Users => op[r].who # Anonymous
    BY ConstantsAssumption
  <2>6. \A m : Visible(op[r].who, m) =>
          m[2] \in Tools /\ ServerOf[m[2]] = m[1] /\ m[2] \in Entitled[op[r].who]
    BY DEF Visible, Resolve
  <2>7. ShownIsCleared(r)'
    BY <2>2, <2>3, <2>4, <2>5, <2>6 DEF ShownIsCleared
  <2> QED BY <2>2, <2>7 DEF Shown
<1> QED
  BY <1>2, <1>3
  DEF Step, Arrivals, CallUnauthenticated, OnCallTool, Unmodeled, OnList, Decide, PdpAnswers,
      PdpEscapes, Mint, Minted, MintFails, MintEscapes, CallNext, Contact, CallReturns,
      CallRaises, CallEnds, ListRaises, Written, Cancel, CancelBeforeNext, CancelCall, CancelWrite

(* The two facts hold of every request in every state.                     *)
Bound == \A r \in Requests : Routed(r) /\ Shown(r)

LEMMA BoundStep ==
    ASSUME Kept, Bound, [Next]_vars
    PROVE  Bound'
<1>1. CASE UNCHANGED vars
  BY <1>1 DEF vars, Bound, Routed, Shown, ShownIsCleared, IsCall
<1>2. CASE AllServed
  BY <1>1, <1>2 DEF AllServed
<1>3. ASSUME NEW r \in Requests, Step(r) PROVE Bound'
  <2> SUFFICES ASSUME NEW q \in Requests PROVE Routed(q)' /\ Shown(q)'
    BY DEF Bound
  <2>1. CASE q = r
    BY <1>3, <2>1, RoutedStep, ShownStep DEF Bound
  <2>2. CASE q # r
    <3>1. /\ pc'[q] = pc[q] /\ op'[q] = op[q] /\ cur'[q] = cur[q]
          /\ ctx'[q] = ctx[q] /\ sent'[q] = sent[q] /\ pdp'[q] = pdp[q]
      BY <1>3, <2>2, StepsAreLocal DEF Kept, Typed, Elsewhere
    <3>2. listed'[q] = listed[q]
      BY <1>3, <2>2
      DEF Kept, Typed, TypeOK, Step, Arrivals, CallUnauthenticated, OnCallTool, Unmodeled,
          OnList, Decide, PdpAnswers, PdpEscapes, Mint, Minted, MintFails, MintEscapes,
          CallNext, Contact, CallReturns, CallRaises, CallEnds, ListReturns, ListRaises,
          Written, Cancel, CancelBeforeNext, CancelCall, CancelWrite
    <3> QED BY <3>1, <3>2 DEF Bound, Routed, Shown, ShownIsCleared, IsCall
  <2> QED BY <2>1, <2>2
<1> QED BY <1>1, <1>2, <1>3 DEF Next, Step

LEMMA BoundAlways == Spec => []Bound
<1>1. Init => Bound
  BY DEF Init, Bound, Routed, Shown
<1>2. Kept /\ Bound /\ [Next]_vars => Bound'
  BY BoundStep
<1> QED BY <1>1, <1>2, KeptAlways, PTL DEF Spec

(* A tool call reaches no backend but the one its tool is registered for,  *)
(* and never without a credential, whatever names the backends serve.      *)
THEOREM RoutedCorrect == Spec => []CallReachesItsServer
<1>1. Bound => CallReachesItsServer
  BY DEF Bound, Routed, IsCall, CallReachesItsServer
<1> QED BY <1>1, BoundAlways, PTL

(* A list shows names of backends the PDP cleared for this request only,   *)
(* tools/list only governed ones the user is entitled to, and a client     *)
(* without a session nothing.                                              *)
THEOREM ShownCorrect == Spec => []ListShowsOnlyCleared
<1>1. Bound => ListShowsOnlyCleared
  BY ConstantsAssumption DEF Bound, Shown, ShownIsCleared, ListShowsOnlyCleared
<1> QED BY <1>1, BoundAlways, PTL
=============================================================================
