------------------------ MODULE OpaPepTrailProofs ------------------------
(***************************************************************************)
(* Theorems about the audit trail of the enforcement point, for every      *)
(* constant and under every fault of OpaPep.tla, cancellation included:    *)
(*   NamesCorrect         a row names its decision, and its token by jti   *)
(*   OnceCorrect          no decision is recorded twice                    *)
(*   PrecedesCorrect      a list uses a token only after the row of the    *)
(*                        decision that allowed it                         *)
(*   PromiseCorrect       OpaPep implements Chokepoint                     *)
(* They rest on one more inductive invariant, Trail, on top of Kept.       *)
(***************************************************************************)
EXTENDS OpaPepProofs

-----------------------------------------------------------------------------
(* The invariant.                                                          *)

(* The task has a decision in progress that is not recorded yet.           *)
Working(r) == pc[r] \in {"opa", "mint", "write"} \/ (pc[r] = "next" /\ IsCall(r))

(* What RowNamesItsToken and Chokepoint's Truthful ask of a row, before it *)
(* is written and ever after.                                              *)
Honest(r, row) ==
    IF row.server = NoBackend
    THEN ~row.allow /\ row.jti = NoToken
    ELSE /\ row.allow <=> pdp[r][row.server] = "allow"
         /\ row.jti = Jti(tokens[r][row.server])
         /\ row.status = "denied" => pdp[r][row.server] \in {"deny", "unreachable"}
         /\ row.status = "error" =>
              pdp[r][row.server] = "allow" /\ tokens[r][row.server] = NoToken
         /\ row.status \in {"ok", "upstream_error"} => tokens[r][row.server] # NoToken
         /\ row.status = "upstream_error" => IsCall(r)

(* The backends still to be recorded are in none of the rows.              *)
Fresh(r) ==
    \A i \in DOMAIN rows[r] :
      rows[r][i].server \notin todo[r] /\ (Working(r) => rows[r][i].server # cur[r])

Once(r) ==
    \A i, j \in DOMAIN rows[r] : rows[r][i].server = rows[r][j].server => i = j

(* What the task holds between two awaits.                                 *)
InHand(r) ==
    /\ pc[r] = "mint" => tokens[r][cur[r]] = NoToken
    /\ pc[r] = "next" /\ IsCall(r) => tokens[r][cur[r]] # NoToken
    /\ pc[r] = "write" => writing[r].row.server = cur[r] /\ Honest(r, writing[r].row)

(* A list's decision is recorded, with the jti of the token minted on it,  *)
(* before the token reaches the ContextVar, let alone a backend.           *)
Named(trail, b, t) == \E i \in DOMAIN trail :
    /\ trail[i].server = b /\ trail[i].allow /\ trail[i].status = "ok"
    /\ trail[i].jti = Jti(t)

Preceded(r) == pc[r] # "idle" /\ IsList(r) =>
    /\ \A b \in Backends : ctx[r][b] # NoToken => Named(rows[r], b, ctx[r][b])
    /\ \A m \in sent[r] : m.token # NoToken => Named(rows[r], m.backend, m.token)
    /\ pc[r] # "done" => \A b \in Backends :
         tokens[r][b] # NoToken =>
           Named(rows[r], b, tokens[r][b]) \/ (pc[r] = "write" /\ b = cur[r])

Trail(r) ==
    /\ pc[r] = "idle" => rows[r] = <<>> /\ cur[r] = NoBackend
    /\ \A i \in DOMAIN rows[r] : Honest(r, rows[r][i])
    /\ Fresh(r) /\ Once(r) /\ InHand(r) /\ Preceded(r)

Trailed == Kept /\ \A r \in Requests : Trail(r)

-----------------------------------------------------------------------------
(* Frames.                                                                 *)

(* A row is about a backend or about none, and has a status.               *)
LEMMA RowTypes ==
    ASSUME TypeOK, NEW r \in Requests, NEW i \in DOMAIN rows[r]
    PROVE  rows[r][i].server \in Backends \cup {NoBackend} /\ rows[r][i].status \in Statuses
<1>1. rows[r] \in Seq(AuditRows)
  BY DEF TypeOK
<1>2. rows[r][i] \in AuditRows
  BY <1>1
<1> QED  BY <1>2 DEF AuditRows

(* A step of one request writes no row of another.                         *)
LEMMA RowsAreLocal ==
    ASSUME TypeOK, NEW r \in Requests, Step(r), NEW q \in Requests \ {r}
    PROVE  rows'[q] = rows[q]
  BY DEF TypeOK, Step, Arrivals, CallUnauthenticated, OnCallTool, Unmodeled, OnList,
         Decide, PdpAnswers, PdpEscapes, Mint, Minted, MintFails, MintEscapes, CallNext,
         Contact, CallReturns, CallRaises, CallEnds, ListReturns, ListRaises, Written, Cancel,
         CancelBeforeNext, CancelCall, CancelWrite, Record

(* So the trail of another request stays as it was.                        *)
LEMMA TrailElsewhere ==
    ASSUME Trailed, NEW r \in Requests, Step(r), NEW q \in Requests \ {r}
    PROVE  Trail(q)'
<1>1. /\ pc'[q] = pc[q] /\ op'[q] = op[q] /\ cur'[q] = cur[q] /\ todo'[q] = todo[q]
      /\ ctx'[q] = ctx[q] /\ writing'[q] = writing[q] /\ pdp'[q] = pdp[q]
      /\ tokens'[q] = tokens[q] /\ sent'[q] = sent[q] /\ rows'[q] = rows[q]
  BY StepsAreLocal, RowsAreLocal DEF Trailed, Kept, Typed, Elsewhere
<1>2. Trail(q)
  BY DEF Trailed
<1> QED
  BY <1>1, <1>2
  DEF Trail, Fresh, Working, Once, InHand, Honest, Named, Preceded, IsCall, IsList

(* A request that ends without a row leaves the trail as it was.           *)
LEMMA TrailEnds ==
    ASSUME Trailed, NEW r \in Requests, pc[r] # "idle", pc'[r] = "done",
           UNCHANGED <<op, cur, todo, ctx, rows, pdp, tokens, sent>>
    PROVE  Trail(r)'
<1>1. Trail(r)
  BY DEF Trailed
<1> QED
  BY <1>1 DEF Trail, Fresh, Working, Once, InHand, Honest, Named, Preceded, IsCall, IsList

(* A row under way names the decision in progress; what is decided and     *)
(* minted in the same step is about that backend and touches no row that   *)
(* is written already.                                                     *)
LEMMA RowBegins ==
    ASSUME Trailed, NEW r \in Requests, Working(r), pc[r] \in {"opa", "mint", "next"},
           UNCHANGED <<op, cur, todo, ctx, rows, sent>>, pc'[r] = "write",
           \A b \in Backends \ {cur[r]} :
             pdp'[r][b] = pdp[r][b] /\ tokens'[r][b] = tokens[r][b],
           writing'[r].row.server = cur[r], Honest(r, writing[r].row)'
    PROVE  Trail(r)'
<1>1. Trail(r) /\ TypeOK
  BY DEF Trailed, Kept, Typed
<1>2. Fresh(r)' /\ Once(r)' /\ InHand(r)'
  BY <1>1 DEF Trail, Fresh, Working, Once, InHand
<1>3. \A i \in DOMAIN rows[r] : Honest(r, rows[r][i])'
  <2> SUFFICES ASSUME NEW i \in DOMAIN rows[r] PROVE Honest(r, rows[r][i])'
    OBVIOUS
  <2>1. rows[r][i].server \in Backends \cup {NoBackend} /\ rows[r][i].server # cur[r]
    BY <1>1, RowTypes DEF Trail, Fresh
  <2>2. Honest(r, rows[r][i])
    BY <1>1 DEF Trail
  <2> QED  BY <2>1, <2>2 DEF Honest, IsCall
<1>4. Preceded(r)'
  BY <1>1 DEF Trail, Preceded, Named, IsList
<1> QED  BY <1>2, <1>3, <1>4 DEF Trail

-----------------------------------------------------------------------------
(* The steps.                                                              *)

(* A request arrives with an empty trail.                                  *)
LEMMA ArrivalsTrail ==
    ASSUME Trailed, NEW r \in Requests, Arrivals(r)
    PROVE  Trail(r)'
<1>0. TypeOK /\ Custody(r) /\ Trail(r)
  BY DEF Trailed, Kept, Typed
<1>1. pc[r] = "idle" /\ UNCHANGED <<ctx, rows, pdp, tokens, sent>>
  BY DEF Arrivals, CallUnauthenticated, OnCallTool, Unmodeled, OnList, Arrive
<1>2. Untouched(r) /\ rows[r] = <<>> /\ cur[r] = NoBackend
  BY <1>0, <1>1 DEF Custody, Trail
<1>3. /\ pc'[r] \in {"opa", "next", "write", "done"}
      /\ pc'[r] = "next" => ~IsCall(r)'
      /\ pc'[r] = "write" =>
           /\ cur'[r] = NoBackend
           /\ writing'[r].row = AuditRow(NoBackend, FALSE, "denied", NoToken)
  <2>1. CASE CallUnauthenticated(r)
    BY <1>0, <2>1 DEF CallUnauthenticated, Finish, TypeOK
  <2>2. CASE OnCallTool(r)
    <3>1. PICK m \in Mounted :
            /\ cur' = [cur EXCEPT ![r] = Resolve(m)]
            /\ \/ Resolve(m) # NoBackend /\ pc' = [pc EXCEPT ![r] = "opa"]
               \/ /\ Resolve(m) = NoBackend
                  /\ StartWrite(r, AuditRow(NoBackend, FALSE, "denied", NoToken), "raise")
      BY <2>2 DEF OnCallTool
    <3>2. CASE Resolve(m) # NoBackend
      BY <1>0, <3>1, <3>2 DEF TypeOK
    <3>3. CASE Resolve(m) = NoBackend
      <4>1. StartWrite(r, AuditRow(NoBackend, FALSE, "denied", NoToken), "raise")
        BY <3>1, <3>3
      <4> QED  BY <1>0, <3>1, <3>3, <4>1 DEF StartWrite, TypeOK
    <3> QED BY <3>2, <3>3
  <2>3. CASE Unmodeled(r)
    BY <1>0, <1>2, <2>3 DEF Unmodeled, StartWrite, TypeOK
  <2>4. CASE OnList(r)
    <3>1. PICK h \in {"tools/list", "resources/list"}, u \in Users \cup {Anonymous} :
            /\ Arrive(r, [hook |-> h, who |-> u, name |-> NoTarget])
            /\ pc' = [pc EXCEPT ![r] = "next"] \/ pc' = [pc EXCEPT ![r] = "opa"]
      BY <2>4 DEF OnList
    <3>2. op'[r] = [hook |-> h, who |-> u, name |-> NoTarget]
      BY <1>0, <3>1 DEF Arrive, TypeOK
    <3>3. ~IsCall(r)'
      BY <3>2 DEF IsCall
    <3>4. pc'[r] \in {"opa", "next"}
      BY <1>0, <3>1 DEF TypeOK
    <3> QED BY <3>3, <3>4
  <2> QED BY <2>1, <2>2, <2>3, <2>4 DEF Arrivals
<1>4. Preceded(r)'
  BY <1>1, <1>2 DEF Untouched, Preceded
<1>5. InHand(r)'
  BY <1>3 DEF InHand, Honest, AuditRow
<1> QED
  BY <1>1, <1>2, <1>3, <1>4, <1>5 DEF Trail, Fresh, Once

(* The PDP answers about a backend that has no row and no token.           *)
LEMMA PdpAnswersTrail ==
    ASSUME Trailed, NEW r \in Requests, PdpAnswers(r)
    PROVE  Trail(r)'
<1>0. TypeOK /\ pc[r] = "opa" /\ Shape(r) /\ Custody(r) /\ Trail(r)
  BY DEF Trailed, Kept, Typed, Shaped, PdpAnswers
<1> DEFINE c == cur[r]
<1>1. c \in Backends /\ tokens[r][c] = NoToken /\ c # NoBackend
  BY <1>0, ConstantsAssumption DEF Shape, Custody, AskedOnce, MintedOnAllow
<1>2. PICK a \in Answers :
        /\ pdp' = [pdp EXCEPT ![r][c] = a]
        /\ \/ Allows(a) /\ pc' = [pc EXCEPT ![r] = "mint"]
           \/ /\ ~Allows(a)
              /\ StartWrite(r, AuditRow(c, FALSE, "denied", NoToken), AfterRefusal(r))
  BY DEF PdpAnswers
<1>3. UNCHANGED <<op, cur, todo, ctx, rows, tokens, sent>>
  BY DEF PdpAnswers
<1>4. pdp'[r][c] = a /\ \A b \in Backends \ {c} : pdp'[r][b] = pdp[r][b]
  BY <1>0, <1>1, <1>2 DEF TypeOK
<1>5. CASE Allows(a)
  <2>1. pc'[r] = "mint"
    BY <1>0, <1>2, <1>5 DEF TypeOK
  <2>2. \A i \in DOMAIN rows[r] : Honest(r, rows[r][i])'
    <3> SUFFICES ASSUME NEW i \in DOMAIN rows[r] PROVE Honest(r, rows[r][i])'
      BY <1>3
    <3>1. rows[r][i].server \in Backends \cup {NoBackend} /\ rows[r][i].server # c
      BY <1>0, RowTypes DEF Trail, Fresh, Working
    <3> QED  BY <1>0, <1>3, <1>4, <3>1 DEF Trail, Honest, IsCall
  <2>3. Fresh(r)' /\ Once(r)' /\ InHand(r)' /\ Preceded(r)'
    BY <1>0, <1>1, <1>3, <2>1
    DEF Trail, Fresh, Working, Once, InHand, Preceded, Named, IsList
  <2> QED  BY <1>3, <2>1, <2>2, <2>3 DEF Trail
<1>6. CASE ~Allows(a)
  <2>0. StartWrite(r, AuditRow(c, FALSE, "denied", NoToken), AfterRefusal(r))
    BY <1>2, <1>6
  <2>1. pc'[r] = "write" /\ writing'[r].row = AuditRow(c, FALSE, "denied", NoToken)
    BY <1>0, <2>0 DEF StartWrite, TypeOK
  <2>2. Honest(r, writing[r].row)'
    BY <1>1, <1>3, <1>4, <1>6, <2>1 DEF Honest, AuditRow, Jti, Allows, Answers
  <2>3. writing'[r].row.server = c
    BY <2>1 DEF AuditRow
  <2> QED  BY <1>0, <1>3, <1>4, <2>1, <2>2, <2>3, RowBegins DEF Working
<1> QED  BY <1>5, <1>6

(* An answer that raises leaves the request without a row.                 *)
LEMMA PdpEscapesTrail ==
    ASSUME Trailed, NEW r \in Requests, PdpEscapes(r)
    PROVE  Trail(r)'
<1>1. TypeOK /\ pc[r] = "opa"
  BY DEF Trailed, Kept, Typed, PdpEscapes
<1>2. pc'[r] = "done"
  BY <1>1 DEF PdpEscapes, Finish, TypeOK
<1> QED  BY <1>1, <1>2, TrailEnds DEF PdpEscapes

(* The mint is about that backend, too.  A call's token is used before its *)
(* row is written; a list's has its row first.                             *)
LEMMA MintTrail ==
    ASSUME Trailed, NEW r \in Requests, Mint(r)
    PROVE  Trail(r)'
<1>0. TypeOK /\ pc[r] = "mint" /\ Shape(r) /\ Custody(r) /\ Trail(r)
  BY DEF Trailed, Kept, Typed, Shaped, Mint, Minted, MintFails, MintEscapes
<1> DEFINE c == cur[r]
           t == TokenFor(op[r], c)
<1>1. /\ c \in Backends /\ c # NoBackend /\ tokens[r][c] = NoToken /\ pdp[r][c] = "allow"
      /\ op[r] \in Operations /\ op[r].who \in Users
      /\ IsCall(r) => op[r].name[2] \in Tools
  BY <1>0, ConstantsAssumption DEF Shape, Trail, InHand, Custody, AskedOnce
<1>2. t # NoToken
  BY <1>1, TokenForType, ConstantsAssumption DEF IsCall
<1>3. CASE Minted(r)
  <2>1. /\ tokens' = [tokens EXCEPT ![r][c] = t]
        /\ UNCHANGED <<op, cur, todo, rows, pdp, sent>>
    BY <1>3 DEF Minted
  <2>2. tokens'[r][c] = t /\ \A b \in Backends \ {c} : tokens'[r][b] = tokens[r][b]
    BY <1>0, <1>1, <2>1 DEF TypeOK
  <2>3. CASE IsCall(r)
    <3>1. pc'[r] = "next"
      BY <1>0, <1>3, <2>3 DEF Minted, TypeOK, IsList, IsCall
    <3>2. \A i \in DOMAIN rows[r] : Honest(r, rows[r][i])'
      <4> SUFFICES ASSUME NEW i \in DOMAIN rows[r] PROVE Honest(r, rows[r][i])'
        BY <2>1
      <4>1. rows[r][i].server \in Backends \cup {NoBackend} /\ rows[r][i].server # c
        BY <1>0, RowTypes DEF Trail, Fresh, Working
      <4> QED  BY <1>0, <2>1, <2>2, <4>1 DEF Trail, Honest, IsCall
    <3>3. Fresh(r)' /\ Once(r)'
      BY <1>0, <2>1, <2>3, <3>1 DEF Trail, Fresh, Working, Once
    <3>4. InHand(r)' /\ Preceded(r)'
      BY <1>2, <2>1, <2>2, <2>3, <3>1 DEF InHand, Preceded, IsList, IsCall
    <3> QED  BY <2>1, <3>1, <3>2, <3>3, <3>4 DEF Trail
  <2>4. CASE IsList(r)
    <3>1. /\ StartWrite(r, AuditRow(c, TRUE, "ok", Jti(tokens'[r][c])), "continue")
          /\ UNCHANGED ctx
      BY <1>3, <2>4 DEF Minted, IsList, IsCall
    <3>2. pc'[r] = "write" /\ writing'[r].row = AuditRow(c, TRUE, "ok", Jti(t))
      BY <1>0, <2>2, <3>1 DEF StartWrite, TypeOK
    <3>3. Honest(r, writing[r].row)' /\ writing'[r].row.server = c
      BY <1>1, <1>2, <2>1, <2>2, <3>2 DEF Honest, AuditRow
    <3> QED  BY <1>0, <2>1, <2>2, <3>1, <3>2, <3>3, RowBegins DEF Working
  <2> QED  BY <1>3, <2>3, <2>4 DEF Minted
<1>4. CASE MintFails(r)
  <2>1. /\ StartWrite(r, AuditRow(c, TRUE, "error", NoToken), AfterRefusal(r))
        /\ UNCHANGED <<op, cur, todo, ctx, rows, pdp, tokens, sent>>
    BY <1>4 DEF MintFails
  <2>2. pc'[r] = "write" /\ writing'[r].row = AuditRow(c, TRUE, "error", NoToken)
    BY <1>0, <2>1 DEF StartWrite, TypeOK
  <2>3. Honest(r, writing[r].row)' /\ writing'[r].row.server = c
    BY <1>1, <2>1, <2>2 DEF Honest, AuditRow, Jti
  <2> QED  BY <1>0, <2>1, <2>2, <2>3, RowBegins DEF Working
<1>5. CASE MintEscapes(r)
  BY <1>0, <1>5, TrailEnds DEF MintEscapes, Finish, TypeOK
<1> QED  BY <1>3, <1>4, <1>5 DEF Mint

(* A proxy sends what the ContextVar holds, which a list has recorded; the *)
(* row of a call names the token it went out with.                         *)
LEMMA CallNextTrail ==
    ASSUME Trailed, NEW r \in Requests, CallNext(r) \/ CancelCall(r)
    PROVE  Trail(r)'
<1>0. TypeOK /\ pc[r] = "next" /\ Shape(r) /\ Custody(r) /\ Trail(r)
  BY DEF Trailed, Kept, Typed, Shaped, CallNext, Contact, CallReturns, CallRaises, CallEnds,
         ListReturns, ListRaises, CancelCall
<1>1. CASE Contact(r)
  <2>1. PICK b \in Targets(r) \ Contacted(r) :
          sent' = [sent EXCEPT ![r] = @ \cup {[backend |-> b, token |-> Credential(r, b)]}]
    BY <1>1 DEF Contact
  <2>2. UNCHANGED <<pc, op, cur, todo, ctx, writing, rows, pdp, tokens>>
    BY <1>1 DEF Contact
  <2>3. b \in Backends
    BY <1>0 DEF Targets, Shape
  <2>4. \A m \in sent'[r] : m \in sent[r] \/ (m.backend = b /\ m.token = ctx[r][b])
    BY <1>0, <2>1 DEF TypeOK, Credential
  <2>5. Preceded(r)'
    BY <1>0, <2>2, <2>3, <2>4 DEF Trail, Preceded, Named, IsList
  <2> QED
    BY <1>0, <2>2, <2>5 DEF Trail, Fresh, Working, Once, InHand, Honest, IsCall, IsList
<1>2. CASE CallReturns(r) \/ CallRaises(r) \/ CancelCall(r)
  <2>1. PICK status \in {"ok", "upstream_error"}, then \in {"return", "raise", "cancel"} :
          CallEnds(r, status, then)
    BY <1>2 DEF CallReturns, CallRaises, CancelCall
  <2> DEFINE c == cur[r]
             row == AuditRow(c, TRUE, status, Jti(tokens[r][c]))
  <2>2. IsCall(r) /\ StartWrite(r, row, then)
    BY <2>1 DEF CallEnds
  <2>3. UNCHANGED <<op, cur, todo, ctx, rows, pdp, tokens, sent>>
    BY <2>1 DEF CallEnds
  <2>4. pc'[r] = "write" /\ writing'[r].row = row
    BY <1>0, <2>2 DEF StartWrite, TypeOK
  <2>5. c \in Backends /\ tokens[r][c] # NoToken /\ pdp[r][c] = "allow"
    BY <1>0, <2>2 DEF Shape, Trail, InHand, Custody, MintedOnAllow
  <2>6. Honest(r, writing[r].row)' /\ writing'[r].row.server = c
    BY <2>2, <2>3, <2>4, <2>5, ConstantsAssumption DEF Honest, AuditRow, IsCall, IsList
  <2> QED  BY <1>0, <2>2, <2>3, <2>4, <2>6, RowBegins DEF Working
<1>3. CASE ListReturns(r) \/ ListRaises(r)
  BY <1>0, <1>3, TrailEnds DEF ListReturns, ListRaises, Finish, TypeOK
<1> QED  BY <1>1, <1>2, <1>3 DEF CallNext

(* What one more row adds to the trail.                                    *)
LEMMA Recorded ==
    ASSUME Trailed, NEW r \in Requests, pc[r] = "write", Record(r),
           UNCHANGED <<op, pdp, tokens>>
    PROVE  /\ \A i \in DOMAIN rows'[r] :
                \/ rows'[r][i] = writing[r].row
                \/ \E j \in DOMAIN rows[r] : rows'[r][i] = rows[r][j]
           /\ \A i \in DOMAIN rows'[r] : Honest(r, rows[r][i])'
           /\ Once(r)'
           /\ \A b \in Backends, t \in Tokens : Named(rows[r], b, t) => Named(rows'[r], b, t)
           /\ IsList(r) /\ cur[r] \in Backends /\ tokens[r][cur[r]] # NoToken =>
                Named(rows'[r], cur[r], tokens[r][cur[r]])
<1>0. TypeOK /\ Shape(r) /\ Custody(r) /\ Trail(r)
  BY DEF Trailed, Kept, Typed, Shaped
<1> DEFINE row == writing[r].row
           n == Len(rows[r])
<1>1. row \in AuditRows /\ row.server = cur[r] /\ Honest(r, row)
  BY <1>0 DEF Shape, Writes, Trail, InHand
<1>2. rows[r] \in Seq(AuditRows) /\ rows'[r] = Append(rows[r], row)
  BY <1>0 DEF Record, TypeOK
<1>3. /\ n \in Nat /\ DOMAIN rows[r] = 1..n /\ DOMAIN rows'[r] = 1..(n + 1)
      /\ rows'[r][n + 1] = row
      /\ \A i \in DOMAIN rows[r] : rows'[r][i] = rows[r][i]
  BY <1>1, <1>2
<1>4. \A i \in DOMAIN rows'[r] : i = n + 1 \/ i \in DOMAIN rows[r]
  BY <1>3
<1>5. \A i \in DOMAIN rows'[r] : Honest(r, rows[r][i])'
  <2> SUFFICES ASSUME NEW i \in DOMAIN rows'[r] PROVE Honest(r, rows[r][i])'
    OBVIOUS
  <2>1. Honest(r, rows'[r][i])
    BY <1>0, <1>1, <1>3, <1>4 DEF Trail
  <2> QED  BY <2>1 DEF Honest, IsCall
<1>6. Once(r)'
  <2>1. \A i \in DOMAIN rows[r] : rows[r][i].server # row.server
    BY <1>0, <1>1 DEF Trail, Fresh, Working
  <2> SUFFICES ASSUME NEW i \in DOMAIN rows'[r], NEW j \in DOMAIN rows'[r],
                      rows'[r][i].server = rows'[r][j].server
               PROVE  i = j
    BY DEF Once
  <2> QED  BY <1>0, <1>3, <1>4, <2>1 DEF Trail, Once
<1>7. \A b \in Backends, t \in Tokens : Named(rows[r], b, t) => Named(rows'[r], b, t)
  BY <1>3 DEF Named
<1>8. ASSUME IsList(r), cur[r] \in Backends, tokens[r][cur[r]] # NoToken
      PROVE  Named(rows'[r], cur[r], tokens[r][cur[r]])
  <2>1. pdp[r][cur[r]] = "allow" /\ cur[r] # NoBackend /\ ~IsCall(r)
    BY <1>0, <1>8, ConstantsAssumption DEF Custody, MintedOnAllow, IsList, IsCall
  <2>2. row.status \in Statuses
    BY <1>1 DEF AuditRows
  <2>3. row.allow /\ row.status = "ok" /\ row.jti = Jti(tokens[r][cur[r]])
    BY <1>1, <1>8, <2>1, <2>2 DEF Honest, Statuses
  <2> QED  BY <1>1, <1>3, <2>3 DEF Named
<1> QED  BY <1>3, <1>4, <1>5, <1>6, <1>7, <1>8

(* The row is written.  The loop goes on to a backend that has none, or    *)
(* stashes tokens that all have theirs.                                    *)
LEMMA WrittenTrail ==
    ASSUME Trailed, NEW r \in Requests, Written(r)
    PROVE  Trail(r)'
<1>0. TypeOK /\ pc[r] = "write" /\ Shape(r) /\ Custody(r) /\ Trail(r)
  BY DEF Trailed, Kept, Typed, Shaped, Written
<1>1. Record(r) /\ UNCHANGED <<op, pdp, tokens, sent>>
  BY DEF Written
<1>2. writing[r].row.server = cur[r] /\ cur[r] \notin todo[r]
  BY <1>0 DEF Trail, InHand, Custody, AskedOnce
<1>3. /\ \A i \in DOMAIN rows'[r] : Honest(r, rows[r][i])'
      /\ Once(r)'
      /\ \A i \in DOMAIN rows'[r] : rows'[r][i].server \notin todo[r]
  BY <1>0, <1>1, <1>2, Recorded DEF Trail, Fresh
<1>4. ASSUME IsList(r), NEW b \in Backends, tokens[r][b] # NoToken
      PROVE  Named(rows'[r], b, tokens[r][b])
  <2>1. tokens[r][b] \in Tokens
    BY <1>0, <1>4 DEF TypeOK
  <2>2. Named(rows[r], b, tokens[r][b]) \/ b = cur[r]
    BY <1>0, <1>4 DEF Trail, Preceded
  <2>3. CASE Named(rows[r], b, tokens[r][b])
    BY <1>0, <1>1, <2>1, <2>3, Recorded
  <2>4. CASE b = cur[r]
    BY <1>0, <1>1, <1>4, <2>4, Recorded
  <2> QED  BY <2>2, <2>3, <2>4
<1>5. ASSUME IsList(r)
      PROVE  /\ \A b \in Backends : ctx[r][b] # NoToken => Named(rows'[r], b, ctx[r][b])
             /\ \A m \in sent[r] : m.token # NoToken => Named(rows'[r], m.backend, m.token)
  <2>1. \A b \in Backends : ctx[r][b] \in Tokens \cup {NoToken}
    BY <1>0 DEF TypeOK
  <2>2. \A m \in sent[r] : m.backend \in Backends /\ m.token \in Tokens \cup {NoToken}
    BY <1>0 DEF TypeOK
  <2> QED  BY <1>0, <1>1, <1>5, <2>1, <2>2, Recorded DEF Trail, Preceded
<1>6. CASE writing[r].then # "continue"
  <2>1. pc'[r] = "done" /\ UNCHANGED <<cur, todo, ctx>>
    BY <1>0, <1>6 DEF Written, Finish, TypeOK
  <2>2. Preceded(r)'
    BY <1>1, <1>5, <2>1 DEF Preceded, IsList, Named
  <2> QED  BY <1>3, <2>1, <2>2 DEF Trail, Fresh, Working, InHand
<1>7. CASE writing[r].then = "continue" /\ todo[r] # {}
  <2>1. PICK b \in todo[r] : /\ cur' = [cur EXCEPT ![r] = b]
                             /\ todo' = [todo EXCEPT ![r] = @ \ {b}]
    BY <1>7 DEF Written
  <2>2. pc' = [pc EXCEPT ![r] = "opa"] /\ UNCHANGED ctx
    BY <1>7 DEF Written
  <2>3. pc'[r] = "opa" /\ cur'[r] = b /\ todo'[r] = todo[r] \ {b}
    BY <1>0, <2>1, <2>2 DEF TypeOK
  <2>4. Preceded(r)'
    BY <1>1, <1>4, <1>5, <2>2, <2>3 DEF Preceded, IsList, Named
  <2> QED  BY <1>3, <2>3, <2>4 DEF Trail, Fresh, Working, InHand
<1>8. CASE writing[r].then = "continue" /\ todo[r] = {}
  <2>1. /\ ctx' = Stash(ctx, r, tokens[r])
        /\ pc' = [pc EXCEPT ![r] = "next"] /\ UNCHANGED <<cur, todo>>
    BY <1>8 DEF Written
  <2>2. \A b \in Backends :
          ctx'[r][b] = IF tokens[r][b] # NoToken THEN tokens[r][b] ELSE ctx[r][b]
    BY <1>0, <2>1 DEF Stash, TypeOK
  <2>3. pc'[r] = "next" /\ ~IsCall(r)
    BY <1>0, <1>8, <2>1 DEF Shape, TypeOK
  <2>4. Preceded(r)'
    BY <1>1, <1>4, <1>5, <2>2, <2>3 DEF Preceded, IsList, Named
  <2> QED  BY <1>1, <1>3, <2>1, <2>3, <2>4 DEF Trail, Fresh, Working, InHand, IsCall
<1> QED  BY <1>6, <1>7, <1>8

(* Cancellation drops a row or leaves it, and adds nothing else.           *)
LEMMA CancelTrail ==
    ASSUME Trailed, NEW r \in Requests, CancelBeforeNext(r) \/ CancelWrite(r)
    PROVE  Trail(r)'
<1>0. TypeOK /\ pc[r] # "idle" /\ Shape(r) /\ Custody(r) /\ Trail(r)
  BY DEF Trailed, Kept, Typed, Shaped, CancelBeforeNext, CancelWrite
<1>1. pc'[r] = "done" /\ UNCHANGED <<op, cur, todo, ctx, pdp, tokens, sent>>
  BY <1>0 DEF CancelBeforeNext, CancelWrite, Finish, TypeOK
<1>2. CASE UNCHANGED rows
  BY <1>0, <1>1, <1>2, TrailEnds
<1>3. CASE pc[r] = "write" /\ Record(r)
  <2>1. writing[r].row.server = cur[r] /\ cur[r] \notin todo[r]
    BY <1>0, <1>3 DEF Trail, InHand, Custody, AskedOnce
  <2>2. /\ \A i \in DOMAIN rows'[r] : Honest(r, rows[r][i])'
        /\ Once(r)'
        /\ \A i \in DOMAIN rows'[r] : rows'[r][i].server \notin todo[r]
    BY <1>0, <1>1, <1>3, <2>1, Recorded DEF Trail, Fresh
  <2>3. Preceded(r)'
    <3>1. \A b \in Backends : ctx[r][b] \in Tokens \cup {NoToken}
      BY <1>0 DEF TypeOK
    <3>2. \A m \in sent[r] : m.backend \in Backends /\ m.token \in Tokens \cup {NoToken}
      BY <1>0 DEF TypeOK
    <3> QED  BY <1>0, <1>1, <1>3, <3>1, <3>2, Recorded DEF Trail, Preceded, IsList, Named
  <2> QED  BY <1>1, <2>2, <2>3 DEF Trail, Fresh, Working, InHand
<1> QED  BY <1>2, <1>3 DEF CancelBeforeNext, CancelWrite

LEMMA TrailedAlways == Spec => []Trailed
<1>1. Init /\ Kept => Trailed
  BY DEF Init, Trailed, Trail, Fresh, Once, InHand, Preceded
<1>2. Trailed /\ Kept' /\ [Next]_vars => Trailed'
  <2> SUFFICES ASSUME Trailed, Kept', [Next]_vars PROVE \A r \in Requests : Trail(r)'
    BY DEF Trailed
  <2>1. CASE UNCHANGED vars
    BY <2>1
    DEF vars, Trailed, Trail, Fresh, Working, Once, InHand, Honest, Named, Preceded,
        IsCall, IsList
  <2>2. CASE AllServed
    BY <2>1, <2>2 DEF AllServed
  <2>3. ASSUME NEW r \in Requests, Step(r) PROVE \A q \in Requests : Trail(q)'
    <3>1. Trail(r)'
      BY <2>3, ArrivalsTrail, PdpAnswersTrail, PdpEscapesTrail, MintTrail, CallNextTrail,
         WrittenTrail, CancelTrail DEF Step, Decide, Cancel
    <3> QED  BY <2>3, <3>1, TrailElsewhere
  <2> QED  BY <2>1, <2>2, <2>3 DEF Next, Step
<1> QED  BY <1>1, <1>2, KeptAlways, PTL DEF Spec

-----------------------------------------------------------------------------
(* What the trail is good for.                                             *)

(* Whatever fails or is cancelled, a row of the trail carries the decision *)
(* the PDP gave for that request and backend and the jti of the token      *)
(* minted on it: none only if nothing was minted or the token has none.    *)
THEOREM NamesCorrect == Spec => []RowNamesItsToken
<1>1. Trailed => RowNamesItsToken
  BY DEF Trailed, Trail, Honest, RowNamesItsToken
<1> QED  BY <1>1, TrailedAlways, PTL

(* No decision is recorded twice, for any number of backends of a list.    *)
THEOREM OnceCorrect == Spec => []NeverRecordedTwice
<1>1. Trailed => NeverRecordedTwice
  BY DEF Trailed, Trail, Once, NeverRecordedTwice
<1> QED  BY <1>1, TrailedAlways, PTL

(* No list uses a token before the row of the decision that allowed it is  *)
(* in the trail, with the token's jti if it has one.                       *)
THEOREM PrecedesCorrect == Spec => []ListRowPrecedesUse
<1>1. Trailed => ListRowPrecedesUse
  <2> SUFFICES ASSUME Trailed, NEW r \in Requests, NEW m \in sent[r], IsList(r),
                      m.token # NoToken
               PROVE  Named(rows[r], m.backend, m.token)
    BY DEF ListRowPrecedesUse, Named
  <2>1. pc[r] # "idle"
    BY DEF Trailed, Kept, Custody, Untouched
  <2> QED  BY <2>1 DEF Trailed, Trail, Preceded
<1> QED  BY <1>1, TrailedAlways, PTL

-----------------------------------------------------------------------------
(* The refinement of Chokepoint.  Each step of a request moves at most one *)
(* of its pairs, and moves it as Chokepoint allows.                        *)

Seen(r, b) == \E m \in sent[r] : m.backend = b /\ m.token # NoToken

(* How far a pair has got, by cases.                                       *)
LEMMA PhaseCases ==
    ASSUME NEW r \in Requests, NEW b \in Backends
    PROVE  /\ Seen(r, b) => Phase(<<r, b>>) = "reached"
           /\ ~Seen(r, b) /\ tokens[r][b] # NoToken => Phase(<<r, b>>) = "minted"
           /\ ~Seen(r, b) /\ tokens[r][b] = NoToken /\ pdp[r][b] = "allow" =>
                Phase(<<r, b>>) = "allowed"
           /\ ~Seen(r, b) /\ tokens[r][b] = NoToken /\ pdp[r][b] = "unasked" =>
                Phase(<<r, b>>) = "undecided"
           /\ ~Seen(r, b) /\ tokens[r][b] = NoToken /\ pdp[r][b] \in {"deny", "unreachable"} =>
                Phase(<<r, b>>) = "denied"
  BY DEF Phase, Seen

LEMMA PhaseFrame ==
    ASSUME NEW r \in Requests, NEW b \in Backends, pdp'[r][b] = pdp[r][b],
           tokens'[r][b] = tokens[r][b], Seen(r, b)' <=> Seen(r, b)
    PROVE  Phase(<<r, b>>)' = Phase(<<r, b>>)
  BY DEF Phase, Seen

(* The verdict on a pair depends on its request's trail only, and is the   *)
(* status of the pair's row, for there is one.                             *)
StatusIn(trail, b) ==
    LET of == {i \in DOMAIN trail : trail[i].server = b}
    IN  IF of = {} THEN "none" ELSE trail[CHOOSE i \in of : TRUE].status

LEMMA StatusCases ==
    ASSUME NEW trail, NEW b
    PROVE  /\ (\A i \in DOMAIN trail : trail[i].server # b) => StatusIn(trail, b) = "none"
           /\ \A i \in DOMAIN trail :
                /\ trail[i].server = b
                /\ \A j \in DOMAIN trail : trail[j].server = b => j = i
                => StatusIn(trail, b) = trail[i].status
<1> DEFINE of == {i \in DOMAIN trail : trail[i].server = b}
<1>1. StatusIn(trail, b) = IF of = {} THEN "none" ELSE trail[CHOOSE i \in of : TRUE].status
  BY DEF StatusIn
<1>2. ASSUME NEW i \in DOMAIN trail, trail[i].server = b,
             \A j \in DOMAIN trail : trail[j].server = b => j = i
      PROVE  StatusIn(trail, b) = trail[i].status
  <2>1. i \in of
    BY <1>2
  <2>2. (CHOOSE j \in of : TRUE) \in of
    BY <2>1
  <2>3. (CHOOSE j \in of : TRUE) = i
    BY <1>2, <2>2
  <2> QED  BY <1>1, <2>1, <2>3
<1> QED  BY <1>1, <1>2

LEMMA VerdictIsStatus ==
    ASSUME NEW r \in Requests, NEW b \in Backends
    PROVE  Verdict(<<r, b>>) = StatusIn(rows[r], b)
  BY DEF Verdict, StatusIn

LEMMA VerdictWillBe ==
    ASSUME NEW r \in Requests, NEW b \in Backends
    PROVE  Verdict(<<r, b>>)' = StatusIn(rows'[r], b)
<1>1. (Verdict(<<r, b>>) = StatusIn(rows[r], b))'
  BY VerdictIsStatus, PTL
<1> QED  BY <1>1

LEMMA VerdictFrame ==
    ASSUME NEW r \in Requests, NEW b \in Backends, rows'[r] = rows[r]
    PROVE  Verdict(<<r, b>>)' = Verdict(<<r, b>>)
  BY VerdictIsStatus, VerdictWillBe

(* What Chokepoint lets one pair do.                                       *)
Move(f, g, v, w) ==
    \/ f = g /\ v = w
    \/ f = "undecided" /\ g \in {"denied", "allowed"} /\ v = w
    \/ f = "allowed" /\ g = "minted" /\ v = "none" /\ w = "none"
    \/ f = "minted" /\ g = "reached" /\ v \in {"none", "ok"} /\ w = v
    \/ /\ f = g /\ v = "none"
       /\ \/ w = "denied" /\ f = "denied"
          \/ w = "error" /\ f = "allowed"
          \/ w \in {"ok", "upstream_error"} /\ f \in {"minted", "reached"}

LEMMA OnePairMoves ==
    ASSUME NEW r \in Requests, NEW c \in Backends,
           \A p \in Requests \X Backends :
             p # <<r, c>> => Phase(p)' = Phase(p) /\ Verdict(p)' = Verdict(p),
           Move(Phase(<<r, c>>), Phase(<<r, c>>)', Verdict(<<r, c>>), Verdict(<<r, c>>)')
    PROVE  Promise!Next \/ UNCHANGED Promise!vars
<1> DEFINE Ps == Requests \X Backends
           x == <<r, c>>
           ph == [p \in Ps |-> Phase(p)]
           ve == [p \in Ps |-> Verdict(p)]
<1>0. x \in Ps
  OBVIOUS
<1>1. ph' = [ph EXCEPT ![x] = Phase(x)'] /\ ve' = [ve EXCEPT ![x] = Verdict(x)']
  OBVIOUS
<1>2. ph[x] = Phase(x) /\ ve[x] = Verdict(x)
  OBVIOUS
<1>3. Phase(x)' = Phase(x) => ph' = ph
  BY <1>1
<1>4. Verdict(x)' = Verdict(x) => ve' = ve
  BY <1>1
<1> HIDE DEF x
<1>5. CASE Phase(x)' = Phase(x) /\ Verdict(x)' = Verdict(x)
  BY <1>3, <1>4, <1>5 DEF Promise!vars
<1>6. CASE Phase(x) = "undecided" /\ Phase(x)' \in {"denied", "allowed"} /\ Verdict(x)' = Verdict(x)
  BY <1>0, <1>1, <1>2, <1>4, <1>6 DEF Promise!Next, Promise!Decide
<1>7. CASE Phase(x) = "allowed" /\ Phase(x)' = "minted" /\ Verdict(x) = "none"
           /\ Verdict(x)' = Verdict(x)
  BY <1>0, <1>1, <1>2, <1>4, <1>7 DEF Promise!Next, Promise!Mint
<1>8. CASE Phase(x) = "minted" /\ Phase(x)' = "reached" /\ Verdict(x) \in {"none", "ok"}
           /\ Verdict(x)' = Verdict(x)
  BY <1>0, <1>1, <1>2, <1>4, <1>8 DEF Promise!Next, Promise!Reach
<1>9. CASE /\ Phase(x)' = Phase(x) /\ Verdict(x) = "none"
           /\ \/ Verdict(x)' = "denied" /\ Phase(x) = "denied"
              \/ Verdict(x)' = "error" /\ Phase(x) = "allowed"
              \/ Verdict(x)' \in {"ok", "upstream_error"} /\ Phase(x) \in {"minted", "reached"}
  BY <1>0, <1>1, <1>2, <1>3, <1>9
  DEF Promise!Next, Promise!Record, Promise!Truthful, Promise!Verdicts
<1> QED  BY <1>5, <1>6, <1>7, <1>8, <1>9 DEF Move, x

(* A step of r that touches what is known of backend c only, and no row,   *)
(* moves no other pair; nor does a row about c.                            *)
LEMMA OthersStand ==
    ASSUME TypeOK, NEW r \in Requests, Step(r), NEW c \in Backends,
           \A b \in Backends \ {c} :
             /\ Phase(<<r, b>>)' = Phase(<<r, b>>)
             /\ Verdict(<<r, b>>)' = Verdict(<<r, b>>)
    PROVE  \A p \in Requests \X Backends :
             p # <<r, c>> => Phase(p)' = Phase(p) /\ Verdict(p)' = Verdict(p)
<1> SUFFICES ASSUME NEW q \in Requests, NEW b \in Backends, q # r \/ b # c
             PROVE  /\ Phase(<<q, b>>)' = Phase(<<q, b>>)
                    /\ Verdict(<<q, b>>)' = Verdict(<<q, b>>)
  OBVIOUS
<1>1. CASE q = r
  BY <1>1
<1>2. CASE q # r
  <2>1. /\ pdp'[q] = pdp[q] /\ tokens'[q] = tokens[q] /\ sent'[q] = sent[q]
        /\ rows'[q] = rows[q]
    BY <1>2, StepsAreLocal, RowsAreLocal DEF Elsewhere
  <2>2. Seen(q, b)' <=> Seen(q, b)
    BY <2>1 DEF Seen
  <2> QED  BY <2>1, <2>2, PhaseFrame, VerdictFrame
<1> QED  BY <1>1, <1>2

(* A step that decides, mints, sends and records nothing is a stutter.     *)
LEMMA NothingMoves ==
    ASSUME TypeOK, NEW r \in Requests, Step(r), UNCHANGED <<rows, pdp, tokens, sent>>
    PROVE  UNCHANGED Promise!vars
<1>1. \A p \in Requests \X Backends : Phase(p)' = Phase(p) /\ Verdict(p)' = Verdict(p)
  <2> SUFFICES ASSUME NEW q \in Requests, NEW b \in Backends
               PROVE  /\ Phase(<<q, b>>)' = Phase(<<q, b>>)
                      /\ Verdict(<<q, b>>)' = Verdict(<<q, b>>)
    OBVIOUS
  <2>1. Seen(q, b)' <=> Seen(q, b)
    BY DEF Seen
  <2> QED  BY <2>1, PhaseFrame, VerdictFrame
<1> QED  BY <1>1 DEF Promise!vars

(* PDP: undecided becomes allowed or denied.                               *)
LEMMA PdpAnswersMoves ==
    ASSUME Trailed, NEW r \in Requests, PdpAnswers(r)
    PROVE  Promise!Next \/ UNCHANGED Promise!vars
<1>0. TypeOK /\ pc[r] = "opa" /\ Shape(r) /\ Custody(r) /\ Step(r)
  BY DEF Trailed, Kept, Typed, Shaped, PdpAnswers, Decide, Step
<1>c. PICK c \in Backends : c = cur[r]
  BY <1>0 DEF Shape
<1>1. pdp[r][c] = "unasked" /\ tokens[r][c] = NoToken /\ ~Seen(r, c)
  BY <1>0, <1>c DEF Shape, Custody, AskedOnce, MintedOnAllow, SentAsMinted, Seen
<1>2. PICK a \in Answers : pdp' = [pdp EXCEPT ![r][c] = a]
  BY <1>c DEF PdpAnswers
<1>3. UNCHANGED <<rows, tokens, sent>>
  BY DEF PdpAnswers
<1>4. pdp'[r][c] = a /\ \A b \in Backends \ {c} : pdp'[r][b] = pdp[r][b]
  BY <1>0, <1>1, <1>2 DEF TypeOK
<1>5. \A b \in Backends : (Seen(r, b)' <=> Seen(r, b)) /\ Verdict(<<r, b>>)' = Verdict(<<r, b>>)
  BY <1>3, VerdictFrame DEF Seen
<1>6. \A b \in Backends \ {c} : Phase(<<r, b>>)' = Phase(<<r, b>>)
  BY <1>3, <1>4, <1>5, PhaseFrame
<1>7. Phase(<<r, c>>) = "undecided"
  BY <1>1, PhaseCases
<1>8. Phase(<<r, c>>)' \in {"denied", "allowed"}
  BY <1>1, <1>3, <1>4, <1>5 DEF Phase, Seen, Answers
<1>9. Move(Phase(<<r, c>>), Phase(<<r, c>>)', Verdict(<<r, c>>), Verdict(<<r, c>>)')
  BY <1>1, <1>5, <1>7, <1>8 DEF Move
<1> QED  BY <1>0, <1>1, <1>5, <1>6, <1>9, OthersStand, OnePairMoves

(* Mint: allowed becomes minted, before any row.                           *)
LEMMA MintMoves ==
    ASSUME Trailed, NEW r \in Requests, Minted(r)
    PROVE  Promise!Next \/ UNCHANGED Promise!vars
<1>0. TypeOK /\ pc[r] = "mint" /\ Shape(r) /\ Custody(r) /\ Trail(r) /\ Step(r)
  BY DEF Trailed, Kept, Typed, Shaped, Minted, Mint, Step
<1>c. PICK c \in Backends : c = cur[r]
  BY <1>0 DEF Shape
<1>1. /\ pdp[r][c] = "allow" /\ tokens[r][c] = NoToken /\ ~Seen(r, c)
      /\ op[r] \in Operations /\ op[r].who \in Users
      /\ IsCall(r) => op[r].name[2] \in Tools
  BY <1>0, <1>c DEF Shape, Trail, InHand, Custody, AskedOnce, SentAsMinted, Seen
<1>2. PICK t \in Tokens : t = TokenFor(op[r], c) /\ t # NoToken
  BY <1>1, TokenForType, ConstantsAssumption DEF IsCall
<1>3. tokens' = [tokens EXCEPT ![r][c] = t] /\ UNCHANGED <<rows, pdp, sent>>
  BY <1>c, <1>2 DEF Minted
<1>4. tokens'[r][c] = t /\ \A b \in Backends \ {c} : tokens'[r][b] = tokens[r][b]
  BY <1>0, <1>1, <1>3 DEF TypeOK
<1>5. \A b \in Backends : (Seen(r, b)' <=> Seen(r, b)) /\ Verdict(<<r, b>>)' = Verdict(<<r, b>>)
  BY <1>3, VerdictFrame DEF Seen
<1>6. \A b \in Backends \ {c} : Phase(<<r, b>>)' = Phase(<<r, b>>)
  BY <1>3, <1>4, <1>5, PhaseFrame
<1>7. Phase(<<r, c>>) = "allowed" /\ Verdict(<<r, c>>) = "none"
  BY <1>0, <1>1, PhaseCases, VerdictIsStatus, StatusCases, <1>c DEF Trail, Fresh, Working
<1>8. Phase(<<r, c>>)' = "minted"
  BY <1>1, <1>2, <1>3, <1>4, <1>5 DEF Phase, Seen
<1>9. Move(Phase(<<r, c>>), Phase(<<r, c>>)', Verdict(<<r, c>>), Verdict(<<r, c>>)')
  BY <1>1, <1>5, <1>7, <1>8 DEF Move
<1> QED  BY <1>0, <1>1, <1>5, <1>6, <1>9, OthersStand, OnePairMoves

(* Contact: minted becomes reached, unless there is no token to send.      *)
LEMMA ContactMoves ==
    ASSUME Trailed, NEW r \in Requests, Contact(r)
    PROVE  Promise!Next \/ UNCHANGED Promise!vars
<1>0. TypeOK /\ pc[r] = "next" /\ Shape(r) /\ Custody(r) /\ Trail(r) /\ Step(r)
  BY DEF Trailed, Kept, Typed, Shaped, Contact, CallNext, Step
<1>1. PICK c \in Targets(r) \ Contacted(r) :
        sent' = [sent EXCEPT ![r] = @ \cup {[backend |-> c, token |-> Credential(r, c)]}]
  BY DEF Contact
<1>2. UNCHANGED <<rows, pdp, tokens>>
  BY DEF Contact
<1>3. c \in Backends /\ ~Seen(r, c)
  BY <1>0, <1>1 DEF Targets, Shape, Contacted, Seen
<1>4. sent'[r] = sent[r] \cup {[backend |-> c, token |-> ctx[r][c]]}
  BY <1>0, <1>1 DEF TypeOK, Credential
<1>5. \A b \in Backends \ {c} : Seen(r, b)' <=> Seen(r, b)
  BY <1>4 DEF Seen
<1>6. Seen(r, c)' <=> ctx[r][c] # NoToken
  <2> DEFINE m == [backend |-> c, token |-> ctx[r][c]]
  <2>1. m \in sent'[r] /\ m.backend = c /\ m.token = ctx[r][c]
    BY <1>4
  <2>2. \A n \in sent'[r] : n.backend = c /\ n.token # NoToken => n.token = ctx[r][c]
    BY <1>3, <1>4 DEF Seen
  <2> QED  BY <2>1, <2>2 DEF Seen
<1>7. \A b \in Backends : Verdict(<<r, b>>)' = Verdict(<<r, b>>)
  BY <1>2, VerdictFrame
<1>8. \A b \in Backends \ {c} : Phase(<<r, b>>)' = Phase(<<r, b>>)
  BY <1>2, <1>5, PhaseFrame
<1>9. Move(Phase(<<r, c>>), Phase(<<r, c>>)', Verdict(<<r, c>>), Verdict(<<r, c>>)')
  <2>1. CASE ctx[r][c] = NoToken
    <3>1. Phase(<<r, c>>)' = Phase(<<r, c>>)
      BY <1>2, <1>3, <1>6, <2>1, PhaseFrame
    <3> QED  BY <1>3, <1>7, <3>1 DEF Move
  <2>2. CASE ctx[r][c] # NoToken
    <3>1. tokens[r][c] # NoToken
      BY <1>0, <1>3, <2>2 DEF Custody, Stashed
    <3>2. Phase(<<r, c>>) = "minted"
      BY <1>3, <3>1, PhaseCases
    <3>3. Phase(<<r, c>>)' = "reached"
      BY <1>6, <2>2 DEF Phase, Seen
    <3>4. Verdict(<<r, c>>) \in {"none", "ok"}
      <4>1. CASE \A i \in DOMAIN rows[r] : rows[r][i].server # c
        BY <1>3, <4>1, VerdictIsStatus, StatusCases
      <4>2. ASSUME NEW i \in DOMAIN rows[r], rows[r][i].server = c
            PROVE  rows[r][i].status = "ok"
        <5>1. ~IsCall(r)
          BY <1>0, <1>1, <4>2 DEF Trail, Fresh, Working, Targets
        <5>3. Honest(r, rows[r][i]) /\ c # NoBackend
          BY <1>0, <1>3, ConstantsAssumption DEF Trail
        <5>4. rows[r][i].status \in Statuses
          BY <1>0, RowTypes
        <5>5. pdp[r][c] = "allow"
          BY <1>0, <1>3, <3>1 DEF Custody, MintedOnAllow
        <5> QED  BY <3>1, <4>2, <5>1, <5>3, <5>4, <5>5 DEF Honest, Statuses
      <4>3. ASSUME NEW i \in DOMAIN rows[r], rows[r][i].server = c
            PROVE  Verdict(<<r, c>>) = "ok"
        <5>1. \A j \in DOMAIN rows[r] : rows[r][j].server = c => j = i
          BY <1>0, <4>3 DEF Trail, Once
        <5> QED  BY <1>3, <4>2, <4>3, <5>1, VerdictIsStatus, StatusCases
      <4> QED  BY <4>1, <4>3
    <3> QED  BY <1>7, <3>2, <3>3, <3>4, <1>3 DEF Move
  <2> QED  BY <2>1, <2>2
<1> QED  BY <1>0, <1>3, <1>7, <1>8, <1>9, OthersStand, OnePairMoves

(* A row, if it is written: no verdict becomes the row's status, and the   *)
(* row is truthful.                                                        *)
LEMMA RecordMoves ==
    ASSUME Trailed, NEW r \in Requests, Written(r) \/ CancelWrite(r)
    PROVE  Promise!Next \/ UNCHANGED Promise!vars
<1>0. TypeOK /\ pc[r] = "write" /\ Shape(r) /\ Custody(r) /\ Trail(r) /\ Step(r)
  BY DEF Trailed, Kept, Typed, Shaped, Written, CancelWrite, Cancel, Step
<1>1. UNCHANGED <<op, pdp, tokens, sent>>
  BY DEF Written, CancelWrite
<1>2. CASE UNCHANGED rows
  BY <1>0, <1>1, <1>2, NothingMoves
<1>3. CASE Record(r)
  <2>1. PICK row \in AuditRows : row = writing[r].row
    BY <1>0 DEF Shape, Writes
  <2>2. row.server = cur[r] /\ Honest(r, row)
    BY <1>0, <2>1 DEF Trail, InHand
  <2>3. /\ DOMAIN rows'[r] = 1..(Len(rows[r]) + 1)
        /\ DOMAIN rows[r] = 1..Len(rows[r]) /\ Len(rows[r]) \in Nat
        /\ rows'[r][Len(rows[r]) + 1] = row
        /\ \A i \in DOMAIN rows[r] : rows'[r][i] = rows[r][i]
    <3>1. rows[r] \in Seq(AuditRows) /\ rows'[r] = Append(rows[r], row)
      BY <1>0, <1>3, <2>1 DEF Record, TypeOK
    <3> QED  BY <3>1
  <2>4. Once(r) /\ Once(r)'
    BY <1>0, <1>1, <1>3, Recorded DEF Trail
  <2>5. \A b \in Backends : Phase(<<r, b>>)' = Phase(<<r, b>>)
    <3>1. \A b \in Backends : Seen(r, b)' <=> Seen(r, b)
      BY <1>1 DEF Seen
    <3> QED  BY <1>1, <3>1, PhaseFrame
  <2>6. ASSUME NEW b \in Backends, b # row.server
        PROVE  Verdict(<<r, b>>)' = Verdict(<<r, b>>)
    <3>1. CASE \A i \in DOMAIN rows[r] : rows[r][i].server # b
      <4>1. \A i \in DOMAIN rows'[r] : rows'[r][i].server # b
        BY <2>3, <2>6, <3>1
      <4> QED  BY <3>1, <4>1, VerdictIsStatus, VerdictWillBe, StatusCases
    <3>2. ASSUME NEW i \in DOMAIN rows[r], rows[r][i].server = b
          PROVE  Verdict(<<r, b>>)' = Verdict(<<r, b>>)
      <4>1. i \in DOMAIN rows'[r] /\ rows'[r][i] = rows[r][i]
        BY <2>3
      <4>2. Verdict(<<r, b>>) = rows[r][i].status
        <5>1. \A j \in DOMAIN rows[r] : rows[r][j].server = b => j = i
          BY <2>4, <3>2 DEF Once
        <5> QED  BY <3>2, <5>1, VerdictIsStatus, StatusCases
      <4>3. Verdict(<<r, b>>)' = rows[r][i].status
        <5>1. \A j \in DOMAIN rows'[r] : rows'[r][j].server = b => j = i
          BY <2>4, <3>2, <4>1 DEF Once
        <5> QED  BY <3>2, <4>1, <5>1, VerdictWillBe, StatusCases
      <4> QED  BY <4>2, <4>3
    <3> QED  BY <3>1, <3>2
  <2>7. CASE row.server \notin Backends
    <3>1. PICK c \in Backends : TRUE
      BY ConstantsAssumption
    <3>2. \A b \in Backends : Verdict(<<r, b>>)' = Verdict(<<r, b>>)
      BY <2>6, <2>7
    <3>3. Move(Phase(<<r, c>>), Phase(<<r, c>>)', Verdict(<<r, c>>), Verdict(<<r, c>>)')
      BY <2>5, <3>2 DEF Move
    <3> QED  BY <1>0, <2>5, <3>2, <3>3, OthersStand, OnePairMoves
  <2>8. CASE row.server \in Backends
    <3>1. PICK c \in Backends : c = row.server
      BY <2>8
    <3>2. Verdict(<<r, c>>) = "none"
      BY <1>0, <2>2, <3>1, VerdictIsStatus, StatusCases DEF Trail, Fresh, Working
    <3>3. Verdict(<<r, c>>)' = row.status
      <4> DEFINE n == Len(rows[r]) + 1
      <4>1. n \in DOMAIN rows'[r] /\ rows'[r][n] = row
        BY <2>3
      <4>2. \A j \in DOMAIN rows'[r] : rows'[r][j].server = c => j = n
        BY <2>4, <3>1, <4>1 DEF Once
      <4> QED  BY <3>1, <4>1, <4>2, VerdictWillBe, StatusCases
    <3>4. row.status \in Statuses /\ c # NoBackend
      BY ConstantsAssumption DEF AuditRows
    <3>5. /\ row.status = "denied" => Phase(<<r, c>>) = "denied"
          /\ row.status = "error" => Phase(<<r, c>>) = "allowed"
          /\ row.status \in {"ok", "upstream_error"} =>
               Phase(<<r, c>>) \in {"minted", "reached"}
      <4>1. /\ tokens[r][c] # NoToken => pdp[r][c] = "allow"
            /\ Seen(r, c) => tokens[r][c] # NoToken
        BY <1>0 DEF Custody, MintedOnAllow, SentAsMinted, Seen
      <4> QED  BY <2>2, <3>1, <3>4, <4>1, PhaseCases DEF Honest
    <3>6. Move(Phase(<<r, c>>), Phase(<<r, c>>)', Verdict(<<r, c>>), Verdict(<<r, c>>)')
      BY <2>5, <3>2, <3>3, <3>4, <3>5 DEF Move, Statuses
    <3> QED  BY <1>0, <2>5, <2>6, <3>1, <3>6, OthersStand, OnePairMoves
  <2> QED  BY <2>7, <2>8
<1> QED  BY <1>2, <1>3 DEF Written, CancelWrite

(* The enforcement point implements Chokepoint: what it promises about one *)
(* pair holds of every pair, however the requests interleave.              *)
THEOREM PromiseCorrect == Spec => KeepsPromise
<1>1. Init => Promise!Init
  <2> SUFFICES ASSUME Init PROVE Promise!Init
    OBVIOUS
  <2>1. ASSUME NEW r \in Requests, NEW b \in Backends
        PROVE  Phase(<<r, b>>) = "undecided" /\ Verdict(<<r, b>>) = "none"
    <3>1. ~Seen(r, b) /\ tokens[r][b] = NoToken /\ pdp[r][b] = "unasked" /\ rows[r] = <<>>
      BY DEF Init, Seen
    <3> QED  BY <3>1, PhaseCases, VerdictIsStatus, StatusCases
  <2> QED  BY <2>1 DEF Promise!Init
<1>2. Trailed /\ [Next]_vars => [Promise!Next]_(Promise!vars)
  <2> SUFFICES ASSUME Trailed, [Next]_vars PROVE Promise!Next \/ UNCHANGED Promise!vars
    OBVIOUS
  <2>1. CASE UNCHANGED vars
    BY <2>1 DEF vars, Promise!vars, Phase, Verdict
  <2>2. CASE AllServed
    BY <2>1, <2>2 DEF AllServed
  <2>3. ASSUME NEW r \in Requests, Step(r)
        PROVE  Promise!Next \/ UNCHANGED Promise!vars
    <3>1. CASE \/ Arrivals(r) \/ PdpEscapes(r) \/ MintFails(r) \/ MintEscapes(r)
               \/ CallReturns(r) \/ CallRaises(r) \/ ListReturns(r) \/ ListRaises(r)
               \/ CancelBeforeNext(r) \/ CancelCall(r)
      <4>1. UNCHANGED <<rows, pdp, tokens, sent>>
        BY <3>1 DEF Arrivals, CallUnauthenticated, OnCallTool, Unmodeled, OnList, PdpEscapes,
                    MintFails, MintEscapes, CallReturns, CallRaises, CallEnds, ListReturns,
                    ListRaises, CancelBeforeNext, CancelCall
      <4> QED  BY <2>3, <4>1, NothingMoves DEF Trailed, Kept, Typed
    <3> QED
      BY <2>3, <3>1, PdpAnswersMoves, MintMoves, ContactMoves, RecordMoves
      DEF Step, Decide, Mint, CallNext, Cancel
  <2> QED  BY <2>1, <2>2, <2>3 DEF Next, Step
<1> QED  BY <1>1, <1>2, TrailedAlways, PTL DEF Spec, KeepsPromise, Promise!Spec
=============================================================================
