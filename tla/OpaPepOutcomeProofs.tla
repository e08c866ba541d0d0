----------------------- MODULE OpaPepOutcomeProofs -----------------------
(***************************************************************************)
(* Theorems about what the trail says of a finished request.  They have    *)
(* premises on the faults, because the code does not keep either without:  *)
(*   OutcomeCorrect       RowTellsOutcome, unless a client cancels: the    *)
(*                        row of a cancelled call may say "ok"             *)
(*   RecordedCorrect      RecordedOnce, without any fault: what escapes or *)
(*                        is cancelled may leave no row                    *)
(***************************************************************************)
EXTENDS OpaPepTrailProofs, FiniteSetTheorems

-----------------------------------------------------------------------------
(* A call has one row, and it is written last.                             *)

Tells(r, row, how) ==
    /\ row.status = "ok" <=> how = "returned"
    /\ row.status \in {"denied", "error"} => sent[r] = {}
    /\ row.status = "upstream_error" => tokens[r][cur[r]] # NoToken

Story(r) == pc[r] # "idle" /\ IsCall(r) =>
    /\ pc[r] \in {"opa", "mint"} => sent[r] = {}
    /\ pc[r] # "done" => rows[r] = <<>>
    /\ pc[r] = "write" =>
         writing[r].then # "continue" /\ Tells(r, writing[r].row, EndOf(writing[r].then))
    /\ pc[r] = "done" => \A i \in DOMAIN rows[r] : Tells(r, rows[r][i], end[r])

(* How another request ends is its own affair.                             *)
LEMMA EndsAreLocal ==
    ASSUME TypeOK, NEW r \in Requests, Step(r), NEW q \in Requests \ {r}
    PROVE  end'[q] = end[q]
  BY DEF TypeOK, Step, Arrivals, CallUnauthenticated, OnCallTool, Unmodeled, OnList,
         Decide, PdpAnswers, PdpEscapes, Mint, Minted, MintFails, MintEscapes, CallNext,
         Contact, CallReturns, CallRaises, CallEnds, ListReturns, ListRaises, Written, Cancel,
         CancelBeforeNext, CancelCall, CancelWrite, StartWrite, Finish

LEMMA StoryElsewhere ==
    ASSUME Trailed, NEW r \in Requests, Step(r), NEW q \in Requests \ {r}, Story(q)
    PROVE  Story(q)'
<1>1. /\ pc'[q] = pc[q] /\ op'[q] = op[q] /\ cur'[q] = cur[q] /\ writing'[q] = writing[q]
      /\ tokens'[q] = tokens[q] /\ sent'[q] = sent[q] /\ rows'[q] = rows[q]
      /\ end'[q] = end[q]
  BY StepsAreLocal, RowsAreLocal, EndsAreLocal DEF Trailed, Kept, Typed, Elsewhere
<1> QED  BY <1>1 DEF Story, Tells, IsCall, EndOf

(* A call arrives with nothing sent; refused at once, its row says denied. *)
LEMMA ArrivalsStory ==
    ASSUME Trailed, NEW r \in Requests, Arrivals(r)
    PROVE  Story(r)'
<1>0. TypeOK /\ Custody(r) /\ Trail(r)
  BY DEF Trailed, Kept, Typed
<1>1. pc[r] = "idle" /\ UNCHANGED <<rows, sent>>
  BY DEF Arrivals, CallUnauthenticated, OnCallTool, Unmodeled, OnList, Arrive
<1>2. rows[r] = <<>> /\ sent[r] = {}
  BY <1>0, <1>1 DEF Custody, Untouched, Trail
<1>3. CASE CallUnauthenticated(r)
  <2>1. pc'[r] = "done"
    BY <1>0, <1>3 DEF CallUnauthenticated, Finish, TypeOK
  <2> QED  BY <1>1, <1>2, <2>1 DEF Story
<1>4. CASE OnCallTool(r)
  <2>1. PICK m \in Mounted :
          \/ pc' = [pc EXCEPT ![r] = "opa"]
          \/ StartWrite(r, AuditRow(NoBackend, FALSE, "denied", NoToken), "raise")
    BY <1>4 DEF OnCallTool
  <2>2. CASE pc' = [pc EXCEPT ![r] = "opa"]
    <3>1. pc'[r] = "opa"
      BY <1>0, <2>2 DEF TypeOK
    <3> QED  BY <1>1, <1>2, <3>1 DEF Story
  <2>3. CASE StartWrite(r, AuditRow(NoBackend, FALSE, "denied", NoToken), "raise")
    <3>1. /\ pc'[r] = "write"
          /\ writing'[r] = [row |-> AuditRow(NoBackend, FALSE, "denied", NoToken),
                            then |-> "raise"]
      BY <1>0, <2>3 DEF StartWrite, TypeOK
    <3> QED  BY <1>1, <1>2, <3>1 DEF Story, Tells, AuditRow, EndOf
  <2> QED  BY <2>1, <2>2, <2>3
<1>5. CASE Unmodeled(r) \/ OnList(r)
  <2>1. PICK h \in {"unmodeled", "tools/list", "resources/list"},
             u \in Users \cup {Anonymous} :
          op' = [op EXCEPT ![r] = [hook |-> h, who |-> u, name |-> NoTarget]]
    BY <1>5 DEF Unmodeled, OnList, Arrive
  <2>2. ~IsCall(r)'
    BY <1>0, <2>1 DEF TypeOK, IsCall
  <2> QED  BY <2>2 DEF Story
<1> QED  BY <1>3, <1>4, <1>5 DEF Arrivals

(* The row of a call is in hand: it says what was sent and how it ends.    *)
LEMMA StoryWrites ==
    ASSUME Trailed, NEW r \in Requests, Story(r), pc[r] \in {"opa", "mint", "next"},
           UNCHANGED <<op, cur, rows, tokens, sent>>, NEW status, NEW allow, NEW jti,
           NEW then \in {"raise", "return"},
           StartWrite(r, AuditRow(cur[r], allow, status, jti), then), IsCall(r),
           status = "ok" <=> then = "return",
           status \in {"denied", "error"} => sent[r] = {},
           status = "upstream_error" => tokens[r][cur[r]] # NoToken
    PROVE  Story(r)'
<1>1. TypeOK
  BY DEF Trailed, Kept, Typed
<1>2. /\ pc'[r] = "write"
      /\ writing'[r] = [row |-> AuditRow(cur[r], allow, status, jti), then |-> then]
  BY <1>1 DEF StartWrite, TypeOK
<1>3. rows[r] = <<>>
  BY DEF Story
<1>4. /\ writing'[r].then = then /\ writing'[r].row.status = status
      /\ EndOf(then) = "returned" <=> then = "return"
  BY <1>2 DEF AuditRow, EndOf
<1> QED  BY <1>2, <1>3, <1>4 DEF Story, Tells

(* No step of a request that runs to its end spoils its story.             *)
LEMMA StoryStep ==
    ASSUME "cancel" \notin Faults, Trailed, NEW r \in Requests, Step(r), Story(r)
    PROVE  Story(r)'
<1>0. TypeOK /\ Shape(r) /\ Custody(r) /\ Trail(r)
  BY DEF Trailed, Kept, Typed, Shaped
<1>1. CASE Arrivals(r)
  BY <1>1, ArrivalsStory
<1>2. CASE PdpAnswers(r)
  <2>1. pc[r] = "opa" /\ UNCHANGED <<op, cur, rows, tokens, sent>>
    BY <1>2 DEF PdpAnswers
  <2>2. CASE pc' = [pc EXCEPT ![r] = "mint"]
    <3>1. pc'[r] = "mint"
      BY <1>0, <2>2 DEF TypeOK
    <3> QED  BY <2>1, <3>1 DEF Story, IsCall
  <2>3. CASE StartWrite(r, AuditRow(cur[r], FALSE, "denied", NoToken), AfterRefusal(r))
    <3>1. CASE IsCall(r)
      <4>1. StartWrite(r, AuditRow(cur[r], FALSE, "denied", NoToken), "raise")
        BY <2>3, <3>1 DEF AfterRefusal
      <4>2. sent[r] = {}
        BY <2>1, <3>1 DEF Story
      <4> QED  BY <2>1, <3>1, <4>1, <4>2, StoryWrites
    <3>2. CASE ~IsCall(r)
      BY <2>1, <3>2 DEF Story, IsCall
    <3> QED  BY <3>1, <3>2
  <2> QED  BY <1>2, <2>2, <2>3 DEF PdpAnswers
<1>3. CASE Minted(r)
  <2>1. pc[r] = "mint" /\ UNCHANGED <<op, cur, rows, sent>>
    BY <1>3 DEF Minted
  <2>2. CASE IsCall(r)
    <3>1. pc'[r] = "next"
      BY <1>0, <1>3, <2>2 DEF Minted, TypeOK, IsList, IsCall
    <3> QED  BY <2>1, <3>1 DEF Story, IsCall
  <2>3. CASE ~IsCall(r)
    BY <2>1, <2>3 DEF Story, IsCall
  <2> QED  BY <2>2, <2>3
<1>4. CASE MintFails(r)
  <2>1. /\ pc[r] = "mint" /\ UNCHANGED <<op, cur, rows, tokens, sent>>
        /\ StartWrite(r, AuditRow(cur[r], TRUE, "error", NoToken), AfterRefusal(r))
    BY <1>4 DEF MintFails
  <2>2. CASE IsCall(r)
    <3>1. StartWrite(r, AuditRow(cur[r], TRUE, "error", NoToken), "raise") /\ sent[r] = {}
      BY <2>1, <2>2 DEF AfterRefusal, Story
    <3> QED  BY <2>1, <2>2, <3>1, StoryWrites
  <2>3. CASE ~IsCall(r)
    BY <2>1, <2>3 DEF Story, IsCall
  <2> QED  BY <2>2, <2>3
<1>5. CASE PdpEscapes(r) \/ MintEscapes(r) \/ ListReturns(r) \/ ListRaises(r)
  <2>1. /\ pc[r] \in {"opa", "mint", "next"} /\ UNCHANGED <<op, rows>> /\ pc'[r] = "done"
        /\ pc[r] = "next" => ~IsCall(r)
    BY <1>0, <1>5
    DEF PdpEscapes, MintEscapes, ListReturns, ListRaises, Finish, TypeOK, IsList, IsCall
  <2> QED  BY <2>1 DEF Story, IsCall
<1>6. CASE Contact(r)
  <2>1. pc[r] = "next" /\ UNCHANGED <<pc, op, rows>>
    BY <1>6 DEF Contact
  <2> QED  BY <2>1 DEF Story, IsCall
<1>7. CASE CallReturns(r) \/ CallRaises(r)
  <2>1. PICK status \in {"ok", "upstream_error"}, then \in {"return", "raise"} :
          CallEnds(r, status, then) /\ (status = "ok" <=> then = "return")
    BY <1>7 DEF CallReturns, CallRaises
  <2>2. /\ pc[r] = "next" /\ IsCall(r) /\ UNCHANGED <<op, cur, rows, tokens, sent>>
        /\ StartWrite(r, AuditRow(cur[r], TRUE, status, Jti(tokens[r][cur[r]])), then)
    BY <2>1 DEF CallEnds
  <2>3. tokens[r][cur[r]] # NoToken
    BY <1>0, <2>2 DEF Trail, InHand
  <2> QED  BY <2>1, <2>2, <2>3, StoryWrites
<1>8. CASE Written(r)
  <2>1. pc[r] = "write" /\ Record(r) /\ UNCHANGED <<op, tokens, sent>>
    BY <1>8 DEF Written
  <2>2. CASE IsCall(r)
    <3>1. /\ writing[r].then # "continue" /\ rows[r] = <<>>
          /\ Tells(r, writing[r].row, EndOf(writing[r].then))
      BY <2>1, <2>2 DEF Story
    <3>2. /\ pc'[r] = "done" /\ end'[r] = EndOf(writing[r].then) /\ UNCHANGED cur
      BY <1>0, <1>8, <3>1 DEF Written, Finish, TypeOK
    <3>3. \A i \in DOMAIN rows'[r] : rows'[r][i] = writing[r].row
      BY <1>0, <2>1, <3>1 DEF Record, TypeOK
    <3> QED  BY <2>1, <3>1, <3>2, <3>3 DEF Story, Tells
  <2>3. CASE ~IsCall(r)
    BY <2>1, <2>3 DEF Story, IsCall
  <2> QED  BY <2>2, <2>3
<1>9. ~Cancel(r)
  BY DEF Cancel, CancelBeforeNext, CancelCall, CancelWrite
<1> QED
  BY <1>1, <1>2, <1>3, <1>4, <1>5, <1>6, <1>7, <1>8, <1>9
  DEF Step, Decide, Mint, CallNext

(* A finished call's row says how it went, as long as nobody cancels.      *)
THEOREM OutcomeCorrect ==
    ASSUME "cancel" \notin Faults
    PROVE  Spec => []RowTellsOutcome
<1> DEFINE Stories == \A r \in Requests : Story(r)
<1>1. Init => Stories
  BY DEF Init, Story
<1>2. Trailed /\ Stories /\ [Next]_vars => Stories'
  <2> SUFFICES ASSUME Trailed, Stories, [Next]_vars PROVE Stories'
    OBVIOUS
  <2>1. CASE UNCHANGED vars
    <3>1. /\ pc' = pc /\ op' = op /\ cur' = cur /\ writing' = writing
          /\ tokens' = tokens /\ sent' = sent /\ rows' = rows /\ end' = end
      BY <2>1 DEF vars
    <3>2. ASSUME NEW r \in Requests, Story(r) PROVE Story(r)'
      BY <3>1, <3>2 DEF Story, Tells, IsCall, EndOf
    <3> QED  BY <3>2
  <2>2. CASE AllServed
    BY <2>1, <2>2 DEF AllServed
  <2>3. ASSUME NEW r \in Requests, Step(r) PROVE Stories'
    BY <2>3, StoryStep, StoryElsewhere
  <2> QED  BY <2>1, <2>2, <2>3 DEF Next, Step
<1>3. Stories => RowTellsOutcome
  BY DEF Story, Tells, RowTellsOutcome
<1> HIDE DEF Stories
<1> QED  BY <1>1, <1>2, <1>3, TrailedAlways, PTL DEF Spec

-----------------------------------------------------------------------------
(* Every decision has its row, once it is due.                             *)

Alone(r) == op[r].hook = "unmodeled" \/ (IsCall(r) /\ op[r].who # Anonymous)
Spread(r) == IsList(r) /\ op[r].who # Anonymous

(* What the trail of a request is to name in the end.                      *)
Due(r) == IF Alone(r) THEN {cur[r]} ELSE IF Spread(r) THEN Backends ELSE {}

HasRow(r, b) == \E i \in DOMAIN rows[r] : rows[r][i].server = b

Complete(r) == pc[r] # "idle" =>
    /\ \A b : b \in Due(r) <=>
                HasRow(r, b) \/ b \in todo[r] \/ (Working(r) /\ b = cur[r])
    /\ ~IsList(r) \/ pc[r] \in {"next", "done"} => todo[r] = {}
    /\ pc[r] \in {"opa", "mint"} => IsCall(r) \/ IsList(r)
    /\ pc[r] = "write" => (writing[r].then = "continue" <=> IsList(r))

LEMMA CompleteElsewhere ==
    ASSUME Trailed, NEW r \in Requests, Step(r), NEW q \in Requests \ {r}, Complete(q)
    PROVE  Complete(q)'
<1>1. /\ pc'[q] = pc[q] /\ op'[q] = op[q] /\ cur'[q] = cur[q] /\ todo'[q] = todo[q]
      /\ writing'[q] = writing[q] /\ rows'[q] = rows[q]
  BY StepsAreLocal, RowsAreLocal DEF Trailed, Kept, Typed, Elsewhere
<1> QED  BY <1>1 DEF Complete, Due, Alone, Spread, HasRow, Working, IsCall, IsList

(* Nothing but a write discharges what is due.                             *)
LEMMA CompleteStays ==
    ASSUME NEW r \in Requests, Complete(r), pc[r] # "idle", UNCHANGED <<op, cur, todo, rows>>,
           Working(r)' <=> Working(r),
           pc'[r] \in {"opa", "mint"} => pc[r] \in {"opa", "mint"},
           pc'[r] \in {"next", "done"} => ~IsList(r) \/ pc[r] = "next",
           pc'[r] = "write" => (writing'[r].then = "continue" <=> IsList(r))
    PROVE  Complete(r)'
<1>1. Due(r)' = Due(r) /\ (IsList(r)' <=> IsList(r)) /\ (IsCall(r)' <=> IsCall(r))
  BY DEF Due, Alone, Spread, IsCall, IsList
<1> QED  BY <1>1 DEF Complete, HasRow

(* A request arrives with everything due still to do.                      *)
LEMMA ArrivalsComplete ==
    ASSUME Trailed, NEW r \in Requests, Arrivals(r)
    PROVE  Complete(r)'
<1>0. TypeOK /\ Custody(r) /\ Trail(r)
  BY DEF Trailed, Kept, Typed
<1>1. pc[r] = "idle" /\ UNCHANGED rows
  BY DEF Arrivals, CallUnauthenticated, OnCallTool, Unmodeled, OnList, Arrive
<1>2. todo[r] = {} /\ cur[r] = NoBackend /\ \A b : ~HasRow(r, b)'
  BY <1>0, <1>1 DEF Custody, Untouched, Trail, HasRow
<1>3. CASE CallUnauthenticated(r)
  <2>1. /\ op'[r].hook = "tools/call" /\ op'[r].who = Anonymous
        /\ pc'[r] = "done" /\ todo'[r] = {}
    BY <1>0, <1>2, <1>3 DEF CallUnauthenticated, Arrive, Finish, TypeOK
  <2> QED  BY <1>2, <2>1 DEF Complete, Due, Alone, Spread, Working, IsCall, IsList
<1>4. CASE OnCallTool(r)
  <2>1. /\ op'[r].hook = "tools/call" /\ op'[r].who # Anonymous
        /\ pc'[r] \in {"opa", "write"} /\ todo'[r] = {}
        /\ pc'[r] = "write" => writing'[r].then = "raise"
    <3>1. PICK u \in Users, m \in Mounted :
            /\ Arrive(r, [hook |-> "tools/call", who |-> u, name |-> m])
            /\ \/ pc' = [pc EXCEPT ![r] = "opa"]
               \/ StartWrite(r, AuditRow(NoBackend, FALSE, "denied", NoToken), "raise")
            /\ UNCHANGED todo
      BY <1>4 DEF OnCallTool
    <3>2. op' = [op EXCEPT ![r] = [hook |-> "tools/call", who |-> u, name |-> m]]
      BY <3>1 DEF Arrive
    <3>3. op'[r].hook = "tools/call" /\ op'[r].who = u /\ u # Anonymous
      BY <1>0, <3>2, ConstantsAssumption DEF TypeOK
    <3>4. CASE pc' = [pc EXCEPT ![r] = "opa"]
      BY <1>0, <1>2, <3>1, <3>3, <3>4 DEF TypeOK
    <3>5. CASE StartWrite(r, AuditRow(NoBackend, FALSE, "denied", NoToken), "raise")
      <4>1. pc'[r] = "write" /\ writing'[r].then = "raise"
        BY <1>0, <3>5 DEF StartWrite, TypeOK
      <4> QED  BY <1>2, <3>1, <3>3, <4>1
    <3> QED  BY <3>1, <3>4, <3>5
  <2> QED  BY <1>2, <2>1 DEF Complete, Due, Alone, Spread, Working, IsCall, IsList
<1>5. CASE Unmodeled(r)
  <2>1. /\ op'[r].hook = "unmodeled" /\ pc'[r] = "write" /\ todo'[r] = {}
        /\ writing'[r].then = "raise"
    BY <1>0, <1>2, <1>5 DEF Unmodeled, Arrive, StartWrite, TypeOK
  <2> QED  BY <1>2, <2>1 DEF Complete, Due, Alone, Spread, Working, IsCall, IsList
<1>6. CASE OnList(r)
  <2>1. PICK h \in {"tools/list", "resources/list"}, u \in Users \cup {Anonymous} :
          /\ op'[r].hook = h /\ op'[r].who = u
          /\ \/ u = Anonymous /\ pc'[r] = "next" /\ todo'[r] = {}
             \/ /\ u # Anonymous /\ pc'[r] = "opa"
                /\ cur'[r] \in Backends /\ todo'[r] = Backends \ {cur'[r]}
    BY <1>0, <1>2, <1>6 DEF OnList, Arrive, TypeOK
  <2> QED  BY <1>2, <2>1 DEF Complete, Due, Alone, Spread, Working, IsCall, IsList
<1> QED  BY <1>3, <1>4, <1>5, <1>6 DEF Arrivals

(* The row written is about the decision in progress, and the loop ends    *)
(* only when no backend is left.                                           *)
LEMMA WrittenComplete ==
    ASSUME Trailed, NEW r \in Requests, Written(r), Complete(r)
    PROVE  Complete(r)'
<1>0. TypeOK /\ pc[r] = "write" /\ Shape(r) /\ Trail(r) /\ Record(r) /\ UNCHANGED op
  BY DEF Trailed, Kept, Typed, Shaped, Written
<1>1. /\ writing[r].row \in AuditRows /\ writing[r].row.server = cur[r]
      /\ rows[r] \in Seq(AuditRows) /\ rows'[r] = Append(rows[r], writing[r].row)
  BY <1>0 DEF Shape, Writes, Trail, InHand, Record, TypeOK
<1>2. \A b : HasRow(r, b)' <=> HasRow(r, b) \/ b = cur[r]
  <2>1. /\ Len(rows[r]) \in Nat /\ DOMAIN rows[r] = 1..Len(rows[r])
        /\ DOMAIN rows'[r] = 1..(Len(rows[r]) + 1)
        /\ rows'[r][Len(rows[r]) + 1] = writing[r].row
        /\ \A i \in DOMAIN rows[r] : rows'[r][i] = rows[r][i]
    BY <1>1
  <2>2. \A i : i \in DOMAIN rows'[r] <=> i \in DOMAIN rows[r] \/ i = Len(rows[r]) + 1
    BY <2>1
  <2> QED  BY <1>1, <2>1, <2>2 DEF HasRow
<1>3. /\ Alone(r)' <=> Alone(r)
      /\ Spread(r)' <=> Spread(r)
      /\ IsList(r)' <=> IsList(r)
      /\ IsCall(r)' <=> IsCall(r)
  BY <1>0 DEF Alone, Spread, IsList, IsCall
<1>4. \A b : b \in Due(r) <=> HasRow(r, b)' \/ b \in todo[r]
  BY <1>0, <1>2 DEF Complete, Working
<1>5. CASE writing[r].then # "continue"
  <2>1. pc'[r] = "done" /\ UNCHANGED <<cur, todo>> /\ ~IsList(r)
    BY <1>0, <1>5 DEF Written, Finish, TypeOK, Complete
  <2>2. Due(r)' = Due(r)
    BY <1>3, <2>1 DEF Due
  <2> QED  BY <1>0, <1>3, <1>4, <2>1, <2>2 DEF Complete, Working
<1>6. CASE writing[r].then = "continue"
  <2>1. IsList(r) /\ ~IsCall(r)
    BY <1>0, <1>6 DEF Complete, IsList, IsCall
  <2>2. Due(r)' = Due(r)
    BY <1>3, <2>1 DEF Due, Alone, IsList, IsCall
  <2>3. CASE todo[r] = {}
    <3>1. pc'[r] = "next" /\ todo'[r] = {}
      BY <1>0, <1>6, <2>3 DEF Written, TypeOK
    <3> QED  BY <1>3, <1>4, <2>1, <2>2, <2>3, <3>1 DEF Complete, Working
  <2>4. CASE todo[r] # {}
    <3>1. /\ pc'[r] = "opa" /\ cur'[r] \in todo[r]
          /\ todo'[r] = todo[r] \ {cur'[r]}
      BY <1>0, <1>6, <2>4 DEF Written, TypeOK
    <3> QED  BY <1>3, <1>4, <2>1, <2>2, <3>1 DEF Complete, Working
  <2> QED  BY <2>3, <2>4
<1> QED  BY <1>5, <1>6

LEMMA CompleteStep ==
    ASSUME Faults = {}, Trailed, NEW r \in Requests, Step(r), Complete(r)
    PROVE  Complete(r)'
<1>0. TypeOK
  BY DEF Trailed, Kept, Typed
<1>1. CASE Arrivals(r)
  BY <1>1, ArrivalsComplete
<1>2. CASE PdpAnswers(r)
  <2>1. /\ pc[r] = "opa" /\ UNCHANGED <<op, cur, todo, rows>>
        /\ pc'[r] \in {"mint", "write"}
        /\ pc'[r] = "write" => writing'[r].then = AfterRefusal(r)
    <3>1. PICK row : \/ pc' = [pc EXCEPT ![r] = "mint"]
                     \/ StartWrite(r, row, AfterRefusal(r))
      BY <1>2 DEF PdpAnswers
    <3>2. pc[r] = "opa" /\ UNCHANGED <<op, cur, todo, rows>>
      BY <1>2 DEF PdpAnswers
    <3> QED  BY <1>0, <3>1, <3>2 DEF StartWrite, TypeOK
  <2> QED  BY <2>1, CompleteStays DEF Working, Complete, AfterRefusal, IsCall, IsList
<1>3. CASE Minted(r)
  <2>1. /\ pc[r] = "mint" /\ UNCHANGED <<op, cur, todo, rows>>
        /\ \/ IsCall(r) /\ pc'[r] = "next"
           \/ IsList(r) /\ pc'[r] = "write" /\ writing'[r].then = "continue"
    <3>1. PICK row : \/ IsCall(r) /\ pc' = [pc EXCEPT ![r] = "next"]
                     \/ IsList(r) /\ StartWrite(r, row, "continue")
      BY <1>3 DEF Minted
    <3>2. pc[r] = "mint" /\ UNCHANGED <<op, cur, todo, rows>>
      BY <1>3 DEF Minted
    <3> QED  BY <1>0, <3>1, <3>2 DEF StartWrite, TypeOK
  <2> QED  BY <2>1, CompleteStays DEF Working, IsCall, IsList
<1>4. CASE MintFails(r)
  <2>1. /\ pc[r] = "mint" /\ UNCHANGED <<op, cur, todo, rows>>
        /\ pc'[r] = "write" /\ writing'[r].then = AfterRefusal(r)
    BY <1>0, <1>4 DEF MintFails, StartWrite, TypeOK
  <2> QED  BY <2>1, CompleteStays DEF Working, Complete, AfterRefusal, IsCall, IsList
<1>5. CASE Contact(r)
  <2>1. pc[r] = "next" /\ UNCHANGED <<pc, op, cur, todo, rows>>
    BY <1>5 DEF Contact
  <2> QED  BY <2>1, CompleteStays DEF Working, IsCall
<1>6. CASE CallReturns(r) \/ CallRaises(r)
  <2>1. /\ pc[r] = "next" /\ IsCall(r) /\ UNCHANGED <<op, cur, todo, rows>>
        /\ pc'[r] = "write" /\ writing'[r].then \in {"return", "raise"}
    <3>1. PICK status \in {"ok", "upstream_error"}, then \in {"return", "raise"} :
            CallEnds(r, status, then)
      BY <1>6 DEF CallReturns, CallRaises
    <3>2. /\ pc[r] = "next" /\ IsCall(r) /\ UNCHANGED <<op, cur, todo, rows>>
          /\ StartWrite(r, AuditRow(cur[r], TRUE, status, Jti(tokens[r][cur[r]])), then)
      BY <3>1 DEF CallEnds
    <3> QED  BY <1>0, <3>2 DEF StartWrite, TypeOK
  <2> QED  BY <2>1, CompleteStays DEF Working, IsCall, IsList
<1>7. CASE ListReturns(r) \/ ListRaises(r)
  <2>1. /\ pc[r] = "next" /\ IsList(r) /\ UNCHANGED <<op, cur, todo, rows>>
        /\ pc'[r] = "done"
    BY <1>0, <1>7 DEF ListReturns, ListRaises, Finish, TypeOK
  <2> QED  BY <2>1, CompleteStays DEF Working, IsCall, IsList
<1>8. CASE Written(r)
  BY <1>8, WrittenComplete
<1>9. ~PdpEscapes(r) /\ ~MintEscapes(r) /\ ~Cancel(r)
  BY DEF PdpEscapes, MintEscapes, Cancel, CancelBeforeNext, CancelCall, CancelWrite
<1> QED
  BY <1>1, <1>2, <1>3, <1>4, <1>5, <1>6, <1>7, <1>8, <1>9
  DEF Step, Decide, Mint, CallNext

(* The rows of a list are as many as the backends they are about.          *)
LEMMA RowsCount ==
    ASSUME TypeOK, NEW r \in Requests, Once(r), NEW S, \A b : b \in S <=> HasRow(r, b)
    PROVE  Len(rows[r]) = Cardinality(S)
<1>1. Len(rows[r]) \in Nat /\ DOMAIN rows[r] = 1..Len(rows[r])
  BY DEF TypeOK
<1> DEFINE n == Len(rows[r])
           f == [i \in 1..n |-> rows[r][i].server]
<1>2. f \in [1..n -> S] /\ \A b \in S : \E i \in 1..n : f[i] = b
  BY <1>1 DEF HasRow
<1>3. \A i, j \in 1..n : f[i] = f[j] => i = j
  BY <1>1 DEF Once
<1>4. ExistsBijection(1..n, S)
  <2>1. f \in Injection(1..n, S)
    BY <1>2, <1>3 DEF Injection, IsInjective
  <2>2. f \in Surjection(1..n, S)
    BY <1>2 DEF Surjection
  <2> QED  BY <2>1, <2>2 DEF ExistsBijection, Bijection
<1> QED  BY <1>1, <1>4, FS_CountingElements

(* Where nothing escapes and nobody cancels, a request the gateway took on *)
(* leaves exactly the rows it owes, for any number of backends.            *)
THEOREM RecordedCorrect ==
    ASSUME Faults = {}
    PROVE  Spec => []RecordedOnce
<1> DEFINE Completed == \A r \in Requests : Complete(r)
<1>1. Init => Completed
  BY DEF Init, Complete
<1>2. Trailed /\ Completed /\ [Next]_vars => Completed'
  <2> SUFFICES ASSUME Trailed, Completed, [Next]_vars PROVE Completed'
    OBVIOUS
  <2>1. CASE UNCHANGED vars
    <3>1. /\ pc' = pc /\ op' = op /\ cur' = cur /\ todo' = todo
          /\ writing' = writing /\ rows' = rows
      BY <2>1 DEF vars
    <3>2. ASSUME NEW r \in Requests, Complete(r) PROVE Complete(r)'
      BY <3>1, <3>2 DEF Complete, Due, Alone, Spread, HasRow, Working, IsCall, IsList
    <3> QED  BY <3>2
  <2>2. CASE AllServed
    BY <2>1, <2>2 DEF AllServed
  <2>3. ASSUME NEW r \in Requests, Step(r) PROVE Completed'
    BY <2>3, CompleteStep, CompleteElsewhere
  <2> QED  BY <2>1, <2>2, <2>3 DEF Next, Step
<1>3. Trailed /\ Completed => RecordedOnce
  <2> SUFFICES ASSUME Trailed, Completed, NEW r \in Requests, pc[r] = "done" PROVE Audited(r)
    BY DEF RecordedOnce
  <2>1. TypeOK /\ Once(r)
    BY DEF Trailed, Kept, Typed, Trail
  <2>2. \A b : b \in Due(r) <=> HasRow(r, b)
    BY DEF Complete, Working
  <2>3. Len(rows[r]) = Cardinality(Due(r))
    BY <2>1, <2>2, RowsCount
  <2>4. CASE Alone(r)
    BY <2>3, <2>4, FS_Singleton DEF Due, Audited, Alone
  <2>5. CASE ~Alone(r) /\ Spread(r)
    BY <2>2, <2>3, <2>5 DEF Due, Audited, Alone, Spread, HasRow
  <2>6. CASE ~Alone(r) /\ ~Spread(r)
    <3>1. Due(r) = {} /\ Cardinality(Due(r)) = 0
      BY <2>6, FS_EmptySet DEF Due
    <3>2. rows[r] = <<>>
      BY <2>1, <2>3, <3>1 DEF TypeOK
    <3> QED  BY <2>6, <3>2 DEF Audited, Alone, Spread
  <2> QED  BY <2>4, <2>5, <2>6
<1> HIDE DEF Completed
<1> QED  BY <1>1, <1>2, <1>3, TrailedAlways, PTL DEF Spec
=============================================================================
