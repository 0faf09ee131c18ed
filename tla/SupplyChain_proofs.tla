------------------------- MODULE SupplyChain_proofs -------------------------
(***************************************************************************)
(* Proofs about the supply chain: purchase requests and their approvals,   *)
(* goods receipts, transfers and counts, delivery trips.                   *)
(***************************************************************************)
EXTENDS SupplyChain, SumTheorems, FiniteSetTheorems, TLAPS

-----------------------------------------------------------------------------
(* Purchase requests.  What makes a request APPROVED, an order placed or a  *)
(* vote recorded is an approval of that request that was decided APPROVED, *)
(* and such an approval is never written again; a call carries what it     *)
(* knows from one statement to the next, so the same is said of the calls. *)

ApprovalRows == [status : {"NONE", "PENDING"} \cup Closed, request : Requests \cup {None},
                 requester : Users \cup {None}, delegate : Users \cup {None},
                 step : 1..Steps, late : BOOLEAN, escalated : BOOLEAN]
RequestRows == [status : {"DRAFT", "SUBMITTING", "PENDING_APPROVAL", "APPROVED",
                          "REJECTED", "CANCELLED", "CONVERTED"},
                approval : Approvals \cup {Unlinked}, ordered : BOOLEAN]
CallRows == [at : Places, request : Requests \cup {None}, approval : Approvals \cup {Unlinked},
             outcome : {"NONE", "APPROVED", "REJECTED", "PENDING_APPROVAL"}]

Warranted(p) == \E a \in Approvals : approval[a].request = p /\ approval[a].status = "APPROVED"

SoundCall(c) ==
  /\ c.at # "idle" => c.request \in Requests
  /\ c.at \in {"link", "vote", "record"} =>
       c.approval \in Approvals /\ approval[c.approval].request = c.request
  /\ c.at = "record" => c.outcome # "NONE" /\ (c.outcome = "APPROVED" => Warranted(c.request))
  /\ c.at \in {"order", "convert"} => Warranted(c.request)

SoundRequest(p) ==
  /\ request[p].approval # Unlinked => approval[request[p].approval].request = p
  /\ request[p].status \in {"APPROVED", "CONVERTED"} => Warranted(p)
  /\ placed[p] \in {0, 1} /\ (placed[p] = 1 => Warranted(p))

BlankApprovals ==
  \A a \in Approvals : approval[a].status = "NONE" =>
    approval[a].request = None /\ \A d \in decisions : d.approval # a

RequestsIInv ==
  /\ RequestsTypeOK
  /\ \A u \in Users : SoundCall(call[u])
  /\ \A p \in Requests : SoundRequest(p)
  /\ BlankApprovals
  /\ DecisionsExplainStatus

LEMMA RequestConstants ==
  /\ Steps \in Nat /\ Steps >= 1 /\ MaxApprovals \in Nat
  /\ None \notin Users /\ None \notin Requests
  /\ \A a \in Approvals : a \in Nat /\ a # Unlinked
BY RequestsAssumption DEF Approvals, Unlinked

\* What a statement that writes no approval has to keep.
LEMMA CallStep ==
  ASSUME RequestsIInv, NEW u \in Users, NEW c \in CallRows, SoundCall(c),
         call' = [call EXCEPT ![u] = c], UNCHANGED <<approval, decisions>>,
         request' \in [Requests -> RequestRows], placed' \in [Requests -> Nat],
         \A p \in Requests : SoundRequest(p)'
  PROVE  RequestsIInv'
<1>1. RequestsTypeOK'
  BY DEF RequestsIInv, RequestsTypeOK, CallRows, RequestRows
<1>2. ASSUME NEW v \in Users PROVE SoundCall(call[v])'
  <2>1. call'[v] = IF v = u THEN c ELSE call[v]
    BY DEF RequestsIInv, RequestsTypeOK
  <2>2. SoundCall(call'[v])
    BY <2>1 DEF RequestsIInv
  <2> QED BY <2>2 DEF SoundCall, Warranted
<1>3. BlankApprovals' /\ DecisionsExplainStatus'
  BY DEF RequestsIInv, BlankApprovals, DecisionsExplainStatus, Yes
<1> QED BY <1>1, <1>2, <1>3 DEF RequestsIInv

\* What a statement that writes an approval has to keep: the request an
\* approval is for, and an APPROVED one as a whole.
LEMMA ApprovalStep ==
  ASSUME RequestsIInv, UNCHANGED <<request, placed>>,
         \A b \in Approvals : approval[b].status # "NONE" => approval'[b].request = approval[b].request,
         \A b \in Approvals : approval[b].status = "APPROVED" => approval'[b].status = "APPROVED"
  PROVE  /\ \A p \in Requests : SoundRequest(p)'
         /\ \A c \in CallRows : SoundCall(c) => SoundCall(c)'
<1>1. ASSUME NEW p \in Requests, Warranted(p) PROVE Warranted(p)'
  <2>1. PICK a \in Approvals : approval[a].request = p /\ approval[a].status = "APPROVED"
    BY <1>1 DEF Warranted
  <2>2. approval'[a].request = p /\ approval'[a].status = "APPROVED"
    BY <2>1
  <2> QED BY <2>2 DEF Warranted
<1>2. ASSUME NEW a \in Approvals, NEW p \in Requests, approval[a].request = p
      PROVE  approval'[a].request = p
  BY <1>2, RequestConstants DEF RequestsIInv, BlankApprovals
<1>3. ASSUME NEW p \in Requests PROVE SoundRequest(p)'
  <2>1. request[p].approval \in Approvals \cup {Unlinked}
    BY DEF RequestsIInv, RequestsTypeOK
  <2>2. SoundRequest(p)
    BY DEF RequestsIInv
  <2> QED BY <1>1, <1>2, <2>1, <2>2 DEF SoundRequest
<1>4. ASSUME NEW c \in CallRows, SoundCall(c) PROVE SoundCall(c)'
  BY <1>1, <1>2, <1>4 DEF SoundCall, Places, CallRows
<1> QED BY <1>3, <1>4

LEMMA CallTypes ==
  ASSUME NEW at \in Places, NEW p \in Requests \cup {None}, NEW a \in Approvals \cup {Unlinked},
         NEW outcome \in {"NONE", "APPROVED", "REJECTED", "PENDING_APPROVAL"}
  PROVE  /\ Call(at, p, a, outcome) \in CallRows
         /\ Call(at, p, a, outcome).at = at /\ Call(at, p, a, outcome).request = p
         /\ Call(at, p, a, outcome).approval = a /\ Call(at, p, a, outcome).outcome = outcome
BY DEF Call, CallRows

LEMMA IdleIsSound == Idle \in CallRows /\ Idle.at = "idle" /\ SoundCall(Idle)
BY CallTypes DEF Idle, Call, CallRows, SoundCall, Places, Unlinked

\* A row of the request that another status, and perhaps a link, is written to.
LEMMA RequestWritten ==
  ASSUME RequestsIInv, NEW p \in Requests, NEW row \in RequestRows,
         request' = [request EXCEPT ![p] = row], UNCHANGED <<approval, placed>>,
         row.approval # Unlinked => approval[row.approval].request = p,
         row.status \in {"APPROVED", "CONVERTED"} => Warranted(p)
  PROVE  request' \in [Requests -> RequestRows] /\ \A q \in Requests : SoundRequest(q)'
<1>1. request \in [Requests -> RequestRows]
  BY DEF RequestsIInv, RequestsTypeOK, RequestRows
<1>2. ASSUME NEW q \in Requests PROVE SoundRequest(q)'
  <2>1. request'[q] = IF q = p THEN row ELSE request[q]
    BY <1>1
  <2>2. SoundRequest(q)
    BY DEF RequestsIInv
  <2> QED BY <2>1, <2>2 DEF SoundRequest, Warranted
<1> QED BY <1>1, <1>2

\* A vote keeps an approval what its decisions make it.
LEMMA DecisionKept ==
  ASSUME RequestsIInv, NEW u \in Users, NEW a \in Approvals, NEW verdict \in {"APPROVED", "REJECTED"},
         DecideApproval(u, a, verdict)
  PROVE  /\ approval' \in [Approvals -> ApprovalRows]
         /\ decisions' \subseteq [approval : Approvals, step : 1..Steps, user : Users,
                                  status : {"APPROVED", "REJECTED"}]
         /\ approval[a].status = "PENDING" /\ approval'[a].status = Outcome(a, verdict)
         /\ \A b \in Approvals : approval'[b].request = approval[b].request
         /\ \A b \in Approvals \ {a} : approval'[b] = approval[b]
         /\ BlankApprovals' /\ DecisionsExplainStatus'
<1> DEFINE s == approval[a].step
           d == [approval |-> a, step |-> s, user |-> u, status |-> verdict]
           row == [status |-> Outcome(a, verdict), request |-> approval[a].request,
                   requester |-> approval[a].requester, delegate |-> None, late |-> FALSE,
                   step |-> IF Outcome(a, verdict) = "PENDING" THEN s + 1 ELSE s,
                   escalated |-> IF Outcome(a, verdict) = "PENDING" THEN FALSE ELSE approval[a].escalated]
<1>1. /\ approval \in [Approvals -> ApprovalRows] /\ approval[a] \in ApprovalRows
      /\ decisions \subseteq [approval : Approvals, step : 1..Steps, user : Users,
                              status : {"APPROVED", "REJECTED"}]
      /\ s \in 1..Steps
  BY DEF RequestsIInv, RequestsTypeOK, ApprovalRows
<1>2. /\ approval[a].status = "PENDING" /\ approval[a].requester # u
      /\ decisions' = decisions \cup {d} /\ approval' = [approval EXCEPT ![a] = row]
  BY <1>1 DEF DecideApproval, MayDecide
<1>3. /\ Outcome(a, verdict) = "PENDING" <=> (verdict = "APPROVED" /\ s < Steps)
      /\ Outcome(a, verdict) # "PENDING" => Outcome(a, verdict) = verdict
      /\ Outcome(a, verdict) \in {"PENDING", "APPROVED", "REJECTED"}
  BY DEF Outcome
<1>4. /\ row \in ApprovalRows /\ row.status = Outcome(a, verdict) /\ row.request = approval[a].request
      /\ row.requester = approval[a].requester
      /\ row.step = IF Outcome(a, verdict) = "PENDING" THEN s + 1 ELSE s
  <2> DEFINE step == IF Outcome(a, verdict) = "PENDING" THEN s + 1 ELSE s
             escalated == IF Outcome(a, verdict) = "PENDING" THEN FALSE ELSE approval[a].escalated
  <2>1. step \in 1..Steps
    BY <1>1, <1>3, RequestConstants DEF s
  <2>2. escalated \in BOOLEAN
    BY <1>1 DEF ApprovalRows
  <2>3. row = [status |-> Outcome(a, verdict), request |-> approval[a].request,
               requester |-> approval[a].requester, delegate |-> None, late |-> FALSE,
               step |-> step, escalated |-> escalated]
    OBVIOUS
  <2> HIDE DEF step, escalated, row
  <2>4. row \in ApprovalRows /\ row.status = Outcome(a, verdict) /\ row.request = approval[a].request
        /\ row.requester = approval[a].requester /\ row.step = step
    BY <1>1, <1>3, <2>1, <2>2, <2>3 DEF ApprovalRows, Closed
  <2> QED BY <2>4 DEF step
<1>5. /\ d \in [approval : Approvals, step : 1..Steps, user : Users, status : {"APPROVED", "REJECTED"}]
      /\ d.approval = a /\ d.step = s /\ d.user = u /\ d.status = verdict
  BY <1>1
<1> HIDE DEF row, d, s
<1>6. approval'[a] = row /\ \A b \in Approvals \ {a} : approval'[b] = approval[b]
  BY <1>1, <1>2
<1>7. BlankApprovals'
  BY <1>2, <1>3, <1>4, <1>5, <1>6 DEF BlankApprovals, RequestsIInv
<1>8. /\ \A e \in decisions : e.approval = a => e.status = "APPROVED" /\ e.step \in 1..(s - 1)
      /\ {e.step : e \in Yes(a)} = 1..(s - 1)
      /\ \A e, g \in decisions : (e.approval = a /\ g.approval = a /\ e.step = g.step) => e = g
      /\ \A e \in decisions : e.approval = a => e.user # approval[a].requester
  <2>1. DecisionsExplainStatus
    BY DEF RequestsIInv
  <2>2. /\ {e.step : e \in Yes(a)} = 1..(s - 1)
        /\ ~\E e \in decisions : e.approval = a /\ e.status = "REJECTED"
    BY <2>1, <1>2 DEF DecisionsExplainStatus, s
  <2>3. ASSUME NEW e \in decisions, e.approval = a PROVE e.status = "APPROVED" /\ e.step \in 1..(s - 1)
    <3>1. e.status = "APPROVED"
      BY <2>2, <2>3, <1>1
    <3>2. e \in Yes(a)
      BY <2>3, <3>1 DEF Yes
    <3> QED BY <2>2, <3>1, <3>2
  <2> QED BY <2>1, <2>2, <2>3 DEF DecisionsExplainStatus
<1>9. ASSUME NEW b \in Approvals
      PROVE  /\ \A e, g \in decisions' : (e.approval = b /\ g.approval = b /\ e.step = g.step) => e = g
             /\ \A e \in decisions' : e.approval = b => e.user # approval'[b].requester
             /\ {e.step : e \in Yes(b)'} = IF approval'[b].status = "APPROVED" THEN 1..Steps
                                           ELSE 1..(approval'[b].step - 1)
             /\ (\E e \in decisions' : e.approval = b /\ e.status = "REJECTED")
                  <=> approval'[b].status = "REJECTED"
  <2>1. CASE b # a
    <3>1. Yes(b)' = Yes(b) /\ approval'[b] = approval[b]
      BY <2>1, <1>2, <1>5, <1>6 DEF Yes
    <3>2. \A e \in decisions' : e.approval = b => e \in decisions
      BY <2>1, <1>2, <1>5
    <3>3. decisions \subseteq decisions'
      BY <1>2
    <3>4. DecisionsExplainStatus
      BY DEF RequestsIInv
    <3> QED BY <3>1, <3>2, <3>3, <3>4 DEF DecisionsExplainStatus
  <2>2. CASE b = a
    <3>1. \A e \in decisions' : e = d \/ (e \in decisions /\ (e.approval = a => e.step < s))
      BY <1>1, <1>2, <1>8 DEF s
    <3>2. \A e, g \in decisions' : (e.approval = a /\ g.approval = a /\ e.step = g.step) => e = g
      BY <3>1, <1>5, <1>8, <1>1
    <3>3. \A e \in decisions' : e.approval = a => e.user # approval'[a].requester
      BY <1>2, <1>4, <1>5, <1>6, <1>8
    <3>4. (\E e \in decisions' : e.approval = a /\ e.status = "REJECTED")
            <=> approval'[a].status = "REJECTED"
      BY <1>2, <1>3, <1>4, <1>5, <1>6, <1>8
    <3>5. {e.step : e \in Yes(a)'} = IF verdict = "APPROVED" THEN 1..(s - 1) \cup {s} ELSE 1..(s - 1)
      <4>1. CASE verdict = "APPROVED"
        <5>1. Yes(a)' = Yes(a) \cup {d}
          BY <1>2, <1>5, <4>1 DEF Yes
        <5> QED BY <5>1, <1>5, <1>8, <4>1
      <4>2. CASE verdict = "REJECTED"
        <5>1. Yes(a)' = Yes(a)
          BY <1>2, <1>5, <4>2 DEF Yes
        <5> QED BY <5>1, <1>8, <4>2
      <4> QED BY <4>1, <4>2
    <3>6. 1..(s - 1) \cup {s} = 1..s /\ s \in Nat
      BY <1>1, RequestConstants
    <3>7. {e.step : e \in Yes(a)'} = IF approval'[a].status = "APPROVED" THEN 1..Steps
                                     ELSE 1..(approval'[a].step - 1)
      <4>1. CASE verdict = "APPROVED" /\ s < Steps
        <5>1. approval'[a].status = "PENDING" /\ approval'[a].step = s + 1
          BY <4>1, <1>3, <1>4, <1>6
        <5>2. (s + 1) - 1 = s
          BY <3>6
        <5> QED BY <5>1, <5>2, <4>1, <3>5, <3>6
      <4>2. CASE verdict = "APPROVED" /\ ~(s < Steps)
        <5>1. approval'[a].status = "APPROVED" /\ s = Steps
          BY <4>2, <1>1, <1>3, <1>4, <1>6, RequestConstants
        <5> QED BY <5>1, <4>2, <3>5, <3>6
      <4>3. CASE verdict = "REJECTED"
        <5>1. approval'[a].status = "REJECTED" /\ approval'[a].step = s
          BY <4>3, <1>3, <1>4, <1>6
        <5> QED BY <5>1, <4>3, <3>5
      <4> QED BY <4>1, <4>2, <4>3
    <3> QED BY <2>2, <3>2, <3>3, <3>4, <3>7
  <2> QED BY <2>1, <2>2
<1>10. DecisionsExplainStatus'
  BY <1>9 DEF DecisionsExplainStatus, Yes
<1>11. approval' \in [Approvals -> ApprovalRows]
  BY <1>1, <1>2, <1>4
<1>12. \A b \in Approvals : approval'[b].request = approval[b].request
  BY <1>4, <1>6
<1> QED BY <1>1, <1>2, <1>4, <1>5, <1>6, <1>7, <1>10, <1>11, <1>12

\* Delegation, lateness, escalation and expiry change nothing that decisions tell.
LEMMA ApprovalTouched ==
  ASSUME RequestsIInv, NEW a \in Approvals, approval[a].status = "PENDING",
         NEW row \in ApprovalRows, row.status \in {"PENDING", "EXPIRED"},
         row.request = approval[a].request, row.requester = approval[a].requester,
         row.step = approval[a].step, approval' = [approval EXCEPT ![a] = row],
         UNCHANGED <<request, decisions, placed, call>>
  PROVE  RequestsIInv'
<1>1. /\ approval \in [Approvals -> ApprovalRows] /\ call \in [Users -> CallRows]
      /\ \A v \in Users : SoundCall(call[v])
  BY DEF RequestsIInv, RequestsTypeOK, ApprovalRows, CallRows
<1>2. /\ approval' \in [Approvals -> ApprovalRows] /\ approval'[a] = row
      /\ \A b \in Approvals \ {a} : approval'[b] = approval[b]
  BY <1>1
<1>3. /\ \A b \in Approvals : approval[b].status # "NONE" => approval'[b].request = approval[b].request
      /\ \A b \in Approvals : approval[b].status = "APPROVED" => approval'[b].status = "APPROVED"
  BY <1>2
<1>4. /\ \A q \in Requests : SoundRequest(q)'
      /\ \A e \in CallRows : SoundCall(e) => SoundCall(e)'
  BY <1>3, ApprovalStep
<1>5. \A v \in Users : SoundCall(call[v])'
  <2>1. ASSUME NEW v \in Users PROVE SoundCall(call[v])'
    <3>1. PICK c \in CallRows : c = call[v]
      BY <1>1
    <3>2. SoundCall(c)' /\ call'[v] = c
      BY <1>1, <1>4, <3>1
    <3> QED BY <3>2 DEF SoundCall, Warranted
  <2> QED BY <2>1
<1>6. BlankApprovals'
  BY <1>2 DEF RequestsIInv, BlankApprovals
<1>7. DecisionsExplainStatus'
  <2>1. DecisionsExplainStatus
    BY DEF RequestsIInv
  <2>2. \A b \in Approvals : Yes(b)' = Yes(b)
    BY DEF Yes
  <2>3. \A b \in Approvals : /\ approval'[b].requester = approval[b].requester
                             /\ approval'[b].step = approval[b].step
                             /\ approval'[b].status = "APPROVED" <=> approval[b].status = "APPROVED"
                             /\ approval'[b].status = "REJECTED" <=> approval[b].status = "REJECTED"
    BY <1>2
  <2> QED BY <2>1, <2>2, <2>3 DEF DecisionsExplainStatus
<1>8. RequestsTypeOK'
  BY <1>2 DEF RequestsIInv, RequestsTypeOK, ApprovalRows
<1> QED BY <1>4, <1>5, <1>6, <1>7, <1>8 DEF RequestsIInv

LEMMA RequestsStep ==
  ASSUME RequestsIInv, [RequestsNext]_requestVars
  PROVE  RequestsIInv'
<1>0. /\ request \in [Requests -> RequestRows] /\ approval \in [Approvals -> ApprovalRows]
      /\ placed \in [Requests -> Nat] /\ call \in [Users -> CallRows]
      /\ \A v \in Users : SoundCall(call[v])
      /\ \A q \in Requests : SoundRequest(q)
  BY DEF RequestsIInv, RequestsTypeOK, RequestRows, ApprovalRows, CallRows
<1>a. /\ RequestsIInv
      /\ \A v \in Users : call[v].at # "idle" => call[v].request \in Requests
  BY <1>0 DEF SoundCall
\* Statements that only read.
<1>b. ASSUME NEW u \in Users, NEW c \in CallRows, SoundCall(c), call' = [call EXCEPT ![u] = c],
             UNCHANGED <<request, approval, decisions, placed>>
      PROVE  RequestsIInv'
  <2>1. \A q \in Requests : SoundRequest(q)'
    BY <1>0, <1>b DEF SoundRequest, Warranted
  <2> QED BY <1>0, <1>a, <1>b, <2>1, CallStep
<1>1. ASSUME NEW u \in Users, NEW p \in Requests, BeginSubmit(u, p) PROVE RequestsIInv'
  <2>1. PICK c \in {Call("claim", p, Unlinked, "NONE"), Call("search", p, Unlinked, "NONE")} : Begin(u, c)
    BY <1>1 DEF BeginSubmit
  <2>2. c \in CallRows /\ c.at \in {"claim", "search"} /\ c.request = p
    BY <2>1, CallTypes DEF Places
  <2> QED BY <1>b, <2>1, <2>2 DEF Begin, SoundCall
<1>2. ASSUME NEW u \in Users, ClaimDraft(u) PROVE RequestsIInv'
  <2> DEFINE p == call[u].request
             c == Call("search", p, Unlinked, "NONE")
  <2>1. p \in Requests
    BY <1>2, <1>a DEF ClaimDraft
  <2>2. c \in CallRows /\ SoundCall(c)
    BY <2>1, CallTypes DEF Places, SoundCall
  <2>3. CASE request[p].status = "DRAFT" /\ request[p].approval = Unlinked
    <3> DEFINE row == [request[p] EXCEPT !.status = "SUBMITTING"]
    <3>1. request' = [request EXCEPT ![p] = row] /\ UNCHANGED <<approval, decisions, placed>>
          /\ call' = [call EXCEPT ![u] = c]
      BY <1>0, <1>2, <2>1, <2>3 DEF ClaimDraft, Goto
    <3>2. row \in RequestRows /\ row.status = "SUBMITTING" /\ row.approval = Unlinked
      BY <1>0, <2>1, <2>3 DEF RequestRows
    <3> HIDE DEF row
    <3>3. request' \in [Requests -> RequestRows] /\ \A q \in Requests : SoundRequest(q)'
      BY <1>a, <2>1, <3>1, <3>2, RequestWritten
    <3> HIDE DEF c
    <3> QED BY <1>0, <1>a, <2>2, <3>1, <3>3, CallStep
  <2>4. CASE ~(request[p].status = "DRAFT" /\ request[p].approval = Unlinked)
    <3>1. call' = [call EXCEPT ![u] = Idle] /\ UNCHANGED <<request, approval, decisions, placed>>
      BY <1>2, <2>4 DEF ClaimDraft, Return, Goto
    <3> QED BY <1>b, <3>1, IdleIsSound
  <2> QED BY <2>3, <2>4
<1>3. ASSUME NEW u \in Users, FindApproval(u) PROVE RequestsIInv'
  <2> DEFINE p == call[u].request
  <2>1. p \in Requests /\ p # None
    BY <1>3, <1>a, RequestConstants DEF FindApproval
  <2>2. CASE Goto(u, Call("create", p, Unlinked, "NONE"))
    <3> DEFINE c == Call("create", p, Unlinked, "NONE")
    <3>1. c \in CallRows /\ SoundCall(c)
      BY <2>1, CallTypes DEF Places, SoundCall
    <3>2. call' = [call EXCEPT ![u] = c] /\ UNCHANGED <<request, approval, decisions, placed>>
      BY <1>3, <2>2 DEF FindApproval, Goto
    <3> HIDE DEF c
    <3> QED BY <1>b, <3>1, <3>2
  <2>3. ASSUME NEW a \in PendingFor(p), Goto(u, Call("link", p, a, "NONE")) PROVE RequestsIInv'
    <3> DEFINE c == Call("link", p, a, "NONE")
    <3>1. a \in Approvals /\ approval[a].request = p
      BY <2>3 DEF PendingFor
    <3>2. c \in CallRows /\ SoundCall(c)
      BY <2>1, <3>1, CallTypes DEF Places, SoundCall
    <3>3. call' = [call EXCEPT ![u] = c] /\ UNCHANGED <<request, approval, decisions, placed>>
      BY <1>3, <2>3 DEF FindApproval, Goto
    <3> HIDE DEF c
    <3> QED BY <1>b, <3>2, <3>3
  <2> QED BY <1>3, <2>2, <2>3 DEF FindApproval
<1>4. ASSUME NEW u \in Users, NEW a \in Approvals, CreateApprovalRequest(u, a) PROVE RequestsIInv'
  <2> DEFINE p == call[u].request
             row == [status |-> "PENDING", request |-> p, requester |-> u,
                     delegate |-> None, step |-> 1, late |-> FALSE, escalated |-> FALSE]
  <2>1. p \in Requests
    BY <1>4, <1>a DEF CreateApprovalRequest
  <2>c. PICK c \in CallRows : c = Call("link", p, a, "NONE")
    BY <2>1, CallTypes DEF Places
  <2>2. /\ approval[a].status = "NONE" /\ approval' = [approval EXCEPT ![a] = row]
        /\ call' = [call EXCEPT ![u] = c] /\ UNCHANGED <<request, decisions, placed>>
    BY <1>4, <2>c DEF CreateApprovalRequest, Goto
  <2>3. row \in ApprovalRows /\ row.status = "PENDING" /\ row.request = p /\ row.requester = u /\ row.step = 1
    BY <2>1, RequestConstants DEF ApprovalRows
  <2> HIDE DEF row
  <2>4. approval' \in [Approvals -> ApprovalRows]
        /\ approval'[a] = row /\ \A b \in Approvals \ {a} : approval'[b] = approval[b]
    BY <1>0, <2>2, <2>3
  <2>5. /\ \A b \in Approvals : approval[b].status # "NONE" => approval'[b].request = approval[b].request
        /\ \A b \in Approvals : approval[b].status = "APPROVED" => approval'[b].status = "APPROVED"
    BY <2>2, <2>4
  <2>6. /\ \A q \in Requests : SoundRequest(q)'
        /\ \A e \in CallRows : SoundCall(e) => SoundCall(e)'
    BY <1>a, <2>2, <2>5, ApprovalStep
  <2>7. c \in CallRows /\ c.at = "link" /\ c.request = p /\ c.approval = a
    BY <2>1, <2>c, CallTypes DEF Places
  <2>8. SoundCall(c)'
    BY <2>1, <2>3, <2>4, <2>7 DEF SoundCall
  <2>9. \A v \in Users : SoundCall(call[v])'
    <3>1. ASSUME NEW v \in Users PROVE SoundCall(call[v])'
      <4>1. call'[v] = IF v = u THEN c ELSE call[v]
        BY <1>0, <2>2
      <4>2. CASE v = u
        BY <4>1, <4>2, <2>8 DEF SoundCall, Warranted
      <4>3. CASE v # u
        <5>1. SoundCall(call[v]) /\ call[v] \in CallRows
          BY <1>0
        <5> DEFINE e == call[v]
        <5>2. e \in CallRows /\ SoundCall(e) /\ call'[v] = e
          BY <5>1, <4>1, <4>3
        <5> QED BY <2>6, <5>1, <4>1, <4>3 DEF SoundCall, Warranted
      <4> QED BY <4>2, <4>3
    <3> QED BY <3>1
  <2>10. \A d \in decisions : d.approval # a
    BY <1>a, <2>2 DEF RequestsIInv, BlankApprovals
  <2>11. BlankApprovals'
    BY <1>a, <2>2, <2>3, <2>4 DEF RequestsIInv, BlankApprovals
  <2>12. DecisionsExplainStatus'
    <3>1. Yes(a)' = {} /\ \A b \in Approvals : Yes(b)' = Yes(b)
      BY <2>2, <2>10 DEF Yes
    <3>2. DecisionsExplainStatus
      BY <1>a DEF RequestsIInv
    <3>3. ASSUME NEW b \in Approvals
          PROVE  /\ \A d, e \in decisions' : (d.approval = b /\ e.approval = b /\ d.step = e.step) => d = e
                 /\ \A d \in decisions' : d.approval = b => d.user # approval'[b].requester
                 /\ {d.step : d \in Yes(b)'} = IF approval'[b].status = "APPROVED" THEN 1..Steps
                                               ELSE 1..(approval'[b].step - 1)
                 /\ (\E d \in decisions' : d.approval = b /\ d.status = "REJECTED")
                      <=> approval'[b].status = "REJECTED"
      <4>1. CASE b = a
        <5>1. {d.step : d \in Yes(a)'} = {} /\ 1..(1 - 1) = {}
          BY <3>1
        <5> QED BY <2>2, <2>3, <2>4, <2>10, <4>1, <5>1
      <4>2. CASE b # a
        BY <2>2, <2>4, <3>1, <3>2, <4>2 DEF DecisionsExplainStatus
      <4> QED BY <4>1, <4>2
    <3> QED BY <3>3 DEF DecisionsExplainStatus, Yes
  <2>13. RequestsTypeOK'
    BY <1>0, <1>a, <2>2, <2>4, <2>7 DEF RequestsIInv, RequestsTypeOK, RequestRows, ApprovalRows, CallRows
  <2> QED BY <2>6, <2>9, <2>11, <2>12, <2>13 DEF RequestsIInv
<1>5. ASSUME NEW u \in Users, SubmitFails(u) PROVE RequestsIInv'
  <2> DEFINE p == call[u].request
  <2>1. p \in Requests /\ call' = [call EXCEPT ![u] = Idle] /\ UNCHANGED <<approval, decisions, placed>>
    BY <1>5, <1>a DEF SubmitFails, Return, Goto
  <2>2. CASE request[p].status = "SUBMITTING" /\ request[p].approval = Unlinked
    <3> DEFINE row == [request[p] EXCEPT !.status = "DRAFT"]
    <3>1. request' = [request EXCEPT ![p] = row]
      BY <1>0, <1>5, <2>1, <2>2 DEF SubmitFails
    <3>2. row \in RequestRows /\ row.status = "DRAFT" /\ row.approval = Unlinked
      BY <1>0, <2>1, <2>2 DEF RequestRows
    <3> HIDE DEF row
    <3>3. request' \in [Requests -> RequestRows] /\ \A q \in Requests : SoundRequest(q)'
      BY <1>a, <2>1, <3>1, <3>2, RequestWritten
    <3> QED BY <1>0, <1>a, <2>1, <3>3, IdleIsSound, CallStep
  <2>3. CASE ~(request[p].status = "SUBMITTING" /\ request[p].approval = Unlinked)
    BY <1>5, <1>b, <2>1, <2>3, IdleIsSound DEF SubmitFails
  <2> QED BY <2>2, <2>3
<1>6. ASSUME NEW u \in Users, LinkApproval(u) PROVE RequestsIInv'
  <2> DEFINE p == call[u].request
             a == call[u].approval
             row == [request[p] EXCEPT !.status = "PENDING_APPROVAL", !.approval = a]
  <2>1. p \in Requests /\ a \in Approvals /\ approval[a].request = p
    BY <1>6, <1>0, <1>a DEF LinkApproval, SoundCall
  <2>2. request' = [request EXCEPT ![p] = row] /\ call' = [call EXCEPT ![u] = Idle]
        /\ UNCHANGED <<approval, decisions, placed>>
    BY <1>0, <1>6, <2>1 DEF LinkApproval, Return, Goto
  <2>3. row \in RequestRows /\ row.status = "PENDING_APPROVAL" /\ row.approval = a
    BY <1>0, <2>1 DEF RequestRows
  <2> HIDE DEF row
  <2>4. request' \in [Requests -> RequestRows] /\ \A q \in Requests : SoundRequest(q)'
    BY <1>a, <2>1, <2>2, <2>3, RequestWritten
  <2> QED BY <1>0, <1>a, <2>2, <2>4, IdleIsSound, CallStep
<1>7. ASSUME NEW u \in Users, RecordDecision(u) PROVE RequestsIInv'
  <2> DEFINE p == call[u].request
             row == [request[p] EXCEPT !.status = call[u].outcome]
  <2>1. /\ p \in Requests /\ call[u].outcome \in {"APPROVED", "REJECTED", "PENDING_APPROVAL"}
        /\ call[u].outcome = "APPROVED" => Warranted(p)
    BY <1>7, <1>0, <1>a DEF RecordDecision, SoundCall, CallRows
  <2>2. request' = [request EXCEPT ![p] = row] /\ call' = [call EXCEPT ![u] = Idle]
        /\ UNCHANGED <<approval, decisions, placed>>
    BY <1>0, <1>7, <2>1 DEF RecordDecision, Return, Goto
  <2>3. row \in RequestRows /\ row.status = call[u].outcome /\ row.approval = request[p].approval
    BY <1>0, <2>1 DEF RequestRows
  <2>4. row.approval # Unlinked => approval[row.approval].request = p
    BY <1>0, <2>1, <2>3 DEF SoundRequest
  <2> HIDE DEF row
  <2>5. request' \in [Requests -> RequestRows] /\ \A q \in Requests : SoundRequest(q)'
    BY <1>a, <2>1, <2>2, <2>3, <2>4, RequestWritten
  <2> QED BY <1>0, <1>a, <2>2, <2>5, IdleIsSound, CallStep
<1>8. ASSUME NEW u \in Users, CancelRequest(u) PROVE RequestsIInv'
  <2> DEFINE p == call[u].request
             row == [request[p] EXCEPT !.status = "CANCELLED"]
  <2>1. p \in Requests
    BY <1>8, <1>a DEF CancelRequest
  <2>2. request' = [request EXCEPT ![p] = row] /\ call' = [call EXCEPT ![u] = Idle]
        /\ UNCHANGED <<approval, decisions, placed>>
    BY <1>0, <1>8, <2>1 DEF CancelRequest, Return, Goto
  <2>3. row \in RequestRows /\ row.status = "CANCELLED" /\ row.approval = request[p].approval
    BY <1>0, <2>1 DEF RequestRows
  <2>4. row.approval # Unlinked => approval[row.approval].request = p
    BY <1>0, <2>1, <2>3 DEF SoundRequest
  <2> HIDE DEF row
  <2>5. request' \in [Requests -> RequestRows] /\ \A q \in Requests : SoundRequest(q)'
    BY <1>a, <2>1, <2>2, <2>3, <2>4, RequestWritten
  <2> QED BY <1>0, <1>a, <2>2, <2>5, IdleIsSound, CallStep
<1>9. ASSUME NEW u \in Users, PlaceOrder(u) PROVE RequestsIInv'
  <2> DEFINE p == call[u].request
             c == Call("convert", p, Unlinked, "NONE")
  <2>1. p \in Requests /\ Warranted(p)
    BY <1>9, <1>0, <1>a DEF PlaceOrder, SoundCall
  <2>2. placed' = [placed EXCEPT ![p] = IF @ = 0 THEN 1 ELSE @] /\ call' = [call EXCEPT ![u] = c]
        /\ UNCHANGED <<request, approval, decisions>>
    BY <1>9 DEF PlaceOrder, Goto
  <2>3. c \in CallRows /\ SoundCall(c)
    BY <2>1, CallTypes DEF Places, SoundCall
  <2>4. /\ placed' \in [Requests -> Nat] /\ placed'[p] = 1
        /\ \A q \in Requests \ {p} : placed'[q] = placed[q]
    BY <1>0, <2>1, <2>2 DEF SoundRequest
  <2>5. \A q \in Requests : SoundRequest(q)'
    BY <1>0, <2>1, <2>2, <2>4 DEF SoundRequest, Warranted
  <2> HIDE DEF c
  <2> QED BY <1>0, <1>a, <2>2, <2>3, <2>4, <2>5, CallStep
<1>10. ASSUME NEW u \in Users, ClaimConversion(u) PROVE RequestsIInv'
  <2> DEFINE p == call[u].request
             row == [request[p] EXCEPT !.status = "CONVERTED", !.ordered = TRUE]
  <2>1. p \in Requests /\ call' = [call EXCEPT ![u] = Idle] /\ UNCHANGED <<approval, decisions, placed>>
    BY <1>10, <1>a DEF ClaimConversion, Return, Goto
  <2>2. CASE request[p].status = "APPROVED" /\ ~request[p].ordered
    <3>1. request' = [request EXCEPT ![p] = row]
      BY <1>0, <1>10, <2>1, <2>2 DEF ClaimConversion
    <3>2. row \in RequestRows /\ row.status = "CONVERTED" /\ row.approval = request[p].approval
      BY <1>0, <2>1 DEF RequestRows
    <3>3. (row.approval # Unlinked => approval[row.approval].request = p) /\ Warranted(p)
      BY <1>0, <2>1, <2>2, <3>2 DEF SoundRequest
    <3> HIDE DEF row
    <3>4. request' \in [Requests -> RequestRows] /\ \A q \in Requests : SoundRequest(q)'
      BY <1>a, <2>1, <3>1, <3>2, <3>3, RequestWritten
    <3> QED BY <1>0, <1>a, <2>1, <3>4, IdleIsSound, CallStep
  <2>3. CASE ~(request[p].status = "APPROVED" /\ ~request[p].ordered)
    <3>1. UNCHANGED request
      BY <1>10, <2>3 DEF ClaimConversion
    <3> QED BY <1>b, <2>1, <3>1, IdleIsSound
  <2> QED BY <2>2, <2>3
<1>11. ASSUME NEW u \in Users, Abandon(u) PROVE RequestsIInv'
  BY <1>11, <1>b, IdleIsSound DEF Abandon, Return, Goto
<1>12. ASSUME NEW u \in Users, NEW p \in Requests, BeginDecide(u, p) PROVE RequestsIInv'
  <2> DEFINE c == Call("vote", p, request[p].approval, "NONE")
  <2>1. /\ request[p].approval \in Approvals /\ approval[request[p].approval].request = p
        /\ call' = [call EXCEPT ![u] = c] /\ UNCHANGED <<request, approval, decisions, placed>>
    BY <1>12, <1>0 DEF BeginDecide, Begin, SoundRequest, RequestRows
  <2>2. c \in CallRows /\ SoundCall(c)
    BY <2>1, CallTypes DEF Places, SoundCall
  <2> HIDE DEF c
  <2> QED BY <1>b, <2>1, <2>2
<1>13. ASSUME NEW u \in Users, NEW p \in Requests, BeginCancel(u, p) PROVE RequestsIInv'
  <2> DEFINE c == Call("cancel", p, Unlinked, "NONE")
  <2>1. call' = [call EXCEPT ![u] = c] /\ UNCHANGED <<request, approval, decisions, placed>>
    BY <1>13 DEF BeginCancel, Begin
  <2>2. c \in CallRows /\ SoundCall(c)
    BY CallTypes DEF Places, SoundCall
  <2> HIDE DEF c
  <2> QED BY <1>b, <2>1, <2>2
<1>14. ASSUME NEW u \in Users, NEW p \in Requests, BeginConvert(u, p) PROVE RequestsIInv'
  <2> DEFINE c == Call("order", p, Unlinked, "NONE")
  <2>1. call' = [call EXCEPT ![u] = c] /\ UNCHANGED <<request, approval, decisions, placed>>
    BY <1>14 DEF BeginConvert, Begin
  <2>2. Warranted(p)
    BY <1>14, <1>0 DEF BeginConvert, SoundRequest
  <2>3. c \in CallRows /\ SoundCall(c)
    BY <2>2, CallTypes DEF Places, SoundCall
  <2> HIDE DEF c
  <2> QED BY <1>b, <2>1, <2>3
<1>15. ASSUME NEW target \in Users, NEW a \in Approvals, DelegateApproval(a, target) PROVE RequestsIInv'
  <2> DEFINE row == [approval[a] EXCEPT !.delegate = target]
  <2>1. approval' = [approval EXCEPT ![a] = row] /\ approval[a].status = "PENDING"
        /\ UNCHANGED <<request, decisions, placed, call>>
    BY <1>15, <1>0 DEF DelegateApproval
  <2>2. /\ row \in ApprovalRows /\ row.status = "PENDING" /\ row.request = approval[a].request
        /\ row.requester = approval[a].requester /\ row.step = approval[a].step
    BY <1>0, <2>1 DEF ApprovalRows
  <2> HIDE DEF row
  <2> QED BY <1>a, <2>1, <2>2, ApprovalTouched
<1>16. ASSUME NEW a \in Approvals, ApprovalLapses(a) PROVE RequestsIInv'
  <2> DEFINE row == [approval[a] EXCEPT !.late = TRUE]
  <2>1. approval' = [approval EXCEPT ![a] = row] /\ approval[a].status = "PENDING"
        /\ UNCHANGED <<request, decisions, placed, call>>
    BY <1>16, <1>0 DEF ApprovalLapses
  <2>2. /\ row \in ApprovalRows /\ row.status = "PENDING" /\ row.request = approval[a].request
        /\ row.requester = approval[a].requester /\ row.step = approval[a].step
    BY <1>0, <2>1 DEF ApprovalRows
  <2> HIDE DEF row
  <2> QED BY <1>a, <2>1, <2>2, ApprovalTouched
<1>17. ASSUME NEW a \in Approvals, ExpireApproval(a) PROVE RequestsIInv'
  <2>0. approval[a].status = "PENDING" /\ UNCHANGED <<request, decisions, placed, call>>
    BY <1>17 DEF ExpireApproval
  <2>1. CASE Escalates /\ ~approval[a].escalated
    <3> DEFINE row == [approval[a] EXCEPT !.escalated = TRUE, !.late = FALSE]
    <3>1. approval' = [approval EXCEPT ![a] = row]
      BY <1>0, <1>17, <2>1 DEF ExpireApproval
    <3>2. /\ row \in ApprovalRows /\ row.status = "PENDING" /\ row.request = approval[a].request
          /\ row.requester = approval[a].requester /\ row.step = approval[a].step
      BY <1>0, <2>0 DEF ApprovalRows
    <3> HIDE DEF row
    <3> QED BY <1>a, <2>0, <3>1, <3>2, ApprovalTouched
  <2>2. CASE ~(Escalates /\ ~approval[a].escalated)
    <3> DEFINE row == [approval[a] EXCEPT !.status = "EXPIRED"]
    <3>1. approval' = [approval EXCEPT ![a] = row]
      BY <1>0, <1>17, <2>2 DEF ExpireApproval
    <3>2. /\ row \in ApprovalRows /\ row.status = "EXPIRED" /\ row.request = approval[a].request
          /\ row.requester = approval[a].requester /\ row.step = approval[a].step
      BY <1>0, <2>0 DEF ApprovalRows, Closed
    <3> HIDE DEF row
    <3> QED BY <1>a, <2>0, <3>1, <3>2, ApprovalTouched
  <2> QED BY <2>1, <2>2
\* A vote, on its own endpoint or on the way to the request.
<1>c. ASSUME NEW u \in Users, NEW a \in Approvals, NEW verdict \in {"APPROVED", "REJECTED"},
             DecideApproval(u, a, verdict), UNCHANGED <<request, placed>>,
             call' \in [Users -> CallRows],
             \A v \in Users : call'[v] = call[v] \/ SoundCall(call[v])'
      PROVE  RequestsIInv'
  <2>1. /\ approval' \in [Approvals -> ApprovalRows]
        /\ decisions' \subseteq [approval : Approvals, step : 1..Steps, user : Users,
                                 status : {"APPROVED", "REJECTED"}]
        /\ approval[a].status = "PENDING"
        /\ \A b \in Approvals : approval'[b].request = approval[b].request
        /\ \A b \in Approvals \ {a} : approval'[b] = approval[b]
        /\ BlankApprovals' /\ DecisionsExplainStatus'
    BY <1>a, <1>c, DecisionKept
  <2>2. \A b \in Approvals : approval[b].status = "APPROVED" => approval'[b].status = "APPROVED"
    BY <2>1
  <2>3. /\ \A q \in Requests : SoundRequest(q)'
        /\ \A e \in CallRows : SoundCall(e) => SoundCall(e)'
    BY <1>a, <1>c, <2>1, <2>2, ApprovalStep
  <2>4. \A v \in Users : SoundCall(call[v])'
    <3>1. ASSUME NEW v \in Users, call'[v] = call[v] PROVE SoundCall(call[v])'
      <4>1. PICK c \in CallRows : c = call[v]
        BY <1>0
      <4>2. SoundCall(c)' /\ call'[v] = c
        BY <1>0, <2>3, <3>1, <4>1
      <4> QED BY <4>2 DEF SoundCall, Warranted
    <3> QED BY <1>c, <3>1
  <2>5. RequestsTypeOK'
    BY <1>0, <1>c, <2>1 DEF RequestsTypeOK, RequestRows, ApprovalRows, CallRows
  <2> QED BY <2>1, <2>3, <2>4, <2>5 DEF RequestsIInv
<1>18. ASSUME NEW u \in Users, NEW a \in Approvals, NEW verdict \in {"APPROVED", "REJECTED"},
              DecideDirectly(u, a, verdict)
       PROVE  RequestsIInv'
  BY <1>0, <1>c, <1>18 DEF DecideDirectly
<1>19. ASSUME NEW u \in Users, NEW verdict \in {"APPROVED", "REJECTED"}, Vote(u, verdict) PROVE RequestsIInv'
  <2> DEFINE p == call[u].request
             a == call[u].approval
             outcome == IF Outcome(a, verdict) = "PENDING" THEN "PENDING_APPROVAL" ELSE verdict
  <2>1. p \in Requests /\ a \in Approvals /\ approval[a].request = p
    BY <1>19, <1>0, <1>a DEF Vote, SoundCall
  <2>2. /\ outcome \in {"APPROVED", "REJECTED", "PENDING_APPROVAL"}
        /\ outcome = "APPROVED" => Outcome(a, verdict) = "APPROVED"
    BY DEF Outcome
  <2>3. DecideApproval(u, a, verdict) /\ call' = [call EXCEPT ![u] = Call("record", p, a, outcome)]
        /\ UNCHANGED <<request, placed>>
    BY <1>19 DEF Vote, Goto
  <2> HIDE DEF outcome
  <2>4. PICK c \in CallRows : c = Call("record", p, a, outcome)
    BY <2>1, <2>2, CallTypes DEF Places
  <2>5. c.at = "record" /\ c.request = p /\ c.approval = a /\ c.outcome = outcome
    BY <2>1, <2>2, <2>4, CallTypes DEF Places
  <2>6. approval'[a].status = Outcome(a, verdict) /\ approval'[a].request = p
    BY <1>a, <2>1, <2>3, DecisionKept
  <2>7. SoundCall(c)'
    BY <2>1, <2>2, <2>5, <2>6 DEF SoundCall, Warranted
  <2>8. call' \in [Users -> CallRows] /\ call'[u] = c /\ \A v \in Users \ {u} : call'[v] = call[v]
    BY <1>0, <2>3, <2>4
  <2>9. SoundCall(call[u])'
    BY <2>7, <2>8 DEF SoundCall, Warranted
  <2>10. \A v \in Users : call'[v] = call[v] \/ SoundCall(call[v])'
    BY <2>8, <2>9
  <2> QED BY <1>c, <2>1, <2>3, <2>8, <2>10
<1>20. CASE UNCHANGED requestVars
  BY <1>a, <1>20 DEF requestVars, RequestsIInv, RequestsTypeOK, SoundCall, SoundRequest, Warranted,
     BlankApprovals, DecisionsExplainStatus, Yes
<1> QED BY <1>1, <1>2, <1>3, <1>4, <1>5, <1>6, <1>7, <1>8, <1>9, <1>10, <1>11, <1>12, <1>13, <1>14,
     <1>15, <1>16, <1>17, <1>18, <1>19, <1>20 DEF RequestsNext

THEOREM RequestsInvariance == RequestsSpec => []RequestsIInv
<1>1. RequestsInit => RequestsIInv
  <2> SUFFICES ASSUME RequestsInit PROVE RequestsIInv
    OBVIOUS
  <2>1. \A a \in Approvals : approval[a] = NoApproval
    BY DEF RequestsInit
  <2>2. /\ NoApproval.status = "NONE" /\ NoApproval.request = None /\ NoApproval.step = 1
        /\ NoApproval \in ApprovalRows
    BY RequestConstants DEF NoApproval, ApprovalRows
  <2>3. RequestsTypeOK
    BY <2>2, IdleIsSound, RequestConstants DEF RequestsInit, RequestsTypeOK, ApprovalRows, CallRows
  <2>4. \A u \in Users : SoundCall(call[u])
    BY IdleIsSound DEF RequestsInit
  <2>5. \A p \in Requests : SoundRequest(p)
    BY DEF RequestsInit, SoundRequest
  <2>6. BlankApprovals
    BY <2>1, <2>2 DEF RequestsInit, BlankApprovals
  <2>7. DecisionsExplainStatus
    <3>1. \A a \in Approvals : {d.step : d \in Yes(a)} = {}
      BY DEF Yes, RequestsInit
    <3>2. 1..(1 - 1) = {} /\ decisions = {}
      BY DEF RequestsInit
    <3> QED BY <2>1, <2>2, <3>1, <3>2 DEF DecisionsExplainStatus
  <2> QED BY <2>3, <2>4, <2>5, <2>6, <2>7 DEF RequestsIInv
<1>2. RequestsIInv /\ [RequestsNext]_requestVars => RequestsIInv'
  BY RequestsStep
<1> QED BY <1>1, <1>2, PTL DEF RequestsSpec

(* What was bought had been approved, was bought once, and every approval  *)
(* is what its decisions make it, for any requests, users and steps        *)
(* (submit, decide, convert, decideApproval).                              *)
THEOREM OrderWarranted == RequestsSpec => []OrderIsWarranted
<1>1. ASSUME RequestsIInv PROVE OrderIsWarranted
  <2>1. \A p \in Requests : SoundRequest(p)
    BY <1>1 DEF RequestsIInv
  <2>2. OrderWasApproved
    BY <2>1 DEF OrderWasApproved, SoundRequest, Warranted
  <2>3. OneOrderPerRequest
    BY <2>1 DEF OneOrderPerRequest, SoundRequest
  <2> QED BY <1>1, <2>2, <2>3 DEF OrderIsWarranted, RequestsIInv
<1> QED BY <1>1, RequestsInvariance, PTL

-----------------------------------------------------------------------------
(* Goods receipts.  An open receipt has not been posted and names its      *)
(* order, so that its confirmation adds it to the posted ones; every other *)
(* statement, read before and written after whatever happened in between,  *)
(* leaves the posted receipts and their quantities alone.                  *)

ReceiptRows == [status : {"NONE", "PENDING_INSPECTION", "READY_TO_CONFIRM", "REJECTED"} \cup Posted,
                order : Orders \cup {Free}, accepted : Nat, damaged : Nat,
                inspected : BOOLEAN, event : BOOLEAN]
OrderRows == [status : {"NONE", "APPROVED", "PARTIALLY_RECEIVED", "RECEIVED"}, received : Nat]

SoundReceipt(g) ==
  /\ receipt[g].status = "NONE" => ~receipt[g].event
  /\ Open(g) => receipt[g].order \in Orders /\ ~receipt[g].event

ReceiptsIInv ==
  /\ ReceiptsTypeOK
  /\ \A g \in Receipts : SoundReceipt(g)
  /\ ReceivedAsOrdered

Quantities(o) == [g \in PostedFor(o) |-> receipt[g].accepted]

LEMMA ReceiptConstants ==
  /\ IsFiniteSet(Orders) /\ IsFiniteSet(Receipts) /\ Free \notin Orders
  /\ \A o \in Orders : Ordered[o] \in Nat /\ Ordered[o] > 0
<1>1. Ordered \in [Orders -> Nat \ {0}]
  BY ReceiptsAssumption
<1> QED BY <1>1, ReceiptsAssumption

\* A statement that posts nothing leaves what was received as it is.
LEMMA ReceivedIsKept ==
  ASSUME ReceiptsIInv, UNCHANGED <<po, broughtIn, payable>>,
         \A g \in Receipts : /\ receipt'[g].event <=> receipt[g].event
                             /\ receipt[g].event => /\ receipt'[g].order = receipt[g].order
                                                    /\ receipt'[g].accepted = receipt[g].accepted
  PROVE  ReceivedAsOrdered'
<1>1. ASSUME NEW o \in Orders PROVE Quantities(o)' = Quantities(o)
  <2>1. PostedFor(o)' = PostedFor(o)
    BY DEF PostedFor
  <2>2. \A g \in PostedFor(o) : receipt'[g].accepted = receipt[g].accepted
    BY DEF PostedFor
  <2> QED BY <2>1, <2>2 DEF Quantities
<1>2. ReceivedAsOrdered
  BY DEF ReceiptsIInv
<1> QED BY <1>1, <1>2 DEF ReceivedAsOrdered, Quantities

\* Confirming adds the receipt to those posted for its order.
LEMMA ReceivedIsAdded ==
  ASSUME ReceiptsIInv, NEW g \in Receipts, NEW o \in Orders, receipt[g].order = o, ~receipt[g].event,
         receipt'[g].order = o, receipt'[g].event, receipt'[g].accepted = receipt[g].accepted,
         \A r \in Receipts \ {g} : receipt'[r] = receipt[r]
  PROVE  /\ SumFunction(Quantities(o)') = SumFunction(Quantities(o)) + receipt[g].accepted
         /\ \A p \in Orders \ {o} : Quantities(p)' = Quantities(p)
<1> DEFINE S == PostedFor(o)
           before == Quantities(o)
           after == Quantities(o)'
<1>0. receipt \in [Receipts -> ReceiptRows]
  BY DEF ReceiptsIInv, ReceiptsTypeOK, ReceiptRows
<1>1. PostedFor(o)' = S \cup {g} /\ g \notin S
  BY DEF PostedFor
<1>2. IsFiniteSet(S) /\ IsFiniteSet(S \cup {g})
  BY ReceiptConstants, FS_Subset, FS_AddElement DEF PostedFor
<1>3. /\ DOMAIN before = S /\ DOMAIN after = S \cup {g}
      /\ \A x \in S : before[x] = receipt[x].accepted /\ after[x] = receipt[x].accepted
      /\ after[g] = receipt[g].accepted
  BY <1>1 DEF Quantities, PostedFor
<1>4. \A x \in S \cup {g} : after[x] \in Int
  BY <1>0, <1>3 DEF PostedFor, ReceiptRows
<1>5. \A p \in Orders \ {o} : Quantities(p)' = Quantities(p)
  <2>1. ASSUME NEW p \in Orders \ {o} PROVE Quantities(p)' = Quantities(p)
    <3>1. PostedFor(p)' = PostedFor(p)
      BY DEF PostedFor
    <3>2. \A x \in PostedFor(p) : receipt'[x].accepted = receipt[x].accepted
      BY DEF PostedFor
    <3> QED BY <3>1, <3>2 DEF Quantities
  <2> QED BY <2>1
<1> HIDE DEF S, before, after
<1>6. g \notin S /\ after[g] \in Int /\ \A x \in S : before[x] \in Int /\ after[x] = before[x]
  BY <1>1, <1>3, <1>4
<1>9. SumFunction(after) = SumFunction(before) + after[g]
  BY <1>2, <1>3, <1>6, SumExtended
<1>10. SumFunction(after) = SumFunction(before) + receipt[g].accepted
  BY <1>3, <1>9
<1> QED BY <1>5, <1>10 DEF before, after

LEMMA ReceiptsStep ==
  ASSUME ReceiptsIInv, [ReceiptsNext]_receiptVars
  PROVE  ReceiptsIInv'
<1>0. /\ po \in [Orders -> OrderRows] /\ receipt \in [Receipts -> ReceiptRows]
      /\ inspection \in [Receipts -> {"NONE", "IN_PROGRESS", "APPROVED", "REJECTED"} \cup Verdicts]
      /\ confirmation \in [Receipts -> {"NONE", "PENDING", "APPROVED", "REJECTED"}]
      /\ broughtIn \in Nat /\ payable \in Nat /\ reading \in [Clerks -> Calls \cup {Free}]
      /\ \A g \in Receipts : SoundReceipt(g)
      /\ ReceiptsIInv
  BY DEF ReceiptsIInv, ReceiptsTypeOK, ReceiptRows, OrderRows
\* Statements that write no receipt.
<1>a. ASSUME UNCHANGED <<po, receipt, confirmation, broughtIn, payable>>, reading' \in [Clerks -> Calls \cup {Free}],
             inspection' \in [Receipts -> {"NONE", "IN_PROGRESS", "APPROVED", "REJECTED"} \cup Verdicts]
      PROVE  ReceiptsIInv'
  <2>1. ReceivedAsOrdered'
    BY <1>0, <1>a, ReceivedIsKept
  <2>2. \A g \in Receipts : SoundReceipt(g)'
    BY <1>0, <1>a DEF SoundReceipt, Open
  <2>3. ReceiptsTypeOK'
    BY <1>0, <1>a DEF ReceiptsTypeOK, ReceiptRows, OrderRows
  <2> QED BY <2>1, <2>2, <2>3 DEF ReceiptsIInv
<1>1. ASSUME NEW g \in Receipts, NEW o \in Orders, NEW inspected \in BOOLEAN,
             NEW received \in 1..Ordered[o], NEW damaged \in 0..Ordered[o],
             CreateReceipt(g, o, received, damaged, inspected)
      PROVE  ReceiptsIInv'
  <2> DEFINE status == IF inspected THEN "PENDING_INSPECTION" ELSE "READY_TO_CONFIRM"
             accepted == received - damaged
             row == [status |-> status, order |-> o, accepted |-> accepted,
                     damaged |-> damaged, inspected |-> inspected, event |-> FALSE]
  <2>1. /\ receipt[g].status = "NONE" /\ damaged <= received /\ UNCHANGED <<po, broughtIn, payable, reading>>
        /\ receipt' = [receipt EXCEPT ![g] = row]
        /\ inspection' = [inspection EXCEPT ![g] = IF inspected THEN "IN_PROGRESS" ELSE "NONE"]
        /\ confirmation' = [confirmation EXCEPT ![g] = "PENDING"]
    BY <1>1 DEF CreateReceipt
  <2>2. accepted \in Nat /\ damaged \in Nat
    BY <2>1, ReceiptConstants
  <2>3. status \in {"PENDING_INSPECTION", "READY_TO_CONFIRM"}
    OBVIOUS
  <2> HIDE DEF status, accepted
  <2>4. row \in ReceiptRows /\ row.status = status /\ row.order = o /\ row.event = FALSE
    BY <2>2, <2>3 DEF ReceiptRows
  <2> HIDE DEF row
  <2>5. /\ receipt' \in [Receipts -> ReceiptRows] /\ receipt'[g] = row
        /\ \A h \in Receipts \ {g} : receipt'[h] = receipt[h]
    BY <1>0, <2>1, <2>4
  <2>6. ~receipt[g].event
    BY <1>0, <2>1 DEF SoundReceipt
  <2>7. ReceivedAsOrdered'
    BY <1>0, <2>1, <2>4, <2>5, <2>6, ReceivedIsKept
  <2>8. \A h \in Receipts : SoundReceipt(h)'
    BY <1>0, <2>3, <2>4, <2>5 DEF SoundReceipt, Open
  <2>9. ReceiptsTypeOK'
    BY <1>0, <2>1, <2>5 DEF ReceiptsTypeOK, ReceiptRows, OrderRows
  <2> QED BY <2>7, <2>8, <2>9 DEF ReceiptsIInv
<1>2. ASSUME NEW g \in Receipts, ConfirmReceipt(g) PROVE ReceiptsIInv'
  <2> DEFINE o == receipt[g].order
             accepted == receipt[g].accepted
             received == po[o].received + accepted
             orderStatus == IF received >= Ordered[o] THEN "RECEIVED" ELSE "PARTIALLY_RECEIVED"
             orderRow == [status |-> orderStatus, received |-> received]
             status == IF receipt[g].damaged > 0 THEN "PARTIALLY_ACCEPTED" ELSE "CONFIRMED"
             row == [receipt[g] EXCEPT !.event = TRUE, !.status = status]
  <2>1. /\ Open(g) /\ o \in Orders /\ ~receipt[g].event /\ accepted \in Nat /\ po[o].received \in Nat
        /\ Ordered[o] \in Nat
    BY <1>0, <1>2, ReceiptConstants DEF ConfirmReceipt, SoundReceipt, ReceiptRows, OrderRows
  <2>2. /\ accepted <= Ordered[o] - po[o].received /\ accepted > 0
        /\ po' = [po EXCEPT ![o] = orderRow]
        /\ broughtIn' = broughtIn + accepted /\ payable' = payable + accepted
        /\ confirmation' = [confirmation EXCEPT ![g] = IF @ = "PENDING" THEN "APPROVED" ELSE @]
        /\ UNCHANGED <<inspection, reading>>
    BY <1>2 DEF ConfirmReceipt, Fits, Remaining
  <2>3. receipt' = [receipt EXCEPT ![g] = row]
    BY <1>0, <1>2 DEF ConfirmReceipt
  <2>4. status \in Posted
    BY DEF Posted
  <2> HIDE DEF status
  <2>5. /\ row \in ReceiptRows /\ row.status = status /\ row.event = TRUE
        /\ row.order = o /\ row.accepted = accepted
    BY <1>0, <2>4 DEF ReceiptRows, Posted
  <2> HIDE DEF row
  <2>6. /\ receipt' \in [Receipts -> ReceiptRows] /\ receipt'[g] = row
        /\ \A h \in Receipts \ {g} : receipt'[h] = receipt[h]
    BY <1>0, <2>3, <2>5
  <2>7. received \in Nat /\ received <= Ordered[o] /\ (received >= Ordered[o] <=> received = Ordered[o])
    BY <2>1, <2>2
  <2>8. (orderStatus = "RECEIVED" <=> received = Ordered[o]) /\ orderStatus \in {"RECEIVED", "PARTIALLY_RECEIVED"}
    BY <2>7
  <2> HIDE DEF received, orderStatus
  <2>9. orderRow \in OrderRows /\ orderRow.status = orderStatus /\ orderRow.received = received
    BY <2>7, <2>8 DEF OrderRows
  <2> HIDE DEF orderRow
  <2>10. /\ po' \in [Orders -> OrderRows] /\ po'[o] = orderRow
         /\ \A p \in Orders \ {o} : po'[p] = po[p]
    BY <1>0, <2>1, <2>2, <2>9
  <2>11. ASSUME NEW d \in Orders, d = o
         PROVE  /\ SumFunction(Quantities(d)') = SumFunction(Quantities(d)) + accepted
                /\ \A p \in Orders \ {d} : Quantities(p)' = Quantities(p)
    BY <1>0, <2>1, <2>5, <2>6, <2>11, ReceivedIsAdded
  <2>12. ReceivedAsOrdered
    BY <1>0 DEF ReceiptsIInv
  <2>13. ASSUME NEW p \in Orders
         PROVE  /\ po'[p].received = SumFunction(Quantities(p)') /\ po'[p].received <= Ordered[p]
                /\ po'[p].status = "RECEIVED" <=> po'[p].received = Ordered[p]
    <3>1. /\ po[p].received = SumFunction(Quantities(p)) /\ po[p].received <= Ordered[p]
          /\ po[p].status = "RECEIVED" <=> po[p].received = Ordered[p]
      BY <2>12 DEF ReceivedAsOrdered, Quantities
    <3>2. CASE p = o
      <4>1. SumFunction(Quantities(p)') = po[o].received + accepted
        BY <2>11, <3>1, <3>2
      <4> QED BY <4>1, <3>2, <2>7, <2>8, <2>9, <2>10 DEF received
    <3>3. CASE p # o
      <4>1. Quantities(p)' = Quantities(p)
        BY <2>1, <2>11, <3>3
      <4> QED BY <4>1, <3>1, <3>3, <2>10
    <3> QED BY <3>2, <3>3
  <2>14. broughtIn' = SumFunction([p \in Orders |-> po'[p].received]) /\ payable' = broughtIn'
    <3> DEFINE f == [p \in Orders |-> po[p].received]
               h == [p \in Orders |-> po'[p].received]
    <3>1. broughtIn = SumFunction(f) /\ payable = broughtIn
      BY <2>12 DEF ReceivedAsOrdered
    <3>2. /\ \A p \in Orders : f[p] \in Int
          /\ f[o] = po[o].received /\ h[o] = received
          /\ \A p \in Orders \ {o} : h[p] = f[p]
      BY <1>0, <2>1, <2>9, <2>10 DEF OrderRows
    <3>3. DOMAIN f = Orders /\ DOMAIN h = Orders
      OBVIOUS
    <3> HIDE DEF f, h
    <3>4. h[o] \in Int
      BY <3>2, <2>7
    <3>5. SumFunction(h) = SumFunction(f) - f[o] + h[o] /\ SumFunction(f) \in Int
      BY <2>1, <3>2, <3>3, <3>4, ReceiptConstants, SumUpdated
    <3>6. SumFunction(h) = broughtIn + accepted
      BY <1>0, <2>1, <3>1, <3>2, <3>5 DEF received
    <3> QED BY <2>2, <3>1, <3>6 DEF h
  <2>15. ReceivedAsOrdered'
    BY <2>13, <2>14 DEF ReceivedAsOrdered, Quantities
  <2>16. \A h \in Receipts : SoundReceipt(h)'
    BY <1>0, <2>4, <2>5, <2>6 DEF SoundReceipt, Open, Posted
  <2>17. /\ confirmation' \in [Receipts -> {"NONE", "PENDING", "APPROVED", "REJECTED"}]
         /\ broughtIn' \in Nat /\ payable' \in Nat
    BY <1>0, <2>1, <2>2
  <2>18. ReceiptsTypeOK'
    BY <1>0, <2>2, <2>6, <2>10, <2>17 DEF ReceiptsTypeOK, ReceiptRows, OrderRows
  <2> QED BY <2>15, <2>16, <2>18 DEF ReceiptsIInv
<1>3. ASSUME NEW g \in Receipts, NEW c \in Clerks,
             BeginReject(c, g) \/ BeginVerdict(c, g) \/ BeginApproval(c, g)
      PROVE  ReceiptsIInv'
  <2>1. PICK r \in Calls : Read(c, r)
    BY <1>3, <1>0 DEF BeginReject, BeginVerdict, BeginApproval, Calls
  <2> QED BY <1>0, <1>a, <2>1 DEF Read
<1>4. ASSUME NEW c \in Clerks, DropCall(c) PROVE ReceiptsIInv'
  BY <1>0, <1>a, <1>4 DEF DropCall, Answer
<1>5. ASSUME NEW c \in Clerks, NEW r \in Calls, RejectReceipt(c, r) PROVE ReceiptsIInv'
  <2> DEFINE g == r.receipt
             row == [receipt[g] EXCEPT !.status = "REJECTED"]
  <2>1. g \in Receipts
    BY DEF Calls
  <2>2. /\ receipt' = [receipt EXCEPT ![g] = row]
        /\ confirmation' = [confirmation EXCEPT ![g] = IF @ = "PENDING" THEN "REJECTED" ELSE @]
        /\ reading' = [reading EXCEPT ![c] = Free] /\ UNCHANGED <<po, inspection, broughtIn, payable>>
    BY <1>0, <1>5 DEF RejectReceipt, Answer
  <2>3. /\ row \in ReceiptRows /\ row.status = "REJECTED" /\ row.order = receipt[g].order
        /\ row.accepted = receipt[g].accepted /\ (row.event <=> receipt[g].event)
    BY <1>0, <2>1 DEF ReceiptRows
  <2> HIDE DEF row
  <2>4. /\ receipt' \in [Receipts -> ReceiptRows] /\ receipt'[g] = row
        /\ \A h \in Receipts \ {g} : receipt'[h] = receipt[h]
    BY <1>0, <2>1, <2>2, <2>3
  <2>5. ReceivedAsOrdered'
    BY <1>0, <2>2, <2>3, <2>4, ReceivedIsKept
  <2>6. \A h \in Receipts : SoundReceipt(h)'
    BY <1>0, <2>3, <2>4 DEF SoundReceipt, Open
  <2>7. ReceiptsTypeOK'
    BY <1>0, <2>1, <2>2, <2>4 DEF ReceiptsTypeOK, ReceiptRows, OrderRows
  <2> QED BY <2>5, <2>6, <2>7 DEF ReceiptsIInv
<1>6. ASSUME NEW c \in Clerks, NEW r \in Calls, ApproveInspection(c, r) PROVE ReceiptsIInv'
  BY <1>0, <1>a, <1>6 DEF ApproveInspection, Answer
<1>7. ASSUME NEW c \in Clerks, NEW r \in Calls, NEW verdict \in Verdicts, CompleteInspection(c, r, verdict)
      PROVE  ReceiptsIInv'
  BY <1>0, <1>a, <1>7 DEF CompleteInspection, Answer
<1>8. CASE UNCHANGED receiptVars
  BY <1>0, <1>a, <1>8 DEF receiptVars
<1>9. \A c \in Clerks : \A r \in {reading[c]} \ {Free} : r \in Calls
  BY <1>0
<1> QED BY <1>1, <1>2, <1>3, <1>4, <1>5, <1>6, <1>7, <1>8, <1>9 DEF ReceiptsNext

(* Orders and receipts keep their invariant, for any orders, receipts and  *)
(* clerks (GoodsReceiptsService).                                          *)
THEOREM ReceiptsInvariance == ReceiptsSpec => []ReceiptsIInv
<1>1. ReceiptsInit => ReceiptsIInv
  <2> SUFFICES ASSUME ReceiptsInit PROVE ReceiptsIInv
    OBVIOUS
  <2>1. ReceiptsTypeOK /\ \A g \in Receipts : SoundReceipt(g)
    BY DEF ReceiptsInit, ReceiptsTypeOK, NoReceipt, SoundReceipt, Open
  <2>2. ASSUME NEW o \in Orders PROVE SumFunction(Quantities(o)) = 0
    <3>1. PostedFor(o) = {}
      BY DEF ReceiptsInit, NoReceipt, PostedFor
    <3>2. DOMAIN Quantities(o) = {}
      BY <3>1 DEF Quantities
    <3> QED BY <3>2, SumEmpty DEF SumFunction
  <2>3. SumFunction([o \in Orders |-> po[o].received]) = 0
    <3> DEFINE f == [o \in Orders |-> po[o].received]
    <3>1. DOMAIN f = Orders /\ \A o \in Orders : f[o] = 0
      BY DEF ReceiptsInit
    <3> HIDE DEF f
    <3>2. SumFunction(f) = 0
      BY <3>1, ReceiptConstants, SumOfZeros DEF SumFunction
    <3> QED BY <3>2 DEF f
  <2>4. ReceivedAsOrdered
    <3>1. /\ \A o \in Orders : po[o].received = 0 /\ po[o].status = "APPROVED"
          /\ broughtIn = 0 /\ payable = 0
      BY DEF ReceiptsInit
    <3> QED BY <2>2, <2>3, <3>1, ReceiptConstants DEF ReceivedAsOrdered, Quantities
  <2> QED BY <2>1, <2>4 DEF ReceiptsIInv
<1>2. ReceiptsIInv /\ [ReceiptsNext]_receiptVars => ReceiptsIInv'
  BY ReceiptsStep
<1> QED BY <1>1, <1>2, PTL DEF ReceiptsSpec

(* What was received is the sum of the posted receipts, no more than was   *)
(* ordered, in stock and owed once, for any orders, receipts and clerks,   *)
(* whatever they read before each other's writes (create, confirm, reject).*)
THEOREM ReceiptsCorrect == ReceiptsSpec => []ReceivedAsOrdered
<1>1. ReceiptsIInv => ReceivedAsOrdered
  BY DEF ReceiptsIInv
<1> QED BY <1>1, ReceiptsInvariance, PTL

-----------------------------------------------------------------------------
(* Transfers and counts.  Until a document is taken back behind a posted    *)
(* step, its key is posted only when that step is done, so that the next   *)
(* step of it finds no key of its own and the ledger moves with the goods. *)

TransferRows == [status : {"NONE", "REQUESTED", "APPROVED", "RECEIVED"} \cup InTransit,
                 shipped : Nat, received : Nat]
OpnameRows == [status : {"NONE", "COUNTING", "WAITING_APPROVAL", "COMPLETED"},
               system : Nat, counted : Nat \cup {Uncounted}]

TransferIsInStep(t) ==
  /\ transfer[t].status \in {"NONE", "REQUESTED", "APPROVED"} =>
       transfer[t].shipped = 0 /\ transfer[t].received = 0
  /\ transfer[t].status \in InTransit \cup {"RECEIVED"} => transfer[t].shipped > 0
  /\ <<"shipped", t>> \in posted => transfer[t].status \notin {"NONE", "REQUESTED", "APPROVED"}
  /\ \A n \in Nat : <<"received", t, n>> \in posted => n <= transfer[t].received

OpnameIsInStep(o) == <<"opname", o>> \in posted => opname[o].status = "COMPLETED"

DocumentsInStep ==
  disturbed = {} =>
    /\ \A t \in Transfers : TransferIsInStep(t)
    /\ \A o \in Opnames : OpnameIsInStep(o)

DocumentsIInv ==
  StockDocumentsTypeOK /\ DocumentsInStep /\ DocumentsExplainStock /\ LedgerFollowsGoods

SentFrom(w) == SumFunctionOnSet(Sent, {t \in Transfers : From[t] = w})
ArrivedAt(w) == SumFunctionOnSet(Arrived, {t \in Transfers : To[t] = w})
CountedAt(w) == SumFunctionOnSet(OpnameEffect, {o \in Opnames : Counted[o] = w})
HeldUnits == UnitsIn(Warehouses, onHand)
RoadUnits == SumFunction(OnTheRoad)

LEMMA DocumentConstants ==
  /\ IsFiniteSet(Warehouses) /\ IsFiniteSet(Transfers) /\ IsFiniteSet(Opnames)
  /\ Transfers \cap Opnames = {} /\ MaxStock \in Nat
  /\ \A t \in Transfers : From[t] \in Warehouses /\ To[t] \in Warehouses
                          /\ Quantity[t] \in Nat /\ Quantity[t] > 0
  /\ \A o \in Opnames : Counted[o] \in Warehouses
  /\ Opening \in [Warehouses -> Nat] /\ \A w \in Warehouses : Opening[w] \in Nat
<1>1. /\ From \in [Transfers -> Warehouses] /\ To \in [Transfers -> Warehouses]
      /\ Quantity \in [Transfers -> Nat \ {0}] /\ Counted \in [Opnames -> Warehouses]
      /\ Opening \in [Warehouses -> Nat]
  BY StockDocumentsAssumption
<1> QED BY <1>1, StockDocumentsAssumption

LEMMA DocumentTypes ==
  ASSUME StockDocumentsTypeOK
  PROVE  /\ onHand \in [Warehouses -> Nat] /\ transfer \in [Transfers -> TransferRows]
         /\ opname \in [Opnames -> OpnameRows] /\ traded \in [Warehouses -> Int]
         /\ checked \in [Sessions -> Transfers \cup Opnames \cup {NoDocument}]
         /\ books \in [inventory : Int, transit : Int] /\ disturbed \subseteq Transfers \cup Opnames
BY DEF StockDocumentsTypeOK, TransferRows, OpnameRows

\* Units that come to a warehouse or leave it.
LEMMA GoodsMoved ==
  ASSUME StockDocumentsTypeOK, NEW w \in Warehouses, NEW q \in Int, onHand[w] + q \in Nat, MoveGoods(w, q)
  PROVE  /\ onHand' \in [Warehouses -> Nat]
         /\ \A v \in Warehouses : onHand'[v] = onHand[v] + (IF v = w THEN q ELSE 0)
         /\ HeldUnits' = HeldUnits + q /\ HeldUnits \in Int
<1>1. onHand \in [Warehouses -> Nat]
  BY DocumentTypes
<1>2. /\ onHand' \in [Warehouses -> Nat] /\ onHand'[w] = onHand[w] + q
      /\ \A v \in Warehouses \ {w} : onHand'[v] = onHand[v]
  BY <1>1 DEF MoveGoods
<1>3. \A v \in Warehouses : onHand'[v] = onHand[v] + (IF v = w THEN q ELSE 0)
  BY <1>1, <1>2
<1>4. (\A v \in Warehouses : onHand[v] \in Int) /\ onHand'[w] \in Int /\ onHand[w] \in Int
  BY <1>1, <1>2
<1>5a. SumFunctionOnSet(onHand', Warehouses) = SumFunctionOnSet(onHand, Warehouses) - onHand[w] + onHand'[w]
  <2> DEFINE before == onHand
             after == onHand'
             W == Warehouses
  <2>1. /\ IsFiniteSet(W) /\ w \in W /\ after[w] \in Int
        /\ \A v \in W : before[v] \in Int
        /\ \A v \in W \ {w} : after[v] = before[v]
    BY <1>2, <1>4, DocumentConstants
  <2> HIDE DEF before, after, W
  <2>2. SumFunctionOnSet(after, W) = SumFunctionOnSet(before, W) - before[w] + after[w]
    BY <2>1, SumChanged
  <2> QED BY <2>2 DEF before, after, W
<1>5. SumFunctionOnSet(onHand, Warehouses) \in Int
  BY <1>4, DocumentConstants, SumType
<1>6. HeldUnits = SumFunctionOnSet(onHand, Warehouses) /\ HeldUnits' = SumFunctionOnSet(onHand', Warehouses)
  BY DEF HeldUnits, UnitsIn
<1> DEFINE a == HeldUnits
           b == onHand[w]
<1>7. a \in Int /\ b \in Int /\ HeldUnits' = a - b + (b + q)
  BY <1>2, <1>4, <1>5, <1>5a, <1>6
<1> HIDE DEF a, b
<1>8. a - b + (b + q) = a + q
  BY <1>7
<1> QED BY <1>2, <1>3, <1>7, <1>8 DEF a

LEMMA DocumentSums ==
  ASSUME StockDocumentsTypeOK
  PROVE  /\ \A w \in Warehouses : SentFrom(w) \in Int /\ ArrivedAt(w) \in Int /\ CountedAt(w) \in Int
         /\ RoadUnits \in Int /\ HeldUnits \in Int
<1>1. /\ \A t \in Transfers : Sent[t] \in Int /\ Arrived[t] \in Int /\ OnTheRoad[t] \in Int
      /\ \A o \in Opnames : OpnameEffect[o] \in Int
  BY DocumentTypes DEF Sent, Arrived, OnTheRoad, OpnameEffect, Adjustment, TransferRows, OpnameRows, Uncounted
<1>2. ASSUME NEW w \in Warehouses PROVE SentFrom(w) \in Int /\ ArrivedAt(w) \in Int /\ CountedAt(w) \in Int
  <2> DEFINE A == {t \in Transfers : From[t] = w}
             B == {t \in Transfers : To[t] = w}
             C == {o \in Opnames : Counted[o] = w}
  <2>1. /\ IsFiniteSet(A) /\ IsFiniteSet(B) /\ IsFiniteSet(C)
        /\ A \subseteq Transfers /\ B \subseteq Transfers /\ C \subseteq Opnames
    BY DocumentConstants, FS_Subset
  <2>2. /\ SentFrom(w) = SumFunctionOnSet(Sent, A) /\ ArrivedAt(w) = SumFunctionOnSet(Arrived, B)
        /\ CountedAt(w) = SumFunctionOnSet(OpnameEffect, C)
    BY DEF SentFrom, ArrivedAt, CountedAt
  <2> HIDE DEF A, B, C
  <2>3. SumFunctionOnSet(Sent, A) \in Int
    BY <1>1, <2>1, SumType
  <2>4. SumFunctionOnSet(Arrived, B) \in Int
    BY <1>1, <2>1, SumType
  <2>5. SumFunctionOnSet(OpnameEffect, C) \in Int
    BY <1>1, <2>1, SumType
  <2> QED BY <2>2, <2>3, <2>4, <2>5
<1>3. RoadUnits \in Int
  <2>1. DOMAIN OnTheRoad = Transfers
    BY DEF OnTheRoad
  <2> QED BY <1>1, <2>1, DocumentConstants, SumType DEF RoadUnits, SumFunction
<1>4. HeldUnits \in Int
  <2>1. \A w \in Warehouses : onHand[w] \in Int
    BY DocumentTypes
  <2> QED BY <2>1, DocumentConstants, SumType DEF HeldUnits, UnitsIn
<1> QED BY <1>2, <1>3, <1>4

\* A transfer that is written, and what it does to what was sent and arrived.
LEMMA TransferWritten ==
  ASSUME StockDocumentsTypeOK, NEW t \in Transfers, NEW row \in TransferRows,
         transfer' = [transfer EXCEPT ![t] = row]
  PROVE  /\ transfer' \in [Transfers -> TransferRows] /\ transfer'[t] = row
         /\ \A u \in Transfers \ {t} : transfer'[u] = transfer[u]
         /\ \A w \in Warehouses :
              /\ SentFrom(w)' = SentFrom(w) + (IF From[t] = w THEN row.shipped - transfer[t].shipped ELSE 0)
              /\ ArrivedAt(w)' = ArrivedAt(w) + (IF To[t] = w THEN row.received - transfer[t].received ELSE 0)
         /\ RoadUnits' = RoadUnits - (transfer[t].shipped - transfer[t].received) + (row.shipped - row.received)
<1>1. transfer \in [Transfers -> TransferRows]
  BY DocumentTypes
<1>2. /\ transfer' \in [Transfers -> TransferRows] /\ transfer'[t] = row
      /\ \A u \in Transfers \ {t} : transfer'[u] = transfer[u]
  BY <1>1
<1> DEFINE sent2 == Sent'
           arrived2 == Arrived'
           road2 == OnTheRoad'
<1>3. /\ \A u \in Transfers : Sent[u] \in Int /\ Arrived[u] \in Int /\ OnTheRoad[u] \in Int
      /\ sent2[t] = row.shipped /\ arrived2[t] = row.received /\ road2[t] = row.shipped - row.received
      /\ Sent[t] = transfer[t].shipped /\ Arrived[t] = transfer[t].received
      /\ OnTheRoad[t] = transfer[t].shipped - transfer[t].received
      /\ \A u \in Transfers \ {t} : sent2[u] = Sent[u] /\ arrived2[u] = Arrived[u] /\ road2[u] = OnTheRoad[u]
      /\ DOMAIN OnTheRoad = Transfers /\ DOMAIN road2 = Transfers
  BY <1>1, <1>2 DEF Sent, Arrived, OnTheRoad, TransferRows
<1>4. row.shipped \in Int /\ row.received \in Int /\ row.shipped - row.received \in Int
  BY DEF TransferRows
<1>5. ASSUME NEW w \in Warehouses
      PROVE  /\ SentFrom(w)' = SentFrom(w) + (IF From[t] = w THEN row.shipped - transfer[t].shipped ELSE 0)
             /\ ArrivedAt(w)' = ArrivedAt(w) + (IF To[t] = w THEN row.received - transfer[t].received ELSE 0)
  <2> DEFINE A == {u \in Transfers : From[u] = w}
             B == {u \in Transfers : To[u] = w}
  <2>1. /\ A \in SUBSET Transfers /\ B \in SUBSET Transfers
        /\ t \in A <=> From[t] = w
        /\ t \in B <=> To[t] = w
    OBVIOUS
  <2>2. /\ SentFrom(w) = SumFunctionOnSet(Sent, A) /\ ArrivedAt(w) = SumFunctionOnSet(Arrived, B)
        /\ SentFrom(w)' = SumFunctionOnSet(sent2, A) /\ ArrivedAt(w)' = SumFunctionOnSet(arrived2, B)
    BY DEF SentFrom, ArrivedAt
  <2> HIDE DEF A, B, sent2, arrived2, road2
  <2>a. /\ \A u \in Transfers : Sent[u] \in Int
        /\ sent2[t] \in Int
        /\ \A u \in Transfers \ {t} : sent2[u] = Sent[u]
    BY <1>3, <1>4
  <2>b. /\ \A u \in Transfers : Arrived[u] \in Int
        /\ arrived2[t] \in Int
        /\ \A u \in Transfers \ {t} : arrived2[u] = Arrived[u]
    BY <1>3, <1>4
  <2>c. IsFiniteSet(Transfers)
    BY DocumentConstants
  <2>3. SumFunctionOnSet(sent2, A) = SumFunctionOnSet(Sent, A) + (IF t \in A THEN sent2[t] - Sent[t] ELSE 0)
    BY <2>a, <2>c, <2>1, SumWritten
  <2>4. SumFunctionOnSet(arrived2, B) = SumFunctionOnSet(Arrived, B) + (IF t \in B THEN arrived2[t] - Arrived[t] ELSE 0)
    BY <2>b, <2>c, <2>1, SumWritten
  <2> QED BY <1>3, <2>1, <2>2, <2>3, <2>4
<1>6. RoadUnits' = RoadUnits - (transfer[t].shipped - transfer[t].received) + (row.shipped - row.received)
  <2>1. RoadUnits = SumFunction(OnTheRoad) /\ RoadUnits' = SumFunction(road2)
    BY DEF RoadUnits
  <2> HIDE DEF sent2, arrived2, road2
  <2>2. SumFunction(road2) = SumFunction(OnTheRoad) - OnTheRoad[t] + road2[t]
    BY <1>3, <1>4, DocumentConstants, SumUpdated
  <2> QED BY <1>3, <2>1, <2>2
<1> QED BY <1>2, <1>5, <1>6

\* A count that is written, and what it does to the completed differences.
LEMMA OpnameWritten ==
  ASSUME StockDocumentsTypeOK, NEW o \in Opnames, NEW row \in OpnameRows,
         opname' = [opname EXCEPT ![o] = row]
  PROVE  /\ opname' \in [Opnames -> OpnameRows] /\ opname'[o] = row
         /\ \A p \in Opnames \ {o} : opname'[p] = opname[p]
         /\ \A w \in Warehouses :
              CountedAt(w)' = CountedAt(w) + (IF Counted[o] = w
                 THEN (IF row.status = "COMPLETED" THEN row.counted - row.system ELSE 0)
                      - (IF opname[o].status = "COMPLETED" THEN opname[o].counted - opname[o].system ELSE 0)
                 ELSE 0)
<1>1. opname \in [Opnames -> OpnameRows]
  BY DocumentTypes
<1>2. /\ opname' \in [Opnames -> OpnameRows] /\ opname'[o] = row
      /\ \A p \in Opnames \ {o} : opname'[p] = opname[p]
  BY <1>1
<1> DEFINE before == OpnameEffect
           after == OpnameEffect'
<1>3. /\ \A p \in Opnames : before[p] \in Int /\ after[p] \in Int
      /\ after[o] = (IF row.status = "COMPLETED" THEN row.counted - row.system ELSE 0)
      /\ before[o] = (IF opname[o].status = "COMPLETED" THEN opname[o].counted - opname[o].system ELSE 0)
      /\ \A p \in Opnames \ {o} : after[p] = before[p]
  BY <1>1, <1>2 DEF OpnameEffect, Adjustment, OpnameRows, Uncounted
<1>4. ASSUME NEW w \in Warehouses
      PROVE  CountedAt(w)' = CountedAt(w) + (IF Counted[o] = w THEN after[o] - before[o] ELSE 0)
  <2> DEFINE C == {p \in Opnames : Counted[p] = w}
  <2>1. C \in SUBSET Opnames /\ (o \in C <=> Counted[o] = w)
    OBVIOUS
  <2>2. CountedAt(w) = SumFunctionOnSet(before, C) /\ CountedAt(w)' = SumFunctionOnSet(after, C)
    BY DEF CountedAt
  <2> HIDE DEF C, before, after
  <2>3. SumFunctionOnSet(after, C) = SumFunctionOnSet(before, C) + (IF o \in C THEN after[o] - before[o] ELSE 0)
    BY <1>3, <2>1, DocumentConstants, SumWritten
  <2> QED BY <2>1, <2>2, <2>3
<1> HIDE DEF before, after
<1> QED BY <1>2, <1>3, <1>4

\* What posting a key for the first time does to the ledger.
LEMMA PostedFirst ==
  ASSUME StockDocumentsTypeOK, NEW key, NEW i \in Int, NEW q \in Int, Post(key, i, q),
         key \notin posted \/ (i = 0 /\ q = 0)
  PROVE  /\ books' \in [inventory : Int, transit : Int]
         /\ books'.inventory = books.inventory + i /\ books'.transit = books.transit + q
         /\ posted \subseteq posted'
         /\ \A k \in posted' : k \in posted \/ (k = key /\ (i # 0 \/ q # 0))
<1>1. books \in [inventory : Int, transit : Int]
  BY DocumentTypes
<1>2. CASE i = 0 /\ q = 0
  BY <1>1, <1>2 DEF Post
<1>3. CASE ~(i = 0 /\ q = 0)
  BY <1>1, <1>3 DEF Post
<1> QED BY <1>2, <1>3

\* Units that come to one warehouse, and what the documents say of them.
MovesTogether(w, q, road, from, to, counted, other) ==
  /\ \A v \in Warehouses : onHand'[v] = onHand[v] + (IF v = w THEN q ELSE 0)
  /\ HeldUnits' = HeldUnits + q /\ RoadUnits' = RoadUnits + road
  /\ books'.inventory = books.inventory + q /\ books'.transit = books.transit + road
  /\ from \in [Warehouses -> Int] /\ to \in [Warehouses -> Int]
  /\ counted \in [Warehouses -> Int] /\ other \in [Warehouses -> Int]
  /\ \A v \in Warehouses : /\ SentFrom(v)' = SentFrom(v) + from[v]
                           /\ ArrivedAt(v)' = ArrivedAt(v) + to[v]
                           /\ CountedAt(v)' = CountedAt(v) + counted[v]
                           /\ traded'[v] = traded[v] + other[v]
                           /\ (IF v = w THEN q ELSE 0) = other[v] - from[v] + to[v] + counted[v]

\* Goods and ledger that move by the same units stay explained.
LEMMA StaysExplained ==
  ASSUME DocumentsIInv, disturbed = {},
         NEW w \in Warehouses, NEW q \in Int, NEW road \in Int, NEW from, NEW to, NEW counted, NEW other,
         MovesTogether(w, q, road, from, to, counted, other)
  PROVE  DocumentsExplainStock' /\ LedgerFollowsGoods'
<1>1. ASSUME NEW v \in Warehouses
      PROVE  onHand'[v] = Opening[v] + traded'[v] - SentFrom(v)' + ArrivedAt(v)' + CountedAt(v)'
  <2> DEFINE a == Opening[v]
             b == traded[v]
             c == SentFrom(v)
             d == ArrivedAt(v)
             e == CountedAt(v)
             n == IF v = w THEN q ELSE 0
             fv == from[v]
             tv == to[v]
             cv == counted[v]
             ov == other[v]
  <2>1. onHand[v] = a + b - c + d + e
    BY DEF DocumentsIInv, DocumentsExplainStock, SentFrom, ArrivedAt, CountedAt
  <2>2. a \in Int /\ b \in Int /\ c \in Int /\ d \in Int /\ e \in Int
    BY DocumentConstants, DocumentTypes, DocumentSums DEF DocumentsIInv
  <2>3. fv \in Int /\ tv \in Int /\ cv \in Int /\ ov \in Int /\ n \in Int
    BY DEF MovesTogether
  <2>4. /\ onHand'[v] = onHand[v] + n /\ SentFrom(v)' = c + fv /\ ArrivedAt(v)' = d + tv
        /\ CountedAt(v)' = e + cv /\ traded'[v] = b + ov /\ n = ov - fv + tv + cv
    BY DEF MovesTogether
  <2> HIDE DEF a, b, c, d, e, n, fv, tv, cv, ov
  <2>5. (a + b - c + d + e) + n = a + (b + ov) - (c + fv) + (d + tv) + (e + cv)
    BY <2>2, <2>3, <2>4
  <2> QED BY <2>1, <2>4, <2>5 DEF a
<1>2. /\ books.inventory = HeldUnits /\ books.transit = RoadUnits
  BY DEF DocumentsIInv, LedgerFollowsGoods, HeldUnits, RoadUnits
<1>3. books'.inventory = HeldUnits' /\ books'.transit = RoadUnits'
  BY <1>2 DEF MovesTogether
<1> QED BY <1>1, <1>3 DEF DocumentsExplainStock, LedgerFollowsGoods, SentFrom, ArrivedAt, CountedAt,
   HeldUnits, RoadUnits

\* Nothing moved and nothing was posted.
LEMMA NothingMoved ==
  ASSUME DocumentsIInv, disturbed = {}, UNCHANGED <<onHand, books, traded>>, RoadUnits' = RoadUnits,
         \A w \in Warehouses : /\ SentFrom(w)' = SentFrom(w) /\ ArrivedAt(w)' = ArrivedAt(w)
                               /\ CountedAt(w)' = CountedAt(w)
  PROVE  DocumentsExplainStock' /\ LedgerFollowsGoods'
<1>1. /\ DocumentsExplainStock /\ LedgerFollowsGoods
      /\ UnitsIn(Warehouses, onHand)' = UnitsIn(Warehouses, onHand)
  BY DEF DocumentsIInv, UnitsIn
<1> QED BY <1>1 DEF DocumentsExplainStock, LedgerFollowsGoods, SentFrom, ArrivedAt, CountedAt, RoadUnits

\* Only the status of a transfer is written.
LEMMA TransferMarked ==
  ASSUME StockDocumentsTypeOK, NEW t \in Transfers, NEW row \in TransferRows,
         transfer' = [transfer EXCEPT ![t] = row],
         row.shipped = transfer[t].shipped, row.received = transfer[t].received
  PROVE  RoadUnits' = RoadUnits /\ \A w \in Warehouses : SentFrom(w)' = SentFrom(w) /\ ArrivedAt(w)' = ArrivedAt(w)
<1>1. \A u \in Transfers : transfer'[u].shipped = transfer[u].shipped /\ transfer'[u].received = transfer[u].received
  BY DocumentTypes
<1>2. Sent' = Sent /\ Arrived' = Arrived /\ OnTheRoad' = OnTheRoad
  BY <1>1 DEF Sent, Arrived, OnTheRoad
<1> QED BY <1>2 DEF RoadUnits, SentFrom, ArrivedAt

\* Sums over rows that were not written.
LEMMA UnwrittenSums ==
  /\ UNCHANGED transfer => RoadUnits' = RoadUnits /\ \A w \in Warehouses : SentFrom(w)' = SentFrom(w) /\ ArrivedAt(w)' = ArrivedAt(w)
  /\ UNCHANGED opname => \A w \in Warehouses : CountedAt(w)' = CountedAt(w)
BY DEF RoadUnits, OnTheRoad, SentFrom, Sent, ArrivedAt, Arrived, CountedAt, OpnameEffect, Adjustment

LEMMA PostTypes ==
  ASSUME StockDocumentsTypeOK, NEW key, NEW i \in Int, NEW q \in Int, Post(key, i, q)
  PROVE  books' \in [inventory : Int, transit : Int]
<1>1. books \in [inventory : Int, transit : Int]
  BY DocumentTypes
<1> QED BY <1>1 DEF Post

LEMMA KeysDiffer ==
  ASSUME NEW t, NEW u, NEW n, NEW m
  PROVE  /\ <<"shipped", t>> # <<"opname", u>> /\ <<"shipped", t>> # <<"received", u, n>>
         /\ <<"opname", t>> # <<"received", u, n>>
         /\ <<"shipped", t>> = <<"shipped", u>> => t = u
         /\ <<"opname", t>> = <<"opname", u>> => t = u
         /\ <<"received", t, n>> = <<"received", u, m>> => t = u /\ n = m
OBVIOUS

\* A count that is not complete is written.
LEMMA OpnameMarked ==
  ASSUME StockDocumentsTypeOK, NEW o \in Opnames, NEW row \in OpnameRows,
         opname' = [opname EXCEPT ![o] = row],
         row.status # "COMPLETED", opname[o].status # "COMPLETED"
  PROVE  \A w \in Warehouses : CountedAt(w)' = CountedAt(w)
<1>1. ASSUME NEW p \in Opnames PROVE OpnameEffect'[p] = OpnameEffect[p]
  BY DocumentTypes DEF OpnameEffect, Adjustment
<1>2. OpnameEffect' = OpnameEffect
  BY <1>1 DEF OpnameEffect
<1> QED BY <1>2 DEF CountedAt

LEMMA DocumentsStep ==
  ASSUME DocumentsIInv, [DocumentsNext]_documentVars
  PROVE  DocumentsIInv'
<1>0. /\ onHand \in [Warehouses -> Nat] /\ transfer \in [Transfers -> TransferRows]
      /\ opname \in [Opnames -> OpnameRows] /\ traded \in [Warehouses -> Int]
      /\ checked \in [Sessions -> Transfers \cup Opnames \cup {NoDocument}]
      /\ books \in [inventory : Int, transit : Int] /\ disturbed \subseteq Transfers \cup Opnames
      /\ StockDocumentsTypeOK /\ DocumentsIInv
  BY DocumentTypes DEF DocumentsIInv
<1>a. disturbed = {} => /\ \A t \in Transfers : TransferIsInStep(t)
                        /\ \A o \in Opnames : OpnameIsInStep(o)
  BY DEF DocumentsIInv, DocumentsInStep
<1>b. ASSUME StockDocumentsTypeOK',
             disturbed' = {} => /\ \A t \in Transfers : TransferIsInStep(t)'
                                /\ \A o \in Opnames : OpnameIsInStep(o)'
                                /\ DocumentsExplainStock' /\ LedgerFollowsGoods'
      PROVE  DocumentsIInv'
  BY <1>b DEF DocumentsIInv, DocumentsInStep, DocumentsExplainStock, LedgerFollowsGoods
<1>1. ASSUME NEW t \in Transfers, RequestTransfer(t) PROVE DocumentsIInv'
  <2> DEFINE row == [transfer[t] EXCEPT !.status = "REQUESTED"]
  <2>1. /\ transfer[t].status = "NONE" /\ transfer' = [transfer EXCEPT ![t] = row]
        /\ UNCHANGED <<onHand, opname, checked, books, posted, traded, disturbed>>
    BY <1>0, <1>1 DEF RequestTransfer
  <2>2. /\ row \in TransferRows /\ row.status = "REQUESTED"
        /\ row.shipped = transfer[t].shipped /\ row.received = transfer[t].received
        /\ transfer[t].shipped \in Int /\ transfer[t].received \in Int
    BY <1>0 DEF TransferRows
  <2> HIDE DEF row
  <2>3. /\ transfer' \in [Transfers -> TransferRows] /\ transfer'[t] = row
        /\ \A u \in Transfers \ {t} : transfer'[u] = transfer[u]
    BY <1>0, <2>1, <2>2
  <2>s. RoadUnits' = RoadUnits /\ \A w \in Warehouses : SentFrom(w)' = SentFrom(w) /\ ArrivedAt(w)' = ArrivedAt(w)
    BY <1>0, <2>1, <2>2, TransferMarked
  <2>4. StockDocumentsTypeOK'
    BY <1>0, <2>1, <2>3 DEF StockDocumentsTypeOK, TransferRows, OpnameRows
  <2>5. ASSUME disturbed = {} PROVE DocumentsExplainStock' /\ LedgerFollowsGoods'
    BY <1>0, <2>1, <2>s, <2>5, UnwrittenSums, NothingMoved
  <2>6. ASSUME disturbed = {} PROVE /\ \A u \in Transfers : TransferIsInStep(u)'
                                    /\ \A o \in Opnames : OpnameIsInStep(o)'
    BY <1>a, <2>1, <2>2, <2>3, <2>6 DEF TransferIsInStep, OpnameIsInStep, InTransit
  <2> QED BY <1>b, <2>1, <2>4, <2>5, <2>6
<1>2. ASSUME NEW r \in Sessions, NEW d \in Transfers \cup Opnames, Check(r, d) PROVE DocumentsIInv'
  <2>1. checked' \in [Sessions -> Transfers \cup Opnames \cup {NoDocument}]
        /\ UNCHANGED <<onHand, transfer, opname, books, posted, traded, disturbed>>
    BY <1>0, <1>2 DEF Check
  <2>2. StockDocumentsTypeOK'
    BY <1>0, <2>1 DEF StockDocumentsTypeOK, TransferRows, OpnameRows
  <2>3. ASSUME disturbed = {} PROVE DocumentsExplainStock' /\ LedgerFollowsGoods'
    BY <1>0, <2>1, <2>3, UnwrittenSums, NothingMoved
  <2>4. ASSUME disturbed = {} PROVE /\ \A u \in Transfers : TransferIsInStep(u)'
                                    /\ \A o \in Opnames : OpnameIsInStep(o)'
    BY <1>a, <2>1, <2>4 DEF TransferIsInStep, OpnameIsInStep
  <2> QED BY <1>b, <2>1, <2>2, <2>3, <2>4
<1>3. ASSUME NEW r \in Sessions, NEW t \in Transfers, ApproveTransfer(r, t) PROVE DocumentsIInv'
  <2> DEFINE row == [transfer[t] EXCEPT !.status = "APPROVED"]
  <2>1. /\ transfer' = [transfer EXCEPT ![t] = row]
        /\ disturbed' = IF transfer[t].shipped > 0 THEN disturbed \cup {t} ELSE disturbed
        /\ checked' = [checked EXCEPT ![r] = NoDocument]
        /\ UNCHANGED <<onHand, opname, books, posted, traded>>
    BY <1>0, <1>3 DEF ApproveTransfer
  <2>2. /\ row \in TransferRows /\ row.status = "APPROVED"
        /\ row.shipped = transfer[t].shipped /\ row.received = transfer[t].received
        /\ transfer[t].shipped \in Nat /\ transfer[t].received \in Nat
    BY <1>0 DEF TransferRows
  <2> HIDE DEF row
  <2>3. /\ transfer' \in [Transfers -> TransferRows] /\ transfer'[t] = row
        /\ \A u \in Transfers \ {t} : transfer'[u] = transfer[u]
    BY <1>0, <2>1, <2>2
  <2>s. RoadUnits' = RoadUnits /\ \A w \in Warehouses : SentFrom(w)' = SentFrom(w) /\ ArrivedAt(w)' = ArrivedAt(w)
    BY <1>0, <2>1, <2>2, TransferMarked
  <2>4. StockDocumentsTypeOK'
    BY <1>0, <2>1, <2>3 DEF StockDocumentsTypeOK, TransferRows, OpnameRows
  <2>5. disturbed' = {} => disturbed = {} /\ ~(transfer[t].shipped > 0)
    BY <2>1
  <2>6. ASSUME disturbed = {} PROVE DocumentsExplainStock' /\ LedgerFollowsGoods'
    BY <1>0, <2>1, <2>s, <2>6, UnwrittenSums, NothingMoved
  <2>7. ASSUME disturbed = {}, ~(transfer[t].shipped > 0)
        PROVE  /\ \A u \in Transfers : TransferIsInStep(u)'
               /\ \A o \in Opnames : OpnameIsInStep(o)'
    <3>1. transfer[t].shipped = 0
      BY <2>2, <2>7
    <3>2. transfer[t].status \in {"NONE", "REQUESTED", "APPROVED"}
      BY <1>0, <1>a, <2>7, <3>1 DEF TransferRows, TransferIsInStep
    <3>3. TransferIsInStep(t)'
      BY <1>a, <2>1, <2>2, <2>3, <2>7, <3>1, <3>2 DEF TransferIsInStep, InTransit
    <3>4. \A u \in Transfers \ {t} : TransferIsInStep(u)'
      BY <1>a, <2>1, <2>3, <2>7 DEF TransferIsInStep
    <3>5. \A o \in Opnames : OpnameIsInStep(o)'
      BY <1>a, <2>1, <2>7 DEF OpnameIsInStep
    <3> QED BY <3>3, <3>4, <3>5
  <2> QED BY <1>b, <2>4, <2>5, <2>6, <2>7
<1>4. ASSUME NEW t \in Transfers, ShipTransfer(t) PROVE DocumentsIInv'
  <2> DEFINE q == Quantity[t]
             row == [transfer[t] EXCEPT !.status = "SHIPPED", !.shipped = q]
  <2>1. /\ transfer[t].status = "APPROVED" /\ onHand[From[t]] >= q /\ MoveGoods(From[t], -q)
        /\ Post(<<"shipped", t>>, -q, q) /\ transfer' = [transfer EXCEPT ![t] = row]
        /\ UNCHANGED <<opname, checked, traded, disturbed>>
    BY <1>0, <1>4 DEF ShipTransfer
  <2>2. q \in Nat /\ q > 0 /\ -q \in Int /\ q \in Int /\ From[t] \in Warehouses /\ onHand[From[t]] \in Nat
    BY <1>0, DocumentConstants
  <2>3. onHand[From[t]] + -q \in Nat
    BY <2>1, <2>2
  <2>4. /\ row \in TransferRows /\ row.status = "SHIPPED" /\ row.shipped = q
        /\ row.received = transfer[t].received /\ transfer[t].shipped \in Nat /\ transfer[t].received \in Nat
    BY <1>0, <2>2 DEF TransferRows, InTransit
  <2> HIDE DEF row, q
  <2>5. /\ onHand' \in [Warehouses -> Nat]
        /\ \A v \in Warehouses : onHand'[v] = onHand[v] + (IF v = From[t] THEN -q ELSE 0)
        /\ HeldUnits' = HeldUnits + -q
    BY <1>0, <2>1, <2>2, <2>3, GoodsMoved
  <2>6. /\ transfer' \in [Transfers -> TransferRows] /\ transfer'[t] = row
        /\ \A u \in Transfers \ {t} : transfer'[u] = transfer[u]
        /\ \A w \in Warehouses :
             /\ SentFrom(w)' = SentFrom(w) + (IF From[t] = w THEN row.shipped - transfer[t].shipped ELSE 0)
             /\ ArrivedAt(w)' = ArrivedAt(w) + (IF To[t] = w THEN row.received - transfer[t].received ELSE 0)
        /\ RoadUnits' = RoadUnits - (transfer[t].shipped - transfer[t].received) + (row.shipped - row.received)
    BY <1>0, <2>1, <2>4, TransferWritten
  <2>7. books' \in [inventory : Int, transit : Int]
    BY <1>0, <2>1, <2>2, PostTypes
  <2>8. StockDocumentsTypeOK'
    BY <1>0, <2>1, <2>5, <2>6, <2>7 DEF StockDocumentsTypeOK, TransferRows, OpnameRows
  <2>9. ASSUME disturbed = {}
        PROVE  /\ \A u \in Transfers : TransferIsInStep(u)'
               /\ \A o \in Opnames : OpnameIsInStep(o)'
               /\ DocumentsExplainStock' /\ LedgerFollowsGoods'
    <3>1. /\ transfer[t].shipped = 0 /\ transfer[t].received = 0 /\ <<"shipped", t>> \notin posted
      BY <1>a, <2>1, <2>9 DEF TransferIsInStep
    <3>2. /\ books'.inventory = books.inventory + -q /\ books'.transit = books.transit + q
          /\ posted \subseteq posted'
          /\ \A k \in posted' : k \in posted \/ k = <<"shipped", t>>
      BY <1>0, <2>1, <2>2, <3>1, PostedFirst
    <3>3. TransferIsInStep(t)'
      BY <1>a, <2>2, <2>4, <2>6, <2>9, <3>1, <3>2, KeysDiffer DEF TransferIsInStep, InTransit
    <3>4. ASSUME NEW u \in Transfers \ {t} PROVE TransferIsInStep(u)'
      BY <1>a, <2>6, <2>9, <3>2, KeysDiffer DEF TransferIsInStep
    <3>5. \A o \in Opnames : OpnameIsInStep(o)'
      BY <1>a, <2>1, <2>9, <3>2, KeysDiffer DEF OpnameIsInStep
    <3>6. DocumentsExplainStock' /\ LedgerFollowsGoods'
      <4> DEFINE zero == [v \in Warehouses |-> 0]
                 from == [v \in Warehouses |-> IF v = From[t] THEN q ELSE 0]
      <4>1. /\ zero \in [Warehouses -> Int] /\ from \in [Warehouses -> Int]
            /\ \A v \in Warehouses : zero[v] = 0 /\ from[v] = IF v = From[t] THEN q ELSE 0
        BY <2>2
      <4> HIDE DEF zero, from
      <4>2. RoadUnits' = RoadUnits + q
        BY <2>2, <2>4, <2>6, <3>1, <1>0, DocumentSums
      <4>3. ASSUME NEW v \in Warehouses
            PROVE  /\ SentFrom(v)' = SentFrom(v) + from[v] /\ ArrivedAt(v)' = ArrivedAt(v) + zero[v]
                   /\ CountedAt(v)' = CountedAt(v) + zero[v] /\ traded'[v] = traded[v] + zero[v]
                   /\ (IF v = From[t] THEN -q ELSE 0) = zero[v] - from[v] + zero[v] + zero[v]
        <5>1. CountedAt(v)' = CountedAt(v) /\ CountedAt(v) \in Int /\ traded[v] \in Int /\ ArrivedAt(v) \in Int
          BY <1>0, <2>1, UnwrittenSums, DocumentSums
        <5>2. SentFrom(v)' = SentFrom(v) + from[v]
          BY <2>2, <2>4, <2>6, <3>1, <4>1
        <5>3. ArrivedAt(v)' = ArrivedAt(v) + zero[v]
          BY <2>4, <2>6, <3>1, <4>1, <5>1
        <5>4. (IF v = From[t] THEN -q ELSE 0) = zero[v] - from[v] + zero[v] + zero[v]
          BY <2>2, <4>1
        <5>5. CountedAt(v)' = CountedAt(v) + zero[v]
          BY <4>1, <5>1
        <5>6. traded'[v] = traded[v] + zero[v]
          BY <2>1, <4>1, <5>1
        <5> QED BY <5>2, <5>3, <5>4, <5>5, <5>6
      <4>4. MovesTogether(From[t], -q, q, from, zero, zero, zero)
        BY <2>5, <3>2, <4>1, <4>2, <4>3 DEF MovesTogether
      <4> QED BY <1>0, <2>2, <2>3, <2>9, <4>4, StaysExplained
    <3> QED BY <3>3, <3>4, <3>5, <3>6
  <2> QED BY <1>b, <2>1, <2>8, <2>9
<1>5. ASSUME NEW t \in Transfers, NEW lines \in Lines, ReceiveTransfer(t, lines) PROVE DocumentsIInv'
  <2> DEFINE q == SumFunction(lines)
             received == transfer[t].received + q
             status == IF received >= transfer[t].shipped THEN "RECEIVED" ELSE "PARTIALLY_RECEIVED"
             row == [transfer[t] EXCEPT !.received = received, !.status = status]
  <2>1. /\ transfer[t].status \in InTransit /\ MoveGoods(To[t], q)
        /\ Post(<<"received", t, received>>, q, -q) /\ transfer' = [transfer EXCEPT ![t] = row]
        /\ UNCHANGED <<opname, checked, traded, disturbed>>
    BY <1>0, <1>5 DEF ReceiveTransfer, ReceiptKey
  <2>2. q \in Nat
    <3>1. PICK n \in 1..MaxLines : lines \in [1..n -> 0..MaxStock]
      BY <1>5 DEF Lines
    <3>0. n \in Nat /\ 0..MaxStock \subseteq Nat
      BY DocumentConstants, StockDocumentsAssumption
    <3>2a. IsFiniteSet(1..n)
      BY <3>0, FS_Interval
    <3>2. IsFiniteSet(1..n) /\ DOMAIN lines = 1..n /\ \A i \in 1..n : lines[i] \in Nat
      BY <3>0, <3>1, <3>2a
    <3>3. SumFunctionOnSet(lines, 1..n) \in Nat
      <4> DEFINE S == 1..n
      <4>1. IsFiniteSet(S) /\ \A i \in S : lines[i] \in Nat
        BY <3>2
      <4> HIDE DEF S
      <4>2. SumFunctionOnSet(lines, S) \in Nat
        BY <4>1, SumNat
      <4> QED BY <4>2 DEF S
    <3> QED BY <3>2, <3>3 DEF SumFunction
  <2> HIDE DEF q
  <2>3. /\ transfer[t].shipped \in Nat /\ transfer[t].received \in Nat /\ received \in Nat
        /\ To[t] \in Warehouses /\ onHand[To[t]] + q \in Nat /\ -q \in Int /\ q \in Int
    BY <1>0, <2>2, DocumentConstants DEF TransferRows
  <2>4. status \in {"RECEIVED", "PARTIALLY_RECEIVED"}
    OBVIOUS
  <2>5. received = transfer[t].received + q
    OBVIOUS
  <2> HIDE DEF status, received
  <2>6. /\ row \in TransferRows /\ row.status = status /\ row.received = received
        /\ row.shipped = transfer[t].shipped
    BY <1>0, <2>3, <2>4 DEF TransferRows, InTransit
  <2> HIDE DEF row
  <2>7. /\ onHand' \in [Warehouses -> Nat]
        /\ \A v \in Warehouses : onHand'[v] = onHand[v] + (IF v = To[t] THEN q ELSE 0)
        /\ HeldUnits' = HeldUnits + q
    BY <1>0, <2>1, <2>3, GoodsMoved
  <2>8. /\ transfer' \in [Transfers -> TransferRows] /\ transfer'[t] = row
        /\ \A u \in Transfers \ {t} : transfer'[u] = transfer[u]
        /\ \A w \in Warehouses :
             /\ SentFrom(w)' = SentFrom(w) + (IF From[t] = w THEN row.shipped - transfer[t].shipped ELSE 0)
             /\ ArrivedAt(w)' = ArrivedAt(w) + (IF To[t] = w THEN row.received - transfer[t].received ELSE 0)
        /\ RoadUnits' = RoadUnits - (transfer[t].shipped - transfer[t].received) + (row.shipped - row.received)
    BY <1>0, <2>1, <2>6, TransferWritten
  <2>9. books' \in [inventory : Int, transit : Int]
    BY <1>0, <2>1, <2>3, PostTypes
  <2>10. StockDocumentsTypeOK'
    BY <1>0, <2>1, <2>7, <2>8, <2>9 DEF StockDocumentsTypeOK, TransferRows, OpnameRows
  <2>11. ASSUME disturbed = {}
         PROVE  /\ \A u \in Transfers : TransferIsInStep(u)'
                /\ \A o \in Opnames : OpnameIsInStep(o)'
                /\ DocumentsExplainStock' /\ LedgerFollowsGoods'
    <3>0. transfer[t].shipped > 0 /\ \A n \in Nat : <<"received", t, n>> \in posted => n <= transfer[t].received
      BY <1>a, <2>1, <2>11 DEF TransferIsInStep
    <3>1. <<"received", t, received>> \notin posted \/ (q = 0 /\ -q = 0)
      <4> DEFINE back == -q
      <4>0. back = 0 - q
        BY <2>3
      <4> HIDE DEF back
      <4>1. CASE q = 0
        <5>1. back = 0
          BY <4>0, <4>1
        <5> QED BY <4>1, <5>1 DEF back
      <4>2. CASE q # 0
        <5>1. ~(received <= transfer[t].received)
          BY <2>2, <2>3, <2>5, <4>2
        <5> QED BY <2>3, <3>0, <5>1
      <4> QED BY <4>1, <4>2
    <3>2. /\ books'.inventory = books.inventory + q /\ books'.transit = books.transit + -q
          /\ posted \subseteq posted'
          /\ \A k \in posted' : k \in posted \/ k = <<"received", t, received>>
      BY <1>0, <2>1, <2>3, <3>1, PostedFirst
    <3>3. TransferIsInStep(t)'
      <4>1. ASSUME NEW n \in Nat, <<"received", t, n>> \in posted' PROVE n <= received
        <5>1. CASE <<"received", t, n>> \in posted
          BY <2>2, <2>3, <2>5, <3>0, <5>1
        <5>2. CASE <<"received", t, n>> = <<"received", t, received>>
          BY <2>3, <5>2, KeysDiffer
        <5> QED BY <3>2, <4>1, <5>1, <5>2
      <4> QED BY <2>4, <2>6, <2>8, <3>0, <4>1 DEF TransferIsInStep, InTransit
    <3>4. ASSUME NEW u \in Transfers \ {t} PROVE TransferIsInStep(u)'
      BY <1>a, <2>8, <2>11, <3>2, KeysDiffer DEF TransferIsInStep
    <3>5. \A o \in Opnames : OpnameIsInStep(o)'
      BY <1>a, <2>1, <2>11, <3>2, KeysDiffer DEF OpnameIsInStep
    <3>6. DocumentsExplainStock' /\ LedgerFollowsGoods'
      <4> DEFINE zero == [v \in Warehouses |-> 0]
                 to == [v \in Warehouses |-> IF v = To[t] THEN q ELSE 0]
      <4>1. /\ zero \in [Warehouses -> Int] /\ to \in [Warehouses -> Int]
            /\ \A v \in Warehouses : zero[v] = 0 /\ to[v] = IF v = To[t] THEN q ELSE 0
        BY <2>3
      <4> HIDE DEF zero, to
      <4>2. RoadUnits' = RoadUnits + -q
        <5>1. RoadUnits \in Int
          BY <1>0, DocumentSums
        <5> DEFINE a == RoadUnits
                   b == transfer[t].shipped
                   c == transfer[t].received
        <5>2. RoadUnits' = a - (b - c) + (b - (c + q)) /\ a \in Int /\ b \in Int /\ c \in Int
          BY <2>3, <2>5, <2>6, <2>8, <5>1
        <5> HIDE DEF a, b, c
        <5>3. a - (b - c) + (b - (c + q)) = a + -q
          BY <2>3, <5>2
        <5> QED BY <5>2, <5>3 DEF a
      <4>3. ASSUME NEW v \in Warehouses
            PROVE  /\ SentFrom(v)' = SentFrom(v) + zero[v] /\ ArrivedAt(v)' = ArrivedAt(v) + to[v]
                   /\ CountedAt(v)' = CountedAt(v) + zero[v] /\ traded'[v] = traded[v] + zero[v]
                   /\ (IF v = To[t] THEN q ELSE 0) = zero[v] - zero[v] + to[v] + zero[v]
        <5>1. CountedAt(v)' = CountedAt(v) /\ CountedAt(v) \in Int /\ traded[v] \in Int /\ SentFrom(v) \in Int
          BY <1>0, <2>1, UnwrittenSums, DocumentSums
        <5>2. SentFrom(v)' = SentFrom(v) + zero[v]
          BY <2>3, <2>6, <2>8, <4>1, <5>1
        <5>3. ArrivedAt(v)' = ArrivedAt(v) + to[v]
          BY <2>3, <2>5, <2>6, <2>8, <4>1
        <5>4. (IF v = To[t] THEN q ELSE 0) = zero[v] - zero[v] + to[v] + zero[v]
          BY <2>3, <4>1
        <5>5. CountedAt(v)' = CountedAt(v) + zero[v]
          BY <4>1, <5>1
        <5>6. traded'[v] = traded[v] + zero[v]
          BY <2>1, <4>1, <5>1
        <5> QED BY <5>2, <5>3, <5>4, <5>5, <5>6
      <4>4. MovesTogether(To[t], q, -q, zero, to, zero, zero)
        BY <2>7, <3>2, <4>1, <4>2, <4>3 DEF MovesTogether
      <4> QED BY <1>0, <2>3, <2>11, <4>4, StaysExplained
    <3> QED BY <3>3, <3>4, <3>5, <3>6
  <2> QED BY <1>b, <2>1, <2>10, <2>11
<1>6. ASSUME NEW o \in Opnames, CreateOpname(o) PROVE DocumentsIInv'
  <2> DEFINE row == [opname[o] EXCEPT !.status = "COUNTING", !.system = onHand[Counted[o]]]
  <2>1. /\ opname[o].status = "NONE" /\ opname' = [opname EXCEPT ![o] = row]
        /\ UNCHANGED <<onHand, transfer, checked, books, posted, traded, disturbed>>
    BY <1>0, <1>6 DEF CreateOpname
  <2>2. row \in OpnameRows /\ row.status = "COUNTING"
    <3>1. opname[o] \in OpnameRows
      BY <1>0
    <3>2. onHand[Counted[o]] \in Nat
      BY <1>0, DocumentConstants
    <3> QED BY <3>1, <3>2 DEF OpnameRows
  <2> HIDE DEF row
  <2>3. /\ opname' \in [Opnames -> OpnameRows] /\ opname'[o] = row
        /\ \A p \in Opnames \ {o} : opname'[p] = opname[p]
    BY <1>0, <2>1, <2>2
  <2>s. \A w \in Warehouses : CountedAt(w)' = CountedAt(w)
    BY <1>0, <2>1, <2>2, OpnameMarked
  <2>4. StockDocumentsTypeOK'
    BY <1>0, <2>1, <2>3 DEF StockDocumentsTypeOK, TransferRows, OpnameRows
  <2>5. ASSUME disturbed = {} PROVE DocumentsExplainStock' /\ LedgerFollowsGoods'
    BY <1>0, <2>1, <2>s, <2>5, UnwrittenSums, NothingMoved
  <2>6. ASSUME disturbed = {} PROVE /\ \A u \in Transfers : TransferIsInStep(u)'
                                    /\ \A p \in Opnames : OpnameIsInStep(p)'
    BY <1>a, <2>1, <2>3, <2>6 DEF TransferIsInStep, OpnameIsInStep
  <2> QED BY <1>b, <2>1, <2>4, <2>5, <2>6
<1>7. ASSUME NEW r \in Sessions, NEW o \in Opnames, NEW counted \in 0..MaxStock, CountOpname(r, o, counted)
      PROVE  DocumentsIInv'
  <2> DEFINE row == [opname[o] EXCEPT !.counted = counted]
  <2>1. /\ opname' = [opname EXCEPT ![o] = row]
        /\ disturbed' = IF opname[o].status = "COMPLETED" THEN disturbed \cup {o} ELSE disturbed
        /\ checked' = [checked EXCEPT ![r] = NoDocument]
        /\ UNCHANGED <<onHand, transfer, books, posted, traded>>
    BY <1>0, <1>7 DEF CountOpname
  <2>2. row \in OpnameRows /\ row.status = opname[o].status
    BY <1>0, DocumentConstants DEF OpnameRows
  <2> HIDE DEF row
  <2>3. /\ opname' \in [Opnames -> OpnameRows] /\ opname'[o] = row
        /\ \A p \in Opnames \ {o} : opname'[p] = opname[p]
    BY <1>0, <2>1, <2>2
  <2>4. StockDocumentsTypeOK'
    BY <1>0, <2>1, <2>3 DEF StockDocumentsTypeOK, TransferRows, OpnameRows
  <2>5. disturbed' = {} => disturbed = {} /\ opname[o].status # "COMPLETED"
    BY <2>1
  <2>6. ASSUME disturbed = {}, opname[o].status # "COMPLETED" PROVE DocumentsExplainStock' /\ LedgerFollowsGoods'
    <3>1. \A w \in Warehouses : CountedAt(w)' = CountedAt(w)
      BY <1>0, <2>1, <2>2, <2>6, OpnameMarked
    <3> QED BY <1>0, <2>1, <2>6, <3>1, UnwrittenSums, NothingMoved
  <2>7. ASSUME disturbed = {} PROVE /\ \A u \in Transfers : TransferIsInStep(u)'
                                    /\ \A p \in Opnames : OpnameIsInStep(p)'
    BY <1>a, <2>1, <2>2, <2>3, <2>7 DEF TransferIsInStep, OpnameIsInStep
  <2> QED BY <1>b, <2>4, <2>5, <2>6, <2>7
<1>8. ASSUME NEW o \in Opnames, SubmitOpname(o) PROVE DocumentsIInv'
  <2> DEFINE row == [opname[o] EXCEPT !.status = "WAITING_APPROVAL"]
  <2>1. /\ opname' = [opname EXCEPT ![o] = row]
        /\ disturbed' = IF opname[o].status = "COMPLETED" THEN disturbed \cup {o} ELSE disturbed
        /\ UNCHANGED <<onHand, transfer, checked, books, posted, traded>>
    BY <1>0, <1>8 DEF SubmitOpname
  <2>2. row \in OpnameRows /\ row.status = "WAITING_APPROVAL"
    BY <1>0 DEF OpnameRows
  <2> HIDE DEF row
  <2>3. /\ opname' \in [Opnames -> OpnameRows] /\ opname'[o] = row
        /\ \A p \in Opnames \ {o} : opname'[p] = opname[p]
    BY <1>0, <2>1, <2>2
  <2>4. StockDocumentsTypeOK'
    BY <1>0, <2>1, <2>3 DEF StockDocumentsTypeOK, TransferRows, OpnameRows
  <2>5. disturbed' = {} => disturbed = {} /\ opname[o].status # "COMPLETED"
    BY <2>1
  <2>6. ASSUME disturbed = {}, opname[o].status # "COMPLETED" PROVE DocumentsExplainStock' /\ LedgerFollowsGoods'
    <3>1. \A w \in Warehouses : CountedAt(w)' = CountedAt(w)
      BY <1>0, <2>1, <2>2, <2>6, OpnameMarked
    <3> QED BY <1>0, <2>1, <2>6, <3>1, UnwrittenSums, NothingMoved
  <2>7. ASSUME disturbed = {}, opname[o].status # "COMPLETED"
        PROVE  /\ \A u \in Transfers : TransferIsInStep(u)'
               /\ \A p \in Opnames : OpnameIsInStep(p)'
    BY <1>a, <2>1, <2>3, <2>7 DEF TransferIsInStep, OpnameIsInStep
  <2> QED BY <1>b, <2>4, <2>5, <2>6, <2>7
<1>9. ASSUME NEW o \in Opnames, CompleteOpname(o) PROVE DocumentsIInv'
  <2> DEFINE q == Adjustment(o)
             row == [opname[o] EXCEPT !.status = "COMPLETED"]
             w == Counted[o]
  <2>1. /\ opname[o].status = "WAITING_APPROVAL" /\ onHand[w] + q \in 0..MaxStock /\ MoveGoods(w, q)
        /\ Post(<<"opname", o>>, q, 0) /\ opname' = [opname EXCEPT ![o] = row]
        /\ UNCHANGED <<transfer, checked, traded, disturbed>>
    BY <1>0, <1>9 DEF CompleteOpname
  <2>2. /\ row \in OpnameRows /\ row.status = "COMPLETED" /\ row.counted = opname[o].counted
        /\ row.system = opname[o].system /\ q \in Int /\ q = opname[o].counted - opname[o].system
    BY <1>0 DEF OpnameRows, Adjustment, Uncounted
  <2>3. w \in Warehouses /\ onHand[w] + q \in Nat /\ 0 \in Int
    BY <1>0, <2>1, DocumentConstants
  <2> HIDE DEF row, q, w
  <2>5. /\ onHand' \in [Warehouses -> Nat]
        /\ \A v \in Warehouses : onHand'[v] = onHand[v] + (IF v = w THEN q ELSE 0)
        /\ HeldUnits' = HeldUnits + q
    BY <1>0, <2>1, <2>2, <2>3, GoodsMoved
  <2>6. /\ opname' \in [Opnames -> OpnameRows] /\ opname'[o] = row
        /\ \A p \in Opnames \ {o} : opname'[p] = opname[p]
        /\ \A v \in Warehouses :
             CountedAt(v)' = CountedAt(v) + (IF Counted[o] = v
                THEN (IF row.status = "COMPLETED" THEN row.counted - row.system ELSE 0)
                     - (IF opname[o].status = "COMPLETED" THEN opname[o].counted - opname[o].system ELSE 0)
                ELSE 0)
    BY <1>0, <2>1, <2>2, OpnameWritten
  <2>7. books' \in [inventory : Int, transit : Int]
    BY <1>0, <2>1, <2>2, <2>3, PostTypes
  <2>8. StockDocumentsTypeOK'
    BY <1>0, <2>1, <2>5, <2>6, <2>7 DEF StockDocumentsTypeOK, TransferRows, OpnameRows
  <2>9. ASSUME disturbed = {}
        PROVE  /\ \A u \in Transfers : TransferIsInStep(u)'
               /\ \A p \in Opnames : OpnameIsInStep(p)'
               /\ DocumentsExplainStock' /\ LedgerFollowsGoods'
    <3>1. <<"opname", o>> \notin posted
      BY <1>a, <2>1, <2>9 DEF OpnameIsInStep
    <3>2. /\ books'.inventory = books.inventory + q /\ books'.transit = books.transit + 0
          /\ posted \subseteq posted'
          /\ \A k \in posted' : k \in posted \/ k = <<"opname", o>>
      BY <1>0, <2>1, <2>2, <2>3, <3>1, PostedFirst
    <3>3. \A u \in Transfers : TransferIsInStep(u)'
      BY <1>a, <2>1, <2>9, <3>2, KeysDiffer DEF TransferIsInStep
    <3>4. ASSUME NEW p \in Opnames \ {o} PROVE OpnameIsInStep(p)'
      BY <1>a, <2>6, <2>9, <3>2, KeysDiffer DEF OpnameIsInStep
    <3>5. OpnameIsInStep(o)'
      BY <2>2, <2>6 DEF OpnameIsInStep
    <3>6. DocumentsExplainStock' /\ LedgerFollowsGoods'
      <4> DEFINE zero == [v \in Warehouses |-> 0]
                 difference == [v \in Warehouses |-> IF v = w THEN q ELSE 0]
      <4>1. /\ zero \in [Warehouses -> Int] /\ difference \in [Warehouses -> Int]
            /\ \A v \in Warehouses : zero[v] = 0 /\ difference[v] = IF v = w THEN q ELSE 0
        BY <2>2
      <4> HIDE DEF zero, difference
      <4>2. RoadUnits' = RoadUnits + 0
        BY <1>0, <2>1, UnwrittenSums, DocumentSums
      <4>3. ASSUME NEW v \in Warehouses
            PROVE  /\ SentFrom(v)' = SentFrom(v) + zero[v] /\ ArrivedAt(v)' = ArrivedAt(v) + zero[v]
                   /\ CountedAt(v)' = CountedAt(v) + difference[v] /\ traded'[v] = traded[v] + zero[v]
                   /\ (IF v = w THEN q ELSE 0) = zero[v] - zero[v] + zero[v] + difference[v]
        <5>1. /\ SentFrom(v)' = SentFrom(v) /\ ArrivedAt(v)' = ArrivedAt(v)
              /\ SentFrom(v) \in Int /\ ArrivedAt(v) \in Int /\ traded[v] \in Int /\ CountedAt(v) \in Int
          BY <1>0, <2>1, UnwrittenSums, DocumentSums
        <5>2. SentFrom(v)' = SentFrom(v) + zero[v]
          BY <4>1, <5>1
        <5>3. ArrivedAt(v)' = ArrivedAt(v) + zero[v]
          BY <4>1, <5>1
        <5>4. (IF v = w THEN q ELSE 0) = zero[v] - zero[v] + zero[v] + difference[v]
          <6>1. zero[v] = 0 /\ difference[v] = IF v = w THEN q ELSE 0
            BY <4>1
          <6>2. (IF v = w THEN q ELSE 0) \in Int
            BY <2>2
          <6> HIDE DEF w
          <6> QED BY ONLY <6>1, <6>2
        <5>5. CountedAt(v)' = CountedAt(v) + difference[v]
          <6>1. CASE v = w
            BY <2>1, <2>2, <2>6, <4>1, <6>1 DEF w
          <6>2. CASE v # w
            BY <2>6, <4>1, <5>1, <6>2 DEF w
          <6> QED BY <6>1, <6>2
        <5>6. traded'[v] = traded[v] + zero[v]
          BY <2>1, <4>1, <5>1
        <5> QED BY <5>2, <5>3, <5>4, <5>5, <5>6
      <4>4. MovesTogether(w, q, 0, zero, zero, difference, zero)
        BY <2>5, <3>2, <4>1, <4>2, <4>3 DEF MovesTogether
      <4> QED BY <1>0, <2>2, <2>3, <2>9, <4>4, StaysExplained
    <3> QED BY <3>3, <3>4, <3>5, <3>6
  <2> QED BY <1>b, <2>1, <2>8, <2>9
<1>10. ASSUME NEW w \in Warehouses, NEW q \in {-1, 1}, Trade(w, q) PROVE DocumentsIInv'
  <2>1. /\ onHand[w] + q \in 0..MaxStock /\ MoveGoods(w, q)
        /\ traded' = [traded EXCEPT ![w] = @ + q] /\ books' = [books EXCEPT !.inventory = @ + q]
        /\ UNCHANGED <<transfer, opname, checked, posted, disturbed>>
    BY <1>10 DEF Trade
  <2>2. q \in Int /\ 0 \in Int
    BY <1>10
  <2>3. onHand[w] + q \in Nat
    BY <2>1, DocumentConstants
  <2>4. /\ onHand' \in [Warehouses -> Nat]
        /\ \A v \in Warehouses : onHand'[v] = onHand[v] + (IF v = w THEN q ELSE 0)
        /\ HeldUnits' = HeldUnits + q
    BY <1>0, <2>1, <2>2, <2>3, GoodsMoved
  <2>5. /\ traded' \in [Warehouses -> Int]
        /\ traded'[w] = traded[w] + q /\ \A v \in Warehouses \ {w} : traded'[v] = traded[v]
    BY <1>0, <2>1, <2>2
  <2>6. /\ books' \in [inventory : Int, transit : Int] /\ books.transit \in Int
        /\ books'.inventory = books.inventory + q /\ books'.transit = books.transit
    BY <1>0, <2>1, <2>2
  <2>7. StockDocumentsTypeOK'
    BY <1>0, <2>1, <2>4, <2>5, <2>6 DEF StockDocumentsTypeOK, TransferRows, OpnameRows
  <2>8. ASSUME disturbed = {} PROVE /\ \A u \in Transfers : TransferIsInStep(u)'
                                    /\ \A p \in Opnames : OpnameIsInStep(p)'
    BY <1>a, <2>1, <2>8 DEF TransferIsInStep, OpnameIsInStep
  <2>9. ASSUME disturbed = {} PROVE DocumentsExplainStock' /\ LedgerFollowsGoods'
    <3> DEFINE zero == [v \in Warehouses |-> 0]
               units == [v \in Warehouses |-> IF v = w THEN q ELSE 0]
    <3>1. /\ zero \in [Warehouses -> Int] /\ units \in [Warehouses -> Int]
          /\ \A v \in Warehouses : zero[v] = 0 /\ units[v] = IF v = w THEN q ELSE 0
      BY <2>2
    <3> HIDE DEF zero, units
    <3>2. RoadUnits' = RoadUnits + 0 /\ books'.transit = books.transit + 0
      BY <1>0, <2>1, <2>6, UnwrittenSums, DocumentSums
    <3>3. ASSUME NEW v \in Warehouses
          PROVE  /\ SentFrom(v)' = SentFrom(v) + zero[v] /\ ArrivedAt(v)' = ArrivedAt(v) + zero[v]
                 /\ CountedAt(v)' = CountedAt(v) + zero[v] /\ traded'[v] = traded[v] + units[v]
                 /\ (IF v = w THEN q ELSE 0) = units[v] - zero[v] + zero[v] + zero[v]
      <4>1. /\ SentFrom(v)' = SentFrom(v) /\ ArrivedAt(v)' = ArrivedAt(v) /\ CountedAt(v)' = CountedAt(v)
            /\ SentFrom(v) \in Int /\ ArrivedAt(v) \in Int /\ traded[v] \in Int /\ CountedAt(v) \in Int
        BY <1>0, <2>1, UnwrittenSums, DocumentSums
      <4>2. /\ SentFrom(v)' = SentFrom(v) + zero[v] /\ ArrivedAt(v)' = ArrivedAt(v) + zero[v]
            /\ CountedAt(v)' = CountedAt(v) + zero[v]
        BY <3>1, <4>1
      <4>3. traded'[v] = traded[v] + units[v]
        BY <2>2, <2>5, <3>1, <4>1
      <4>4. (IF v = w THEN q ELSE 0) = units[v] - zero[v] + zero[v] + zero[v]
        BY <2>2, <3>1
      <4> QED BY <4>2, <4>3, <4>4
    <3>4. MovesTogether(w, q, 0, zero, zero, zero, units)
      BY <2>4, <2>6, <3>1, <3>2, <3>3 DEF MovesTogether
    <3> QED BY <1>0, <2>2, <2>9, <3>4, StaysExplained
  <2> QED BY <1>b, <2>1, <2>7, <2>8, <2>9
<1>11. ASSUME UNCHANGED documentVars PROVE DocumentsIInv'
  <2>1. UNCHANGED <<onHand, transfer, opname, checked, books, posted, traded, disturbed>>
    BY <1>11 DEF documentVars
  <2>2. StockDocumentsTypeOK'
    BY <1>0, <2>1 DEF StockDocumentsTypeOK
  <2>3. ASSUME disturbed = {} PROVE DocumentsExplainStock' /\ LedgerFollowsGoods'
    BY <1>0, <2>1, <2>3, UnwrittenSums, NothingMoved
  <2>4. ASSUME disturbed = {} PROVE /\ \A u \in Transfers : TransferIsInStep(u)'
                                    /\ \A o \in Opnames : OpnameIsInStep(o)'
    BY <1>a, <2>1, <2>4 DEF TransferIsInStep, OpnameIsInStep
  <2> QED BY <1>b, <2>1, <2>2, <2>3, <2>4
<1>12. ASSUME NEW r \in Sessions, NEW t \in Transfers, CheckApproval(r, t) PROVE DocumentsIInv'
  BY <1>2, <1>12 DEF CheckApproval
<1>13. ASSUME NEW r \in Sessions, NEW o \in Opnames, CheckCount(r, o) PROVE DocumentsIInv'
  BY <1>2, <1>13 DEF CheckCount
<1>14. CASE DocumentsNext
  BY <1>1, <1>3, <1>4, <1>5, <1>6, <1>7, <1>8, <1>9, <1>10, <1>12, <1>13, <1>14 DEF DocumentsNext
<1> QED BY <1>11, <1>14

(* Transfers, counts, stock and ledger keep their invariant, for any       *)
(* documents, warehouses and requests (AdvancedInventoryService).          *)
THEOREM DocumentsInvariance == DocumentsSpec => []DocumentsIInv
<1>1. DocumentsInit => DocumentsIInv
  <2> SUFFICES ASSUME DocumentsInit PROVE DocumentsIInv
    OBVIOUS
  <2>1. /\ onHand = Opening /\ transfer = [t \in Transfers |-> NoTransfer]
        /\ opname = [o \in Opnames |-> NoOpname] /\ checked = [r \in Sessions |-> NoDocument]
        /\ books = [inventory |-> UnitsIn(Warehouses, Opening), transit |-> 0]
        /\ posted = {} /\ disturbed = {} /\ traded = [w \in Warehouses |-> 0]
    BY DEF DocumentsInit
  <2>2. NoTransfer \in TransferRows /\ NoOpname \in OpnameRows /\ NoTransfer.status = "NONE"
        /\ NoTransfer.shipped = 0 /\ NoTransfer.received = 0 /\ NoOpname.status = "NONE"
    BY DEF NoTransfer, NoOpname, TransferRows, OpnameRows, Uncounted, InTransit
  <2>3. UnitsIn(Warehouses, Opening) \in Int
    BY DocumentConstants, SumType DEF UnitsIn
  <2>4. StockDocumentsTypeOK
    BY <2>1, <2>2, <2>3, DocumentConstants DEF StockDocumentsTypeOK, TransferRows, OpnameRows
  <2>5. DocumentsInStep
    BY <2>1, <2>2 DEF DocumentsInStep, TransferIsInStep, OpnameIsInStep, InTransit
  <2>6. /\ \A t \in Transfers : Sent[t] = 0 /\ Arrived[t] = 0 /\ OnTheRoad[t] = 0
        /\ \A o \in Opnames : OpnameEffect[o] = 0
    BY <2>1, <2>2 DEF Sent, Arrived, OnTheRoad, OpnameEffect
  <2>7. ASSUME NEW w \in Warehouses PROVE SentFrom(w) = 0 /\ ArrivedAt(w) = 0 /\ CountedAt(w) = 0
    <3> DEFINE A == {t \in Transfers : From[t] = w}
               B == {t \in Transfers : To[t] = w}
               C == {o \in Opnames : Counted[o] = w}
    <3>1. /\ IsFiniteSet(A) /\ IsFiniteSet(B) /\ IsFiniteSet(C)
          /\ A \subseteq Transfers /\ B \subseteq Transfers /\ C \subseteq Opnames
      BY DocumentConstants, FS_Subset
    <3>2. /\ SentFrom(w) = SumFunctionOnSet(Sent, A) /\ ArrivedAt(w) = SumFunctionOnSet(Arrived, B)
          /\ CountedAt(w) = SumFunctionOnSet(OpnameEffect, C)
      BY DEF SentFrom, ArrivedAt, CountedAt
    <3> HIDE DEF A, B, C
    <3>3. SumFunctionOnSet(Sent, A) = 0
      BY <2>6, <3>1, SumOfZeros
    <3>4. SumFunctionOnSet(Arrived, B) = 0
      BY <2>6, <3>1, SumOfZeros
    <3>5. SumFunctionOnSet(OpnameEffect, C) = 0
      BY <2>6, <3>1, SumOfZeros
    <3> QED BY <3>2, <3>3, <3>4, <3>5
  <2>8. SumFunction(OnTheRoad) = 0
    <3>1. DOMAIN OnTheRoad = Transfers
      BY DEF OnTheRoad
    <3> QED BY <2>6, <3>1, DocumentConstants, SumOfZeros DEF SumFunction
  <2>9. DocumentsExplainStock
    <3>1. ASSUME NEW w \in Warehouses
          PROVE  onHand[w] = Opening[w] + traded[w] - SentFrom(w) + ArrivedAt(w) + CountedAt(w)
      BY <2>1, <2>7, DocumentConstants
    <3> QED BY <3>1 DEF DocumentsExplainStock, SentFrom, ArrivedAt, CountedAt
  <2>10. LedgerFollowsGoods
    BY <2>1, <2>8 DEF LedgerFollowsGoods
  <2> QED BY <2>4, <2>5, <2>9, <2>10 DEF DocumentsIInv
<1>2. DocumentsIInv /\ [DocumentsNext]_documentVars => DocumentsIInv'
  BY DocumentsStep
<1> QED BY <1>1, <1>2, PTL DEF DocumentsSpec

(* Every unit is accounted for: whatever two requests interleave between   *)
(* their check and their write, and however often a key suppresses an      *)
(* event, stock and ledger tell the same story as long as no document has  *)
(* been taken back behind a posted step (shipTransfer, receiveTransfer,    *)
(* completeOpname, approveTransfer, countOpname of AdvancedInventory).     *)
THEOREM DocumentsCorrect == DocumentsSpec => []StockIsAccountedFor
<1>1. DocumentsIInv => StockIsAccountedFor
  BY DEF DocumentsIInv, StockIsAccountedFor
<1> QED BY <1>1, DocumentsInvariance, PTL

-----------------------------------------------------------------------------
(* Delivery trips.  A stop is where its trip has got to, an item where its *)
(* stop has, and a trip that is open has a vehicle; what a shipment row    *)
(* says can only be overtaken by something that also happened.             *)

VehicleRows == [status : {"AVAILABLE", "ASSIGNED", "ON_TRIP", "MAINTENANCE"}, odometer : Odometer]
TripRows == [status : {"NONE", "DRAFT", "READY_TO_DISPATCH", "DISPATCHED", "CLOSED"} \cup Settled,
             vehicle : Vehicles \cup {Absent}, cod : Nat, start : Odometer]
StopRows == [status : {"PENDING", "DELIVERED"} \cup Undelivered, trip : Trips \cup {Absent}, cod : Nat]
ItemRows == [status : {"PENDING", "LOADED", "DELIVERED", "RETURN_PENDING", "RETURNED"},
             trip : Trips \cup {Absent}, stop : Stops \cup {Absent}]

TripIsManned(t) == OpenTrip(t) => trip[t].vehicle \in Vehicles

StopIsInStep(s) ==
  LET t == stop[s].trip IN
  /\ t = Absent => stop[s].status = "PENDING"
  /\ t # Absent => /\ trip[t].status # "NONE"
                   /\ trip[t].status \in {"DRAFT", "READY_TO_DISPATCH"} => stop[s].status = "PENDING"
                   /\ trip[t].status \in Settled => stop[s].status # "PENDING"
                   /\ trip[t].status = "CLOSED" => stop[s].status \in {"DELIVERED", "RETURNED"}

CashIsInStep(s) == stop[s].cod <= CashDue[s]

ItemIsInStep(i) ==
  /\ item[i].trip = Absent => item[i].stop = Absent
  /\ item[i].trip # Absent => trip[item[i].trip].status # "NONE"
  /\ item[i].stop # Absent =>
       /\ stop[item[i].stop].trip = item[i].trip
       /\ stop[item[i].stop].status = "DELIVERED" => item[i].status = "DELIVERED"
       /\ trip[item[i].trip].status = "CLOSED" /\ stop[item[i].stop].status = "RETURNED" =>
            item[i].status = "RETURNED"

CashIsCounted(t) == trip[t].cod = SumFunctionOnSet(CashTaken, StopsOf(t))

ShipmentIsSound(h) ==
  /\ shipment[h] = "READY"      => sold[h] = "PACKED" /\ ~Carried(h)
  /\ shipment[h] = "IN_TRANSIT" => sold[h] = "SHIPPED" \/ Carried(h)
  /\ shipment[h] = "DELIVERED"  => sold[h] = "COMPLETED" \/ Ended(h, {"DELIVERED"})
  /\ shipment[h] = "FAILED"     => Ended(h, Undelivered)
  /\ shipment[h] = "RETURNED"   => Ended(h, {"RETURNED"})
  /\ shipment[h] = "CANCELLED"  => sold[h] = "CANCELLED"

DeliveriesIInv ==
  /\ DeliveriesTypeOK /\ OneTripPerVehicle
  /\ \A t \in Trips : TripIsManned(t) /\ CashIsCounted(t)
  /\ \A s \in Stops : StopIsInStep(s) /\ CashIsInStep(s)
  /\ \A i \in Items : ItemIsInStep(i)
  /\ \A h \in Shipments : ShipmentIsSound(h)

LEMMA DeliveryConstants ==
  /\ IsFiniteSet(Stops) /\ Absent \notin Vehicles /\ Absent \notin Trips /\ Absent \notin Stops
  /\ \A s \in Stops : ShipmentOf[s] \in Shipments /\ CodExpected[s] \in Nat
  /\ \A i \in Items : ShipmentOfItem[i] \in Shipments
  /\ MaxOdometer \in Nat /\ 0 \in Odometer
<1>1. ShipmentOf \in [Stops -> Shipments] /\ ShipmentOfItem \in [Items -> Shipments] /\ CodExpected \in [Stops -> Nat]
  BY DeliveriesAssumption
<1> QED BY <1>1, DeliveriesAssumption DEF Odometer

LEMMA DeliveryTypes ==
  DeliveriesTypeOK <=>
    /\ vehicle \in [Vehicles -> VehicleRows] /\ trip \in [Trips -> TripRows]
    /\ stop \in [Stops -> StopRows] /\ item \in [Items -> ItemRows]
    /\ gatePass \in [Trips -> {"NONE", "DRAFT", "APPROVED", "EXITED"}]
    /\ shipment \in [Shipments -> {"READY", "IN_TRANSIT", "DELIVERED", "FAILED", "RETURNED", "CANCELLED"}]
    /\ sold \in [Shipments -> {"PACKED", "SHIPPED", "COMPLETED", "CANCELLED"}]
BY DEF DeliveriesTypeOK, VehicleRows, TripRows, StopRows, ItemRows

\* Trips stay on their side of every line that their vehicles are asked about.
LEMMA VehiclesUnmoved ==
  ASSUME OneTripPerVehicle,
         \A t \in Trips : /\ trip'[t].vehicle = trip[t].vehicle
                          /\ OpenTrip(t)' <=> OpenTrip(t)
                          /\ trip'[t].status \in Away <=> trip[t].status \in Away,
         \A v \in Vehicles : vehicle'[v].status = vehicle[v].status
  PROVE  OneTripPerVehicle'
BY DEF OneTripPerVehicle

\* A stop that is over stays over.
StopsStayOver ==
  \A s \in Stops : /\ stop[s].status = "DELIVERED" => stop'[s].status = "DELIVERED"
                   /\ stop[s].status = "RETURNED" => stop'[s].status = "RETURNED"
                   /\ stop[s].status \in Undelivered => stop'[s].status \in Undelivered

LEMMA ShipmentKept ==
  ASSUME NEW h \in Shipments, ShipmentIsSound(h), StopsStayOver,
         shipment'[h] = shipment[h], sold'[h] = sold[h], Carried(h)' <=> Carried(h)
  PROVE  ShipmentIsSound(h)'
<1>1. /\ Ended(h, {"DELIVERED"}) => Ended(h, {"DELIVERED"})'
      /\ Ended(h, {"RETURNED"}) => Ended(h, {"RETURNED"})'
      /\ Ended(h, Undelivered) => Ended(h, Undelivered)'
  BY DEF StopsStayOver, Ended
<1> QED BY <1>1 DEF ShipmentIsSound

\* Cash of trips whose stops and cash are as they were.
LEMMA CashUnmoved ==
  ASSUME \A s \in Stops : stop'[s].cod = stop[s].cod, NEW t \in Trips, StopsOf(t)' = StopsOf(t),
         trip'[t].cod = trip[t].cod, CashIsCounted(t)
  PROVE  CashIsCounted(t)'
<1>1. CashTaken' = CashTaken
  BY DEF CashTaken
<1> QED BY <1>1 DEF CashIsCounted

LEMMA DeliveriesStep ==
  ASSUME DeliveriesIInv, [DeliveriesNext]_deliveryVars
  PROVE  DeliveriesIInv'
<1>0. /\ vehicle \in [Vehicles -> VehicleRows] /\ trip \in [Trips -> TripRows]
      /\ stop \in [Stops -> StopRows] /\ item \in [Items -> ItemRows]
      /\ gatePass \in [Trips -> {"NONE", "DRAFT", "APPROVED", "EXITED"}]
      /\ shipment \in [Shipments -> {"READY", "IN_TRANSIT", "DELIVERED", "FAILED", "RETURNED", "CANCELLED"}]
      /\ sold \in [Shipments -> {"PACKED", "SHIPPED", "COMPLETED", "CANCELLED"}]
      /\ DeliveriesTypeOK /\ OneTripPerVehicle
  BY DeliveryTypes DEF DeliveriesIInv
<1>a. /\ \A t \in Trips : TripIsManned(t) /\ CashIsCounted(t)
      /\ \A s \in Stops : StopIsInStep(s) /\ CashIsInStep(s)
      /\ \A i \in Items : ItemIsInStep(i)
      /\ \A h \in Shipments : ShipmentIsSound(h)
  BY DEF DeliveriesIInv
<1>b. ASSUME vehicle' \in [Vehicles -> VehicleRows], trip' \in [Trips -> TripRows],
             stop' \in [Stops -> StopRows], item' \in [Items -> ItemRows],
             gatePass' \in [Trips -> {"NONE", "DRAFT", "APPROVED", "EXITED"}],
             shipment' \in [Shipments -> {"READY", "IN_TRANSIT", "DELIVERED", "FAILED", "RETURNED", "CANCELLED"}],
             sold' \in [Shipments -> {"PACKED", "SHIPPED", "COMPLETED", "CANCELLED"}]
      PROVE  DeliveriesTypeOK'
  BY <1>b DEF DeliveriesTypeOK, VehicleRows, TripRows, StopRows, ItemRows
<1>c. ASSUME DeliveriesTypeOK', OneTripPerVehicle',
             \A t \in Trips : TripIsManned(t)', \A t \in Trips : CashIsCounted(t)',
             \A s \in Stops : StopIsInStep(s)', \A s \in Stops : CashIsInStep(s)',
             \A i \in Items : ItemIsInStep(i)', \A h \in Shipments : ShipmentIsSound(h)'
      PROVE  DeliveriesIInv'
  BY <1>c DEF DeliveriesIInv
<1>1. ASSUME NEW t \in Trips, NEW v \in Vehicles, NEW start \in Odometer, NEW stops \in SUBSET Stops,
             NEW items \in SUBSET Items, NEW place \in [items -> stops \cup {Absent}],
             CreateTrip(t, v, start, stops, items, place)
      PROVE  DeliveriesIInv'
  <2>1. /\ trip[t].status = "NONE" /\ vehicle[v].status = "AVAILABLE"
        /\ \A s \in stops : stop[s].trip = Absent
        /\ \A i \in items : item[i].trip = Absent
        /\ UNCHANGED <<gatePass, shipment, sold>>
    BY <1>1 DEF CreateTrip, Bookable, StopsOf, ItemsOf
  <2>2. /\ trip' \in [Trips -> TripRows] /\ \A u \in Trips \ {t} : trip'[u] = trip[u]
        /\ trip'[t].status = "DRAFT" /\ trip'[t].vehicle = v /\ trip'[t].cod = 0
    <3> DEFINE row == [status |-> "DRAFT", vehicle |-> v, cod |-> 0, start |-> start]
    <3>1. trip' = [trip EXCEPT ![t] = row]
      BY <1>1 DEF CreateTrip
    <3>2. row \in TripRows /\ row.status = "DRAFT" /\ row.vehicle = v /\ row.cod = 0
      BY DEF TripRows
    <3> HIDE DEF row
    <3> QED BY <1>0, <3>1, <3>2
  <2>3. /\ stop' \in [Stops -> StopRows]
        /\ \A s \in Stops : /\ stop'[s].status = stop[s].status /\ stop'[s].cod = stop[s].cod
                            /\ stop'[s].trip = IF s \in stops THEN t ELSE stop[s].trip
    <3>1. stop' = [s \in Stops |-> IF s \in stops THEN [stop[s] EXCEPT !.trip = t] ELSE stop[s]]
      BY <1>1 DEF CreateTrip
    <3>2. ASSUME NEW s \in Stops
          PROVE  /\ stop'[s] \in StopRows /\ stop'[s].status = stop[s].status /\ stop'[s].cod = stop[s].cod
                 /\ stop'[s].trip = IF s \in stops THEN t ELSE stop[s].trip
      <4>1. stop[s] \in StopRows
        BY <1>0
      <4>2. CASE s \in stops
        BY <3>1, <4>1, <4>2 DEF StopRows
      <4>3. CASE s \notin stops
        BY <3>1, <4>1, <4>3
      <4> QED BY <4>2, <4>3
    <3> QED BY <3>1, <3>2
  <2>4. /\ item' \in [Items -> ItemRows]
        /\ \A i \in Items : /\ item'[i].status = item[i].status
                            /\ item'[i].trip = IF i \in items THEN t ELSE item[i].trip
                            /\ item'[i].stop = IF i \in items THEN place[i] ELSE item[i].stop
    <3>1. item' = [i \in Items |-> IF i \in items THEN [item[i] EXCEPT !.trip = t, !.stop = place[i]] ELSE item[i]]
      BY <1>1 DEF CreateTrip
    <3>2. ASSUME NEW i \in Items
          PROVE  /\ item'[i] \in ItemRows /\ item'[i].status = item[i].status
                 /\ item'[i].trip = IF i \in items THEN t ELSE item[i].trip
                 /\ item'[i].stop = IF i \in items THEN place[i] ELSE item[i].stop
      <4>1. item[i] \in ItemRows
        BY <1>0
      <4>2. CASE i \in items
        <5>1. place[i] \in Stops \cup {Absent}
          BY <4>2
        <5> QED BY <3>1, <4>1, <4>2, <5>1 DEF ItemRows
      <4>3. CASE i \notin items
        BY <3>1, <4>1, <4>3
      <4> QED BY <4>2, <4>3
    <3> QED BY <3>1, <3>2
  <2>5. /\ vehicle' \in [Vehicles -> VehicleRows] /\ vehicle'[v].status = "ASSIGNED"
        /\ \A w \in Vehicles \ {v} : vehicle'[w] = vehicle[w]
    <3>1. vehicle' = [vehicle EXCEPT ![v].status = "ASSIGNED"]
      BY <1>1 DEF CreateTrip
    <3> QED BY <1>0, <3>1 DEF VehicleRows
  <2>6. \A s \in Stops : stop[s].trip # t
    BY <1>a, <2>1, DeliveryConstants DEF StopIsInStep
  <2>7. \A i \in Items : item[i].trip # t
    BY <1>a, <2>1, DeliveryConstants DEF ItemIsInStep
  <2>8. DeliveriesTypeOK'
    BY <1>0, <1>b, <2>1, <2>2, <2>3, <2>4, <2>5
  <2>9. OneTripPerVehicle'
    <3>1. \A u \in Trips : ~(OpenTrip(u) /\ trip[u].vehicle = v)
      BY <1>0, <2>1 DEF OneTripPerVehicle, OpenTrip
    <3>2. /\ OpenTrip(t)' /\ trip'[t].status \notin Away
          /\ \A u \in Trips \ {t} : OpenTrip(u)' <=> OpenTrip(u)
          /\ ~OpenTrip(t)
      BY <2>1, <2>2 DEF OpenTrip, Away, UnderWay, Settled
    <3>3. ASSUME NEW w \in Vehicles
          PROVE  /\ \A u, x \in Trips : trip'[u].vehicle = w /\ OpenTrip(u)' /\ trip'[x].vehicle = w /\ OpenTrip(x)' => u = x
                 /\ vehicle'[w].status = "ON_TRIP" <=>
                      \E u \in Trips : trip'[u].vehicle = w /\ OpenTrip(u)' /\ trip'[u].status \in Away
                 /\ vehicle'[w].status = "ASSIGNED" <=>
                      \E u \in Trips : trip'[u].vehicle = w /\ OpenTrip(u)' /\ trip'[u].status \notin Away
      <4>1. CASE w = v
        BY <2>2, <2>5, <3>1, <3>2, <4>1
      <4>2. CASE w # v
        BY <1>0, <2>2, <2>5, <3>2, <4>2 DEF OneTripPerVehicle
      <4> QED BY <4>1, <4>2
    <3> QED BY <3>3 DEF OneTripPerVehicle
  <2>10. \A u \in Trips : TripIsManned(u)'
    BY <1>a, <2>2 DEF TripIsManned, OpenTrip
  <2>11. ASSUME NEW u \in Trips PROVE CashIsCounted(u)'
    <3>1. CASE u = t
      <4> DEFINE cash2 == CashTaken'
                 T == StopsOf(t)'
      <4>1. T = stops
        BY <2>3, <2>6 DEF StopsOf
      <4>2. \A s \in T : cash2[s] = 0
        <5>1. \A s \in stops : stop[s].status = "PENDING" /\ stop[s].cod \in Nat
          BY <1>0, <1>a, <2>1 DEF StopIsInStep, StopRows
        <5>2. \A s \in stops : stop[s].cod = 0
          BY <1>a, <5>1 DEF CashIsInStep, CashDue
        <5> QED BY <2>3, <4>1, <5>2 DEF CashTaken
      <4>3. IsFiniteSet(T)
        BY <4>1, DeliveryConstants, FS_Subset
      <4> HIDE DEF cash2, T
      <4>4. SumFunctionOnSet(cash2, T) = 0
        BY <4>2, <4>3, SumOfZeros
      <4> QED BY <2>2, <3>1, <4>4 DEF cash2, T, CashIsCounted
    <3>2. CASE u # t
      <4>1. StopsOf(u)' = StopsOf(u)
        BY <2>1, <2>3, <3>2, DeliveryConstants DEF StopsOf
      <4> QED BY <1>a, <2>2, <2>3, <3>2, <4>1, CashUnmoved
    <3> QED BY <3>1, <3>2
  <2>12. ASSUME NEW s \in Stops PROVE StopIsInStep(s)' /\ CashIsInStep(s)'
    <3>1. CashIsInStep(s)'
      BY <1>a, <2>3 DEF CashIsInStep, CashDue
    <3>2. CASE s \in stops
      <4>1. stop'[s].trip = t /\ stop'[s].status = "PENDING" /\ t # Absent
        BY <1>a, <2>1, <2>3, <3>2, DeliveryConstants DEF StopIsInStep
      <4> QED BY <2>2, <3>1, <4>1 DEF StopIsInStep, Settled
    <3>3. CASE s \notin stops
      <4>1. stop'[s].trip = stop[s].trip /\ stop'[s].status = stop[s].status
        BY <2>3, <3>3
      <4>2. stop[s].trip # Absent => trip'[stop[s].trip] = trip[stop[s].trip]
        BY <1>0, <2>2, <2>6 DEF StopRows
      <4> QED BY <1>a, <3>1, <4>1, <4>2 DEF StopIsInStep
    <3> QED BY <3>1, <3>2, <3>3
  <2>13. ASSUME NEW i \in Items PROVE ItemIsInStep(i)'
    <3>1. CASE i \in items
      <4>1. item'[i].trip = t /\ item'[i].stop = place[i] /\ place[i] \in stops \cup {Absent}
        BY <2>4, <3>1
      <4>2. place[i] # Absent => /\ stop'[place[i]].trip = t /\ stop'[place[i]].status = "PENDING"
        BY <1>a, <2>1, <2>3, <4>1 DEF StopIsInStep
      <4> QED BY <2>2, <4>1, <4>2, DeliveryConstants DEF ItemIsInStep
    <3>2. CASE i \notin items
      <4>1. item'[i].trip = item[i].trip /\ item'[i].stop = item[i].stop /\ item'[i].status = item[i].status
        BY <2>4, <3>2
      <4>2. item[i].trip # Absent => trip'[item[i].trip] = trip[item[i].trip]
        BY <1>0, <2>2, <2>7 DEF ItemRows
      <4>3. item[i].stop # Absent => /\ item[i].stop \in Stops /\ item[i].stop \notin stops /\ item[i].trip # Absent
        BY <1>0, <1>a, <2>1 DEF ItemIsInStep, ItemRows
      <4>4. item[i].stop # Absent => /\ stop'[item[i].stop].trip = stop[item[i].stop].trip
                                     /\ stop'[item[i].stop].status = stop[item[i].stop].status
        BY <2>3, <4>3
      <4> QED BY <1>a, <4>1, <4>2, <4>3, <4>4 DEF ItemIsInStep
    <3> QED BY <3>1, <3>2
  <2>14. ASSUME NEW h \in Shipments PROVE ShipmentIsSound(h)'
    <3>1. StopsStayOver
      BY <2>3 DEF StopsStayOver
    <3>2. Carried(h)' <=> Carried(h)
      <4>1. ASSUME NEW i \in Items
            PROVE  (item'[i].trip # Absent /\ trip'[item'[i].trip].status \in {"CLOSED"} \cup UnderWay \cup Settled)
                     <=> (item[i].trip # Absent /\ trip[item[i].trip].status \in {"CLOSED"} \cup UnderWay \cup Settled)
        <5>1. CASE i \in items
          BY <2>1, <2>2, <2>4, <5>1 DEF UnderWay, Settled
        <5>2. CASE i \notin items
          BY <1>0, <2>2, <2>4, <2>7, <5>2 DEF ItemRows
        <5> QED BY <5>1, <5>2
      <4> QED BY <4>1 DEF Carried
    <3> QED BY <1>a, <2>1, <3>1, <3>2, ShipmentKept
  <2> QED BY <1>c, <2>8, <2>9, <2>10, <2>11, <2>12, <2>13, <2>14
<1>2. ASSUME NEW t \in Trips, ConfirmLoading(t) PROVE DeliveriesIInv'
  <2>1. trip[t].status = "DRAFT" /\ UNCHANGED <<vehicle, stop, gatePass, shipment, sold>>
    BY <1>2 DEF ConfirmLoading, Loading
  <2>2. /\ trip' \in [Trips -> TripRows] /\ \A u \in Trips \ {t} : trip'[u] = trip[u]
        /\ trip'[t].status = "READY_TO_DISPATCH" /\ trip'[t].vehicle = trip[t].vehicle /\ trip'[t].cod = trip[t].cod
    <3>1. trip' = [trip EXCEPT ![t].status = "READY_TO_DISPATCH"]
      BY <1>2 DEF ConfirmLoading
    <3> QED BY <1>0, <3>1 DEF TripRows
  <2>3. /\ item' \in [Items -> ItemRows]
        /\ \A i \in Items : /\ item'[i].trip = item[i].trip /\ item'[i].stop = item[i].stop
                            /\ item[i].trip # t => item'[i].status = item[i].status
    <3>1. item' = [i \in Items |-> IF i \in ItemsOf(t) THEN [item[i] EXCEPT !.status = "LOADED"] ELSE item[i]]
      BY <1>2 DEF ConfirmLoading
    <3>2. ASSUME NEW i \in Items
          PROVE  /\ item'[i] \in ItemRows /\ item'[i].trip = item[i].trip /\ item'[i].stop = item[i].stop
                 /\ item[i].trip # t => item'[i].status = item[i].status
      BY <1>0, <3>1, <3>2 DEF ItemRows, ItemsOf
    <3> QED BY <3>1, <3>2
  <2>4. DeliveriesTypeOK'
    BY <1>0, <1>b, <2>1, <2>2, <2>3
  <2>5. OneTripPerVehicle'
    <3>1. ASSUME NEW u \in Trips
          PROVE  /\ trip'[u].vehicle = trip[u].vehicle
                 /\ OpenTrip(u)' <=> OpenTrip(u)
                 /\ trip'[u].status \in Away <=> trip[u].status \in Away
      BY <2>1, <2>2 DEF OpenTrip, Away, UnderWay, Settled
    <3> QED BY <1>0, <2>1, <3>1, VehiclesUnmoved
  <2>6. \A u \in Trips : TripIsManned(u)'
    BY <1>a, <2>1, <2>2 DEF TripIsManned, OpenTrip
  <2>7. ASSUME NEW u \in Trips PROVE CashIsCounted(u)'
    <3>1. StopsOf(u)' = StopsOf(u) /\ trip'[u].cod = trip[u].cod
      BY <2>1, <2>2 DEF StopsOf
    <3> QED BY <1>a, <2>1, <3>1, CashUnmoved
  <2>8. ASSUME NEW s \in Stops PROVE StopIsInStep(s)' /\ CashIsInStep(s)'
    <3>1. CashIsInStep(s)'
      BY <1>a, <2>1 DEF CashIsInStep, CashDue
    <3>2. CASE stop[s].trip = t
      BY <1>a, <2>1, <2>2, <3>1, <3>2 DEF StopIsInStep, Settled
    <3>3. CASE stop[s].trip # t
      <4>1. stop[s].trip # Absent => trip'[stop[s].trip] = trip[stop[s].trip]
        BY <1>0, <2>2, <3>3 DEF StopRows
      <4> QED BY <1>a, <2>1, <3>1, <4>1 DEF StopIsInStep
    <3> QED BY <3>2, <3>3
  <2>9. ASSUME NEW i \in Items PROVE ItemIsInStep(i)'
    <3>1. item'[i].trip = item[i].trip /\ item'[i].stop = item[i].stop
      BY <2>3
    <3>2. item[i].stop # Absent => item[i].stop \in Stops /\ stop[item[i].stop].trip = item[i].trip
      BY <1>0, <1>a DEF ItemIsInStep, ItemRows
    <3>3. CASE item[i].trip = t
      <4>1. item[i].stop # Absent => stop[item[i].stop].status = "PENDING"
        BY <1>a, <2>1, <3>2, <3>3, DeliveryConstants DEF StopIsInStep
      <4> QED BY <2>1, <2>2, <3>1, <3>2, <3>3, <4>1, DeliveryConstants DEF ItemIsInStep
    <3>4. CASE item[i].trip # t
      <4>1. item[i].trip # Absent => trip'[item[i].trip] = trip[item[i].trip]
        BY <1>0, <2>2, <3>4 DEF ItemRows
      <4>2. item'[i].status = item[i].status /\ (item[i].stop # Absent => item[i].trip # Absent)
        BY <1>a, <2>3, <3>4 DEF ItemIsInStep
      <4> QED BY <1>a, <2>1, <3>1, <4>1, <4>2 DEF ItemIsInStep
    <3> QED BY <3>3, <3>4
  <2>10. ASSUME NEW h \in Shipments PROVE ShipmentIsSound(h)'
    <3>1. StopsStayOver
      BY <2>1 DEF StopsStayOver
    <3>2. \A i \in Items : item'[i].trip # Absent =>
            (trip'[item'[i].trip].status \in {"CLOSED"} \cup UnderWay \cup Settled
               <=> trip[item[i].trip].status \in {"CLOSED"} \cup UnderWay \cup Settled)
      BY <1>0, <2>1, <2>2, <2>3 DEF UnderWay, Settled, ItemRows
    <3>3. Carried(h)' <=> Carried(h)
      BY <2>3, <3>2 DEF Carried
    <3> QED BY <1>a, <2>1, <3>1, <3>3, ShipmentKept
  <2> QED BY <1>c, <2>4, <2>5, <2>6, <2>7, <2>8, <2>9, <2>10
<1>3. ASSUME UNCHANGED <<trip, stop, item>>,
             vehicle' \in [Vehicles -> VehicleRows], \A v \in Vehicles : vehicle'[v].status = vehicle[v].status,
             gatePass' \in [Trips -> {"NONE", "DRAFT", "APPROVED", "EXITED"}],
             shipment' \in [Shipments -> {"READY", "IN_TRANSIT", "DELIVERED", "FAILED", "RETURNED", "CANCELLED"}],
             sold' \in [Shipments -> {"PACKED", "SHIPPED", "COMPLETED", "CANCELLED"}],
             \A h \in Shipments : ShipmentIsSound(h)'
      PROVE  DeliveriesIInv'
  <2>1. DeliveriesTypeOK'
    BY <1>0, <1>b, <1>3
  <2>2. OneTripPerVehicle'
    BY <1>0, <1>3, VehiclesUnmoved DEF OpenTrip
  <2>3. \A u \in Trips : TripIsManned(u)'
    BY <1>a, <1>3 DEF TripIsManned, OpenTrip
  <2>4. ASSUME NEW u \in Trips PROVE CashIsCounted(u)'
    <3>1. StopsOf(u)' = StopsOf(u) /\ trip'[u].cod = trip[u].cod /\ \A s \in Stops : stop'[s].cod = stop[s].cod
      BY <1>3 DEF StopsOf
    <3> QED BY <1>a, <3>1, CashUnmoved
  <2>5. \A s \in Stops : StopIsInStep(s)' /\ CashIsInStep(s)'
    BY <1>a, <1>3 DEF StopIsInStep, CashIsInStep, CashDue
  <2>6. \A i \in Items : ItemIsInStep(i)'
    BY <1>a, <1>3 DEF ItemIsInStep
  <2> QED BY <1>3, <1>c, <2>1, <2>2, <2>3, <2>4, <2>5, <2>6
<1>4. ASSUME UNCHANGED <<trip, stop, item>>, NEW h \in Shipments, shipment'[h] = shipment[h], sold'[h] = sold[h]
      PROVE  ShipmentIsSound(h)'
  <2>1. StopsStayOver /\ (Carried(h)' <=> Carried(h))
    BY <1>4 DEF StopsStayOver, Carried
  <2> QED BY <1>a, <1>4, <2>1, ShipmentKept
<1>5. ASSUME NEW t \in Trips, NEW to \in {"DRAFT", "APPROVED", "EXITED"}, Gate(t, to) PROVE DeliveriesIInv'
  <2>1. /\ gatePass' \in [Trips -> {"NONE", "DRAFT", "APPROVED", "EXITED"}]
        /\ UNCHANGED <<vehicle, trip, stop, item, shipment, sold>>
    BY <1>0, <1>5 DEF Gate
  <2> QED BY <1>0, <1>3, <1>4, <2>1
<1>6. ASSUME NEW v \in Vehicles, NEW odometer \in Odometer, RecordFuel(v, odometer) PROVE DeliveriesIInv'
  <2>1. /\ vehicle' = [vehicle EXCEPT ![v].odometer = odometer]
        /\ UNCHANGED <<trip, stop, item, gatePass, shipment, sold>>
    BY <1>6 DEF RecordFuel
  <2>2. vehicle' \in [Vehicles -> VehicleRows] /\ \A w \in Vehicles : vehicle'[w].status = vehicle[w].status
    BY <1>0, <2>1 DEF VehicleRows
  <2> QED BY <1>0, <1>3, <1>4, <2>1, <2>2
<1>7. ASSUME NEW h \in Shipments, ShipOrder(h) \/ DeliverOrder(h) \/ CancelOrder(h) PROVE DeliveriesIInv'
  <2>1. PICK order \in {"SHIPPED", "COMPLETED", "CANCELLED"}, row \in {"IN_TRANSIT", "DELIVERED", "CANCELLED"} :
          /\ OrderMoves(h, order, row)
          /\ <<order, row>> \in {<<"SHIPPED", "IN_TRANSIT">>, <<"COMPLETED", "DELIVERED">>, <<"CANCELLED", "CANCELLED">>}
    BY <1>7 DEF ShipOrder, DeliverOrder, CancelOrder
  <2>2. /\ sold' \in [Shipments -> {"PACKED", "SHIPPED", "COMPLETED", "CANCELLED"}]
        /\ shipment' \in [Shipments -> {"READY", "IN_TRANSIT", "DELIVERED", "FAILED", "RETURNED", "CANCELLED"}]
        /\ sold'[h] = order /\ shipment'[h] = row
        /\ \A g \in Shipments \ {h} : sold'[g] = sold[g] /\ shipment'[g] = shipment[g]
        /\ UNCHANGED <<vehicle, trip, stop, item, gatePass>>
    BY <1>0, <2>1 DEF OrderMoves
  <2>3. ShipmentIsSound(h)'
    BY <2>1, <2>2 DEF ShipmentIsSound
  <2>4. \A g \in Shipments \ {h} : ShipmentIsSound(g)'
    BY <1>4, <2>2
  <2> QED BY <1>0, <1>3, <2>2, <2>3, <2>4
<1>8. ASSUME NEW t \in Trips, NEW start \in Odometer, Dispatch(t, start) PROVE DeliveriesIInv'
  <2> DEFINE v == trip[t].vehicle
  <2>1. trip[t].status = "READY_TO_DISPATCH" /\ UNCHANGED <<stop, item, sold>> /\ v \in Vehicles
    BY <1>a, <1>8 DEF Dispatch, TripIsManned, OpenTrip
  <2>2. /\ trip' \in [Trips -> TripRows] /\ \A u \in Trips \ {t} : trip'[u] = trip[u]
        /\ trip'[t].status = "DISPATCHED" /\ trip'[t].vehicle = v /\ trip'[t].cod = trip[t].cod
    <3>1. trip' = [trip EXCEPT ![t] = [@ EXCEPT !.status = "DISPATCHED", !.start = start]]
      BY <1>0, <1>8 DEF Dispatch
    <3> DEFINE row == [trip[t] EXCEPT !.status = "DISPATCHED", !.start = start]
    <3>2. row \in TripRows /\ row.status = "DISPATCHED" /\ row.vehicle = v /\ row.cod = trip[t].cod
      BY <1>0 DEF TripRows
    <3>3. trip' = [trip EXCEPT ![t] = row]
      BY <3>1
    <3> HIDE DEF row
    <3> QED BY <1>0, <3>2, <3>3
  <2>3. /\ vehicle' \in [Vehicles -> VehicleRows] /\ vehicle'[v].status = "ON_TRIP"
        /\ \A w \in Vehicles \ {v} : vehicle'[w] = vehicle[w]
    <3>1. vehicle' = [vehicle EXCEPT ![v] = [status |-> "ON_TRIP", odometer |-> start]]
      BY <1>8 DEF Dispatch
    <3> QED BY <1>0, <2>1, <3>1 DEF VehicleRows
  <2>4. /\ gatePass' \in [Trips -> {"NONE", "DRAFT", "APPROVED", "EXITED"}]
        /\ shipment' = [h \in Shipments |-> IF \E i \in ItemsOf(t) : ShipmentOfItem[i] = h
                                              THEN "IN_TRANSIT" ELSE shipment[h]]
    BY <1>0, <1>8 DEF Dispatch
  <2>5. /\ shipment' \in [Shipments -> {"READY", "IN_TRANSIT", "DELIVERED", "FAILED", "RETURNED", "CANCELLED"}]
        /\ \A h \in Shipments : \/ shipment'[h] = "IN_TRANSIT" /\ \E i \in Items : item[i].trip = t /\ ShipmentOfItem[i] = h
                                \/ shipment'[h] = shipment[h] /\ \A i \in Items : item[i].trip = t => ShipmentOfItem[i] # h
    BY <1>0, <2>4 DEF ItemsOf
  <2> HIDE DEF v
  <2>6. DeliveriesTypeOK'
    BY <1>0, <1>b, <2>1, <2>2, <2>3, <2>4, <2>5
  <2>7. OneTripPerVehicle'
    <3>1. /\ OpenTrip(t) /\ OpenTrip(t)' /\ trip[t].vehicle = v /\ trip'[t].status \in Away
          /\ \A u \in Trips \ {t} : OpenTrip(u)' <=> OpenTrip(u)
      BY <2>1, <2>2 DEF OpenTrip, Away, UnderWay, v
    <3>2. \A u \in Trips : OpenTrip(u) /\ trip[u].vehicle = v => u = t
      BY <1>0, <2>1, <3>1 DEF OneTripPerVehicle
    <3>3. ASSUME NEW w \in Vehicles
          PROVE  /\ \A u, x \in Trips : trip'[u].vehicle = w /\ OpenTrip(u)' /\ trip'[x].vehicle = w /\ OpenTrip(x)' => u = x
                 /\ vehicle'[w].status = "ON_TRIP" <=>
                      \E u \in Trips : trip'[u].vehicle = w /\ OpenTrip(u)' /\ trip'[u].status \in Away
                 /\ vehicle'[w].status = "ASSIGNED" <=>
                      \E u \in Trips : trip'[u].vehicle = w /\ OpenTrip(u)' /\ trip'[u].status \notin Away
      <4>1. CASE w = v
        BY <2>2, <2>3, <3>1, <3>2, <4>1
      <4>2. CASE w # v
        BY <1>0, <2>2, <2>3, <3>1, <4>2 DEF OneTripPerVehicle
      <4> QED BY <4>1, <4>2
    <3> QED BY <3>3 DEF OneTripPerVehicle
  <2>8. \A u \in Trips : TripIsManned(u)'
    BY <1>a, <2>1, <2>2 DEF TripIsManned, OpenTrip
  <2>9. ASSUME NEW u \in Trips PROVE CashIsCounted(u)'
    <3>1. StopsOf(u)' = StopsOf(u) /\ trip'[u].cod = trip[u].cod
      BY <2>1, <2>2 DEF StopsOf
    <3> QED BY <1>a, <2>1, <3>1, CashUnmoved
  <2>10. ASSUME NEW s \in Stops PROVE StopIsInStep(s)' /\ CashIsInStep(s)'
    <3>1. CashIsInStep(s)'
      BY <1>a, <2>1 DEF CashIsInStep, CashDue
    <3>2. CASE stop[s].trip = t
      BY <1>a, <2>1, <2>2, <3>1, <3>2, DeliveryConstants DEF StopIsInStep, Settled
    <3>3. CASE stop[s].trip # t
      <4>1. stop[s].trip # Absent => trip'[stop[s].trip] = trip[stop[s].trip]
        BY <1>0, <2>2, <3>3 DEF StopRows
      <4> QED BY <1>a, <2>1, <3>1, <4>1 DEF StopIsInStep
    <3> QED BY <3>2, <3>3
  <2>11. ASSUME NEW i \in Items PROVE ItemIsInStep(i)'
    <3>1. item[i].trip # Absent => item[i].trip \in Trips
      BY <1>0 DEF ItemRows
    <3>2. item[i].stop # Absent => item[i].trip # Absent
      BY <1>a DEF ItemIsInStep
    <3>3. item[i].trip # Absent =>
            /\ trip'[item[i].trip].status # "NONE"
            /\ trip'[item[i].trip].status = "CLOSED" => trip[item[i].trip].status = "CLOSED"
      BY <1>a, <2>2, <3>1 DEF ItemIsInStep
    <3> QED BY <1>a, <2>1, <3>2, <3>3 DEF ItemIsInStep
  <2>12. ASSUME NEW h \in Shipments PROVE ShipmentIsSound(h)'
    <3>1. CASE shipment'[h] = "IN_TRANSIT" /\ \E i \in Items : item[i].trip = t /\ ShipmentOfItem[i] = h
      <4>1. Carried(h)'
        BY <2>1, <2>2, <3>1, DeliveryConstants DEF Carried, UnderWay
      <4> QED BY <3>1, <4>1 DEF ShipmentIsSound
    <3>2. CASE shipment'[h] = shipment[h] /\ \A i \in Items : item[i].trip = t => ShipmentOfItem[i] # h
      <4>1. StopsStayOver
        BY <2>1 DEF StopsStayOver
      <4>2. \A i \in Items : ShipmentOfItem[i] = h /\ item[i].trip # Absent => trip'[item[i].trip] = trip[item[i].trip]
        BY <1>0, <2>2, <3>2 DEF ItemRows
      <4>3. Carried(h)' <=> Carried(h)
        BY <2>1, <4>2 DEF Carried
      <4> QED BY <1>a, <2>1, <3>2, <4>1, <4>3, ShipmentKept
    <3> QED BY <2>5, <3>1, <3>2
  <2> QED BY <1>c, <2>6, <2>7, <2>8, <2>9, <2>10, <2>11, <2>12
<1>9. ASSUME NEW s \in Stops, NEW status \in {"DELIVERED"} \cup Undelivered, NEW cod \in 0..CodExpected[s],
             CompleteStop(s, status, cod)
      PROVE  DeliveriesIInv'
  <2> DEFINE t == stop[s].trip
             ended == IF \E r \in StopsOf(t) : (IF r = s THEN status ELSE stop[r].status) = "PENDING"
                      THEN trip[t].status
                      ELSE IF \E r \in StopsOf(t) : (IF r = s THEN status ELSE stop[r].status) \in Undelivered
                        THEN "PARTIALLY_DELIVERED" ELSE "DELIVERED"
             total == TotalCod(t, s, cod)
             row == [trip[t] EXCEPT !.cod = total, !.status = ended]
             stopRow == [stop[s] EXCEPT !.status = status, !.cod = cod]
  <2>1. /\ t \in Trips /\ trip[t].status = "DISPATCHED" /\ stop[s].status = "PENDING"
        /\ cod \in Nat /\ cod <= CodExpected[s] /\ (status \notin {"DELIVERED", "PARTIAL"} => cod = 0)
        /\ UNCHANGED <<vehicle, gatePass, sold>>
    <3>1. /\ t # Absent /\ trip[t].status \in {"DISPATCHED", "PARTIALLY_DELIVERED"} /\ stop[s].status = "PENDING"
          /\ cod <= CodExpected[s] /\ (status \notin {"DELIVERED", "PARTIAL"} => cod = 0)
          /\ UNCHANGED <<vehicle, gatePass, sold>>
      BY <1>9 DEF CompleteStop
    <3>2. trip[t].status # "PARTIALLY_DELIVERED"
      BY <1>a, <3>1 DEF StopIsInStep, Settled
    <3>3. t \in Trips
      BY <1>0, <3>1 DEF StopRows
    <3>4. CodExpected[s] \in Nat
      BY DeliveryConstants
    <3> QED BY <3>1, <3>2, <3>3, <3>4
  <2>2. status \in {"DELIVERED", "FAILED", "PARTIAL", "RETURNED"}
    BY DEF Undelivered
  <2>3. /\ stop' = [stop EXCEPT ![s] = stopRow]
        /\ item' = [i \in Items |->
             IF item[i].stop = s
               THEN [item[i] EXCEPT !.status = IF status = "DELIVERED" THEN "DELIVERED" ELSE "RETURN_PENDING"]
               ELSE item[i]]
        /\ shipment' = [shipment EXCEPT ![ShipmentOf[s]] = AtStop(status)]
        /\ trip' = [trip EXCEPT ![t] = row]
    BY <1>0, <1>9, <2>1 DEF CompleteStop
  <2>4. /\ stopRow \in StopRows /\ stopRow.status = status /\ stopRow.cod = cod /\ stopRow.trip = t
    BY <1>0, <2>1, <2>2 DEF StopRows, Undelivered
  <2> HIDE DEF stopRow
  <2>5. /\ stop' \in [Stops -> StopRows] /\ stop'[s].status = status /\ stop'[s].cod = cod
        /\ \A r \in Stops \ {s} : stop'[r] = stop[r]
        /\ \A r \in Stops : stop'[r].trip = stop[r].trip
    BY <1>0, <2>3, <2>4
  <2>6. /\ item' \in [Items -> ItemRows]
        /\ \A i \in Items : /\ item'[i].trip = item[i].trip /\ item'[i].stop = item[i].stop
                            /\ item[i].stop # s => item'[i].status = item[i].status
                            /\ item[i].stop = s /\ status = "DELIVERED" => item'[i].status = "DELIVERED"
    <3>1. ASSUME NEW i \in Items
          PROVE  /\ item'[i] \in ItemRows
                 /\ item'[i].trip = item[i].trip /\ item'[i].stop = item[i].stop
                 /\ item[i].stop # s => item'[i].status = item[i].status
                 /\ item[i].stop = s /\ status = "DELIVERED" => item'[i].status = "DELIVERED"
      BY <1>0, <2>3, <3>1 DEF ItemRows
    <3> QED BY <2>3, <3>1
  <2>7. /\ ended \in {"DISPATCHED", "DELIVERED", "PARTIALLY_DELIVERED"}
        /\ ended \in Settled => \A r \in Stops : stop[r].trip = t => stop'[r].status # "PENDING"
    <3>1. \A r \in StopsOf(t) : (IF r = s THEN status ELSE stop[r].status) = stop'[r].status
      BY <2>5 DEF StopsOf
    <3>2. ended \in {"DISPATCHED", "DELIVERED", "PARTIALLY_DELIVERED"}
      BY <2>1
    <3>3. CASE \E r \in StopsOf(t) : stop'[r].status = "PENDING"
      <4>1. ended = "DISPATCHED"
        BY <2>1, <3>1, <3>3
      <4> QED BY <3>2, <4>1 DEF Settled
    <3>4. CASE \A r \in StopsOf(t) : stop'[r].status # "PENDING"
      BY <3>2, <3>4 DEF StopsOf
    <3> QED BY <3>3, <3>4
  <2>8. total = SumFunctionOnSet(CashTaken', StopsOf(t)) /\ total \in Nat
    <3> DEFINE cash2 == CashTaken'
               T == StopsOf(t)
    <3>1. [r \in Stops |-> IF r = s THEN cod ELSE stop[r].cod] = cash2
      BY <2>5 DEF CashTaken
    <3>2. IsFiniteSet(T) /\ \A r \in T : cash2[r] \in Nat
      <4>1. T \in SUBSET Stops
        BY DEF StopsOf
      <4>2. \A r \in Stops : cash2[r] \in Nat
        BY <2>5 DEF CashTaken, StopRows
      <4> QED BY <4>1, <4>2, DeliveryConstants, FS_Subset
    <3>3. total = SumFunctionOnSet(cash2, T)
      BY <3>1 DEF TotalCod
    <3> HIDE DEF cash2, T, total
    <3>4. SumFunctionOnSet(cash2, T) \in Nat
      BY <3>2, SumNat
    <3> QED BY <3>3, <3>4 DEF cash2, T
  <2> HIDE DEF total, ended
  <2>9. /\ row \in TripRows /\ row.status = ended /\ row.cod = total /\ row.vehicle = trip[t].vehicle
    BY <1>0, <2>1, <2>7, <2>8 DEF TripRows, Settled
  <2> HIDE DEF row, t
  <2>10. /\ trip' \in [Trips -> TripRows] /\ \A u \in Trips \ {t} : trip'[u] = trip[u]
         /\ trip'[t].status = ended /\ trip'[t].vehicle = trip[t].vehicle /\ trip'[t].cod = total
    BY <1>0, <2>1, <2>3, <2>9
  <2>11. /\ shipment' \in [Shipments -> {"READY", "IN_TRANSIT", "DELIVERED", "FAILED", "RETURNED", "CANCELLED"}]
         /\ shipment'[ShipmentOf[s]] = IF status = "DELIVERED" THEN "DELIVERED" ELSE "FAILED"
         /\ \A h \in Shipments : h # ShipmentOf[s] => shipment'[h] = shipment[h]
    BY <1>0, <2>3, DeliveryConstants DEF AtStop
  <2>12. DeliveriesTypeOK'
    BY <1>0, <1>b, <2>1, <2>5, <2>6, <2>10, <2>11
  <2>13. OneTripPerVehicle'
    <3>1. ASSUME NEW u \in Trips
          PROVE  /\ trip'[u].vehicle = trip[u].vehicle
                 /\ OpenTrip(u)' <=> OpenTrip(u)
                 /\ trip'[u].status \in Away <=> trip[u].status \in Away
      BY <2>1, <2>7, <2>10 DEF OpenTrip, Away, UnderWay, Settled
    <3> QED BY <1>0, <2>1, <3>1, VehiclesUnmoved
  <2>14. \A u \in Trips : TripIsManned(u)'
    BY <1>a, <2>1, <2>10 DEF TripIsManned, OpenTrip
  <2>15. ASSUME NEW u \in Trips PROVE CashIsCounted(u)'
    <3>1. StopsOf(u)' = StopsOf(u)
      BY <2>5 DEF StopsOf
    <3>2. CASE u = t
      BY <2>8, <2>10, <3>1, <3>2 DEF CashIsCounted
    <3>3. CASE u # t
      <4> DEFINE cash == CashTaken
                 cash2 == CashTaken'
                 T == StopsOf(u)
      <4>1. IsFiniteSet(T) /\ \A r \in T : cash[r] = cash2[r]
        <5>1. T \in SUBSET Stops /\ s \notin T
          BY <3>3 DEF StopsOf, t
        <5>2. IsFiniteSet(T)
          BY <5>1, DeliveryConstants, FS_Subset
        <5> QED BY <2>5, <5>1, <5>2 DEF CashTaken
      <4> HIDE DEF cash, cash2, T
      <4>2. SumFunctionOnSet(cash, T) = SumFunctionOnSet(cash2, T)
        BY <4>1, SumAgree
      <4> QED BY <1>a, <2>10, <3>1, <3>3, <4>2 DEF CashIsCounted, cash, cash2, T
    <3> QED BY <3>2, <3>3
  <2>16. ASSUME NEW r \in Stops PROVE StopIsInStep(r)'
    <3>1. CASE stop[r].trip = t
      <4>1. /\ stop'[r].trip = t /\ t # Absent /\ trip'[t].status = ended
            /\ ended \in {"DISPATCHED", "DELIVERED", "PARTIALLY_DELIVERED"}
            /\ ended \in Settled => stop'[r].status # "PENDING"
        BY <2>1, <2>5, <2>7, <2>10, <3>1, DeliveryConstants
      <4> QED BY <4>1 DEF StopIsInStep
    <3>2. CASE stop[r].trip # t
      <4>1. r # s
        BY <3>2 DEF t
      <4>2. stop[r].trip # Absent => trip'[stop[r].trip] = trip[stop[r].trip]
        BY <1>0, <2>10, <3>2 DEF StopRows
      <4> QED BY <1>a, <2>5, <4>1, <4>2 DEF StopIsInStep
    <3> QED BY <3>1, <3>2
  <2>17. ASSUME NEW r \in Stops PROVE CashIsInStep(r)'
    <3>1. CASE r = s
      BY <2>1, <2>2, <2>5, <3>1 DEF CashIsInStep, CashDue
    <3>2. CASE r # s
      BY <1>a, <2>5, <3>2 DEF CashIsInStep, CashDue
    <3> QED BY <3>1, <3>2
  <2>18. ASSUME NEW i \in Items PROVE ItemIsInStep(i)'
    <3>1. /\ item'[i].trip = item[i].trip /\ item'[i].stop = item[i].stop
          /\ item[i].trip # Absent => item[i].trip \in Trips
          /\ item[i].stop # Absent => item[i].stop \in Stops /\ item[i].trip # Absent
                                      /\ stop[item[i].stop].trip = item[i].trip
      BY <1>0, <1>a, <2>6 DEF ItemIsInStep, ItemRows
    <3>2. /\ item[i].trip # Absent /\ item[i].trip # t => trip'[item[i].trip] = trip[item[i].trip]
          /\ trip'[t].status \notin {"NONE", "CLOSED"}
      BY <2>7, <2>10, <3>1
    <3>3. CASE item[i].stop = s
      <4>1. item[i].trip = t /\ item[i].stop # Absent
        BY <3>1, <3>3, DeliveryConstants DEF t
      <4> QED BY <2>1, <2>5, <2>6, <3>1, <3>2, <3>3, <4>1, DeliveryConstants DEF ItemIsInStep
    <3>4. CASE item[i].stop # s
      <4>1. item'[i].status = item[i].status /\ (item[i].stop # Absent => stop'[item[i].stop] = stop[item[i].stop])
        BY <2>5, <2>6, <3>1, <3>4
      <4> QED BY <1>a, <3>1, <3>2, <4>1 DEF ItemIsInStep
    <3> QED BY <3>3, <3>4
  <2>19. ASSUME NEW h \in Shipments PROVE ShipmentIsSound(h)'
    <3>1. CASE h = ShipmentOf[s]
      <4>1. Ended(h, {status})'
        BY <2>5, <3>1 DEF Ended
      <4>2. status # "DELIVERED" => Ended(h, Undelivered)'
        BY <2>2, <2>5, <3>1 DEF Ended, Undelivered
      <4> QED BY <2>11, <3>1, <4>1, <4>2 DEF ShipmentIsSound
    <3>2. CASE h # ShipmentOf[s]
      <4>1. StopsStayOver
        BY <2>1, <2>5 DEF StopsStayOver, Undelivered
      <4>2. ASSUME NEW i \in Items, item[i].trip # Absent
            PROVE  trip'[item[i].trip].status \in {"CLOSED"} \cup UnderWay \cup Settled
                     <=> trip[item[i].trip].status \in {"CLOSED"} \cup UnderWay \cup Settled
        <5>1. item[i].trip \in Trips
          BY <1>0, <4>2 DEF ItemRows
        <5> QED BY <2>1, <2>7, <2>10, <5>1 DEF UnderWay, Settled
      <4>3. Carried(h)' <=> Carried(h)
        BY <2>6, <4>2 DEF Carried
      <4> QED BY <1>a, <2>1, <2>11, <3>2, <4>1, <4>3, ShipmentKept
    <3> QED BY <3>1, <3>2
  <2> QED BY <1>c, <2>12, <2>13, <2>14, <2>15, <2>16, <2>17, <2>18, <2>19
<1>10. ASSUME NEW t \in Trips, NEW end \in Odometer, NEW condition \in {"PASSED", "PARTIAL"},
              CloseTrip(t, end, condition)
       PROVE  DeliveriesIInv'
  <2> DEFINE v == trip[t].vehicle
             back == {s \in StopsOf(t) : stop[s].status \in Undelivered}
  <2>1. trip[t].status \in Settled /\ UNCHANGED <<gatePass, sold>> /\ v \in Vehicles
    BY <1>a, <1>10 DEF CloseTrip, TripIsManned, OpenTrip, Settled
  <2>2. /\ trip' \in [Trips -> TripRows] /\ \A u \in Trips \ {t} : trip'[u] = trip[u]
        /\ trip'[t].status = "CLOSED" /\ trip'[t].vehicle = v /\ trip'[t].cod = trip[t].cod
    <3>1. trip' = [trip EXCEPT ![t].status = "CLOSED"]
      BY <1>10 DEF CloseTrip
    <3> QED BY <1>0, <3>1 DEF TripRows
  <2>3. /\ vehicle' \in [Vehicles -> VehicleRows] /\ vehicle'[v].status \in {"AVAILABLE", "MAINTENANCE"}
        /\ \A w \in Vehicles \ {v} : vehicle'[w] = vehicle[w]
    <3>1. vehicle' = [vehicle EXCEPT ![v] =
             [status |-> IF condition = "PARTIAL" THEN "MAINTENANCE" ELSE "AVAILABLE", odometer |-> end]]
      BY <1>10 DEF CloseTrip
    <3> DEFINE row == [status |-> IF condition = "PARTIAL" THEN "MAINTENANCE" ELSE "AVAILABLE", odometer |-> end]
    <3>2. row \in VehicleRows /\ row.status \in {"AVAILABLE", "MAINTENANCE"} /\ vehicle' = [vehicle EXCEPT ![v] = row]
      BY <3>1 DEF VehicleRows
    <3> HIDE DEF row
    <3> QED BY <1>0, <2>1, <3>2
  <2>4. \A s \in Stops : s \in back <=> stop[s].trip = t /\ stop[s].status \in Undelivered
    BY DEF StopsOf
  <2>5. /\ stop' = [s \in Stops |-> IF s \in back THEN [stop[s] EXCEPT !.status = "RETURNED"] ELSE stop[s]]
        /\ item' = [i \in Items |-> IF item[i].stop \in back THEN [item[i] EXCEPT !.status = "RETURNED"] ELSE item[i]]
        /\ shipment' = [h \in Shipments |-> IF \E s \in back : ShipmentOf[s] = h THEN "RETURNED" ELSE shipment[h]]
    BY <1>10 DEF CloseTrip
  <2>a. back \subseteq Stops
    BY DEF StopsOf
  <2> HIDE DEF back, v
  <2>6. /\ stop' \in [Stops -> StopRows]
        /\ \A s \in Stops : /\ stop'[s].trip = stop[s].trip /\ stop'[s].cod = stop[s].cod
                            /\ stop'[s].status = IF s \in back THEN "RETURNED" ELSE stop[s].status
    <3>1. ASSUME NEW s \in Stops
          PROVE  /\ stop'[s] \in StopRows /\ stop'[s].trip = stop[s].trip /\ stop'[s].cod = stop[s].cod
                 /\ stop'[s].status = IF s \in back THEN "RETURNED" ELSE stop[s].status
      BY <1>0, <2>5, <3>1 DEF StopRows, Undelivered
    <3> QED BY <2>5, <3>1
  <2>7. /\ item' \in [Items -> ItemRows]
        /\ \A i \in Items : /\ item'[i].trip = item[i].trip /\ item'[i].stop = item[i].stop
                            /\ item'[i].status = IF item[i].stop \in back THEN "RETURNED" ELSE item[i].status
    <3>1. ASSUME NEW i \in Items
          PROVE  /\ item'[i] \in ItemRows /\ item'[i].trip = item[i].trip /\ item'[i].stop = item[i].stop
                 /\ item'[i].status = IF item[i].stop \in back THEN "RETURNED" ELSE item[i].status
      BY <1>0, <2>5, <3>1 DEF ItemRows
    <3> QED BY <2>5, <3>1
  <2>8. /\ shipment' \in [Shipments -> {"READY", "IN_TRANSIT", "DELIVERED", "FAILED", "RETURNED", "CANCELLED"}]
        /\ \A h \in Shipments : \/ shipment'[h] = "RETURNED" /\ \E s \in back : ShipmentOf[s] = h
                                \/ shipment'[h] = shipment[h]
    BY <1>0, <2>5
  <2>9. DeliveriesTypeOK'
    BY <1>0, <1>b, <2>1, <2>2, <2>3, <2>6, <2>7, <2>8
  <2>10. OneTripPerVehicle'
    <3>1. /\ OpenTrip(t) /\ ~OpenTrip(t)' /\ trip[t].vehicle = v
          /\ \A u \in Trips \ {t} : OpenTrip(u)' <=> OpenTrip(u)
      BY <2>1, <2>2 DEF OpenTrip, Settled, v
    <3>2. \A u \in Trips : OpenTrip(u) /\ trip[u].vehicle = v => u = t
      BY <1>0, <2>1, <3>1 DEF OneTripPerVehicle
    <3>3. ASSUME NEW w \in Vehicles
          PROVE  /\ \A u, x \in Trips : trip'[u].vehicle = w /\ OpenTrip(u)' /\ trip'[x].vehicle = w /\ OpenTrip(x)' => u = x
                 /\ vehicle'[w].status = "ON_TRIP" <=>
                      \E u \in Trips : trip'[u].vehicle = w /\ OpenTrip(u)' /\ trip'[u].status \in Away
                 /\ vehicle'[w].status = "ASSIGNED" <=>
                      \E u \in Trips : trip'[u].vehicle = w /\ OpenTrip(u)' /\ trip'[u].status \notin Away
      <4>1. CASE w = v
        BY <2>2, <2>3, <3>1, <3>2, <4>1
      <4>2. CASE w # v
        BY <1>0, <2>2, <2>3, <3>1, <4>2 DEF OneTripPerVehicle
      <4> QED BY <4>1, <4>2
    <3> QED BY <3>3 DEF OneTripPerVehicle
  <2>11. \A u \in Trips : TripIsManned(u)'
    BY <1>a, <2>2 DEF TripIsManned, OpenTrip
  <2>12. ASSUME NEW u \in Trips PROVE CashIsCounted(u)'
    <3>1. StopsOf(u)' = StopsOf(u) /\ trip'[u].cod = trip[u].cod
      BY <2>2, <2>6 DEF StopsOf
    <3> QED BY <1>a, <2>6, <3>1, CashUnmoved
  <2>13. ASSUME NEW s \in Stops PROVE StopIsInStep(s)'
    <3>1. CASE stop[s].trip = t
      <4>1. stop[s].status # "PENDING" /\ t # Absent
        BY <1>a, <2>1, <3>1, DeliveryConstants DEF StopIsInStep, Settled
      <4>2. stop'[s].status \in {"DELIVERED", "RETURNED"}
        BY <1>0, <2>4, <2>6, <3>1, <4>1 DEF StopRows, Undelivered
      <4> QED BY <2>2, <2>6, <3>1, <4>1, <4>2 DEF StopIsInStep, Settled
    <3>2. CASE stop[s].trip # t
      <4>1. stop[s].trip # Absent => trip'[stop[s].trip] = trip[stop[s].trip]
        BY <1>0, <2>2, <3>2 DEF StopRows
      <4>2. stop'[s].trip = stop[s].trip /\ stop'[s].status = stop[s].status
        BY <2>4, <2>6, <3>2
      <4> QED BY <1>a, <4>1, <4>2 DEF StopIsInStep
    <3> QED BY <3>1, <3>2
  <2>14. ASSUME NEW s \in Stops PROVE CashIsInStep(s)'
    <3>1. stop[s].cod \in Nat /\ CodExpected[s] \in Nat
      BY <1>0, DeliveryConstants DEF StopRows
    <3>2. CASE s \in back
      <4>1. stop[s].cod <= CodExpected[s]
        BY <1>a, <3>1 DEF CashIsInStep, CashDue
      <4> QED BY <2>6, <3>2, <4>1 DEF CashIsInStep, CashDue
    <3>3. CASE s \notin back
      BY <1>a, <2>6, <3>3 DEF CashIsInStep, CashDue
    <3> QED BY <3>2, <3>3
  <2>15. ASSUME NEW i \in Items PROVE ItemIsInStep(i)'
    <3>1. /\ item'[i].trip = item[i].trip /\ item'[i].stop = item[i].stop
          /\ item[i].trip # Absent => item[i].trip \in Trips
          /\ item[i].stop # Absent => item[i].stop \in Stops /\ item[i].trip # Absent
                                      /\ stop[item[i].stop].trip = item[i].trip
      BY <1>0, <1>a, <2>7 DEF ItemIsInStep, ItemRows
    <3>2. item[i].trip # Absent => trip'[item[i].trip].status # "NONE"
      BY <1>a, <2>2, <3>1 DEF ItemIsInStep
    <3>3. CASE item[i].stop \in back
      <4>1. item'[i].status = "RETURNED" /\ stop'[item[i].stop].status = "RETURNED"
            /\ stop'[item[i].stop].trip = stop[item[i].stop].trip /\ item[i].stop # Absent
        BY <2>6, <2>7, <2>a, <3>3, DeliveryConstants
      <4> QED BY <3>1, <3>2, <4>1 DEF ItemIsInStep
    <3>4. CASE item[i].stop \notin back
      <4>1. item'[i].status = item[i].status
            /\ (item[i].stop # Absent => /\ stop'[item[i].stop].status = stop[item[i].stop].status
                                         /\ stop'[item[i].stop].trip = stop[item[i].stop].trip)
        BY <2>6, <2>7, <3>1, <3>4
      <4>2. CASE item[i].trip = t
        <5>1. item[i].stop # Absent => stop[item[i].stop].status = "DELIVERED"
          <6>1. ASSUME item[i].stop # Absent PROVE stop[item[i].stop].status = "DELIVERED"
            <7>1. item[i].stop \in Stops /\ stop[item[i].stop].trip = t
              BY <3>1, <4>2, <6>1
            <7>2. stop[item[i].stop].status \notin Undelivered
              BY <2>4, <3>4, <7>1
            <7>3. stop[item[i].stop].status # "PENDING"
              BY <1>a, <2>1, <7>1, DeliveryConstants DEF StopIsInStep
            <7> QED BY <1>0, <7>1, <7>2, <7>3 DEF StopRows
          <6> QED BY <6>1
        <5> QED BY <1>a, <3>1, <3>2, <4>1, <5>1 DEF ItemIsInStep
      <4>3. CASE item[i].trip # t
        <5>1. item[i].trip # Absent => trip'[item[i].trip] = trip[item[i].trip]
          BY <2>2, <3>1, <4>3
        <5> QED BY <1>a, <3>1, <3>2, <4>1, <5>1 DEF ItemIsInStep
      <4> QED BY <4>2, <4>3
    <3> QED BY <3>3, <3>4
  <2>16. ASSUME NEW h \in Shipments PROVE ShipmentIsSound(h)'
    <3>1. CASE shipment'[h] = "RETURNED" /\ \E s \in back : ShipmentOf[s] = h
      <4>1. Ended(h, {"RETURNED"})'
        BY <2>6, <2>a, <3>1 DEF Ended
      <4> QED BY <3>1, <4>1 DEF ShipmentIsSound
    <3>2. CASE shipment'[h] = shipment[h]
      <4>1. StopsStayOver
        BY <2>4, <2>6 DEF StopsStayOver, Undelivered
      <4>2. ASSUME NEW i \in Items, item[i].trip # Absent
            PROVE  trip'[item[i].trip].status \in {"CLOSED"} \cup UnderWay \cup Settled
                     <=> trip[item[i].trip].status \in {"CLOSED"} \cup UnderWay \cup Settled
        <5>1. item[i].trip \in Trips
          BY <1>0, <4>2 DEF ItemRows
        <5> QED BY <2>1, <2>2, <5>1 DEF UnderWay, Settled
      <4>3. Carried(h)' <=> Carried(h)
        BY <2>7, <4>2 DEF Carried
      <4> QED BY <1>a, <2>1, <3>2, <4>1, <4>3, ShipmentKept
    <3> QED BY <2>8, <3>1, <3>2
  <2> QED BY <1>c, <2>9, <2>10, <2>11, <2>12, <2>13, <2>14, <2>15, <2>16
<1>11. ASSUME UNCHANGED deliveryVars PROVE DeliveriesIInv'
  <2>1. UNCHANGED <<vehicle, trip, stop, item, gatePass, shipment, sold>>
    BY <1>11 DEF deliveryVars
  <2> QED BY <1>0, <1>3, <1>4, <2>1
<1>12. ASSUME NEW t \in Trips, CreateGatePass(t) \/ ApproveGatePass(t) \/ RecordGateMovement(t) PROVE DeliveriesIInv'
  BY <1>5, <1>12 DEF CreateGatePass, ApproveGatePass, RecordGateMovement
<1>13. CASE DeliveriesNext
  BY <1>1, <1>2, <1>6, <1>7, <1>8, <1>9, <1>10, <1>12, <1>13 DEF DeliveriesNext
<1> QED BY <1>11, <1>13

THEOREM DeliveriesInvariance == DeliveriesSpec => []DeliveriesIInv
<1>1. DeliveriesInit => DeliveriesIInv
  <2> SUFFICES ASSUME DeliveriesInit PROVE DeliveriesIInv
    OBVIOUS
  <2>1. /\ vehicle = [v \in Vehicles |-> [status |-> "AVAILABLE", odometer |-> 0]]
        /\ trip = [t \in Trips |-> NoTrip]
        /\ stop = [s \in Stops |-> [status |-> "PENDING", trip |-> Absent, cod |-> 0]]
        /\ item = [i \in Items |-> [status |-> "PENDING", trip |-> Absent, stop |-> Absent]]
        /\ gatePass = [t \in Trips |-> "NONE"]
        /\ shipment = [h \in Shipments |-> "READY"] /\ sold = [h \in Shipments |-> "PACKED"]
    BY DEF DeliveriesInit
  <2>2. NoTrip \in TripRows /\ NoTrip.status = "NONE" /\ NoTrip.cod = 0
    BY DeliveryConstants DEF NoTrip, TripRows
  <2>3. DeliveriesTypeOK
    <3>1. /\ [status |-> "AVAILABLE", odometer |-> 0] \in VehicleRows
          /\ [status |-> "PENDING", trip |-> Absent, cod |-> 0] \in StopRows
          /\ [status |-> "PENDING", trip |-> Absent, stop |-> Absent] \in ItemRows
      BY DeliveryConstants DEF VehicleRows, StopRows, ItemRows
    <3> QED BY <2>1, <2>2, <3>1, DeliveryTypes
  <2>4. OneTripPerVehicle
    BY <2>1, <2>2 DEF OneTripPerVehicle, OpenTrip
  <2>5. \A t \in Trips : TripIsManned(t)
    BY <2>1, <2>2 DEF TripIsManned, OpenTrip
  <2>6. ASSUME NEW t \in Trips PROVE CashIsCounted(t)
    <3>1. StopsOf(t) = {}
      BY <2>1, DeliveryConstants DEF StopsOf
    <3> QED BY <2>1, <2>2, <3>1, SumEmpty DEF CashIsCounted
  <2>7. \A s \in Stops : StopIsInStep(s) /\ CashIsInStep(s)
    BY <2>1 DEF StopIsInStep, CashIsInStep, CashDue
  <2>8. \A i \in Items : ItemIsInStep(i)
    BY <2>1 DEF ItemIsInStep
  <2>9. \A h \in Shipments : ShipmentIsSound(h)
    BY <2>1 DEF ShipmentIsSound, Carried
  <2> QED BY <2>3, <2>4, <2>5, <2>6, <2>7, <2>8, <2>9 DEF DeliveriesIInv
<1>2. DeliveriesIInv /\ [DeliveriesNext]_deliveryVars => DeliveriesIInv'
  BY DeliveriesStep
<1> QED BY <1>1, <1>2, PTL DEF DeliveriesSpec

(* For any fleet, trips, stops and shipments: a vehicle makes one trip at a *)
(* time, a closed trip accounts for its goods and its cash, and whoever     *)
(* wrote a shipment row last, what it says has happened (createTrip,        *)
(* dispatch, completeStop, closeTrip; ship, deliver and cancel of orders).  *)
THEOREM TripsCorrect == DeliveriesSpec => []TripsAreConsistent
<1>1. DeliveriesIInv => TripsAreConsistent
  <2> SUFFICES ASSUME DeliveriesIInv PROVE TripsAreConsistent
    OBVIOUS
  <2>0. /\ DeliveriesTypeOK /\ OneTripPerVehicle
        /\ \A t \in Trips : CashIsCounted(t)
        /\ \A s \in Stops : StopIsInStep(s) /\ CashIsInStep(s)
        /\ \A i \in Items : ItemIsInStep(i)
        /\ \A h \in Shipments : ShipmentIsSound(h)
    BY DEF DeliveriesIInv
  <2>1. ASSUME NEW t \in Trips
        PROVE  /\ trip[t].cod = SumFunctionOnSet(CashTaken, StopsOf(t))
               /\ trip[t].cod <= SumFunctionOnSet(CashDue, StopsOf(t))
    <3> DEFINE T == StopsOf(t)
               taken == CashTaken
               due == CashDue
    <3>1. IsFiniteSet(T)
      <4>1. T \subseteq Stops
        BY DEF StopsOf
      <4> QED BY <4>1, DeliveryConstants, FS_Subset
    <3>2. \A s \in T : taken[s] \in Int /\ due[s] \in Int /\ taken[s] <= due[s]
      <4>1. \A s \in Stops : stop[s].cod \in Nat /\ CodExpected[s] \in Nat
        BY <2>0, DeliveryTypes, DeliveryConstants DEF StopRows
      <4> QED BY <2>0, <4>1 DEF StopsOf, CashTaken, CashDue, CashIsInStep
    <3> HIDE DEF T, taken, due
    <3>3. SumFunctionOnSet(taken, T) <= SumFunctionOnSet(due, T)
      BY <3>1, <3>2, SumAtMost
    <3> QED BY <2>0, <3>3 DEF CashIsCounted, T, taken, due
  <2>2. ASSUME NEW t \in Trips, trip[t].status = "CLOSED", NEW i \in ItemsOf(t), item[i].stop # Absent
        PROVE  IF stop[item[i].stop].status = "DELIVERED" THEN item[i].status = "DELIVERED"
               ELSE stop[item[i].stop].status = "RETURNED" /\ item[i].status = "RETURNED"
    <3>1. /\ i \in Items /\ item[i].trip = t /\ t # Absent
          /\ item[i].stop \in Stops
      BY <2>0, <2>2, DeliveryTypes, DeliveryConstants DEF ItemsOf, ItemRows
    <3>2. stop[item[i].stop].trip = t
      BY <2>0, <2>2, <3>1 DEF ItemIsInStep
    <3>3. stop[item[i].stop].status \in {"DELIVERED", "RETURNED"}
      BY <2>0, <2>2, <3>1, <3>2 DEF StopIsInStep
    <3> QED BY <2>0, <2>2, <3>1, <3>3 DEF ItemIsInStep
  <2>3. TripsAccount
    BY <2>1, <2>2 DEF TripsAccount
  <2>4. ShipmentIsExplained
    <3>1. \A h \in Shipments : shipment[h] \in {"READY", "IN_TRANSIT", "DELIVERED", "FAILED", "RETURNED", "CANCELLED"}
      BY <2>0, DeliveryTypes
    <3>2. ASSUME NEW h \in Shipments
          PROVE  CASE shipment[h] = "READY"      -> sold[h] = "PACKED" /\ ~Carried(h)
                   [] shipment[h] = "IN_TRANSIT" -> sold[h] = "SHIPPED" \/ Carried(h)
                   [] shipment[h] = "DELIVERED"  -> sold[h] = "COMPLETED" \/ Ended(h, {"DELIVERED"})
                   [] shipment[h] = "FAILED"     -> Ended(h, Undelivered)
                   [] shipment[h] = "RETURNED"   -> Ended(h, {"RETURNED"})
                   [] shipment[h] = "CANCELLED"  -> sold[h] = "CANCELLED"
      BY <2>0, <3>1 DEF ShipmentIsSound
    <3> QED BY <3>2 DEF ShipmentIsExplained
  <2> QED BY <2>0, <2>3, <2>4 DEF TripsAreConsistent
<1> QED BY <1>1, DeliveriesInvariance, PTL

-----------------------------------------------------------------------------
(* Stock by location.  The rows of a warehouse are sound for a set H of      *)
(* sources that hold units: the columns add up, conditions split what is    *)
(* there, and what is reserved beyond the reservation rows is what sources  *)
(* without rows hold.                                                       *)

USE LocationStockAssumption DEF Total

Columns == {"quantity", "reserved", "available"}

\* Whatever the locations together have can be taken from them one after the other.
GreedyIn(T, free, q, alloc) ==
  /\ \A l \in Locations : alloc[l] \in Nat /\ alloc[l] <= free[l] /\ (l \notin T => alloc[l] = 0)
  /\ SumFunctionOnSet(alloc, T) = q
  /\ \A k, l \in Locations :
       0 < alloc[k] /\ alloc[k] < free[k] /\ 0 < alloc[l] /\ alloc[l] < free[l] => k = l

LEMMA GreedyExists ==
  ASSUME NEW free \in [Locations -> Nat], NEW q \in Nat, q <= SumFunctionOnSet(free, Locations)
  PROVE  \E alloc \in Allocations(q) : Greedy(alloc, free, q)
<1> DEFINE Some(T) == \A n \in Nat : n <= SumFunctionOnSet(free, T) =>
                        \E alloc \in [Locations -> Nat] : GreedyIn(T, free, n, alloc)
           Good == {T \in SUBSET Locations : Some(T)}
<1>1. {} \in Good
  <2> SUFFICES ASSUME NEW n \in Nat, n <= SumFunctionOnSet(free, {})
               PROVE  \E alloc \in [Locations -> Nat] : GreedyIn({}, free, n, alloc)
    OBVIOUS
  <2> DEFINE none == [l \in Locations |-> 0]
  <2>1. n = 0 /\ SumFunctionOnSet(none, {}) = 0
    BY SumEmpty
  <2>2. GreedyIn({}, free, n, none)
    BY <2>1 DEF GreedyIn
  <2> QED BY <2>2
<1>2. ASSUME NEW T \in SUBSET Locations, T # {}, \A x \in T : T \ {x} \in Good
      PROVE  T \in Good
  <2> SUFFICES ASSUME NEW n \in Nat, n <= SumFunctionOnSet(free, T)
               PROVE  \E alloc \in [Locations -> Nat] : GreedyIn(T, free, n, alloc)
    OBVIOUS
  <2> PICK x \in T : TRUE
    BY <1>2
  <2> DEFINE R == T \ {x}
             rest == SumFunctionOnSet(free, R)
  <2>1. IsFiniteSet(T) /\ IsFiniteSet(R) /\ x \notin R /\ R \cup {x} = T /\ R \in Good /\ x \in Locations
    BY <1>2, FS_Subset
  <2>2. rest \in Nat /\ SumFunctionOnSet(free, T) = free[x] + rest
    BY <2>1, SumNat, SumRemove
  <2> HIDE DEF R, rest
  <2> DEFINE m == IF n <= rest THEN n ELSE rest
  <2>3. m \in Nat /\ m <= rest /\ n - m \in Nat /\ n - m <= free[x] /\ (n # m => m = rest)
    BY <2>1, <2>2
  <2>4. PICK old \in [Locations -> Nat] : GreedyIn(R, free, m, old)
    <3>1. Some(R)
      BY <2>1
    <3> QED BY <2>3, <3>1 DEF rest
  <2> HIDE DEF m
  <2> DEFINE alloc == [old EXCEPT ![x] = n - m]
  <2>5. alloc \in [Locations -> Nat] /\ alloc[x] = n - m /\ \A l \in Locations \ {x} : alloc[l] = old[l]
    BY <2>1, <2>3
  <2> HIDE DEF alloc
  <2>6. SumFunctionOnSet(alloc, T) = n
    <3>1. SumFunctionOnSet(alloc, R) = m
      <4>1. SumFunctionOnSet(alloc, R) = SumFunctionOnSet(old, R)
        BY <2>1, <2>5, SumAgree DEF R
      <4> QED BY <2>4, <4>1 DEF GreedyIn
    <3>2. SumFunctionOnSet(alloc, R \cup {x}) = SumFunctionOnSet(alloc, R) + alloc[x]
      <4>1. \A y \in R \cup {x} : alloc[y] \in Int
        BY <2>1, <2>5
      <4>2. IsFiniteSet(R) /\ x \notin R
        BY <2>1
      <4> QED BY <4>1, <4>2, SumAdded
    <3>3. SumFunctionOnSet(alloc, T) = m + (n - m)
      BY <2>1, <2>5, <3>1, <3>2
    <3>4. m + (n - m) = n
      BY <2>3
    <3> QED BY <3>3, <3>4
  <2>7. n # m => \A l \in R : old[l] = free[l]
    <3> SUFFICES ASSUME n # m, NEW l \in R PROVE old[l] = free[l]
      OBVIOUS
    <3> DEFINE a == SumFunctionOnSet(old, R \ {l})
               b == SumFunctionOnSet(free, R \ {l})
    <3>1. SumFunctionOnSet(old, R) = old[l] + a /\ SumFunctionOnSet(free, R) = free[l] + b
      <4>1. \A y \in R : old[y] \in Int /\ free[y] \in Int
        BY <2>1
      <4> QED BY <2>1, <4>1, SumRemove
    <3>2. a <= b /\ a \in Int /\ b \in Int
      <4>1. /\ IsFiniteSet(R \ {l})
            /\ \A y \in R \ {l} : old[y] \in Int /\ free[y] \in Int /\ old[y] <= free[y]
        BY <2>1, <2>4, FS_Subset DEF GreedyIn
      <4> QED BY <4>1, SumAtMost, SumType
    <3>3. SumFunctionOnSet(old, R) = SumFunctionOnSet(free, R)
      BY <2>3, <2>4 DEF GreedyIn, rest
    <3>4. old[l] \in Int /\ free[l] \in Int /\ old[l] <= free[l]
      BY <2>1, <2>4 DEF GreedyIn
    <3> HIDE DEF a, b
    <3> QED BY <3>1, <3>2, <3>3, <3>4
  <2>8. GreedyIn(T, free, n, alloc)
    <3>1. \A l \in Locations : alloc[l] \in Nat /\ alloc[l] <= free[l] /\ (l \notin T => alloc[l] = 0)
      BY <2>1, <2>3, <2>4, <2>5 DEF GreedyIn
    <3>2. ASSUME NEW k \in Locations, NEW l \in Locations,
                 0 < alloc[k], alloc[k] < free[k], 0 < alloc[l], alloc[l] < free[l]
          PROVE  k = l
      <4>1. CASE n = m
        <5>1. k # x /\ l # x
          BY <2>3, <2>5, <3>2, <4>1
        <5> QED BY <2>4, <2>5, <3>2, <5>1 DEF GreedyIn
      <4>2. CASE n # m
        <5>1. \A j \in Locations \ {x} : alloc[j] = 0 \/ alloc[j] = free[j]
          BY <2>1, <2>4, <2>5, <2>7, <4>2 DEF GreedyIn
        <5> QED BY <3>2, <5>1
      <4> QED BY <4>1, <4>2
    <3> QED BY <2>6, <3>1, <3>2 DEF GreedyIn
  <2> QED BY <2>5, <2>8
<1>3. Locations \in Good
  <2>1. \A T \in SUBSET Locations : T # {} /\ (\A x \in T : T \ {x} \in Good) => T \in Good
    BY <1>2
  <2> HIDE DEF Good
  <2>2. IsFiniteSet(Locations)
    OBVIOUS
  <2>3. \A T \in SUBSET Locations : T \in Good
    BY <1>1, <2>1, <2>2, SubsetInduction
  <2> QED BY <2>3
<1>4. PICK alloc \in [Locations -> Nat] : GreedyIn(Locations, free, q, alloc)
  BY <1>3
<1>5. DOMAIN alloc = Locations /\ Total(alloc) = q
  BY <1>4 DEF GreedyIn, SumFunction
<1>6. \A l \in Locations : alloc[l] <= q
  BY <1>4, SumMember DEF GreedyIn
<1>7. alloc \in Allocations(q)
  BY <1>6 DEF Allocations
<1>8. Greedy(alloc, free, q)
  BY <1>4, <1>5 DEF GreedyIn, Greedy
<1> QED BY <1>7, <1>8

Tracked(s, l) == Total([src \in Sources |-> s.reservation[src][l]])
Untracked(s, H) == {src \in H : Reserved(s, src) = 0}

\* What is at a location is reserved, available or set aside, and the condition
\* rows say which once there are any.
Split(s) ==
  \A l \in Locations :
    /\ s.balance[l].quantity = s.balance[l].reserved + s.balance[l].available + s.unsellable[l]
    /\ l \notin s.rows => s.balance[l] = Nothing
    /\ s.classified => s.sellable[l] = s.balance[l].reserved + s.balance[l].available
    /\ ~s.classified => s.sellable[l] = 0 /\ s.unsellable[l] = 0

\* Before there are rows all stock is reserved or available.
RowsAreSound(s) ==
  /\ s \in StockType /\ LocationsAgree(s) /\ Split(s)
  /\ s.rows = {} => ~s.classified /\ s.aggregate.quantity = s.aggregate.reserved + s.aggregate.available

HoldsAreSound(s, H) ==
  /\ s.aggregate.reserved = SumFunctionOnSet(Need, H)
  /\ \A src \in Sources : Reserved(s, src) # 0 => src \in H /\ Reserved(s, src) = Need[src]
  /\ \A l \in Locations : Tracked(s, l) <= s.balance[l].reserved
  /\ s.rows # {} => Total(LegacyReserved(s)) = SumFunctionOnSet(Need, Untracked(s, H))

\* Rows that an operation may start from.
IsReady(s, H) ==
  /\ s.rows # {} /\ RowsAreSound(s) /\ HoldsAreSound(s, H)
  /\ s.aggregate = stock.aggregate /\ s.reservation = stock.reservation /\ s.unsellable = stock.unsellable

LEMMA AmountTypes ==
  ASSUME NEW s \in StockType
  PROVE  /\ \A l \in Locations : /\ s.balance[l] \in Amounts /\ s.balance[l].quantity \in Nat
                                 /\ s.balance[l].reserved \in Nat /\ s.balance[l].available \in Nat
                                 /\ s.sellable[l] \in Nat /\ s.unsellable[l] \in Nat
         /\ s.aggregate \in Amounts
         /\ s.aggregate.quantity \in Nat /\ s.aggregate.reserved \in Nat /\ s.aggregate.available \in Nat
         /\ \A src \in Sources : /\ s.reservation[src] \in [Locations -> Nat]
                                 /\ \A l \in Locations : s.reservation[src][l] \in Nat
         /\ s.rows \subseteq Locations /\ s.classified \in BOOLEAN
BY DEF StockType, Amounts

LEMMA ReservationTypes ==
  ASSUME NEW s \in StockType
  PROVE  /\ \A l \in Locations : /\ Tracked(s, l) \in Nat
                                 /\ \A src \in Sources : s.reservation[src][l] <= Tracked(s, l)
         /\ \A src \in Sources : /\ Reserved(s, src) \in Nat
                                 /\ Reserved(s, src) = SumFunctionOnSet(s.reservation[src], Locations)
                                 /\ \A l \in Locations : s.reservation[src][l] <= Reserved(s, src)
<1>1. ASSUME NEW l \in Locations
      PROVE  Tracked(s, l) \in Nat /\ \A src \in Sources : s.reservation[src][l] <= Tracked(s, l)
  <2> DEFINE f == [src \in Sources |-> s.reservation[src][l]]
  <2>1. /\ \A src \in Sources : f[src] \in Nat /\ f[src] = s.reservation[src][l]
        /\ DOMAIN f = Sources /\ Tracked(s, l) = SumFunction(f)
    BY <1>1, AmountTypes DEF Tracked
  <2> HIDE DEF f
  <2>2. SumFunction(f) \in Nat /\ \A src \in Sources : f[src] <= SumFunction(f)
    BY <2>1, SumNat, SumMember DEF SumFunction
  <2> QED BY <2>1, <2>2
<1>2. ASSUME NEW src \in Sources
      PROVE  /\ Reserved(s, src) \in Nat
             /\ Reserved(s, src) = SumFunctionOnSet(s.reservation[src], Locations)
             /\ \A l \in Locations : s.reservation[src][l] <= Reserved(s, src)
  <2> DEFINE f == s.reservation[src]
  <2>1. f \in [Locations -> Nat] /\ Reserved(s, src) = SumFunction(f)
    BY AmountTypes DEF Reserved
  <2> HIDE DEF f
  <2>2. DOMAIN f = Locations /\ \A l \in Locations : f[l] \in Nat
    BY <2>1
  <2>3. SumFunction(f) = SumFunctionOnSet(f, Locations)
    BY <2>2 DEF SumFunction
  <2>4. SumFunctionOnSet(f, Locations) \in Nat /\ \A l \in Locations : f[l] <= SumFunctionOnSet(f, Locations)
    BY <2>2, SumNat, SumMember
  <2> QED BY <2>1, <2>3, <2>4 DEF f
<1> QED BY <1>1, <1>2

\* Where nothing is reserved by rows.
LEMMA NothingTracked ==
  ASSUME NEW s \in StockType, \A l \in Locations : Tracked(s, l) = 0
  PROVE  \A src \in Sources : Reserved(s, src) = 0
<1> SUFFICES ASSUME NEW src \in Sources PROVE Reserved(s, src) = 0
  OBVIOUS
<1>1. \A l \in Locations : s.reservation[src][l] = 0
  BY ReservationTypes, AmountTypes
<1> QED BY <1>1, ReservationTypes, SumOfZeros

LEMMA NoneReserved ==
  ASSUME NEW s \in StockType, NEW src \in Sources, Reserved(s, src) = 0
  PROVE  \A l \in Locations : s.reservation[src][l] = 0
BY ReservationTypes, AmountTypes

\* Where nothing is prepared the columns are empty.
LEMMA LegacyIs ==
  ASSUME NEW s \in StockType, \A l \in Locations : Tracked(s, l) <= s.balance[l].reserved
  PROVE  /\ DOMAIN LegacyReserved(s) = Locations
         /\ \A l \in Locations : /\ LegacyReserved(s)[l] = s.balance[l].reserved - Tracked(s, l)
                                 /\ LegacyReserved(s)[l] \in Nat
<1> SUFFICES ASSUME NEW l \in Locations
             PROVE  LegacyReserved(s)[l] = s.balance[l].reserved - Tracked(s, l) /\ LegacyReserved(s)[l] \in Nat
  BY DEF LegacyReserved
<1>1. LegacyReserved(s)[l] = IF s.balance[l].reserved > Tracked(s, l) THEN s.balance[l].reserved - Tracked(s, l) ELSE 0
  BY DEF LegacyReserved, Tracked
<1>2. Tracked(s, l) \in Nat /\ s.balance[l].reserved \in Nat
  BY AmountTypes, ReservationTypes
<1> QED BY <1>1, <1>2

LEMMA LocatedIsReady ==
  ASSUME NEW H \in SUBSET Sources, RowsAreSound(stock), HoldsAreSound(stock, H)
  PROVE  IsReady(Located(stock), H) /\ Located(stock).classified = stock.classified
<1> DEFINE t == Located(stock)
           D == DefaultLocation
<1>0. stock \in StockType /\ D \in Locations
  BY DEF RowsAreSound
<1>1. CASE stock.rows # {}
  BY <1>1 DEF Located, IsReady
<1>2. CASE stock.rows = {}
  <2>1. t = [stock EXCEPT !.rows = {D}, !.balance[D] = stock.aggregate]
    BY <1>2 DEF Located
  <2>2. /\ t \in StockType /\ t.rows = {D} /\ t.aggregate = stock.aggregate
        /\ t.classified = stock.classified /\ t.sellable = stock.sellable /\ t.unsellable = stock.unsellable
        /\ t.reservation = stock.reservation
        /\ t.balance[D] = stock.aggregate /\ \A l \in Locations \ {D} : t.balance[l] = Nothing
    <3>1. \A l \in Locations : stock.balance[l] = Nothing
      BY <1>2 DEF RowsAreSound, Split
    <3> DEFINE bal == [stock.balance EXCEPT ![D] = stock.aggregate]
    <3>2. stock.balance \in [Locations -> Amounts] /\ stock.aggregate \in Amounts
      BY <1>0 DEF StockType
    <3>3. /\ bal \in [Locations -> Amounts]
          /\ bal[D] = stock.aggregate /\ \A l \in Locations \ {D} : bal[l] = Nothing
      BY <1>0, <3>1, <3>2
    <3>4. t = [stock EXCEPT !.rows = {D}, !.balance = bal]
      BY <1>0, <2>1 DEF StockType
    <3> HIDE DEF bal, t
    <3>5. /\ t \in StockType /\ t.rows = {D} /\ t.aggregate = stock.aggregate /\ t.balance = bal
          /\ t.classified = stock.classified /\ t.sellable = stock.sellable /\ t.unsellable = stock.unsellable
          /\ t.reservation = stock.reservation
      BY <1>0, <3>3, <3>4 DEF StockType
    <3> QED BY <3>3, <3>5
  <2>3. \A l \in Locations : stock.balance[l] = Nothing /\ Tracked(stock, l) = 0
    <3> SUFFICES ASSUME NEW l \in Locations PROVE stock.balance[l] = Nothing /\ Tracked(stock, l) = 0
      OBVIOUS
    <3>1. stock.balance[l] = Nothing
      BY <1>2 DEF RowsAreSound, Split
    <3>2. Tracked(stock, l) <= 0 /\ Tracked(stock, l) \in Nat
      BY <1>0, <3>1, ReservationTypes DEF HoldsAreSound, Nothing
    <3> QED BY <3>1, <3>2
  <2> HIDE DEF t
  <2>4. \A c \in Columns : Total(Column(t, c)) = t.aggregate[c]
    <3> SUFFICES ASSUME NEW c \in Columns PROVE SumFunction(Column(t, c)) = t.aggregate[c]
      OBVIOUS
    <3> DEFINE z == [l \in Locations |-> 0]
               f == Column(t, c)
    <3>1. /\ DOMAIN f = Locations /\ f[D] = t.aggregate[c] /\ f[D] \in Int
          /\ \A l \in Locations \ {D} : f[l] = 0
      BY <1>0, <2>2, AmountTypes DEF Column, Columns, Nothing
    <3>2. DOMAIN z = Locations /\ \A l \in Locations : z[l] = 0
      OBVIOUS
    <3> HIDE DEF f, z
    <3>3. SumFunction(z) = 0
      BY <3>2, SumOfZeros DEF SumFunction
    <3>4. SumFunction(f) = SumFunction(z) - z[D] + f[D]
      <4>1. (\A y \in Locations : z[y] \in Int) /\ \A y \in Locations \ {D} : f[y] = z[y]
        BY <3>1, <3>2
      <4> QED BY <1>0, <3>1, <3>2, <4>1, SumUpdated
    <3> QED BY <1>0, <3>1, <3>2, <3>3, <3>4 DEF f
  <2>5. LocationsAgree(t)
    BY <2>4 DEF LocationsAgree, Columns
  <2>6. Split(t)
    <3> SUFFICES ASSUME NEW l \in Locations
                 PROVE  /\ t.balance[l].quantity = t.balance[l].reserved + t.balance[l].available + t.unsellable[l]
                        /\ l \notin t.rows => t.balance[l] = Nothing
                        /\ t.sellable[l] = 0 /\ t.unsellable[l] = 0 /\ ~t.classified
      BY DEF Split
    <3>1. t.sellable[l] = 0 /\ t.unsellable[l] = 0 /\ ~t.classified
      BY <1>2, <2>2 DEF RowsAreSound, Split
    <3>2. stock.aggregate.quantity = stock.aggregate.reserved + stock.aggregate.available
      BY <1>2 DEF RowsAreSound
    <3>3. stock.aggregate.quantity \in Nat
      BY <1>0, AmountTypes
    <3>4. CASE l = D
      BY <2>2, <3>1, <3>2, <3>3, <3>4
    <3>5. CASE l # D
      BY <2>2, <3>1, <3>5 DEF Nothing
    <3> QED BY <3>1, <3>4, <3>5
  <2>7. \A src \in Sources : Reserved(stock, src) = 0
    BY <1>0, <2>3, NothingTracked
  <2>8. HoldsAreSound(t, H)
    <3>1. /\ \A src \in Sources : Reserved(t, src) = 0
          /\ \A l \in Locations : Tracked(t, l) = 0 /\ t.balance[l].reserved \in Nat
      BY <2>2, <2>3, <2>7, AmountTypes DEF Reserved, Tracked
    <3>2. Untracked(t, H) = H
      BY <3>1 DEF Untracked
    <3>3. Total(LegacyReserved(t)) = t.aggregate.reserved
      <4> DEFINE f == LegacyReserved(t)
                 g == Column(t, "reserved")
      <4>1. /\ DOMAIN f = Locations /\ DOMAIN g = Locations
            /\ \A l \in Locations : f[l] = g[l]
        BY <2>2, <3>1, LegacyIs DEF Column
      <4>2. SumFunction(g) = t.aggregate["reserved"]
        BY <2>4 DEF Columns
      <4> HIDE DEF f, g
      <4>3. SumFunction(f) = SumFunction(g)
        BY <4>1, SumAgree DEF SumFunction
      <4> QED BY <4>2, <4>3 DEF f
    <3>4. t.aggregate.reserved = SumFunctionOnSet(Need, H)
      BY <2>2 DEF HoldsAreSound
    <3>5. \A l \in Locations : Tracked(t, l) <= t.balance[l].reserved
      BY <3>1
    <3> QED BY <3>1, <3>2, <3>3, <3>4, <3>5 DEF HoldsAreSound
  <2> QED BY <2>2, <2>5, <2>6, <2>8 DEF IsReady, RowsAreSound, t
<1> QED BY <1>1, <1>2

LEMMA ClassifiedIsReady ==
  ASSUME NEW H \in SUBSET Sources, NEW s, IsReady(s, H)
  PROVE  /\ IsReady(Classified(s), H)
         /\ Classified(s).balance = s.balance /\ Classified(s).rows = s.rows
         /\ \A l \in Locations : Classified(s).sellable[l] = s.balance[l].reserved + s.balance[l].available
<1> DEFINE t == Classified(s)
<1>0. s \in StockType /\ Split(s) /\ s.rows # {}
  BY DEF IsReady, RowsAreSound
<1>1. CASE s.classified
  <2>1. t = s
    BY <1>1 DEF Classified
  <2> QED BY <1>0, <1>1, <2>1 DEF Split
<1>2. CASE ~s.classified
  <2>1. t = [s EXCEPT !.classified = \E l \in s.rows : s.balance[l].quantity > 0, !.sellable = Column(s, "quantity")]
    BY <1>2 DEF Classified
  <2>2. Column(s, "quantity") \in [Locations -> Nat]
    BY <1>0, AmountTypes DEF Column
  <2>3. /\ t \in StockType /\ t.rows = s.rows /\ t.aggregate = s.aggregate /\ t.balance = s.balance
        /\ t.unsellable = s.unsellable /\ t.reservation = s.reservation
        /\ t.sellable = Column(s, "quantity")
        /\ t.classified = (\E l \in s.rows : s.balance[l].quantity > 0)
    BY <1>0, <2>1, <2>2 DEF StockType
  <2> HIDE DEF t
  <2>4. ASSUME NEW l \in Locations
        PROVE  /\ t.sellable[l] = s.balance[l].quantity /\ s.unsellable[l] = 0
               /\ t.sellable[l] = s.balance[l].reserved + s.balance[l].available
               /\ ~t.classified => s.balance[l].quantity = 0
    <3>1. t.sellable[l] = s.balance[l].quantity
      BY <2>3 DEF Column
    <3>2. s.unsellable[l] = 0 /\ s.balance[l].quantity = s.balance[l].reserved + s.balance[l].available + 0
      BY <1>0, <1>2 DEF Split
    <3>3. s.balance[l].quantity \in Nat /\ s.balance[l].reserved \in Nat /\ s.balance[l].available \in Nat
      BY <1>0, AmountTypes
    <3>4. l \notin s.rows => s.balance[l].quantity = 0
      BY <1>0 DEF Split, Nothing
    <3> QED BY <2>3, <3>1, <3>2, <3>3, <3>4
  <2>5. Split(t)
    <3> SUFFICES ASSUME NEW l \in Locations
                 PROVE  /\ t.balance[l].quantity = t.balance[l].reserved + t.balance[l].available + t.unsellable[l]
                        /\ l \notin t.rows => t.balance[l] = Nothing
                        /\ t.sellable[l] = t.balance[l].reserved + t.balance[l].available
                        /\ ~t.classified => t.sellable[l] = 0 /\ t.unsellable[l] = 0
      BY DEF Split
    <3>1. /\ t.balance[l].quantity = t.balance[l].reserved + t.balance[l].available + t.unsellable[l]
          /\ l \notin t.rows => t.balance[l] = Nothing
      BY <1>0, <2>3 DEF Split
    <3> QED BY <2>3, <2>4, <3>1
  <2>6. LocationsAgree(t)
    BY <2>3 DEF IsReady, RowsAreSound, LocationsAgree, Column
  <2>7. HoldsAreSound(t, H)
    BY <2>3 DEF IsReady, HoldsAreSound, Reserved, Tracked, LegacyReserved, Untracked
  <2> QED BY <1>0, <2>3, <2>4, <2>5, <2>6, <2>7 DEF IsReady, RowsAreSound, t
<1> QED BY <1>1, <1>2

LEMMA PreparedIsReady ==
  ASSUME NEW H \in SUBSET Sources, RowsAreSound(stock), HoldsAreSound(stock, H)
  PROVE  /\ IsReady(Prepared(stock), H)
         /\ \A l \in Locations : Prepared(stock).sellable[l] =
              Prepared(stock).balance[l].reserved + Prepared(stock).balance[l].available
BY LocatedIsReady, ClassifiedIsReady DEF Prepared

\* What one statement adds to a column of every location it adds to the aggregate.
LEMMA ColumnShifted ==
  ASSUME NEW s \in StockType, LocationsAgree(s), s.rows # {}, NEW t, NEW c \in Columns, NEW k \in Int,
         NEW f \in [Locations -> Int],
         \A l \in Locations : t.balance[l][c] = s.balance[l][c] + k * f[l],
         t.aggregate[c] = s.aggregate[c] + k * SumFunctionOnSet(f, Locations)
  PROVE  Total(Column(t, c)) = t.aggregate[c]
<1> DEFINE g == Column(t, c)
           h == Column(s, c)
<1>1. /\ DOMAIN g = Locations /\ DOMAIN h = Locations
      /\ \A l \in Locations : g[l] = t.balance[l][c] /\ h[l] = s.balance[l][c]
  BY DEF Column
<1>2. \A l \in Locations : h[l] \in Int
  BY <1>1, AmountTypes DEF Columns
<1>3. SumFunction(h) = s.aggregate[c]
  BY DEF LocationsAgree, Columns
<1> HIDE DEF g, h
<1>4. SumFunctionOnSet(g, Locations) = SumFunctionOnSet(h, Locations) + k * SumFunctionOnSet(f, Locations)
  <2>1. \A l \in Locations : f[l] \in Int /\ h[l] \in Int /\ g[l] = h[l] + k * f[l]
    BY <1>1, <1>2
  <2> QED BY <2>1, SumShifted
<1>5. SumFunction(g) = SumFunctionOnSet(g, Locations) /\ SumFunction(h) = SumFunctionOnSet(h, Locations)
  BY <1>1 DEF SumFunction
<1> QED BY <1>3, <1>4, <1>5 DEF g

ShiftedBy(s, t, f, q, dq, dr, da) ==
  /\ t.aggregate = Shift(s.aggregate, dq * q, dr * q, da * q)
  /\ t.balance = [l \in Locations |-> Shift(s.balance[l], dq * f[l], dr * f[l], da * f[l])]

LEMMA MovedAgrees ==
  ASSUME NEW s \in StockType, LocationsAgree(s), s.rows # {},
         NEW f \in [Locations -> Int], NEW q, q = SumFunctionOnSet(f, Locations),
         NEW dq \in Int, NEW dr \in Int, NEW da \in Int, NEW t,
         ShiftedBy(s, t, f, q, dq, dr, da), t.balance \in [Locations -> Amounts]
  PROVE  LocationsAgree(t) /\ t.aggregate \in Amounts
<1>0. /\ t.aggregate = Shift(s.aggregate, dq * q, dr * q, da * q)
      /\ t.balance = [l \in Locations |-> Shift(s.balance[l], dq * f[l], dr * f[l], da * f[l])]
  BY DEF ShiftedBy
<1>1. /\ t.aggregate.quantity = s.aggregate.quantity + dq * q
      /\ t.aggregate.reserved = s.aggregate.reserved + dr * q
      /\ t.aggregate.available = s.aggregate.available + da * q
      /\ t.aggregate = [quantity |-> t.aggregate.quantity, reserved |-> t.aggregate.reserved,
                        available |-> t.aggregate.available]
  BY <1>0 DEF Shift
<1>2. \A l \in Locations : /\ t.balance[l].quantity = s.balance[l].quantity + dq * f[l]
                           /\ t.balance[l].reserved = s.balance[l].reserved + dr * f[l]
                           /\ t.balance[l].available = s.balance[l].available + da * f[l]
  BY <1>0 DEF Shift
<1>3. /\ "quantity" \in Columns /\ "reserved" \in Columns /\ "available" \in Columns
  BY DEF Columns
<1>4. Total(Column(t, "quantity")) = t.aggregate["quantity"]
  <2>1. t.aggregate["quantity"] = s.aggregate["quantity"] + dq * SumFunctionOnSet(f, Locations)
    BY <1>1
  <2>2. \A l \in Locations : t.balance[l]["quantity"] = s.balance[l]["quantity"] + dq * f[l]
    BY <1>2
  <2> QED BY <1>3, <2>1, <2>2, ColumnShifted
<1>5. Total(Column(t, "reserved")) = t.aggregate["reserved"]
  <2>1. t.aggregate["reserved"] = s.aggregate["reserved"] + dr * SumFunctionOnSet(f, Locations)
    BY <1>1
  <2>2. \A l \in Locations : t.balance[l]["reserved"] = s.balance[l]["reserved"] + dr * f[l]
    BY <1>2
  <2> QED BY <1>3, <2>1, <2>2, ColumnShifted
<1>6. Total(Column(t, "available")) = t.aggregate["available"]
  <2>1. t.aggregate["available"] = s.aggregate["available"] + da * SumFunctionOnSet(f, Locations)
    BY <1>1
  <2>2. \A l \in Locations : t.balance[l]["available"] = s.balance[l]["available"] + da * f[l]
    BY <1>2
  <2> QED BY <1>3, <2>1, <2>2, ColumnShifted
<1>7. ASSUME NEW c \in Columns PROVE Total(Column(t, c)) \in Nat
  <2> DEFINE g == Column(t, c)
  <2>1. DOMAIN g = Locations /\ \A l \in Locations : g[l] \in Nat
    BY <1>7 DEF Column, Columns, Amounts
  <2> HIDE DEF g
  <2>2. SumFunction(g) \in Nat
    BY <2>1, SumNat DEF SumFunction
  <2> QED BY <2>2 DEF g
<1>8. t.aggregate.quantity \in Nat /\ t.aggregate.reserved \in Nat /\ t.aggregate.available \in Nat
  BY <1>3, <1>4, <1>5, <1>6, <1>7
<1>9. t.aggregate \in Amounts
  BY <1>1, <1>8 DEF Amounts
<1> QED BY <1>4, <1>5, <1>6, <1>9 DEF LocationsAgree

LEMMA OnceOrNot == \A n \in Int : 0 * n = 0 /\ 1 * n = n /\ (-1) * n = 0 - n
OBVIOUS

LEMMA AllocationTypes ==
  ASSUME NEW q, NEW alloc \in Allocations(q), Total(alloc) = q
  PROVE  /\ alloc \in [Locations -> Nat] /\ alloc \in [Locations -> Int]
         /\ \A l \in Locations : alloc[l] \in Nat
         /\ q = SumFunctionOnSet(alloc, Locations)
BY DEF Allocations, SumFunction

-----------------------------------------------------------------------------
\* Reservations and holders.

LEMMA HoldsKept ==
  ASSUME NEW s \in StockType, NEW t \in StockType, NEW H, HoldsAreSound(s, H), s.rows # {},
         t.reservation = s.reservation, t.aggregate.reserved = s.aggregate.reserved,
         \A l \in Locations : t.balance[l].reserved = s.balance[l].reserved
  PROVE  HoldsAreSound(t, H)
<1>1. LegacyReserved(t) = LegacyReserved(s)
  BY DEF LegacyReserved
<1>2. Untracked(t, H) = Untracked(s, H)
  BY DEF Untracked, Reserved
<1> QED BY <1>1, <1>2 DEF HoldsAreSound, Reserved, Tracked

LEMMA ReservationWritten ==
  ASSUME NEW s \in StockType, NEW t \in StockType, NEW src \in Sources, NEW a \in [Locations -> Nat],
         t.reservation = [s.reservation EXCEPT ![src] = a]
  PROVE  /\ \A l \in Locations : Tracked(t, l) = Tracked(s, l) - s.reservation[src][l] + a[l]
         /\ Reserved(t, src) = SumFunctionOnSet(a, Locations)
         /\ \A o \in Sources \ {src} : Reserved(t, o) = Reserved(s, o)
<1>1. /\ t.reservation[src] = a /\ \A o \in Sources \ {src} : t.reservation[o] = s.reservation[o]
  BY DEF StockType
<1>2. ASSUME NEW l \in Locations PROVE Tracked(t, l) = Tracked(s, l) - s.reservation[src][l] + a[l]
  <2> DEFINE f == [o \in Sources |-> s.reservation[o][l]]
             g == [o \in Sources |-> t.reservation[o][l]]
  <2>1. /\ DOMAIN f = Sources /\ DOMAIN g = Sources
        /\ f[src] = s.reservation[src][l] /\ g[src] = a[l]
        /\ \A o \in Sources \ {src} : g[o] = f[o]
    BY <1>1
  <2>2. (\A o \in Sources : f[o] \in Int) /\ g[src] \in Int
    BY <1>1, <2>1, AmountTypes
  <2>3. Tracked(s, l) = SumFunction(f) /\ Tracked(t, l) = SumFunction(g)
    BY DEF Tracked
  <2> HIDE DEF f, g
  <2>4. SumFunction(g) = SumFunction(f) - f[src] + g[src]
    BY <2>1, <2>2, SumUpdated
  <2> QED BY <2>1, <2>3, <2>4
<1>3. Reserved(t, src) = SumFunctionOnSet(a, Locations)
  BY <1>1 DEF Reserved, SumFunction
<1> QED BY <1>1, <1>2, <1>3 DEF Reserved

LEMMA HoldsPlaced ==
  ASSUME NEW s \in StockType, NEW t \in StockType, NEW H \in SUBSET Sources, HoldsAreSound(s, H), s.rows # {},
         NEW src \in Sources \ H, NEW a \in [Locations -> Nat], SumFunctionOnSet(a, Locations) = Need[src],
         t.reservation = [s.reservation EXCEPT ![src] = a],
         t.aggregate.reserved = s.aggregate.reserved + Need[src],
         \A l \in Locations : t.balance[l].reserved = s.balance[l].reserved + a[l]
  PROVE  HoldsAreSound(t, H \cup {src})
<1>1. Reserved(s, src) = 0
  BY DEF HoldsAreSound
<1>2. Need[src] \in Nat \ {0}
  OBVIOUS
<1>3. /\ \A l \in Locations : Tracked(t, l) = Tracked(s, l) - s.reservation[src][l] + a[l]
      /\ Reserved(t, src) = Need[src]
      /\ \A o \in Sources \ {src} : Reserved(t, o) = Reserved(s, o)
  BY ReservationWritten
<1>4. \A l \in Locations : /\ Tracked(t, l) = Tracked(s, l) + a[l]
                           /\ Tracked(s, l) <= s.balance[l].reserved
                           /\ Tracked(s, l) \in Nat /\ s.balance[l].reserved \in Nat /\ a[l] \in Nat
  <2>1. \A l \in Locations : s.reservation[src][l] = 0
    BY <1>1, NoneReserved
  <2>2. \A l \in Locations : /\ Tracked(s, l) <= s.balance[l].reserved
                             /\ Tracked(s, l) \in Nat /\ s.balance[l].reserved \in Nat /\ a[l] \in Nat
    BY AmountTypes, ReservationTypes DEF HoldsAreSound
  <2> QED BY <1>3, <2>1, <2>2
<1>5. \A l \in Locations : Tracked(t, l) <= t.balance[l].reserved
  BY <1>4
<1>6. Untracked(t, H \cup {src}) = Untracked(s, H)
  BY <1>2, <1>3 DEF Untracked
<1>7. Total(LegacyReserved(t)) = Total(LegacyReserved(s))
  <2> DEFINE f == LegacyReserved(s)
             g == LegacyReserved(t)
  <2>1. /\ DOMAIN f = Locations /\ DOMAIN g = Locations
        /\ \A l \in Locations : /\ f[l] = s.balance[l].reserved - Tracked(s, l)
                                /\ g[l] = t.balance[l].reserved - Tracked(t, l)
    BY <1>4, <1>5, LegacyIs
  <2> HIDE DEF f, g
  <2>2. \A l \in Locations : f[l] = g[l]
    BY <1>4, <2>1
  <2>3. SumFunction(f) = SumFunction(g)
    BY <2>1, <2>2, SumAgree DEF SumFunction
  <2> QED BY <2>3 DEF f, g
<1>8. SumFunctionOnSet(Need, H \cup {src}) = SumFunctionOnSet(Need, H) + Need[src]
  <2>1. IsFiniteSet(H) /\ src \notin H /\ \A o \in H \cup {src} : Need[o] \in Int
    BY FS_Subset
  <2> QED BY <2>1, SumAdded
<1>9. \A o \in Sources : Reserved(t, o) # 0 => o \in H \cup {src} /\ Reserved(t, o) = Need[o]
  BY <1>3 DEF HoldsAreSound
<1> QED BY <1>5, <1>6, <1>7, <1>8, <1>9 DEF HoldsAreSound

LEMMA HoldsReleased ==
  ASSUME NEW s \in StockType, NEW t \in StockType, NEW H \in SUBSET Sources, HoldsAreSound(s, H), s.rows # {},
         NEW src \in H, NEW a \in HeldAt(s, src, Need[src]),
         t.reservation = [s.reservation EXCEPT ![src] = [l \in Locations |-> 0]],
         t.aggregate.reserved = s.aggregate.reserved - Need[src],
         \A l \in Locations : t.balance[l].reserved = s.balance[l].reserved - a[l]
  PROVE  HoldsAreSound(t, H \ {src})
<1> DEFINE zero == [l \in Locations |-> 0]
           q == Need[src]
<1>0. q \in Nat \ {0} /\ src \in Sources /\ zero \in [Locations -> Nat] /\ \A l \in Locations : zero[l] = 0
  OBVIOUS
<1>1. SumFunctionOnSet(zero, Locations) = 0
  BY SumOfZeros
<1>2. t.reservation = [s.reservation EXCEPT ![src] = zero]
  OBVIOUS
<1> HIDE DEF zero
<1>3. /\ \A l \in Locations : Tracked(t, l) = Tracked(s, l) - s.reservation[src][l]
      /\ Reserved(t, src) = 0
      /\ \A o \in Sources \ {src} : Reserved(t, o) = Reserved(s, o)
  <2>1. \A l \in Locations : Tracked(t, l) = Tracked(s, l) - s.reservation[src][l] + zero[l]
    BY <1>0, <1>2, ReservationWritten
  <2>2. \A l \in Locations : Tracked(s, l) \in Nat /\ s.reservation[src][l] \in Nat
    BY <1>0, AmountTypes, ReservationTypes
  <2>3. Reserved(t, src) = 0 /\ \A o \in Sources \ {src} : Reserved(t, o) = Reserved(s, o)
    BY <1>0, <1>1, <1>2, ReservationWritten
  <2> QED BY <1>0, <2>1, <2>2, <2>3
<1>4. \A l \in Locations : /\ Tracked(s, l) <= s.balance[l].reserved
                           /\ Tracked(s, l) \in Nat /\ s.balance[l].reserved \in Nat
                           /\ s.reservation[src][l] \in Nat /\ s.reservation[src][l] <= Tracked(s, l)
  BY <1>0, AmountTypes, ReservationTypes DEF HoldsAreSound
<1>5. SumFunctionOnSet(Need, H \ {src}) = SumFunctionOnSet(Need, H) - q /\ SumFunctionOnSet(Need, H) \in Int
  <2>1. IsFiniteSet(H) /\ IsFiniteSet(H \ {src}) /\ src \in H /\ \A o \in H : Need[o] \in Int
    BY FS_Subset
  <2>2. /\ SumFunctionOnSet(Need, H) = q + SumFunctionOnSet(Need, H \ {src})
        /\ SumFunctionOnSet(Need, H) \in Int /\ SumFunctionOnSet(Need, H \ {src}) \in Int
    BY <2>1, SumRemove, SumType
  <2> QED BY <1>0, <2>2
<1>6. \A o \in Sources : Reserved(t, o) # 0 => o \in H \ {src} /\ Reserved(t, o) = Need[o]
  BY <1>3 DEF HoldsAreSound
<1>7. t.aggregate.reserved = SumFunctionOnSet(Need, H \ {src})
  BY <1>5 DEF HoldsAreSound
<1>8. CASE Reserved(s, src) > 0
  <2>1. a = s.reservation[src]
    BY <1>8 DEF HeldAt
  <2>2. \A l \in Locations : /\ Tracked(t, l) <= t.balance[l].reserved
                             /\ t.balance[l].reserved - Tracked(t, l) = s.balance[l].reserved - Tracked(s, l)
    BY <1>3, <1>4, <2>1
  <2>3. Untracked(t, H \ {src}) = Untracked(s, H)
    BY <1>3, <1>8 DEF Untracked
  <2>4. Total(LegacyReserved(t)) = Total(LegacyReserved(s))
    <3> DEFINE f == LegacyReserved(s)
               g == LegacyReserved(t)
    <3>1. /\ DOMAIN f = Locations /\ DOMAIN g = Locations
          /\ \A l \in Locations : /\ f[l] = s.balance[l].reserved - Tracked(s, l)
                                  /\ g[l] = t.balance[l].reserved - Tracked(t, l)
      BY <1>4, <2>2, LegacyIs
    <3> HIDE DEF f, g
    <3>2. SumFunction(f) = SumFunction(g)
      BY <2>2, <3>1, SumAgree DEF SumFunction
    <3> QED BY <3>2 DEF f, g
  <2> QED BY <1>6, <1>7, <2>2, <2>3, <2>4 DEF HoldsAreSound
<1>9. CASE Reserved(s, src) = 0
  <2>1. a \in Allocations(q) /\ Greedy(a, LegacyReserved(s), q)
    BY <1>9 DEF HeldAt
  <2>2. Total(a) = q /\ \A l \in Locations : a[l] <= LegacyReserved(s)[l] /\ a[l] \in Nat
    BY <2>1, AllocationTypes DEF Greedy
  <2>3. \A l \in Locations : s.reservation[src][l] = 0
    BY <1>0, <1>9, NoneReserved
  <2>4. \A l \in Locations : LegacyReserved(s)[l] = s.balance[l].reserved - Tracked(s, l)
    BY <1>4, LegacyIs
  <2>5. \A l \in Locations : /\ Tracked(t, l) = Tracked(s, l) /\ Tracked(t, l) <= t.balance[l].reserved
                             /\ t.balance[l].reserved - Tracked(t, l) = LegacyReserved(s)[l] - a[l]
    BY <1>3, <1>4, <2>2, <2>3, <2>4
  <2>6. Total(LegacyReserved(t)) = Total(LegacyReserved(s)) - q
    <3> DEFINE f == LegacyReserved(s)
               g == LegacyReserved(t)
    <3>1. /\ DOMAIN f = Locations /\ DOMAIN g = Locations /\ DOMAIN a = Locations
          /\ \A l \in Locations : f[l] \in Nat /\ g[l] = t.balance[l].reserved - Tracked(t, l)
      BY <1>4, <2>1, <2>5, LegacyIs DEF Allocations
    <3>2. \A l \in Locations : f[l] \in Int /\ a[l] \in Int /\ g[l] = f[l] - a[l]
      BY <2>2, <2>5, <3>1
    <3>3. SumFunction(a) = q
      BY <2>2
    <3> HIDE DEF f, g
    <3>4. SumFunctionOnSet(g, Locations) = SumFunctionOnSet(f, Locations) - SumFunctionOnSet(a, Locations)
      BY <3>2, SumMinus
    <3>5. SumFunction(g) = SumFunction(f) - q
      BY <3>1, <3>3, <3>4 DEF SumFunction
    <3> QED BY <3>5 DEF f, g
  <2>7. SumFunctionOnSet(Need, Untracked(t, H \ {src})) = SumFunctionOnSet(Need, Untracked(s, H)) - q
    <3> DEFINE U == Untracked(s, H)
               V == Untracked(t, H \ {src})
    <3>1. src \in U /\ V = U \ {src} /\ U \subseteq Sources
      BY <1>3, <1>9 DEF Untracked
    <3> HIDE DEF U, V
    <3>2. IsFiniteSet(U) /\ IsFiniteSet(U \ {src}) /\ \A o \in U : Need[o] \in Int
      BY <3>1, FS_Subset
    <3>3. /\ SumFunctionOnSet(Need, U) = q + SumFunctionOnSet(Need, U \ {src})
          /\ SumFunctionOnSet(Need, U \ {src}) \in Int
      BY <3>1, <3>2, SumRemove, SumType
    <3>4. SumFunctionOnSet(Need, V) = SumFunctionOnSet(Need, U) - q
      BY <1>0, <3>1, <3>3
    <3> QED BY <3>4 DEF U, V
  <2> QED BY <1>6, <1>7, <2>5, <2>6, <2>7 DEF HoldsAreSound
<1>10. Reserved(s, src) \in Nat
  BY <1>0, ReservationTypes
<1> QED BY <1>8, <1>9, <1>10

-----------------------------------------------------------------------------
\* The stock a statement leaves: n units more or less in each column.
After(s, f, q, dq, dr, da, R, C, S, U, V) ==
  [ aggregate |-> Shift(s.aggregate, dq * q, dr * q, da * q), rows |-> R,
    balance |-> [l \in Locations |-> Shift(s.balance[l], dq * f[l], dr * f[l], da * f[l])],
    classified |-> C, sellable |-> S, unsellable |-> U, reservation |-> V ]

LEMMA MovedIs ==
  ASSUME NEW s \in StockType, NEW f, NEW q, NEW dq, NEW dr, NEW da
  PROVE  Moved(s, f, q, dq, dr, da) =
           After(s, f, q, dq, dr, da, s.rows, s.classified, s.sellable, s.unsellable, s.reservation)
<1> DEFINE agg == Shift(s.aggregate, dq * q, dr * q, da * q)
           bal == [l \in Locations |-> Shift(s.balance[l], dq * f[l], dr * f[l], da * f[l])]
<1>1. Moved(s, f, q, dq, dr, da) = [s EXCEPT !.aggregate = agg, !.balance = bal]
  BY DEF Moved
<1> HIDE DEF agg, bal
<1>2. Moved(s, f, q, dq, dr, da) =
        [ aggregate |-> agg, rows |-> s.rows, balance |-> bal, classified |-> s.classified,
          sellable |-> s.sellable, unsellable |-> s.unsellable, reservation |-> s.reservation ]
  BY <1>1 DEF StockType
<1> QED BY <1>2 DEF agg, bal, After

WithRows(t, x) == [t EXCEPT !.rows = x]
WithClassified(t, x) == [t EXCEPT !.classified = x]
WithSellable(t, x) == [t EXCEPT !.sellable = x]
WithUnsellable(t, x) == [t EXCEPT !.unsellable = x]
WithReservation(t, x) == [t EXCEPT !.reservation = x]

\* What an action writes beside balances and aggregate.
LEMMA AfterWritten ==
  ASSUME NEW s, NEW f, NEW q, NEW dq, NEW dr, NEW da, NEW R, NEW C, NEW S, NEW U, NEW V, NEW t, NEW x,
         t = After(s, f, q, dq, dr, da, R, C, S, U, V)
  PROVE  /\ WithRows(t, x) = After(s, f, q, dq, dr, da, x, C, S, U, V)
         /\ WithClassified(t, x) = After(s, f, q, dq, dr, da, R, x, S, U, V)
         /\ WithSellable(t, x) = After(s, f, q, dq, dr, da, R, C, x, U, V)
         /\ WithUnsellable(t, x) = After(s, f, q, dq, dr, da, R, C, S, x, V)
         /\ WithReservation(t, x) = After(s, f, q, dq, dr, da, R, C, S, U, x)
<1> DEFINE agg == Shift(s.aggregate, dq * q, dr * q, da * q)
           bal == [l \in Locations |-> Shift(s.balance[l], dq * f[l], dr * f[l], da * f[l])]
<1>1. \A r, c, y, u, v : After(s, f, q, dq, dr, da, r, c, y, u, v) =
        [ aggregate |-> agg, rows |-> r, balance |-> bal, classified |-> c,
          sellable |-> y, unsellable |-> u, reservation |-> v ]
  BY DEF After
<1> HIDE DEF agg, bal
<1>2. t = [ aggregate |-> agg, rows |-> R, balance |-> bal, classified |-> C,
            sellable |-> S, unsellable |-> U, reservation |-> V ]
  BY <1>1
<1>3. WithRows(t, x) = After(s, f, q, dq, dr, da, x, C, S, U, V)
  BY <1>1, <1>2 DEF WithRows
<1>4. WithClassified(t, x) = After(s, f, q, dq, dr, da, R, x, S, U, V)
  BY <1>1, <1>2 DEF WithClassified
<1>5. WithSellable(t, x) = After(s, f, q, dq, dr, da, R, C, x, U, V)
  BY <1>1, <1>2 DEF WithSellable
<1>6. WithUnsellable(t, x) = After(s, f, q, dq, dr, da, R, C, S, x, V)
  BY <1>1, <1>2 DEF WithUnsellable
<1>7. WithReservation(t, x) = After(s, f, q, dq, dr, da, R, C, S, U, x)
  BY <1>1, <1>2 DEF WithReservation
<1> QED BY <1>3, <1>4, <1>5, <1>6, <1>7

Signs == {-1, 0, 1}
Signed(d, n) == IF d = 1 THEN n ELSE IF d = 0 THEN 0 ELSE 0 - n

LEMMA ShiftIs ==
  ASSUME NEW row \in Amounts, NEW n \in Int, NEW dq \in Signs, NEW dr \in Signs, NEW da \in Signs,
         NEW b, b = Shift(row, dq * n, dr * n, da * n)
  PROVE  /\ b.quantity = row.quantity + Signed(dq, n)
         /\ b.reserved = row.reserved + Signed(dr, n)
         /\ b.available = row.available + Signed(da, n)
         /\ b.quantity \in Nat /\ b.reserved \in Nat /\ b.available \in Nat => b \in Amounts
<1>1. /\ b.quantity = row.quantity + dq * n
      /\ b.reserved = row.reserved + dr * n
      /\ b.available = row.available + da * n
      /\ b = [quantity |-> b.quantity, reserved |-> b.reserved, available |-> b.available]
  BY DEF Shift
<1>2. \A k \in Signs : k * n = Signed(k, n)
  BY OnceOrNot DEF Signs, Signed
<1>3. b.quantity = row.quantity + Signed(dq, n)
  BY <1>1, <1>2
<1>4. b.reserved = row.reserved + Signed(dr, n)
  BY <1>1, <1>2
<1>5. b.available = row.available + Signed(da, n)
  BY <1>1, <1>2
<1> QED BY <1>1, <1>3, <1>4, <1>5 DEF Amounts

\* Such a stock in numbers.
InNumbers(s, t, f, q, dq, dr, da) ==
  /\ t.aggregate.quantity = s.aggregate.quantity + Signed(dq, q)
  /\ t.aggregate.reserved = s.aggregate.reserved + Signed(dr, q)
  /\ t.aggregate.available = s.aggregate.available + Signed(da, q)
  /\ \A l \in Locations :
       /\ t.balance[l].quantity = s.balance[l].quantity + Signed(dq, f[l])
       /\ t.balance[l].reserved = s.balance[l].reserved + Signed(dr, f[l])
       /\ t.balance[l].available = s.balance[l].available + Signed(da, f[l])
       /\ t.balance[l].quantity \in Nat /\ t.balance[l].reserved \in Nat /\ t.balance[l].available \in Nat
            => t.balance[l] \in Amounts

LEMMA AfterIs ==
  ASSUME NEW s \in StockType, NEW f \in [Locations -> Int], NEW q \in Int,
         NEW dq \in Signs, NEW dr \in Signs, NEW da \in Signs, NEW R, NEW C, NEW S, NEW U, NEW V,
         NEW t, t = After(s, f, q, dq, dr, da, R, C, S, U, V)
  PROVE  /\ InNumbers(s, t, f, q, dq, dr, da)
         /\ t.rows = R /\ t.classified = C /\ t.sellable = S /\ t.unsellable = U /\ t.reservation = V
<1>1. /\ t.aggregate = Shift(s.aggregate, dq * q, dr * q, da * q)
      /\ t.rows = R /\ t.classified = C /\ t.sellable = S /\ t.unsellable = U /\ t.reservation = V
      /\ \A l \in Locations : t.balance[l] = Shift(s.balance[l], dq * f[l], dr * f[l], da * f[l])
  BY DEF After
<1>2. /\ t.aggregate.quantity = s.aggregate.quantity + Signed(dq, q)
      /\ t.aggregate.reserved = s.aggregate.reserved + Signed(dr, q)
      /\ t.aggregate.available = s.aggregate.available + Signed(da, q)
  <2>1. s.aggregate \in Amounts
    BY AmountTypes
  <2> QED BY <1>1, <2>1, ShiftIs
<1>3. ASSUME NEW l \in Locations
      PROVE  /\ t.balance[l].quantity = s.balance[l].quantity + Signed(dq, f[l])
             /\ t.balance[l].reserved = s.balance[l].reserved + Signed(dr, f[l])
             /\ t.balance[l].available = s.balance[l].available + Signed(da, f[l])
             /\ t.balance[l].quantity \in Nat /\ t.balance[l].reserved \in Nat /\ t.balance[l].available \in Nat
                  => t.balance[l] \in Amounts
  <2>1. s.balance[l] \in Amounts /\ f[l] \in Int
    BY AmountTypes
  <2>2. t.balance[l] = Shift(s.balance[l], dq * f[l], dr * f[l], da * f[l])
    BY <1>1
  <2> QED BY <2>1, <2>2, ShiftIs
<1> QED BY <1>1, <1>2, <1>3 DEF InNumbers

\* What a row says of itself, once the conditions are prepared.
RowFacts(s, l) ==
  /\ s.balance[l].quantity = s.balance[l].reserved + s.balance[l].available + s.unsellable[l]
  /\ l \notin s.rows => s.balance[l].quantity = 0 /\ s.balance[l].reserved = 0 /\ s.balance[l].available = 0
  /\ s.classified => s.sellable[l] = s.balance[l].reserved + s.balance[l].available
  /\ ~s.classified => s.sellable[l] = 0 /\ s.unsellable[l] = 0
  /\ s.balance[l].quantity \in Nat /\ s.balance[l].reserved \in Nat /\ s.balance[l].available \in Nat
  /\ s.sellable[l] \in Nat /\ s.unsellable[l] \in Nat

\* Rows and conditions of a location are written in step.
InStep(s, f, dq, dr, da, R, C, S, U, l) ==
  LET n == f[l] IN
  /\ s.balance[l].reserved + Signed(dr, n) >= 0 /\ s.balance[l].available + Signed(da, n) >= 0
  /\ U[l] = s.unsellable[l] + Signed(dq, n) - Signed(dr, n) - Signed(da, n)
  /\ C => S[l] = s.balance[l].reserved + s.balance[l].available + Signed(dr, n) + Signed(da, n)
  /\ ~C => S[l] = 0 /\ U[l] = 0
  /\ l \notin R => n = 0 /\ l \notin s.rows

LEMMA RowsAreTold ==
  ASSUME NEW s, RowsAreSound(s), NEW l \in Locations
  PROVE  RowFacts(s, l)
BY AmountTypes DEF RowsAreSound, Split, RowFacts, Nothing

\* What the rows say after a statement, when they are written in step.
Writes(s, t, f, q, dq, dr, da, R, C, S, U, V) ==
  /\ f \in [Locations -> Int] /\ q = SumFunctionOnSet(f, Locations)
  /\ R \in SUBSET Locations /\ R # {} /\ C \in BOOLEAN /\ S \in [Locations -> Nat]
  /\ U \in [Locations -> Nat] /\ V \in [Sources -> [Locations -> Nat]]
  /\ t = After(s, f, q, dq, dr, da, R, C, S, U, V)
  /\ \A l \in Locations : InStep(s, f, dq, dr, da, R, C, S, U, l)

LEMMA RowsWritten ==
  ASSUME NEW s, RowsAreSound(s), s.rows # {}, NEW t, NEW f, NEW q,
         NEW dq \in Signs, NEW dr \in Signs, NEW da \in Signs, NEW R, NEW C, NEW S, NEW U, NEW V,
         Writes(s, t, f, q, dq, dr, da, R, C, S, U, V)
  PROVE  RowsAreSound(t) /\ t \in StockType
<1>0. /\ f \in [Locations -> Int] /\ q = SumFunctionOnSet(f, Locations)
      /\ R \in SUBSET Locations /\ R # {} /\ C \in BOOLEAN /\ S \in [Locations -> Nat]
      /\ U \in [Locations -> Nat] /\ V \in [Sources -> [Locations -> Nat]]
      /\ t = After(s, f, q, dq, dr, da, R, C, S, U, V)
      /\ \A l \in Locations : InStep(s, f, dq, dr, da, R, C, S, U, l)
  BY DEF Writes
<1>1. /\ ShiftedBy(s, t, f, q, dq, dr, da)
      /\ t.balance = [l \in Locations |-> t.balance[l]]
      /\ t.rows = R /\ t.classified = C /\ t.sellable = S /\ t.unsellable = U /\ t.reservation = V
      /\ t = [ aggregate |-> t.aggregate, rows |-> R, balance |-> t.balance,
               classified |-> C, sellable |-> S, unsellable |-> U, reservation |-> V ]
  BY <1>0 DEF After, ShiftedBy
<1>2. s \in StockType /\ LocationsAgree(s) /\ dq \in Int /\ dr \in Int /\ da \in Int
  BY DEF RowsAreSound, Signs
<1>n. q \in Int
  BY <1>0, SumType
<1>b. InNumbers(s, t, f, q, dq, dr, da)
  BY <1>0, <1>2, <1>n, AfterIs
<1>3. ASSUME NEW l \in Locations
      PROVE  /\ t.balance[l] \in Amounts
             /\ t.balance[l].quantity = t.balance[l].reserved + t.balance[l].available + U[l]
             /\ l \notin R => t.balance[l] = Nothing
             /\ C => S[l] = t.balance[l].reserved + t.balance[l].available
             /\ ~C => S[l] = 0 /\ U[l] = 0
  <2> DEFINE b == t.balance[l]
             row == s.balance[l]
             n == f[l]
             nq == Signed(dq, n)
             nr == Signed(dr, n)
             na == Signed(da, n)
  <2>1. /\ b.quantity = row.quantity + nq /\ b.reserved = row.reserved + nr /\ b.available = row.available + na
        /\ b.quantity \in Nat /\ b.reserved \in Nat /\ b.available \in Nat => b \in Amounts
    BY <1>b DEF InNumbers
  <2>2. nq \in Int /\ nr \in Int /\ na \in Int /\ (n = 0 => nq = 0 /\ nr = 0 /\ na = 0)
    BY <1>0 DEF Signs, Signed
  <2>3. /\ row.quantity = row.reserved + row.available + s.unsellable[l]
        /\ l \notin s.rows => row.quantity = 0 /\ row.reserved = 0 /\ row.available = 0
        /\ row.quantity \in Nat /\ row.reserved \in Nat /\ row.available \in Nat /\ s.unsellable[l] \in Nat
    BY RowsAreTold DEF RowFacts
  <2>4. /\ row.reserved + nr >= 0 /\ row.available + na >= 0
        /\ U[l] = s.unsellable[l] + nq - nr - na /\ U[l] \in Nat
        /\ C => S[l] = row.reserved + row.available + nr + na
        /\ ~C => S[l] = 0 /\ U[l] = 0
        /\ l \notin R => n = 0 /\ l \notin s.rows
    BY <1>0 DEF InStep
  <2> HIDE DEF b, row, n, nq, nr, na
  <2>5. b.reserved \in Nat /\ b.available \in Nat /\ b.quantity = b.reserved + b.available + U[l]
    <3> DEFINE u == s.unsellable[l]
               v == U[l]
               x == row.quantity
               y == row.reserved
               z == row.available
    <3>1. /\ b.quantity = x + nq /\ b.reserved = y + nr /\ b.available = z + na
          /\ x = y + z + u /\ v = u + nq - nr - na /\ y + nr >= 0 /\ z + na >= 0
          /\ x \in Nat /\ y \in Nat /\ z \in Nat /\ u \in Nat
      BY <2>1, <2>3, <2>4
    <3> HIDE DEF u, v, x, y, z
    <3>2. b.reserved \in Nat /\ b.available \in Nat /\ b.quantity = b.reserved + b.available + v
      BY <2>2, <3>1
    <3> QED BY <3>2 DEF v
  <2>6. b \in Amounts
    BY <2>1, <2>4, <2>5
  <2>7. l \notin R => b = Nothing
    <3>1. l \notin R => b.quantity = 0 /\ b.reserved = 0 /\ b.available = 0
      BY <2>1, <2>2, <2>3, <2>4
    <3> QED BY <2>6, <3>1 DEF Amounts, Nothing
  <2>8. C => S[l] = b.reserved + b.available
    BY <2>1, <2>2, <2>3, <2>4
  <2> QED BY <2>4, <2>5, <2>6, <2>7, <2>8 DEF b
<1>4. t.balance \in [Locations -> Amounts]
  BY <1>1, <1>3
<1>5. LocationsAgree(t) /\ t.aggregate \in Amounts
  BY <1>0, <1>1, <1>2, <1>4, MovedAgrees
<1>6. t \in StockType
  BY <1>0, <1>1, <1>4, <1>5 DEF StockType
<1>7. Split(t)
  BY <1>1, <1>3 DEF Split
<1> QED BY <1>0, <1>1, <1>5, <1>6, <1>7 DEF RowsAreSound

LEMMA HeldTypes ==
  ASSUME NEW s \in StockType, NEW H \in SUBSET Sources, HoldsAreSound(s, H), NEW src \in H,
         NEW a \in HeldAt(s, src, Need[src])
  PROVE  /\ a \in [Locations -> Nat] /\ a \in [Locations -> Int]
         /\ SumFunctionOnSet(a, Locations) = Need[src]
         /\ \A l \in Locations : a[l] \in Nat /\ a[l] <= s.balance[l].reserved
<1>1. CASE Reserved(s, src) > 0
  <2>1. a = s.reservation[src] /\ Total(a) = Need[src]
    BY <1>1 DEF HeldAt
  <2>2. a \in [Locations -> Nat]
    BY <2>1, AmountTypes
  <2>3. \A l \in Locations : a[l] <= Tracked(s, l) /\ Tracked(s, l) <= s.balance[l].reserved
                             /\ Tracked(s, l) \in Nat /\ s.balance[l].reserved \in Nat
    BY <2>1, AmountTypes, ReservationTypes DEF HoldsAreSound
  <2> QED BY <2>1, <2>2, <2>3 DEF SumFunction
<1>2. CASE ~(Reserved(s, src) > 0)
  <2>1. a \in Allocations(Need[src]) /\ Greedy(a, LegacyReserved(s), Need[src])
    BY <1>2 DEF HeldAt
  <2>2. Total(a) = Need[src] /\ \A l \in Locations : a[l] <= LegacyReserved(s)[l]
    BY <2>1 DEF Greedy
  <2>3. \A l \in Locations : /\ LegacyReserved(s)[l] = s.balance[l].reserved - Tracked(s, l)
                             /\ Tracked(s, l) \in Nat /\ s.balance[l].reserved \in Nat
    BY LegacyIs, AmountTypes, ReservationTypes DEF HoldsAreSound
  <2>4. /\ a \in [Locations -> Nat] /\ a \in [Locations -> Int]
        /\ Need[src] = SumFunctionOnSet(a, Locations) /\ \A l \in Locations : a[l] \in Nat
    BY <2>1, <2>2, AllocationTypes
  <2> QED BY <2>2, <2>3, <2>4
<1> QED BY <1>1, <1>2

\* There is always something to ship for a holder.
LEMMA HeldExists ==
  ASSUME NEW s \in StockType, NEW H \in SUBSET Sources, HoldsAreSound(s, H), s.rows # {}, NEW src \in H
  PROVE  \E a \in HeldAt(s, src, Need[src]) : TRUE
<1>1. CASE Reserved(s, src) > 0
  <2>1. Total(s.reservation[src]) = Need[src]
    BY <1>1 DEF HoldsAreSound, Reserved
  <2> QED BY <1>1, <2>1 DEF HeldAt
<1>2. CASE ~(Reserved(s, src) > 0)
  <2> DEFINE free == LegacyReserved(s)
             U == Untracked(s, H)
  <2>1. DOMAIN free = Locations /\ \A l \in Locations : free[l] \in Nat
    BY LegacyIs DEF HoldsAreSound
  <2>2. free \in [Locations -> Nat]
    <3>1. free = [l \in Locations |-> free[l]]
      BY DEF LegacyReserved
    <3> HIDE DEF free
    <3> QED BY <2>1, <3>1
  <2>3. Reserved(s, src) = 0
    BY <1>2, ReservationTypes
  <2>4. src \in U /\ U \subseteq Sources
    BY <2>3 DEF Untracked
  <2>5. SumFunction(free) = SumFunctionOnSet(Need, U)
    BY DEF HoldsAreSound
  <2> HIDE DEF free, U
  <2>6. Need[src] <= SumFunctionOnSet(Need, U)
    <3>1. IsFiniteSet(U) /\ \A o \in U : Need[o] \in Nat
      BY <2>4, FS_Subset
    <3> QED BY <2>4, <3>1, SumMember
  <2>7. Need[src] <= SumFunctionOnSet(free, Locations)
    BY <2>1, <2>5, <2>6 DEF SumFunction
  <2>8. \E a \in Allocations(Need[src]) : Greedy(a, free, Need[src])
    <3>1. Need[src] \in Nat
      OBVIOUS
    <3> QED BY <2>2, <2>7, <3>1, GreedyExists
  <2> QED BY <1>2, <2>8 DEF HeldAt, free
<1> QED BY <1>1, <1>2

-----------------------------------------------------------------------------
\* The statements on rows that are prepared.
SoundFor(s, H) ==
  /\ s \in StockType /\ s.rows # {} /\ s.rows \in SUBSET Locations /\ RowsAreSound(s) /\ HoldsAreSound(s, H)
  /\ s.aggregate = stock.aggregate /\ s.unsellable = stock.unsellable
  /\ s.classified \in BOOLEAN /\ s.sellable \in [Locations -> Nat] /\ s.unsellable \in [Locations -> Nat]
  /\ s.reservation \in [Sources -> [Locations -> Nat]]
  /\ \A l \in Locations : RowFacts(s, l)

LEMMA ReadyIsSound ==
  ASSUME NEW s, NEW H, IsReady(s, H) PROVE SoundFor(s, H)
<1>1. s \in StockType /\ s.rows # {} /\ RowsAreSound(s)
  BY DEF IsReady, RowsAreSound
<1>2. \A l \in Locations : RowFacts(s, l)
  BY <1>1, RowsAreTold
<1>3. /\ s.rows \in SUBSET Locations /\ s.classified \in BOOLEAN
      /\ s.sellable \in [Locations -> Nat] /\ s.unsellable \in [Locations -> Nat]
      /\ s.reservation \in [Sources -> [Locations -> Nat]]
  BY <1>1 DEF StockType
<1> QED BY <1>1, <1>2, <1>3 DEF IsReady, SoundFor

LEMMA PreparedFacts ==
  ASSUME NEW H \in SUBSET Sources, RowsAreSound(stock), HoldsAreSound(stock, H)
  PROVE  LET s == Prepared(stock) IN
         /\ SoundFor(s, H)
         /\ \A l \in Locations : s.sellable[l] = s.balance[l].reserved + s.balance[l].available
BY PreparedIsReady, ReadyIsSound

\* Units taken where there are that many available.
LEMMA TakenFits ==
  ASSUME NEW s, NEW l \in Locations, RowFacts(s, l), NEW n \in Nat, n <= s.balance[l].available
  PROVE  l \notin s.rows => n = 0
BY DEF RowFacts

LEMMA SignsAre == 0 \in Signs /\ 1 \in Signs /\ -1 \in Signs
BY DEF Signs

LEMMA ReserveKeeps ==
  ASSUME NEW H \in SUBSET Sources, RowsAreSound(stock), HoldsAreSound(stock, H),
         NEW src \in Sources \ H, Reserve(src, Need[src])
  PROVE  /\ RowsAreSound(stock') /\ HoldsAreSound(stock', H \cup {src})
         /\ stock'.aggregate.quantity = stock.aggregate.quantity /\ stock'.unsellable = stock.unsellable
         /\ stock.aggregate.available >= Need[src]
<1> DEFINE s == Prepared(stock)
           q == Need[src]
<1>0. q \in Nat \ {0}
  OBVIOUS
<1>1. PICK alloc \in Allocations(q) :
        /\ Greedy(alloc, Column(s, "available"), q)
        /\ stock' = [Moved(s, alloc, q, 0, 1, -1) EXCEPT !.reservation[src] = alloc]
  BY DEF Reserve
<1>2. stock.aggregate.available >= q
  BY DEF Reserve
<1>3. SoundFor(s, H)
  BY PreparedFacts
<1> HIDE DEF s
<1>4. /\ alloc \in [Locations -> Nat] /\ alloc \in [Locations -> Int] /\ q = SumFunctionOnSet(alloc, Locations)
      /\ \A l \in Locations : alloc[l] \in Nat /\ alloc[l] <= s.balance[l].available
  BY <1>1, AllocationTypes DEF Greedy, Column
<1> DEFINE V == [s.reservation EXCEPT ![src] = alloc]
           m == Moved(s, alloc, q, 0, 1, -1)
<1>5. stock' = After(s, alloc, q, 0, 1, -1, s.rows, s.classified, s.sellable, s.unsellable, V)
  <2>1. m = After(s, alloc, q, 0, 1, -1, s.rows, s.classified, s.sellable, s.unsellable, s.reservation)
    BY <1>3, MovedIs DEF SoundFor
  <2>2. m.reservation = s.reservation
    BY <2>1 DEF After
  <2>3. stock' = WithReservation(m, V)
    BY <1>1, <2>2 DEF WithReservation
  <2> HIDE DEF m, V
  <2>4. WithReservation(m, V) =
          After(s, alloc, q, 0, 1, -1, s.rows, s.classified, s.sellable, s.unsellable, V)
    BY <2>1, AfterWritten
  <2> QED BY <2>3, <2>4
<1>6. V \in [Sources -> [Locations -> Nat]]
  BY <1>3, <1>4 DEF SoundFor
<1> HIDE DEF V, m
<1>7. InNumbers(s, stock', alloc, q, 0, 1, -1) /\ stock'.unsellable = s.unsellable /\ stock'.reservation = V
  BY <1>0, <1>3, <1>4, <1>5, SignsAre, AfterIs DEF SoundFor
<1>8. RowsAreSound(stock') /\ stock' \in StockType
  <2>1. ASSUME NEW l \in Locations
        PROVE  InStep(s, alloc, 0, 1, -1, s.rows, s.classified, s.sellable, s.unsellable, l)
    BY <1>3, <1>4, TakenFits DEF SoundFor, RowFacts, InStep, Signed
  <2>2. Writes(s, stock', alloc, q, 0, 1, -1, s.rows, s.classified, s.sellable, s.unsellable, V)
    BY <1>3, <1>4, <1>5, <1>6, <2>1 DEF SoundFor, Writes
  <2> QED BY <1>3, <2>2, SignsAre, RowsWritten DEF SoundFor
<1>9. /\ stock'.aggregate.reserved = s.aggregate.reserved + q
      /\ stock'.aggregate.quantity = s.aggregate.quantity + 0
      /\ \A l \in Locations : stock'.balance[l].reserved = s.balance[l].reserved + alloc[l]
  BY <1>7 DEF InNumbers, Signed
<1>10. s.aggregate.quantity \in Nat
  BY <1>3, AmountTypes DEF SoundFor
<1>11. HoldsAreSound(stock', H \cup {src})
  <2>1. stock'.reservation = [s.reservation EXCEPT ![src] = alloc]
    BY <1>7 DEF V
  <2> QED BY <1>3, <1>4, <1>8, <1>9, <2>1, HoldsPlaced DEF SoundFor
<1> QED BY <1>2, <1>3, <1>7, <1>8, <1>9, <1>10, <1>11 DEF SoundFor

\* A holder's units returned to stock, or shipped, from rows that are prepared.
Leaves(s, S, alloc, dq, da) ==
  \/ dq = 0 /\ da = 1 /\ S = s.sellable
  \/ /\ dq = -1 /\ da = 0 /\ S = [l \in Locations |-> s.sellable[l] - alloc[l]]
     /\ \A l \in Locations : alloc[l] <= s.sellable[l]

Left(s, t, src, alloc, dq, da, S) ==
  t = After(s, alloc, Need[src], dq, -1, da, s.rows, s.classified, S, s.unsellable,
            [s.reservation EXCEPT ![src] = [l \in Locations |-> 0]])

LEMMA LeavingKeeps ==
  ASSUME NEW H \in SUBSET Sources, NEW s, SoundFor(s, H), NEW src \in H,
         NEW alloc \in HeldAt(s, src, Need[src]), NEW dq, NEW da, NEW S, Leaves(s, S, alloc, dq, da),
         NEW t, Left(s, t, src, alloc, dq, da, S)
  PROVE  /\ RowsAreSound(t) /\ HoldsAreSound(t, H \ {src})
         /\ t.aggregate.quantity = stock.aggregate.quantity + Signed(dq, Need[src])
         /\ t.unsellable = stock.unsellable
<1> DEFINE q == Need[src]
           V == [s.reservation EXCEPT ![src] = [l \in Locations |-> 0]]
<1>a. t = After(s, alloc, q, dq, -1, da, s.rows, s.classified, S, s.unsellable, V)
  BY DEF Left
<1>0. q \in Nat \ {0} /\ q \in Int /\ dq \in Signs /\ da \in Signs /\ -1 \in Signs
  BY DEF Leaves, Signs
<1>1. /\ alloc \in [Locations -> Nat] /\ alloc \in [Locations -> Int] /\ SumFunctionOnSet(alloc, Locations) = q
      /\ \A l \in Locations : alloc[l] \in Nat /\ alloc[l] <= s.balance[l].reserved
  BY HeldTypes DEF SoundFor
<1>2. V \in [Sources -> [Locations -> Nat]]
  BY DEF SoundFor
<1>b. V = [s.reservation EXCEPT ![src] = [l \in Locations |-> 0]]
  OBVIOUS
<1> HIDE DEF V
<1>3. InNumbers(s, t, alloc, q, dq, -1, da) /\ t.unsellable = s.unsellable /\ t.reservation = V
  BY <1>a, <1>0, <1>1, AfterIs DEF SoundFor
<1>4. \A l \in Locations : RowFacts(s, l)
  BY DEF SoundFor
<1>5. S \in [Locations -> Nat]
  <2>1. CASE S = s.sellable
    BY <2>1 DEF SoundFor
  <2>2. CASE /\ S = [l \in Locations |-> s.sellable[l] - alloc[l]]
             /\ \A l \in Locations : alloc[l] <= s.sellable[l]
    <3>1. \A l \in Locations : s.sellable[l] \in Nat
      BY <1>4 DEF RowFacts
    <3> QED BY <1>1, <2>2, <3>1
  <2> QED BY <2>1, <2>2 DEF Leaves
<1>6. ASSUME NEW l \in Locations
      PROVE  InStep(s, alloc, dq, -1, da, s.rows, s.classified, S, s.unsellable, l)
  <2>1. RowFacts(s, l) /\ alloc[l] \in Nat /\ alloc[l] <= s.balance[l].reserved
    BY <1>1, <1>4
  <2>2. CASE dq = 0 /\ da = 1 /\ S = s.sellable
    BY <2>1, <2>2 DEF RowFacts, InStep, Signed
  <2>3. CASE dq = -1 /\ da = 0 /\ S[l] = s.sellable[l] - alloc[l] /\ alloc[l] <= s.sellable[l]
    <3>1. Signed(dq, alloc[l]) = 0 - alloc[l] /\ Signed(-1, alloc[l]) = 0 - alloc[l] /\ Signed(da, alloc[l]) = 0
      BY <2>1, <2>3 DEF Signed
    <3>2. s.balance[l].reserved - alloc[l] >= 0 /\ s.balance[l].available >= 0
      BY <2>1 DEF RowFacts
    <3>3. s.classified => S[l] = s.balance[l].reserved + s.balance[l].available - alloc[l]
      BY <2>1, <2>3 DEF RowFacts
    <3>4. /\ ~s.classified => S[l] = 0 /\ s.unsellable[l] = 0
          /\ l \notin s.rows => alloc[l] = 0
      BY <2>1, <2>3 DEF RowFacts
    <3>5. s.balance[l].reserved \in Nat /\ s.balance[l].available \in Nat /\ s.unsellable[l] \in Nat
      BY <2>1 DEF RowFacts
    <3>6. /\ s.unsellable[l] = s.unsellable[l] + (0 - alloc[l]) - (0 - alloc[l]) - 0
          /\ s.balance[l].reserved + s.balance[l].available - alloc[l]
               = s.balance[l].reserved + s.balance[l].available + (0 - alloc[l]) + 0
          /\ s.balance[l].reserved + (0 - alloc[l]) >= 0 /\ s.balance[l].available + 0 >= 0
      BY <2>1, <3>2, <3>5
    <3> QED BY <3>1, <3>3, <3>4, <3>6 DEF InStep
  <2> QED BY <2>2, <2>3 DEF Leaves
<1>7. RowsAreSound(t) /\ t \in StockType
  <2>1. Writes(s, t, alloc, q, dq, -1, da, s.rows, s.classified, S, s.unsellable, V)
    BY <1>a, <1>1, <1>2, <1>5, <1>6 DEF SoundFor, Writes
  <2> QED BY <1>0, <2>1, RowsWritten DEF SoundFor
<1>8. /\ t.aggregate.reserved = s.aggregate.reserved - q
      /\ t.aggregate.quantity = s.aggregate.quantity + Signed(dq, q)
      /\ \A l \in Locations : t.balance[l].reserved = s.balance[l].reserved - alloc[l]
  <2>1. Signed(-1, q) = 0 - q /\ \A l \in Locations : Signed(-1, alloc[l]) = 0 - alloc[l]
    BY DEF Signed
  <2>2. s.aggregate.reserved \in Nat /\ \A l \in Locations : s.balance[l].reserved \in Nat
    BY AmountTypes DEF SoundFor
  <2> QED BY <1>0, <1>1, <1>3, <2>1, <2>2 DEF InNumbers
<1>9. HoldsAreSound(t, H \ {src})
  <2>1. s \in StockType /\ HoldsAreSound(s, H) /\ s.rows # {} /\ t \in StockType
    BY <1>7 DEF SoundFor
  <2>2. /\ t.reservation = [s.reservation EXCEPT ![src] = [l \in Locations |-> 0]]
        /\ t.aggregate.reserved = s.aggregate.reserved - Need[src]
        /\ \A l \in Locations : t.balance[l].reserved = s.balance[l].reserved - alloc[l]
    BY <1>b, <1>3, <1>8
  <2> QED BY ONLY <2>1, <2>2, HoldsReleased
<1> QED BY <1>3, <1>7, <1>8, <1>9 DEF SoundFor

\* What releasing leaves.
Returned(s, t, src, alloc) ==
  t = [Moved(s, alloc, Need[src], 0, -1, 1) EXCEPT !.reservation[src] = [l \in Locations |-> 0]]

LEMMA ReturnedKeeps ==
  ASSUME NEW H \in SUBSET Sources, NEW s, SoundFor(s, H), NEW src \in H,
         NEW alloc \in HeldAt(s, src, Need[src]), NEW t, Returned(s, t, src, alloc)
  PROVE  /\ RowsAreSound(t) /\ HoldsAreSound(t, H \ {src})
         /\ t.aggregate.quantity = stock.aggregate.quantity
         /\ t.unsellable = stock.unsellable
<1> DEFINE q == Need[src]
           V == [s.reservation EXCEPT ![src] = [l \in Locations |-> 0]]
           m == Moved(s, alloc, q, 0, -1, 1)
<1>1. t = After(s, alloc, q, 0, -1, 1, s.rows, s.classified, s.sellable, s.unsellable, V)
  <2>1. m = After(s, alloc, q, 0, -1, 1, s.rows, s.classified, s.sellable, s.unsellable, s.reservation)
    BY MovedIs DEF SoundFor
  <2>2. m.reservation = s.reservation
    BY <2>1 DEF After
  <2>3. t = WithReservation(m, V)
    BY <2>2 DEF Returned, WithReservation
  <2> HIDE DEF m, V
  <2>4. WithReservation(m, V) =
          After(s, alloc, q, 0, -1, 1, s.rows, s.classified, s.sellable, s.unsellable, V)
    BY <2>1, AfterWritten
  <2> QED BY <2>3, <2>4
<1>2. Left(s, t, src, alloc, 0, 1, s.sellable)
  BY <1>1 DEF Left
<1>3. Leaves(s, s.sellable, alloc, 0, 1)
  BY DEF Leaves
<1> DEFINE S == s.sellable
<1>4. Left(s, t, src, alloc, 0, 1, S) /\ Leaves(s, S, alloc, 0, 1)
  BY <1>2, <1>3
<1> HIDE DEF S, V, m
<1>5. /\ RowsAreSound(t) /\ HoldsAreSound(t, H \ {src})
      /\ t.aggregate.quantity = stock.aggregate.quantity + Signed(0, Need[src])
      /\ t.unsellable = stock.unsellable
  BY <1>4, LeavingKeeps
<1>6. stock.aggregate.quantity \in Nat /\ Signed(0, Need[src]) = 0
  BY AmountTypes DEF SoundFor, Signed
<1> QED BY <1>5, <1>6

LEMMA ReleaseKeeps ==
  ASSUME NEW H \in SUBSET Sources, RowsAreSound(stock), HoldsAreSound(stock, H),
         NEW src \in H, Release(src, Need[src])
  PROVE  /\ RowsAreSound(stock') /\ HoldsAreSound(stock', H \ {src})
         /\ stock'.aggregate.quantity = stock.aggregate.quantity /\ stock'.unsellable = stock.unsellable
<1> DEFINE s == IF Reserved(stock, src) > 0 THEN stock ELSE Located(stock)
<1>1. SoundFor(s, H)
  <2>1. CASE Reserved(stock, src) > 0
    <3>1. stock.rows # {}
      <4> SUFFICES ASSUME stock.rows = {} PROVE FALSE
        OBVIOUS
      <4>1. stock \in StockType /\ \A l \in Locations : stock.balance[l] = Nothing
        BY DEF RowsAreSound, Split
      <4>2. \A l \in Locations : Tracked(stock, l) <= 0 /\ Tracked(stock, l) \in Nat
        BY <4>1, ReservationTypes DEF HoldsAreSound, Nothing
      <4>3. Reserved(stock, src) = 0
        BY <4>1, <4>2, NothingTracked
      <4> QED BY <2>1, <4>3
    <3> QED BY <2>1, <3>1, ReadyIsSound DEF IsReady
  <2>2. CASE ~(Reserved(stock, src) > 0)
    BY <2>2, LocatedIsReady, ReadyIsSound
  <2> QED BY <2>1, <2>2
<1>2. PICK alloc \in HeldAt(s, src, Need[src]) : Returned(s, stock', src, alloc)
  BY DEF Release, Returned
<1> HIDE DEF s
<1> QED BY <1>1, <1>2, ReturnedKeeps

LEMMA ReleaseExpiredKeeps ==
  ASSUME NEW H \in SUBSET Sources, RowsAreSound(stock), HoldsAreSound(stock, H),
         NEW src \in H, ReleaseExpired(src, Need[src])
  PROVE  /\ RowsAreSound(stock') /\ HoldsAreSound(stock', H \ {src})
         /\ stock'.aggregate.quantity = stock.aggregate.quantity /\ stock'.unsellable = stock.unsellable
<1> DEFINE q == Need[src]
<1>0. q \in Nat \ {0} /\ stock \in StockType /\ src \in Sources
  BY DEF RowsAreSound
<1>1. CASE stock.rows # {}
  <2>1. SoundFor(stock, H)
    BY <1>1, ReadyIsSound DEF IsReady
  <2>2. PICK alloc \in HeldAt(stock, src, Need[src]) : Returned(stock, stock', src, alloc)
    BY <1>1 DEF ReleaseExpired, Returned
  <2> QED BY <2>1, <2>2, ReturnedKeeps
<1>2. CASE stock.rows = {}
  <2> DEFINE agg == Shift(stock.aggregate, 0, -q, q)
  <2>1. stock' = [stock EXCEPT !.aggregate = agg] /\ stock.aggregate.reserved >= q
    BY <1>2 DEF ReleaseExpired
  <2>2. /\ agg.quantity = stock.aggregate.quantity /\ agg.reserved = stock.aggregate.reserved - q
        /\ agg.available = stock.aggregate.available + q /\ agg \in Amounts
    BY <1>0, <2>1, AmountTypes DEF Shift, Amounts
  <2> HIDE DEF agg
  <2>3. /\ stock' \in StockType /\ stock'.aggregate = agg /\ stock'.rows = stock.rows
        /\ stock'.balance = stock.balance /\ stock'.classified = stock.classified
        /\ stock'.sellable = stock.sellable /\ stock'.unsellable = stock.unsellable
        /\ stock'.reservation = stock.reservation
    BY <1>0, <2>1, <2>2 DEF StockType
  <2>4. RowsAreSound(stock')
    <3>1. stock.aggregate.quantity = stock.aggregate.reserved + stock.aggregate.available /\ ~stock.classified
      BY <1>2 DEF RowsAreSound
    <3>2. agg.quantity = agg.reserved + agg.available
      BY <1>0, <2>2, <3>1, AmountTypes
    <3>3. Split(stock')
      BY <2>3 DEF RowsAreSound, Split
    <3>4. LocationsAgree(stock')
      BY <1>2, <2>3 DEF LocationsAgree
    <3> QED BY <1>2, <2>3, <3>1, <3>2, <3>3, <3>4 DEF RowsAreSound
  <2>5. \A o \in Sources : Reserved(stock, o) = 0
    <3>1. \A l \in Locations : Tracked(stock, l) <= 0 /\ Tracked(stock, l) \in Nat
      BY <1>0, <1>2, ReservationTypes DEF RowsAreSound, Split, HoldsAreSound, Nothing
    <3> QED BY <1>0, <3>1, NothingTracked
  <2>6. SumFunctionOnSet(Need, H \ {src}) = SumFunctionOnSet(Need, H) - q
    <3>1. IsFiniteSet(H) /\ IsFiniteSet(H \ {src}) /\ \A o \in H : Need[o] \in Int
      BY FS_Subset
    <3>2. SumFunctionOnSet(Need, H) = q + SumFunctionOnSet(Need, H \ {src})
      BY <3>1, SumRemove
    <3>3. SumFunctionOnSet(Need, H \ {src}) \in Int
      BY <3>1, SumType
    <3> QED BY <1>0, <3>2, <3>3
  <2>7. HoldsAreSound(stock', H \ {src})
    <3>1. stock'.aggregate.reserved = SumFunctionOnSet(Need, H \ {src})
      BY <2>2, <2>3, <2>6 DEF HoldsAreSound
    <3>2. \A o \in Sources : Reserved(stock', o) = 0
      BY <2>3, <2>5 DEF Reserved
    <3>3. \A l \in Locations : Tracked(stock', l) <= stock'.balance[l].reserved
      BY <2>3 DEF HoldsAreSound, Tracked
    <3> QED BY <1>2, <2>3, <3>1, <3>2, <3>3 DEF HoldsAreSound
  <2> QED BY <2>2, <2>3, <2>4, <2>7
<1> QED BY <1>1, <1>2

LEMMA ConsumeKeeps ==
  ASSUME NEW H \in SUBSET Sources, RowsAreSound(stock), HoldsAreSound(stock, H),
         NEW src \in H, Consume(src, Need[src])
  PROVE  /\ RowsAreSound(stock') /\ HoldsAreSound(stock', H \ {src})
         /\ stock'.aggregate.quantity = stock.aggregate.quantity - Need[src]
         /\ stock'.unsellable = stock.unsellable
<1> DEFINE s == Prepared(stock)
           q == Need[src]
           V == [s.reservation EXCEPT ![src] = [l \in Locations |-> 0]]
<1>1. SoundFor(s, H)
  BY PreparedFacts
<1>2. PICK alloc \in HeldAt(s, src, q) :
        /\ \A l \in Locations : alloc[l] <= s.sellable[l]
        /\ stock' = [Moved(s, alloc, q, -1, -1, 0)
                       EXCEPT !.reservation[src] = [l \in Locations |-> 0],
                              !.sellable = [l \in Locations |-> @[l] - alloc[l]]]
  BY DEF Consume
<1> HIDE DEF s
<1> DEFINE S == [l \in Locations |-> s.sellable[l] - alloc[l]]
           m == Moved(s, alloc, q, -1, -1, 0)
<1>3. stock' = After(s, alloc, q, -1, -1, 0, s.rows, s.classified, S, s.unsellable, V)
  <2>1. m = After(s, alloc, q, -1, -1, 0, s.rows, s.classified, s.sellable, s.unsellable, s.reservation)
    BY <1>1, MovedIs DEF SoundFor
  <2>2. m.reservation = s.reservation /\ m.sellable = s.sellable
    BY <2>1 DEF After
  <2>3. stock' = WithSellable(WithReservation(m, V), S)
    BY <1>2, <2>2 DEF WithReservation, WithSellable
  <2> HIDE DEF m, V, S
  <2>4. WithReservation(m, V) =
          After(s, alloc, q, -1, -1, 0, s.rows, s.classified, s.sellable, s.unsellable, V)
    BY <2>1, AfterWritten
  <2>5. WithSellable(WithReservation(m, V), S) =
          After(s, alloc, q, -1, -1, 0, s.rows, s.classified, S, s.unsellable, V)
    BY <2>4, AfterWritten
  <2> QED BY <2>3, <2>5
<1>4. Leaves(s, S, alloc, -1, 0)
  BY <1>2 DEF Leaves
<1>a. Left(s, stock', src, alloc, -1, 0, S)
  BY <1>3 DEF Left
<1> HIDE DEF S
<1>5. /\ RowsAreSound(stock') /\ HoldsAreSound(stock', H \ {src})
      /\ stock'.aggregate.quantity = stock.aggregate.quantity + Signed(-1, Need[src])
      /\ stock'.unsellable = stock.unsellable
  BY <1>1, <1>a, <1>4, LeavingKeeps
<1>6. stock.aggregate.quantity \in Nat /\ Signed(-1, Need[src]) = 0 - Need[src] /\ Need[src] \in Nat
  BY AmountTypes DEF RowsAreSound, Signed
<1> QED BY <1>5, <1>6

-----------------------------------------------------------------------------
\* The statements that leave reservations alone.
MoveWrites(s, t, f, q, dq, da, R, C, S, U) == Writes(s, t, f, q, dq, 0, da, R, C, S, U, s.reservation)

LEMMA MoveKeeps ==
  ASSUME NEW H \in SUBSET Sources, NEW s, SoundFor(s, H), NEW f, NEW q, NEW dq \in Signs, NEW da \in Signs,
         NEW R, NEW C, NEW S, NEW U, NEW t, MoveWrites(s, t, f, q, dq, da, R, C, S, U)
  PROVE  /\ RowsAreSound(t) /\ HoldsAreSound(t, H)
         /\ t.aggregate.quantity = stock.aggregate.quantity + Signed(dq, q)
         /\ t.unsellable = U
<1> DEFINE V == s.reservation
<1>1. Writes(s, t, f, q, dq, 0, da, R, C, S, U, V)
  BY DEF MoveWrites
<1> HIDE DEF V
<1>2. /\ f \in [Locations -> Int] /\ q = SumFunctionOnSet(f, Locations)
      /\ t = After(s, f, q, dq, 0, da, R, C, S, U, V)
  BY <1>1 DEF Writes
<1>3. q \in Int
  BY <1>2, SumType
<1>4. InNumbers(s, t, f, q, dq, 0, da) /\ t.unsellable = U /\ t.reservation = V
  BY <1>2, <1>3, SignsAre, AfterIs DEF SoundFor
<1>5. RowsAreSound(t) /\ t \in StockType
  BY <1>1, SignsAre, RowsWritten DEF SoundFor
<1>6. /\ t.aggregate.reserved = s.aggregate.reserved
      /\ t.aggregate.quantity = s.aggregate.quantity + Signed(dq, q)
      /\ \A l \in Locations : t.balance[l].reserved = s.balance[l].reserved
  <2>1. Signed(0, q) = 0 /\ \A l \in Locations : Signed(0, f[l]) = 0
    BY DEF Signed
  <2>2. s.aggregate.reserved \in Nat /\ \A l \in Locations : s.balance[l].reserved \in Nat
    BY AmountTypes DEF SoundFor
  <2> QED BY <1>4, <2>1, <2>2 DEF InNumbers
<1>7. HoldsAreSound(t, H)
  <2>1. s \in StockType /\ HoldsAreSound(s, H) /\ s.rows # {}
    BY DEF SoundFor
  <2>2. t.reservation = s.reservation
    BY <1>4 DEF V
  <2> QED BY <1>5, <1>6, <2>1, <2>2, HoldsKept
<1> QED BY <1>4, <1>5, <1>6, <1>7 DEF SoundFor

\* What is taken from stock was available and sellable.
Taken(s, t, f, q) ==
  /\ f \in [Locations -> Nat] /\ q = SumFunctionOnSet(f, Locations)
  /\ \A l \in Locations : f[l] <= s.balance[l].available /\ f[l] <= s.sellable[l]
  /\ t = After(s, f, q, -1, 0, -1, s.rows, s.classified, [l \in Locations |-> s.sellable[l] - f[l]],
               s.unsellable, s.reservation)

LEMMA TakenKeeps ==
  ASSUME NEW H \in SUBSET Sources, NEW s, SoundFor(s, H), NEW f, NEW q, NEW t, Taken(s, t, f, q)
  PROVE  /\ RowsAreSound(t) /\ HoldsAreSound(t, H)
         /\ t.aggregate.quantity = stock.aggregate.quantity - q
         /\ t.unsellable = stock.unsellable
<1> DEFINE S == [l \in Locations |-> s.sellable[l] - f[l]]
           U == s.unsellable
           C == s.classified
           R == s.rows
<1>1. /\ f \in [Locations -> Nat] /\ q = SumFunctionOnSet(f, Locations)
      /\ \A l \in Locations : /\ f[l] \in Nat /\ f[l] <= s.balance[l].available /\ f[l] <= s.sellable[l]
                              /\ RowFacts(s, l)
  BY DEF Taken, SoundFor
<1>2. ASSUME NEW l \in Locations PROVE InStep(s, f, -1, 0, -1, R, C, S, U, l)
  <2>1. /\ f[l] \in Nat /\ f[l] <= s.balance[l].available /\ f[l] <= s.sellable[l] /\ RowFacts(s, l)
        /\ S[l] = s.sellable[l] - f[l]
    BY <1>1
  <2>2. Signed(-1, f[l]) = 0 - f[l] /\ Signed(0, f[l]) = 0
    BY DEF Signed
  <2>3. /\ s.classified => S[l] = s.balance[l].reserved + s.balance[l].available - f[l]
        /\ ~s.classified => S[l] = 0 /\ s.unsellable[l] = 0
        /\ l \notin s.rows => f[l] = 0
    BY <2>1 DEF RowFacts
  <2>4. s.balance[l].reserved \in Nat /\ s.balance[l].available \in Nat /\ s.unsellable[l] \in Nat
    BY <2>1 DEF RowFacts
  <2>5. /\ s.unsellable[l] = s.unsellable[l] + (0 - f[l]) - 0 - (0 - f[l])
        /\ s.balance[l].reserved + s.balance[l].available - f[l]
             = s.balance[l].reserved + s.balance[l].available + 0 + (0 - f[l])
        /\ s.balance[l].reserved + 0 >= 0 /\ s.balance[l].available + (0 - f[l]) >= 0
    BY <2>1, <2>4
  <2> HIDE DEF S
  <2> QED BY <2>2, <2>3, <2>5 DEF InStep
<1>3. S \in [Locations -> Nat]
  <2>1. \A l \in Locations : s.sellable[l] \in Nat
    BY <1>1 DEF RowFacts
  <2> QED BY <1>1, <2>1
<1>4. t = After(s, f, q, -1, 0, -1, R, C, S, U, s.reservation)
  BY DEF Taken
<1> HIDE DEF S
<1>5. MoveWrites(s, t, f, q, -1, -1, R, C, S, U)
  BY <1>1, <1>2, <1>3, <1>4 DEF MoveWrites, Writes, SoundFor
<1>6. /\ RowsAreSound(t) /\ HoldsAreSound(t, H)
      /\ t.aggregate.quantity = stock.aggregate.quantity + Signed(-1, q)
      /\ t.unsellable = U
  BY <1>5, SignsAre, MoveKeeps
<1>7. q \in Nat /\ s.aggregate.quantity \in Nat
  BY <1>1, SumNat, AmountTypes DEF SoundFor
<1> QED BY <1>6, <1>7 DEF SoundFor, Signed

\* A count at one location.
At(loc, q) == [l \in Locations |-> IF l = loc THEN q ELSE 0]

LEMMA AtTypes ==
  ASSUME NEW loc \in Locations, NEW q \in Nat
  PROVE  /\ At(loc, q) \in [Locations -> Nat] /\ At(loc, q) \in [Locations -> Int]
         /\ At(loc, q)[loc] = q /\ \A l \in Locations \ {loc} : At(loc, q)[l] = 0
         /\ SumFunctionOnSet(At(loc, q), Locations) = q
<1> DEFINE f == At(loc, q)
<1>1. /\ f \in [Locations -> Nat] /\ f \in [Locations -> Int]
      /\ f[loc] = q /\ \A l \in Locations \ {loc} : f[l] = 0
  BY DEF At
<1> HIDE DEF f
<1>2. SumFunctionOnSet(f, Locations) = f[loc] + SumFunctionOnSet(f, Locations \ {loc})
  <2>1. \A l \in Locations : f[l] \in Int
    BY <1>1
  <2> QED BY <2>1, SumRemove
<1>3. SumFunctionOnSet(f, Locations \ {loc}) = 0
  <2>1. IsFiniteSet(Locations \ {loc})
    BY FS_Subset
  <2> QED BY <1>1, <2>1, SumOfZeros
<1>4. SumFunctionOnSet(f, Locations) = q
  BY <1>1, <1>2, <1>3
<1> QED BY <1>1, <1>4 DEF f

LEMMA TakeAvailableKeeps ==
  ASSUME NEW H \in SUBSET Sources, RowsAreSound(stock), HoldsAreSound(stock, H), NEW q \in Nat, TakeAvailable(q)
  PROVE  /\ RowsAreSound(stock') /\ HoldsAreSound(stock', H)
         /\ stock'.aggregate.quantity = stock.aggregate.quantity - q
         /\ stock'.unsellable = stock.unsellable /\ stock.aggregate.available >= q
<1> DEFINE s == Prepared(stock)
<1>1. SoundFor(s, H)
  BY PreparedFacts
<1>2. PICK alloc \in Allocations(q) :
        /\ Greedy(alloc, Column(s, "available"), q)
        /\ \A l \in Locations : alloc[l] <= s.sellable[l]
        /\ stock' = [Moved(s, alloc, q, -1, 0, -1) EXCEPT !.sellable = [l \in Locations |-> @[l] - alloc[l]]]
  BY DEF TakeAvailable
<1>3. stock.aggregate.available >= q
  BY DEF TakeAvailable
<1> HIDE DEF s
<1>4. /\ alloc \in [Locations -> Nat] /\ q = SumFunctionOnSet(alloc, Locations)
      /\ \A l \in Locations : alloc[l] <= s.balance[l].available
  BY <1>2, AllocationTypes DEF Greedy, Column
<1> DEFINE S == [l \in Locations |-> s.sellable[l] - alloc[l]]
           m == Moved(s, alloc, q, -1, 0, -1)
<1>5. stock' = After(s, alloc, q, -1, 0, -1, s.rows, s.classified, S, s.unsellable, s.reservation)
  <2>1. m = After(s, alloc, q, -1, 0, -1, s.rows, s.classified, s.sellable, s.unsellable, s.reservation)
    BY <1>1, MovedIs DEF SoundFor
  <2>2. m.sellable = s.sellable
    BY <2>1 DEF After
  <2>3. stock' = WithSellable(m, S)
    BY <1>2, <2>2 DEF WithSellable
  <2> HIDE DEF m, S
  <2>4. WithSellable(m, S) =
          After(s, alloc, q, -1, 0, -1, s.rows, s.classified, S, s.unsellable, s.reservation)
    BY <2>1, AfterWritten
  <2> QED BY <2>3, <2>4
<1>6. Taken(s, stock', alloc, q)
  BY <1>2, <1>4, <1>5 DEF Taken
<1> QED BY <1>1, <1>3, <1>6, TakenKeeps

\* What one location has available the warehouse has.
LEMMA AvailableIn ==
  ASSUME NEW s, NEW H, SoundFor(s, H)
  PROVE  \A l \in Locations : s.balance[l].available <= s.aggregate.available
<1> DEFINE g == Column(s, "available")
<1>1. DOMAIN g = Locations /\ \A l \in Locations : g[l] = s.balance[l].available /\ g[l] \in Nat
  BY AmountTypes DEF Column, SoundFor
<1>2. SumFunction(g) = s.aggregate.available
  BY DEF SoundFor, RowsAreSound, LocationsAgree
<1> HIDE DEF g
<1>3. \A l \in Locations : g[l] <= SumFunctionOnSet(g, Locations)
  BY <1>1, SumMember
<1> QED BY <1>1, <1>2, <1>3 DEF SumFunction

LEMMA AdjustDownKeeps ==
  ASSUME NEW H \in SUBSET Sources, RowsAreSound(stock), HoldsAreSound(stock, H),
         NEW loc \in Locations, NEW q \in Nat, AdjustDown(loc, q)
  PROVE  /\ RowsAreSound(stock') /\ HoldsAreSound(stock', H)
         /\ stock'.aggregate.quantity = stock.aggregate.quantity - q
         /\ stock'.unsellable = stock.unsellable /\ stock.aggregate.available >= q
<1> DEFINE s == Located(stock)
           alloc == At(loc, q)
<1>1. SoundFor(s, H)
  BY LocatedIsReady, ReadyIsSound
<1>2. /\ s.balance[loc].available >= q /\ s.sellable[loc] >= q
      /\ stock' = [Moved(s, alloc, q, -1, 0, -1) EXCEPT !.sellable[loc] = @ - q]
  BY DEF AdjustDown, At
<1> HIDE DEF s
<1>3. /\ alloc \in [Locations -> Nat] /\ q = SumFunctionOnSet(alloc, Locations)
      /\ alloc[loc] = q /\ \A l \in Locations \ {loc} : alloc[l] = 0
  BY AtTypes
<1> HIDE DEF alloc
<1>t. s \in StockType /\ \A l \in Locations : s.sellable[l] \in Nat /\ s.balance[l].available \in Nat
  BY <1>1, AmountTypes DEF SoundFor
<1>4. \A l \in Locations : alloc[l] <= s.balance[l].available /\ alloc[l] <= s.sellable[l]
  BY <1>2, <1>3, <1>t
<1> DEFINE S == [l \in Locations |-> s.sellable[l] - alloc[l]]
           m == Moved(s, alloc, q, -1, 0, -1)
<1>5. stock' = After(s, alloc, q, -1, 0, -1, s.rows, s.classified, S, s.unsellable, s.reservation)
  <2>1. m = After(s, alloc, q, -1, 0, -1, s.rows, s.classified, s.sellable, s.unsellable, s.reservation)
    BY <1>t, MovedIs
  <2>2. m.sellable = s.sellable
    BY <2>1 DEF After
  <2>3. S = [s.sellable EXCEPT ![loc] = @ - q]
    BY <1>3, <1>t DEF StockType
  <2>4. stock' = WithSellable(m, S)
    BY <1>2, <2>2, <2>3 DEF WithSellable
  <2> HIDE DEF m, S
  <2>5. WithSellable(m, S) =
          After(s, alloc, q, -1, 0, -1, s.rows, s.classified, S, s.unsellable, s.reservation)
    BY <2>1, AfterWritten
  <2> QED BY <2>4, <2>5
<1>6. Taken(s, stock', alloc, q)
  BY <1>3, <1>4, <1>5 DEF Taken
<1>7. stock.aggregate.available >= q
  <2>1. s.aggregate = stock.aggregate /\ s.balance[loc].available <= s.aggregate.available
    BY <1>1, AvailableIn DEF SoundFor
  <2>2. s.aggregate.available \in Nat
    BY <1>t, AmountTypes
  <2> QED BY <1>2, <1>t, <2>1, <2>2
<1> QED BY <1>1, <1>6, <1>7, TakenKeeps

\* The conditions of what is at one location.
LEMMA ConditionFits ==
  ASSUME NEW s, NEW H, SoundFor(s, H), NEW f, NEW n, NEW l \in Locations, RowFacts(s, l), f[l] = n, n \in Nat,
         NEW S, NEW U
  PROVE  /\ n <= s.balance[l].available /\ n <= s.sellable[l]
              /\ S[l] = s.sellable[l] - n /\ U[l] = s.unsellable[l] + n
           => InStep(s, f, 0, 0, -1, s.rows, s.classified, S, U, l) /\ S[l] \in Nat /\ U[l] \in Nat
         /\ n <= s.unsellable[l] /\ S[l] = s.sellable[l] + n /\ U[l] = s.unsellable[l] - n
           => InStep(s, f, 0, 0, 1, s.rows, s.classified, S, U, l) /\ S[l] \in Nat /\ U[l] \in Nat
<1> DEFINE y == s.balance[l].reserved
           z == s.balance[l].available
           v == s.sellable[l]
           u == s.unsellable[l]
<1>1. /\ y \in Nat /\ z \in Nat /\ v \in Nat /\ u \in Nat
      /\ s.balance[l].quantity = y + z + u
      /\ l \notin s.rows => s.balance[l].quantity = 0 /\ y = 0 /\ z = 0
      /\ s.classified => v = y + z
      /\ ~s.classified => v = 0 /\ u = 0
  BY DEF RowFacts
<1>2. Signed(0, n) = 0 /\ Signed(1, n) = n /\ Signed(-1, n) = 0 - n
  BY DEF Signed
<1>3. ASSUME n <= z, n <= v, S[l] = v - n, U[l] = u + n
      PROVE  InStep(s, f, 0, 0, -1, s.rows, s.classified, S, U, l) /\ S[l] \in Nat /\ U[l] \in Nat
  <2> HIDE DEF y, z, v, u
  <2>1. /\ y + 0 >= 0 /\ z + (0 - n) >= 0 /\ U[l] = u + 0 - 0 - (0 - n)
        /\ s.classified => S[l] = y + z + 0 + (0 - n)
        /\ ~s.classified => S[l] = 0 /\ U[l] = 0
        /\ l \notin s.rows => n = 0
        /\ S[l] \in Nat /\ U[l] \in Nat
    BY <1>1, <1>3
  <2> QED BY <1>2, <2>1 DEF InStep, y, z, v, u
<1>4. ASSUME n <= u, S[l] = v + n, U[l] = u - n
      PROVE  InStep(s, f, 0, 0, 1, s.rows, s.classified, S, U, l) /\ S[l] \in Nat /\ U[l] \in Nat
  <2> HIDE DEF y, z, v, u
  <2>1. /\ y + 0 >= 0 /\ z + n >= 0 /\ U[l] = u + 0 - 0 - n
        /\ s.classified => S[l] = y + z + 0 + n
        /\ ~s.classified => S[l] = 0 /\ U[l] = 0
        /\ l \notin s.rows => n = 0
        /\ S[l] \in Nat /\ U[l] \in Nat
    BY <1>1, <1>4
  <2> QED BY <1>2, <2>1 DEF InStep, y, z, v, u
<1> QED BY <1>3, <1>4

LEMMA DowngradeKeeps ==
  ASSUME NEW H \in SUBSET Sources, RowsAreSound(stock), HoldsAreSound(stock, H),
         NEW loc \in Locations, NEW q \in Nat, Downgrade(loc, q)
  PROVE  /\ RowsAreSound(stock') /\ HoldsAreSound(stock', H)
         /\ stock'.aggregate.quantity = stock.aggregate.quantity
         /\ stock'.unsellable = [stock.unsellable EXCEPT ![loc] = @ + q]
         /\ stock.aggregate.available >= q
<1> DEFINE s == Prepared(stock)
           f == At(loc, q)
<1>1. SoundFor(s, H)
  BY PreparedFacts
<1>2. /\ s.balance[loc].available >= q /\ s.sellable[loc] >= q /\ s.aggregate.available >= q
      /\ stock' = [Moved(s, f, q, 0, 0, -1) EXCEPT !.sellable[loc] = @ - q, !.unsellable[loc] = @ + q]
  BY DEF Downgrade, At
<1> HIDE DEF s
<1>3. /\ f \in [Locations -> Int] /\ q = SumFunctionOnSet(f, Locations)
      /\ f[loc] = q /\ \A l \in Locations \ {loc} : f[l] = 0
  BY AtTypes
<1> HIDE DEF f
<1>4. /\ s \in StockType /\ s.sellable \in [Locations -> Nat] /\ s.unsellable \in [Locations -> Nat]
      /\ \A l \in Locations : /\ s.sellable[l] \in Nat /\ s.unsellable[l] \in Nat
                              /\ s.balance[l].available \in Nat /\ RowFacts(s, l)
  BY <1>1, AmountTypes DEF SoundFor
<1> DEFINE S == [s.sellable EXCEPT ![loc] = @ - q]
           U == [s.unsellable EXCEPT ![loc] = @ + q]
           m == Moved(s, f, q, 0, 0, -1)
<1>5. stock' = After(s, f, q, 0, 0, -1, s.rows, s.classified, S, U, s.reservation)
  <2>1. m = After(s, f, q, 0, 0, -1, s.rows, s.classified, s.sellable, s.unsellable, s.reservation)
    BY <1>4, MovedIs
  <2>2. m.sellable = s.sellable /\ m.unsellable = s.unsellable
    BY <2>1 DEF After
  <2>3. stock' = WithUnsellable(WithSellable(m, S), U)
    BY <1>2, <2>2 DEF WithSellable, WithUnsellable
  <2> HIDE DEF m, S, U
  <2>4. WithSellable(m, S) = After(s, f, q, 0, 0, -1, s.rows, s.classified, S, s.unsellable, s.reservation)
    BY <2>1, AfterWritten
  <2>5. WithUnsellable(WithSellable(m, S), U) = After(s, f, q, 0, 0, -1, s.rows, s.classified, S, U, s.reservation)
    BY <2>4, AfterWritten
  <2> QED BY <2>3, <2>5
<1>6. \A l \in Locations : /\ f[l] \in Nat /\ f[l] <= s.balance[l].available /\ f[l] <= s.sellable[l]
                           /\ S[l] = s.sellable[l] - f[l] /\ U[l] = s.unsellable[l] + f[l]
  <2>1. S[loc] = s.sellable[loc] - f[loc] /\ U[loc] = s.unsellable[loc] + f[loc]
    BY <1>3, <1>4
  <2>2. ASSUME NEW l \in Locations \ {loc}
        PROVE  S[l] = s.sellable[l] - f[l] /\ U[l] = s.unsellable[l] + f[l]
    BY <1>3, <1>4
  <2> HIDE DEF S, U
  <2> QED BY <1>2, <1>3, <1>4, <2>1, <2>2
<1>7. S = [l \in Locations |-> S[l]] /\ U = [l \in Locations |-> U[l]]
  BY <1>4
<1>e. U = [s.unsellable EXCEPT ![loc] = @ + q]
  OBVIOUS
<1> HIDE DEF S, U
<1>8. \A l \in Locations : /\ InStep(s, f, 0, 0, -1, s.rows, s.classified, S, U, l) /\ S[l] \in Nat /\ U[l] \in Nat
  BY <1>1, <1>4, <1>6, ConditionFits
<1>9. S \in [Locations -> Nat] /\ U \in [Locations -> Nat]
  BY <1>7, <1>8
<1>10. MoveWrites(s, stock', f, q, 0, -1, s.rows, s.classified, S, U)
  BY <1>1, <1>3, <1>5, <1>8, <1>9 DEF MoveWrites, Writes, SoundFor
<1>11. /\ RowsAreSound(stock') /\ HoldsAreSound(stock', H)
       /\ stock'.aggregate.quantity = stock.aggregate.quantity + Signed(0, q)
       /\ stock'.unsellable = U
  BY <1>1, <1>10, SignsAre, MoveKeeps
<1>12. stock.aggregate.quantity \in Nat /\ Signed(0, q) = 0
  BY AmountTypes DEF RowsAreSound, Signed
<1> QED BY <1>1, <1>2, <1>e, <1>11, <1>12 DEF SoundFor

LEMMA RestoreKeeps ==
  ASSUME NEW H \in SUBSET Sources, RowsAreSound(stock), HoldsAreSound(stock, H),
         NEW loc \in Locations, NEW q \in Nat, Restore(loc, q)
  PROVE  /\ RowsAreSound(stock') /\ HoldsAreSound(stock', H)
         /\ stock'.aggregate.quantity = stock.aggregate.quantity
         /\ stock'.unsellable = [stock.unsellable EXCEPT ![loc] = @ - q]
         /\ stock.unsellable[loc] >= q
<1> DEFINE s == Prepared(stock)
           f == At(loc, q)
<1>1. SoundFor(s, H)
  BY PreparedFacts
<1>2. /\ s.unsellable[loc] >= q
      /\ stock' = [Moved(s, f, q, 0, 0, 1) EXCEPT !.sellable[loc] = @ + q, !.unsellable[loc] = @ - q]
  BY DEF Restore, At
<1> HIDE DEF s
<1>3. /\ f \in [Locations -> Int] /\ q = SumFunctionOnSet(f, Locations)
      /\ f[loc] = q /\ \A l \in Locations \ {loc} : f[l] = 0
  BY AtTypes
<1> HIDE DEF f
<1>4. /\ s \in StockType /\ s.sellable \in [Locations -> Nat] /\ s.unsellable \in [Locations -> Nat]
      /\ \A l \in Locations : /\ s.sellable[l] \in Nat /\ s.unsellable[l] \in Nat
                              /\ s.balance[l].available \in Nat /\ RowFacts(s, l)
  BY <1>1, AmountTypes DEF SoundFor
<1> DEFINE S == [s.sellable EXCEPT ![loc] = @ + q]
           U == [s.unsellable EXCEPT ![loc] = @ - q]
           m == Moved(s, f, q, 0, 0, 1)
<1>5. stock' = After(s, f, q, 0, 0, 1, s.rows, s.classified, S, U, s.reservation)
  <2>1. m = After(s, f, q, 0, 0, 1, s.rows, s.classified, s.sellable, s.unsellable, s.reservation)
    BY <1>4, MovedIs
  <2>2. m.sellable = s.sellable /\ m.unsellable = s.unsellable
    BY <2>1 DEF After
  <2>3. stock' = WithUnsellable(WithSellable(m, S), U)
    BY <1>2, <2>2 DEF WithSellable, WithUnsellable
  <2> HIDE DEF m, S, U
  <2>4. WithSellable(m, S) = After(s, f, q, 0, 0, 1, s.rows, s.classified, S, s.unsellable, s.reservation)
    BY <2>1, AfterWritten
  <2>5. WithUnsellable(WithSellable(m, S), U) = After(s, f, q, 0, 0, 1, s.rows, s.classified, S, U, s.reservation)
    BY <2>4, AfterWritten
  <2> QED BY <2>3, <2>5
<1>6. \A l \in Locations : /\ f[l] \in Nat /\ f[l] <= s.unsellable[l]
                           /\ S[l] = s.sellable[l] + f[l] /\ U[l] = s.unsellable[l] - f[l]
  <2>1. S[loc] = s.sellable[loc] + f[loc] /\ U[loc] = s.unsellable[loc] - f[loc]
    BY <1>3, <1>4
  <2>2. ASSUME NEW l \in Locations \ {loc}
        PROVE  S[l] = s.sellable[l] + f[l] /\ U[l] = s.unsellable[l] - f[l]
    BY <1>3, <1>4
  <2> HIDE DEF S, U
  <2> QED BY <1>2, <1>3, <1>4, <2>1, <2>2
<1>7. S = [l \in Locations |-> S[l]] /\ U = [l \in Locations |-> U[l]]
  BY <1>4
<1>e. U = [s.unsellable EXCEPT ![loc] = @ - q]
  OBVIOUS
<1> HIDE DEF S, U
<1>8. \A l \in Locations : /\ InStep(s, f, 0, 0, 1, s.rows, s.classified, S, U, l) /\ S[l] \in Nat /\ U[l] \in Nat
  BY <1>1, <1>4, <1>6, ConditionFits
<1>9. S \in [Locations -> Nat] /\ U \in [Locations -> Nat]
  BY <1>7, <1>8
<1>10. MoveWrites(s, stock', f, q, 0, 1, s.rows, s.classified, S, U)
  BY <1>1, <1>3, <1>5, <1>8, <1>9 DEF MoveWrites, Writes, SoundFor
<1>11. /\ RowsAreSound(stock') /\ HoldsAreSound(stock', H)
       /\ stock'.aggregate.quantity = stock.aggregate.quantity + Signed(0, q)
       /\ stock'.unsellable = U
  BY <1>1, <1>10, SignsAre, MoveKeeps
<1>12. stock.aggregate.quantity \in Nat /\ Signed(0, q) = 0
  BY AmountTypes DEF RowsAreSound, Signed
<1> QED BY <1>1, <1>2, <1>e, <1>11, <1>12 DEF SoundFor

\* Units put on a shelf: its row and its conditions exist afterwards.
Shelved(s, t, f, q, R) ==
  /\ f \in [Locations -> Int] /\ q = SumFunctionOnSet(f, Locations)
  /\ R \in SUBSET Locations /\ s.rows \subseteq R
  /\ \A l \in Locations : /\ s.balance[l].available + f[l] >= 0 /\ (l \notin R => f[l] = 0)
                          /\ s.sellable[l] = s.balance[l].reserved + s.balance[l].available
  /\ t = After(s, f, q, 1, 0, 1, R, TRUE, [l \in Locations |-> s.sellable[l] + f[l]],
               s.unsellable, s.reservation)

LEMMA ShelvedKeeps ==
  ASSUME NEW H \in SUBSET Sources, NEW s, SoundFor(s, H), NEW f, NEW q, NEW R, NEW t, Shelved(s, t, f, q, R)
  PROVE  /\ RowsAreSound(t) /\ HoldsAreSound(t, H)
         /\ t.aggregate.quantity = stock.aggregate.quantity + q
         /\ t.unsellable = stock.unsellable
<1> DEFINE S == [l \in Locations |-> s.sellable[l] + f[l]]
           U == s.unsellable
           C == TRUE
<1>1. /\ f \in [Locations -> Int] /\ q = SumFunctionOnSet(f, Locations) /\ R \in SUBSET Locations /\ s.rows \subseteq R
      /\ \A l \in Locations : /\ f[l] \in Int /\ s.balance[l].available + f[l] >= 0 /\ (l \notin R => f[l] = 0)
                              /\ s.sellable[l] = s.balance[l].reserved + s.balance[l].available
                              /\ RowFacts(s, l)
  BY DEF Shelved, SoundFor
<1>2. ASSUME NEW l \in Locations PROVE InStep(s, f, 1, 0, 1, R, C, S, U, l) /\ S[l] \in Nat
  <2>1. /\ f[l] \in Int /\ s.balance[l].available + f[l] >= 0 /\ (l \notin R => f[l] = 0)
        /\ s.sellable[l] = s.balance[l].reserved + s.balance[l].available
        /\ S[l] = s.sellable[l] + f[l]
    BY <1>1
  <2>2. Signed(1, f[l]) = f[l] /\ Signed(0, f[l]) = 0
    BY DEF Signed
  <2>3. s.balance[l].reserved \in Nat /\ s.balance[l].available \in Nat /\ s.unsellable[l] \in Nat
    BY <1>1 DEF RowFacts
  <2> HIDE DEF S
  <2>4. /\ s.unsellable[l] = s.unsellable[l] + f[l] - 0 - f[l]
        /\ S[l] = s.balance[l].reserved + s.balance[l].available + 0 + f[l]
        /\ s.balance[l].reserved + 0 >= 0 /\ S[l] \in Nat
    BY <2>1, <2>3
  <2> QED BY <1>1, <2>1, <2>2, <2>4 DEF InStep
<1>3. S \in [Locations -> Nat]
  BY <1>2
<1>4. t = After(s, f, q, 1, 0, 1, R, C, S, U, s.reservation) /\ C \in BOOLEAN
  BY DEF Shelved
<1> HIDE DEF S, C
<1>5. MoveWrites(s, t, f, q, 1, 1, R, C, S, U)
  BY <1>1, <1>2, <1>3, <1>4 DEF MoveWrites, Writes, SoundFor
<1>6. /\ RowsAreSound(t) /\ HoldsAreSound(t, H)
      /\ t.aggregate.quantity = stock.aggregate.quantity + Signed(1, q)
      /\ t.unsellable = U
  BY <1>5, SignsAre, MoveKeeps
<1> QED BY <1>6 DEF SoundFor, Signed

LEMMA DepositKeeps ==
  ASSUME NEW H \in SUBSET Sources, RowsAreSound(stock), HoldsAreSound(stock, H),
         NEW loc \in Locations, NEW q \in Nat, Deposit(loc, q)
  PROVE  /\ RowsAreSound(stock') /\ HoldsAreSound(stock', H)
         /\ stock'.aggregate.quantity = stock.aggregate.quantity + q
         /\ stock'.unsellable = stock.unsellable
<1> DEFINE s == Prepared(stock)
           f == At(loc, q)
<1>1. SoundFor(s, H) /\ \A l \in Locations : s.sellable[l] = s.balance[l].reserved + s.balance[l].available
  BY PreparedFacts
<1>2. stock' = [Moved(s, f, q, 1, 0, 1) EXCEPT !.rows = @ \cup {loc}, !.classified = TRUE, !.sellable[loc] = @ + q]
  BY DEF Deposit, At
<1> HIDE DEF s
<1>3. /\ f \in [Locations -> Int] /\ f \in [Locations -> Nat] /\ q = SumFunctionOnSet(f, Locations)
      /\ f[loc] = q /\ \A l \in Locations \ {loc} : f[l] = 0
  BY AtTypes
<1> HIDE DEF f
<1>4. /\ s \in StockType /\ s.rows \in SUBSET Locations /\ s.sellable \in [Locations -> Nat]
      /\ \A l \in Locations : s.sellable[l] \in Nat /\ s.balance[l].available \in Nat
  BY <1>1, AmountTypes DEF SoundFor
<1> DEFINE S == [l \in Locations |-> s.sellable[l] + f[l]]
           R == s.rows \cup {loc}
           m == Moved(s, f, q, 1, 0, 1)
           C == TRUE
<1>5. stock' = After(s, f, q, 1, 0, 1, R, TRUE, S, s.unsellable, s.reservation)
  <2>1. m = After(s, f, q, 1, 0, 1, s.rows, s.classified, s.sellable, s.unsellable, s.reservation)
    BY <1>4, MovedIs
  <2>2. m.rows = s.rows /\ m.sellable = s.sellable
    BY <2>1 DEF After
  <2>3. S = [s.sellable EXCEPT ![loc] = @ + q]
    BY <1>3, <1>4
  <2>4. stock' = WithSellable(WithClassified(WithRows(m, R), C), S)
    BY <1>2, <2>2, <2>3 DEF WithSellable, WithClassified, WithRows
  <2> HIDE DEF m, R, S, C
  <2>5. WithRows(m, R) = After(s, f, q, 1, 0, 1, R, s.classified, s.sellable, s.unsellable, s.reservation)
    BY <2>1, AfterWritten
  <2>6. WithClassified(WithRows(m, R), C) = After(s, f, q, 1, 0, 1, R, C, s.sellable, s.unsellable, s.reservation)
    BY <2>5, AfterWritten
  <2>7. WithSellable(WithClassified(WithRows(m, R), C), S) =
          After(s, f, q, 1, 0, 1, R, C, S, s.unsellable, s.reservation)
    BY <2>6, AfterWritten
  <2> QED BY <2>4, <2>7 DEF C
<1>6. Shelved(s, stock', f, q, R)
  <2>1. \A l \in Locations : s.balance[l].available + f[l] >= 0 /\ (l \notin R => f[l] = 0)
    BY <1>3, <1>4
  <2> QED BY <1>1, <1>3, <1>4, <1>5, <2>1 DEF Shelved
<1> QED BY <1>1, <1>6, ShelvedKeeps

LEMMA RelocateKeeps ==
  ASSUME NEW H \in SUBSET Sources, RowsAreSound(stock), HoldsAreSound(stock, H),
         NEW from \in Locations, NEW to \in Locations, NEW q \in Nat, Relocate(from, to, q)
  PROVE  /\ RowsAreSound(stock') /\ HoldsAreSound(stock', H)
         /\ stock'.aggregate.quantity = stock.aggregate.quantity
         /\ stock'.unsellable = stock.unsellable
<1> DEFINE s == Prepared(stock)
           f == [l \in Locations |-> IF l = from THEN 0 - q ELSE IF l = to THEN q ELSE 0]
           R == s.rows \cup {to}
           S == [l \in Locations |-> s.sellable[l] + f[l]]
           bal == [l \in Locations |-> Shift(s.balance[l], 1 * f[l], 0 * f[l], 1 * f[l])]
<1>1. SoundFor(s, H) /\ \A l \in Locations : s.sellable[l] = s.balance[l].reserved + s.balance[l].available
  BY PreparedFacts
<1>2. /\ from # to /\ s.balance[from].available >= q
      /\ stock' = [s EXCEPT !.rows = @ \cup {to}, !.classified = TRUE,
                            !.balance[from] = Shift(@, -q, 0, -q), !.balance[to] = Shift(@, q, 0, q),
                            !.sellable[from] = @ - q, !.sellable[to] = @ + q]
  BY DEF Relocate
<1> HIDE DEF s
<1>3. /\ f \in [Locations -> Int] /\ f[from] = 0 - q /\ f[to] = q
      /\ \A l \in Locations \ {from, to} : f[l] = 0
  BY <1>2
<1>4. /\ s \in StockType /\ s.rows \in SUBSET Locations /\ s.sellable \in [Locations -> Nat]
      /\ s.balance \in [Locations -> Amounts] /\ s.aggregate \in Amounts
      /\ \A l \in Locations : s.sellable[l] \in Nat /\ s.balance[l].available \in Nat
  BY <1>1, AmountTypes DEF SoundFor, StockType
<1> HIDE DEF f
<1>5. SumFunctionOnSet(f, Locations) = 0
  <2> DEFINE rest == Locations \ {from}
  <2>0. \A l \in Locations : f[l] \in Int
    BY <1>3
  <2>1. SumFunctionOnSet(f, Locations) = f[from] + SumFunctionOnSet(f, rest)
    BY <2>0, SumRemove
  <2>2. IsFiniteSet(rest) /\ to \in rest /\ IsFiniteSet(rest \ {to}) /\ \A l \in rest : f[l] \in Int
    BY <1>2, <1>3, FS_Subset
  <2>3. \A l \in rest \ {to} : f[l] = 0
    BY <1>3
  <2> HIDE DEF rest
  <2>4. SumFunctionOnSet(f, rest) = f[to] + SumFunctionOnSet(f, rest \ {to})
    BY <2>2, SumRemove
  <2>5. SumFunctionOnSet(f, rest \ {to}) = 0
    BY <2>2, <2>3, SumOfZeros
  <2> QED BY <1>3, <2>1, <2>4, <2>5
<1>6. stock' = After(s, f, 0, 1, 0, 1, R, TRUE, S, s.unsellable, s.reservation)
  <2>1. S = [[s.sellable EXCEPT ![from] = @ - q] EXCEPT ![to] = @ + q]
    <3> DEFINE V == [[s.sellable EXCEPT ![from] = @ - q] EXCEPT ![to] = @ + q]
    <3>1. V[from] = s.sellable[from] - q /\ V[to] = s.sellable[to] + q
      BY <1>2, <1>4
    <3>2. \A l \in Locations \ {from, to} : V[l] = s.sellable[l]
      BY <1>4
    <3>3. V = [l \in Locations |-> V[l]]
      BY <1>4
    <3> HIDE DEF V
    <3>4. \A l \in Locations : V[l] = s.sellable[l] + f[l]
      BY <1>3, <1>4, <3>1, <3>2
    <3>5. V = S
      BY <3>3, <3>4
    <3> QED BY <3>5 DEF V
  <2>2. bal = [[s.balance EXCEPT ![from] = Shift(@, -q, 0, -q)] EXCEPT ![to] = Shift(@, q, 0, q)]
    <3> DEFINE V == [[s.balance EXCEPT ![from] = Shift(@, -q, 0, -q)] EXCEPT ![to] = Shift(@, q, 0, q)]
    <3>1. V[from] = Shift(s.balance[from], -q, 0, -q) /\ V[to] = Shift(s.balance[to], q, 0, q)
      BY <1>2, <1>4
    <3>2. \A l \in Locations \ {from, to} : V[l] = s.balance[l]
      BY <1>4
    <3>3. V = [l \in Locations |-> V[l]]
      BY <1>4
    <3> HIDE DEF V
    <3>4. /\ 1 * f[from] = -q /\ 0 * f[from] = 0 /\ 1 * f[to] = q /\ 0 * f[to] = 0
          /\ \A l \in Locations \ {from, to} : 1 * f[l] = 0 /\ 0 * f[l] = 0
      BY <1>3
    <3>5. \A l \in Locations : Shift(s.balance[l], 0, 0, 0) = s.balance[l]
      BY <1>4 DEF Amounts, Shift
    <3>6. V[from] = Shift(s.balance[from], 1 * f[from], 0 * f[from], 1 * f[from])
      BY <3>1, <3>4
    <3>7. V[to] = Shift(s.balance[to], 1 * f[to], 0 * f[to], 1 * f[to])
      BY <3>1, <3>4
    <3>8. \A l \in Locations \ {from, to} : V[l] = Shift(s.balance[l], 1 * f[l], 0 * f[l], 1 * f[l])
      BY <3>2, <3>4, <3>5
    <3>9. \A l \in Locations : V[l] = Shift(s.balance[l], 1 * f[l], 0 * f[l], 1 * f[l])
      BY <3>6, <3>7, <3>8
    <3>10. V = bal
      BY <3>3, <3>9
    <3> QED BY <3>10 DEF V
  <2>3. s.aggregate = Shift(s.aggregate, 1 * 0, 0 * 0, 1 * 0)
    BY <1>4 DEF Amounts, Shift
  <2>4. stock' = WithSellable([WithClassified(WithRows(s, R), TRUE) EXCEPT !.balance = bal], S)
    BY <1>2, <1>4, <2>1, <2>2 DEF WithSellable, WithClassified, WithRows, StockType
  <2> HIDE DEF bal, R, S
  <2>5. stock' = [ aggregate |-> s.aggregate, rows |-> R, balance |-> bal, classified |-> TRUE,
                   sellable |-> S, unsellable |-> s.unsellable, reservation |-> s.reservation ]
    BY <1>4, <2>4 DEF WithSellable, WithClassified, WithRows, StockType
  <2> QED BY <2>3, <2>5 DEF After, bal
<1>7. Shelved(s, stock', f, 0, R)
  <2>1. \A l \in Locations : s.balance[l].available + f[l] >= 0 /\ (l \notin R => f[l] = 0)
    <3>1. ASSUME NEW l \in Locations PROVE s.balance[l].available + f[l] >= 0
      <4>1. CASE l = from
        BY <1>2, <1>3, <1>4, <4>1
      <4>2. CASE l = to
        BY <1>2, <1>3, <1>4, <4>2
      <4>3. CASE l \in Locations \ {from, to}
        BY <1>3, <1>4, <4>3
      <4> QED BY <4>1, <4>2, <4>3
    <3>2. ASSUME NEW l \in Locations, l \notin R PROVE f[l] = 0
      <4>1. l # to /\ l \notin s.rows
        BY <3>2
      <4>2. l = from => q = 0
        <5>1. s.balance[l].available = 0
          BY <1>1, <4>1 DEF SoundFor, RowFacts
        <5> QED BY <1>2, <5>1
      <4> QED BY <1>3, <4>1, <4>2
    <3> QED BY <3>1, <3>2
  <2> QED BY <1>1, <1>3, <1>4, <1>5, <1>6, <2>1 DEF Shelved
<1>8. /\ RowsAreSound(stock') /\ HoldsAreSound(stock', H)
      /\ stock'.aggregate.quantity = stock.aggregate.quantity + 0
      /\ stock'.unsellable = stock.unsellable
  BY <1>1, <1>7, ShelvedKeeps
<1>9. stock.aggregate.quantity \in Nat
  BY AmountTypes DEF RowsAreSound
<1> QED BY <1>8, <1>9

-----------------------------------------------------------------------------
\* A warehouse as its sources and its staff leave it.
Phases == {"new", "holding", "done"}

WarehouseIInv == phase \in [Sources -> Phases] /\ RowsAreSound(stock) /\ HoldsAreSound(stock, Holding)

LEMMA HoldingIs ==
  ASSUME phase \in [Sources -> Phases], NEW src \in Sources
  PROVE  /\ phase' = [phase EXCEPT ![src] = "holding"] =>
              phase' \in [Sources -> Phases] /\ Holding' = Holding \cup {src}
         /\ phase' = [phase EXCEPT ![src] = "done"] =>
              phase' \in [Sources -> Phases] /\ Holding' = Holding \ {src}
BY DEF Phases, Holding

LEMMA WarehouseStarts == WarehouseInit => WarehouseIInv
<1> SUFFICES ASSUME WarehouseInit PROVE WarehouseIInv
  OBVIOUS
<1> DEFINE held == SumFunctionOnSet(Need, LegacySources)
           agg == [quantity |-> OpeningStock, reserved |-> held, available |-> OpeningStock - held]
           none == [l \in Locations |-> 0]
<1>1. phase \in [Sources -> Phases] /\ Holding = LegacySources
  BY DEF WarehouseInit, Holding, Phases
<1>2. held \in Nat /\ OpeningStock - held \in Nat
  <2>1. IsFiniteSet(LegacySources) /\ \A src \in LegacySources : Need[src] \in Nat
    BY FS_Subset
  <2>2. held \in Nat
    BY <2>1, SumNat
  <2> QED BY <2>2
<1>3. /\ stock.aggregate = agg /\ stock.rows = {} /\ stock.balance = [l \in Locations |-> Nothing]
      /\ stock.classified = FALSE /\ stock.sellable = none /\ stock.unsellable = none
      /\ stock.reservation = [src \in Sources |-> none]
      /\ stock = [ aggregate |-> stock.aggregate, rows |-> stock.rows, balance |-> stock.balance,
                   classified |-> stock.classified, sellable |-> stock.sellable,
                   unsellable |-> stock.unsellable, reservation |-> stock.reservation ]
  BY DEF WarehouseInit, StockInit
<1> HIDE DEF held
<1>4. agg \in Amounts /\ agg.quantity = agg.reserved + agg.available /\ agg.reserved = held
  BY <1>2 DEF Amounts
<1> HIDE DEF agg
<1>5. none \in [Locations -> Nat] /\ \A l \in Locations : none[l] = 0
  OBVIOUS
<1> HIDE DEF none
<1>6. stock \in StockType
  <2>1. stock.balance \in [Locations -> Amounts] /\ stock.rows \in SUBSET Locations /\ stock.classified \in BOOLEAN
    <3>1. Nothing \in Amounts
      BY DEF Nothing, Amounts
    <3> QED BY <1>3, <3>1
  <2>2. stock.reservation \in [Sources -> [Locations -> Nat]]
    BY <1>3, <1>5
  <2> QED BY <1>3, <1>4, <1>5, <2>1, <2>2 DEF StockType
<1>7. RowsAreSound(stock)
  <2>1. Split(stock)
    BY <1>3, <1>5 DEF Split, Nothing
  <2>2. LocationsAgree(stock)
    BY <1>3 DEF LocationsAgree
  <2> QED BY <1>3, <1>4, <1>6, <2>1, <2>2 DEF RowsAreSound
<1>8. HoldsAreSound(stock, Holding)
  <2>1. ASSUME NEW l \in Locations PROVE Tracked(stock, l) = 0
    <3> DEFINE f == [src \in Sources |-> stock.reservation[src][l]]
    <3>1. DOMAIN f = Sources /\ Tracked(stock, l) = SumFunction(f) /\ \A src \in Sources : f[src] = 0
      BY <1>3, <1>5 DEF Tracked
    <3> HIDE DEF f
    <3> QED BY <3>1, SumOfZeros DEF SumFunction
  <2>2. \A src \in Sources : Reserved(stock, src) = 0
    BY <1>6, <2>1, NothingTracked
  <2>3. \A l \in Locations : Tracked(stock, l) <= stock.balance[l].reserved
    BY <1>3, <2>1 DEF Nothing
  <2>4. stock.aggregate.reserved = SumFunctionOnSet(Need, Holding)
    BY <1>1, <1>3, <1>4 DEF held
  <2> QED BY <1>3, <2>2, <2>3, <2>4 DEF HoldsAreSound
<1> QED BY <1>1, <1>7, <1>8 DEF WarehouseIInv

\* What a step does to the ledger.
Promises(src) ==
  /\ src \in Sources /\ phase[src] = "new" /\ phase' = [phase EXCEPT ![src] = "holding"]
  /\ stock'.aggregate.quantity = stock.aggregate.quantity /\ stock'.unsellable = stock.unsellable
  /\ stock.aggregate.available >= Need[src]

GivesUp(src) ==
  /\ src \in Sources /\ phase[src] = "holding" /\ phase' = [phase EXCEPT ![src] = "done"]
  /\ stock'.aggregate.quantity = stock.aggregate.quantity /\ stock'.unsellable = stock.unsellable

Ships(src) ==
  /\ src \in Sources /\ phase[src] = "holding" /\ phase' = [phase EXCEPT ![src] = "done"]
  /\ stock'.aggregate.quantity = stock.aggregate.quantity - Need[src] /\ stock'.unsellable = stock.unsellable

Shelves(n) ==
  /\ UNCHANGED phase /\ stock'.unsellable = stock.unsellable
  /\ stock'.aggregate.quantity = stock.aggregate.quantity + n

Takes(n) ==
  /\ UNCHANGED phase /\ stock'.unsellable = stock.unsellable
  /\ stock'.aggregate.quantity = stock.aggregate.quantity - n /\ n <= stock.aggregate.available

SetsAside(loc, n) ==
  /\ UNCHANGED phase /\ stock'.aggregate.quantity = stock.aggregate.quantity
  /\ stock'.unsellable = [stock.unsellable EXCEPT ![loc] = @ + n] /\ n <= stock.aggregate.available

PutsBack(loc, n) ==
  /\ UNCHANGED phase /\ stock'.aggregate.quantity = stock.aggregate.quantity
  /\ stock'.unsellable = [stock.unsellable EXCEPT ![loc] = @ - n] /\ n <= stock.unsellable[loc]

LedgerStep ==
  \/ \E src \in Sources : Promises(src) \/ GivesUp(src) \/ Ships(src)
  \/ \E n \in Units : Shelves(n) \/ Takes(n)
  \/ Shelves(0)
  \/ \E loc \in Locations, n \in Units : SetsAside(loc, n) \/ PutsBack(loc, n)

LEMMA WarehouseStep ==
  ASSUME WarehouseIInv, WarehouseNext
  PROVE  WarehouseIInv' /\ LedgerStep
<1> USE DEF Units
<1>0. /\ phase \in [Sources -> Phases] /\ RowsAreSound(stock) /\ HoldsAreSound(stock, Holding)
      /\ Holding \in SUBSET Sources /\ \A src \in Sources : src \in Holding <=> phase[src] = "holding"
  BY DEF WarehouseIInv, Holding
<1>1. ASSUME UNCHANGED phase, RowsAreSound(stock'), HoldsAreSound(stock', Holding)
      PROVE  WarehouseIInv'
  BY <1>0, <1>1 DEF WarehouseIInv, Holding
<1>2. ASSUME NEW src \in Sources, Place(src)
      PROVE  WarehouseIInv' /\ LedgerStep
  <2>1. phase[src] = "new" /\ Reserve(src, Need[src]) /\ phase' = [phase EXCEPT ![src] = "holding"]
    BY <1>2 DEF Place
  <2>2. src \in Sources \ Holding
    BY <1>0, <2>1
  <2>3. /\ RowsAreSound(stock') /\ HoldsAreSound(stock', Holding \cup {src})
        /\ stock'.aggregate.quantity = stock.aggregate.quantity /\ stock'.unsellable = stock.unsellable
        /\ stock.aggregate.available >= Need[src]
    BY <1>0, <2>1, <2>2, ReserveKeeps
  <2>4. phase' \in [Sources -> Phases] /\ Holding' = Holding \cup {src}
    BY <1>0, <2>1, HoldingIs
  <2> QED BY <2>1, <2>3, <2>4 DEF WarehouseIInv, LedgerStep, Promises
<1>3. ASSUME NEW src \in Sources, Leave(src)
      PROVE  WarehouseIInv' /\ LedgerStep
  <2>1. /\ phase[src] = "holding" /\ phase' = [phase EXCEPT ![src] = "done"] /\ src \in Holding
        /\ Release(src, Need[src]) \/ ReleaseExpired(src, Need[src]) \/ Consume(src, Need[src])
    BY <1>0, <1>3 DEF Leave
  <2>2. phase' \in [Sources -> Phases] /\ Holding' = Holding \ {src}
    BY <1>0, <2>1, HoldingIs
  <2>3. CASE Release(src, Need[src]) \/ ReleaseExpired(src, Need[src])
    <3>1. /\ RowsAreSound(stock') /\ HoldsAreSound(stock', Holding \ {src})
          /\ stock'.aggregate.quantity = stock.aggregate.quantity /\ stock'.unsellable = stock.unsellable
      BY <1>0, <2>1, <2>3, ReleaseKeeps, ReleaseExpiredKeeps
    <3> QED BY <2>1, <2>2, <3>1 DEF WarehouseIInv, LedgerStep, GivesUp
  <2>4. CASE Consume(src, Need[src])
    <3>1. /\ RowsAreSound(stock') /\ HoldsAreSound(stock', Holding \ {src})
          /\ stock'.aggregate.quantity = stock.aggregate.quantity - Need[src]
          /\ stock'.unsellable = stock.unsellable
      BY <1>0, <2>1, <2>4, ConsumeKeeps
    <3> QED BY <2>1, <2>2, <3>1 DEF WarehouseIInv, LedgerStep, Ships
  <2> QED BY <2>1, <2>3, <2>4
<1>4. ASSUME Move PROVE WarehouseIInv' /\ LedgerStep
  <2>1. UNCHANGED phase
    BY <1>4 DEF Move
  <2>2. PICK q \in Units :
          \/ TakeAvailable(q)
          \/ \E loc \in Locations : Deposit(loc, q) \/ AdjustDown(loc, q) \/ Downgrade(loc, q) \/ Restore(loc, q)
          \/ \E from, to \in Locations : Relocate(from, to, q)
    BY <1>4 DEF Move
  <2>3. q \in Nat
    OBVIOUS
  <2>t. stock.aggregate.quantity \in Nat
    BY <1>0, AmountTypes DEF RowsAreSound
  <2>4. CASE TakeAvailable(q)
    <3>1. /\ RowsAreSound(stock') /\ HoldsAreSound(stock', Holding)
          /\ stock'.aggregate.quantity = stock.aggregate.quantity - q
          /\ stock'.unsellable = stock.unsellable /\ stock.aggregate.available >= q
      BY <1>0, <2>3, <2>4, TakeAvailableKeeps
    <3>2. q <= stock.aggregate.available
      BY <1>0, <2>3, <3>1, AmountTypes DEF RowsAreSound
    <3> QED BY <1>1, <2>1, <3>1, <3>2 DEF LedgerStep, Takes
  <2>5. ASSUME NEW loc \in Locations, Deposit(loc, q) PROVE WarehouseIInv' /\ LedgerStep
    <3>1. /\ RowsAreSound(stock') /\ HoldsAreSound(stock', Holding)
          /\ stock'.aggregate.quantity = stock.aggregate.quantity + q
          /\ stock'.unsellable = stock.unsellable
      BY <1>0, <2>3, <2>5, DepositKeeps
    <3> QED BY <1>1, <2>1, <3>1 DEF LedgerStep, Shelves
  <2>6. ASSUME NEW loc \in Locations, AdjustDown(loc, q) PROVE WarehouseIInv' /\ LedgerStep
    <3>1. /\ RowsAreSound(stock') /\ HoldsAreSound(stock', Holding)
          /\ stock'.aggregate.quantity = stock.aggregate.quantity - q
          /\ stock'.unsellable = stock.unsellable /\ stock.aggregate.available >= q
      BY <1>0, <2>3, <2>6, AdjustDownKeeps
    <3>2. q <= stock.aggregate.available
      BY <1>0, <2>3, <3>1, AmountTypes DEF RowsAreSound
    <3> QED BY <1>1, <2>1, <3>1, <3>2 DEF LedgerStep, Takes
  <2>7. ASSUME NEW loc \in Locations, Downgrade(loc, q) PROVE WarehouseIInv' /\ LedgerStep
    <3>1. /\ RowsAreSound(stock') /\ HoldsAreSound(stock', Holding)
          /\ stock'.aggregate.quantity = stock.aggregate.quantity
          /\ stock'.unsellable = [stock.unsellable EXCEPT ![loc] = @ + q] /\ stock.aggregate.available >= q
      BY <1>0, <2>3, <2>7, DowngradeKeeps
    <3>2. q <= stock.aggregate.available
      BY <1>0, <2>3, <3>1, AmountTypes DEF RowsAreSound
    <3> QED BY <1>1, <2>1, <3>1, <3>2 DEF LedgerStep, SetsAside
  <2>8. ASSUME NEW loc \in Locations, Restore(loc, q) PROVE WarehouseIInv' /\ LedgerStep
    <3>1. /\ RowsAreSound(stock') /\ HoldsAreSound(stock', Holding)
          /\ stock'.aggregate.quantity = stock.aggregate.quantity
          /\ stock'.unsellable = [stock.unsellable EXCEPT ![loc] = @ - q] /\ stock.unsellable[loc] >= q
      BY <1>0, <2>3, <2>8, RestoreKeeps
    <3>2. q <= stock.unsellable[loc]
      BY <1>0, <2>3, <3>1, AmountTypes DEF RowsAreSound
    <3> QED BY <1>1, <2>1, <3>1, <3>2 DEF LedgerStep, PutsBack
  <2>9. ASSUME NEW from \in Locations, NEW to \in Locations, Relocate(from, to, q)
        PROVE  WarehouseIInv' /\ LedgerStep
    <3>1. /\ RowsAreSound(stock') /\ HoldsAreSound(stock', Holding)
          /\ stock'.aggregate.quantity = stock.aggregate.quantity
          /\ stock'.unsellable = stock.unsellable
      BY <1>0, <2>3, <2>9, RelocateKeeps
    <3>2. Shelves(0)
      BY <2>1, <2>t, <3>1 DEF Shelves
    <3> QED BY <1>1, <2>1, <3>1, <3>2 DEF LedgerStep
  <2> QED BY <2>2, <2>4, <2>5, <2>6, <2>7, <2>8, <2>9
<1> QED BY <1>2, <1>3, <1>4 DEF WarehouseNext

THEOREM WarehouseInvariance == WarehouseSpec => []WarehouseIInv
<1>1. WarehouseInit => WarehouseIInv
  BY WarehouseStarts
<1>2. WarehouseIInv /\ [WarehouseNext]_warehouseVars => WarehouseIInv'
  <2> SUFFICES ASSUME WarehouseIInv, [WarehouseNext]_warehouseVars PROVE WarehouseIInv'
    OBVIOUS
  <2>1. CASE WarehouseNext
    BY <2>1, WarehouseStep
  <2>2. CASE UNCHANGED warehouseVars
    BY <2>2 DEF WarehouseIInv, Holding, warehouseVars
  <2> QED BY <2>1, <2>2
<1> QED BY <1>1, <1>2, PTL DEF WarehouseSpec

\* The aggregate in three parts.
LEMMA BooksAre ==
  ASSUME WarehouseIInv
  PROVE  /\ stock.aggregate.quantity =
              stock.aggregate.reserved + stock.aggregate.available + Total(stock.unsellable)
         /\ stock.aggregate.reserved = SumFunctionOnSet(Need, Holding)
         /\ stock.aggregate.quantity \in Nat /\ stock.aggregate.reserved \in Nat
         /\ stock.aggregate.available \in Nat /\ Total(stock.unsellable) \in Nat
         /\ \A l \in Locations : stock.unsellable[l] <= Total(stock.unsellable)
<1> DEFINE agg == stock.aggregate
           U == stock.unsellable
<1>1. stock \in StockType /\ LocationsAgree(stock) /\ Split(stock)
  BY DEF WarehouseIInv, RowsAreSound
<1>2. agg.quantity \in Nat /\ agg.reserved \in Nat /\ agg.available \in Nat
  BY <1>1, AmountTypes
<1>3. DOMAIN U = Locations /\ \A l \in Locations : U[l] \in Nat
  BY <1>1 DEF StockType
<1>4. SumFunction(U) \in Nat /\ \A l \in Locations : U[l] <= SumFunction(U)
  <2> HIDE DEF U
  <2> QED BY <1>3, SumNat, SumMember DEF SumFunction
<1>5. agg.quantity = agg.reserved + agg.available + SumFunction(U)
  <2>1. CASE stock.rows = {}
    <3>1. agg.quantity = agg.reserved + agg.available /\ ~stock.classified
      BY <2>1 DEF WarehouseIInv, RowsAreSound
    <3>2. \A l \in Locations : U[l] = 0
      BY <1>1, <3>1 DEF Split
    <3>3. SumFunction(U) = 0
      <4> HIDE DEF U
      <4> QED BY <1>3, <3>2, SumOfZeros DEF SumFunction
    <3> HIDE DEF agg, U
    <3> QED BY <1>2, <3>1, <3>3 DEF agg
  <2>2. CASE stock.rows # {}
    <3> DEFINE x == Column(stock, "quantity")
               y == Column(stock, "reserved")
               z == Column(stock, "available")
               w == [l \in Locations |-> x[l] - y[l]]
    <3>1. /\ DOMAIN x = Locations /\ DOMAIN y = Locations /\ DOMAIN z = Locations
          /\ \A l \in Locations : /\ x[l] = stock.balance[l].quantity /\ y[l] = stock.balance[l].reserved
                                  /\ z[l] = stock.balance[l].available
      BY DEF Column
    <3>2. SumFunction(x) = agg.quantity /\ SumFunction(y) = agg.reserved /\ SumFunction(z) = agg.available
      BY <1>1, <2>2 DEF LocationsAgree
    <3>3. \A l \in Locations : /\ x[l] \in Nat /\ y[l] \in Nat /\ z[l] \in Nat /\ x[l] = y[l] + z[l] + U[l]
      BY <1>1, <3>1, AmountTypes DEF Split
    <3> HIDE DEF x, y, z, U
    <3>4. \A l \in Locations : x[l] \in Int /\ y[l] \in Int /\ z[l] \in Int /\ w[l] \in Int /\ U[l] \in Int
                               /\ w[l] = x[l] - y[l] /\ U[l] = w[l] - z[l]
      BY <1>3, <3>3
    <3> HIDE DEF w
    <3>5. SumFunctionOnSet(w, Locations) = SumFunctionOnSet(x, Locations) - SumFunctionOnSet(y, Locations)
      BY <3>4, SumMinus
    <3>6. SumFunctionOnSet(U, Locations) = SumFunctionOnSet(w, Locations) - SumFunctionOnSet(z, Locations)
      BY <3>4, SumMinus
    <3>7. SumFunction(U) = agg.quantity - agg.reserved - agg.available
      BY <1>3, <3>1, <3>2, <3>5, <3>6 DEF SumFunction
    <3> HIDE DEF agg
    <3> QED BY <1>2, <1>4, <3>7
  <2> QED BY <2>1, <2>2
<1> QED BY <1>2, <1>4, <1>5 DEF WarehouseIInv, HoldsAreSound

(* The rows, the columns and the conditions of a stock agree before every    *)
(* statement and no statement is refused because they do not; what is       *)
(* reserved is what unfinished sources need, the reservation rows are       *)
(* covered, and whoever holds units can be shipped (the promises of         *)
(* location-inventory.ts together).                                         *)
THEOREM RowsCorrect == WarehouseSpec => []RowsAgree
<1>1. WarehouseIInv => RowsAgree
  <2> SUFFICES ASSUME WarehouseIInv PROVE RowsAgree
    OBVIOUS
  <2> DEFINE s == Prepared(stock)
  <2>0. RowsAreSound(stock) /\ HoldsAreSound(stock, Holding) /\ Holding \in SUBSET Sources
    BY DEF WarehouseIInv, Holding
  <2>1. SoundFor(s, Holding) /\ \A l \in Locations : s.sellable[l] = s.balance[l].reserved + s.balance[l].available
    BY <2>0, PreparedFacts
  <2> HIDE DEF s
  <2>2. ASSUME NEW t, RowsAreSound(t) PROVE Consistent(t)
    <3>1. t \in StockType /\ LocationsAgree(t)
      BY <2>2 DEF RowsAreSound
    <3>2. ASSUME t.classified, NEW l \in Locations
          PROVE  /\ t.sellable[l] + t.unsellable[l] = t.balance[l].quantity
                 /\ t.sellable[l] = t.balance[l].reserved + t.balance[l].available
      BY <2>2, <3>2, RowsAreTold DEF RowFacts
    <3>3. t.rows \subseteq Locations
      BY <3>1, AmountTypes
    <3> QED BY <3>1, <3>2, <3>3 DEF Consistent, ConditionsAgree
  <2>3. NoDrift
    BY <2>0, <2>1, <2>2 DEF NoDrift, SoundFor, s
  <2>4. ReservedIsHeld
    BY <2>0 DEF HoldsAreSound, ReservedIsHeld
  <2>5. RowsAreBacked
    BY <2>0 DEF HoldsAreSound, RowsAreBacked, Tracked
  <2>6. HoldersCanShip
    <3>1. ASSUME NEW src \in Holding
          PROVE  \E alloc \in HeldAt(s, src, Need[src]) :
                   \A l \in Locations : alloc[l] <= s.balance[l].reserved /\ alloc[l] <= s.sellable[l]
      <4>1. s \in StockType /\ s.rows # {} /\ HoldsAreSound(s, Holding) /\ Holding \in SUBSET Sources
        BY <2>0, <2>1 DEF SoundFor
      <4>2. PICK alloc \in HeldAt(s, src, Need[src]) : TRUE
        BY <4>1, HeldExists
      <4>3. \A l \in Locations : alloc[l] \in Nat /\ alloc[l] <= s.balance[l].reserved
        BY <4>1, HeldTypes
      <4>4. \A l \in Locations : s.balance[l].reserved \in Nat /\ s.balance[l].available \in Nat
        BY <4>1, AmountTypes
      <4>5. \A l \in Locations : alloc[l] <= s.sellable[l]
        BY <2>1, <4>3, <4>4
      <4> QED BY <4>3, <4>5
    <3> QED BY <3>1 DEF HoldersCanShip, s
  <2> QED BY <2>3, <2>4, <2>5, <2>6 DEF RowsAgree
<1> QED BY <1>1, WarehouseInvariance, PTL

-----------------------------------------------------------------------------
\* The ledger sums as the rows do.
LEMMA LedgerSums == ASSUME NEW f PROVE Ledger!SumFunction(f) = SumFunction(f)
<1>1. Ledger!SumFunctionOnSet(f, DOMAIN f) = (CHOOSE g : SumTable(f, DOMAIN f, g))[DOMAIN f]
  BY DEF Ledger!SumFunctionOnSet, Ledger!FoldFunctionOnSet, Ledger!MapThenFoldSet, SumTable, Picked
<1> QED BY <1>1, SumIsTabled DEF Ledger!SumFunction, SumFunction

Held == [src \in Sources |-> IF phase[src] = "holding" THEN Need[src] ELSE 0]

LEMMA LedgerIs ==
  ASSUME WarehouseIInv
  PROVE  /\ Ledger!Unheld = stock.aggregate.available
         /\ Held \in [Sources -> Nat]
         /\ \A src \in Sources : Held[src] = IF phase[src] = "holding" THEN Need[src] ELSE 0
<1>1. /\ Held \in [Sources -> Nat] /\ DOMAIN Held = Sources
      /\ \A src \in Sources : Held[src] = IF phase[src] = "holding" THEN Need[src] ELSE 0
  BY DEF Held
<1>2. Ledger!Unheld = stock.aggregate.quantity - SumFunction(Held) - Total(stock.unsellable)
  BY LedgerSums DEF Ledger!Unheld, Held
<1>3. SumFunction(Held) = SumFunctionOnSet(Need, Holding)
  <2>1. Holding \in SUBSET Sources /\ IsFiniteSet(Holding)
    BY FS_Subset DEF Holding
  <2>2. (\A src \in Sources : Held[src] \in Int) /\ (\A src \in Sources \ Holding : Held[src] = 0)
    BY <1>1 DEF Holding
  <2>3. SumFunctionOnSet(Held, Sources) = SumFunctionOnSet(Held, Holding)
    BY <2>1, <2>2, SumOfOthers
  <2>4. \A src \in Holding : Held[src] = Need[src]
    BY <1>1 DEF Holding
  <2>5. SumFunctionOnSet(Held, Holding) = SumFunctionOnSet(Need, Holding)
    BY <2>1, <2>4, SumAgree
  <2> QED BY <1>1, <2>3, <2>5 DEF SumFunction
<1> QED BY <1>1, <1>2, <1>3, BooksAre


\* The actions of the ledger on these rows.
LEMMA LedgerActions ==
  /\ \A src \in Sources :
       /\ Held[src] = 0 /\ Ledger!Unheld >= Need[src] /\ Held' = [Held EXCEPT ![src] = Need[src]]
            /\ stock'.aggregate.quantity = stock.aggregate.quantity /\ stock'.unsellable = stock.unsellable
          => Ledger!Hold(src)
       /\ Held[src] > 0 /\ Held' = [Held EXCEPT ![src] = 0]
            /\ stock'.aggregate.quantity = stock.aggregate.quantity /\ stock'.unsellable = stock.unsellable
          => Ledger!Drop(src)
       /\ Held[src] > 0 /\ Held' = [Held EXCEPT ![src] = 0]
            /\ stock'.aggregate.quantity = stock.aggregate.quantity - Held[src]
            /\ stock'.unsellable = stock.unsellable
          => Ledger!Fulfil(src)
  /\ Held' = Held /\ stock'.unsellable = stock.unsellable =>
       /\ stock'.aggregate.quantity > stock.aggregate.quantity => Ledger!Receive
       /\ /\ stock'.aggregate.quantity < stock.aggregate.quantity
          /\ stock.aggregate.quantity - stock'.aggregate.quantity <= Ledger!Unheld
          => Ledger!Issue
       /\ stock'.aggregate.quantity = stock.aggregate.quantity => UNCHANGED Ledger!ledger
  /\ Held' = Held /\ stock'.aggregate.quantity = stock.aggregate.quantity =>
       /\ /\ Total(stock'.unsellable) > Total(stock.unsellable)
          /\ Total(stock'.unsellable) - Total(stock.unsellable) <= Ledger!Unheld
          => Ledger!SetAside
       /\ Total(stock'.unsellable) \in Nat /\ Total(stock'.unsellable) < Total(stock.unsellable) => Ledger!PutBack
<1> USE DEF Held
<1>1. \A src \in Sources :
        Held[src] = 0 /\ Ledger!Unheld >= Need[src] /\ Held' = [Held EXCEPT ![src] = Need[src]]
          /\ stock'.aggregate.quantity = stock.aggregate.quantity /\ stock'.unsellable = stock.unsellable
        => Ledger!Hold(src)
  BY DEF Ledger!Hold
<1>2. \A src \in Sources :
        Held[src] > 0 /\ Held' = [Held EXCEPT ![src] = 0]
          /\ stock'.aggregate.quantity = stock.aggregate.quantity /\ stock'.unsellable = stock.unsellable
        => Ledger!Drop(src)
  BY DEF Ledger!Drop
<1>3. \A src \in Sources :
        Held[src] > 0 /\ Held' = [Held EXCEPT ![src] = 0]
          /\ stock'.aggregate.quantity = stock.aggregate.quantity - Held[src]
          /\ stock'.unsellable = stock.unsellable
        => Ledger!Fulfil(src)
  BY DEF Ledger!Fulfil
<1>4. Held' = Held /\ stock'.unsellable = stock.unsellable =>
        /\ stock'.aggregate.quantity > stock.aggregate.quantity => Ledger!Receive
        /\ /\ stock'.aggregate.quantity < stock.aggregate.quantity
           /\ stock.aggregate.quantity - stock'.aggregate.quantity <= Ledger!Unheld
           => Ledger!Issue
        /\ stock'.aggregate.quantity = stock.aggregate.quantity => UNCHANGED Ledger!ledger
  BY DEF Ledger!Receive, Ledger!Issue, Ledger!ledger
<1>5. Held' = Held /\ stock'.aggregate.quantity = stock.aggregate.quantity =>
        /\ /\ Total(stock'.unsellable) > Total(stock.unsellable)
           /\ Total(stock'.unsellable) - Total(stock.unsellable) <= Ledger!Unheld
           => Ledger!SetAside
        /\ Total(stock'.unsellable) \in Nat /\ Total(stock'.unsellable) < Total(stock.unsellable) => Ledger!PutBack
  BY DEF Ledger!SetAside, Ledger!PutBack
<1> QED BY <1>1, <1>2, <1>3, <1>4, <1>5

LEMMA LedgerMoves ==
  ASSUME WarehouseIInv, WarehouseIInv', LedgerStep
  PROVE  [Ledger!LedgerNext]_(Ledger!ledger)
<1>1. /\ Ledger!Unheld = stock.aggregate.available /\ Held \in [Sources -> Nat]
      /\ \A src \in Sources : Held[src] = IF phase[src] = "holding" THEN Need[src] ELSE 0
  BY LedgerIs
<1>2. /\ stock.aggregate.quantity \in Nat /\ stock.aggregate.available \in Nat
      /\ stock.unsellable \in [Locations -> Nat] /\ Total(stock.unsellable) \in Nat
      /\ \A l \in Locations : stock.unsellable[l] <= Total(stock.unsellable)
  BY BooksAre DEF WarehouseIInv, RowsAreSound, StockType
<1>3. phase \in [Sources -> Phases] /\ Need \in [Sources -> Nat \ {0}]
  BY DEF WarehouseIInv
<1>4. CASE \E src \in Sources : Promises(src) \/ GivesUp(src) \/ Ships(src)
  <2> PICK src \in Sources : Promises(src) \/ GivesUp(src) \/ Ships(src)
    BY <1>4
  <2>1. CASE Promises(src)
    <3>1. Held[src] = 0
      BY <1>1, <2>1 DEF Promises
    <3>2. Held' = [Held EXCEPT ![src] = Need[src]]
      BY <1>3, <2>1 DEF Promises, Held
    <3>3. Ledger!Hold(src)
      BY <1>1, <2>1, <3>1, <3>2, LedgerActions DEF Promises
    <3> QED BY <3>3 DEF Ledger!LedgerNext
  <2>2. ASSUME phase[src] = "holding", phase' = [phase EXCEPT ![src] = "done"]
        PROVE  Held[src] = Need[src] /\ Held[src] > 0 /\ Held' = [Held EXCEPT ![src] = 0]
    <3>1. Held[src] = Need[src] /\ Need[src] > 0
      BY <1>1, <1>3, <2>2
    <3>2. Held' = [Held EXCEPT ![src] = 0]
      BY <1>3, <2>2 DEF Held
    <3> QED BY <3>1, <3>2
  <2>3. CASE GivesUp(src)
    <3>1. Ledger!Drop(src)
      BY <2>2, <2>3, LedgerActions DEF GivesUp
    <3> QED BY <3>1 DEF Ledger!LedgerNext
  <2>4. CASE Ships(src)
    <3>1. Ledger!Fulfil(src)
      BY <2>2, <2>4, LedgerActions DEF Ships
    <3> QED BY <3>1 DEF Ledger!LedgerNext
  <2> QED BY <2>1, <2>3, <2>4
<1>5. ASSUME UNCHANGED phase PROVE Held' = Held
  BY <1>5 DEF Held
<1>6. CASE \E n \in Units : Shelves(n) \/ Takes(n)
  <2> PICK n \in Units : Shelves(n) \/ Takes(n)
    BY <1>6
  <2>1. n \in Nat /\ n > 0
    BY DEF Units
  <2>2. CASE Shelves(n)
    <3>1. stock'.aggregate.quantity > stock.aggregate.quantity
      BY <1>2, <2>1, <2>2 DEF Shelves
    <3>2. Ledger!Receive
      BY <1>5, <2>2, <3>1, LedgerActions DEF Shelves
    <3> QED BY <3>2 DEF Ledger!LedgerNext
  <2>3. CASE Takes(n)
    <3>1. /\ stock'.aggregate.quantity < stock.aggregate.quantity
          /\ stock.aggregate.quantity - stock'.aggregate.quantity <= Ledger!Unheld
      BY <1>1, <1>2, <2>1, <2>3 DEF Takes
    <3>2. Ledger!Issue
      BY <1>5, <2>3, <3>1, LedgerActions DEF Takes
    <3> QED BY <3>2 DEF Ledger!LedgerNext
  <2> QED BY <2>2, <2>3
<1>7. CASE Shelves(0)
  <2>1. stock'.aggregate.quantity = stock.aggregate.quantity
    BY <1>2, <1>7 DEF Shelves
  <2>2. UNCHANGED Ledger!ledger
    BY <1>5, <1>7, <2>1, LedgerActions DEF Shelves
  <2> QED BY <2>2
<1>8. ASSUME NEW loc \in Locations, NEW x \in Int, stock'.unsellable = [stock.unsellable EXCEPT ![loc] = x]
      PROVE  Total(stock'.unsellable) = Total(stock.unsellable) - stock.unsellable[loc] + x
  <2> DEFINE f == stock.unsellable
             g == stock'.unsellable
  <2>1. /\ DOMAIN f = Locations /\ DOMAIN g = Locations /\ g[loc] = x
        /\ (\A l \in Locations : f[l] \in Int) /\ \A l \in Locations \ {loc} : g[l] = f[l]
    BY <1>2, <1>8
  <2> HIDE DEF f, g
  <2>2. SumFunction(g) = SumFunction(f) - f[loc] + g[loc]
    BY <2>1, SumUpdated
  <2> QED BY <2>1, <2>2 DEF f, g
<1>9. CASE \E loc \in Locations, n \in Units : SetsAside(loc, n) \/ PutsBack(loc, n)
  <2> PICK loc \in Locations, n \in Units : SetsAside(loc, n) \/ PutsBack(loc, n)
    BY <1>9
  <2>1. n \in Nat /\ n > 0 /\ stock.unsellable[loc] \in Nat
    BY <1>2 DEF Units
  <2>2. CASE SetsAside(loc, n)
    <3>1. Total(stock'.unsellable) = Total(stock.unsellable) - stock.unsellable[loc] + (stock.unsellable[loc] + n)
      <4> DEFINE x == stock.unsellable[loc] + n
      <4>1. x \in Int /\ stock'.unsellable = [stock.unsellable EXCEPT ![loc] = x]
        BY <2>1, <2>2 DEF SetsAside
      <4> HIDE DEF x
      <4>2. Total(stock'.unsellable) = Total(stock.unsellable) - stock.unsellable[loc] + x
        BY <1>8, <4>1
      <4> QED BY <4>2 DEF x
    <3>2. Total(stock'.unsellable) = Total(stock.unsellable) + n
      BY <1>2, <2>1, <3>1
    <3>3. /\ Total(stock'.unsellable) > Total(stock.unsellable)
          /\ Total(stock'.unsellable) - Total(stock.unsellable) <= Ledger!Unheld
      BY <1>1, <1>2, <2>1, <2>2, <3>2 DEF SetsAside
    <3>4. Ledger!SetAside
      BY <1>5, <2>2, <3>3, LedgerActions DEF SetsAside
    <3> QED BY <3>4 DEF Ledger!LedgerNext
  <2>3. CASE PutsBack(loc, n)
    <3>1. Total(stock'.unsellable) = Total(stock.unsellable) - stock.unsellable[loc] + (stock.unsellable[loc] - n)
      <4> DEFINE x == stock.unsellable[loc] - n
      <4>1. x \in Int /\ stock'.unsellable = [stock.unsellable EXCEPT ![loc] = x]
        BY <2>1, <2>3 DEF PutsBack
      <4> HIDE DEF x
      <4>2. Total(stock'.unsellable) = Total(stock.unsellable) - stock.unsellable[loc] + x
        BY <1>8, <4>1
      <4> QED BY <4>2 DEF x
    <3>2. Total(stock'.unsellable) = Total(stock.unsellable) - n
      BY <1>2, <2>1, <3>1
    <3>3. n <= Total(stock.unsellable)
      BY <1>2, <2>1, <2>3 DEF PutsBack
    <3>4. Total(stock'.unsellable) \in Nat /\ Total(stock'.unsellable) < Total(stock.unsellable)
      BY <1>2, <2>1, <3>2, <3>3
    <3>5. Ledger!PutBack
      BY <1>5, <2>3, <3>4, LedgerActions DEF PutsBack
    <3> QED BY <3>5 DEF Ledger!LedgerNext
  <2> QED BY <2>2, <2>3
<1> QED BY <1>4, <1>6, <1>7, <1>9 DEF LedgerStep

(* The rows of a warehouse implement the ledger: only free units are       *)
(* promised or issued, and a held unit leaves once (the statements of       *)
(* location-inventory.ts as one stock).                                     *)
THEOREM RowsImplementLedger == WarehouseSpec => LedgerSpec
<1>1. WarehouseInit => Ledger!LedgerInit
  <2> SUFFICES ASSUME WarehouseInit PROVE Ledger!LedgerInit
    OBVIOUS
  <2>1. WarehouseIInv
    BY WarehouseStarts
  <2>2. Held \in [Sources -> Nat] /\ Ledger!Unheld >= 0 /\ stock.aggregate.quantity \in Nat
    BY <2>1, LedgerIs, BooksAre
  <2>3. Total(stock.unsellable) = 0
    <3> DEFINE f == stock.unsellable
    <3>1. DOMAIN f = Locations /\ \A l \in Locations : f[l] = 0
      BY DEF WarehouseInit, StockInit
    <3> HIDE DEF f
    <3>2. SumFunction(f) = 0
      BY <3>1, SumOfZeros DEF SumFunction
    <3> QED BY <3>2 DEF f
  <2> QED BY <2>2, <2>3 DEF Ledger!LedgerInit, Held
<1>2. WarehouseIInv /\ WarehouseIInv' /\ [WarehouseNext]_warehouseVars => [Ledger!LedgerNext]_(Ledger!ledger)
  <2> SUFFICES ASSUME WarehouseIInv, WarehouseIInv', [WarehouseNext]_warehouseVars
               PROVE  [Ledger!LedgerNext]_(Ledger!ledger)
    OBVIOUS
  <2>1. CASE WarehouseNext
    BY <2>1, WarehouseStep, LedgerMoves
  <2>2. CASE UNCHANGED warehouseVars
    BY <2>2 DEF warehouseVars, Ledger!ledger
  <2> QED BY <2>1, <2>2
<1> QED BY <1>1, <1>2, WarehouseInvariance, PTL DEF WarehouseSpec, LedgerSpec, Ledger!LedgerSpec

-----------------------------------------------------------------------------
(* The parts together.  What the supply chain does is, in each of its      *)
(* parts, a behaviour of that part alone.                                  *)

(* A row that is complete when it is handed over leaves nothing for one    *)
(* part to write in another: each part of the supply chain behaves as it   *)
(* does alone (convertToPo, receive, shipTransfer, createTrip, reserve).   *)
THEOREM SupplyIsEach ==
  SupplySpec => RequestsSpec /\ ReceiptsSpec /\ DocumentsSpec /\ DeliveriesSpec /\ WarehouseSpec
<1>1. SupplyInit => RequestsInit /\ ReceiptsInit /\ DocumentsInit /\ DeliveriesInit /\ WarehouseInit
  BY DEF SupplyInit
<1>2. [SupplyNext]_supplyVars => /\ [RequestsNext]_requestVars /\ [ReceiptsNext]_receiptVars
                                 /\ [DocumentsNext]_documentVars /\ [DeliveriesNext]_deliveryVars
                                 /\ [WarehouseNext]_warehouseVars
  BY DEF SupplyNext, supplyVars
<1> QED BY <1>1, <1>2, PTL DEF SupplySpec, RequestsSpec, ReceiptsSpec, DocumentsSpec, DeliveriesSpec, WarehouseSpec

(* The supply chain as a whole keeps the promises of its parts. *)
THEOREM SupplyKeepsItsPromises ==
  SupplySpec => /\ [](OrderIsWarranted /\ ReceivedAsOrdered /\ StockIsAccountedFor /\ TripsAreConsistent /\ RowsAgree)
                /\ LedgerSpec
BY SupplyIsEach, OrderWarranted, ReceiptsCorrect, DocumentsCorrect, TripsCorrect, RowsCorrect, RowsImplementLedger, PTL

(* Every row of the supply chain is one the program writes: no amount is    *)
(* negative, no status and no reference is out of its range.               *)
THEOREM SupplyTyped == SupplySpec => []SupplyTypeOK
<1>1. SupplyInit => part \in Parts
  BY DEF SupplyInit
<1>2. part \in Parts /\ [SupplyNext]_supplyVars => (part \in Parts)'
  BY DEF SupplyNext, supplyVars
<1>3. SupplySpec => [](part \in Parts)
  BY <1>1, <1>2, PTL DEF SupplySpec
<1>4. RequestsIInv => RequestsTypeOK
  BY DEF RequestsIInv
<1>5. ReceiptsIInv => ReceiptsTypeOK
  BY DEF ReceiptsIInv
<1>6. DocumentsIInv => StockDocumentsTypeOK
  BY DEF DocumentsIInv
<1>7. DeliveriesIInv => DeliveriesTypeOK
  BY DEF DeliveriesIInv
<1>8. WarehouseIInv => WarehouseTypeOK
  BY DEF WarehouseIInv, RowsAreSound, WarehouseTypeOK, Phases
<1>9. /\ part \in Parts /\ RequestsTypeOK /\ ReceiptsTypeOK /\ StockDocumentsTypeOK
      /\ DeliveriesTypeOK /\ WarehouseTypeOK
      => SupplyTypeOK
  BY DEF SupplyTypeOK
<1> QED BY <1>3, <1>4, <1>5, <1>6, <1>7, <1>8, <1>9, SupplyIsEach, RequestsInvariance, ReceiptsInvariance,
           DocumentsInvariance, DeliveriesInvariance, WarehouseInvariance, PTL
=============================================================================
