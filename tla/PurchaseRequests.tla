-------------------------- MODULE PurchaseRequests --------------------------
(***************************************************************************)
(* Purchase requests (PurchaseRequestsService), the approval requests they *)
(* wait for (PlatformService, and the worker that lets them expire) and    *)
(* the purchase orders they become.  Deciding, delegating, expiring and    *)
(* placing an order are serializable transactions; submit, decide, cancel  *)
(* and convert are sequences of single statements, and a process may stop  *)
(* between two of them.                                                    *)
(***************************************************************************)
EXTENDS Naturals, FiniteSets

CONSTANTS
  Requests,      \* purchase requests
  Users,         \* each with at most one call under way
  Steps,         \* steps of the approval policy
  Escalates,     \* its steps name escalationRoles
  MaxApprovals,  \* bound on approval requests
  None           \* no user, no request

ASSUME RequestsAssumption ==
  /\ Steps \in Nat \ {0} /\ MaxApprovals \in Nat \ {0}
  /\ Escalates \in BOOLEAN
  /\ None \notin Users \cup Requests

VARIABLES
  request,    \* status of the purchase request, its approvalRequestId, purchaseOrderId set
  approval,   \* the approval requests, numbered as they are created
  decisions,  \* approvalDecision rows
  placed,     \* purchase orders created for each request
  call        \* what each user's call has done

requestVars == <<request, approval, decisions, placed, call>>

Approvals == 1..MaxApprovals
Unlinked == 0
Closed == {"APPROVED", "REJECTED", "EXPIRED"}
Call(at, p, a, outcome) == [at |-> at, request |-> p, approval |-> a, outcome |-> outcome]
Idle == Call("idle", None, Unlinked, "NONE")
Places == {"idle", "claim", "search", "create", "link", "vote", "record", "cancel", "order", "convert"}

RequestsTypeOK ==
  /\ request \in [Requests -> [status : {"DRAFT", "SUBMITTING", "PENDING_APPROVAL", "APPROVED",
                                         "REJECTED", "CANCELLED", "CONVERTED"},
                               approval : Approvals \cup {Unlinked}, ordered : BOOLEAN]]
  /\ approval \in [Approvals -> [status : {"NONE", "PENDING"} \cup Closed, request : Requests \cup {None},
                                 requester : Users \cup {None}, delegate : Users \cup {None},
                                 step : 1..Steps, late : BOOLEAN, escalated : BOOLEAN]]
  /\ decisions \subseteq [approval : Approvals, step : 1..Steps, user : Users,
                          status : {"APPROVED", "REJECTED"}]
  /\ placed \in [Requests -> Nat]
  /\ call \in [Users -> [at : Places, request : Requests \cup {None}, approval : Approvals \cup {Unlinked},
                         outcome : {"NONE", "APPROVED", "REJECTED", "PENDING_APPROVAL"}]]

NoApproval == [status |-> "NONE", request |-> None, requester |-> None, delegate |-> None,
               step |-> 1, late |-> FALSE, escalated |-> FALSE]

RequestsInit ==
  /\ request = [p \in Requests |-> [status |-> "DRAFT", approval |-> Unlinked, ordered |-> FALSE]]
  /\ approval = [a \in Approvals |-> NoApproval]
  /\ decisions = {}
  /\ placed = [p \in Requests |-> 0]
  /\ call = [u \in Users |-> Idle]

Begin(u, c) ==
  /\ call[u].at = "idle"
  /\ call' = [call EXCEPT ![u] = c]
  /\ UNCHANGED <<request, approval, decisions, placed>>

Goto(u, c) == call' = [call EXCEPT ![u] = c]
Return(u) == Goto(u, Idle)

-----------------------------------------------------------------------------
(* submit *)

\* A request found SUBMITTING is taken up where another call left it.
BeginSubmit(u, p) ==
  \/ request[p].status = "DRAFT" /\ Begin(u, Call("claim", p, Unlinked, "NONE"))
  \/ request[p].status = "SUBMITTING" /\ Begin(u, Call("search", p, Unlinked, "NONE"))

ClaimDraft(u) ==
  LET p == call[u].request
  IN  /\ call[u].at = "claim"
      /\ IF request[p].status = "DRAFT" /\ request[p].approval = Unlinked
           THEN /\ request' = [request EXCEPT ![p].status = "SUBMITTING"]
                /\ Goto(u, Call("search", p, Unlinked, "NONE"))
           ELSE Return(u) /\ UNCHANGED request
      /\ UNCHANGED <<approval, decisions, placed>>

PendingFor(p) == {a \in Approvals : approval[a].request = p /\ approval[a].status = "PENDING"}

\* findFirst PENDING by requestedAt descending.
FindApproval(u) ==
  LET p == call[u].request
  IN  /\ call[u].at = "search"
      /\ \/ /\ PendingFor(p) = {}
            /\ Goto(u, Call("create", p, Unlinked, "NONE"))
         \/ \E a \in PendingFor(p) : /\ \A b \in PendingFor(p) : b <= a
                                     /\ Goto(u, Call("link", p, a, "NONE"))
      /\ UNCHANGED <<request, approval, decisions, placed>>

CreateApprovalRequest(u, a) ==
  LET p == call[u].request
  IN  /\ call[u].at = "create"
      /\ approval[a].status = "NONE" /\ \A b \in Approvals : b < a => approval[b].status # "NONE"
      /\ approval' = [approval EXCEPT ![a] = [status |-> "PENDING", request |-> p, requester |-> u,
                         delegate |-> None, step |-> 1, late |-> FALSE, escalated |-> FALSE]]
      /\ Goto(u, Call("link", p, a, "NONE"))
      /\ UNCHANGED <<request, decisions, placed>>

\* It throws, and the claim is given back.
SubmitFails(u) ==
  LET p == call[u].request
  IN  /\ call[u].at = "create"
      /\ request' = IF request[p].status = "SUBMITTING" /\ request[p].approval = Unlinked
                      THEN [request EXCEPT ![p].status = "DRAFT"] ELSE request
      /\ Return(u)
      /\ UNCHANGED <<approval, decisions, placed>>

\* Whatever has become of the request meanwhile.
LinkApproval(u) ==
  /\ call[u].at = "link"
  /\ request' = [request EXCEPT ![call[u].request] =
                   [@ EXCEPT !.status = "PENDING_APPROVAL", !.approval = call[u].approval]]
  /\ Return(u)
  /\ UNCHANGED <<approval, decisions, placed>>

-----------------------------------------------------------------------------
(* decideApproval, delegateApproval, processApprovalExpiries *)

MayDecide(u, a) ==
  /\ approval[a].status = "PENDING" /\ ~approval[a].late
  /\ approval[a].requester # u
  /\ approval[a].delegate \in {None, u}
  /\ ~\E d \in decisions : d.approval = a /\ d.step = approval[a].step /\ d.user = u

\* Faulty variant: the first approval is taken for the last.
OutcomeEarly(a, verdict) == verdict
Outcome(a, verdict) ==
  IF verdict = "APPROVED" /\ approval[a].step < Steps THEN "PENDING" ELSE verdict

DecideApproval(u, a, verdict) ==
  /\ MayDecide(u, a)
  /\ decisions' = decisions \cup {[approval |-> a, step |-> approval[a].step, user |-> u, status |-> verdict]}
  /\ approval' = [approval EXCEPT ![a] =
                    [status |-> Outcome(a, verdict), request |-> @.request, requester |-> @.requester,
                     delegate |-> None, late |-> FALSE,
                     step |-> IF Outcome(a, verdict) = "PENDING" THEN @.step + 1 ELSE @.step,
                     escalated |-> IF Outcome(a, verdict) = "PENDING" THEN FALSE ELSE @.escalated]]

DelegateApproval(a, target) ==
  /\ approval[a].status = "PENDING" /\ approval[a].requester # target
  /\ approval' = [approval EXCEPT ![a].delegate = target]
  /\ UNCHANGED <<request, decisions, placed, call>>

\* Its expiresAt passes.
ApprovalLapses(a) ==
  /\ approval[a].status = "PENDING" /\ ~approval[a].late
  /\ approval' = [approval EXCEPT ![a].late = TRUE]
  /\ UNCHANGED <<request, decisions, placed, call>>

ExpireApproval(a) ==
  /\ approval[a].status = "PENDING" /\ approval[a].late
  /\ approval' = IF Escalates /\ ~approval[a].escalated
                   THEN [approval EXCEPT ![a].escalated = TRUE, ![a].late = FALSE]
                   ELSE [approval EXCEPT ![a].status = "EXPIRED"]
  /\ UNCHANGED <<request, decisions, placed, call>>

\* The approval's own endpoint: the purchase request does not hear of it.
DecideDirectly(u, a, verdict) ==
  /\ DecideApproval(u, a, verdict)
  /\ UNCHANGED <<request, placed, call>>

-----------------------------------------------------------------------------
(* decide, cancel, convert *)

BeginDecide(u, p) ==
  /\ request[p].status = "PENDING_APPROVAL" /\ request[p].approval # Unlinked
  /\ Begin(u, Call("vote", p, request[p].approval, "NONE"))

Vote(u, verdict) ==
  LET a == call[u].approval
  IN  /\ call[u].at = "vote"
      /\ DecideApproval(u, a, verdict)
      /\ Goto(u, Call("record", call[u].request, a,
                      IF Outcome(a, verdict) = "PENDING" THEN "PENDING_APPROVAL" ELSE verdict))
      /\ UNCHANGED <<request, placed>>

RecordDecision(u) ==
  /\ call[u].at = "record"
  /\ request' = [request EXCEPT ![call[u].request].status = call[u].outcome]
  /\ Return(u)
  /\ UNCHANGED <<approval, decisions, placed>>

BeginCancel(u, p) ==
  /\ request[p].status \in {"DRAFT", "APPROVED"}
  /\ Begin(u, Call("cancel", p, Unlinked, "NONE"))

CancelRequest(u) ==
  /\ call[u].at = "cancel"
  /\ request' = [request EXCEPT ![call[u].request].status = "CANCELLED"]
  /\ Return(u)
  /\ UNCHANGED <<approval, decisions, placed>>

\* A CONVERTED request answers with its order and changes nothing.
BeginConvert(u, p) ==
  /\ request[p].status = "APPROVED"
  /\ Begin(u, Call("order", p, Unlinked, "NONE"))

\* The order is created under the key purchase-request:id.  Faulty variant:
\* without a key.
PlaceOrderUnkeyed(u) ==
  /\ call[u].at = "order"
  /\ placed' = [placed EXCEPT ![call[u].request] = @ + 1]
  /\ Goto(u, Call("convert", call[u].request, Unlinked, "NONE"))
  /\ UNCHANGED <<request, approval, decisions>>

PlaceOrder(u) ==
  /\ call[u].at = "order"
  /\ placed' = [placed EXCEPT ![call[u].request] = IF @ = 0 THEN 1 ELSE @]
  /\ Goto(u, Call("convert", call[u].request, Unlinked, "NONE"))
  /\ UNCHANGED <<request, approval, decisions>>

\* A request put back to APPROVED after its conversion is not claimed again.
ClaimConversion(u) ==
  LET p == call[u].request
  IN  /\ call[u].at = "convert"
      /\ request' = IF request[p].status = "APPROVED" /\ ~request[p].ordered
                      THEN [request EXCEPT ![p].status = "CONVERTED", ![p].ordered = TRUE] ELSE request
      /\ Return(u)
      /\ UNCHANGED <<approval, decisions, placed>>

\* A guard refuses, the connection drops or the process stops.
Abandon(u) ==
  /\ call[u].at # "idle"
  /\ Return(u)
  /\ UNCHANGED <<request, approval, decisions, placed>>

-----------------------------------------------------------------------------
RequestsNext ==
  \/ \E u \in Users :
       \/ ClaimDraft(u) \/ FindApproval(u) \/ SubmitFails(u) \/ LinkApproval(u)
       \/ RecordDecision(u) \/ CancelRequest(u) \/ PlaceOrder(u) \/ ClaimConversion(u) \/ Abandon(u)
       \/ \E p \in Requests : \/ BeginSubmit(u, p) \/ BeginDecide(u, p)
                              \/ BeginCancel(u, p) \/ BeginConvert(u, p)
       \/ \E a \in Approvals : CreateApprovalRequest(u, a) \/ DelegateApproval(a, u)
       \/ \E verdict \in {"APPROVED", "REJECTED"} :
            Vote(u, verdict) \/ \E a \in Approvals : DecideDirectly(u, a, verdict)
  \/ \E a \in Approvals : ApprovalLapses(a) \/ ExpireApproval(a)

RequestsSpec == RequestsInit /\ [][RequestsNext]_requestVars

-----------------------------------------------------------------------------
Yes(a) == {d \in decisions : d.approval = a /\ d.status = "APPROVED"}

(* An approval is what its decisions make it: one for every step passed,   *)
(* none for a step not reached, none by the one who asked, APPROVED with   *)
(* the last step and REJECTED with the first refusal; delegation, expiry,  *)
(* escalation and concurrent votes change nothing of that (decideApproval).*)
DecisionsExplainStatus ==
  \A a \in Approvals :
    /\ \A d, e \in decisions : (d.approval = a /\ e.approval = a /\ d.step = e.step) => d = e
    /\ \A d \in decisions : d.approval = a => d.user # approval[a].requester
    /\ {d.step : d \in Yes(a)} = IF approval[a].status = "APPROVED" THEN 1..Steps
                                 ELSE 1..(approval[a].step - 1)
    /\ (\E d \in decisions : d.approval = a /\ d.status = "REJECTED") <=> approval[a].status = "REJECTED"

(* What was bought had been approved: an order stands only behind a request*)
(* one of whose approvals was decided APPROVED, although the request keeps *)
(* its own copy of the outcome and is written by stale calls (convert).    *)
OrderWasApproved ==
  \A p \in Requests : placed[p] > 0 =>
    \E a \in Approvals : approval[a].request = p /\ approval[a].status = "APPROVED"

(* However often and by whomever a request is converted, also after a stale*)
(* submission or decision has taken CONVERTED back, it is bought once.     *)
OneOrderPerRequest == \A p \in Requests : placed[p] <= 1

(* purchase-requests.service.ts:98: "concurrent submit cannot create two   *)
(* approval requests".                                                     *)
OnePendingApproval == \A p \in Requests : Cardinality(PendingFor(p)) <= 1
=============================================================================
