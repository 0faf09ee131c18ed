-------------------------- MODULE PaymentCallbacks --------------------------
(***************************************************************************)
(* The storefront orders of Orders with the provider's callbacks as they   *)
(* arrive (PaymentsService.providerCallback): an event is looked up,       *)
(* recorded, applied to the payment and marked by statements of their own, *)
(* only the third of which is a serializable transaction.  The provider    *)
(* repeats calls as it likes, several at once, and the process that        *)
(* handles one may die between any two statements.                         *)
(***************************************************************************)
EXTENDS Orders

CONSTANTS
  Events,               \* eventIds of the provider
  About, Says, RefOf,   \* of an event: its order, status and externalRef
  Calls                 \* requests in hand at once

ASSUME CallbacksAssumption ==
  /\ About \in [Events -> Orders] /\ RefOf \in [Events -> Refs]
  /\ Says \in [Events -> {"PAID", "FAILED", "CANCELLED"}]

VARIABLES
  event,    \* status of the PaymentProviderEvent of each eventId
  call,     \* the step and the event of each request
  applied,  \* times each event was applied to its order
  told      \* events the provider was told are accepted

callbackVars == <<event, call, applied, told>>

NoCall == [at |-> "idle", event |-> "none"]

CallbacksTypeOK ==
  /\ event \in [Events -> {"NONE", "RECEIVED", "PROCESSED", "FAILED"}]
  /\ call \in [Calls -> [at : {"create", "confirm", "mark", "fail"}, event : Events] \cup {NoCall}]
  /\ applied \in [Events -> Nat] /\ told \subseteq Events

CallbacksInit ==
  /\ event = [e \in Events |-> "NONE"] /\ applied = [e \in Events |-> 0]
  /\ call = [c \in Calls |-> NoCall] /\ told = {}

GoesTo(c, step) == call' = [call EXCEPT ![c].at = step]
Ends(c) == call' = [call EXCEPT ![c] = NoCall]

\* An event that is on record is accepted as a replay, whatever became of it.
AnswerReplay(e) ==
  /\ event[e] # "NONE"
  /\ told' = told \cup {e}
  /\ UNCHANGED <<vars, event, call, applied>>

BeginCallback(c, e) ==
  /\ call[c] = NoCall /\ event[e] = "NONE"
  /\ call' = [call EXCEPT ![c] = [at |-> "create", event |-> e]]
  /\ UNCHANGED <<vars, event, applied, told>>

\* Faulty variant: the row is written over another request's.
RecordEventTwice(c) ==
  LET e == call[c].event IN
  /\ call[c].at = "create"
  /\ event' = [event EXCEPT ![e] = "RECEIVED"] /\ GoesTo(c, "confirm") /\ UNCHANGED told
  /\ UNCHANGED <<vars, applied>>

\* The unique key lets one request create the row; the other is a replay.
RecordEvent(c) ==
  LET e == call[c].event IN
  /\ call[c].at = "create"
  /\ \/ /\ event[e] = "NONE"
        /\ event' = [event EXCEPT ![e] = "RECEIVED"] /\ GoesTo(c, "confirm") /\ UNCHANGED told
     \/ /\ event[e] # "NONE"
        /\ told' = told \cup {e} /\ Ends(c) /\ UNCHANGED event
  /\ UNCHANGED <<vars, applied>>

\* confirmProviderPayment; a payment that this reference has paid is left alone.
Apply(e) ==
  LET o == About[e] IN
  \/ Says[e] = "PAID" /\ ProviderPaid(o, RefOf[e])
  \/ Says[e] = "PAID" /\ payment[o].method = Electronic
     /\ payment[o].status = "PAID" /\ payment[o].ref = RefOf[e] /\ UNCHANGED vars
  \/ Says[e] # "PAID" /\ ProviderDeclined(o, RefOf[e], Says[e])

ConfirmEvent(c) ==
  LET e == call[c].event IN
  /\ call[c].at = "confirm"
  /\ Apply(e)
  /\ applied' = [applied EXCEPT ![e] = @ + 1]
  /\ GoesTo(c, "mark")
  /\ UNCHANGED <<event, told>>

MarkEvent(c) ==
  LET e == call[c].event IN
  /\ call[c].at = "mark"
  /\ event' = [event EXCEPT ![e] = "PROCESSED"] /\ told' = told \cup {e} /\ Ends(c)
  /\ UNCHANGED <<vars, applied>>

\* confirmProviderPayment refuses, or the database does, there or at the mark.
CallFails(c) ==
  /\ call[c].at \in {"confirm", "mark"}
  /\ GoesTo(c, "fail")
  /\ UNCHANGED <<vars, event, applied, told>>

MarkFailed(c) ==
  LET e == call[c].event IN
  /\ call[c].at = "fail"
  /\ event' = [event EXCEPT ![e] = "FAILED"] /\ Ends(c)
  /\ UNCHANGED <<vars, applied, told>>

CallDies(c) ==
  /\ call[c] # NoCall
  /\ Ends(c)
  /\ UNCHANGED <<vars, event, applied, told>>

\* What Orders does without the provider.
ShopStep(o) ==
  \/ Create(o)
  \/ \E method \in Methods : SelectPayment(o, method)
  \/ \E ref \in Refs : ConfirmPayment(o, ref)
  \/ AuthorizeInvoice(o) \/ ApproveInspection(o) \/ Pack(o) \/ Ship(o) \/ Deliver(o)
  \/ Cancel(o) \/ Lapse(o) \/ Expire(o) \/ SettleReceivable(o)
  \/ \E restock \in BOOLEAN : FullReturn(o, restock)

Shop == (OtherStock \/ \E o \in Orders : ShopStep(o)) /\ UNCHANGED callbackVars

CallbackStep ==
  \/ \E e \in Events : AnswerReplay(e) \/ \E c \in Calls : BeginCallback(c, e)
  \/ \E c \in Calls : \/ RecordEvent(c) \/ ConfirmEvent(c) \/ MarkEvent(c)
                      \/ CallFails(c) \/ MarkFailed(c) \/ CallDies(c)

CallbacksSpec ==
  Init /\ CallbacksInit /\ [][Shop \/ CallbackStep]_<<vars, callbackVars>> /\ Fairness

-----------------------------------------------------------------------------
(* What must hold *)

\* However often and however concurrently the provider calls, one request handles
\* an event and applies it at most once, so that a late repetition cannot undo
\* what the customer chose since; PROCESSED tells the truth.
CallbacksAreTrue ==
  \A e \in Events :
    /\ applied[e] <= 1
    /\ event[e] = "PROCESSED" => applied[e] = 1
    /\ event[e] = "NONE" => applied[e] = 0 /\ e \notin told
    /\ \A c, d \in Calls :
         call[c].event = e /\ call[d].event = e /\ {call[c].at, call[d].at} \subseteq {"confirm", "mark", "fail"}
         => c = d
=============================================================================
