----------------------------- MODULE StockLedger -----------------------------
(***************************************************************************)
(* What the warehouse promises about one product, without locations,       *)
(* conditions or reservation rows: units on hand, units each source holds, *)
(* units set aside as unsellable.  Only free units are promised or issued. *)
(***************************************************************************)
EXTENDS Integers, Functions

CONSTANTS Sources, Need

VARIABLES onHand, held, setAside

ledger == <<onHand, held, setAside>>

Unheld == onHand - SumFunction(held) - setAside

Hold(src) ==
  /\ held[src] = 0 /\ held' = [held EXCEPT ![src] = Need[src]]
  /\ UNCHANGED <<onHand, setAside>>
  /\ Unheld >= Need[src]

Drop(src) ==
  /\ held[src] > 0
  /\ held' = [held EXCEPT ![src] = 0]
  /\ UNCHANGED <<onHand, setAside>>

Fulfil(src) ==
  /\ held[src] > 0
  /\ onHand' = onHand - held[src]
  /\ held' = [held EXCEPT ![src] = 0]
  /\ UNCHANGED setAside

Receive == onHand' > onHand /\ UNCHANGED <<held, setAside>>

Issue ==
  /\ onHand' < onHand /\ onHand - onHand' <= Unheld
  /\ UNCHANGED <<held, setAside>>

SetAside ==
  /\ setAside' > setAside /\ setAside' - setAside <= Unheld
  /\ UNCHANGED <<onHand, held>>

PutBack ==
  /\ setAside' < setAside /\ setAside' \in Nat
  /\ UNCHANGED <<onHand, held>>

LedgerInit == held \in [Sources -> Nat] /\ setAside = 0 /\ onHand \in Nat /\ Unheld >= 0

LedgerNext ==
  \/ \E src \in Sources : Hold(src) \/ Drop(src) \/ Fulfil(src)
  \/ Receive \/ Issue \/ SetAside \/ PutBack

LedgerSpec == LedgerInit /\ [][LedgerNext]_ledger
=============================================================================
