---------------------------- MODULE SellingUnits ----------------------------
(***************************************************************************)
(* One product sold by the piece and in packages: its base unit, its       *)
(* ProductUnits with their factors, the barcodes that copy a unit's code    *)
(* and factor (MasterDataService), the one resolver by which till and       *)
(* storefront convert an order line into pieces (transaction-uom.ts), and   *)
(* the returns of such lines (ReturnsService).  Selling and returning are   *)
(* serializable; master data is edited by requests that read the rows       *)
(* first and write them later, in a transaction that sees whatever was      *)
(* committed meanwhile.  Variants, prices and the product's own barcode are  *)
(* left out; a return is of one line, and REQUESTED while it is inspected.  *)
(***************************************************************************)
EXTENDS Naturals, FiniteSets, Functions

CONSTANTS
  UnitIds,     \* ProductUnit identities
  Barcodes,    \* ProductBarcode identities
  Codes,       \* unit codes
  Pieces,      \* the code of the product's first base unit
  Factors,     \* pieces of a package
  Clerks,      \* requests to edit master data that may overlap
  Lines,       \* order lines
  Amounts,     \* how many units a line may ask for
  UnitReturns, \* OrderReturn identities
  Stock,       \* pieces on the shelf in the beginning
  MaxEdits,    \* bound on edits of the master data
  NoUnit

ASSUME SellingUnitsAssumption ==
  /\ Pieces \in Codes /\ NoUnit \notin UnitIds
  /\ IsFiniteSet(Lines) /\ Lines # {} /\ IsFiniteSet(UnitReturns)
  /\ Factors \subseteq Nat \ {0} /\ Amounts \subseteq Nat \ {0} /\ Stock \in Nat /\ MaxEdits \in Nat

VARIABLES
  baseUnit,   \* Product.unit
  unit,       \* the ProductUnit rows
  barcode,    \* the ProductBarcode rows
  clerk,      \* what each editing request has read
  outdated,   \* barcodes last written by a request that had read other rows
  line,       \* order lines with the snapshot of their conversion
  unitReturn, \* OrderReturn rows
  shelf,      \* pieces on the shelf
  edits       \* edits made so far

masterVars == <<baseUnit, unit, barcode, clerk, outdated, edits>>
tradeVars == <<line, unitReturn, shelf>>
sellingVars == <<masterVars, tradeVars>>

AnyFactor == Factors \cup {1}
NoEdit == [barcode |-> NoUnit, exists |-> FALSE, unit |-> NoUnit, relink |-> FALSE, code |-> Pieces, factor |-> 1]

SellingTypeOK ==
  /\ baseUnit \in Codes
  /\ unit \in [UnitIds -> [status : {"NONE", "ACTIVE", "INACTIVE"}, code : Codes, factor : AnyFactor]]
  /\ barcode \in [Barcodes -> [exists : BOOLEAN, unit : UnitIds \cup {NoUnit}, code : Codes, factor : AnyFactor]]
  /\ clerk \in [Clerks -> [barcode : Barcodes \cup {NoUnit}, exists : BOOLEAN, unit : UnitIds \cup {NoUnit},
                           relink : BOOLEAN, code : Codes, factor : AnyFactor]]
  /\ outdated \subseteq Barcodes
  /\ line \in [Lines -> [units : Nat, factor : AnyFactor, unit : UnitIds \cup {NoUnit}, pieces : Nat]]
  /\ unitReturn \in [UnitReturns -> [status : {"NONE", "REQUESTED", "REJECTED", "COMPLETED"},
                                     line : Lines, units : Nat, pieces : Nat, good : BOOLEAN]]
  /\ shelf \in Nat /\ edits \in 0..MaxEdits

SellingInit ==
  /\ baseUnit = Pieces
  /\ unit = [u \in UnitIds |-> [status |-> "NONE", code |-> Pieces, factor |-> 1]]
  /\ barcode = [b \in Barcodes |-> [exists |-> FALSE, unit |-> NoUnit, code |-> Pieces, factor |-> 1]]
  /\ clerk = [c \in Clerks |-> NoEdit] /\ outdated = {}
  /\ line = [l \in Lines |-> [units |-> 0, factor |-> 1, unit |-> NoUnit, pieces |-> 0]]
  /\ unitReturn = [r \in UnitReturns |-> [status |-> "NONE", line |-> CHOOSE l \in Lines : TRUE,
                                          units |-> 0, pieces |-> 0, good |-> FALSE]]
  /\ shelf = Stock /\ edits = 0

-----------------------------------------------------------------------------
(* Master data *)

Edit == edits < MaxEdits /\ edits' = edits + 1

\* ProductsService.update does not look at the units.
ChangeBaseUnit(code) ==
  /\ Edit /\ code # baseUnit
  /\ baseUnit' = code
  /\ UNCHANGED <<unit, barcode, clerk, outdated, tradeVars>>

\* validateSellingUnit, and the unique index over the codes.
FreeCode(u, code) == code # baseUnit /\ \A v \in UnitIds \ {u} : unit[v].status # "NONE" => unit[v].code # code

CreateUnit(u, code, factor) ==
  /\ Edit /\ unit[u].status = "NONE" /\ FreeCode(u, code)
  /\ unit' = [unit EXCEPT ![u] = [status |-> "ACTIVE", code |-> code, factor |-> factor]]
  /\ UNCHANGED <<baseUnit, barcode, clerk, outdated, tradeVars>>

\* An edit of an active unit reaches all the barcodes that are linked to it.
StillOutdated(u) == {b \in outdated : barcode[b].unit # u \/ unit[u].status # "ACTIVE"}

\* Faulty variant: the barcodes linked to the unit are forgotten.
UpdateUnitAlone(u, code, factor) ==
  /\ Edit /\ unit[u].status # "NONE" /\ FreeCode(u, code)
  /\ unit' = [unit EXCEPT ![u].code = code, ![u].factor = factor]
  /\ outdated' = StillOutdated(u)
  /\ UNCHANGED <<baseUnit, barcode, clerk, tradeVars>>

\* updateUnit with another code or factor: the copies in its barcodes follow, also
\* those that were outdated.
UpdateUnit(u, code, factor) ==
  /\ Edit /\ unit[u].status # "NONE" /\ FreeCode(u, code)
  /\ unit' = [unit EXCEPT ![u].code = code, ![u].factor = factor]
  /\ barcode' = [b \in Barcodes |-> IF barcode[b].unit = u THEN [barcode[b] EXCEPT !.code = code, !.factor = factor]
                                    ELSE barcode[b]]
  /\ outdated' = StillOutdated(u)
  /\ UNCHANGED <<baseUnit, clerk, tradeVars>>

ReactivateUnit(u) ==
  /\ Edit /\ unit[u].status = "INACTIVE" /\ FreeCode(u, unit[u].code)
  /\ unit' = [unit EXCEPT ![u].status = "ACTIVE"]
  /\ UNCHANGED <<baseUnit, barcode, clerk, outdated, tradeVars>>

\* updateUnit with isActive false looks for barcodes that depend on the unit; one
\* written between that look and the update is one written after it.
DeactivateUnit(u) ==
  /\ Edit /\ unit[u].status = "ACTIVE" /\ FreeCode(u, unit[u].code)
  /\ \A b \in Barcodes : barcode[b].unit # u
  /\ unit' = [unit EXCEPT ![u].status = "INACTIVE"]
  /\ UNCHANGED <<baseUnit, barcode, clerk, outdated, tradeVars>>

\* createBarcode and updateBarcode read the unit they copy, or take a code and
\* factor of the barcode's own.  An update that names no unit keeps the one it
\* read, and does not write it.
Copied(u, code, factor) ==
  IF u = NoUnit THEN factor > 1 => code # baseUnit
  ELSE unit[u].status = "ACTIVE" /\ code = unit[u].code /\ factor = unit[u].factor

AskBarcode(c, b, relink, u, code, factor) ==
  /\ relink \/ (barcode[b].exists /\ u = barcode[b].unit)
  /\ Copied(u, code, factor)
  /\ clerk[c].barcode = NoUnit
  /\ clerk' = [clerk EXCEPT ![c] = [barcode |-> b, exists |-> barcode[b].exists, unit |-> u, relink |-> relink,
                                    code |-> code, factor |-> factor]]
  /\ UNCHANGED <<baseUnit, unit, barcode, outdated, edits, tradeVars>>

\* The rows a request has read are the rows that are there when it writes.
AsRead(c) ==
  /\ clerk[c].relink \/ barcode[clerk[c].barcode].unit = clerk[c].unit
  /\ clerk[c].unit # NoUnit => unit[clerk[c].unit] = [status |-> "ACTIVE", code |-> clerk[c].code, factor |-> clerk[c].factor]

\* A new code that somebody else registered meanwhile is refused.
WriteBarcode(c) ==
  LET b == clerk[c].barcode IN
  /\ Edit /\ b # NoUnit /\ barcode[b].exists = clerk[c].exists
  /\ barcode' = [barcode EXCEPT ![b] = [exists |-> TRUE, code |-> clerk[c].code, factor |-> clerk[c].factor,
                                        unit |-> IF clerk[c].relink THEN clerk[c].unit ELSE @.unit]]
  /\ clerk' = [clerk EXCEPT ![c] = NoEdit]
  /\ outdated' = IF AsRead(c) THEN outdated \ {b} ELSE outdated \cup {b}
  /\ UNCHANGED <<baseUnit, unit, tradeVars>>

-----------------------------------------------------------------------------
(* Selling: resolveSellingUnitLine *)

\* An active unit converts by its own code and factor.
InUnit(u) == IF unit[u].status = "ACTIVE" THEN {[unit |-> u, code |-> unit[u].code, factor |-> unit[u].factor]} ELSE {}

\* What is asked for: a unit, a barcode, both or neither.
Asks == [unit : UnitIds \cup {NoUnit}, barcode : Barcodes \cup {NoUnit}]

\* A barcode stands for its unit, or else for the code and factor it carries; the
\* unit that was asked for beside it stays on the line.
Scanned(u, b) ==
  CASE barcode[b].unit = NoUnit -> {[unit |-> u, code |-> barcode[b].code, factor |-> barcode[b].factor]}
    [] barcode[b].unit # NoUnit /\ u \in {NoUnit, barcode[b].unit} -> InUnit(barcode[b].unit)
    [] OTHER -> {}

\* The line is refused for a unit or a barcode that cannot be sold ...
Sellable(ask) == /\ ask.unit # NoUnit => unit[ask.unit].status = "ACTIVE"
                 /\ ask.barcode # NoUnit => barcode[ask.barcode].exists

\* ... or for a conversion that would count several pieces as the base unit.
Conversion(ask) ==
  IF ~Sellable(ask) THEN {}
  ELSE {conversion \in CASE ask.barcode # NoUnit -> Scanned(ask.unit, ask.barcode)
                          [] ask.barcode = NoUnit /\ ask.unit # NoUnit -> InUnit(ask.unit)
                          [] OTHER -> {[unit |-> NoUnit, code |-> baseUnit, factor |-> 1]} :
          conversion.factor > 1 => conversion.code # baseUnit}

\* The line keeps its conversion.
SellLine(l, ask, units) ==
  \E conversion \in Conversion(ask) :
    /\ line[l].units = 0 /\ units * conversion.factor <= shelf
    /\ line' = [line EXCEPT ![l] = [units |-> units, factor |-> conversion.factor, unit |-> conversion.unit,
                                    pieces |-> units * conversion.factor]]
    /\ shelf' = shelf - units * conversion.factor
    /\ UNCHANGED <<masterVars, unitReturn>>

-----------------------------------------------------------------------------
(* Returning: createCustomerOrderReturn, rejectOrderReturn, confirmOrderReturn *)

Claimed(l) == {r \in UnitReturns : unitReturn[r].line = l /\ unitReturn[r].status \in {"REQUESTED", "COMPLETED"}}
PiecesOf(rs) == SumFunctionOnSet([r \in UnitReturns |-> unitReturn[r].pieces], rs)
UnitsOf(rs) == SumFunctionOnSet([r \in UnitReturns |-> unitReturn[r].units], rs)

\* Faulty variant: converted by the unit as it is today.
InPiecesNow(l, units) == units * (IF line[l].unit = NoUnit THEN line[l].factor ELSE unit[line[l].unit].factor)
InPieces(l, units) == units * line[l].factor

AskReturn(r, l, units) ==
  /\ unitReturn[r].status = "NONE" /\ units <= line[l].units
  /\ PiecesOf(Claimed(l)) + InPieces(l, units) <= line[l].pieces
  /\ unitReturn' = [unitReturn EXCEPT ![r] = [status |-> "REQUESTED", line |-> l, units |-> units,
                                              pieces |-> InPieces(l, units), good |-> FALSE]]
  /\ UNCHANGED <<masterVars, line, shelf>>

RejectReturn(r) ==
  /\ unitReturn[r].status = "REQUESTED"
  /\ unitReturn' = [unitReturn EXCEPT ![r].status = "REJECTED"]
  /\ UNCHANGED <<masterVars, line, shelf>>

\* Its inspection says whether the pieces go back on the shelf.
ConfirmReturn(r, good) ==
  /\ unitReturn[r].status = "REQUESTED"
  /\ unitReturn' = [unitReturn EXCEPT ![r].status = "COMPLETED", ![r].good = good]
  /\ shelf' = IF good THEN shelf + unitReturn[r].pieces ELSE shelf
  /\ UNCHANGED <<masterVars, line>>

-----------------------------------------------------------------------------
EditMasterData ==
  \/ \E code \in Codes : ChangeBaseUnit(code)
  \/ \E u \in UnitIds, code \in Codes, factor \in Factors : CreateUnit(u, code, factor) \/ UpdateUnit(u, code, factor)
  \/ \E u \in UnitIds : DeactivateUnit(u) \/ ReactivateUnit(u)
  \/ \E c \in Clerks : \/ WriteBarcode(c)
                       \/ \E b \in Barcodes, relink \in BOOLEAN, u \in UnitIds \cup {NoUnit},
                             code \in Codes, factor \in AnyFactor : AskBarcode(c, b, relink, u, code, factor)

Trade ==
  \/ \E l \in Lines, ask \in Asks : \E units \in Amounts : SellLine(l, ask, units)
  \/ \E r \in UnitReturns : \/ \E l \in Lines : \E units \in 1..line[l].units : AskReturn(r, l, units)
                            \/ RejectReturn(r)
                            \/ \E good \in BOOLEAN : ConfirmReturn(r, good)

SellingNext == EditMasterData \/ Trade

SellingSpec == SellingInit /\ [][SellingNext]_sellingVars

-----------------------------------------------------------------------------
(* A barcode that is linked to a unit carries the unit's code and factor, and *)
(* the unit is active, through edits, relinking, deactivation and            *)
(* reactivation in any order, unless the request that wrote the barcode last  *)
(* had read a unit or a link that was changed before it wrote; the next edit  *)
(* of the active unit puts that right too (updateUnit, createBarcode and      *)
(* updateBarcode, master-data.service.ts:416-431).                            *)
CopiesFollowTheirUnits ==
  \A b \in Barcodes \ outdated :
    barcode[b].unit # NoUnit =>
      unit[barcode[b].unit] = [status |-> "ACTIVE", code |-> barcode[b].code, factor |-> barcode[b].factor]

(* A return counts in the units of its line: giving back some of them brings   *)
(* back their share of its pieces, all of them all, however the unit was edited *)
(* in between; and the shelf has the pieces that were not sold or came back     *)
(* good (docs/F11-UOM-TRANSACTION-COMPLETION.md:9, :32).                        *)
HistoryKeepsItsUnits ==
  /\ \A l \in Lines : LET units == UnitsOf(Claimed(l))
                     IN  units <= line[l].units /\ units * line[l].pieces = PiecesOf(Claimed(l)) * line[l].units
  /\ shelf + SumFunction([l \in Lines |-> line[l].pieces])
       = Stock + PiecesOf({r \in UnitReturns : unitReturn[r].status = "COMPLETED" /\ unitReturn[r].good})
=============================================================================
