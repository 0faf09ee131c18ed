----------------------------- MODULE BackOffice -----------------------------
(***************************************************************************)
(* The administration of a branch: payroll, attendance, fixed assets and   *)
(* the numbering of their documents.  Attendance hands payroll a locked    *)
(* day and each numbers its documents, but no rule of one reads the rows   *)
(* of another, so that each behaviour exercises one of them: part says     *)
(* which.                                                                  *)
(***************************************************************************)
EXTENDS Payroll, Attendance, Assets, DocumentNumbers

VARIABLE part   \* the desk this behaviour is about

officeVars == <<payrollVars, attendanceVars, assetVars, vars, part>>

Desks == {"payroll", "attendance", "assets", "numbers"}

OfficeTypeOK ==
  /\ part \in Desks
  /\ PayrollTypeOK /\ AttendanceTypeOK /\ AssetsTypeOK /\ TypeOK

OfficeInit ==
  /\ part \in Desks
  /\ PayrollInit /\ AttendanceInit /\ AssetsInit /\ Init

PayrollTurn == part = "payroll" /\ PayrollNext /\ UNCHANGED <<attendanceVars, assetVars, vars>>
AttendanceTurn == part = "attendance" /\ AttendanceNext /\ UNCHANGED <<payrollVars, assetVars, vars>>
AssetsTurn == part = "assets" /\ AssetsNext /\ UNCHANGED <<payrollVars, attendanceVars, vars>>
NumbersTurn == part = "numbers" /\ Next /\ UNCHANGED <<payrollVars, attendanceVars, assetVars>>

OfficeNext == (PayrollTurn \/ AttendanceTurn \/ AssetsTurn \/ NumbersTurn) /\ UNCHANGED part

OfficeSpec == OfficeInit /\ [][OfficeNext]_officeVars
=============================================================================
