------------------------------ MODULE Compatibility ------------------------------
(***************************************************************************)
(* The compatibility matrix of a version: rows that one request replaces by  *)
(* its own, in one transaction of a DELETE and an INSERT (setCompatibility,  *)
(* versions.service.ts).  Nothing in the table makes two rows of a version   *)
(* exclude each other.                                                      *)
(*                                                                         *)
(* Postgres at READ COMMITTED is modelled from this use: the DELETE sees     *)
(* what was committed when it began, waits for rows that another has         *)
(* deleted, and passes over those that are gone when it goes on.            *)
(***************************************************************************)
EXTENDS Naturals, FiniteSets

CONSTANTS
    Matrices,       \* the requests; each one's rows bear its name
    FirstMatrix     \* the rows there are at first

ASSUME CompatibilityAssumption == FirstMatrix \notin Matrices

VARIABLES
    matrix,         \* whose rows are committed
    setting,        \* each request's transaction: its step, the rows its DELETE sees
    alone,          \* history: requests that no other has overlapped
    mixed           \* history: the last to commit had been overlapped

matrixVars == <<matrix, setting, alone, mixed>>

NotSetting == [step |-> "idle", sees |-> {}]
InTransaction(m) == setting[m] # NotSetting

MatrixInit ==
    /\ matrix \in {{}, {FirstMatrix}}
    /\ setting = [m \in Matrices |-> NotSetting] /\ alone = {} /\ mixed = FALSE

\* The DELETE begins.
BeginDeleteMany(m) ==
    /\ ~InTransaction(m)
    /\ setting' = [setting EXCEPT ![m] = [step |-> "deleting", sees |-> matrix]]
    /\ alone' = IF \E x \in Matrices : InTransaction(x) THEN {} ELSE {m}
    /\ UNCHANGED <<matrix, mixed>>

\* Rows that another has deleted and not committed yet.
Locked(m) ==
    \E x \in Matrices \ {m} : setting[x].step = "deleted" /\ setting[x].sees \cap setting[m].sees # {}

DeleteMany(m) ==
    /\ setting[m].step = "deleting" /\ ~Locked(m)
    /\ setting' = [setting EXCEPT ![m] = [step |-> "deleted", sees |-> @.sees \cap matrix]]
    /\ UNCHANGED <<matrix, alone, mixed>>

\* Mutant of CreateMany: the rows there are stay.
CreateManyBeside(m, empty) ==
    /\ setting[m].step = "deleted"
    /\ matrix' = matrix \cup (IF empty THEN {} ELSE {m})
    /\ setting' = [setting EXCEPT ![m] = NotSetting]
    /\ mixed' = (m \notin alone)
    /\ UNCHANGED alone

\* createMany of no rows, or of some; the commit.
CreateMany(m, empty) ==
    /\ setting[m].step = "deleted"
    /\ matrix' = (matrix \ setting[m].sees) \cup (IF empty THEN {} ELSE {m})
    /\ setting' = [setting EXCEPT ![m] = NotSetting]
    /\ mixed' = (m \notin alone)
    /\ UNCHANGED alone

RollBack(m) ==
    /\ InTransaction(m) /\ setting' = [setting EXCEPT ![m] = NotSetting]
    /\ UNCHANGED <<matrix, alone, mixed>>

MatrixNext ==
    \E m \in Matrices :
        \/ BeginDeleteMany(m) \/ DeleteMany(m) \/ RollBack(m)
        \/ \E empty \in BOOLEAN : CreateMany(m, empty)

MatrixSpec == MatrixInit /\ [][MatrixNext]_matrixVars

-----------------------------------------------------------------------------
(* Properties.                                                             *)

\* The matrix is the one that a single request has set, unless the last to commit had
\* been overlapped by another: then the rows of both may stand beside each other, until
\* it is set again (VersionsService.setCompatibility).
MatrixExplained == mixed \/ Cardinality(matrix) <= 1
=============================================================================
