-------------------------- MODULE EmployerAccounts --------------------------
(***************************************************************************)
(* An employer's account page: the account, the budget per employee, and   *)
(* the enrolled employees, in tabs that keep one call under way each.      *)
(* Rows are read and written under forced row-level security: a statement  *)
(* a table has no policy for sees no row.                                  *)
(***************************************************************************)
EXTENDS Integers, FiniteSets

CONSTANTS
  Windows,     \* the employer's tabs
  Budgets,     \* budgets that may be typed, in centimes
  Staff,       \* e-mails that may be enrolled
  MaxEmployees \* bound: rows ever enrolled

ASSUME EmployerAssumption == Budgets \subseteq Nat /\ MaxEmployees \in Nat

VARIABLES
  budget,      \* the account: its budget per employee, or NoAccount
  employees,   \* enrolled_employees of the account: [row, email, active]
  form,        \* each tab: what it shows, and its call
  twoAtOnce,   \* history: e-mails that two calls were enrolling together
  switched     \* history: what the employer last set, for each row

employerVars == <<budget, employees, form, twoAtOnce, switched>>

----------------------------------------------------------------------------
NoAccount == -1
Rows == 1..MaxEmployees

\* The policies of enrolled_employees.
EnrolledPolicies == {"SELECT", "INSERT"}

\* says: nothing yet, saved, or the error of the last call.
View == [budget |-> budget, employees |-> employees]
Shown(view) == [view |-> view, call |-> "none", says |-> ""]

EmployerTypeOK ==
  /\ budget \in Budgets \cup {NoAccount}
  /\ employees \subseteq [row : Rows, email : Staff, active : BOOLEAN]
  /\ \A w \in Windows : form[w].call \in {"none", "create", "enroll"}
  /\ twoAtOnce \subseteq Staff
  /\ switched \in [Rows -> BOOLEAN]

EmployerInit ==
  /\ budget = NoAccount
  /\ employees = {}
  /\ form = [w \in Windows |-> Shown([budget |-> NoAccount, employees |-> {}])]
  /\ twoAtOnce = {}
  /\ switched = [r \in Rows |-> TRUE]

----------------------------------------------------------------------------
Ready(w) == form[w].call = "none"
Reply(w, says) == form' = [form EXCEPT ![w] = [view |-> @.view, call |-> "none", says |-> says]]

\* router.refresh(), or a reload: the server renders the page again.
Refresh(w) ==
  /\ Ready(w)
  /\ form' = [form EXCEPT ![w].view = View]
  /\ UNCHANGED <<budget, employees, twoAtOnce, switched>>

\* CreateForm: the tab shows no account.  createEmployerAccount looks for one.
CreateAccount(w, b) ==
  /\ Ready(w) /\ form[w].view.budget = NoAccount
  /\ IF budget # NoAccount
     THEN Reply(w, "accountExists")
     ELSE form' = [form EXCEPT ![w] = [view |-> @.view, call |-> "create", says |-> "", to |-> b]]
  /\ UNCHANGED <<budget, employees, twoAtOnce, switched>>

\* The insert; the unique user id keeps a second account out, and throws.
CreateAccountInsert(w) ==
  /\ form[w].call = "create"
  /\ budget' = IF budget = NoAccount THEN form[w].to ELSE budget
  /\ Reply(w, IF budget = NoAccount THEN "" ELSE "failed")
  /\ UNCHANGED <<employees, twoAtOnce, switched>>

\* ManageView: the budget of the employer's account is set.
SetBenefitBudget(w, b) ==
  /\ Ready(w) /\ form[w].view.budget # NoAccount
  /\ budget' = b
  /\ Reply(w, "saved")
  /\ UNCHANGED <<employees, twoAtOnce, switched>>

\* A bug: only an active enrolment of the e-mail counts as a duplicate.
EnrollEmployeeAgain(w, email) ==
  /\ Ready(w) /\ form[w].view.budget # NoAccount
  /\ form' = [form EXCEPT ![w] = [view |-> @.view, call |-> "enroll", says |-> "", email |-> email]]
  /\ UNCHANGED <<budget, employees, twoAtOnce, switched>>

\* enrollEmployee looks for the e-mail among the account's employees.
EnrollEmployee(w, email) ==
  /\ Ready(w) /\ form[w].view.budget # NoAccount
  /\ IF \E e \in employees : e.email = email
     THEN Reply(w, "alreadyEnrolled") /\ UNCHANGED twoAtOnce
     ELSE /\ form' = [form EXCEPT ![w] =
               [view |-> @.view, call |-> "enroll", says |-> "", email |-> email]]
          /\ twoAtOnce' = IF \E v \in Windows \ {w} :
                               form[v].call = "enroll" /\ form[v].email = email
                          THEN twoAtOnce \cup {email} ELSE twoAtOnce
  /\ UNCHANGED <<budget, employees, switched>>

\* The insert: no index keeps the e-mail unique.
EnrollEmployeeInsert(w) ==
  /\ form[w].call = "enroll" /\ Cardinality(employees) < MaxEmployees
  /\ employees' = employees \cup
       {[row |-> Cardinality(employees) + 1, email |-> form[w].email, active |-> TRUE]}
  /\ Reply(w, "")
  /\ UNCHANGED <<budget, twoAtOnce, switched>>

\* The rows an UPDATE of enrolled_employees reaches.
Updatable == IF "UPDATE" \in EnrolledPolicies THEN employees ELSE {}

\* toggleActive of a row the tab shows: setEmployeeActive.
SetEmployeeActive(w, e) ==
  /\ Ready(w) /\ e \in form[w].view.employees
  /\ LET reached == {x \in Updatable : x.row = e.row}
     IN  /\ employees' = (employees \ reached) \cup {[x EXCEPT !.active = ~ e.active] : x \in reached}
         /\ Reply(w, IF reached = {} THEN "employeeNotFound" ELSE "")
  /\ switched' = [switched EXCEPT ![e.row] = ~ e.active]
  /\ UNCHANGED <<budget, twoAtOnce>>

CallFails(w) ==
  /\ ~ Ready(w)
  /\ Reply(w, "failed")
  /\ UNCHANGED <<budget, employees, twoAtOnce, switched>>

EmployerNext ==
  \E w \in Windows :
    \/ Refresh(w) \/ CreateAccountInsert(w) \/ EnrollEmployeeInsert(w) \/ CallFails(w)
    \/ \E b \in Budgets : CreateAccount(w, b) \/ SetBenefitBudget(w, b)
    \/ \E email \in Staff : EnrollEmployee(w, email)
    \/ \E e \in form[w].view.employees : SetEmployeeActive(w, e)

EmployerSpec == EmployerInit /\ [][EmployerNext]_employerVars

----------------------------------------------------------------------------
(* Properties.                                                             *)

\* No e-mail is enrolled twice, unless two tabs looked for it together: nothing
\* but that look keeps a second row out.
EnrolledOnceInTurn ==
  \A e, f \in employees : e.email = f.email /\ e.email \notin twoAtOnce => e = f

\* "Deactivate an enrolled employee (kept for audit/history, not deleted)": an
\* employee is as active as the employer last set it.
ActiveAsSet == \A e \in employees : e.active = switched[e.row]

============================================================================
