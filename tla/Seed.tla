-------------------------------- MODULE Seed --------------------------------
(***************************************************************************)
(* The demo seed: a script of single statements on the privileged          *)
(* connection, with no transaction around them.  Users, profiles, slots    *)
(* and enrolments are keyed by their owner; bookings, documents and        *)
(* reviews are sections, skipped when their table holds any row.  The      *)
(* script may stop after any statement and be run again.                   *)
(***************************************************************************)
EXTENDS Levels, SequencesExt

CONSTANT MaxRuns  \* bound: times the script is started

ASSUME SeedAssumption == MaxRuns \in Nat

VARIABLES
  rowCount,    \* how many times each statement of the script has inserted
  budgetUsed,  \* total_budget_used of the employer with a subsidised booking
  at,          \* the statement the running script executes next; 0: not running
  runs,        \* how often the script was started
  wentThrough, \* history: has a run ended with none stopped before?
  stopped      \* history: has a run stopped half-way?

seedVars == <<rowCount, budgetUsed, at, runs, wentThrough, stopped>>

----------------------------------------------------------------------------
(* The demo data, as far as the properties tell it apart.                  *)

CaregiverUsers ==
  <<"fatima", "khadija", "amina", "naima", "samira", "zahra", "malika", "hafida">>
FamilyUsers   == <<"sara", "leila", "nadia", "houda">>
EmployerUsers == <<"demo-corp", "demo-bank">>

\* caregiverProfilesByEmail: the level each profile claims.
ClaimedLevel ==
  [fatima |-> "certified", khadija |-> "certified", amina |-> "cin_verified",
   naima |-> "cin_verified", samira |-> "cin_verified", zahra |-> "id_checked",
   malika |-> "id_checked", hafida |-> "unverified"]

\* availabilityByEmail: who has a weekly calendar.
WithCalendar == {"fatima", "khadija"}

\* The bookings, all Sara's with Fatima, with the escrow of each.
Plans ==
  << [status |-> "completed",   escrow |-> "released",   subsidy |-> 0],
     [status |-> "completed",   escrow |-> "released",   subsidy |-> 17920],
     [status |-> "disputed",    escrow |-> "disputed",   subsidy |-> 0],
     [status |-> "in_progress", escrow |-> "captured",   subsidy |-> 0],
     [status |-> "confirmed",   escrow |-> "authorized", subsidy |-> 0],
     [status |-> "requested",   escrow |-> "none",       subsidy |-> 0] >>

Doc(type, status) == [type |-> type, status |-> status]

DocsForLevel(level) ==
  CASE level = "certified" ->
         <<Doc("cin", "approved"), Doc("police_clearance", "approved"),
           Doc("health_cert", "approved"), Doc("reference", "approved")>>
    [] level = "background_cleared" ->
         <<Doc("cin", "approved"), Doc("police_clearance", "approved")>>
    [] level = "cin_verified" -> <<Doc("cin", "approved")>>
    [] level = "id_checked"   -> <<Doc("cin", "pending")>>
    [] level = "unverified"   -> <<>>

----------------------------------------------------------------------------
(* The script.                                                             *)

Keyed(row, of) == [do |-> "keyed", row |-> row, of |-> of]
Insert(row, of) == [do |-> "insert", row |-> row, of |-> of]
Unless(row) == [do |-> "unless", row |-> row]

SeedCaregiver(u) ==
  <<Keyed("user", u), Keyed("profile", u)>>
    \o (IF u \in WithCalendar THEN <<Keyed("slots", u)>> ELSE <<>>)
SeedFamily(u)   == <<Keyed("user", u), Keyed("profile", u)>>
SeedEmployer(u) == <<Keyed("user", u), Keyed("account", u), Keyed("employees", u)>>

SeedBooking(i) ==
  <<Insert("booking", i)>>
    \o (IF Plans[i].escrow # "none" THEN <<Insert("escrow", i)>> ELSE <<>>)
    \o (IF Plans[i].subsidy > 0 THEN <<[do |-> "budget", of |-> i]>> ELSE <<>>)

SeedDocuments(u) ==
  LET docs == DocsForLevel(ClaimedLevel[u])
  IN  [i \in 1..Len(docs) |-> [do |-> "insert", row |-> "document", of |-> u, doc |-> docs[i]]]

SeedReviews(i) == <<[do |-> "reviews", of |-> i]>>

Script ==
  FlattenSeq([i \in 1..Len(CaregiverUsers) |-> SeedCaregiver(CaregiverUsers[i])])
    \o FlattenSeq([i \in 1..Len(FamilyUsers) |-> SeedFamily(FamilyUsers[i])])
    \o FlattenSeq([i \in 1..Len(EmployerUsers) |-> SeedEmployer(EmployerUsers[i])])
    \o <<Unless("booking")>> \o FlattenSeq([i \in 1..Len(Plans) |-> SeedBooking(i)])
    \o <<Unless("document")>>
    \o FlattenSeq([i \in 1..Len(CaregiverUsers) |-> SeedDocuments(CaregiverUsers[i])])
    \o <<Unless("reviews")>> \o FlattenSeq([i \in 1..Len(Plans) |-> SeedReviews(i)])
    \o <<Insert("notification", "sara")>>

Lines == 1..Len(Script)
End == Len(Script) + 1

\* The lines whose row, or section, is of this kind.
LinesOf(row) ==
  {k \in Lines : \/ Script[k].do \in {"insert", "keyed"} /\ Script[k].row = row
                 \/ Script[k].do = row}

RowsOf(row) == {k \in LinesOf(row) : rowCount[k] > 0}

\* Where the script goes on when the section opened at k is skipped.
AfterSection(k) ==
  LET guards == {j \in (k + 1)..Len(Script) : Script[j].do = "unless"}
  IN  IF guards = {} THEN End ELSE CHOOSE j \in guards : \A i \in guards : j <= i

SeedTypeOK ==
  /\ rowCount \in [Lines -> 0..MaxRuns]
  /\ budgetUsed \in Nat
  /\ at \in 0..End
  /\ runs \in 0..MaxRuns
  /\ wentThrough \in BOOLEAN /\ stopped \in BOOLEAN

SeedInit ==
  /\ rowCount = [k \in Lines |-> 0]
  /\ budgetUsed = 0
  /\ at = 0
  /\ runs = 0
  /\ wentThrough = FALSE /\ stopped = FALSE

----------------------------------------------------------------------------
Does(what) == at \in Lines /\ Script[at].do = what

SeedStarts ==
  /\ at = 0 /\ runs < MaxRuns
  /\ at' = 1
  /\ runs' = runs + 1
  /\ UNCHANGED <<rowCount, budgetUsed, wentThrough, stopped>>

\* onConflictDoNothing, or inserted only when the owner has none.
InsertKeyed ==
  /\ Does("keyed")
  /\ rowCount' = [rowCount EXCEPT ![at] = IF @ = 0 THEN 1 ELSE @]
  /\ at' = at + 1
  /\ UNCHANGED <<budgetUsed, runs, wentThrough, stopped>>

\* A bug: the existence check is dropped.
EnterSectionAlways ==
  /\ Does("unless")
  /\ at' = at + 1
  /\ UNCHANGED <<rowCount, budgetUsed, runs, wentThrough, stopped>>

\* A bug: every section looks for bookings, copied from the first.
EnterSectionBookings ==
  /\ Does("unless")
  /\ at' = IF RowsOf("booking") = {} THEN at + 1 ELSE AfterSection(at)
  /\ UNCHANGED <<rowCount, budgetUsed, runs, wentThrough, stopped>>

\* "if (existing.length > 0) return".
EnterSection ==
  /\ Does("unless")
  /\ at' = IF RowsOf(Script[at].row) = {} THEN at + 1 ELSE AfterSection(at)
  /\ UNCHANGED <<rowCount, budgetUsed, runs, wentThrough, stopped>>

InsertRow ==
  /\ Does("insert")
  /\ rowCount' = [rowCount EXCEPT ![at] = @ + 1]
  /\ at' = at + 1
  /\ UNCHANGED <<budgetUsed, runs, wentThrough, stopped>>

\* Both reviews of a booking, in one insert, for the completed ones there are.
InsertReviews ==
  /\ Does("reviews")
  /\ LET i == Script[at].of
         found == Plans[i].status = "completed" /\ \E k \in RowsOf("booking") : Script[k].of = i
     IN  rowCount' = [rowCount EXCEPT ![at] = IF found THEN @ + 1 ELSE @]
  /\ at' = at + 1
  /\ UNCHANGED <<budgetUsed, runs, wentThrough, stopped>>

\* The running total is set, not added to.
SetBudget ==
  /\ Does("budget")
  /\ budgetUsed' = Plans[Script[at].of].subsidy
  /\ at' = at + 1
  /\ UNCHANGED <<rowCount, runs, wentThrough, stopped>>

SeedEnds ==
  /\ at = End
  /\ at' = 0
  /\ wentThrough' = (wentThrough \/ ~ stopped)
  /\ UNCHANGED <<rowCount, budgetUsed, runs, stopped>>

SeedStops ==
  /\ at > 0
  /\ at' = 0
  /\ stopped' = TRUE
  /\ UNCHANGED <<rowCount, budgetUsed, runs, wentThrough>>

SeedNext ==
  \/ SeedStarts \/ InsertKeyed \/ EnterSection \/ InsertRow \/ InsertReviews
  \/ SetBudget \/ SeedEnds \/ SeedStops

SeedSpec == SeedInit /\ [][SeedNext]_seedVars

----------------------------------------------------------------------------
(* Properties.                                                             *)

\* "Re-running is safe": however often the script is stopped and started again,
\* no statement has inserted its rows twice; the greeting to Sara, which has no
\* key of its own, included.
NoRowTwice == \A k \in Lines : rowCount[k] <= 1

SeededDocs(u) == {Script[k].doc : k \in {j \in RowsOf("document") : Script[j].of = u}}

\* What a run leaves that no earlier one was stopped before: documents
\* "CONSISTENT with each caregiver's hardcoded verificationLevel", an escrow with
\* every booking past its request, and an employer's total equal to the subsidies.
\* Every run that ends, whatever was stopped before, leaves all keyed rows.
Seeded ==
  /\ at = End => \A k \in Lines : Script[k].do = "keyed" => rowCount[k] = 1
  /\ wentThrough =>
       /\ \A i \in 1..Len(CaregiverUsers) : LET u == CaregiverUsers[i] IN
            ComputeLevel(SeededDocs(u)) = ClaimedLevel[u]
       /\ \A i \in 1..Len(Plans) :
            /\ Plans[i].status # "requested" => \E k \in RowsOf("escrow") : Script[k].of = i
            /\ Plans[i].subsidy > 0 => budgetUsed = Plans[i].subsidy

============================================================================
