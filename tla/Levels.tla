------------------------------- MODULE Levels -------------------------------
(***************************************************************************)
(* The trust ladder: a caregiver's verification level as a function of its *)
(* documents, each [type, status].                                         *)
(***************************************************************************)
EXTENDS Integers, Sequences

DocumentTypes == {"cin", "health_cert", "police_clearance", "reference", "certificate"}
DocumentStatuses == {"pending", "approved", "rejected"}

Ladder == <<"unverified", "id_checked", "cin_verified", "background_cleared", "certified">>
Levels == {Ladder[i] : i \in 1..5}
LevelRank(level) == CHOOSE i \in 1..5 : Ladder[i] = level

Approved(docs, type) == [type |-> type, status |-> "approved"] \in docs
PendingCin(docs) == [type |-> "cin", status |-> "pending"] \in docs

\* A bug: a police clearance counts without an approved identity card.
ComputeLevelLoose(docs) ==
  IF Approved(docs, "police_clearance") THEN "background_cleared"
  ELSE IF Approved(docs, "cin") THEN "cin_verified" ELSE "unverified"

ComputeLevel(docs) ==
  IF ~ Approved(docs, "cin") THEN IF PendingCin(docs) THEN "id_checked" ELSE "unverified"
  ELSE IF ~ Approved(docs, "police_clearance") THEN "cin_verified"
  ELSE IF ~ (Approved(docs, "health_cert") /\ Approved(docs, "reference"))
       THEN "background_cleared"
  ELSE "certified"

\* What each rung asks for, the rungs below included: the ladder as the
\* documentation states it.
Asked(level) ==
  CASE level \in {"unverified", "id_checked"} -> {}
    [] level = "cin_verified"                 -> {"cin"}
    [] level = "background_cleared"           -> {"cin", "police_clearance"}
    [] level = "certified"                    -> {"cin", "police_clearance", "health_cert",
                                                  "reference"}

============================================================================
