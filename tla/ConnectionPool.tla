--------------------------- MODULE ConnectionPool ---------------------------
(***************************************************************************)
(* The application's pool of database connections.                         *)
(*                                                                         *)
(* A transaction takes one connection and gives it back when it ends; when *)
(* none is free it waits in line.  Most actions commit first and notify    *)
(* the other party in a transaction of its own afterwards.  resolveDispute *)
(* calls notifyUser inside its open transaction: it waits for a second     *)
(* connection while it holds the first.                                    *)
(***************************************************************************)
EXTENDS Integers, Sequences, FiniteSets

CONSTANTS
  PoolSize,   \* connections: postgres(appUrl, { max })
  Ordinary,   \* actions that notify after their commit
  Resolving   \* resolutions of disputes in favour of the caregiver

ASSUME PoolAssumption == PoolSize \in Nat \ {0} /\ Ordinary \cap Resolving = {}

VARIABLES
  stage,   \* where each action stands
  queue     \* the actions waiting for a connection, first come first served

poolVars == <<stage, queue>>

----------------------------------------------------------------------------
Clients == Ordinary \cup Resolving

\* first, second: in line with no connection; own: in the transaction; between:
\* committed, about to notify; notice: in notifyUser's transaction; inside, inner:
\* in line for it, and in it, with the own transaction still open.
Stages == {"rest", "first", "own", "between", "second", "notice", "inside", "inner"}

PoolTypeOK == stage \in [Clients -> Stages] /\ queue \in Seq(Clients)

PoolInit == stage = [c \in Clients |-> "rest"] /\ queue = <<>>

\* How many connections c holds.
Holds(c) ==
  CASE stage[c] \in {"own", "notice", "inside"} -> 1
    [] stage[c] = "inner" -> 2
    [] OTHER -> 0

InUse == Cardinality({c \in Clients : Holds(c) >= 1}) + Cardinality({c \in Clients : Holds(c) = 2})

----------------------------------------------------------------------------
\* withUserContext: ask for a connection.
Begin(c) ==
  /\ stage[c] = "rest"
  /\ stage' = [stage EXCEPT ![c] = "first"]
  /\ queue' = Append(queue, c)

\* A free connection goes to the first in line.
Grant ==
  /\ queue # <<>> /\ InUse < PoolSize
  /\ LET c == Head(queue)
     IN  stage' = [stage EXCEPT ![c] =
           CASE @ = "first" -> "own" [] @ = "second" -> "notice" [] @ = "inside" -> "inner"]
  /\ queue' = Tail(queue)

\* A bug: every action notifies inside its transaction.
CommitFirstNested(c) ==
  /\ stage[c] = "own"
  /\ stage' = [stage EXCEPT ![c] = "inside"]
  /\ queue' = Append(queue, c)

\* The transaction commits and its connection is free again.
CommitFirst(c) ==
  /\ c \in Ordinary /\ stage[c] = "own"
  /\ stage' = [stage EXCEPT ![c] = "between"]
  /\ UNCHANGED queue

\* onBookingRequested and its like run after the commit.
NotifyAfter(c) ==
  /\ stage[c] = "between"
  /\ stage' = [stage EXCEPT ![c] = "second"]
  /\ queue' = Append(queue, c)

\* resolveDispute: the second connection is asked for with the first in hand.
NotifyInside(c) ==
  /\ c \in Resolving /\ stage[c] = "own"
  /\ stage' = [stage EXCEPT ![c] = "inside"]
  /\ queue' = Append(queue, c)

\* The notification is committed; a resolution then commits too.
Answer(c) ==
  /\ stage[c] \in {"notice", "inner"}
  /\ stage' = [stage EXCEPT ![c] = "rest"]
  /\ UNCHANGED queue

PoolNext ==
  \/ Grant
  \/ \E c \in Clients : Begin(c) \/ CommitFirst(c) \/ NotifyAfter(c) \/ NotifyInside(c) \/ Answer(c)

\* What the server keeps doing by itself: connections are handed out, and the
\* statements of an action that has one come to an end.
PoolFairness ==
  /\ WF_poolVars(Grant)
  /\ \A c \in Clients :
       WF_poolVars(CommitFirst(c) \/ NotifyAfter(c) \/ NotifyInside(c) \/ Answer(c))

PoolSpec == PoolInit /\ [][PoolNext]_poolVars /\ PoolFairness

----------------------------------------------------------------------------
(* Properties.                                                             *)

\* Every connection is held by a resolution that waits for another one.
AllWaitOnEachOther ==
  Cardinality({c \in Resolving : stage[c] = "inside"}) >= PoolSize

\* Whoever waits for a connection is answered, unless that happens: the actions
\* that notify after their commit never hold each other up.
Answered ==
  \A c \in Clients : (stage[c] # "rest") ~> (stage[c] = "rest" \/ AllWaitOnEachOther)

============================================================================
