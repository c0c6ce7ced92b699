------------------------------- MODULE SignIn -------------------------------
(***************************************************************************)
(* Signing up and signing in, with the login rate limiter of one server.   *)
(*                                                                         *)
(* authorize looks at the limiter, then awaits the user's row, then awaits *)
(* the password hash, and only then tells the limiter how it went: what    *)
(* other attempts on the same e-mail do in between is not seen.  Sign-up   *)
(* and the first Google sign-in look for the e-mail before they insert it. *)
(***************************************************************************)
EXTENDS Integers, FiniteSets

CONSTANTS
  Emails,
  Attempts,      \* calls that may be under way at once
  MaxFailures,   \* MAX_FAILURES
  Window         \* WINDOW_MS, in ticks of the clock

ASSUME SignInAssumption ==
  /\ IsFiniteSet(Attempts)
  /\ MaxFailures \in Nat \ {0}
  /\ Window \in Nat \ {0}

VARIABLES
  account,   \* users: how each e-mail can sign in
  bucket,    \* the limiter's store: failures, and the lockout with what is left of it
  attempt    \* each call under way

signInVars == <<account, bucket, attempt>>

----------------------------------------------------------------------------
Empty == [failures |-> 0, locked |-> FALSE, left |-> 0]
Idle  == [at |-> "rest"]

\* looked: past the limiter, before the row; verifying: awaiting the hash.
SignInTypeOK ==
  /\ account \in [Emails -> {"none", "password", "google"}]
  /\ bucket \in [Emails -> [failures : Nat, locked : BOOLEAN, left : 0..Window]]
  /\ attempt \in [Attempts ->
       {Idle} \cup [at : {"looked", "verifying"}, email : Emails, knows : BOOLEAN]
              \cup [at : {"hashing", "provisioning"}, email : Emails]]

SignInInit ==
  /\ account = [e \in Emails |-> "none"]
  /\ bucket = [e \in Emails |-> Empty]
  /\ attempt = [a \in Attempts |-> Idle]

----------------------------------------------------------------------------
(* rate-limit.ts.                                                          *)

LockedOut(e) == bucket[e].locked /\ bucket[e].left > 0

\* isRateLimited: an expired bucket is deleted when it is next looked at.
LookedAt(e) == IF bucket[e].locked /\ ~ LockedOut(e) THEN Empty ELSE bucket[e]

\* recordLoginFailure: every failure from the last allowed one on starts a whole
\* window again.
Recorded(b) ==
  IF b.failures + 1 >= MaxFailures
  THEN [failures |-> b.failures + 1, locked |-> TRUE, left |-> Window]
  ELSE [b EXCEPT !.failures = @ + 1]

RecordLoginFailure(e) == bucket' = [bucket EXCEPT ![e] = Recorded(@)]
ClearLoginFailures(e) == bucket' = [bucket EXCEPT ![e] = Empty]

----------------------------------------------------------------------------
(* authorize.                                                              *)

Becomes(a, stage) == attempt' = [attempt EXCEPT ![a] = stage]

\* A bug: the limiter is looked at, but its answer is only logged.
AuthorizeUnlimited(a, e, knows) ==
  /\ attempt[a] = Idle
  /\ bucket' = [bucket EXCEPT ![e] = LookedAt(e)]
  /\ Becomes(a, [at |-> "looked", email |-> e, knows |-> knows])
  /\ UNCHANGED account

\* A bug: an attempt on a locked-out e-mail starts the window again.
AuthorizeExtending(a, e, knows) ==
  /\ attempt[a] = Idle
  /\ IF LockedOut(e)
     THEN bucket' = [bucket EXCEPT ![e].left = Window] /\ UNCHANGED attempt
     ELSE /\ bucket' = [bucket EXCEPT ![e] = LookedAt(e)]
          /\ Becomes(a, [at |-> "looked", email |-> e, knows |-> knows])
  /\ UNCHANGED account

\* An attempt on a locked-out e-mail is refused on the spot.
Authorize(a, e, knows) ==
  /\ attempt[a] = Idle
  /\ ~ LockedOut(e)
  /\ bucket' = [bucket EXCEPT ![e] = LookedAt(e)]
  /\ Becomes(a, [at |-> "looked", email |-> e, knows |-> knows])
  /\ UNCHANGED account

\* The user's row arrives: no account, or one without a password, is a failure.
UserRead(a) ==
  /\ attempt[a].at = "looked"
  /\ IF account[attempt[a].email] = "password"
     THEN Becomes(a, [attempt[a] EXCEPT !.at = "verifying"]) /\ UNCHANGED bucket
     ELSE RecordLoginFailure(attempt[a].email) /\ Becomes(a, Idle)
  /\ UNCHANGED account

\* The hash has been verified.
PasswordVerified(a) ==
  /\ attempt[a].at = "verifying"
  /\ IF attempt[a].knows
     THEN ClearLoginFailures(attempt[a].email)
     ELSE RecordLoginFailure(attempt[a].email)
  /\ Becomes(a, Idle)
  /\ UNCHANGED account

----------------------------------------------------------------------------
(* Accounts.                                                               *)

\* signUpAction: an e-mail that is taken is answered at once.
SignUp(a, e) ==
  /\ attempt[a] = Idle
  /\ account[e] = "none"
  /\ Becomes(a, [at |-> "hashing", email |-> e])
  /\ UNCHANGED <<account, bucket>>

\* The insert, then a sign-in with the new password; or the unique index objects.
SignUpInsert(a) ==
  /\ attempt[a].at = "hashing"
  /\ LET e == attempt[a].email
     IN  IF account[e] = "none"
         THEN /\ account' = [account EXCEPT ![e] = "password"]
              /\ bucket' = [bucket EXCEPT ![e] = LookedAt(e)]
              /\ Becomes(a, IF LockedOut(e) THEN Idle
                            ELSE [at |-> "looked", email |-> e, knows |-> TRUE])
         ELSE Becomes(a, Idle) /\ UNCHANGED <<account, bucket>>

\* The signIn callback of a Google sign-in: no row yet.
GoogleSignIn(a, e) ==
  /\ attempt[a] = Idle
  /\ account[e] = "none"
  /\ Becomes(a, [at |-> "provisioning", email |-> e])
  /\ UNCHANGED <<account, bucket>>

GoogleProvision(a) ==
  /\ attempt[a].at = "provisioning"
  /\ LET e == attempt[a].email
     IN  account' = [account EXCEPT ![e] = IF @ = "none" THEN "google" ELSE @]
  /\ Becomes(a, Idle)
  /\ UNCHANGED bucket

----------------------------------------------------------------------------
Tick ==
  /\ \E e \in Emails : bucket[e].left > 0
  /\ bucket' = [e \in Emails |->
       [bucket[e] EXCEPT !.left = IF @ > 0 THEN @ - 1 ELSE 0]]
  /\ UNCHANGED <<account, attempt>>

\* The store lives in memory: "resets on server restart".
ServerRestarts ==
  /\ bucket' = [e \in Emails |-> Empty]
  /\ attempt' = [a \in Attempts |-> Idle]
  /\ UNCHANGED account

SignInNext ==
  \/ \E a \in Attempts, e \in Emails :
       \/ \E knows \in BOOLEAN : Authorize(a, e, knows)
       \/ SignUp(a, e) \/ GoogleSignIn(a, e)
  \/ \E a \in Attempts :
       UserRead(a) \/ PasswordVerified(a) \/ SignUpInsert(a) \/ GoogleProvision(a)
  \/ Tick \/ ServerRestarts

\* Time passes; nothing else has to happen.
SignInFairness == WF_signInVars(Tick)

SignInSpec == SignInInit /\ [][SignInNext]_signInVars /\ SignInFairness

----------------------------------------------------------------------------
(* Properties.                                                             *)

\* The lockout is checked before the password and recorded after, so more than
\* MaxFailures passwords can be tried before it holds; never more than one more
\* for each attempt that was already under way.
GuessesBounded ==
  \A e \in Emails : bucket[e].failures < MaxFailures + Cardinality(Attempts)

\* Every lockout ends, though each late failure starts its window again: no new
\* attempt gets past the limiter meanwhile.
LockoutEnds == \A e \in Emails : LockedOut(e) ~> ~ LockedOut(e)

============================================================================
