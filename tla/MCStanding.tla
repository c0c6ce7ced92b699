----------------------------- MODULE MCStanding -----------------------------
(* A caregiver with one document of each type the ladder asks for, and a     *)
(* second one with none, who asks for a URL too; a caregiver with two        *)
(* completed sessions; and the notices of one booking.  These three write    *)
(* different rows and read none of each other's: they are checked side by    *)
(* side, one of them moving while the others rest in their initial state.    *)
EXTENDS Verification, Ratings, Notices, TLC

CONSTANTS s1, s2, f1, f2, h1, h2, j1, j2, w1, w2, amina, nadia, cin, police, health, reference

MCOwnerOf == [d \in Documents |-> amina]
MCTypeOf ==
  [d \in Documents |-> CASE d = cin -> "cin" [] d = police -> "police_clearance"
                         [] d = health -> "health_cert" [] d = reference -> "reference"]
MCFileOf == [d \in Documents |-> [bytes |-> MaxDocBytes, mime |-> "application/pdf"]]

\* The admin looks at a CIN, and another caregiver tries to.
MCViewed == {<<Admin, cin>>, <<nadia, cin>>}

MCSymmetry ==
  Permutations(Slots) \cup Permutations(Submits) \cup Permutations(Handlers)

\* Bound: of a booking whose start comes near, the reminders are followed and not what
\* its session leads to; of one whose start stays far, all but the reminders.  The job
\* reads a booking's status and nothing a payment writes.
MCApart ==
  \A b \in Visits : clock[b] = "far" \/ visit[b] \notin {"completed", "disputed"}

Init == VerificationInit /\ RatingsInit /\ NoticesInit

Next ==
  \/ RatingsInit /\ NoticesInit /\ VerificationNext /\ UNCHANGED <<ratingVars, noticeVars>>
  \/ VerificationInit /\ NoticesInit /\ RatingsNext /\ UNCHANGED <<verificationVars, noticeVars>>
  \/ VerificationInit /\ RatingsInit /\ NoticesNext /\ MCApart'
     /\ UNCHANGED <<verificationVars, ratingVars>>

Spec == Init /\ [][Next]_<<verificationVars, ratingVars, noticeVars>>

============================================================================
