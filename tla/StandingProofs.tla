--------------------------- MODULE StandingProofs ---------------------------
(***************************************************************************)
(* Proofs about a caregiver's standing: Verification, for any caregivers,  *)
(* any documents of any types and files, and any number of calls in        *)
(* flight; and Ratings, for any sessions, stars and number of forms.       *)
(***************************************************************************)
EXTENDS Verification, Ratings, SequenceTheorems, NaturalsInduction, WellFoundedInduction, TLAPS

----------------------------------------------------------------------------
(* The ladder.                                                             *)

\* computeVerificationLevel gives one of the five levels, and every type the level
\* asks for is approved.
LEMMA LadderSound ==
  ASSUME NEW docs
  PROVE  /\ ComputeLevel(docs) \in Levels
         /\ \A type \in Asked(ComputeLevel(docs)) : Approved(docs, type)
<1>1. /\ "unverified" \in Levels /\ "id_checked" \in Levels /\ "cin_verified" \in Levels
      /\ "background_cleared" \in Levels /\ "certified" \in Levels
  BY DEF Levels, Ladder
<1>2. QED
  BY <1>1 DEF ComputeLevel, Asked

LEMMA LevelOfDocuments ==
  ASSUME NEW c \in Caregivers, NEW doc
  PROVE  /\ LevelOf(c, doc) \in Levels
         /\ \A type \in Asked(LevelOf(c, doc)) :
              \E d \in Documents : OwnerOf[d] = c /\ TypeOf[d] = type /\ doc[d] = "approved"
<1>1. ASSUME NEW type, Approved(DocsOf(c, doc), type)
      PROVE  \E d \in Documents : OwnerOf[d] = c /\ TypeOf[d] = type /\ doc[d] = "approved"
  BY <1>1 DEF Approved, DocsOf
<1>2. QED
  BY <1>1, LadderSound DEF LevelOf

----------------------------------------------------------------------------
(* The inductive invariant.                                                *)

\* A document that stands as approved was approved, and the log has it.
ApprovalLogged == \A d \in Documents : document[d] = "approved" => d \in approvals

\* The level a transaction is about to write asks for nothing but what was approved
\* before it, or is by its own decision.
LevelDue(q) ==
  q.op \in {"upload", "review"} /\ q.at = "commit" =>
    \A type \in Asked(q.level) :
      \/ OnceApproved(OwnerOf[q.on], type)
      \/ q.op = "review" /\ q.decision = "approved" /\ TypeOf[q.on] = type

\* An upload has stored its bytes; a decision is about a row that exists; a URL is for
\* somebody who sees the document, and is logged before it is answered.
CallBacked(q) ==
  /\ q.op = "upload" => q.on \in objects
  /\ q.op = "review" => document[q.on] # "none"
  /\ q.op = "url" => q.user \in {OwnerOf[q.on], Admin}
  /\ q.op = "url" /\ q.at = "answer" => [user |-> q.user, document |-> q.on] \in accessLog

SlotsBacked == \A s \in Slots : LevelDue(slot[s]) /\ CallBacked(slot[s])

LogBacked == \A g \in accessLog : g.user \in {OwnerOf[g.document], Admin}

VInv ==
  /\ VerificationTypeOK
  /\ ApprovalLogged /\ LevelEarned
  /\ SlotsBacked
  /\ LogBacked /\ UrlsOnRecord

----------------------------------------------------------------------------
LEMMA VInit ==
  ASSUME VerificationInit
  PROVE  VInv
<1>1. VerificationTypeOK
  BY DEF VerificationInit, VerificationTypeOK, Statuses, DocumentStatuses, Levels, Ladder, Free,
         Actions
<1>2. Asked("unverified") = {}
  BY DEF Asked
<1>3. QED
  BY <1>1, <1>2 DEF VerificationInit, VInv, ApprovalLogged, LevelEarned, SlotsBacked, LevelDue,
         CallBacked, LogBacked, UrlsOnRecord, Free

\* A slot's call, and the shape of its record.
LEMMA SlotShape ==
  ASSUME VerificationTypeOK, NEW s \in Slots
  PROVE  /\ slot[s].op = "upload" => slot[s].on \in Documents
         /\ slot[s].op = "upload" /\ slot[s].at = "commit" => slot[s].level \in Levels
         /\ slot[s].op = "review" => /\ slot[s].on \in Documents
                                     /\ slot[s].decision \in Decisions
                                     /\ slot[s].level \in Levels
                                     /\ slot[s].at = "commit"
         /\ slot[s].op = "url" =>
              slot[s] \in [op : {"url"}, at : {"log", "answer"}, on : Documents,
                           user : Caregivers \cup {Admin}]
BY DEF VerificationTypeOK, Actions, Free

----------------------------------------------------------------------------
(* The steps: types.                                                       *)

LEMMA VTypeStep ==
  ASSUME VerificationTypeOK, VerificationNext
  PROVE  VerificationTypeOK'
<1> USE DocumentsAssumption DEF VerificationTypeOK
<1>2. PICK s \in Slots :
        \/ \E d \in Documents : UploadPut(s, d)
        \/ UploadInsert(s) \/ UploadCommit(s)
        \/ \E d \in Documents, decision \in Decisions : ReviewDocument(s, d, decision)
        \/ ReviewCommit(s)
        \/ \E v \in Viewed : RequestUrl(s, v[1], v[2])
        \/ LogAccess(s) \/ AnswerUrl(s) \/ ActionFails(s)
  BY DEF VerificationNext
<1>3. ASSUME NEW d \in Documents, UploadPut(s, d) PROVE VerificationTypeOK'
  <2>1. [op |-> "upload", at |-> "insert", on |-> d] \in Actions
    BY DEF Actions
  <2>2. QED
    BY <1>3, <2>1 DEF UploadPut
<1>4. CASE UploadInsert(s)
  <2>1. slot[s].on \in Documents /\ OwnerOf[slot[s].on] \in Caregivers
    BY <1>4, SlotShape DEF UploadInsert
  <2> DEFINE q == [op |-> "upload", at |-> "commit", on |-> slot[s].on,
                   level |-> LevelOf(OwnerOf[slot[s].on], [document EXCEPT ![slot[s].on] = "pending"])]
  <2>2. q \in Actions
    BY <2>1, LevelOfDocuments DEF Actions
  <2>3. slot' = [slot EXCEPT ![s] = q] /\ raced' \subseteq Caregivers
    BY <1>4, <2>1 DEF UploadInsert, HasRead
  <2>4. QED
    BY <1>4, <2>2, <2>3 DEF UploadInsert
<1>5. CASE UploadCommit(s)
  <2>1. slot[s].on \in Documents /\ OwnerOf[slot[s].on] \in Caregivers /\ slot[s].level \in Levels
    BY <1>5, SlotShape DEF UploadCommit
  <2>2. QED
    BY <1>5, <2>1 DEF UploadCommit, Statuses, DocumentStatuses
<1>6. ASSUME NEW d \in Documents, NEW decision \in Decisions, ReviewDocument(s, d, decision)
      PROVE  VerificationTypeOK'
  <2> DEFINE q == [op |-> "review", at |-> "commit", on |-> d, decision |-> decision,
                   level |-> LevelOf(OwnerOf[d], [document EXCEPT ![d] = decision])]
  <2>1. q \in Actions
    BY LevelOfDocuments DEF Actions
  <2>2. slot' = [slot EXCEPT ![s] = q] /\ raced' \subseteq Caregivers
    BY <1>6 DEF ReviewDocument, HasRead
  <2>3. QED
    BY <1>6, <2>1, <2>2 DEF ReviewDocument
<1>7. CASE ReviewCommit(s)
  <2>1. /\ slot[s].on \in Documents /\ OwnerOf[slot[s].on] \in Caregivers
        /\ slot[s].level \in Levels /\ slot[s].decision \in Statuses
    BY <1>7, SlotShape DEF ReviewCommit, Decisions, Statuses, DocumentStatuses
  <2>2. QED
    BY <1>7, <2>1 DEF ReviewCommit
<1>8. ASSUME NEW v \in Viewed, RequestUrl(s, v[1], v[2]) PROVE VerificationTypeOK'
  <2>1. v[1] \in Caregivers \cup {Admin} /\ v[2] \in Documents
    OBVIOUS
  <2>2. [op |-> "url", at |-> "log", on |-> v[2], user |-> v[1]] \in Actions
    BY <2>1 DEF Actions
  <2>3. QED
    BY <1>8, <2>2 DEF RequestUrl
<1>9. CASE LogAccess(s)
  <2>1. slot[s] \in [op : {"url"}, at : {"log", "answer"}, on : Documents,
                     user : Caregivers \cup {Admin}]
    BY <1>9, SlotShape DEF LogAccess
  <2>2. [slot[s] EXCEPT !.at = "answer"] \in Actions
    BY <2>1 DEF Actions
  <2>3. [user |-> slot[s].user, document |-> slot[s].on]
          \in [user : Caregivers \cup {Admin}, document : Documents]
    BY <2>1
  <2>4. QED
    BY <1>9, <2>2, <2>3 DEF LogAccess
<1>10. CASE AnswerUrl(s)
  <2>1. [user |-> slot[s].user, document |-> slot[s].on]
          \in [user : Caregivers \cup {Admin}, document : Documents]
    BY <1>10, SlotShape DEF AnswerUrl
  <2>2. QED
    BY <1>10, <2>1 DEF AnswerUrl
<1>11. CASE ActionFails(s)
  BY <1>11 DEF ActionFails
<1>12. QED
  BY <1>2, <1>3, <1>4, <1>5, <1>6, <1>7, <1>8, <1>9, <1>10, <1>11

----------------------------------------------------------------------------
(* The steps: the rest.                                                    *)

\* What is about other slots stays true when what they rest on only grows.
LEMMA OthersBacked ==
  ASSUME VInv, NEW s \in Slots, NEW q, slot' = [slot EXCEPT ![s] = q],
         approvals \subseteq approvals', objects \subseteq objects', accessLog \subseteq accessLog',
         \A d \in Documents : document[d] # "none" => document'[d] # "none",
         LevelDue(q)', CallBacked(q)'
  PROVE  SlotsBacked'
<1>1. ASSUME NEW t \in Slots, t # s
      PROVE  LevelDue(slot[t])' /\ CallBacked(slot[t])'
  <2>1. slot'[t] = slot[t] /\ LevelDue(slot[t]) /\ CallBacked(slot[t])
    BY <1>1 DEF VInv, SlotsBacked, VerificationTypeOK
  <2>2. LevelDue(slot[t])'
    BY <2>1 DEF LevelDue, OnceApproved
  <2>3. CallBacked(slot[t])'
    BY <2>1, SlotShape DEF CallBacked, VInv
  <2>4. QED
    BY <2>2, <2>3
<1>2. slot'[s] = q
  BY DEF VInv, VerificationTypeOK
<1>3. LevelDue(slot[s])' /\ CallBacked(slot[s])'
  BY <1>2 DEF LevelDue, CallBacked, OnceApproved
<1>4. QED
  BY <1>1, <1>3 DEF SlotsBacked

\* The step of one slot, seen from what the invariant says beside the types.
Backed == ApprovalLogged /\ LevelEarned /\ SlotsBacked /\ LogBacked /\ UrlsOnRecord

LEMMA UploadPutStep ==
  ASSUME VInv, NEW s \in Slots, NEW d \in Documents, UploadPut(s, d)
  PROVE  Backed'
<1> DEFINE q == [op |-> "upload", at |-> "insert", on |-> d]
<1>1. LevelDue(q)' /\ CallBacked(q)'
  BY DEF UploadPut, LevelDue, CallBacked
<1>2. SlotsBacked'
  BY <1>1, OthersBacked DEF UploadPut
<1>3. QED
  BY <1>2 DEF UploadPut, Backed, VInv, ApprovalLogged, LevelEarned, OnceApproved, LogBacked,
              UrlsOnRecord

LEMMA UploadInsertStep ==
  ASSUME VInv, NEW s \in Slots, UploadInsert(s)
  PROVE  Backed'
<1>1. PICK d : d = slot[s].on
  OBVIOUS
<1>2. PICK doc : doc = [document EXCEPT ![d] = "pending"]
  OBVIOUS
<1>3. PICK q : q = [op |-> "upload", at |-> "commit", on |-> d,
                    level |-> LevelOf(OwnerOf[d], doc)]
  OBVIOUS
<1>4. d \in Documents /\ OwnerOf[d] \in Caregivers /\ d \in objects
  BY <1>1, SlotShape, DocumentsAssumption DEF UploadInsert, VInv, SlotsBacked, CallBacked
<1>5. \A e \in Documents : doc[e] = "approved" => e \in approvals
  BY <1>2, <1>4 DEF VInv, ApprovalLogged, VerificationTypeOK
<1>6. /\ slot' = [slot EXCEPT ![s] = q]
      /\ UNCHANGED <<document, level, approvals, objects, accessLog, urls>>
  BY <1>1, <1>2, <1>3 DEF UploadInsert
<1>7. LevelDue(q)'
  <2>1. \A type \in Asked(LevelOf(OwnerOf[d], doc)) :
          \E e \in Documents : OwnerOf[e] = OwnerOf[d] /\ TypeOf[e] = type /\ doc[e] = "approved"
    BY <1>4, LevelOfDocuments
  <2>2. \A type \in Asked(LevelOf(OwnerOf[d], doc)) : OnceApproved(OwnerOf[d], type)
    BY <1>5, <2>1 DEF OnceApproved
  <2>3. QED
    BY <1>3, <1>6, <2>2 DEF LevelDue, OnceApproved
<1>8. CallBacked(q)'
  BY <1>3, <1>4, <1>6 DEF CallBacked
<1>9. SlotsBacked'
  BY <1>6, <1>7, <1>8, OthersBacked
<1>10. QED
  BY <1>6, <1>9 DEF Backed, VInv, ApprovalLogged, LevelEarned, OnceApproved, LogBacked,
                    UrlsOnRecord

LEMMA UploadCommitStep ==
  ASSUME VInv, NEW s \in Slots, UploadCommit(s)
  PROVE  Backed'
<1>1. /\ slot[s].on \in Documents /\ OwnerOf[slot[s].on] \in Caregivers
      /\ slot[s].level \in Levels
  BY SlotShape, DocumentsAssumption DEF UploadCommit, VInv
<1>2. \A type \in Asked(slot[s].level) : OnceApproved(OwnerOf[slot[s].on], type)
  BY DEF UploadCommit, VInv, SlotsBacked, LevelDue
<1>3. LevelEarned'
  BY <1>1, <1>2 DEF UploadCommit, LevelEarned, OnceApproved, VInv, VerificationTypeOK
<1>4. ApprovalLogged'
  BY <1>1 DEF UploadCommit, ApprovalLogged, VInv, VerificationTypeOK
<1>5. SlotsBacked'
  <2>1. LevelDue(Free)' /\ CallBacked(Free)'
    BY DEF LevelDue, CallBacked, Free
  <2>2. \A d \in Documents : document[d] # "none" => document'[d] # "none"
    BY <1>1 DEF UploadCommit, VInv, VerificationTypeOK
  <2>3. QED
    BY <2>1, <2>2, OthersBacked DEF UploadCommit
<1>6. QED
  BY <1>3, <1>4, <1>5 DEF UploadCommit, Backed, VInv, LogBacked, UrlsOnRecord

LEMMA ReviewDocumentStep ==
  ASSUME VInv, NEW s \in Slots, NEW d \in Documents, NEW decision \in Decisions,
         ReviewDocument(s, d, decision)
  PROVE  Backed'
<1>1. PICK doc : doc = [document EXCEPT ![d] = decision]
  OBVIOUS
<1>2. PICK q : q = [op |-> "review", at |-> "commit", on |-> d, decision |-> decision,
                    level |-> LevelOf(OwnerOf[d], doc)]
  OBVIOUS
<1>3. OwnerOf[d] \in Caregivers /\ document[d] # "none"
  BY DocumentsAssumption DEF ReviewDocument
<1>0. PICK known : known = IF decision = "approved" THEN approvals \cup {d} ELSE approvals
  OBVIOUS
<1>4. \A e \in Documents : doc[e] = "approved" => e \in known
  BY <1>0, <1>1 DEF VInv, ApprovalLogged, VerificationTypeOK
<1>5. /\ slot' = [slot EXCEPT ![s] = q]
      /\ UNCHANGED <<document, level, approvals, objects, accessLog, urls>>
  BY <1>1, <1>2 DEF ReviewDocument
<1>6. LevelDue(q)'
  <2>1. SUFFICES ASSUME NEW type \in Asked(LevelOf(OwnerOf[d], doc))
                 PROVE  OnceApproved(OwnerOf[d], type) \/ (decision = "approved" /\ TypeOf[d] = type)
    BY <1>2, <1>5 DEF LevelDue, OnceApproved
  <2>2. PICK e \in Documents :
          OwnerOf[e] = OwnerOf[d] /\ TypeOf[e] = type /\ doc[e] = "approved"
    BY <1>3, LevelOfDocuments
  <2>3. QED
    BY <1>0, <1>4, <2>2 DEF OnceApproved
<1>7. CallBacked(q)'
  BY <1>2, <1>3, <1>5 DEF CallBacked
<1>8. SlotsBacked'
  BY <1>5, <1>6, <1>7, OthersBacked
<1>9. QED
  BY <1>5, <1>8 DEF Backed, VInv, ApprovalLogged, LevelEarned, OnceApproved, LogBacked,
                    UrlsOnRecord

LEMMA ReviewCommitStep ==
  ASSUME VInv, NEW s \in Slots, ReviewCommit(s)
  PROVE  Backed'
<1>1. PICK d, decision : d = slot[s].on /\ decision = slot[s].decision
  OBVIOUS
<1>2. /\ d \in Documents /\ OwnerOf[d] \in Caregivers /\ decision \in Decisions
      /\ slot[s].level \in Levels /\ slot[s].at = "commit" /\ slot[s].op = "review"
  BY <1>1, SlotShape, DocumentsAssumption DEF ReviewCommit, VInv
<1>3. \A type \in Asked(slot[s].level) :
        OnceApproved(OwnerOf[d], type) \/ (decision = "approved" /\ TypeOf[d] = type)
  BY <1>1, <1>2 DEF VInv, SlotsBacked, LevelDue
<1>4. /\ document' = [document EXCEPT ![d] = decision]
      /\ approvals' = IF decision = "approved" THEN approvals \cup {d} ELSE approvals
      /\ level' = [level EXCEPT ![OwnerOf[d]] = slot[s].level]
      /\ slot' = [slot EXCEPT ![s] = Free]
      /\ UNCHANGED <<objects, accessLog, urls>>
  BY <1>1 DEF ReviewCommit
<1>5. \A c, type : OnceApproved(c, type) => OnceApproved(c, type)'
  BY <1>4 DEF OnceApproved
<1>6. LevelEarned'
  <2>1. ASSUME NEW type \in Asked(slot[s].level) PROVE OnceApproved(OwnerOf[d], type)'
    BY <1>2, <1>3, <1>4, <1>5 DEF OnceApproved
  <2>2. \A c \in Caregivers : level'[c] = IF c = OwnerOf[d] THEN slot[s].level ELSE level[c]
    BY <1>2, <1>4 DEF VInv, VerificationTypeOK
  <2>3. QED
    BY <1>5, <2>1, <2>2 DEF LevelEarned, VInv
<1>7. ApprovalLogged'
  BY <1>2, <1>4 DEF ApprovalLogged, VInv, VerificationTypeOK
<1>8. SlotsBacked'
  <2>1. LevelDue(Free)' /\ CallBacked(Free)'
    BY DEF LevelDue, CallBacked, Free
  <2>2. \A e \in Documents : document[e] # "none" => document'[e] # "none"
    BY <1>2, <1>4 DEF VInv, VerificationTypeOK, Decisions
  <2>3. approvals \subseteq approvals'
    BY <1>4
  <2>4. QED
    BY <1>4, <2>1, <2>2, <2>3, OthersBacked
<1>9. QED
  BY <1>4, <1>6, <1>7, <1>8 DEF Backed, VInv, LogBacked, UrlsOnRecord

\* Asking for a URL, logging the access, answering, and failing.
LEMMA UrlStep ==
  ASSUME VInv, NEW s \in Slots,
         (\E v \in Viewed : RequestUrl(s, v[1], v[2])) \/ LogAccess(s) \/ AnswerUrl(s)
           \/ ActionFails(s)
  PROVE  Backed'
<1>1. /\ UNCHANGED <<document, level, approvals, objects>>
      /\ accessLog \subseteq accessLog'
  BY DEF RequestUrl, LogAccess, AnswerUrl, ActionFails
<1>2. ApprovalLogged' /\ LevelEarned'
  BY <1>1 DEF VInv, ApprovalLogged, LevelEarned, OnceApproved
<1>3. CASE \E v \in Viewed : RequestUrl(s, v[1], v[2])
  <2>1. PICK v \in Viewed : RequestUrl(s, v[1], v[2])
    BY <1>3
  <2>2. PICK q : q = [op |-> "url", at |-> "log", on |-> v[2], user |-> v[1]]
    OBVIOUS
  <2>3. LevelDue(q)' /\ CallBacked(q)'
    BY <2>1, <2>2 DEF RequestUrl, LevelDue, CallBacked, Visible
  <2>4. SlotsBacked'
    BY <1>1, <2>1, <2>2, <2>3, OthersBacked DEF RequestUrl
  <2>5. QED
    BY <1>2, <2>1, <2>4 DEF RequestUrl, Backed, VInv, LogBacked, UrlsOnRecord
<1>4. CASE LogAccess(s)
  <2>1. PICK u, d : u = slot[s].user /\ d = slot[s].on
    OBVIOUS
  <2>2. PICK q : q = [slot[s] EXCEPT !.at = "answer"]
    OBVIOUS
  <2>3. slot[s] \in [op : {"url"}, at : {"log", "answer"}, on : Documents,
                     user : Caregivers \cup {Admin}]
    BY <1>4, SlotShape DEF LogAccess, VInv
  <2>4. q.op = "url" /\ q.at = "answer" /\ q.on = d /\ q.user = u
    BY <2>1, <2>2, <2>3
  <2>5. u \in {OwnerOf[d], Admin}
    BY <2>1, <2>3 DEF VInv, SlotsBacked, CallBacked
  <2>6. accessLog' = accessLog \cup {[user |-> u, document |-> d]}
    BY <1>4, <2>1 DEF LogAccess
  <2>7. LevelDue(q)' /\ CallBacked(q)'
    BY <2>4, <2>5, <2>6 DEF LevelDue, CallBacked
  <2>8. SlotsBacked'
    BY <1>1, <1>4, <2>2, <2>7, OthersBacked DEF LogAccess
  <2>9. LogBacked'
    BY <2>5, <2>6 DEF VInv, LogBacked
  <2>10. UrlsOnRecord'
    BY <1>4, <2>6 DEF LogAccess, VInv, UrlsOnRecord
  <2>11. QED
    BY <1>2, <2>8, <2>9, <2>10 DEF Backed
<1>5. CASE AnswerUrl(s)
  <2>1. PICK g : g = [user |-> slot[s].user, document |-> slot[s].on]
    OBVIOUS
  <2>2. g \in accessLog /\ g.user \in {OwnerOf[g.document], Admin}
    BY <1>5, <2>1 DEF AnswerUrl, VInv, SlotsBacked, CallBacked
  <2>3. LevelDue(Free)' /\ CallBacked(Free)'
    BY DEF LevelDue, CallBacked, Free
  <2>4. SlotsBacked'
    BY <1>1, <1>5, <2>3, OthersBacked DEF AnswerUrl
  <2>5. UrlsOnRecord'
    BY <1>5, <2>1, <2>2 DEF AnswerUrl, VInv, UrlsOnRecord
  <2>6. QED
    BY <1>2, <1>5, <2>4, <2>5 DEF AnswerUrl, Backed, VInv, LogBacked
<1>6. CASE ActionFails(s)
  <2>1. LevelDue(Free)' /\ CallBacked(Free)'
    BY DEF LevelDue, CallBacked, Free
  <2>2. SlotsBacked'
    BY <1>1, <1>6, <2>1, OthersBacked DEF ActionFails
  <2>3. QED
    BY <1>2, <1>6, <2>2 DEF ActionFails, Backed, VInv, LogBacked, UrlsOnRecord
<1>7. QED
  BY <1>3, <1>4, <1>5, <1>6

----------------------------------------------------------------------------
LEMMA VStep ==
  ASSUME VInv, [VerificationNext]_verificationVars
  PROVE  VInv'
<1>1. CASE VerificationNext
  <2>1. VerificationTypeOK'
    BY <1>1, VTypeStep DEF VInv
  <2>2. Backed'
    BY <1>1, UploadPutStep, UploadInsertStep, UploadCommitStep, ReviewDocumentStep,
       ReviewCommitStep, UrlStep DEF VerificationNext
  <2>3. QED
    BY <2>1, <2>2 DEF VInv, Backed
<1>2. CASE UNCHANGED verificationVars
  BY <1>2 DEF verificationVars, VInv, VerificationTypeOK, ApprovalLogged, LevelEarned,
     OnceApproved, SlotsBacked, LevelDue, CallBacked, LogBacked, UrlsOnRecord
<1>3. QED
  BY <1>1, <1>2

\* The invariant holds in every behaviour of uploads, decisions and URL requests.
THEOREM VerificationInvariant == VerificationSpec => []VInv
<1>1. QED
  BY VInit, VStep, PTL DEF VerificationSpec

\* The types of a caregiver's documents, level and calls.
THEOREM VerificationTypes == VerificationSpec => []VerificationTypeOK
<1>1. VInv => VerificationTypeOK
  BY DEF VInv
<1>2. QED
  BY <1>1, VerificationInvariant, PTL

\* recompute never lifts a caregiver above what an admin approved: whichever
\* transactions overlap, every document the stored level asks for has its approval
\* in the audit log.
THEOREM LevelIsEarned == VerificationSpec => []LevelEarned
<1>1. VInv => LevelEarned
  BY DEF VInv
<1>2. QED
  BY <1>1, VerificationInvariant, PTL

\* getDocumentSignedUrl: no URL leaves the server unlogged, or to a stranger.
THEOREM UrlsAreOnRecord == VerificationSpec => []UrlsOnRecord
<1>1. VInv => UrlsOnRecord
  BY DEF VInv
<1>2. QED
  BY <1>1, VerificationInvariant, PTL

\* uploadVerificationDocument: a row never appears before its bytes are stored.
THEOREM RowsFollowObjects == VerificationSpec => RowAfterObject
<1>1. ASSUME VInv, [VerificationNext]_verificationVars
      PROVE  [\A d \in Documents :
                document[d] = "none" /\ document'[d] # "none" => d \in objects]_verificationVars
  <2>1. CASE VerificationNext
    <3>1. PICK s \in Slots :
            \/ document' = document
            \/ UploadCommit(s) \/ ReviewCommit(s)
      BY <2>1 DEF VerificationNext, UploadPut, UploadInsert, ReviewDocument, RequestUrl, LogAccess,
                  AnswerUrl, ActionFails
    <3>2. ASSUME NEW d \in Documents, document[d] = "none", document'[d] # "none"
          PROVE  d \in objects
      <4>1. document' # document
        BY <3>2
      <4>2. CASE UploadCommit(s)
        <5>1. d = slot[s].on
          BY <3>2, <4>2 DEF UploadCommit, VInv, VerificationTypeOK
        <5>2. QED
          BY <1>1, <4>2, <5>1 DEF UploadCommit, VInv, SlotsBacked, CallBacked
      <4>3. CASE ReviewCommit(s)
        <5>1. d = slot[s].on
          BY <3>2, <4>3 DEF ReviewCommit, VInv, VerificationTypeOK
        <5>2. QED
          BY <1>1, <3>2, <4>3, <5>1 DEF ReviewCommit, VInv, SlotsBacked, CallBacked
      <4>4. QED
        BY <3>1, <4>1, <4>2, <4>3
    <3>3. QED
      BY <3>2
  <2>2. CASE UNCHANGED verificationVars
    BY <2>2
  <2>3. QED
    BY <1>1, <2>1, <2>2
<1>2. QED
  BY <1>1, VerificationInvariant, PTL DEF VerificationSpec, RowAfterObject

----------------------------------------------------------------------------
(* The level, while a caregiver's transactions come one at a time.         *)

\* A transaction that has read the documents and not committed, and what it makes of
\* the status of its own.
Writing(q) == q.op \in {"upload", "review"} /\ q.at = "commit"
WritingOf(c, q) == Writing(q) /\ OwnerOf[q.on] = c
Change(q) == IF q.op = "upload" THEN "pending" ELSE q.decision
LevelWith(c, q, doc) == LevelOf(c, [doc EXCEPT ![q.on] = Change(q)])

\* One transaction at a time, and its level is that of the documents as its commit
\* will leave them.
LevelKept(c) ==
  /\ level[c] = LevelOf(c, document)
  /\ \A s, t \in Slots : WritingOf(c, slot[s]) /\ WritingOf(c, slot[t]) => s = t
  /\ \A s \in Slots : WritingOf(c, slot[s]) =>
       slot[s].level = LevelWith(c, slot[s], document)

LevelsKept == \A c \in Caregivers \ raced : LevelKept(c)

\* The level looks at nobody else's documents.
LEMMA LevelIsOwn ==
  ASSUME NEW c, NEW old, NEW new,
         \A d \in Documents : OwnerOf[d] = c => new[d] = old[d]
  PROVE  LevelOf(c, new) = LevelOf(c, old)
<1>1. DocsOf(c, new) = DocsOf(c, old)
  BY DEF DocsOf
<1>2. QED
  BY <1>1 DEF LevelOf

\* A call that has not read the documents, or ends without committing.
LEMMA LevelAside ==
  ASSUME VInv, LevelsKept, NEW s \in Slots, NEW q, ~ Writing(q),
         slot' = [slot EXCEPT ![s] = q], UNCHANGED <<document, level, raced>>
  PROVE  LevelsKept'
<1>1. \A t \in Slots : slot'[t] = IF t = s THEN q ELSE slot[t]
  BY DEF VInv, VerificationTypeOK
<1>2. \A t \in Slots : \A c : WritingOf(c, slot'[t]) => slot'[t] = slot[t]
  BY <1>1 DEF WritingOf
<1>3. ASSUME NEW c \in Caregivers \ raced
      PROVE  LevelKept(c)'
  <2>1. LevelKept(c)
    BY <1>3 DEF LevelsKept
  <2>2. QED
    BY <1>2, <2>1 DEF LevelKept
<1>4. QED
  BY <1>3 DEF LevelsKept

\* A transaction has read the documents, its own change among them.
LEMMA LevelBegin ==
  ASSUME VInv, LevelsKept, NEW s \in Slots, NEW q, Writing(q), ~ Writing(slot[s]),
         slot' = [slot EXCEPT ![s] = q], UNCHANGED <<document, level>>,
         q.level = LevelWith(OwnerOf[q.on], q, document), HasRead(OwnerOf[q.on], s)
  PROVE  LevelsKept'
<1>1. \A t \in Slots : slot'[t] = IF t = s THEN q ELSE slot[t]
  BY DEF VInv, VerificationTypeOK
<1>2. ASSUME NEW c \in Caregivers \ raced'
      PROVE  LevelKept(c)'
  <2>1. c \notin raced /\ (OwnerOf[q.on] = c => Reading(c, s) = {})
    BY <1>2 DEF HasRead
  <2>2. LevelKept(c)
    BY <2>1 DEF LevelsKept
  <2>3. CASE OwnerOf[q.on] # c
    <3>1. \A t \in Slots : WritingOf(c, slot'[t]) => slot'[t] = slot[t]
      BY <1>1, <2>3 DEF WritingOf
    <3>2. QED
      BY <2>2, <3>1 DEF LevelKept
  <2>4. CASE OwnerOf[q.on] = c
    <3>1. \A t \in Slots \ {s} : ~ WritingOf(c, slot[t])
      BY <2>1, <2>4 DEF Reading, Writing, WritingOf
    <3>2. \A t \in Slots : WritingOf(c, slot'[t]) => t = s
      BY <1>1, <3>1
    <3>3. slot'[s].level = LevelWith(c, slot'[s], document')
      BY <1>1, <2>4 DEF LevelWith
    <3>4. QED
      BY <2>2, <3>2, <3>3 DEF LevelKept
  <2>5. QED
    BY <2>3, <2>4
<1>3. QED
  BY <1>2 DEF LevelsKept

\* The transaction commits its change and its level.
LEMMA LevelCommit ==
  ASSUME VInv, LevelsKept, NEW s \in Slots, Writing(slot[s]),
         document' = [document EXCEPT ![slot[s].on] = Change(slot[s])],
         level' = [level EXCEPT ![OwnerOf[slot[s].on]] = slot[s].level],
         slot' = [slot EXCEPT ![s] = Free], UNCHANGED raced
  PROVE  LevelsKept'
<1>1. PICK q : q = slot[s]
  OBVIOUS
<1>2. q.on \in Documents /\ OwnerOf[q.on] \in Caregivers
  BY <1>1, SlotShape, DocumentsAssumption DEF VInv, Writing
<1>3. /\ \A t \in Slots : slot'[t] = IF t = s THEN Free ELSE slot[t]
      /\ \A d \in Documents : document'[d] = IF d = q.on THEN Change(q) ELSE document[d]
      /\ \A c \in Caregivers : level'[c] = IF c = OwnerOf[q.on] THEN q.level ELSE level[c]
      /\ DOMAIN document = Documents /\ DOMAIN document' = Documents
  BY <1>1 DEF VInv, VerificationTypeOK
<1>4. \A t \in Slots : \A c : WritingOf(c, slot'[t]) => t # s /\ slot'[t] = slot[t]
  BY <1>3 DEF Writing, WritingOf, Free
<1>5. ASSUME NEW c \in Caregivers \ raced
      PROVE  LevelKept(c)'
  <2>1. LevelKept(c)
    BY <1>5 DEF LevelsKept
  <2>2. CASE OwnerOf[q.on] = c
    <3>0. WritingOf(c, slot[s])
      BY <1>1, <2>2 DEF WritingOf
    <3>1. level'[c] = LevelOf(c, document')
      BY <1>1, <1>3, <2>1, <2>2, <3>0 DEF LevelKept, LevelWith
    <3>2. \A t \in Slots : ~ WritingOf(c, slot'[t])
      BY <1>4, <2>1, <3>0 DEF LevelKept
    <3>3. QED
      BY <3>1, <3>2 DEF LevelKept
  <2>3. CASE OwnerOf[q.on] # c
    <3>1. level'[c] = LevelOf(c, document')
      <4>1. \A d \in Documents : OwnerOf[d] = c => document'[d] = document[d]
        BY <1>3, <2>3
      <4>2. LevelOf(c, document') = LevelOf(c, document)
        BY <4>1, LevelIsOwn
      <4>3. QED
        BY <1>3, <2>1, <2>3, <4>2 DEF LevelKept
    <3>2. ASSUME NEW p
          PROVE  LevelWith(c, p, document') = LevelWith(c, p, document)
      <4>1. PICK old, new : /\ old = [document EXCEPT ![p.on] = Change(p)]
                            /\ new = [document' EXCEPT ![p.on] = Change(p)]
        OBVIOUS
      <4>2. \A d \in Documents : OwnerOf[d] = c => new[d] = old[d]
        BY <1>3, <2>3, <4>1
      <4>3. LevelOf(c, new) = LevelOf(c, old)
        BY <4>2, LevelIsOwn
      <4>4. QED
        BY <4>1, <4>3 DEF LevelWith
    <3>3. \A t \in Slots : WritingOf(c, slot'[t]) =>
            slot'[t].level = LevelWith(c, slot'[t], document')
      <4>1. ASSUME NEW t \in Slots, WritingOf(c, slot'[t])
            PROVE  slot'[t].level = LevelWith(c, slot'[t], document')
        <5>1. PICK p : p = slot[t]
          OBVIOUS
        <5>2. slot'[t] = p /\ p.level = LevelWith(c, p, document)
          BY <1>4, <2>1, <4>1, <5>1 DEF LevelKept
        <5>3. QED
          BY <3>2, <5>2
      <4>2. QED
        BY <4>1
    <3>4. \A t, u \in Slots : WritingOf(c, slot'[t]) /\ WritingOf(c, slot'[u]) => t = u
      BY <1>4, <2>1 DEF LevelKept
    <3>5. QED
      BY <3>1, <3>3, <3>4 DEF LevelKept
  <2>4. QED
    BY <2>2, <2>3
<1>6. QED
  BY <1>5 DEF LevelsKept

LEMMA LevelStep ==
  ASSUME VInv, LevelsKept, [VerificationNext]_verificationVars
  PROVE  LevelsKept'
<1>1. ASSUME NEW s \in Slots, NEW d \in Documents, UploadPut(s, d)
      PROVE  LevelsKept'
  <2>1. PICK q : q = [op |-> "upload", at |-> "insert", on |-> d]
    OBVIOUS
  <2>2. ~ Writing(q) /\ slot' = [slot EXCEPT ![s] = q]
    BY <1>1, <2>1 DEF UploadPut, Writing
  <2>3. QED
    BY <1>1, <2>2, LevelAside DEF UploadPut
<1>2. ASSUME NEW s \in Slots, UploadInsert(s)
      PROVE  LevelsKept'
  <2>1. PICK d, n : /\ d = slot[s].on
                    /\ n = LevelOf(OwnerOf[d], [document EXCEPT ![d] = "pending"])
    OBVIOUS
  <2>2. PICK q : q = [op |-> "upload", at |-> "commit", on |-> d, level |-> n]
    OBVIOUS
  <2>3. Writing(q) /\ q.on = d /\ q.level = LevelWith(OwnerOf[q.on], q, document)
    BY <2>1, <2>2 DEF Writing, LevelWith, Change
  <2>4. slot' = [slot EXCEPT ![s] = q] /\ HasRead(OwnerOf[q.on], s) /\ ~ Writing(slot[s])
    BY <1>2, <2>1, <2>2 DEF UploadInsert, Writing
  <2>5. QED
    BY <1>2, <2>3, <2>4, LevelBegin DEF UploadInsert
<1>3. ASSUME NEW s \in Slots, NEW d \in Documents, NEW decision \in Decisions,
             ReviewDocument(s, d, decision)
      PROVE  LevelsKept'
  <2>1. PICK n : n = LevelOf(OwnerOf[d], [document EXCEPT ![d] = decision])
    OBVIOUS
  <2>2. PICK q : q = [op |-> "review", at |-> "commit", on |-> d, decision |-> decision,
                      level |-> n]
    OBVIOUS
  <2>3. Writing(q) /\ q.on = d /\ q.level = LevelWith(OwnerOf[q.on], q, document)
    BY <2>1, <2>2 DEF Writing, LevelWith, Change
  <2>4. slot' = [slot EXCEPT ![s] = q] /\ HasRead(OwnerOf[q.on], s) /\ ~ Writing(slot[s])
    BY <1>3, <2>1, <2>2 DEF ReviewDocument, Writing, Free
  <2>5. QED
    BY <1>3, <2>3, <2>4, LevelBegin DEF ReviewDocument
<1>4. ASSUME NEW s \in Slots, UploadCommit(s) \/ ReviewCommit(s)
      PROVE  LevelsKept'
  <2>1. Writing(slot[s])
    BY <1>4, SlotShape DEF UploadCommit, ReviewCommit, Writing, VInv
  <2>2. /\ document' = [document EXCEPT ![slot[s].on] = Change(slot[s])]
        /\ level' = [level EXCEPT ![OwnerOf[slot[s].on]] = slot[s].level]
        /\ slot' = [slot EXCEPT ![s] = Free] /\ UNCHANGED raced
    BY <1>4 DEF UploadCommit, ReviewCommit, Change
  <2>3. QED
    BY <2>1, <2>2, LevelCommit
<1>5. ASSUME NEW s \in Slots, AnswerUrl(s) \/ ActionFails(s)
      PROVE  LevelsKept'
  <2>1. ~ Writing(Free) /\ slot' = [slot EXCEPT ![s] = Free]
    BY <1>5 DEF AnswerUrl, ActionFails, Writing, Free
  <2>2. QED
    BY <1>5, <2>1, LevelAside DEF AnswerUrl, ActionFails
<1>6. ASSUME NEW s \in Slots, NEW v \in Viewed, RequestUrl(s, v[1], v[2])
      PROVE  LevelsKept'
  <2>1. PICK q : q = [op |-> "url", at |-> "log", on |-> v[2], user |-> v[1]]
    OBVIOUS
  <2>2. ~ Writing(q) /\ slot' = [slot EXCEPT ![s] = q]
    BY <1>6, <2>1 DEF RequestUrl, Writing
  <2>3. QED
    BY <1>6, <2>2, LevelAside DEF RequestUrl
<1>7. ASSUME NEW s \in Slots, LogAccess(s)
      PROVE  LevelsKept'
  <2>1. PICK q : q = [slot[s] EXCEPT !.at = "answer"]
    OBVIOUS
  <2>2. slot[s] \in [op : {"url"}, at : {"log", "answer"}, on : Documents,
                     user : Caregivers \cup {Admin}]
    BY <1>7, SlotShape DEF LogAccess, VInv
  <2>3. ~ Writing(q) /\ slot' = [slot EXCEPT ![s] = q]
    BY <1>7, <2>1, <2>2 DEF LogAccess, Writing
  <2>4. QED
    BY <1>7, <2>3, LevelAside DEF LogAccess
<1>8. CASE UNCHANGED verificationVars
  BY <1>8 DEF verificationVars, LevelsKept, LevelKept, LevelWith
<1>9. QED
  BY <1>1, <1>2, <1>3, <1>4, <1>5, <1>6, <1>7, <1>8 DEF VerificationNext

\* recomputeLevel, "trust is never sticky": while a caregiver's uploads and decisions
\* come one at a time, the level stored is the level of today's documents, whatever
\* other caregivers' calls interleave and whichever calls fail.
THEOREM LevelIsCurrent == VerificationSpec => []LevelCurrentInTurn
<1>1. VerificationInit => LevelsKept
  <2>1. SUFFICES ASSUME VerificationInit, NEW c \in Caregivers
                 PROVE  LevelKept(c)
    BY DEF LevelsKept
  <2>2. \A type : ~ Approved(DocsOf(c, document), type) /\ ~ PendingCin(DocsOf(c, document))
    BY <2>1 DEF VerificationInit, Approved, PendingCin, DocsOf
  <2>3. LevelOf(c, document) = "unverified"
    BY <2>2 DEF LevelOf, ComputeLevel
  <2>4. \A s \in Slots : ~ WritingOf(c, slot[s])
    BY <2>1 DEF VerificationInit, Writing, WritingOf, Free
  <2>5. QED
    BY <2>1, <2>3, <2>4 DEF VerificationInit, LevelKept
<1>2. LevelsKept => LevelCurrentInTurn
  BY DEF LevelsKept, LevelKept, LevelCurrentInTurn
<1>3. QED
  BY <1>1, <1>2, VInit, VStep, LevelStep, PTL DEF VerificationSpec

----------------------------------------------------------------------------
(* Arithmetic of the ratings.                                              *)

\* A set of numbers has a least one.
LEMMA Least ==
  ASSUME NEW S \in SUBSET Nat, S # {}
  PROVE  \E n \in S : \A m \in S : n <= m
<1>1. PICK n \in S : \A m \in S : <<m, n>> \notin OpToRel(<, Nat)
  BY WFMin, NatLessThanWellFounded, Zenon
<1>2. \A m \in S : ~ (m < n)
  BY <1>1, Zenon DEF OpToRel
<1>3. QED
  BY <1>2

\* A row of the reviews.
Row == Sessions \X Stars

\* What it is to be the partial sums of the stars of s.
Partial(s, sum) == sum = [i \in 0..Len(s) |-> IF i = 0 THEN 0 ELSE sum[i - 1] + s[i][2]]

\* StarsOf is defined: there are partial sums.
LEMMA PartialExists ==
  ASSUME NEW s \in Seq(Row)
  PROVE  \E sum : Partial(s, sum)
<1> DEFINE UpTo(n, g) == g = [i \in 0..n |-> IF i = 0 THEN 0 ELSE g[i - 1] + s[i][2]]
<1>1. SUFFICES ASSUME NEW n \in 0..Len(s)
               PROVE  \E g : UpTo(n, g)
  BY DEF Partial
<1> DEFINE Bad == {k \in 0..Len(s) : ~ \E g : UpTo(k, g)}
<1>2. SUFFICES ASSUME Bad # {} PROVE FALSE
  OBVIOUS
<1>3. PICK k \in Bad : \A m \in Bad : k <= m
  <2>1. Bad \in SUBSET Nat
    OBVIOUS
  <2>2. QED
    BY <1>2, <2>1, Least
<1>4. CASE k = 0
  <2>1. UpTo(0, [i \in 0..0 |-> 0])
    OBVIOUS
  <2>2. QED
    BY <1>3, <1>4, <2>1
<1>5. CASE k # 0
  <2>1. k - 1 \in 0..Len(s) /\ k - 1 \notin Bad /\ k \in Nat
    <3>1. k \in 0..Len(s) /\ Len(s) \in Nat
      OBVIOUS
    <3>2. k - 1 \in 0..Len(s) /\ ~ (k <= k - 1)
      BY <1>5, <3>1
    <3>3. k - 1 \notin Bad
      <4> HIDE DEF Bad
      <4>1. QED
        BY <1>3, <3>2
    <3>4. QED
      BY <3>1, <3>2, <3>3
  <2>2. PICK g : UpTo(k - 1, g)
    BY <2>1
  <2>3. PICK h : h = [i \in 0..k |-> IF i = k THEN g[k - 1] + s[k][2] ELSE g[i]]
    OBVIOUS
  <2>4. \A i \in 0..k : h[i] = IF i = 0 THEN 0 ELSE h[i - 1] + s[i][2]
    BY <1>5, <2>1, <2>2, <2>3
  <2>5. UpTo(k, h)
    BY <2>3, <2>4
  <2>6. QED
    BY <1>3, <2>5
<1>6. QED
  BY <1>4, <1>5

\* Every review adds one star at least, five at most.
LEMMA PartialBounds ==
  ASSUME NEW s \in Seq(Row), NEW sum, Partial(s, sum)
  PROVE  \A n \in 0..Len(s) : sum[n] \in Nat /\ n <= sum[n] /\ sum[n] <= 5 * n
<1> DEFINE Bad == {k \in 0..Len(s) : ~ (sum[k] \in Nat /\ k <= sum[k] /\ sum[k] <= 5 * k)}
<1>1. \A i \in 0..Len(s) : sum[i] = IF i = 0 THEN 0 ELSE sum[i - 1] + s[i][2]
  BY DEF Partial
<1>2. SUFFICES ASSUME Bad # {} PROVE FALSE
  OBVIOUS
<1>3. PICK k \in Bad : \A m \in Bad : k <= m
  <2>1. Bad \in SUBSET Nat
    OBVIOUS
  <2>2. QED
    BY <1>2, <2>1, Least
<1>4. k # 0
  BY <1>1, <1>3
<1>5. k - 1 \in 0..Len(s) /\ k - 1 \notin Bad /\ k \in 1..Len(s)
  BY <1>3, <1>4
<1>6. s[k][2] \in 1..5
  <2>1. s[k] \in Row
    BY <1>5
  <2>2. QED
    BY <2>1, StarsAssumption DEF Row
<1>7. sum[k] = sum[k - 1] + s[k][2]
  BY <1>1, <1>5
<1>8. sum[k - 1] \in Nat /\ k - 1 <= sum[k - 1] /\ sum[k - 1] <= 5 * (k - 1)
  BY <1>5
<1>9. sum[k] \in Nat /\ k <= sum[k] /\ sum[k] <= 5 * k
  BY <1>5, <1>6, <1>7, <1>8
<1>10. QED
  BY <1>3, <1>9

LEMMA StarsBounds ==
  ASSUME NEW s \in Seq(Row)
  PROVE  StarsOf(s) \in Nat /\ Len(s) <= StarsOf(s) /\ StarsOf(s) <= 5 * Len(s)
<1>1. PICK sum : Partial(s, sum) /\ StarsOf(s) = sum[Len(s)]
  BY PartialExists DEF Partial, StarsOf
<1>2. QED
  BY <1>1, PartialBounds

\* 100 times the average, rounded half up, of numbers from one to five.
LEMMA AverageBounds ==
  ASSUME NEW n \in Nat \ {0}, NEW total \in Nat, n <= total, total <= 5 * n
  PROVE  (200 * total + n) \div (2 * n) \in 100..500
<1>1. PICK a, d, q : a = 200 * total + n /\ d = 2 * n /\ q = a \div d
  OBVIOUS
<1>2. a \in Int /\ d \in Nat \ {0} /\ 100 * d <= a /\ a < 501 * d
  BY <1>1
<1>3. q \in Int /\ d * q <= a /\ a < d * q + d
  BY <1>1, <1>2
<1>4. q < 501
  BY <1>2, <1>3
<1>5. q >= 100
  BY <1>2, <1>3
<1>6. QED
  BY <1>1, <1>3, <1>4, <1>5

\* The rating of at least one review.
SomeRating(n) == [avgRating : 100..500, reviewCount : 1..n]

LEMMA RecomputedShape ==
  ASSUME NEW s \in Seq(Row), Len(s) # 0
  PROVE  Recomputed(s) \in SomeRating(Len(s))
<1>1. StarsOf(s) \in Nat /\ Len(s) <= StarsOf(s) /\ StarsOf(s) <= 5 * Len(s)
  BY StarsBounds
<1>2. s # <<>> /\ Len(s) \in Nat \ {0}
  BY EmptySeq
<1>3. (200 * StarsOf(s) + Len(s)) \div (2 * Len(s)) \in 100..500
  BY <1>1, <1>2, AverageBounds
<1>4. QED
  BY <1>2, <1>3 DEF Recomputed, SomeRating

----------------------------------------------------------------------------
(* The inductive invariant of the ratings.                                 *)

\* The rating shown, and the one a form is about to commit, are of reviews there are,
\* its own among them.
RatingsBacked ==
  /\ rating.reviewCount <= Len(rows)
  /\ Len(rows) # 0 => rating \in SomeRating(Len(rows))
  /\ \A f \in Submits : submit[f].at = "commit" => submit[f].rating \in SomeRating(Len(rows) + 1)

\* A form on its way is about a session nobody reviewed, and the rating it is about to
\* commit is that of the reviews there are and its own.
FormCurrent(q) ==
  /\ \A i \in 1..Len(rows) : rows[i][1] # q.of
  /\ q.at = "commit" => q.rating = Recomputed(Append(rows, <<q.of, q.stars>>))

\* While reviews come one at a time.
RatingsCurrent ==
  /\ rating = Recomputed(rows)
  /\ \A i, j \in 1..Len(rows) : rows[i][1] = rows[j][1] => i = j
  /\ \A f, g \in Submits : submit[f].at # "rest" /\ submit[g].at # "rest" => f = g
  /\ \A f \in Submits : submit[f].at # "rest" => FormCurrent(submit[f])

RatingsInv ==
  /\ RatingsTypeOK
  /\ RatingsBacked
  /\ ~ entwined => RatingsCurrent

LEMMA RatingsFirst ==
  ASSUME RatingsInit
  PROVE  RatingsInv
<1>1. \A f \in Submits : submit[f] = NotSending /\ submit[f].at = "rest"
  BY DEF RatingsInit, NotSending
<1>2. rows = <<>> /\ Len(rows) = 0 /\ rating = [avgRating |-> 0, reviewCount |-> 0]
  BY DEF RatingsInit
<1>3. RatingsTypeOK
  <2>1. rows \in Seq(Sessions \X Stars)
    BY <1>2, EmptySeq
  <2>2. rating \in [avgRating : 0..500, reviewCount : Nat]
    BY <1>2
  <2>3. QED
    BY <2>1, <2>2 DEF RatingsInit, RatingsTypeOK
<1>4. RatingsBacked
  BY <1>1, <1>2 DEF RatingsBacked
<1>5. RatingsCurrent
  BY <1>1, <1>2 DEF RatingsCurrent, Recomputed
<1>6. QED
  BY <1>3, <1>4, <1>5 DEF RatingsInv

\* A form, and the shape of its record.
LEMMA FormShape ==
  ASSUME RatingsTypeOK, NEW f \in Submits
  PROVE  /\ submit[f].at \in {"rest", "insert", "commit"}
         /\ submit[f].at = "rest" => submit[f] = NotSending
         /\ submit[f].at # "rest" => submit[f].of \in Sessions /\ submit[f].stars \in Stars
         /\ submit[f].at = "commit" =>
              submit[f].rating \in [avgRating : 0..500, reviewCount : Nat]
BY DEF RatingsTypeOK, NotSending

LEMMA CheckReviewStep ==
  ASSUME RatingsInv, NEW f \in Submits, NEW b \in Sessions, NEW n \in Stars, CheckReview(f, b, n)
  PROVE  RatingsInv'
<1>1. PICK q : q = [at |-> "insert", of |-> b, stars |-> n]
  OBVIOUS
<1>2. q.at = "insert" /\ q.of = b
  BY <1>1
<1>3. /\ \A g \in Submits : submit'[g] = IF g = f THEN q ELSE submit[g]
      /\ UNCHANGED <<rows, rating>>
      /\ submit[f].at = "rest"
  BY <1>1 DEF CheckReview, RatingsInv, RatingsTypeOK, NotSending
<1>4. RatingsTypeOK'
  <2>1. q \in [at : {"insert"}, of : Sessions, stars : Stars]
    BY <1>1
  <2>2. submit' = [submit EXCEPT ![f] = q] /\ entwined' \in BOOLEAN
    BY <1>1 DEF CheckReview, RatingsInv, RatingsTypeOK
  <2>3. QED
    BY <1>3, <2>1, <2>2 DEF RatingsInv, RatingsTypeOK
<1>5. RatingsBacked'
  BY <1>2, <1>3 DEF RatingsInv, RatingsBacked
<1>6. ASSUME ~ entwined' PROVE RatingsCurrent'
  <2>1. ~ entwined /\ \A g \in Submits : submit[g].at = "rest"
    BY <1>6 DEF CheckReview, InFlight
  <2>2. \A g \in Submits : submit'[g].at # "rest" => g = f
    BY <1>3, <2>1
  <2>3. FormCurrent(q)'
    BY <1>2, <1>3 DEF CheckReview, FormCurrent
  <2>4. QED
    BY <1>3, <2>1, <2>2, <2>3 DEF RatingsInv, RatingsCurrent
<1>7. QED
  BY <1>4, <1>5, <1>6 DEF RatingsInv

LEMMA InsertRatingStep ==
  ASSUME RatingsInv, NEW f \in Submits, InsertRating(f)
  PROVE  RatingsInv'
<1>1. PICK r, row : r = submit[f] /\ row = <<r.of, r.stars>>
  OBVIOUS
<1>2. PICK q : q = [at |-> "commit", of |-> r.of, stars |-> r.stars,
                    rating |-> Recomputed(Append(rows, row))]
  OBVIOUS
<1>3. row \in Row /\ r.of \in Sessions /\ r.stars \in Stars /\ r.at = "insert"
  BY <1>1, FormShape DEF InsertRating, RatingsInv, Row
<1>4. /\ \A g \in Submits : submit'[g] = IF g = f THEN q ELSE submit[g]
      /\ submit' = [submit EXCEPT ![f] = q]
      /\ UNCHANGED <<rows, rating, entwined>>
  BY <1>1, <1>2 DEF InsertRating, RatingsInv, RatingsTypeOK
<1>5. rows \in Seq(Row) /\ Len(rows) \in Nat
  BY DEF RatingsInv, RatingsTypeOK, Row
<1>6. Recomputed(Append(rows, row)) \in SomeRating(Len(rows) + 1)
  <2>1. Append(rows, row) \in Seq(Row) /\ Len(Append(rows, row)) = Len(rows) + 1
    BY <1>3, <1>5
  <2>2. PICK s : s = Append(rows, row)
    OBVIOUS
  <2>3. s \in Seq(Row) /\ Len(s) = Len(rows) + 1 /\ Len(s) # 0
    BY <1>5, <2>1, <2>2
  <2>4. QED
    BY <2>2, <2>3, RecomputedShape
<1>7. RatingsTypeOK'
  <2>1. q.rating \in [avgRating : 0..500, reviewCount : Nat]
    BY <1>2, <1>5, <1>6 DEF SomeRating
  <2>2. q \in [at : {"commit"}, of : Sessions, stars : Stars,
               rating : [avgRating : 0..500, reviewCount : Nat]]
    BY <1>2, <1>3, <2>1
  <2>3. QED
    BY <1>4, <2>2 DEF RatingsInv, RatingsTypeOK
<1>8. RatingsBacked'
  BY <1>2, <1>4, <1>6 DEF RatingsInv, RatingsBacked
<1>9. ASSUME ~ entwined' PROVE RatingsCurrent'
  <2>1. RatingsCurrent /\ FormCurrent(r)
    BY <1>1, <1>3, <1>4, <1>9 DEF RatingsInv, RatingsCurrent
  <2>2. FormCurrent(q)'
    BY <1>1, <1>2, <1>4, <2>1 DEF FormCurrent
  <2>3. \A g \in Submits : submit'[g].at # "rest" => submit[g].at # "rest"
    BY <1>1, <1>3, <1>4
  <2>4. \A g \in Submits : g # f => ~ (submit'[g].at # "rest")
    BY <1>1, <1>3, <2>1, <2>3 DEF RatingsCurrent
  <2>5. QED
    BY <1>4, <2>1, <2>2, <2>4 DEF RatingsCurrent
<1>10. QED
  BY <1>7, <1>8, <1>9 DEF RatingsInv

LEMMA CommitRatingStep ==
  ASSUME RatingsInv, NEW f \in Submits, CommitRating(f)
  PROVE  RatingsInv'
<1>1. PICK r, row : r = submit[f] /\ row = <<r.of, r.stars>>
  OBVIOUS
<1>2. row \in Row /\ row[1] = r.of /\ r.at = "commit"
      /\ r.rating \in [avgRating : 0..500, reviewCount : Nat]
  BY <1>1, FormShape DEF CommitRating, RatingsInv, Row
<1>3. /\ \A g \in Submits : submit'[g] = IF g = f THEN NotSending ELSE submit[g]
      /\ rows' = Append(rows, row) /\ rating' = r.rating
      /\ UNCHANGED entwined
  BY <1>1 DEF CommitRating, RatingsInv, RatingsTypeOK
<1>4. rows \in Seq(Row) /\ rows' \in Seq(Row) /\ Len(rows) \in Nat /\ Len(rows') = Len(rows) + 1
  BY <1>2, <1>3 DEF RatingsInv, RatingsTypeOK, Row
<1>5. RatingsTypeOK'
  BY <1>2, <1>3, <1>4 DEF CommitRating, RatingsInv, RatingsTypeOK, Row
<1>6. \A n \in Nat : SomeRating(n) \subseteq SomeRating(n + 1)
  BY DEF SomeRating
<1>7. RatingsBacked'
  <2>1. rating' \in SomeRating(Len(rows'))
    BY <1>1, <1>2, <1>3, <1>4 DEF RatingsInv, RatingsBacked
  <2>2. rating'.reviewCount <= Len(rows')
    BY <1>4, <2>1 DEF SomeRating
  <2>3. \A g \in Submits : submit'[g].at = "commit" => submit'[g].rating \in SomeRating(Len(rows') + 1)
    <3>1. ASSUME NEW g \in Submits, submit'[g].at = "commit"
          PROVE  submit'[g].rating \in SomeRating(Len(rows') + 1)
      <4>1. submit'[g] = submit[g]
        BY <1>3, <3>1 DEF NotSending
      <4>2. submit[g].rating \in SomeRating(Len(rows) + 1)
        BY <3>1, <4>1 DEF RatingsInv, RatingsBacked
      <4>3. QED
        BY <1>4, <1>6, <4>1, <4>2
    <3>2. QED
      BY <3>1
  <2>4. QED
    BY <2>1, <2>2, <2>3 DEF RatingsBacked
<1>8. ASSUME ~ entwined' PROVE RatingsCurrent'
  <2>1. RatingsCurrent /\ FormCurrent(r)
    BY <1>1, <1>2, <1>3, <1>8 DEF RatingsInv, RatingsCurrent
  <2>2. rating' = Recomputed(rows')
    BY <1>1, <1>2, <1>3, <2>1 DEF FormCurrent
  <2>3. \A g \in Submits : submit'[g].at = "rest"
    BY <1>1, <1>2, <1>3, <2>1 DEF RatingsCurrent, NotSending
  <2>4. \A i \in 1..Len(rows') : IF i = Len(rows) + 1 THEN rows'[i] = row ELSE i \in 1..Len(rows) /\ rows'[i] = rows[i]
    BY <1>2, <1>3, <1>4
  <2>5. \A i \in 1..Len(rows) : rows[i][1] # row[1]
    BY <1>2, <2>1 DEF FormCurrent
  <2>6. \A i, j \in 1..Len(rows') : rows'[i][1] = rows'[j][1] => i = j
    BY <2>1, <2>4, <2>5 DEF RatingsCurrent
  <2>7. QED
    BY <2>2, <2>3, <2>6 DEF RatingsCurrent
<1>9. QED
  BY <1>5, <1>7, <1>8 DEF RatingsInv

LEMMA SubmitFailsStep ==
  ASSUME RatingsInv, NEW f \in Submits, SubmitFails(f)
  PROVE  RatingsInv'
<1>1. /\ \A g \in Submits : submit'[g] = IF g = f THEN NotSending ELSE submit[g]
      /\ UNCHANGED <<rows, rating, entwined>>
  BY DEF SubmitFails, RatingsInv, RatingsTypeOK
<1>2. RatingsTypeOK'
  BY <1>1 DEF SubmitFails, RatingsInv, RatingsTypeOK
<1>3. \A g \in Submits : submit'[g].at # "rest" => submit'[g] = submit[g]
  BY <1>1 DEF NotSending
<1>4. RatingsBacked'
  BY <1>1, <1>3 DEF RatingsInv, RatingsBacked
<1>5. ASSUME ~ entwined' PROVE RatingsCurrent'
  BY <1>1, <1>3, <1>5 DEF RatingsInv, RatingsCurrent, FormCurrent
<1>6. QED
  BY <1>2, <1>4, <1>5 DEF RatingsInv

LEMMA RatingsNextStep ==
  ASSUME RatingsInv, [RatingsNext]_ratingVars
  PROVE  RatingsInv'
<1>1. CASE UNCHANGED ratingVars
  BY <1>1 DEF ratingVars, RatingsInv, RatingsTypeOK, RatingsBacked, RatingsCurrent, FormCurrent
<1>2. QED
  BY <1>1, CheckReviewStep, InsertRatingStep, CommitRatingStep, SubmitFailsStep DEF RatingsNext

\* The types of a caregiver's reviews and rating: the rounded average of any number of
\* reviews of one to five stars stays between one star and five.
THEOREM RatingsTypes == RatingsSpec => []RatingsTypeOK
<1>1. RatingsInv => RatingsTypeOK
  BY DEF RatingsInv
<1>2. QED
  BY <1>1, RatingsFirst, RatingsNextStep, PTL DEF RatingsSpec

\* recomputeRating: however reviews overlap or fail, the caregiver never shows more
\* reviews than there are, and once reviewed always at least one star.
THEOREM RatingIsBacked == RatingsSpec => []RatingBacked
<1>1. RatingsInv => RatingBacked
  <2>1. SUFFICES ASSUME RatingsInv PROVE RatingBacked
    OBVIOUS
  <2>2. rows # <<>> => Len(rows) # 0 /\ Len(rows) \in Nat
    <3>1. rows \in Seq(Sessions \X Stars)
      BY <2>1 DEF RatingsInv, RatingsTypeOK
    <3>2. QED
      BY <3>1, EmptySeq
  <2>3. rows # <<>> => rating.reviewCount > 0 /\ rating.avgRating >= 100
    <3>1. ASSUME NEW n \in Nat, NEW r \in SomeRating(n)
          PROVE  r.reviewCount > 0 /\ r.avgRating >= 100
      BY DEF SomeRating
    <3>2. QED
      BY <2>1, <2>2, <3>1 DEF RatingsInv, RatingsBacked
  <2>4. QED
    BY <2>1, <2>2, <2>3 DEF RatingsInv, RatingsBacked, RatingBacked
<1>2. QED
  BY <1>1, RatingsFirst, RatingsNextStep, PTL DEF RatingsSpec

\* submitReview: while reviews come one at a time, each session is reviewed once and the
\* rating shown is that of the reviews there are, failed calls included.
THEOREM RatingIsCurrent == RatingsSpec => []RatingCurrentInTurn
<1>1. RatingsInv => RatingCurrentInTurn
  BY DEF RatingsInv, RatingsCurrent, RatingCurrentInTurn
<1>2. QED
  BY <1>1, RatingsFirst, RatingsNextStep, PTL DEF RatingsSpec

=============================================================================
