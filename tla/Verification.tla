---------------------------- MODULE Verification ----------------------------
(***************************************************************************)
(* A caregiver's documents and the verification level computed from them.  *)
(*                                                                         *)
(* An upload puts the bytes in the private bucket and then inserts the     *)
(* row; an admin's decision updates the row.  Both read all documents of   *)
(* the caregiver in the same transaction and write the level they compute. *)
(* A read sees what is committed and the transaction's own writes: two     *)
(* transactions of one caregiver that overlap do not see each other's.     *)
(***************************************************************************)
EXTENDS Levels, FiniteSets

CONSTANTS
  Caregivers,    \* caregivers
  Admin,         \* the admin who reviews documents
  Documents,     \* documents that may be uploaded
  OwnerOf,       \* whose document it is
  TypeOf,        \* its type
  FileOf,        \* its file: [bytes, mime]
  Slots,         \* server actions that may be in flight at once
  Viewed,        \* bound: who asks for the URL of which document
  MaxUrls        \* bound: no URL is asked for once the log holds this many

ASSUME DocumentsAssumption ==
  /\ OwnerOf \in [Documents -> Caregivers]
  /\ TypeOf \in [Documents -> DocumentTypes]
  /\ Admin \notin Caregivers
  /\ Viewed \subseteq (Caregivers \cup {Admin}) \X Documents

VARIABLES
  document,    \* verification_documents: the status of each
  level,       \* caregiver_profiles.verification_level
  approvals,   \* audit_logs: the documents with a recorded approval
  objects,     \* the private bucket: the documents whose bytes it holds
  accessLog,   \* access_audit_logs: [user, document]
  urls,        \* the signed URLs handed out: [user, document]
  slot,        \* the server action each slot is running
  raced        \* history: caregivers two of whose transactions overlapped

verificationVars == <<document, level, approvals, objects, accessLog, urls, slot, raced>>

----------------------------------------------------------------------------
\* A caregiver's documents as the level sees them, statuses given by doc.
DocsOf(c, doc) ==
  {[type |-> TypeOf[d], status |-> doc[d]] : d \in {e \in Documents : OwnerOf[e] = c}}

LevelOf(c, doc) == ComputeLevel(DocsOf(c, doc))

Statuses == DocumentStatuses \cup {"none"}
Decisions == {"approved", "rejected"}

Free == [op |-> "free"]

Actions ==
  [op : {"upload"}, at : {"insert"}, on : Documents]
    \cup [op : {"upload"}, at : {"commit"}, on : Documents, level : Levels]
    \cup [op : {"review"}, at : {"commit"}, on : Documents, decision : Decisions, level : Levels]
    \cup [op : {"url"}, at : {"log", "answer"}, on : Documents, user : Caregivers \cup {Admin}]

VerificationTypeOK ==
  /\ document \in [Documents -> Statuses]
  /\ level \in [Caregivers -> Levels]
  /\ approvals \subseteq Documents
  /\ objects \subseteq Documents
  /\ accessLog \subseteq [user : Caregivers \cup {Admin}, document : Documents]
  /\ urls \subseteq [user : Caregivers \cup {Admin}, document : Documents]
  /\ slot \in [Slots -> Actions \cup {Free}]
  /\ raced \subseteq Caregivers

VerificationInit ==
  /\ document = [d \in Documents |-> "none"]
  /\ level = [c \in Caregivers |-> "unverified"]
  /\ approvals = {}
  /\ objects = {}
  /\ accessLog = {}
  /\ urls = {}
  /\ slot = [s \in Slots |-> Free]
  /\ raced = {}

----------------------------------------------------------------------------
MaxDocBytes == 5 * 1024 * 1024
AllowedDocMime == {"image/jpeg", "image/png", "application/pdf"}

ValidDocumentFile(file) ==
  file.bytes > 0 /\ file.bytes <= MaxDocBytes /\ file.mime \in AllowedDocMime

\* Transactions of a caregiver that have read the documents and not committed.
Reading(c, s) ==
  {t \in Slots \ {s} : /\ slot[t].op \in {"upload", "review"}
                       /\ slot[t].at = "commit" /\ OwnerOf[slot[t].on] = c}

\* The transaction of slot s has read the documents of c.
HasRead(c, s) == raced' = IF Reading(c, s) = {} THEN raced ELSE raced \cup {c}

\* A bug: the row is inserted before its bytes are stored.
UploadPutLate(s, d) ==
  /\ slot[s] = Free
  /\ document[d] = "none"
  /\ \A t \in Slots : slot[t] # Free => slot[t].on # d
  /\ slot' = [slot EXCEPT ![s] = [op |-> "upload", at |-> "insert", on |-> d]]
  /\ UNCHANGED <<document, level, approvals, objects, accessLog, urls, raced>>

\* uploadVerificationDocument: the bytes are stored first.
UploadPut(s, d) ==
  /\ slot[s] = Free
  /\ document[d] = "none"
  /\ \A t \in Slots : slot[t] # Free => slot[t].on # d
  /\ ValidDocumentFile(FileOf[d])
  /\ objects' = objects \cup {d}
  /\ slot' = [slot EXCEPT ![s] = [op |-> "upload", at |-> "insert", on |-> d]]
  /\ UNCHANGED <<document, level, approvals, accessLog, urls, raced>>

\* The insert of the pending row, and the level computed with it.
UploadInsert(s) ==
  /\ slot[s].op = "upload" /\ slot[s].at = "insert"
  /\ LET d == slot[s].on
         c == OwnerOf[d]
     IN  /\ slot' = [slot EXCEPT ![s] =
              [op |-> "upload", at |-> "commit", on |-> d,
               level |-> LevelOf(c, [document EXCEPT ![d] = "pending"])]]
         /\ HasRead(c, s)
  /\ UNCHANGED <<document, level, approvals, objects, accessLog, urls>>

\* A bug: the level is left to the next decision.
UploadCommitOnly(s) ==
  /\ slot[s].op = "upload" /\ slot[s].at = "commit"
  /\ document' = [document EXCEPT ![slot[s].on] = "pending"]
  /\ slot' = [slot EXCEPT ![s] = Free]
  /\ UNCHANGED <<level, approvals, objects, accessLog, urls, raced>>

UploadCommit(s) ==
  /\ slot[s].op = "upload" /\ slot[s].at = "commit"
  /\ document' = [document EXCEPT ![slot[s].on] = "pending"]
  /\ level' = [level EXCEPT ![OwnerOf[slot[s].on]] = slot[s].level]
  /\ slot' = [slot EXCEPT ![s] = Free]
  /\ UNCHANGED <<approvals, objects, accessLog, urls, raced>>

\* No other transaction holds the document's row.
Unlocked(d) == \A t \in Slots : slot[t].op = "review" => slot[t].on # d

\* reviewDocument: any document, whatever its status; the row is updated (and
\* locked), then the level is computed with the decision.
ReviewDocument(s, d, decision) ==
  /\ slot[s] = Free
  /\ document[d] # "none"
  /\ Unlocked(d)
  /\ slot' = [slot EXCEPT ![s] =
       [op |-> "review", at |-> "commit", on |-> d, decision |-> decision,
        level |-> LevelOf(OwnerOf[d], [document EXCEPT ![d] = decision])]]
  /\ HasRead(OwnerOf[d], s)
  /\ UNCHANGED <<document, level, approvals, objects, accessLog, urls>>

\* A bug: the decision is written where the level belongs.
ReviewCommitSwapped(s) ==
  /\ slot[s].op = "review"
  /\ document' = [document EXCEPT ![slot[s].on] = slot[s].decision]
  /\ approvals' = IF slot[s].decision = "approved" THEN approvals \cup {slot[s].on} ELSE approvals
  /\ level' = [level EXCEPT ![OwnerOf[slot[s].on]] = slot[s].decision]
  /\ slot' = [slot EXCEPT ![s] = Free]
  /\ UNCHANGED <<objects, accessLog, urls, raced>>

ReviewCommit(s) ==
  /\ slot[s].op = "review"
  /\ document' = [document EXCEPT ![slot[s].on] = slot[s].decision]
  /\ approvals' = IF slot[s].decision = "approved" THEN approvals \cup {slot[s].on} ELSE approvals
  /\ level' = [level EXCEPT ![OwnerOf[slot[s].on]] = slot[s].level]
  /\ slot' = [slot EXCEPT ![s] = Free]
  /\ UNCHANGED <<objects, accessLog, urls, raced>>

\* A bug: the row is read on a connection that sees every document.
VisibleToAll(u, d) == document[d] # "none"

----------------------------------------------------------------------------
\* Row-level security: a document is visible to its owner and to admins.
Visible(u, d) == document[d] # "none" /\ u \in {OwnerOf[d], Admin}

\* getDocumentSignedUrl: read the row, mint the URL, log the access, commit;
\* only then does the caller get the URL.
RequestUrl(s, u, d) ==
  /\ slot[s] = Free
  /\ Cardinality(accessLog) < MaxUrls
  /\ Visible(u, d)
  /\ slot' = [slot EXCEPT ![s] = [op |-> "url", at |-> "log", on |-> d, user |-> u]]
  /\ UNCHANGED <<document, level, approvals, objects, accessLog, urls, raced>>

LogAccess(s) ==
  /\ slot[s].op = "url" /\ slot[s].at = "log"
  /\ accessLog' = accessLog \cup {[user |-> slot[s].user, document |-> slot[s].on]}
  /\ slot' = [slot EXCEPT ![s].at = "answer"]
  /\ UNCHANGED <<document, level, approvals, objects, urls, raced>>

AnswerUrl(s) ==
  /\ slot[s].op = "url" /\ slot[s].at = "answer"
  /\ urls' = urls \cup {[user |-> slot[s].user, document |-> slot[s].on]}
  /\ slot' = [slot EXCEPT ![s] = Free]
  /\ UNCHANGED <<document, level, approvals, objects, accessLog, raced>>

\* A call throws: the transaction rolls back, a stored object stays.
ActionFails(s) ==
  /\ slot[s] # Free
  /\ slot' = [slot EXCEPT ![s] = Free]
  /\ UNCHANGED <<document, level, approvals, objects, accessLog, urls, raced>>

VerificationNext ==
  \E s \in Slots :
    \/ \E d \in Documents : UploadPut(s, d)
    \/ UploadInsert(s) \/ UploadCommit(s)
    \/ \E d \in Documents, decision \in Decisions : ReviewDocument(s, d, decision)
    \/ ReviewCommit(s)
    \/ \E v \in Viewed : RequestUrl(s, v[1], v[2])
    \/ LogAccess(s) \/ AnswerUrl(s) \/ ActionFails(s)

VerificationSpec == VerificationInit /\ [][VerificationNext]_verificationVars

----------------------------------------------------------------------------
(* Properties.                                                             *)

\* A document of c of this type has been approved by an admin, some day.
OnceApproved(c, type) == \E d \in approvals : OwnerOf[d] = c /\ TypeOf[d] = type

\* Trust is earned: however uploads and decisions interleave and fail, a
\* caregiver stands on a rung only when every document that rung asks for was
\* approved by an admin and the approval is in the audit log.
LevelEarned ==
  \A c \in Caregivers : \A type \in Asked(level[c]) : OnceApproved(c, type)

\* "Trust is never sticky": while a caregiver's transactions come one at a time,
\* the stored level is the one computed from today's documents.
LevelCurrentInTurn ==
  \A c \in Caregivers \ raced : level[c] = LevelOf(c, document)

\* Every signed URL that left the server is in the access log, and went to the
\* document's owner or to an admin, even when calls fail between the steps.
UrlsOnRecord ==
  \A g \in urls : g \in accessLog /\ g.user \in {OwnerOf[g.document], Admin}

\* A row appears only for bytes that are in the bucket at that moment.
RowAfterObject ==
  [][\A d \in Documents :
       document[d] = "none" /\ document'[d] # "none" => d \in objects]_verificationVars

============================================================================
