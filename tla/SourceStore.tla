----------------------------- MODULE SourceStore -----------------------------
(***************************************************************************)
(* The PostgreSQL source library (SqlAlchemySourceLibrary): imports and    *)
(* reviews of source versions as transactions that run at READ COMMITTED   *)
(* and interleave.  A transaction is cut where another one can come        *)
(* between its statements: what it has read it keeps in imp or rev, and it *)
(* writes in its last step.                                                *)
(*                                                                         *)
(* The ORM writes a column only when the value it assigns differs from the *)
(* value it loaded, and flushes no write before the end of a review.       *)
(***************************************************************************)
EXTENDS SourceRecords

CONSTANTS
  Importer,   \* concurrent import requests
  Reviewer    \* concurrent review requests

VARIABLES
  rows,       \* source_versions: [Version -> Row or Unstored], committed
  known,      \* source_documents: the sources that have a committed row
  created,    \* how many version rows were created (the clock of fetched_at)
  imp,        \* the import each importer runs
  rev,        \* the review each reviewer runs
  audit,      \* the newest source_reviews record of each version
  approvals   \* history: versions that an approving review was recorded for

vars == <<rows, known, created, imp, rev, audit, approvals>>

NoImport == [stage |-> "idle", source |-> "none", digest |-> "none",
             licence |-> "none", fresh |-> FALSE, version |-> NoVersion]
ImportTxn == [stage: {"reading", "flushed"}, source: Source, digest: Digest,
              licence: Licence, fresh: BOOLEAN, version: Version \cup {NoVersion}]

NoReview == [stage |-> "idle", version |-> NoVersion, status |-> "none",
             licence |-> "none", seen |-> [status |-> "none", licence |-> "none"],
             older |-> {}]
ReviewTxn == [stage: {"loaded", "selected"}, version: Version, status: Decision,
              licence: Licence \cup {Keep},
              seen: [status: Status, licence: Licence], older: SUBSET Version]

AuditRecord == [status: Decision, licence: Licence]

TypeOK ==
  /\ rows \in [Version -> Row \cup {Unstored}]
  /\ known \in SUBSET Source
  /\ created \in 0 .. MaxVersions
  /\ imp \in [Importer -> ImportTxn \cup {NoImport}]
  /\ rev \in [Reviewer -> ReviewTxn \cup {NoReview}]
  /\ audit \in [Version -> AuditRecord \cup {NoAudit}]
  /\ approvals \in SUBSET Version

Init ==
  /\ rows = [v \in Version |-> Unstored]
  /\ known = {}
  /\ created = 0
  /\ imp = [p \in Importer |-> NoImport]
  /\ rev = [p \in Reviewer |-> NoReview]
  /\ audit = [v \in Version |-> NoAudit]
  /\ approvals = {}

-----------------------------------------------------------------------------
(* import_source                                                           *)

\* The first statements: find the source, look for a version with the same
\* digest.  Finding one ends the import with that version, unchanged.
ImportRead(p, s, d, l) ==
  /\ imp[p].stage = "idle"
  /\ Carrying(rows, s, d) = {}
  /\ imp' = [imp EXCEPT ![p] = [stage |-> "reading", source |-> s, digest |-> d,
                                licence |-> l, fresh |-> s \notin known,
                                version |-> NoVersion]]
  /\ UNCHANGED <<rows, known, created, rev, audit, approvals>>

\* A unique index entry another open transaction has inserted: the insert
\* waits until that transaction ends.
HeldByAnother(p) ==
  \E q \in Importer \ {p} :
    /\ imp[q].stage = "flushed"
    /\ imp[q].source = imp[p].source
    /\ \/ imp[q].digest = imp[p].digest
       \/ imp[q].fresh /\ imp[p].fresh

\* Mutated form: the tables without their unique constraints.
ConflictsUnnoticed(p) == FALSE

\* ... and one a committed transaction has inserted: IntegrityError.
UniqueConflict(p) ==
  \/ imp[p].fresh /\ imp[p].source \in known
  \/ Carrying(rows, imp[p].source, imp[p].digest) # {}

Flushed(txn, v) ==
  [stage |-> "flushed", source |-> txn.source, digest |-> txn.digest,
   licence |-> txn.licence, fresh |-> txn.fresh, version |-> v]

ImportFlush(p) ==
  /\ imp[p].stage = "reading"
  /\ ~HeldByAnother(p)
  /\ ~UniqueConflict(p)
  /\ created < MaxVersions
  /\ created' = created + 1
  /\ imp' = [imp EXCEPT ![p] = Flushed(@, created + 1)]
  /\ UNCHANGED <<rows, known, rev, audit, approvals>>

\* IntegrityError: roll back and, in a new transaction, return the version
\* that carries the digest, or, when there is none, raise the error.  Either
\* way this request writes nothing.
ImportConflict(p) ==
  /\ imp[p].stage = "reading"
  /\ ~HeldByAnother(p)
  /\ UniqueConflict(p)
  /\ imp' = [imp EXCEPT ![p] = NoImport]
  /\ UNCHANGED <<rows, known, created, rev, audit, approvals>>

\* Chunks are cut, embedded and inserted with their citations; commit.
ImportCommit(p) ==
  /\ imp[p].stage = "flushed"
  /\ rows' = [rows EXCEPT ![imp[p].version] =
                PendingRow(imp[p].source, imp[p].digest, imp[p].licence)]
  /\ known' = known \cup {imp[p].source}
  /\ imp' = [imp EXCEPT ![p] = NoImport]
  /\ UNCHANGED <<created, rev, audit, approvals>>

\* The embedding provider or the connection fails: all of it is rolled back.
ImportAbort(p) ==
  /\ imp[p].stage # "idle"
  /\ imp' = [imp EXCEPT ![p] = NoImport]
  /\ UNCHANGED <<rows, known, created, rev, audit, approvals>>

\* What is hashed and stored as text: nothing of a metadata-only import.
PayloadDigest(body, l, metadataOnly) == IF metadataOnly THEN l ELSE body

Import(p) ==
  \/ \E s \in Source, t \in Text, l \in Licence, m \in BOOLEAN :
       ImportRead(p, s, PayloadDigest(t, l, m), l)
  \/ ImportFlush(p)
  \/ ImportConflict(p)
  \/ ImportCommit(p)
  \/ ImportAbort(p)

-----------------------------------------------------------------------------
(* review_source                                                           *)

\* The version is the one the request names, or the newest of the source: in
\* both cases a committed one, loaded with its present status and licence.
ReviewLoad(p, v, st, l) ==
  /\ rev[p].stage = "idle"
  /\ v \in Stored(rows)
  /\ rev' = [rev EXCEPT ![p] =
       [stage |-> "loaded", version |-> v, status |-> st, licence |-> l,
        seen |-> [status |-> rows[v].status, licence |-> rows[v].licence],
        older |-> {}]]
  /\ UNCHANGED <<rows, known, created, imp, audit, approvals>>

\* Mutated forms: versions of every source, and only those created earlier.
UnsupersededAnywhere(v) ==
  {w \in Stored(rows) \ {v} :
     rows[w].status = "approved" /\ rows[w].superseded = NoVersion}
UnsupersededElders(v) ==
  {w \in OfSource(rows, rows[v].source) :
     w < v /\ rows[w].status = "approved" /\ rows[w].superseded = NoVersion}

\* _supersede_older_approved_versions: every other approved version of the
\* source that nothing supersedes yet, whatever its age.
UnsupersededSiblings(v) ==
  {w \in OfSource(rows, rows[v].source) \ {v} :
     rows[w].status = "approved" /\ rows[w].superseded = NoVersion}

Selected(txn, older) ==
  [stage |-> "selected", version |-> txn.version, status |-> txn.status,
   licence |-> txn.licence, seen |-> txn.seen, older |-> older]

ReviewSelect(p) ==
  /\ rev[p].stage = "loaded"
  /\ rev[p].status = "approved"
  /\ rev' = [rev EXCEPT ![p] = Selected(@, UnsupersededSiblings(rev[p].version))]
  /\ UNCHANGED <<rows, known, created, imp, audit, approvals>>

\* Mutated form: licence_status is assigned even when the request has none.
AssignedLicenceAlways(r) == r.licence

AssignedLicence(r) == IF r.licence = Keep THEN r.seen.licence ELSE r.licence

\* A column is written only when the review changed the value it loaded.
Written(stored, loaded, assigned) == IF assigned = loaded THEN stored ELSE assigned

\* Mutated forms: the licence is recorded but not assigned to the row; an
\* approval puts the version back in force.
LicenceUnassigned(r, v) == rows[v].licence
SupersededUnlessApproved(r, v) ==
  IF v \in r.older THEN r.version
  ELSE IF v = r.version /\ r.status = "approved" THEN NoVersion
  ELSE rows[v].superseded

LicenceAfter(r, v) ==
  IF v = r.version THEN Written(rows[v].licence, r.seen.licence, AssignedLicence(r))
                   ELSE rows[v].licence
StatusAfter(r, v) ==
  IF v = r.version THEN Written(rows[v].status, r.seen.status, r.status)
                   ELSE rows[v].status
SupersededAfter(r, v) ==
  IF v \in r.older THEN r.version ELSE rows[v].superseded

ReviewedRow(r, v) ==
  [source |-> rows[v].source, digest |-> rows[v].digest,
   licence |-> LicenceAfter(r, v), status |-> StatusAfter(r, v),
   superseded |-> SupersededAfter(r, v)]

ReviewCommit(p) ==
  LET r == rev[p] IN
  /\ r.stage = IF r.status = "approved" THEN "selected" ELSE "loaded"
  /\ rows' = [v \in Version |-> ReviewedRow(r, v)]
  /\ audit' = [audit EXCEPT ![r.version] =
                 [status |-> r.status, licence |-> AssignedLicence(r)]]
  /\ approvals' = IF r.status = "approved" THEN approvals \cup {r.version}
                                           ELSE approvals
  /\ rev' = [rev EXCEPT ![p] = NoReview]
  /\ UNCHANGED <<known, created, imp>>

ReviewAbort(p) ==
  /\ rev[p].stage # "idle"
  /\ rev' = [rev EXCEPT ![p] = NoReview]
  /\ UNCHANGED <<rows, known, created, imp, audit, approvals>>

Review(p) ==
  \/ \E v \in Version, st \in Decision, l \in Licence \cup {Keep} :
       ReviewLoad(p, v, st, l)
  \/ ReviewSelect(p)
  \/ ReviewCommit(p)
  \/ ReviewAbort(p)

-----------------------------------------------------------------------------
(* What the search reads                                                   *)

\* The versions whose chunks search_chunks returns: its WHERE clause asks
\* for review_status = 'approved' and nothing else, and only versions with
\* text have chunks.
SearchableVersions ==
  {v \in Stored(rows) : rows[v].status = "approved" /\ ~MetadataOnly(rows[v])}

-----------------------------------------------------------------------------
Next ==
  \/ \E p \in Importer : Import(p)
  \/ \E p \in Reviewer : Review(p)

Spec == Init /\ [][Next]_vars

-----------------------------------------------------------------------------
(* Safety, whatever the reviewers and importers interleave                 *)

\* Re-importing a text never creates a second version of it in its source:
\* two requests that both saw no duplicate are told apart by the unique
\* constraint, and the loser returns the winner's version.
NoDuplicateContent ==
  \A v, w \in Stored(rows) :
    rows[v].source = rows[w].source /\ rows[v].digest = rows[w].digest => v = w

\* superseded_by_version_id of a version names another committed version of
\* the same source, one that a review approved.
SupersessionSound ==
  \A v \in Superseded(rows) :
    LET w == rows[v].superseded IN
    /\ w \in OfSource(rows, rows[v].source) \ {v}
    /\ w \in approvals

\* No later review, of any version, makes a superseded version citable again.
SupersededStaysOut ==
  [][\A v \in Superseded(rows) : v \notin Citable(rows')]_vars

-----------------------------------------------------------------------------
(* Safety when reviews run one at a time                                   *)

\* At most one version of a source is citable.  The search returns superseded
\* versions as well, but no two versions of one source that are not: whoever
\* reads its hits can tell which text is in force.
OneCitable ==
  /\ OneCitablePerSource(rows)
  /\ \A v, w \in SearchableVersions \ Superseded(rows) :
       rows[v].source = rows[w].source => v = w

\* The newest review record of a version says what its row says: the audit
\* trail explains every status and licence a reviewer set.
AuditAgrees ==
  \A v \in Stored(rows) :
    audit[v] # NoAudit =>
      rows[v].status = audit[v].status /\ rows[v].licence = audit[v].licence

\* The store is the register of citable versions.
Register == INSTANCE CitableRegister WITH
  Nobody <- "none",
  owner <- [v \in Version |-> rows[v].source],
  citable <- Citable(rows),
  retired <- Superseded(rows)

IsRegister == Register!Spec

=============================================================================
